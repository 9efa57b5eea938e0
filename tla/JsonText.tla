----------------------------- MODULE JsonText -----------------------------
(***************************************************************************)
(* Reading and writing JSON text (cJSON.c): cJSON_Parse and what it calls, *)
(* the print functions over a buffer that may grow, and cJSON_Minify.      *)
(*                                                                         *)
(* A text is a sequence of bytes without its final NUL, an offset counts   *)
(* from zero as in C, and an item is a record: its key, its value and the  *)
(* items in it.  strtod and sprintf are the C library's; here a number is  *)
(* <<m, e>>, m * 10^e.  No allocation fails.                               *)
(***************************************************************************)
EXTENDS Integers, Sequences, SequencesExt, FiniteSetsExt

CONSTANTS
  CJSON_NESTING_LIMIT,
  NumberSize,             \* of parse_number's number_c_string
  INT_MAX                 \* of the sizes of a print buffer
ASSUME TextAssumption == {CJSON_NESTING_LIMIT, NumberSize, INT_MAX} \subseteq Nat

---------------------------------------------------------------------------
(* Items and bytes. *)
NULL == <<-1>>
\* last says which of the items in it the first one's prev leads to: the last, in every
\* list that is built item by item.
Item(type, value, child) ==
  [type |-> type, value |-> value, child |-> child, last |-> Len(child), string |-> NULL]
NoItem == Item("none", NULL, <<>>)
Named(key, item) == [item EXCEPT !.string = key]

Byte == [tab |-> 9, newline |-> 10, return |-> 13, space |-> 32, quote |-> 34, star |-> 42,
         plus |-> 43, comma |-> 44, minus |-> 45, point |-> 46, slash |-> 47, zero |-> 48,
         colon |-> 58, open |-> 91, backslash |-> 92, close |-> 93, openbrace |-> 123,
         closebrace |-> 125, e |-> 101, E |-> 69, u |-> 117]
DigitBytes == 48 .. 57
Null == <<110, 117, 108, 108>>
False == <<102, 97, 108, 115, 101>>
True == <<116, 114, 117, 101>>

\* \b \f \n \r \t: the letter and what it stands for.
Controls == <<<<98, 8>>, <<102, 12>>, <<110, 10>>, <<114, 13>>, <<116, 9>>>>
ControlOf(letter) == {c[2] : c \in {k \in Range(Controls) : k[1] = letter}}
LetterOf(control) == {c[1] : c \in {k \in Range(Controls) : k[2] = control}}

---------------------------------------------------------------------------
(* Numbers. *)
DigitsFrom(b, i) == LET ends == {k \in i .. Len(b) : b[k] \notin DigitBytes}
                    IN SubSeq(b, i, (IF ends = {} THEN Len(b) + 1 ELSE Min(ends)) - 1)
Amount(digits) == FoldLeft(LAMBDA n, d : 10 * n + (d - Byte.zero), 0, digits)
Lowest[v \in Int \X Int] ==
  CASE v[1] = 0 -> <<0, 0>>
    [] v[1] # 0 /\ v[1] % 10 = 0 -> Lowest[<<v[1] \div 10, v[2] + 1>>]
    [] OTHER -> v

\* The longest prefix that is a number, and the number: sign, digits, point, digits, exponent.
SignAt(b, i) == IF i <= Len(b) /\ b[i] \in {Byte.plus, Byte.minus} THEN 1 ELSE 0
Signed(b, i, n) == IF i <= Len(b) /\ b[i] = Byte.minus THEN -n ELSE n

\* The digits from i on, how many of them are behind a point, and the offset behind them.
Significand(b, i) ==
  LET whole == DigitsFrom(b, i)
      point == i + Len(whole)
      pointed == point <= Len(b) /\ b[point] = Byte.point
      part == IF pointed THEN DigitsFrom(b, point + 1) ELSE <<>>
  IN [digits |-> whole \o part, places |-> Len(part),
      end |-> IF pointed THEN point + Len(part) ELSE point - 1]

\* The exponent behind an offset, and the offset behind it; there is none without a digit.
Exponent(b, end) ==
  LET from == end + 2 + SignAt(b, end + 2)
      power == IF end < Len(b) /\ b[end + 1] \in {Byte.E, Byte.e} THEN DigitsFrom(b, from) ELSE <<>>
  IN [e |-> Signed(b, end + 2, Amount(power)), end |-> IF power = <<>> THEN end ELSE from + Len(power) - 1]

Number(b, m, x) ==
  IF m.digits = <<>> THEN [end |-> 0, number |-> <<0, 0>>]
  ELSE [end |-> x.end, number |-> Lowest[<<Signed(b, 1, Amount(m.digits)), x.e - m.places>>]]
NumberWith(b, m) == Number(b, m, Exponent(b, m.end))
strtod(b) == NumberWith(b, Significand(b, 1 + SignAt(b, 1)))

Decimal[n \in Nat] == IF n < 10 THEN <<Byte.zero + n>> ELSE Append(Decimal[n \div 10], Byte.zero + (n % 10))
Zeros(n) == [i \in 1 .. n |-> Byte.zero]

\* sprintf's %1.15g; %d writes an int the same way.
Formatted(v) ==
  LET d == Decimal[IF v[1] < 0 THEN -v[1] ELSE v[1]]
      x == Len(d) - 1 + v[2]
      tail == IF Len(d) = 1 THEN <<>> ELSE <<Byte.point>> \o Tail(d)
      power == Decimal[IF x < 0 THEN -x ELSE x]
      text == CASE v[2] >= 0 /\ x < 15 -> d \o Zeros(v[2])
                [] v[2] < 0 /\ x >= 0 -> SubSeq(d, 1, x + 1) \o <<Byte.point>> \o SubSeq(d, x + 2, Len(d))
                [] x < 0 /\ x >= -4 -> <<Byte.zero, Byte.point>> \o Zeros(-x - 1) \o d
                [] OTHER -> <<d[1]>> \o tail \o <<Byte.e, IF x < 0 THEN Byte.minus ELSE Byte.plus>>
                              \o (IF Len(power) < 2 THEN <<Byte.zero>> ELSE <<>>) \o power
  IN (IF v[1] < 0 THEN <<Byte.minus>> ELSE <<>>) \o text

---------------------------------------------------------------------------
(* Parsing.  b is the text and its NUL, o the offset; a parser returns whether *)
(* it succeeded, the item, and the offset it has left in the parse buffer.     *)
Ok(item, o) == [ok |-> TRUE, item |-> item, o |-> o]
Fail(o) == [ok |-> FALSE, item |-> NoItem, o |-> o]

At(b, o, byte) == o < Len(b) /\ b[o + 1] = byte
Reads(b, o, word) == o + Len(word) <= Len(b) /\ SubSeq(b, o + 1, o + Len(word)) = word

\* fault: behind the NUL the offset stays there.
SkipPast(b, o) ==
  LET rest == {i \in o .. Len(b) - 1 : b[i + 1] > Byte.space}
  IN IF o >= Len(b) THEN o ELSE IF rest = {} THEN Len(b) ELSE Min(rest)

\* The NUL is skipped as well; at the end the offset goes back to it.
buffer_skip_whitespace(b, o) ==
  LET rest == {i \in o .. Len(b) - 1 : b[i + 1] > Byte.space}
  IN IF o >= Len(b) THEN o ELSE IF rest = {} THEN Len(b) - 1 ELSE Min(rest)

parse_number(b, o) ==
  LET charset == DigitBytes \cup {Byte.plus, Byte.minus, Byte.e, Byte.E, Byte.point}
      ends == {i \in o .. Len(b) - 1 : b[i + 1] \notin charset \/ i - o = NumberSize - 1}
      Parsed(read) == IF read.end = 0 THEN Fail(o) ELSE Ok(Item("number", read.number, <<>>), o + read.end)
  IN Parsed(strtod(SubSeq(b, o + 1, IF ends = {} THEN Len(b) ELSE Min(ends))))

HexDigit(c) == CASE c \in DigitBytes -> c - Byte.zero
                 [] c \in 65 .. 70 -> c - 55
                 [] c \in 97 .. 102 -> c - 87
                 [] OTHER -> -1

\* Anything but four hexadecimal digits is read as 0.
parse_hex4(b, i) ==
  LET h == [k \in 1 .. 4 |-> HexDigit(b[i + k])]
  IN IF -1 \in Range(h) THEN 0 ELSE FoldLeft(LAMBDA n, d : 16 * n + d, 0, h)

utf8(c) ==
  CASE c < 128 -> <<c>>
    [] c \in 128 .. 2047 -> <<192 + c \div 64, 128 + (c % 64)>>
    [] c \in 2048 .. 65535 -> <<224 + c \div 4096, 128 + ((c \div 64) % 64), 128 + (c % 64)>>
    [] OTHER -> <<240 + c \div 262144, 128 + ((c \div 4096) % 64), 128 + ((c \div 64) % 64), 128 + (c % 64)>>

\* The bytes written for the escape at i, and its length; 0 when there is none.
utf16_literal_to_utf8(b, i, end) ==
  LET None == [len |-> 0, out |-> <<>>]
      Pair(first, second) ==
        IF /\ end - i >= 12 /\ Reads(b, i + 6, <<Byte.backslash, Byte.u>>)
           /\ second \in 56320 .. 57343
        THEN [len |-> 12, out |-> utf8(65536 + (first - 55296) * 1024 + (second - 56320))]
        ELSE None
      From(first) == CASE first \in 56320 .. 57343 -> None
                       [] first \in 55296 .. 56319 -> Pair(first, parse_hex4(b, i + 8))
                       [] OTHER -> [len |-> 6, out |-> utf8(first)]
  IN IF end - i < 6 THEN None ELSE From(parse_hex4(b, i + 2))

\* Where the string that begins before i ends: at its quote, or where the text does.
RECURSIVE StringEnd(_, _)
StringEnd(b, i) == CASE i >= Len(b) -> Len(b)
                     [] At(b, i, Byte.quote) -> i
                     [] At(b, i, Byte.backslash) -> StringEnd(b, i + 2)
                     [] OTHER -> StringEnd(b, i + 1)

RECURSIVE Unescaped(_, _, _, _), UnescapedAt(_, _, _, _, _)
UnescapedAt(b, i, end, out, literal) ==
  LET c == b[i + 2]
  IN CASE ControlOf(c) # {} -> Unescaped(b, i + 2, end, out \o SetToSeq(ControlOf(c)))
       [] c \in {Byte.quote, Byte.backslash, Byte.slash} -> Unescaped(b, i + 2, end, Append(out, c))
       [] c = Byte.u /\ literal.len > 0 -> Unescaped(b, i + literal.len, end, out \o literal.out)
       [] OTHER -> [ok |-> FALSE, out |-> out, at |-> i]
Unescaped(b, i, end, out) ==
  CASE i >= end -> [ok |-> TRUE, out |-> out, at |-> i]
    [] i < end /\ b[i + 1] # Byte.backslash -> Unescaped(b, i + 1, end, Append(out, b[i + 1]))
    [] OTHER -> UnescapedAt(b, i, end, out, utf16_literal_to_utf8(b, i, end))

\* What a C string holds of the bytes: those before the first NUL.
CString(s) == LET nuls == {i \in DOMAIN s : s[i] = 0}
              IN IF nuls = {} THEN s ELSE SubSeq(s, 1, Min(nuls) - 1)

\* The room allocated for the string between the quotes: an escape counts as one byte less.
Allocated(b, o, end) ==
  LET inside == SubSeq(b, o + 2, end)
      skipped[i \in 1 .. Len(inside) + 2] ==
        IF i > Len(inside) THEN 0
        ELSE IF inside[i] = Byte.backslash THEN 1 + skipped[i + 2] ELSE skipped[i + 1]
  IN (end - o) - skipped[1] + 1

parse_string(b, o) ==
  LET Parsed(end, read) == IF ~read.ok THEN Fail(read.at)
                           ELSE Ok(Item("string", CString(read.out), <<>>), end + 1)
      From(end) == IF ~At(b, o, Byte.quote) \/ end >= Len(b) THEN Fail(o + 1)
                   ELSE Parsed(end, Unescaped(b, o + 1, end, <<>>))
  IN From(StringEnd(b, o + 1))

RECURSIVE parse_value(_, _, _), Elements(_, _, _, _), Members(_, _, _, _)
\* Elements from the byte before one on, behind those in done.
Elements(b, o, depth, done) ==
  LET Rest(read, end) ==
        CASE ~read.ok -> read
          [] read.ok /\ At(b, end, Byte.comma) -> Elements(b, end, depth, Append(done, read.item))
          [] read.ok /\ At(b, end, Byte.close) -> Ok(Item("array", NULL, Append(done, read.item)), end + 1)
          [] OTHER -> Fail(end)
      From(read) == Rest(read, buffer_skip_whitespace(b, read.o))
  IN From(parse_value(b, buffer_skip_whitespace(b, o + 1), depth))

parse_array(b, o, depth) ==
  LET first == buffer_skip_whitespace(b, o + 1)
  IN CASE depth >= CJSON_NESTING_LIMIT -> Fail(o)
       [] depth < CJSON_NESTING_LIMIT /\ At(b, first, Byte.close) -> Ok(Item("array", NULL, <<>>), first + 1)
       [] OTHER -> Elements(b, first - 1, depth + 1, <<>>)

Members(b, o, depth, done) ==
  LET Rest(all, read, end) ==
        CASE ~read.ok -> read
          [] read.ok /\ At(b, end, Byte.comma) -> Members(b, end, depth, all)
          [] read.ok /\ At(b, end, Byte.closebrace) -> Ok(Item("object", NULL, all), end + 1)
          [] OTHER -> Fail(end)
      Value(key, read) ==
        Rest(Append(done, Named(key.item.value, read.item)), read, buffer_skip_whitespace(b, read.o))
      From(key, colon) ==
        CASE ~key.ok -> key
          [] key.ok /\ ~At(b, colon, Byte.colon) -> Fail(colon)
          [] OTHER -> Value(key, parse_value(b, buffer_skip_whitespace(b, colon + 1), depth))
      Name(key) == From(key, buffer_skip_whitespace(b, key.o))
  IN Name(parse_string(b, buffer_skip_whitespace(b, o + 1)))

parse_object(b, o, depth) ==
  LET first == buffer_skip_whitespace(b, o + 1)
  IN CASE depth >= CJSON_NESTING_LIMIT -> Fail(o)
       [] depth < CJSON_NESTING_LIMIT /\ At(b, first, Byte.closebrace) -> Ok(Item("object", NULL, <<>>), first + 1)
       [] OTHER -> Members(b, first - 1, depth + 1, <<>>)

parse_value(b, o, depth) ==
  CASE Reads(b, o, Null) -> Ok(Item("null", NULL, <<>>), o + 4)
    [] Reads(b, o, False) -> Ok(Item("false", NULL, <<>>), o + 5)
    [] Reads(b, o, True) -> Ok(Item("true", NULL, <<>>), o + 4)
    [] At(b, o, Byte.quote) -> parse_string(b, o)
    [] o < Len(b) /\ b[o + 1] \in DigitBytes \cup {Byte.minus} -> parse_number(b, o)
    [] At(b, o, Byte.open) -> parse_array(b, o, depth)
    [] At(b, o, Byte.openbrace) -> parse_object(b, o, depth)
    [] OTHER -> Fail(o)

skip_utf8_bom(b) == IF Len(b) > 4 /\ SubSeq(b, 1, 3) = <<239, 187, 191>> THEN 3 ELSE 0

\* What cJSON_ParseWithOpts returns, and where *return_parse_end or the error points.
cJSON_ParseWithOpts(text, require_null_terminated) ==
  LET b == Append(text, 0)
      Returned(read, end) ==
        LET wrong == ~read.ok \/ (require_null_terminated /\ ~At(b, end, 0))
        IN [item |-> IF wrong THEN NoItem ELSE read.item,
            end |-> IF wrong /\ end >= Len(b) THEN Len(b) - 1 ELSE end]
      From(read) == Returned(read, IF read.ok /\ require_null_terminated
                                   THEN buffer_skip_whitespace(b, read.o) ELSE read.o)
  IN From(parse_value(b, buffer_skip_whitespace(b, skip_utf8_bom(b)), 0))
cJSON_Parse(text) == cJSON_ParseWithOpts(text, FALSE).item

---------------------------------------------------------------------------
(* Printing.  A print buffer: its size, the bytes before the NUL, the offset, *)
(* which some functions leave for their caller to update, and whether every   *)
(* write was inside.                                                          *)
Buffer(length, noalloc, format) ==
  [ok |-> TRUE, length |-> length, text |-> <<>>, offset |-> 0, depth |-> 0,
   noalloc |-> noalloc, format |-> format, inside |-> TRUE]

\* fault: the bytes before the offset are forgotten.
EnsureNoOffset(p, needed) ==
  LET total == needed + 1 IN
  CASE ~p.ok -> p
    [] p.ok /\ total <= p.length -> p
    [] OTHER -> IF p.noalloc \/ total > INT_MAX THEN [p EXCEPT !.ok = FALSE]
                ELSE [p EXCEPT !.length = IF total > INT_MAX \div 2 THEN INT_MAX ELSE 2 * total]

\* The buffer with room for needed bytes behind the offset, or a failure.
ensure(p, needed) ==
  LET total == needed + p.offset + 1 IN
  CASE ~p.ok -> p
    [] p.ok /\ ((p.length > 0 /\ p.offset >= p.length) \/ needed > INT_MAX) -> [p EXCEPT !.ok = FALSE]
    [] p.ok /\ total <= p.length /\ needed <= INT_MAX -> p
    [] OTHER -> IF p.noalloc \/ total > INT_MAX THEN [p EXCEPT !.ok = FALSE]
                ELSE [p EXCEPT !.length = IF total > INT_MAX \div 2 THEN INT_MAX ELSE 2 * total]

update_offset(p) == IF p.ok THEN [p EXCEPT !.offset = Len(p.text)] ELSE p

\* needed bytes are asked for, then bytes are written at the offset, terminal counting
\* the NUL behind them, and the offset moves on by moved.
Write(p, needed, bytes, terminal, moved) ==
  LET Into(q) ==
        IF ~q.ok THEN q
        ELSE [q EXCEPT !.text = SubSeq(@, 1, q.offset) \o bytes, !.offset = @ + moved,
                       !.inside = @ /\ q.offset + Len(bytes) + terminal <= q.length]
  IN Into(ensure(p, needed))

\* A constant text, its NUL counted by the caller of ensure.
Word(p, word) == Write(p, Len(word) + 1, word, 1, 0)

print_number(number, p) ==
  LET text == Formatted(number) IN Write(p, Len(text) + 1, text, 1, Len(text))

\* fault: a control character is taken to need one byte more.
ExtraOne(c) == IF c \in {Byte.quote, Byte.backslash} \/ c < 32 THEN 1 ELSE 0

Extra(c) == IF c \in {Byte.quote, Byte.backslash} \/ LetterOf(c) # {} THEN 1
            ELSE IF c < 32 THEN 5 ELSE 0

HexText(n) == IF n < 10 THEN Byte.zero + n ELSE 87 + n
Escaped(c) ==
  CASE c \in {Byte.quote, Byte.backslash} -> <<Byte.backslash, c>>
    [] LetterOf(c) # {} -> <<Byte.backslash>> \o SetToSeq(LetterOf(c))
    [] c < 32 /\ LetterOf(c) = {} ->
         <<Byte.backslash, Byte.u, Byte.zero, Byte.zero, HexText(c \div 16), HexText(c % 16)>>
    [] OTHER -> <<c>>

\* The closing quote goes where the counted length says.
print_string_ptr(s, p) ==
  LET n == Len(s) + FoldLeft(LAMBDA sum, c : sum + Extra(c), 0, s)
      body == FlattenSeq([i \in DOMAIN s |-> Escaped(s[i])])
      needed == IF s = NULL THEN 3 ELSE n + 3
  IN IF s = NULL THEN Write(p, 3, <<Byte.quote, Byte.quote>>, 1, 0)
     ELSE Write(p, needed, <<Byte.quote>> \o SubSeq(body, 1, n) \o <<Byte.quote>>, 1, 0)

Indent(n) == [i \in 1 .. n |-> Byte.tab]
Deeper(p, n) == [p EXCEPT !.depth = @ + n]

RECURSIVE print_value(_, _), PrintElements(_, _), PrintMembers(_, _)
PrintElements(items, p) ==
  LET sep == IF p.format THEN <<Byte.comma, Byte.space>> ELSE <<Byte.comma>>
      Rest(one) == IF Len(items) = 1 THEN one
                   ELSE PrintElements(Tail(items), Write(one, Len(sep) + 1, sep, 1, Len(sep)))
  IN IF items = <<>> \/ ~p.ok THEN p ELSE Rest(update_offset(print_value(items[1], p)))

print_array(item, p) ==
  Deeper(Write(PrintElements(item.child, Deeper(Write(p, 1, <<Byte.open>>, 0, 1), 1)),
               2, <<Byte.close>>, 1, 0), -1)

PrintMembers(items, p) ==
  LET indented == IF p.format THEN Write(p, p.depth, Indent(p.depth), 0, p.depth) ELSE p
      colon == IF p.format THEN <<Byte.colon, Byte.tab>> ELSE <<Byte.colon>>
      Value(key) == update_offset(print_value(items[1], Write(key, Len(colon), colon, 0, Len(colon))))
      sep == (IF Len(items) > 1 THEN <<Byte.comma>> ELSE <<>>)
             \o (IF p.format THEN <<Byte.newline>> ELSE <<>>)
  IN IF items = <<>> \/ ~p.ok THEN p
     ELSE PrintMembers(Tail(items), Write(Value(update_offset(print_string_ptr(items[1].string, indented))),
                                          Len(sep) + 1, sep, 1, Len(sep)))

print_object(item, p) ==
  LET brace == IF p.format THEN <<Byte.openbrace, Byte.newline>> ELSE <<Byte.openbrace>>
      Close(q) == Write(q, IF p.format THEN q.depth + 1 ELSE 2,
                        Append(IF p.format THEN Indent(q.depth - 1) ELSE <<>>, Byte.closebrace), 1, 0)
  IN Deeper(Close(PrintMembers(item.child, Deeper(Write(p, Len(brace) + 1, brace, 0, Len(brace)), 1))), -1)

print_value(item, p) ==
  CASE ~p.ok -> p
    [] p.ok /\ item.type = "null" -> Word(p, Null)
    [] p.ok /\ item.type = "false" -> Word(p, False)
    [] p.ok /\ item.type = "true" -> Word(p, True)
    [] p.ok /\ item.type = "number" -> print_number(item.value, p)
    [] p.ok /\ item.type = "raw" -> IF item.value = NULL THEN [p EXCEPT !.ok = FALSE] ELSE Word(p, item.value)
    [] p.ok /\ item.type = "string" -> print_string_ptr(item.value, p)
    [] p.ok /\ item.type = "array" -> print_array(item, p)
    [] p.ok /\ item.type = "object" -> print_object(item, p)

\* cJSON_Print and cJSON_PrintUnformatted begin with default_buffer_size bytes,
\* cJSON_PrintBuffered with what it is given, cJSON_PrintPreallocated has no more.
print(item, format, size) == update_offset(print_value(item, Buffer(size, FALSE, format)))
cJSON_PrintBuffered(item, prebuffer, format) == print_value(item, Buffer(prebuffer, FALSE, format))
cJSON_PrintPreallocated(item, length, format) == print_value(item, Buffer(length, TRUE, format))

---------------------------------------------------------------------------
(* cJSON_Minify: i is the next byte read, string whether inside a string. *)
RECURSIVE Minified(_, _, _)
Minified(b, i, string) ==
  LET two(x, y) == i < Len(b) /\ b[i] = x /\ b[i + 1] = y
      after(ends, n) == IF ends = {} THEN Len(b) + 1 ELSE Min(ends) + n
      blank == {Byte.space, Byte.tab, Byte.return, Byte.newline}
  IN CASE i > Len(b) -> <<>>
       [] i <= Len(b) /\ string ->
            IF two(Byte.backslash, Byte.quote)
            THEN <<b[i], b[i + 1]>> \o Minified(b, i + 2, TRUE)
            ELSE <<b[i]>> \o Minified(b, i + 1, b[i] # Byte.quote)
       [] i <= Len(b) /\ ~string ->
            CASE b[i] \in blank -> Minified(b, i + 1, FALSE)
              [] two(Byte.slash, Byte.slash) ->
                   Minified(b, after({k \in i + 2 .. Len(b) : b[k] = Byte.newline}, 1), FALSE)
              [] two(Byte.slash, Byte.star) ->
                   Minified(b, after({k \in i + 2 .. Len(b) - 1 :
                                        b[k] = Byte.star /\ b[k + 1] = Byte.slash}, 2), FALSE)
              [] b[i] = Byte.slash /\ ~two(Byte.slash, Byte.slash) /\ ~two(Byte.slash, Byte.star) ->
                   Minified(b, i + 1, FALSE)
              [] OTHER -> <<b[i]>> \o Minified(b, i + 1, b[i] = Byte.quote)
cJSON_Minify(text) == Minified(text, 1, FALSE)

---------------------------------------------------------------------------
(* What the texts mean, defined on the text alone. *)
Strip(s) == LET black == {i \in DOMAIN s : s[i] > Byte.space}
            IN IF black = {} THEN <<>> ELSE SubSeq(s, Min(black), Max(black))

\* The C string a literal's inside stands for, character by character; {} when it is none.
RECURSIVE Inside(_)
Inside(s) ==
  LET behind(n, out) == {out \o rest : rest \in Inside(SubSeq(s, n + 1, Len(s)))}
  IN CASE s = <<>> -> {<<>>}
       [] s # <<>> /\ s[1] = Byte.quote -> {}
       [] s # <<>> /\ s[1] \notin {Byte.quote, Byte.backslash} -> behind(1, <<s[1]>>)
       [] OTHER ->
            CASE Len(s) = 1 -> {}
              [] Len(s) > 1 /\ s[2] \in {Byte.quote, Byte.backslash, Byte.slash} -> behind(2, <<s[2]>>)
              [] Len(s) > 1 /\ ControlOf(s[2]) # {} -> behind(2, SetToSeq(ControlOf(s[2])))
              [] Len(s) > 1 /\ s[2] = Byte.u ->
                   UNION {behind(l.len, l.out) : l \in {utf16_literal_to_utf8(s, 0, Len(s))} \ {[len |-> 0, out |-> <<>>]}}
              [] OTHER -> {}

\* The text's own quotes are the first two that are not escaped.
Literal(s) == IF Len(s) >= 2 /\ s[1] = Byte.quote /\ StringEnd(s, 1) = Len(s) - 1
              THEN Inside(SubSeq(s, 2, Len(s) - 1)) ELSE {}
Before(s, k) == SubSeq(s, 1, k - 1)
Behind(s, k) == SubSeq(s, k + 1, Len(s))
Places(s, byte) == {k \in DOMAIN s : s[k] = byte}

\* The items a text stands for: at most one.
RECURSIVE Meaning(_), ListMeaning(_, _)
MemberMeaning(s) ==
  UNION {{Named(CString(key), v) : key \in Literal(Strip(Before(s, k))), v \in Meaning(Behind(s, k))}
           : k \in Places(s, Byte.colon)}
Part(type, s) == IF type = "array" THEN Meaning(s) ELSE MemberMeaning(s)
ListMeaning(type, s) ==
  {<<v>> : v \in Part(type, s)}
  \cup UNION {{<<v>> \o rest : v \in Part(type, Before(s, k)), rest \in ListMeaning(type, Behind(s, k))}
                : k \in Places(s, Byte.comma)}
ListOf(type, s) ==
  LET inside == SubSeq(s, 2, Len(s) - 1)
  IN {Item(type, NULL, list) : list \in IF Strip(inside) = <<>> THEN {<<>>} ELSE ListMeaning(type, inside)}
Meaning(s) ==
  LET t == Strip(s)
      between(x, y) == Len(t) >= 2 /\ t[1] = x /\ t[Len(t)] = y
  IN CASE t = Null -> {Item("null", NULL, <<>>)}
       [] t = False -> {Item("false", NULL, <<>>)}
       [] t = True -> {Item("true", NULL, <<>>)}
       [] between(Byte.quote, Byte.quote) -> {Item("string", CString(v), <<>>) : v \in Literal(t)}
       [] between(Byte.open, Byte.close) -> ListOf("array", t)
       [] between(Byte.openbrace, Byte.closebrace) -> ListOf("object", t)
       [] t # <<>> /\ t[1] \in DigitBytes \cup {Byte.minus} ->
            IF Len(t) >= NumberSize THEN {}
            ELSE {Item("number", read.number, <<>>) : read \in {r \in {strtod(t)} : r.end = Len(t)}}
       [] OTHER -> {}

RECURSIVE Depth(_)
Depth(item) == IF item.type \notin {"array", "object"} THEN 0
               ELSE 1 + Max({0} \cup {Depth(item.child[i]) : i \in DOMAIN item.child})

\* cJSON_ParseWithOpts accepts the texts that stand for an item, nested no deeper than
\* the limit, and returns that item; without require_null_terminated those that begin
\* with such a text, and it says where that ends.  A failure points into the text, and
\* a string fits what parse_string has allocated for it.
NoMark(s) == IF Len(s) >= 4 /\ SubSeq(s, 1, 3) = <<239, 187, 191>> THEN Behind(s, 3) ELSE s
Understood(text) == {v \in Meaning(NoMark(text)) : Depth(v) <= CJSON_NESTING_LIMIT}
Starts(text) == {k \in 0 .. Len(text) : Understood(SubSeq(text, 1, k)) # {}}
ParsedRight(text) ==
  /\ \A whole \in {cJSON_ParseWithOpts(text, TRUE)}, meant \in {Understood(text)} :
       /\ IF meant = {} THEN whole.item = NoItem ELSE whole.item \in meant
       /\ whole.end \in 0 .. Len(text)
  /\ \A part \in {cJSON_ParseWithOpts(text, FALSE)} :
       /\ IF part.item = NoItem THEN Starts(text) = {} ELSE part.item \in Understood(SubSeq(text, 1, part.end))
       /\ part.end \in 0 .. Len(text)
  /\ LET b == Append(text, 0)
         end == StringEnd(b, 1)
     IN (At(b, 0, Byte.quote) /\ end < Len(b)) =>
          Len(Unescaped(b, 1, end, <<>>).out) < Allocated(b, 0, end)

\* What is printed is read back as it was, formatted or not, and cJSON_Minify takes the
\* format away.  Excepted are items nested deeper than can be read, and for cJSON_Minify
\* strings that end in a backslash: it takes the quote behind it for an escaped one.
RECURSIVE Strings(_)
Strings(item) == (IF item.type = "string" THEN {item.value} ELSE {}) \cup {item.string}
                 \cup UNION {Strings(item.child[i]) : i \in DOMAIN item.child}
ReadBack(item) ==
  \A plain \in {print(item, FALSE, 256).text}, pretty \in {print(item, TRUE, 256).text} :
    /\ {cJSON_Parse(text) : text \in {plain, pretty}}
         = {IF Depth(item) <= CJSON_NESTING_LIMIT THEN item ELSE NoItem}
    /\ (\A s \in Strings(item) : s = <<>> \/ s[Len(s)] # Byte.backslash) => cJSON_Minify(pretty) = plain

\* Whatever the size of the buffer, nothing is written outside of it and a success is
\* the whole text; a buffer that may grow does so until INT_MAX, and one that may not is
\* large enough with five bytes more than the text, too small with as many (test_json.c).
PrintedInside(item, format) ==
  \A text \in {print(item, format, 256).text} : \A n \in 0 .. Len(text) + 6 :
    \A p \in {cJSON_PrintPreallocated(item, n, format), cJSON_PrintBuffered(item, n, format)} :
      /\ p.inside /\ (p.ok => p.text = text)
      /\ IF p.noalloc THEN (n >= Len(text) + 5 => p.ok) /\ (n <= Len(text) => ~p.ok)
         ELSE Len(text) + 5 <= INT_MAX => p.ok
===========================================================================
