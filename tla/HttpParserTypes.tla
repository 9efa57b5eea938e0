-------------------------- MODULE HttpParserTypes --------------------------
(***************************************************************************)
(* The first two layers of the invariant of HttpParser, for any bytes, any *)
(* cut of them into calls, any pauses and failures of callbacks and any    *)
(* limits: what has which type and where the marks of a call are (Typed),  *)
(* and what the states of a body rely on (Framed).                         *)
(***************************************************************************)
EXTENDS HttpParser, WellFoundedInduction, FiniteSetTheorems, SequenceTheorems, TLAPS

Piece == STRING \cup Nat
Callbacks == {"message_begin", "url", "status", "header_field", "header_value", "headers_complete",
              "chunk_header", "body", "chunk_complete", "message_complete"}
Entry == [on : Callbacks, data : Seq(Piece)]
IsParser(pr) ==
  /\ DOMAIN pr = {"type", "state", "header_state", "flags", "uses_transfer_encoding",
                  "content_length", "nread", "http_errno", "version", "status_code", "method",
                  "upgrade"}
  /\ pr.content_length \in 0 .. ULLONG_MAX /\ pr.nread \in Nat
  /\ pr.version \in Versions /\ pr.upgrade \in BOOLEAN
IsCall(c) ==
  /\ DOMAIN c = {"on", "end", "nread", "fresh", "mark"}
  /\ c.on \in BOOLEAN /\ c.end \in Nat /\ c.nread \in Nat /\ c.fresh \in BOOLEAN
  /\ c.mark \in [Marks -> Nat]

(* A mark is set in the states of its token only, and in those states it is *)
(* set while bytes are left; the byte of a body's mark is behind p.         *)
UrlStates == UrlOpening \cup UrlBody
BodyMarked == {"s_body_identity", "s_body_identity_eof", "s_chunk_data", "s_chunk_data_almost_done"}
MarksFit(s, c, q) ==
  /\ c.mark["header_field"] # 0 => s = "s_header_field" /\ c.mark["header_field"] <= q
  /\ c.mark["header_value"] # 0 => s = "s_header_value" /\ c.mark["header_value"] <= q
  /\ c.mark["url"] # 0 => s \in UrlStates /\ c.mark["url"] <= q
  /\ c.mark["status"] # 0 => s = "s_res_status" /\ c.mark["status"] <= q
  /\ c.mark["body"] # 0 => s \in BodyMarked /\ c.mark["body"] < q
  /\ q <= c.end => /\ s = "s_header_field" => c.mark["header_field"] # 0
                   /\ s = "s_header_value" => c.mark["header_value"] # 0
                   /\ s \in UrlStates => c.mark["url"] # 0
                   /\ s = "s_res_status" => c.mark["status"] # 0

\* A call in progress, at q.
Place(pr, c, q) ==
  /\ pr.http_errno = "OK"
  /\ c.end <= Len(input.bytes) /\ q <= c.end + 1 /\ (~c.fresh => q <= c.end)
  /\ MarksFit(pr.state, c, q)

Typed ==
  /\ input \in Inputs /\ IsParser(parser) /\ IsCall(call) /\ told \in Seq(Entry)
  /\ p \in 1 .. Len(input.bytes) + 1 /\ first \in 1 .. Len(input.bytes) + 1
  /\ stops \in 0 .. input.stops /\ eof \in BOOLEAN
  /\ ~call.on => call = Idle
  /\ call.on => ~eof /\ Place(parser, call, p)

---------------------------------------------------------------------------
(* The framing: what the states of a body rely on. *)
ChunkSizing == {"s_chunk_size_start", "s_chunk_size", "s_chunk_parameters",
                "s_chunk_size_almost_done"}
ChunkSized == {"s_chunk_size", "s_chunk_parameters", "s_chunk_size_almost_done"}
ChunkStates == ChunkSizing \cup {"s_chunk_data", "s_chunk_data_almost_done", "s_chunk_data_done"}
BodyFramed(pr) ==
  /\ pr.state \in ChunkStates => "F_CHUNKED" \in pr.flags
  /\ pr.state \in ChunkSized => pr.content_length < ULLONG_MAX
  /\ pr.state \in {"s_body_identity", "s_chunk_data"} => pr.content_length \notin {0, ULLONG_MAX}
  /\ pr.state = "s_chunk_data_almost_done" => pr.content_length = 0
  /\ pr.state = "s_header_value" => pr.header_state \notin {"h_connection", "h_transfer_encoding"}
CountStarts ==
  /\ call.on /\ ~call.fresh /\ ParsingHeader(parser.state) => call.nread >= 1
  /\ parser.state = "s_chunk_size_start" =>
       IF call.on THEN call.nread = IF call.fresh THEN 0 ELSE 1
       ELSE parser.http_errno \in {"OK", "PAUSED"} => parser.nread = 0
Framed == BodyFramed(parser) /\ CountStarts

---------------------------------------------------------------------------
(* Induction on numbers, with a set in the place of the property: a set of *)
(* numbers that is not empty has a least one.                              *)
LEMMA LeastNatural ==
  ASSUME NEW S \in SUBSET Nat, S # {}
  PROVE  \E x \in S : \A y \in S : x <= y
<1>1. PICK x \in S : \A y \in S : ~ (<<y, x>> \in OpToRel(<, Nat))
  BY NatLessThanWellFounded, WFMin, Zenon
<1>2. \A y \in S : ~ (y < x)
  BY <1>1, Zenon DEF OpToRel
<1>3. \A y \in S : x <= y
  BY <1>2
<1> QED  BY <1>3

\* What holds of 0, and of a number after the one before it, holds up to n.
LEMMA UpTo ==
  ASSUME NEW n \in Nat, NEW S, 0 \in S, \A i \in 0 .. n - 1 : i \in S => i + 1 \in S
  PROVE  \A i \in 0 .. n : i \in S
<1> SUFFICES ASSUME (0 .. n) \ S # {} PROVE FALSE
  OBVIOUS
<1>1. PICK x \in (0 .. n) \ S : \A y \in (0 .. n) \ S : x <= y
  <2>1. (0 .. n) \ S \in SUBSET Nat
    OBVIOUS
  <2> QED  BY <2>1, LeastNatural, Zenon
<1>2. x # 0 /\ x - 1 \in 0 .. n - 1
  BY <1>1
<1>3. x - 1 \in S
  BY <1>1, <1>2
<1> QED  BY <1>1, <1>2, <1>3

(* The runs of the inner loops exist: a value for each byte, from the one  *)
(* before it.                                                              *)
LEMMA NameRunIs ==
  ASSUME NEW pr, NEW bytes \in Seq(STRING)
  PROVE  \E run : /\ run[0] = pr
                  /\ \A i \in 0 .. Len(bytes) - 1 : run[i + 1] = NameMore(run[i], bytes[i + 1])
                  /\ NameRun(pr, bytes) = run[Len(bytes)]
<1> DEFINE n == Len(bytes)
           Eqn(f) == f = [i \in 0 .. n |-> IF i = 0 THEN pr ELSE NameMore(f[i - 1], bytes[i])]
           Part(k, f) == f[0] = pr /\ \A i \in 1 .. k : f[i] = NameMore(f[i - 1], bytes[i])
           G == {k \in 0 .. n : \E f : Part(k, f)}
           run == CHOOSE f : Eqn(f)
<1>1. n \in Nat
  OBVIOUS
<1> HIDE DEF n
<1>2. 0 \in G
  <2>1. Part(0, [i \in 0 .. 0 |-> pr]) /\ 0 \in 0 .. n
    BY <1>1
  <2> QED  BY <2>1
<1>3. ASSUME NEW k \in 0 .. n - 1, k \in G PROVE k + 1 \in G
  <2>1. PICK f : Part(k, f)
    BY <1>3
  <2> DEFINE g == [i \in 0 .. k + 1 |-> IF i = k + 1 THEN NameMore(f[k], bytes[k + 1]) ELSE f[i]]
  <2>2. Part(k + 1, g) /\ k + 1 \in 0 .. n
    BY <1>1, <2>1
  <2> QED  BY <2>2
<1>4. n \in G
  <2> HIDE DEF G
  <2>1. \A k \in 0 .. n - 1 : k \in G => k + 1 \in G
    BY <1>3
  <2>2. \A k \in 0 .. n : k \in G
    BY <1>1, <1>2, <2>1, UpTo, Zenon
  <2> QED  BY <1>1, <2>2
<1>5. PICK f : Part(n, f)
  BY <1>4
<1>6. Eqn([i \in 0 .. n |-> f[i]])
  BY <1>1, <1>5
<1>7. Eqn(run)
  BY <1>6
<1> HIDE DEF run
<1>8. run[0] = pr /\ \A i \in 0 .. n - 1 : run[i + 1] = NameMore(run[i], bytes[i + 1])
  BY <1>1, <1>7
<1>9. NameRun(pr, bytes) = run[n]
  BY DEF NameRun, run, n
<1> QED  BY <1>8, <1>9 DEF n

\* The same of the loop over the bytes of a value.
LEMMA ValueRunIs ==
  ASSUME NEW pr, NEW bytes \in Seq(STRING)
  PROVE  \E run : /\ run[0] = pr
                  /\ \A i \in 0 .. Len(bytes) - 1 : run[i + 1] = ValueStep(run[i], bytes[i + 1])
                  /\ ValueRun(pr, bytes) = run[Len(bytes)]
<1> DEFINE n == Len(bytes)
           Eqn(f) == f = [i \in 0 .. n |-> IF i = 0 THEN pr ELSE ValueStep(f[i - 1], bytes[i])]
           Part(k, f) == f[0] = pr /\ \A i \in 1 .. k : f[i] = ValueStep(f[i - 1], bytes[i])
           G == {k \in 0 .. n : \E f : Part(k, f)}
           run == CHOOSE f : Eqn(f)
<1>1. n \in Nat
  OBVIOUS
<1> HIDE DEF n
<1>2. 0 \in G
  <2>1. Part(0, [i \in 0 .. 0 |-> pr]) /\ 0 \in 0 .. n
    BY <1>1
  <2> QED  BY <2>1
<1>3. ASSUME NEW k \in 0 .. n - 1, k \in G PROVE k + 1 \in G
  <2>1. PICK f : Part(k, f)
    BY <1>3
  <2> DEFINE g == [i \in 0 .. k + 1 |-> IF i = k + 1 THEN ValueStep(f[k], bytes[k + 1]) ELSE f[i]]
  <2>2. Part(k + 1, g) /\ k + 1 \in 0 .. n
    BY <1>1, <2>1
  <2> QED  BY <2>2
<1>4. n \in G
  <2> HIDE DEF G
  <2>1. \A k \in 0 .. n - 1 : k \in G => k + 1 \in G
    BY <1>3
  <2>2. \A k \in 0 .. n : k \in G
    BY <1>1, <1>2, <2>1, UpTo, Zenon
  <2> QED  BY <1>1, <2>2
<1>5. PICK f : Part(n, f)
  BY <1>4
<1>6. Eqn([i \in 0 .. n |-> f[i]])
  BY <1>1, <1>5
<1>7. Eqn(run)
  BY <1>6
<1> HIDE DEF run
<1>8. run[0] = pr /\ \A i \in 0 .. n - 1 : run[i + 1] = ValueStep(run[i], bytes[i + 1])
  BY <1>1, <1>7
<1>9. ValueRun(pr, bytes) = run[n]
  BY DEF ValueRun, run, n
<1> QED  BY <1>8, <1>9 DEF n

(* Where an inner loop stops: at the first byte that is not its own, or at *)
(* the end of the call.                                                    *)
LEMMA LoopStops ==
  ASSUME NEW from \in Nat, NEW to \in Nat, from <= to, NEW S
  PROVE  \E q \in from .. to : (q = to \/ q \notin S) /\ \A i \in from .. q - 1 : i \in S
<1> DEFINE Out == {q \in from .. to : q = to \/ q \notin S}
<1>1. Out \in SUBSET Nat /\ to \in Out
  OBVIOUS
<1>2. PICK q \in Out : \A y \in Out : q <= y
  <2> HIDE DEF Out
  <2> QED  BY <1>1, LeastNatural, Zenon
<1>3. \A i \in from .. q - 1 : i \in S
  BY <1>2
<1> QED  BY <1>2, <1>3

\* The loop of s_header_field ends at a byte that is no token, or behind the call.
LEMMA TokenStops ==
  ASSUME p \in Nat, call.end \in Nat, p <= call.end + 1
  PROVE  LET q == StopAt(IsToken)
         IN  /\ q \in p .. call.end + 1
             /\ q = call.end + 1 \/ ~IsToken(input.bytes[q])
<1> DEFINE S == {i \in p .. call.end : IsToken(input.bytes[i])}
           Stop(q) == /\ q = call.end + 1 \/ ~IsToken(input.bytes[q])
                      /\ \A i \in p .. q - 1 : IsToken(input.bytes[i])
<1>1. PICK q \in p .. call.end + 1 : (q = call.end + 1 \/ q \notin S) /\ \A i \in p .. q - 1 : i \in S
  <2> HIDE DEF S
  <2>1. call.end + 1 \in Nat
    OBVIOUS
  <2> QED  BY <2>1, LoopStops, Zenon
<1>2. Stop(q)
  BY <1>1
<1> HIDE DEF Stop
<1>3. \E i \in p .. call.end + 1 : Stop(i)
  BY <1>2
<1>4. (CHOOSE i \in p .. call.end + 1 : Stop(i)) \in p .. call.end + 1 /\ Stop(CHOOSE i \in p .. call.end + 1 : Stop(i))
  BY <1>3, Zenon
<1> QED  BY <1>4 DEF StopAt, Stop

\* The loop of s_header_value ends at CR or LF, or behind the call.
LEMMA ValueStops ==
  ASSUME p \in Nat, call.end \in Nat, p <= call.end + 1
  PROVE  LET q == StopAt(NoEol)
         IN  /\ q \in p .. call.end + 1
             /\ q = call.end + 1 \/ ~NoEol(input.bytes[q])
<1> DEFINE S == {i \in p .. call.end : NoEol(input.bytes[i])}
           Stop(q) == /\ q = call.end + 1 \/ ~NoEol(input.bytes[q])
                      /\ \A i \in p .. q - 1 : NoEol(input.bytes[i])
<1>1. PICK q \in p .. call.end + 1 : (q = call.end + 1 \/ q \notin S) /\ \A i \in p .. q - 1 : i \in S
  <2> HIDE DEF S
  <2>1. call.end + 1 \in Nat
    OBVIOUS
  <2> QED  BY <2>1, LoopStops, Zenon
<1>2. Stop(q)
  BY <1>1
<1> HIDE DEF Stop
<1>3. \E i \in p .. call.end + 1 : Stop(i)
  BY <1>2
<1>4. (CHOOSE i \in p .. call.end + 1 : Stop(i)) \in p .. call.end + 1 /\ Stop(CHOOSE i \in p .. call.end + 1 : Stop(i))
  BY <1>3, Zenon
<1> QED  BY <1>4 DEF StopAt, Stop

---------------------------------------------------------------------------
(* The first layer: types, and where the marks are. *)
Marking == {"s_header_field", "s_header_value", "s_res_status"} \cup UrlStates \cup BodyMarked

\* What comes over the connection is a sequence of bytes, and a bound on the stops.
LEMMA InputTyped ==
  ASSUME Typed
  PROVE  input.bytes \in Seq(STRING) /\ input.stops \in Nat /\ Len(input.bytes) \in Nat
<1>1. input.bytes \in Seq(STRING) /\ input.stops \in Nat
  BY InputAssumption DEF Typed
<1> QED  BY <1>1

\* Data told are a piece of the bytes, as long as its two ends say.
LEMMA PieceTyped ==
  ASSUME NEW s \in Seq(STRING), NEW m \in Nat, NEW n \in Nat, m >= 1, n <= Len(s), NEW kind \in Callbacks
  PROVE  /\ Tell(kind, SubSeq(s, m, n)) \in Entry
         /\ Len(SubSeq(s, m, n)) = IF m <= n THEN n - m + 1 ELSE 0
<1>1. SubSeq(s, m, n) \in Seq(STRING)
  OBVIOUS
<1>2. SubSeq(s, m, n) \in Seq(Piece)
  BY <1>1 DEF Piece
<1> QED  BY <1>2 DEF Tell, Entry

\* A callback without data is an entry of what was told.
LEMMA SayTyped ==
  ASSUME NEW kind \in Callbacks
  PROVE  Say(kind) \in Entry
BY DEF Say, Entry, Piece

\* Telling something more, joined or not, leaves a sequence of entries.
LEMMA JoinTyped ==
  ASSUME NEW t \in Seq(Entry), NEW e \in Entry
  PROVE  Join(t, e) \in Seq(Entry)
<1>1. CASE t # <<>> /\ t[Len(t)].on = e.on
  <2>1. Len(t) \in 1 .. Len(t) /\ t[Len(t)] \in Entry
    BY <1>1
  <2>2. t[Len(t)].data \o e.data \in Seq(Piece)
    BY <2>1 DEF Entry
  <2>3. [t[Len(t)] EXCEPT !.data = t[Len(t)].data \o e.data] \in Entry
    BY <2>1, <2>2 DEF Entry
  <2> QED  BY <1>1, <2>1, <2>3 DEF Join
<1>2. CASE ~ (t # <<>> /\ t[Len(t)].on = e.on)
  BY <1>2 DEF Join
<1> QED  BY <1>1, <1>2

(* What the three ways out of a step leave: the error, the step, the step  *)
(* with a callback.                                                        *)
LEMMA StoppedTyped ==
  ASSUME NEW pr, IsParser(pr), NEW n \in Nat
  PROVE  /\ IsParser([pr EXCEPT !.http_errno = "PAUSED"])
         /\ IsParser([pr EXCEPT !.http_errno = "CB", !.nread = n])
BY DEF IsParser

\* Between two calls the locals are those of no call.
LEMMA IdleTyped == IsCall(Idle) /\ ~Idle.on
BY DEF Idle, IsCall, NoMark

\* SET_ERRNO and return: what is left is typed, and no call is in progress.
LEMMA ErrorTyped ==
  ASSUME Typed, call.on, NEW e, e # "OK", Error(e), UNCHANGED <<input, eof>>
  PROVE  Typed'
<1>1. call.nread \in Nat
  BY DEF Typed, IsCall
<1>2. IsParser(parser')
  BY <1>1 DEF Typed, Error, IsParser
<1> QED  BY <1>2, IdleTyped DEF Typed, Error

\* A step without a callback keeps the types, if it puts the call in its place.
LEMMA GoTyped ==
  ASSUME Typed, call.on, NEW pr, IsParser(pr), NEW c, IsCall(c), NEW q \in Nat \ {0},
         c.on, Place(pr, c, q), Go(pr, c, q), UNCHANGED <<input, eof>>
  PROVE  Typed'
<1>1. Place(parser, call, p)'
  BY DEF Place, Go
<1>2. q <= Len(input.bytes) + 1
  BY InputTyped DEF Place, IsCall
<1> QED  BY <1>1, <1>2, InputTyped DEF Typed, Go

\* So does a step with one, whether the callback goes on, pauses or fails.
LEMMA CallbackTyped ==
  ASSUME Typed, call.on, NEW e \in Entry, NEW pr, IsParser(pr), NEW c, IsCall(c),
         NEW q \in Nat \ {0}, c.on, Place(pr, c, q), Callback(e, pr, c, q),
         first' \in 1 .. Len(input.bytes) + 1, UNCHANGED <<input, eof>>
  PROVE  Typed'
<1>1. q <= Len(input.bytes) + 1
  BY InputTyped DEF Place, IsCall
<1>2. told' \in Seq(Entry)
  BY JoinTyped DEF Callback, Typed
<1>3. CASE parser' = pr /\ call' = c /\ UNCHANGED stops
  <2>1. Place(parser, call, p)'
    BY <1>3 DEF Place, Callback
  <2> QED  BY <1>1, <1>2, <1>3, <2>1, InputTyped DEF Typed, Callback
<1>4. CASE stops < input.stops /\ stops' = stops + 1 /\ call' = Idle /\ IsParser(parser')
  <2>1. stops' \in 0 .. input.stops
    BY <1>4, InputTyped DEF Typed
  <2> QED  BY <1>1, <1>2, <1>4, <2>1, IdleTyped, InputTyped DEF Typed, Callback
<1>5. c.nread \in Nat
  BY DEF IsCall
<1>6. IsParser([pr EXCEPT !.http_errno = "PAUSED"])
  BY <1>5, StoppedTyped
<1>7. IsParser([pr EXCEPT !.http_errno = "CB", !.nread = c.nread])
  BY <1>5, StoppedTyped
<1> QED  BY <1>3, <1>4, <1>6, <1>7, Zenon DEF Callback

(* A byte looked at: where p is, and that no mark is set outside of the    *)
(* states of a token.                                                      *)
LEMMA AtByte ==
  ASSUME Typed, NEW S, At(S)
  PROVE  /\ call.on /\ ~call.fresh /\ parser.state \in S /\ parser.http_errno = "OK"
         /\ p \in Nat \ {0} /\ p <= call.end /\ call.end <= Len(input.bytes)
         /\ IsParser(parser) /\ IsCall(call) /\ MarksFit(parser.state, call, p)
         /\ call.nread <= max_header_size
BY InputTyped DEF Typed, At, Place

\* Outside of the tokens the place depends on the end and the marks alone.
LEMMA QuietPlace ==
  ASSUME Typed, call.on, ~call.fresh, parser.state \notin Marking,
         NEW pr, pr.state \notin Marking, pr.http_errno = "OK",
         NEW c, IsCall(c), c.mark = call.mark, c.end \in {p, call.end},
         NEW q, q = p \/ (q = p + 1 /\ c.fresh)
  PROVE  Place(pr, c, q)
<1>1. p \in Nat /\ p <= call.end /\ call.end \in Nat /\ call.end <= Len(input.bytes) /\ Len(input.bytes) \in Nat
  BY InputTyped DEF Typed, Place, IsCall
<1>2. /\ call.mark["header_field"] = 0 /\ call.mark["header_value"] = 0 /\ call.mark["url"] = 0
      /\ call.mark["status"] = 0 /\ call.mark["body"] = 0
  BY DEF Typed, Place, MarksFit, Marking
<1>3. MarksFit(pr.state, c, q)
  BY <1>2 DEF MarksFit, Marking
<1> QED  BY <1>1, <1>3 DEF Place

\* A break between two states without a token keeps the types.
LEMMA BreakTyped ==
  ASSUME Typed, NEW S, At(S), parser.state \notin Marking, NEW s, s \notin Marking,
         NEW pr, IsParser(pr), pr.http_errno = "OK",
         Break(pr, s), UNCHANGED <<input, eof>>
  PROVE  Typed'
<1>1. IsParser(In(pr, s)) /\ In(pr, s).state = s /\ In(pr, s).http_errno = "OK"
  BY DEF IsParser, In
<1>2. IsCall(NextByte) /\ NextByte.on /\ NextByte.fresh /\ NextByte.mark = call.mark /\ NextByte.end = call.end
  BY AtByte DEF IsCall, NextByte
<1>3. Place(In(pr, s), NextByte, p + 1)
  BY <1>1, <1>2, AtByte, QuietPlace
<1>4. p + 1 \in Nat \ {0}
  BY AtByte
<1> QED  BY <1>1, <1>2, <1>3, <1>4, GoTyped, AtByte DEF Break

\* REEXECUTE between two states without a token keeps the types.
LEMMA ReexecuteTyped ==
  ASSUME Typed, NEW S, At(S), parser.state \notin Marking, NEW s, s \notin Marking,
         NEW pr, IsParser(pr), pr.http_errno = "OK",
         Reexecute(pr, s), UNCHANGED <<input, eof>>
  PROVE  Typed'
<1>1. IsParser(In(pr, s)) /\ In(pr, s).state = s /\ In(pr, s).http_errno = "OK"
  BY DEF IsParser, In
<1>2. Place(In(pr, s), call, p)
  BY <1>1, AtByte, QuietPlace
<1> QED  BY <1>1, <1>2, GoTyped, AtByte DEF Reexecute

(* A callback made outside of a token. *)
LEMMA QuietCallback ==
  ASSUME Typed, NEW S, At(S), parser.state \notin Marking,
         NEW e \in Entry, NEW pr, IsParser(pr), pr.state \notin Marking, pr.http_errno = "OK",
         NEW c, IsCall(c), c.on, c.mark = call.mark, c.end \in {p, call.end},
         NEW q, q = p \/ (q = p + 1 /\ c.fresh), Callback(e, pr, c, q),
         first' \in {first, p}, UNCHANGED <<input, eof>>
  PROVE  Typed'
<1>1. Place(pr, c, q)
  BY AtByte, QuietPlace
<1>2. q \in Nat \ {0} /\ first' \in 1 .. Len(input.bytes) + 1
  BY AtByte, InputTyped DEF Typed
<1> QED  BY <1>1, <1>2, CallbackTyped, AtByte

(* The marks of a token: they are set when it begins, told and taken down  *)
(* when it ends.                                                           *)
Token(m, s) ==
  \/ m = "header_field" /\ s = "s_header_field"
  \/ m = "header_value" /\ s = "s_header_value"
  \/ m = "url" /\ s \in UrlStates
  \/ m = "status" /\ s = "s_res_status"

\* In a state that has no token nothing is marked.
LEMMA NoMarks ==
  ASSUME Typed, call.on, parser.state \notin Marking
  PROVE  call.mark = NoMark
<1>1. \A m \in Marks : call.mark[m] = 0
  BY DEF Typed, Place, MarksFit, Marking, Marks
<1>2. call.mark \in [Marks -> Nat]
  BY DEF Typed, IsCall
<1> QED  BY <1>1, <1>2 DEF NoMark

\* MARK: the state of a token is entered with its mark, at the byte or behind it.
LEMMA TokenBegins ==
  ASSUME Typed, NEW S, At(S), parser.state \notin Marking, NEW m,
         NEW pr, Token(m, pr.state), pr.http_errno = "OK",
         NEW c, NEW q, (c = NextByte /\ q = p + 1) \/ (c = call /\ q = p)
  PROVE  /\ IsCall(Marked(c, m)) /\ Marked(c, m).on
         /\ Place(pr, Marked(c, m), q)
<1> DEFINE d == Marked(c, m)
<1>1. IsCall(c) /\ c.on /\ c.end = call.end /\ c.mark = NoMark /\ (q = p \/ c.fresh)
  BY AtByte, NoMarks DEF IsCall, NextByte
<1>2. m \in Marks
  BY DEF Token, Marks
<1>3. /\ d.on = c.on /\ d.end = c.end /\ d.nread = c.nread /\ d.fresh = c.fresh
      /\ DOMAIN d = {"on", "end", "nread", "fresh", "mark"}
      /\ d.mark = [NoMark EXCEPT ![m] = p]
  BY <1>1, <1>2 DEF Marked, IsCall, NoMark
<1>4. IsCall(d)
  <2>1. NoMark \in [Marks -> Nat] /\ p \in Nat
    BY AtByte DEF NoMark
  <2>2. d.mark \in [Marks -> Nat]
    BY <1>3, <2>1
  <2> HIDE DEF d
  <2> QED  BY <1>1, <1>3, <2>2 DEF IsCall
<1> HIDE DEF d
<1>5. q \in {p, p + 1} /\ (q = p \/ d.fresh)
  BY <1>1, <1>3, AtByte
<1>6. MarksFit(pr.state, d, q)
  <2>1. /\ d.mark[m] = p /\ p <= q /\ p # 0
        /\ \A k \in Marks \ {m} : d.mark[k] = 0
    BY <1>2, <1>3, <1>5, AtByte DEF NoMark
  <2>2. CASE m = "header_field"
    BY <2>1, <2>2 DEF MarksFit, Token, Marks, UrlStates, UrlOpening, UrlBody
  <2>3. CASE m = "header_value"
    BY <2>1, <2>3 DEF MarksFit, Token, Marks, UrlStates, UrlOpening, UrlBody
  <2>4. CASE m = "url"
    BY <2>1, <2>4 DEF MarksFit, Token, Marks, UrlStates, UrlOpening, UrlBody
  <2>5. CASE m = "status"
    BY <2>1, <2>5 DEF MarksFit, Token, Marks, UrlStates, UrlOpening, UrlBody
  <2> QED  BY <2>2, <2>3, <2>4, <2>5 DEF Token
<1>7. Place(pr, d, q)
  BY <1>1, <1>3, <1>5, <1>6, AtByte, InputTyped DEF Place, IsCall
<1> QED  BY <1>1, <1>3, <1>4, <1>7 DEF d

\* The token told and its mark given up, the call is in a state without a token.
LEMMA TokenEnds ==
  ASSUME Typed, NEW S, At(S), NEW m, Token(m, parser.state),
         NEW q \in p .. call.end,
         NEW pr, pr.state \notin Marking, pr.http_errno = "OK",
         NEW c, IsCall(c), c.end = call.end, c.mark = [call.mark EXCEPT ![m] = 0],
         NEW r, r = q \/ (r = q + 1 /\ c.fresh)
  PROVE  Place(pr, c, r)
<1>1. \A k \in Marks : c.mark[k] = 0
  <2>1. \A k \in Marks \ {m} : call.mark[k] = 0
    BY AtByte DEF MarksFit, Token, Marks, UrlStates, UrlOpening, UrlBody, BodyMarked
  <2>2. call.mark \in [Marks -> Nat] /\ c.mark \in [Marks -> Nat]
    BY AtByte DEF IsCall
  <2> QED  BY <2>1, <2>2
<1>2. MarksFit(pr.state, c, r)
  BY <1>1 DEF MarksFit, Marks, Marking
<1>3. call.end \in Nat /\ Len(input.bytes) \in Nat /\ q \in Nat /\ q <= call.end
  BY AtByte, InputTyped DEF IsCall
<1> QED  BY <1>2, <1>3, AtByte DEF Place

\* The bytes from the mark to the end of the token are data to tell.
LEMMA TokenTold ==
  ASSUME Typed, NEW S, At(S), NEW m \in Callbacks, Token(m, parser.state), NEW q \in p .. call.end
  PROVE  Tell(m, SubSeq(input.bytes, call.mark[m], q - 1)) \in Entry
<1>1. call.mark[m] # 0 /\ call.mark[m] \in 1 .. p
  BY AtByte DEF MarksFit, Token, IsCall, Marks
<1>2. /\ input.bytes \in Seq(STRING) /\ q - 1 \in Nat /\ q - 1 <= Len(input.bytes)
      /\ call.mark[m] \in Nat /\ call.mark[m] >= 1
  BY <1>1, AtByte, InputTyped DEF IsCall
<1> QED  BY <1>2, PieceTyped

\* CALLBACK_DATA at the end of a URL or a reason phrase keeps the types.
LEMMA DataTyped ==
  ASSUME Typed, NEW S, At(S), NEW m \in {"url", "status"}, Token(m, parser.state),
         NEW pr, IsParser(pr), pr.http_errno = "OK", NEW s, s \notin Marking,
         Data(m, pr, s), UNCHANGED <<input, eof>>
  PROVE  Typed'
<1> DEFINE c == Unmarked(NextByte, m)
           e == Tell(m, SubSeq(input.bytes, call.mark[m], p - 1))
<1>1. IsParser(In(pr, s)) /\ In(pr, s).state = s /\ In(pr, s).http_errno = "OK"
  BY DEF IsParser, In
<1>2. call.mark \in [Marks -> Nat] /\ m \in Marks /\ m \in Callbacks
  BY AtByte DEF IsCall, Marks, Callbacks
<1>3. /\ DOMAIN c = {"on", "end", "nread", "fresh", "mark"} /\ c.on /\ c.fresh
      /\ c.end = call.end /\ c.nread = call.nread /\ c.mark = [call.mark EXCEPT ![m] = 0]
  BY <1>2, AtByte DEF IsCall, NextByte, Unmarked
<1>4. IsCall(c)
  <2>1. c.mark \in [Marks -> Nat]
    BY <1>2, <1>3
  <2> HIDE DEF c
  <2> QED  BY <1>3, <2>1, AtByte DEF IsCall
<1>5. Callback(e, In(pr, s), c, p + 1) /\ first' = first
  BY DEF Data
<1> HIDE DEF c
<1>6. Place(In(pr, s), c, p + 1) /\ e \in Entry
  <2>1. p \in p .. call.end
    BY AtByte DEF IsCall
  <2>2. Place(In(pr, s), c, p + 1)
    BY <1>1, <1>3, <1>4, <2>1, TokenEnds
  <2>3. e \in Entry
    BY <1>2, <2>1, TokenTold
  <2> QED  BY <2>2, <2>3
<1>7. p + 1 \in Nat \ {0} /\ first' \in 1 .. Len(input.bytes) + 1
  BY <1>5, AtByte DEF Typed
<1> QED  BY <1>1, <1>3, <1>4, <1>5, <1>6, <1>7, CallbackTyped, AtByte

(* The step to a token: FieldStart, ValueStart, UrlStart, StatusStart. *)
LEMMA BeginTokenTyped ==
  ASSUME Typed, NEW S, At(S), parser.state \notin Marking, NEW m,
         NEW pr, IsParser(pr), Token(m, pr.state), pr.http_errno = "OK",
         \/ Go(pr, Marked(NextByte, m), p + 1)
         \/ Go(pr, Marked(call, m), p),
         UNCHANGED <<input, eof>>
  PROVE  Typed'
<1>1. p \in Nat \ {0} /\ p + 1 \in Nat \ {0}
  BY AtByte
<1>2. CASE Go(pr, Marked(NextByte, m), p + 1)
  BY <1>1, <1>2, TokenBegins, GoTyped, AtByte
<1>3. CASE Go(pr, Marked(call, m), p)
  BY <1>1, <1>3, TokenBegins, GoTyped, AtByte
<1> QED  BY <1>2, <1>3

\* message_begin keeps the types, and the message begins at the byte.
LEMMA BeginMessageTyped ==
  ASSUME Typed, NEW S, At(S), parser.state \notin Marking,
         NEW pr, IsParser(pr), pr.http_errno = "OK", NEW s, s \notin Marking,
         BeginMessage(pr, s), UNCHANGED <<input, eof>>
  PROVE  Typed'
<1>1. IsParser(In(pr, s)) /\ In(pr, s).state = s /\ In(pr, s).http_errno = "OK"
  BY DEF IsParser, In
<1>2. IsCall(NextByte) /\ NextByte.on /\ NextByte.fresh /\ NextByte.mark = call.mark /\ NextByte.end = call.end
  BY AtByte DEF IsCall, NextByte
<1>3. Say("message_begin") \in Entry
  BY SayTyped DEF Callbacks
<1> QED  BY <1>1, <1>2, <1>3, QuietCallback DEF BeginMessage

\* What a message resets leaves a parser: no flags, and no error of its own.
LEMMA FreshTyped ==
  ASSUME NEW pr, IsParser(pr)
  PROVE  /\ IsParser(Fresh(pr)) /\ Fresh(pr).http_errno = pr.http_errno
         /\ Fresh(pr).flags = {} /\ Fresh(pr).state = pr.state
BY WidthAssumption DEF IsParser, Fresh

\* A byte of a URL leads to a state of a URL or is an error.
LEMMA UrlCharStates ==
  ASSUME NEW s, NEW c
  PROVE  parse_url_char(s, c) \in UrlStates \cup {"s_dead"}
BY DEF parse_url_char, UrlStates, UrlOpening, UrlBody

\* The states of a URL are those its mark is set in.
LEMMA UrlStatesMark ==
  ASSUME NEW s \in UrlStates
  PROVE  Token("url", s) /\ s \in Marking
BY DEF Token, Marking

\* A byte inside of a token keeps its mark.
LEMMA TokenGoesOn ==
  ASSUME Typed, NEW S, At(S), NEW m, Token(m, parser.state), NEW s, Token(m, s),
         Break(parser, s), UNCHANGED <<input, eof>>
  PROVE  Typed'
<1>1. IsParser(In(parser, s)) /\ In(parser, s).state = s /\ In(parser, s).http_errno = "OK"
  BY AtByte DEF IsParser, In
<1>2. IsCall(NextByte) /\ NextByte.on /\ NextByte.fresh /\ NextByte.mark = call.mark /\ NextByte.end = call.end
  BY AtByte DEF IsCall, NextByte
<1>3. MarksFit(s, NextByte, p + 1)
  <2>1. \A k \in Marks \ {m} : call.mark[k] = 0
    BY AtByte DEF MarksFit, Token, Marks, UrlStates, UrlOpening, UrlBody, BodyMarked
  <2>2. m \in Marks /\ call.mark[m] # 0 /\ call.mark[m] \in 1 .. p /\ p \in Nat
    BY AtByte DEF MarksFit, Token, IsCall, Marks
  <2> QED  BY <1>2, <2>1, <2>2 DEF MarksFit, Token, Marks, UrlStates, UrlOpening, UrlBody
<1>4. Place(In(parser, s), NextByte, p + 1) /\ p + 1 \in Nat \ {0}
  BY <1>1, <1>2, <1>3, AtByte, InputTyped DEF Place, IsCall
<1> QED  BY <1>1, <1>2, <1>4, GoTyped, AtByte DEF Break

\* The cases of the start line keep the types.
LEMMA StartLineTyped ==
  ASSUME Typed, StartLine, UNCHANGED <<input, eof>>
  PROVE  Typed'
<1>1. CASE Dead
  BY <1>1, BreakTyped, ReexecuteTyped, ErrorTyped, AtByte DEF Dead, Marking, UrlStates, UrlOpening, UrlBody, BodyMarked, IsParser
<1>2. CASE SkipEol
  BY <1>2, BreakTyped, ReexecuteTyped, ErrorTyped, AtByte DEF SkipEol, Marking, UrlStates, UrlOpening, UrlBody, BodyMarked, IsParser
<1>3. CASE StartEither
  <2>1. parser.state \notin Marking /\ IsParser(Fresh(parser)) /\ Fresh(parser).http_errno = "OK"
    BY <1>3, AtByte, FreshTyped DEF StartEither, Marking, UrlStates, UrlOpening, UrlBody, BodyMarked
  <2>2. /\ IsParser([Fresh(parser) EXCEPT !.type = "HTTP_REQUEST"])
        /\ [Fresh(parser) EXCEPT !.type = "HTTP_REQUEST"].http_errno = "OK"
    BY <2>1 DEF IsParser
  <2>3. "s_res_or_resp_H" \notin Marking /\ "s_start_req" \notin Marking
    BY DEF Marking, UrlStates, UrlOpening, UrlBody, BodyMarked
  <2> QED  BY <1>3, <2>1, <2>2, <2>3, BeginMessageTyped, ReexecuteTyped DEF StartEither
<1>4. CASE ResOrRespH
  BY <1>4, BreakTyped, ReexecuteTyped, ErrorTyped, AtByte DEF ResOrRespH, Marking, UrlStates, UrlOpening, UrlBody, BodyMarked, IsParser
<1>5. CASE StartRes
  <2>1. parser.state \notin Marking /\ IsParser(Fresh(parser)) /\ Fresh(parser).http_errno = "OK"
    BY <1>5, AtByte, FreshTyped DEF StartRes, Marking, UrlStates, UrlOpening, UrlBody, BodyMarked
  <2>2. "s_res_H" \notin Marking
    BY DEF Marking, UrlStates, UrlOpening, UrlBody, BodyMarked
  <2> QED  BY <1>5, <2>1, <2>2, BeginMessageTyped, ErrorTyped, AtByte DEF StartRes
<1>6. CASE ResHttp
  BY <1>6, BreakTyped, ReexecuteTyped, ErrorTyped, AtByte DEF ResHttp, Marking, UrlStates, UrlOpening, UrlBody, BodyMarked, IsParser
<1>7. CASE ResVersion
  BY <1>7, BreakTyped, ReexecuteTyped, ErrorTyped, AtByte DEF ResVersion, Marking, UrlStates, UrlOpening, UrlBody, BodyMarked, IsParser
<1>8. CASE ResVersionEnd
  BY <1>8, BreakTyped, ReexecuteTyped, ErrorTyped, AtByte DEF ResVersionEnd, Marking, UrlStates, UrlOpening, UrlBody, BodyMarked, IsParser
<1>9. CASE StatusCode
  BY <1>9, BreakTyped, ReexecuteTyped, ErrorTyped, AtByte DEF StatusCode, Marking, UrlStates, UrlOpening, UrlBody, BodyMarked, IsParser
<1>10. CASE StatusCodeEnd
  BY <1>10, BreakTyped, ReexecuteTyped, ErrorTyped, AtByte DEF StatusCodeEnd, Marking, UrlStates, UrlOpening, UrlBody, BodyMarked, IsParser
<1>11. CASE StatusStart
  <2>1. /\ parser.state \notin Marking /\ IsParser(In(parser, "s_res_status"))
        /\ In(parser, "s_res_status").http_errno = "OK" /\ Token("status", In(parser, "s_res_status").state)
    BY <1>11, AtByte DEF StatusStart, In, IsParser, Token, Marking, UrlStates, UrlOpening, UrlBody, BodyMarked
  <2> QED  BY <1>11, <2>1, BeginTokenTyped DEF StatusStart
<1>12. CASE Status
  <2>1. At({"s_res_status"}) /\ Token("status", parser.state)
    BY <1>12, AtByte DEF Status, Token
  <2>2. CASE ch = "CR"
    BY <1>12, <2>1, <2>2, DataTyped, AtByte DEF Status, Marking, UrlStates, UrlOpening, UrlBody, BodyMarked
  <2>3. CASE ch = "LF"
    BY <1>12, <2>1, <2>3, DataTyped, AtByte DEF Status, Marking, UrlStates, UrlOpening, UrlBody, BodyMarked
  <2>4. CASE ch \notin Eol
    <3>1. Break(parser, "s_res_status")
      BY <1>12, <2>4 DEF Status, Eol
    <3> QED  BY <2>1, <3>1, TokenGoesOn DEF Token
  <2> QED  BY <2>2, <2>3, <2>4 DEF Eol
<1>13. CASE ResLineAlmostDone
  BY <1>13, BreakTyped, ReexecuteTyped, ErrorTyped, AtByte DEF ResLineAlmostDone, Marking, UrlStates, UrlOpening, UrlBody, BodyMarked, IsParser
<1>14. CASE StartReq
  <2>1. parser.state \notin Marking /\ IsParser(Fresh(parser)) /\ Fresh(parser).http_errno = "OK"
    BY <1>14, AtByte, FreshTyped DEF StartReq, Marking, UrlStates, UrlOpening, UrlBody, BodyMarked
  <2>2. \A m : /\ IsParser([Fresh(parser) EXCEPT !.method = m])
              /\ [Fresh(parser) EXCEPT !.method = m].http_errno = "OK"
    BY <2>1 DEF IsParser
  <2>3. "s_req_method" \notin Marking
    BY DEF Marking, UrlStates, UrlOpening, UrlBody, BodyMarked
  <2>4. \/ BeginMessage([Fresh(parser) EXCEPT !.method = MethodName[ch]], "s_req_method")
        \/ Error("INVALID_METHOD")
    BY <1>14 DEF StartReq
  <2> QED  BY <1>14, <2>1, <2>2, <2>3, <2>4, BeginMessageTyped, ErrorTyped, AtByte DEF StartReq
<1>15. CASE ReqMethod
  BY <1>15, BreakTyped, ReexecuteTyped, ErrorTyped, AtByte DEF ReqMethod, Marking, UrlStates, UrlOpening, UrlBody, BodyMarked, IsParser
<1>16. CASE ReqMethodEnd
  BY <1>16, BreakTyped, ReexecuteTyped, ErrorTyped, AtByte DEF ReqMethodEnd, Marking, UrlStates, UrlOpening, UrlBody, BodyMarked, IsParser
<1>17. CASE UrlStart
  <2> DEFINE s == parse_url_char(IF parser.method = "CONNECT" THEN "s_req_server_start"
                                ELSE parser.state, ch)
  <2>1. /\ At({"s_req_spaces_before_url"}) /\ parser.state \notin Marking
        /\ parser.state = "s_req_spaces_before_url"
    BY <1>17, AtByte DEF UrlStart, Marking, UrlStates, UrlOpening, UrlBody, BodyMarked
  <2>2. s \in UrlStates \cup {"s_dead"}
    BY UrlCharStates
  <2>3. \/ Break(parser, parser.state) \/ Error("INVALID_URL")
        \/ s # "s_dead" /\ Go(In(parser, s), Marked(NextByte, "url"), p + 1)
    BY <1>17 DEF UrlStart
  <2> HIDE DEF s
  <2>4. CASE s # "s_dead" /\ Go(In(parser, s), Marked(NextByte, "url"), p + 1)
    <3>1. /\ IsParser(In(parser, s)) /\ In(parser, s).http_errno = "OK"
          /\ Token("url", In(parser, s).state)
      BY <2>1, <2>2, <2>4, AtByte, UrlStatesMark DEF In, IsParser
    <3> QED  BY <2>1, <2>4, <3>1, BeginTokenTyped
  <2> QED  BY <2>1, <2>3, <2>4, BreakTyped, ErrorTyped, AtByte
<1>18. CASE UrlChar
  <2>1. At(UrlStates) /\ parser.state \in UrlStates
    BY <1>18, AtByte DEF UrlChar, UrlStates
  <2>2. \/ Error("INVALID_URL")
        \/ /\ parse_url_char(parser.state, ch) # "s_dead"
           /\ Break(parser, parse_url_char(parser.state, ch))
    BY <1>18 DEF UrlChar
  <2> QED  BY <2>1, <2>2, UrlCharStates, UrlStatesMark, TokenGoesOn, ErrorTyped, AtByte
<1>19. CASE UrlEnd
  <2>1. At(UrlBody) /\ Token("url", parser.state)
    BY <1>19, AtByte DEF UrlEnd, Token, UrlStates
  <2> DEFINE nine == [parser EXCEPT !.version = "0.9"]
  <2>2. IsParser(nine) /\ nine.http_errno = "OK"
    BY <2>1, AtByte DEF IsParser, Versions
  <2>3. /\ "s_req_http_start" \notin Marking /\ "s_req_line_almost_done" \notin Marking
        /\ "s_header_field_start" \notin Marking
    BY DEF Marking, UrlStates, UrlOpening, UrlBody, BodyMarked
  <2>4. \/ Data("url", parser, "s_req_http_start") \/ Data("url", nine, "s_req_line_almost_done")
        \/ Data("url", nine, "s_header_field_start")
    BY <1>19 DEF UrlEnd, Eol
  <2> HIDE DEF nine
  <2> QED  BY <2>1, <2>2, <2>3, <2>4, DataTyped, AtByte
<1>20. CASE ReqHttpStart
  BY <1>20, BreakTyped, ReexecuteTyped, ErrorTyped, AtByte DEF ReqHttpStart, Marking, UrlStates, UrlOpening, UrlBody, BodyMarked, IsParser
<1>21. CASE ReqHttp
  BY <1>21, BreakTyped, ReexecuteTyped, ErrorTyped, AtByte DEF ReqHttp, Marking, UrlStates, UrlOpening, UrlBody, BodyMarked, IsParser
<1>22. CASE ReqVersion
  BY <1>22, BreakTyped, ReexecuteTyped, ErrorTyped, AtByte DEF ReqVersion, Marking, UrlStates, UrlOpening, UrlBody, BodyMarked, IsParser
<1>23. CASE ReqVersionEnd
  BY <1>23, BreakTyped, ReexecuteTyped, ErrorTyped, AtByte DEF ReqVersionEnd, Marking, UrlStates, UrlOpening, UrlBody, BodyMarked, IsParser
<1>24. CASE ReqLineAlmostDone
  BY <1>24, BreakTyped, ReexecuteTyped, ErrorTyped, AtByte DEF ReqLineAlmostDone, Marking, UrlStates, UrlOpening, UrlBody, BodyMarked, IsParser
<1> QED  BY <1>1, <1>2, <1>3, <1>4, <1>5, <1>6, <1>7, <1>8, <1>9, <1>10, <1>11, <1>12, <1>13, <1>14, <1>15, <1>16, <1>17, <1>18, <1>19, <1>20, <1>21, <1>22, <1>23, <1>24 DEF StartLine

---------------------------------------------------------------------------
(* The inner loops: what a run over the bytes of a name or a value leaves  *)
(* alone, and what it may change.                                          *)
LEMMA ShiftTyped ==
  ASSUME NEW n \in Nat, NEW b \in Nat, NEW d \in Nat
  PROVE  Shift(n, b, d) \in 0 .. ULLONG_MAX
<1>1. n * b + d \in Nat /\ ULLONG_MAX + 1 \in Nat \ {0}
  BY WidthAssumption
<1>2. (n * b + d) % (ULLONG_MAX + 1) \in 0 .. ULLONG_MAX
  <2> DEFINE x == n * b + d  y == ULLONG_MAX + 1
  <2> HIDE DEF x, y
  <2>1. x % y \in 0 .. y - 1
    BY <1>1 DEF x, y
  <2> QED  BY <2>1, WidthAssumption DEF x, y
<1> QED  BY <1>2 DEF Shift

NameKept(r, pr) ==
  /\ IsParser(r) /\ r.state = pr.state /\ r.flags = pr.flags /\ r.http_errno = pr.http_errno
  /\ r.content_length = pr.content_length /\ r.nread = pr.nread

\* The bytes of a name change the state of the header and what it says of the coding only.
LEMMA NameRunKeeps ==
  ASSUME NEW pr, IsParser(pr), NEW bytes \in Seq(STRING)
  PROVE  NameKept(NameRun(pr, bytes), pr)
<1>1. PICK run : /\ run[0] = pr
                 /\ \A i \in 0 .. Len(bytes) - 1 : run[i + 1] = NameMore(run[i], bytes[i + 1])
                 /\ NameRun(pr, bytes) = run[Len(bytes)]
  BY NameRunIs
<1> DEFINE G == {i \in 0 .. Len(bytes) : NameKept(run[i], pr)}
<1>2. 0 \in G /\ Len(bytes) \in Nat
  BY <1>1 DEF NameKept
<1>3. \A i \in 0 .. Len(bytes) - 1 : i \in G => i + 1 \in G
  <2> TAKE i \in 0 .. Len(bytes) - 1
  <2> HAVE NameKept(run[i], pr)
  <2>1. ASSUME NEW r, NEW c, NameKept(r, pr) PROVE NameKept(NameMore(r, c), pr)
    BY <2>1 DEF NameKept, NameMore, IsParser
  <2> QED  BY <1>1, <2>1
<1>4. \A i \in 0 .. Len(bytes) : i \in G
  <2> HIDE DEF G
  <2> QED  BY <1>2, <1>3, UpTo, Zenon
<1> QED  BY <1>1, <1>4

\* The flags a value sets are those of Connection and Transfer-Encoding.
ValueKept(r, pr) ==
  /\ IsParser(r) /\ r.state = pr.state /\ r.nread = pr.nread
  /\ r.http_errno \in {"OK", "INVALID_HEADER_TOKEN", "INVALID_CONTENT_LENGTH"}
  /\ "F_TRAILING" \in r.flags <=> "F_TRAILING" \in pr.flags
  /\ r.header_state \notin {"h_connection", "h_transfer_encoding"}

\* A byte of a value changes the length, the flags of Connection, the state of the header.
LEMMA ValueStepKeeps ==
  ASSUME NEW pr, NEW r, ValueKept(r, pr), NEW c
  PROVE  ValueKept(ValueStep(r, c), pr)
<1>1. CASE r.http_errno # "OK"
  BY <1>1 DEF ValueStep
<1>2. ASSUME NEW s, s \notin {"h_connection", "h_transfer_encoding"}
      PROVE  ValueKept([r EXCEPT !.header_state = s], pr)
  BY <1>2 DEF ValueKept, IsParser
<1>3. ASSUME NEW e \in {"INVALID_HEADER_TOKEN", "INVALID_CONTENT_LENGTH"}
      PROVE  ValueKept([r EXCEPT !.http_errno = e], pr)
  BY <1>3 DEF ValueKept, IsParser
<1>4. IsNum(c) => ValueKept([r EXCEPT !.content_length = Shift(@, 10, Num[c])], pr)
  <2> HAVE IsNum(c)
  <2>1. Num[c] \in Nat /\ r.content_length \in Nat
    BY WidthAssumption DEF IsNum, Num, Digits, ValueKept, IsParser
  <2>2. Shift(r.content_length, 10, Num[c]) \in 0 .. ULLONG_MAX
    BY <2>1, ShiftTyped
  <2> QED  BY <2>2 DEF ValueKept, IsParser
<1>5. r.header_state \in TransferStates =>
        TransferStep(r.header_state, c) \notin {"h_connection", "h_transfer_encoding"}
  BY DEF TransferStates, TransferStep
<1>6. r.header_state \in ConnectionStates =>
        /\ ConnectionStep(r.header_state, c) \notin {"h_connection", "h_transfer_encoding"}
        /\ "F_TRAILING" \notin FlagOf(r.header_state)
  BY DEF ConnectionStates, ConnectionSaid, ConnectionStep, ConnectionStart, ConnectionMatch, FlagOf
<1>7. CASE r.header_state \in ConnectionStates /\ r.http_errno = "OK"
  BY <1>2, <1>3, <1>6, <1>7 DEF ValueStep, ValueKept, IsParser, TransferStates, ConnectionStates, ConnectionSaid
<1>8. CASE r.header_state \notin ConnectionStates /\ r.http_errno = "OK"
  BY <1>2, <1>3, <1>4, <1>5, <1>8 DEF ValueStep
<1> QED  BY <1>1, <1>7, <1>8

\* So do all of its bytes; an error among them is one of two.
LEMMA ValueRunKeeps ==
  ASSUME NEW pr, ValueKept(pr, pr), NEW bytes \in Seq(STRING)
  PROVE  ValueKept(ValueRun(pr, bytes), pr)
<1>1. PICK run : /\ run[0] = pr
                 /\ \A i \in 0 .. Len(bytes) - 1 : run[i + 1] = ValueStep(run[i], bytes[i + 1])
                 /\ ValueRun(pr, bytes) = run[Len(bytes)]
  BY ValueRunIs
<1> DEFINE G == {i \in 0 .. Len(bytes) : ValueKept(run[i], pr)}
<1>2. 0 \in G /\ Len(bytes) \in Nat
  BY <1>1
<1>3. \A i \in 0 .. Len(bytes) - 1 : i \in G => i + 1 \in G
  BY <1>1, ValueStepKeeps
<1>4. \A i \in 0 .. Len(bytes) : i \in G
  <2> HIDE DEF G
  <2> QED  BY <1>2, <1>3, UpTo, Zenon
<1> QED  BY <1>1, <1>4

---------------------------------------------------------------------------
\* Inside of a token the call may be at any byte up to its end, the mark kept.
LEMMA TokenPlace ==
  ASSUME Typed, NEW S, At(S), NEW m, Token(m, parser.state),
         NEW q \in p .. call.end + 1,
         NEW pr, pr.state = parser.state, pr.http_errno = "OK",
         NEW c, IsCall(c), c.end = call.end, c.mark = call.mark, q <= call.end \/ c.fresh
  PROVE  Place(pr, c, q)
<1>1. \A k \in Marks \ {m} : call.mark[k] = 0
  BY AtByte DEF MarksFit, Token, Marks, UrlStates, UrlOpening, UrlBody, BodyMarked
<1>2. m \in Marks /\ call.mark[m] # 0 /\ call.mark[m] \in 1 .. p /\ p \in Nat /\ call.end \in Nat
  BY AtByte DEF MarksFit, Token, IsCall, Marks
<1>3. MarksFit(pr.state, c, q)
  BY <1>1, <1>2 DEF MarksFit, Token, Marks, UrlStates, UrlOpening, UrlBody
<1> QED  BY <1>2, <1>3, AtByte, InputTyped DEF Place

\* A piece of the bytes is a sequence of bytes.
LEMMA BytesTyped ==
  ASSUME NEW s \in Seq(STRING), NEW m \in Nat \ {0}, NEW n \in Nat, n <= Len(s)
  PROVE  SubSeq(s, m, n) \in Seq(STRING)
OBVIOUS

\* Counting bytes changes nothing else of a call.
LEMMA CallCounts ==
  ASSUME NEW c, IsCall(c), c.on, NEW n, c.nread + n \in Nat
  PROVE  LET d == [c EXCEPT !.nread = @ + n]
             f == [c EXCEPT !.nread = @ + n, !.fresh = TRUE]
         IN  /\ IsCall(d) /\ d.end = c.end /\ d.mark = c.mark /\ d.on
             /\ d.nread = c.nread + n /\ d.fresh = c.fresh
             /\ IsCall(f) /\ f.end = c.end /\ f.mark = c.mark /\ f.on
             /\ f.nread = c.nread + n /\ f.fresh
BY DEF IsCall

(* The two inner loops end inside of the call or with it. *)
LEMMA FieldStartTyped ==
  ASSUME Typed, FieldStart, UNCHANGED <<input, eof>>
  PROVE  Typed'
<1> DEFINE pr == [parser EXCEPT !.header_state = NameStart(ch), !.state = "s_header_field"]
<1>1. At({"s_header_field_start"}) /\ parser.state \notin Marking /\ "s_headers_almost_done" \notin Marking
  BY AtByte DEF FieldStart, Marking, UrlStates, UrlOpening, UrlBody, BodyMarked
<1>2. \/ Break(parser, "s_headers_almost_done") \/ Reexecute(parser, "s_headers_almost_done")
      \/ Go(pr, Marked(NextByte, "header_field"), p + 1) \/ Error("INVALID_HEADER_TOKEN")
  BY DEF FieldStart
<1>3. IsParser(pr) /\ pr.http_errno = "OK" /\ Token("header_field", pr.state)
  BY <1>1, AtByte DEF IsParser, Token
<1> HIDE DEF pr
<1> QED  BY <1>1, <1>2, <1>3, BreakTyped, ReexecuteTyped, BeginTokenTyped, ErrorTyped, AtByte

\* The loop over a name keeps the types.
LEMMA HeaderFieldTyped ==
  ASSUME Typed, HeaderField, UNCHANGED <<input, eof>>
  PROVE  Typed'
<1> DEFINE q == StopAt(IsToken)
           pr == NameRun(parser, SubSeq(input.bytes, p, q - 1))
           counted == [call EXCEPT !.nread = @ + (q - p)]
           all == [call EXCEPT !.nread = @ + (q - 1 - p), !.fresh = TRUE]
           done == [Unmarked(counted, "header_field") EXCEPT !.fresh = TRUE]
           e == Tell("header_field", SubSeq(input.bytes, call.mark["header_field"], q - 1))
<1>1. /\ At({"s_header_field"}) /\ parser.state = "s_header_field" /\ Token("header_field", parser.state)
      /\ p \in Nat \ {0} /\ call.end \in Nat /\ p <= call.end /\ call.on
      /\ call.nread \in Nat /\ call.mark \in [Marks -> Nat] /\ IsCall(call)
      /\ call.end <= Len(input.bytes)
  BY AtByte DEF HeaderField, Token, IsCall
<1>2. q \in p .. call.end + 1
  <2>1. p \in Nat /\ p <= call.end + 1
    BY <1>1
  <2> QED  BY <1>1, <2>1, TokenStops, Zenon
<1>3. \/ q > call.end /\ Go(pr, all, q)
      \/ q <= call.end /\ Go(pr, counted, q)
      \/ q <= call.end /\ Callback(e, In(pr, "s_header_value_discard_ws"), done, q + 1) /\ UNCHANGED first
      \/ Error("INVALID_HEADER_TOKEN")
  BY <1>1, <1>2 DEF HeaderField
<1>4. IsParser(pr) /\ pr.state = parser.state /\ pr.http_errno = "OK"
  <2>1. SubSeq(input.bytes, p, q - 1) \in Seq(STRING)
    <3> HIDE DEF q
    <3>1. q - 1 \in Nat /\ q - 1 <= Len(input.bytes)
      BY <1>1, <1>2, InputTyped
    <3> QED  BY <1>1, <3>1, InputTyped, BytesTyped
  <2> HIDE DEF q
  <2> QED  BY <2>1, <1>1, AtByte, NameRunKeeps DEF NameKept
<1> HIDE DEF q, pr
<1>5. q - p \in Nat /\ (q > call.end => q - 1 - p \in Nat) /\ q \in Nat \ {0} /\ q + 1 \in Nat \ {0}
  BY <1>1, <1>2
<1>6. IsCall(counted) /\ counted.end = call.end /\ counted.mark = call.mark /\ counted.on
  <2>1. call.nread + (q - p) \in Nat
    BY <1>1, <1>5
  <2> QED  BY <1>1, <2>1, CallCounts
<1>7. q > call.end => IsCall(all) /\ all.end = call.end /\ all.mark = call.mark /\ all.on /\ all.fresh
  <2> HAVE q > call.end
  <2>1. call.nread + (q - 1 - p) \in Nat
    BY <1>1, <1>5
  <2> QED  BY <1>1, <2>1, CallCounts
<1>8. /\ DOMAIN done = {"on", "end", "nread", "fresh", "mark"} /\ done.on /\ done.fresh
      /\ done.end = call.end /\ done.nread = counted.nread
      /\ done.mark = [call.mark EXCEPT !["header_field"] = 0]
  BY <1>6 DEF Unmarked, IsCall
<1> HIDE DEF all, counted
<1>9. CASE q > call.end /\ Go(pr, all, q)
  BY <1>1, <1>2, <1>4, <1>5, <1>7, <1>9, TokenPlace, GoTyped
<1>10. CASE q <= call.end /\ Go(pr, counted, q)
  BY <1>1, <1>2, <1>4, <1>5, <1>6, <1>10, TokenPlace, GoTyped
<1>11. CASE q <= call.end /\ Callback(e, In(pr, "s_header_value_discard_ws"), done, q + 1) /\ UNCHANGED first
  <2>1. IsCall(done)
    <3>1. done.mark \in [Marks -> Nat]
      BY <1>1, <1>8
    <3> HIDE DEF done
    <3> QED  BY <1>6, <1>8, <3>1 DEF IsCall
  <2>2. /\ IsParser(In(pr, "s_header_value_discard_ws")) /\ In(pr, "s_header_value_discard_ws").http_errno = "OK"
        /\ In(pr, "s_header_value_discard_ws").state \notin Marking
    BY <1>4 DEF In, IsParser, Marking, UrlStates, UrlOpening, UrlBody, BodyMarked
  <2>3. q \in p .. call.end /\ "header_field" \in Callbacks
    BY <1>2, <1>11 DEF Callbacks
  <2> HIDE DEF done
  <2>4. Place(In(pr, "s_header_value_discard_ws"), done, q + 1)
    BY <1>1, <1>8, <2>1, <2>2, <2>3, TokenEnds
  <2>5. e \in Entry
    BY <1>1, <2>3, TokenTold
  <2>6. first' \in 1 .. Len(input.bytes) + 1
    BY <1>11 DEF Typed
  <2> QED  BY <1>1, <1>5, <1>8, <1>11, <2>1, <2>2, <2>4, <2>5, <2>6, CallbackTyped
<1>12. CASE Error("INVALID_HEADER_TOKEN")
  BY <1>1, <1>12, ErrorTyped
<1> QED  BY <1>3, <1>9, <1>10, <1>11, <1>12

\* The first byte of a value, of whatever header, keeps the types.
LEMMA ValueStartTyped ==
  ASSUME Typed, ValueStart, UNCHANGED <<input, eof>>
  PROVE  Typed'
<1> DEFINE To(pr) == Go(In(pr, "s_header_value"), Marked(NextByte, "header_value"), p + 1)
<1>1. At({"s_header_value_start"}) /\ parser.state \notin Marking
  BY AtByte DEF ValueStart, Marking, UrlStates, UrlOpening, UrlBody, BodyMarked
<1>2. ASSUME NEW pr, IsParser(pr), pr.http_errno = "OK", To(pr) PROVE Typed'
  <2>1. /\ IsParser(In(pr, "s_header_value")) /\ In(pr, "s_header_value").http_errno = "OK"
        /\ Token("header_value", In(pr, "s_header_value").state)
    BY <1>2 DEF IsParser, In, Token
  <2> QED  BY <1>1, <1>2, <2>1, BeginTokenTyped
<1>3. IsParser(parser) /\ parser.http_errno = "OK"
  BY <1>1, AtByte
<1>4. \A s : IsParser([parser EXCEPT !.header_state = s]) /\ [parser EXCEPT !.header_state = s].http_errno = "OK"
  BY <1>3 DEF IsParser
<1>5. /\ IsParser([parser EXCEPT !.flags = @ \cup {"F_UPGRADE"}, !.header_state = "h_general"])
      /\ [parser EXCEPT !.flags = @ \cup {"F_UPGRADE"}, !.header_state = "h_general"].http_errno = "OK"
  BY <1>3 DEF IsParser
<1> DEFINE length == [parser EXCEPT !.flags = @ \cup {"F_CONTENTLENGTH"}, !.content_length = Num[ch],
                                    !.header_state = "h_content_length_num"]
<1>6. IsNum(ch) => IsParser(length) /\ length.http_errno = "OK"
  <2> HAVE IsNum(ch)
  <2>1. Num[ch] \in 0 .. ULLONG_MAX
    BY WidthAssumption DEF IsNum, Num, Digits
  <2> QED  BY <1>3, <2>1 DEF IsParser
<1>7. \/ To(parser) \/ To([parser EXCEPT !.flags = @ \cup {"F_UPGRADE"}, !.header_state = "h_general"])
      \/ \E s : To([parser EXCEPT !.header_state = s])
      \/ IsNum(ch) /\ To(length)
      \/ Error("INVALID_CONTENT_LENGTH") \/ Error("UNEXPECTED_CONTENT_LENGTH")
  BY DEF ValueStart
<1> HIDE DEF To, length
<1> QED  BY <1>1, <1>2, <1>3, <1>4, <1>5, <1>6, <1>7, ErrorTyped, AtByte

\* The loop over a value keeps the types, in the states the code does not assert against.
LEMMA HeaderValueTyped ==
  ASSUME Typed, BodyFramed(parser), HeaderValue, UNCHANGED <<input, eof>>
  PROVE  Typed'
<1> DEFINE q == StopAt(NoEol)
           pr == ValueRun(parser, SubSeq(input.bytes, p, q - 1))
           counted == [call EXCEPT !.nread = @ + (q - p)]
           all == [call EXCEPT !.nread = @ + (q - 1 - p), !.fresh = TRUE]
           done == Unmarked(counted, "header_value")
           doneNext == [done EXCEPT !.fresh = TRUE]
           e == Tell("header_value", SubSeq(input.bytes, call.mark["header_value"], q - 1))
           after == In(pr, "s_header_almost_done")
<1>1. /\ At({"s_header_value"}) /\ parser.state = "s_header_value" /\ Token("header_value", parser.state)
      /\ p \in Nat \ {0} /\ call.end \in Nat /\ p <= call.end /\ call.on
      /\ call.nread \in Nat /\ call.mark \in [Marks -> Nat] /\ IsCall(call)
      /\ call.end <= Len(input.bytes)
  BY AtByte DEF HeaderValue, Token, IsCall
<1>2. q \in p .. call.end + 1
  <2>1. p \in Nat /\ p <= call.end + 1
    BY <1>1
  <2> QED  BY <1>1, <2>1, ValueStops, Zenon
<1>3. \/ pr.http_errno = "OK" /\ q > call.end /\ Go(pr, all, q)
      \/ pr.http_errno = "OK" /\ q <= call.end /\ Go(pr, counted, q)
      \/ pr.http_errno = "OK" /\ q <= call.end /\ Callback(e, after, doneNext, q + 1) /\ UNCHANGED first
      \/ pr.http_errno = "OK" /\ q <= call.end /\ Callback(e, after, done, q) /\ UNCHANGED first
      \/ pr.http_errno # "OK" /\ Error(pr.http_errno)
  BY <1>1, <1>2 DEF HeaderValue
<1>4. IsParser(pr) /\ pr.state = parser.state
  <2>1. SubSeq(input.bytes, p, q - 1) \in Seq(STRING)
    <3> HIDE DEF q
    <3>1. q - 1 \in Nat /\ q - 1 <= Len(input.bytes)
      BY <1>1, <1>2, InputTyped
    <3> QED  BY <1>1, <3>1, InputTyped, BytesTyped
  <2>2. ValueKept(parser, parser)
    BY <1>1, AtByte DEF ValueKept, BodyFramed
  <2> HIDE DEF q
  <2>3. ValueKept(pr, parser)
    BY <2>1, <2>2, ValueRunKeeps
  <2> HIDE DEF pr
  <2> QED  BY <2>3 DEF ValueKept
<1> HIDE DEF q, pr
<1>5. q - p \in Nat /\ (q > call.end => q - 1 - p \in Nat) /\ q \in Nat \ {0} /\ q + 1 \in Nat \ {0}
  BY <1>1, <1>2
<1>6. IsCall(counted) /\ counted.end = call.end /\ counted.mark = call.mark /\ counted.on
  <2>1. call.nread + (q - p) \in Nat
    BY <1>1, <1>5
  <2> QED  BY <1>1, <2>1, CallCounts
<1>7. q > call.end => IsCall(all) /\ all.end = call.end /\ all.mark = call.mark /\ all.on /\ all.fresh
  <2> HAVE q > call.end
  <2>1. call.nread + (q - 1 - p) \in Nat
    BY <1>1, <1>5
  <2> QED  BY <1>1, <2>1, CallCounts
<1>8. /\ DOMAIN done = {"on", "end", "nread", "fresh", "mark"} /\ done.on /\ done.fresh \in BOOLEAN
      /\ done.end = call.end /\ done.nread = counted.nread
      /\ done.mark = [call.mark EXCEPT !["header_value"] = 0]
  BY <1>6 DEF Unmarked, IsCall
<1> HIDE DEF all, counted
<1>9. IsCall(done)
  <2>1. done.mark \in [Marks -> Nat]
    BY <1>1, <1>8
  <2> HIDE DEF done
  <2> QED  BY <1>6, <1>8, <2>1 DEF IsCall
<1> HIDE DEF done
<1>10. /\ IsCall(doneNext) /\ doneNext.on /\ doneNext.end = call.end /\ doneNext.fresh
       /\ doneNext.mark = [call.mark EXCEPT !["header_value"] = 0]
  BY <1>8, <1>9 DEF IsCall
<1> HIDE DEF doneNext
<1>11. pr.http_errno = "OK" => IsParser(after) /\ after.http_errno = "OK" /\ after.state \notin Marking
  BY <1>4 DEF In, IsParser, Marking, UrlStates, UrlOpening, UrlBody, BodyMarked
<1>12. first \in 1 .. Len(input.bytes) + 1 /\ "header_value" \in Callbacks
  BY DEF Typed, Callbacks
<1> HIDE DEF after
<1>13. CASE pr.http_errno = "OK" /\ q > call.end /\ Go(pr, all, q)
  BY <1>1, <1>2, <1>4, <1>5, <1>7, <1>13, TokenPlace, GoTyped
<1>14. CASE pr.http_errno = "OK" /\ q <= call.end /\ Go(pr, counted, q)
  BY <1>1, <1>2, <1>4, <1>5, <1>6, <1>14, TokenPlace, GoTyped
<1>15. CASE pr.http_errno = "OK" /\ q <= call.end /\ Callback(e, after, doneNext, q + 1) /\ UNCHANGED first
  <2>1. q \in p .. call.end
    BY <1>2, <1>15
  <2>2. e \in Entry
    BY <1>1, <1>12, <2>1, TokenTold
  <2>3. Place(after, doneNext, q + 1)
    BY <1>1, <1>10, <1>11, <1>15, <2>1, TokenEnds
  <2> QED  BY <1>1, <1>5, <1>10, <1>11, <1>12, <1>15, <2>2, <2>3, CallbackTyped
<1>16. CASE pr.http_errno = "OK" /\ q <= call.end /\ Callback(e, after, done, q) /\ UNCHANGED first
  <2>1. q \in p .. call.end
    BY <1>2, <1>16
  <2>2. e \in Entry
    BY <1>1, <1>12, <2>1, TokenTold
  <2>3. Place(after, done, q)
    BY <1>1, <1>8, <1>9, <1>11, <1>16, <2>1, TokenEnds
  <2> QED  BY <1>1, <1>5, <1>8, <1>9, <1>11, <1>12, <1>16, <2>2, <2>3, CallbackTyped
<1>17. CASE pr.http_errno # "OK" /\ Error(pr.http_errno)
  BY <1>1, <1>17, ErrorTyped
<1> QED  BY <1>3, <1>13, <1>14, <1>15, <1>16, <1>17

\* The cases of the header lines keep the types.
LEMMA HeadersTyped ==
  ASSUME Typed, BodyFramed(parser), Headers, UNCHANGED <<input, eof>>
  PROVE  Typed'
<1>1. CASE ValueDiscardWs
  BY <1>1, BreakTyped, ReexecuteTyped, AtByte DEF ValueDiscardWs, Marking, UrlStates, UrlOpening, UrlBody, BodyMarked, IsParser
<1>2. CASE HeaderAlmostDone
  BY <1>2, BreakTyped, ErrorTyped, AtByte DEF HeaderAlmostDone, Marking, UrlStates, UrlOpening, UrlBody, BodyMarked, IsParser
<1>3. CASE ValueDiscardWsAlmostDone
  BY <1>3, BreakTyped, ErrorTyped, AtByte DEF ValueDiscardWsAlmostDone, Marking, UrlStates, UrlOpening, UrlBody, BodyMarked, IsParser
<1>4. CASE ValueLws
  <2>1. At({"s_header_value_lws"}) /\ parser.state \notin Marking /\ IsParser(parser) /\ parser.http_errno = "OK"
    BY <1>4, AtByte DEF ValueLws, Marking, UrlStates, UrlOpening, UrlBody, BodyMarked
  <2>2. "s_header_value_start" \notin Marking /\ "s_header_field_start" \notin Marking
    BY DEF Marking, UrlStates, UrlOpening, UrlBody, BodyMarked
  <2>3. \A s : IsParser([parser EXCEPT !.header_state = s]) /\ [parser EXCEPT !.header_state = s].http_errno = "OK"
    BY <2>1 DEF IsParser
  <2>4. \A f : IsParser([parser EXCEPT !.flags = f]) /\ [parser EXCEPT !.flags = f].http_errno = "OK"
    BY <2>1 DEF IsParser
  <2>5. \/ \E s : Reexecute([parser EXCEPT !.header_state = s], "s_header_value_start")
        \/ \E f : Reexecute([parser EXCEPT !.flags = f], "s_header_field_start")
    BY <1>4 DEF ValueLws
  <2> QED  BY <2>1, <2>2, <2>3, <2>4, <2>5, ReexecuteTyped
<1>5. CASE ValueDiscardLws
  <2> DEFINE pr == [parser EXCEPT !.flags = @ \cup FlagOf(parser.header_state)]
  <2>1. At({"s_header_value_discard_lws"}) /\ parser.state \notin Marking
    BY <1>5, AtByte DEF ValueDiscardLws, Marking, UrlStates, UrlOpening, UrlBody, BodyMarked
  <2>2. "s_header_value_discard_ws" \notin Marking /\ "s_header_field_start" \notin Marking
    BY DEF Marking, UrlStates, UrlOpening, UrlBody, BodyMarked
  <2>3. \/ Break(parser, "s_header_value_discard_ws") \/ Error("INVALID_CONTENT_LENGTH")
        \/ NotifyAgain("header_value", pr, "s_header_field_start")
    BY <1>5 DEF ValueDiscardLws
  <2>4. /\ IsParser(In(pr, "s_header_field_start")) /\ In(pr, "s_header_field_start").http_errno = "OK"
        /\ In(pr, "s_header_field_start").state = "s_header_field_start"
    BY <2>1, AtByte DEF In, IsParser
  <2>5. Say("header_value") \in Entry
    BY SayTyped DEF Callbacks
  <2> HIDE DEF pr
  <2>6. CASE NotifyAgain("header_value", pr, "s_header_field_start")
    BY <2>1, <2>2, <2>4, <2>5, <2>6, AtByte, QuietCallback DEF NotifyAgain
  <2> QED  BY <2>1, <2>2, <2>3, <2>6, BreakTyped, ErrorTyped, AtByte
<1> QED  BY <1>1, <1>2, <1>3, <1>4, <1>5, FieldStartTyped, HeaderFieldTyped, ValueStartTyped, HeaderValueTyped DEF Headers

---------------------------------------------------------------------------
(* Outside of the tokens nothing is marked but a body. *)
Tokens == {"s_header_field", "s_header_value", "s_res_status"} \cup UrlStates

\* No mark is a choice of marks.
LEMMA NoMarkTyped == NoMark \in [Marks -> Nat]
BY DEF NoMark

\* With nothing marked the call may be anywhere in its bytes.
LEMMA BarePlace ==
  ASSUME Typed, NEW S, At(S),
         NEW pr, pr.state \notin Tokens, pr.http_errno = "OK",
         NEW c, IsCall(c), c.mark = NoMark, c.end \in {p, call.end},
         NEW q \in Nat, q <= c.end \/ (q = c.end + 1 /\ c.fresh)
  PROVE  Place(pr, c, q)
<1>1. \A m \in Marks : c.mark[m] = 0
  BY DEF NoMark
<1>2. MarksFit(pr.state, c, q)
  BY <1>1 DEF MarksFit, Marks, Tokens
<1>3. c.end \in Nat /\ c.end <= Len(input.bytes)
  BY AtByte DEF IsCall
<1> QED  BY <1>2, <1>3, InputTyped DEF Place

\* With a body marked the call is behind the mark.
LEMMA BodyPlace ==
  ASSUME Typed, NEW S, At(S),
         NEW pr, pr.state \in BodyMarked, pr.http_errno = "OK",
         NEW c, IsCall(c), c.end = call.end, NEW m \in Nat, c.mark = [NoMark EXCEPT !["body"] = m],
         NEW q \in Nat, m < q, q <= c.end \/ (q = c.end + 1 /\ c.fresh)
  PROVE  Place(pr, c, q)
<1>1. \A k \in Marks : c.mark[k] = IF k = "body" THEN m ELSE 0
  BY DEF NoMark
<1>2. MarksFit(pr.state, c, q)
  BY <1>1 DEF MarksFit, Marks, BodyMarked, UrlStates, UrlOpening, UrlBody
<1>3. c.end \in Nat /\ c.end <= Len(input.bytes)
  BY AtByte DEF IsCall
<1> QED  BY <1>2, <1>3, InputTyped DEF Place

\* In the states of a body nothing but the body can be marked, behind p.
LEMMA BodyMark ==
  ASSUME Typed, NEW S, At(S), parser.state \in BodyMarked
  PROVE  /\ call.mark = [NoMark EXCEPT !["body"] = call.mark["body"]]
         /\ call.mark["body"] \in 0 .. p - 1
         /\ [call.mark EXCEPT !["body"] = 0] = NoMark
<1>1. call.mark \in [Marks -> Nat] /\ p \in Nat \ {0}
  BY AtByte DEF IsCall
<1>2. \A k \in Marks : k # "body" => call.mark[k] = 0
  BY AtByte DEF MarksFit, Marks, BodyMarked, UrlStates, UrlOpening, UrlBody
<1>3. call.mark["body"] \in Nat /\ (call.mark["body"] # 0 => call.mark["body"] < p)
  BY <1>1, AtByte DEF MarksFit, Marks
<1>4. call.mark = [NoMark EXCEPT !["body"] = call.mark["body"]]
  BY <1>1, <1>2 DEF NoMark, Marks
<1>5. [call.mark EXCEPT !["body"] = 0] = NoMark
  BY <1>1, <1>2 DEF NoMark, Marks
<1> QED  BY <1>1, <1>3, <1>4, <1>5

(* The mark of a body: it is set unless it is set already. *)
LEMMA MarkedBody ==
  ASSUME Typed, NEW S, At(S), parser.state \in BodyMarked, NEW c \in {call, NextByte}
  PROVE  LET d == Marked(c, "body")
         IN  /\ IsCall(d) /\ d.on /\ d.end = call.end /\ d.nread = call.nread /\ d.fresh = c.fresh
             /\ d.mark["body"] \in 1 .. p
             /\ d.mark = [NoMark EXCEPT !["body"] = d.mark["body"]]
             /\ d.mark["body"] = IF call.mark["body"] = 0 THEN p ELSE call.mark["body"]
<1> DEFINE d == Marked(c, "body")
           m == IF call.mark["body"] = 0 THEN p ELSE call.mark["body"]
<1>1. IsCall(c) /\ c.on /\ c.end = call.end /\ c.nread = call.nread /\ c.mark = call.mark
  BY AtByte DEF IsCall, NextByte
<1>2. "body" \in Marks /\ m \in 1 .. p /\ m \in Nat
  BY AtByte, BodyMark DEF Marks
<1>3. /\ d.on = c.on /\ d.end = c.end /\ d.nread = c.nread /\ d.fresh = c.fresh
      /\ DOMAIN d = {"on", "end", "nread", "fresh", "mark"}
      /\ d.mark = [call.mark EXCEPT !["body"] = m]
  BY <1>1, <1>2 DEF Marked, IsCall
<1>4. [call.mark EXCEPT !["body"] = m] = [NoMark EXCEPT !["body"] = m]
  <2> HIDE DEF m
  <2>1. \A b : [[NoMark EXCEPT !["body"] = b] EXCEPT !["body"] = m] = [NoMark EXCEPT !["body"] = m]
    BY DEF NoMark
  <2> QED  BY <2>1, BodyMark
<1> HIDE DEF d, m
<1>5. d.mark["body"] = m
  BY <1>2, <1>3, <1>4 DEF NoMark
<1>6. d.mark \in [Marks -> Nat]
  BY <1>1, <1>2, <1>3 DEF IsCall
<1>7. IsCall(d)
  BY <1>1, <1>3, <1>6 DEF IsCall
<1>8. /\ d.on /\ d.end = call.end /\ d.nread = call.nread /\ d.fresh = c.fresh
      /\ d.mark = [NoMark EXCEPT !["body"] = d.mark["body"]] /\ d.mark["body"] \in 1 .. p
  BY <1>1, <1>2, <1>3, <1>4, <1>5
<1> QED  BY <1>5, <1>7, <1>8, Zenon DEF d, m

(* A body is told from its mark to a byte of the call. *)
LEMMA BodyTold ==
  ASSUME Typed, NEW S, At(S), NEW m \in 1 .. p, NEW n \in p - 1 .. call.end
  PROVE  Tell("body", SubSeq(input.bytes, m, n)) \in Entry
<1>1. /\ input.bytes \in Seq(STRING) /\ m \in Nat /\ m >= 1 /\ n \in Nat /\ n <= Len(input.bytes)
      /\ "body" \in Callbacks
  BY AtByte, InputTyped DEF IsCall, Callbacks
<1> QED  BY <1>1, PieceTyped

(* How much of a body a step takes: something, and no more than the call has. *)
LEMMA ReadTyped ==
  ASSUME Typed, NEW S, At(S), parser.content_length # 0
  PROVE  /\ ToRead \in 1 .. parser.content_length /\ p + ToRead <= call.end + 1
         /\ parser.content_length - ToRead \in 0 .. ULLONG_MAX
         /\ (parser.content_length - ToRead # 0 => ToRead = call.end + 1 - p)
BY AtByte, WidthAssumption DEF ToRead, Least, IsParser, IsCall

\* Bytes of a body with a length, or the last of them, keep the types.
LEMMA BodyIdentityTyped ==
  ASSUME Typed, BodyFramed(parser), BodyIdentity, UNCHANGED <<input, eof>>
  PROVE  Typed'
<1> DEFINE pr == [parser EXCEPT !.content_length = @ - ToRead]
           c == Marked(call, "body")
           d == [c EXCEPT !.fresh = TRUE]
           last == p + ToRead - 1
           e == Tell("body", SubSeq(input.bytes, c.mark["body"], last))
<1>1. /\ At({"s_body_identity"}) /\ parser.state = "s_body_identity" /\ parser.state \in BodyMarked
      /\ IsParser(parser) /\ parser.http_errno = "OK" /\ parser.content_length # 0
      /\ p \in Nat \ {0} /\ call.end \in Nat /\ p <= call.end /\ call.on /\ ~call.fresh /\ IsCall(call)
  BY AtByte DEF BodyIdentity, BodyFramed, BodyMarked, IsCall
<1>2. /\ ToRead \in Nat \ {0} /\ p + ToRead <= call.end + 1
      /\ parser.content_length - ToRead \in 0 .. ULLONG_MAX
  BY <1>1, ReadTyped DEF IsParser
<1>3. IsParser(pr) /\ pr.state = "s_body_identity" /\ pr.http_errno = "OK"
  BY <1>1, <1>2 DEF IsParser
<1>4. /\ IsParser(In(pr, "s_message_done")) /\ In(pr, "s_message_done").http_errno = "OK"
      /\ In(pr, "s_message_done").state \notin Tokens
  BY <1>3 DEF IsParser, In, Tokens, UrlStates, UrlOpening, UrlBody
<1>5. /\ IsCall(c) /\ c.on /\ c.end = call.end /\ c.mark["body"] \in 1 .. p
      /\ c.mark = [NoMark EXCEPT !["body"] = c.mark["body"]]
  BY <1>1, MarkedBody
<1>6. \/ Callback(e, In(pr, "s_message_done"), Unmarked(call, "body"), last) /\ UNCHANGED first
      \/ Go(pr, d, last + 1)
  BY DEF BodyIdentity
<1>7. last \in Nat \ {0} /\ last \in p - 1 .. call.end /\ last + 1 \in Nat \ {0} /\ p < last + 1 /\ last + 1 <= call.end + 1
  BY <1>1, <1>2
<1> HIDE DEF last, pr, c
<1>8. CASE Go(pr, d, last + 1)
  <2>1. IsCall(d) /\ d.on /\ d.fresh /\ d.end = call.end /\ d.mark = c.mark
    BY <1>5 DEF IsCall
  <2>2. c.mark["body"] \in Nat /\ c.mark["body"] < last + 1
    BY <1>1, <1>5, <1>7
  <2>3. last + 1 <= d.end \/ (last + 1 = d.end + 1 /\ d.fresh)
    BY <1>1, <1>7, <2>1
  <2> HIDE DEF d
  <2>4. Place(pr, d, last + 1)
    BY <1>1, <1>3, <1>5, <1>7, <2>1, <2>2, <2>3, BodyPlace
  <2> QED  BY <1>1, <1>3, <1>7, <1>8, <2>1, <2>4, GoTyped
<1>9. CASE Callback(e, In(pr, "s_message_done"), Unmarked(call, "body"), last) /\ UNCHANGED first
  <2> DEFINE b == Unmarked(call, "body")
  <2>1. /\ DOMAIN b = {"on", "end", "nread", "fresh", "mark"} /\ b.on /\ b.fresh = FALSE
        /\ b.end = call.end /\ b.nread = call.nread /\ b.mark = [call.mark EXCEPT !["body"] = 0]
    BY <1>1 DEF Unmarked, IsCall
  <2>2. b.mark = NoMark
    BY <1>1, <2>1, BodyMark
  <2> HIDE DEF b
  <2>3. IsCall(b)
    BY <1>1, <2>1, <2>2, NoMarkTyped DEF IsCall
  <2>4. Place(In(pr, "s_message_done"), b, last)
    BY <1>1, <1>4, <1>7, <2>1, <2>2, <2>3, BarePlace
  <2>5. e \in Entry
    BY <1>1, <1>5, <1>7, BodyTold
  <2>6. first' \in 1 .. Len(input.bytes) + 1
    BY <1>9 DEF Typed
  <2> QED  BY <1>1, <1>4, <1>7, <1>9, <2>1, <2>3, <2>4, <2>5, <2>6, CallbackTyped DEF b
<1> QED  BY <1>6, <1>8, <1>9

\* A body up to the end of the connection takes all the call has.
LEMMA BodyIdentityEofTyped ==
  ASSUME Typed, BodyIdentityEof, UNCHANGED <<input, eof>>
  PROVE  Typed'
<1> DEFINE c == Marked(NextByte, "body")
<1>1. /\ At({"s_body_identity_eof"}) /\ parser.state \in BodyMarked
      /\ IsParser(parser) /\ parser.http_errno = "OK"
      /\ p \in Nat \ {0} /\ call.end \in Nat /\ p <= call.end /\ call.on
  BY AtByte DEF BodyIdentityEof, BodyMarked, IsCall
<1>2. /\ IsCall(c) /\ c.on /\ c.end = call.end /\ c.mark["body"] \in 1 .. p
      /\ c.mark = [NoMark EXCEPT !["body"] = c.mark["body"]] /\ c.fresh
  BY <1>1, MarkedBody DEF NextByte, IsCall, Typed
<1>3. Go(parser, c, call.end + 1)
  BY DEF BodyIdentityEof
<1> HIDE DEF c
<1>4. c.mark["body"] \in Nat /\ c.mark["body"] < call.end + 1 /\ call.end + 1 \in Nat \ {0}
  BY <1>1, <1>2
<1>5. Place(parser, c, call.end + 1)
  BY <1>1, <1>2, <1>4, BodyPlace
<1> QED  BY <1>1, <1>2, <1>3, <1>4, <1>5, GoTyped

\* Bytes of a chunk keep the types.
LEMMA ChunkDataTyped ==
  ASSUME Typed, BodyFramed(parser), ChunkData, UNCHANGED <<input, eof>>
  PROVE  Typed'
<1> DEFINE pr == [parser EXCEPT !.content_length = @ - ToRead]
           after == IF pr.content_length = 0 THEN In(pr, "s_chunk_data_almost_done") ELSE pr
           c == Marked(NextByte, "body")
<1>1. /\ At({"s_chunk_data"}) /\ parser.state = "s_chunk_data" /\ parser.state \in BodyMarked
      /\ IsParser(parser) /\ parser.http_errno = "OK" /\ parser.content_length # 0
      /\ p \in Nat \ {0} /\ call.end \in Nat /\ p <= call.end /\ call.on /\ IsCall(call)
  BY AtByte DEF ChunkData, BodyFramed, BodyMarked, IsCall
<1>2. /\ ToRead \in Nat \ {0} /\ p + ToRead <= call.end + 1
      /\ parser.content_length - ToRead \in 0 .. ULLONG_MAX
  BY <1>1, ReadTyped DEF IsParser
<1>3. IsParser(pr) /\ pr.state = "s_chunk_data" /\ pr.http_errno = "OK"
  BY <1>1, <1>2 DEF IsParser
<1> HIDE DEF pr
<1>4. IsParser(after) /\ after.state \in BodyMarked /\ after.http_errno = "OK"
  BY <1>3 DEF IsParser, In, BodyMarked
<1>5. /\ IsCall(c) /\ c.on /\ c.end = call.end /\ c.mark["body"] \in 1 .. p
      /\ c.mark = [NoMark EXCEPT !["body"] = c.mark["body"]] /\ c.fresh
  BY <1>1, MarkedBody DEF NextByte, IsCall
<1>6. Go(after, c, p + ToRead)
  BY DEF ChunkData, pr
<1> HIDE DEF after, c
<1>7. p + ToRead \in Nat \ {0} /\ c.mark["body"] \in Nat /\ c.mark["body"] < p + ToRead
  BY <1>1, <1>2, <1>5
<1>8. p + ToRead <= c.end \/ (p + ToRead = c.end + 1 /\ c.fresh)
  BY <1>1, <1>2, <1>5, <1>7
<1>9. Place(after, c, p + ToRead)
  BY <1>1, <1>4, <1>5, <1>7, <1>8, BodyPlace
<1> QED  BY <1>1, <1>4, <1>5, <1>6, <1>7, <1>9, GoTyped

\* The CR behind a chunk tells what is marked of it.
LEMMA ChunkDataAlmostDoneTyped ==
  ASSUME Typed, ChunkDataAlmostDone, UNCHANGED <<input, eof>>
  PROVE  Typed'
<1> DEFINE c == Unmarked(NextByte, "body")
           after == In(parser, "s_chunk_data_done")
           e == Tell("body", SubSeq(input.bytes, call.mark["body"], p - 1))
<1>1. /\ At({"s_chunk_data_almost_done"}) /\ parser.state \in BodyMarked
      /\ IsParser(parser) /\ parser.http_errno = "OK"
      /\ p \in Nat \ {0} /\ call.end \in Nat /\ p <= call.end /\ call.on /\ IsCall(call)
  BY AtByte DEF ChunkDataAlmostDone, BodyMarked, IsCall
<1>2. IsParser(after) /\ after.state \notin Tokens /\ after.http_errno = "OK"
  BY <1>1 DEF IsParser, In, Tokens, UrlStates, UrlOpening, UrlBody
<1>3. IsCall(NextByte) /\ NextByte.on /\ NextByte.fresh /\ NextByte.mark = call.mark /\ NextByte.end = call.end
  BY <1>1 DEF NextByte, IsCall
<1>4. /\ DOMAIN c = {"on", "end", "nread", "fresh", "mark"} /\ c.on /\ c.fresh
      /\ c.end = call.end /\ c.nread = NextByte.nread /\ c.mark = [call.mark EXCEPT !["body"] = 0]
  BY <1>3 DEF Unmarked, IsCall
<1>5. c.mark = NoMark
  BY <1>1, <1>4, BodyMark
<1> HIDE DEF c, after
<1>6. IsCall(c)
  BY <1>3, <1>4, <1>5, NoMarkTyped DEF IsCall
<1>7. p + 1 \in Nat \ {0} /\ (p + 1 <= call.end \/ p + 1 = call.end + 1)
  BY <1>1
<1>8. \/ call.mark["body"] # 0 /\ Callback(e, after, c, p + 1) /\ UNCHANGED first
      \/ call.mark["body"] = 0 /\ Go(after, NextByte, p + 1)
      \/ Error("STRICT")
  BY DEF ChunkDataAlmostDone, Data, Break, c, after
<1>9. CASE call.mark["body"] # 0 /\ Callback(e, after, c, p + 1) /\ UNCHANGED first
  <2>1. Place(after, c, p + 1)
    BY <1>1, <1>2, <1>4, <1>5, <1>6, <1>7, BarePlace
  <2>2. call.mark["body"] \in 1 .. p /\ p - 1 \in p - 1 .. call.end
    BY <1>1, <1>9, BodyMark
  <2>3. e \in Entry
    BY <1>1, <2>2, BodyTold
  <2>4. first' \in 1 .. Len(input.bytes) + 1
    BY <1>9 DEF Typed
  <2> QED  BY <1>1, <1>2, <1>4, <1>6, <1>7, <1>9, <2>1, <2>3, <2>4, CallbackTyped
<1>10. CASE call.mark["body"] = 0 /\ Go(after, NextByte, p + 1)
  <2>1. NextByte.mark = NoMark
    BY <1>1, <1>3, <1>10, BodyMark DEF NoMark
  <2>2. Place(after, NextByte, p + 1)
    BY <1>1, <1>2, <1>3, <1>7, <2>1, BarePlace
  <2> QED  BY <1>1, <1>2, <1>3, <1>7, <1>10, <2>2, GoTyped
<1> QED  BY <1>1, <1>8, <1>9, <1>10, ErrorTyped

---------------------------------------------------------------------------
\* The end of the headers, or of the trailers, keeps the types, whatever is answered.
LEMMA HeadersAlmostDoneTyped ==
  ASSUME Typed, HeadersAlmostDone, UNCHANGED <<input, eof>>
  PROVE  Typed'
<1> DEFINE asked == [parser EXCEPT !.upgrade = UpgradeAsked]
           stored(pr) == [pr EXCEPT !.state = "s_headers_done", !.nread = call.nread]
           Answering(answer) ==
             \/ /\ parser' = In(Answered(asked, answer), "s_headers_done")
                /\ UNCHANGED <<call, stops>>
             \/ /\ stops < input.stops /\ stops' = stops + 1 /\ call' = Idle
                /\ \E e \in {"PAUSED", "CB"} :
                     parser' = [stored(Answered(asked, answer)) EXCEPT !.http_errno = e]
<1>1. /\ At({"s_headers_almost_done"}) /\ parser.state \notin Marking
      /\ IsParser(parser) /\ parser.http_errno = "OK" /\ call.on /\ ~call.fresh
      /\ call.nread \in Nat /\ IsCall(call)
  <2>1. At({"s_headers_almost_done"})
    BY DEF HeadersAlmostDone
  <2>2. parser.state \notin Marking
    BY <2>1, AtByte DEF Marking, UrlStates, UrlOpening, UrlBody, BodyMarked
  <2> QED  BY <2>1, <2>2, AtByte DEF IsCall
<1>2. \/ Error("STRICT") \/ Error("UNEXPECTED_CONTENT_LENGTH")
      \/ NotifyAgain("chunk_complete", parser, "s_message_done")
      \/ /\ told' = Join(told, Say("headers_complete")) /\ UNCHANGED <<p, first>>
         /\ \E answer \in Answers : Answering(answer)
  BY DEF HeadersAlmostDone
<1>3. CASE NotifyAgain("chunk_complete", parser, "s_message_done")
  <2>1. /\ IsParser(In(parser, "s_message_done")) /\ In(parser, "s_message_done").http_errno = "OK"
        /\ In(parser, "s_message_done").state \notin Marking
    BY <1>1 DEF In, IsParser, Marking, UrlStates, UrlOpening, UrlBody, BodyMarked
  <2>2. Say("chunk_complete") \in Entry
    BY SayTyped DEF Callbacks
  <2> QED  BY <1>1, <1>3, <2>1, <2>2, QuietCallback DEF NotifyAgain
<1>4. ASSUME NEW answer, told' = Join(told, Say("headers_complete")), UNCHANGED <<p, first>>, Answering(answer)
      PROVE  Typed'
  <2> DEFINE pr == Answered(asked, answer)
  <2>1. IsParser(pr) /\ pr.http_errno = "OK"
    <3>1. IsParser(asked) /\ asked.http_errno = "OK"
      BY <1>1 DEF IsParser, UpgradeAsked
    <3> HIDE DEF asked
    <3> QED  BY <3>1 DEF IsParser, Answered
  <2> HIDE DEF pr
  <2>2. IsParser(In(pr, "s_headers_done")) /\ In(pr, "s_headers_done").http_errno = "OK"
        /\ In(pr, "s_headers_done").state \notin Marking
    BY <2>1 DEF In, IsParser, Marking, UrlStates, UrlOpening, UrlBody, BodyMarked
  <2>3. \A e : IsParser([stored(pr) EXCEPT !.http_errno = e])
    BY <1>1, <2>1 DEF IsParser
  <2>4. told' \in Seq(Entry)
    <3>1. Say("headers_complete") \in Entry
      BY SayTyped DEF Callbacks
    <3> QED  BY <1>4, <3>1, JoinTyped DEF Typed
  <2>5. Place(In(pr, "s_headers_done"), call, p)
    BY <1>1, <2>2, QuietPlace
  <2>6. CASE parser' = In(pr, "s_headers_done") /\ UNCHANGED <<call, stops>>
    <3>1. Place(parser, call, p)'
      BY <1>4, <2>5, <2>6 DEF Place
    <3> QED  BY <1>4, <2>2, <2>4, <2>6, <3>1 DEF Typed
  <2>7. CASE /\ stops < input.stops /\ stops' = stops + 1 /\ call' = Idle
             /\ \E e : parser' = [stored(pr) EXCEPT !.http_errno = e]
    <3>1. IsParser(parser')
      BY <2>3, <2>7
    <3>2. stops' \in 0 .. input.stops
      BY <2>7, InputTyped DEF Typed
    <3> QED  BY <1>4, <2>4, <2>7, <3>1, <3>2, IdleTyped DEF Typed
  <2> QED  BY <1>4, <2>6, <2>7 DEF pr
<1> HIDE DEF Answering
<1> QED  BY <1>1, <1>2, <1>3, <1>4, ErrorTyped

(* Steps to a state that has no token, with nothing marked. *)
LEMMA BareGo ==
  ASSUME Typed, NEW S, At(S), parser.state \notin Marking,
         NEW pr, IsParser(pr), pr.state \notin Tokens, pr.http_errno = "OK",
         NEW c, IsCall(c), c.on, c.fresh, c.mark = call.mark, c.end \in {p, call.end},
         \/ Go(pr, c, p + 1)
         \/ \E e \in Entry : Callback(e, pr, c, p + 1) /\ UNCHANGED first,
         UNCHANGED <<input, eof>>
  PROVE  Typed'
<1>1. call.on /\ call.mark = NoMark /\ p \in Nat /\ p <= call.end /\ call.end \in Nat
  BY AtByte, NoMarks DEF IsCall
<1>2. p + 1 \in Nat \ {0} /\ (p + 1 <= c.end \/ (p + 1 = c.end + 1 /\ c.fresh))
  BY <1>1
<1>3. Place(pr, c, p + 1)
  BY <1>1, <1>2, BarePlace
<1>4. first \in 1 .. Len(input.bytes) + 1
  BY DEF Typed
<1> QED  BY <1>1, <1>2, <1>3, <1>4, CallbackTyped, GoTyped

\* Whichever body the headers announce, the types are kept.
LEMMA HeadersDoneTyped ==
  ASSUME Typed, HeadersDone, UNCHANGED <<input, eof>>
  PROVE  Typed'
<1> DEFINE zero == [parser EXCEPT !.nread = 0]
           next(end) == [NextByte EXCEPT !.nread = 0, !.end = end]
           same == [NextByte EXCEPT !.nread = 0]
           e == Say("message_complete")
<1>1. /\ At({"s_headers_done"}) /\ parser.state \notin Marking /\ IsParser(parser)
      /\ parser.http_errno = "OK" /\ call.on /\ IsCall(call) /\ p \in Nat
  BY AtByte DEF HeadersDone, Marking, UrlStates, UrlOpening, UrlBody, BodyMarked
<1>2. ASSUME NEW s, s \notin Tokens
      PROVE  IsParser(In(zero, s)) /\ In(zero, s).state \notin Tokens /\ In(zero, s).http_errno = "OK"
  <2>1. IsParser(zero) /\ zero.http_errno = "OK"
    BY <1>1 DEF IsParser
  <2> HIDE DEF zero
  <2> QED  BY <1>2, <2>1 DEF IsParser, In
<1>3. ASSUME NEW end \in Nat
      PROVE  /\ IsCall(next(end)) /\ next(end).on /\ next(end).fresh /\ next(end).mark = call.mark
             /\ next(end).end = end
  BY <1>1 DEF IsCall, NextByte
<1>4. IsCall(same) /\ same.on /\ same.fresh /\ same.mark = call.mark /\ same.end = call.end
  BY <1>1 DEF IsCall, NextByte
<1>5. e \in Entry /\ call.end \in Nat
  BY <1>1, SayTyped DEF Callbacks, IsCall
<1>6. NewMessage(zero) \notin Tokens
  BY DEF NewMessage, Tokens, UrlStates, UrlOpening, UrlBody
<1>7. \A s \in {"s_chunk_size_start", "s_body_identity", "s_body_identity_eof"} : s \notin Tokens
  BY DEF Tokens, UrlStates, UrlOpening, UrlBody
<1>8. \/ Error("STRICT") \/ Error("INVALID_TRANSFER_ENCODING")
      \/ \E s \in {"s_chunk_size_start", "s_body_identity", "s_body_identity_eof"} : Go(In(zero, s), same, p + 1)
      \/ \E end \in {p, call.end} : Callback(e, In(zero, NewMessage(zero)), next(end), p + 1) /\ UNCHANGED first
  BY DEF HeadersDone
<1> HIDE DEF zero, next, same, e
<1>9. CASE \E s \in {"s_chunk_size_start", "s_body_identity", "s_body_identity_eof"} : Go(In(zero, s), same, p + 1)
  BY <1>1, <1>2, <1>4, <1>7, <1>9, BareGo
<1>10. CASE \E end \in {p, call.end} : Callback(e, In(zero, NewMessage(zero)), next(end), p + 1) /\ UNCHANGED first
  <2>1. PICK end \in {p, call.end} : Callback(e, In(zero, NewMessage(zero)), next(end), p + 1) /\ UNCHANGED first
    BY <1>10
  <2> QED  BY <1>1, <1>2, <1>3, <1>5, <1>6, <2>1, BareGo
<1> QED  BY <1>1, <1>8, <1>9, <1>10, ErrorTyped

\* The end of a message keeps the types; with another protocol the call ends there.
LEMMA MessageDoneTyped ==
  ASSUME Typed, MessageDone, UNCHANGED <<input, eof>>
  PROVE  Typed'
<1> DEFINE next == [NextByte EXCEPT !.end = IF parser.upgrade THEN p ELSE @]
           pr == In(parser, NewMessage(parser))
<1>1. /\ At({"s_message_done"}) /\ parser.state \notin Marking /\ IsParser(parser)
      /\ parser.http_errno = "OK" /\ call.on /\ IsCall(call) /\ p \in Nat
  BY AtByte DEF MessageDone, Marking, UrlStates, UrlOpening, UrlBody, BodyMarked
<1>2. IsCall(next) /\ next.on /\ next.fresh /\ next.mark = call.mark /\ next.end \in {p, call.end}
  BY <1>1 DEF IsCall, NextByte
<1>3. IsParser(pr) /\ pr.state \notin Tokens /\ pr.http_errno = "OK"
  BY <1>1 DEF IsParser, In, NewMessage, Tokens, UrlStates, UrlOpening, UrlBody
<1>4. Say("message_complete") \in Entry
  BY SayTyped DEF Callbacks
<1>5. Callback(Say("message_complete"), pr, next, p + 1) /\ UNCHANGED first
  BY DEF MessageDone
<1> HIDE DEF next, pr
<1> QED  BY <1>1, <1>2, <1>3, <1>4, <1>5, BareGo

\* chunk_header keeps the types.
LEMMA ChunkSizeAlmostDoneTyped ==
  ASSUME Typed, ChunkSizeAlmostDone, UNCHANGED <<input, eof>>
  PROVE  Typed'
<1> DEFINE zero == [parser EXCEPT !.nread = 0]
           trailing == [zero EXCEPT !.flags = @ \cup {"F_TRAILING"}, !.state = "s_header_field_start"]
           c == [NextByte EXCEPT !.nread = 0]
           e == Tell("chunk_header", <<parser.content_length>>)
<1>1. /\ At({"s_chunk_size_almost_done"}) /\ parser.state \notin Marking /\ IsParser(parser)
      /\ parser.http_errno = "OK" /\ call.on /\ IsCall(call)
  BY AtByte DEF ChunkSizeAlmostDone, Marking, UrlStates, UrlOpening, UrlBody, BodyMarked
<1>2. IsParser(In(zero, "s_chunk_data")) /\ In(zero, "s_chunk_data").state \notin Tokens /\ In(zero, "s_chunk_data").http_errno = "OK"
  BY <1>1 DEF IsParser, In, Tokens, UrlStates, UrlOpening, UrlBody
<1>3. IsParser(trailing) /\ trailing.state \notin Tokens /\ trailing.http_errno = "OK"
  BY <1>1 DEF IsParser, Tokens, UrlStates, UrlOpening, UrlBody
<1>4. IsCall(c) /\ c.on /\ c.fresh /\ c.mark = call.mark /\ c.end = call.end
  BY <1>1 DEF IsCall, NextByte
<1>5. e \in Entry
  <2>1. parser.content_length \in Piece
    BY <1>1 DEF IsParser, Piece
  <2>2. <<parser.content_length>> \in Seq(Piece)
    BY <2>1
  <2> QED  BY <2>2 DEF Tell, Entry, Callbacks
<1>6. \/ Error("STRICT")
      \/ Callback(e, trailing, c, p + 1) /\ UNCHANGED first
      \/ Callback(e, In(zero, "s_chunk_data"), c, p + 1) /\ UNCHANGED first
  BY DEF ChunkSizeAlmostDone
<1> HIDE DEF zero, trailing, c, e
<1> QED  BY <1>1, <1>2, <1>3, <1>4, <1>5, <1>6, BareGo, ErrorTyped

\* The cases of the body keep the types.
LEMMA BodyTyped ==
  ASSUME Typed, BodyFramed(parser), Body, UNCHANGED <<input, eof>>
  PROVE  Typed'
<1>1. CASE ChunkSizeStart
  <2>1. At({"s_chunk_size_start"}) /\ parser.state \notin Marking /\ IsParser(parser) /\ parser.http_errno = "OK"
    BY <1>1, AtByte DEF ChunkSizeStart, Marking, UrlStates, UrlOpening, UrlBody, BodyMarked
  <2> DEFINE pr == [parser EXCEPT !.content_length = unhex(ch)]
  <2>2. IsParser(pr) /\ pr.http_errno = "OK"
    <3>1. unhex(ch) \in 0 .. ULLONG_MAX
      BY WidthAssumption DEF unhex, IsNum, Num, Digits
    <3> QED  BY <2>1, <3>1 DEF IsParser
  <2>3. Break(pr, "s_chunk_size") \/ Error("INVALID_CHUNK_SIZE")
    BY <1>1 DEF ChunkSizeStart
  <2>4. "s_chunk_size" \notin Marking
    BY DEF Marking, UrlStates, UrlOpening, UrlBody, BodyMarked
  <2> HIDE DEF pr
  <2> QED  BY <2>1, <2>2, <2>3, <2>4, BreakTyped, ErrorTyped, AtByte
<1>2. CASE ChunkSize
  <2>1. At({"s_chunk_size"}) /\ parser.state \notin Marking /\ IsParser(parser) /\ parser.http_errno = "OK"
    BY <1>2, AtByte DEF ChunkSize, Marking, UrlStates, UrlOpening, UrlBody, BodyMarked
  <2> DEFINE pr == [parser EXCEPT !.content_length = Shift(@, 16, unhex(ch))]
  <2>2. IsParser(pr) /\ pr.http_errno = "OK"
    <3>1. unhex(ch) \in Nat /\ parser.content_length \in Nat /\ 16 \in Nat
      BY <2>1, WidthAssumption DEF unhex, IsNum, Num, Digits, IsParser
    <3>2. Shift(parser.content_length, 16, unhex(ch)) \in 0 .. ULLONG_MAX
      BY <3>1, ShiftTyped
    <3> QED  BY <2>1, <3>2 DEF IsParser
  <2>3. \/ Break(parser, "s_chunk_size_almost_done") \/ Break(parser, "s_chunk_parameters")
        \/ Break(pr, parser.state) \/ Error("INVALID_CONTENT_LENGTH") \/ Error("INVALID_CHUNK_SIZE")
    BY <1>2 DEF ChunkSize
  <2>4. "s_chunk_size_almost_done" \notin Marking /\ "s_chunk_parameters" \notin Marking
    BY DEF Marking, UrlStates, UrlOpening, UrlBody, BodyMarked
  <2> HIDE DEF pr
  <2> QED  BY <2>1, <2>2, <2>3, <2>4, BreakTyped, ErrorTyped, AtByte
<1>3. CASE ChunkParameters
  BY <1>3, BreakTyped, AtByte DEF ChunkParameters, Marking, UrlStates, UrlOpening, UrlBody, BodyMarked
<1>4. CASE ChunkDataDone
  <2> DEFINE pr == [parser EXCEPT !.nread = 0, !.state = "s_chunk_size_start"]
             c == [NextByte EXCEPT !.nread = 0]
  <2>1. /\ At({"s_chunk_data_done"}) /\ parser.state \notin Marking /\ IsParser(parser)
        /\ parser.http_errno = "OK" /\ IsCall(call) /\ call.on
    BY <1>4, AtByte DEF ChunkDataDone, Marking, UrlStates, UrlOpening, UrlBody, BodyMarked
  <2>2. IsParser(pr) /\ pr.state \notin Tokens /\ pr.http_errno = "OK"
    BY <2>1 DEF IsParser, Tokens, UrlStates, UrlOpening, UrlBody
  <2>3. IsCall(c) /\ c.on /\ c.fresh /\ c.mark = call.mark /\ c.end = call.end
    BY <2>1 DEF IsCall, NextByte
  <2>4. Say("chunk_complete") \in Entry
    BY SayTyped DEF Callbacks
  <2>5. (Callback(Say("chunk_complete"), pr, c, p + 1) /\ UNCHANGED first) \/ Error("STRICT")
    BY <1>4 DEF ChunkDataDone
  <2> HIDE DEF pr, c
  <2> QED  BY <2>1, <2>2, <2>3, <2>4, <2>5, BareGo, ErrorTyped
<1> QED  BY <1>1, <1>2, <1>3, <1>4, HeadersAlmostDoneTyped, HeadersDoneTyped, BodyIdentityTyped,
            BodyIdentityEofTyped, MessageDoneTyped, ChunkSizeAlmostDoneTyped, ChunkDataTyped,
            ChunkDataAlmostDoneTyped DEF Body

---------------------------------------------------------------------------
\* The top of the loop keeps the types.
LEMMA TakeByteTyped ==
  ASSUME Typed, TakeByte, UNCHANGED <<input, eof>>
  PROVE  Typed'
<1>1. IsCall(call) /\ call.on /\ Place(parser, call, p) /\ p <= call.end
  BY DEF Typed, TakeByte
<1>2. /\ call'.on /\ call'.end = call.end /\ call'.mark = call.mark
      /\ call'.nread \in {call.nread, call.nread + 1}
      /\ DOMAIN call' = {"on", "end", "nread", "fresh", "mark"} /\ call'.fresh = FALSE
  BY <1>1 DEF TakeByte, IsCall
<1>3. IsCall(call')
  <2>1. call'.nread \in Nat
    BY <1>1, <1>2 DEF IsCall
  <2> QED  BY <1>1, <1>2, <2>1 DEF IsCall
<1>4. MarksFit(parser.state, call', p)
  BY <1>1, <1>2 DEF Place, MarksFit
<1>5. Place(parser, call, p)'
  BY <1>1, <1>2, <1>4 DEF Place, TakeByte
<1> QED  BY <1>2, <1>3, <1>5 DEF Typed, TakeByte

\* The callbacks for what is marked when the bytes run out keep the types.
LEMMA LeftoverTyped ==
  ASSUME Typed, Leftover, UNCHANGED <<input, eof>>
  PROVE  Typed'
<1>1. /\ IsCall(call) /\ call.on /\ Place(parser, call, p) /\ p > call.end /\ call.fresh
      /\ IsParser(parser) /\ p \in Nat \ {0} /\ call.end \in Nat /\ call.mark \in [Marks -> Nat]
      /\ first \in 1 .. Len(input.bytes) + 1 /\ parser.http_errno = "OK"
      /\ input.bytes \in Seq(STRING) /\ Len(input.bytes) \in Nat
      /\ call.end <= Len(input.bytes) /\ p <= call.end + 1
  BY InputTyped DEF Typed, Leftover, IsCall, Place
<1>2. PICK m \in Marks : /\ call.mark[m] # 0
                         /\ Callback(Tell(m, SubSeq(input.bytes, call.mark[m], p - 1)), parser, Unmarked(call, m), p)
  BY DEF Leftover
<1> DEFINE c == Unmarked(call, m)
<1>3. /\ DOMAIN c = {"on", "end", "nread", "fresh", "mark"} /\ c.on /\ c.fresh
      /\ c.end = call.end /\ c.nread = call.nread /\ c.mark = [call.mark EXCEPT ![m] = 0]
  BY <1>1 DEF Unmarked, IsCall
<1>4. c.mark \in [Marks -> Nat] /\ \A k \in Marks : c.mark[k] \in {0, call.mark[k]}
  BY <1>1, <1>3
<1> HIDE DEF c
<1>5. IsCall(c)
  BY <1>1, <1>3, <1>4 DEF IsCall
<1>6. MarksFit(parser.state, c, p)
  BY <1>1, <1>3, <1>4 DEF Place, MarksFit, Marks
<1>7. Place(parser, c, p)
  BY <1>1, <1>3, <1>6 DEF Place
<1>8. Tell(m, SubSeq(input.bytes, call.mark[m], p - 1)) \in Entry
  <2>1. m \in Callbacks
    BY DEF Marks, Callbacks
  <2>2. call.mark[m] \in Nat /\ call.mark[m] >= 1 /\ p - 1 \in Nat /\ p - 1 <= Len(input.bytes)
    BY <1>1, <1>2
  <2> QED  BY <1>1, <2>1, <2>2, PieceTyped
<1>9. first' = first
  BY DEF Leftover
<1> QED  BY <1>1, <1>2, <1>3, <1>5, <1>7, <1>8, <1>9, CallbackTyped DEF c

\* The return at the end of the bytes keeps the types.
LEMMA ReturnLenTyped ==
  ASSUME Typed, ReturnLen, UNCHANGED <<input, eof>>
  PROVE  Typed'
<1>1. IsParser(parser')
  BY DEF Typed, ReturnLen, IsParser, IsCall
<1> QED  BY <1>1, IdleTyped DEF Typed, ReturnLen

(* A call that begins inside of a token marks its first byte. *)
LEMMA ExecuteTyped ==
  ASSUME Typed, Execute, UNCHANGED <<input, eof>>
  PROVE  Typed'
<1>1. PICK end \in p .. Len(input.bytes) :
        call' = [on |-> TRUE, end |-> end, nread |-> parser.nread, fresh |-> TRUE,
                 mark |-> IF MarkAtEntry(parser.state) = "none" THEN NoMark
                          ELSE [NoMark EXCEPT ![MarkAtEntry(parser.state)] = p]]
  BY DEF Execute
<1>2. /\ p \in Nat \ {0} /\ Len(input.bytes) \in Nat /\ parser.nread \in Nat /\ IsParser(parser)
      /\ parser.http_errno = "OK" /\ ~eof
  BY InputTyped DEF Typed, Execute, IsParser
<1>3. IsParser(parser') /\ parser'.state = parser.state /\ parser'.http_errno = "OK"
  BY <1>2 DEF Execute, IsParser
<1>4. /\ call'.on /\ call'.fresh /\ call'.end = end /\ end \in Nat /\ p <= end /\ end <= Len(input.bytes)
      /\ call'.nread \in Nat /\ DOMAIN call' = {"on", "end", "nread", "fresh", "mark"}
      /\ call'.mark = IF MarkAtEntry(parser.state) = "none" THEN NoMark
                      ELSE [NoMark EXCEPT ![MarkAtEntry(parser.state)] = p]
  BY <1>1, <1>2
<1>5. call'.mark \in [Marks -> Nat]
  <2>1. \A k : [NoMark EXCEPT ![k] = p] \in [Marks -> Nat]
    BY <1>2, NoMarkTyped
  <2> QED  BY <1>4, <2>1, NoMarkTyped
<1>6. /\ parser.state = "s_header_field" <=> MarkAtEntry(parser.state) = "header_field"
      /\ parser.state = "s_header_value" <=> MarkAtEntry(parser.state) = "header_value"
      /\ parser.state \in UrlStates <=> MarkAtEntry(parser.state) = "url"
      /\ parser.state = "s_res_status" <=> MarkAtEntry(parser.state) = "status"
      /\ MarkAtEntry(parser.state) # "body"
  BY DEF MarkAtEntry, UrlStates, UrlOpening, UrlBody
<1>7. \A k \in Marks : call'.mark[k] = IF k = MarkAtEntry(parser.state) THEN p ELSE 0
  BY <1>4 DEF NoMark, Marks
<1>8. MarksFit(parser.state, call', p)
  BY <1>2, <1>6, <1>7 DEF MarksFit, Marks
<1>9. IsCall(call')
  BY <1>4, <1>5 DEF IsCall
<1>10. Place(parser, call, p)'
  BY <1>2, <1>3, <1>4, <1>8 DEF Place, Execute
<1> QED  BY <1>2, <1>3, <1>4, <1>9, <1>10 DEF Typed, Execute

\* The call with length zero keeps the types.
LEMMA ExecuteEofTyped ==
  ASSUME Typed, ExecuteEof, UNCHANGED input
  PROVE  Typed'
<1>1. IsParser(parser) /\ call = Idle
  BY DEF Typed, ExecuteEof
<1>2. \/ Callback(Say("message_complete"), parser, Idle, p)
      \/ UNCHANGED <<parser, call, p, told, stops>>
      \/ /\ parser' = [parser EXCEPT !.http_errno = "INVALID_EOF_STATE"]
         /\ UNCHANGED <<call, p, told, stops>>
  BY DEF ExecuteEof
<1>3. UNCHANGED first /\ eof' = TRUE
  BY DEF ExecuteEof
<1>4. CASE Callback(Say("message_complete"), parser, Idle, p)
  <2>1. told' \in Seq(Entry)
    <3>1. Say("message_complete") \in Entry
      BY SayTyped DEF Callbacks
    <3> QED  BY <1>4, <3>1, JoinTyped DEF Callback, Typed
  <2>2. IsParser(parser') /\ call' = Idle
    <3>1. Idle.nread \in Nat
      BY DEF Idle
    <3>2. /\ IsParser([parser EXCEPT !.http_errno = "PAUSED"])
          /\ IsParser([parser EXCEPT !.http_errno = "CB", !.nread = Idle.nread])
      BY <1>1, <3>1, StoppedTyped
    <3> QED  BY <1>1, <1>4, <3>2 DEF Callback
  <2>3. stops' \in 0 .. input.stops
    BY <1>4, InputTyped DEF Callback, Typed
  <2> QED  BY <1>3, <1>4, <2>1, <2>2, <2>3, IdleTyped DEF Callback, Typed
<1>5. CASE UNCHANGED <<parser, call, p, told, stops>>
  BY <1>1, <1>3, <1>5, IdleTyped DEF Typed
<1>6. CASE /\ parser' = [parser EXCEPT !.http_errno = "INVALID_EOF_STATE"]
           /\ UNCHANGED <<call, p, told, stops>>
  <2>1. IsParser(parser')
    BY <1>1, <1>6 DEF IsParser
  <2> QED  BY <1>1, <1>3, <1>6, <2>1, IdleTyped DEF Typed
<1> QED  BY <1>2, <1>4, <1>5, <1>6

\* http_parser_pause(parser, 0) keeps the types.
LEMMA ResumeTyped ==
  ASSUME Typed, Resume, UNCHANGED <<input, eof>>
  PROVE  Typed'
<1>1. ~call.on
  BY DEF Typed, Place, Resume
<1>2. IsParser(parser')
  BY DEF Typed, Resume, IsParser
<1> QED  BY <1>1, <1>2 DEF Typed, Resume

\* http_parser_init leaves a parser, and no call.
LEMMA TypedInit == Init => Typed
<1> SUFFICES ASSUME Init PROVE Typed
  OBVIOUS
<1>1. input.bytes \in Seq(STRING) /\ input.stops \in Nat
  BY InputAssumption DEF Init
<1>2. IsParser(parser)
  BY WidthAssumption DEF Init, http_parser_init, IsParser, Versions
<1>3. /\ input \in Inputs /\ p = 1 /\ first = 1 /\ stops = 0 /\ eof = FALSE /\ call = Idle
      /\ told = <<>>
  BY DEF Init
<1>4. 1 \in 1 .. Len(input.bytes) + 1 /\ 0 \in 0 .. input.stops /\ <<>> \in Seq(Entry)
  BY <1>1
<1> QED  BY <1>2, <1>3, <1>4, IdleTyped DEF Typed

\* Every step keeps the types and the places of the marks.
LEMMA TypedStep == Typed /\ BodyFramed(parser) /\ [Next]_vars => Typed'
<1> SUFFICES ASSUME Typed, BodyFramed(parser), [Next]_vars PROVE Typed'
  OBVIOUS
<1>1. CASE UNCHANGED vars
  BY <1>1 DEF vars, Typed, Place
<1>2. CASE Overflow /\ UNCHANGED <<input, eof>>
  BY <1>2, ErrorTyped DEF Overflow
<1> QED  BY <1>1, <1>2, TakeByteTyped, LeftoverTyped, ReturnLenTyped, StartLineTyped, HeadersTyped,
            BodyTyped, ExecuteTyped, ExecuteEofTyped, ResumeTyped DEF Next, InCall

---------------------------------------------------------------------------
(* Steps to the states the framing says nothing of. *)
FramingStates == ChunkStates \cup {"s_body_identity", "s_header_value"}
Counts(pr, c) == c.fresh \/ ~ParsingHeader(pr.state) \/ c.nread >= 1

\* An error ends the parsing, the framing is that of before.
LEMMA ErrorFramed ==
  ASSUME Typed, Framed, NEW e, e \notin {"OK", "PAUSED"}, Error(e)
  PROVE  Framed'
<1>1. /\ parser'.state = parser.state /\ parser'.flags = parser.flags
      /\ parser'.content_length = parser.content_length /\ parser'.header_state = parser.header_state
      /\ parser'.http_errno = e
  BY DEF Error, Typed, IsParser
<1>2. BodyFramed(parser')
  BY <1>1 DEF Framed, BodyFramed
<1>3. ~call'.on
  BY IdleTyped DEF Error
<1> QED  BY <1>1, <1>2, <1>3 DEF Framed, CountStarts, ParsingHeader

\* A step to a state the framing says nothing of only has to count.
LEMMA PlainGo ==
  ASSUME NEW pr, pr.state \notin FramingStates, NEW c, Counts(pr, c), NEW q, Go(pr, c, q)
  PROVE  Framed'
BY DEF Go, Framed, BodyFramed, CountStarts, Counts, FramingStates, ChunkStates, ChunkSizing, ChunkSized

\* So does one with a callback.
LEMMA PlainCallback ==
  ASSUME NEW e, NEW pr, IsParser(pr), pr.state \notin FramingStates, NEW c, Counts(pr, c), NEW q,
         Callback(e, pr, c, q)
  PROVE  Framed'
<1>1. parser'.state = pr.state /\ (call'.on => call' = c)
  BY IdleTyped DEF Callback, IsParser
<1> QED  BY <1>1 DEF Framed, BodyFramed, CountStarts, Counts, FramingStates, ChunkStates, ChunkSizing, ChunkSized

\* A break to such a state is fresh.
LEMMA PlainBreak ==
  ASSUME Typed, call.on, NEW pr, IsParser(pr), NEW s, s \notin FramingStates, Break(pr, s)
  PROVE  Framed'
<1>1. In(pr, s).state = s /\ NextByte.fresh
  BY DEF IsParser, In, NextByte, Typed, IsCall
<1> QED  BY <1>1, PlainGo DEF Break, Counts

\* A byte looked at again in such a state has been counted.
LEMMA PlainReexecute ==
  ASSUME Typed, Framed, NEW S, At(S), ParsingHeader(parser.state),
         NEW pr, IsParser(pr), NEW s, s \notin FramingStates, Reexecute(pr, s)
  PROVE  Framed'
<1>1. In(pr, s).state = s /\ call.nread >= 1
  BY AtByte DEF IsParser, In, Framed, CountStarts
<1> QED  BY <1>1, PlainGo DEF Reexecute, Counts

\* The step to a token outside of a body has been counted or is fresh.
LEMMA PlainToken ==
  ASSUME Typed, Framed, NEW S, At(S), ParsingHeader(parser.state),
         NEW pr, pr.state \notin FramingStates, NEW m,
         \/ Go(pr, Marked(NextByte, m), p + 1)
         \/ Go(pr, Marked(call, m), p)
  PROVE  Framed'
<1>1. IsCall(call) /\ call.nread >= 1
  BY AtByte DEF Framed, CountStarts
<1>2. Marked(NextByte, m).fresh
  BY <1>1 DEF IsCall, NextByte, Marked
<1>3. Marked(call, m).nread >= 1
  BY <1>1 DEF IsCall, Marked
<1> QED  BY <1>2, <1>3, PlainGo DEF Counts

\* message_begin leads to such a state.
LEMMA PlainBegin ==
  ASSUME Typed, call.on, NEW pr, IsParser(pr), NEW s, s \notin FramingStates, BeginMessage(pr, s)
  PROVE  Framed'
<1>1. In(pr, s).state = s /\ NextByte.fresh /\ IsParser(In(pr, s))
  BY DEF IsParser, In, NextByte, Typed, IsCall
<1> QED  BY <1>1, PlainCallback DEF BeginMessage, Counts

\* The end of a token leads to such a state.
LEMMA PlainData ==
  ASSUME Typed, call.on, NEW pr, IsParser(pr), NEW m, NEW s, s \notin FramingStates, Data(m, pr, s)
  PROVE  Framed'
<1>1. In(pr, s).state = s /\ Unmarked(NextByte, m).fresh /\ IsParser(In(pr, s))
  BY DEF IsParser, In, NextByte, Unmarked, Typed, IsCall
<1> QED  BY <1>1, PlainCallback DEF Data, Counts

\* The start line keeps the framing.
LEMMA StartLineFramed ==
  ASSUME Typed, Framed, StartLine
  PROVE  Framed'
<1> USE DEF FramingStates, ChunkStates, ChunkSizing
<1>0. IsParser(parser) /\ call.on
  BY DEF Typed, StartLine, At, Dead, SkipEol, StartEither, ResOrRespH, StartRes, ResHttp, ResVersion, ResVersionEnd, StatusCode, StatusCodeEnd, StatusStart, Status, ResLineAlmostDone, StartReq, ReqMethod, ReqMethodEnd, UrlStart, UrlChar, UrlEnd, ReqHttpStart, ReqHttp, ReqVersion, ReqVersionEnd, ReqLineAlmostDone
<1>1. CASE Dead
  BY <1>0, <1>1, PlainBreak, ErrorFramed DEF Dead, IsParser
<1>2. CASE SkipEol
  BY <1>0, <1>2, PlainBreak, ErrorFramed DEF SkipEol, IsParser, At
<1>4. CASE ResOrRespH
  BY <1>0, <1>4, PlainBreak, ErrorFramed DEF ResOrRespH, IsParser
<1>6. CASE ResHttp
  BY <1>0, <1>6, PlainBreak, ErrorFramed DEF ResHttp, IsParser
<1>7. CASE ResVersion
  BY <1>0, <1>7, PlainBreak, ErrorFramed DEF ResVersion, IsParser
<1>8. CASE ResVersionEnd
  BY <1>0, <1>8, PlainBreak, ErrorFramed DEF ResVersionEnd, IsParser
<1>9. CASE StatusCode
  BY <1>0, <1>9, PlainBreak, ErrorFramed DEF StatusCode, IsParser
<1>10. CASE StatusCodeEnd
  <2>1. At({"s_res_status_code"}) /\ ParsingHeader(parser.state)
    BY <1>10 DEF StatusCodeEnd, At, ParsingHeader, BodyStates
  <2> QED  BY <1>0, <1>10, <2>1, PlainBreak, PlainReexecute, ErrorFramed DEF StatusCodeEnd
<1>13. CASE ResLineAlmostDone
  BY <1>0, <1>13, PlainBreak, ErrorFramed DEF ResLineAlmostDone, IsParser
<1>15. CASE ReqMethod
  BY <1>0, <1>15, PlainBreak, ErrorFramed DEF ReqMethod, IsParser
<1>16. CASE ReqMethodEnd
  BY <1>0, <1>16, PlainBreak, ErrorFramed DEF ReqMethodEnd, IsParser
<1>20. CASE ReqHttpStart
  BY <1>0, <1>20, PlainBreak, ErrorFramed DEF ReqHttpStart, IsParser, At
<1>21. CASE ReqHttp
  BY <1>0, <1>21, PlainBreak, ErrorFramed DEF ReqHttp, IsParser
<1>22. CASE ReqVersion
  BY <1>0, <1>22, PlainBreak, ErrorFramed DEF ReqVersion, IsParser
<1>23. CASE ReqVersionEnd
  BY <1>0, <1>23, PlainBreak, ErrorFramed DEF ReqVersionEnd, IsParser
<1>24. CASE ReqLineAlmostDone
  BY <1>0, <1>24, PlainBreak, ErrorFramed DEF ReqLineAlmostDone, IsParser
<1>3. CASE StartEither
  <2>1. IsParser(Fresh(parser)) /\ IsParser([Fresh(parser) EXCEPT !.type = "HTTP_REQUEST"])
    BY <1>0, FreshTyped DEF IsParser
  <2>2. At({"s_start_req_or_res"}) /\ ParsingHeader(parser.state)
    BY <1>3 DEF StartEither, At, ParsingHeader, BodyStates
  <2>3. \/ BeginMessage(Fresh(parser), "s_res_or_resp_H")
        \/ Reexecute([Fresh(parser) EXCEPT !.type = "HTTP_REQUEST"], "s_start_req")
    BY <1>3 DEF StartEither
  <2> QED  BY <1>0, <2>1, <2>2, <2>3, PlainBegin, PlainReexecute
<1>5. CASE StartRes
  BY <1>0, <1>5, FreshTyped, PlainBegin, ErrorFramed DEF StartRes
<1>11. CASE StatusStart
  <2>1. In(parser, "s_res_status").state = "s_res_status"
    BY <1>0 DEF IsParser, In
  <2>2. At({"s_res_status_start"}) /\ ParsingHeader(parser.state)
    BY <1>11 DEF StatusStart, At, ParsingHeader, BodyStates
  <2>3. \/ Go(In(parser, "s_res_status"), Marked(call, "status"), p)
        \/ Go(In(parser, "s_res_status"), Marked(NextByte, "status"), p + 1)
    BY <1>11 DEF StatusStart
  <2> QED  BY <2>1, <2>2, <2>3, PlainToken
<1>12. CASE Status
  BY <1>0, <1>12, PlainBreak, PlainData DEF Status
<1>14. CASE StartReq
  <2>1. IsParser([Fresh(parser) EXCEPT !.method = MethodName[ch]])
    BY <1>0, FreshTyped DEF IsParser
  <2>2. \/ BeginMessage([Fresh(parser) EXCEPT !.method = MethodName[ch]], "s_req_method")
        \/ Error("INVALID_METHOD")
    BY <1>14 DEF StartReq
  <2> QED  BY <1>0, <2>1, <2>2, PlainBegin, ErrorFramed
<1>17. CASE UrlStart
  <2> DEFINE s == parse_url_char(IF parser.method = "CONNECT" THEN "s_req_server_start"
                                ELSE parser.state, ch)
  <2>1. At({"s_req_spaces_before_url"}) /\ ParsingHeader(parser.state) /\ parser.state \notin FramingStates
    BY <1>17 DEF UrlStart, At, ParsingHeader, BodyStates
  <2>2. s \in UrlStates \cup {"s_dead"}
    BY UrlCharStates
  <2>3. \/ Break(parser, parser.state) \/ Error("INVALID_URL")
        \/ Go(In(parser, s), Marked(NextByte, "url"), p + 1)
    BY <1>17 DEF UrlStart
  <2> HIDE DEF s
  <2>4. In(parser, s).state \notin FramingStates
    BY <1>0, <2>2 DEF IsParser, In, UrlStates, UrlOpening, UrlBody
  <2> QED  BY <1>0, <2>1, <2>3, <2>4, PlainToken, PlainBreak, ErrorFramed
<1>18. CASE UrlChar
  <2>1. parse_url_char(parser.state, ch) \notin FramingStates
    BY UrlCharStates DEF UrlStates, UrlOpening, UrlBody
  <2>2. Error("INVALID_URL") \/ Break(parser, parse_url_char(parser.state, ch))
    BY <1>18 DEF UrlChar
  <2> QED  BY <1>0, <2>1, <2>2, PlainBreak, ErrorFramed
<1>19. CASE UrlEnd
  <2> DEFINE nine == [parser EXCEPT !.version = "0.9"]
  <2>1. IsParser(nine)
    BY <1>0 DEF IsParser, Versions
  <2>2. \/ Data("url", parser, "s_req_http_start") \/ Data("url", nine, "s_req_line_almost_done")
        \/ Data("url", nine, "s_header_field_start")
    BY <1>19 DEF UrlEnd, Eol
  <2> HIDE DEF nine
  <2> QED  BY <1>0, <2>1, <2>2, PlainData
<1> QED  BY <1>1, <1>2, <1>3, <1>4, <1>5, <1>6, <1>7, <1>8, <1>9, <1>10, <1>11, <1>12, <1>13, <1>14, <1>15, <1>16, <1>17, <1>18, <1>19, <1>20, <1>21, <1>22, <1>23, <1>24 DEF StartLine

---------------------------------------------------------------------------
\* The begin of a name keeps the framing.
LEMMA FieldStartFramed ==
  ASSUME Typed, Framed, FieldStart
  PROVE  Framed'
<1> DEFINE pr == [parser EXCEPT !.header_state = NameStart(ch), !.state = "s_header_field"]
<1>1. At({"s_header_field_start"}) /\ ParsingHeader(parser.state) /\ IsParser(parser) /\ call.on
  BY DEF FieldStart, At, ParsingHeader, BodyStates, Typed
<1>2. pr.state \notin FramingStates /\ "s_headers_almost_done" \notin FramingStates
  BY <1>1 DEF IsParser, FramingStates, ChunkStates, ChunkSizing
<1>3. \/ Break(parser, "s_headers_almost_done") \/ Reexecute(parser, "s_headers_almost_done")
      \/ Go(pr, Marked(NextByte, "header_field"), p + 1) \/ Error("INVALID_HEADER_TOKEN")
  BY DEF FieldStart
<1> HIDE DEF pr
<1> QED  BY <1>1, <1>2, <1>3, PlainBreak, PlainReexecute, PlainToken, ErrorFramed

\* The loop over a name keeps the framing, its count is one at least.
LEMMA HeaderFieldFramed ==
  ASSUME Typed, Framed, HeaderField
  PROVE  Framed'
<1> DEFINE q == StopAt(IsToken)
           pr == NameRun(parser, SubSeq(input.bytes, p, q - 1))
           counted == [call EXCEPT !.nread = @ + (q - p)]
           all == [call EXCEPT !.nread = @ + (q - 1 - p), !.fresh = TRUE]
           done == [Unmarked(counted, "header_field") EXCEPT !.fresh = TRUE]
           e == Tell("header_field", SubSeq(input.bytes, call.mark["header_field"], q - 1))
           after == In(pr, "s_header_value_discard_ws")
<1>1. /\ At({"s_header_field"}) /\ parser.state = "s_header_field" /\ ParsingHeader(parser.state)
      /\ p \in Nat \ {0} /\ call.end \in Nat /\ p <= call.end /\ call.on
      /\ call.nread \in Nat /\ IsCall(call) /\ IsParser(parser) /\ call.end <= Len(input.bytes)
  BY AtByte DEF HeaderField, IsCall, ParsingHeader, BodyStates
<1>2. q \in p .. call.end + 1
  <2>1. p \in Nat /\ p <= call.end + 1
    BY <1>1
  <2> QED  BY <1>1, <2>1, TokenStops, Zenon
<1>3. \/ Go(pr, all, q) \/ Go(pr, counted, q)
      \/ Callback(e, after, done, q + 1)
      \/ Error("INVALID_HEADER_TOKEN")
  BY <1>1, <1>2 DEF HeaderField
<1>4. IsParser(pr) /\ pr.state = "s_header_field"
  <2>1. SubSeq(input.bytes, p, q - 1) \in Seq(STRING)
    <3> HIDE DEF q
    <3>1. q - 1 \in Nat /\ q - 1 <= Len(input.bytes)
      BY <1>1, <1>2, InputTyped
    <3> QED  BY <1>1, <3>1, InputTyped, BytesTyped
  <2> HIDE DEF q
  <2> QED  BY <2>1, <1>1, NameRunKeeps DEF NameKept
<1> HIDE DEF q, pr
<1>5. call.nread >= 1
  BY <1>1, AtByte DEF Framed, CountStarts
<1>6. call.nread + (q - p) \in Nat /\ call.nread + (q - p) >= 1
  BY <1>1, <1>2, <1>5
<1>7. all.fresh /\ counted.nread >= 1 /\ IsCall(counted) /\ counted.on
  BY <1>1, <1>6 DEF IsCall
<1>8. done.fresh
  <2> HIDE DEF counted
  <2> QED  BY <1>7 DEF IsCall, Unmarked
<1>9. IsParser(after) /\ after.state = "s_header_value_discard_ws"
  BY <1>4 DEF IsParser, In
<1> HIDE DEF all, counted, done, after
<1>10. pr.state \notin FramingStates /\ after.state \notin FramingStates
  BY <1>4, <1>9 DEF FramingStates, ChunkStates, ChunkSizing
<1>11. Counts(pr, all) /\ Counts(pr, counted) /\ Counts(after, done)
  BY <1>7, <1>8 DEF Counts
<1> QED  BY <1>3, <1>9, <1>10, <1>11, PlainGo, PlainCallback, ErrorFramed

\* The first byte of a value leaves the states the loop over it asserts against.
LEMMA ValueStartFramed ==
  ASSUME Typed, Framed, ValueStart
  PROVE  Framed'
<1> DEFINE To(pr) == Go(In(pr, "s_header_value"), Marked(NextByte, "header_value"), p + 1)
<1>1. IsParser(parser) /\ IsCall(call)
  BY DEF Typed
<1>2. ASSUME NEW pr, IsParser(pr), pr.header_state \notin {"h_connection", "h_transfer_encoding"}, To(pr)
      PROVE  Framed'
  <2>1. In(pr, "s_header_value").state = "s_header_value" /\ In(pr, "s_header_value").header_state = pr.header_state
    BY <1>2 DEF In, IsParser
  <2>2. Marked(NextByte, "header_value").fresh
    BY <1>1 DEF Marked, NextByte, IsCall
  <2> QED  BY <1>2, <2>1, <2>2 DEF Go, Framed, BodyFramed, CountStarts, ChunkStates, ChunkSizing, ChunkSized
<1>3. ASSUME NEW s, s \notin {"h_connection", "h_transfer_encoding"}, To([parser EXCEPT !.header_state = s])
      PROVE  Framed'
  <2>1. IsParser([parser EXCEPT !.header_state = s]) /\ [parser EXCEPT !.header_state = s].header_state = s
    BY <1>1 DEF IsParser
  <2> HIDE DEF To
  <2> QED  BY <1>2, <1>3, <2>1
<1> DEFINE upgrade == [parser EXCEPT !.flags = @ \cup {"F_UPGRADE"}, !.header_state = "h_general"]
           length == [parser EXCEPT !.flags = @ \cup {"F_CONTENTLENGTH"}, !.content_length = Num[ch],
                                    !.header_state = "h_content_length_num"]
<1>4. IsParser(upgrade) /\ upgrade.header_state = "h_general"
  BY <1>1 DEF IsParser
<1>5. IsNum(ch) => IsParser(length) /\ length.header_state = "h_content_length_num"
  <2> HAVE IsNum(ch)
  <2>1. Num[ch] \in 0 .. ULLONG_MAX
    BY WidthAssumption DEF IsNum, Num, Digits
  <2> QED  BY <1>1, <2>1 DEF IsParser
<1>6. \/ To(upgrade)
      \/ \E s : s \notin {"h_connection", "h_transfer_encoding"} /\ To([parser EXCEPT !.header_state = s])
      \/ parser.header_state \notin {"h_connection", "h_transfer_encoding"} /\ To(parser)
      \/ IsNum(ch) /\ To(length)
      \/ Error("INVALID_CONTENT_LENGTH") \/ Error("UNEXPECTED_CONTENT_LENGTH")
  <2> HIDE DEF To
  <2>1. ConnectionStart(ch) \notin {"h_connection", "h_transfer_encoding"}
    BY DEF ConnectionStart
  <2> QED  BY <2>1 DEF ValueStart, To
<1> HIDE DEF To, length, upgrade
<1> QED  BY <1>1, <1>2, <1>3, <1>4, <1>5, <1>6, ErrorFramed

\* The loop over a value stays out of those states.
LEMMA HeaderValueFramed ==
  ASSUME Typed, Framed, HeaderValue
  PROVE  Framed'
<1> DEFINE q == StopAt(NoEol)
           pr == ValueRun(parser, SubSeq(input.bytes, p, q - 1))
           counted == [call EXCEPT !.nread = @ + (q - p)]
           all == [call EXCEPT !.nread = @ + (q - 1 - p), !.fresh = TRUE]
           done == Unmarked(counted, "header_value")
           doneNext == [done EXCEPT !.fresh = TRUE]
           e == Tell("header_value", SubSeq(input.bytes, call.mark["header_value"], q - 1))
           after == In(pr, "s_header_almost_done")
<1>1. /\ At({"s_header_value"}) /\ parser.state = "s_header_value" /\ ParsingHeader(parser.state)
      /\ p \in Nat \ {0} /\ call.end \in Nat /\ p <= call.end /\ call.on
      /\ call.nread \in Nat /\ IsCall(call) /\ IsParser(parser) /\ call.end <= Len(input.bytes)
      /\ parser.http_errno = "OK"
  BY AtByte DEF HeaderValue, IsCall, ParsingHeader, BodyStates
<1>2. q \in p .. call.end + 1
  <2>1. p \in Nat /\ p <= call.end + 1
    BY <1>1
  <2> QED  BY <1>1, <2>1, ValueStops, Zenon
<1>3. \/ Go(pr, all, q) \/ Go(pr, counted, q)
      \/ Callback(e, after, doneNext, q + 1) \/ Callback(e, after, done, q)
      \/ pr.http_errno # "OK" /\ Error(pr.http_errno)
  BY <1>1, <1>2 DEF HeaderValue
<1>4. /\ IsParser(pr) /\ pr.state = "s_header_value" /\ pr.http_errno # "PAUSED"
      /\ pr.header_state \notin {"h_connection", "h_transfer_encoding"}
  <2>1. SubSeq(input.bytes, p, q - 1) \in Seq(STRING)
    <3> HIDE DEF q
    <3>1. q - 1 \in Nat /\ q - 1 <= Len(input.bytes)
      BY <1>1, <1>2, InputTyped
    <3> QED  BY <1>1, <3>1, InputTyped, BytesTyped
  <2>2. ValueKept(parser, parser)
    BY <1>1 DEF ValueKept, Framed, BodyFramed
  <2> HIDE DEF q
  <2>3. ValueKept(pr, parser)
    BY <2>1, <2>2, ValueRunKeeps
  <2> HIDE DEF pr
  <2> QED  BY <1>1, <2>3 DEF ValueKept
<1> HIDE DEF q, pr
<1>5. call.nread >= 1
  BY <1>1, AtByte DEF Framed, CountStarts
<1>6. call.nread + (q - p) \in Nat /\ call.nread + (q - p) >= 1
  BY <1>1, <1>2, <1>5
<1>7. all.fresh /\ counted.nread >= 1 /\ IsCall(counted) /\ counted.on
  BY <1>1, <1>6 DEF IsCall
<1>8. done.nread >= 1 /\ DOMAIN done = {"on", "end", "nread", "fresh", "mark"}
  <2> HIDE DEF counted
  <2> QED  BY <1>7 DEF IsCall, Unmarked
<1> HIDE DEF done
<1>9. doneNext.fresh
  BY <1>8
<1>10. IsParser(after) /\ after.state = "s_header_almost_done"
  BY <1>4 DEF IsParser, In
<1> HIDE DEF all, counted, doneNext, after
<1>11. after.state \notin FramingStates /\ Counts(after, done) /\ Counts(after, doneNext)
  BY <1>8, <1>9, <1>10 DEF FramingStates, ChunkStates, ChunkSizing, Counts
<1>12. ASSUME NEW c, Go(pr, c, q), c.fresh \/ c.nread >= 1 PROVE Framed'
  BY <1>4, <1>12 DEF Go, Framed, BodyFramed, CountStarts, ChunkStates, ChunkSizing, ChunkSized
<1> QED  BY <1>3, <1>4, <1>7, <1>10, <1>11, <1>12, PlainCallback, ErrorFramed

\* The header lines keep the framing.
LEMMA HeadersFramed ==
  ASSUME Typed, Framed, Headers
  PROVE  Framed'
<1> USE DEF FramingStates, ChunkStates, ChunkSizing
<1>0. IsParser(parser) /\ IsCall(call)
  BY DEF Typed
<1>1. CASE ValueDiscardWs
  <2>1. At({"s_header_value_discard_ws"}) /\ ParsingHeader(parser.state) /\ call.on
    BY <1>1 DEF ValueDiscardWs, At, ParsingHeader, BodyStates
  <2>2. \/ Reexecute(parser, "s_header_value_start")
        \/ \E s : s \notin FramingStates /\ Break(parser, s)
    BY <1>1 DEF ValueDiscardWs, At
  <2> QED  BY <1>0, <2>1, <2>2, PlainBreak, PlainReexecute
<1>2. CASE HeaderAlmostDone
  BY <1>0, <1>2, PlainBreak, ErrorFramed DEF HeaderAlmostDone, At
<1>3. CASE ValueDiscardWsAlmostDone
  BY <1>0, <1>3, PlainBreak, ErrorFramed DEF ValueDiscardWsAlmostDone, At
<1>4. CASE ValueLws
  <2>1. At({"s_header_value_lws"}) /\ ParsingHeader(parser.state)
    BY <1>4 DEF ValueLws, At, ParsingHeader, BodyStates
  <2>2. \A s : IsParser([parser EXCEPT !.header_state = s]) /\ IsParser([parser EXCEPT !.flags = s])
    BY <1>0 DEF IsParser
  <2>3. \/ \E s : Reexecute([parser EXCEPT !.header_state = s], "s_header_value_start")
        \/ \E f : Reexecute([parser EXCEPT !.flags = f], "s_header_field_start")
    BY <1>4 DEF ValueLws
  <2> QED  BY <1>0, <2>1, <2>2, <2>3, PlainReexecute
<1>5. CASE ValueDiscardLws
  <2> DEFINE pr == [parser EXCEPT !.flags = @ \cup FlagOf(parser.header_state)]
             after == In(pr, "s_header_field_start")
  <2>1. At({"s_header_value_discard_lws"}) /\ ParsingHeader(parser.state) /\ call.on
    BY <1>5 DEF ValueDiscardLws, At, ParsingHeader, BodyStates
  <2>2. IsParser(after) /\ after.state = "s_header_field_start"
    BY <1>0 DEF In, IsParser
  <2>3. call.nread >= 1
    BY <2>1, AtByte DEF Framed, CountStarts
  <2>4. \/ Break(parser, "s_header_value_discard_ws") \/ Error("INVALID_CONTENT_LENGTH")
        \/ Callback(Say("header_value"), after, call, p)
    BY <1>5 DEF ValueDiscardLws, NotifyAgain
  <2> HIDE DEF after
  <2>5. Counts(after, call) /\ after.state \notin FramingStates
    BY <2>2, <2>3 DEF Counts
  <2> QED  BY <1>0, <2>1, <2>2, <2>4, <2>5, PlainBreak, PlainCallback, ErrorFramed
<1> QED  BY <1>1, <1>2, <1>3, <1>4, <1>5, FieldStartFramed, HeaderFieldFramed, ValueStartFramed, HeaderValueFramed DEF Headers

---------------------------------------------------------------------------
(* Steps between the states the framing speaks of: the call goes on with a *)
(* byte of its own, or stops behind the callback.                          *)
LEMMA FramedGo ==
  ASSUME NEW pr, BodyFramed(pr), pr.state # "s_chunk_size_start", NEW c, Counts(pr, c), NEW q, Go(pr, c, q)
  PROVE  Framed'
BY DEF Go, Framed, CountStarts, Counts

\* A callback keeps the framing, if a chunk size begins with nothing counted.
LEMMA FramedCallback ==
  ASSUME NEW e, NEW pr, IsParser(pr), BodyFramed(pr), NEW c, c.fresh, NEW q, Callback(e, pr, c, q),
         pr.state = "s_chunk_size_start" => pr.nread = 0 /\ c.nread = 0
  PROVE  Framed'
<1>1. CASE parser' = pr /\ call' = c
  BY <1>1 DEF Framed, CountStarts
<1>2. CASE /\ call' = Idle
           /\ \/ parser' = [pr EXCEPT !.http_errno = "PAUSED"]
              \/ parser' = [pr EXCEPT !.http_errno = "CB", !.nread = c.nread]
  <2>1. /\ parser'.state = pr.state /\ parser'.flags = pr.flags
        /\ parser'.content_length = pr.content_length /\ parser'.header_state = pr.header_state
        /\ parser'.http_errno # "CB" => parser'.nread = pr.nread
    BY <1>2 DEF IsParser
  <2>2. ~call'.on /\ (pr.state = "s_chunk_size_start" => parser'.http_errno = "CB" \/ parser'.nread = 0)
    BY <1>2, <2>1, IdleTyped
  <2>3. pr.state = "s_chunk_size_start" => (parser'.http_errno \in {"OK", "PAUSED"} => parser'.nread = 0)
    BY <2>1, <2>2
  <2> QED  BY <2>1, <2>2, <2>3 DEF Framed, BodyFramed, CountStarts
<1> QED  BY <1>1, <1>2 DEF Callback

\* The end of the headers keeps the framing.
LEMMA HeadersAlmostDoneFramed ==
  ASSUME Typed, Framed, HeadersAlmostDone
  PROVE  Framed'
<1> DEFINE asked == [parser EXCEPT !.upgrade = UpgradeAsked]
           stored(pr) == [pr EXCEPT !.state = "s_headers_done", !.nread = call.nread]
           complete == In(parser, "s_message_done")
<1>1. At({"s_headers_almost_done"}) /\ IsParser(parser) /\ ParsingHeader(parser.state) /\ call.nread >= 1
  <2>1. At({"s_headers_almost_done"}) /\ ParsingHeader(parser.state)
    BY DEF HeadersAlmostDone, At, ParsingHeader, BodyStates
  <2> QED  BY <2>1, AtByte DEF Framed, CountStarts
<1>2. /\ IsParser(complete) /\ complete.state = "s_message_done" /\ ~ParsingHeader(complete.state)
  BY <1>1 DEF In, IsParser, ParsingHeader, BodyStates
<1>3. ASSUME NEW answer
      PROVE  /\ In(Answered(asked, answer), "s_headers_done").state = "s_headers_done"
             /\ \A e : [stored(Answered(asked, answer)) EXCEPT !.http_errno = e].state = "s_headers_done"
  BY <1>1 DEF IsParser, In, Answered
<1>4. \/ Error("STRICT") \/ Error("UNEXPECTED_CONTENT_LENGTH")
      \/ Callback(Say("chunk_complete"), complete, call, p)
      \/ \E answer : \/ parser' = In(Answered(asked, answer), "s_headers_done") /\ UNCHANGED call
                     \/ /\ call' = Idle
                        /\ \E e : parser' = [stored(Answered(asked, answer)) EXCEPT !.http_errno = e]
  BY DEF HeadersAlmostDone, NotifyAgain
<1> HIDE DEF asked, stored, complete
<1>5. CASE Callback(Say("chunk_complete"), complete, call, p)
  BY <1>2, <1>5, PlainCallback DEF Counts, FramingStates, ChunkStates, ChunkSizing
<1>6. CASE parser'.state = "s_headers_done" /\ (UNCHANGED call \/ call' = Idle)
  BY <1>1, <1>6, IdleTyped DEF Framed, BodyFramed, CountStarts, ChunkStates, ChunkSizing, ChunkSized
<1> QED  BY <1>3, <1>4, <1>5, <1>6, ErrorFramed

\* A body with a length is entered with one that is neither zero nor unknown, a chunked one with the flag.
LEMMA HeadersDoneFramed ==
  ASSUME Typed, Framed, HeadersDone
  PROVE  Framed'
<1> DEFINE zero == [parser EXCEPT !.nread = 0]
           next(end) == [NextByte EXCEPT !.nread = 0, !.end = end]
           same == [NextByte EXCEPT !.nread = 0]
           e == Say("message_complete")
<1>1. IsParser(parser) /\ IsCall(call)
  BY DEF Typed
<1>2. /\ IsParser(zero) /\ zero.flags = parser.flags /\ zero.content_length = parser.content_length
      /\ zero.header_state = parser.header_state
  BY <1>1 DEF IsParser
<1>3. \A end : next(end).fresh
  BY <1>1 DEF IsCall, NextByte
<1>4. same.on /\ same.fresh /\ same.nread = 0
  BY <1>1 DEF IsCall, NextByte, HeadersDone, At
<1>5. \/ Error("STRICT") \/ Error("INVALID_TRANSFER_ENCODING")
      \/ "F_CHUNKED" \in parser.flags /\ Go(In(zero, "s_chunk_size_start"), same, p + 1)
      \/ parser.content_length \notin {0, ULLONG_MAX} /\ Go(In(zero, "s_body_identity"), same, p + 1)
      \/ Go(In(zero, "s_body_identity_eof"), same, p + 1)
      \/ \E end : Callback(e, In(zero, NewMessage(zero)), next(end), p + 1)
  BY DEF HeadersDone, Has
<1> HIDE DEF zero, next, same, e
<1>6. \A s : /\ IsParser(In(zero, s)) /\ In(zero, s).state = s /\ In(zero, s).flags = parser.flags
             /\ In(zero, s).content_length = parser.content_length
  BY <1>2 DEF IsParser, In
<1>7. CASE "F_CHUNKED" \in parser.flags /\ Go(In(zero, "s_chunk_size_start"), same, p + 1)
  BY <1>4, <1>6, <1>7 DEF Go, Framed, BodyFramed, CountStarts, ChunkSized
<1>8. CASE parser.content_length \notin {0, ULLONG_MAX} /\ Go(In(zero, "s_body_identity"), same, p + 1)
  BY <1>4, <1>6, <1>8 DEF Go, Framed, BodyFramed, CountStarts, ChunkStates, ChunkSizing, ChunkSized
<1>9. CASE Go(In(zero, "s_body_identity_eof"), same, p + 1)
  BY <1>4, <1>6, <1>9, PlainGo DEF Counts, FramingStates, ChunkStates, ChunkSizing
<1>10. CASE \E end : Callback(e, In(zero, NewMessage(zero)), next(end), p + 1)
  <2>1. NewMessage(zero) \notin FramingStates
    BY DEF NewMessage, FramingStates, ChunkStates, ChunkSizing
  <2>2. PICK end : Callback(e, In(zero, NewMessage(zero)), next(end), p + 1)
    BY <1>10
  <2>3. IsParser(In(zero, NewMessage(zero))) /\ In(zero, NewMessage(zero)).state \notin FramingStates
    BY <1>6, <2>1
  <2>4. Counts(In(zero, NewMessage(zero)), next(end))
    BY <1>3 DEF Counts
  <2> QED  BY <2>2, <2>3, <2>4, PlainCallback
<1> QED  BY <1>5, <1>7, <1>8, <1>9, <1>10, ErrorFramed

\* A body is left when nothing of its length remains.
LEMMA BodyIdentityFramed ==
  ASSUME Typed, Framed, BodyIdentity
  PROVE  Framed'
<1> DEFINE pr == [parser EXCEPT !.content_length = @ - ToRead]
           c == Marked(call, "body")
           d == [c EXCEPT !.fresh = TRUE]
           last == p + ToRead - 1
           e == Tell("body", SubSeq(input.bytes, c.mark["body"], last))
           after == In(pr, "s_message_done")
<1>1. /\ At({"s_body_identity"}) /\ parser.state = "s_body_identity"
      /\ IsParser(parser) /\ parser.content_length \notin {0, ULLONG_MAX} /\ IsCall(call)
  BY AtByte DEF BodyIdentity, Framed, BodyFramed
<1>2. /\ ToRead \in 1 .. parser.content_length
      /\ parser.content_length - ToRead \in 0 .. ULLONG_MAX
  BY <1>1, ReadTyped
<1>3. parser.content_length - ToRead # ULLONG_MAX
  BY <1>1, <1>2, WidthAssumption DEF IsParser
<1>4. /\ IsParser(pr) /\ pr.state = "s_body_identity"
      /\ pr.content_length = parser.content_length - ToRead
  BY <1>1, <1>2 DEF IsParser
<1> HIDE DEF pr
<1>5. d.fresh
  BY <1>1 DEF IsCall, Marked
<1>6. IsParser(after) /\ after.state = "s_message_done"
  BY <1>4 DEF IsParser, In
<1>7. \/ Callback(e, after, Unmarked(call, "body"), last)
      \/ pr.content_length # 0 /\ Go(pr, d, last + 1)
  BY DEF BodyIdentity, pr
<1> HIDE DEF d, after
<1>8. CASE Callback(e, after, Unmarked(call, "body"), last)
  BY <1>6, <1>8, PlainCallback DEF Counts, ParsingHeader, BodyStates, FramingStates, ChunkStates, ChunkSizing
<1>9. CASE pr.content_length # 0 /\ Go(pr, d, last + 1)
  <2>1. BodyFramed(pr)
    BY <1>3, <1>4, <1>9 DEF BodyFramed, ChunkStates, ChunkSizing, ChunkSized
  <2> QED  BY <1>4, <1>5, <1>9, <2>1, FramedGo DEF Counts
<1> QED  BY <1>7, <1>8, <1>9

\* A chunk is left when nothing of its size remains.
LEMMA ChunkDataFramed ==
  ASSUME Typed, Framed, ChunkData
  PROVE  Framed'
<1> DEFINE pr == [parser EXCEPT !.content_length = @ - ToRead]
           after == IF pr.content_length = 0 THEN In(pr, "s_chunk_data_almost_done") ELSE pr
           c == Marked(NextByte, "body")
<1>1. /\ At({"s_chunk_data"}) /\ parser.state = "s_chunk_data"
      /\ IsParser(parser) /\ parser.content_length \notin {0, ULLONG_MAX} /\ IsCall(call)
      /\ "F_CHUNKED" \in parser.flags
  BY AtByte DEF ChunkData, Framed, BodyFramed, ChunkStates
<1>2. /\ ToRead \in 1 .. parser.content_length
      /\ parser.content_length - ToRead \in 0 .. ULLONG_MAX
  BY <1>1, ReadTyped
<1>3. parser.content_length - ToRead # ULLONG_MAX
  BY <1>1, <1>2, WidthAssumption DEF IsParser
<1>4. /\ IsParser(pr) /\ pr.state = "s_chunk_data" /\ pr.flags = parser.flags
      /\ pr.content_length = parser.content_length - ToRead
  BY <1>1, <1>2 DEF IsParser
<1> HIDE DEF pr
<1>5. BodyFramed(after) /\ after.state # "s_chunk_size_start"
  BY <1>1, <1>3, <1>4 DEF BodyFramed, ChunkStates, ChunkSizing, ChunkSized, IsParser, In
<1>6. c.fresh
  BY <1>1 DEF IsCall, NextByte, Marked
<1>7. Go(after, c, p + ToRead)
  BY DEF ChunkData, pr
<1> HIDE DEF after, c
<1> QED  BY <1>5, <1>6, <1>7, FramedGo DEF Counts

\* A chunk size read never reaches the number that stands for no length.
LEMMA ChunkFramed ==
  ASSUME Typed, Framed, ChunkSizeStart \/ ChunkSize \/ ChunkParameters
  PROVE  Framed'
<1>1. /\ IsParser(parser) /\ IsCall(call) /\ NextByte.fresh /\ "F_CHUNKED" \in parser.flags
      /\ parser.content_length \in Nat
      /\ parser.state # "s_chunk_size_start" => parser.content_length < ULLONG_MAX
  <2>1. parser.state \in ChunkSizing /\ IsParser(parser) /\ IsCall(call)
    BY DEF ChunkSizeStart, ChunkSize, ChunkParameters, At, Typed, ChunkSizing
  <2>2. "F_CHUNKED" \in parser.flags /\ (parser.state # "s_chunk_size_start" => parser.content_length < ULLONG_MAX)
    BY <2>1 DEF Framed, BodyFramed, ChunkStates, ChunkSizing, ChunkSized
  <2>3. parser.content_length \in Nat /\ NextByte.fresh
    BY <2>1, WidthAssumption DEF IsParser, IsCall, NextByte
  <2> QED  BY <2>1, <2>2, <2>3
<1>2. ASSUME NEW pr, IsParser(pr), "F_CHUNKED" \in pr.flags, pr.content_length < ULLONG_MAX,
             NEW s \in ChunkSized, Break(pr, s)
      PROVE  Framed'
  <2>1. /\ In(pr, s).state = s /\ In(pr, s).flags = pr.flags
        /\ In(pr, s).content_length = pr.content_length
    BY <1>2 DEF IsParser, In
  <2>2. BodyFramed(In(pr, s)) /\ In(pr, s).state # "s_chunk_size_start"
    BY <1>2, <2>1 DEF BodyFramed, ChunkStates, ChunkSizing, ChunkSized
  <2> QED  BY <1>1, <1>2, <2>2, FramedGo DEF Break, Counts
<1>3. CASE ChunkSizeStart
  <2> DEFINE pr == [parser EXCEPT !.content_length = unhex(ch)]
  <2>1. unhex(ch) \in 0 .. 11
    BY DEF unhex, IsNum, Num, Digits
  <2>2. IsParser(pr) /\ pr.flags = parser.flags /\ pr.content_length < ULLONG_MAX
    BY <1>1, <2>1, WidthAssumption DEF IsParser
  <2>3. Break(pr, "s_chunk_size") \/ Error("INVALID_CHUNK_SIZE")
    BY <1>3 DEF ChunkSizeStart
  <2> HIDE DEF pr
  <2> QED  BY <1>1, <1>2, <2>2, <2>3, ErrorFramed DEF ChunkSized
<1>4. CASE ChunkSize
  <2> DEFINE pr == [parser EXCEPT !.content_length = Shift(@, 16, unhex(ch))]
  <2>1. parser.state = "s_chunk_size"
    BY <1>4 DEF ChunkSize, At
  <2>2. \/ Break(parser, "s_chunk_size_almost_done") \/ Break(parser, "s_chunk_parameters")
        \/ ~WouldOverflow(parser.content_length, 16) /\ Break(pr, parser.state)
        \/ Error("INVALID_CONTENT_LENGTH") \/ Error("INVALID_CHUNK_SIZE")
    BY <1>4 DEF ChunkSize
  <2>3. ASSUME ~WouldOverflow(parser.content_length, 16)
        PROVE  IsParser(pr) /\ pr.flags = parser.flags /\ pr.content_length < ULLONG_MAX
    <3> DEFINE n == parser.content_length  d == unhex(ch)
    <3>1. n \in Nat /\ d \in 0 .. 11
      BY <1>1 DEF unhex, IsNum, Num, Digits
    <3>2. n * 16 + d < ULLONG_MAX
      <4> HIDE DEF n, d
      <4>1. ~ ((ULLONG_MAX - 16) \div 16 < n)
        BY <2>3 DEF WouldOverflow, n
      <4>2. n * 16 <= ULLONG_MAX - 16
        BY <3>1, <4>1, WidthAssumption
      <4> QED  BY <3>1, <4>2, WidthAssumption
    <3>3. Shift(n, 16, d) = n * 16 + d
      <4> HIDE DEF n, d
      <4> DEFINE x == n * 16 + d  y == ULLONG_MAX + 1
      <4>1. x \in Nat /\ y \in Nat /\ x < y
        BY <3>1, <3>2, WidthAssumption
      <4> HIDE DEF x, y
      <4>2. x % y = x
        BY <4>1
      <4> QED  BY <4>2 DEF Shift, x, y
    <3>4. Shift(n, 16, d) \in 0 .. ULLONG_MAX - 1
      <4> HIDE DEF n, d
      <4> QED  BY <3>1, <3>2, <3>3, WidthAssumption
    <3> QED  BY <1>1, <3>4, WidthAssumption DEF IsParser
  <2> HIDE DEF pr
  <2> QED  BY <1>1, <1>2, <2>1, <2>2, <2>3, ErrorFramed DEF ChunkSized
<1>5. CASE ChunkParameters
  <2>1. \E s \in ChunkSized : Break(parser, s) /\ parser.state # "s_chunk_size_start"
    BY <1>5 DEF ChunkParameters, At, ChunkSized
  <2> QED  BY <1>1, <1>2, <2>1
<1> QED  BY <1>3, <1>4, <1>5

\* Only a chunk that is not empty has data.
LEMMA ChunkSizeAlmostDoneFramed ==
  ASSUME Typed, Framed, ChunkSizeAlmostDone
  PROVE  Framed'
<1> DEFINE zero == [parser EXCEPT !.nread = 0]
           trailing == [zero EXCEPT !.flags = @ \cup {"F_TRAILING"}, !.state = "s_header_field_start"]
           data == In(zero, "s_chunk_data")
           c == [NextByte EXCEPT !.nread = 0]
           e == Tell("chunk_header", <<parser.content_length>>)
<1>1. /\ IsParser(parser) /\ IsCall(call) /\ "F_CHUNKED" \in parser.flags
      /\ parser.content_length \in Nat /\ parser.content_length < ULLONG_MAX
  BY DEF ChunkSizeAlmostDone, At, Typed, Framed, BodyFramed, ChunkStates, ChunkSizing, ChunkSized, IsParser
<1>2. c.fresh
  BY <1>1 DEF IsCall, NextByte
<1>3. IsParser(trailing) /\ trailing.state = "s_header_field_start"
  BY <1>1 DEF IsParser
<1>4. /\ IsParser(data) /\ data.state = "s_chunk_data" /\ data.flags = parser.flags
      /\ data.content_length = parser.content_length
  BY <1>1 DEF IsParser, In
<1>5. \/ Error("STRICT") \/ Callback(e, trailing, c, p + 1)
      \/ parser.content_length # 0 /\ Callback(e, data, c, p + 1)
  BY DEF ChunkSizeAlmostDone
<1> HIDE DEF zero, trailing, data, c, e
<1>6. CASE parser.content_length # 0 /\ Callback(e, data, c, p + 1)
  <2>1. BodyFramed(data)
    BY <1>1, <1>4, <1>6 DEF BodyFramed, ChunkStates, ChunkSizing, ChunkSized
  <2> QED  BY <1>2, <1>4, <1>6, <2>1, FramedCallback
<1>7. CASE Callback(e, trailing, c, p + 1)
  BY <1>2, <1>3, <1>7, PlainCallback DEF Counts, FramingStates, ChunkStates, ChunkSizing
<1> QED  BY <1>5, <1>6, <1>7, ErrorFramed

\* The size of the next chunk begins with nothing counted.
LEMMA ChunkEndFramed ==
  ASSUME Typed, Framed, ChunkDataAlmostDone \/ ChunkDataDone
  PROVE  Framed'
<1>1. IsParser(parser) /\ IsCall(call) /\ "F_CHUNKED" \in parser.flags
  BY DEF ChunkDataAlmostDone, ChunkDataDone, At, Typed, Framed, BodyFramed, ChunkStates
<1>2. CASE ChunkDataAlmostDone
  <2> DEFINE after == In(parser, "s_chunk_data_done")
  <2>1. /\ IsParser(after) /\ after.state = "s_chunk_data_done" /\ after.flags = parser.flags
    BY <1>1 DEF IsParser, In
  <2>2. BodyFramed(after)
    BY <1>1, <2>1 DEF BodyFramed, ChunkSized
  <2>3. Unmarked(NextByte, "body").fresh /\ NextByte.fresh
    BY <1>1 DEF IsCall, NextByte, Unmarked
  <2>4. \/ \E e : Callback(e, after, Unmarked(NextByte, "body"), p + 1)
        \/ Go(after, NextByte, p + 1) \/ Error("STRICT")
    BY <1>2 DEF ChunkDataAlmostDone, Data, Break
  <2> HIDE DEF after
  <2> QED  BY <2>1, <2>2, <2>3, <2>4, FramedGo, FramedCallback, ErrorFramed DEF Counts
<1>3. CASE ChunkDataDone
  <2> DEFINE pr == [parser EXCEPT !.nread = 0, !.state = "s_chunk_size_start"]
             c == [NextByte EXCEPT !.nread = 0]
  <2>1. /\ IsParser(pr) /\ pr.state = "s_chunk_size_start" /\ pr.flags = parser.flags /\ pr.nread = 0
    BY <1>1 DEF IsParser
  <2>2. c.fresh /\ c.nread = 0
    BY <1>1 DEF IsCall, NextByte
  <2>3. Callback(Say("chunk_complete"), pr, c, p + 1) \/ Error("STRICT")
    BY <1>3 DEF ChunkDataDone
  <2> HIDE DEF pr, c
  <2>4. BodyFramed(pr)
    BY <1>1, <2>1 DEF BodyFramed, ChunkSized
  <2> QED  BY <2>1, <2>2, <2>3, <2>4, FramedCallback, ErrorFramed
<1> QED  BY <1>2, <1>3

\* The body keeps the framing.
LEMMA BodyStepFramed ==
  ASSUME Typed, Framed, Body
  PROVE  Framed'
<1>1. CASE BodyIdentityEof
  <2>1. Marked(NextByte, "body").fresh /\ parser.state = "s_body_identity_eof"
    BY <1>1 DEF BodyIdentityEof, At, Typed, IsCall, NextByte, Marked
  <2> QED  BY <1>1, <2>1, PlainGo DEF BodyIdentityEof, Counts, FramingStates, ChunkStates, ChunkSizing
<1>2. CASE MessageDone
  <2> DEFINE c == [NextByte EXCEPT !.end = IF parser.upgrade THEN p ELSE @]
             pr == In(parser, NewMessage(parser))
  <2>1. IsParser(pr) /\ pr.state = NewMessage(parser) /\ c.fresh
    BY DEF Typed, IsParser, IsCall, In, NextByte
  <2>2. Callback(Say("message_complete"), pr, c, p + 1)
    BY <1>2 DEF MessageDone
  <2> HIDE DEF pr, c
  <2>3. pr.state \notin FramingStates
    BY <2>1 DEF NewMessage, FramingStates, ChunkStates, ChunkSizing
  <2> QED  BY <2>1, <2>2, <2>3, PlainCallback DEF Counts
<1> QED  BY <1>1, <1>2, HeadersAlmostDoneFramed, HeadersDoneFramed, BodyIdentityFramed, ChunkDataFramed,
            ChunkFramed, ChunkSizeAlmostDoneFramed, ChunkEndFramed DEF Body

\* Calls begin and end with the framing kept, and with the count they found.
LEMMA CallsFramed ==
  ASSUME Typed, Framed, TakeByte \/ Leftover \/ ReturnLen \/ Execute \/ ExecuteEof \/ Resume
  PROVE  Framed'
<1>0. IsParser(parser) /\ IsCall(call)
  BY DEF Typed
<1>1. CASE TakeByte
  <2>1. /\ call'.on = call.on /\ call'.fresh = FALSE /\ parser' = parser
        /\ call'.nread = IF ParsingHeader(parser.state) THEN call.nread + 1 ELSE call.nread
        /\ call.on /\ call.fresh /\ call.nread \in Nat
    BY <1>0, <1>1 DEF TakeByte, IsCall
  <2>2. parser.state = "s_chunk_size_start" => ParsingHeader(parser.state)
    BY DEF ParsingHeader, BodyStates
  <2> QED  BY <2>1, <2>2 DEF Framed, CountStarts
<1>2. CASE Leftover
  <2>1. PICK m \in Marks : /\ call.mark[m] # 0
                           /\ Callback(Tell(m, SubSeq(input.bytes, call.mark[m], p - 1)), parser, Unmarked(call, m), p)
    BY <1>2 DEF Leftover
  <2>2. parser.state # "s_chunk_size_start"
    BY <1>2, <2>1 DEF Leftover, Typed, Place, MarksFit, Marks, UrlStates, UrlOpening, UrlBody, BodyMarked
  <2>3. Unmarked(call, m).fresh
    BY <1>0, <1>2 DEF Leftover, IsCall, Unmarked
  <2> QED  BY <1>0, <2>1, <2>2, <2>3, FramedCallback DEF Framed
<1>3. CASE ReturnLen
  <2>1. /\ parser'.state = parser.state /\ parser'.flags = parser.flags
        /\ parser'.content_length = parser.content_length /\ parser'.header_state = parser.header_state
        /\ parser'.nread = call.nread /\ ~call'.on /\ call.on /\ call.fresh
    BY <1>0, <1>3, IdleTyped DEF ReturnLen, IsParser
  <2> QED  BY <2>1 DEF Framed, BodyFramed, CountStarts
<1>4. CASE Execute
  <2>1. /\ parser'.state = parser.state /\ parser'.flags = parser.flags
        /\ parser'.content_length = parser.content_length /\ parser'.header_state = parser.header_state
        /\ call'.nread = parser.nread /\ call'.on /\ call'.fresh /\ ~call.on /\ parser.http_errno = "OK"
    BY <1>0, <1>4 DEF Execute, IsParser
  <2> QED  BY <2>1 DEF Framed, BodyFramed, CountStarts
<1>5. CASE ExecuteEof
  <2>1. /\ parser'.state = parser.state /\ parser'.flags = parser.flags
        /\ parser'.content_length = parser.content_length /\ parser'.header_state = parser.header_state
        /\ ~call.on /\ ~call'.on /\ parser.http_errno = "OK"
        /\ \/ parser'.http_errno \notin {"OK", "PAUSED"} \/ parser'.nread = parser.nread
    BY <1>0, <1>5, IdleTyped DEF ExecuteEof, IsParser, Callback, Typed
  <2> QED  BY <2>1 DEF Framed, BodyFramed, CountStarts
<1>6. CASE Resume
  <2>1. /\ parser'.state = parser.state /\ parser'.flags = parser.flags
        /\ parser'.content_length = parser.content_length /\ parser'.header_state = parser.header_state
        /\ parser'.nread = parser.nread /\ call' = call /\ parser.http_errno = "PAUSED"
    BY <1>0, <1>6 DEF Resume, IsParser
  <2>2. ~call.on
    BY <1>6 DEF Resume, Typed, Place
  <2> QED  BY <2>1, <2>2 DEF Framed, BodyFramed, CountStarts
<1> QED  BY <1>1, <1>2, <1>3, <1>4, <1>5, <1>6

\* Before the first byte nothing is framed.
LEMMA FramedInit == Init => Framed
BY IdleTyped DEF Init, http_parser_init, StartState, Framed, BodyFramed, CountStarts, ChunkStates,
   ChunkSizing, ChunkSized

\* Every step keeps the framing.
LEMMA FramedStep == Typed /\ Framed /\ [Next]_vars => Framed'
<1> SUFFICES ASSUME Typed, Framed, [Next]_vars PROVE Framed'
  OBVIOUS
<1>1. CASE UNCHANGED vars
  BY <1>1 DEF vars, Framed, CountStarts
<1>2. CASE Overflow
  BY <1>2, ErrorFramed DEF Overflow
<1> QED  BY <1>1, <1>2, StartLineFramed, HeadersFramed, BodyStepFramed, CallsFramed DEF Next, InCall
============================================================================
