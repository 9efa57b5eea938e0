------------------------------ MODULE MCLibrary ------------------------------
(***************************************************************************)
(* Inputs for the pure functions of the libraries: cJSON's texts and items *)
(* (JsonText), pairs of items (JsonPatch), URLs (UrlParser).  A behaviour  *)
(* picks a family, then one input of it (of a pair, one item after the     *)
(* other), and stops; each property looks at its own family.               *)
(***************************************************************************)
EXTENDS UrlParser, JsonPatch

VARIABLES kind, seed, input
vars == <<kind, seed, input>>

Seqs(S, n) == UNION {[1 .. k -> S] : k \in 0 .. n}

---------------------------------------------------------------------------
(* Texts, of the pieces that make a difference.  A text of a family is a   *)
(* beginning, up to so many pieces, and an end.                            *)
Piece ==
  [open |-> <<91>>, close |-> <<93>>, openbrace |-> <<123>>, closebrace |-> <<125>>, comma |-> <<44>>,
   colon |-> <<58>>, quote |-> <<34>>, blank |-> <<32>>, one |-> <<49>>, zero |-> <<48>>,
   minus |-> <<45>>, plus |-> <<43>>, point |-> <<46>>, e |-> <<101>>, null |-> Null, true |-> True,
   a |-> <<97>>, key |-> <<34, 97, 34>>, backslash |-> <<92>>, u |-> <<117>>, slash |-> <<47>>,
   n |-> <<110>>, e9 |-> <<48, 48, 101, 57>>, high |-> <<100, 56, 51, 100>>, low |-> <<100, 69, 48, 48>>,
   bom |-> <<239, 187, 191>>, long |-> <<49, 50, 51, 52, 53, 54>>]
TextOf(pieces) == FlattenSeq([i \in DOMAIN pieces |-> Piece[pieces[i]]])

Family(from, of, to, n) == [from |-> from, of |-> of, to |-> to, n |-> n]
TextFamilies ==
  [array |-> Family(<<"open">>, {"open", "close", "comma", "blank", "one", "quote"}, {<<>>, <<"close">>}, 4),
   object |-> Family(<<"openbrace">>, {"key", "colon", "comma", "closebrace", "null", "blank"},
                     {<<>>, <<"closebrace">>}, 4),
   string |-> Family(<<"quote">>, {"quote", "a", "backslash", "u", "n", "slash", "e9", "high", "low"},
                     {<<>>, <<"quote">>}, 4),
   number |-> Family(<<>>, {"one", "zero", "minus", "plus", "point", "e", "blank"}, {<<>>}, 4),
   mixed |-> Family(<<>>, {"open", "openbrace", "close", "closebrace", "one", "comma", "colon", "quote",
                           "blank", "true", "null", "bom", "long"}, {<<>>}, 3)]

SeedText ==
  /\ kind = "start"
  /\ \E f \in DOMAIN TextFamilies : \E p \in Seqs(TextFamilies[f].of, 1) :
       seed' = [family |-> f, from |-> TextFamilies[f].from \o p]
  /\ kind' = "text seed" /\ UNCHANGED input
PickText ==
  /\ kind = "text seed"
  /\ LET f == TextFamilies[seed.family]
     IN \E p \in Seqs(f.of, f.n), end \in f.to : input' = TextOf(seed.from \o p \o end)
  /\ kind' = "text" /\ UNCHANGED seed

---------------------------------------------------------------------------
(* Items. *)
Leaf(type, value) == Item(type, value, <<>>)
Arrays(S, n) == {Item("array", NULL, c) : c \in Seqs(S, n)}
Objects(S, keys, n) == {Item("object", NULL, c) : c \in Seqs({Named(k, v) : k \in keys, v \in S}, n)}
Distinct(item) == Cardinality(Names(item)) = Len(item.child)

Numbers == {<<0, 0>>, <<-12, 0>>, <<15, -1>>, <<1, 30>>, <<25, -6>>, <<3, 2>>, <<7, -3>>}
ByteStrings == {<<>>, <<97>>, <<34, 92>>, <<10, 32>>, <<1, 47>>, <<195, 169>>, <<31, 9, 127>>, <<47, 42>>}
Leaves == {Leaf("null", NULL), Leaf("true", NULL)}
          \cup {Leaf("number", n) : n \in Numbers} \cup {Leaf("string", s) : s \in ByteStrings}
Few == {Leaf("null", NULL), Leaf("string", <<9>>)}
Flat == Arrays(Few, 2) \cup Objects(Few, {<<97>>, <<34>>}, 1)
Deep == Arrays(Flat, 1) \cup Objects(Flat, {<<97>>}, 1)
ItemFamilies ==
  [leaves |-> Leaves, arrays |-> Arrays(Leaves, 2), objects |-> Objects(Leaves, {<<97>>, <<>>, <<34>>}, 1),
   members |-> Objects(Few, {<<97>>, <<>>}, 2), deep |-> Deep, tooDeep |-> Objects(Deep, {<<97>>}, 1)]

\* Items to compare and to patch: names that a pointer escapes, lists of every length,
\* members in every order, changes of type.
One == Leaf("number", <<1, 0>>)
Two == {One, Leaf("string", <<97>>)}
Patched ==
  Two \cup {Leaf("null", NULL)} \cup Arrays(Two, 2)
  \cup Arrays(Objects(Two, {<<97>>}, 1) \cup Arrays({One}, 1), 2)
  \cup {o \in Objects(Two, {<<97>>, <<98>>, <<Tilde>>}, 2) : Distinct(o)}
  \cup {o \in Objects(Objects({One, Leaf("null", NULL)}, {<<97>>, <<98>>}, 1), {<<97>>, <<98>>}, 2) : Distinct(o)}
  \cup {o \in Objects({One}, {<<97>>, <<98>>, <<99>>, <<Tilde>>}, 3) : Distinct(o)}
Escaped2 == {o \in Objects({One} \cup Arrays({One}, 1), {<<47>>, <<Tilde, 49>>, <<Tilde, 97>>, <<49>>, <<>>}, 2) : Distinct(o)}

SeedItem ==
  /\ kind = "start"
  /\ seed' \in DOMAIN ItemFamilies /\ kind' = "item seed" /\ UNCHANGED input
PickItem ==
  /\ kind = "item seed"
  /\ input' \in ItemFamilies[seed] /\ kind' = "item" /\ UNCHANGED seed
SeedPair ==
  /\ kind = "start"
  /\ seed' \in Patched \cup Escaped2 /\ kind' = "pair seed" /\ UNCHANGED input
PickPair ==
  /\ kind = "pair seed" /\ seed \in Patched
  /\ input' \in Patched /\ kind' = "pair" /\ UNCHANGED seed

---------------------------------------------------------------------------
(* URLs: short ones of every kind, and whole ones put together of fields.  *)
UrlCharacters == {"a", "1", ":", "/", "@", "?", "#", "[", "]", "%", "."}
Scheme == <<"a", ":", "/", "/">>
Beginnings == {<<>>, Scheme, Scheme \o <<"a">>, Scheme \o <<"[">>}
Optional(mark, texts) == {<<>>} \cup {mark \o t : t \in texts}
Hosts == {<<"a">>, <<"a", ".", "1">>, <<"[", "a", ":", "1", "]">>, <<"[", "a", "%", "a", "]">>}
Ports == {<<"1">>, <<"2", "1">>, <<"2", "2">>, <<"0", "0", "9">>}
Authorities == {user \o host \o port : user \in {<<>>, <<"a", "@">>, <<"a", ":", "1", "@">>},
                                       host \in Hosts, port \in Optional(<<":">>, Ports)}
Paths == {<<>>, <<"/">>, <<"/", "a">>}
Endings == {path \o query \o fragment : path \in Paths, query \in Optional(<<"?">>, {<<"a">>, <<"?">>}),
                                        fragment \in Optional(<<"#">>, {<<"a">>, <<"/">>})}

SeedUrl ==
  /\ kind = "start"
  /\ \/ \E b \in Beginnings, c \in Seqs(UrlCharacters, 1) : seed' = b \o c /\ kind' = "url seed"
     \/ seed' \in Authorities /\ kind' = "whole url seed"
  /\ UNCHANGED input
PickUrl ==
  /\ \/ kind = "url seed" /\ \E rest \in Seqs(UrlCharacters, 3) : input' = seed \o rest
     \/ kind = "whole url seed" /\ \E end \in Endings : input' = Scheme \o seed \o end
  /\ kind' = "url" /\ UNCHANGED seed

Init == kind = "start" /\ seed = NULL /\ input = NULL
Next == SeedText \/ PickText \/ SeedItem \/ PickItem \/ SeedPair \/ PickPair \/ SeedUrl \/ PickUrl
Spec == Init /\ [][Next]_vars

---------------------------------------------------------------------------
(* The properties. *)
\* cJSON_ParseWithOpts accepts the texts that stand for an item nested no deeper than the
\* limit, returns that item, says where it ends, and keeps every string in the room that
\* was allocated for it.
TextsParsedRight == kind = "text" => ParsedRight(input)

\* What is printed, formatted or not, is read back as it was.
ItemsReadBack == kind = "item" => ReadBack(input)

\* Printing writes inside its buffer, however large that is, and succeeds with the whole
\* text or not at all.
PrintedInBuffer ==
  kind = "item" /\ seed \in {"leaves", "members", "deep"} =>
    \A format \in BOOLEAN : PrintedInside(input, format)

\* Generated patches turn a copy of the one item into the other, and a pointer made for a
\* place leads there.
PatchesTransform ==
  /\ kind = "pair" => PatchesApply(seed, input)
  /\ kind = "pair seed" => PointersLead(seed)

\* The fields of a URL that was parsed lie in it, together make it up, and belong together.
UrlFieldsRight == kind = "url" => \A is_connect \in BOOLEAN : FieldsRight(input, is_connect)
===========================================================================
