-------------------------- MODULE MCAlarmForwarder --------------------------
(* Messages for AlarmForwarder: seven to nine fields with CRLF between them *)
(* and with a CR or LF in some; and fields with LF between them, one as     *)
(* long as the buffers admit.                                               *)
EXTENDS AlarmForwarder, SequencesExt

\* The second, third and seventh field read as numbers too (date, code, address),
\* and so does a ninth.
Numbers(port) ==
  [i \in 1 .. 9 |-> CASE i = 2 -> 2023 [] i = 3 -> 701 [] i = 7 -> 192 [] i = 8 -> port
                      [] i = 9 -> 9 [] OTHER -> 0]

\* A piece, and pieces put one behind the other.
Part(len, number, sep) ==
  [len |-> len, number |-> IF len = 0 THEN 0 ELSE number, sep |-> sep, at |-> 0]
Behind(m, part) ==
  Append(m, IF m = <<>> THEN part ELSE [part EXCEPT !.at = Last(m).at + Last(m).len + 1])
Located(parts) == FoldLeft(Behind, <<>>, parts)

\* n fields of ten bytes with CRLF between them: those in E are empty, and those
\* in S have the separator sep in the middle.
CrLf(n, E, S, sep, port) ==
  LET Parts(i) == IF i \in E THEN <<Part(0, 0, "CR")>>
                  ELSE IF i \in S THEN <<Part(4, Numbers(port)[i], sep), Part(5, 7, "CR")>>
                  ELSE <<Part(10, Numbers(port)[i], "CR")>>
      Line(i) == Parts(i) \o IF i = n THEN <<>> ELSE <<Part(0, 0, "LF")>>
  IN  Located(FlattenSeq([i \in 1 .. n |-> Line(i)]))

\* Eight fields with LF between them, field k taking the room there is, or `over` more.
Long(k, over) ==
  Located([i \in 1 .. 8 |->
    Part(IF i = k THEN LargestMessage - 14 + over ELSE 1, Numbers(8080)[i], "LF")])

MCMessages ==
  {CrLf(n, {}, {}, "LF", port) : n \in 7 .. 9, port \in {0, 8080}}
    \cup {CrLf(8, {i}, {}, "LF", 8080) : i \in {1, 8}}
    \cup {CrLf(9, {i}, {}, "LF", 8080) : i \in 1 .. 9}
    \cup {CrLf(8, {}, {i}, "LF", 8080) : i \in 1 .. 8}
    \cup {CrLf(8, {}, {i}, "CR", 8080) : i \in {1, 7}}
    \cup {CrLf(n, {i}, {j}, "LF", 8080) : n \in 8 .. 9, i \in {1, 8}, j \in {2, 7}}
    \cup {Long(k, over) : k \in {1, 6, 7}, over \in {0, 1}}
    \cup {CrLf(2, {1, 2}, {}, "LF", 8080)}
=============================================================================
