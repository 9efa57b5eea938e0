---------------------------- MODULE JsonForest ----------------------------
(***************************************************************************)
(* What cJSON's functions on trees promise: every item keeps an ordered    *)
(* sequence of the items added to it, and the caller holds the rest.       *)
(***************************************************************************)
EXTENDS Naturals, SequencesExt

CONSTANT Nodes

VARIABLES kids, held

vars == <<kids, held>>

Known == LET k == kids IN held \cup UNION {Range(k[n]) : n \in Nodes}

\* What is in the tree under n, n included.
Under(k, n) ==
  LET grow[i \in 0 .. Cardinality(Nodes)] ==
        IF i = 0 THEN {n}
        ELSE LET S == grow[i - 1] IN S \cup UNION {Range(k[m]) : m \in S}
  IN grow[Cardinality(Nodes)]

Empty == [n \in Nodes |-> <<>>]
Init == kids = Empty /\ held = {}

\* A new tree in the caller's hand: one item, an array of items, or a duplicate.
Make == \E root \in held' \ held :
  /\ held' = held \cup {root}
  /\ LET old == kids
         new == kids'
         made == Under(new, root)
     IN made \cap Known = {} /\ \A n \in Nodes \ made : new[n] = old[n]

Add == \E i \in held :
  /\ held' = held \ {i}
  /\ LET k == kids IN \E n \in Known : kids' = [k EXCEPT ![n] = Append(@, i)]

\* A reference, or an item made and added in one call.
AddNew == held' = held /\
  LET k == kids IN \E n \in Known, i \in Nodes \ Known : kids' = [k EXCEPT ![n] = Append(@, i)]

Insert == \E i \in held :
  /\ held' = held \ {i}
  /\ LET k == kids IN \E n \in Known : \E at \in DOMAIN k[n] : kids' = [k EXCEPT ![n] = InsertAt(@, at, i)]

Detach == \E i \in held' \ held :
  /\ held' = held \cup {i}
  /\ LET k == kids IN \E n \in Known : \E at \in DOMAIN k[n] :
       k[n][at] = i /\ kids' = [k EXCEPT ![n] = RemoveAt(@, at)]

Without(k, gone) == [n \in Nodes |-> IF n \in gone THEN <<>> ELSE k[n]]

\* The item replaced goes with all that is in it.
Replace == \E i \in held :
  /\ held' = held \ {i}
  /\ LET k == kids IN \E n \in Known : \E at \in DOMAIN k[n] :
       kids' = Without([k EXCEPT ![n] = ReplaceAt(@, at, i)], Under(k, k[n][at]))

\* An item taken out of its list and deleted.
Drop == held' = held /\
  LET k == kids IN \E n \in Known : \E at \in DOMAIN k[n] :
    kids' = Without([k EXCEPT ![n] = RemoveAt(@, at)], Under(k, k[n][at]))

Delete == \E i \in held :
  /\ held' = held \ {i}
  /\ LET k == kids IN kids' = Without(k, Under(k, i))

Next == Make \/ Add \/ AddNew \/ Insert \/ Detach \/ Replace \/ Drop \/ Delete
Spec == Init /\ [][Next]_vars
===========================================================================
