---------------------------- MODULE MCJsonTree ----------------------------
(* Items are alike: their names may be exchanged. *)
EXTENDS JsonTree
AnyNames == Permutations(Nodes)
===========================================================================
