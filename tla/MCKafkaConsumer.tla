--------------------------- MODULE MCKafkaConsumer ---------------------------
(* The processes are interchangeable; used for safety runs only.             *)
EXTENDS KafkaConsumer, TLC
Symmetry == Permutations(Procs)
=============================================================================
