--------------------------- MODULE MCKafkaProducer ---------------------------
(* The values of KafkaProducer's constants for TLC.                           *)
EXTENDS KafkaProducer

\* Empty; ordinary; the largest the guard admits, which no longer fits the
\* broker's limit once it is framed; and the smallest the guard rejects.
MCSizes == {0, 1000, SizeLimit - 1, SizeLimit}
MCSmallSizes == {0, 1000, 2000}
=============================================================================
