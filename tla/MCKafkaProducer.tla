--------------------------- MODULE MCKafkaProducer ---------------------------
(* KafkaProducer with a few messages.  A uint32 has 2^13 values and an int     *)
(* 2^15.  Either every variable of the environment holds the same text, of a   *)
(* number around their limits, or one holds a number and the rest are unset.   *)
EXTENDS KafkaProducer

CONSTANTS m1, m2, m3

ConfNumber == {-1, 0, 8191, 8192, 8193, 16383, 16384, 32768}

ConfEnvironment ==
  {[s \in Setting |-> t] : t \in Text} \cup
  {[s \in Setting |-> IF s = one THEN Default(8191) ELSE Unset] : one \in Setting}
=============================================================================
