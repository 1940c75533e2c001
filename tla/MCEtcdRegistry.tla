--------------------------- MODULE MCEtcdRegistry ---------------------------
(* EtcdRegistry with one instance pointer, and so one key.                  *)
EXTENDS EtcdRegistry, TLC

CONSTANTS s1, k1

OneKey == s1 :> k1
=============================================================================
