----------------------------- MODULE MCMemoryCas -----------------------------
(* MemoryCas on small sets of goroutines, keys and strings.                 *)
EXTENDS MemoryCas
CONSTANTS g1, g2, k1, k2, a, b, empty, nobody
=============================================================================
