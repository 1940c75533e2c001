----------------------------- MODULE MCRedisCas -----------------------------
(* RedisCas on small sets of clients, keys and strings.                     *)
EXTENDS RedisCas, TLC
CONSTANTS c1, c2, k1, k2, a, b, empty

\* Both clients work on the one key.
SharedKey == c1 :> {k1} @@ c2 :> {k1}
\* Each has a key to itself.
OwnKeys == c1 :> {k1} @@ c2 :> {k2}
=============================================================================
