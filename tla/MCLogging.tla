----------------------------- MODULE MCLogging -----------------------------
(* Logging with two goroutines and a buffer for each.                        *)
EXTENDS Logging
CONSTANTS g1, g2, b1, b2, nobody

\* Two values or an unpaired one in the shared array, Fatal with and without
\* values, and Log at level fatal.
FiveCalls ==
  {[n |-> 2, shared |-> TRUE, level |-> "INFO", exits |-> FALSE],
   [n |-> 1, shared |-> TRUE, level |-> "INFO", exits |-> FALSE],
   [n |-> 0, shared |-> FALSE, level |-> "FATAL", exits |-> TRUE],
   [n |-> 2, shared |-> FALSE, level |-> "FATAL", exits |-> TRUE],
   [n |-> 2, shared |-> FALSE, level |-> "FATAL", exits |-> FALSE]}
=============================================================================
