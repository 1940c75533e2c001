----------------------------- MODULE MCHttpCall -----------------------------
(* HttpCall with one call, clocks up to a second apart, one code that is     *)
(* registered meanwhile, to answer with status 200 or with none that HTTP    *)
(* knows, and range queries on both sides of their limits.                   *)
EXTENDS HttpCall

CONSTANTS c1

ClockSkews == {-2, 0, 1}
OneCode == {"EQuotaCode"}

\* Ranges of up to six seconds for one or two values, one that runs backwards,
\* and the default of half an hour.
Ranges ==
  [start : {1}, end : {2, 4, 5, 7, 8, 12}, limit : {1, 2}]
    \cup {[start |-> 9, end |-> 1, limit |-> 1], [start |-> 0, end |-> 3600, limit |-> 0]}
=============================================================================
