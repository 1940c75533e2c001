---------------------------- MODULE MetricsQuery ----------------------------
(***************************************************************************)
(* client/xvm: what MetricsClient asks of a VictoriaMetrics server, and    *)
(* what it makes of the answer.  Times are in ticks since the epoch.       *)
(***************************************************************************)
EXTENDS Integers

\* A timestamp has a resolution of one second.
TicksPerSecond == 2

Unix(time) == time \div TicksPerSecond

\* Go's integer division, which truncates towards zero.
Quotient(a, b) == IF a >= 0 THEN a \div b ELSE -((-a) \div b)

DefaultLimit == 1000

\* WithQueryRangeOptionLimit ignores a limit of zero.
Limit(limit) == IF limit = 0 THEN DefaultLimit ELSE limit

\* The step that QueryRange sends: whole seconds of the range divided by the
\* limit.
Step(range) == Quotient(range.end - range.start, Limit(range.limit) * TicksPerSecond)

\* The values per series that a server returns for a range and a step: one for
\* each multiple of the step, both ends included.
Points(range) ==
  IF Step(range) > 0 /\ Unix(range.end) >= Unix(range.start)
  THEN (Unix(range.end) - Unix(range.start)) \div Step(range) + 1
  ELSE 0

\* An answer that decodes into a MetricResult: a list of series, not the pair
\* that a scalar is.  A reply of another server may have a "data" that looks
\* like one.
Decodes(data) ==
  CASE data \in {"series", "partial", "error"} -> {TRUE}
    [] data = "scalar" -> {FALSE}
    [] OTHER -> BOOLEAN

\* Mistake: the status of the HTTP answer taken for that of the query.
OutcomeUnchecked(status, data, decodes) ==
  CASE status = 401 -> "auth"
    [] status # 200 \/ ~decodes -> "failed"
    [] OTHER -> IF data = "partial" THEN "partial" ELSE "metrics"

\* What Query and QueryRange return.
QueryOutcome(status, data, decodes) ==
  CASE status = 401 -> "auth"
    [] status # 200 \/ ~decodes -> "failed"
    [] data = "error" -> "errQuery"
    [] OTHER -> IF data = "partial" THEN "partial" ELSE "metrics"
=============================================================================
