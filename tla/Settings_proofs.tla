--------------------------- MODULE Settings_proofs ---------------------------
(****************************************************************************)
(* Proofs about what reads the settings of a service: first about           *)
(* KafkaProducer and the numbers it takes from the environment, for any     *)
(* messages, widths of numbers and environments; then about ConfigLoad, for *)
(* any shape of the caller's struct and any number of loads.                *)
(****************************************************************************)
EXTENDS KafkaProducer, ConfigLoad, TLAPS

-----------------------------------------------------------------------------
(* The producer.                                                            *)

LEMMA TypeInit == Init => TypeOK
BY DEF Init, TypeOK, MessageState

\* A message that moves keeps the types, if nothing else does.
LEMMA MoveTypes ==
  ASSUME TypeOK, NEW m \in Message, NEW from, NEW to \in MessageState, Move(m, from, to),
         UNCHANGED <<env, client, printer, drainer, cleanup>>
  PROVE  TypeOK'
<1>1. st' \in [Message -> MessageState]
  BY DEF TypeOK, Move
<1> QED
  BY <1>1 DEF TypeOK

LEMMA TypeNext == TypeOK /\ [Next]_vars => TypeOK'
<1> SUFFICES ASSUME TypeOK, [Next]_vars PROVE TypeOK'
  OBVIOUS
<1>1. ASSUME NEW m \in Message,
             \/ Send(m) \/ TakeIn(m) \/ Outcome(m) \/ Hold(m) \/ CloseTakes(m)
             \/ PrintFailure(m) \/ Drop(m)
      PROVE  TypeOK'
  <2>1. PICK to \in MessageState : \E from : Move(m, from, to)
    BY <1>1 DEF Send, TakeIn, Outcome, Hold, CloseTakes, PrintFailure, Drop, MessageState
  <2>2. UNCHANGED <<env, client, printer, drainer, cleanup>>
    BY <1>1 DEF Send, TakeIn, Outcome, Hold, CloseTakes, PrintFailure, Drop
  <2> QED
    BY <2>1, <2>2, MoveTypes
<1>2. CASE PrinterReturns
  BY <1>2 DEF TypeOK, PrinterReturns
<1>3. CASE DrainerReturns
  BY <1>3 DEF TypeOK, DrainerReturns
<1>4. CASE NewProducer
  BY <1>4 DEF TypeOK, NewProducer
<1>5. CASE NewConsumerGroup
  BY <1>5 DEF TypeOK, NewConsumerGroup
<1>6. CASE NewFails
  BY <1>6 DEF TypeOK, NewFails
<1>7. CASE CloseGroup
  BY <1>7 DEF TypeOK, CloseGroup
<1>8. CASE Cancel
  BY <1>8 DEF TypeOK, Cancel
<1>9. CASE Close
  BY <1>9 DEF TypeOK, Close
<1>10. CASE CloseReturns
  BY <1>10 DEF TypeOK, CloseReturns
<1>11. CASE UNCHANGED vars
  BY <1>11 DEF TypeOK, vars
<1> QED
  BY <1>1, <1>2, <1>3, <1>4, <1>5, <1>6, <1>7, <1>8, <1>9, <1>10, <1>11
     DEF Next, Goroutines

\* The variables keep their types, and a producer that is not being cleaned up
\* has both its goroutines.
THEOREM TypeCorrect == Spec => []TypeOK
BY TypeInit, TypeNext, PTL DEF Spec

-----------------------------------------------------------------------------
(* The two readers of the environment.                                      *)

\* What is a number is read as the nearest int, white space or not.
LEMMA NumberRead ==
  ASSUME NEW t \in Text, t.form = "number", NEW default
  PROVE  /\ t.n \in Int
         /\ Atoi(emptyOr(t, default)) = Clamp(-MaxInt - 1, t.n, MaxInt)
<1>1. t \in [form : {"number"}, padded : BOOLEAN, signed : BOOLEAN, n : Number]
  BY DEF Text
<1>2. t.n \in Int
  <2>1. t.n \in Number
    BY <1>1
  <2>2. Number \subseteq Int
    BY WordAssumption
  <2> QED
    BY <2>1, <2>2
<1>3. emptyOr(t, default) = [t EXCEPT !.padded = FALSE]
  BY DEF emptyOr
<1>4. /\ [t EXCEPT !.padded = FALSE].form = "number"
      /\ [t EXCEPT !.padded = FALSE].n = t.n
  BY <1>1
<1> QED
  BY <1>2, <1>3, <1>4 DEF Atoi

LEMMA ReadersAgree ==
  ASSUME NEW s \in Setting, NEW t \in Text, NEW default,
         LoadEnvAccepts(s, t), t.n <= MaxInt
  PROVE  /\ s \in LogNumber => LoadEnvReads(s, t) = Atoi(emptyOr(t, default))
         /\ s \notin LogNumber => LoadEnvReads(s, t) = ReadNumber(t, default)
<1>1. t.form = "number"
  BY DEF LoadEnvAccepts
<1>2. t.n \in Int /\ Atoi(emptyOr(t, default)) = Clamp(-MaxInt - 1, t.n, MaxInt)
  BY <1>1, NumberRead
<1>3. t.n >= -MaxInt - 1
  <2>1. CASE s \in LogNumber
    BY <2>1, WordAssumption DEF LoadEnvAccepts
  <2>2. CASE s \notin LogNumber
    <3>1. ~t.signed
      BY <2>2 DEF LoadEnvAccepts
    <3>2. ~(t.n < 0)
      BY <1>1, <3>1 DEF Text
    <3> QED
      BY <1>2, <3>2, WordAssumption
  <2> QED
    BY <2>1, <2>2
<1>4. Clamp(-MaxInt - 1, t.n, MaxInt) = t.n
  BY <1>2, <1>3, WordAssumption DEF Clamp
<1> QED
  BY <1>2, <1>4 DEF LoadEnvReads, ReadNumber

\* For any widths and any environment: the clients hand their libraries the
\* numbers LoadConfig reads, whenever it takes the text.
THEOREM OneNumberPerVariable == Spec => []SettingsAgree
<1>1. TypeOK => SettingsAgree
  <2> SUFFICES ASSUME TypeOK, NEW s \in Setting \ {"RedisDialTimeout"},
                      LoadEnvAccepts(s, env[s]), env[s].n <= MaxInt
               PROVE  LoadEnvReads(s, env[s]) =
                        CASE s \in KafkaNumber -> KafkaNumbers(env)[s]
                          [] s \in MysqlNumber -> MysqlNumbers(env)[s]
                          [] s \in RedisNumber -> RedisNumbers(env)[s]
                          [] s \in LogNumber -> LogNumbers(env)[s]
    BY DEF SettingsAgree
  <2>1. env[s] \in Text
    BY EnvironmentAssumption DEF TypeOK
  <2>2. /\ KafkaNumber \cap LogNumber = {} /\ MysqlNumber \cap LogNumber = {}
        /\ RedisNumber \cap LogNumber = {} /\ KafkaNumber \cap MysqlNumber = {}
        /\ KafkaNumber \cap RedisNumber = {} /\ MysqlNumber \cap RedisNumber = {}
    BY DEF KafkaNumber, MysqlNumber, RedisNumber, LogNumber
  <2>3. CASE s \in KafkaNumber
    BY <2>1, <2>2, <2>3, ReadersAgree DEF KafkaNumbers
  <2>4. CASE s \in MysqlNumber
    BY <2>1, <2>2, <2>4, ReadersAgree DEF MysqlNumbers
  <2>5. CASE s \in RedisNumber
    <3>1. RedisNumbers(env)[s] = defaultRedisConfig(env)[s]
      BY <2>5 DEF RedisNumbers, defaultRedisConfig
    <3> QED
      BY <2>1, <2>2, <2>5, <3>1, ReadersAgree DEF defaultRedisConfig
  <2>6. CASE s \in LogNumber
    BY <2>1, <2>2, <2>6, ReadersAgree DEF LogNumbers
  <2> QED
    BY <2>3, <2>4, <2>5, <2>6 DEF Setting
<1> QED
  BY <1>1, TypeCorrect, PTL

-----------------------------------------------------------------------------
(* The configuration loader: the inductive invariant.                      *)

\* A source that gave a value was read before every source still to be read, and
\* the passes come in the order of the sources' ranks.
InOrder ==
  /\ \A i, j \in 1 .. Len(passes) : i < j => Rank[passes[i]] < Rank[passes[j]]
  /\ \A f \in Leaf : \A s \in given[f] : \A i \in 1 .. Len(passes) : Rank[s] < Rank[passes[i]]

\* As long as the environment is to be read, what YAML gave has storage.
Stored ==
  (\E i \in 1 .. Len(passes) : passes[i] = "env") =>
    \A f \in Leaf : given[f] # {} => dst[f] # "Absent"

\* What a call that reports success promises of its leaves holds all along.
HighestWins ==
  result \in {"loading", "ok"} =>
    \A f \in Leaf :
      given[f] # {} /\ dst[f] # "Absent" =>
        \/ dst[f] = Highest(given[f])
        \/ /\ dst[f] = "Mangled" /\ Kind[f] = "Slice"
           /\ Highest(given[f]) \in FlagLib

LoadInv == LoadTypeOK /\ InOrder /\ Stored /\ HighestWins /\ Untouched

-----------------------------------------------------------------------------
(* The order of the passes.                                                *)

\* Passes over sources of rank at most n, each of a higher rank than the last.
Ranked(p, n) ==
  /\ p \in Seq(Source) /\ Len(p) <= n
  /\ \A i \in 1 .. Len(p) : Rank[p[i]] <= n
  /\ \A i, j \in 1 .. Len(p) : i < j => Rank[p[i]] < Rank[p[j]]

LEMMA RankTypes ==
  /\ \A s \in Source : Rank[s] \in 1 .. 4
  /\ \A s, t \in Source : Rank[s] = Rank[t] => s = t
BY DEF Source, Rank

LEMMA PassAdded ==
  ASSUME NEW p, NEW n \in 0 .. 3, NEW s \in Source, NEW opts,
         Ranked(p, n), Rank[s] = n + 1
  PROVE  Ranked(p \o PassIf(s, opts), n + 1)
<1>1. \A i \in 1 .. Len(p) : p[i] \in Source /\ Rank[p[i]] \in 1 .. 4
  BY RankTypes DEF Ranked
<1>2. CASE s \in opts
  <2>1. p \o PassIf(s, opts) = Append(p, s)
    BY <1>2 DEF PassIf, Ranked
  <2>2. /\ Append(p, s) \in Seq(Source) /\ Len(Append(p, s)) = Len(p) + 1
        /\ \A i \in 1 .. Len(p) : Append(p, s)[i] = p[i]
        /\ Append(p, s)[Len(p) + 1] = s
        /\ Len(p) \in Nat /\ Len(p) <= n
    BY DEF Ranked
  <2>3. ASSUME NEW i \in 1 .. Len(p) + 1
        PROVE  Rank[Append(p, s)[i]] <= n + 1
    <3>1. CASE i = Len(p) + 1
      BY <2>2, <3>1
    <3>2. CASE i \in 1 .. Len(p)
      BY <1>1, <2>2, <3>2 DEF Ranked
    <3> QED
      BY <2>2, <3>1, <3>2
  <2>4. ASSUME NEW i \in 1 .. Len(p) + 1, NEW j \in 1 .. Len(p) + 1, i < j
        PROVE  Rank[Append(p, s)[i]] < Rank[Append(p, s)[j]]
    <3>1. i \in 1 .. Len(p)
      BY <2>2, <2>4
    <3>2. CASE j = Len(p) + 1
      BY <1>1, <2>2, <3>1, <3>2 DEF Ranked
    <3>3. CASE j \in 1 .. Len(p)
      BY <2>2, <2>4, <3>1, <3>3 DEF Ranked
    <3> QED
      BY <2>2, <3>2, <3>3
  <2>5. Len(p) + 1 <= n + 1
    BY <2>2
  <2> QED
    BY <2>1, <2>2, <2>3, <2>4, <2>5 DEF Ranked
<1>3. CASE s \notin opts
  <2>1. p \o PassIf(s, opts) = p
    BY <1>3 DEF PassIf, Ranked
  <2>2. Len(p) \in Nat /\ Len(p) <= n
    BY DEF Ranked
  <2>3. \A i \in 1 .. Len(p) : Rank[p[i]] <= n + 1
    BY <1>1 DEF Ranked
  <2> QED
    BY <2>1, <2>2, <2>3 DEF Ranked
<1> QED
  BY <1>2, <1>3

LEMMA PassesRanked ==
  ASSUME NEW opts
  PROVE  Ranked(PassesOf(opts), 4)
<1> DEFINE y == PassIf("yaml", opts)
           e == PassIf("env", opts)
           f == PassIf("flag", opts)
<1>0. /\ Rank["yaml"] = 0 + 1 /\ Rank["env"] = 1 + 1
      /\ Rank["flag"] = 2 + 1 /\ Rank["pflag"] = 3 + 1
      /\ {"yaml", "env", "flag", "pflag"} \subseteq Source
  BY DEF Rank, Source
<1>1. Ranked(<< >>, 0) /\ << >> \o y = y
  BY DEF Ranked, PassIf
<1>2. Ranked(y, 1)
  <2>1. ASSUME NEW p, p = << >> PROVE Ranked(p \o y, 0 + 1)
    <3>1. Ranked(p, 0) /\ 0 \in 0 .. 3 /\ "yaml" \in Source
      BY <1>0, <1>1, <2>1
    <3> HIDE DEF y
    <3>2. Ranked(p \o PassIf("yaml", opts), 0 + 1)
      BY <1>0, <3>1, PassAdded
    <3> QED
      BY <3>2 DEF y
  <2>2. Ranked(<< >> \o y, 0 + 1)
    BY <2>1
  <2>3. 0 + 1 = 1
    OBVIOUS
  <2> HIDE DEF y
  <2> QED
    BY <1>1, <2>2, <2>3
<1>3. Ranked(y \o e, 2)
  BY <1>0, <1>2, PassAdded
<1>4. Ranked(y \o e \o f, 3)
  BY <1>0, <1>3, PassAdded
<1>5. Ranked(y \o e \o f \o PassIf("pflag", opts), 4)
  BY <1>0, <1>4, PassAdded
<1> QED
  BY <1>5 DEF PassesOf

-----------------------------------------------------------------------------
(* What one pass does to the bookkeeping, and what it has to do to the     *)
(* leaves.                                                                 *)

LEMMA HighestIs ==
  ASSUME NEW S \in SUBSET Source, NEW s \in S, \A t \in S : Rank[t] <= Rank[s]
  PROVE  Highest(S) = s
<1> DEFINE h == Highest(S)
<1>1. h \in S /\ \A t \in S : Rank[t] <= Rank[h]
  BY DEF Highest
<1>2. Rank[h] = Rank[s]
  BY <1>1, RankTypes
<1> QED
  BY <1>1, <1>2, RankTypes

LEMMA PassTaken ==
  ASSUME LoadTypeOK, InOrder, NEW s \in Source, Reading(s),
         NEW from \in SUBSET Leaf, NEW failed \in BOOLEAN, PassEnds(s, from, failed)
  PROVE  /\ passes' \in Seq(Source) /\ Len(passes') <= 4
         /\ given' \in [Leaf -> SUBSET Source]
         /\ \A f \in Leaf : \A t \in given[f] : Rank[t] < Rank[s]
         /\ InOrder'
         /\ (\E i \in 1 .. Len(passes') : passes'[i] = "env") =>
              s = "yaml" /\ ~failed /\ \A f \in Leaf : given[f] = {}
<1>1. /\ passes \in Seq(Source) /\ Len(passes) <= 4 /\ Len(passes) \in Nat \ {0}
      /\ passes[1] = s /\ given \in [Leaf -> SUBSET Source]
  BY DEF LoadTypeOK, Reading
<1>2. given' = [f \in Leaf |-> given[f] \cup (IF f \in from THEN {s} ELSE {})]
  BY DEF PassEnds
<1>3. given' \in [Leaf -> SUBSET Source]
  BY <1>1, <1>2
<1>4. \A f \in Leaf : \A t \in given[f] : Rank[t] < Rank[s]
  BY <1>1 DEF InOrder
<1>5. CASE failed
  <2>1. passes' = << >>
    BY <1>5 DEF PassEnds
  <2>2. passes' \in Seq(Source) /\ Len(passes') = 0
    BY <2>1
  <2>3. InOrder'
    BY <2>2 DEF InOrder
  <2> QED
    BY <1>3, <1>4, <2>2, <2>3
<1>6. CASE ~failed
  <2>1. passes' = Tail(passes)
    BY <1>6 DEF PassEnds
  <2>2. /\ passes' \in Seq(Source) /\ Len(passes') = Len(passes) - 1
        /\ \A i \in 1 .. Len(passes') : passes'[i] = passes[i + 1] /\ i + 1 \in 1 .. Len(passes)
    BY <1>1, <2>1
  <2>3. \A i \in 1 .. Len(passes') : Rank[s] < Rank[passes'[i]]
    <3> SUFFICES ASSUME NEW i \in 1 .. Len(passes') PROVE Rank[s] < Rank[passes'[i]]
      OBVIOUS
    <3>1. i + 1 \in 1 .. Len(passes) /\ 1 \in 1 .. Len(passes) /\ 1 < i + 1
      BY <1>1, <2>2
    <3>2. Rank[passes[1]] < Rank[passes[i + 1]]
      BY <3>1 DEF InOrder
    <3> QED
      BY <1>1, <2>2, <3>2
  <2>4. InOrder'
    <3>1. ASSUME NEW i \in 1 .. Len(passes'), NEW j \in 1 .. Len(passes'), i < j
          PROVE  Rank[passes'[i]] < Rank[passes'[j]]
      <4>1. i + 1 < j + 1 /\ i + 1 \in 1 .. Len(passes) /\ j + 1 \in 1 .. Len(passes)
        BY <1>1, <2>2, <3>1
      <4>2. Rank[passes[i + 1]] < Rank[passes[j + 1]]
        BY <4>1 DEF InOrder
      <4> QED
        BY <2>2, <4>2
    <3>2. ASSUME NEW f \in Leaf, NEW t \in given'[f], NEW i \in 1 .. Len(passes')
          PROVE  Rank[t] < Rank[passes'[i]]
      <4>1. CASE t = s
        BY <2>3, <4>1
      <4>2. CASE t \in given[f]
        <5>1. i + 1 \in 1 .. Len(passes) /\ passes'[i] = passes[i + 1]
          BY <2>2
        <5> QED
          BY <4>2, <5>1 DEF InOrder
      <4> QED
        BY <1>2, <4>1, <4>2
    <3> QED
      BY <3>1, <3>2 DEF InOrder
  <2>5. ASSUME \E i \in 1 .. Len(passes') : passes'[i] = "env"
        PROVE  s = "yaml" /\ \A f \in Leaf : given[f] = {}
    <3>1. Rank[s] < Rank["env"]
      BY <2>3, <2>5
    <3>2. s = "yaml"
      BY <3>1 DEF Source, Rank
    <3>3. \A t \in Source : ~(Rank[t] < Rank["yaml"])
      BY DEF Source, Rank
    <3> QED
      BY <1>1, <1>4, <3>2, <3>3
  <2> QED
    BY <1>1, <1>3, <1>4, <1>6, <2>2, <2>4, <2>5
<1> QED
  BY <1>5, <1>6

\* A pass keeps the invariant if it gives the leaves it has a value for that value,
\* and leaves the others as they are but for storage behind the holder.
LEMMA PassInv ==
  ASSUME LoadInv, NEW s \in Source, Reading(s),
         NEW from \in SUBSET Leaf, NEW failed \in BOOLEAN, PassEnds(s, from, failed),
         dst' \in [Leaf -> Value],
         registered' \in [FlagLib -> SUBSET (Tagged \ Held)],
         \A f, g \in Held : dst'[f] = "Absent" => dst'[g] = "Absent",
         \A f \in from :
           \/ failed \/ dst'[f] \in {s, "Absent"}
           \/ dst'[f] = "Mangled" /\ Kind[f] = "Slice" /\ s \in FlagLib,
         s = "yaml" /\ ~failed => \A f \in from : dst'[f] # "Absent",
         \A f \in Leaf \ from :
           \/ dst'[f] = dst[f]
           \/ /\ given[f] = {} /\ dst[f] = "Absent" /\ dst'[f] = "Default"
              /\ f \in Held /\ \E g \in from : g \in Held
  PROVE  LoadInv'
<1>1. /\ shape' = shape /\ before' = before /\ calls' = calls
      /\ result = "loading" /\ result' = (IF failed THEN "error" ELSE "loading")
      /\ given' = [f \in Leaf |-> given[f] \cup (IF f \in from THEN {s} ELSE {})]
  BY DEF PassEnds, Reading
<1>2. /\ LoadTypeOK /\ InOrder /\ Stored /\ HighestWins /\ Untouched
      /\ given \in [Leaf -> SUBSET Source]
  BY DEF LoadInv, LoadTypeOK
<1>3. /\ passes' \in Seq(Source) /\ Len(passes') <= 4
      /\ given' \in [Leaf -> SUBSET Source]
      /\ \A f \in Leaf : \A t \in given[f] : Rank[t] < Rank[s]
      /\ InOrder'
      /\ (\E i \in 1 .. Len(passes') : passes'[i] = "env") =>
           s = "yaml" /\ ~failed /\ \A f \in Leaf : given[f] = {}
  <2>1. LoadTypeOK /\ InOrder /\ Reading(s) /\ PassEnds(s, from, failed)
    BY <1>2
  <2> QED
    BY ONLY <2>1, PassTaken, s \in Source, from \in SUBSET Leaf, failed \in BOOLEAN
<1>4. Kind' = Kind /\ Held' = Held /\ Tagged' = Tagged
  BY <1>1 DEF Kind, Held, Tagged
<1>5. LoadTypeOK'
  BY <1>1, <1>2, <1>3, <1>4 DEF LoadTypeOK, Result
<1>6. Stored'
  BY <1>1, <1>3 DEF Stored
<1>7. HighestWins'
  <2> SUFFICES ASSUME ~failed, NEW f \in Leaf, given'[f] # {}, dst'[f] # "Absent"
               PROVE  \/ dst'[f] = Highest(given'[f])
                      \/ /\ dst'[f] = "Mangled" /\ Kind[f] = "Slice"
                         /\ Highest(given'[f]) \in FlagLib
    BY <1>1, <1>4 DEF HighestWins
  <2>1. CASE f \in from
    <3>1. s \in given'[f] /\ given'[f] \in SUBSET Source
      BY <1>1, <1>3, <2>1
    <3>2. \A t \in given'[f] : Rank[t] <= Rank[s]
      BY <1>1, <1>2, <1>3, RankTypes
    <3>3. Highest(given'[f]) = s
      BY <3>1, <3>2, HighestIs
    <3> QED
      BY <2>1, <3>3
  <2>2. CASE f \notin from
    <3>1. given'[f] = given[f] /\ dst'[f] = dst[f]
      BY <1>1, <2>2
    <3> QED
      BY <1>1, <1>2, <3>1 DEF HighestWins
  <2> QED
    BY <2>1, <2>2
<1>8. Untouched'
  <2> SUFFICES ASSUME NEW f \in Leaf, given'[f] = {}
               PROVE  \/ dst'[f] = before[f]
                      \/ /\ before[f] = "Absent" /\ dst'[f] = "Default"
                         /\ \E g \in Held : f \in Held /\ given'[g] # {} /\ g # f
    BY <1>1, <1>4 DEF Untouched
  <2>1. f \notin from /\ given[f] = {}
    BY <1>1
  <2>2. \/ dst[f] = before[f]
        \/ /\ before[f] = "Absent" /\ dst[f] = "Default"
           /\ \E g \in Held : f \in Held /\ given[g] # {} /\ g # f
    BY <1>1, <1>2, <2>1 DEF Untouched
  <2>3. Held \subseteq Leaf
    BY <1>2, ShapeAssumption DEF LoadTypeOK, Held
  <2>4. \A g \in Leaf : given[g] # {} \/ g \in from => given'[g] # {}
    BY <1>1
  <2>5. CASE dst'[f] = dst[f]
    BY <2>2, <2>3, <2>4, <2>5
  <2>6. CASE /\ dst[f] = "Absent" /\ dst'[f] = "Default"
             /\ f \in Held /\ \E g \in from : g \in Held
    BY <2>1, <2>2, <2>3, <2>4, <2>6
  <2> QED
    BY <2>1, <2>5, <2>6
<1> QED
  BY <1>3, <1>5, <1>6, <1>7, <1>8 DEF LoadInv

-----------------------------------------------------------------------------
(* The steps of a call.                                                    *)

LEMMA LoadInvInit == LoadInit => LoadInv
<1> SUFFICES ASSUME LoadInit PROVE LoadInv
  OBVIOUS
<1>1. LoadTypeOK
  <2>1. PICK nil \in SUBSET MayBeNil :
          /\ Held \subseteq nil \/ Held \cap nil = {}
          /\ dst = [f \in Leaf |-> IF f \in nil THEN "Absent" ELSE "Default"]
    BY DEF LoadInit
  <2>2. /\ dst \in [Leaf -> Value]
        /\ \A f, g \in Held : dst[f] = "Absent" => dst[g] = "Absent"
    <3>1. shape \in Shape
      BY DEF LoadInit
    <3>2. Held \subseteq Leaf
      BY <3>1, ShapeAssumption DEF Held
    <3> QED
      BY <2>1, <3>2 DEF Value
  <2>3. /\ << >> \in Seq(Source) /\ Len(<< >>) <= 4 /\ 0 \in 0 .. MaxCalls
    BY CallsAssumption
  <2> QED
    BY <2>2, <2>3 DEF LoadInit, LoadTypeOK, Result
<1>2. InOrder /\ Stored /\ HighestWins /\ Untouched
  BY DEF LoadInit, InOrder, Stored, HighestWins, Untouched
<1> QED
  BY <1>1, <1>2 DEF LoadInv

LEMMA CallInv == LoadInv /\ LoadConfig => LoadInv'
<1> SUFFICES ASSUME LoadInv, LoadConfig PROVE LoadInv'
  OBVIOUS
<1>1. PICK opts \in Options : passes' = PassesOf(opts)
  BY DEF LoadConfig
<1>2. Ranked(passes', 4)
  BY <1>1, PassesRanked
<1>3. /\ before' = dst /\ given' = [f \in Leaf |-> {}] /\ result' = "loading"
      /\ calls' = calls + 1 /\ calls < MaxCalls
      /\ UNCHANGED <<shape, dst, registered>>
  BY DEF LoadConfig
<1>4. Kind' = Kind /\ Held' = Held /\ Tagged' = Tagged
  BY <1>3 DEF Kind, Held, Tagged
<1>5. LoadTypeOK'
  <2>1. calls + 1 \in 0 .. MaxCalls
    BY <1>3, CallsAssumption DEF LoadInv, LoadTypeOK
  <2> QED
    BY <1>2, <1>3, <1>4, <2>1 DEF LoadInv, LoadTypeOK, Ranked, Result
<1>6. InOrder'
  BY <1>2, <1>3 DEF InOrder, Ranked
<1>7. Stored' /\ HighestWins' /\ Untouched'
  BY <1>3 DEF Stored, HighestWins, Untouched
<1> QED
  BY <1>5, <1>6, <1>7 DEF LoadInv

LEMMA ReturnInv == LoadInv /\ Return => LoadInv'
<1> SUFFICES ASSUME LoadInv, Return PROVE LoadInv'
  OBVIOUS
<1>1. /\ result = "loading" /\ result' = "ok"
      /\ UNCHANGED <<shape, dst, before, passes, given, registered, calls>>
  BY DEF Return
<1>2. Kind' = Kind /\ Held' = Held /\ Tagged' = Tagged
  BY <1>1 DEF Kind, Held, Tagged
<1>3. LoadTypeOK'
  BY <1>1, <1>2 DEF LoadInv, LoadTypeOK, Result
<1>4. InOrder' /\ Stored'
  BY <1>1 DEF LoadInv, InOrder, Stored
<1>5. HighestWins' /\ Untouched'
  BY <1>1, <1>2 DEF LoadInv, HighestWins, Untouched
<1> QED
  BY <1>3, <1>4, <1>5 DEF LoadInv

\* YAML comes first: nothing has been given when it is read.
LEMMA YamlFirst ==
  ASSUME LoadInv, Reading("yaml")
  PROVE  \A f \in Leaf : given[f] = {}
<1>1. given \in [Leaf -> SUBSET Source] /\ 1 \in 1 .. Len(passes) /\ passes[1] = "yaml"
  BY DEF LoadInv, LoadTypeOK, Reading
<1>2. \A f \in Leaf : \A t \in given[f] : Rank[t] < Rank["yaml"]
  BY <1>1 DEF LoadInv, InOrder
<1>3. \A t \in Source : ~(Rank[t] < Rank["yaml"])
  BY DEF Source, Rank
<1> QED
  BY <1>1, <1>2, <1>3

LEMMA YamlInv == LoadInv /\ (LoadYamlFails \/ LoadYaml) => LoadInv'
<1> SUFFICES ASSUME LoadInv, LoadYamlFails \/ LoadYaml PROVE LoadInv'
  OBVIOUS
<1>1. /\ Reading("yaml") /\ "yaml" \in Source /\ registered' = registered
      /\ LoadTypeOK
  BY DEF LoadYamlFails, LoadYaml, Source, LoadInv
<1>2. Held \subseteq Leaf
  BY <1>1, ShapeAssumption DEF LoadTypeOK, Held
<1>3. CASE LoadYamlFails
  <2>1. PassEnds("yaml", {}, TRUE) /\ dst' = dst
    BY <1>3 DEF LoadYamlFails
  <2> QED
    BY <1>1, <2>1, PassInv DEF LoadTypeOK
<1>4. CASE LoadYaml
  <2>0. PICK from \in SUBSET Leaf : \E wrong \in SUBSET from :
          dst' \in Unmarshal(from, wrong) /\ PassEnds("yaml", from, wrong # {})
    BY <1>4 DEF LoadYaml
  <2>1. PICK wrong \in SUBSET from :
          dst' \in Unmarshal(from, wrong) /\ PassEnds("yaml", from, wrong # {})
    BY <2>0
  <2>2. dst' \in [Leaf -> Value]
    BY <2>1 DEF Unmarshal
  <2>3. wrong = {} => \A f \in from : dst'[f] = "yaml"
    BY <2>1 DEF Unmarshal
  <2>4. ASSUME NEW f \in Leaf, f \notin from
        PROVE  dst'[f] = IF /\ dst[f] = "Absent"
                            /\ f \in Held /\ from \cap Held # {}
                         THEN "Default" ELSE dst[f]
    BY <2>1, <2>4 DEF Unmarshal
  <2>5. ASSUME NEW f \in Held, NEW g \in Held, dst'[f] = "Absent"
        PROVE  dst'[g] = "Absent"
    <3>1. dst[f] = "Absent" /\ from \cap Held = {}
      BY <1>2, <2>1, <2>5 DEF Unmarshal
    <3>2. dst[g] = "Absent"
      BY <1>1, <3>1 DEF LoadTypeOK
    <3> QED
      BY <1>2, <2>4, <3>1, <3>2
  <2>6. \A f \in Leaf \ from :
          \/ dst'[f] = dst[f]
          \/ /\ given[f] = {} /\ dst[f] = "Absent" /\ dst'[f] = "Default"
             /\ f \in Held /\ \E g \in from : g \in Held
    BY <1>1, <2>4, YamlFirst
  <2> QED
    BY <1>1, <2>1, <2>2, <2>3, <2>5, <2>6, PassInv DEF LoadTypeOK
<1> QED
  BY <1>3, <1>4

\* Whether its walk ends or stops, the environment gives a leaf its value, or
\* storage with the others behind the holder, or nothing.
LEMMA EnvInv == LoadInv /\ LoadEnv => LoadInv'
<1> SUFFICES ASSUME LoadInv, LoadEnv PROVE LoadInv'
  OBVIOUS
<1>1. /\ Reading("env") /\ "env" \in Source /\ registered' = registered
      /\ LoadTypeOK /\ InOrder /\ Stored
  BY DEF LoadEnv, Source, LoadInv
<1>2. Held \subseteq Leaf
  BY <1>1, ShapeAssumption DEF LoadTypeOK, Held
<1>3. \A f \in Leaf : given[f] # {} => dst[f] # "Absent"
  <2>1. 1 \in 1 .. Len(passes) /\ passes[1] = "env"
    BY <1>1 DEF LoadTypeOK, Reading
  <2> QED
    BY <1>1, <2>1 DEF Stored
<1>4. \A f, g \in Held : dst[f] = "Absent" => dst[g] = "Absent"
  BY <1>1 DEF LoadTypeOK
<1>5. PICK from \in SUBSET Leaf : \E bad \in from \cup {NoLeaf} :
        dst' = parseEnv(from, bad) /\ PassEnds("env", from, bad # NoLeaf)
  BY DEF LoadEnv
<1>6. PICK bad \in from \cup {NoLeaf} :
        dst' = parseEnv(from, bad) /\ PassEnds("env", from, bad # NoLeaf)
  BY <1>5
<1>7. \A f \in Leaf : f \in EnvRead(from, bad) <=> f \in from \cap Reached(bad)
  BY DEF EnvRead, setField, setSliceField
<1>8. ASSUME NEW f \in Leaf, f \in Held /\ HolderIsNil
      PROVE  /\ dst[f] = "Absent"
             /\ dst'[f] = IF ~HolderStored(from, bad) THEN "Absent"
                          ELSE IF f \in from THEN "env" ELSE "Default"
  BY <1>4, <1>6, <1>8 DEF parseEnv, HolderIsNil
<1>9. ASSUME NEW f \in Leaf, ~(f \in Held /\ HolderIsNil)
      PROVE  dst'[f] = IF f \in EnvRead(from, bad) /\ dst[f] # "Absent" THEN "env" ELSE dst[f]
  BY <1>6, <1>9 DEF parseEnv
<1>10. dst' \in [Leaf -> Value]
  <2>1. \A f \in Leaf : dst'[f] \in Value
    BY <1>1, <1>8, <1>9 DEF LoadTypeOK, Value, Source
  <2>2. dst' = [f \in Leaf |-> dst'[f]]
    BY <1>6 DEF parseEnv
  <2> QED
    BY <2>1, <2>2
<1>11. ASSUME NEW f \in Held, NEW g \in Held, dst'[f] = "Absent"
       PROVE  dst'[g] = "Absent"
  <2>1. CASE HolderIsNil
    BY <1>2, <1>8, <1>11, <2>1
  <2>2. CASE ~HolderIsNil
    <3>1. dst[f] = "Absent"
      BY <1>2, <1>9, <1>11, <2>2
    <3> QED
      BY <2>2, <3>1 DEF HolderIsNil
  <2> QED
    BY <2>1, <2>2
<1>12. ASSUME NEW f \in from, bad = NoLeaf
       PROVE  dst'[f] \in {"env", "Absent"}
  <2>1. f \in EnvRead(from, bad)
    BY <1>7, <1>12 DEF Reached
  <2> QED
    BY <1>8, <1>9, <1>12, <2>1
<1>13. ASSUME NEW f \in Leaf \ from
       PROVE  \/ dst'[f] = dst[f]
              \/ /\ given[f] = {} /\ dst[f] = "Absent" /\ dst'[f] = "Default"
                 /\ f \in Held /\ \E g \in from : g \in Held
  <2>1. CASE f \in Held /\ HolderIsNil
    <3>1. HolderStored(from, bad) => \E g \in from : g \in Held
      BY DEF HolderStored, setField
    <3> QED
      BY <1>3, <1>8, <2>1, <3>1
  <2>2. CASE ~(f \in Held /\ HolderIsNil)
    BY <1>7, <1>9, <2>2
  <2> QED
    BY <2>1, <2>2
<1> QED
  BY <1>1, <1>6, <1>10, <1>11, <1>12, <1>13, PassInv DEF LoadTypeOK

\* A walk that stops sets nothing, and what the parser sets it sets to the flag's
\* value, or misreads, unless it fails.
LEMMA FlagInv ==
  ASSUME LoadInv, NEW lib \in FlagLib, RegisterAgain(lib) \/ RegisterFails(lib) \/ Parse(lib)
  PROVE  LoadInv'
<1>1. /\ Reading(lib) /\ lib \in Source /\ lib # "yaml" /\ LoadTypeOK
  BY DEF LoadInv, RegisterAgain, RegisterFails, Parse, FlagLib, Source
<1>2. Tagged \subseteq Leaf
  BY <1>1, ShapeAssumption DEF LoadTypeOK, Tagged
<1>3. \A bad : FlagNames(bad) \subseteq Tagged \ Held
  BY DEF FlagNames, Walked
<1>4. CASE RegisterAgain(lib)
  <2>1. /\ result' = "panic" /\ passes' = << >> /\ result = "loading"
        /\ UNCHANGED <<shape, dst, before, given, registered, calls>>
    BY <1>1, <1>4 DEF RegisterAgain, Reading
  <2>2. Kind' = Kind /\ Held' = Held /\ Tagged' = Tagged
    BY <2>1 DEF Kind, Held, Tagged
  <2>3. << >> \in Seq(Source) /\ Len(<< >>) = 0
    OBVIOUS
  <2>4. LoadTypeOK'
    BY <1>1, <2>1, <2>2, <2>3 DEF LoadTypeOK, Result
  <2>5. InOrder' /\ Stored' /\ HighestWins'
    BY <2>1, <2>3 DEF InOrder, Stored, HighestWins
  <2>6. Untouched'
    BY <2>1, <2>2 DEF LoadInv, Untouched
  <2> QED
    BY <2>4, <2>5, <2>6 DEF LoadInv
<1>5. CASE RegisterFails(lib)
  <2>1. PICK bad \in Leaf : registered' = [registered EXCEPT ![lib] = @ \cup FlagNames(bad)]
    BY <1>5 DEF RegisterFails
  <2>2. registered' \in [FlagLib -> SUBSET (Tagged \ Held)]
    BY <1>1, <1>3, <2>1 DEF LoadTypeOK
  <2>3. PassEnds(lib, {}, TRUE) /\ dst' = dst
    BY <1>5 DEF RegisterFails
  <2> QED
    BY <1>1, <2>2, <2>3, PassInv DEF LoadTypeOK
<1>6. CASE Parse(lib)
  <2>1. /\ FirstUnsupported(NoLeaf)
        /\ registered' = [registered EXCEPT ![lib] = @ \cup FlagNames(NoLeaf)]
    BY <1>6 DEF Parse
  <2>2. registered' \in [FlagLib -> SUBSET (Tagged \ Held)]
    BY <1>1, <1>3, <2>1 DEF LoadTypeOK
  <2>3. PICK from \in SUBSET FlagNames(NoLeaf), failed \in BOOLEAN :
          \E unread \in SUBSET from :
            /\ \A f \in unread : Kind[f] = "Scalar" => failed
            /\ dst' = [f \in Leaf |->
                         IF f \in from THEN Set(lib, f \notin unread) ELSE dst[f]]
            /\ PassEnds(lib, from, failed)
    BY <1>6 DEF Parse
  <2>4. PICK unread \in SUBSET from :
          /\ \A f \in unread : Kind[f] = "Scalar" => failed
          /\ dst' = [f \in Leaf |->
                       IF f \in from THEN Set(lib, f \notin unread) ELSE dst[f]]
          /\ PassEnds(lib, from, failed)
    BY <2>3
  <2>5. /\ from \in SUBSET Leaf /\ from \subseteq FlagNames(NoLeaf)
        /\ \A f \in Held : f \notin from
    BY <1>2, <1>3, <2>3
  <2>6. ASSUME NEW f \in from
        PROVE  /\ f \notin unread => dst'[f] = lib
               /\ f \in unread => dst'[f] = "Mangled"
    BY <2>4, <2>5 DEF Set
  <2>7. \A f \in Leaf \ from : dst'[f] = dst[f]
    BY <2>4
  <2>8. dst' \in [Leaf -> Value]
    <3>1. \A f \in Leaf : dst'[f] \in Value
      BY <1>1, <2>6, <2>7 DEF LoadTypeOK, Value
    <3>2. dst' = [f \in Leaf |-> dst'[f]]
      BY <2>4
    <3> QED
      BY <3>1, <3>2
  <2>9. \A f, g \in Held : dst'[f] = "Absent" => dst'[g] = "Absent"
    <3>1. Held \subseteq Leaf
      BY <1>1, ShapeAssumption DEF LoadTypeOK, Held
    <3> QED
      BY <1>1, <2>5, <2>7, <3>1 DEF LoadTypeOK
  <2>10. ASSUME NEW f \in from
         PROVE  \/ failed \/ dst'[f] \in {lib, "Absent"}
                \/ dst'[f] = "Mangled" /\ Kind[f] = "Slice" /\ lib \in FlagLib
    <3>1. Kind[f] \in {"Scalar", "Slice", "Pointer"}
      BY <1>1, <2>5, ShapeAssumption DEF LoadTypeOK, Kind
    <3>2. f \in Walked /\ Kind[f] # "Pointer"
      <4>1. f \in FlagNames(NoLeaf)
        BY <2>5
      <4>2. f \in Walked
        BY <4>1 DEF FlagNames
      <4>3. NoLeaf \notin Walked
        BY <1>2, LeafAssumption DEF Walked
      <4> QED
        BY <2>1, <4>2, <4>3 DEF FirstUnsupported, Unsupported
    <3> QED
      BY <2>4, <2>6, <3>1, <3>2
  <2>11. /\ LoadInv /\ lib \in Source /\ Reading(lib) /\ lib # "yaml"
         /\ from \in SUBSET Leaf /\ failed \in BOOLEAN /\ PassEnds(lib, from, failed)
    BY <1>1, <2>3, <2>4, <2>5
  <2>12. \A f \in from :
           \/ failed \/ dst'[f] \in {lib, "Absent"}
           \/ dst'[f] = "Mangled" /\ Kind[f] = "Slice" /\ lib \in FlagLib
    BY <2>10
  <2> QED
    BY ONLY <2>2, <2>7, <2>8, <2>9, <2>11, <2>12, PassInv
<1> QED
  BY <1>4, <1>5, <1>6

-----------------------------------------------------------------------------
LEMMA LoadInvNext == LoadInv /\ [LoadNext]_loadVars => LoadInv'
<1> SUFFICES ASSUME LoadInv, [LoadNext]_loadVars PROVE LoadInv'
  OBVIOUS
<1>1. CASE UNCHANGED loadVars
  BY <1>1 DEF loadVars, LoadInv, LoadTypeOK, InOrder, Stored, HighestWins, Untouched, Kind, Held,
              Tagged
<1>2. CASE LoadConfig
  BY <1>2, CallInv
<1>3. CASE Return
  BY <1>3, ReturnInv
<1>4. CASE LoadYamlFails \/ LoadYaml
  BY <1>4, YamlInv
<1>5. CASE LoadEnv
  BY <1>5, EnvInv
<1>6. CASE LoadFlag \/ LoadPFlag
  <2>1. "flag" \in FlagLib /\ "pflag" \in FlagLib
    BY DEF FlagLib
  <2> QED
    BY <1>6, <2>1, FlagInv DEF LoadFlag, LoadPFlag
<1> QED
  BY <1>1, <1>2, <1>3, <1>4, <1>5, <1>6 DEF LoadNext

\* Types, and storage behind the holder for all its leaves or none, through any
\* number of loads of any struct.
THEOREM LoadTypeCorrect == LoadSpec => []LoadTypeOK
<1>1. LoadInv => LoadTypeOK
  BY DEF LoadInv
<1> QED
  BY LoadInvInit, LoadInvNext, <1>1, PTL DEF LoadSpec

\* A load that reports success leaves in each leaf that has storage the value of
\* the highest source that had one, whatever the struct, the sources and the loads
\* before.
THEOREM HighestSourceWins == LoadSpec => []Priority
<1>1. LoadInv => Priority
  BY DEF LoadInv, HighestWins, Priority
<1> QED
  BY LoadInvInit, LoadInvNext, <1>1, PTL DEF LoadSpec

\* Whether a load succeeds, fails or panics, what no source gave stays.
THEOREM RestStays == LoadSpec => []Untouched
<1>1. LoadInv => Untouched
  BY DEF LoadInv
<1> QED
  BY LoadInvInit, LoadInvNext, <1>1, PTL DEF LoadSpec
=============================================================================
