--------------------------- MODULE HttpCall_proofs ---------------------------
(***************************************************************************)
(* Proofs about HttpCall, for any number of calls, body sizes, clocks and  *)
(* codes: what a range query asks for, and one inductive invariant, IInv,  *)
(* from which the invariants about signatures, bodies, results and codes   *)
(* follow.                                                                 *)
(***************************************************************************)
EXTENDS HttpCall, TLAPS

AnyRange == [start : Int, end : Int, limit : Nat]

-----------------------------------------------------------------------------
(* Division.                                                               *)

LEMMA Division ==
  ASSUME NEW a \in Nat, NEW b \in Nat, b > 0
  PROVE  /\ a \div b \in Nat
         /\ b * (a \div b) <= a
         /\ a < b * (a \div b) + b
OBVIOUS

LEMMA DivisionBound ==
  ASSUME NEW a \in Nat, NEW b \in Nat, b > 0, NEW q \in Nat, a <= b * q
  PROVE  a \div b <= q
<1> DEFINE d == a \div b
<1>1. d \in Nat /\ b * d <= a
  BY Division
<1>2. SUFFICES ASSUME d >= q + 1 PROVE FALSE
  BY <1>1
<1>3. b * d >= b * (q + 1)
  BY <1>1, <1>2
<1>4. b * (q + 1) = b * q + b
  OBVIOUS
<1> QED
  BY <1>1, <1>3, <1>4

\* Two clocks cut to seconds differ by at most half a tick more.
LEMMA Seconds ==
  ASSUME NEW s \in Int, NEW e \in Int
  PROVE  /\ Unix(s) \in Int /\ Unix(e) \in Int
         /\ 2 * (Unix(e) - Unix(s)) <= e - s + 1
         /\ Unix(e) < Unix(s) => e < s
BY DEF Unix, TicksPerSecond

-----------------------------------------------------------------------------
(* The values a range query asks for.                                      *)

LEMMA LimitType == ASSUME NEW n \in Nat PROVE Limit(n) \in Nat /\ Limit(n) > 0
BY DEF Limit, DefaultLimit

LEMMA StepOfRange ==
  ASSUME NEW range \in AnyRange,
         NEW L, L = Limit(range.limit),
         NEW D, D = range.end - range.start
  PROVE  /\ L \in Nat /\ L > 0 /\ D \in Int /\ Step(range) \in Int
         /\ D < 0 => Step(range) <= 0
         /\ D >= 0 => Step(range) = D \div (L * 2)
<1>1. range.start \in Int /\ range.end \in Int /\ range.limit \in Nat
  BY DEF AnyRange
<1>2. L \in Nat /\ L > 0 /\ D \in Int
  BY <1>1, LimitType
<1>3. L * 2 \in Nat /\ L * 2 > 0
  BY <1>2
<1>4. Step(range) = Quotient(D, L * 2)
  BY DEF Step, TicksPerSecond
<1>5. CASE D >= 0
  BY <1>2, <1>3, <1>4, <1>5, Division DEF Quotient
<1>6. CASE D < 0
  <2>1. -D \in Nat
    BY <1>2, <1>6
  <2>2. (-D) \div (L * 2) \in Nat
    BY <2>1, <1>3, Division
  <2> QED
    BY <1>2, <1>4, <1>6, <2>2 DEF Quotient
<1> QED
  BY <1>2, <1>5, <1>6

LEMMA RangeBounded ==
  ASSUME NEW range \in AnyRange
  PROVE  /\ Points(range) <= 2 * Limit(range.limit) + 1
         /\ Points(range) = 0 =>
              range.end - range.start < Limit(range.limit) * TicksPerSecond
<1> DEFINE L == Limit(range.limit)
           D == range.end - range.start
           S == Step(range)
           U == Unix(range.end) - Unix(range.start)
<1>1. range.start \in Int /\ range.end \in Int
  BY DEF AnyRange
<1>2. /\ L \in Nat /\ L > 0 /\ D \in Int /\ S \in Int
      /\ D < 0 => S <= 0
      /\ D >= 0 => S = D \div (L * 2)
  BY StepOfRange
<1>3. /\ Unix(range.start) \in Int /\ Unix(range.end) \in Int
      /\ 2 * U <= D + 1
      /\ Unix(range.end) < Unix(range.start) => D < 0
  <2>1. ASSUME NEW s \in Int, NEW e \in Int
        PROVE  /\ Unix(s) \in Int /\ Unix(e) \in Int
               /\ 2 * (Unix(e) - Unix(s)) <= e - s + 1
               /\ Unix(e) < Unix(s) => e - s < 0
    BY Seconds
  <2> QED
    BY <1>1, <2>1
<1>4. U \in Int
  BY <1>3
<1>5. CASE S > 0 /\ U >= 0
  <2>1. D >= 0 /\ S = D \div (L * 2) /\ S \in Nat /\ U \in Nat
    BY <1>2, <1>4, <1>5
  <2>2. D < (L * 2) * S + L * 2
    BY <1>2, <2>1, Division
  <2>3. L * S \in Nat /\ (L * 2) * S = 2 * (L * S)
    BY <1>2, <2>1
  <2>4. U <= L * S + L
    BY <1>2, <1>3, <1>4, <2>2, <2>3
  <2>5. L <= L * S
    BY <1>2, <1>5, <2>1
  <2>6. U <= S * (2 * L)
    <3>1. S * (2 * L) = 2 * (L * S)
      BY <1>2, <2>1
    <3> QED
      BY <1>2, <1>4, <2>3, <2>4, <2>5, <3>1
  <2>7. U \div S \in Nat /\ U \div S <= 2 * L
    BY <1>2, <1>5, <2>1, <2>6, Division, DivisionBound
  <2>8. Points(range) = U \div S + 1
    BY <1>3, <1>5 DEF Points
  <2> HIDE DEF L, D, S, U
  <2>9. Points(range) <= 2 * L + 1 /\ Points(range) # 0
    BY <1>2, <2>7, <2>8
  <2> QED
    BY <2>9 DEF L
<1>6. CASE ~(S > 0 /\ U >= 0)
  <2>1. Points(range) = 0
    BY <1>3, <1>6 DEF Points
  <2>2. D < L * 2
    <3>1. CASE U < 0
      BY <1>2, <1>3, <3>1
    <3>2. CASE S <= 0 /\ D >= 0
      <4>1. D < (L * 2) * S + L * 2 /\ S \in Nat
        BY <1>2, <3>2, Division
      <4>2. S = 0
        BY <3>2, <4>1
      <4> QED
        BY <1>2, <4>1, <4>2
    <3>3. CASE D < 0
      BY <1>2, <3>3
    <3> QED
      BY <1>2, <1>4, <1>6, <3>1, <3>2, <3>3
  <2>3. 0 <= 2 * L + 1
    BY <1>2
  <2> QED
    BY <2>1, <2>2, <2>3 DEF TicksPerSecond
<1> QED
  BY <1>2, <1>4, <1>5, <1>6

-----------------------------------------------------------------------------
(* Every call asks for a range of the caller's, or for none.               *)

RangesInv ==
  DOMAIN req = Call /\ \A c \in Call : req[c].range \in AnyRange

LEMMA NoRangeTyped == NoRange \in AnyRange
BY DEF NoRange, AnyRange

LEMMA RangesInit == Init => RangesInv
BY NoRangeTyped DEF Init, RangesInv, NoRequest

LEMMA NewRequestInv ==
  ASSUME RangesInv, NEW c \in Call, NEW r, r.range \in AnyRange,
         req' = [req EXCEPT ![c] = r]
  PROVE  RangesInv'
BY DEF RangesInv

LEMMA RangesNext == RangesInv /\ [Next]_vars => RangesInv'
<1> SUFFICES ASSUME RangesInv, [Next]_vars PROVE RangesInv'
  OBVIOUS
<1>1. CASE UNCHANGED req
  BY <1>1 DEF RangesInv
<1>2. CASE Tick
  BY <1>1, <1>2 DEF Tick
<1>3. CASE Codes
  BY <1>1, <1>3 DEF Codes, httpVars
<1>4. ASSUME NEW c \in Call, NEW key, NEW size, NEW known, NEW method,
             ClientHTTP(c, key, size, known, method)
      PROVE  RangesInv'
  BY <1>4, NewRequestInv, NoRangeTyped DEF ClientHTTP
<1>5. ASSUME NEW c \in Call, NEW size, NEW known, NewRequest(c, size, known)
      PROVE  RangesInv'
  <2> DEFINE r == [NoRequest EXCEPT !.size = size, !.length = IF known THEN size ELSE -1]
  <2>1. req' = [req EXCEPT ![c] = r]
    BY <1>5 DEF NewRequest
  <2>2. r.range = NoRange
    BY DEF NoRequest
  <2> QED
    BY <2>1, <2>2, NewRequestInv, NoRangeTyped
<1>6. ASSUME NEW c \in Call, NEW kind, NEW range \in AnyRange, Query(c, kind, range)
      PROVE  RangesInv'
  <2> DEFINE r == [NoRequest EXCEPT !.kind = kind, !.range = range]
  <2>1. req' = [req EXCEPT ![c] = r]
    BY <1>6 DEF Query
  <2>2. r.range = range
    BY DEF NoRequest
  <2> QED
    BY <2>1, <2>2, NewRequestInv
<1>7. ASSUME NEW c \in Call, RPC(c) PROVE RangesInv'
  <2> DEFINE r == [NoRequest EXCEPT !.kind = "grpc"]
  <2>1. req' = [req EXCEPT ![c] = r]
    BY <1>7 DEF RPC
  <2>2. r.range = NoRange
    BY DEF NoRequest
  <2> QED
    BY <2>1, <2>2, NewRequestInv, NoRangeTyped
<1>8. ASSUME NEW c \in Call,
             \/ Do(c) \/ DoFails(c) \/ DoReturns(c)
             \/ ServerHTTP(c, ServerKey) \/ ServerHTTPDisabled(c) \/ Unguarded(c)
             \/ RequestBodyDecoder(c) \/ Handler(c) \/ Evaluate(c)
             \/ HandleRPC(c) \/ RPCFails(c)
             \/ getConfig(c) \/ FromError(c) \/ Queried(c) \/ FromStatus(c)
      PROVE  RangesInv'
  BY <1>1, <1>8 DEF Do, DoFails, DoReturns, ServerHTTP, ServerHTTPDisabled, Unguarded,
     RequestBodyDecoder, Handler, Evaluate, HandleRPC, RPCFails, getConfig, FromError,
     Queried, FromStatus
<1>9. CASE UNCHANGED vars
  BY <1>1, <1>9 DEF vars, httpVars
<1>10. Range \subseteq AnyRange
  BY NumberAssumption DEF AnyRange
<1> QED
  BY <1>2, <1>3, <1>4, <1>5, <1>6, <1>7, <1>8, <1>9, <1>10, NoRangeTyped DEF Next

\* How far a range query exceeds its limit, which is meant to be the most values
\* it returns (WithinLimit): the step is cut to whole seconds, so it may ask for
\* twice as many, and one more at the end of the range; and it asks for nothing
\* at all when the range has fewer seconds than the limit.
PointsBounded ==
  \A c \in Call :
    req[c].kind = "queryRange" =>
      LET range == req[c].range
          limit == Limit(range.limit)
      IN  /\ Points(range) <= 2 * limit + 1
          /\ Points(range) = 0 => range.end - range.start < limit * TicksPerSecond

\* For any range and any limit, a range query asks for at most twice its limit
\* of values per series and one, and for none only if the range has fewer
\* seconds than the limit: the overshoot of WithinLimit has a bound.
THEOREM RangeQueriesBounded == Spec => []PointsBounded
<1>1. RangesInv => PointsBounded
  BY RangeBounded DEF RangesInv, PointsBounded
<1> QED
  BY <1>1, RangesInit, RangesNext, PTL DEF Spec

-----------------------------------------------------------------------------
(* The inductive invariant, one call at a time.                            *)

Replies == [status : Int, code : ErrCode \cup {"Unknown"},
            data : {"none", "envelope", "series", "partial", "scalar", "error"},
            from : {"none", "middleware", "nobody", "chttp", "grpc", "vm"},
            body : {"whole", "short"}]

Typed(c) ==
  /\ pc[c] \in Stage
  /\ req[c].kind \in {"http", "grpc", "query", "queryRange"}
  /\ req[c].size \in Nat /\ req[c].length \in {-1, req[c].size}
  /\ req[c].body \in {"whole", "short"} /\ req[c].guarded \in BOOLEAN
  /\ broken[c] \in BOOLEAN /\ seen[c] \in {"whole", "short"}
  /\ reply[c] \in Replies
  /\ handled[c] \in {"no"} \cup Outcome
  /\ result[c] \in {"none", "failed", "success", "noError", "auth", "errQuery",
                    "metrics", "partial", "Unknown", "Unavailable"} \cup ErrCode

\* A guarded request carries the time of its signature, cut to seconds, and the
\* signature of what it was sent with; it is only sent with the length it declares.
Stamped(c) ==
  /\ req[c].kind # "http" => ~req[c].guarded
  /\ req[c].guarded =>
       /\ req[c].ts \in Int /\ req[c].signedAt \in Int
       /\ req[c].signedAt < req[c].ts + TicksPerSecond
       /\ req[c].sign = Signed(req[c].sign[1], req[c].ts,
                               Covered(req[c].length, req[c].body))
       /\ req[c].length = 0 => req[c].body = "whole"
       /\ (pc[c] \in {"sent", "decoding", "handling"} \/ handled[c] # "no")
            /\ req[c].length >= 0 => req[c].body = "whole"

\* Nothing was answered or handled before its time, and no gRPC call gets as far as
\* chttp.
Fresh(c) ==
  /\ pc[c] \in {"idle", "signed", "sent", "decoding", "handling"} =>
       reply[c] = NoReply /\ handled[c] = "no"
  /\ pc[c] \in {"idle", "signed"} => result[c] = "none"
  /\ pc[c] \in {"signed", "decoding", "handling"} => req[c].kind # "grpc"

\* What is let through behind the middleware is the body that was signed.
LetThrough(c) ==
  (pc[c] \in {"decoding", "handling"} \/ handled[c] # "no")
    /\ req[c].guarded /\ req[c].length < MegaByte16 =>
       seen[c] = req[c].body

RefusedFor(c) ==
  reply[c].from = "middleware" =>
    \/ req[c].sign[1] # ServerKey
    \/ seen[c] # req[c].body
    \/ now - req[c].signedAt > Tolerance - TicksPerSecond

\* Who wrote an answer, and what is in it then.
Answered(c) ==
  LET r == reply[c]
  IN  /\ pc[c] \in {"replied", "recorded"} => r.from # "none"
      /\ r.from # "none" => r.status \in 100 .. 999
      /\ r.from = "middleware" => req[c].guarded /\ r.status = 400 /\ r.code = "SCode"
      /\ r.from = "nobody" => req[c].guarded
      /\ r.from = "vm" => /\ req[c].kind \in {"query", "queryRange"}
                          /\ r.data \in {"series", "partial", "scalar", "error"}
      /\ r.from = "grpc" =>
           /\ req[c].kind = "grpc" /\ handled[c] # "no"
           /\ r.code \in (IF handled[c] = "fine" THEN {"SCode"}
                          ELSE {From(handled[c]), "Unknown"})
      /\ r.from = "chttp" =>
           /\ req[c].kind # "grpc"
           /\ handled[c] = "no" => r.code = "EParamUnparsedCode"
           /\ handled[c] = "fine" => r.code \in {"SCode", "EUnknownCode"}
           /\ handled[c] \notin {"no", "fine"} => r.code = CodeOf(handled[c])

\* The status of an answer, also while its code is being registered.
StatusRight(c) ==
  reply[c].from = "chttp" =>
    \/ reply[c].status \in {StatusOf(reply[c].code), DefaultStatus}
    \/ reply[c].code = registering.code /\ reply[c].status = registering.status

\* A result that says something of the answer is the last step of its call, but
\* for the code of a gRPC call that was cancelled.
Concluded(c) ==
  /\ result[c] \in {"success", "noError", "metrics", "partial"} => pc[c] = "over"
  /\ result[c] \in ErrCode =>
       pc[c] = "over" \/ (result[c] = "EUnknownCode" /\ req[c].kind = "grpc")

TrueSuccess(c) ==
  LET r == reply[c]
  IN  /\ result[c] = "success" => handled[c] \in Successful
      /\ result[c] = "noError" => handled[c] \in Successful \/ r.from = "middleware"
      /\ result[c] \in {"metrics", "partial"} =>
           /\ r.status = 200 /\ r.body = "whole"
           /\ \/ r.data = (IF result[c] = "metrics" THEN "series" ELSE "partial")
              \/ r.from = "chttp"

TrueError(c) ==
  result[c] \in ErrCode =>
    IF req[c].kind = "grpc" THEN result[c] \in {From(handled[c]), "EUnknownCode"}
    ELSE CASE handled[c] = "no" -> result[c] = "EParamUnparsedCode"
           [] handled[c] = "fine" -> result[c] = "EUnknownCode"
           [] OTHER -> result[c] = CodeOf(handled[c])

CallInv(c) ==
  /\ Typed(c) /\ Stamped(c) /\ Fresh(c) /\ LetThrough(c) /\ RefusedFor(c)
  /\ Answered(c) /\ StatusRight(c) /\ Concluded(c) /\ TrueSuccess(c) /\ TrueError(c)

Clocks == now \in Start .. MaxNow /\ skew \in Skew

\* A code is registered once.
CodesInv ==
  CodesTypeOK /\ (registering # NoCode => registering.code \notin DOMAIN codes)

Domains ==
  /\ DOMAIN pc = Call /\ DOMAIN req = Call /\ DOMAIN broken = Call
  /\ DOMAIN seen = Call /\ DOMAIN handled = Call /\ DOMAIN reply = Call
  /\ DOMAIN result = Call
  /\ pc \in [Call -> Stage]

IInv == Clocks /\ CodesInv /\ Domains /\ \A c \in Call : CallInv(c)

-----------------------------------------------------------------------------
(* What the invariant has to know of the operators.                        *)

LEMMA CodeFacts ==
  /\ ErrCode \cap {"none", "fine", "plain", "invalid", "no", "failed", "success",
                   "noError", "auth", "errQuery", "metrics", "partial", "Unknown",
                   "Unavailable"} = {}
  /\ {"SCode", "EUnknownCode", "EParamUnparsedCode", "EInvalidParamCode"} \subseteq ErrCode
  /\ \A code \in {"SCode", "EUnknownCode", "EParamUnparsedCode", "EInvalidParamCode"} :
       StatusOf(code) \in 100 .. 999
  /\ StatusOf("SCode") = 200
BY NamesAssumption DEF ErrCode, BuiltIn, WithoutStatus, StatusOf

LEMMA OutcomeFacts ==
  ASSUME NEW outcome \in Outcome \cup {"EParamUnparsedCode"}
  PROVE  /\ From(outcome) \in ErrCode
         /\ CodeOf(outcome) \in ErrCode
         /\ From(outcome) = "SCode" \/ CodeOf(outcome) = "SCode" => outcome = "SCode"
BY CodeFacts DEF Outcome, From, CodeOf

LEMMA StatusFacts ==
  ASSUME CodesInv, NEW code \in ErrCode, NEW status \in AsHTTPCode(code)
  PROVE  /\ status \in Int
         /\ \/ status \in {StatusOf(code), DefaultStatus}
            \/ code = registering.code /\ status = registering.status
<1>1. StatusOf(code) \in Int
  <2>1. CASE code \in DOMAIN BuiltIn
    BY <2>1 DEF StatusOf, BuiltIn
  <2>2. CASE code \notin DOMAIN BuiltIn /\ code \in DOMAIN codes
    BY <2>2, CodeAssumption DEF CodesInv, CodesTypeOK, StatusOf
  <2>3. CASE code \notin DOMAIN BuiltIn /\ code \notin DOMAIN codes
    BY <2>3 DEF StatusOf, DefaultStatus
  <2> QED
    BY <2>1, <2>2, <2>3
<1>2. registering # NoCode => registering.status \in Int
  BY CodeAssumption DEF CodesInv, CodesTypeOK
<1> QED
  BY <1>1, <1>2 DEF AsHTTPCode, DefaultStatus

LEMMA ErrorAnswers ==
  ASSUME CodesInv, NEW outcome \in Outcome \cup {"EParamUnparsedCode"},
         NEW r \in ErrorEncoder(outcome)
  PROVE  /\ r \in Replies /\ r.code = CodeOf(outcome) /\ r.from = "chttp"
         /\ \/ r.status \in {StatusOf(r.code), DefaultStatus}
            \/ r.code = registering.code /\ r.status = registering.status
<1>1. PICK status \in AsHTTPCode(CodeOf(outcome)) :
        r = [NoReply EXCEPT !.status = status, !.code = CodeOf(outcome),
                            !.data = "envelope", !.from = "chttp"]
  BY DEF ErrorEncoder
<1>2. CodeOf(outcome) \in ErrCode
  BY OutcomeFacts
<1> QED
  BY <1>1, <1>2, StatusFacts DEF Replies, NoReply

-----------------------------------------------------------------------------
(* A step of one call leaves the others alone.                             *)

Others(c) ==
  /\ Domains'
  /\ \A d \in Call \ {c} :
       /\ pc'[d] = pc[d] /\ req'[d] = req[d] /\ broken'[d] = broken[d]
       /\ seen'[d] = seen[d] /\ handled'[d] = handled[d] /\ reply'[d] = reply[d]
       /\ result'[d] = result[d]

LEMMA Steady ==
  ASSUME NEW d \in Call, CallInv(d), Clocks, Clocks', now' >= now, UNCHANGED codeVars,
         pc'[d] = pc[d], req'[d] = req[d], broken'[d] = broken[d],
         seen'[d] = seen[d], handled'[d] = handled[d], reply'[d] = reply[d],
         result'[d] = result[d]
  PROVE  CallInv(d)'
<1>1. RefusedFor(d)'
  <2>1. now \in Int /\ now' \in Int /\ Tolerance \in Int
    BY NumberAssumption DEF Clocks, Start, TicksPerSecond
  <2>2. reply[d].from = "middleware" => req[d].signedAt \in Int
    BY DEF CallInv, Stamped, Answered
  <2> QED
    BY <2>1, <2>2 DEF CallInv, RefusedFor, TicksPerSecond
<1>2. StatusRight(d)'
  BY DEF CallInv, StatusRight, StatusOf, codeVars
<1> QED
  BY <1>1, <1>2 DEF CallInv, Typed, Stamped, Fresh, LetThrough, Answered, Concluded,
     TrueSuccess, TrueError

LEMMA LocalStep ==
  ASSUME IInv, NEW c \in Call, Others(c), UNCHANGED <<now, skew, codeVars>>, CallInv(c)'
  PROVE  IInv'
<1>1. Clocks' /\ CodesInv'
  BY DEF IInv, Clocks, CodesInv, CodesTypeOK, codeVars
<1>2. now' >= now
  BY DEF IInv, Clocks, Start, TicksPerSecond
<1>3. ASSUME NEW d \in Call \ {c} PROVE CallInv(d)'
  BY <1>1, <1>2, Steady DEF Others, IInv
<1> QED
  BY <1>1, <1>3 DEF IInv, Others

\* An answer that may be written is, or the connection is closed without one.
LEMMA AnswerStep ==
  ASSUME Domains, NEW c \in Call, NEW r, r.from # "none", Answer(c, r)
  PROVE  /\ DOMAIN reply' = Call /\ pc' \in [Call -> Stage] /\ DOMAIN pc' = Call
         /\ \A d \in Call \ {c} : pc'[d] = pc[d] /\ reply'[d] = reply[d]
         /\ \/ pc'[c] = "replied" /\ reply'[c] = r /\ r.status \in 100 .. 999
            \/ pc'[c] = "aborted" /\ reply'[c] = reply[c]
BY DEF Domains, Answer, Goto, Stage

-----------------------------------------------------------------------------
(* The caller sends.                                                       *)

LEMMA ClientHTTPInv ==
  ASSUME IInv, NEW c \in Call, NEW key \in Key, NEW size \in Size, NEW known \in BOOLEAN,
         NEW method \in {"GET", "OPTIONS"}, ClientHTTP(c, key, size, known, method)
  PROVE  Others(c) /\ CallInv(c)'
<1> DEFINE length == IF known THEN size ELSE -1
           clock  == now + skew
           ts     == (clock \div TicksPerSecond) * TicksPerSecond
<1>1. PICK body \in {"whole", "short"} :
        /\ req' = [req EXCEPT ![c] =
                     [kind |-> "http", range |-> NoRange, size |-> size, length |-> length,
                      guarded |-> TRUE, method |-> method, signedAt |-> clock, ts |-> ts,
                      body |-> body, sign |-> Signed(key, ts, Covered(length, body))]]
        /\ ~(size > 0) => body = "whole"
  BY DEF ClientHTTP, ReadAll
<1>2. /\ pc[c] = "idle" /\ pc' = [pc EXCEPT ![c] = "signed"]
      /\ UNCHANGED <<now, skew, broken, seen, handled, reply, result, codeVars>>
  BY DEF ClientHTTP, Goto
<1>3. Others(c)
  BY <1>1, <1>2 DEF Others, Domains, IInv, Stage
<1>4. clock \in Int /\ ts \in Int /\ clock < ts + TicksPerSecond
  BY NumberAssumption DEF IInv, Clocks, Start, TicksPerSecond
<1>5. size \in Nat
  BY NumberAssumption
<1>6. /\ req'[c].kind = "http" /\ req'[c].size = size /\ req'[c].length = length
      /\ req'[c].guarded = TRUE /\ req'[c].signedAt = clock /\ req'[c].ts = ts
      /\ req'[c].body = body /\ req'[c].sign = Signed(key, ts, Covered(length, body))
  BY <1>1 DEF IInv, Domains
<1>7. pc'[c] = "signed"
  BY <1>2 DEF IInv, Domains
<1>8. Typed(c)'
  BY <1>2, <1>5, <1>6, <1>7 DEF Typed, IInv, CallInv, Stage
<1>9. Fresh(c)' /\ reply'[c] = NoReply /\ handled'[c] = "no" /\ result'[c] = "none"
  BY <1>2, <1>6, <1>7 DEF Fresh, IInv, CallInv
<1>10. Stamped(c)'
  <2>1. req'[c].length = 0 => req'[c].body = "whole"
    BY <1>1, <1>5, <1>6
  <2> QED
    BY <1>4, <1>6, <1>7, <1>9, <2>1 DEF Stamped, Signed
<1>11. NoReply.from = "none"
  BY DEF NoReply
<1> QED
  BY <1>3, <1>7, <1>8, <1>9, <1>10, <1>11, CodeFacts
     DEF CallInv, LetThrough, RefusedFor, Answered, StatusRight, Concluded, TrueSuccess,
         TrueError


\* A request without a signature.
LEMMA SendInv ==
  ASSUME IInv, NEW c \in Call, pc[c] = "idle", NEW stage \in {"signed", "sent"},
         pc' = [pc EXCEPT ![c] = stage],
         NEW r, req' = [req EXCEPT ![c] = r],
         r.kind \in {"http", "grpc", "query", "queryRange"}, r.guarded = FALSE,
         stage = "signed" => r.kind # "grpc",
         r.size \in Nat, r.length \in {-1, r.size}, r.body = "whole",
         UNCHANGED <<now, skew, broken, seen, handled, reply, result, codeVars>>
  PROVE  Others(c) /\ CallInv(c)'
<1>1. Others(c)
  BY DEF Others, Domains, IInv, Stage
<1>2. req'[c] = r /\ pc'[c] = stage
  BY DEF IInv, Domains
<1>3. Typed(c)'
  BY <1>2 DEF Typed, IInv, CallInv, Stage
<1>4. Stamped(c)'
  BY <1>2 DEF Stamped
<1>5. Fresh(c)' /\ reply'[c] = NoReply /\ handled'[c] = "no" /\ result'[c] = "none"
  BY <1>2 DEF Fresh, IInv, CallInv
<1>6. NoReply.from = "none"
  BY DEF NoReply
<1> QED
  BY <1>1, <1>2, <1>3, <1>4, <1>5, <1>6, CodeFacts
     DEF CallInv, LetThrough, RefusedFor, Answered, StatusRight, Concluded, TrueSuccess,
         TrueError

LEMMA NewRequestStep ==
  ASSUME IInv, NEW c \in Call, NEW size \in Size, NEW known \in BOOLEAN,
         NewRequest(c, size, known)
  PROVE  Others(c) /\ CallInv(c)'
<1> DEFINE r == [NoRequest EXCEPT !.size = size, !.length = IF known THEN size ELSE -1]
<1>1. size \in Nat
  BY NumberAssumption
<1>2. /\ r.kind = "http" /\ r.guarded = FALSE /\ r.size = size /\ r.body = "whole"
      /\ r.length = IF known THEN size ELSE -1
  BY DEF NoRequest
<1>3. req' = [req EXCEPT ![c] = r]
  BY DEF NewRequest
<1>4. pc' = [pc EXCEPT ![c] = "signed"] /\ pc[c] = "idle"
  BY DEF NewRequest, Goto
<1>5. UNCHANGED <<now, skew, broken, seen, handled, reply, result, codeVars>>
  BY DEF NewRequest
<1> HIDE DEF r
<1> QED
  BY <1>1, <1>2, <1>3, <1>4, <1>5, SendInv

LEMMA QueryStep ==
  ASSUME IInv, NEW c \in Call, NEW kind \in {"query", "queryRange"}, NEW range,
         Query(c, kind, range)
  PROVE  Others(c) /\ CallInv(c)'
<1> DEFINE r == [NoRequest EXCEPT !.kind = kind, !.range = range]
<1>1. /\ r.kind = kind /\ r.guarded = FALSE /\ r.size \in Nat /\ r.length = r.size
      /\ r.body = "whole"
  BY DEF NoRequest
<1>2. req' = [req EXCEPT ![c] = r]
  BY DEF Query
<1>3. pc' = [pc EXCEPT ![c] = "signed"] /\ pc[c] = "idle"
  BY DEF Query, Goto
<1>4. UNCHANGED <<now, skew, broken, seen, handled, reply, result, codeVars>>
  BY DEF Query
<1> HIDE DEF r
<1> QED
  BY <1>1, <1>2, <1>3, <1>4, SendInv

LEMMA RPCStep ==
  ASSUME IInv, NEW c \in Call, RPC(c)
  PROVE  Others(c) /\ CallInv(c)'
<1> DEFINE r == [NoRequest EXCEPT !.kind = "grpc"]
<1>1. /\ r.kind = "grpc" /\ r.guarded = FALSE /\ r.size \in Nat /\ r.length = r.size
      /\ r.body = "whole"
  BY DEF NoRequest
<1>2. req' = [req EXCEPT ![c] = r]
  BY DEF RPC
<1>3. pc' = [pc EXCEPT ![c] = "sent"] /\ pc[c] = "idle"
  BY DEF RPC, Goto
<1>4. UNCHANGED <<now, skew, broken, seen, handled, reply, result, codeVars>>
  BY DEF RPC
<1> HIDE DEF r
<1> QED
  BY <1>1, <1>2, <1>3, <1>4, SendInv

LEMMA DoStep ==
  ASSUME IInv, NEW c \in Call, Do(c)
  PROVE  Others(c) /\ CallInv(c)'
<1>1. pc[c] = "signed"
  BY DEF Do
<1>2. /\ UNCHANGED <<now, skew, req, broken, handled, reply, codeVars>>
      /\ \/ /\ pc' = [pc EXCEPT ![c] = "over"] /\ result' = [result EXCEPT ![c] = "failed"]
            /\ seen' = seen
         \/ /\ pc' = [pc EXCEPT ![c] = "sent"] /\ result' = result
            /\ seen' = [seen EXCEPT ![c] = req[c].body]
            /\ ~(req[c].length > 0 /\ req[c].body = "short")
  BY DEF Do, Goto, CallFails
<1>3. Others(c)
  BY <1>2 DEF Others, Domains, IInv, Stage
<1>4. reply[c] = NoReply /\ handled[c] = "no" /\ result[c] = "none" /\ NoReply.from = "none"
  BY <1>1 DEF IInv, CallInv, Fresh, NoReply
<1>5. Typed(c)' /\ Stamped(c)'
  BY <1>2 DEF IInv, Domains, CallInv, Typed, Stamped, Stage
<1>6. Fresh(c)' /\ LetThrough(c)' /\ RefusedFor(c)' /\ Answered(c)' /\ StatusRight(c)'
  BY <1>1, <1>2, <1>4
     DEF IInv, Domains, CallInv, Fresh, LetThrough, RefusedFor, Answered, StatusRight
<1>7. Concluded(c)' /\ TrueSuccess(c)' /\ TrueError(c)'
  BY <1>2, <1>4, CodeFacts DEF IInv, Domains, Concluded, TrueSuccess, TrueError
<1> QED
  BY <1>3, <1>5, <1>6, <1>7 DEF CallInv

LEMMA DoFailsStep ==
  ASSUME IInv, NEW c \in Call, DoFails(c)
  PROVE  Others(c) /\ CallInv(c)'
<1>1. /\ pc[c] \in {"sent", "decoding", "handling", "replied", "aborted"}
      /\ broken' = [broken EXCEPT ![c] = TRUE] /\ result' = [result EXCEPT ![c] = "failed"]
      /\ UNCHANGED <<now, skew, pc, req, seen, handled, reply, codeVars>>
  BY DEF DoFails, CallFails
<1>2. Others(c)
  BY <1>1 DEF Others, Domains, IInv
<1>3. Typed(c)' /\ Stamped(c)' /\ Fresh(c)' /\ LetThrough(c)'
  BY <1>1 DEF IInv, Domains, CallInv, Typed, Stamped, Fresh, LetThrough
<1>4. RefusedFor(c)' /\ Answered(c)' /\ StatusRight(c)'
  BY <1>1 DEF IInv, Domains, CallInv, RefusedFor, Answered, StatusRight, StatusOf, codeVars
<1>5. Concluded(c)' /\ TrueSuccess(c)' /\ TrueError(c)'
  BY <1>1, CodeFacts DEF IInv, Domains, Concluded, TrueSuccess, TrueError
<1> QED
  BY <1>2, <1>3, <1>4, <1>5 DEF CallInv

-----------------------------------------------------------------------------
(* The server answers.                                                     *)

\* An error is answered with the code it stands for.
LEMMA AnswerErrorStep ==
  ASSUME IInv, NEW c \in Call, NEW outcome \in Outcome \cup {"EParamUnparsedCode"},
         AnswerError(c, outcome)
  PROVE  /\ DOMAIN reply' = Call /\ pc' \in [Call -> Stage] /\ DOMAIN pc' = Call
         /\ \A d \in Call \ {c} : pc'[d] = pc[d] /\ reply'[d] = reply[d]
         /\ \/ /\ pc'[c] = "replied" /\ reply'[c] \in Replies
               /\ reply'[c].from = "chttp" /\ reply'[c].code = CodeOf(outcome)
               /\ reply'[c].status \in 100 .. 999
               /\ \/ reply'[c].status \in {StatusOf(reply'[c].code), DefaultStatus}
                  \/ /\ reply'[c].code = registering.code
                     /\ reply'[c].status = registering.status
            \/ pc'[c] = "aborted" /\ reply'[c] = reply[c]
<1>1. PICK r \in ErrorEncoder(outcome) : Answer(c, r)
  BY DEF AnswerError
<1>2. /\ r \in Replies /\ r.code = CodeOf(outcome) /\ r.from = "chttp"
      /\ \/ r.status \in {StatusOf(r.code), DefaultStatus}
         \/ r.code = registering.code /\ r.status = registering.status
  BY ErrorAnswers DEF IInv
<1> QED
  BY <1>1, <1>2, AnswerStep DEF IInv

\* The middleware's own answers.
LEMMA RefusalFields ==
  /\ Refusal \in Replies /\ Refusal.status = 400 /\ Refusal.from = "middleware"
  /\ Refusal.code = "SCode"
  /\ EmptyAnswer \in Replies /\ EmptyAnswer.status = 200 /\ EmptyAnswer.from = "nobody"
<1>1. Refusal = [status |-> 400, code |-> "SCode", data |-> "none", from |-> "middleware",
                 body |-> "whole"]
  <2>1. ASSUME NEW r, r = [NoReply EXCEPT !.status = 400, !.from = "middleware"]
        PROVE  r = [status |-> 400, code |-> "SCode", data |-> "none",
                    from |-> "middleware", body |-> "whole"]
    BY <2>1 DEF NoReply
  <2> QED
    BY <2>1 DEF Refusal
<1>2. EmptyAnswer = [status |-> 200, code |-> "SCode", data |-> "none", from |-> "nobody",
                     body |-> "whole"]
  <2>1. ASSUME NEW r, r = [NoReply EXCEPT !.status = 200, !.from = "nobody"]
        PROVE  r = [status |-> 200, code |-> "SCode", data |-> "none",
                    from |-> "nobody", body |-> "whole"]
    BY <2>1 DEF NoReply
  <2> QED
    BY <2>1, Zenon DEF EmptyAnswer
<1> QED
  BY <1>1, <1>2, CodeFacts DEF Replies

LEMMA OwnAnswerStep ==
  ASSUME IInv, NEW c \in Call, req[c].guarded, NEW r \in {Refusal, EmptyAnswer},
         pc[c] = "sent", Answer(c, r), seen'[c] \in {"whole", "short"},
         r = Refusal => \/ req[c].sign[1] # ServerKey
                        \/ seen'[c] # req[c].body
                        \/ now - req[c].signedAt > Tolerance - TicksPerSecond,
         DOMAIN seen' = Call, \A d \in Call \ {c} : seen'[d] = seen[d],
         UNCHANGED <<now, skew, req, broken, handled, result, codeVars>>
  PROVE  Others(c) /\ CallInv(c)'
<1>1. /\ r \in Replies /\ r.from \in {"middleware", "nobody"} /\ r.code \in ErrCode \cup {"Unknown"}
      /\ r.from = "middleware" => r = Refusal /\ r.status = 400 /\ r.code = "SCode"
  BY RefusalFields DEF Replies
<1>2. /\ DOMAIN reply' = Call /\ pc' \in [Call -> Stage] /\ DOMAIN pc' = Call
      /\ \A d \in Call \ {c} : pc'[d] = pc[d] /\ reply'[d] = reply[d]
      /\ \/ pc'[c] = "replied" /\ reply'[c] = r /\ r.status \in 100 .. 999
         \/ pc'[c] = "aborted" /\ reply'[c] = reply[c]
  BY <1>1, AnswerStep DEF IInv
<1>3. Others(c)
  BY <1>2 DEF Others, Domains, IInv
<1>4. reply[c] = NoReply /\ handled[c] = "no" /\ NoReply.from = "none"
  BY DEF IInv, CallInv, Fresh, NoReply
<1>5. Typed(c)' /\ Stamped(c)' /\ Fresh(c)' /\ LetThrough(c)'
  BY <1>1, <1>2, <1>4 DEF IInv, CallInv, Typed, Stamped, Fresh, LetThrough, Stage
<1>6. RefusedFor(c)' /\ Answered(c)' /\ StatusRight(c)'
  BY <1>1, <1>2, <1>4 DEF RefusedFor, Answered, StatusRight
<1>7. Concluded(c)' /\ TrueSuccess(c)' /\ TrueError(c)'
  BY <1>2, <1>4, CodeFacts DEF IInv, CallInv, Concluded, TrueSuccess, TrueError
<1> QED
  BY <1>3, <1>5, <1>6, <1>7 DEF CallInv

\* A request that is let through.
LEMMA PassedStep ==
  ASSUME IInv, NEW c \in Call, pc[c] \in {"sent", "decoding"},
         NEW stage \in {"decoding", "handling"}, pc' = [pc EXCEPT ![c] = stage],
         req[c].kind # "grpc",
         seen'[c] \in {"whole", "short"},
         req[c].guarded /\ req[c].length < MegaByte16 => seen'[c] = req[c].body,
         DOMAIN seen' = Call, \A d \in Call \ {c} : seen'[d] = seen[d],
         UNCHANGED <<now, skew, req, broken, handled, reply, result, codeVars>>
  PROVE  Others(c) /\ CallInv(c)'
<1>1. Others(c)
  BY DEF Others, Domains, IInv, Stage
<1>2. pc'[c] = stage
  BY DEF IInv, Domains
<1>3. reply[c] = NoReply /\ handled[c] = "no" /\ NoReply.from = "none"
  BY DEF IInv, CallInv, Fresh, NoReply
<1>4. Typed(c)' /\ Stamped(c)' /\ Fresh(c)' /\ LetThrough(c)'
  BY <1>2, <1>3 DEF IInv, CallInv, Typed, Stamped, Fresh, LetThrough, Stage
<1>5. RefusedFor(c)' /\ Answered(c)' /\ StatusRight(c)'
  BY <1>2, <1>3 DEF RefusedFor, Answered, StatusRight
<1>6. Concluded(c)' /\ TrueSuccess(c)' /\ TrueError(c)'
  BY <1>2, <1>3, CodeFacts DEF IInv, CallInv, Concluded, TrueSuccess, TrueError
<1> QED
  BY <1>1, <1>4, <1>5, <1>6 DEF CallInv

LEMMA ServerHTTPStep ==
  ASSUME IInv, NEW c \in Call, ServerHTTP(c, ServerKey)
  PROVE  Others(c) /\ CallInv(c)'
<1>1. /\ pc[c] = "sent" /\ req[c].guarded
      /\ UNCHANGED <<now, skew, req, broken, handled, result, codeVars>>
  BY DEF ServerHTTP, Arrived
<1>2. Typed(c) /\ Stamped(c) /\ Domains
  BY DEF IInv, CallInv
<1>3. CASE Answer(c, EmptyAnswer) /\ UNCHANGED seen
  <2>1. EmptyAnswer # Refusal
    BY RefusalFields
  <2> QED
    BY <1>1, <1>2, <1>3, <2>1, OwnAnswerStep DEF Typed, Domains
<1>4. CASE Expired(c) /\ Answer(c, Refusal) /\ UNCHANGED seen
  <2>1. now - req[c].signedAt > Tolerance - TicksPerSecond
    <3>1. now \in Int /\ Tolerance \in Int
      BY NumberAssumption DEF IInv, Clocks, Start, TicksPerSecond
    <3> QED
      BY <1>1, <1>2, <1>4, <3>1 DEF Stamped, Expired, TicksPerSecond
  <2> QED
    BY <1>1, <1>2, <1>4, <2>1, OwnAnswerStep DEF Typed, Domains
<1>5. ASSUME NEW body \in {"whole", "short"}, seen' = [seen EXCEPT ![c] = body],
             req[c].sign = Signed(ServerKey, req[c].ts, Covered(req[c].length, body)),
             Goto(c, "decoding"), UNCHANGED reply
      PROVE  Others(c) /\ CallInv(c)'
  <2>1. req[c].sign = Signed(req[c].sign[1], req[c].ts, Covered(req[c].length, req[c].body))
    BY <1>1, <1>2 DEF Stamped
  <2>2. req[c].length < MegaByte16 => body = req[c].body
    BY <1>5, <2>1 DEF Signed, Covered
  <2>3. seen'[c] = body
    BY <1>2, <1>5 DEF Domains
  <2>4. req[c].kind # "grpc"
    BY <1>1, <1>2 DEF Stamped
  <2> QED
    BY <1>1, <1>2, <1>5, <2>2, <2>3, <2>4, PassedStep DEF Goto, Domains
<1>6. ASSUME NEW body \in {"whole", "short"}, seen' = [seen EXCEPT ![c] = body],
             req[c].sign # Signed(ServerKey, req[c].ts, Covered(req[c].length, body)),
             Answer(c, Refusal)
      PROVE  Others(c) /\ CallInv(c)'
  <2>1. req[c].sign = Signed(req[c].sign[1], req[c].ts, Covered(req[c].length, req[c].body))
    BY <1>1, <1>2 DEF Stamped
  <2>2. req[c].sign[1] # ServerKey \/ body # req[c].body
    BY <1>6, <2>1
  <2>3. seen'[c] = body
    BY <1>2, <1>6 DEF Domains
  <2> QED
    BY <1>1, <1>2, <1>6, <2>2, <2>3, OwnAnswerStep DEF Domains
<1> QED
  <2>1. seen[c] \in {"whole", "short"}
    BY <1>2 DEF Typed
  <2> QED
    BY <1>3, <1>4, <1>5, <1>6, <2>1 DEF ServerHTTP, ReadAll

LEMMA DisabledStep ==
  ASSUME IInv, NEW c \in Call, ServerHTTPDisabled(c)
  PROVE  Others(c) /\ CallInv(c)'
<1>1. /\ pc[c] = "sent" /\ req[c].guarded /\ Answer(c, EmptyAnswer)
      /\ UNCHANGED <<now, skew, req, broken, seen, handled, result, codeVars>>
  BY DEF ServerHTTPDisabled, Arrived
<1>2. EmptyAnswer # Refusal
  BY RefusalFields
<1>3. Typed(c) /\ Domains
  BY DEF IInv, CallInv
<1> QED
  BY <1>1, <1>2, <1>3, OwnAnswerStep DEF Typed, Domains

LEMMA UnguardedStep ==
  ASSUME IInv, NEW c \in Call, Unguarded(c)
  PROVE  Others(c) /\ CallInv(c)'
<1>1. /\ pc[c] = "sent" /\ ~req[c].guarded /\ req[c].kind # "grpc"
      /\ pc' = [pc EXCEPT ![c] = "decoding"]
      /\ UNCHANGED <<now, skew, req, broken, seen, handled, reply, result, codeVars>>
  BY DEF Unguarded, Arrived, Goto
<1>2. Typed(c) /\ Domains
  BY DEF IInv, CallInv
<1> QED
  BY <1>1, <1>2, PassedStep DEF Typed, Domains

\* An error answer, to a request that could not be decoded or for what the
\* handler returned.
LEMMA ErrorInv ==
  ASSUME IInv, NEW c \in Call, pc[c] \in {"decoding", "handling"}, req[c].kind # "grpc",
         NEW outcome \in Outcome \cup {"EParamUnparsedCode"}, AnswerError(c, outcome),
         \/ handled'[c] = "no" /\ outcome = "EParamUnparsedCode"
         \/ handled'[c] = "fine" /\ outcome = "plain"
         \/ handled'[c] \in Outcome \ {"fine"} /\ outcome = handled'[c],
         DOMAIN handled' = Call, \A d \in Call \ {c} : handled'[d] = handled[d],
         seen'[c] \in {"whole", "short"},
         req[c].guarded /\ req[c].length < MegaByte16 => seen'[c] = req[c].body,
         DOMAIN seen' = Call, \A d \in Call \ {c} : seen'[d] = seen[d],
         UNCHANGED <<now, skew, req, broken, result, codeVars>>
  PROVE  Others(c) /\ CallInv(c)'
<1>1. /\ DOMAIN reply' = Call /\ pc' \in [Call -> Stage] /\ DOMAIN pc' = Call
      /\ \A d \in Call \ {c} : pc'[d] = pc[d] /\ reply'[d] = reply[d]
      /\ \/ /\ pc'[c] = "replied" /\ reply'[c] \in Replies
            /\ reply'[c].from = "chttp" /\ reply'[c].code = CodeOf(outcome)
            /\ reply'[c].status \in 100 .. 999
            /\ \/ reply'[c].status \in {StatusOf(reply'[c].code), DefaultStatus}
               \/ /\ reply'[c].code = registering.code
                  /\ reply'[c].status = registering.status
         \/ pc'[c] = "aborted" /\ reply'[c] = reply[c]
  BY AnswerErrorStep
<1>2. Others(c)
  BY <1>1 DEF Others, Domains, IInv
<1>3. reply[c] = NoReply /\ NoReply.from = "none"
  BY DEF IInv, CallInv, Fresh, NoReply
<1>4. handled'[c] \in {"no"} \cup Outcome
  BY DEF Outcome
<1>5. Typed(c)' /\ Stamped(c)' /\ Fresh(c)' /\ LetThrough(c)'
  BY <1>1, <1>4 DEF IInv, CallInv, Typed, Stamped, Fresh, LetThrough
<1>6. /\ handled'[c] = "no" => CodeOf(outcome) = "EParamUnparsedCode"
      /\ handled'[c] = "fine" => CodeOf(outcome) = "EUnknownCode"
      /\ handled'[c] \notin {"no", "fine"} => CodeOf(outcome) = CodeOf(handled'[c])
  BY CodeFacts DEF CodeOf, From, Outcome
<1>7. RefusedFor(c)' /\ Answered(c)'
  BY <1>1, <1>3, <1>6 DEF RefusedFor, Answered
<1>8. StatusRight(c)'
  BY <1>1, <1>3 DEF StatusRight, StatusOf, codeVars
<1>9. Concluded(c)' /\ TrueSuccess(c)' /\ TrueError(c)'
  BY <1>1, CodeFacts DEF IInv, CallInv, Concluded, TrueSuccess, TrueError
<1> QED
  BY <1>2, <1>5, <1>7, <1>8, <1>9 DEF CallInv


LEMMA DecoderStep ==
  ASSUME IInv, NEW c \in Call, RequestBodyDecoder(c)
  PROVE  Others(c) /\ CallInv(c)'
<1>1. /\ pc[c] = "decoding"
      /\ UNCHANGED <<now, skew, req, broken, handled, result, codeVars>>
  BY DEF RequestBodyDecoder
<1>2. Typed(c) /\ Fresh(c) /\ LetThrough(c) /\ Domains
  BY DEF IInv, CallInv
<1>3. req[c].kind # "grpc" /\ handled[c] = "no"
  BY <1>1, <1>2 DEF Fresh
<1>4. PICK body \in ReadAll(seen[c], MayFail(c)) :
        /\ seen' = [seen EXCEPT ![c] = body]
        /\ \/ Goto(c, "handling") /\ UNCHANGED reply
           \/ AnswerError(c, "EParamUnparsedCode")
  BY DEF RequestBodyDecoder
<1>5. /\ seen'[c] = body /\ body \in {"whole", "short"}
      /\ req[c].guarded /\ req[c].length < MegaByte16 => body = req[c].body
  BY <1>1, <1>2, <1>4 DEF ReadAll, MayFail, Typed, LetThrough, Domains
<1>6. CASE Goto(c, "handling") /\ UNCHANGED reply
  BY <1>1, <1>2, <1>3, <1>4, <1>5, <1>6, PassedStep DEF Goto, Domains
<1>7. CASE AnswerError(c, "EParamUnparsedCode")
  BY <1>1, <1>2, <1>3, <1>4, <1>5, <1>7, ErrorInv DEF Domains
<1> QED
  BY <1>4, <1>6, <1>7

LEMMA HandlerStep ==
  ASSUME IInv, NEW c \in Call, Handler(c)
  PROVE  Others(c) /\ CallInv(c)'
<1>1. /\ pc[c] = "handling"
      /\ UNCHANGED <<now, skew, req, broken, seen, result, codeVars>>
  BY DEF Handler
<1>2. Typed(c) /\ Fresh(c) /\ LetThrough(c) /\ Domains
  BY DEF IInv, CallInv
<1>3. /\ req[c].kind # "grpc" /\ seen'[c] \in {"whole", "short"}
      /\ req[c].guarded /\ req[c].length < MegaByte16 => seen'[c] = req[c].body
  BY <1>1, <1>2 DEF Typed, Fresh, LetThrough
<1>4. PICK outcome \in Outcome :
        /\ handled' = [handled EXCEPT ![c] = outcome]
        /\ IF outcome = "fine"
           THEN Answer(c, ResponseEncoder) \/ AnswerError(c, "plain")
           ELSE AnswerError(c, outcome)
  BY DEF Handler
<1>5. /\ handled'[c] = outcome /\ DOMAIN handled' = Call
      /\ \A d \in Call \ {c} : handled'[d] = handled[d]
  BY <1>2, <1>4 DEF Domains
<1>6. CASE AnswerError(c, "plain") /\ outcome = "fine"
  <2>1. "plain" \in Outcome
    BY DEF Outcome
  <2> QED
    BY <1>1, <1>2, <1>3, <1>5, <1>6, <2>1, ErrorInv DEF Domains
<1>7. CASE AnswerError(c, outcome) /\ outcome # "fine"
  BY <1>1, <1>2, <1>3, <1>5, <1>7, ErrorInv DEF Domains
<1>8. CASE Answer(c, ResponseEncoder) /\ outcome = "fine"
  <2>1. ResponseEncoder = [status |-> 200, code |-> "SCode", data |-> "envelope",
                           from |-> "chttp", body |-> "whole"]
    <3>1. ASSUME NEW r, r = [NoReply EXCEPT !.status = 200, !.data = "envelope",
                                            !.from = "chttp"]
          PROVE  r = [status |-> 200, code |-> "SCode", data |-> "envelope",
                      from |-> "chttp", body |-> "whole"]
      BY <3>1 DEF NoReply
    <3> QED
      BY <3>1, Zenon DEF ResponseEncoder
  <2>2. /\ ResponseEncoder \in Replies /\ ResponseEncoder.from = "chttp"
        /\ ResponseEncoder.code = "SCode" /\ ResponseEncoder.status = 200
    BY <2>1, CodeFacts DEF Replies
  <2>3. /\ DOMAIN reply' = Call /\ pc' \in [Call -> Stage] /\ DOMAIN pc' = Call
        /\ \A d \in Call \ {c} : pc'[d] = pc[d] /\ reply'[d] = reply[d]
        /\ pc'[c] = "replied" /\ reply'[c] = ResponseEncoder
    <3>1. ResponseEncoder.from # "none" /\ ResponseEncoder.status \in 100 .. 999
      BY <2>2
    <3>2. DOMAIN reply = Call /\ pc \in [Call -> Stage]
      BY <1>2 DEF Domains
    <3> HIDE DEF ResponseEncoder
    <3> QED
      BY <1>8, <3>1, <3>2 DEF Answer, Goto, Stage
  <2>4. Others(c)
    BY <1>1, <1>2, <1>5, <2>3 DEF Others, Domains
  <2>5. Typed(c)' /\ Stamped(c)' /\ Fresh(c)' /\ LetThrough(c)'
    BY <1>1, <1>3, <1>5, <2>2, <2>3
       DEF IInv, CallInv, Typed, Stamped, Fresh, LetThrough, Stage
  <2>6. RefusedFor(c)' /\ Answered(c)' /\ StatusRight(c)'
    BY <1>1, <1>3, <1>5, <1>8, <2>2, <2>3, CodeFacts
       DEF RefusedFor, Answered, StatusRight, StatusOf, BuiltIn, codeVars
  <2>7. Concluded(c)' /\ TrueSuccess(c)' /\ TrueError(c)'
    BY <1>1, <2>3, CodeFacts DEF IInv, CallInv, Concluded, TrueSuccess, TrueError
  <2> QED
    BY <2>4, <2>5, <2>6, <2>7 DEF CallInv
<1> QED
  BY <1>4, <1>6, <1>7, <1>8

-----------------------------------------------------------------------------
(* The other servers.                                                      *)

LEMMA HandleRPCStep ==
  ASSUME IInv, NEW c \in Call, HandleRPC(c)
  PROVE  Others(c) /\ CallInv(c)'
<1>1. /\ pc[c] = "sent" /\ req[c].kind = "grpc" /\ pc' = [pc EXCEPT ![c] = "recorded"]
      /\ UNCHANGED <<now, skew, req, broken, seen, result, codeVars>>
  BY DEF HandleRPC, Arrived, Goto
<1>2. PICK outcome \in Outcome :
        /\ handled' = [handled EXCEPT ![c] = outcome]
        /\ \E code \in (IF outcome = "fine" THEN {"SCode"} ELSE GrpcStatus(outcome)) :
             reply' = [reply EXCEPT ![c] =
                         [NoReply EXCEPT !.status = 200, !.code = code, !.from = "grpc"]]
  BY Zenon DEF HandleRPC
<1>3. PICK code \in (IF outcome = "fine" THEN {"SCode"} ELSE GrpcStatus(outcome)) :
        reply' = [reply EXCEPT ![c] =
                    [NoReply EXCEPT !.status = 200, !.code = code, !.from = "grpc"]]
  BY <1>2
<1>4. /\ code \in ErrCode \cup {"Unknown"}
      /\ outcome = "fine" => code = "SCode"
      /\ outcome # "fine" => code \in {From(outcome), "Unknown"}
  BY <1>3, OutcomeFacts, CodeFacts DEF GrpcStatus, AsGrpcError
<1>5. Domains /\ pc'[c] = "recorded" /\ handled'[c] = outcome
  BY <1>1, <1>2 DEF IInv, Domains
<1>6. reply'[c] = [status |-> 200, code |-> code, data |-> "none", from |-> "grpc",
                   body |-> "whole"]
  <2>1. reply'[c] = [NoReply EXCEPT !.status = 200, !.code = code, !.from = "grpc"]
    BY <1>3, <1>5, Zenon DEF Domains
  <2>2. ASSUME NEW r, r = [NoReply EXCEPT !.status = 200, !.code = code, !.from = "grpc"]
        PROVE  r = [status |-> 200, code |-> code, data |-> "none", from |-> "grpc",
                    body |-> "whole"]
    BY <1>4, <2>2 DEF NoReply
  <2> QED
    BY <2>1, <2>2
<1>7. Others(c)
  <2>1. DOMAIN reply' = Call /\ \A d \in Call \ {c} : reply'[d] = reply[d]
    BY <1>3, <1>5, Zenon DEF Domains
  <2>2. DOMAIN handled' = Call /\ \A d \in Call \ {c} : handled'[d] = handled[d]
    BY <1>2, <1>5, Zenon DEF Domains
  <2> QED
    BY <1>1, <1>5, <2>1, <2>2 DEF Others, Domains, Stage
<1>8. ~req[c].guarded
  BY <1>1 DEF IInv, CallInv, Stamped
<1>9. Typed(c)' /\ Stamped(c)' /\ Fresh(c)' /\ LetThrough(c)'
  BY <1>1, <1>4, <1>5, <1>6, <1>8
     DEF IInv, CallInv, Typed, Stamped, Fresh, LetThrough, Stage, Replies
<1>10. RefusedFor(c)' /\ Answered(c)' /\ StatusRight(c)'
  <2>1. outcome # "no"
    BY CodeFacts DEF Outcome
  <2> QED
    BY <1>1, <1>4, <1>5, <1>6, <2>1 DEF RefusedFor, Answered, StatusRight
<1>11. Concluded(c)' /\ TrueSuccess(c)' /\ TrueError(c)'
  BY <1>1, <1>5, <1>6, CodeFacts
     DEF IInv, CallInv, Concluded, TrueSuccess, TrueError
<1> QED
  BY <1>7, <1>9, <1>10, <1>11 DEF CallInv

LEMMA RPCFailsStep ==
  ASSUME IInv, NEW c \in Call, RPCFails(c)
  PROVE  Others(c) /\ CallInv(c)'
<1>1. /\ pc[c] \in {"sent", "recorded"} /\ req[c].kind = "grpc"
      /\ result'[c] \in {"EUnknownCode", "Unavailable"}
      /\ DOMAIN result' = Call /\ \A d \in Call \ {c} : result'[d] = result[d]
      /\ UNCHANGED <<now, skew, pc, req, broken, seen, handled, reply, codeVars>>
  BY DEF RPCFails, IInv, Domains
<1>2. Others(c)
  BY <1>1 DEF Others, Domains, IInv
<1>3. Typed(c)' /\ Stamped(c)' /\ Fresh(c)' /\ LetThrough(c)'
  BY <1>1, CodeFacts DEF IInv, CallInv, Typed, Stamped, Fresh, LetThrough
<1>4. RefusedFor(c)' /\ Answered(c)' /\ StatusRight(c)'
  BY <1>1 DEF IInv, CallInv, RefusedFor, Answered, StatusRight, StatusOf, codeVars
<1>5. Concluded(c)' /\ TrueSuccess(c)' /\ TrueError(c)'
  BY <1>1, CodeFacts DEF Concluded, TrueSuccess, TrueError
<1> QED
  BY <1>2, <1>3, <1>4, <1>5 DEF CallInv

LEMMA EvaluateStep ==
  ASSUME IInv, NEW c \in Call, Evaluate(c)
  PROVE  Others(c) /\ CallInv(c)'
<1>1. /\ pc[c] = "sent" /\ req[c].kind \in {"query", "queryRange"}
      /\ UNCHANGED <<now, skew, req, broken, seen, handled, result, codeVars>>
  BY DEF Evaluate
<1> DEFINE vm(status, data) ==
             [NoReply EXCEPT !.status = status, !.data = data, !.from = "vm"]
<1>2. PICK status \in {200, 400, 401, 503}, data \in {"series", "partial", "scalar", "error"} :
        Answer(c, vm(status, data))
  <2>1. \/ Answer(c, vm(400, "error"))
        \/ \E data \in {"series", "partial", "scalar", "error"} : Answer(c, vm(200, data))
        \/ \E status \in {401, 503} : Answer(c, vm(status, "error"))
    BY Zenon DEF Evaluate
  <2> HIDE DEF vm
  <2> QED
    BY <2>1
<1>3. PICK r : r = [NoReply EXCEPT !.status = status, !.data = data, !.from = "vm"]
  OBVIOUS
<1>4. r = [status |-> status, code |-> "SCode", data |-> data, from |-> "vm",
           body |-> "whole"]
  BY <1>3 DEF NoReply
<1>5. Answer(c, r)
  BY <1>2, <1>3, Zenon
<1>6. r \in Replies /\ r.from = "vm" /\ r.data = data /\ r.status = status
  BY <1>4, CodeFacts DEF Replies
<1>7. /\ DOMAIN reply' = Call /\ pc' \in [Call -> Stage] /\ DOMAIN pc' = Call
      /\ \A d \in Call \ {c} : pc'[d] = pc[d] /\ reply'[d] = reply[d]
      /\ \/ pc'[c] = "replied" /\ reply'[c] = r /\ r.status \in 100 .. 999
         \/ pc'[c] = "aborted" /\ reply'[c] = reply[c]
  BY <1>5, <1>6, AnswerStep DEF IInv
<1>8. Others(c)
  BY <1>1, <1>7 DEF Others, Domains, IInv
<1>9. reply[c] = NoReply /\ handled[c] = "no" /\ NoReply.from = "none"
  BY <1>1 DEF IInv, CallInv, Fresh, NoReply
<1>10. Typed(c)' /\ Stamped(c)' /\ Fresh(c)' /\ LetThrough(c)'
  BY <1>1, <1>6, <1>7, <1>9 DEF IInv, CallInv, Typed, Stamped, Fresh, LetThrough, Stage
<1>11. RefusedFor(c)' /\ Answered(c)' /\ StatusRight(c)'
  BY <1>1, <1>6, <1>7, <1>9 DEF RefusedFor, Answered, StatusRight
<1>12. Concluded(c)' /\ TrueSuccess(c)' /\ TrueError(c)'
  BY <1>1, <1>7, <1>9, CodeFacts DEF IInv, CallInv, Concluded, TrueSuccess, TrueError
<1> QED
  BY <1>8, <1>10, <1>11, <1>12 DEF CallInv

-----------------------------------------------------------------------------
(* The reply at the caller.                                                *)

LEMMA DoReturnsStep ==
  ASSUME IInv, NEW c \in Call, DoReturns(c)
  PROVE  Others(c) /\ CallInv(c)'
<1>1. /\ pc[c] = "replied" /\ pc' = [pc EXCEPT ![c] = "recorded"] /\ result[c] = "none"
      /\ UNCHANGED <<now, skew, req, broken, seen, handled, result, codeVars>>
  BY DEF DoReturns, Goto
<1>2. PICK body \in {"whole", "short"} : reply' = [reply EXCEPT ![c].body = body]
  BY DEF DoReturns, ReadAll
<1>3. Domains /\ reply[c] \in Replies /\ pc'[c] = "recorded"
  BY <1>1 DEF IInv, CallInv, Typed, Domains
<1>4. /\ reply'[c] \in Replies
      /\ reply'[c].from = reply[c].from /\ reply'[c].code = reply[c].code
      /\ reply'[c].status = reply[c].status /\ reply'[c].data = reply[c].data
  BY <1>2, <1>3 DEF Replies, Domains
<1>5. DOMAIN reply' = Call /\ \A d \in Call \ {c} : reply'[d] = reply[d]
  BY <1>2, <1>3 DEF Domains
<1>6. Others(c)
  BY <1>1, <1>3, <1>5 DEF Others, Domains, Stage
<1>7. Typed(c)' /\ Stamped(c)' /\ Fresh(c)' /\ LetThrough(c)'
  BY <1>1, <1>3, <1>4 DEF IInv, CallInv, Typed, Stamped, Fresh, LetThrough, Stage
<1>8. RefusedFor(c)' /\ Answered(c)'
  BY <1>1, <1>3, <1>4 DEF IInv, CallInv, RefusedFor, Answered
<1>9. StatusRight(c)'
  BY <1>1, <1>3, <1>4 DEF IInv, CallInv, StatusRight, StatusOf, codeVars
<1>10. Concluded(c)' /\ TrueSuccess(c)' /\ TrueError(c)'
  BY <1>1, <1>3, CodeFacts DEF Concluded, TrueSuccess, TrueError
<1> QED
  BY <1>6, <1>7, <1>8, <1>9, <1>10 DEF CallInv

Results == {"none", "failed", "success", "noError", "auth", "errQuery", "metrics",
            "partial", "Unknown", "Unavailable"} \cup ErrCode

\* The last step of a call settles its result.
LEMMA LastStep ==
  ASSUME IInv, NEW c \in Call, pc[c] = "recorded", pc' = [pc EXCEPT ![c] = "over"],
         NEW x \in Results, result' = [result EXCEPT ![c] = x],
         TrueSuccess(c)', TrueError(c)',
         UNCHANGED <<now, skew, req, broken, seen, handled, reply, codeVars>>
  PROVE  Others(c) /\ CallInv(c)'
<1>1. Domains /\ pc'[c] = "over" /\ result'[c] = x
  BY DEF IInv, Domains
<1>2. Others(c)
  BY <1>1 DEF Others, Domains, Stage
<1>3. Typed(c)' /\ Stamped(c)' /\ Fresh(c)' /\ LetThrough(c)'
  BY <1>1 DEF IInv, CallInv, Typed, Stamped, Fresh, LetThrough, Stage, Results
<1>4. RefusedFor(c)'
  BY DEF IInv, CallInv, RefusedFor
<1>7. Answered(c)'
  <2>1. Answered(c)
    BY DEF IInv, CallInv
  <2>2. reply'[c] = reply[c] /\ req'[c] = req[c] /\ handled'[c] = handled[c]
    OBVIOUS
  <2> QED
    BY <1>1, <2>1, <2>2 DEF Answered
<1>6. Concluded(c)'
  BY <1>1 DEF Concluded
<1>5. StatusRight(c)'
  BY <1>1 DEF IInv, CallInv, StatusRight, StatusOf, codeVars
<1> QED
  BY <1>2, <1>3, <1>4, <1>5, <1>6, <1>7 DEF CallInv

LEMMA getConfigStep ==
  ASSUME IInv, NEW c \in Call, getConfig(c)
  PROVE  Others(c) /\ CallInv(c)'
<1> DEFINE r == reply[c]
           x == IF r.status # 200 \/ ~Parses(r) \/ r.code # "SCode"
                THEN "failed" ELSE "success"
<1>1. /\ pc[c] = "recorded" /\ req[c].kind = "http" /\ pc' = [pc EXCEPT ![c] = "over"]
      /\ result' = [result EXCEPT ![c] = x]
      /\ UNCHANGED <<now, skew, req, broken, seen, handled, reply, codeVars>>
  BY DEF getConfig, Goto
<1>2. result'[c] = x /\ x \in Results /\ x \notin ErrCode
  BY <1>1, CodeFacts DEF IInv, Domains, Results
<1>3. x = "success" => handled[c] \in Successful
  <2>1. Typed(c) /\ Answered(c)
    BY DEF IInv, CallInv
  <2>2. handled[c] \notin {"no", "fine"} /\ CodeOf(handled[c]) = "SCode" =>
          handled[c] = "SCode"
    BY <2>1, OutcomeFacts DEF Typed
  <2> QED
    BY <1>1, <2>1, <2>2 DEF Typed, Answered, Parses, Replies, Successful
<1>4. TrueSuccess(c)' /\ TrueError(c)'
  BY <1>1, <1>2, <1>3 DEF TrueSuccess, TrueError
<1> HIDE DEF x
<1> QED
  BY <1>1, <1>2, <1>4, LastStep

LEMMA FromErrorStep ==
  ASSUME IInv, NEW c \in Call, FromError(c)
  PROVE  Others(c) /\ CallInv(c)'
<1> DEFINE r == reply[c]
           x == IF ~Parses(r) THEN "failed"
                ELSE IF r.code = "SCode" THEN "noError" ELSE r.code
<1>1. /\ pc[c] = "recorded" /\ req[c].kind = "http" /\ pc' = [pc EXCEPT ![c] = "over"]
      /\ result' = [result EXCEPT ![c] = x]
      /\ UNCHANGED <<now, skew, req, broken, seen, handled, reply, codeVars>>
  BY DEF FromError, Goto
<1>2. Typed(c) /\ Answered(c)
  BY DEF IInv, CallInv
<1>3. handled[c] \notin {"no", "fine"} =>
        CodeOf(handled[c]) \in ErrCode /\ (CodeOf(handled[c]) = "SCode" => handled[c] = "SCode")
  BY <1>2, OutcomeFacts DEF Typed
<1>4. result'[c] = x /\ x \in Results
  BY <1>1, <1>2 DEF IInv, Domains, Results, Typed, Replies
<1>5. x = "noError" => handled[c] \in Successful \/ r.from = "middleware"
  BY <1>1, <1>2, <1>3, CodeFacts DEF Typed, Answered, Parses, Replies, Successful
<1>6. TrueSuccess(c)'
  BY <1>1, <1>4, <1>5, <1>2, CodeFacts DEF TrueSuccess, Typed, Replies
<1>7. TrueError(c)'
  <2>1. x \in ErrCode => r.from = "chttp" /\ x = r.code /\ x # "SCode"
    BY <1>1, <1>2, CodeFacts DEF Typed, Answered, Parses, Replies
  <2> QED
    BY <1>1, <1>2, <1>4, <2>1 DEF TrueError, Answered
<1> HIDE DEF x
<1> QED
  BY <1>1, <1>4, <1>6, <1>7, LastStep

LEMMA QueriedStep ==
  ASSUME IInv, NEW c \in Call, Queried(c)
  PROVE  Others(c) /\ CallInv(c)'
<1> DEFINE r == reply[c]
<1>1. /\ pc[c] = "recorded" /\ req[c].kind \in {"query", "queryRange"}
      /\ pc' = [pc EXCEPT ![c] = "over"]
      /\ UNCHANGED <<now, skew, req, broken, seen, handled, reply, codeVars>>
  BY DEF Queried, Goto
<1>2. PICK decodes \in Decodes(r.data) :
        result' = [result EXCEPT ![c] = QueryOutcome(r.status, r.data, decodes /\ Parses(r))]
  BY DEF Queried
<1> DEFINE x == QueryOutcome(r.status, r.data, decodes /\ Parses(r))
<1>3. Typed(c) /\ Stamped(c) /\ Answered(c)
  BY DEF IInv, CallInv
<1>4. x \in {"auth", "failed", "errQuery", "partial", "metrics"}
  BY DEF QueryOutcome
<1>5. r.from \in {"vm", "chttp"}
  BY <1>1, <1>3 DEF Typed, Stamped, Answered, Replies
<1>6. decodes \in BOOLEAN
  BY <1>2 DEF Decodes
<1>7. x \in {"metrics", "partial"} =>
        /\ r.status = 200 /\ r.body = "whole"
        /\ \/ r.data = (IF x = "metrics" THEN "series" ELSE "partial")
           \/ r.from = "chttp"
  <2>1. SUFFICES ASSUME x \in {"metrics", "partial"}
        PROVE  /\ r.status = 200 /\ r.body = "whole"
               /\ \/ r.data = (IF x = "metrics" THEN "series" ELSE "partial")
                  \/ r.from = "chttp"
    BY Zenon
  <2>2. r.status = 200 /\ decodes /\ Parses(r) /\ r.data # "error"
        /\ x = (IF r.data = "partial" THEN "partial" ELSE "metrics")
    BY <2>1, <1>6 DEF QueryOutcome
  <2>3. r.from = "vm" => r.data \in {"series", "partial", "scalar", "error"}
    BY <1>3 DEF Answered
  <2>4. r.data # "scalar"
    BY <1>2, <2>2 DEF Decodes
  <2> QED
    BY <1>5, <2>2, <2>3, <2>4 DEF Parses
<1>8. result'[c] = x
  BY <1>2 DEF IInv, Domains
<1> HIDE DEF x
<1>9. TrueSuccess(c)'
  BY <1>1, <1>4, <1>7, <1>8 DEF TrueSuccess
<1>10. x \in Results /\ x \notin ErrCode
  BY <1>4, CodeFacts DEF Results
<1>11. TrueError(c)'
  BY <1>8, <1>10 DEF TrueError
<1> QED
  BY <1>1, <1>2, <1>9, <1>10, <1>11, LastStep DEF x

LEMMA FromStatusStep ==
  ASSUME IInv, NEW c \in Call, FromStatus(c)
  PROVE  Others(c) /\ CallInv(c)'
<1> DEFINE r == reply[c]
           x == IF r.code = "SCode" THEN "noError" ELSE r.code
<1>1. /\ pc[c] = "recorded" /\ req[c].kind = "grpc" /\ pc' = [pc EXCEPT ![c] = "over"]
      /\ result' = [result EXCEPT ![c] = x]
      /\ UNCHANGED <<now, skew, req, broken, seen, handled, reply, codeVars>>
  BY DEF FromStatus, Goto
<1>2. Typed(c) /\ Stamped(c) /\ Answered(c)
  BY DEF IInv, CallInv
<1>3. r.from = "grpc"
  BY <1>1, <1>2 DEF Typed, Stamped, Answered, Replies
<1>4. handled[c] # "fine" /\ From(handled[c]) = "SCode" => handled[c] = "SCode"
  BY <1>2, <1>3, OutcomeFacts DEF Typed, Answered
<1>5. r.code = "SCode" => handled[c] \in Successful
  BY <1>2, <1>3, <1>4 DEF Answered, Successful
<1>6. r.code # "SCode" => r.code \in {From(handled[c]), "Unknown"}
  BY <1>2, <1>3 DEF Answered
<1>7. result'[c] = x /\ x \in Results
  BY <1>1, <1>2 DEF IInv, Domains, Results, Typed, Replies
<1>8. TrueSuccess(c)'
  BY <1>1, <1>2, <1>5, <1>7, CodeFacts DEF TrueSuccess, Typed, Replies
<1>9. TrueError(c)'
  BY <1>1, <1>6, <1>7, CodeFacts DEF TrueError
<1> HIDE DEF x
<1> QED
  BY <1>1, <1>7, <1>8, <1>9, LastStep

-----------------------------------------------------------------------------
(* Codes are registered while calls are answered.                          *)

LEMMA RegisterCodeStep ==
  ASSUME IInv, NEW code \in NewCode, NEW status \in Status, RegisterCode(code, status),
         UNCHANGED httpVars
  PROVE  IInv'
<1>1. CodesInv'
  BY DEF IInv, CodesInv, CodesTypeOK, RegisterCode, NoCode
<1>2. Clocks' /\ Domains'
  BY DEF IInv, Clocks, Domains, httpVars
<1>3. ASSUME NEW c \in Call PROVE CallInv(c)'
  <2>1. StatusRight(c)'
    <3>1. reply[c].code # "none"
      BY CodeFacts DEF IInv, CallInv, Typed, Replies
    <3> QED
      BY <3>1 DEF IInv, CallInv, StatusRight, StatusOf, RegisterCode, NoCode, httpVars
  <2> QED
    BY <2>1 DEF IInv, CallInv, Typed, Stamped, Fresh, LetThrough, RefusedFor, Answered,
                Concluded, TrueSuccess, TrueError, httpVars
<1> QED
  BY <1>1, <1>2, <1>3 DEF IInv

LEMMA CodeRegisteredStep ==
  ASSUME IInv, CodeRegistered, UNCHANGED httpVars
  PROVE  IInv'
<1>1. /\ registering \in [code : NewCode, status : Status]
      /\ registering.code \in NewCode /\ registering.code \notin DOMAIN codes
      /\ DOMAIN codes \subseteq NewCode
      /\ DOMAIN codes' = DOMAIN codes \cup {registering.code}
      /\ \A code \in DOMAIN codes : codes'[code] = codes[code]
      /\ codes'[registering.code] = registering.status
      /\ registering' = NoCode
  BY DEF IInv, CodesInv, CodesTypeOK, CodeRegistered
<1>2. CodesInv'
  BY <1>1 DEF IInv, CodesInv, CodesTypeOK, CodeRegistered
<1>3. Clocks' /\ Domains'
  BY DEF IInv, Clocks, Domains, httpVars
<1>4. ASSUME NEW c \in Call PROVE CallInv(c)'
  <2>1. StatusRight(c)'
    <3>1. registering.code \notin DOMAIN BuiltIn
      BY <1>1, CodeAssumption
    <3>2. reply'[c] = reply[c]
      BY DEF httpVars
    <3>3. CASE reply[c].code = registering.code
      BY <1>1, <3>1, <3>2, <3>3 DEF IInv, CallInv, StatusRight, StatusOf
    <3>4. CASE reply[c].code # registering.code
      BY <1>1, <3>2, <3>4 DEF IInv, CallInv, StatusRight, StatusOf
    <3> QED
      BY <3>3, <3>4
  <2> QED
    BY <2>1 DEF IInv, CallInv, Typed, Stamped, Fresh, LetThrough, RefusedFor, Answered,
                Concluded, TrueSuccess, TrueError, httpVars
<1> QED
  BY <1>2, <1>3, <1>4 DEF IInv

LEMMA DataRaceStep ==
  ASSUME IInv, DataRace, UNCHANGED httpVars
  PROVE  IInv'
<1>1. Clocks' /\ Domains' /\ CodesInv'
  BY DEF IInv, Clocks, Domains, httpVars, CodesInv, CodesTypeOK, DataRace
<1>2. ASSUME NEW c \in Call PROVE CallInv(c)'
  <2>1. StatusRight(c)'
    BY DEF IInv, CallInv, StatusRight, StatusOf, DataRace, httpVars
  <2> QED
    BY <2>1 DEF IInv, CallInv, Typed, Stamped, Fresh, LetThrough, RefusedFor, Answered,
                Concluded, TrueSuccess, TrueError, httpVars
<1> QED
  BY <1>1, <1>2 DEF IInv

LEMMA TickStep == ASSUME IInv, Tick PROVE IInv'
<1>1. Clocks' /\ CodesInv' /\ Domains' /\ now' >= now
  BY NumberAssumption
     DEF IInv, Tick, Clocks, Start, TicksPerSecond, CodesInv, CodesTypeOK, codeVars, Domains
<1>2. UNCHANGED <<pc, req, broken, seen, handled, reply, result, codeVars>>
  BY DEF Tick
<1> QED
  BY <1>1, <1>2, Steady DEF IInv

-----------------------------------------------------------------------------
(* IInv is an invariant.                                                   *)

LEMMA InvInit == Init => IInv
<1> SUFFICES ASSUME Init PROVE IInv
  OBVIOUS
<1>1. Clocks
  BY NumberAssumption DEF Init, Clocks, Start, TicksPerSecond
<1>2. CodesInv
  BY DEF Init, CodesInit, CodesInv, CodesTypeOK
<1>3. Domains
  BY DEF Init, Domains, Stage
<1>4. ASSUME NEW c \in Call PROVE CallInv(c)
  <2>1. /\ pc[c] = "idle" /\ req[c] = NoRequest /\ broken[c] = FALSE /\ seen[c] = "whole"
        /\ handled[c] = "no" /\ reply[c] = NoReply /\ result[c] = "none"
    BY DEF Init
  <2>2. NoReply \in Replies /\ NoReply.from = "none"
    BY CodeFacts DEF NoReply, Replies
  <2>3. Typed(c)
    <3>1. /\ NoRequest.kind = "http" /\ NoRequest.size \in Nat
          /\ NoRequest.length = NoRequest.size /\ NoRequest.body = "whole"
          /\ NoRequest.guarded = FALSE
      BY DEF NoRequest
    <3> QED
      BY <2>1, <2>2, <3>1 DEF Typed, Stage
  <2>4. Stamped(c)
    BY <2>1 DEF Stamped, NoRequest
  <2>5. Fresh(c) /\ LetThrough(c) /\ RefusedFor(c) /\ Answered(c) /\ StatusRight(c)
    BY <2>1, <2>2 DEF Fresh, LetThrough, RefusedFor, Answered, StatusRight, NoRequest
  <2>6. Concluded(c) /\ TrueSuccess(c) /\ TrueError(c)
    BY <2>1, CodeFacts DEF Concluded, TrueSuccess, TrueError
  <2> QED
    BY <2>3, <2>4, <2>5, <2>6 DEF CallInv
<1> QED
  BY <1>1, <1>2, <1>3, <1>4 DEF IInv

LEMMA InvNext == IInv /\ [Next]_vars => IInv'
<1> SUFFICES ASSUME IInv, [Next]_vars PROVE IInv'
  OBVIOUS
<1>1. CASE Tick
  BY <1>1, TickStep
<1>2. CASE Codes
  BY <1>2, RegisterCodeStep, CodeRegisteredStep, DataRaceStep DEF Codes
<1>3. ASSUME NEW c \in Call, NEW size \in Size, NEW known \in BOOLEAN, NEW key \in Key,
             NEW method \in {"GET", "OPTIONS"}, ClientHTTP(c, key, size, known, method)
      PROVE  IInv'
  <2>1. UNCHANGED <<now, skew, codeVars>>
    BY <1>3 DEF ClientHTTP
  <2> QED
    BY <1>3, <2>1, ClientHTTPInv, LocalStep
<1>4. ASSUME NEW c \in Call, NEW size \in Size, NEW known \in BOOLEAN,
             NewRequest(c, size, known)
      PROVE  IInv'
  <2>1. UNCHANGED <<now, skew, codeVars>>
    BY <1>4 DEF NewRequest
  <2> QED
    BY <1>4, <2>1, NewRequestStep, LocalStep
<1>5. ASSUME NEW c \in Call, NEW kind \in {"query", "queryRange"}, NEW range,
             Query(c, kind, range)
      PROVE  IInv'
  <2>1. UNCHANGED <<now, skew, codeVars>>
    BY <1>5 DEF Query
  <2> QED
    BY <1>5, <2>1, QueryStep, LocalStep
<1>6. ASSUME NEW c \in Call, Do(c) \/ DoFails(c) \/ DoReturns(c) PROVE IInv'
  <2>1. UNCHANGED <<now, skew, codeVars>>
    BY <1>6 DEF Do, DoFails, DoReturns
  <2> QED
    BY <1>6, <2>1, DoStep, DoFailsStep, DoReturnsStep, LocalStep
<1>7. ASSUME NEW c \in Call,
             ServerHTTP(c, ServerKey) \/ ServerHTTPDisabled(c) \/ Unguarded(c)
      PROVE  IInv'
  <2>1. UNCHANGED <<now, skew, codeVars>>
    BY <1>7 DEF ServerHTTP, ServerHTTPDisabled, Unguarded
  <2> QED
    BY <1>7, <2>1, ServerHTTPStep, DisabledStep, UnguardedStep, LocalStep
<1>8. ASSUME NEW c \in Call, RequestBodyDecoder(c) \/ Handler(c) \/ Evaluate(c)
      PROVE  IInv'
  <2>1. UNCHANGED <<now, skew, codeVars>>
    BY <1>8 DEF RequestBodyDecoder, Handler, Evaluate
  <2> QED
    BY <1>8, <2>1, DecoderStep, HandlerStep, EvaluateStep, LocalStep
<1>9. ASSUME NEW c \in Call, RPC(c) \/ HandleRPC(c) \/ RPCFails(c) PROVE IInv'
  <2>1. UNCHANGED <<now, skew, codeVars>>
    BY <1>9 DEF RPC, HandleRPC, RPCFails
  <2> QED
    BY <1>9, <2>1, RPCStep, HandleRPCStep, RPCFailsStep, LocalStep
<1>10. ASSUME NEW c \in Call,
              getConfig(c) \/ FromError(c) \/ Queried(c) \/ FromStatus(c)
       PROVE  IInv'
  <2>1. UNCHANGED <<now, skew, codeVars>>
    BY <1>10 DEF getConfig, FromError, Queried, FromStatus
  <2> QED
    BY <1>10, <2>1, getConfigStep, FromErrorStep, QueriedStep, FromStatusStep, LocalStep
<1>11. CASE UNCHANGED vars
  <2>1. Clocks' /\ CodesInv' /\ Domains' /\ now' >= now
    BY <1>11 DEF IInv, vars, httpVars, codeVars, Clocks, Start, TicksPerSecond, CodesInv,
                 CodesTypeOK, Domains
  <2>2. UNCHANGED <<pc, req, broken, seen, handled, reply, result, codeVars>>
    BY <1>11 DEF vars, httpVars
  <2> QED
    BY <2>1, <2>2, Steady DEF IInv
<1> QED
  BY <1>1, <1>2, <1>3, <1>4, <1>5, <1>6, <1>7, <1>8, <1>9, <1>10, <1>11 DEF Next

LEMMA Invariant == Spec => []IInv
BY InvInit, InvNext, PTL DEF Spec

\* The variables of a call keep their types, whatever the codes and sizes.
THEOREM TypeCorrect == Spec => []TypeOK
<1>1. IInv => TypeOK
  <2> SUFFICES ASSUME IInv PROVE TypeOK
    OBVIOUS
  <2>1. now \in Start .. MaxNow /\ skew \in Skew /\ pc \in [Call -> Stage] /\ CodesTypeOK
    BY DEF IInv, Clocks, Domains, CodesInv
  <2>2. ASSUME NEW c \in Call
        PROVE  /\ Typed(c) /\ Fresh(c)
               /\ reply[c].from # "none" => reply[c].status \in 100 .. 999
    <3>1. Typed(c) /\ Fresh(c) /\ Answered(c)
      BY DEF IInv, CallInv
    <3>2. reply[c].from # "none" => reply[c].status \in 100 .. 999
      BY <3>1 DEF Answered
    <3> QED
      BY <3>1, <3>2
  <2> QED
    BY <2>1, <2>2 DEF TypeOK, Typed, Fresh, Replies
<1> QED
  BY <1>1, Invariant, PTL

\* The two ends of the signature agree for any clocks, tolerance, keys and body
\* lengths: a request is refused only for a key, a cut body or its age.
THEOREM RefusalsHaveCauses == Spec => []RefusedForCause
<1>1. IInv => RefusedForCause
  BY DEF IInv, CallInv, RefusedFor, RefusedForCause
<1> QED
  BY <1>1, Invariant, PTL

\* Behind the middleware no handler runs on a body that was cut after it was
\* signed, nor on one that is shorter than it was declared, whatever read errors
\* are ignored before it.
THEOREM BodiesArriveWhole == Spec => []HandlerSeesWhatWasSent
<1>1. IInv => HandlerSeesWhatWasSent
  BY DEF IInv, CallInv, Stamped, LetThrough, HandlerSeesWhatWasSent
<1> QED
  BY <1>1, Invariant, PTL

\* No caller takes a failure for a success, but for the answers without a code
\* and the errors with the success code that the property names.
THEOREM SuccessIsTrue == Spec => []NoFalseSuccess
<1>1. IInv => NoFalseSuccess
  BY DEF IInv, CallInv, TrueSuccess, NoFalseSuccess
<1> QED
  BY <1>1, Invariant, PTL

\* An error keeps its code from the handler to the caller, and an answer has
\* the status of its code, also while codes are being registered.
THEOREM ErrorsKeepTheirCodes == Spec => []ErrorSurvives
<1>1. IInv => ErrorSurvives
  <2> SUFFICES ASSUME IInv, NEW c \in Call
               PROVE  /\ TrueError(c)
                      /\ reply[c].from = "chttp" =>
                           reply[c].status \in {StatusOf(reply[c].code), DefaultStatus}
                             \/ reply[c].code = registering.code
    BY DEF ErrorSurvives, TrueError
  <2> QED
    BY DEF IInv, CallInv, StatusRight
<1> QED
  BY <1>1, Invariant, PTL
=============================================================================
