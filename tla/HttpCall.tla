------------------------------ MODULE HttpCall ------------------------------
(***************************************************************************)
(* An HTTP call between two services built with the SDK: the caller signs  *)
(* the request (middleware/xsign.middleware.go, ClientHTTP), xhttp's Do    *)
(* sends it, the server's signing middleware checks it (ServerHTTP), chttp *)
(* decodes the body, the handler runs, chttp encodes the reply with the    *)
(* codes of cerr, Do records it, and the caller takes it apart, with       *)
(* chttp's FromError or as k2's getConfig does.  Beside it, the same       *)
(* handler called over gRPC (cgrpc), and the queries that xvm sends with   *)
(* Do to a VictoriaMetrics server.                                         *)
(*                                                                         *)
(* What the parts must agree on is kept: the clock readings, the body      *)
(* lengths each side compares with its own limit, what a reader finds in a *)
(* body after someone else read it, and read errors that are ignored.      *)
(* Lengths are in megabytes and -1 when unknown; a body is "whole", or     *)
(* "short" when its end was lost; a signature is the triple it digests.    *)
(***************************************************************************)
EXTENDS ErrorCodes, MetricsQuery

CONSTANTS
  Call,        \* the calls, independent but for the clock
  Size,        \* the body lengths considered, in megabytes
  Skew,        \* the caller's clock minus the server's, in ticks
  Range,       \* the ranges and limits of the range queries considered
  Tolerance,   \* how old a signature may be, in ticks
  MaxNow       \* bound: last tick

\* Both clocks are well past the epoch.
Start == 2 * TicksPerSecond

ASSUME NumberAssumption ==
  /\ Size \subseteq Nat /\ Skew \subseteq Int /\ (\A s \in Skew : Start + s >= 0)
  /\ Tolerance \in Nat /\ MaxNow \in Nat /\ MaxNow >= Start
  /\ Range \subseteq [start : Int, end : Int, limit : Nat]

\* A code is a number: it is none of the words that stand for other outcomes.
ASSUME NamesAssumption ==
  NewCode \cap {"none", "fine", "plain", "invalid", "no", "failed", "success", "noError",
                "auth", "errQuery", "metrics", "partial", "Unknown", "Unavailable"} = {}

\* What a handler may return: nothing wrong, some error, the error of a
\* generated validator, or an error with a code, even with the success code:
\* cerr.New takes any.
Outcome == {"fine", "plain", "invalid"} \cup ErrCode

\* The outcomes that are answered with the success code.
Successful == {"fine", "SCode"}

VARIABLES
  now,      \* the server's clock
  skew,     \* the caller's clock minus the server's
  pc,       \* where each call is
  req,      \* what was sent: what kind of call, its size, declared length, whether behind the middleware,
            \* method, timestamp, signature, body as the caller's reader gave it,
            \* range of a query
  broken,   \* the connection has failed
  seen,     \* the body as the next reader on the server will find it
  handled,  \* "no", or what the handler returned
  reply,    \* status, code, data, and who wrote it
  result    \* what the caller made of it

httpVars == <<now, skew, pc, req, broken, seen, handled, reply, result>>
vars == <<httpVars, codeVars>>

Stage == {"idle", "signed", "sent", "decoding", "handling", "replied", "recorded",
          "aborted", "over"}

NoRange == [start |-> 0, end |-> 0, limit |-> 0]

NoRequest == [kind |-> "http", range |-> NoRange, size |-> 0, length |-> 0, guarded |-> FALSE,
              method |-> "GET", signedAt |-> 0, ts |-> 0, sign |-> << >>, body |-> "whole"]

NoReply == [status |-> 0, code |-> "SCode", data |-> "none", from |-> "none", body |-> "whole"]

Init ==
  /\ now = Start
  /\ skew \in Skew
  /\ pc = [c \in Call |-> "idle"]
  /\ req = [c \in Call |-> NoRequest]
  /\ broken = [c \in Call |-> FALSE]
  /\ seen = [c \in Call |-> "whole"]
  /\ handled = [c \in Call |-> "no"]
  /\ reply = [c \in Call |-> NoReply]
  /\ result = [c \in Call |-> "none"]
  /\ CodesInit

Tick == now < MaxNow /\ now' = now + 1
        /\ UNCHANGED <<skew, pc, req, broken, seen, handled, reply, result, codeVars>>

Goto(c, stage) == pc' = [pc EXCEPT ![c] = stage]

\* What reading a body to its end yields: less than was there, if its source
\* or the connection under it fails.
ReadAll(body, mayFail) == {body} \cup (IF mayFail THEN {"short"} ELSE {})

-----------------------------------------------------------------------------
(* The signature.                                                          *)

MegaByte16 == 16

\* The part of the body a side that knows this length covers.
Covered(length, body) == IF length < MegaByte16 THEN body ELSE "none"

Signed(key, ts, covered) == <<key, ts, covered>>

\* ClientHTTP stamps the request with the whole seconds of its clock and
\* signs.  The body it read replaces the one it was given, also when reading
\* failed half way.
ClientHTTP(c, key, size, known, method) ==
  /\ pc[c] = "idle"
  /\ LET length == IF known THEN size ELSE -1
         clock  == now + skew
         ts     == (clock \div TicksPerSecond) * TicksPerSecond
     IN  \E body \in ReadAll("whole", size > 0 /\ length < MegaByte16) :
           req' = [req EXCEPT ![c] =
                     [kind |-> "http", range |-> NoRange, size |-> size, length |-> length,
                      guarded |-> TRUE, method |-> method, signedAt |-> clock, ts |-> ts,
                      body |-> body, sign |-> Signed(key, ts, Covered(length, body))]]
  /\ Goto(c, "signed")
  /\ UNCHANGED <<now, skew, broken, seen, handled, reply, result, codeVars>>

\* A call to a route without the middleware is not signed.
NewRequest(c, size, known) ==
  /\ pc[c] = "idle"
  /\ req' = [req EXCEPT ![c] = [NoRequest EXCEPT !.size = size,
                                                 !.length = IF known THEN size ELSE -1]]
  /\ Goto(c, "signed")
  /\ UNCHANGED <<now, skew, broken, seen, handled, reply, result, codeVars>>

\* Query and QueryRange: a GET without a body.
Query(c, kind, range) ==
  /\ pc[c] = "idle"
  /\ req' = [req EXCEPT ![c] = [NoRequest EXCEPT !.kind = kind, !.range = range]]
  /\ Goto(c, "signed")
  /\ UNCHANGED <<now, skew, broken, seen, handled, reply, result, codeVars>>

-----------------------------------------------------------------------------
(* The transport and xhttp's Do.                                           *)

CallFails(c) == result' = [result EXCEPT ![c] = "failed"]

\* Do hands the request to net/http, which refuses a body that is shorter
\* than its declared length.
Do(c) ==
  /\ pc[c] = "signed"
  /\ IF req[c].length > 0 /\ req[c].body = "short"
     THEN Goto(c, "over") /\ CallFails(c) /\ UNCHANGED seen
     ELSE Goto(c, "sent") /\ seen' = [seen EXCEPT ![c] = req[c].body] /\ UNCHANGED result
  /\ UNCHANGED <<now, skew, req, broken, handled, reply, codeVars>>

\* The connection fails or the client's timeout expires while Do waits for the
\* reply: Do returns the error; the server goes on with what it received.
DoFails(c) ==
  /\ pc[c] \in {"sent", "decoding", "handling", "replied", "aborted"} /\ result[c] = "none"
  /\ broken' = [broken EXCEPT ![c] = TRUE]
  /\ CallFails(c)
  /\ UNCHANGED <<now, skew, pc, req, seen, handled, reply, codeVars>>

-----------------------------------------------------------------------------
(* The server.                                                             *)

Arrived(c) == alive /\ pc[c] = "sent"

\* net/http panics on a status that is none, and closes the connection.
Answer(c, r) ==
  IF r.status \in 100 .. 999
  THEN reply' = [reply EXCEPT ![c] = r] /\ Goto(c, "replied")
  ELSE Goto(c, "aborted") /\ UNCHANGED reply

\* The middleware's own answers have a message and no code.
Refusal == [NoReply EXCEPT !.status = 400, !.from = "middleware"]
EmptyAnswer == [NoReply EXCEPT !.status = 200, !.from = "nobody"]

\* Mistake: the age measured in whole seconds, rounded up.
ExpiredRounded(c) ==
  ((now + TicksPerSecond - 1) \div TicksPerSecond) * TicksPerSecond - req[c].ts >= Tolerance

Expired(c) == now - req[c].ts > Tolerance

\* Mistake: the signature of a body that could not be read to its end let pass.
ServerHTTPLenient(c, key) ==
  /\ Arrived(c) /\ req[c].guarded
  /\ \E body \in ReadAll(seen[c], broken[c] /\ req[c].size > 0) :
       seen' = [seen EXCEPT ![c] = body] /\ Goto(c, "decoding")
  /\ UNCHANGED <<now, skew, req, broken, handled, reply, result, codeVars>>

\* ServerHTTP: for OPTIONS it returns at once and net/http sends an empty
\* answer.  Otherwise an expired request is refused,
\* the body is read again and replaced by what was read, read error or not, and
\* the request goes on only if the signature is that of what was read.
ServerHTTP(c, key) ==
  /\ Arrived(c) /\ req[c].guarded
  /\ IF req[c].method = "OPTIONS"
     THEN Answer(c, EmptyAnswer) /\ UNCHANGED seen
     ELSE IF Expired(c)
     THEN Answer(c, Refusal) /\ UNCHANGED seen
     ELSE \E body \in ReadAll(seen[c], broken[c] /\ req[c].size > 0 /\ req[c].length < MegaByte16) :
            /\ seen' = [seen EXCEPT ![c] = body]
            /\ IF req[c].sign = Signed(key, req[c].ts, Covered(req[c].length, body))
               THEN Goto(c, "decoding") /\ UNCHANGED reply
               ELSE Answer(c, Refusal)
  /\ UNCHANGED <<now, skew, req, broken, handled, result, codeVars>>

\* A middleware that is not enabled does not pass the request on either.
ServerHTTPDisabled(c) ==
  /\ Arrived(c) /\ req[c].guarded
  /\ Answer(c, EmptyAnswer)
  /\ UNCHANGED <<now, skew, req, broken, seen, handled, result, codeVars>>

\* No middleware; a query, too, may reach a service built with the SDK.
Unguarded(c) ==
  /\ Arrived(c) /\ ~req[c].guarded /\ req[c].kind # "grpc"
  /\ Goto(c, "decoding")
  /\ UNCHANGED <<now, skew, req, broken, seen, handled, reply, result, codeVars>>

\* The code of an error: ErrorEncoder renames validation errors.
CodeOf(outcome) ==
  IF outcome = "invalid" THEN "EInvalidParamCode" ELSE From(outcome)

\* Mistake: the error not searched for a code.
ErrorEncoderPlain(outcome) ==
  {[NoReply EXCEPT !.status = 500, !.code = "EUnknownCode", !.data = "envelope",
                   !.from = "chttp"]}

\* Mistake: an error written like a result.
ErrorEncoderOK(outcome) ==
  {[NoReply EXCEPT !.status = status, !.data = "envelope", !.from = "chttp"] :
     status \in AsHTTPCode(CodeOf(outcome))}

\* The answers that ErrorEncoder may write.
ErrorEncoder(outcome) ==
  {[NoReply EXCEPT !.status = status, !.code = CodeOf(outcome), !.data = "envelope",
                   !.from = "chttp"] :
     status \in AsHTTPCode(CodeOf(outcome))}

ResponseEncoder ==
  [NoReply EXCEPT !.status = 200, !.data = "envelope", !.from = "chttp"]

AnswerError(c, outcome) == \E r \in ErrorEncoder(outcome) : Answer(c, r)

\* A read on the server fails with the connection, unless the middleware has
\* put the body in memory.
MayFail(c) ==
  broken[c] /\ req[c].size > 0 /\ ~(req[c].guarded /\ req[c].length < MegaByte16)

\* RequestBodyDecoder leaves an empty or a long body alone.  What it reads it
\* puts back for the handler, and what cannot be read or parsed is an error; a
\* short body does not parse.
RequestBodyDecoder(c) ==
  /\ alive /\ pc[c] = "decoding"
  /\ IF req[c].length = 0 \/ req[c].length > 4
     THEN /\ \E body \in ReadAll(seen[c], MayFail(c)) :
               seen' = [seen EXCEPT ![c] = body]
          /\ Goto(c, "handling") /\ UNCHANGED reply
     ELSE \E body \in ReadAll(seen[c], MayFail(c)), parses \in BOOLEAN :
            /\ seen' = [seen EXCEPT ![c] = body]
            /\ IF req[c].size = 0 \/ (body = "whole" /\ parses)
               THEN Goto(c, "handling") /\ UNCHANGED reply
               ELSE AnswerError(c, "EParamUnparsedCode")
  /\ UNCHANGED <<now, skew, req, broken, handled, result, codeVars>>

\* The handler runs; a result that cannot be encoded becomes an error.
Handler(c) ==
  /\ alive /\ pc[c] = "handling"
  /\ \E outcome \in Outcome :
       /\ handled' = [handled EXCEPT ![c] = outcome]
       /\ IF outcome = "fine"
          THEN Answer(c, ResponseEncoder) \/ AnswerError(c, "plain")
          ELSE AnswerError(c, outcome)
  /\ UNCHANGED <<now, skew, req, broken, seen, result, codeVars>>

-----------------------------------------------------------------------------
(* The same handler behind gRPC, and the other servers.                    *)

\* AsGrpcError keeps the number of the code; an error that is returned without
\* it gets a code of gRPC's own.
AsGrpcError(outcome) == From(outcome)
GrpcStatus(outcome) == {AsGrpcError(outcome), "Unknown"}

RPC(c) ==
  /\ pc[c] = "idle"
  /\ req' = [req EXCEPT ![c] = [NoRequest EXCEPT !.kind = "grpc"]]
  /\ Goto(c, "sent")
  /\ UNCHANGED <<now, skew, broken, seen, handled, reply, result, codeVars>>

HandleRPC(c) ==
  /\ Arrived(c) /\ req[c].kind = "grpc"
  /\ \E outcome \in Outcome :
       /\ handled' = [handled EXCEPT ![c] = outcome]
       /\ \E code \in (IF outcome = "fine" THEN {"SCode"} ELSE GrpcStatus(outcome)) :
            reply' = [reply EXCEPT ![c] =
                        [NoReply EXCEPT !.status = 200, !.code = code, !.from = "grpc"]]
  /\ Goto(c, "recorded")
  /\ UNCHANGED <<now, skew, req, broken, seen, result, codeVars>>

\* The call fails on the way.  Canceled has the number of EUnknownCode,
\* Unavailable that of no code; the handler may run all the same.
RPCFails(c) ==
  /\ pc[c] \in {"sent", "recorded"} /\ req[c].kind = "grpc" /\ result[c] = "none"
  /\ \E code \in {"EUnknownCode", "Unavailable"} : result' = [result EXCEPT ![c] = code]
  /\ UNCHANGED <<now, skew, pc, req, broken, seen, handled, reply, codeVars>>

\* VictoriaMetrics refuses a step that is not positive, and answers a query with
\* its series, all of them or those it could reach, or with an error, which may
\* come with status 200; it may want a password.
Evaluate(c) ==
  /\ pc[c] = "sent" /\ req[c].kind \in {"query", "queryRange"}
  /\ LET answer(status, data) ==
           Answer(c, [NoReply EXCEPT !.status = status, !.data = data, !.from = "vm"])
     IN  IF req[c].kind = "queryRange" /\ Points(req[c].range) = 0
         THEN answer(400, "error")
         ELSE \/ \E data \in {"series", "partial", "scalar", "error"} : answer(200, data)
              \/ \E status \in {401, 503} : answer(status, "error")
  /\ UNCHANGED <<now, skew, req, broken, seen, handled, result, codeVars>>

-----------------------------------------------------------------------------
(* The reply at the caller.                                                *)

\* Do reads a reply that is short or of unknown length into memory, to record
\* it, and ignores a read error: the caller then finds a shorter body and no
\* error.  A long reply it leaves to the caller, whose reader fails instead.
DoReturns(c) ==
  /\ pc[c] = "replied" /\ result[c] = "none"
  /\ \E body \in ReadAll("whole", TRUE) :
       reply' = [reply EXCEPT ![c].body = body]
  /\ Goto(c, "recorded")
  /\ UNCHANGED <<now, skew, req, broken, seen, handled, result, codeVars>>

Parses(r) == r.body = "whole" /\ r.from # "nobody"

\* getConfig wants status 200 and the success code in a body that parses.
getConfig(c) ==
  /\ pc[c] = "recorded" /\ req[c].kind = "http"
  /\ LET r == reply[c]
     IN  result' = [result EXCEPT ![c] =
                      IF r.status # 200 \/ ~Parses(r) \/ r.code # "SCode"
                      THEN "failed" ELSE "success"]
  /\ Goto(c, "over")
  /\ UNCHANGED <<now, skew, req, broken, seen, handled, reply, codeVars>>

\* FromError takes the code of a reply for the whole truth.
FromError(c) ==
  /\ pc[c] = "recorded" /\ req[c].kind = "http"
  /\ LET r == reply[c]
     IN  result' = [result EXCEPT ![c] =
                      IF ~Parses(r) THEN "failed"
                      ELSE IF r.code = "SCode" THEN "noError" ELSE r.code]
  /\ Goto(c, "over")
  /\ UNCHANGED <<now, skew, req, broken, seen, handled, reply, codeVars>>

\* Query and QueryRange decode the body, and look for the status in it.
Queried(c) ==
  /\ pc[c] = "recorded" /\ req[c].kind \in {"query", "queryRange"}
  /\ LET r == reply[c]
     IN  \E decodes \in Decodes(r.data) :
           result' = [result EXCEPT ![c] =
                        QueryOutcome(r.status, r.data, decodes /\ Parses(r))]
  /\ Goto(c, "over")
  /\ UNCHANGED <<now, skew, req, broken, seen, handled, reply, codeVars>>

\* cgrpc's FromError: the number of the status is the code.
FromStatus(c) ==
  /\ pc[c] = "recorded" /\ req[c].kind = "grpc" /\ result[c] = "none"
  /\ result' = [result EXCEPT ![c] =
                   IF reply[c].code = "SCode" THEN "noError" ELSE reply[c].code]
  /\ Goto(c, "over")
  /\ UNCHANGED <<now, skew, req, broken, seen, handled, reply, codeVars>>

-----------------------------------------------------------------------------
\* The caller and the server may have been given different keys.
Key == {"k", "other"}
ServerKey == "k"

\* A call waits for its answer to be encoded while a code is being registered.
Racing == \E c \in Call : pc[c] \in {"decoding", "handling"}

Codes ==
  /\ \/ \E code \in NewCode, status \in Status : RegisterCode(code, status)
     \/ CodeRegistered
     \/ Racing /\ DataRace
  /\ UNCHANGED httpVars

Next ==
  \/ Tick
  \/ Codes
  \/ \E c \in Call, size \in Size, known \in BOOLEAN :
       \/ \E key \in Key, method \in {"GET", "OPTIONS"} :
            ClientHTTP(c, key, size, known, method)
       \/ NewRequest(c, size, known)
  \/ \E c \in Call :
       \/ Query(c, "query", NoRange) \/ \E range \in Range : Query(c, "queryRange", range)
       \/ Do(c) \/ DoFails(c) \/ DoReturns(c)
       \/ ServerHTTP(c, ServerKey) \/ ServerHTTPDisabled(c) \/ Unguarded(c)
       \/ RequestBodyDecoder(c) \/ Handler(c) \/ Evaluate(c)
       \/ RPC(c) \/ HandleRPC(c) \/ RPCFails(c)
       \/ getConfig(c) \/ FromError(c) \/ Queried(c) \/ FromStatus(c)

Spec == Init /\ [][Next]_vars

-----------------------------------------------------------------------------
(* Properties.                                                             *)

TypeOK ==
  /\ now \in Start .. MaxNow /\ skew \in Skew
  /\ pc \in [Call -> Stage]
  /\ CodesTypeOK
  /\ \A c \in Call :
       /\ req[c].kind \in {"http", "grpc", "query", "queryRange"}
       /\ req[c].size \in Nat /\ req[c].length \in {-1, req[c].size}
       /\ req[c].body \in {"whole", "short"} /\ seen[c] \in {"whole", "short"}
       /\ reply[c].code \in ErrCode \cup {"Unknown"}
       /\ reply[c].from # "none" => reply[c].status \in 100 .. 999
       /\ handled[c] \in {"no"} \cup Outcome
       /\ result[c] \in {"none", "failed", "success", "noError", "auth", "errQuery",
                         "metrics", "partial", "Unknown", "Unavailable"} \cup ErrCode
       /\ pc[c] \in {"idle", "signed"} => reply[c] = NoReply /\ handled[c] = "no"

\* The two ends of the signature agree.  A request is refused only because the
\* two sides have different keys, because its body was cut on the way, or
\* because it is old: by the two clocks, more than the tolerance less the second
\* that the timestamp's resolution takes away.
RefusedForCause ==
  \A c \in Call :
    reply[c].from = "middleware" =>
      \/ req[c].sign[1] # ServerKey
      \/ seen[c] # req[c].body
      \/ now - req[c].signedAt > Tolerance - TicksPerSecond

\* Both sides read the body and ignore an error, and both times it is made good:
\* behind the middleware no handler runs on less than the body that was signed,
\* if the signature covers the body; and if its length was declared, on less
\* than the body the caller meant, as net/http does not send a shorter one.  A
\* body of unknown length that the caller's own reader cut goes through, signed.
HandlerSeesWhatWasSent ==
  \A c \in Call :
    handled[c] # "no" /\ req[c].guarded /\ req[c].length < MegaByte16 =>
      /\ seen[c] = req[c].body
      /\ req[c].length >= 0 => seen[c] = "whole"

\* Whatever was refused, cut, lost or late on the way, getConfig returns a
\* configuration only if the handler ran and returned one, or an error that it
\* gave the success code (cerr.go, line 186, lets it); FromError reports no error
\* only then, or for an answer that the middleware wrote, which carries no code;
\* and a query returns data only if VictoriaMetrics sent them whole, as
\* partial when they were, or if a service that is none answered with status 200.
NoFalseSuccess ==
  \A c \in Call :
    LET r == reply[c]
    IN  /\ result[c] = "success" => handled[c] \in Successful
        /\ result[c] = "noError" => handled[c] \in Successful \/ r.from = "middleware"
        /\ result[c] \in {"metrics", "partial"} =>
             /\ r.status = 200 /\ r.body = "whole"
             /\ \/ r.data = (IF result[c] = "metrics" THEN "series" ELSE "partial")
                \/ r.from = "chttp"

\* An error survives the trip: the code that FromError returns is the one the
\* handler's error stands for, unless the handler never saw the request, or its
\* result could not be encoded, or a gRPC call was cancelled.  And the status of
\* an answer is the one its code is registered with, from then on, or the default
\* that codes have before they are and while they are being registered.
ErrorSurvives ==
  \A c \in Call :
    /\ result[c] \in ErrCode =>
         IF req[c].kind = "grpc" THEN result[c] \in {From(handled[c]), "EUnknownCode"}
         ELSE CASE handled[c] = "no" -> result[c] = "EParamUnparsedCode"
                [] handled[c] = "fine" -> result[c] = "EUnknownCode"
                [] OTHER -> result[c] = CodeOf(handled[c])
    /\ reply[c].from = "chttp" =>
         reply[c].status \in {StatusOf(reply[c].code), DefaultStatus}
           \/ reply[c].code = registering.code

\* What client.go promises of its limit, in its comments on lines 109 and 150:
\* it is the most values that are returned for each series.  A range query that
\* VictoriaMetrics answers with all it asks for returns no more.
WithinLimit ==
  \A c \in Call :
    result[c] \in {"metrics", "partial"} /\ reply[c].from = "vm"
      /\ req[c].kind = "queryRange" =>
         Points(req[c].range) <= Limit(req[c].range.limit)
=============================================================================
