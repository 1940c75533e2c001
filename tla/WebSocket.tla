------------------------------ MODULE WebSocket ------------------------------
(****************************************************************************)
(* One connection of adapter/kratos/transport/websocket: the server that    *)
(* accepts it, handleConnections, its read loop and its write loop, and the *)
(* application's IReplier between them.  The loops share the connection, a  *)
(* context and the replier; nobody but the close handler, and an errgroup   *)
(* that catches a panic, cancels the context.  Stop does not: it closes the *)
(* listener, and the connections already made live on.                      *)
(*                                                                          *)
(* External: gorilla/websocket and the errgroup.  Two writes at once make   *)
(* gorilla panic in one of them, or not; so does reading on and on from a   *)
(* broken connection.  The errgroup turns a panic of a loop into an error   *)
(* and cancels the context.  A replier returns from Reply once its context  *)
(* is cancelled, if not before.  Nobody sets a write deadline: a write to a *)
(* peer that does not read ends when the connection does.                   *)
(****************************************************************************)
EXTENDS Naturals

CONSTANTS
  MaxMsg,      \* bound on the messages the peer sends
  MaxReadErr   \* failed reads after which gorilla panics (1000)

ASSUME WebSocketAssumption == MaxMsg \in Nat /\ MaxReadErr \in Nat \ {0}

VARIABLES
  server,   \* the server: "made" by NewServer, "serving", "stopped"
  hPc,      \* where handleConnections stands
  rPc,      \* where the read loop stands
  wPc,      \* where the write loop stands
  ctx,      \* the context of the loops has not been cancelled
  wsOpen,   \* the connection was made, and ws.Close was not called
  peer,     \* "up", or how it ended: "close" frame, "gone", "garbage"
  reads,    \* the peer reads what is written to it
  msgs,     \* messages read so far
  readErrs, \* failed reads so far
  why,      \* how the read loop ended
  closes,   \* calls of replier.Close
  late      \* calls of replier.Reply begun after one of those (2: or more)

vars == <<server, hPc, rPc, wPc, ctx, wsOpen, peer, reads, msgs, readErrs, why,
          closes, late>>

ReadPc == {"off", "select", "read", "apply", "refuse", "refusing", "reject",
           "rejecting", "closeReplier", "closeWs", "done"}
WritePc == {"off", "select", "call", "reply", "write", "writing", "done",
            "panicked"}
WriterEnded == {"done", "panicked"}
Writing == {"refusing", "rejecting"}   \* the read loop is writing an error

TypeOK ==
  /\ server \in {"made", "serving", "stopped"}
  /\ hPc \in {"none", "build", "pre", "upgrade", "wait", "closeReplier", "closeWs",
             "error", "returned"}
  /\ rPc \in ReadPc /\ wPc \in WritePc
  /\ ctx \in BOOLEAN /\ wsOpen \in BOOLEAN
  /\ peer \in {"up", "close", "gone", "garbage"} /\ reads \in BOOLEAN
  /\ msgs \in 0..MaxMsg /\ readErrs \in 0..MaxReadErr
  /\ why \in {"", "ctx", "close", "gone", "invalid", "panic"}
  /\ closes \in 0..2 /\ late \in 0..2

Init ==
  /\ server = "made" /\ hPc = "none" /\ rPc = "off" /\ wPc = "off"
  /\ ctx = TRUE /\ wsOpen = FALSE
  /\ peer = "up" /\ reads = TRUE /\ msgs = 0 /\ readErrs = 0
  /\ why = "" /\ closes = 0 /\ late = 0

-----------------------------------------------------------------------------
(* The server.  Stop closes the listener and nothing else.                  *)

ServerFrame ==
  UNCHANGED <<hPc, rPc, wPc, ctx, wsOpen, peer, reads, msgs, readErrs, why, closes,
              late>>

Start == server = "made" /\ server' = "serving" /\ ServerFrame

Stop == server # "stopped" /\ server' = "stopped" /\ ServerFrame

-----------------------------------------------------------------------------
(* handleConnections, and the handler of the mux that calls it.             *)

HFrame == UNCHANGED <<server, peer, reads, msgs, readErrs, why, late>>

\* A request for the builder's path comes in.
Accept ==
  /\ server = "serving"
  /\ hPc = "none" /\ hPc' = "build"
  /\ UNCHANGED <<rPc, wPc, ctx, wsOpen, closes>> /\ HFrame

\* The builder makes the connection's handler, or the server's
\* errorEncodeFunc answers the request.
Build ==
  /\ hPc = "build" /\ hPc' \in {"pre", "returned"}
  /\ UNCHANGED <<rPc, wPc, ctx, wsOpen, closes>> /\ HFrame

\* The middlewares, the first of them outermost, let the request through, or
\* one of them refuses it.
Middlewares ==
  /\ hPc = "pre" /\ hPc' \in {"upgrade", "error"}
  /\ UNCHANGED <<rPc, wPc, ctx, wsOpen, closes>> /\ HFrame

UpgradeFails ==
  /\ hPc = "upgrade" /\ hPc' = "error"
  /\ UNCHANGED <<rPc, wPc, ctx, wsOpen, closes>> /\ HFrame

Upgrade ==
  /\ hPc = "upgrade" /\ hPc' = "wait"
  /\ wsOpen' = TRUE
  /\ rPc' = "select" /\ wPc' = "select"
  /\ UNCHANGED <<ctx, closes>> /\ HFrame

\* Mutant: wait for one of the loops only.
WaitForOne ==
  /\ hPc = "wait" /\ (rPc = "done" \/ wPc \in WriterEnded)
  /\ hPc' = "closeReplier"
  /\ ctx' = FALSE
  /\ UNCHANGED <<rPc, wPc, wsOpen, closes>> /\ HFrame

\* eg.Wait: both loops have returned.
Wait ==
  /\ hPc = "wait" /\ rPc = "done" /\ wPc \in WriterEnded
  /\ hPc' = "closeReplier"
  /\ ctx' = FALSE
  /\ UNCHANGED <<rPc, wPc, wsOpen, closes>> /\ HFrame

\* The deferred calls, the last one first.
CloseReplier ==
  /\ hPc = "closeReplier" /\ hPc' = "closeWs"
  /\ closes' = closes + 1
  /\ UNCHANGED <<rPc, wPc, ctx, wsOpen>> /\ HFrame

\* Mutant: both deferred calls are replier.Close.
CloseReplierAgain ==
  /\ hPc = "closeWs" /\ hPc' = "returned"
  /\ closes' = closes + 1
  /\ UNCHANGED <<rPc, wPc, ctx, wsOpen>> /\ HFrame

\* eg.Wait returned an error if a loop panicked.
CloseWs ==
  /\ hPc = "closeWs"
  /\ hPc' = IF why = "panic" \/ wPc = "panicked" THEN "error" ELSE "returned"
  /\ wsOpen' = FALSE
  /\ UNCHANGED <<rPc, wPc, ctx, closes>> /\ HFrame

\* errorEncodeFunc answers the request that was not upgraded, or writes to the
\* response of one that was, which no longer belongs to the HTTP server.
EncodeError ==
  /\ hPc = "error" /\ hPc' = "returned"
  /\ ctx' = FALSE
  /\ UNCHANGED <<rPc, wPc, wsOpen, closes>> /\ HFrame

-----------------------------------------------------------------------------
(* readLoop.                                                                *)

RFrame == UNCHANGED <<server, hPc, wPc, peer, reads, late>>
Quiet == UNCHANGED <<ctx, wsOpen, closes>>

RReturn(reason) == rPc' = "done" /\ why' = reason

\* A write under way returns: the peer reads, or the connection is no more.
WriteReturns == reads \/ peer = "gone" \/ ~wsOpen

RSelect ==
  /\ rPc = "select"
  /\ IF ctx THEN rPc' = "read" /\ UNCHANGED why ELSE RReturn("ctx")
  /\ UNCHANGED <<msgs, readErrs>> /\ Quiet /\ RFrame

\* What becomes of a message: passed on, refused because it does not decode, or
\* rejected by the Validate method of a pointer to it, if there is one.
Judged == {"apply", "refuse", "reject"}

ReadMessage ==
  /\ rPc = "read" /\ peer = "up" /\ msgs < MaxMsg
  /\ msgs' = msgs + 1
  /\ rPc' \in Judged
  /\ UNCHANGED <<readErrs, why>> /\ Quiet /\ RFrame

\* Apply returns: with nil or a cancelled context, or with another error.
Apply ==
  /\ rPc = "apply"
  /\ rPc' \in {"select", "refuse"}
  /\ UNCHANGED <<msgs, readErrs, why>> /\ Quiet /\ RFrame

\* replyErrorEncodeFunc writes to the connection.
RWrite ==
  /\ \/ rPc = "refuse" /\ rPc' = "refusing"
     \/ rPc = "reject" /\ rPc' = "rejecting"
  /\ UNCHANGED <<msgs, readErrs, why>> /\ Quiet /\ RFrame

\* After a decoding or Apply error the loop continues; after a validation
\* error it returns.
RWritten ==
  /\ WriteReturns
  /\ \/ rPc = "refusing" /\ rPc' = "select" /\ UNCHANGED why
     \/ rPc = "rejecting" /\ RReturn("invalid")
  /\ UNCHANGED <<msgs, readErrs>> /\ Quiet /\ RFrame

\* The connection was reset or ended without a close frame.
ReadGone ==
  /\ rPc = "read" /\ peer = "gone"
  /\ RReturn("gone")
  /\ UNCHANGED <<msgs, readErrs>> /\ Quiet /\ RFrame

\* Any other error: the loop reads again, until gorilla panics.
ReadError ==
  /\ rPc = "read" /\ peer = "garbage"
  /\ readErrs' = readErrs + 1
  /\ IF readErrs' < MaxReadErr
     THEN rPc' = "select" /\ UNCHANGED <<why, ctx>>
     ELSE RReturn("panic") /\ ctx' = FALSE
  /\ UNCHANGED <<msgs, wsOpen, closes>> /\ RFrame

\* Mutant: the close handler does not cancel the context.
ReadCloseNotCancelled ==
  /\ rPc = "read" /\ peer = "close"
  /\ rPc' = "closeReplier"
  /\ UNCHANGED <<msgs, readErrs, why>> /\ Quiet /\ RFrame

\* A close frame: ReadMessage runs the close handler, which cancels the
\* context, closes the replier and then the connection.
ReadClose ==
  /\ rPc = "read" /\ peer = "close"
  /\ ctx' = FALSE
  /\ rPc' = "closeReplier"
  /\ UNCHANGED <<msgs, readErrs, why, wsOpen, closes>> /\ RFrame

HandlerClosesReplier ==
  /\ rPc = "closeReplier" /\ rPc' = "closeWs"
  /\ closes' = closes + 1
  /\ UNCHANGED <<msgs, readErrs, why, ctx, wsOpen>> /\ RFrame

\* ReadMessage then returns the CloseError, and the loop returns.
HandlerClosesWs ==
  /\ rPc = "closeWs" /\ RReturn("close")
  /\ wsOpen' = FALSE
  /\ UNCHANGED <<msgs, readErrs, ctx, closes>> /\ RFrame

-----------------------------------------------------------------------------
(* writeLoop.                                                               *)

WFrame ==
  UNCHANGED <<server, hPc, rPc, ctx, wsOpen, peer, reads, msgs, readErrs, why,
              closes>>

\* Mutant: the context is not looked at.
WSelectUnchecked ==
  /\ wPc = "select" /\ wPc' = "call"
  /\ UNCHANGED late /\ WFrame

WSelect ==
  /\ wPc = "select"
  /\ wPc' = IF ctx THEN "call" ELSE "done"
  /\ UNCHANGED late /\ WFrame

ReplyCall ==
  /\ wPc = "call" /\ wPc' = "reply"
  /\ late' = IF closes > 0 /\ late < 2 THEN late + 1 ELSE late
  /\ WFrame

\* Reply returns a reply, or an error other than Canceled: both are written.
ReplyReturns ==
  /\ wPc = "reply" /\ wPc' = "write"
  /\ UNCHANGED late /\ WFrame

ReplyCanceled ==
  /\ wPc = "reply" /\ ~ctx
  /\ wPc' = "select"
  /\ UNCHANGED late /\ WFrame

WWrite ==
  /\ wPc = "write" /\ wPc' = "writing"
  /\ UNCHANGED late /\ WFrame

\* Whether the write succeeded or not is not looked at.
WWritten ==
  /\ wPc = "writing" /\ WriteReturns
  /\ wPc' = "select"
  /\ UNCHANGED late /\ WFrame

-----------------------------------------------------------------------------
(* Both loops write at once: gorilla may panic in either.                   *)

RPanic ==
  /\ rPc \in Writing /\ wPc = "writing"
  /\ RReturn("panic") /\ ctx' = FALSE
  /\ UNCHANGED <<msgs, readErrs, wsOpen, closes>> /\ RFrame

WPanic ==
  /\ rPc \in Writing /\ wPc = "writing"
  /\ wPc' = "panicked" /\ ctx' = FALSE
  /\ UNCHANGED <<server, hPc, rPc, wsOpen, peer, reads, msgs, readErrs, why,
                 closes, late>>

\* The peer sends a close frame, vanishes, or sends what is no frame.
PeerEnds ==
  /\ hPc = "wait" /\ peer = "up"
  /\ peer' \in {"close", "gone", "garbage"}
  /\ UNCHANGED <<server, hPc, rPc, wPc, ctx, wsOpen, reads, msgs, readErrs, why,
                 closes, late>>

\* The peer stops reading, so that the writes to it fill its window and block,
\* or reads again.
PeerReads ==
  /\ hPc = "wait" /\ peer # "gone"
  /\ reads' = ~reads
  /\ UNCHANGED <<server, hPc, rPc, wPc, ctx, wsOpen, peer, msgs, readErrs, why,
                 closes, late>>

-----------------------------------------------------------------------------
Handler == Build \/ Middlewares \/ UpgradeFails \/ Upgrade \/ Wait
           \/ CloseReplier \/ CloseWs \/ EncodeError

Reader == RSelect \/ Apply \/ RWrite \/ RWritten \/ ReadGone \/ ReadError
          \/ ReadClose \/ HandlerClosesReplier \/ HandlerClosesWs

Writer == WSelect \/ ReplyCall \/ ReplyCanceled \/ WWrite \/ WWritten

Next == Handler \/ Reader \/ Writer \/ ReadMessage \/ ReplyReturns
        \/ RPanic \/ WPanic \/ PeerEnds \/ PeerReads \/ Start \/ Stop \/ Accept

Spec == Init /\ [][Next]_vars

\* The goroutines are scheduled and the replier obeys its context.  Neither
\* the peer nor the application has to say anything, and the peer need not
\* read.
Fairness == WF_vars(Handler) /\ WF_vars(Reader) /\ WF_vars(Writer)

FairSpec == Spec /\ Fairness

-----------------------------------------------------------------------------
(* Properties.                                                              *)

\* The write loop calls Reply at most once on a closed replier: the one call
\* it was about to make when the close handler ran.
AtMostOneLateReply == late <= 1

\* However the server is stopped meanwhile: once handleConnections has returned
\* from an upgraded connection, both loops have ended, the connection is closed
\* and so is the replier; and if it was closed twice, the peer had sent a close
\* frame.
WoundUp ==
  hPc = "returned" /\ rPc # "off" =>
    /\ rPc = "done" /\ wPc \in WriterEnded /\ ~wsOpen
    /\ closes \in {1, 2} /\ (closes = 2 <=> why = "close")

\* A loop is writing to a peer that does not read.
Blocked == ~WriteReturns /\ (wPc = "writing" \/ rPc \in Writing)

\* A close frame that the read loop reads ends the connection, even if the peer
\* has stopped reading: the close handler closes the connection under a write
\* that blocks, the write loop notices and handleConnections returns.  A panic
\* that the read loop dies of ends it too, and so does a panic of the write loop
\* once the peer has ended its side; but nobody closes the connection then, and
\* they wait for ever for a write (it has no deadline, websocket.go:256) to a
\* peer that does not read.
Ends ==
  /\ why = "close" ~> hPc = "returned"
  /\ (why = "panic" \/ (~ctx /\ peer # "up")) ~> (hPc = "returned" \/ Blocked)
=============================================================================
