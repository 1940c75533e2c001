--------------------------- MODULE WebSocket_proofs ---------------------------
(****************************************************************************)
(* What holds of a connection for every number of messages and failed reads.*)
(****************************************************************************)
EXTENDS WebSocket, TLAPS

-----------------------------------------------------------------------------
(* The inductive invariant.                                                 *)

LoopsEnded == rPc = "done" /\ wPc \in WriterEnded

\* The loops run from the upgrade on, and both have ended before
\* handleConnections starts closing.
LoopsFollowHandler ==
  /\ hPc \in {"none", "build", "pre", "upgrade"} => rPc = "off" /\ wPc = "off"
  /\ rPc = "off" <=> wPc = "off"
  /\ hPc = "wait" => rPc # "off"
  /\ rPc = "off" => ~wsOpen /\ closes = 0
  /\ hPc \in {"closeReplier", "closeWs"} => LoopsEnded /\ ~ctx
  /\ hPc \in {"error", "returned"} => (rPc = "off" /\ wPc = "off") \/ LoopsEnded

\* The read loop has a reason to end exactly when it has ended.
EndsForAReason == why # "" <=> rPc = "done"

\* Gorilla has not panicked as long as the read loop runs.
ReadErrsBelow == rPc # "done" => readErrs < MaxReadErr

\* Only handleConnections and the close handler close the replier, each once.
ClosesCounted ==
  /\ closes = 0 <=> /\ rPc # "closeWs" /\ why # "close"
                    /\ hPc \notin {"closeWs", "error", "returned"} \/ rPc = "off"
  /\ closes = 2 <=> why = "close" /\ hPc \in {"closeWs", "error", "returned"}
  /\ rPc \in {"closeReplier", "closeWs"} \/ why = "close" => ~ctx
  /\ closes > 0 => ~ctx
  /\ hPc \in {"error", "returned"} => ~wsOpen

\* A Reply that is late was about to be called when the replier was closed,
\* and the write loop does not pass its select again.
LateCounted ==
  /\ closes = 0 => late = 0
  /\ wPc = "call" => late = 0
  /\ late <= 1

IInv == TypeOK /\ LoopsFollowHandler /\ EndsForAReason /\ ReadErrsBelow
        /\ ClosesCounted /\ LateCounted

-----------------------------------------------------------------------------
\* The counts up to two, for the steps that cannot do arithmetic.
LEMMA UpToTwo == /\ 0..2 = {0, 1, 2} /\ 0 + 1 = 1 /\ 1 + 1 = 2
                 /\ 0 # 1 /\ 0 # 2 /\ 1 # 2
                 /\ ~(0 > 0) /\ 1 > 0 /\ 2 > 0 /\ 0 <= 1 /\ 1 <= 1 /\ ~(2 <= 1)
                 /\ 0 < 2 /\ 1 < 2
  BY SMT

\* A connection starts in IInv.
LEMMA InitIInv == Init => IInv
<1>1. 0 \in 0..MaxMsg /\ 0 \in 0..MaxReadErr /\ 0 < MaxReadErr
  BY WebSocketAssumption
<1>2. QED
  BY <1>1, UpToTwo, Zenon DEF Init, IInv, TypeOK, LoopsFollowHandler,
     EndsForAReason, ReadErrsBelow, ClosesCounted, LateCounted, ReadPc, WritePc,
     LoopsEnded, WriterEnded

\* The two counters of the read loop stay within their bounds.
LEMMA CountsUp ==
  ASSUME NEW m \in 0..MaxMsg, m < MaxMsg PROVE m + 1 \in 0..MaxMsg
  BY WebSocketAssumption, SMT

LEMMA ErrorsUp ==
  ASSUME NEW e \in 0..MaxReadErr, e < MaxReadErr PROVE e + 1 \in 0..MaxReadErr
  BY WebSocketAssumption, SMT

\* A step that changes nothing keeps the types.
LEMMA TypeStutters == ASSUME TypeOK, UNCHANGED vars PROVE TypeOK'
  BY ZenonT(60) DEF TypeOK, vars

\* No step of handleConnections, of its loops or of the peer leaves IInv.
LEMMA NextIInv == IInv /\ [Next]_vars => IInv'
<1> SUFFICES ASSUME IInv, [Next]_vars PROVE IInv'
  OBVIOUS
<1> USE WebSocketAssumption DEF IInv, TypeOK, LoopsFollowHandler,
        EndsForAReason, ReadErrsBelow, ClosesCounted, LateCounted, ReadPc,
        WritePc, LoopsEnded, WriterEnded
<1>1. CASE Middlewares
  BY <1>1 DEF Middlewares, HFrame
<1>2. CASE UpgradeFails
  BY <1>2 DEF UpgradeFails, HFrame
<1>3. CASE Upgrade
  BY <1>3 DEF Upgrade, HFrame
<1>4. CASE Wait
  BY <1>4 DEF Wait, HFrame
<1>5. CASE CloseReplier
  BY <1>5, UpToTwo, Zenon DEF CloseReplier, HFrame
<1>6. CASE CloseWs
  <2>1. TypeOK'
    BY <1>6, Zenon DEF CloseWs, HFrame
  <2>2. LoopsFollowHandler' /\ EndsForAReason' /\ ReadErrsBelow'
    BY <1>6, Zenon DEF CloseWs, HFrame
  <2>3. ClosesCounted'
    BY <1>6, Zenon DEF CloseWs, HFrame
  <2>4. LateCounted'
    BY <1>6, Zenon DEF CloseWs, HFrame
  <2>5. QED
    BY <2>1, <2>2, <2>3, <2>4
<1>7. CASE EncodeError
  <2>1. TypeOK'
    BY <1>7, UpToTwo, ZenonT(60) DEF EncodeError, HFrame
  <2>2. LoopsFollowHandler' /\ EndsForAReason' /\ ReadErrsBelow'
    BY <1>7, UpToTwo, ZenonT(60) DEF EncodeError, HFrame
  <2>3. ClosesCounted'
    BY <1>7, UpToTwo, ZenonT(60) DEF EncodeError, HFrame
  <2>4. LateCounted'
    BY <1>7, UpToTwo, ZenonT(60) DEF EncodeError, HFrame
  <2>5. QED
    BY <2>1, <2>2, <2>3, <2>4
<1>8. CASE RSelect
  <2>1. TypeOK'
    BY <1>8, ZenonT(60) DEF RSelect, RFrame, Quiet, RReturn
  <2>2. LoopsFollowHandler' /\ EndsForAReason' /\ ReadErrsBelow'
    BY <1>8, ZenonT(60) DEF RSelect, RFrame, Quiet, RReturn
  <2>3. ClosesCounted'
    BY <1>8, ZenonT(60) DEF RSelect, RFrame, Quiet, RReturn
  <2>4. LateCounted'
    BY <1>8, ZenonT(60) DEF RSelect, RFrame, Quiet, RReturn
  <2>5. QED
    BY <2>1, <2>2, <2>3, <2>4
<1>9. CASE ReadMessage
  <2>1. msgs' \in 0..MaxMsg
    BY <1>9, CountsUp, Zenon DEF ReadMessage
  <2>2. TypeOK'
    BY <1>9, <2>1, ZenonT(60) DEF ReadMessage, Judged, RFrame, Quiet
  <2>3. LoopsFollowHandler' /\ EndsForAReason' /\ ReadErrsBelow'
    BY <1>9, ZenonT(60) DEF ReadMessage, Judged, RFrame, Quiet
  <2>4. ClosesCounted'
    BY <1>9, ZenonT(60) DEF ReadMessage, Judged, RFrame, Quiet
  <2>5. LateCounted'
    BY <1>9, ZenonT(60) DEF ReadMessage, Judged, RFrame, Quiet
  <2>6. QED
    BY <2>2, <2>3, <2>4, <2>5
<1>10. CASE Apply
  <2>1. TypeOK'
    BY <1>10, ZenonT(60) DEF Apply, RFrame, Quiet
  <2>2. LoopsFollowHandler' /\ EndsForAReason' /\ ReadErrsBelow'
    BY <1>10, ZenonT(60) DEF Apply, RFrame, Quiet
  <2>3. ClosesCounted'
    BY <1>10, ZenonT(60) DEF Apply, RFrame, Quiet
  <2>4. LateCounted'
    BY <1>10, ZenonT(60) DEF Apply, RFrame, Quiet
  <2>5. QED
    BY <2>1, <2>2, <2>3, <2>4
<1>11. CASE RWrite
  <2>1. TypeOK'
    BY <1>11, Zenon DEF RWrite, RFrame, Quiet
  <2>2. LoopsFollowHandler' /\ EndsForAReason' /\ ReadErrsBelow'
    BY <1>11, Zenon DEF RWrite, RFrame, Quiet
  <2>3. ClosesCounted'
    BY <1>11, Zenon DEF RWrite, RFrame, Quiet
  <2>4. LateCounted'
    BY <1>11, Zenon DEF RWrite, RFrame, Quiet
  <2>5. QED
    BY <2>1, <2>2, <2>3, <2>4
<1>12. CASE RWritten
  <2>1. TypeOK'
    BY <1>12, Zenon DEF RWritten, RFrame, Quiet, RReturn
  <2>2. LoopsFollowHandler' /\ EndsForAReason' /\ ReadErrsBelow'
    BY <1>12, Zenon DEF RWritten, RFrame, Quiet, RReturn
  <2>3. ClosesCounted'
    BY <1>12, Zenon DEF RWritten, RFrame, Quiet, RReturn
  <2>4. LateCounted'
    BY <1>12, Zenon DEF RWritten, RFrame, Quiet, RReturn
  <2>5. QED
    BY <2>1, <2>2, <2>3, <2>4
<1>13. CASE ReadGone
  BY <1>13 DEF ReadGone, RFrame, Quiet, RReturn
<1>14. CASE ReadError
  <2>1. readErrs' \in 0..MaxReadErr
    BY <1>14, ErrorsUp, Zenon DEF ReadError
  <2>2. CASE readErrs' < MaxReadErr
    BY <1>14, <2>1, <2>2, Zenon DEF ReadError, RFrame
  <2>3. CASE ~(readErrs' < MaxReadErr)
    BY <1>14, <2>1, <2>3, Zenon DEF ReadError, RFrame, RReturn
  <2>4. QED
    BY <2>2, <2>3
<1>15. CASE ReadClose
  BY <1>15 DEF ReadClose, RFrame
<1>16. CASE HandlerClosesReplier
  BY <1>16, UpToTwo, Zenon DEF HandlerClosesReplier, RFrame
<1>17. CASE HandlerClosesWs
  BY <1>17 DEF HandlerClosesWs, RFrame, RReturn
<1>18. CASE WSelect
  <2>1. TypeOK'
    BY <1>18, Zenon DEF WSelect, WFrame
  <2>2. LoopsFollowHandler' /\ EndsForAReason' /\ ReadErrsBelow'
    BY <1>18, Zenon DEF WSelect, WFrame
  <2>3. ClosesCounted'
    BY <1>18, Zenon DEF WSelect, WFrame
  <2>4. LateCounted'
    BY <1>18, Zenon DEF WSelect, WFrame
  <2>5. QED
    BY <2>1, <2>2, <2>3, <2>4
<1>19. CASE ReplyCall
  <2>1. late = 0 /\ late' \in {0, 1}
    BY <1>19, UpToTwo, Zenon DEF ReplyCall
  <2>2. TypeOK'
    BY <1>19, <2>1, UpToTwo, ZenonT(60) DEF ReplyCall, WFrame
  <2>3. LoopsFollowHandler' /\ EndsForAReason' /\ ReadErrsBelow'
    BY <1>19, Zenon DEF ReplyCall, WFrame
  <2>4. ClosesCounted'
    BY <1>19, Zenon DEF ReplyCall, WFrame
  <2>5. LateCounted'
    BY <1>19, <2>1, UpToTwo, ZenonT(60) DEF ReplyCall, WFrame
  <2>6. QED
    BY <2>2, <2>3, <2>4, <2>5
<1>20. CASE ReplyReturns
  <2>1. TypeOK'
    BY <1>20, Zenon DEF ReplyReturns, WFrame
  <2>2. LoopsFollowHandler' /\ EndsForAReason' /\ ReadErrsBelow'
    BY <1>20, Zenon DEF ReplyReturns, WFrame
  <2>3. ClosesCounted'
    BY <1>20, Zenon DEF ReplyReturns, WFrame
  <2>4. LateCounted'
    BY <1>20, Zenon DEF ReplyReturns, WFrame
  <2>5. QED
    BY <2>1, <2>2, <2>3, <2>4
<1>21. CASE ReplyCanceled
  <2>1. TypeOK'
    BY <1>21, ZenonT(60) DEF ReplyCanceled, WFrame
  <2>2. LoopsFollowHandler' /\ EndsForAReason' /\ ReadErrsBelow'
    BY <1>21, ZenonT(60) DEF ReplyCanceled, WFrame
  <2>3. ClosesCounted'
    BY <1>21, ZenonT(60) DEF ReplyCanceled, WFrame
  <2>4. LateCounted'
    BY <1>21, ZenonT(60) DEF ReplyCanceled, WFrame
  <2>5. QED
    BY <2>1, <2>2, <2>3, <2>4
<1>22. CASE WWrite
  <2>1. TypeOK'
    BY <1>22, Zenon DEF WWrite, WFrame
  <2>2. LoopsFollowHandler' /\ EndsForAReason' /\ ReadErrsBelow'
    BY <1>22, Zenon DEF WWrite, WFrame
  <2>3. ClosesCounted'
    BY <1>22, Zenon DEF WWrite, WFrame
  <2>4. LateCounted'
    BY <1>22, Zenon DEF WWrite, WFrame
  <2>5. QED
    BY <2>1, <2>2, <2>3, <2>4
<1>23. CASE WWritten
  <2>1. TypeOK'
    BY <1>23, Zenon DEF WWritten, WFrame
  <2>2. LoopsFollowHandler' /\ EndsForAReason' /\ ReadErrsBelow'
    BY <1>23, Zenon DEF WWritten, WFrame
  <2>3. ClosesCounted'
    BY <1>23, Zenon DEF WWritten, WFrame
  <2>4. LateCounted'
    BY <1>23, Zenon DEF WWritten, WFrame
  <2>5. QED
    BY <2>1, <2>2, <2>3, <2>4
<1>24. CASE RPanic
  BY <1>24 DEF RPanic, RFrame, RReturn, Writing
<1>25. CASE WPanic
  BY <1>25 DEF WPanic, Writing
<1>26. CASE PeerEnds
  <2>1. TypeOK'
    BY <1>26, ZenonT(60) DEF PeerEnds
  <2>2. LoopsFollowHandler' /\ EndsForAReason' /\ ReadErrsBelow'
    BY <1>26, ZenonT(60) DEF PeerEnds
  <2>3. ClosesCounted'
    BY <1>26, ZenonT(60) DEF PeerEnds
  <2>4. LateCounted'
    BY <1>26, ZenonT(60) DEF PeerEnds
  <2>5. QED
    BY <2>1, <2>2, <2>3, <2>4
<1>27. CASE UNCHANGED vars
  <2>1. TypeOK'
    BY <1>27, TypeStutters
  <2>2. LoopsFollowHandler' /\ EndsForAReason' /\ ReadErrsBelow'
    BY <1>27, Zenon DEF vars
  <2>3. ClosesCounted'
    BY <1>27, Zenon DEF vars
  <2>4. LateCounted'
    BY <1>27, Zenon DEF vars
  <2>5. QED
    BY <2>1, <2>2, <2>3, <2>4
<1>28. CASE Start
  <2>1. TypeOK'
    BY <1>28, ZenonT(60) DEF Start, ServerFrame
  <2>2. LoopsFollowHandler' /\ EndsForAReason' /\ ReadErrsBelow'
    BY <1>28, ZenonT(60) DEF Start, ServerFrame
  <2>3. ClosesCounted'
    BY <1>28, ZenonT(60) DEF Start, ServerFrame
  <2>4. LateCounted'
    BY <1>28, ZenonT(60) DEF Start, ServerFrame
  <2>5. QED
    BY <2>1, <2>2, <2>3, <2>4
<1>29. CASE Stop
  <2>1. TypeOK'
    BY <1>29, ZenonT(60) DEF Stop, ServerFrame
  <2>2. LoopsFollowHandler' /\ EndsForAReason' /\ ReadErrsBelow'
    BY <1>29, ZenonT(60) DEF Stop, ServerFrame
  <2>3. ClosesCounted'
    BY <1>29, ZenonT(60) DEF Stop, ServerFrame
  <2>4. LateCounted'
    BY <1>29, ZenonT(60) DEF Stop, ServerFrame
  <2>5. QED
    BY <2>1, <2>2, <2>3, <2>4
<1>30. CASE Accept
  BY <1>30 DEF Accept, HFrame
<1>31. CASE Build
  BY <1>31 DEF Build, HFrame
<1>32. CASE PeerReads
  <2>1. TypeOK'
    BY <1>32, ZenonT(60) DEF PeerReads
  <2>2. LoopsFollowHandler' /\ EndsForAReason' /\ ReadErrsBelow'
    BY <1>32, ZenonT(60) DEF PeerReads
  <2>3. ClosesCounted'
    BY <1>32, ZenonT(60) DEF PeerReads
  <2>4. LateCounted'
    BY <1>32, ZenonT(60) DEF PeerReads
  <2>5. QED
    BY <2>1, <2>2, <2>3, <2>4
<1>33. QED
  BY <1>1, <1>2, <1>3, <1>4, <1>5, <1>6, <1>7, <1>8, <1>9, <1>10, <1>11,
     <1>12, <1>13, <1>14, <1>15, <1>16, <1>17, <1>18, <1>19, <1>20, <1>21,
     <1>22, <1>23, <1>24, <1>25, <1>26, <1>27,
     <1>28, <1>29, <1>30, <1>31, <1>32 DEF Next, Handler, Reader,
     Writer

\* Every reachable state satisfies IInv.
THEOREM Invariance == Spec => []IInv
  BY InitIInv, NextIInv, PTL DEF Spec

-----------------------------------------------------------------------------
\* The variables of a connection keep their types; in particular the replier
\* is closed at most twice.
THEOREM TypeCorrect == Spec => []TypeOK
<1>1. IInv => TypeOK
  BY DEF IInv
<1>2. QED
  BY Invariance, <1>1, PTL

\* However close handler and write loop interleave, at most one Reply is called
\* on a closed replier (websocket.go:166-171, 245-258).
THEOREM LateReplies == Spec => []AtMostOneLateReply
<1>1. IInv => AtMostOneLateReply
  BY DEF IInv, LateCounted, AtMostOneLateReply
<1>2. QED
  BY Invariance, <1>1, PTL

\* When handleConnections returns nothing is left running or open.
THEOREM ReturnsWoundUp == Spec => []WoundUp
<1>1. IInv => WoundUp
  BY UpToTwo, Zenon DEF IInv, TypeOK, LoopsFollowHandler, EndsForAReason,
     ClosesCounted, WoundUp, LoopsEnded, WriterEnded
<1>2. QED
  BY Invariance, <1>1, PTL
=============================================================================
