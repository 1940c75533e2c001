------------------------ MODULE EtcdRegistry_proofs ------------------------
(****************************************************************************)
(* Proofs about EtcdRegistry, for any number of instances, keys, heartbeats *)
(* and leases and any bounds on the faults.                                 *)
(****************************************************************************)
EXTENDS EtcdRegistry, TLAPS

RkPcs == {"idle", "grant", "put", "ok", "err"}
HbPcs == {"none", "start", "serving", "retrying", "trying", "first", "done"}

-----------------------------------------------------------------------------
(* Lemmas about the helpers the actions are built from.                     *)

\* Each operation of etcd keeps its state well typed: the leases stay
\* within the bound and keys are only ever attached to one of them.
LEMMA StoreSteps ==
  ASSUME StoreTypeOK,
         \/ \E l \in LeaseId : GrantLease(l)
         \/ \E k \in Key, l \in 0..MaxLease : PutKey(k, l)
         \/ \E k \in Key : DeleteKey(k)
         \/ \E l \in LeaseId : ExpireLease(l)
         \/ UNCHANGED storeVars
  PROVE  StoreTypeOK'
<1> USE MaxLeaseAssumption DEF StoreTypeOK
<1>1. CASE \E l \in LeaseId : GrantLease(l)
  BY <1>1 DEF GrantLease
<1>2. CASE \E k \in Key, l \in 0..MaxLease : PutKey(k, l)
  BY <1>2 DEF PutKey
<1>3. CASE \E k \in Key : DeleteKey(k)
  BY <1>3 DEF DeleteKey, NoLease
<1>4. CASE \E l \in LeaseId : ExpireLease(l)
  BY <1>4 DEF ExpireLease, NoLease
<1>5. CASE UNCHANGED storeVars
  BY <1>5 DEF storeVars
<1> QED
  BY <1>1, <1>2, <1>3, <1>4, <1>5

\* A step of registerWithKV moves its caller only.
LEMMA RkStepTyped ==
  ASSUME RkTypeOK, NEW c \in Caller, NEW pc \in RkPcs, NEW l \in 0..MaxLease,
         RkStep(c, pc, l)
  PROVE  RkTypeOK'
BY DEF RkTypeOK, RkStep, RkPcs

\* A step of a heartbeat moves its own program counter and locals only.
LEMMA HbGotoTyped ==
  ASSUME HbTypeOK, NEW h \in Heartbeat, NEW pc \in HbPcs,
         NEW l \in 0..MaxLease, NEW r \in 0..MaxRetry,
         HbGoto(h, pc, l, r),
         kacOpen' \in [Heartbeat -> BOOLEAN],
         ctxLive' \in [Heartbeat -> BOOLEAN]
  PROVE  HbTypeOK'
BY DEF HbTypeOK, HbGoto, HbPcs

\* What a step leaves alone stays well typed.
LEMMA Frames ==
  /\ ApiTypeOK /\ UNCHANGED apiVars => ApiTypeOK'
  /\ RkTypeOK /\ UNCHANGED rkVars => RkTypeOK'
  /\ HbTypeOK /\ UNCHANGED hbVars => HbTypeOK'
  /\ WorldTypeOK /\ UNCHANGED <<lateVars, boundVars, clientVars, histVars>>
       => WorldTypeOK'
BY DEF ApiTypeOK, RkTypeOK, HbTypeOK, WorldTypeOK,
       apiVars, rkVars, hbVars, lateVars, boundVars, clientVars, histVars

\* What a caller may leave in the network is a put of its key.
LEMMA AbandonedPutsTyped ==
  ASSUME ApiTypeOK, RkTypeOK, HbTypeOK, NEW c \in Caller
  PROVE  /\ CallerKey(c) \in Key
         /\ AbandonedPuts(c) \subseteq Key \X (0..MaxLease)
<1>1. c = API \/ c \in Heartbeat
  BY DEF Caller
<1>2. CallerKey(c) \in Key
  BY <1>1, RegistryAssumption DEF CallerKey, ApiTypeOK, HbTypeOK
<1>3. rkLease[c] \in 0..MaxLease
  BY DEF RkTypeOK
<1> QED
  BY <1>2, <1>3, RegistryAssumption DEF AbandonedPuts, ApiTypeOK

-----------------------------------------------------------------------------
(* Type correctness.  TypeOK alone is not inductive: Register must leave    *)
(* room for the heartbeat RegisterOk starts, and an attempt that fails must *)
(* have been started with a retry left.                                     *)

RoomForHeartbeat == callOp = "register" => spawned < MaxHeartbeat
AttemptHasRetryLeft ==
  \A h \in Heartbeat : hbPc[h] = "trying" => hbRetry[h] < MaxRetry

TypeInv == TypeOK /\ RoomForHeartbeat /\ AttemptHasRetryLeft

LEMMA TypeInit == Init => TypeInv
<1> SUFFICES ASSUME Init PROVE TypeInv
  OBVIOUS
<1> USE RegistryAssumption, MaxLeaseAssumption
<1>1. AnyService \in Service
  BY DEF AnyService
<1>2. StoreTypeOK
  BY DEF Init, StoreInit, StoreTypeOK, NoLease
<1>3. ApiTypeOK
  BY <1>1 DEF Init, ApiTypeOK
<1>4. RkTypeOK
  BY DEF Init, RkTypeOK, NoLease
<1>5. HbTypeOK
  BY <1>1 DEF Init, HbTypeOK, NoLease
<1>6. WorldTypeOK
  BY DEF Init, WorldTypeOK
<1>7. RoomForHeartbeat /\ AttemptHasRetryLeft
  BY DEF Init, RoomForHeartbeat, AttemptHasRetryLeft
<1> QED
  BY <1>2, <1>3, <1>4, <1>5, <1>6, <1>7 DEF TypeInv, TypeOK

\* The steps of registerWithKV.
LEMMA TypeRk ==
  ASSUME TypeInv, NEW c \in Caller,
         \/ Grant(c) \/ Put(c) \/ PutRefused(c)
         \/ RpcLost(c) \/ PutAckLost(c) \/ RpcAborted(c)
  PROVE  TypeInv'
<1> USE MaxLeaseAssumption, RegistryAssumption
<1>0. TypeOK /\ CallerKey(c) \in Key /\ rkLease[c] \in 0..MaxLease
      /\ AbandonedPuts(c) \subseteq Key \X (0..MaxLease)
  BY AbandonedPutsTyped DEF TypeInv, TypeOK, RkTypeOK
<1>1. StoreTypeOK'
  <2>1. \/ \E l \in LeaseId : GrantLease(l)
        \/ \E k \in Key, l \in 0..MaxLease : PutKey(k, l)
        \/ UNCHANGED storeVars
    BY <1>0 DEF Grant, Put, PutRefused, RpcLost, PutAckLost, RpcAborted
  <2> QED
    BY <1>0, <2>1, StoreSteps DEF TypeOK
<1>2. RkTypeOK'
  <2>1. PICK pc \in RkPcs, l \in 0..MaxLease : RkStep(c, pc, l)
    <3>1. CASE Grant(c)
      <4>1. LeaseId \subseteq 0..MaxLease
        BY DEF LeaseId
      <4> QED
        BY <3>1, <4>1 DEF Grant, RkPcs
    <3>2. CASE ~Grant(c)
      BY <1>0, <3>2 DEF Put, PutRefused, RpcLost, PutAckLost, RpcAborted, RkPcs, NoLease
    <3> QED
      BY <3>1, <3>2
  <2> QED
    BY <1>0, <2>1, RkStepTyped DEF TypeOK
<1>3. UNCHANGED <<apiVars, hbVars>>
  BY DEF Grant, Put, PutRefused, RpcLost, PutAckLost, RpcAborted
<1>4. WorldTypeOK'
  BY <1>0 DEF TypeOK, WorldTypeOK, Grant, Put, PutRefused, RpcLost, PutAckLost,
              RpcAborted, RpcFault, Fault, lateVars, boundVars, clientVars, histVars
<1>5. ApiTypeOK' /\ HbTypeOK'
  BY <1>0, <1>3, Frames DEF TypeOK
<1>6. RoomForHeartbeat' /\ AttemptHasRetryLeft'
  BY <1>3 DEF TypeInv, RoomForHeartbeat, AttemptHasRetryLeft, apiVars, hbVars
<1> QED
  BY <1>1, <1>2, <1>4, <1>5, <1>6 DEF TypeInv, TypeOK

\* The steps of the API calls.
LEMMA TypeApi ==
  ASSUME TypeInv,
         \/ \E s \in Service : Register(s) \/ Deregister(s)
         \/ RegisterOk \/ RegisterErr
         \/ Delete \/ DeleteLost \/ DeleteAckLost \/ DeleteAborted
  PROVE  TypeInv'
<1> USE MaxLeaseAssumption, RegistryAssumption
<1>0. TypeOK /\ API \in Caller
  <2>1. API \in Caller
    BY DEF Caller
  <2> QED
    BY <2>1 DEF TypeInv
<1>1. ASSUME NEW s \in Service, Register(s)
      PROVE  TypeInv'
  <2>1. RkTypeOK'
    BY <1>0, <1>1, RkStepTyped DEF TypeOK, Register, RkPcs, NoLease
  <2>2. StoreTypeOK' /\ HbTypeOK'
    BY <1>0, <1>1, StoreSteps, Frames DEF TypeOK, Register
  <2>3. ApiTypeOK' /\ WorldTypeOK'
    BY <1>0, <1>1 DEF TypeOK, ApiTypeOK, WorldTypeOK, Register, lateVars,
                      boundVars, clientVars
  <2>4. RoomForHeartbeat' /\ AttemptHasRetryLeft'
    BY <1>1 DEF TypeInv, RoomForHeartbeat, AttemptHasRetryLeft, Register, hbVars
  <2> QED
    BY <2>1, <2>2, <2>3, <2>4 DEF TypeInv, TypeOK
<1>2. ASSUME NEW s \in Service, Deregister(s)
      PROVE  TypeInv'
  <2>1. StoreTypeOK' /\ RkTypeOK' /\ WorldTypeOK'
    BY <1>0, <1>2, StoreSteps, Frames DEF TypeOK, Deregister
  <2>2. ApiTypeOK' /\ HbTypeOK'
    BY <1>0, <1>2 DEF TypeOK, ApiTypeOK, HbTypeOK, Deregister, NoHeartbeat
  <2>3. RoomForHeartbeat' /\ AttemptHasRetryLeft'
    BY <1>2 DEF TypeInv, RoomForHeartbeat, AttemptHasRetryLeft, Deregister
  <2> QED
    BY <2>1, <2>2, <2>3 DEF TypeInv, TypeOK
<1>3. CASE RegisterOk
  <2>1. spawned + 1 \in Heartbeat
    BY <1>0, <1>3 DEF TypeInv, TypeOK, HbTypeOK, RoomForHeartbeat, RegisterOk,
                      Heartbeat
  <2>2. rkLease[API] \in 0..MaxLease
    BY <1>0 DEF TypeOK, RkTypeOK
  <2>3. RkTypeOK'
    BY <1>0, <1>3, RkStepTyped DEF TypeOK, RegisterOk, RkPcs, NoLease
  <2>4. StoreTypeOK' /\ WorldTypeOK'
    BY <1>0, <1>3, StoreSteps, Frames DEF TypeOK, RegisterOk
  <2>5. ApiTypeOK'
    BY <1>0, <1>3, <2>1 DEF TypeOK, ApiTypeOK, RegisterOk
  <2>6. HbTypeOK'
    BY <1>0, <1>3, <2>1, <2>2
       DEF TypeOK, ApiTypeOK, WorldTypeOK, HbTypeOK, RegisterOk, Heartbeat
  <2>7. RoomForHeartbeat' /\ AttemptHasRetryLeft'
    BY <1>0, <1>3, <2>1
       DEF TypeInv, TypeOK, HbTypeOK, RoomForHeartbeat, AttemptHasRetryLeft,
           RegisterOk
  <2> QED
    BY <2>3, <2>4, <2>5, <2>6, <2>7 DEF TypeInv, TypeOK
<1>4. CASE RegisterErr
  <2>1. RkTypeOK'
    BY <1>0, <1>4, RkStepTyped DEF TypeOK, RegisterErr, RkPcs, NoLease
  <2>2. StoreTypeOK' /\ HbTypeOK' /\ WorldTypeOK'
    BY <1>0, <1>4, StoreSteps, Frames DEF TypeOK, RegisterErr
  <2>3. ApiTypeOK' /\ RoomForHeartbeat' /\ AttemptHasRetryLeft'
    BY <1>0, <1>4 DEF TypeInv, TypeOK, ApiTypeOK, RoomForHeartbeat,
                      AttemptHasRetryLeft, RegisterErr, hbVars
  <2> QED
    BY <2>1, <2>2, <2>3 DEF TypeInv, TypeOK
<1>5. CASE Delete \/ DeleteLost \/ DeleteAckLost \/ DeleteAborted
  <2>0. KeyOf[callSvc] \in Key
    BY <1>0 DEF TypeOK, ApiTypeOK
  <2>1. StoreTypeOK'
    <3>1. (\E k \in Key : DeleteKey(k)) \/ UNCHANGED storeVars
      BY <1>5, <2>0 DEF Delete, DeleteLost, DeleteAckLost, DeleteAborted
    <3> QED
      BY <1>0, <3>1, StoreSteps DEF TypeOK
  <2>2. RkTypeOK' /\ HbTypeOK'
    BY <1>0, <1>5, Frames DEF TypeOK, Delete, DeleteLost, DeleteAckLost,
                              DeleteAborted
  <2>3. WorldTypeOK'
    BY <1>0, <1>5, <2>0
       DEF TypeOK, WorldTypeOK, Delete, DeleteLost, DeleteAckLost,
           DeleteAborted, Fault, lateVars, boundVars, clientVars, histVars
  <2>4. ApiTypeOK' /\ RoomForHeartbeat' /\ AttemptHasRetryLeft'
    BY <1>0, <1>5
       DEF TypeInv, TypeOK, ApiTypeOK, RoomForHeartbeat, AttemptHasRetryLeft,
           Delete, DeleteLost, DeleteAckLost, DeleteAborted, hbVars
  <2> QED
    BY <2>1, <2>2, <2>3, <2>4 DEF TypeInv, TypeOK
<1> QED
  BY <1>1, <1>2, <1>3, <1>4, <1>5

\* The steps of the heartbeats.
LEMMA TypeHb ==
  ASSUME TypeInv, NEW h \in Heartbeat, HbRun(h) \/ HbAttemptTimedOut(h)
  PROVE  TypeInv'
<1> USE MaxLeaseAssumption, RegistryAssumption
<1> DEFINE kacTyped == kacOpen' \in [Heartbeat -> BOOLEAN]
           goto == \E pc \in HbPcs, l \in 0..MaxLease, r \in 0..MaxRetry :
                     /\ HbGoto(h, pc, l, r)
                     /\ pc = "trying" => r < MaxRetry
           rk == \/ UNCHANGED rkVars
                 \/ \E pc \in RkPcs : RkStep(h, pc, NoLease)
<1>0. /\ TypeOK /\ h \in Caller
      /\ hbLease[h] \in 0..MaxLease /\ hbRetry[h] \in 0..MaxRetry
      /\ rkLease[h] \in 0..MaxLease
      /\ AbandonedPuts(h) \subseteq Key \X (0..MaxLease)
      /\ NoLease \in 0..MaxLease
  <2>1. h \in Caller
    BY DEF Caller
  <2> QED
    BY <2>1, AbandonedPutsTyped DEF TypeInv, TypeOK, HbTypeOK, RkTypeOK, NoLease
<1>1. goto /\ kacTyped /\ rk
  <2>0. hbPc[h] = "trying" => hbRetry[h] + 1 \in 0..MaxRetry
    BY <1>0 DEF TypeInv, AttemptHasRetryLeft
  <2>1. CASE HbStart(h)
    <3>1. kacTyped /\ rk
      BY <2>1 DEF HbStart, TypeOK, HbTypeOK, WorldTypeOK, TypeInv
    <3>2. goto
      BY <1>0, <2>1 DEF HbStart, HbPcs
    <3> QED
      BY <3>1, <3>2
  <2>2. CASE HbLeaseLost(h)
    <3>1. kacTyped /\ rk
      BY <1>0, <2>2 DEF HbLeaseLost, TypeOK, HbTypeOK
    <3>2. goto
      BY <1>0, <2>2 DEF HbLeaseLost, HbReturn, HbPcs
    <3> QED
      BY <3>1, <3>2
  <2>3. CASE HbStopped(h)
    BY <1>0, <2>3 DEF HbStopped, HbReturn, HbPcs, TypeOK, HbTypeOK
  <2>4. CASE HbRetryCancelled(h) \/ HbAttempt(h) \/ HbRetriesUsedUp(h)
    BY <1>0, <2>4 DEF HbRetryCancelled, HbAttempt, HbRetriesUsedUp, HbReturn,
                      HbPcs, RkPcs, TypeOK, HbTypeOK
  <2>5. CASE HbAttemptFailed(h) \/ HbAttemptTimedOut(h) \/ HbAttemptOk(h)
    BY <1>0, <2>0, <2>5 DEF HbAttemptFailed, HbAttemptTimedOut, HbAttemptOk,
                      HbPcs, RkPcs, TypeOK, HbTypeOK, WorldTypeOK
  <2>6. CASE HbFirstAnswer(h) \/ HbGiveUp(h)
    BY <1>0, <2>6 DEF HbFirstAnswer, HbGiveUp, HbReturn, HbPcs, TypeOK, HbTypeOK
  <2> QED
    BY <2>1, <2>2, <2>3, <2>4, <2>5, <2>6 DEF HbRun
<1>2. ctxLive' = ctxLive
  BY DEF HbRun, HbStart, HbLeaseLost, HbStopped, HbRetryCancelled, HbAttempt,
         HbRetriesUsedUp, HbAttemptFailed, HbAttemptTimedOut, HbAttemptOk,
         HbFirstAnswer, HbGiveUp
<1>3. /\ UNCHANGED <<storeVars, apiVars, lateDels, boundVars, clientVars, histVars>>
      /\ latePuts' = latePuts \/ latePuts' = latePuts \cup AbandonedPuts(h)
  BY DEF HbRun, HbStart, HbLeaseLost, HbStopped, HbRetryCancelled, HbAttempt,
         HbRetriesUsedUp, HbAttemptFailed, HbAttemptTimedOut, HbAttemptOk,
         HbFirstAnswer, HbGiveUp, HbFrame, lateVars
<1>4. HbTypeOK'
  BY <1>0, <1>1, <1>2, HbGotoTyped DEF TypeOK, HbTypeOK
<1>5. RkTypeOK'
  BY <1>0, <1>1, RkStepTyped, Frames DEF TypeOK
<1>6. WorldTypeOK'
  BY <1>0, <1>3 DEF TypeOK, WorldTypeOK, boundVars, clientVars, histVars
<1>7. StoreTypeOK' /\ ApiTypeOK'
  BY <1>0, <1>3, StoreSteps, Frames DEF TypeOK
<1>8. RoomForHeartbeat'
  BY <1>1, <1>3 DEF TypeInv, RoomForHeartbeat, HbGoto, apiVars
<1>9. AttemptHasRetryLeft'
  BY <1>0, <1>1 DEF TypeInv, TypeOK, HbTypeOK, AttemptHasRetryLeft, HbGoto
<1> QED
  BY <1>4, <1>5, <1>6, <1>7, <1>8, <1>9 DEF TypeInv, TypeOK

\* The steps of the client library, of etcd and of the world around.
LEMMA TypeWorld ==
  ASSUME TypeInv,
         \/ \E h \in Heartbeat : KacClosed(h) \/ KacDeadline(h)
         \/ \E l \in LeaseId : Expire(l) \/ ExpireInUse(l)
         \/ \E k \in Key : LateDelete(k) \/ \E l \in LeaseId : LatePut(k, l)
         \/ CancelOptsCtx \/ CloseClient \/ Crash
  PROVE  TypeInv'
<1> USE MaxLeaseAssumption, RegistryAssumption
<1>0. TypeOK
  BY DEF TypeInv
<1>1. CASE \E h \in Heartbeat : KacClosed(h) \/ KacDeadline(h)
  <2>1. StoreTypeOK' /\ ApiTypeOK' /\ RkTypeOK'
    BY <1>0, <1>1, StoreSteps, Frames DEF TypeOK, KacClosed, KacDeadline, KacFrame
  <2>2. HbTypeOK'
    BY <1>0, <1>1 DEF TypeOK, HbTypeOK, KacClosed, KacDeadline, KacFrame
  <2>3. WorldTypeOK'
    BY <1>0, <1>1 DEF TypeOK, WorldTypeOK, KacClosed, KacDeadline, KacFrame,
                      Fault, lateVars, boundVars, clientVars, histVars
  <2>4. RoomForHeartbeat' /\ AttemptHasRetryLeft'
    BY <1>1 DEF TypeInv, RoomForHeartbeat, AttemptHasRetryLeft, KacClosed,
                KacDeadline, KacFrame, apiVars
  <2> QED
    BY <2>1, <2>2, <2>3, <2>4 DEF TypeInv, TypeOK
<1>2. CASE \E l \in LeaseId : Expire(l) \/ ExpireInUse(l)
  <2>1. StoreTypeOK' /\ ApiTypeOK' /\ RkTypeOK' /\ HbTypeOK'
    BY <1>0, <1>2, StoreSteps, Frames DEF TypeOK, Expire, ExpireInUse, ExpireFrame
  <2>2. WorldTypeOK'
    BY <1>0, <1>2 DEF TypeOK, WorldTypeOK, Expire, ExpireInUse, ExpireFrame,
                      Fault, boundVars, clientVars, histVars
  <2>3. RoomForHeartbeat' /\ AttemptHasRetryLeft'
    BY <1>2 DEF TypeInv, RoomForHeartbeat, AttemptHasRetryLeft, Expire,
                ExpireInUse, ExpireFrame, apiVars, hbVars
  <2> QED
    BY <2>1, <2>2, <2>3 DEF TypeInv, TypeOK
<1>3. CASE \E k \in Key : LateDelete(k) \/ \E l \in LeaseId : LatePut(k, l)
  <2>0. \/ \E k \in Key, l \in 0..MaxLease : PutKey(k, l)
        \/ \E k \in Key : DeleteKey(k)
    <3>1. LeaseId \subseteq 0..MaxLease
      BY DEF LeaseId
    <3> QED
      BY <1>3, <3>1 DEF LateDelete, LatePut
  <2>1. StoreTypeOK' /\ ApiTypeOK' /\ RkTypeOK' /\ HbTypeOK'
    BY <1>0, <1>3, <2>0, StoreSteps, Frames DEF TypeOK, LateDelete, LatePut
  <2>2. WorldTypeOK'
    BY <1>0, <1>3 DEF TypeOK, WorldTypeOK, LateDelete, LatePut, boundVars,
                      clientVars
  <2>3. RoomForHeartbeat' /\ AttemptHasRetryLeft'
    BY <1>3 DEF TypeInv, RoomForHeartbeat, AttemptHasRetryLeft, LateDelete,
                LatePut, apiVars, hbVars
  <2> QED
    BY <2>1, <2>2, <2>3 DEF TypeInv, TypeOK
<1>4. CASE CancelOptsCtx \/ CloseClient
  <2>1. StoreTypeOK' /\ ApiTypeOK' /\ RkTypeOK'
    BY <1>0, <1>4, StoreSteps, Frames DEF TypeOK, CancelOptsCtx, CloseClient
  <2>2. HbTypeOK'
    BY <1>0, <1>4 DEF TypeOK, HbTypeOK, CancelOptsCtx, CloseClient, hbVars
  <2>3. WorldTypeOK'
    <3>1. UNCHANGED <<lateVars, faults, histVars>>
      BY <1>4 DEF CancelOptsCtx, CloseClient, Stop
    <3>2. stops' \in 0..MaxStop
      <4>1. stops < MaxStop /\ stops' = stops + 1
        BY <1>4 DEF CancelOptsCtx, CloseClient, Stop
      <4> QED
        BY <1>0, <4>1 DEF TypeOK, WorldTypeOK
    <3>3. clientOpen' \in BOOLEAN /\ optsCtx' \in BOOLEAN
      BY <1>0, <1>4 DEF TypeOK, WorldTypeOK, CancelOptsCtx, CloseClient
    <3> QED
      BY <1>0, <3>1, <3>2, <3>3 DEF TypeOK, WorldTypeOK, lateVars, histVars
  <2>4. RoomForHeartbeat' /\ AttemptHasRetryLeft'
    BY <1>4 DEF TypeInv, RoomForHeartbeat, AttemptHasRetryLeft, CancelOptsCtx,
                CloseClient, apiVars, hbVars
  <2> QED
    BY <2>1, <2>2, <2>3, <2>4 DEF TypeInv, TypeOK
<1>5. CASE Crash
  <2>1. StoreTypeOK' /\ ApiTypeOK' /\ RkTypeOK'
    BY <1>0, <1>5, StoreSteps
       DEF TypeOK, Crash, ApiTypeOK, RkTypeOK, NoLease
  <2>2. HbTypeOK'
    BY <1>0, <1>5 DEF TypeOK, HbTypeOK, Crash, NoLease
  <2>3. WorldTypeOK'
    <3>1. UNION {AbandonedPuts(c) : c \in Caller} \subseteq Key \X (0..MaxLease)
      BY <1>0, AbandonedPutsTyped DEF TypeOK
    <3>2. KeyOf[callSvc] \in Key
      BY <1>0 DEF TypeOK, ApiTypeOK
    <3> QED
      BY <1>0, <1>5, <3>1, <3>2 DEF TypeOK, WorldTypeOK, Crash, Stop, histVars
  <2>4. RoomForHeartbeat' /\ AttemptHasRetryLeft'
    BY <1>5 DEF RoomForHeartbeat, AttemptHasRetryLeft, Crash
  <2> QED
    BY <2>1, <2>2, <2>3, <2>4 DEF TypeInv, TypeOK
<1> QED
  BY <1>1, <1>2, <1>3, <1>4, <1>5

LEMMA TypeNext == TypeInv /\ [Next]_vars => TypeInv'
<1> SUFFICES ASSUME TypeInv, [Next]_vars PROVE TypeInv'
  OBVIOUS
<1>1. CASE UNCHANGED vars
  BY <1>1, Frames, StoreSteps
     DEF vars, TypeInv, TypeOK, RoomForHeartbeat, AttemptHasRetryLeft, apiVars, hbVars
<1>2. CASE Next
  BY <1>2, TypeRk, TypeApi, TypeHb, TypeWorld DEF Next, Faults, ApiStep, RkRun
<1> QED
  BY <1>1, <1>2

\* Type correctness: no sequence of calls, faults and heartbeat steps takes a
\* variable of the registry out of its range.  In particular the retry counter
\* stays within opts.maxRetry and a key is only attached to a granted lease.
THEOREM TypeCorrect == Spec => []TypeOK
<1>1. TypeInv => TypeOK
  BY DEF TypeInv
<1> QED
  BY TypeInit, TypeNext, <1>1, PTL DEF Spec

-----------------------------------------------------------------------------
(* Heartbeats can be stopped when callers register a key only while it is   *)
(* unregistered.                                                            *)

\* Heartbeats are started in the order of their numbers.
SpawnedInOrder == \A h \in Heartbeat : hbPc[h] = "none" <=> h > spawned

\* ctxMap names a heartbeat under the instance it was started for.
MapNamesOwn ==
  \A s \in Service : ctxMap[s] # NoHeartbeat =>
    /\ ctxMap[s] \in Heartbeat /\ ctxMap[s] <= spawned
    /\ hbSvc[ctxMap[s]] = s

\* While a call is under way nothing with its key is registered.
CallOwnsKey ==
  callOp # "none" => \A t \in Service : SameKey(t, callSvc) => ctxMap[t] = NoHeartbeat

\* registerWithKV only runs for a Register call or a heartbeat's attempt.
RkHasCaller ==
  /\ rkPc[API] # "idle" => callOp = "register"
  /\ \A h \in Heartbeat : rkPc[h] # "idle" => hbPc[h] = "trying"

StopInv == /\ SpawnedInOrder /\ MapNamesOwn /\ CallOwnsKey
           /\ RkHasCaller /\ HeartbeatStoppable

LEMMA StopInit == Init => StopInv
BY RegistryAssumption
   DEF Init, StopInv, SpawnedInOrder, MapNamesOwn, CallOwnsKey, RkHasCaller,
       HeartbeatStoppable, Running, NoHeartbeat, Heartbeat, Caller

\* A step of registerWithKV or of a heartbeat: it starts no heartbeat, revives
\* none and does not touch ctxMap.
LEMMA StopRun ==
  ASSUME TypeInv, StopInv, UNCHANGED apiVars,
         UNCHANGED <<spawned, hbSvc, ctxLive>>,
         NEW c \in Caller,
         \A g \in Heartbeat \ {c} : hbPc'[g] = hbPc[g],
         \A g \in Heartbeat : (hbPc'[g] = "none") <=> (hbPc[g] = "none"),
         \A g \in Heartbeat : Running(g)' => Running(g),
         \A b \in Caller \ {c} : rkPc'[b] = rkPc[b],
         c = API => rkPc[c] # "idle",
         c \in Heartbeat => (rkPc'[c] # "idle" => hbPc'[c] = "trying")
  PROVE  StopInv'
<1>1. SpawnedInOrder' /\ MapNamesOwn' /\ CallOwnsKey'
  BY DEF StopInv, SpawnedInOrder, MapNamesOwn, CallOwnsKey, SameKey, apiVars
<1>2. RkHasCaller'
  <2>1. API \notin Heartbeat /\ API \in Caller /\ Heartbeat \subseteq Caller
    BY RegistryAssumption DEF Heartbeat, API, Caller
  <2> QED
    BY <2>1 DEF StopInv, RkHasCaller, apiVars
<1>3. HeartbeatStoppable'
  BY DEF StopInv, HeartbeatStoppable, apiVars
<1> QED
  BY <1>1, <1>2, <1>3 DEF StopInv

LEMMA StopRk ==
  ASSUME TypeInv, StopInv, NEW c \in Caller,
         \/ Grant(c) \/ Put(c) \/ PutRefused(c)
         \/ RpcLost(c) \/ PutAckLost(c) \/ RpcAborted(c)
  PROVE  StopInv'
<1>1. UNCHANGED apiVars /\ UNCHANGED hbVars /\ rkPc[c] # "idle"
      /\ \E pc \in RkPcs : rkPc' = [rkPc EXCEPT ![c] = pc]
  BY DEF Grant, Put, PutRefused, RpcLost, PutAckLost, RpcAborted, RkStep, RkPcs
<1>2. rkPc \in [Caller -> RkPcs]
  BY DEF TypeInv, TypeOK, RkTypeOK, RkPcs
<1>3. \A b \in Caller \ {c} : rkPc'[b] = rkPc[b]
  BY <1>1, <1>2
<1>4. c \in Heartbeat => hbPc'[c] = "trying"
  BY <1>1 DEF StopInv, RkHasCaller, hbVars
<1>5. /\ UNCHANGED <<spawned, hbSvc, ctxLive, hbPc>>
      /\ \A g \in Heartbeat : Running(g)' = Running(g)
  BY <1>1 DEF hbVars, Running
<1> QED
  BY <1>1, <1>3, <1>4, <1>5, StopRun

LEMMA StopHb ==
  ASSUME TypeInv, StopInv, NEW h \in Heartbeat, HbRun(h) \/ HbAttemptTimedOut(h)
  PROVE  StopInv'
<1>1. h \in Caller /\ h # API
  BY RegistryAssumption DEF Caller, Heartbeat, API
<1>2. UNCHANGED apiVars /\ UNCHANGED <<spawned, hbSvc, ctxLive>>
  BY DEF HbRun, HbStart, HbLeaseLost, HbStopped, HbRetryCancelled, HbAttempt,
         HbRetriesUsedUp, HbAttemptFailed, HbAttemptTimedOut, HbAttemptOk,
         HbFirstAnswer, HbGiveUp, HbGoto, HbReturn, HbFrame
<1>3. /\ Running(h)
      /\ \E pc \in HbPcs \ {"none"} : hbPc' = [hbPc EXCEPT ![h] = pc]
  BY DEF HbRun, HbStart, HbLeaseLost, HbStopped, HbRetryCancelled, HbAttempt,
         HbRetriesUsedUp, HbAttemptFailed, HbAttemptTimedOut, HbAttemptOk,
         HbFirstAnswer, HbGiveUp, HbGoto, HbReturn, HbPcs, Running
<1>4. /\ \A b \in Caller \ {h} : rkPc'[b] = rkPc[b]
      /\ rkPc'[h] # "idle" => hbPc'[h] = "trying"
  <2>1. CASE HbAttempt(h)
    BY <1>1, <2>1 DEF HbAttempt, RkStep, HbGoto, TypeInv, TypeOK, RkTypeOK, HbTypeOK
  <2>2. CASE HbAttemptFailed(h) \/ HbAttemptTimedOut(h) \/ HbAttemptOk(h)
    BY <1>1, <2>2 DEF HbAttemptFailed, HbAttemptTimedOut, HbAttemptOk, RkStep,
                      TypeInv, TypeOK, RkTypeOK
  <2>3. CASE \/ HbStart(h) \/ HbLeaseLost(h) \/ HbStopped(h)
             \/ HbRetryCancelled(h) \/ HbRetriesUsedUp(h)
             \/ HbFirstAnswer(h) \/ HbGiveUp(h)
    <3>1. UNCHANGED rkVars /\ hbPc[h] # "trying"
      BY <2>3 DEF HbStart, HbLeaseLost, HbStopped, HbRetryCancelled,
                  HbRetriesUsedUp, HbFirstAnswer, HbGiveUp
    <3> QED
      BY <3>1 DEF rkVars, StopInv, RkHasCaller
  <2> QED
    BY <2>1, <2>2, <2>3 DEF HbRun
<1>5. /\ \A g \in Heartbeat \ {h} : hbPc'[g] = hbPc[g]
      /\ \A g \in Heartbeat : (hbPc'[g] = "none") <=> (hbPc[g] = "none")
      /\ \A g \in Heartbeat : Running(g)' => Running(g)
  BY <1>3 DEF TypeInv, TypeOK, HbTypeOK, Running, HbPcs
<1> QED
  BY <1>1, <1>2, <1>4, <1>5, StopRun

LEMMA StopApi ==
  ASSUME OneRegistration, TypeInv, StopInv,
         \/ \E s \in Service : Register(s) \/ Deregister(s)
         \/ RegisterOk \/ RegisterErr
         \/ Delete \/ DeleteLost \/ DeleteAckLost \/ DeleteAborted
  PROVE  StopInv'
<1>0. /\ TypeOK /\ API \in Caller /\ API \notin Heartbeat
      /\ Heartbeat \subseteq Caller
  BY RegistryAssumption DEF TypeInv, Caller, API, Heartbeat
<1>1. ASSUME NEW s \in Service, Register(s)
      PROVE  StopInv'
  <2>1. UNCHANGED hbVars /\ ctxMap' = ctxMap /\ callSvc' = s /\ callOp' = "register"
    BY <1>1 DEF Register
  <2>2. CallOwnsKey'
    BY <1>1, <2>1 DEF Register, CallOwnsKey, SoleOwner, SameKey
  <2>3. RkHasCaller'
    BY <1>0, <1>1, <2>1
       DEF TypeOK, RkTypeOK, StopInv, RkHasCaller, Register, RkStep, hbVars
  <2>4. SpawnedInOrder' /\ MapNamesOwn' /\ HeartbeatStoppable'
    BY <2>1 DEF StopInv, SpawnedInOrder, MapNamesOwn, HeartbeatStoppable,
                Running, hbVars
  <2> QED
    BY <2>2, <2>3, <2>4 DEF StopInv
<1>2. ASSUME NEW s \in Service, Deregister(s)
      PROVE  StopInv'
  <2>1. /\ UNCHANGED <<rkVars, spawned, hbPc, hbSvc>>
        /\ callSvc' = s /\ callOp' = "deregister" /\ callOp = "none"
        /\ ctxMap' = [ctxMap EXCEPT ![s] = NoHeartbeat]
        /\ ctxLive' = [h \in Heartbeat |-> ctxLive[h] /\ h # ctxMap[s]]
    BY <1>2 DEF Deregister
  <2>2. CallOwnsKey'
    BY <1>0, <1>2, <2>1 DEF TypeOK, ApiTypeOK, Deregister, CallOwnsKey,
                            SoleOwner, SameKey
  <2>3. RkHasCaller'
    BY <2>1 DEF StopInv, RkHasCaller, rkVars
  <2>4. SpawnedInOrder' /\ MapNamesOwn'
    BY <1>0, <2>1 DEF TypeOK, ApiTypeOK, StopInv, SpawnedInOrder, MapNamesOwn
  <2>5. HeartbeatStoppable'
    <3> SUFFICES ASSUME NEW h \in Heartbeat, Running(h)', ctxLive'[h]
                 PROVE  ctxMap'[hbSvc'[h]] = h
      BY DEF HeartbeatStoppable
    <3>1. ctxLive[h] /\ h # ctxMap[s] /\ Running(h)
      BY <2>1 DEF Running
    <3>2. ctxMap[hbSvc[h]] = h
      BY <3>1 DEF StopInv, HeartbeatStoppable
    <3> QED
      BY <1>0, <2>1, <3>1, <3>2 DEF TypeOK, ApiTypeOK, HbTypeOK
  <2> QED
    BY <2>2, <2>3, <2>4, <2>5 DEF StopInv
<1>3. CASE RegisterOk
  <2> DEFINE n == spawned + 1
  <2>1. n \in Heartbeat /\ spawned \in Nat /\ callSvc \in Service
        /\ callOp = "register" /\ callOp' = "none"
    <3>1. callOp = "register" /\ callOp' = "none" /\ callSvc \in Service
      BY <1>0, <1>3 DEF TypeOK, ApiTypeOK, RegisterOk
    <3>2. spawned \in 0..MaxHeartbeat /\ spawned < MaxHeartbeat
      BY <1>0, <3>1 DEF TypeInv, TypeOK, HbTypeOK, RoomForHeartbeat
    <3> QED
      BY <3>1, <3>2, RegistryAssumption DEF Heartbeat
  <2>2. /\ ctxMap' = [ctxMap EXCEPT ![callSvc] = n]
        /\ spawned' = n
        /\ hbPc' = [hbPc EXCEPT ![n] = "start"]
        /\ hbSvc' = [hbSvc EXCEPT ![n] = callSvc]
        /\ ctxLive' = [ctxLive EXCEPT ![n] = optsCtx]
        /\ rkPc' = [rkPc EXCEPT ![API] = "idle"]
    BY <1>3 DEF RegisterOk, RkStep
  <2>3. hbPc[n] = "none"
    BY <2>1 DEF StopInv, SpawnedInOrder
  <2>4. SpawnedInOrder'
    BY <1>0, <2>1, <2>2 DEF TypeOK, HbTypeOK, StopInv, SpawnedInOrder, Heartbeat
  <2>5. MapNamesOwn'
    <3> SUFFICES ASSUME NEW s \in Service, ctxMap'[s] # NoHeartbeat
                 PROVE  /\ ctxMap'[s] \in Heartbeat /\ ctxMap'[s] <= spawned'
                        /\ hbSvc'[ctxMap'[s]] = s
      BY DEF MapNamesOwn
    <3>1. CASE s = callSvc
      BY <1>0, <2>1, <2>2, <3>1 DEF TypeOK, ApiTypeOK, HbTypeOK
    <3>2. CASE s # callSvc
      <4>1. /\ ctxMap'[s] = ctxMap[s] /\ ctxMap[s] \in Heartbeat
            /\ ctxMap[s] <= spawned /\ hbSvc[ctxMap[s]] = s
        BY <1>0, <2>2, <3>2 DEF TypeOK, ApiTypeOK, StopInv, MapNamesOwn
      <4>2. ctxMap[s] # n /\ ctxMap[s] <= n
        BY <2>1, <4>1 DEF Heartbeat
      <4> QED
        BY <1>0, <2>2, <4>1, <4>2 DEF TypeOK, HbTypeOK
    <3> QED
      BY <3>1, <3>2
  <2>6. CallOwnsKey'
    BY <2>1 DEF CallOwnsKey
  <2>7. RkHasCaller'
    BY <1>0, <2>1, <2>2, <2>3 DEF TypeOK, RkTypeOK, HbTypeOK, StopInv, RkHasCaller
  <2>8. HeartbeatStoppable'
    <3> SUFFICES ASSUME NEW h \in Heartbeat, Running(h)', ctxLive'[h]
                 PROVE  ctxMap'[hbSvc'[h]] = h
      BY DEF HeartbeatStoppable
    <3>1. CASE h = n
      BY <1>0, <2>1, <2>2, <3>1 DEF TypeOK, ApiTypeOK, HbTypeOK
    <3>2. CASE h # n
      <4>1. Running(h) /\ ctxLive[h] /\ hbSvc'[h] = hbSvc[h] /\ hbSvc[h] \in Service
        BY <1>0, <2>2, <3>2 DEF TypeOK, HbTypeOK, Running
      <4>2. ctxMap[hbSvc[h]] = h
        BY <4>1 DEF StopInv, HeartbeatStoppable
      <4>3. ctxMap[callSvc] = NoHeartbeat /\ h # NoHeartbeat
        BY <2>1 DEF StopInv, CallOwnsKey, SameKey, Heartbeat, NoHeartbeat
      <4> QED
        BY <1>0, <2>2, <4>1, <4>2, <4>3 DEF TypeOK, ApiTypeOK
    <3> QED
      BY <3>1, <3>2
  <2> QED
    BY <2>4, <2>5, <2>6, <2>7, <2>8 DEF StopInv
<1>4. CASE RegisterErr
  <2>1. UNCHANGED hbVars /\ ctxMap' = ctxMap /\ callOp' = "none"
    BY <1>4 DEF RegisterErr
  <2>2. RkHasCaller' /\ CallOwnsKey'
    BY <1>0, <1>4, <2>1 DEF TypeOK, RkTypeOK, StopInv, RkHasCaller, RegisterErr,
                            RkStep, hbVars, CallOwnsKey
  <2>3. SpawnedInOrder' /\ MapNamesOwn' /\ HeartbeatStoppable'
    BY <2>1 DEF StopInv, SpawnedInOrder, MapNamesOwn, HeartbeatStoppable,
                Running, hbVars
  <2> QED
    BY <2>2, <2>3 DEF StopInv
<1>5. CASE Delete \/ DeleteLost \/ DeleteAckLost \/ DeleteAborted
  <2>1. UNCHANGED <<rkVars, hbVars>> /\ ctxMap' = ctxMap /\ callOp' = "none"
        /\ callOp = "deregister"
    BY <1>5 DEF Delete, DeleteLost, DeleteAckLost, DeleteAborted
  <2> QED
    BY <2>1 DEF StopInv, SpawnedInOrder, MapNamesOwn, CallOwnsKey, RkHasCaller,
                HeartbeatStoppable, Running, rkVars, hbVars
<1> QED
  BY <1>1, <1>2, <1>3, <1>4, <1>5

LEMMA StopWorld ==
  ASSUME TypeInv, StopInv,
         \/ \E h \in Heartbeat : KacClosed(h) \/ KacDeadline(h)
         \/ \E l \in LeaseId : Expire(l) \/ ExpireInUse(l)
         \/ \E k \in Key : LateDelete(k) \/ \E l \in LeaseId : LatePut(k, l)
         \/ CancelOptsCtx \/ CloseClient \/ Crash
  PROVE  StopInv'
<1>1. CASE Crash
  <2>1. /\ hbPc' = [h \in Heartbeat |-> IF h <= spawned THEN "done" ELSE "none"]
        /\ ctxMap' = [s \in Service |-> NoHeartbeat]
        /\ callOp' = "none" /\ rkPc' = [c \in Caller |-> "idle"]
        /\ spawned' = spawned /\ spawned \in Nat
    BY <1>1 DEF Crash, TypeInv, TypeOK, HbTypeOK
  <2>2. API \in Caller /\ Heartbeat \subseteq Caller
    BY DEF Caller
  <2> QED
    BY <2>1, <2>2, RegistryAssumption
       DEF StopInv, SpawnedInOrder, MapNamesOwn, CallOwnsKey, RkHasCaller,
           HeartbeatStoppable, Running, Heartbeat
<1>2. CASE ~Crash
  <2>1. /\ UNCHANGED <<apiVars, rkVars, spawned, hbPc, hbSvc>>
        /\ \A h \in Heartbeat : ctxLive'[h] => ctxLive[h]
    BY <1>2 DEF KacClosed, KacDeadline, KacFrame, Expire, ExpireInUse,
                ExpireFrame, LateDelete, LatePut, CancelOptsCtx, CloseClient, hbVars
  <2> QED
    BY <2>1 DEF StopInv, SpawnedInOrder, MapNamesOwn, CallOwnsKey, RkHasCaller,
                HeartbeatStoppable, Running, SameKey, apiVars, rkVars
<1> QED
  BY <1>1, <1>2

LEMMA StopNext == OneRegistration /\ TypeInv /\ StopInv /\ [Next]_vars => StopInv'
<1> SUFFICES ASSUME OneRegistration, TypeInv, StopInv, [Next]_vars PROVE StopInv'
  OBVIOUS
<1>1. CASE UNCHANGED vars
  BY <1>1 DEF vars, StopInv, SpawnedInOrder, MapNamesOwn, CallOwnsKey,
              RkHasCaller, HeartbeatStoppable, Running, SameKey, apiVars, rkVars, hbVars
<1>2. CASE Next
  BY <1>2, StopRk, StopApi, StopHb, StopWorld DEF Next, Faults, ApiStep, RkRun
<1> QED
  BY <1>1, <1>2

\* When callers register a key only while it is unregistered, every heartbeat
\* that has not been cancelled can be: its cancel function is in ctxMap, as the
\* comment at registry.go:57-60 has it.  The network may do what it likes.
THEOREM HeartbeatsStoppable ==
  ASSUME OneRegistration
  PROVE  Spec => []HeartbeatStoppable
<1>1. StopInv => HeartbeatStoppable
  BY DEF StopInv
<1>2. TypeInv /\ StopInv /\ [Next]_vars => TypeInv' /\ StopInv'
  BY TypeNext, StopNext
<1> QED
  BY TypeInit, StopInit, <1>1, <1>2, PTL DEF Spec

-----------------------------------------------------------------------------
(* What comes back after a Deregister can only expire.                      *)

\* While nobody has a key registered or is registering it, it may be gone.
GoneNotActive == \A k \in gone : ~Active(k)

\* Lease l is the one an attempt has been granted or a heartbeat keeps in
\* curLeaseID.
Held(l) == \/ \E c \in Caller : rkLease[c] = l
           \/ \E h \in Heartbeat : hbLease[h] = l

\* etcd drops a key with the lease it hangs on.
KeysOnLiveLeases == \A k \in Key : Present(k) => kv[k] \in live

\* The lease of an attempt under way is known to nobody else.
AttemptLeasesPrivate ==
  \A c \in Caller : rkLease[c] # NoLease =>
    /\ \A d \in Caller : rkLease[d] = rkLease[c] => d = c
    /\ \A h \in Heartbeat : hbLease[h] # rkLease[c]

\* What a caller that gave up has left in the network carries a lease nobody
\* counts on any more, and so does whatever is listed under a gone key.
LatePutsUnheld == \A p \in latePuts : p[2] # NoLease /\ ~Held(p[2])
GoneUnheld == \A k \in gone : Present(k) => ~Held(kv[k])

LeaseInv == /\ KeysOnLiveLeases /\ AttemptLeasesPrivate
            /\ LatePutsUnheld /\ GoneUnheld

LEMMA LeaseInit == Init => GoneNotActive /\ LeaseInv
<1> SUFFICES ASSUME Init PROVE GoneNotActive /\ LeaseInv
  OBVIOUS
<1>1. GoneNotActive
  BY DEF Init, GoneNotActive, Active
<1>2. LeaseInv
  BY DEF Init, StoreInit, LeaseInv, KeysOnLiveLeases, AttemptLeasesPrivate,
         LatePutsUnheld, GoneUnheld, Present
<1> QED
  BY <1>1, <1>2

\* Whoever may put a key has it registered, or is registering it.
LEMMA PutterActive ==
  ASSUME TypeInv, StopInv, NEW c \in Caller, rkPc[c] # "idle", CallerCtxLive(c)
  PROVE  Active(CallerKey(c)) /\ CallerKey(c) \in Key
<1>1. CASE c = API
  BY <1>1, RegistryAssumption
     DEF StopInv, RkHasCaller, Active, CallerKey, TypeInv, TypeOK, ApiTypeOK
<1>2. CASE c \in Heartbeat /\ c # API
  <2>1. hbSvc[c] \in Service /\ hbPc[c] = "trying" /\ ctxLive[c]
    BY <1>2 DEF TypeInv, TypeOK, HbTypeOK, StopInv, RkHasCaller, CallerCtxLive
  <2>2. ctxMap[hbSvc[c]] = c
    BY <1>2, <2>1 DEF StopInv, HeartbeatStoppable, Running
  <2> QED
    BY <1>2, <2>1, <2>2, RegistryAssumption DEF Active, CallerKey, NoHeartbeat, API
<1> QED
  BY <1>1, <1>2 DEF Caller

\* While a Deregister is under way its key is not registered.
LEMMA DeregisteringNotActive ==
  ASSUME StopInv, callOp # "none"
  PROVE  \A s \in Service : KeyOf[s] = KeyOf[callSvc] => ctxMap[s] = NoHeartbeat
BY DEF StopInv, CallOwnsKey, SameKey

\* Only Register makes a key active, and then it is no longer gone.
LEMMA GoneNext ==
  ASSUME TypeInv, StopInv, GoneNotActive, Next
  PROVE  GoneNotActive'
<1>0. /\ callSvc \in Service /\ KeyOf[callSvc] \in Key /\ gone \subseteq Key
      /\ ctxMap \in [Service -> Heartbeat \cup {NoHeartbeat}]
  BY RegistryAssumption DEF TypeInv, TypeOK, ApiTypeOK, WorldTypeOK
<1>1. ASSUME NEW s \in Service, Register(s) PROVE GoneNotActive'
  BY <1>1 DEF Register, GoneNotActive, Active
<1>2. ASSUME NEW s \in Service, Deregister(s) PROVE GoneNotActive'
  <2>1. /\ gone' = gone /\ callOp' = "deregister"
        /\ \A t \in Service : ctxMap'[t] # NoHeartbeat => ctxMap[t] # NoHeartbeat
    BY <1>0, <1>2 DEF Deregister, histVars
  <2> QED
    BY <2>1 DEF GoneNotActive, Active
<1>3. CASE RegisterOk \/ RegisterErr
  <2>1. /\ gone' = gone /\ callOp' = "none" /\ callOp = "register"
        /\ \A t \in Service : t # callSvc => ctxMap'[t] = ctxMap[t]
        /\ ctxMap' = ctxMap \/ Active(KeyOf[callSvc])
    BY <1>0, <1>3 DEF RegisterOk, RegisterErr, histVars, Active
  <2>2. KeyOf[callSvc] \notin gone
    BY <1>0, <2>1 DEF GoneNotActive, Active
  <2> QED
    BY <2>1, <2>2 DEF GoneNotActive, Active
<1>4. CASE Delete
  <2>1. /\ UNCHANGED <<ctxMap, callSvc>> /\ callOp' = "none" /\ callOp = "deregister"
        /\ gone' = gone \cup {KeyOf[callSvc]}
    BY <1>4 DEF Delete
  <2> QED
    BY <2>1, DeregisteringNotActive DEF GoneNotActive, Active
<1>5. CASE DeleteLost \/ DeleteAckLost \/ DeleteAborted \/ Crash
  <2>1. /\ gone' = gone /\ callOp' = "none"
        /\ \A t \in Service : ctxMap'[t] # NoHeartbeat => ctxMap[t] # NoHeartbeat
    BY <1>5 DEF DeleteLost, DeleteAckLost, DeleteAborted, Crash, histVars
  <2> QED
    BY <2>1 DEF GoneNotActive, Active
<1>6. CASE \E c \in Caller : RkRun(c) \/ RpcLost(c) \/ PutAckLost(c)
  <2>1. UNCHANGED <<apiVars, gone>>
    BY <1>6 DEF RkRun, Grant, Put, PutRefused, RpcLost, PutAckLost, RpcAborted,
                histVars
  <2> QED
    BY <2>1 DEF GoneNotActive, Active, apiVars
<1>7. CASE \E h \in Heartbeat : HbRun(h) \/ HbAttemptTimedOut(h)
  <2>1. UNCHANGED <<apiVars, gone>>
    BY <1>7 DEF HbRun, HbStart, HbLeaseLost, HbStopped, HbRetryCancelled, HbAttempt,
         HbRetriesUsedUp, HbAttemptFailed, HbAttemptTimedOut, HbAttemptOk,
         HbFirstAnswer, HbGiveUp, HbFrame, histVars
  <2> QED
    BY <2>1 DEF GoneNotActive, Active, apiVars
<1>8. CASE \/ \E h \in Heartbeat : KacClosed(h) \/ KacDeadline(h)
           \/ \E l \in LeaseId : Expire(l) \/ ExpireInUse(l)
           \/ \E k \in Key : LateDelete(k) \/ \E l \in LeaseId : LatePut(k, l)
           \/ CancelOptsCtx \/ CloseClient
  <2>1. UNCHANGED <<apiVars, gone>>
    BY <1>8 DEF KacClosed, KacDeadline, KacFrame, Expire, ExpireInUse, ExpireFrame,
                LateDelete, LatePut, CancelOptsCtx, CloseClient, histVars
  <2> QED
    BY <2>1 DEF GoneNotActive, Active, apiVars
<1> QED
  BY <1>1, <1>2, <1>3, <1>4, <1>5, <1>6, <1>7, <1>8
     DEF Next, ApiStep, RkRun, Faults

\* A step after which nobody holds a lease he did not hold before, and that
\* puts nothing.
LEMMA LeaseKept ==
  ASSUME TypeInv, LeaseInv, gone' \subseteq gone, latePuts' \subseteq latePuts,
         \A k \in Key : kv'[k] = kv[k] \/ kv'[k] = NoLease,
         \A k \in Key : Present(k)' => (kv[k] \in live => kv[k] \in live'),
         \A l \in LeaseId : Held(l)' => Held(l),
         AttemptLeasesPrivate'
  PROVE  LeaseInv'
<1>0. /\ gone \subseteq Key /\ latePuts \subseteq Key \X (0..MaxLease)
      /\ kv \in [Key -> 0..MaxLease]
  BY DEF TypeInv, TypeOK, WorldTypeOK, StoreTypeOK
<1>1. KeysOnLiveLeases'
  BY DEF LeaseInv, KeysOnLiveLeases, Present
<1>2. LatePutsUnheld'
  <2> SUFFICES ASSUME NEW p \in latePuts' PROVE p[2] # NoLease /\ ~Held(p[2])'
    BY DEF LatePutsUnheld
  <2>1. p[2] \in LeaseId /\ ~Held(p[2]) /\ p[2] # NoLease
    BY <1>0, MaxLeaseAssumption DEF LeaseInv, LatePutsUnheld, LeaseId, NoLease
  <2> QED
    BY <2>1
<1>3. GoneUnheld'
  <2> SUFFICES ASSUME NEW k \in gone', Present(k)' PROVE ~Held(kv[k])'
    BY DEF GoneUnheld
  <2>1. k \in Key /\ k \in gone /\ kv'[k] = kv[k] /\ Present(k)
    BY <1>0 DEF Present
  <2>2. kv[k] \in LeaseId /\ ~Held(kv[k])
    BY <1>0, <2>1, MaxLeaseAssumption
       DEF LeaseInv, GoneUnheld, Present, NoLease, LeaseId
  <2> QED
    BY <2>1, <2>2 DEF Held
<1> QED
  BY <1>1, <1>2, <1>3 DEF LeaseInv

\* A step that only forgets leases: callers and heartbeats, on their way to
\* an error, a return or a crash, may leave puts in the network.
LEMMA LeaseForgotten ==
  ASSUME TypeInv, LeaseInv, gone' \subseteq gone, UNCHANGED storeVars,
         \A d \in Caller : rkLease'[d] \in {rkLease[d], NoLease},
         \A h \in Heartbeat : hbLease'[h] \in {hbLease[h], NoLease},
         \A p \in latePuts' : \/ p \in latePuts
                              \/ \E c \in Caller : /\ p[2] = rkLease[c] /\ p[2] # NoLease
                                                   /\ rkLease'[c] = NoLease
  PROVE  LeaseInv'
<1>0. gone \subseteq Key
  BY DEF TypeInv, TypeOK, WorldTypeOK
<1>1. KeysOnLiveLeases'
  BY DEF LeaseInv, KeysOnLiveLeases, Present, storeVars
<1>2. AttemptLeasesPrivate'
  BY DEF LeaseInv, AttemptLeasesPrivate
<1>3. LatePutsUnheld'
  <2> SUFFICES ASSUME NEW p \in latePuts'
               PROVE  /\ p[2] # NoLease
                      /\ \A d \in Caller : rkLease'[d] # p[2]
                      /\ \A h \in Heartbeat : hbLease'[h] # p[2]
    BY DEF LatePutsUnheld, Held
  <2>1. CASE p \in latePuts
    BY <2>1 DEF LeaseInv, LatePutsUnheld, Held
  <2>2. CASE p \notin latePuts
    <3>1. PICK c \in Caller : /\ p[2] = rkLease[c] /\ p[2] # NoLease
                              /\ rkLease'[c] = NoLease
      BY <2>2
    <3>2. /\ \A d \in Caller : rkLease[d] = rkLease[c] => d = c
          /\ \A h \in Heartbeat : hbLease[h] # rkLease[c]
      BY <3>1 DEF LeaseInv, AttemptLeasesPrivate
    <3> QED
      BY <3>1, <3>2
  <2> QED
    BY <2>1, <2>2
<1>4. GoneUnheld'
  <2> SUFFICES ASSUME NEW k \in gone, kv[k] # NoLease
               PROVE  /\ \A d \in Caller : rkLease'[d] # kv[k]
                      /\ \A h \in Heartbeat : hbLease'[h] # kv[k]
    BY DEF GoneUnheld, Held, Present, storeVars
  <2> QED
    BY DEF LeaseInv, GoneUnheld, Held, Present
<1> QED
  BY <1>1, <1>2, <1>3, <1>4 DEF LeaseInv

LEMMA LeaseRk ==
  ASSUME TypeInv, StopInv, GoneNotActive, LeaseInv, NEW c \in Caller,
         \/ Grant(c) \/ Put(c) \/ PutRefused(c)
         \/ RpcLost(c) \/ PutAckLost(c) \/ RpcAborted(c)
  PROVE  LeaseInv'
<1>0. /\ UNCHANGED <<hbLease, gone>> /\ gone \subseteq Key
      /\ kv \in [Key -> 0..MaxLease] /\ live \subseteq LeaseId
      /\ rkLease \in [Caller -> 0..MaxLease]
  BY DEF Grant, Put, PutRefused, RpcLost, PutAckLost, RpcAborted, hbVars, histVars,
         TypeInv, TypeOK, WorldTypeOK, StoreTypeOK, RkTypeOK
<1>1. CASE Grant(c)
  <2>1. PICK l \in LeaseId : FirstUnknown(l) /\ GrantLease(l) /\ RkStep(c, "put", l)
    BY <1>1 DEF Grant
  <2>2. /\ l # NoLease /\ l \notin live /\ kv' = kv /\ live' = live \cup {l}
        /\ \A p \in latePuts : p[2] # l
        /\ \A d \in Caller : rkLease[d] # l
        /\ \A h \in Heartbeat : hbLease[h] # l
        /\ rkLease' = [rkLease EXCEPT ![c] = l] /\ latePuts' = latePuts
    <3>1. latePuts' = latePuts
      BY <1>1 DEF Grant, lateVars
    <3>2. Unknown(l) /\ l # NoLease
      BY <2>1 DEF FirstUnknown, LeaseId, NoLease
    <3>3. kv' = kv /\ live' = live \cup {l} /\ rkLease' = [rkLease EXCEPT ![c] = l]
      BY <2>1 DEF GrantLease, RkStep
    <3> QED
      BY <3>1, <3>2, <3>3 DEF Unknown
  <2>3. KeysOnLiveLeases' /\ AttemptLeasesPrivate'
    BY <1>0, <2>2 DEF LeaseInv, KeysOnLiveLeases, AttemptLeasesPrivate, Present
  <2>4. LatePutsUnheld'
    BY <1>0, <2>2 DEF LeaseInv, LatePutsUnheld, Held
  <2>5. GoneUnheld'
    <3>1. \A k \in Key : kv[k] # l
      BY <2>2 DEF LeaseInv, KeysOnLiveLeases, Present
    <3> QED
      BY <1>0, <2>2, <3>1 DEF LeaseInv, GoneUnheld, Held, Present
  <2> QED
    BY <2>3, <2>4, <2>5 DEF LeaseInv
<1>2. CASE Put(c) \/ PutAckLost(c)
  <2>1. /\ kv' = [kv EXCEPT ![CallerKey(c)] = rkLease[c]] /\ live' = live
        /\ rkLease[c] \in live /\ latePuts' = latePuts
        /\ \A d \in Caller : rkLease'[d] \in {rkLease[d], NoLease}
    BY <1>0, <1>2 DEF Put, PutAckLost, PutKey, RkStep, lateVars
  <2>2. CallerKey(c) \in Key /\ CallerKey(c) \notin gone
    BY <1>2, PutterActive DEF Put, PutAckLost, GoneNotActive
  <2>3. KeysOnLiveLeases' /\ AttemptLeasesPrivate' /\ LatePutsUnheld'
    <3>1. KeysOnLiveLeases'
      BY <1>0, <2>1, <2>2 DEF LeaseInv, KeysOnLiveLeases, Present
    <3>2. AttemptLeasesPrivate'
      BY <1>0, <2>1 DEF LeaseInv, AttemptLeasesPrivate
    <3>3. LatePutsUnheld'
      BY <1>0, <2>1 DEF LeaseInv, LatePutsUnheld, Held
    <3> QED
      BY <3>1, <3>2, <3>3
  <2>4. GoneUnheld'
    BY <1>0, <2>1, <2>2 DEF LeaseInv, GoneUnheld, Held, Present
  <2> QED
    BY <2>3, <2>4 DEF LeaseInv
<1>3. CASE PutRefused(c) \/ RpcLost(c) \/ RpcAborted(c)
  <2>1. /\ UNCHANGED storeVars /\ rkLease' = [rkLease EXCEPT ![c] = NoLease]
        /\ latePuts' = latePuts \/ latePuts' = latePuts \cup AbandonedPuts(c)
    BY <1>3 DEF PutRefused, RpcLost, RpcAborted, RkStep, lateVars
  <2>2. \A p \in AbandonedPuts(c) : p[2] = rkLease[c] /\ p[2] # NoLease
    BY <1>0 DEF AbandonedPuts, LeaseId, NoLease
  <2>3. \A p \in latePuts' : \/ p \in latePuts
                             \/ \E d \in Caller : /\ p[2] = rkLease[d] /\ p[2] # NoLease
                                                  /\ rkLease'[d] = NoLease
    BY <1>0, <2>1, <2>2
  <2>4. /\ \A d \in Caller : rkLease'[d] \in {rkLease[d], NoLease}
        /\ \A h \in Heartbeat : hbLease'[h] \in {hbLease[h], NoLease}
    BY <1>0, <2>1
  <2> QED
    BY <1>0, <2>1, <2>3, <2>4, LeaseForgotten
<1> QED
  BY <1>1, <1>2, <1>3

LEMMA LeaseApi ==
  ASSUME TypeInv, StopInv, LeaseInv,
         \/ \E s \in Service : Register(s) \/ Deregister(s)
         \/ RegisterOk \/ RegisterErr
         \/ Delete \/ DeleteLost \/ DeleteAckLost \/ DeleteAborted
  PROVE  LeaseInv'
<1>0. /\ API \in Caller /\ callSvc \in Service /\ KeyOf[callSvc] \in Key
      /\ gone \subseteq Key /\ kv \in [Key -> 0..MaxLease]
      /\ rkLease \in [Caller -> 0..MaxLease] /\ hbLease \in [Heartbeat -> 0..MaxLease]
  BY RegistryAssumption
     DEF Caller, TypeInv, TypeOK, WorldTypeOK, StoreTypeOK, RkTypeOK, ApiTypeOK, HbTypeOK
<1>1. CASE \/ \E s \in Service : Register(s) \/ Deregister(s)
           \/ RegisterErr
  <2>1. /\ UNCHANGED <<storeVars, latePuts, hbLease>> /\ gone' \subseteq gone
        /\ rkLease' = rkLease \/ rkLease' = [rkLease EXCEPT ![API] = NoLease]
    BY <1>1 DEF Register, Deregister, RegisterErr, RkStep, lateVars, hbVars, rkVars, histVars
  <2>2. /\ \A d \in Caller : rkLease'[d] \in {rkLease[d], NoLease}
        /\ \A h \in Heartbeat : hbLease'[h] \in {hbLease[h], NoLease}
    BY <1>0, <2>1
  <2> QED
    BY <2>1, <2>2, LeaseForgotten
<1>2. CASE RegisterOk
  <2> DEFINE n == spawned + 1
  <2>1. /\ UNCHANGED <<kv, live, latePuts, gone>>
        /\ rkLease' = [rkLease EXCEPT ![API] = NoLease]
        /\ hbLease' = [hbLease EXCEPT ![n] = rkLease[API]]
    BY <1>2 DEF RegisterOk, RkStep, storeVars, lateVars, histVars
  <2>2. \A l \in LeaseId : Held(l)' => Held(l)
    BY <1>0, <2>1 DEF Held, LeaseId, NoLease
  <2>3. AttemptLeasesPrivate'
    BY <1>0, <2>1 DEF LeaseInv, AttemptLeasesPrivate
  <2> QED
    BY <2>1, <2>2, <2>3, LeaseKept
<1>3. CASE DeleteLost \/ DeleteAckLost \/ DeleteAborted
  <2>1. /\ UNCHANGED <<live, latePuts, gone, rkLease, hbLease>>
        /\ kv' = kv \/ kv' = [kv EXCEPT ![KeyOf[callSvc]] = NoLease]
    BY <1>3 DEF DeleteLost, DeleteAckLost, DeleteAborted, DeleteKey, storeVars,
                lateVars, rkVars, hbVars, histVars
  <2>2. \A k \in Key : kv'[k] = kv[k] \/ kv'[k] = NoLease
    BY <1>0, <2>1
  <2>3. \A l \in LeaseId : Held(l)' => Held(l)
    BY <2>1 DEF Held
  <2>4. AttemptLeasesPrivate'
    BY <2>1 DEF LeaseInv, AttemptLeasesPrivate
  <2> QED
    BY <2>1, <2>2, <2>3, <2>4, LeaseKept
<1>4. CASE Delete
  <2>1. /\ UNCHANGED <<live, latePuts, rkLease, hbLease>>
        /\ kv' = [kv EXCEPT ![KeyOf[callSvc]] = NoLease]
        /\ gone' = gone \cup {KeyOf[callSvc]}
    BY <1>4 DEF Delete, DeleteKey, lateVars, rkVars, hbVars
  <2>2. KeysOnLiveLeases' /\ AttemptLeasesPrivate'
    BY <1>0, <2>1 DEF LeaseInv, KeysOnLiveLeases, AttemptLeasesPrivate, Present
  <2>3. LatePutsUnheld' /\ GoneUnheld'
    BY <1>0, <2>1 DEF LeaseInv, LatePutsUnheld, GoneUnheld, Held, Present
  <2> QED
    BY <2>2, <2>3 DEF LeaseInv
<1> QED
  BY <1>1, <1>2, <1>3, <1>4

LEMMA LeaseHb ==
  ASSUME TypeInv, LeaseInv, NEW h \in Heartbeat, HbRun(h) \/ HbAttemptTimedOut(h)
  PROVE  LeaseInv'
<1>0. /\ h \in Caller /\ live \subseteq LeaseId
      /\ rkLease \in [Caller -> 0..MaxLease] /\ hbLease \in [Heartbeat -> 0..MaxLease]
  BY DEF Caller, TypeInv, TypeOK, StoreTypeOK, RkTypeOK, HbTypeOK
<1>1. UNCHANGED <<storeVars, gone>>
  BY DEF HbRun, HbStart, HbLeaseLost, HbStopped, HbRetryCancelled, HbAttempt,
       HbRetriesUsedUp, HbAttemptFailed, HbAttemptTimedOut, HbAttemptOk,
       HbFirstAnswer, HbGiveUp, HbFrame, histVars
<1>2. CASE HbAttemptOk(h)
  <2>1. /\ rkLease' = [rkLease EXCEPT ![h] = NoLease] /\ latePuts' = latePuts
        /\ hbLease' = [hbLease EXCEPT ![h] = rkLease[h]]
    BY <1>2 DEF HbAttemptOk, HbGoto, RkStep, HbFrame, lateVars
  <2>2. \A l \in LeaseId : Held(l)' => Held(l)
    BY <1>0, <2>1 DEF Held, LeaseId, NoLease
  <2>3. AttemptLeasesPrivate'
    BY <1>0, <2>1 DEF LeaseInv, AttemptLeasesPrivate
  <2> QED
    BY <1>1, <2>1, <2>2, <2>3, LeaseKept DEF storeVars
<1>3. CASE ~HbAttemptOk(h)
  <2>1. /\ hbLease' = hbLease \/ hbLease' = [hbLease EXCEPT ![h] = hbLease[h]]
           \/ hbLease' = [hbLease EXCEPT ![h] = NoLease]
        /\ rkLease' = rkLease \/ rkLease' = [rkLease EXCEPT ![h] = NoLease]
    BY <1>3 DEF HbRun, HbStart, HbLeaseLost, HbStopped, HbRetryCancelled, HbAttempt,
       HbRetriesUsedUp, HbAttemptFailed, HbAttemptTimedOut,
       HbFirstAnswer, HbGiveUp, HbGoto, HbReturn, RkStep, rkVars
  <2>2. \/ latePuts' = latePuts
        \/ /\ latePuts' = latePuts \cup AbandonedPuts(h)
           /\ rkLease' = [rkLease EXCEPT ![h] = NoLease]
    BY <1>3 DEF HbRun, HbStart, HbLeaseLost, HbStopped, HbRetryCancelled, HbAttempt,
       HbRetriesUsedUp, HbAttemptFailed, HbAttemptTimedOut,
       HbFirstAnswer, HbGiveUp, HbFrame, RkStep, lateVars
  <2>3. \A p \in AbandonedPuts(h) : p[2] = rkLease[h] /\ p[2] # NoLease
    BY <1>0 DEF AbandonedPuts, LeaseId, NoLease
  <2>4. \A p \in latePuts' : \/ p \in latePuts
                             \/ \E d \in Caller : /\ p[2] = rkLease[d] /\ p[2] # NoLease
                                                  /\ rkLease'[d] = NoLease
    BY <1>0, <2>2, <2>3
  <2>5. /\ \A d \in Caller : rkLease'[d] \in {rkLease[d], NoLease}
        /\ \A g \in Heartbeat : hbLease'[g] \in {hbLease[g], NoLease}
    BY <1>0, <2>1
  <2> QED
    BY <1>1, <2>4, <2>5, LeaseForgotten
<1> QED
  BY <1>2, <1>3

LEMMA LeaseWorld ==
  ASSUME TypeInv, LeaseInv,
         \/ \E h \in Heartbeat : KacClosed(h) \/ KacDeadline(h)
         \/ \E l \in LeaseId : Expire(l) \/ ExpireInUse(l)
         \/ \E k \in Key : LateDelete(k) \/ \E l \in LeaseId : LatePut(k, l)
         \/ CancelOptsCtx \/ CloseClient \/ Crash
  PROVE  LeaseInv'
<1>0. /\ gone \subseteq Key /\ kv \in [Key -> 0..MaxLease] /\ live \subseteq LeaseId
  BY DEF TypeInv, TypeOK, WorldTypeOK, StoreTypeOK
<1>1. CASE Crash
  <2>1. /\ UNCHANGED <<storeVars, gone>>
        /\ \A d \in Caller : rkLease'[d] = NoLease
        /\ \A h \in Heartbeat : hbLease'[h] = NoLease
        /\ latePuts' = latePuts \cup UNION {AbandonedPuts(c) : c \in Caller}
    BY <1>1 DEF Crash, histVars
  <2>2. \A c \in Caller : \A p \in AbandonedPuts(c) : p[2] = rkLease[c] /\ p[2] # NoLease
    BY <1>0 DEF AbandonedPuts, LeaseId, NoLease
  <2> QED
    BY <2>1, <2>2, LeaseForgotten
<1>2. CASE \E l \in LeaseId : Expire(l) \/ ExpireInUse(l)
  <2>1. PICK l \in LeaseId : Expire(l) \/ ExpireInUse(l)
    BY <1>2
  <2>2. /\ UNCHANGED <<gone, rkLease, hbLease>> /\ latePuts' \subseteq latePuts
        /\ kv' = [k \in Key |-> IF kv[k] = l THEN NoLease ELSE kv[k]]
        /\ live' = live \ {l}
    BY <2>1 DEF Expire, ExpireInUse, ExpireFrame, ExpireLease, rkVars, hbVars, histVars
  <2>3. /\ \A k \in Key : kv'[k] = kv[k] \/ kv'[k] = NoLease
        /\ \A k \in Key : Present(k)' => (kv[k] \in live => kv[k] \in live')
    BY <1>0, <2>2 DEF Present
  <2>4. (\A x \in LeaseId : Held(x)' => Held(x)) /\ AttemptLeasesPrivate'
    BY <2>2 DEF Held, LeaseInv, AttemptLeasesPrivate
  <2> QED
    BY <2>2, <2>3, <2>4, LeaseKept
<1>3. CASE \E k \in Key : \E l \in LeaseId : LatePut(k, l)
  <2>1. PICK k \in Key : \E x \in LeaseId : LatePut(k, x)
    BY <1>3
  <2>2. PICK l \in LeaseId : LatePut(k, l)
    BY <2>1
  <2>3. /\ UNCHANGED <<live, gone, rkLease, hbLease>> /\ latePuts' \subseteq latePuts
        /\ <<k, l>> \in latePuts /\ l \in live /\ kv' = [kv EXCEPT ![k] = l]
    BY <2>2 DEF LatePut, PutKey, rkVars, hbVars
  <2>4. ~Held(l)
    BY <2>3 DEF LeaseInv, LatePutsUnheld
  <2>5. KeysOnLiveLeases' /\ AttemptLeasesPrivate' /\ LatePutsUnheld'
    BY <1>0, <2>3 DEF LeaseInv, KeysOnLiveLeases, AttemptLeasesPrivate, LatePutsUnheld,
                      Held, Present
  <2>6. GoneUnheld'
    BY <1>0, <2>3, <2>4 DEF LeaseInv, GoneUnheld, Held, Present
  <2> QED
    BY <2>5, <2>6 DEF LeaseInv
<1>4. CASE \/ \E h \in Heartbeat : KacClosed(h) \/ KacDeadline(h)
           \/ \E k \in Key : LateDelete(k)
           \/ CancelOptsCtx \/ CloseClient
  <2>1. /\ UNCHANGED <<live, gone, rkLease, hbLease, latePuts>>
        /\ kv' = kv \/ \E k \in Key : kv' = [kv EXCEPT ![k] = NoLease]
    BY <1>4 DEF KacClosed, KacDeadline, KacFrame, LateDelete, DeleteKey, CancelOptsCtx,
                CloseClient, storeVars, rkVars, hbVars, lateVars, histVars
  <2>2. \A k \in Key : kv'[k] = kv[k] \/ kv'[k] = NoLease
    BY <1>0, <2>1
  <2>3. (\A x \in LeaseId : Held(x)' => Held(x)) /\ AttemptLeasesPrivate'
    BY <2>1 DEF Held, LeaseInv, AttemptLeasesPrivate
  <2> QED
    BY <2>1, <2>2, <2>3, LeaseKept
<1> QED
  BY <1>1, <1>2, <1>3, <1>4

IInv == TypeInv /\ StopInv /\ GoneNotActive /\ LeaseInv

LEMMA IInvInit == Init => IInv
BY TypeInit, StopInit, LeaseInit DEF IInv

LEMMA IInvNext == OneRegistration /\ IInv /\ [Next]_vars => IInv'
<1> SUFFICES ASSUME OneRegistration, IInv, [Next]_vars PROVE IInv'
  OBVIOUS
<1>1. TypeInv' /\ StopInv'
  BY TypeNext, StopNext DEF IInv
<1>2. CASE UNCHANGED vars
  <2>1. UNCHANGED <<kv, live, callOp, callSvc, ctxMap, rkLease, hbLease, latePuts, gone>>
    BY <1>2 DEF vars, storeVars, apiVars, rkVars, hbVars, lateVars, histVars
  <2>2. GoneNotActive'
    BY <2>1 DEF IInv, GoneNotActive, Active
  <2>3. LeaseInv'
    BY <2>1 DEF IInv, LeaseInv, KeysOnLiveLeases, AttemptLeasesPrivate, LatePutsUnheld,
                GoneUnheld, Held, Present
  <2> QED
    BY <1>1, <2>2, <2>3 DEF IInv
<1>3. CASE Next
  <2>1. GoneNotActive'
    BY <1>3, GoneNext DEF IInv
  <2>2. LeaseInv'
    BY <1>3, LeaseRk, LeaseApi, LeaseHb, LeaseWorld
       DEF IInv, Next, Faults, ApiStep, RkRun
  <2> QED
    BY <1>1, <2>1, <2>2 DEF IInv
<1> QED
  BY <1>2, <1>3

\* After Deregister has returned nil its key may come back, with the put of an
\* attempt it did not call back (registry.go:117, 157, 195).  For any number of
\* instances, heartbeats, leases and faults: what comes back hangs on a lease
\* that no heartbeat keeps alive, that none is about to keep alive, and that no
\* attempt under way has been granted.  It can only expire.
THEOREM ReturnedKeysExpire ==
  ASSUME OneRegistration
  PROVE  Spec => []ReturnsOnlyToExpire
<1>1. IInv => ReturnsOnlyToExpire
  BY DEF IInv, LeaseInv, GoneUnheld, ReturnsOnlyToExpire, InUse, Kept, Held
<1>2. IInv /\ [Next]_vars => IInv'
  BY IInvNext
<1> QED
  BY IInvInit, <1>1, <1>2, PTL DEF Spec

-----------------------------------------------------------------------------
(* The registry implements Presence.                                        *)

PhaseOf(k) == IF k \in gone THEN "absent" ELSE IF Active(k) THEN "in" ELSE "leaving"
Phase == [k \in Key |-> PhaseOf(k)]
Listed == {k \in Key : Present(k)}
Underway == {k \in Key : PutUnderway(k)}

\* Caller c is putting its key, with a lease that is alive.
Putting(c) == rkPc[c] = "put" /\ rkLease[c] \in live

\* A step that leaves every key's phase alone and neither lists a key nor sends
\* a put is a Lapse.
LEMMA StepLapse ==
  ASSUME \A k \in Key : PhaseOf(k)' = PhaseOf(k),
         \A k \in Key : Present(k)' => Present(k),
         \A k \in Key : PutUnderway(k)' => PutUnderway(k)
  PROVE  Promise!Next
<1>1. Phase' = Phase
  BY DEF Phase
<1>2. Listed' \in SUBSET Listed /\ Underway' \in SUBSET Underway
  BY DEF Listed, Underway
<1> QED
  BY <1>1, <1>2 DEF Promise!Next, Promise!Lapse, Phase, PhaseOf, Listed, Underway

\* A step that ends the registration of one key is a Leave.
LEMMA StepLeave ==
  ASSUME NEW x \in Key, PhaseOf(x) = "in",
         \A k \in Key : PhaseOf(k)' = IF k = x THEN "leaving" ELSE PhaseOf(k),
         \A k \in Key : Present(k)' <=> Present(k),
         \A k \in Key : PutUnderway(k)' <=> PutUnderway(k)
  PROVE  Promise!Next
<1>1. Phase' = [Phase EXCEPT ![x] = "leaving"] /\ Phase[x] = "in"
  BY DEF Phase
<1>2. Listed' = Listed /\ Underway' = Underway
  BY DEF Listed, Underway
<1> QED
  BY <1>1, <1>2 DEF Promise!Next, Promise!Leave, Phase, PhaseOf, Listed, Underway

\* A step that changes neither the late puts, nor the leases alive, nor what any
\* caller is putting, changes no put under way.
LEMMA UnderwaySame ==
  ASSUME UNCHANGED <<latePuts, live>>,
         \A c \in Caller : Putting(c)' <=> Putting(c),
         \A c \in Caller : Putting(c) => CallerKey(c)' = CallerKey(c)
  PROVE  \A k \in Key : PutUnderway(k)' <=> PutUnderway(k)
BY DEF PutUnderway, Putting

\* A step that at most turns puts under way into late puts, or loses them, sends
\* nothing.
LEMMA UnderwayFewer ==
  ASSUME live' \subseteq live,
         latePuts' \subseteq latePuts \cup UNION {AbandonedPuts(c) : c \in Caller},
         \A c \in Caller : Putting(c)' => Putting(c) /\ CallerKey(c)' = CallerKey(c)
  PROVE  \A k \in Key : PutUnderway(k)' => PutUnderway(k)
<1> SUFFICES ASSUME NEW k \in Key, PutUnderway(k)' PROVE PutUnderway(k)
  OBVIOUS
<1>1. CASE \E l \in live' : <<k, l>> \in latePuts'
  <2>1. PICK l \in live' : <<k, l>> \in latePuts'
    BY <1>1
  <2>2. CASE <<k, l>> \in latePuts
    BY <2>1, <2>2 DEF PutUnderway
  <2>3. CASE <<k, l>> \notin latePuts
    <3>1. PICK c \in Caller : <<k, l>> \in AbandonedPuts(c)
      BY <2>1, <2>3
    <3>2. rkPc[c] = "put" /\ rkLease[c] \in live /\ CallerKey(c) = k
      BY <3>1 DEF AbandonedPuts
    <3> QED
      BY <3>2 DEF PutUnderway
  <2> QED
    BY <2>2, <2>3
<1>2. CASE ~ \E l \in live' : <<k, l>> \in latePuts'
  <2>1. PICK c \in Caller : Putting(c)' /\ CallerKey(c)' = k
    BY <1>2 DEF PutUnderway, Putting
  <2>2. Putting(c) /\ CallerKey(c) = k
    BY <2>1
  <2> QED
    BY <2>2 DEF PutUnderway, Putting
<1> QED
  BY <1>1, <1>2

LEMMA RefineRk ==
  ASSUME TypeInv, StopInv, GoneNotActive, LeaseInv, NEW c \in Caller,
         \/ Grant(c) \/ Put(c) \/ PutRefused(c)
         \/ RpcLost(c) \/ PutAckLost(c) \/ RpcAborted(c)
  PROVE  Promise!Next
<1>0. /\ UNCHANGED <<apiVars, hbVars, gone>>
      /\ rkPc \in [Caller -> RkPcs] /\ rkLease \in [Caller -> 0..MaxLease]
      /\ kv \in [Key -> 0..MaxLease] /\ live \subseteq LeaseId
  BY DEF Grant, Put, PutRefused, RpcLost, PutAckLost, RpcAborted, histVars,
         TypeInv, TypeOK, RkTypeOK, StoreTypeOK, RkPcs
<1>1. \A k \in Key : PhaseOf(k)' = PhaseOf(k)
  BY <1>0 DEF PhaseOf, Active, apiVars
<1>2. \A d \in Caller : CallerKey(d)' = CallerKey(d)
  BY <1>0 DEF CallerKey, apiVars, hbVars
<1>3. (rkPc[c] # "idle" /\ CallerCtxLive(c)) =>
        /\ CallerKey(c) \in Key
        /\ Phase' = Phase /\ Phase[CallerKey(c)] = "in"
  <2> SUFFICES ASSUME rkPc[c] # "idle", CallerCtxLive(c)
               PROVE  /\ CallerKey(c) \in Key
                      /\ Phase' = Phase /\ Phase[CallerKey(c)] = "in"
    OBVIOUS
  <2>1. Active(CallerKey(c)) /\ CallerKey(c) \in Key
    BY PutterActive
  <2>2. CallerKey(c) \notin gone
    BY <2>1 DEF GoneNotActive
  <2> QED
    BY <1>1, <2>1, <2>2 DEF Phase, PhaseOf
<1>4. CASE Grant(c)
  <2> DEFINE x == CallerKey(c)
  <2>1. PICK l \in LeaseId : FirstUnknown(l) /\ GrantLease(l) /\ RkStep(c, "put", l)
    BY <1>4 DEF Grant
  <2>2. rkPc[c] # "idle" /\ CallerCtxLive(c) /\ latePuts' = latePuts
    BY <1>4 DEF Grant, lateVars
  <2>3. /\ kv' = kv /\ live' = live \cup {l}
        /\ rkPc' = [rkPc EXCEPT ![c] = "put"] /\ rkLease' = [rkLease EXCEPT ![c] = l]
    BY <2>1 DEF GrantLease, RkStep
  <2>4. /\ \A p \in latePuts : p[2] # l
        /\ \A d \in Caller : rkLease[d] # l
    BY <2>1 DEF FirstUnknown, Unknown
  <2>5. \A d \in Caller : Putting(d)' <=> d = c \/ Putting(d)
    <3>1. ~ Putting(c)
      BY <1>4 DEF Grant, Putting
    <3> QED
      BY <1>0, <2>3, <2>4, <3>1 DEF Putting
  <2>6. \A k \in Key : PutUnderway(k)' <=> k = x \/ PutUnderway(k)
    <3>1. \A k \in Key : (\E m \in live' : <<k, m>> \in latePuts') <=>
                         (\E m \in live : <<k, m>> \in latePuts)
      BY <2>2, <2>3, <2>4
    <3>2. \A k \in Key : (\E d \in Caller : Putting(d)' /\ CallerKey(d)' = k) <=>
                         (k = x \/ \E d \in Caller : Putting(d) /\ CallerKey(d) = k)
      BY <1>2, <2>5
    <3> QED
      BY <3>1, <3>2 DEF PutUnderway, Putting
  <2>7. Underway' = Underway \cup {x} /\ Listed' = Listed /\ x \in Key
        /\ Phase' = Phase /\ Phase[x] = "in"
    BY <1>3, <2>2, <2>3, <2>6 DEF Underway, Listed, Present
  <2> HIDE DEF x
  <2> QED
    BY <2>7 DEF Promise!Next, Promise!Send, Phase, PhaseOf, Listed, Underway
<1>5. CASE Put(c) \/ PutAckLost(c)
  <2> DEFINE x == CallerKey(c)
  <2>1. /\ kv' = [kv EXCEPT ![x] = rkLease[c]] /\ rkLease[c] \in live /\ live' = live
        /\ rkPc[c] = "put" /\ CallerCtxLive(c) /\ latePuts' = latePuts
        /\ \E pc \in RkPcs \ {"put"} : rkPc' = [rkPc EXCEPT ![c] = pc]
        /\ \A d \in Caller : d # c => rkLease'[d] = rkLease[d]
    BY <1>0, <1>5 DEF Put, PutAckLost, PutKey, RkStep, RkPcs, lateVars
  <2>2. x \in Key /\ Phase' = Phase
    BY <1>3, <2>1
  <2>3. Listed' = Listed \cup {x}
    BY <1>0, <2>1, <2>2 DEF Listed, Present, LeaseId, NoLease
  <2>4. PutUnderway(x)
    BY <2>1 DEF PutUnderway
  <2>5. \A d \in Caller : Putting(d)' <=> d # c /\ Putting(d)
    BY <1>0, <2>1 DEF Putting
  <2>6. \A k \in Key : k # x => (PutUnderway(k)' <=> PutUnderway(k))
    <3>1. \A k \in Key : k # x =>
            ((\E d \in Caller : Putting(d)' /\ CallerKey(d)' = k) <=>
             (\E d \in Caller : Putting(d) /\ CallerKey(d) = k))
      BY <1>2, <2>5
    <3> QED
      BY <2>1, <3>1 DEF PutUnderway, Putting
  <2>7. x \in Underway /\ Underway' \in {Underway, Underway \ {x}}
    BY <2>2, <2>4, <2>6 DEF Underway
  <2> HIDE DEF x
  <2> QED
    BY <2>2, <2>3, <2>7 DEF Promise!Next, Promise!Appear, Phase, PhaseOf, Listed, Underway
<1>6. CASE PutRefused(c) \/ RpcLost(c) \/ RpcAborted(c)
  <2>1. /\ UNCHANGED <<kv, live>> /\ rkPc' = [rkPc EXCEPT ![c] = "err"]
        /\ rkLease' = [rkLease EXCEPT ![c] = NoLease]
        /\ latePuts' = latePuts \/ latePuts' = latePuts \cup AbandonedPuts(c)
    BY <1>6 DEF PutRefused, RpcLost, RpcAborted, RkStep, storeVars, lateVars
  <2>2. \A d \in Caller : Putting(d)' => Putting(d)
    BY <1>0, <2>1 DEF Putting
  <2>3. \A k \in Key : PutUnderway(k)' => PutUnderway(k)
    BY <1>2, <2>1, <2>2, UnderwayFewer
  <2> QED
    BY <1>1, <2>1, <2>3, StepLapse DEF Present
<1> QED
  BY <1>4, <1>5, <1>6

\* No step of an API call but RpcLost and its like moves a put.
LEMMA UnderwayApi ==
  ASSUME TypeInv, StopInv,
         \/ \E s \in Service : Register(s) \/ Deregister(s)
         \/ RegisterOk \/ RegisterErr
         \/ Delete \/ DeleteLost \/ DeleteAckLost \/ DeleteAborted
  PROVE  \A k \in Key : PutUnderway(k)' <=> PutUnderway(k)
<1>0. /\ API \in Caller /\ \A c \in Caller : c # API => c \in Heartbeat
      /\ rkPc \in [Caller -> RkPcs] /\ hbSvc \in [Heartbeat -> Service]
  BY DEF Caller, TypeInv, TypeOK, RkTypeOK, HbTypeOK, RkPcs
<1>1. /\ UNCHANGED <<latePuts, live>>
      /\ rkPc' = rkPc \/ \E pc \in RkPcs \ {"put"} : rkPc' = [rkPc EXCEPT ![API] = pc]
      /\ \A c \in Caller : c # API => rkLease'[c] = rkLease[c]
  <2>1. rkLease' = rkLease \/ rkLease' = [rkLease EXCEPT ![API] = NoLease]
    BY DEF Register, Deregister, RegisterOk, RegisterErr, Delete, DeleteLost,
           DeleteAckLost, DeleteAborted, RkStep, rkVars
  <2>2. rkPc' = rkPc \/ \E pc \in RkPcs \ {"put"} : rkPc' = [rkPc EXCEPT ![API] = pc]
    BY DEF Register, Deregister, RegisterOk, RegisterErr, Delete, DeleteLost,
           DeleteAckLost, DeleteAborted, RkStep, RkPcs, rkVars
  <2>3. UNCHANGED <<latePuts, live>>
    BY DEF Register, Deregister, RegisterOk, RegisterErr, Delete, DeleteLost,
           DeleteAckLost, DeleteAborted, DeleteKey, storeVars, lateVars
  <2>4. rkLease \in [Caller -> 0..MaxLease]
    BY DEF TypeInv, TypeOK, RkTypeOK
  <2> QED
    BY <2>1, <2>2, <2>3, <2>4
<1>2. rkPc[API] # "put"
  BY DEF StopInv, RkHasCaller, Register, Deregister, RegisterOk, RegisterErr, Delete,
         DeleteLost, DeleteAckLost, DeleteAborted
<1>3. \A c \in Caller : Putting(c)' <=> Putting(c)
  BY <1>0, <1>1, <1>2 DEF Putting
<1>4. ASSUME NEW c \in Caller, Putting(c) PROVE CallerKey(c)' = CallerKey(c)
  <2>1. c # API /\ c \in Heartbeat /\ hbPc[c] = "trying"
    BY <1>0, <1>2, <1>4 DEF Putting, StopInv, RkHasCaller
  <2>2. hbSvc'[c] = hbSvc[c]
    <3>1. CASE RegisterOk
      <4>1. hbSvc' = [hbSvc EXCEPT ![spawned + 1] = callSvc] /\ spawned \in Nat
        BY <3>1 DEF RegisterOk, TypeInv, TypeOK, HbTypeOK
      <4>2. c # spawned + 1
        BY <2>1, <4>1 DEF StopInv, SpawnedInOrder
      <4> QED
        BY <1>0, <2>1, <4>1, <4>2
    <3>2. CASE ~RegisterOk
      BY <3>2 DEF Register, Deregister, RegisterErr, Delete, DeleteLost,
                  DeleteAckLost, DeleteAborted, hbVars
    <3> QED
      BY <3>1, <3>2
  <2> QED
    BY <2>1, <2>2 DEF CallerKey
<1> QED
  BY <1>1, <1>3, <1>4, UnderwaySame

LEMMA RefineApi ==
  ASSUME OneRegistration, TypeInv, StopInv, GoneNotActive,
         \/ \E s \in Service : Register(s) \/ Deregister(s)
         \/ RegisterOk \/ RegisterErr
         \/ Delete \/ DeleteLost \/ DeleteAckLost \/ DeleteAborted
  PROVE  Promise!Next
<1>0. /\ callSvc \in Service /\ KeyOf[callSvc] \in Key
      /\ kv \in [Key -> 0..MaxLease] /\ ctxMap \in [Service -> Heartbeat \cup {NoHeartbeat}]
  BY RegistryAssumption DEF TypeInv, TypeOK, ApiTypeOK, StoreTypeOK
<1>u. \A k \in Key : PutUnderway(k)' <=> PutUnderway(k)
  BY UnderwayApi
<1>1. ASSUME NEW s \in Service, Register(s)
      PROVE  Promise!Next
  <2> DEFINE x == KeyOf[s]
  <2>1. /\ UNCHANGED <<storeVars, ctxMap>> /\ callOp = "none"
        /\ callOp' = "register" /\ callSvc' = s /\ gone' = gone \ {x} /\ x \in Key
    BY <1>1, RegistryAssumption DEF Register
  <2>2. \A k \in Key : Active(k)' <=> (k = x \/ Active(k))
    BY <2>1 DEF Active
  <2>3. \A k \in Key : PhaseOf(k)' = IF k = x THEN "in" ELSE PhaseOf(k)
    BY <2>1, <2>2 DEF PhaseOf
  <2>4. Phase' = [Phase EXCEPT ![x] = "in"]
    BY <2>3 DEF Phase
  <2>5. Listed' = Listed /\ Underway' = Underway
    BY <1>u, <2>1 DEF Listed, Underway, Present, storeVars
  <2> QED
    BY <2>1, <2>4, <2>5
       DEF Promise!Next, Promise!Enter, Phase, PhaseOf, Listed, Underway
<1>2. ASSUME NEW s \in Service, Deregister(s)
      PROVE  Promise!Next
  <2> DEFINE x == KeyOf[s]
  <2>1. /\ UNCHANGED <<storeVars, gone>> /\ callOp = "none" /\ x \in Key
        /\ callOp' = "deregister" /\ ctxMap' = [ctxMap EXCEPT ![s] = NoHeartbeat]
        /\ \A t \in Service \ {s} : KeyOf[t] = x => ctxMap[t] = NoHeartbeat
    BY <1>2, RegistryAssumption DEF Deregister, SoleOwner, SameKey, histVars
  <2>2. \A k \in Key : Active(k)' <=> (k # x /\ Active(k))
    BY <1>0, <2>1 DEF Active
  <2>3. \A k \in Key : Present(k)' <=> Present(k)
    BY <2>1 DEF Present, storeVars
  <2>4. CASE Active(x)
    <3>1. x \notin gone
      BY <2>4 DEF GoneNotActive
    <3>2. PhaseOf(x) = "in"
      BY <2>4, <3>1 DEF PhaseOf
    <3>3. \A k \in Key : PhaseOf(k)' = IF k = x THEN "leaving" ELSE PhaseOf(k)
      BY <2>1, <2>2, <3>1 DEF PhaseOf
    <3> QED
      BY <1>u, <2>1, <2>3, <3>2, <3>3, StepLeave
  <2>5. CASE ~Active(x)
    <3>1. \A k \in Key : PhaseOf(k)' = PhaseOf(k)
      BY <2>1, <2>2, <2>5 DEF PhaseOf
    <3> QED
      BY <1>u, <2>3, <3>1, StepLapse
  <2> QED
    BY <2>4, <2>5
<1>3. CASE RegisterOk
  <2>1. /\ UNCHANGED <<storeVars, gone, callSvc>>
        /\ callOp' = "none" /\ callOp = "register"
        /\ ctxMap' = [ctxMap EXCEPT ![callSvc] = spawned + 1]
        /\ spawned + 1 # NoHeartbeat
    BY <1>3, RegistryAssumption
       DEF RegisterOk, TypeInv, TypeOK, HbTypeOK, NoHeartbeat, histVars
  <2>2. \A k \in Key : (Active(k)' <=> Active(k)) /\ (Present(k)' <=> Present(k))
    BY <1>0, <2>1 DEF Active, Present, storeVars
  <2>3. \A k \in Key : PhaseOf(k)' = PhaseOf(k)
    BY <2>1, <2>2 DEF PhaseOf
  <2> QED
    BY <1>u, <2>2, <2>3, StepLapse
<1>4. CASE RegisterErr
  <2> DEFINE x == KeyOf[callSvc]
  <2>1. /\ UNCHANGED <<storeVars, gone, callSvc, ctxMap>>
        /\ callOp' = "none" /\ callOp = "register" /\ x \in Key
    BY <1>0, <1>4 DEF RegisterErr, histVars
  <2>2. Active(x) /\ x \notin gone
    BY <1>0, <2>1 DEF Active, GoneNotActive
  <2>3. \A t \in Service : KeyOf[t] = x => ctxMap[t] = NoHeartbeat
    BY <2>1, DeregisteringNotActive
  <2>4. \A k \in Key : Active(k)' <=> (k # x /\ Active(k))
    BY <1>0, <2>1, <2>3 DEF Active
  <2>5. \A k \in Key : PhaseOf(k)' = IF k = x THEN "leaving" ELSE PhaseOf(k)
    BY <2>1, <2>2, <2>4 DEF PhaseOf
  <2>6. PhaseOf(x) = "in" /\ \A k \in Key : Present(k)' <=> Present(k)
    BY <2>1, <2>2 DEF PhaseOf, Present, storeVars
  <2> QED
    BY <1>u, <2>1, <2>5, <2>6, StepLeave
<1>5. CASE DeleteLost \/ DeleteAborted \/ DeleteAckLost
  <2>1. /\ UNCHANGED <<gone, ctxMap, callSvc>>
        /\ callOp' = "none" /\ callOp = "deregister"
        /\ UNCHANGED storeVars \/ DeleteKey(KeyOf[callSvc])
    BY <1>5 DEF DeleteLost, DeleteAborted, DeleteAckLost, histVars
  <2>2. \A k \in Key : (Active(k)' <=> Active(k)) /\ (Present(k)' => Present(k))
    BY <1>0, <2>1 DEF Active, Present, storeVars, DeleteKey
  <2>3. \A k \in Key : PhaseOf(k)' = PhaseOf(k)
    BY <2>1, <2>2 DEF PhaseOf
  <2> QED
    BY <1>u, <2>2, <2>3, StepLapse
<1>6. CASE Delete
  <2> DEFINE x == KeyOf[callSvc]
  <2>1. /\ UNCHANGED <<ctxMap, callSvc>> /\ callOp' = "none" /\ callOp = "deregister"
        /\ kv' = [kv EXCEPT ![x] = NoLease] /\ gone' = gone \cup {x} /\ x \in Key
    BY <1>0, <1>6 DEF Delete, DeleteKey
  <2>2. \A t \in Service : KeyOf[t] = x => ctxMap[t] = NoHeartbeat
    BY <2>1, DeregisteringNotActive
  <2>3. /\ ~Active(x)
        /\ \A k \in Key : Active(k)' <=> Active(k)
    BY <2>1, <2>2 DEF Active
  <2>4. \A k \in Key : PhaseOf(k)' = IF k = x THEN "absent" ELSE PhaseOf(k)
    BY <2>1, <2>3 DEF PhaseOf
  <2>5. \A k \in Key : Present(k)' <=> (k # x /\ Present(k))
    BY <1>0, <2>1 DEF Present
  <2>6. CASE x \in gone
    <3>1. PhaseOf(x) = "absent"
      BY <2>6 DEF PhaseOf
    <3>2. \A k \in Key : PhaseOf(k)' = PhaseOf(k)
      BY <2>4, <3>1
    <3> QED
      BY <1>u, <2>5, <3>2, StepLapse
  <2>7. CASE x \notin gone
    <3>1. Phase[x] = "leaving"
      BY <2>1, <2>3, <2>7 DEF Phase, PhaseOf
    <3>2. Phase' = [Phase EXCEPT ![x] = "absent"]
      BY <2>4 DEF Phase
    <3>3. Listed' = Listed \ {x} /\ Underway' = Underway
      BY <1>u, <2>5 DEF Listed, Underway
    <3> QED
      BY <2>1, <3>1, <3>2, <3>3
         DEF Promise!Next, Promise!Confirm, Phase, PhaseOf, Listed, Underway
  <2> QED
    BY <2>6, <2>7
<1> QED
  BY <1>1, <1>2, <1>3, <1>4, <1>5, <1>6

LEMMA RefineHb ==
  ASSUME TypeInv, StopInv, NEW h \in Heartbeat, HbRun(h) \/ HbAttemptTimedOut(h)
  PROVE  Promise!Next
<1>0. /\ h \in Caller /\ rkPc \in [Caller -> RkPcs] /\ rkLease \in [Caller -> 0..MaxLease]
  BY DEF Caller, TypeInv, TypeOK, RkTypeOK, RkPcs
<1>1. UNCHANGED <<storeVars, apiVars, gone, hbSvc>>
  BY DEF HbRun, HbStart, HbLeaseLost, HbStopped, HbRetryCancelled, HbAttempt,
         HbRetriesUsedUp, HbAttemptFailed, HbAttemptTimedOut, HbAttemptOk,
         HbFirstAnswer, HbGiveUp, HbGoto, HbReturn, HbFrame, histVars
<1>2. \A k \in Key : PhaseOf(k)' = PhaseOf(k) /\ (Present(k)' => Present(k))
  BY <1>1 DEF PhaseOf, Active, Present, apiVars, storeVars
<1>3. /\ rkPc' = rkPc \/ \E pc \in RkPcs \ {"put"} : rkPc' = [rkPc EXCEPT ![h] = pc]
      /\ rkLease' = rkLease \/ rkLease' = [rkLease EXCEPT ![h] = NoLease]
  BY DEF HbRun, HbStart, HbLeaseLost, HbStopped, HbRetryCancelled, HbAttempt,
         HbRetriesUsedUp, HbAttemptFailed, HbAttemptTimedOut, HbAttemptOk,
         HbFirstAnswer, HbGiveUp, RkStep, RkPcs, rkVars
<1>4. latePuts' \subseteq latePuts \cup AbandonedPuts(h)
  BY DEF HbRun, HbStart, HbLeaseLost, HbStopped, HbRetryCancelled, HbAttempt,
         HbRetriesUsedUp, HbAttemptFailed, HbAttemptTimedOut, HbAttemptOk,
         HbFirstAnswer, HbGiveUp, HbFrame, lateVars
<1>5. \A c \in Caller : Putting(c)' => Putting(c) /\ CallerKey(c)' = CallerKey(c)
  <2>1. live' = live /\ NoLease \notin live
    BY <1>1 DEF storeVars, TypeInv, TypeOK, StoreTypeOK, LeaseId, NoLease
  <2>2. \A c \in Caller : CallerKey(c)' = CallerKey(c)
    BY <1>1 DEF CallerKey, apiVars
  <2> QED
    BY <1>0, <1>3, <2>1, <2>2 DEF Putting
<1>6. \A k \in Key : PutUnderway(k)' => PutUnderway(k)
  BY <1>0, <1>1, <1>4, <1>5, UnderwayFewer DEF storeVars
<1> QED
  BY <1>2, <1>6, StepLapse

LEMMA RefineWorld ==
  ASSUME TypeInv,
         \/ \E h \in Heartbeat : KacClosed(h) \/ KacDeadline(h)
         \/ \E l \in LeaseId : Expire(l) \/ ExpireInUse(l)
         \/ \E k \in Key : LateDelete(k) \/ \E l \in LeaseId : LatePut(k, l)
         \/ CancelOptsCtx \/ CloseClient \/ Crash
  PROVE  Promise!Next
<1>0. kv \in [Key -> 0..MaxLease] /\ live \subseteq LeaseId
  BY DEF TypeInv, TypeOK, StoreTypeOK
<1>1. CASE Crash
  <2>1. /\ UNCHANGED <<storeVars, gone>> /\ callOp' = "none"
        /\ ctxMap' = [s \in Service |-> NoHeartbeat]
        /\ rkPc' = [c \in Caller |-> "idle"]
        /\ latePuts' = latePuts \cup UNION {AbandonedPuts(c) : c \in Caller}
    BY <1>1 DEF Crash, histVars
  <2>2. \A k \in Key : ~Active(k)'
    BY <2>1 DEF Active
  <2>3. \A k \in Key : PhaseOf(k)' = IF PhaseOf(k) = "in" THEN "leaving" ELSE PhaseOf(k)
    BY <2>1, <2>2 DEF PhaseOf
  <2>4. Phase' = [k \in Key |-> IF Phase[k] = "in" THEN "leaving" ELSE Phase[k]]
    BY <2>3 DEF Phase
  <2>5. Listed' = Listed
    BY <2>1 DEF Listed, Present, storeVars
  <2>6. \A k \in Key : PutUnderway(k)' => PutUnderway(k)
    BY <2>1, UnderwayFewer DEF Putting, storeVars
  <2>7. \A k \in Key : PutUnderway(k) => PutUnderway(k)'
    <3> SUFFICES ASSUME NEW k \in Key, PutUnderway(k)
                 PROVE  \E l \in live' : <<k, l>> \in latePuts'
      BY DEF PutUnderway
    <3>1. CASE \E l \in live : <<k, l>> \in latePuts
      BY <2>1, <3>1 DEF storeVars
    <3>2. CASE ~ \E l \in live : <<k, l>> \in latePuts
      <4>1. PICK c \in Caller : rkPc[c] = "put" /\ rkLease[c] \in live /\ CallerKey(c) = k
        BY <3>2 DEF PutUnderway
      <4>2. <<k, rkLease[c]>> \in AbandonedPuts(c)
        BY <4>1 DEF AbandonedPuts
      <4> QED
        BY <2>1, <4>1, <4>2 DEF storeVars
    <3> QED
      BY <3>1, <3>2
  <2>8. Underway' = Underway
    BY <2>6, <2>7 DEF Underway
  <2> QED
    BY <2>4, <2>5, <2>8
       DEF Promise!Next, Promise!Crash, Phase, PhaseOf, Listed, Underway
<1>2. ASSUME NEW x \in Key, NEW l \in LeaseId, LatePut(x, l) PROVE Promise!Next
  <2>1. /\ UNCHANGED <<apiVars, rkVars, hbVars, gone, live>>
        /\ <<x, l>> \in latePuts /\ latePuts' = latePuts \ {<<x, l>>}
        /\ l \in live /\ kv' = [kv EXCEPT ![x] = l] /\ l # NoLease
    BY <1>2 DEF LatePut, PutKey, LeaseId, NoLease
  <2>2. Phase' = Phase
    BY <2>1 DEF Phase, PhaseOf, Active, apiVars
  <2>3. Listed' = Listed \cup {x}
    BY <1>0, <2>1 DEF Listed, Present
  <2>4. \A c \in Caller : CallerKey(c)' = CallerKey(c) /\ (Putting(c)' <=> Putting(c))
    BY <2>1 DEF CallerKey, Putting, apiVars, rkVars, hbVars
  <2>5. PutUnderway(x)
    BY <2>1 DEF PutUnderway
  <2>6. \A k \in Key : k # x => (PutUnderway(k)' <=> PutUnderway(k))
    <3>1. \A k \in Key : k # x => ((\E m \in live' : <<k, m>> \in latePuts') <=>
                                  (\E m \in live : <<k, m>> \in latePuts))
      BY <2>1
    <3>2. \A k \in Key : (\E d \in Caller : Putting(d)' /\ CallerKey(d)' = k) <=>
                         (\E d \in Caller : Putting(d) /\ CallerKey(d) = k)
      BY <2>4
    <3> QED
      BY <3>1, <3>2 DEF PutUnderway, Putting
  <2>7. x \in Underway /\ Underway' \in {Underway, Underway \ {x}}
    BY <2>5, <2>6 DEF Underway
  <2> QED
    BY <2>2, <2>3, <2>7 DEF Promise!Next, Promise!Appear, Phase, PhaseOf, Listed, Underway
<1>3. CASE \/ \E h \in Heartbeat : KacClosed(h) \/ KacDeadline(h)
           \/ \E l \in LeaseId : Expire(l) \/ ExpireInUse(l)
           \/ \E k \in Key : LateDelete(k)
           \/ CancelOptsCtx \/ CloseClient
  <2>1. /\ UNCHANGED <<apiVars, rkVars, hbSvc, gone>>
        /\ latePuts' \subseteq latePuts /\ live' \subseteq live
        /\ \A k \in Key : Present(k)' => Present(k)
    <3>1. CASE \E l \in LeaseId : Expire(l) \/ ExpireInUse(l)
      BY <1>0, <3>1 DEF Expire, ExpireInUse, ExpireFrame, ExpireLease, Present, hbVars,
                        histVars
    <3>2. CASE \E k \in Key : LateDelete(k)
      BY <1>0, <3>2 DEF LateDelete, DeleteKey, Present, hbVars
    <3>3. CASE \/ \E h \in Heartbeat : KacClosed(h) \/ KacDeadline(h)
               \/ CancelOptsCtx \/ CloseClient
      BY <3>3 DEF KacClosed, KacDeadline, KacFrame, CancelOptsCtx, CloseClient, Present,
                  hbVars, lateVars, storeVars, histVars
    <3> QED
      BY <1>3, <3>1, <3>2, <3>3
  <2>2. \A k \in Key : PhaseOf(k)' = PhaseOf(k)
    BY <2>1 DEF PhaseOf, Active, apiVars
  <2>3. \A c \in Caller : Putting(c)' => Putting(c) /\ CallerKey(c)' = CallerKey(c)
    BY <2>1 DEF CallerKey, Putting, apiVars, rkVars
  <2>4. \A k \in Key : PutUnderway(k)' => PutUnderway(k)
    BY <2>1, <2>3, UnderwayFewer
  <2> QED
    BY <2>1, <2>2, <2>4, StepLapse
<1> QED
  BY <1>1, <1>2, <1>3

\* The registry implements Presence: seen through its keys, every step of a
\* call, a heartbeat, etcd or a fault is a step of the abstract registry, or
\* none.  A put is only sent while a call registers its key or has it
\* registered, and a key only appears through a put that was sent, however
\* late etcd applies it; a Deregister that returned nil is followed by no new
\* put.  The one assumption is that callers register a key only while it is
\* unregistered.
THEOREM RegistryRefinesPresence ==
  ASSUME OneRegistration
  PROVE  Spec => RefinesPresence
<1>1. Init => Promise!Init
  BY DEF Init, StoreInit, Promise!Init, Present, PutUnderway
<1>2. IInv /\ [Next]_vars => [Promise!Next]_(Promise!vars)
  <2> SUFFICES ASSUME IInv, [Next]_vars PROVE [Promise!Next]_(Promise!vars)
    OBVIOUS
  <2>1. CASE UNCHANGED vars
    BY <2>1 DEF vars, Promise!vars, Active, Present, PutUnderway, CallerKey,
                apiVars, storeVars, lateVars, rkVars, hbVars, histVars
  <2>2. CASE Next
    BY <2>2, RefineRk, RefineApi, RefineHb, RefineWorld
       DEF IInv, Next, Faults, ApiStep, RkRun
  <2> QED
    BY <2>1, <2>2
<1>3. IInv /\ [Next]_vars => IInv'
  BY IInvNext
<1> QED
  BY IInvInit, <1>1, <1>2, <1>3, PTL DEF Spec, RefinesPresence, Promise!Spec

-----------------------------------------------------------------------------
(* A content heartbeat keeps its instance listed.                           *)

\* One registration per key.
OneOwner ==
  \A s, t \in Service :
    SameKey(s, t) /\ ctxMap[s] # NoHeartbeat /\ ctxMap[t] # NoHeartbeat => s = t

\* While a heartbeat looks for a new lease, no channel of an old one is open.
RetryingClosed == \A h \in Heartbeat : hbPc[h] \in {"retrying", "trying"} => ~kacOpen[h]

\* As long as a lease is alive and no abandoned write overtakes the key, the
\* key is attached to it.
Attached(k, l) == l \in live /\ k \notin overtaken => kv[k] = l
StillAttached(k, l) == l \in live' /\ k \notin overtaken' => kv'[k] = l

\* A heartbeat that is about to keep its lease alive, or does.
Keeps(h) ==
  /\ ctxLive[h]
  /\ hbPc[h] = "start" \/ (hbPc[h] \in {"serving", "first"} /\ kacOpen[h])

\* A lease that is being kept, or that registerWithKV has just returned, is the
\* one its key is attached to.
LeasesAttached ==
  /\ \A h \in Heartbeat : Keeps(h) => Attached(KeyOf[hbSvc[h]], hbLease[h])
  /\ \A c \in Caller : rkPc[c] = "ok" /\ CallerCtxLive(c) => Attached(CallerKey(c), rkLease[c])

ContentInv == OneOwner /\ RetryingClosed /\ LeasesAttached

LEMMA ContentInit == Init => ContentInv
<1> SUFFICES ASSUME Init PROVE ContentInv
  OBVIOUS
<1>1. /\ \A c \in Caller : rkPc[c] = "idle" /\ rkLease[c] = 0
      /\ \A h \in Heartbeat : hbPc[h] = "none" /\ hbLease[h] = 0 /\ ~ctxLive[h]
      /\ \A s \in Service : ctxMap[s] = NoHeartbeat
  BY DEF Init, StoreInit, NoLease
<1> QED
  <2>1. OneOwner /\ RetryingClosed
    BY <1>1 DEF OneOwner, RetryingClosed
  <2>2. LeasesAttached
    BY <1>1 DEF LeasesAttached, Keeps
  <2> QED
    BY <2>1, <2>2 DEF ContentInv

\* A heartbeat that runs and is not cancelled has its key to itself.
LEMMA Owners ==
  ASSUME TypeInv, StopInv, OneOwner, NEW h \in Heartbeat, Running(h), ctxLive[h]
  PROVE  /\ hbSvc[h] \in Service /\ KeyOf[hbSvc[h]] \in Key
         /\ \A g \in Heartbeat :
              Running(g) /\ ctxLive[g] /\ KeyOf[hbSvc[g]] = KeyOf[hbSvc[h]] => g = h
         /\ callOp # "none" => KeyOf[hbSvc[h]] # KeyOf[callSvc]
<1>1. \A g \in Heartbeat : hbSvc[g] \in Service /\ g # NoHeartbeat
  BY DEF TypeInv, TypeOK, HbTypeOK, Heartbeat, NoHeartbeat
<1>2. \A g \in Heartbeat : Running(g) /\ ctxLive[g] => ctxMap[hbSvc[g]] = g
  BY DEF StopInv, HeartbeatStoppable
<1>3. ASSUME NEW g \in Heartbeat, Running(g), ctxLive[g], KeyOf[hbSvc[g]] = KeyOf[hbSvc[h]]
      PROVE  g = h
  <2>1. hbSvc[g] = hbSvc[h]
    BY <1>1, <1>2, <1>3 DEF OneOwner, SameKey
  <2> QED
    BY <1>2, <1>3, <2>1
<1>4. callOp # "none" => KeyOf[hbSvc[h]] # KeyOf[callSvc]
  BY <1>1, <1>2 DEF StopInv, CallOwnsKey, SameKey
<1> QED
  BY <1>1, <1>3, <1>4, RegistryAssumption

LEMMA CallerRuns ==
  ASSUME TypeInv, StopInv, NEW c \in Caller, rkPc[c] # "idle", CallerCtxLive(c)
  PROVE  \/ c = API /\ callOp = "register" /\ CallerKey(c) = KeyOf[callSvc]
         \/ /\ c \in Heartbeat /\ c # API /\ hbPc[c] = "trying" /\ Running(c) /\ ctxLive[c]
            /\ CallerKey(c) = KeyOf[hbSvc[c]]
<1>1. CASE c = API
  BY <1>1 DEF StopInv, RkHasCaller, CallerKey
<1>2. CASE c \in Heartbeat /\ c # API
  BY <1>2 DEF StopInv, RkHasCaller, CallerKey, CallerCtxLive, Running
<1> QED
  BY <1>1, <1>2 DEF Caller

\* What one caller puts is no other's key, and no heartbeat's that keeps a lease.
LEMMA PutsApart ==
  ASSUME TypeInv, StopInv, OneOwner, NEW c \in Caller, rkPc[c] # "idle", CallerCtxLive(c)
  PROVE  /\ \A d \in Caller : d # c /\ rkPc[d] # "idle" /\ CallerCtxLive(d) =>
              CallerKey(d) # CallerKey(c)
         /\ \A h \in Heartbeat : Keeps(h) => KeyOf[hbSvc[h]] # CallerKey(c)
<1>1. ASSUME NEW d \in Caller, d # c, rkPc[d] # "idle", CallerCtxLive(d)
      PROVE  CallerKey(d) # CallerKey(c)
  <2>1. CASE c = API
    BY <1>1, <2>1, CallerRuns, Owners
  <2>2. CASE c # API
    <3>1. c \in Heartbeat /\ Running(c) /\ ctxLive[c] /\ CallerKey(c) = KeyOf[hbSvc[c]]
      BY <2>2, CallerRuns
    <3> QED
      BY <1>1, <3>1, CallerRuns, Owners
  <2> QED
    BY <2>1, <2>2
<1>2. ASSUME NEW h \in Heartbeat, Keeps(h) PROVE KeyOf[hbSvc[h]] # CallerKey(c)
  <2>1. Running(h) /\ ctxLive[h] /\ hbPc[h] # "trying"
    BY <1>2 DEF Keeps, Running
  <2> QED
    BY <2>1, CallerRuns, Owners
<1> QED
  BY <1>1, <1>2

\* A key stays attached to its lease when neither etcd nor what overtakes the
\* key changes to its disadvantage.
LEMMA AttachedKept ==
  ASSUME TypeInv, NEW k \in Key, NEW l \in 0..MaxLease, Attached(k, l),
         k \in overtaken => k \in overtaken',
         \/ UNCHANGED <<kv, live>>
         \/ \E x \in LeaseId : x # l /\ GrantLease(x)
         \/ \E x \in LeaseId : ExpireLease(x)
         \/ \E j \in Key : \E x : j # k /\ kv' = [kv EXCEPT ![j] = x] /\ live' = live
  PROVE  StillAttached(k, l)
<1> USE DEF StillAttached
<1>1. kv \in [Key -> 0..MaxLease]
  BY DEF TypeInv, TypeOK, StoreTypeOK
<1>2. CASE UNCHANGED <<kv, live>>
  BY <1>2 DEF Attached
<1>3. CASE \E x \in LeaseId : x # l /\ GrantLease(x)
  BY <1>3 DEF Attached, GrantLease
<1>4. CASE \E x \in LeaseId : ExpireLease(x)
  BY <1>1, <1>4 DEF Attached, ExpireLease
<1>5. CASE \E j \in Key : \E x : j # k /\ kv' = [kv EXCEPT ![j] = x] /\ live' = live
  BY <1>1, <1>5 DEF Attached
<1> QED
  BY <1>2, <1>3, <1>4, <1>5

LEMMA LeaseTypes ==
  ASSUME TypeInv
  PROVE  /\ \A h \in Heartbeat : /\ hbLease[h] \in 0..MaxLease /\ KeyOf[hbSvc[h]] \in Key
                                 /\ hbPc[h] \in HbPcs
         /\ \A c \in Caller : /\ rkLease[c] \in 0..MaxLease /\ CallerKey(c) \in Key
                              /\ rkPc[c] \in RkPcs
<1>1. TypeOK
  BY DEF TypeInv
<1>2. \A h \in Heartbeat : hbSvc[h] \in Service /\ hbLease[h] \in 0..MaxLease /\ hbPc[h] \in HbPcs
  BY <1>1 DEF TypeOK, HbTypeOK, HbPcs
<1>3. \A c \in Caller : rkLease[c] \in 0..MaxLease /\ rkPc[c] \in RkPcs
  BY <1>1 DEF TypeOK, RkTypeOK, RkPcs
<1>4. \A c \in Caller : CallerKey(c) \in Key
  BY <1>1, AbandonedPutsTyped DEF TypeOK
<1> QED
  BY <1>2, <1>3, <1>4, RegistryAssumption

\* A step that writes to etcd for nobody but caller c.
LEMMA ContentRk ==
  ASSUME TypeInv, StopInv, ContentInv, NEW c \in Caller,
         \/ Grant(c) \/ Put(c) \/ PutRefused(c)
         \/ RpcLost(c) \/ PutAckLost(c) \/ RpcAborted(c)
  PROVE  ContentInv'
<1>0. /\ UNCHANGED <<apiVars, hbVars>> /\ rkPc[c] # "idle"
      /\ OneOwner /\ RetryingClosed /\ LeasesAttached
  BY DEF Grant, Put, PutRefused, RpcLost, PutAckLost, RpcAborted, ContentInv
<1>1. OneOwner' /\ RetryingClosed'
  BY <1>0 DEF OneOwner, RetryingClosed, SameKey, apiVars, hbVars
<1>2. \A d \in Caller : CallerKey(d)' = CallerKey(d) /\ (CallerCtxLive(d)' <=> CallerCtxLive(d))
  BY <1>0 DEF CallerKey, CallerCtxLive, apiVars, hbVars
<1>3. \A h \in Heartbeat : Keeps(h)' <=> Keeps(h)
  BY <1>0 DEF Keeps, hbVars
<1>4. CASE Grant(c)
  <2>0. PICK x \in LeaseId : FirstUnknown(x) /\ GrantLease(x) /\ RkStep(c, "put", x)
    BY <1>4 DEF Grant
  <2>1. /\ overtaken' = overtaken /\ rkPc'[c] = "put"
        /\ \A d \in Caller : d # c => rkPc'[d] = rkPc[d] /\ rkLease'[d] = rkLease[d]
        /\ \A d \in Caller : rkLease[d] # x
        /\ \A h \in Heartbeat : hbLease[h] # x
    BY <1>4, <2>0 DEF Grant, RkStep, FirstUnknown, Unknown, histVars, TypeInv, TypeOK, RkTypeOK
  <2>2. ASSUME NEW k \in Key, NEW l \in 0..MaxLease, Attached(k, l), l # x
        PROVE  StillAttached(k, l)
    BY <2>0, <2>1, <2>2, AttachedKept
  <2>3. ASSUME NEW h \in Heartbeat, Keeps(h)'
        PROVE  StillAttached(KeyOf[hbSvc'[h]], hbLease'[h])
    <3>1. Attached(KeyOf[hbSvc[h]], hbLease[h])
      BY <1>0, <1>3, <2>3 DEF LeasesAttached
    <3>2. StillAttached(KeyOf[hbSvc[h]], hbLease[h])
      BY <2>1, <2>2, <3>1, LeaseTypes
    <3> QED
      BY <1>0, <3>2 DEF hbVars
  <2>4. ASSUME NEW d \in Caller, rkPc'[d] = "ok", CallerCtxLive(d)'
        PROVE  StillAttached(CallerKey(d)', rkLease'[d])
    <3>1. d # c /\ Attached(CallerKey(d), rkLease[d])
      BY <1>0, <1>2, <2>1, <2>4 DEF LeasesAttached
    <3>2. StillAttached(CallerKey(d), rkLease[d])
      BY <2>1, <2>2, <3>1, LeaseTypes
    <3> QED
      BY <1>2, <2>1, <3>1, <3>2
  <2> QED
    BY <1>1, <2>3, <2>4 DEF ContentInv, LeasesAttached, Attached, StillAttached
<1>5. CASE Put(c) \/ PutAckLost(c)
  <2>1. /\ kv' = [kv EXCEPT ![CallerKey(c)] = rkLease[c]] /\ live' = live
        /\ overtaken' = overtaken \ {CallerKey(c)}
        /\ rkPc'[c] \in {"ok", "err"} /\ rkLease'[c] \in {rkLease[c], 0}
        /\ rkPc'[c] = "ok" => rkLease'[c] = rkLease[c]
        /\ \A d \in Caller : d # c => rkPc'[d] = rkPc[d] /\ rkLease'[d] = rkLease[d]
        /\ CallerCtxLive(c)
    BY <1>5 DEF Put, PutAckLost, RkStep, PutKey, NoLease, TypeInv, TypeOK, RkTypeOK
  <2>2. ASSUME NEW k \in Key, NEW l \in 0..MaxLease, Attached(k, l), k # CallerKey(c)
        PROVE  StillAttached(k, l)
    <3>1. /\ CallerKey(c) \in Key /\ CallerKey(c) # k
          /\ kv' = [kv EXCEPT ![CallerKey(c)] = rkLease[c]] /\ live' = live
          /\ k \in overtaken => k \in overtaken'
      BY <2>1, <2>2, LeaseTypes
    <3> QED
      BY <2>2, <3>1, AttachedKept
  <2>3. ASSUME NEW h \in Heartbeat, Keeps(h)'
        PROVE  StillAttached(KeyOf[hbSvc'[h]], hbLease'[h])
    <3>1. Attached(KeyOf[hbSvc[h]], hbLease[h])
      BY <1>0, <1>3, <2>3 DEF LeasesAttached
    <3>2. CallerKey(c) # KeyOf[hbSvc[h]]
      BY <1>0, <1>3, <2>1, <2>3, PutsApart
    <3>3. StillAttached(KeyOf[hbSvc[h]], hbLease[h])
      BY <2>2, <3>1, <3>2, LeaseTypes
    <3> QED
      BY <1>0, <3>3 DEF hbVars
  <2>4. ASSUME NEW d \in Caller, rkPc'[d] = "ok", CallerCtxLive(d)'
        PROVE  StillAttached(CallerKey(d)', rkLease'[d])
    <3>1. CASE d = c
      <4>1. kv'[CallerKey(c)] = rkLease[c]
        BY <2>1, LeaseTypes DEF TypeInv, TypeOK, StoreTypeOK
      <4> QED
        BY <1>2, <2>1, <2>4, <3>1, <4>1 DEF StillAttached
    <3>2. CASE d # c
      <4>1. /\ rkPc[d] = "ok" /\ CallerCtxLive(d)
            /\ Attached(CallerKey(d), rkLease[d])
        BY <1>0, <1>2, <2>1, <2>4, <3>2 DEF LeasesAttached
      <4>2. CallerKey(c) # CallerKey(d)
        BY <1>0, <2>1, <3>2, <4>1, PutsApart
      <4>3. StillAttached(CallerKey(d), rkLease[d])
        BY <2>2, <4>1, <4>2, LeaseTypes
      <4> QED
        BY <1>2, <2>1, <3>2, <4>3
    <3> QED
      BY <3>1, <3>2
  <2> QED
    BY <1>1, <2>3, <2>4 DEF ContentInv, LeasesAttached, Attached, StillAttached
<1>6. CASE PutRefused(c) \/ RpcLost(c) \/ RpcAborted(c)
  <2>1. /\ UNCHANGED <<storeVars, histVars>> /\ rkPc'[c] = "err" /\ rkLease'[c] = 0
        /\ \A d \in Caller : d # c => rkPc'[d] = rkPc[d] /\ rkLease'[d] = rkLease[d]
    BY <1>6 DEF PutRefused, RpcLost, RpcAborted, RkStep, NoLease, TypeInv, TypeOK, RkTypeOK
  <2>3. ASSUME NEW h \in Heartbeat, Keeps(h)'
        PROVE  StillAttached(KeyOf[hbSvc'[h]], hbLease'[h])
    BY <1>0, <1>3, <2>1, <2>3 DEF LeasesAttached, Attached, StillAttached, hbVars, storeVars, histVars
  <2>4. ASSUME NEW d \in Caller, rkPc'[d] = "ok", CallerCtxLive(d)'
        PROVE  StillAttached(CallerKey(d)', rkLease'[d])
    BY <1>0, <1>2, <2>1, <2>4 DEF LeasesAttached, Attached, StillAttached, storeVars, histVars
  <2> QED
    BY <1>1, <2>3, <2>4 DEF ContentInv, LeasesAttached, Attached, StillAttached
<1> QED
  BY <1>4, <1>5, <1>6

LEMMA ContentApi ==
  ASSUME OneRegistration, TypeInv, StopInv, ContentInv,
         \/ \E s \in Service : Register(s) \/ Deregister(s)
         \/ RegisterOk \/ RegisterErr
         \/ Delete \/ DeleteLost \/ DeleteAckLost \/ DeleteAborted
  PROVE  ContentInv'
<1>0. /\ OneOwner /\ RetryingClosed /\ LeasesAttached
      /\ API \in Caller /\ API \notin Heartbeat /\ Heartbeat \subseteq Caller
      /\ \A d \in Caller : d # API => d \in Heartbeat
  BY DEF ContentInv, Caller, API, Heartbeat
<1>1. ASSUME NEW s \in Service, Register(s) PROVE ContentInv'
  <2>1. /\ UNCHANGED <<hbVars, storeVars, ctxMap, overtaken>>
        /\ rkPc'[API] = "grant" /\ rkLease'[API] = 0
        /\ \A d \in Caller : d # API => rkPc'[d] = rkPc[d] /\ rkLease'[d] = rkLease[d]
    BY <1>0, <1>1 DEF Register, RkStep, NoLease, TypeInv, TypeOK, RkTypeOK
  <2>2. OneOwner' /\ RetryingClosed'
    BY <1>0, <2>1 DEF OneOwner, RetryingClosed, SameKey, hbVars
  <2>4. ASSUME NEW h \in Heartbeat, Keeps(h)'
        PROVE  StillAttached(KeyOf[hbSvc'[h]], hbLease'[h])
    BY <1>0, <2>1, <2>4 DEF LeasesAttached, Attached, StillAttached, Keeps, hbVars, storeVars
  <2>5. ASSUME NEW d \in Caller, rkPc'[d] = "ok", CallerCtxLive(d)'
        PROVE  StillAttached(CallerKey(d)', rkLease'[d])
    <3>1. d # API
      BY <2>1, <2>5
    <3> QED
      BY <1>0, <2>1, <2>5, <3>1
         DEF LeasesAttached, Attached, StillAttached, CallerCtxLive, CallerKey, hbVars,
             storeVars
  <2> QED
    BY <2>2, <2>4, <2>5 DEF ContentInv, LeasesAttached, Attached, StillAttached
<1>2. ASSUME NEW s \in Service, Deregister(s) PROVE ContentInv'
  <2>1. /\ UNCHANGED <<rkVars, storeVars, hbPc, hbSvc, hbLease, kacOpen, overtaken>>
        /\ rkPc[API] = "idle"
        /\ \A h \in Heartbeat : ctxLive'[h] => ctxLive[h]
        /\ \A t \in Service : ctxMap'[t] # NoHeartbeat => ctxMap'[t] = ctxMap[t]
    BY <1>0, <1>2 DEF Deregister, StopInv, RkHasCaller, TypeInv, TypeOK, ApiTypeOK, histVars
  <2>2. OneOwner' /\ RetryingClosed'
    BY <1>0, <2>1 DEF OneOwner, RetryingClosed, SameKey
  <2>4. ASSUME NEW h \in Heartbeat, Keeps(h)'
        PROVE  StillAttached(KeyOf[hbSvc'[h]], hbLease'[h])
    BY <1>0, <2>1, <2>4 DEF LeasesAttached, Attached, StillAttached, Keeps, storeVars
  <2>5. ASSUME NEW d \in Caller, rkPc'[d] = "ok", CallerCtxLive(d)'
        PROVE  StillAttached(CallerKey(d)', rkLease'[d])
    <3>1. d # API
      BY <2>1, <2>5 DEF rkVars
    <3> QED
      BY <1>0, <2>1, <2>5, <3>1
         DEF LeasesAttached, Attached, StillAttached, CallerCtxLive, CallerKey, rkVars,
             storeVars
  <2> QED
    BY <2>2, <2>4, <2>5 DEF ContentInv, LeasesAttached, Attached, StillAttached
<1>3. CASE RegisterOk
  <2> DEFINE n == spawned + 1
  <2>1. n \in Heartbeat /\ callSvc \in Service /\ hbPc[n] = "none" /\ n # API
    <3>1. n \in Heartbeat /\ callSvc \in Service
      <4>1. spawned \in 0..MaxHeartbeat /\ callSvc \in Service /\ callOp = "register"
        BY <1>3 DEF RegisterOk, TypeInv, TypeOK, HbTypeOK, ApiTypeOK
      <4>2. spawned < MaxHeartbeat /\ MaxHeartbeat \in Nat
        BY <4>1, RegistryAssumption DEF TypeInv, RoomForHeartbeat
      <4> QED
        BY <4>1, <4>2 DEF Heartbeat
    <3>2. n > spawned
      BY DEF TypeInv, TypeOK, HbTypeOK
    <3> QED
      BY <1>0, <3>1, <3>2 DEF StopInv, SpawnedInOrder
  <2>2. /\ callOp = "register" /\ rkPc[API] = "ok" /\ callSvc' = callSvc
        /\ UNCHANGED <<storeVars, kacOpen, overtaken>>
        /\ ctxMap' = [ctxMap EXCEPT ![callSvc] = n]
        /\ rkPc' = [rkPc EXCEPT ![API] = "idle"] /\ rkLease' = [rkLease EXCEPT ![API] = NoLease]
        /\ hbPc' = [hbPc EXCEPT ![n] = "start"] /\ hbSvc' = [hbSvc EXCEPT ![n] = callSvc]
        /\ hbLease' = [hbLease EXCEPT ![n] = rkLease[API]]
        /\ ctxLive' = [ctxLive EXCEPT ![n] = optsCtx]
    BY <1>3 DEF RegisterOk, RkStep, histVars
  <2>3. /\ rkPc'[API] = "idle" /\ rkLease'[API] = 0
        /\ \A d \in Caller : d # API => rkPc'[d] = rkPc[d] /\ rkLease'[d] = rkLease[d]
    BY <1>0, <2>2 DEF NoLease, TypeInv, TypeOK, RkTypeOK
  <2>4. hbPc'[n] = "start" /\ hbSvc'[n] = callSvc /\ hbLease'[n] = rkLease[API]
    BY <2>1, <2>2 DEF TypeInv, TypeOK, HbTypeOK
  <2>5. \A h \in Heartbeat : h # n => /\ hbPc'[h] = hbPc[h] /\ hbSvc'[h] = hbSvc[h]
                                     /\ hbLease'[h] = hbLease[h] /\ ctxLive'[h] = ctxLive[h]
    BY <2>1, <2>2 DEF TypeInv, TypeOK, HbTypeOK
  <2>6. /\ ctxMap'[callSvc] = n
        /\ \A t \in Service : t # callSvc => ctxMap'[t] = ctxMap[t]
    BY <2>1, <2>2 DEF TypeInv, TypeOK, ApiTypeOK
  <2> HIDE DEF n
  <2>7. OneOwner'
    <3>1. \A t \in Service : SameKey(t, callSvc) => ctxMap[t] = NoHeartbeat
      BY <2>2 DEF StopInv, CallOwnsKey
    <3> QED
      BY <1>0, <2>6, <3>1 DEF OneOwner, SameKey
  <2>8. RetryingClosed'
    BY <1>0, <2>2, <2>4, <2>5 DEF RetryingClosed
  <2>10. ASSUME NEW h \in Heartbeat, Keeps(h)'
         PROVE  StillAttached(KeyOf[hbSvc'[h]], hbLease'[h])
    <3>1. CASE h = n
      <4>1. CallerCtxLive(API) /\ CallerKey(API) = KeyOf[callSvc]
        BY DEF CallerCtxLive, CallerKey
      <4>2. Attached(KeyOf[callSvc], rkLease[API])
        BY <1>0, <2>2, <4>1 DEF LeasesAttached
      <4> QED
        BY <2>2, <2>4, <3>1, <4>2 DEF Attached, StillAttached, storeVars
    <3>2. CASE h # n
      BY <1>0, <2>2, <2>5, <2>10, <3>2
         DEF LeasesAttached, Attached, StillAttached, Keeps, storeVars
    <3> QED
      BY <3>1, <3>2
  <2>11. ASSUME NEW d \in Caller, rkPc'[d] = "ok", CallerCtxLive(d)'
         PROVE  StillAttached(CallerKey(d)', rkLease'[d])
    <3>1. d # API /\ d \in Heartbeat /\ rkPc[d] = "ok"
      BY <1>0, <2>3, <2>11
    <3>2. d # n
      BY <2>1, <3>1 DEF StopInv, RkHasCaller
    <3> QED
      BY <1>0, <2>2, <2>3, <2>5, <2>11, <3>1, <3>2
         DEF LeasesAttached, Attached, StillAttached, CallerCtxLive, CallerKey, storeVars
  <2> QED
    BY <2>7, <2>8, <2>10, <2>11 DEF ContentInv, LeasesAttached, Attached, StillAttached
<1>4. CASE RegisterErr
  <2>1. /\ UNCHANGED <<hbVars, storeVars, ctxMap, callSvc, overtaken>>
        /\ rkPc'[API] = "idle" /\ rkLease'[API] = 0
        /\ \A d \in Caller : d # API => rkPc'[d] = rkPc[d] /\ rkLease'[d] = rkLease[d]
    BY <1>0, <1>4 DEF RegisterErr, RkStep, NoLease, TypeInv, TypeOK, RkTypeOK, histVars
  <2>2. OneOwner' /\ RetryingClosed'
    BY <1>0, <2>1 DEF OneOwner, RetryingClosed, SameKey, hbVars
  <2>4. LeasesAttached'
    BY <1>0, <2>1 DEF LeasesAttached, Attached, Keeps, CallerCtxLive, CallerKey, hbVars, storeVars
  <2> QED
    BY <2>2, <2>4 DEF ContentInv
<1>5. CASE Delete \/ DeleteLost \/ DeleteAckLost \/ DeleteAborted
  <2>1. /\ UNCHANGED <<rkVars, hbVars, ctxMap, callSvc, overtaken, live>>
        /\ callOp = "deregister"
        /\ kv' = kv \/ kv' = [kv EXCEPT ![KeyOf[callSvc]] = NoLease]
        /\ callSvc \in Service /\ KeyOf[callSvc] \in Key
    BY <1>5, RegistryAssumption
       DEF Delete, DeleteLost, DeleteAckLost, DeleteAborted, DeleteKey, storeVars, histVars,
           TypeInv, TypeOK, ApiTypeOK
  <2>2. OneOwner' /\ RetryingClosed' 
    BY <1>0, <2>1 DEF OneOwner, RetryingClosed, SameKey, hbVars, rkVars
  <2>3. ASSUME NEW k \in Key, NEW l \in 0..MaxLease, Attached(k, l),
               k # KeyOf[callSvc]
        PROVE  StillAttached(k, l)
    <3>1. \/ UNCHANGED <<kv, live>>
          \/ \E j \in Key : \E x : j # k /\ kv' = [kv EXCEPT ![j] = x] /\ live' = live
      BY <2>1, <2>3
    <3> QED
      BY <2>1, <2>3, <3>1, AttachedKept
  <2>4. ASSUME NEW h \in Heartbeat, Keeps(h)'
        PROVE  StillAttached(KeyOf[hbSvc'[h]], hbLease'[h])
    <3>1. Keeps(h) /\ Running(h) /\ ctxLive[h]
      BY <2>1, <2>4 DEF Keeps, Running, hbVars
    <3>2. KeyOf[hbSvc[h]] # KeyOf[callSvc]
      BY <1>0, <2>1, <3>1, Owners
    <3>3. Attached(KeyOf[hbSvc[h]], hbLease[h])
      BY <1>0, <3>1 DEF LeasesAttached
    <3>4. StillAttached(KeyOf[hbSvc[h]], hbLease[h])
      BY <2>3, <3>2, <3>3, LeaseTypes
    <3> QED
      BY <2>1, <3>4 DEF hbVars
  <2>5. ASSUME NEW d \in Caller, rkPc'[d] = "ok", CallerCtxLive(d)'
        PROVE  StillAttached(CallerKey(d)', rkLease'[d])
    <3>1. rkPc[d] = "ok" /\ CallerCtxLive(d) /\ CallerKey(d)' = CallerKey(d)
      BY <2>1, <2>5 DEF CallerCtxLive, CallerKey, hbVars, rkVars
    <3>2. /\ d \in Heartbeat /\ Running(d) /\ ctxLive[d] /\ CallerKey(d) = KeyOf[hbSvc[d]]
      BY <2>1, <3>1, CallerRuns
    <3>3. CallerKey(d) # KeyOf[callSvc]
      BY <1>0, <2>1, <3>2, Owners
    <3>4. Attached(CallerKey(d), rkLease[d])
      BY <1>0, <3>1 DEF LeasesAttached
    <3>5. StillAttached(CallerKey(d), rkLease[d])
      BY <2>3, <3>3, <3>4, LeaseTypes
    <3> QED
      BY <2>1, <3>1, <3>5 DEF rkVars
  <2> QED
    BY <2>2, <2>4, <2>5 DEF ContentInv, LeasesAttached, Attached, StillAttached
<1> QED
  BY <1>1, <1>2, <1>3, <1>4, <1>5

\* A heartbeat that goes on by itself.
LEMMA ContentOne ==
  ASSUME TypeInv, ContentInv, NEW h \in Heartbeat,
         UNCHANGED <<storeVars, apiVars, spawned, hbSvc, ctxLive, overtaken>>,
         \A g \in Heartbeat \ {h} : /\ hbPc'[g] = hbPc[g] /\ hbLease'[g] = hbLease[g]
                                   /\ kacOpen'[g] = kacOpen[g],
         \A d \in Caller \ {h} : rkPc'[d] = rkPc[d] /\ rkLease'[d] = rkLease[d],
         hbPc'[h] \in {"retrying", "trying"} => ~kacOpen'[h],
         rkPc'[h] # "ok",
         Keeps(h)' => Attached(KeyOf[hbSvc[h]], hbLease'[h])
  PROVE  ContentInv'
<1>0. OneOwner /\ RetryingClosed /\ LeasesAttached
  BY DEF ContentInv
<1>1. OneOwner' /\ RetryingClosed'
  BY <1>0 DEF OneOwner, RetryingClosed, SameKey, apiVars
<1>3. ASSUME NEW g \in Heartbeat, Keeps(g)'
      PROVE  StillAttached(KeyOf[hbSvc'[g]], hbLease'[g])
  <2>1. CASE g = h
    BY <1>3, <2>1 DEF Attached, StillAttached, storeVars
  <2>2. CASE g # h
    BY <1>0, <1>3, <2>2 DEF LeasesAttached, Attached, StillAttached, Keeps, storeVars
  <2> QED
    BY <2>1, <2>2
<1>4. ASSUME NEW d \in Caller, rkPc'[d] = "ok", CallerCtxLive(d)'
      PROVE  StillAttached(CallerKey(d)', rkLease'[d])
  <2>1. d # h
    BY <1>4
  <2> QED
    BY <1>0, <1>4, <2>1 DEF LeasesAttached, Attached, StillAttached, CallerCtxLive, CallerKey,
                            apiVars, storeVars
<1> QED
  BY <1>1, <1>3, <1>4 DEF ContentInv, LeasesAttached, Attached, StillAttached

LEMMA ContentHb ==
  ASSUME TypeInv, StopInv, ContentInv, NEW h \in Heartbeat, HbRun(h) \/ HbAttemptTimedOut(h)
  PROVE  ContentInv'
<1>0. /\ h \in Caller /\ h # API /\ CallerKey(h) = KeyOf[hbSvc[h]]
      /\ CallerCtxLive(h) <=> ctxLive[h]
      /\ hbPc[h] # "trying" => rkPc[h] = "idle"
      /\ RetryingClosed /\ LeasesAttached
  <2>1. h \in Caller /\ h # API
    BY DEF Caller, Heartbeat, API
  <2>2. RetryingClosed /\ LeasesAttached
    BY DEF ContentInv
  <2> QED
    BY <2>1, <2>2
       DEF CallerKey, CallerCtxLive, StopInv, RkHasCaller
<1>1. /\ hbPc \in [Heartbeat -> HbPcs] /\ hbLease \in [Heartbeat -> 0..MaxLease]
      /\ kacOpen \in [Heartbeat -> BOOLEAN]
      /\ rkPc \in [Caller -> RkPcs] /\ rkLease \in [Caller -> 0..MaxLease]
  BY DEF TypeInv, TypeOK, HbTypeOK, RkTypeOK, HbPcs, RkPcs
<1>2. /\ UNCHANGED <<storeVars, apiVars, spawned, hbSvc, ctxLive, overtaken>>
      /\ \A g \in Heartbeat \ {h} : /\ hbPc'[g] = hbPc[g] /\ hbLease'[g] = hbLease[g]
                                   /\ kacOpen'[g] = kacOpen[g]
      /\ \A d \in Caller \ {h} : rkPc'[d] = rkPc[d] /\ rkLease'[d] = rkLease[d]
  BY <1>1 DEF HbRun, HbStart, HbLeaseLost, HbStopped, HbRetryCancelled, HbAttempt,
       HbRetriesUsedUp, HbAttemptFailed, HbAttemptTimedOut, HbAttemptOk,
       HbFirstAnswer, HbGiveUp, HbGoto, HbReturn, HbFrame, RkStep, rkVars,
       histVars
<1>3. CASE HbStart(h)
  <2>1. /\ hbPc[h] = "start" /\ UNCHANGED rkVars
        /\ \/ hbPc'[h] = "serving" /\ hbLease'[h] = hbLease[h]
           \/ hbPc'[h] = "retrying" /\ hbLease'[h] = 0 /\ ~kacOpen'[h]
    BY <1>1, <1>3 DEF HbStart, HbGoto, NoLease
  <2>2. Keeps(h)' => Keeps(h)
    BY <1>2, <2>1 DEF Keeps
  <2> QED
    BY <1>0, <1>2, <2>1, <2>2, ContentOne DEF Keeps, LeasesAttached, rkVars
<1>4. CASE HbLeaseLost(h) \/ HbRetryCancelled(h) \/ HbGiveUp(h) \/ HbStopped(h)
  <2>1. /\ hbPc[h] # "trying" /\ UNCHANGED rkVars
        /\ hbPc'[h] = "done" \/ (hbPc'[h] = "retrying" /\ ~kacOpen'[h])
    BY <1>1, <1>4 DEF HbLeaseLost, HbRetryCancelled, HbGiveUp, HbStopped, HbReturn, HbGoto, NoLease
  <2> QED
    BY <1>0, <1>2, <2>1, ContentOne DEF Keeps, rkVars
<1>5. CASE HbAttempt(h) \/ HbAttemptFailed(h) \/ HbAttemptTimedOut(h)
  <2>1. /\ hbPc[h] \in {"retrying", "trying"} /\ hbPc'[h] \in {"retrying", "trying"}
        /\ kacOpen'[h] = kacOpen[h] /\ hbLease'[h] = hbLease[h]
        /\ rkPc'[h] # "ok" /\ rkLease'[h] = 0
    BY <1>0, <1>1, <1>5 DEF HbAttempt, HbAttemptFailed, HbAttemptTimedOut, HbGoto, RkStep, NoLease
  <2> QED
    BY <1>0, <1>2, <2>1, ContentOne DEF Keeps, RetryingClosed
<1>6. CASE HbRetriesUsedUp(h)
  <2>1. /\ hbPc[h] = "retrying" /\ hbPc'[h] = "first" /\ UNCHANGED rkVars
        /\ kacOpen'[h] = kacOpen[h] /\ hbLease'[h] = hbLease[h]
    BY <1>1, <1>6 DEF HbRetriesUsedUp, HbGoto
  <2> QED
    BY <1>0, <1>2, <2>1, ContentOne DEF Keeps, RetryingClosed, rkVars
<1>7. CASE HbAttemptOk(h)
  <2>1. /\ hbPc[h] = "trying" /\ rkPc[h] = "ok" /\ hbLease'[h] = rkLease[h]
        /\ hbPc'[h] = "first" \/ (hbPc'[h] = "retrying" /\ ~kacOpen'[h])
        /\ rkPc'[h] = "idle" /\ rkLease'[h] = 0
    BY <1>0, <1>1, <1>7 DEF HbAttemptOk, HbGoto, RkStep, NoLease
  <2>2. Keeps(h)' => ctxLive[h]
    BY <1>2 DEF Keeps
  <2>3. ctxLive[h] => Attached(KeyOf[hbSvc[h]], rkLease[h])
    BY <1>0, <2>1 DEF LeasesAttached
  <2> QED
    BY <1>0, <1>2, <2>1, <2>2, <2>3, ContentOne
<1>8. CASE HbFirstAnswer(h)
  <2>1. /\ hbPc[h] = "first" /\ kacOpen[h] /\ hbPc'[h] = "serving" /\ UNCHANGED rkVars
        /\ hbLease'[h] = hbLease[h]
    BY <1>1, <1>8 DEF HbFirstAnswer, HbGoto
  <2>2. Keeps(h)' => Keeps(h)
    BY <1>2, <2>1 DEF Keeps
  <2> QED
    BY <1>0, <1>2, <2>1, <2>2, ContentOne DEF LeasesAttached, rkVars
<1> QED
  BY <1>3, <1>4, <1>5, <1>6, <1>7, <1>8 DEF HbRun

LEMMA ContentWorld ==
  ASSUME TypeInv, StopInv, ContentInv,
         \/ \E h \in Heartbeat : KacClosed(h) \/ KacDeadline(h)
         \/ \E l \in LeaseId : Expire(l) \/ ExpireInUse(l)
         \/ \E k \in Key : LateDelete(k) \/ \E l \in LeaseId : LatePut(k, l)
         \/ CancelOptsCtx \/ CloseClient \/ Crash
  PROVE  ContentInv'
<1>0. OneOwner /\ RetryingClosed /\ LeasesAttached
  BY DEF ContentInv
<1>1. CASE \E l \in LeaseId : Expire(l) \/ ExpireInUse(l)
  <2>1. /\ UNCHANGED <<apiVars, rkVars, hbVars, overtaken>>
        /\ \E l \in LeaseId : ExpireLease(l)
    BY <1>1 DEF Expire, ExpireInUse, ExpireFrame, histVars
  <2>2. OneOwner' /\ RetryingClosed' 
    BY <1>0, <2>1 DEF OneOwner, RetryingClosed, SameKey, apiVars, rkVars, hbVars
  <2>3. ASSUME NEW k \in Key, NEW l \in 0..MaxLease, Attached(k, l)
        PROVE  StillAttached(k, l)
    BY <2>1, <2>3, AttachedKept
  <2>4. ASSUME NEW h \in Heartbeat, Keeps(h)'
        PROVE  StillAttached(KeyOf[hbSvc'[h]], hbLease'[h])
    <3>1. Attached(KeyOf[hbSvc[h]], hbLease[h])
      BY <1>0, <2>1, <2>4 DEF LeasesAttached, Keeps, hbVars
    <3>2. StillAttached(KeyOf[hbSvc[h]], hbLease[h])
      BY <2>3, <3>1, LeaseTypes
    <3> QED
      BY <2>1, <3>2 DEF hbVars
  <2>5. ASSUME NEW d \in Caller, rkPc'[d] = "ok", CallerCtxLive(d)'
        PROVE  StillAttached(CallerKey(d)', rkLease'[d])
    <3>1. rkPc[d] = "ok" /\ CallerCtxLive(d) /\ CallerKey(d)' = CallerKey(d)
      BY <2>1, <2>5 DEF CallerCtxLive, CallerKey, apiVars, hbVars, rkVars
    <3>2. Attached(CallerKey(d), rkLease[d])
      BY <1>0, <3>1 DEF LeasesAttached
    <3>3. StillAttached(CallerKey(d), rkLease[d])
      BY <2>3, <3>2, LeaseTypes
    <3> QED
      BY <2>1, <3>1, <3>3 DEF rkVars
  <2> QED
    BY <2>2, <2>4, <2>5 DEF ContentInv, LeasesAttached, Attached, StillAttached
<1>2. CASE Crash
  <2>1. /\ UNCHANGED storeVars /\ ctxMap' = [s \in Service |-> NoHeartbeat]
        /\ rkPc' = [c \in Caller |-> "idle"] /\ rkLease' = [c \in Caller |-> NoLease]
        /\ hbPc' = [h \in Heartbeat |-> IF h <= spawned THEN "done" ELSE "none"]
        /\ hbLease' = [h \in Heartbeat |-> NoLease]
    BY <1>2 DEF Crash
  <2>2. OneOwner' /\ RetryingClosed'
    BY <2>1 DEF OneOwner, RetryingClosed
  <2>4. LeasesAttached'
    BY <2>1 DEF LeasesAttached, Keeps
  <2> QED
    BY <2>2, <2>4 DEF ContentInv
<1>3. CASE \/ \E h \in Heartbeat : KacClosed(h) \/ KacDeadline(h)
           \/ CancelOptsCtx \/ CloseClient
  <2>1. /\ UNCHANGED <<storeVars, apiVars, rkVars, hbPc, hbSvc, hbLease, overtaken>>
        /\ \A h \in Heartbeat : (ctxLive'[h] => ctxLive[h]) /\ (kacOpen'[h] => kacOpen[h])
    BY <1>3 DEF KacClosed, KacDeadline, KacFrame, CancelOptsCtx, CloseClient, hbVars,
                histVars, TypeInv, TypeOK, HbTypeOK
  <2>2. OneOwner' /\ RetryingClosed' 
    BY <1>0, <2>1 DEF OneOwner, RetryingClosed, SameKey, apiVars, rkVars, storeVars
  <2>3. ASSUME NEW h \in Heartbeat, Keeps(h)'
        PROVE  StillAttached(KeyOf[hbSvc'[h]], hbLease'[h])
    <3>1. Keeps(h)
      BY <2>1, <2>3 DEF Keeps
    <3>2. Attached(KeyOf[hbSvc[h]], hbLease[h])
      BY <1>0, <3>1 DEF LeasesAttached
    <3> QED
      BY <2>1, <3>2 DEF Attached, StillAttached, storeVars
  <2>4. ASSUME NEW d \in Caller, rkPc'[d] = "ok", CallerCtxLive(d)'
        PROVE  StillAttached(CallerKey(d)', rkLease'[d])
    <3>0. d = API \/ d \in Heartbeat
      BY DEF Caller
    <3>1. rkPc[d] = "ok" /\ CallerCtxLive(d) /\ CallerKey(d)' = CallerKey(d)
      BY <2>1, <2>4, <3>0 DEF CallerCtxLive, CallerKey, apiVars, rkVars
    <3>2. Attached(CallerKey(d), rkLease[d])
      BY <1>0, <3>1 DEF LeasesAttached
    <3> QED
      BY <2>1, <3>1, <3>2 DEF Attached, StillAttached, storeVars, rkVars
  <2> QED
    BY <2>2, <2>3, <2>4 DEF ContentInv, LeasesAttached, Attached, StillAttached
<1>4. ASSUME NEW j \in Key, LateDelete(j) \/ \E x \in LeaseId : LatePut(j, x) PROVE ContentInv'
  <2>1. /\ UNCHANGED <<apiVars, rkVars, hbVars, live>>
        /\ overtaken' = overtaken \cup {j}
        /\ \E x : kv' = [kv EXCEPT ![j] = x]
    BY <1>4 DEF LateDelete, LatePut, DeleteKey, PutKey
  <2>2. OneOwner' /\ RetryingClosed'
    BY <1>0, <2>1 DEF OneOwner, RetryingClosed, SameKey, apiVars, hbVars
  <2>3. ASSUME NEW k \in Key, NEW l \in 0..MaxLease, Attached(k, l)
        PROVE  StillAttached(k, l)
    <3>1. CASE k = j
      BY <2>1, <3>1 DEF StillAttached
    <3>2. CASE k # j
      BY <2>1, <2>3, <3>2, AttachedKept
    <3> QED
      BY <3>1, <3>2
  <2>4. ASSUME NEW h \in Heartbeat, Keeps(h)'
        PROVE  StillAttached(KeyOf[hbSvc'[h]], hbLease'[h])
    <3>1. Attached(KeyOf[hbSvc[h]], hbLease[h])
      BY <1>0, <2>1, <2>4 DEF LeasesAttached, Keeps, hbVars
    <3>2. StillAttached(KeyOf[hbSvc[h]], hbLease[h])
      BY <2>3, <3>1, LeaseTypes
    <3> QED
      BY <2>1, <3>2 DEF hbVars
  <2>5. ASSUME NEW d \in Caller, rkPc'[d] = "ok", CallerCtxLive(d)'
        PROVE  StillAttached(CallerKey(d)', rkLease'[d])
    <3>1. rkPc[d] = "ok" /\ CallerCtxLive(d) /\ CallerKey(d)' = CallerKey(d)
      BY <2>1, <2>5 DEF CallerCtxLive, CallerKey, apiVars, hbVars, rkVars
    <3>2. Attached(CallerKey(d), rkLease[d])
      BY <1>0, <3>1 DEF LeasesAttached
    <3>3. StillAttached(CallerKey(d), rkLease[d])
      BY <2>3, <3>2, LeaseTypes
    <3> QED
      BY <2>1, <3>1, <3>3 DEF rkVars
  <2> QED
    BY <2>2, <2>4, <2>5 DEF ContentInv, LeasesAttached, Attached, StillAttached
<1> QED
  BY <1>1, <1>2, <1>3, <1>4

\* A heartbeat that waits for the next answer on an open channel, under a lease
\* that is alive, keeps exactly the lease its key is attached to, whichever
\* attempts timed out, leases ran out and calls of others failed before.  Only a
\* put or a delete whose caller had given up on it can change the key behind
\* its back, and only until the next put somebody waits for.  Callers register
\* a key only while it is unregistered.
THEOREM ContentHeartbeatsListed ==
  ASSUME OneRegistration
  PROVE  Spec => []ContentIsListed
<1>1. ContentInv => ContentIsListed
  BY DEF ContentInv, LeasesAttached, ContentIsListed, Keeps, Attached
<1>2. IInv /\ ContentInv /\ [Next]_vars => IInv' /\ ContentInv'
  <2> SUFFICES ASSUME IInv, ContentInv, [Next]_vars PROVE ContentInv'
    BY IInvNext
  <2>1. CASE UNCHANGED vars
    BY <2>1 DEF vars, ContentInv, OneOwner, RetryingClosed, LeasesAttached,
                Attached, Keeps, CallerCtxLive, CallerKey, SameKey, apiVars, rkVars, hbVars,
                storeVars, histVars
  <2>2. CASE Next
    BY <2>2, ContentRk, ContentApi, ContentHb, ContentWorld
       DEF IInv, Next, Faults, ApiStep, RkRun
  <2> QED
    BY <2>1, <2>2
<1> QED
  BY IInvInit, ContentInit, <1>1, <1>2, PTL DEF Spec

=============================================================================
