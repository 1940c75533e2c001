---------------------------- MODULE EtcdRegistry ----------------------------
(****************************************************************************)
(* The etcd service registry of adapter/kratos/discovery/etcd/registry.go:  *)
(* Register, Deregister and the heartbeat goroutine Register leaves behind, *)
(* which keeps the instance's lease alive and registers the instance anew   *)
(* when the lease is lost.                                                  *)
(*                                                                          *)
(* One process owns the Registry.  Its API calls are serialized (ctxMap and *)
(* lease are plain fields, so concurrent calls are not allowed), but every  *)
(* call runs concurrently with the heartbeats and with etcd: each RPC is a  *)
(* step of its own that may fail, be applied although its answer is lost,   *)
(* or be applied after its caller has given up on it: cancelling a context  *)
(* makes the client return, and does not call back what it has sent.        *)
(*                                                                          *)
(* r.lease is left out: a clientv3.Lease is only a stub.  Close stops the   *)
(* keep-alive loops started through it, and none is (the heartbeat uses     *)
(* r.client.KeepAlive); Grant goes on working on a closed one.              *)
(****************************************************************************)
EXTENDS EtcdStore

CONSTANTS
  Service,          \* the *registry.ServiceInstance pointers
  KeyOf,            \* the key "Name/ID" of each
  MaxRetry,         \* opts.maxRetry
  MaxHeartbeat,     \* bound on the heartbeats ever started
  MaxFault,         \* bound on the failures of API calls and the losses of leases
  MaxStop,          \* bound on crashes, cancellations of opts.ctx and closings
                    \* of the client
  OneRegistration   \* do callers register a key only when it is unregistered?

ASSUME RegistryAssumption ==
  /\ Service # {}
  /\ KeyOf \in [Service -> Key]
  /\ MaxRetry \in Nat \ {0}
  /\ MaxHeartbeat \in Nat
  /\ MaxFault \in Nat /\ MaxStop \in Nat
  /\ OneRegistration \in BOOLEAN

VARIABLES
  clientOpen,   \* the shared etcd client has not been closed
  optsCtx,      \* opts.ctx has not been cancelled
  ctxMap,       \* the heartbeat whose cancel function is stored, 0 if none
  callOp,       \* the API call in progress
  callSvc,      \* and the instance it is about
  rkPc,         \* where each call of registerWithKV stands
  rkLease,      \* the lease it was granted
  spawned,      \* the heartbeats started so far are 1..spawned
  hbPc,         \* where each heartbeat goroutine stands
  hbSvc,        \* the instance it was started for
  hbLease,      \* curLeaseID
  hbRetry,      \* retryCnt
  kacOpen,      \* the channel KeepAlive returned is open
  ctxLive,      \* its context has not been cancelled
  latePuts,     \* puts whose caller gave up and that etcd may still apply,
                \* with their lease
  lateDels,     \* deletes, likewise
  faults, stops,   \* how much of each bound is used up
  gone,         \* history: keys whose last API call was a successful Deregister
  overtaken     \* history: keys an abandoned put or delete has changed since a
                \* caller that was still waiting last put them

apiVars    == <<ctxMap, callOp, callSvc>>
rkVars     == <<rkPc, rkLease>>
hbVars     == <<spawned, hbPc, hbSvc, hbLease, hbRetry, kacOpen, ctxLive>>
lateVars   == <<latePuts, lateDels>>
boundVars  == <<faults, stops>>
clientVars == <<clientOpen, optsCtx>>
histVars   == <<gone, overtaken>>
vars == <<storeVars, apiVars, rkVars, hbVars, lateVars, boundVars, clientVars,
          histVars>>

Heartbeat == 1..MaxHeartbeat
NoHeartbeat == 0
\* registerWithKV is called by Register, as caller API, and by the heartbeats.
API == 0
Caller == {API} \cup Heartbeat
AnyService == CHOOSE s \in Service : TRUE

ApiTypeOK ==
  /\ ctxMap \in [Service -> Heartbeat \cup {NoHeartbeat}]
  /\ callOp \in {"none", "register", "deregister"}
  /\ callSvc \in Service

RkTypeOK ==
  /\ rkPc \in [Caller -> {"idle", "grant", "put", "ok", "err"}]
  /\ rkLease \in [Caller -> 0..MaxLease]

HbTypeOK ==
  /\ spawned \in 0..MaxHeartbeat
  /\ hbPc \in [Heartbeat -> {"none", "start", "serving", "retrying",
                             "trying", "first", "done"}]
  /\ hbSvc \in [Heartbeat -> Service]
  /\ hbLease \in [Heartbeat -> 0..MaxLease]
  /\ hbRetry \in [Heartbeat -> 0..MaxRetry]
  /\ kacOpen \in [Heartbeat -> BOOLEAN]
  /\ ctxLive \in [Heartbeat -> BOOLEAN]

WorldTypeOK ==
  /\ clientOpen \in BOOLEAN /\ optsCtx \in BOOLEAN
  /\ latePuts \subseteq Key \X (0..MaxLease)
  /\ lateDels \subseteq Key
  /\ faults \in 0..MaxFault /\ stops \in 0..MaxStop
  /\ gone \subseteq Key /\ overtaken \subseteq Key

TypeOK == StoreTypeOK /\ ApiTypeOK /\ RkTypeOK /\ HbTypeOK /\ WorldTypeOK

Init ==
  /\ StoreInit
  /\ clientOpen = TRUE /\ optsCtx = TRUE
  /\ ctxMap = [s \in Service |-> NoHeartbeat]
  /\ callOp = "none" /\ callSvc = AnyService
  /\ rkPc = [c \in Caller |-> "idle"]
  /\ rkLease = [c \in Caller |-> NoLease]
  /\ spawned = 0
  /\ hbPc = [h \in Heartbeat |-> "none"]
  /\ hbSvc = [h \in Heartbeat |-> AnyService]
  /\ hbLease = [h \in Heartbeat |-> NoLease]
  /\ hbRetry = [h \in Heartbeat |-> 0]
  /\ kacOpen = [h \in Heartbeat |-> FALSE]
  /\ ctxLive = [h \in Heartbeat |-> FALSE]
  /\ latePuts = {} /\ lateDels = {}
  /\ faults = 0 /\ stops = 0
  /\ gone = Key /\ overtaken = {}

-----------------------------------------------------------------------------
(* Helpers.                                                                 *)

Running(h) == hbPc[h] \notin {"none", "done"}
CallerKey(c) == IF c = API THEN KeyOf[callSvc] ELSE KeyOf[hbSvc[c]]
\* Mutant: attempts run with a context of their own, not one derived from ctx.
DetachedCtxLive(c) == TRUE
CallerCtxLive(c) == IF c = API THEN TRUE ELSE ctxLive[c]
SameKey(s, t) == KeyOf[s] = KeyOf[t]

\* No other pointer to an instance with this key is registered.
SoleOwner(s) == \A t \in Service \ {s} : SameKey(s, t) => ctxMap[t] = NoHeartbeat

\* The keep-alives of lease l reach etcd.
Kept(l) == /\ clientOpen
           /\ \E h \in Heartbeat : kacOpen[h] /\ ctxLive[h] /\ hbLease[h] = l

\* Somebody counts on lease l: it is kept alive, or about to be.
InUse(l) ==
  \/ Kept(l)
  \/ \E c \in Caller : rkPc[c] \in {"put", "ok"} /\ rkLease[c] = l
  \/ \E h \in Heartbeat : hbPc[h] = "start" /\ hbLease[h] = l

\* etcd never hands out a lease id twice.  To bound their number the model
\* hands out the first id of which no trace is left.
Unknown(l) ==
  /\ l \notin live
  /\ \A p \in latePuts : p[2] # l
  /\ \A c \in Caller : rkLease[c] # l
  /\ \A h \in Heartbeat : hbLease[h] # l

FirstUnknown(l) == Unknown(l) /\ \A m \in LeaseId : Unknown(m) => l <= m

\* What is left in the network of the put of caller c when c gives up on it.
\* One whose lease has expired need not be kept: etcd will refuse it.
AbandonedPuts(c) == IF rkPc[c] = "put" /\ rkLease[c] \in live
                    THEN {<<CallerKey(c), rkLease[c]>>} ELSE {}

\* Something goes wrong.  What goes wrong in an attempt of a heartbeat need
\* not be counted: MaxRetry bounds the attempts.
Fault == faults < MaxFault /\ faults' = faults + 1 /\ UNCHANGED stops
RpcFault(c) == IF c = API THEN Fault ELSE UNCHANGED boundVars
Stop == stops < MaxStop /\ stops' = stops + 1 /\ UNCHANGED faults

-----------------------------------------------------------------------------
(* registerWithKV, run by caller c: a Grant, then a Put with the lease.     *)

RkStep(c, pc, l) == /\ rkPc' = [rkPc EXCEPT ![c] = pc]
                    /\ rkLease' = [rkLease EXCEPT ![c] = l]

Grant(c) ==
  /\ rkPc[c] = "grant" /\ CallerCtxLive(c) /\ clientOpen
  /\ \E l \in LeaseId : FirstUnknown(l) /\ GrantLease(l) /\ RkStep(c, "put", l)
  /\ UNCHANGED <<apiVars, hbVars, lateVars, boundVars, clientVars, histVars>>

Put(c) ==
  /\ rkPc[c] = "put" /\ CallerCtxLive(c) /\ clientOpen
  /\ PutKey(CallerKey(c), rkLease[c])
  /\ overtaken' = overtaken \ {CallerKey(c)}
  /\ RkStep(c, "ok", rkLease[c])
  /\ UNCHANGED <<apiVars, hbVars, lateVars, boundVars, clientVars, gone>>

\* The lease expired between the Grant and the Put.
PutRefused(c) ==
  /\ rkPc[c] = "put" /\ CallerCtxLive(c) /\ clientOpen
  /\ rkLease[c] \notin live
  /\ RkStep(c, "err", NoLease)
  /\ UNCHANGED <<storeVars, apiVars, hbVars, lateVars, boundVars, clientVars,
                 histVars>>

\* Mutant: registerWithKV returns the lease id although the Put failed.
RpcLostPutUnchecked(c) ==
  /\ rkPc[c] \in {"grant", "put"} /\ RpcFault(c)
  /\ latePuts' = latePuts \cup AbandonedPuts(c)
  /\ IF rkPc[c] = "put" THEN RkStep(c, "ok", rkLease[c])
                        ELSE RkStep(c, "err", NoLease)
  /\ UNCHANGED <<storeVars, apiVars, hbVars, lateDels,
                 clientVars, histVars>>

\* The RPC under way fails: etcd has not applied it (but may do so later).
\* An unused lease left by a Grant whose answer is lost only expires.
RpcLost(c) ==
  /\ rkPc[c] \in {"grant", "put"} /\ RpcFault(c)
  /\ latePuts' = latePuts \cup AbandonedPuts(c)
  /\ RkStep(c, "err", NoLease)
  /\ UNCHANGED <<storeVars, apiVars, hbVars, lateDels,
                 clientVars, histVars>>

\* etcd applies the put and its answer is lost: an error all the same.
PutAckLost(c) ==
  /\ rkPc[c] = "put" /\ CallerCtxLive(c) /\ clientOpen /\ RpcFault(c)
  /\ PutKey(CallerKey(c), rkLease[c])
  /\ overtaken' = overtaken \ {CallerKey(c)}
  /\ RkStep(c, "err", NoLease)
  /\ UNCHANGED <<apiVars, hbVars, lateVars, clientVars, gone>>

\* The context is cancelled or the client closed: the RPC under way returns.
RpcAborted(c) ==
  /\ rkPc[c] \in {"grant", "put"}
  /\ ~CallerCtxLive(c) \/ ~clientOpen
  /\ latePuts' = latePuts \cup AbandonedPuts(c)
  /\ RkStep(c, "err", NoLease)
  /\ UNCHANGED <<storeVars, apiVars, hbVars, lateDels, boundVars, clientVars,
                 histVars>>

-----------------------------------------------------------------------------
(* The API calls.                                                           *)

Register(s) ==
  /\ callOp = "none" /\ spawned < MaxHeartbeat
  /\ OneRegistration => ctxMap[s] = NoHeartbeat /\ SoleOwner(s)
  /\ callOp' = "register" /\ callSvc' = s
  /\ RkStep(API, "grant", NoLease)
  /\ gone' = gone \ {KeyOf[s]}
  /\ UNCHANGED <<storeVars, ctxMap, hbVars, lateVars, boundVars, clientVars,
                 overtaken>>

\* Mutant: the cancel function is not stored.
RegisterOkNotStored ==
  /\ callOp = "register" /\ rkPc[API] = "ok"
  /\ LET h == spawned + 1 IN
       /\ spawned' = h
       /\ hbPc' = [hbPc EXCEPT ![h] = "start"]
       /\ hbSvc' = [hbSvc EXCEPT ![h] = callSvc]
       /\ hbLease' = [hbLease EXCEPT ![h] = rkLease[API]]
       /\ ctxLive' = [ctxLive EXCEPT ![h] = optsCtx]
  /\ callOp' = "none"
  /\ RkStep(API, "idle", NoLease)
  /\ UNCHANGED <<storeVars, ctxMap, callSvc, hbRetry, kacOpen, lateVars,
                 boundVars, clientVars, histVars>>

\* registerWithKV succeeded: store the cancel function, start the heartbeat.
RegisterOk ==
  /\ callOp = "register" /\ rkPc[API] = "ok"
  /\ LET h == spawned + 1 IN
       /\ ctxMap' = [ctxMap EXCEPT ![callSvc] = h]
       /\ spawned' = h
       /\ hbPc' = [hbPc EXCEPT ![h] = "start"]
       /\ hbSvc' = [hbSvc EXCEPT ![h] = callSvc]
       /\ hbLease' = [hbLease EXCEPT ![h] = rkLease[API]]
       /\ ctxLive' = [ctxLive EXCEPT ![h] = optsCtx]
  /\ callOp' = "none"
  /\ RkStep(API, "idle", NoLease)
  /\ UNCHANGED <<storeVars, callSvc, hbRetry, kacOpen, lateVars, boundVars,
                 clientVars, histVars>>

RegisterErr ==
  /\ callOp = "register" /\ rkPc[API] = "err"
  /\ callOp' = "none"
  /\ RkStep(API, "idle", NoLease)
  /\ UNCHANGED <<storeVars, ctxMap, callSvc, hbVars, lateVars, boundVars,
                 clientVars, histVars>>

\* Mutant: the heartbeat is forgotten and not cancelled.
DeregisterNotCancelled(s) ==
  /\ callOp = "none"
  /\ OneRegistration => SoleOwner(s)
  /\ ctxMap' = [ctxMap EXCEPT ![s] = NoHeartbeat]
  /\ callOp' = "deregister" /\ callSvc' = s
  /\ UNCHANGED <<storeVars, rkVars, hbVars, lateVars, boundVars, clientVars,
                 histVars>>

\* Cancel the heartbeat, forget it, then delete the key.
Deregister(s) ==
  /\ callOp = "none"
  /\ OneRegistration => SoleOwner(s)
  /\ ctxLive' = [h \in Heartbeat |-> ctxLive[h] /\ h # ctxMap[s]]
  /\ ctxMap' = [ctxMap EXCEPT ![s] = NoHeartbeat]
  /\ callOp' = "deregister" /\ callSvc' = s
  /\ UNCHANGED <<storeVars, rkVars, spawned, hbPc, hbSvc, hbLease, hbRetry,
                 kacOpen, lateVars, boundVars, clientVars, histVars>>

Delete ==
  /\ callOp = "deregister" /\ clientOpen
  /\ DeleteKey(KeyOf[callSvc])
  /\ callOp' = "none"
  /\ gone' = gone \cup {KeyOf[callSvc]}
  /\ UNCHANGED <<ctxMap, callSvc, rkVars, hbVars, lateVars, boundVars,
                 clientVars, overtaken>>

DeleteLost ==
  /\ callOp = "deregister" /\ Fault
  /\ lateDels' = lateDels \cup {KeyOf[callSvc]}
  /\ callOp' = "none"
  /\ UNCHANGED <<storeVars, ctxMap, callSvc, rkVars, hbVars, latePuts, clientVars,
                 histVars>>

DeleteAckLost ==
  /\ callOp = "deregister" /\ clientOpen /\ Fault
  /\ DeleteKey(KeyOf[callSvc])
  /\ callOp' = "none"
  /\ UNCHANGED <<ctxMap, callSvc, rkVars, hbVars, lateVars,
                 clientVars, histVars>>

DeleteAborted ==
  /\ callOp = "deregister" /\ ~clientOpen
  /\ lateDels' = lateDels \cup {KeyOf[callSvc]}
  /\ callOp' = "none"
  /\ UNCHANGED <<storeVars, ctxMap, callSvc, rkVars, hbVars, latePuts,
                 boundVars, clientVars, histVars>>

-----------------------------------------------------------------------------
(* The heartbeat goroutine.                                                 *)

HbGoto(h, pc, l, retry) ==
  /\ hbPc' = [hbPc EXCEPT ![h] = pc]
  /\ hbLease' = [hbLease EXCEPT ![h] = l]
  /\ hbRetry' = [hbRetry EXCEPT ![h] = retry]
  /\ UNCHANGED <<spawned, hbSvc>>

HbReturn(h) == HbGoto(h, "done", NoLease, 0)

\* What h returned with tells why: HbGiveUp keeps curLeaseID and retryCnt.
\* Every attempt failed, or the channel of the lease the last one was granted
\* was closed before its first answer.
GaveUp(h) == hbPc[h] = "done" /\ (hbRetry[h] = MaxRetry \/ hbLease[h] # NoLease)

\* Anything a heartbeat does on its own leaves the rest of the world alone.
HbFrame == UNCHANGED <<storeVars, apiVars, lateVars, boundVars, clientVars,
                       histVars>>

\* KeepAlive only fails on a closed client; its channel is then closed too.
HbStart(h) ==
  /\ hbPc[h] = "start"
  /\ kacOpen' = [kacOpen EXCEPT ![h] = clientOpen]
  /\ IF clientOpen THEN HbGoto(h, "serving", hbLease[h], 0)
                   ELSE HbGoto(h, "retrying", NoLease, 0)
  /\ UNCHANGED <<rkVars, ctxLive>> /\ HbFrame

\* The select at the bottom of the loop finds the channel closed.
HbLeaseLost(h) ==
  /\ hbPc[h] = "serving" /\ ~kacOpen[h]
  /\ IF ctxLive[h] THEN HbGoto(h, "retrying", NoLease, 0) ELSE HbReturn(h)
  /\ UNCHANGED <<rkVars, kacOpen, ctxLive>> /\ HbFrame

\* The same select sees opts.ctx cancelled.  The channel dies with it.
HbStopped(h) ==
  /\ hbPc[h] = "serving" /\ ~optsCtx
  /\ HbReturn(h)
  /\ kacOpen' = [kacOpen EXCEPT ![h] = FALSE]
  /\ UNCHANGED <<rkVars, ctxLive>> /\ HbFrame

\* The head of the retry loop: return, start an attempt, or leave the loop.
HbRetryCancelled(h) ==
  /\ hbPc[h] = "retrying" /\ hbRetry[h] < MaxRetry /\ ~ctxLive[h]
  /\ HbReturn(h)
  /\ UNCHANGED <<rkVars, kacOpen, ctxLive>> /\ HbFrame

\* Mutant: the loop runs once too often.
HbAttemptOffByOne(h) ==
  /\ hbPc[h] = "retrying" /\ hbRetry[h] <= MaxRetry /\ ctxLive[h]
  /\ HbGoto(h, "trying", hbLease[h], hbRetry[h])
  /\ RkStep(h, "grant", NoLease)
  /\ UNCHANGED <<kacOpen, ctxLive>> /\ HbFrame

HbAttempt(h) ==
  /\ hbPc[h] = "retrying" /\ hbRetry[h] < MaxRetry /\ ctxLive[h]
  /\ HbGoto(h, "trying", hbLease[h], hbRetry[h])
  /\ RkStep(h, "grant", NoLease)
  /\ UNCHANGED <<kacOpen, ctxLive>> /\ HbFrame

HbRetriesUsedUp(h) ==
  /\ hbPc[h] = "retrying" /\ hbRetry[h] = MaxRetry
  /\ HbGoto(h, "first", hbLease[h], MaxRetry)
  /\ UNCHANGED <<rkVars, kacOpen, ctxLive>> /\ HbFrame

\* Mutant: an error leaves the loop.
HbAttemptFailedBreaks(h) ==
  /\ hbPc[h] = "trying" /\ rkPc[h] = "err"
  /\ HbGoto(h, "first", hbLease[h], hbRetry[h])
  /\ RkStep(h, "idle", NoLease)
  /\ UNCHANGED <<kacOpen, ctxLive>> /\ HbFrame

\* errChan: the next attempt follows at once.
HbAttemptFailed(h) ==
  /\ hbPc[h] = "trying" /\ rkPc[h] = "err"
  /\ HbGoto(h, "retrying", hbLease[h], hbRetry[h] + 1)
  /\ RkStep(h, "idle", NoLease)
  /\ UNCHANGED <<kacOpen, ctxLive>> /\ HbFrame

\* time.After fires first: the attempt is cancelled, and whatever it has
\* achieved or left in the network is ignored, an id in idChan included.
HbAttemptTimedOut(h) ==
  /\ hbPc[h] = "trying"
  /\ latePuts' = latePuts \cup AbandonedPuts(h)
  /\ HbGoto(h, "retrying", hbLease[h], hbRetry[h] + 1)
  /\ RkStep(h, "idle", NoLease)
  /\ UNCHANGED <<storeVars, apiVars, lateDels, boundVars, clientVars,
                 histVars, kacOpen, ctxLive>>

\* idChan: keep the new lease alive.  On a closed client KeepAlive fails,
\* and after a back-off the next attempt follows.
HbAttemptOk(h) ==
  /\ hbPc[h] = "trying" /\ rkPc[h] = "ok"
  /\ kacOpen' = [kacOpen EXCEPT ![h] = clientOpen]
  /\ IF clientOpen THEN HbGoto(h, "first", rkLease[h], hbRetry[h])
                   ELSE HbGoto(h, "retrying", rkLease[h], hbRetry[h] + 1)
  /\ RkStep(h, "idle", NoLease)
  /\ UNCHANGED ctxLive /\ HbFrame

\* The receive after the retry loop: an answer, or the channel is closed.
HbFirstAnswer(h) ==
  /\ hbPc[h] = "first" /\ kacOpen[h]
  /\ HbGoto(h, "serving", hbLease[h], 0)
  /\ UNCHANGED <<rkVars, kacOpen, ctxLive>> /\ HbFrame

HbGiveUp(h) ==
  /\ hbPc[h] = "first" /\ ~kacOpen[h]
  /\ HbGoto(h, "done", hbLease[h], hbRetry[h])
  /\ UNCHANGED <<rkVars, kacOpen, ctxLive>> /\ HbFrame

-----------------------------------------------------------------------------
(* The client library's keep-alive loop, etcd, and the world around.        *)

KacFrame == UNCHANGED <<storeVars, apiVars, rkVars, spawned, hbPc, hbSvc,
                        hbLease, hbRetry, ctxLive, lateVars,
                        clientVars, histVars>>

\* The channel is closed when the context is cancelled, when the client is,
\* or when etcd answers that the lease has no time left.
KacClosed(h) ==
  /\ kacOpen[h]
  /\ ~ctxLive[h] \/ ~clientOpen \/ hbLease[h] \notin live
  /\ kacOpen' = [kacOpen EXCEPT ![h] = FALSE]
  /\ UNCHANGED boundVars /\ KacFrame

\* No answer within the time to live: the client gives the lease up for lost.
\* Before the first answer that ends the heartbeat, and need not be counted.
KacDeadline(h) ==
  /\ kacOpen[h]
  /\ IF hbPc[h] = "first" THEN UNCHANGED boundVars ELSE Fault
  /\ kacOpen' = [kacOpen EXCEPT ![h] = FALSE]
  /\ KacFrame

ExpireFrame(l) ==
  /\ latePuts' = {p \in latePuts : p[2] # l}
  /\ UNCHANGED <<apiVars, rkVars, hbVars, lateDels, clientVars,
                 histVars>>

Expire(l) ==
  /\ ~InUse(l) /\ ExpireLease(l)
  /\ UNCHANGED boundVars /\ ExpireFrame(l)

ExpireInUse(l) ==
  /\ InUse(l) /\ Fault /\ ExpireLease(l)
  /\ ExpireFrame(l)

LatePut(k, l) ==
  /\ <<k, l>> \in latePuts
  /\ latePuts' = latePuts \ {<<k, l>>}
  /\ PutKey(k, l)
  /\ overtaken' = overtaken \cup {k}
  /\ UNCHANGED <<apiVars, rkVars, hbVars, lateDels, boundVars, clientVars, gone>>

LateDelete(k) ==
  /\ k \in lateDels
  /\ lateDels' = lateDels \ {k}
  /\ DeleteKey(k)
  /\ overtaken' = overtaken \cup {k}
  /\ UNCHANGED <<apiVars, rkVars, hbVars, latePuts, boundVars, clientVars, gone>>

CancelOptsCtx ==
  /\ optsCtx /\ Stop
  /\ optsCtx' = FALSE
  /\ ctxLive' = [h \in Heartbeat |-> FALSE]
  /\ UNCHANGED <<storeVars, apiVars, rkVars, spawned, hbPc, hbSvc, hbLease,
                 hbRetry, kacOpen, lateVars, clientOpen, histVars>>

CloseClient ==
  /\ clientOpen /\ Stop
  /\ clientOpen' = FALSE
  /\ UNCHANGED <<storeVars, apiVars, rkVars, hbVars, lateVars,
                 optsCtx, histVars>>

\* The process dies and is started again with a new, empty Registry.
Crash ==
  /\ Stop
  /\ latePuts' = latePuts \cup UNION {AbandonedPuts(c) : c \in Caller}
  /\ lateDels' = lateDels \cup (IF callOp = "deregister" THEN {KeyOf[callSvc]} ELSE {})
  /\ ctxMap' = [s \in Service |-> NoHeartbeat]
  /\ callOp' = "none"
  /\ rkPc' = [c \in Caller |-> "idle"]
  /\ rkLease' = [c \in Caller |-> NoLease]
  /\ hbPc' = [h \in Heartbeat |-> IF h <= spawned THEN "done" ELSE "none"]
  /\ hbLease' = [h \in Heartbeat |-> NoLease]
  /\ hbRetry' = [h \in Heartbeat |-> 0]
  /\ kacOpen' = [h \in Heartbeat |-> FALSE]
  /\ ctxLive' = [h \in Heartbeat |-> FALSE]
  /\ clientOpen' = TRUE /\ optsCtx' = TRUE
  /\ UNCHANGED <<storeVars, callSvc, spawned, hbSvc, histVars>>

-----------------------------------------------------------------------------
ApiStep == RegisterOk \/ RegisterErr \/ Delete \/ DeleteAborted

RkRun(c) == Grant(c) \/ Put(c) \/ PutRefused(c) \/ RpcAborted(c)

HbRun(h) ==
  \/ HbStart(h) \/ HbLeaseLost(h) \/ HbStopped(h) \/ HbRetryCancelled(h)
  \/ HbAttempt(h) \/ HbRetriesUsedUp(h) \/ HbAttemptFailed(h)
  \/ HbAttemptOk(h) \/ HbFirstAnswer(h) \/ HbGiveUp(h)

Faults ==
  \/ \E c \in Caller : RpcLost(c) \/ PutAckLost(c)
  \/ \E h \in Heartbeat : HbAttemptTimedOut(h) \/ KacDeadline(h)
  \/ \E l \in LeaseId : ExpireInUse(l)
  \/ \E k \in Key : LateDelete(k) \/ \E l \in LeaseId : LatePut(k, l)
  \/ DeleteLost \/ DeleteAckLost \/ CancelOptsCtx \/ CloseClient \/ Crash

Next ==
  \/ \E s \in Service : Register(s) \/ Deregister(s)
  \/ ApiStep
  \/ \E c \in Caller : RkRun(c)
  \/ \E h \in Heartbeat : HbRun(h) \/ KacClosed(h)
  \/ \E l \in LeaseId : Expire(l)
  \/ Faults

Spec == Init /\ [][Next]_vars

\* Goroutines are scheduled, RPCs return, the client library notices a lost
\* lease, and a lease nobody keeps alive runs out.  The application need not
\* call anything and no fault has to happen.
Fairness ==
  /\ WF_vars(ApiStep \/ RkRun(API))
  /\ \A h \in Heartbeat : WF_vars(HbRun(h) \/ RkRun(h)) /\ WF_vars(KacClosed(h))
  /\ \A l \in LeaseId : WF_vars(Expire(l))

FairSpec == Spec /\ Fairness

-----------------------------------------------------------------------------
(* Properties.                                                              *)

\* Some call has key k registered, or is registering it.
Active(k) == \E s \in Service :
  /\ KeyOf[s] = k
  /\ ctxMap[s] # NoHeartbeat \/ (callOp = "register" /\ callSvc = s)

\* Every heartbeat whose context is not cancelled can be stopped: ctxMap holds
\* its cancel function under its instance, so Deregister reaches it.
HeartbeatStoppable ==
  \A h \in Heartbeat : Running(h) /\ ctxLive[h] => ctxMap[hbSvc[h]] = h

\* What Deregister promises.  Its Delete may be overtaken by the put of an
\* attempt that was already on its way (cancelling the heartbeat, registry.go
\* line 117, does not call it back), so a key can be listed again after
\* Deregister returned nil.  What comes back then hangs on a lease nobody
\* keeps alive or is about to: it can only expire, and no heartbeat, RPC or
\* retry still under way prolongs it.
ReturnsOnlyToExpire == \A k \in gone : Present(k) => ~InUse(kv[k])

\* A heartbeat that is content (it waits for the next answer on an open
\* channel and its lease is alive) keeps its instance listed: the key is
\* attached to the very lease it keeps alive, whatever became of the earlier
\* leases, of timed out attempts and of earlier registrations of the key.
\* The exception is a key changed by a put or a delete that arrived after its
\* caller had given up on it (the put of a timed out attempt, line 195, or
\* the delete of a Deregister that failed, line 121): the heartbeat never
\* looks at the key again and stays content.
ContentIsListed ==
  \A h \in Heartbeat :
    hbPc[h] \in {"serving", "first"} /\ kacOpen[h] /\ ctxLive[h] /\ hbLease[h] \in live
      => LET k == KeyOf[hbSvc[h]] IN kv[k] = hbLease[h] \/ k \in overtaken

\* A registered instance whose lease is lost comes back ("reconnect failed" is
\* the failure of registry_test.go:152): it is listed again and again as long
\* as it stays registered and the client is usable, with two exceptions.  Its
\* heartbeat may give up, but only when maxRetry attempts in a row have failed
\* or the channel of the newly granted lease closes before the first answer
\* (lines 210-213); and a late put or delete may have changed the key behind
\* the back of a heartbeat that is content.
Recovers ==
  \A s \in Service :
    (ctxMap[s] # NoHeartbeat)
      ~> \/ Present(KeyOf[s]) \/ ctxMap[s] = NoHeartbeat
         \/ ~clientOpen \/ ~optsCtx
         \/ GaveUp(ctxMap[s]) \/ KeyOf[s] \in overtaken

\* A put of k is on its way to etcd, with a lease that makes etcd accept it.
PutUnderway(k) ==
  \/ \E l \in live : <<k, l>> \in latePuts
  \/ \E c \in Caller : rkPc[c] = "put" /\ rkLease[c] \in live /\ CallerKey(c) = k

\* The registry keeps the promise of a service registry.
Promise == INSTANCE Presence WITH
  phase <- [k \in Key |-> IF k \in gone THEN "absent"
                          ELSE IF Active(k) THEN "in" ELSE "leaving"],
  listed <- {k \in Key : Present(k)},
  underway <- {k \in Key : PutUnderway(k)}

\* It sends a write only while the instance is registered, an instance appears
\* in the list only through such a write, and a confirmed Deregister leaves
\* nothing of it but writes that were already on their way.
RefinesPresence == Promise!Spec

\* Nothing is left behind: whatever a failed Register or Deregister, a crash or
\* an abandoned put leaves in etcd hangs on a lease, with which the instance
\* drops out of the list for good unless it is registered anew; and a heartbeat
\* ctxMap no longer names (its instance was deregistered, or the context of the
\* Registry cancelled) comes to an end, so that no goroutine leaks.
GhostsDrain ==
  /\ Promise!Drains
  /\ []<>(\A h \in Heartbeat : Running(h) => ctxMap[hbSvc[h]] = h /\ optsCtx)
=============================================================================
