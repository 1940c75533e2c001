----------------------------- MODULE EtcdWatcher -----------------------------
(****************************************************************************)
(* Discovery: the watcher of adapter/kratos/discovery/etcd/watcher.go and   *)
(* the lookup GetService of registry.go.                                    *)
(*                                                                          *)
(* A watcher never uses the events it receives: each one only tells it to   *)
(* read the whole list anew.  One goroutine calls Next over and over, while *)
(* the keys change, the watch breaks, and another goroutine calls Stop.     *)
(* What must not happen is that Next blocks although the list it returned   *)
(* last is out of date.                                                     *)
(*                                                                          *)
(* etcd and its client are external: a watch reports every change made      *)
(* after it was established, in batches; it survives lost connections and   *)
(* breaks for good only now and then (its revision was compacted, the       *)
(* stream met a fatal error); RequestProgress makes it report once more.    *)
(****************************************************************************)
EXTENDS Naturals

CONSTANTS
  Key,        \* the keys that start with the name of the service
  Own,        \* those of them that are keys "name/id" of this very service
  MaxRev,     \* bound on the changes made to the keys
  MaxBreak,   \* bound on the watches that break
  MaxErr      \* bound on the RPCs that fail

ASSUME WatcherAssumption ==
  /\ Own \subseteq Key
  /\ MaxRev \in Nat /\ MaxBreak \in Nat /\ MaxErr \in Nat

VARIABLES
  value,      \* what each key holds
  rev,        \* the number of changes so far
  pc,         \* where the watcher's goroutine stands
  first,      \* w.first: Next has not returned yet
  ctx,        \* w.ctx has not been cancelled
  chan,       \* w.watchChan: not made, open, or closed for good
  handed,     \* the changes the watch has reported are 1..handed
  progress,   \* an answer to RequestProgress is on its way
  snap,       \* the answer to the Get under way
  items,      \* the list Next returned last
  lastErr,    \* the last Next returned an error
  born,       \* ctx was live when the current Next was called
  breaks, errs   \* how much of each bound is used up

storeVars == <<value, rev>>
watchVars == <<chan, handed, progress>>
nextVars  == <<first, snap, items, lastErr, born>>
boundVars == <<breaks, errs>>
vars == <<storeVars, watchVars, nextVars, boundVars, pc, ctx>>

\* marshal writes the first endpoint as it is; unmarshal reads JSON.  Other
\* programs that share the cluster write JSON.
Absent == "absent"
Marshalled == "endpoint"
Json == "json"
Unmarshals(v) == v = Json

TypeOK ==
  /\ value \in [Key -> {Absent, Marshalled, Json}]
  /\ rev \in 0..MaxRev
  /\ pc \in {"none", "ask", "idle", "select", "sleep", "reask", "get",
             "getting", "answer", "failed"}
  /\ first \in BOOLEAN /\ ctx \in BOOLEAN
  /\ chan \in {"none", "open", "broken"}
  /\ handed \in 0..rev
  /\ progress \in BOOLEAN
  /\ snap \subseteq Key /\ items \subseteq Key
  /\ lastErr \in BOOLEAN /\ born \in BOOLEAN
  /\ breaks \in 0..MaxBreak /\ errs \in 0..MaxErr

Init ==
  /\ value = [k \in Key |-> Absent]
  /\ rev = 0
  /\ pc = "none"
  /\ first = TRUE /\ ctx = TRUE
  /\ chan = "none" /\ handed = 0 /\ progress = FALSE
  /\ snap = {} /\ items = {} /\ lastErr = FALSE /\ born = TRUE
  /\ breaks = 0 /\ errs = 0

-----------------------------------------------------------------------------
(* What a lookup returns: an entry that does not decode is left out.        *)

\* Mutant: without the continue, a nil is listed for such an entry.
getInstanceKeepsNil == {IF Unmarshals(value[k]) THEN k ELSE Absent : k \in Key}

getInstance == {k \in Key : Unmarshals(value[k])}
GetService  == {k \in Key : Unmarshals(value[k])}

-----------------------------------------------------------------------------
(* Making a watcher, and making its watch again.                            *)

\* The call returns once etcd has established the watch; with a cancelled
\* context it returns a closed channel.
Establish ==
  /\ chan' = IF ctx THEN "open" ELSE "broken"
  /\ handed' = rev
  /\ progress' = FALSE

newWatcher ==
  /\ pc = "none"
  /\ Establish
  /\ pc' = "ask"
  /\ UNCHANGED <<storeVars, nextVars, boundVars, ctx>>

\* RequestProgress makes the watch report once more.  On a cancelled context
\* it may still get its request through.
AskedIn(from, to) ==
  /\ pc = from
  /\ progress' = (chan = "open")
  /\ pc' = to
  /\ UNCHANGED <<storeVars, chan, handed, nextVars, boundVars, ctx>>

\* An RPC fails, or its context is cancelled.
RpcFails ==
  \/ ~ctx /\ UNCHANGED errs
  \/ errs < MaxErr /\ errs' = errs + 1

WatchAsked == AskedIn("ask", "idle")

WatchFailed ==
  /\ pc = "ask" /\ RpcFails
  /\ pc' = "failed"
  /\ UNCHANGED <<storeVars, watchVars, nextVars, breaks, ctx>>

\* reWatch: close the old watcher, then watch with a new one.
reWatch ==
  /\ pc = "sleep"
  /\ Establish
  /\ pc' = "reask"
  /\ UNCHANGED <<storeVars, nextVars, boundVars, ctx>>

ReWatchAsked == AskedIn("reask", "get")

-----------------------------------------------------------------------------
(* Next.                                                                    *)

CallNext ==
  /\ pc = "idle"
  /\ born' = ctx
  /\ pc' = IF first THEN "get" ELSE "select"
  /\ UNCHANGED <<storeVars, watchVars, first, snap, items, lastErr, boundVars, ctx>>

ReturnsError ==
  /\ pc' = "idle" /\ lastErr' = TRUE
  /\ UNCHANGED <<storeVars, watchVars, snap, items, born, breaks, ctx>>

SelectDone ==
  /\ pc = "select" /\ ~ctx
  /\ ReturnsError
  /\ UNCHANGED <<first, errs>>

\* One response may carry several changes.
SelectReport ==
  /\ pc = "select" /\ chan = "open"
  /\ \/ handed' \in (handed + 1)..rev /\ UNCHANGED progress
     \/ progress /\ progress' = FALSE /\ UNCHANGED handed
  /\ pc' = "get"
  /\ UNCHANGED <<storeVars, chan, nextVars, boundVars, ctx>>

SelectBroken ==
  /\ pc = "select" /\ chan = "broken"
  /\ pc' = "sleep"
  /\ UNCHANGED <<storeVars, watchVars, nextVars, boundVars, ctx>>

\* Mutant: try again until the watch is established.
ReWatchRetries ==
  /\ pc = "reask" /\ RpcFails
  /\ pc' = "sleep"
  /\ UNCHANGED <<storeVars, watchVars, nextVars, breaks, ctx>>

ReWatchFailed ==
  /\ pc = "reask" /\ RpcFails
  /\ ReturnsError
  /\ UNCHANGED first

\* Mutant: the Get has a context of its own.
GetSendDetached ==
  /\ pc = "get"
  /\ pc' = "getting"
  /\ UNCHANGED <<storeVars, watchVars, nextVars, boundVars, ctx>>

\* kv.Get sends nothing once the context is cancelled.
GetSend ==
  /\ pc = "get" /\ ctx
  /\ pc' = "getting"
  /\ UNCHANGED <<storeVars, watchVars, nextVars, boundVars, ctx>>

GetRead ==
  /\ pc = "getting"
  /\ snap' = getInstance
  /\ pc' = "answer"
  /\ UNCHANGED <<storeVars, watchVars, first, items, lastErr, born, boundVars, ctx>>

GetFails ==
  /\ pc \in {"get", "getting", "answer"} /\ RpcFails
  /\ ReturnsError
  /\ first' = FALSE

\* Mutant: having read the list, drop the reports that queued up meanwhile.
GetReturnsDrained ==
  /\ pc = "answer"
  /\ items' = snap /\ lastErr' = FALSE /\ first' = FALSE
  /\ handed' = rev
  /\ pc' = "idle"
  /\ UNCHANGED <<storeVars, chan, progress, snap, born, boundVars, ctx>>

GetReturns ==
  /\ pc = "answer"
  /\ items' = snap /\ lastErr' = FALSE /\ first' = FALSE
  /\ pc' = "idle"
  /\ UNCHANGED <<storeVars, watchVars, snap, born, boundVars, ctx>>

-----------------------------------------------------------------------------
(* Stop, called by another goroutine once there is a watcher, or the end of *)
(* the context given to Watch.  Closing the watcher as well adds nothing:   *)
(* the end of the context closes the channel.                               *)

Stop ==
  /\ ctx
  /\ ctx' = FALSE
  /\ UNCHANGED <<storeVars, watchVars, nextVars, boundVars, pc>>

-----------------------------------------------------------------------------
(* etcd and its client.                                                     *)

Change(k, v) ==
  /\ rev < MaxRev
  /\ rev' = rev + 1
  /\ value' = [value EXCEPT ![k] = v]
  /\ UNCHANGED <<watchVars, nextVars, boundVars, pc, ctx>>

Breaks ==
  /\ chan = "open"
  /\ \/ ~ctx /\ UNCHANGED breaks
     \/ breaks < MaxBreak /\ breaks' = breaks + 1
  /\ chan' = "broken" /\ progress' = FALSE
  /\ UNCHANGED <<storeVars, handed, nextVars, errs, pc, ctx>>

-----------------------------------------------------------------------------
Run == \/ WatchAsked \/ WatchFailed \/ reWatch \/ ReWatchAsked \/ ReWatchFailed
       \/ SelectDone \/ SelectReport \/ SelectBroken
       \/ GetSend \/ GetRead \/ GetFails \/ GetReturns

Next ==
  \/ newWatcher \/ CallNext \/ Run
  \/ Stop
  \/ \E k \in Key, v \in {Absent, Marshalled, Json} : Change(k, v)
  \/ Breaks

Spec == Init /\ [][Next]_vars

\* The goroutine is scheduled and its RPCs return; the application calls Next
\* again whenever it returns (the loop of registry_test.go:43-52, and kratos's
\* resolver, which goes on after an error).
Fairness == WF_vars(Run) /\ WF_vars(newWatcher) /\ WF_vars(CallNext)

FairSpec == Spec /\ Fairness

-----------------------------------------------------------------------------
(* Properties.                                                              *)

\* Next is blocked: its watch has nothing to report.
Blocked == /\ pc = "select" /\ ctx
           /\ chan = "open" /\ handed = rev /\ ~progress

\* When Next blocks, the list it returned last is the current one, unless
\* its last call failed (watcher.go:56-64: the report that woke that call up
\* is consumed, and nothing wakes up the next one).
StaleOnlyAfterError == Blocked /\ ~lastErr => items = getInstance

\* A Next called after Stop never returns a list.
StoppedReturnsNoList ==
  [][pc = "answer" /\ pc' = "idle" /\ ~lastErr' => born]_vars

\* Once the keys no longer change, the application ends up with the current
\* list, unless the last call failed or there is no watcher any more.
Converges == <>[](items = getInstance \/ lastErr \/ ~ctx \/ pc = "failed")

\* Stop gets a Next that is blocked, or about to watch anew, to return, and
\* with an error, so that the loop around it can end (registry_test.go:45-47).
StopUnblocks == ~ctx ~> (pc = "idle" /\ lastErr) \/ pc = "failed"

\* GetService finds every instance of the service that Register stored
\* (registry_test.go:63 expects the one just registered).
FindsRegistered == \A k \in Own : value[k] = Marshalled => k \in GetService
=============================================================================
