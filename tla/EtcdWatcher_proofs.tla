-------------------------- MODULE EtcdWatcher_proofs --------------------------
(****************************************************************************)
(* What holds of a watcher for every set of keys, every number of changes,  *)
(* broken watches and failed RPCs.                                          *)
(****************************************************************************)
EXTENDS EtcdWatcher, TLAPS

-----------------------------------------------------------------------------
(* The inductive invariant.                                                 *)

\* A Next that waits for a report is not the first one.
WaitsAfterFirst ==
  /\ pc \in {"none", "ask"} => first
  /\ pc \in {"select", "sleep", "reask"} => ~first

\* As long as the watch has reported all there is, nothing changed since the
\* list was read: neither while its answer was on its way, nor after it was
\* returned.
ReadSinceReport ==
  chan = "open" /\ handed = rev =>
    /\ pc = "answer" => snap = getInstance
    /\ pc \in {"idle", "select"} /\ ~first /\ ~lastErr => items = getInstance

\* A Get is only under way in a Next that was called before Stop.
GetBeforeStop ==
  /\ ctx => born
  /\ pc \in {"getting", "answer"} => born

IInv == TypeOK /\ WaitsAfterFirst /\ ReadSinceReport /\ GetBeforeStop

-----------------------------------------------------------------------------
\* What a lookup returns is a set of keys.
LEMMA GetInstanceType == getInstance \subseteq Key
  BY DEF getInstance

\* A watcher starts in IInv.
LEMMA InitIInv == Init => IInv
<1> SUFFICES ASSUME Init PROVE IInv
  OBVIOUS
<1>1. rev \in 0..MaxRev /\ handed \in 0..rev /\ breaks \in 0..MaxBreak /\ errs \in 0..MaxErr
  BY WatcherAssumption, SMT DEF Init
<1>2. QED
  BY <1>1, Zenon DEF Init, IInv, TypeOK, WaitsAfterFirst, ReadSinceReport, GetBeforeStop

\* No step of the watcher, of etcd or of the application leaves IInv.
LEMMA NextIInv == IInv /\ [Next]_vars => IInv'
<1> SUFFICES ASSUME IInv, [Next]_vars PROVE IInv'
  OBVIOUS
<1> USE WatcherAssumption DEF IInv, TypeOK, WaitsAfterFirst, ReadSinceReport,
        GetBeforeStop, storeVars, watchVars, nextVars, boundVars
<1> DEFINE Counters == /\ rev' \in 0..MaxRev /\ handed' \in 0..rev'
                       /\ breaks' \in 0..MaxBreak /\ errs' \in 0..MaxErr
<1>1. CASE newWatcher
  <2>1. Counters
    BY <1>1, SMT DEF newWatcher, Establish
  <2>2. QED
    BY <1>1, <2>1, Zenon DEF newWatcher, Establish, getInstance
<1>2. CASE CallNext
  BY <1>2 DEF CallNext, getInstance
<1>3. CASE WatchAsked
  BY <1>3 DEF WatchAsked, AskedIn, getInstance
<1>4. CASE WatchFailed
  BY <1>4 DEF WatchFailed, RpcFails, getInstance
<1>5. CASE reWatch
  <2>1. Counters
    BY <1>5, SMT DEF reWatch, Establish
  <2>2. QED
    BY <1>5, <2>1, Zenon DEF reWatch, Establish, getInstance
<1>6. CASE ReWatchAsked
  BY <1>6 DEF ReWatchAsked, AskedIn, getInstance
<1>7. CASE ReWatchFailed
  BY <1>7 DEF ReWatchFailed, RpcFails, ReturnsError, getInstance
<1>8. CASE SelectDone
  BY <1>8 DEF SelectDone, ReturnsError, getInstance
<1>9. CASE SelectReport
  <2>1. Counters
    BY <1>9, SMT DEF SelectReport
  <2>2. QED
    BY <1>9, <2>1, Zenon DEF SelectReport, getInstance
<1>10. CASE SelectBroken
  BY <1>10 DEF SelectBroken, getInstance
<1>11. CASE GetSend
  BY <1>11 DEF GetSend, getInstance
<1>12. CASE GetRead
  BY <1>12, GetInstanceType DEF GetRead, getInstance
<1>13. CASE GetFails
  <2>1. Counters
    BY <1>13, SMT DEF GetFails, RpcFails, ReturnsError
  <2>2. QED
    BY <1>13, <2>1, Zenon DEF GetFails, RpcFails, ReturnsError, getInstance
<1>14. CASE GetReturns
  BY <1>14 DEF GetReturns, getInstance
<1>15. CASE Stop
  BY <1>15 DEF Stop, getInstance
<1>16. CASE \E k \in Key, v \in {Absent, Marshalled, Json} : Change(k, v)
  BY <1>16 DEF Change
<1>17. CASE Breaks
  <2>1. Counters
    BY <1>17, SMT DEF Breaks
  <2>2. QED
    BY <1>17, <2>1, Zenon DEF Breaks, getInstance
<1>18. CASE UNCHANGED vars
  BY <1>18 DEF vars, getInstance
<1>19. QED
  BY <1>1, <1>2, <1>3, <1>4, <1>5, <1>6, <1>7, <1>8, <1>9, <1>10, <1>11,
     <1>12, <1>13, <1>14, <1>15, <1>16, <1>17, <1>18 DEF Next, Run

\* Every reachable state satisfies IInv.
THEOREM Invariance == Spec => []IInv
  BY InitIInv, NextIInv, PTL DEF Spec

-----------------------------------------------------------------------------
\* The variables of a watcher keep their types.
THEOREM TypeCorrect == Spec => []TypeOK
<1>1. IInv => TypeOK
  BY DEF IInv
<1>2. QED
  BY Invariance, <1>1, PTL

\* A blocked Next has returned the current list, or failed, before: no change
\* falls between the watch and the list (watcher.go:46-66, 91-96).
THEOREM NoMissedChange == Spec => []StaleOnlyAfterError
<1>1. IInv => StaleOnlyAfterError
  BY DEF IInv, ReadSinceReport, WaitsAfterFirst, StaleOnlyAfterError, Blocked
<1>2. QED
  BY Invariance, <1>1, PTL

\* A Next that is called after Stop fails (watcher.go:46-66).
THEOREM StopIsFinal == Spec => StoppedReturnsNoList
<1>1. IInv /\ [Next]_vars => [pc = "answer" /\ pc' = "idle" /\ ~lastErr' => born]_vars
  BY DEF IInv, GetBeforeStop
<1>2. QED
  BY Invariance, <1>1, PTL DEF Spec, StoppedReturnsNoList
=============================================================================
