------------------------------ MODULE MemoryCas ------------------------------
(****************************************************************************)
(* MemoryImpl.CAS of tools/cascmd/memory.go, called by any number of        *)
(* goroutines: a map guarded by a mutex.  A key that is not in the map      *)
(* reads as the empty string, and storing the empty string deletes the key. *)
(****************************************************************************)
EXTENDS Naturals

CONSTANTS Client,    \* the goroutines that call CAS
          Key,
          Value,     \* the strings, the empty one included
          Absent,    \* the empty string
          Nobody     \* stands for an unlocked mutex

ASSUME MemoryAssumption == Absent \in Value /\ Key # {} /\ Nobody \notin Client

VARIABLES m,     \* the map: a function whose domain is the keys in it
          mu,    \* the goroutine that holds the mutex, if any
          pc,    \* where each call stands
          op,    \* its arguments
          ret    \* its result, once there is one

vars == <<m, mu, pc, op, ret>>

Op == [key : Key, src : Value, dst : Value]

ArbitraryOp == CHOOSE o \in Op : TRUE

TypeOK ==
  /\ DOMAIN m \subseteq Key
  /\ \A k \in DOMAIN m : m[k] \in Value \ {Absent}
  /\ mu \in Client \cup {Nobody}
  /\ pc \in [Client -> {"idle", "lock", "check", "delete", "store", "unlock", "return"}]
  /\ op \in [Client -> Op]
  /\ ret \in [Client -> BOOLEAN]

Init ==
  /\ m = [k \in {} |-> Absent]
  /\ mu = Nobody
  /\ pc = [c \in Client |-> "idle"]
  /\ op = [c \in Client |-> ArbitraryOp]
  /\ ret = [c \in Client |-> FALSE]

\* x.m[key] of a key that is missing is the zero value.
Read(k) == IF k \in DOMAIN m THEN m[k] ELSE Absent

Goto(c, label) == pc' = [pc EXCEPT ![c] = label]
Result(c, b) == ret' = [ret EXCEPT ![c] = b]

Call(c, o) ==
  /\ pc[c] = "idle"
  /\ op' = [op EXCEPT ![c] = o]
  /\ Goto(c, "lock")
  /\ UNCHANGED <<m, mu, ret>>

\* Mutant: the mutex is not waited for.
LockIgnored(c) ==
  /\ pc[c] = "lock"
  /\ mu' = c
  /\ Goto(c, "check")
  /\ UNCHANGED <<m, op, ret>>

Lock(c) ==
  /\ pc[c] = "lock" /\ mu = Nobody
  /\ mu' = c
  /\ Goto(c, "check")
  /\ UNCHANGED <<m, op, ret>>

\* Mutant: the call tries again until it succeeds.
MismatchRetries(c) ==
  /\ pc[c] = "check" /\ Read(op[c].key) # op[c].src
  /\ mu' = Nobody
  /\ Goto(c, "lock")
  /\ UNCHANGED <<m, op, ret>>

Mismatch(c) ==
  /\ pc[c] = "check" /\ Read(op[c].key) # op[c].src
  /\ Result(c, FALSE)
  /\ Goto(c, "unlock")
  /\ UNCHANGED <<m, mu, op>>

\* Mutant: the empty string is stored like any other.
MatchStoresEmpty(c) ==
  /\ pc[c] = "check" /\ Read(op[c].key) = op[c].src
  /\ Goto(c, "store")
  /\ UNCHANGED <<m, mu, op, ret>>

Match(c) ==
  /\ pc[c] = "check" /\ Read(op[c].key) = op[c].src
  /\ Goto(c, IF op[c].dst = Absent THEN "delete" ELSE "store")
  /\ UNCHANGED <<m, mu, op, ret>>

Delete(c) ==
  /\ pc[c] = "delete"
  /\ m' = [k \in DOMAIN m \ {op[c].key} |-> m[k]]
  /\ Result(c, TRUE)
  /\ Goto(c, "unlock")
  /\ UNCHANGED <<mu, op>>

Store(c) ==
  /\ pc[c] = "store"
  /\ m' = [k \in DOMAIN m \cup {op[c].key} |->
             IF k = op[c].key THEN op[c].dst ELSE m[k]]
  /\ Result(c, TRUE)
  /\ Goto(c, "unlock")
  /\ UNCHANGED <<mu, op>>

\* The deferred Unlock.
Unlock(c) ==
  /\ pc[c] = "unlock"
  /\ mu' = Nobody
  /\ Goto(c, "return")
  /\ UNCHANGED <<m, op, ret>>

Return(c) ==
  /\ pc[c] = "return"
  /\ Goto(c, "idle")
  /\ UNCHANGED <<m, mu, op, ret>>

Run(c) == Mismatch(c) \/ Match(c) \/ Delete(c) \/ Store(c) \/ Unlock(c) \/ Return(c)

Next == \E c \in Client : Lock(c) \/ Run(c) \/ \E o \in Op : Call(c, o)

\* A goroutine inside CAS is scheduled, and sync.Mutex starves no waiter.  A
\* caller need not call.
Fairness == \A c \in Client : WF_vars(Run(c)) /\ SF_vars(Lock(c))

Spec == Init /\ [][Next]_vars
FairSpec == Spec /\ Fairness

-----------------------------------------------------------------------------
(* Properties.                                                              *)

\* How far the register sees the call of c: it takes effect on leaving "check"
\* for good, or in "delete" or "store".
CallState(c) ==
  IF pc[c] = "idle" THEN "idle"
  ELSE IF pc[c] \notin {"unlock", "return"} THEN "called"
  ELSE IF ret[c] THEN "true" ELSE "false"

Register == INSTANCE CasRegister WITH
  MayFail <- FALSE,
  val <- [k \in Key |-> Read(k)],
  st <- [c \in Client |-> CallState(c)]

\* MemoryImpl is a compare-and-set register: the test of the old value, which
\* reads the map, and the update, which writes it, are one atomic step to
\* every other caller, deletion and missing keys included.
RefinesRegister == Register!Spec

\* Every call returns: no path through CAS keeps the mutex.
EveryCallReturns == \A c \in Client : pc[c] = "lock" ~> pc[c] = "idle"
=============================================================================
