-------------------------- MODULE MemoryCas_proofs --------------------------
(****************************************************************************)
(* Proofs about MemoryCas, for any set of goroutines, keys and strings.     *)
(****************************************************************************)
EXTENDS MemoryCas, TLAPS

Inside(c) == pc[c] \in {"check", "delete", "store", "unlock"}

\* Whoever is between Lock and Unlock holds the mutex.
HolderInside == \A c \in Client : Inside(c) => mu = c

\* A call that is about to update the map still sees the value it tested.
StillMatches ==
  \A c \in Client :
    /\ pc[c] \in {"delete", "store"} => Read(op[c].key) = op[c].src
    /\ pc[c] = "delete" => op[c].dst = Absent
    /\ pc[c] = "store" => op[c].dst # Absent

IInv == TypeOK /\ HolderInside /\ StillMatches

LEMMA OpExists == ArbitraryOp \in Op
<1>1. PICK k \in Key : TRUE
  BY MemoryAssumption
<1>2. [key |-> k, src |-> Absent, dst |-> Absent] \in Op
  BY MemoryAssumption DEF Op
<1> QED
  BY <1>2 DEF ArbitraryOp

\* Deleting and storing change what is read under one key only.
LEMMA ReadAfterDelete ==
  ASSUME NEW x, m' = [k \in DOMAIN m \ {x} |-> m[k]]
  PROVE  \A k : Read(k)' = IF k = x THEN Absent ELSE Read(k)
BY DEF Read

LEMMA ReadAfterStore ==
  ASSUME NEW x, NEW v, m' = [k \in DOMAIN m \cup {x} |-> IF k = x THEN v ELSE m[k]]
  PROVE  \A k : Read(k)' = IF k = x THEN v ELSE Read(k)
BY DEF Read

LEMMA InvInit == Init => IInv
BY OpExists, MemoryAssumption
   DEF Init, IInv, TypeOK, HolderInside, Inside, StillMatches

LEMMA InvNext == IInv /\ [Next]_vars => IInv'
<1> SUFFICES ASSUME IInv, [Next]_vars PROVE IInv'
  OBVIOUS
<1> USE DEF IInv, Goto, Result
<1>1. ASSUME NEW c \in Client, NEW o \in Op, Call(c, o) PROVE IInv'
  <2>1. TypeOK'
    BY <1>1 DEF TypeOK, Call
  <2>2. HolderInside'
    BY <1>1 DEF TypeOK, Call, HolderInside, Inside
  <2>3. StillMatches'
    BY <1>1 DEF TypeOK, Call, StillMatches, Read
  <2> QED
    BY <2>1, <2>2, <2>3
<1>2. ASSUME NEW c \in Client, Lock(c) PROVE IInv'
  <2>1. TypeOK'
    BY <1>2 DEF TypeOK, Lock
  <2>2. HolderInside'
    BY <1>2, MemoryAssumption DEF TypeOK, Lock, HolderInside, Inside
  <2>3. StillMatches'
    BY <1>2 DEF TypeOK, Lock, StillMatches, Read
  <2> QED
    BY <2>1, <2>2, <2>3
<1>3. ASSUME NEW c \in Client, Mismatch(c) \/ Match(c) \/ Return(c) PROVE IInv'
  <2>1. TypeOK'
    BY <1>3 DEF TypeOK, Mismatch, Match, Return
  <2>2. HolderInside'
    BY <1>3 DEF TypeOK, Mismatch, Match, Return, HolderInside, Inside
  <2>3. StillMatches'
    BY <1>3 DEF TypeOK, Mismatch, Match, Return, StillMatches, Read
  <2> QED
    BY <2>1, <2>2, <2>3
<1>4. ASSUME NEW c \in Client, Delete(c) \/ Store(c) PROVE IInv'
  <2>1. op[c] \in Op /\ pc[c] \in {"delete", "store"} /\ mu = c
    BY <1>4 DEF TypeOK, Delete, Store, HolderInside, Inside
  <2>2. pc[c] = "store" => op[c].dst \in Value \ {Absent}
    BY <2>1 DEF StillMatches, Op
  <2>3. DOMAIN m' \subseteq Key /\ \A k \in DOMAIN m' : m'[k] \in Value \ {Absent}
    BY <1>4, <2>1, <2>2 DEF TypeOK, Op, Delete, Store
  <2>4. TypeOK'
    BY <1>4, <2>3 DEF TypeOK, Delete, Store
  <2>5. HolderInside'
    BY <1>4 DEF TypeOK, Delete, Store, HolderInside, Inside
  <2>6. \A d \in Client : pc'[d] \notin {"delete", "store"}
    BY <1>4, <2>1 DEF TypeOK, Delete, Store, HolderInside, Inside
  <2> QED
    BY <2>4, <2>5, <2>6 DEF StillMatches
<1>5. ASSUME NEW c \in Client, Unlock(c) PROVE IInv'
  <2>1. TypeOK'
    BY <1>5 DEF TypeOK, Unlock
  <2>2. HolderInside'
    BY <1>5 DEF TypeOK, Unlock, HolderInside, Inside
  <2>3. StillMatches'
    BY <1>5 DEF TypeOK, Unlock, StillMatches, Read
  <2> QED
    BY <2>1, <2>2, <2>3
<1>6. CASE UNCHANGED vars
  BY <1>6 DEF vars, TypeOK, HolderInside, Inside, StillMatches, Read
<1> QED
  BY <1>1, <1>2, <1>3, <1>4, <1>5, <1>6 DEF Next, Run

\* Type correctness: in particular the map never holds the empty string, so a
\* key that is in the map never passes for one that is missing.
THEOREM TypeCorrect == Spec => []TypeOK
<1>1. IInv => TypeOK
  BY DEF IInv
<1> QED
  BY InvInit, InvNext, <1>1, PTL DEF Spec

-----------------------------------------------------------------------------
(* The mutex makes the steps of a call one atomic step of the register.     *)

Val == [k \in Key |-> Read(k)]
St == [c \in Client |-> CallState(c)]

\* A step of c moves the call of c only.
LEMMA StStep ==
  ASSUME TypeOK, NEW c \in Client, NEW b,
         \A d \in Client \ {c} : pc'[d] = pc[d] /\ ret'[d] = ret[d],
         CallState(c)' = b
  PROVE  St' = [St EXCEPT ![c] = b]
BY DEF St, CallState

LEMMA RefineStep ==
  ASSUME IInv, [Next]_vars
  PROVE  [Register!Next]_(Register!vars)
<1> USE DEF IInv, Goto, Result
<1>0. Register!vars = <<Val, St, op>> /\ Register!Op = Op
  BY DEF Register!vars, Val, St, Register!Op, Op
<1>1. ASSUME NEW c \in Client, NEW o \in Op, Call(c, o)
      PROVE  Register!Next
  <2>1. St[c] = "idle" /\ St' = [St EXCEPT ![c] = "called"]
    BY <1>1, StStep DEF TypeOK, Call, St, CallState
  <2>2. Val' = Val
    BY <1>1 DEF Call, Val, Read
  <2>3. Register!Invoke(c, o)
    BY <1>1, <2>1, <2>2 DEF Call, Register!Invoke, Val, St
  <2> QED
    BY <1>0, <2>3 DEF Register!Next
<1>2. ASSUME NEW c \in Client, Lock(c) \/ Match(c) \/ Unlock(c)
      PROVE  UNCHANGED Register!vars
  <2>1. \A d \in Client : CallState(d)' = CallState(d)
    BY <1>2 DEF TypeOK, Lock, Match, Unlock, CallState
  <2>2. m' = m /\ op' = op
    BY <1>2 DEF Lock, Match, Unlock
  <2> QED
    BY <2>1, <2>2 DEF Register!vars, Read
<1>3. ASSUME NEW c \in Client, Mismatch(c)
      PROVE  Register!Next
  <2>1. St[c] = "called" /\ St' = [St EXCEPT ![c] = "false"]
    BY <1>3, StStep DEF TypeOK, Mismatch, St, CallState
  <2>2. Val' = Val /\ op' = op
    BY <1>3 DEF Mismatch, Val, Read
  <2>3. Val[op[c].key] # op[c].src
    BY <1>3 DEF Mismatch, TypeOK, Op, Val
  <2>4. Register!Refuse(c)
    BY <2>1, <2>2, <2>3
       DEF Register!Refuse, Register!Matches, Register!Answer, Val, St
  <2> QED
    BY <2>4 DEF Register!Next
<1>4. ASSUME NEW c \in Client, Delete(c) \/ Store(c)
      PROVE  Register!Next
  <2>1. St[c] = "called" /\ St' = [St EXCEPT ![c] = "true"]
    BY <1>4, StStep DEF TypeOK, Delete, Store, St, CallState
  <2>2. op[c].key \in Key /\ op' = op
    BY <1>4 DEF TypeOK, Op, Delete, Store
  <2>3. Val[op[c].key] = op[c].src
    BY <1>4, <2>2 DEF Delete, Store, StillMatches, Val
  <2>4. \A k : Read(k)' = IF k = op[c].key THEN op[c].dst ELSE Read(k)
    <3>1. CASE Delete(c)
      <4>1. op[c].dst = Absent
        BY <3>1 DEF Delete, StillMatches
      <4> QED
        BY <3>1, <4>1, ReadAfterDelete DEF Delete
    <3>2. CASE Store(c)
      BY <3>2, ReadAfterStore DEF Store
    <3> QED
      BY <1>4, <3>1, <3>2
  <2>5. Val' = [Val EXCEPT ![op[c].key] = op[c].dst]
    BY <2>4 DEF Val
  <2>6. Register!Succeed(c)
    BY <2>1, <2>2, <2>3, <2>5
       DEF Register!Succeed, Register!Matches, Register!Apply, Register!Answer, Val, St
  <2> QED
    BY <2>6 DEF Register!Next
<1>5. ASSUME NEW c \in Client, Return(c)
      PROVE  Register!Next
  <2>1. St[c] \in {"true", "false"} /\ St' = [St EXCEPT ![c] = "idle"]
    BY <1>5, StStep DEF TypeOK, Return, St, CallState
  <2>2. Val' = Val /\ op' = op
    BY <1>5 DEF Return, Val, Read
  <2>3. Register!Return(c)
    BY <2>1, <2>2 DEF Register!Return, Val, St
  <2> QED
    BY <2>3 DEF Register!Next
<1>6. CASE UNCHANGED vars
  BY <1>6 DEF vars, Register!vars, CallState, Read
<1> QED
  BY <1>1, <1>2, <1>3, <1>4, <1>5, <1>6 DEF Next, Run

\* MemoryImpl.CAS is linearizable: whatever the goroutines interleave, each
\* call acts on the map at one moment, as an atomic compare-and-set would.
THEOREM MemoryRefinesRegister == Spec => RefinesRegister
<1>1. Init => Register!Init
  BY OpExists DEF Init, Register!Init, CallState, Read, Register!Op, Op
<1>2. IInv /\ [Next]_vars => [Register!Next]_(Register!vars)
  BY RefineStep
<1> QED
  BY InvInit, InvNext, <1>1, <1>2, PTL DEF Spec, RefinesRegister, Register!Spec
=============================================================================
