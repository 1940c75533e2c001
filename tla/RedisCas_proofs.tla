--------------------------- MODULE RedisCas_proofs ---------------------------
(****************************************************************************)
(* Proofs about RedisCas, for any clients, keys, pool and number of faults: *)
(* for the clients that have their keys to themselves the commands make up  *)
(* an atomic compare-and-set, in which the pool plays no part; and the      *)
(* variables keep their types.                                              *)
(****************************************************************************)
EXTENDS RedisCas, FiniteSetTheorems, TLAPS

Label == {"idle", "watch", "get", "set", "conn", "del", "close", "return"}

\* The types of what the register is made of; a call keeps to its client's keys.
Types ==
  /\ val \in [Key -> Value]
  /\ pc \in [Client -> Label]
  /\ op \in [Client -> Op]
  /\ ret \in [Client -> BOOLEAN]
  /\ \A c \in Client : op[c].key \in KeysOf[c]

\* A careful client that is about to update a key still sees what it read, and
\* a DEL is sent for no other reason than an empty dst.
StillMatches ==
  /\ \A c \in Careful : pc[c] \in {"set", "conn", "del"} => Matches(c)
  /\ \A c \in Client : pc[c] \in {"conn", "del"} => op[c].dst = Absent

IInv == Types /\ StillMatches

LEMMA ArbitraryOpTyped ==
  ASSUME NEW c \in Client
  PROVE  ArbitraryOp(c) \in Op /\ ArbitraryOp(c).key \in KeysOf[c]
<1>1. PICK k \in KeysOf[c] : k \in Key
  BY RedisAssumption
<1>2. [key |-> k, src |-> Absent, dst |-> Absent] \in Op
  BY <1>1, RedisAssumption DEF Op
<1>3. [key |-> k, src |-> Absent, dst |-> Absent].key \in KeysOf[c]
  BY <1>1
<1> QED
  BY <1>2, <1>3 DEF ArbitraryOp

LEMMA InvInit == Init => IInv
<1> SUFFICES ASSUME Init PROVE IInv
  OBVIOUS
<1>1. Types
  BY ArbitraryOpTyped, RedisAssumption DEF Init, Types, Label
<1>2. StillMatches
  BY DEF Init, StillMatches, Careful
<1> QED
  BY <1>1, <1>2 DEF IInv

\* What anybody else does to the server, a careful client's key keeps its value.
LEMMA OthersKeys ==
  ASSUME Types, NEW c \in Careful, NEW d \in Client, d # c
  PROVE  op[c].key # op[d].key
<1>1. op[c].key \in KeysOf[c] /\ op[d].key \in KeysOf[d]
  BY DEF Types, Careful
<1>2. KeysOf[c] \cap KeysOf[d] = {}
  BY DEF Careful
<1> QED
  BY <1>1, <1>2

LEMMA OpFields ==
  ASSUME Types, NEW c \in Client
  PROVE  op[c].key \in Key /\ op[c].src \in Value /\ op[c].dst \in Value
BY DEF Types, Op

\* A step of client d that changes the server, if at all, under its own key.
LEMMA StepOfOne ==
  ASSUME IInv, NEW d \in Client, NEW label \in Label, NEW b \in BOOLEAN,
         pc' = [pc EXCEPT ![d] = label], ret' = [ret EXCEPT ![d] = b] \/ ret' = ret, op' = op,
         \/ val' = val
         \/ \E v \in Value : val' = [val EXCEPT ![op[d].key] = v] /\ label = "close",
         label \in {"set", "conn", "del"} =>
           Matches(d) \/ pc[d] \in {"set", "conn", "del"},
         label \in {"conn", "del"} => op[d].dst = Absent
  PROVE  IInv'
<1>1. Types'
  BY DEF IInv, Types
<1>2. ASSUME NEW c \in Careful, pc'[c] \in {"set", "conn", "del"}
      PROVE  Matches(c)'
  <2>1. c \in Client
    BY DEF Careful
  <2>2. CASE c = d
    <3>1. pc'[d] = label
      BY <2>1 DEF IInv, Types
    <3>2. val' = val /\ Matches(d)
      BY <1>2, <2>2, <3>1 DEF IInv, StillMatches
    <3> QED
      BY <2>2, <3>2 DEF Matches
  <2>3. CASE c # d
    <3>1. pc'[c] = pc[c] /\ Matches(c)
      BY <1>2, <2>1, <2>3 DEF IInv, Types, StillMatches
    <3>2. op[c].key # op[d].key
      BY <2>3, OthersKeys DEF IInv
    <3>3. val'[op[c].key] = val[op[c].key]
      BY <2>1, <3>2, OpFields DEF IInv, Types
    <3> QED
      BY <3>1, <3>3 DEF Matches
  <2> QED
    BY <2>2, <2>3
<1>3. \A c \in Client : pc'[c] \in {"conn", "del"} => op'[c].dst = Absent
  BY DEF IInv, Types, StillMatches
<1> QED
  BY <1>1, <1>2, <1>3 DEF IInv, StillMatches

LEMMA InvNext == IInv /\ [Next]_vars => IInv'
<1> SUFFICES ASSUME IInv, [Next]_vars PROVE IInv'
  OBVIOUS
<1> USE DEF Goto, Result
<1>1. ASSUME NEW c \in Client, NEW o \in Op, Call(c, o) PROVE IInv'
  <2>1. Types'
    BY <1>1 DEF IInv, Types, Call, Label
  <2>2. pc'[c] = "watch" /\ val' = val
        /\ \A d \in Client \ {c} : pc'[d] = pc[d] /\ op'[d] = op[d]
    BY <1>1 DEF IInv, Types, Call
  <2>3. StillMatches'
    BY <2>2 DEF IInv, StillMatches, Matches, Careful
  <2> QED
    BY <2>1, <2>3 DEF IInv
<1>2. ASSUME NEW c \in Client, Watch(c) PROVE IInv'
  BY <1>2, StepOfOne DEF Watch, Label
<1>3. ASSUME NEW c \in Client, GetMismatch(c) PROVE IInv'
  BY <1>3, StepOfOne DEF GetMismatch, Label
<1>4. ASSUME NEW c \in Client, GetMatch(c) PROVE IInv'
  BY <1>4, StepOfOne DEF GetMatch, Label
<1>5. ASSUME NEW c \in Client, Set(c) PROVE IInv'
  BY <1>5, StepOfOne, OpFields DEF Set, Label, Update, IInv
<1>6. ASSUME NEW c \in Client, DelConn(c) PROVE IInv'
  <2>1. op[c].dst = Absent
    BY <1>6 DEF DelConn, IInv, StillMatches
  <2> QED
    BY <1>6, <2>1, StepOfOne DEF DelConn, Label
<1>7. ASSUME NEW c \in Client, Del(c) PROVE IInv'
  BY <1>7, StepOfOne, RedisAssumption DEF Del, Label, Update
<1>8. ASSUME NEW c \in Client, Close(c) PROVE IInv'
  BY <1>8, StepOfOne DEF Close, Label
<1>9. ASSUME NEW c \in Client, Return(c) PROVE IInv'
  BY <1>9, StepOfOne DEF Return, Label
<1>10. ASSUME NEW c \in Client, PoolTimeout(c) \/ Fail(c) PROVE IInv'
  BY <1>10, StepOfOne DEF PoolTimeout, Fail, GiveUp, Label
<1>11. ASSUME NEW c \in Client, FailApplied(c) PROVE IInv'
  BY <1>11, StepOfOne, OpFields DEF FailApplied, GiveUp, Update, Label, IInv
<1>12. ASSUME NEW k \in Key, Expire(k) PROVE IInv'
  <2>1. Types'
    BY <1>12, RedisAssumption DEF IInv, Types, Expire
  <2>2. ASSUME NEW c \in Careful PROVE val'[op[c].key] = val[op[c].key]
    <3>1. op[c].key # k
      BY <1>12 DEF IInv, Types, Careful, Expire
    <3> QED
      BY <1>12, <3>1 DEF IInv, Types, Expire
  <2>3. StillMatches'
    BY <1>12, <2>2 DEF IInv, StillMatches, Matches, Expire
  <2> QED
    BY <2>1, <2>3 DEF IInv
<1>13. CASE UNCHANGED vars
  BY <1>13 DEF vars, IInv, Types, StillMatches, Matches
<1> QED
  BY <1>1, <1>2, <1>3, <1>4, <1>5, <1>6, <1>7, <1>8, <1>9, <1>10, <1>11, <1>12, <1>13
     DEF Next, Run

-----------------------------------------------------------------------------
(* The register of the careful clients.                                     *)

St == [c \in Careful |->
         IF pc[c] = "idle" THEN "idle"
         ELSE IF pc[c] \notin {"close", "return"} THEN "called"
         ELSE IF ret[c] THEN "true" ELSE "false"]
Val == [k \in Undisturbed |-> val[k]]
Ops == [c \in Careful |-> op[c]]

LEMMA RegisterVars ==
  /\ Register!vars = <<Val, St, Ops>>
  /\ Register!Op = [key : Undisturbed, src : Value, dst : Value]
BY DEF Register!vars, Register!Op, Val, St, Ops

LEMMA CarefulKeys ==
  ASSUME NEW c \in Careful
  PROVE  /\ c \in Client /\ KeysOf[c] \subseteq Undisturbed
         /\ \A d \in Client \ Careful : KeysOf[d] \cap KeysOf[c] = {}
BY DEF Careful, Undisturbed

\* What a client that is not careful, or time, does to the server is not seen.
LEMMA OthersUnseen ==
  ASSUME Types, NEW d \in Client \ Careful, NEW v,
         val' = val \/ val' = [val EXCEPT ![op[d].key] = v]
  PROVE  Val' = Val
<1>1. op[d].key \in KeysOf[d]
  BY DEF Types
<1>2. op[d].key \notin Undisturbed
  BY <1>1, CarefulKeys DEF Undisturbed
<1>3. \A k \in Undisturbed : k \in Key
  BY RedisAssumption DEF Undisturbed, Careful
<1> QED
  BY <1>2, <1>3 DEF Types, Val

\* A step of c moves the call of c only.
LEMMA StStep ==
  ASSUME Types, NEW c \in Careful, NEW label \in Label, NEW b \in BOOLEAN,
         pc' = [pc EXCEPT ![c] = label], ret' = [ret EXCEPT ![c] = b]
  PROVE  St' = [St EXCEPT ![c] =
                  IF label = "idle" THEN "idle"
                  ELSE IF label \notin {"close", "return"} THEN "called"
                  ELSE IF b THEN "true" ELSE "false"]
<1>1. c \in Client
  BY DEF Careful
<1>2. /\ pc'[c] = label /\ ret'[c] = b
      /\ \A d \in Careful \ {c} : pc'[d] = pc[d] /\ ret'[d] = ret[d]
  BY <1>1 DEF Types, Careful
<1> QED
  BY <1>2 DEF St

LEMMA StOthers ==
  ASSUME NEW d \in Client \ Careful, NEW label, NEW b, Types,
         pc' = [pc EXCEPT ![d] = label], ret' = [ret EXCEPT ![d] = b] \/ ret' = ret
  PROVE  St' = St
<1>1. \A c \in Careful : c \in Client /\ c # d
  BY DEF Careful
<1> QED
  BY <1>1 DEF Types, St

\* An update of a careful client's key updates the register.
LEMMA ValUpdate ==
  ASSUME Types, NEW c \in Careful, NEW v, val' = [val EXCEPT ![op[c].key] = v]
  PROVE  op[c].key \in Undisturbed /\ Val' = [Val EXCEPT ![op[c].key] = v]
<1>1. op[c].key \in KeysOf[c] /\ c \in Client
  BY DEF Types, Careful
<1>2. op[c].key \in Undisturbed
  BY <1>1, CarefulKeys
<1>3. \A k \in Undisturbed : k \in Key
  BY RedisAssumption DEF Undisturbed, Careful
<1> QED
  BY <1>2, <1>3 DEF Types, Val

LEMMA ValMatches ==
  ASSUME Types, NEW c \in Careful
  PROVE  Matches(c) <=> Val[Ops[c].key] = Ops[c].src
<1>1. op[c].key \in KeysOf[c]
  BY DEF Types, Careful
<1> QED
  BY <1>1, CarefulKeys DEF Matches, Val, Ops

LEMMA CalledWhile ==
  ASSUME Types, NEW c \in Careful, pc[c] \in {"watch", "get", "set", "conn", "del"}
  PROVE  St[c] = "called"
BY DEF St

\* A careful client's call fails.
LEMMA GivesUp ==
  ASSUME IInv, NEW c \in Careful, GiveUp(c),
         pc[c] \in {"watch", "get", "set", "conn", "del"}
  PROVE  St[c] = "called" /\ St' = [St EXCEPT ![c] = "false"] /\ Ops' = Ops
<1>1. St' = [St EXCEPT ![c] = "false"]
  <2> DEFINE label == IF pc[c] = "watch" THEN "return" ELSE "close"
  <2>1. label \in {"return", "close"} /\ label \in Label
    BY DEF Label
  <2>2. pc' = [pc EXCEPT ![c] = label] /\ ret' = [ret EXCEPT ![c] = FALSE]
    BY DEF GiveUp, Goto, Result
  <2> HIDE DEF label
  <2> QED
    BY <2>1, <2>2, StStep DEF IInv
<1> QED
  BY <1>1, CalledWhile DEF GiveUp, Ops, IInv

LEMMA RefineCareful ==
  ASSUME IInv, NEW c \in Careful,
         Run(c) \/ Fail(c) \/ FailApplied(c) \/ \E o \in Op : Call(c, o)
  PROVE  Register!Next \/ UNCHANGED Register!vars
<1> USE DEF Goto, Result
<1>0. c \in Client /\ Types
  BY DEF Careful, IInv
<1>1. ASSUME NEW o \in Op, Call(c, o) PROVE Register!Next
  <2>1. St[c] = "idle"
    BY <1>1 DEF Call, St
  <2>2. St' = [St EXCEPT ![c] = "called"]
    BY <1>0, <1>1, StStep DEF Call, Label
  <2>3. o \in [key : Undisturbed, src : Value, dst : Value]
    BY <1>1, CarefulKeys DEF Call, Op
  <2>4. Ops' = [Ops EXCEPT ![c] = o] /\ Val' = Val
    BY <1>0, <1>1 DEF Call, Ops, Val, Types, Careful
  <2>5. Register!Invoke(c, o)
    BY <2>1, <2>2, <2>4 DEF Register!Invoke, St, Val, Ops
  <2> QED
    BY <2>3, <2>5, RegisterVars DEF Register!Next
<1>2. CASE Watch(c) \/ GetMatch(c) \/ DelConn(c) \/ Close(c)
  <2>1. Val' = Val /\ Ops' = Ops
    BY <1>2 DEF Watch, GetMatch, DelConn, Close, Val, Ops
  <2>2. \A d \in Careful : ret'[d] = ret[d] /\
          ((pc'[d] = pc[d]) \/ (pc[d] = "close" /\ pc'[d] = "return")
           \/ (pc[d] \in {"watch", "get", "conn"} /\ pc'[d] \in {"get", "conn", "set", "del"}))
    BY <1>0, <1>2 DEF Watch, GetMatch, DelConn, Close, Types, Careful
  <2>3. St' = St
    BY <2>2 DEF St
  <2> QED
    BY <2>1, <2>3 DEF Register!vars, Val, St, Ops
<1>3. CASE GetMismatch(c)
  <2>1. St[c] = "called" /\ St' = [St EXCEPT ![c] = "false"]
    BY <1>0, <1>3, StStep, CalledWhile DEF GetMismatch, Label
  <2>2. Val' = Val /\ Ops' = Ops /\ ~(Val[Ops[c].key] = Ops[c].src)
    BY <1>0, <1>3, ValMatches DEF GetMismatch, Val, Ops
  <2>3. Register!Refuse(c)
    BY <2>1, <2>2 DEF Register!Refuse, Register!Matches, Register!Answer, Val, St, Ops
  <2> QED
    BY <2>3 DEF Register!Next
<1>4. CASE Set(c) \/ Del(c)
  <2>1. St[c] = "called" /\ St' = [St EXCEPT ![c] = "true"]
    BY <1>0, <1>4, StStep, CalledWhile DEF Set, Del, Label
  <2>2. Matches(c) /\ op' = op
    BY <1>4 DEF Set, Del, IInv, StillMatches
  <2>3. val' = [val EXCEPT ![op[c].key] = op[c].dst]
    BY <1>0, <1>4 DEF Set, Del, Update, IInv, StillMatches
  <2>4. Val' = [Val EXCEPT ![Ops[c].key] = Ops[c].dst] /\ Ops' = Ops
    BY <1>0, <2>2, <2>3, ValUpdate DEF Ops
  <2>5. Val[Ops[c].key] = Ops[c].src
    BY <1>0, <2>2, ValMatches
  <2>6. Register!Succeed(c)
    BY <2>1, <2>4, <2>5
       DEF Register!Succeed, Register!Matches, Register!Apply, Register!Answer, Val, St, Ops
  <2> QED
    BY <2>6 DEF Register!Next
<1>5. CASE PoolTimeout(c) \/ Fail(c)
  <2>1. St[c] = "called" /\ St' = [St EXCEPT ![c] = "false"] /\ Ops' = Ops
    BY <1>5, GivesUp DEF PoolTimeout, Fail
  <2>2. Val' = Val
    BY <1>5 DEF PoolTimeout, Fail, Val
  <2>3. Register!Fail(c)
    BY <2>1, <2>2 DEF Register!Fail, Register!Answer, Val, St, Ops
  <2> QED
    BY <2>3 DEF Register!Next
<1>6. CASE FailApplied(c)
  <2>1. St[c] = "called" /\ St' = [St EXCEPT ![c] = "false"] /\ Ops' = Ops
    BY <1>6, GivesUp DEF FailApplied
  <2>2. Matches(c) /\ val' = [val EXCEPT ![op[c].key] = op[c].dst]
    BY <1>6 DEF FailApplied, Update, IInv, StillMatches
  <2>3. Val' = [Val EXCEPT ![Ops[c].key] = Ops[c].dst]
    BY <1>0, <2>2, ValUpdate DEF Ops
  <2>4. Val[Ops[c].key] = Ops[c].src
    BY <1>0, <2>2, ValMatches
  <2>5. Register!FailApplied(c)
    BY <2>1, <2>3, <2>4
       DEF Register!FailApplied, Register!Matches, Register!Apply, Register!Answer, Val, St, Ops
  <2> QED
    BY <2>5 DEF Register!Next
<1>7. CASE Return(c)
  <2>1. ret' = [ret EXCEPT ![c] = ret[c]]
    BY <1>0, <1>7 DEF Return, Types
  <2>2. ret[c] \in BOOLEAN
    BY <1>0 DEF Types
  <2>3. St[c] \in {"true", "false"}
    BY <1>7 DEF Return, St
  <2>4. St' = [St EXCEPT ![c] = "idle"]
    BY <1>0, <1>7, <2>1, <2>2, StStep DEF Return, Label
  <2>5. Val' = Val /\ Ops' = Ops
    BY <1>7 DEF Return, Val, Ops
  <2>6. Register!Return(c)
    BY <2>3, <2>4, <2>5 DEF Register!Return, Val, St, Ops
  <2> QED
    BY <2>6 DEF Register!Next
<1> QED
  BY <1>1, <1>2, <1>3, <1>4, <1>5, <1>6, <1>7 DEF Run

\* What somebody does who is not careful is a stutter of the register.
LEMMA RefineOthers ==
  ASSUME IInv, NEW d \in Client \ Careful,
         Run(d) \/ Fail(d) \/ FailApplied(d) \/ \E o \in Op : Call(d, o)
  PROVE  UNCHANGED Register!vars
<1>1. Ops' = Ops
  <2>1. \A c \in Careful : op'[c] = op[c]
    <3>1. op' = op \/ \E o \in Op : op' = [op EXCEPT ![d] = o]
      BY DEF Run, Watch, GetMismatch, GetMatch, Set, DelConn, Del, Close, Return,
             PoolTimeout, Fail, FailApplied, GiveUp, Call
    <3> QED
      BY <3>1 DEF IInv, Types, Careful
  <2> QED
    BY <2>1 DEF Ops
<1>2. Val' = Val
  <2>1. val' = val \/ \E v : val' = [val EXCEPT ![op[d].key] = v]
    BY DEF Run, Watch, GetMismatch, GetMatch, Set, DelConn, Del, Close, Return,
           PoolTimeout, Fail, FailApplied, Call, Update
  <2> QED
    BY <2>1, OthersUnseen DEF IInv
<1>3. St' = St
  <2>1. \E label : pc' = [pc EXCEPT ![d] = label]
    BY DEF Run, Watch, GetMismatch, GetMatch, Set, DelConn, Del, Close, Return,
           PoolTimeout, Fail, FailApplied, GiveUp, Call, Goto
  <2>2. ret' = ret \/ \E b : ret' = [ret EXCEPT ![d] = b]
    BY DEF Run, Watch, GetMismatch, GetMatch, Set, DelConn, Del, Close, Return,
           PoolTimeout, Fail, FailApplied, GiveUp, Call, Result
  <2> QED
    BY <2>1, <2>2, StOthers DEF IInv
<1> QED
  BY <1>1, <1>2, <1>3 DEF Register!vars, Val, St, Ops

LEMMA RefineExpire ==
  ASSUME IInv, NEW k \in Key, Expire(k)
  PROVE  UNCHANGED Register!vars
<1>1. k \notin Undisturbed
  BY DEF Expire, Undisturbed, Careful
<1>2. \A x \in Undisturbed : x \in Key
  BY RedisAssumption DEF Undisturbed, Careful
<1>3. Val' = Val
  BY <1>1, <1>2 DEF Expire, Val, IInv, Types
<1>4. St' = St /\ Ops' = Ops
  BY DEF Expire, St, Ops
<1> QED
  BY <1>3, <1>4 DEF Register!vars, Val, St, Ops

LEMMA RefineInit == Init => Register!Init
<1> SUFFICES ASSUME Init PROVE Register!Init
  OBVIOUS
<1>1. Types
  BY InvInit DEF IInv
<1>2. Ops \in [Careful -> Register!Op]
  BY <1>1, CarefulKeys, RegisterVars DEF Ops, Types, Op
<1>3. Val = [k \in Undisturbed |-> Absent]
  BY RedisAssumption DEF Init, Val, Undisturbed, Careful
<1>4. St = [c \in Careful |-> "idle"]
  BY DEF Init, St, Careful
<1> QED
  BY <1>2, <1>3, <1>4 DEF Register!Init, Ops, Val, St

\* RedisImpl.CAS, for every client that has its keys to itself and whose values
\* do not run out, is an atomic compare-and-set whose FALSE may also mean that
\* the call failed: whatever other clients do, however many commands fail with
\* or without effect, and however small the pool is.
THEOREM RedisRefinesRegister == Spec => RefinesRegister
<1>1. IInv /\ [Next]_vars => [Register!Next]_(Register!vars)
  <2> SUFFICES ASSUME IInv, [Next]_vars
               PROVE  Register!Next \/ UNCHANGED Register!vars
    OBVIOUS
  <2>1. CASE UNCHANGED vars
    BY <2>1 DEF vars, Val, St, Ops, Register!vars
  <2>2. ASSUME NEW c \in Client,
               Run(c) \/ Fail(c) \/ FailApplied(c) \/ \E o \in Op : Call(c, o)
        PROVE  Register!Next \/ UNCHANGED Register!vars
    BY <2>2, RefineCareful, RefineOthers
  <2>3. ASSUME NEW k \in Key, Expire(k)
        PROVE  UNCHANGED Register!vars
    BY <2>3, RefineExpire
  <2> QED
    BY <2>1, <2>2, <2>3 DEF Next
<1> QED
  BY InvInit, InvNext, RefineInit, <1>1, PTL DEF Spec, RefinesRegister, Register!Spec

-----------------------------------------------------------------------------
(* The pool.  That the counter of the connections in use stays within its   *)
(* bounds rests on its counting what the calls hold.                        *)

\* The first and the second connections that the calls hold.
Taken == {t \in Client \X (1..2) : t[2] <= Held(pc[t[1]])}
PoolAccounted == inUse = Cardinality(Taken)

Counters ==
  /\ inUse \in 0..PoolSize /\ faults \in 0..MaxFault
  /\ IsFiniteSet(Taken) /\ PoolAccounted

PInv == Types /\ Counters

LEMMA HeldValues ==
  /\ Held("idle") = 0 /\ Held("watch") = 0 /\ Held("return") = 0
  /\ Held("get") = 1 /\ Held("set") = 1 /\ Held("conn") = 1 /\ Held("close") = 1
  /\ Held("del") = 2
  /\ \A label \in Label : Held(label) \in 0..2
BY DEF Held, Label

\* A call that goes from one point to the next takes or gives back one
\* connection at most, and the set of those that are taken has one more or less.
LEMMA PoolStep ==
  ASSUME PInv, NEW c \in Client, NEW label \in Label, pc' = [pc EXCEPT ![c] = label],
         \/ Held(label) = Held(pc[c]) /\ inUse' = inUse
         \/ Held(label) = Held(pc[c]) + 1 /\ inUse' = inUse + 1
         \/ Held(label) = Held(pc[c]) - 1 /\ inUse' = inUse - 1
  PROVE  IsFiniteSet(Taken)' /\ PoolAccounted' /\ inUse' >= 0 /\ inUse' \in Int
<1>1. /\ pc \in [Client -> Label] /\ IsFiniteSet(Taken) /\ inUse = Cardinality(Taken)
      /\ inUse \in Nat
  <2>1. PoolSize \in Nat
    BY RedisAssumption
  <2> QED
    BY <2>1 DEF PInv, Types, Counters, PoolAccounted
<1>2. pc'[c] = label /\ \A d \in Client : d # c => pc'[d] = pc[d]
  BY <1>1
<1>3. Held(label) \in 0..2 /\ Held(pc[c]) \in 0..2
  BY <1>1, HeldValues
<1> DEFINE next == {t \in Client \X (1..2) : t[2] <= Held(pc'[t[1]])}
<1>4. Taken' = next
  BY DEF Taken
<1>5. \A t \in Client \X (1..2) : t[1] # c => (t \in next <=> t \in Taken)
  BY <1>2 DEF Taken
<1>6. \A t \in Client \X (1..2) : t[1] = c =>
        /\ t \in next <=> t[2] <= Held(label)
        /\ t \in Taken <=> t[2] <= Held(pc[c])
        /\ t = <<c, t[2]>> /\ t[2] \in {1, 2}
  BY <1>2 DEF Taken
<1>7. next \subseteq Client \X (1..2) /\ Taken \subseteq Client \X (1..2)
  BY DEF Taken
<1> HIDE DEF next
<1>8. CASE Held(label) = Held(pc[c]) /\ inUse' = inUse
  <2>1. next = Taken
    BY <1>5, <1>6, <1>7, <1>8
  <2> QED
    BY <1>1, <1>4, <1>8, <2>1 DEF PoolAccounted
<1>9. CASE Held(label) = Held(pc[c]) + 1 /\ inUse' = inUse + 1
  <2> DEFINE t == <<c, Held(label)>>
  <2>1. t \in Client \X (1..2) /\ t[1] = c /\ t[2] = Held(label)
    BY <1>3, <1>9
  <2>2. t \notin Taken
    BY <1>3, <1>6, <1>9, <2>1
  <2>3. \A x \in {1, 2} : x <= Held(label) <=> x <= Held(pc[c]) \/ x = Held(label)
    BY <1>3, <1>9
  <2>4. next = Taken \cup {t}
    <3>1. ASSUME NEW x \in Client \X (1..2) PROVE x \in next <=> x \in Taken \cup {t}
      <4>1. CASE x[1] # c
        BY <1>5, <2>1, <4>1
      <4>2. CASE x[1] = c
        <5>1. x = t <=> x[2] = Held(label)
          BY <1>6, <2>1, <4>2
        <5> QED
          BY <1>6, <2>3, <4>2, <5>1
      <4> QED
        BY <4>1, <4>2
    <3> QED
      BY <1>7, <2>1, <3>1
  <2> HIDE DEF t
  <2>5. IsFiniteSet(next) /\ Cardinality(next) = Cardinality(Taken) + 1
    BY <1>1, <2>2, <2>4, FS_AddElement
  <2> QED
    BY <1>1, <1>4, <1>9, <2>5 DEF PoolAccounted
<1>10. CASE Held(label) = Held(pc[c]) - 1 /\ inUse' = inUse - 1
  <2> DEFINE t == <<c, Held(pc[c])>>
  <2>1. t \in Client \X (1..2) /\ t[1] = c /\ t[2] = Held(pc[c])
    BY <1>3, <1>10
  <2>2. t \in Taken
    BY <1>3, <1>6, <1>10, <2>1
  <2>3. \A x \in {1, 2} : x <= Held(label) <=> x <= Held(pc[c]) /\ x # Held(pc[c])
    BY <1>3, <1>10
  <2>4. next = Taken \ {t}
    <3>1. ASSUME NEW x \in Client \X (1..2) PROVE x \in next <=> x \in Taken \ {t}
      <4>1. CASE x[1] # c
        BY <1>5, <2>1, <4>1
      <4>2. CASE x[1] = c
        <5>1. x = t <=> x[2] = Held(pc[c])
          BY <1>6, <2>1, <4>2
        <5> QED
          BY <1>6, <2>3, <4>2, <5>1
      <4> QED
        BY <4>1, <4>2
    <3> QED
      BY <1>7, <2>1, <3>1
  <2> HIDE DEF t
  <2>5. IsFiniteSet(next) /\ Cardinality(next) = Cardinality(Taken) - 1
        /\ Cardinality(next) \in Nat
    BY <1>1, <2>2, <2>4, FS_RemoveElement, FS_CardinalityType
  <2> QED
    BY <1>1, <1>4, <1>10, <2>5 DEF PoolAccounted
<1> QED
  BY <1>8, <1>9, <1>10

LEMMA CountersInit == Init => Counters
<1> SUFFICES ASSUME Init PROVE Counters
  OBVIOUS
<1>1. PoolSize \in Nat /\ MaxFault \in Nat
  BY RedisAssumption
<1>2. Taken = {}
  BY HeldValues DEF Init, Taken
<1>3. IsFiniteSet(Taken) /\ Cardinality(Taken) = 0
  BY <1>2, FS_EmptySet
<1> QED
  BY <1>1, <1>3 DEF Init, Counters, PoolAccounted

LEMMA CountersNext == PInv /\ [Next]_vars => Counters'
<1> SUFFICES ASSUME PInv, [Next]_vars PROVE Counters'
  OBVIOUS
<1> USE DEF Goto
<1>0. /\ PoolSize \in Nat /\ MaxFault \in Nat /\ inUse \in 0..PoolSize /\ faults \in 0..MaxFault
      /\ Types /\ \A c \in Client : pc[c] \in Label
  BY RedisAssumption DEF PInv, Counters, Types
<1>1. ASSUME NEW c \in Client, NEW o \in Op, Call(c, o) PROVE Counters'
  <2>1. IsFiniteSet(Taken)' /\ PoolAccounted'
    BY <1>1, HeldValues, PoolStep DEF Call, Label
  <2> QED
    BY <1>0, <1>1, <2>1 DEF Counters, Call
<1>2. ASSUME NEW c \in Client, Watch(c) \/ DelConn(c) PROVE Counters'
  <2>1. IsFiniteSet(Taken)' /\ PoolAccounted'
    BY <1>2, HeldValues, PoolStep DEF Watch, DelConn, Label
  <2> QED
    BY <1>0, <1>2, <2>1 DEF Counters, Watch, DelConn
<1>3. ASSUME NEW c \in Client, GetMismatch(c) \/ GetMatch(c) \/ Set(c) \/ Return(c)
      PROVE  Counters'
  <2>1. IsFiniteSet(Taken)' /\ PoolAccounted'
    BY <1>3, HeldValues, PoolStep DEF GetMismatch, GetMatch, Set, Return, Label
  <2> QED
    BY <1>0, <1>3, <2>1 DEF Counters, GetMismatch, GetMatch, Set, Return
<1>4. ASSUME NEW c \in Client, Del(c) \/ Close(c) PROVE Counters'
  <2>1. CASE Del(c)
    <3>1. pc' = [pc EXCEPT ![c] = "close"] /\ Held("close") = Held(pc[c]) - 1
          /\ inUse' = inUse - 1 /\ faults' = faults
      BY <2>1, HeldValues DEF Del
    <3>2. IsFiniteSet(Taken)' /\ PoolAccounted' /\ inUse' >= 0
      BY <3>1, PoolStep DEF Label
    <3>3. inUse' \in 0..PoolSize
      BY <1>0, <3>1, <3>2
    <3> QED
      BY <1>0, <3>1, <3>2, <3>3 DEF Counters
  <2>2. CASE Close(c)
    <3>1. pc' = [pc EXCEPT ![c] = "return"] /\ Held("return") = Held(pc[c]) - 1
          /\ inUse' = inUse - 1 /\ faults' = faults
      BY <2>2, HeldValues DEF Close
    <3>2. IsFiniteSet(Taken)' /\ PoolAccounted' /\ inUse' >= 0
      BY <3>1, PoolStep DEF Label
    <3>3. inUse' \in 0..PoolSize
      BY <1>0, <3>1, <3>2
    <3> QED
      BY <1>0, <3>1, <3>2, <3>3 DEF Counters
  <2> QED
    BY <1>4, <2>1, <2>2
<1>5. ASSUME NEW c \in Client, GiveUp(c),
             pc[c] \in {"watch", "get", "set", "conn", "del"}
      PROVE  IsFiniteSet(Taken)' /\ PoolAccounted' /\ inUse' \in 0..PoolSize
  <2>1. CASE pc[c] = "watch"
    BY <1>0, <1>5, <2>1, HeldValues, PoolStep DEF GiveUp, Label
  <2>2. CASE pc[c] \in {"get", "set", "conn"}
    BY <1>0, <1>5, <2>2, HeldValues, PoolStep DEF GiveUp, Label
  <2>3. CASE pc[c] = "del"
    <3>1. pc' = [pc EXCEPT ![c] = "close"] /\ Held("close") = Held(pc[c]) - 1
          /\ inUse' = inUse - 1
      BY <1>5, <2>3, HeldValues DEF GiveUp
    <3>2. IsFiniteSet(Taken)' /\ PoolAccounted' /\ inUse' >= 0
      BY <3>1, PoolStep DEF Label
    <3> QED
      BY <1>0, <3>1, <3>2
  <2> QED
    BY <1>5, <2>1, <2>2, <2>3
<1>6. ASSUME NEW c \in Client, PoolTimeout(c) PROVE Counters'
  BY <1>0, <1>5, <1>6 DEF Counters, PoolTimeout
<1>7. ASSUME NEW c \in Client, Fail(c) \/ FailApplied(c) PROVE Counters'
  <2>1. faults' \in 0..MaxFault
    BY <1>0, <1>7 DEF Fail, FailApplied
  <2> QED
    BY <1>5, <1>7, <2>1 DEF Counters, Fail, FailApplied
<1>8. ASSUME NEW k \in Key, Expire(k) PROVE Counters'
  BY <1>8 DEF PInv, Counters, PoolAccounted, Taken, Expire
<1>9. CASE UNCHANGED vars
  BY <1>9 DEF PInv, Counters, PoolAccounted, Taken, vars
<1> QED
  BY <1>1, <1>2, <1>3, <1>4, <1>6, <1>7, <1>8, <1>9 DEF Next, Run

LEMMA PoolInvariance == Spec => [](IInv /\ Counters)
<1>1. Init => IInv /\ Counters
  BY InvInit, CountersInit
<1>2. (IInv /\ Counters) /\ [Next]_vars => (IInv /\ Counters)'
  <2>1. IInv /\ Counters => PInv
    BY DEF IInv, PInv
  <2> QED
    BY <2>1, InvNext, CountersNext
<1> QED
  BY <1>1, <1>2, PTL DEF Spec

\* Every variable stays in its type: no more connections are in use than the
\* pool has, and never less than none.
THEOREM TypeCorrect == Spec => []TypeOK
<1>1. IInv /\ Counters => TypeOK
  BY DEF IInv, Types, Counters, TypeOK, Label
<1> QED
  BY <1>1, PoolInvariance, PTL
=============================================================================
