----------------------------- MODULE CasRegister -----------------------------
(****************************************************************************)
(* What a try_lock.CASCommand promises (the comment on RedisImpl.CAS): each *)
(* call takes effect at one moment between its start and its return, and at *)
(* that moment either finds src in the key, leaves dst there and returns    *)
(* TRUE, or finds something else, changes nothing and returns FALSE.        *)
(*                                                                          *)
(* A command on a remote store may promise less: a call may return FALSE    *)
(* because it failed, with or without effect.                               *)
(****************************************************************************)
CONSTANTS Client, Key, Value,
          Absent,      \* the value of a key that is not there: ""
          MayFail      \* may FALSE mean that the call failed?

VARIABLES val,   \* the value of each key
          st,      \* each client's call: "idle", "called", "true" or "false"
          op       \* and its arguments

vars == <<val, st, op>>

Op == [key : Key, src : Value, dst : Value]

Init == /\ val = [k \in Key |-> Absent]
        /\ st = [c \in Client |-> "idle"]
        /\ op \in [Client -> Op]

Invoke(c, o) == /\ st[c] = "idle"
                /\ st' = [st EXCEPT ![c] = "called"]
                /\ op' = [op EXCEPT ![c] = o]
                /\ UNCHANGED val

Matches(c) == val[op[c].key] = op[c].src
Answer(c, b) == st[c] = "called" /\ st' = [st EXCEPT ![c] = b] /\ UNCHANGED op
Apply(c) == val' = [val EXCEPT ![op[c].key] = op[c].dst]

Succeed(c) == Matches(c) /\ Apply(c) /\ Answer(c, "true")
Refuse(c) == ~Matches(c) /\ UNCHANGED val /\ Answer(c, "false")
Fail(c) == MayFail /\ UNCHANGED val /\ Answer(c, "false")
FailApplied(c) == MayFail /\ Matches(c) /\ Apply(c) /\ Answer(c, "false")

Return(c) == /\ st[c] \in {"true", "false"}
             /\ st' = [st EXCEPT ![c] = "idle"]
             /\ UNCHANGED <<val, op>>

Next == \E c \in Client : \/ \E o \in Op : Invoke(c, o)
                          \/ Succeed(c) \/ Refuse(c) \/ Fail(c) \/ FailApplied(c)
                          \/ Return(c)

Spec == Init /\ [][Next]_vars
=============================================================================
