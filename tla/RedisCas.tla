------------------------------ MODULE RedisCas ------------------------------
(****************************************************************************)
(* RedisImpl.CAS of tools/cascmd/cas_cmd.go: WATCH, GET and SET on a        *)
(* connection taken from the client's pool, or DEL on a second one.  Each   *)
(* command is one step of the server.                                       *)
(*                                                                          *)
(* The SET goes out in a plain pipeline (tx.Pipelined), not in MULTI/EXEC,  *)
(* so the server never acts on the WATCH: its only effect here is that it   *)
(* takes the connection.  A command whose answer is lost has taken effect   *)
(* or not by the time CAS returns.                                          *)
(****************************************************************************)
EXTENDS Naturals

CONSTANTS Client, Key, Value,
          Absent,     \* the empty string; also what GET of a missing key gives
          KeysOf,     \* the keys each client works on
          Expiring,   \* the keys whose values may run out (after a minute)
          PoolSize,   \* connections in the pool
          MaxFault    \* bound on failed commands

ASSUME RedisAssumption ==
  /\ Absent \in Value /\ Key # {}
  /\ KeysOf \in [Client -> (SUBSET Key) \ {{}}] /\ Expiring \subseteq Key
  /\ PoolSize \in Nat \ {0} /\ MaxFault \in Nat

VARIABLES val,      \* the server: the value of each key
          inUse,    \* connections taken from the pool
          faults,   \* commands that have failed
          pc, op, ret   \* where each call stands, its arguments, its result

vars == <<val, inUse, faults, pc, op, ret>>

Op == [key : Key, src : Value, dst : Value]
ArbitraryOp(c) == CHOOSE o \in Op : o.key \in KeysOf[c]

TypeOK ==
  /\ val \in [Key -> Value]
  /\ inUse \in 0..PoolSize
  /\ faults \in 0..MaxFault
  /\ pc \in [Client -> {"idle", "watch", "get", "set", "conn", "del",
                        "close", "return"}]
  /\ op \in [Client -> Op]
  /\ ret \in [Client -> BOOLEAN]

Init ==
  /\ val = [k \in Key |-> Absent]
  /\ inUse = 0 /\ faults = 0
  /\ pc = [c \in Client |-> "idle"]
  /\ op = [c \in Client |-> ArbitraryOp(c)]
  /\ ret = [c \in Client |-> FALSE]

Goto(c, label) == pc' = [pc EXCEPT ![c] = label]
Result(c, b) == ret' = [ret EXCEPT ![c] = b]
Update(c, v) == val' = [val EXCEPT ![op[c].key] = v]
Matches(c) == val[op[c].key] = op[c].src

Call(c, o) ==
  /\ pc[c] = "idle" /\ o.key \in KeysOf[c]
  /\ op' = [op EXCEPT ![c] = o]
  /\ Result(c, FALSE)
  /\ Goto(c, "watch")
  /\ UNCHANGED <<val, inUse, faults>>

Watch(c) ==
  /\ pc[c] = "watch" /\ inUse < PoolSize
  /\ inUse' = inUse + 1
  /\ Goto(c, "get")
  /\ UNCHANGED <<val, faults, op, ret>>

\* Mutant: a mismatch is polled until it goes away.
GetMismatchPolls(c) ==
  /\ pc[c] = "get" /\ ~Matches(c)
  /\ UNCHANGED vars

GetMismatch(c) ==
  /\ pc[c] = "get" /\ ~Matches(c)
  /\ Result(c, FALSE)
  /\ Goto(c, "close")
  /\ UNCHANGED <<val, inUse, faults, op>>

\* Mutant: the old value is not compared.
GetAnything(c) ==
  /\ pc[c] = "get"
  /\ Goto(c, IF op[c].dst = Absent THEN "conn" ELSE "set")
  /\ UNCHANGED <<val, inUse, faults, op, ret>>

GetMatch(c) ==
  /\ pc[c] = "get" /\ Matches(c)
  /\ Goto(c, IF op[c].dst = Absent THEN "conn" ELSE "set")
  /\ UNCHANGED <<val, inUse, faults, op, ret>>

Set(c) ==
  /\ pc[c] = "set"
  /\ Update(c, op[c].dst)
  /\ Result(c, TRUE)
  /\ Goto(c, "close")
  /\ UNCHANGED <<inUse, faults, op>>

\* x.client.Del takes another connection while the transaction keeps its own.
DelConn(c) ==
  /\ pc[c] = "conn" /\ inUse < PoolSize
  /\ inUse' = inUse + 1
  /\ Goto(c, "del")
  /\ UNCHANGED <<val, faults, op, ret>>

Del(c) ==
  /\ pc[c] = "del"
  /\ Update(c, Absent)
  /\ inUse' = inUse - 1
  /\ Result(c, TRUE)
  /\ Goto(c, "close")
  /\ UNCHANGED <<faults, op>>

\* Watch closes the transaction and gives its connection back.
Close(c) ==
  /\ pc[c] = "close"
  /\ inUse' = inUse - 1
  /\ Goto(c, "return")
  /\ UNCHANGED <<val, faults, op, ret>>

Return(c) ==
  /\ pc[c] = "return"
  /\ Goto(c, "idle")
  /\ UNCHANGED <<val, inUse, faults, op, ret>>

\* The connections a call holds at each point.
Held(label) == CASE label \in {"idle", "watch", "return"} -> 0
                 [] label \in {"get", "set", "conn", "close"} -> 1
                 [] label = "del" -> 2

\* Mutant: giving up also frees a connection that was never taken.
GiveUpTwice(c) ==
  /\ Result(c, FALSE)
  /\ Goto(c, IF pc[c] = "watch" THEN "return" ELSE "close")
  /\ inUse' = IF pc[c] \in {"conn", "del"} THEN inUse - 1 ELSE inUse
  /\ UNCHANGED op

\* The call gives up: it lets go of the DEL's connection at once, and of the
\* transaction's when it closes it.
GiveUp(c) ==
  /\ Result(c, FALSE)
  /\ Goto(c, IF pc[c] = "watch" THEN "return" ELSE "close")
  /\ inUse' = IF pc[c] = "del" THEN inUse - 1 ELSE inUse
  /\ UNCHANGED op

\* A command fails, or its three seconds pass, without or with effect.
Fail(c) ==
  /\ pc[c] \in {"watch", "get", "set", "conn", "del"} /\ faults < MaxFault
  /\ faults' = faults + 1
  /\ GiveUp(c)
  /\ UNCHANGED val

FailApplied(c) ==
  /\ pc[c] \in {"set", "del"} /\ faults < MaxFault
  /\ faults' = faults + 1
  /\ Update(c, op[c].dst)
  /\ GiveUp(c)

\* Everyone who holds a connection waits for a second one: nothing moves until
\* the three seconds of one of them, or of one who waits for a first, are over.
PoolStuck == /\ inUse = PoolSize
             /\ \A d \in Client : Held(pc[d]) > 0 => pc[d] = "conn"

PoolTimeout(c) ==
  /\ pc[c] \in {"watch", "conn"} /\ PoolStuck
  /\ GiveUp(c)
  /\ UNCHANGED <<val, faults>>

\* The value of a SET lives for one minute.
Expire(k) ==
  /\ k \in Expiring /\ val[k] # Absent
  /\ val' = [val EXCEPT ![k] = Absent]
  /\ UNCHANGED <<inUse, faults, pc, op, ret>>

Run(c) == \/ Watch(c) \/ GetMismatch(c) \/ GetMatch(c) \/ Set(c) \/ DelConn(c)
          \/ Del(c) \/ Close(c) \/ Return(c) \/ PoolTimeout(c)

Next == \/ \E c \in Client : \/ Run(c) \/ Fail(c) \/ FailApplied(c)
                             \/ \E o \in Op : Call(c, o)
        \/ \E k \in Key : Expire(k)

Spec == Init /\ [][Next]_vars

\* The server answers, and the pool serves those who wait in turn.
FairSpec == Spec /\ \A c \in Client : WF_vars(Run(c)) /\ SF_vars(Watch(c))
                                      /\ SF_vars(DelConn(c))

-----------------------------------------------------------------------------
(* Properties.                                                              *)

\* The clients that have their keys to themselves, and whose values do not run
\* out; and those keys.
Careful ==
  {c \in Client :
     /\ KeysOf[c] \cap Expiring = {}
     /\ \A d \in Client \ {c} : KeysOf[c] \cap KeysOf[d] = {}}
Undisturbed == UNION {KeysOf[c] : c \in Careful}

Register == INSTANCE CasRegister WITH
  MayFail <- TRUE,
  Client <- Careful, Key <- Undisturbed,
  val <- [k \in Undisturbed |-> val[k]],
  op <- [c \in Careful |-> op[c]],
  st <- [c \in Careful |->
           IF pc[c] = "idle" THEN "idle"
           ELSE IF pc[c] \notin {"close", "return"} THEN "called"
           ELSE IF ret[c] THEN "true" ELSE "false"]

\* For a caller who shares no key, and under whom no value expires, the
\* sequence of commands is a compare-and-set, whoever else uses the pool: TRUE
\* means it took effect on the value it expected, FALSE that it did not or that
\* it failed.
RefinesRegister == Register!Spec

\* Every call returns, even when the calls use up the pool between them.
EveryCallReturns == \A c \in Client : pc[c] = "watch" ~> pc[c] = "idle"

\* A call takes effect only on the value it was told to expect ("if src is not
\* the value of key, FALSE").
UpdatesOnlySrc ==
  [][\A c \in Client : ret'[c] /\ ret'[c] # ret[c] => Matches(c)]_vars
=============================================================================
