---------------------------- MODULE KafkaProducer ----------------------------
(****************************************************************************)
(* The clients of kafka/kafka.go: the settings they are made with; the two  *)
(* goroutines NewProducer starts to take failures and successes off the     *)
(* producer; and the cleanup function, which stops them and then closes the *)
(* producer.  A consumer group is handed to the caller as sarama made it.   *)
(*                                                                          *)
(* External: sarama's AsyncProducer and its otelsarama wrapper.  A goroutine*)
(* of the wrapper takes one message at a time from the application and      *)
(* passes it to sarama, which takes it in as long as it has room.  Every    *)
(* message gets an outcome, which sarama hands over on an unbuffered        *)
(* channel, and does nothing else until somebody takes it: a goroutine of   *)
(* the wrapper, which holds it until it is read from the wrapper's own      *)
(* channel, or sarama's Close, which takes all that are left, returns the   *)
(* failures as its error and waits until nothing is in flight.  The         *)
(* wrapper's Close is a request to the goroutine that passes messages on,   *)
(* which calls sarama's when it gets to it.                                 *)
(****************************************************************************)
EXTENDS ClientSettings, FiniteSets

CONSTANTS Message,
          Capacity,    \* messages sarama takes in before its input blocks
          Environment  \* what the environment of the process may hold

ASSUME CapacityAssumption == Capacity \in Nat \ {0}
ASSUME EnvironmentAssumption == Environment \subseteq [Setting -> Text]

VARIABLES
  env,      \* the text of each variable of the environment
  client,   \* what the process has made
  st,       \* where each message is
  printer,  \* the goroutine that prints failures is running
  drainer,  \* the goroutine that drops successes is running
  cleanup   \* how far the cleanup function is

vars == <<env, client, st, printer, drainer, cleanup>>

MessageState == {"new",
                 "offered",               \* the wrapper is passing it on
                 "sent",
                 "failed", "succeeded",   \* sarama is handing it over
                 "errHeld", "okHeld",     \* a goroutine of the wrapper holds it
                 "printed", "dropped",    \* taken by our goroutines
                 "closedErr", "closedOk"} \* taken by sarama's Close

TypeOK ==
  /\ st \in [Message -> MessageState]
  /\ printer \in BOOLEAN /\ drainer \in BOOLEAN
  /\ env \in Environment
  /\ client \in {"none", "error", "producer", "group", "closed"}
  /\ cleanup \in {"no", "cancelled", "closing", "returned"}
  /\ (client = "producer" /\ cleanup = "no") => printer /\ drainer
  /\ client # "producer" => ~printer /\ ~drainer

Init ==
  /\ env \in Environment
  /\ client = "none"
  /\ st = [m \in Message |-> "new"]
  /\ printer = FALSE /\ drainer = FALSE
  /\ cleanup = "no"

In(state) == \E m \in Message : st[m] = state
Move(m, from, to) == st[m] = from /\ st' = [st EXCEPT ![m] = to]
Full == Cardinality({m \in Message : st[m] \in {"sent", "failed", "succeeded"}})
          >= Capacity

-----------------------------------------------------------------------------
(* The application: it makes a client, sends until it calls the cleanup     *)
(* function, or hands a consumer group back.                                *)

\* The options set a timeout to any value, after the environment was read.
Configured ==
  LET numbers == KafkaNumbers(env)
  IN  {numbers} \cup
      {[numbers EXCEPT ![s] = n] :
         s \in KafkaNumber \ {"KafkaMaxOpenRequests"}, n \in Number \cap 0 .. Word - 1}

\* SASL is used when there are both a user and a password.
Accepted ==
  \E numbers \in Configured, user, password \in BOOLEAN,
     mechanism \in {"", "PLAIN", "SCRAM"} :
    Validates(numbers, user /\ password, mechanism)

\* Mutant: the successes returned without the goroutine that takes them.
NewProducerNoDrainer ==
  /\ client = "none" /\ Accepted
  /\ client' = "producer"
  /\ printer' = TRUE
  /\ UNCHANGED <<env, st, drainer, cleanup>>

NewProducer ==
  /\ client = "none" /\ Accepted
  /\ client' = "producer"
  /\ printer' = TRUE /\ drainer' = TRUE
  /\ UNCHANGED <<env, st, cleanup>>

NewConsumerGroup ==
  /\ client = "none" /\ Accepted
  /\ client' = "group"
  /\ UNCHANGED <<env, st, printer, drainer, cleanup>>

\* Settings that are refused, or no broker.
NewFails ==
  /\ client = "none"
  /\ client' = "error"
  /\ UNCHANGED <<env, st, printer, drainer, cleanup>>

CloseGroup ==
  /\ client = "group"
  /\ client' = "closed"
  /\ UNCHANGED <<env, st, printer, drainer, cleanup>>

Send(m) ==
  /\ client = "producer"
  /\ cleanup = "no" /\ ~In("offered") /\ Move(m, "new", "offered")
  /\ UNCHANGED <<env, client, printer, drainer, cleanup>>

-----------------------------------------------------------------------------
(* sarama and its wrapper.                                                  *)

\* sarama takes in what the wrapper passes on.
TakeIn(m) ==
  /\ ~Full /\ Move(m, "offered", "sent")
  /\ UNCHANGED <<env, client, printer, drainer, cleanup>>

\* The broker answers, or the retries are used up.
Outcome(m) ==
  /\ ~In("failed") /\ ~In("succeeded")
  /\ Move(m, "sent", "failed") \/ Move(m, "sent", "succeeded")
  /\ UNCHANGED <<env, client, printer, drainer, cleanup>>

Hold(m) ==
  /\ \/ ~In("errHeld") /\ Move(m, "failed", "errHeld")
     \/ ~In("okHeld") /\ Move(m, "succeeded", "okHeld")
  /\ UNCHANGED <<env, client, printer, drainer, cleanup>>

CloseTakes(m) ==
  /\ cleanup = "closing"
  /\ Move(m, "failed", "closedErr") \/ Move(m, "succeeded", "closedOk")
  /\ UNCHANGED <<env, client, printer, drainer, cleanup>>

-----------------------------------------------------------------------------
(* The goroutines of NewProducer.                                           *)

\* Mutant: the goroutine is gone after its first failure.
PrintFailureOnce(m) ==
  /\ printer /\ Move(m, "errHeld", "printed")
  /\ printer' = FALSE
  /\ UNCHANGED <<env, client, drainer, cleanup>>

PrintFailure(m) ==
  /\ printer /\ Move(m, "errHeld", "printed")
  /\ UNCHANGED <<env, client, printer, drainer, cleanup>>

\* Mutant: nobody takes the successes although they are returned.
DropNothing(m) == FALSE /\ UNCHANGED vars

Drop(m) ==
  /\ drainer /\ Move(m, "okHeld", "dropped")
  /\ UNCHANGED <<env, client, printer, drainer, cleanup>>

\* A select that finds the context cancelled may choose to return even though
\* there is something to take.
PrinterReturns ==
  /\ printer /\ cleanup # "no"
  /\ printer' = FALSE
  /\ UNCHANGED <<env, client, st, drainer, cleanup>>

DrainerReturns ==
  /\ drainer /\ cleanup # "no"
  /\ drainer' = FALSE
  /\ UNCHANGED <<env, client, st, printer, cleanup>>

-----------------------------------------------------------------------------
(* The cleanup function.                                                    *)

Cancel ==
  /\ client = "producer"
  /\ cleanup = "no" /\ cleanup' = "cancelled"
  /\ UNCHANGED <<env, client, st, printer, drainer>>

\* Mutant: wait until our goroutines have taken what the wrapper holds.
CloseWaits ==
  /\ cleanup = "cancelled" /\ cleanup' = "closing"
  /\ ~In("errHeld") /\ ~In("okHeld")
  /\ UNCHANGED <<env, client, st, printer, drainer>>

\* The goroutine that passes messages on is free: it calls sarama's Close.
Close ==
  /\ cleanup = "cancelled" /\ cleanup' = "closing"
  /\ ~In("offered")
  /\ UNCHANGED <<env, client, st, printer, drainer>>

\* The result of Close, the failures it took, is not looked at.
CloseReturns ==
  /\ cleanup = "closing" /\ cleanup' = "returned"
  /\ ~In("sent") /\ ~In("failed") /\ ~In("succeeded")
  /\ UNCHANGED <<env, client, st, printer, drainer>>

-----------------------------------------------------------------------------
Goroutines == \/ \E m \in Message : PrintFailure(m) \/ Drop(m)
              \/ PrinterReturns \/ DrainerReturns

Next == \/ \E m \in Message :
             Send(m) \/ TakeIn(m) \/ Outcome(m) \/ Hold(m) \/ CloseTakes(m)
        \/ Goroutines
        \/ NewProducer \/ NewConsumerGroup \/ NewFails \/ CloseGroup
        \/ Cancel \/ Close \/ CloseReturns

Spec == Init /\ [][Next]_vars

\* The goroutines are scheduled, sarama takes in what it has room for, gives
\* every message an outcome, and Close, once called, takes what is handed over.
\* The application need not send anything, nor clean up.
Fairness ==
  /\ WF_vars(Close) /\ WF_vars(CloseReturns)
  /\ WF_vars(PrinterReturns) /\ WF_vars(DrainerReturns)
  /\ WF_vars(\E m \in Message : TakeIn(m))
  /\ WF_vars(\E m \in Message : Outcome(m))
  /\ WF_vars(\E m \in Message : Hold(m) \/ CloseTakes(m))
  /\ WF_vars(\E m \in Message : PrintFailure(m))
  /\ WF_vars(\E m \in Message : Drop(m))

FairSpec == Spec /\ Fairness

-----------------------------------------------------------------------------
(* Properties.                                                              *)

Settled(m) == st[m] \in {"printed", "dropped", "closedErr", "closedOk"}

\* The wrapper is passing on a message that sarama has no room for, because the
\* outcome sarama is handing over is of a kind of which the wrapper still holds
\* one; and our goroutines, who would take it, have returned.
Jammed ==
  /\ cleanup = "cancelled" /\ ~printer /\ ~drainer
  /\ In("offered") /\ Full
  /\ \/ In("failed") /\ In("errHeld")
     \/ In("succeeded") /\ In("okHeld")

\* The producer does not get stuck on outcomes nobody takes: as long as it is
\* not cleaned up every message sent is taken in and settled; and the cleanup
\* returns although our goroutines have stopped taking outcomes and the wrapper
\* may hold one of each for ever.  The exception is a cleanup that cancels them
\* (kafka.go:220) while messages back up as far as the wrapper: Close
\* (kafka.go:221) is then never heard, and the cleanup hangs for ever.
OutcomesFlow ==
  /\ \A m \in Message : st[m] = "offered" ~> (Settled(m) \/ cleanup # "no")
  /\ cleanup = "cancelled" ~> (cleanup = "returned" \/ []Jammed)

\* A variable has two readers, the clients' own and, through the env tags of
\* the same fields, LoadConfig: whenever LoadConfig takes a text, and the text
\* is of an int, the library is handed the number LoadConfig stores, however
\* wide it is.  The exception is the redis dial timeout, which is not handed
\* over at all.
SettingsAgree ==
  \A s \in Setting \ {"RedisDialTimeout"} :
    LoadEnvAccepts(s, env[s]) /\ env[s].n <= MaxInt =>
      LoadEnvReads(s, env[s]) =
        CASE s \in KafkaNumber -> KafkaNumbers(env)[s]
          [] s \in MysqlNumber -> MysqlNumbers(env)[s]
          [] s \in RedisNumber -> RedisNumbers(env)[s]
          [] s \in LogNumber -> LogNumbers(env)[s]
=============================================================================
