------------------------------ MODULE Presence ------------------------------
(****************************************************************************)
(* What a service registry promises, whatever it is built on.  A write that *)
(* lists an instance is sent only while somebody has it registered; it may  *)
(* arrive late, even after the registration has ended, or not at all.  A    *)
(* listed instance may drop out at any time.  A confirmed deregistration    *)
(* takes the instance out of the list, and no write is sent for it from     *)
(* then on until the next registration.                                     *)
(****************************************************************************)
CONSTANT Key

VARIABLES phase,     \* the registration of each key: "absent", "in", "leaving"
          listed,    \* the keys a client of the registry finds
          underway   \* the keys with a write on its way

vars == <<phase, listed, underway>>

Init == /\ phase = [k \in Key |-> "absent"]
        /\ listed = {}
        /\ underway = {}

Enter(k) == /\ phase' = [phase EXCEPT ![k] = "in"]
            /\ UNCHANGED <<listed, underway>>

Send(k) == /\ phase[k] = "in"
           /\ underway' = underway \cup {k}
           /\ UNCHANGED <<phase, listed>>

\* A write arrives.  There may be others on their way for the same key.
Appear(k) == /\ k \in underway
             /\ listed' = listed \cup {k}
             /\ underway' \in {underway, underway \ {k}}
             /\ UNCHANGED phase

\* A registration that failed, or a deregistration that is not confirmed.
Leave(k) == /\ phase[k] = "in"
            /\ phase' = [phase EXCEPT ![k] = "leaving"]
            /\ UNCHANGED <<listed, underway>>

Confirm(k) == /\ phase[k] = "leaving"
              /\ phase' = [phase EXCEPT ![k] = "absent"]
              /\ listed' = listed \ {k}
              /\ UNCHANGED underway

\* Instances drop out of the list, and writes are lost.
Lapse == /\ listed' \in SUBSET listed
         /\ underway' \in SUBSET underway
         /\ UNCHANGED phase

\* The registering process dies: whatever it had in is on its way out.
Crash == /\ phase' = [k \in Key |-> IF phase[k] = "in" THEN "leaving"
                                                       ELSE phase[k]]
         /\ UNCHANGED <<listed, underway>>

Next == \/ \E k \in Key : Enter(k) \/ Send(k) \/ Appear(k) \/ Leave(k) \/ Confirm(k)
        \/ Lapse
        \/ Crash

Spec == Init /\ [][Next]_vars

\* An instance nobody registers any more drops out of the list and does not
\* come back, whatever was still on its way for it.
Drains == \A k \in Key :
  <>[](phase[k] # "in") => <>[](k \notin listed)
=============================================================================
