------------------------------ MODULE EtcdStore ------------------------------
(****************************************************************************)
(* The part of an etcd cluster that the registry relies on: keys that hold  *)
(* a value only as long as the lease they were last written with is alive.  *)
(* This is external code (go.etcd.io/etcd/client/v3 and the server behind   *)
(* it), modelled from the calls registry.go makes: lease.Grant,             *)
(* client.Put(..., WithLease), client.Delete and the keep-alives that stop  *)
(* a lease from expiring.                                                   *)
(*                                                                          *)
(* The value stored under a key is left out: what one Register and its      *)
(* heartbeat write never changes.  What matters is which lease holds it.    *)
(****************************************************************************)
EXTENDS Naturals, FiniteSets

CONSTANTS Key,       \* the keys "name/id" of the instances
          MaxLease   \* bound on the leases somebody knows of at a time

ASSUME MaxLeaseAssumption == MaxLease \in Nat

VARIABLES kv,        \* the lease each key is attached to, NoLease if absent
          live       \* the leases granted that have not expired

storeVars == <<kv, live>>

NoLease == 0
LeaseId == 1..MaxLease

StoreTypeOK ==
  /\ kv \in [Key -> 0..MaxLease]
  /\ live \subseteq LeaseId

StoreInit ==
  /\ kv = [k \in Key |-> NoLease]
  /\ live = {}

GrantLease(l) ==
  /\ l \notin live
  /\ live' = live \cup {l}
  /\ UNCHANGED kv

\* A put with a lease moves the key from the lease it was attached to.
\* The server refuses a lease that has expired.
PutKey(k, l) ==
  /\ l \in live
  /\ kv' = [kv EXCEPT ![k] = l]
  /\ UNCHANGED live

DeleteKey(k) ==
  /\ kv' = [kv EXCEPT ![k] = NoLease]
  /\ UNCHANGED live

\* A lease whose time to live runs out takes the keys attached to it along.
ExpireLease(l) ==
  /\ l \in live
  /\ live' = live \ {l}
  /\ kv' = [k \in Key |-> IF kv[k] = l THEN NoLease ELSE kv[k]]

Present(k) == kv[k] # NoLease
=============================================================================
