----------------------------- MODULE PermitPool -----------------------------
(***************************************************************************)
(* What the daemon's concurrency manager promises (pool.rs): a provider    *)
(* never serves more requests at once than its max_concurrency, and a      *)
(* request holds at most one permit.  The gateway, which keeps a semaphore *)
(* counter and guards that live in futures and spawned tasks, implements   *)
(* this specification (ChatGateway).                                       *)
(***************************************************************************)
EXTENDS Naturals, FiniteSets

CONSTANTS
  Requests,    \* the chat requests that ask for permits
  Providers,   \* the configured providers
  Limit        \* max_concurrency of each provider

VARIABLE holders   \* provider -> the requests that hold one of its permits

PoolTypeOK == holders \in [Providers -> SUBSET Requests]

PoolInit == holders = [p \in Providers |-> {}]

Acquire(r, p) ==
  /\ \A q \in Providers : r \notin holders[q]
  /\ Cardinality(holders[p]) < Limit[p]
  /\ holders' = [holders EXCEPT ![p] = @ \cup {r}]

Release(r, p) ==
  /\ r \in holders[p]
  /\ holders' = [holders EXCEPT ![p] = @ \ {r}]

PoolNext == \E r \in Requests, p \in Providers : Acquire(r, p) \/ Release(r, p)

PoolSpec == PoolInit /\ [][PoolNext]_holders

=============================================================================
