--------------------------- MODULE PartitionLease ---------------------------
(***************************************************************************)
(* The lease of one kind of work on one partition, as the lease store      *)
(* keeps it, and the guard a turn of work holds it by.  A guard learns     *)
(* that the lease is lost only by trying to renew it: between two renewals *)
(* the lease may lapse and another turn, even of the same owner, may       *)
(* acquire it.                                                             *)
(***************************************************************************)
EXTENDS Integers

CONSTANTS
  Turns,         \* turns of work that may be under way together
  OwnerOf,       \* the host that runs each turn
  NoOwner,       \* null
  LeaseSeconds,
  MaxTime,       \* bound: the clock stops here
  MaxTroubles    \* bound: crashes and failed calls

ASSUME LeaseAssumption ==
  /\ \A t \in Turns : OwnerOf[t] # NoOwner
  /\ LeaseSeconds \in Nat \ {0}
  /\ MaxTime \in Nat /\ MaxTroubles \in Nat

VARIABLES
  lease,     \* the row of the lease store
  guard,     \* what each turn holds: a fencing token, and whether it found it lost
  now,
  troubles   \* crashes and failed calls so far

leaseVars == <<lease, guard>>

Owners == {OwnerOf[t] : t \in Turns}
NoGuard == [token |-> 0, lost |-> FALSE]
Holding(t) == guard[t].token # 0

-----------------------------------------------------------------------------
(* The lease store. *)

\* Bug: only a release frees the lease.
IsFreeReleased == lease.owner = NoOwner

IsFree == lease.owner = NoOwner \/ lease.expires <= now

\* Bug: a renewal that goes by the owner alone.
RenewableByOwner(t) == lease.owner = OwnerOf[t] /\ lease.expires > now

Renewable(t) ==
  /\ lease.owner = OwnerOf[t] /\ lease.token = guard[t].token
  /\ lease.expires > now

-----------------------------------------------------------------------------
(* The guard. *)

Acquire(t) ==
  /\ IsFree /\ ~Holding(t)
  /\ lease' = [owner |-> OwnerOf[t], token |-> lease.token + 1, expires |-> now + LeaseSeconds]
  /\ guard' = [guard EXCEPT ![t] = [token |-> lease.token + 1, lost |-> FALSE]]

Owns(t) == ~guard[t].lost /\ Renewable(t)

AssertOwnership(t) ==
  \/ Owns(t) /\ lease' = [lease EXCEPT !.expires = now + LeaseSeconds] /\ UNCHANGED guard
  \/ ~Owns(t) /\ guard' = [guard EXCEPT ![t].lost = TRUE] /\ UNCHANGED lease

\* The timer, at any time while the turn lasts; a call that fails loses the guard.
Heartbeat(t) ==
  /\ Holding(t) /\ ~guard[t].lost
  /\ \/ AssertOwnership(t) /\ UNCHANGED troubles
     \/ /\ troubles < MaxTroubles /\ troubles' = troubles + 1
        /\ guard' = [guard EXCEPT ![t].lost = TRUE] /\ UNCHANGED lease

\* The turn ends.  A lease that another turn has acquired since is left alone.
Release(t) ==
  /\ guard' = [guard EXCEPT ![t] = NoGuard]
  /\ lease' = IF lease.owner = OwnerOf[t] /\ lease.token = guard[t].token
                THEN [lease EXCEPT !.owner = NoOwner] ELSE lease

\* The host stops, or the call that releases the lease fails.  Bound: not when the
\* clock would stop before the lease lapses.
Abandon(t) ==
  /\ troubles < MaxTroubles /\ troubles' = troubles + 1
  /\ lease.expires <= MaxTime
  /\ guard' = [guard EXCEPT ![t] = NoGuard]
  /\ UNCHANGED lease

Tick == now < MaxTime /\ now' = now + 1 /\ UNCHANGED <<leaseVars, troubles>>

LeaseInit ==
  /\ lease = [owner |-> NoOwner, token |-> 0, expires |-> 0]
  /\ guard = [t \in Turns |-> NoGuard]
  /\ now = 0 /\ troubles = 0

LeaseTypeOK ==
  /\ lease \in [owner : Owners \cup {NoOwner}, token : Nat, expires : Nat]
  /\ guard \in [Turns -> [token : 0..lease.token, lost : BOOLEAN]]
  /\ now \in Nat /\ troubles \in 0..MaxTroubles
=============================================================================
