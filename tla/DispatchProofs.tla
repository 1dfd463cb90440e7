---------------------------- MODULE DispatchProofs ----------------------------
(***************************************************************************)
(* Theorems about the work on partitions.  SignalDispatch, for any turns   *)
(* and hosts, filter, batch and retry policy, with leases that lapse under *)
(* their turns and calls that fail anywhere: no event is skipped, none is  *)
(* tried too early or given up too soon, and an effect is begun under the  *)
(* newest token only.  ClusterHost, for any tenants, items, capacity and   *)
(* turns: tenants are served in turn, and a drain is final.                *)
(***************************************************************************)
EXTENDS SignalDispatch, ClusterHost, SequenceTheorems, FiniteSetTheorems,
        WellFoundedInduction, TLAPS

-----------------------------------------------------------------------------
(* The inductive invariant.  The store is consistent whichever turn writes *)
(* to it, fenced or not: what a turn knows of the events never goes stale, *)
(* since attempts, dead letters and the position only grow.                *)

StoreTypeOK ==
  /\ journal \in 0..MaxPosition /\ position \in 0..journal
  /\ attempts \in [1..MaxPosition -> Seq(Attempts)]
  /\ deadLetters \subseteq 1..journal

StoreOK == StoreTypeOK /\ NothingSkipped /\ AttemptsInOrder

\* An attempt at e failed for good, or as the last one.
Failed(e) == \E n \in DOMAIN attempts[e] :
  \/ attempts[e][n].verdict = "permanent"
  \/ attempts[e][n].verdict = "retryable" /\ n >= MaxAttempts

\* What is known of a turn whose local state is r.  A turn fenced meanwhile may find that
\* its attempt, or later ones, are on record: it then waits for nothing.
TurnOK(r) ==
  LET e == r.position + 1 IN
  /\ r \in TurnStates
  /\ r.position <= position
  /\ r.pc \in {"event"} \cup Effects => r.position <= r.upto /\ r.upto <= journal
  /\ r.pc \in Effects => r.position < r.upto
  /\ r.pc \in {"deliver", "record"} =>
       /\ e \in Matching /\ r.number >= 1 /\ r.number - 1 <= Len(attempts[e])
       /\ Len(attempts[e]) = r.number - 1 => NextAttemptAt(e) <= r.now
  /\ r.pc = "deadLetter" => Failed(e)
  /\ r.pc = "advance" => e \notin Matching \/ Settled(e)

TurnsOK ==
  /\ turn = [t \in Turns |-> turn[t]]
  /\ \A t \in Turns : TurnOK(turn[t])

IInv == LeaseTypeOK /\ now \in Nat /\ StoreOK /\ TurnsOK

-----------------------------------------------------------------------------
(* Powers of two are numbers: 2^n is the number of subsets of 1..n. *)

LEMMA PowerIsNat == ASSUME NEW n \in Nat PROVE 2^n \in Nat
<1>1. IsFiniteSet(1..n) /\ Cardinality(1..n) = n
  BY FS_Interval
<1>2. IsFiniteSet(SUBSET (1..n)) /\ Cardinality(SUBSET (1..n)) = 2^n
  BY <1>1, FS_SUBSET
<1> QED BY <1>2, FS_CardinalityType

LEMMA RetryDelayIsNat == ASSUME NEW n \in Nat \ {0} PROVE RetryDelay(n) \in Nat
<1> DEFINE exponent == IF n - 1 < 52 THEN n - 1 ELSE 52
<1>0. exponent \in Nat
  OBVIOUS
<1> HIDE DEF exponent
<1>1. 2^exponent \in Nat
  BY <1>0, PowerIsNat
<1>2. BaseDelay * 2^exponent \in Nat
  BY <1>1, DispatchAssumption
<1> QED BY <1>2, DispatchAssumption DEF RetryDelay, exponent

-----------------------------------------------------------------------------
(* The store. *)

LEMMA AttemptFields ==
  ASSUME StoreTypeOK, NEW e \in 1..MaxPosition
  PROVE  /\ attempts[e] \in Seq(Attempts) /\ Len(attempts[e]) \in Nat
         /\ DOMAIN attempts[e] = 1..Len(attempts[e])
         /\ \A n \in DOMAIN attempts[e] :
              /\ n \in Nat \ {0} /\ attempts[e][n] \in Attempts
              /\ attempts[e][n].at \in Nat /\ attempts[e][n].next \in Nat
              /\ attempts[e][n].verdict \in Verdicts
<1>1. attempts[e] \in Seq(Attempts)
  BY DEF StoreTypeOK
<1>2. Len(attempts[e]) \in Nat /\ DOMAIN attempts[e] = 1..Len(attempts[e])
  BY <1>1
<1>3. \A n \in DOMAIN attempts[e] : n \in Nat \ {0} /\ attempts[e][n] \in Attempts
  BY <1>1
<1> QED BY <1>1, <1>2, <1>3 DEF Attempts

\* What the calls rely on: nothing in the store is ever taken back.
StoreGrows ==
  /\ journal <= journal' /\ position <= position'
  /\ deadLetters \subseteq deadLetters'
  /\ \A e \in 1..MaxPosition :
       /\ Len(attempts[e]) <= Len(attempts'[e])
       /\ Len(attempts[e]) = Len(attempts'[e]) => attempts'[e] = attempts[e]
       /\ \A n \in DOMAIN attempts[e] : n \in DOMAIN attempts'[e] /\ attempts'[e][n] = attempts[e][n]

LEMMA SameStoreGrows ==
  ASSUME StoreTypeOK, UNCHANGED <<journal, store>>
  PROVE  StoreTypeOK' /\ StoreGrows
<1>1. journal \in Nat /\ position \in Nat
  BY DispatchAssumption DEF StoreTypeOK
<1>2. \A e \in 1..MaxPosition : Len(attempts[e]) \in Nat
  BY AttemptFields
<1> QED BY <1>1, <1>2 DEF StoreTypeOK, StoreGrows, store

LEMMA SameStoreOK ==
  ASSUME StoreOK, UNCHANGED <<journal, store>>
  PROVE  StoreOK' /\ StoreGrows
<1>1. StoreTypeOK' /\ StoreGrows
  BY SameStoreGrows DEF StoreOK
<1>2. NothingSkipped'
  BY DEF StoreOK, NothingSkipped, Settled, Accepted, store
<1>3. AttemptsInOrder'
  BY DEF StoreOK, AttemptsInOrder, DeadLettersJustified, BackoffKept, store
<1> QED BY <1>1, <1>2, <1>3 DEF StoreOK

\* What is settled, or has failed, stays so.
LEMMA SettledStays ==
  ASSUME StoreGrows, NEW e \in 1..MaxPosition
  PROVE  (Settled(e) => Settled(e)') /\ (Failed(e) => Failed(e)')
<1>1. ASSUME Settled(e) PROVE Settled(e)'
  BY <1>1 DEF StoreGrows, Settled, Accepted
<1>2. ASSUME Failed(e) PROVE Failed(e)'
  BY <1>2 DEF StoreGrows, Failed
<1> QED BY <1>1, <1>2

-----------------------------------------------------------------------------
(* The turns. *)

LEMMA TurnFields ==
  ASSUME NEW r \in TurnStates
  PROVE  /\ r.sure \in BOOLEAN /\ r.now \in Nat /\ r.position \in Nat /\ r.upto \in Nat
         /\ r.number \in Nat /\ r.verdict \in Verdicts
BY DEF TurnStates

\* A turn that is about to take an effect works on an event of the journal.
LEMMA CurrentIsPublished ==
  ASSUME StoreTypeOK, NEW r, TurnOK(r), r.pc \in Effects
  PROVE  r.position + 1 \in 1..journal /\ r.position + 1 \in 1..MaxPosition
<1>1. r.position \in Nat /\ r.upto \in Nat /\ r.upto <= journal /\ r.position < r.upto
  BY TurnFields DEF TurnOK
<1>2. journal \in Nat /\ journal <= MaxPosition
  BY DispatchAssumption DEF StoreTypeOK
<1> QED BY <1>1, <1>2, DispatchAssumption

LEMMA TurnStaysOK ==
  ASSUME StoreTypeOK, StoreTypeOK', StoreGrows, NEW r, TurnOK(r)
  PROVE  TurnOK(r)'
<1> DEFINE e == r.position + 1
<1>1. /\ r \in TurnStates /\ r.position \in Nat /\ r.upto \in Nat /\ r.number \in Nat /\ r.now \in Nat
      /\ r.position <= position
  BY TurnFields DEF TurnOK
<1>2. /\ journal \in Nat /\ journal' \in Nat /\ position \in Nat /\ position' \in Nat
      /\ journal <= journal' /\ position <= position'
  BY DispatchAssumption DEF StoreTypeOK, StoreGrows
<1>3. r.position <= position'
  BY <1>1, <1>2
<1>4. r.pc \in {"event"} \cup Effects => r.position <= r.upto /\ r.upto <= journal'
  BY <1>1, <1>2 DEF TurnOK
<1>5. ASSUME r.pc \in {"deliver", "record"}
      PROVE  /\ e \in Matching /\ r.number >= 1 /\ r.number - 1 <= Len(attempts'[e])
             /\ Len(attempts'[e]) = r.number - 1 => NextAttemptAt(e)' <= r.now
  <2>1. e \in 1..MaxPosition
    BY <1>5, CurrentIsPublished DEF Effects
  <2>2. Len(attempts[e]) \in Nat /\ Len(attempts'[e]) \in Nat
    BY <2>1, AttemptFields DEF StoreTypeOK
  <2>3. /\ e \in Matching /\ r.number >= 1 /\ r.number - 1 <= Len(attempts[e])
        /\ Len(attempts[e]) = r.number - 1 => NextAttemptAt(e) <= r.now
    BY <1>5 DEF TurnOK
  <2>4. /\ Len(attempts[e]) <= Len(attempts'[e])
        /\ Len(attempts[e]) = Len(attempts'[e]) => attempts'[e] = attempts[e]
    BY <2>1 DEF StoreGrows
  <2>5. attempts'[e] = attempts[e] => NextAttemptAt(e)' = NextAttemptAt(e)
    BY DEF NextAttemptAt
  <2> HIDE DEF e
  <2> QED BY <1>1, <2>2, <2>3, <2>4, <2>5
<1>6. r.pc \in {"deadLetter", "advance"} => e \in 1..MaxPosition
  BY CurrentIsPublished DEF Effects
<1>7. (r.pc = "deadLetter" => Failed(e)') /\ (r.pc = "advance" => e \notin Matching \/ Settled(e)')
  BY <1>6, SettledStays DEF TurnOK
<1>8. r.pc \in Effects => r.position < r.upto
  BY DEF TurnOK
<1> QED BY <1>1, <1>3, <1>4, <1>5, <1>7, <1>8 DEF TurnOK

\* A step of one turn, on a store that has grown.
LEMMA TurnStep ==
  ASSUME IInv, StoreTypeOK', StoreGrows, NEW t \in Turns, NEW r,
         turn' = [turn EXCEPT ![t] = r], TurnOK(r)'
  PROVE  TurnsOK'
<1>1. \A q : TurnOK(q) => TurnOK(q)'
  BY TurnStaysOK DEF IInv, StoreOK
<1>2. /\ turn = [u \in Turns |-> turn[u]]
      /\ \A u \in Turns : TurnOK(turn[u])
  BY DEF IInv, TurnsOK
<1>3. turn' = [u \in Turns |-> turn'[u]] /\ \A u \in Turns : turn'[u] \in {turn[u], r}
  BY <1>2
<1> QED BY <1>1, <1>2, <1>3 DEF TurnsOK

\* The same, on a store and a journal that stay as they are.
LEMMA QuietTurnStep ==
  ASSUME IInv, UNCHANGED <<journal, store>>, NEW t \in Turns, NEW r,
         turn' = [turn EXCEPT ![t] = r], TurnOK(r)
  PROVE  StoreOK' /\ TurnsOK'
<1>1. StoreOK' /\ StoreGrows
  BY SameStoreOK DEF IInv
<1>2. TurnOK(r)'
  BY <1>1, TurnStaysOK DEF IInv, StoreOK
<1> QED BY <1>1, <1>2, TurnStep DEF StoreOK

LEMMA IdleTurn ==
  ASSUME StoreTypeOK, NEW pc \in {"idle", "release", "caught"}
  PROVE  TurnOK([Idle EXCEPT !.pc = pc])
<1> DEFINE r == [Idle EXCEPT !.pc = pc]
<1>1. r \in TurnStates /\ r.pc = pc /\ r.position = 0
  BY DEF Idle, TurnStates, Verdicts
<1>2. position \in Nat
  BY DispatchAssumption DEF StoreTypeOK
<1> HIDE DEF r
<1>3. TurnOK(r)
  BY <1>1, <1>2 DEF TurnOK, Effects
<1> QED BY <1>3 DEF r

\* A turn quits, on a store that has grown.
LEMMA QuitStep ==
  ASSUME IInv, StoreTypeOK', StoreGrows, NEW t \in Turns, NEW pc \in {"idle", "release", "caught"},
         Quit(t, pc)
  PROVE  TurnsOK'
<1>1. TurnOK([Idle EXCEPT !.pc = pc])'
  BY IdleTurn, TurnStaysOK DEF IInv, StoreOK
<1> QED BY <1>1, TurnStep DEF Quit

-----------------------------------------------------------------------------
(* The lease.  Tokens only grow, and a guard's is never newer than the lease's. *)

LEMMA AcquireKeepsLease ==
  ASSUME LeaseTypeOK, now \in Nat, NEW t \in Turns, Acquire(t), UNCHANGED <<now, troubles>>
  PROVE  LeaseTypeOK'
<1>1. lease.token \in Nat /\ guard \in [Turns -> [token : 0..lease.token, lost : BOOLEAN]]
  BY DEF LeaseTypeOK
<1>2. /\ lease' = [owner |-> OwnerOf[t], token |-> lease.token + 1, expires |-> now + LeaseSeconds]
      /\ guard' = [guard EXCEPT ![t] = [token |-> lease.token + 1, lost |-> FALSE]]
  BY DEF Acquire
<1>3. lease' \in [owner : Owners \cup {NoOwner}, token : Nat, expires : Nat] /\ lease'.token = lease.token + 1
  BY <1>1, <1>2, LeaseAssumption DEF Owners
<1>4. guard' \in [Turns -> [token : 0..lease'.token, lost : BOOLEAN]]
  BY <1>1, <1>2, <1>3
<1> QED BY <1>3, <1>4 DEF LeaseTypeOK

LEMMA AssertKeepsLease ==
  ASSUME LeaseTypeOK, now \in Nat, NEW t \in Turns, AssertOwnership(t), UNCHANGED <<now, troubles>>
  PROVE  LeaseTypeOK'
<1>1. lease \in [owner : Owners \cup {NoOwner}, token : Nat, expires : Nat]
      /\ guard \in [Turns -> [token : 0..lease.token, lost : BOOLEAN]]
  BY DEF LeaseTypeOK
<1>2. CASE lease' = [lease EXCEPT !.expires = now + LeaseSeconds] /\ UNCHANGED guard
  BY <1>1, <1>2, LeaseAssumption DEF LeaseTypeOK
<1>3. CASE guard' = [guard EXCEPT ![t].lost = TRUE] /\ UNCHANGED lease
  BY <1>1, <1>3 DEF LeaseTypeOK
<1> QED BY <1>2, <1>3 DEF AssertOwnership

LEMMA HeartbeatKeepsLease ==
  ASSUME LeaseTypeOK, now \in Nat, NEW t \in Turns, Heartbeat(t), UNCHANGED now
  PROVE  LeaseTypeOK'
<1>1. CASE AssertOwnership(t) /\ UNCHANGED troubles
  BY <1>1, AssertKeepsLease
<1>2. CASE troubles < MaxTroubles /\ troubles' = troubles + 1
           /\ guard' = [guard EXCEPT ![t].lost = TRUE] /\ UNCHANGED lease
  <2>1. troubles' \in 0..MaxTroubles
    BY <1>2, LeaseAssumption DEF LeaseTypeOK
  <2>2. guard' \in [Turns -> [token : 0..lease.token, lost : BOOLEAN]]
    BY <1>2 DEF LeaseTypeOK
  <2> QED BY <1>2, <2>1, <2>2 DEF LeaseTypeOK
<1> QED BY <1>1, <1>2 DEF Heartbeat

\* The guard is given back, or abandoned with the lease as it is.
LEMMA ReleaseKeepsLease ==
  ASSUME LeaseTypeOK, NEW t \in Turns, guard' = [guard EXCEPT ![t] = NoGuard],
         lease' \in {lease, [lease EXCEPT !.owner = NoOwner]},
         troubles' \in 0..MaxTroubles, now' \in Nat
  PROVE  LeaseTypeOK'
<1>1. lease.token \in Nat /\ lease'.token = lease.token
      /\ lease' \in [owner : Owners \cup {NoOwner}, token : Nat, expires : Nat]
  BY DEF LeaseTypeOK
<1>2. guard' \in [Turns -> [token : 0..lease'.token, lost : BOOLEAN]]
  BY <1>1 DEF LeaseTypeOK, NoGuard
<1> QED BY <1>1, <1>2 DEF LeaseTypeOK

-----------------------------------------------------------------------------
(* One lemma for every step. *)

\* A step that leaves the store alone and moves one turn on.
LEMMA QuietStep ==
  ASSUME IInv, UNCHANGED <<journal, store>>, NEW t \in Turns, NEW r,
         turn' = [turn EXCEPT ![t] = r], TurnOK(r), LeaseTypeOK', now' \in Nat
  PROVE  IInv'
BY QuietTurnStep DEF IInv

LEMMA BeginStep ==
  ASSUME IInv, NEW t \in Turns, Begin(t)
  PROVE  IInv'
<1> DEFINE r == [turn[t] EXCEPT !.pc = "start", !.sure = FALSE]
<1>1. turn[t] \in TurnStates /\ turn[t].position <= position
  BY DEF IInv, TurnsOK, TurnOK
<1>2. r \in TurnStates /\ r.pc = "start" /\ r.position = turn[t].position
  BY <1>1 DEF TurnStates
<1>3. TurnOK(r)
  <2> HIDE DEF r
  <2> QED BY <1>1, <1>2 DEF TurnOK, Effects
<1>4. turn' = [turn EXCEPT ![t] = r]
  BY DEF Begin, Go, IInv, TurnsOK
<1>5. LeaseTypeOK' /\ now' \in Nat /\ UNCHANGED <<journal, store>>
  BY AcquireKeepsLease DEF Begin, IInv
<1> QED BY <1>3, <1>4, <1>5, QuietStep

LEMMA ReassertStep ==
  ASSUME IInv, NEW t \in Turns, Reassert(t)
  PROVE  IInv'
<1>1. LeaseTypeOK' /\ now' \in Nat /\ UNCHANGED <<journal, store>>
  BY AssertKeepsLease DEF Reassert, IInv
<1>2. turn[t] \in TurnStates /\ turn[t].position <= position /\ TurnOK(turn[t]) /\ now \in Nat
  BY DEF IInv, TurnsOK, TurnOK
<1>3. CASE Quit(t, "release")
  <2>1. TurnOK([Idle EXCEPT !.pc = "release"])
    BY IdleTurn DEF IInv, StoreOK
  <2> QED BY <1>1, <1>3, <2>1, QuietStep DEF Quit
<1>4. CASE turn' = [turn EXCEPT ![t].pc = "position", ![t].now = now]
  <2> DEFINE r == [turn[t] EXCEPT !.pc = "position", !.now = now]
  <2>1. r \in TurnStates /\ r.pc = "position" /\ r.position = turn[t].position
    BY <1>2 DEF TurnStates, Working
  <2>2. TurnOK(r)
    <3> HIDE DEF r
    <3> QED BY <1>2, <2>1 DEF TurnOK, Effects
  <2>3. turn' = [turn EXCEPT ![t] = r]
    BY <1>4 DEF IInv, TurnsOK
  <2> QED BY <1>1, <2>2, <2>3, QuietStep
<1>5. CASE turn' = [turn EXCEPT ![t].sure = TRUE]
  <2> DEFINE r == [turn[t] EXCEPT !.sure = TRUE]
  <2>1. /\ r \in TurnStates /\ r.pc = turn[t].pc /\ r.position = turn[t].position
        /\ r.upto = turn[t].upto /\ r.number = turn[t].number /\ r.now = turn[t].now
    BY <1>2 DEF TurnStates
  <2>2. TurnOK(r)
    <3> HIDE DEF r
    <3> QED BY <1>2, <2>1 DEF TurnOK
  <2>3. turn' = [turn EXCEPT ![t] = r]
    BY <1>5 DEF IInv, TurnsOK
  <2> QED BY <1>1, <2>2, <2>3, QuietStep
<1> QED BY <1>3, <1>4, <1>5 DEF Reassert, Effects

LEMMA BeatStep ==
  ASSUME IInv, NEW t \in Turns, Beat(t)
  PROVE  IInv'
<1> DEFINE r == turn[t]
<1>1. LeaseTypeOK' /\ now' \in Nat /\ UNCHANGED <<journal, store>>
  BY HeartbeatKeepsLease DEF Beat, IInv
<1>2. TurnOK(r) /\ turn' = [turn EXCEPT ![t] = r]
  BY DEF Beat, IInv, TurnsOK
<1> QED BY <1>1, <1>2, QuietStep

LEMMA ReadPositionStep ==
  ASSUME IInv, NEW t \in Turns, ReadPosition(t)
  PROVE  IInv'
<1> DEFINE r == [turn[t] EXCEPT !.pc = "events", !.position = position]
<1>1. turn[t] \in TurnStates /\ position \in Nat
  BY DispatchAssumption DEF IInv, TurnsOK, TurnOK, StoreOK, StoreTypeOK
<1>2. r \in TurnStates /\ r.pc = "events" /\ r.position = position
  BY <1>1 DEF TurnStates, Working
<1>3. TurnOK(r)
  <2> HIDE DEF r
  <2> QED BY <1>1, <1>2 DEF TurnOK, Effects
<1>4. turn' = [turn EXCEPT ![t] = r]
  BY DEF ReadPosition, IInv, TurnsOK
<1>5. LeaseTypeOK' /\ now' \in Nat /\ UNCHANGED <<journal, store>>
  BY DEF ReadPosition, IInv, LeaseTypeOK, leaseVars
<1> QED BY <1>3, <1>4, <1>5, QuietStep

LEMMA ReadEventsStep ==
  ASSUME IInv, NEW t \in Turns, ReadEvents(t)
  PROVE  IInv'
<1> DEFINE end == BatchEnd(turn[t].position)
           r == [turn[t] EXCEPT !.pc = "event", !.upto = end]
<1>1. turn[t] \in TurnStates /\ turn[t].position \in Nat /\ turn[t].position <= position
  BY TurnFields DEF IInv, TurnsOK, TurnOK
<1>2. end \in Nat /\ end <= journal /\ turn[t].position <= end
  <2>1. journal \in Nat /\ position \in Nat /\ position <= journal
    BY DispatchAssumption DEF IInv, StoreOK, StoreTypeOK
  <2>2. Limit \in Nat BY DispatchAssumption
  <2> QED BY <1>1, <2>1, <2>2 DEF BatchEnd
<1>3. r \in TurnStates /\ r.pc = "event" /\ r.position = turn[t].position /\ r.upto = end
  BY <1>1, <1>2 DEF TurnStates, Working
<1>4. TurnOK(r)
  <2> HIDE DEF r, end
  <2> QED BY <1>1, <1>2, <1>3 DEF TurnOK, Effects
<1>5. turn' = [turn EXCEPT ![t] = r]
  BY DEF ReadEvents, IInv, TurnsOK
<1>6. LeaseTypeOK' /\ now' \in Nat /\ UNCHANGED <<journal, store>>
  BY DEF ReadEvents, IInv, LeaseTypeOK, leaseVars
<1> QED BY <1>4, <1>5, <1>6, QuietStep

LEMMA ConsiderStep ==
  ASSUME IInv, NEW t \in Turns, Consider(t)
  PROVE  IInv'
<1> DEFINE r == turn[t]
           e == r.position + 1
<1>1. LeaseTypeOK' /\ now' \in Nat /\ UNCHANGED <<journal, store>>
  BY DEF Consider, IInv, LeaseTypeOK, leaseVars
<1>2. /\ r \in TurnStates /\ r.position <= position /\ r.upto <= journal
      /\ r.position <= r.upto /\ r.position \in Nat /\ r.upto \in Nat /\ StoreTypeOK
  BY TurnFields DEF Consider, IInv, TurnsOK, TurnOK, StoreOK
<1>3. CASE Quit(t, "release")
  <2>1. TurnOK([Idle EXCEPT !.pc = "release"])
    BY IdleTurn DEF IInv, StoreOK
  <2> QED BY <1>1, <1>3, <2>1, QuietStep DEF Quit
<1>4. CASE r.position < r.upto /\ e \notin Matching /\ Go(t, "advance")
  <2> DEFINE q == [r EXCEPT !.pc = "advance", !.sure = FALSE]
  <2>1. q \in TurnStates /\ q.pc = "advance" /\ q.position = r.position /\ q.upto = r.upto
    BY <1>2 DEF TurnStates, Working, Effects
  <2>2. TurnOK(q)
    <3> HIDE DEF q
    <3> QED BY <1>2, <1>4, <2>1 DEF TurnOK, Effects
  <2>3. turn' = [turn EXCEPT ![t] = q]
    BY <1>4 DEF Go, IInv, TurnsOK
  <2> QED BY <1>1, <2>2, <2>3, QuietStep
<1>5. CASE /\ r.position # r.upto /\ e \in Matching /\ IsDue(e, r.now)
           /\ turn' = [turn EXCEPT ![t].pc = "deliver", ![t].number = Len(attempts[e]) + 1]
  <2> DEFINE n == Len(attempts[e]) + 1
             q == [r EXCEPT !.pc = "deliver", !.number = n]
  <2>1. r.position < r.upto /\ e \in 1..MaxPosition
    <3>1. e \in 1..MaxPosition
      BY <1>5, DispatchAssumption
    <3> QED BY <1>2, <1>5, <3>1 DEF Consider
  <2>2. Len(attempts[e]) \in Nat /\ n \in Nat
    BY <1>2, <2>1, AttemptFields
  <2>3. /\ q \in TurnStates /\ q.pc = "deliver" /\ q.position = r.position /\ q.upto = r.upto
        /\ q.number = n /\ q.now = r.now
    <3> HIDE DEF n
    <3> QED BY <1>2, <2>2 DEF TurnStates, Working, Effects
  <2>4. TurnOK(q)
    <3> HIDE DEF q
    <3> QED BY <1>2, <1>5, <2>1, <2>2, <2>3 DEF TurnOK, Effects, IsDue
  <2>5. turn' = [turn EXCEPT ![t] = q]
    BY <1>5 DEF IInv, TurnsOK
  <2> QED BY <1>1, <2>4, <2>5, QuietStep
<1> QED BY <1>2, <1>3, <1>4, <1>5 DEF Consider, Current

LEMMA DeliverStep ==
  ASSUME IInv, NEW t \in Turns, Deliver(t)
  PROVE  IInv'
<1> DEFINE r == turn[t]
<1>1. LeaseTypeOK' /\ now' \in Nat /\ UNCHANGED <<journal, store>>
  BY DEF Deliver, IInv, LeaseTypeOK, leaseVars
<1>2. r \in TurnStates /\ TurnOK(r) /\ r.pc = "deliver"
  BY DEF Deliver, IInv, TurnsOK, TurnOK
<1>3. PICK v \in Verdicts :
        turn' = [turn EXCEPT ![t] = [r EXCEPT !.pc = "record", !.sure = FALSE, !.verdict = v]]
  BY DEF Deliver
<1> DEFINE q == [r EXCEPT !.pc = "record", !.sure = FALSE, !.verdict = v]
<1>4. /\ q \in TurnStates /\ q.pc = "record" /\ q.position = r.position /\ q.upto = r.upto
      /\ q.number = r.number /\ q.now = r.now
  BY <1>2, <1>3 DEF TurnStates, Working, Effects
<1>5. TurnOK(q)
  <2> HIDE DEF q
  <2> QED BY <1>2, <1>4 DEF TurnOK, Effects
<1> QED BY <1>1, <1>3, <1>5, QuietStep

\* An attempt that is put on record comes after the ones there are, not before its time,
\* and for an event that no other is settled ahead of.
LEMMA RecordedAttempt ==
  ASSUME StoreOK, NEW e \in 1..MaxPosition, NEW a \in Attempts,
         e \in Matching => position + 1 >= e, NextAttemptAt(e) <= a.at,
         attempts' = [attempts EXCEPT ![e] = Append(@, a)],
         UNCHANGED <<journal, position, deadLetters>>
  PROVE  /\ StoreOK' /\ StoreGrows
         /\ Len(attempts'[e]) = Len(attempts[e]) + 1 /\ attempts'[e][Len(attempts[e]) + 1] = a
<1> DEFINE n == Len(attempts[e]) + 1
<1>1. StoreTypeOK /\ attempts[e] \in Seq(Attempts) /\ Len(attempts[e]) \in Nat
      /\ attempts \in [1..MaxPosition -> Seq(Attempts)]
      /\ DOMAIN attempts[e] = 1..Len(attempts[e])
  BY AttemptFields DEF StoreOK, StoreTypeOK
<1>2. /\ attempts'[e] = Append(attempts[e], a)
      /\ \A f \in 1..MaxPosition : f # e => attempts'[f] = attempts[f]
  BY <1>1
<1>3. /\ attempts'[e] \in Seq(Attempts) /\ Len(attempts'[e]) = n /\ attempts'[e][n] = a
      /\ DOMAIN attempts'[e] = 1..n
      /\ \A i \in DOMAIN attempts[e] : i \in DOMAIN attempts'[e] /\ attempts'[e][i] = attempts[e][i]
  BY <1>1, <1>2
<1>4. StoreTypeOK'
  BY <1>1, <1>3 DEF StoreTypeOK
<1>5. StoreGrows
  <2>1. journal \in Nat /\ position \in Nat
    BY <1>1, DispatchAssumption DEF StoreTypeOK
  <2>2. \A f \in 1..MaxPosition : Len(attempts[f]) \in Nat
    BY <1>1, AttemptFields
  <2> QED BY <1>1, <1>2, <1>3, <2>1, <2>2 DEF StoreGrows
<1>6. NothingSkipped'
  <2>1. ASSUME NEW f \in Matching, f <= position' PROVE Settled(f)'
    <3>1. Settled(f) /\ f \in 1..MaxPosition
      BY <2>1, DispatchAssumption DEF StoreOK, NothingSkipped
    <3> QED BY <3>1, <1>5, SettledStays
  <2>2. ASSUME NEW f \in Matching, attempts'[f] # <<>> PROVE position' + 1 >= f
    <3>1. f \in 1..MaxPosition
      BY DispatchAssumption
    <3> QED BY <2>2, <3>1, <1>2 DEF StoreOK, NothingSkipped
  <2> QED BY <2>1, <2>2 DEF NothingSkipped
<1>7. DeadLettersJustified'
  <2>1. ASSUME NEW f \in deadLetters' PROVE Failed(f)'
    <3>1. Failed(f) /\ f \in 1..MaxPosition
      BY <2>1, <1>1, DispatchAssumption DEF StoreOK, StoreTypeOK, AttemptsInOrder, DeadLettersJustified, Failed
    <3> QED BY <3>1, <1>5, SettledStays
  <2> QED BY <2>1 DEF DeadLettersJustified, Failed
<1>8. BackoffKept'
  <2>1. ASSUME NEW f \in Matching, NEW i \in DOMAIN attempts'[f], i > 1
        PROVE  attempts'[f][i].at >= attempts'[f][i - 1].next
    <3>0. f \in 1..MaxPosition
      BY DispatchAssumption
    <3>1. CASE f # e
      BY <2>1, <3>0, <3>1, <1>2 DEF StoreOK, AttemptsInOrder, BackoffKept
    <3>2. CASE f = e /\ i # n
      <4>1. i \in DOMAIN attempts[e] /\ i - 1 \in DOMAIN attempts[e]
        BY <2>1, <3>2, <1>1, <1>3
      <4> QED BY <2>1, <3>2, <4>1, <1>3 DEF StoreOK, AttemptsInOrder, BackoffKept
    <3>3. CASE f = e /\ i = n
      <4>1. n - 1 = Len(attempts[e]) /\ n - 1 \in DOMAIN attempts[e] /\ attempts[e] # <<>>
        BY <2>1, <3>3, <1>1
      <4>2. attempts[e][n - 1].next <= a.at
        BY <4>1 DEF NextAttemptAt
      <4>3. attempts'[e][n] = a /\ attempts'[e][n - 1] = attempts[e][n - 1]
        BY <4>1, <1>3
      <4>4. a.at \in Nat /\ attempts[e][n - 1].next \in Nat
        BY <4>1, <1>1, AttemptFields DEF Attempts
      <4> HIDE DEF n
      <4> QED BY <3>3, <4>2, <4>3, <4>4
    <3> QED BY <3>1, <3>2, <3>3
  <2> QED BY <2>1 DEF BackoffKept
<1> QED BY <1>3, <1>4, <1>5, <1>6, <1>7, <1>8 DEF StoreOK, AttemptsInOrder

\* What a turn goes on with once its attempt is on record.
LEMMA AfterAttemptOK ==
  ASSUME IInv, StoreTypeOK', StoreGrows, NEW t \in Turns,
         turn[t].pc = "record", AfterAttempt(t),
         turn[t].number \in DOMAIN attempts'[Current(t)],
         attempts'[Current(t)][turn[t].number].verdict = turn[t].verdict
  PROVE  TurnsOK'
<1>0. PICK r : r = turn[t]
  OBVIOUS
<1> DEFINE e == r.position + 1
           pc == IF IsGivenUp(r) THEN "deadLetter" ELSE "advance"
           q == [r EXCEPT !.pc = pc, !.sure = FALSE, !.number = 0, !.verdict = "accepted"]
<1>1. /\ r \in TurnStates /\ TurnOK(r) /\ r.number \in Nat /\ r.position \in Nat /\ r.upto \in Nat
      /\ r.verdict \in Verdicts
  BY <1>0, TurnFields DEF IInv, TurnsOK, TurnOK
<1>2. CASE Retried(r)
  BY <1>0, <1>2, QuitStep DEF AfterAttempt
<1>3. CASE ~Retried(r) /\ turn' = [turn EXCEPT ![t] = q]
  <2>1. TurnOK(r)'
    BY <1>1, TurnStaysOK DEF IInv, StoreOK
  <2>2. q \in TurnStates /\ q.pc = pc /\ q.position = r.position /\ q.upto = r.upto
    BY <1>1 DEF TurnStates, Working, Effects, Verdicts
  <2>3. ASSUME pc = "deadLetter" PROVE Failed(e)'
    <3>1. r.verdict = "permanent" \/ (r.verdict = "retryable" /\ r.number >= MaxAttempts)
      BY <1>1, <1>3, <2>3 DEF IsGivenUp, Retried, IsLastAttempt, Verdicts
    <3> QED BY <1>0, <3>1 DEF Failed, Current
  <2>4. ASSUME pc = "advance" PROVE Settled(e)'
    <3>1. r.verdict = "accepted"
      BY <2>4 DEF IsGivenUp
    <3> QED BY <1>0, <3>1 DEF Settled, Accepted, Current
  <2>5. r.position <= position' /\ r.upto <= journal' /\ r.position < r.upto /\ r.position <= r.upto
    BY <1>0, <1>1, <2>1 DEF TurnOK, Effects
  <2>6. TurnOK(q)'
    <3> HIDE DEF q
    <3> QED BY <2>2, <2>3, <2>4, <2>5 DEF TurnOK, Effects
  <2> QED BY <1>3, <2>6, TurnStep
<1>4. ~Retried(r) => turn' = [turn EXCEPT ![t] = q]
  BY <1>0 DEF AfterAttempt, IInv, TurnsOK
<1> QED BY <1>2, <1>3, <1>4

LEMMA RecordStep ==
  ASSUME IInv, NEW t \in Turns, Record(t)
  PROVE  IInv'
<1>0. PICK r, e, a : r = turn[t] /\ e = Current(t) /\ a = AttemptOf(r)
  OBVIOUS
<1>1. LeaseTypeOK' /\ now' \in Nat /\ UNCHANGED <<journal, position, deadLetters>>
  BY DEF Record, IInv, LeaseTypeOK, leaseVars
<1>2. /\ r \in TurnStates /\ TurnOK(r) /\ r.pc = "record" /\ StoreOK /\ StoreTypeOK
      /\ r.number \in Nat \ {0} /\ r.now \in Nat /\ r.position \in Nat /\ r.verdict \in Verdicts
      /\ position \in Nat /\ r.position <= position
  <2>1. TurnOK(r) /\ r \in TurnStates /\ r.pc = "record" /\ StoreOK /\ StoreTypeOK
    BY <1>0 DEF Record, IInv, TurnsOK, TurnOK, StoreOK
  <2>2. r.number >= 1 /\ r.position <= position
    BY <2>1 DEF TurnOK
  <2>3. position \in Nat
    BY <2>1, DispatchAssumption DEF StoreTypeOK
  <2> QED BY <2>1, <2>2, <2>3, TurnFields
<1>3. /\ e = r.position + 1 /\ e \in 1..MaxPosition
      /\ r.number - 1 <= Len(attempts[e]) /\ Len(attempts[e]) \in Nat
      /\ Len(attempts[e]) = r.number - 1 => NextAttemptAt(e) <= r.now
  BY <1>0, <1>2, CurrentIsPublished, AttemptFields DEF TurnOK, Effects, Current
<1>4. a \in Attempts /\ a.at = r.now /\ a.verdict = r.verdict
  <2>1. a.next \in Nat
    <3>1. RetryDelay(r.number) \in Nat
      BY <1>2, RetryDelayIsNat
    <3> QED BY <1>0, <1>2, <3>1 DEF AttemptOf, NoRetry
  <2> QED BY <1>0, <1>2, <2>1 DEF AttemptOf, Attempts
<1>5. CASE Len(attempts[e]) < r.number
  <2>1. Len(attempts[e]) + 1 = r.number
    BY <1>2, <1>3, <1>5
  <2>2. attempts' = [attempts EXCEPT ![e] = Append(@, a)] /\ AfterAttempt(t)
    BY <1>0, <1>5 DEF Record
  <2>3. NextAttemptAt(e) <= a.at /\ position + 1 >= e
    BY <1>2, <1>3, <1>4, <2>1
  <2>4. StoreOK' /\ StoreGrows /\ Len(attempts'[e]) = r.number /\ attempts'[e][r.number] = a
    BY <1>1, <1>2, <1>3, <1>4, <2>1, <2>2, <2>3, RecordedAttempt
  <2>5. r.number \in DOMAIN attempts'[e]
    <3>1. attempts'[e] \in Seq(Attempts)
      BY <1>3, <2>4 DEF StoreOK, StoreTypeOK
    <3> QED BY <1>2, <2>4, <3>1
  <2>6. TurnsOK'
    BY <1>0, <1>2, <1>4, <2>2, <2>4, <2>5, AfterAttemptOK DEF StoreOK
  <2> QED BY <1>1, <2>4, <2>6 DEF IInv
<1>6. CASE ~(Len(attempts[e]) < r.number)
  <2>1. UNCHANGED <<journal, store>>
    BY <1>0, <1>1, <1>6 DEF Record, store
  <2>2. StoreOK' /\ StoreGrows
    BY <1>2, <2>1, SameStoreOK
  <2>3. CASE attempts[e][r.number] = a /\ AfterAttempt(t)
    <3>1. r.number \in DOMAIN attempts[e]
      BY <1>2, <1>3, <1>6, AttemptFields
    <3>2. attempts' = attempts
      BY <2>1 DEF store
    <3>3. TurnsOK'
      BY <1>0, <1>2, <1>4, <2>2, <2>3, <3>1, <3>2, AfterAttemptOK DEF StoreOK
    <3> QED BY <1>1, <2>2, <3>3 DEF IInv
  <2>4. CASE Quit(t, "caught")
    BY <1>1, <2>2, <2>4, QuitStep DEF IInv, StoreOK
  <2> QED BY <1>0, <1>6, <2>3, <2>4 DEF Record
<1> QED BY <1>5, <1>6

LEMMA DeadLetterStep ==
  ASSUME IInv, NEW t \in Turns, DeadLetter(t)
  PROVE  IInv'
<1>0. PICK r : r = turn[t]
  OBVIOUS
<1> DEFINE e == r.position + 1
           q == [r EXCEPT !.pc = "advance", !.sure = FALSE]
<1>1. /\ LeaseTypeOK' /\ now' \in Nat /\ UNCHANGED <<journal, position, attempts>>
      /\ deadLetters' = deadLetters \cup {e} /\ StoreOK /\ StoreTypeOK
  BY <1>0 DEF DeadLetter, IInv, StoreOK, LeaseTypeOK, leaseVars, Current
<1>2. r \in TurnStates /\ TurnOK(r) /\ r.pc = "deadLetter" /\ Failed(e)
  BY <1>0 DEF DeadLetter, IInv, TurnsOK, TurnOK
<1>3. e \in 1..journal /\ e \in 1..MaxPosition
  BY <1>1, <1>2, CurrentIsPublished DEF Effects
<1>4. StoreTypeOK' /\ StoreGrows
  <2>1. journal \in Nat /\ position \in Nat
    BY <1>1, DispatchAssumption DEF StoreTypeOK
  <2>2. \A f \in 1..MaxPosition : Len(attempts[f]) \in Nat
    BY <1>1, AttemptFields
  <2> HIDE DEF e
  <2> QED BY <1>1, <1>3, <2>1, <2>2 DEF StoreTypeOK, StoreGrows
<1>5. NothingSkipped'
  <2> HIDE DEF e
  <2> QED BY <1>1 DEF StoreOK, NothingSkipped, Settled, Accepted
<1>6. DeadLettersJustified'
  <2> HIDE DEF e
  <2> QED BY <1>1, <1>2 DEF StoreOK, AttemptsInOrder, DeadLettersJustified, Failed
<1>7. BackoffKept'
  BY <1>1 DEF StoreOK, AttemptsInOrder, BackoffKept
<1>8. TurnsOK'
  <2>1. TurnOK(r)' /\ Settled(e)'
    BY <1>1, <1>2, <1>4, TurnStaysOK DEF Settled
  <2>2. q \in TurnStates /\ q.pc = "advance" /\ q.position = r.position /\ q.upto = r.upto
    BY <1>2 DEF TurnStates, Working, Effects
  <2>3. TurnOK(q)'
    <3> HIDE DEF q
    <3> QED BY <1>2, <2>1, <2>2 DEF TurnOK, Effects
  <2>4. turn' = [turn EXCEPT ![t] = q]
    BY <1>0 DEF DeadLetter, Go, IInv, TurnsOK
  <2> QED BY <1>4, <2>3, <2>4, TurnStep
<1> QED BY <1>1, <1>4, <1>5, <1>6, <1>7, <1>8 DEF IInv, StoreOK, AttemptsInOrder

\* The position moves past an event that does not match or is settled.
LEMMA AdvanceStep ==
  ASSUME IInv, NEW t \in Turns, Advance(t)
  PROVE  IInv'
<1>0. PICK r : r = turn[t]
  OBVIOUS
<1> DEFINE e == r.position + 1
           q == [r EXCEPT !.pc = "event", !.sure = FALSE, !.position = e]
<1>1. /\ LeaseTypeOK' /\ now' \in Nat /\ UNCHANGED <<journal, attempts, deadLetters>>
      /\ StoreOK /\ StoreTypeOK
  BY DEF Advance, IInv, StoreOK, LeaseTypeOK, leaseVars
<1>2. /\ r \in TurnStates /\ TurnOK(r) /\ r.pc = "advance" /\ (e \notin Matching \/ Settled(e))
      /\ r.position \in Nat /\ r.upto \in Nat /\ r.position < r.upto /\ r.upto <= journal
  BY <1>0, TurnFields DEF Advance, IInv, TurnsOK, TurnOK, Effects
<1>3. e \in 1..journal /\ e \in 1..MaxPosition
  BY <1>1, <1>2, CurrentIsPublished DEF Effects
<1>4. journal \in Nat /\ position \in Nat
  BY <1>1, DispatchAssumption DEF StoreTypeOK
<1>5. CASE ~MayAdvance(t)
  <2>1. UNCHANGED <<journal, store>> /\ Quit(t, "release")
    BY <1>1, <1>5 DEF Advance, store
  <2>2. StoreOK' /\ StoreGrows
    BY <1>1, <2>1, SameStoreOK
  <2> QED BY <1>1, <2>1, <2>2, QuitStep DEF IInv, StoreOK
<1>6. CASE MayAdvance(t)
  <2>1. position = r.position /\ position' = e /\ turn' = [turn EXCEPT ![t] = q]
    BY <1>0, <1>6 DEF Advance, MayAdvance, Current, IInv, TurnsOK
  <2>2. StoreTypeOK' /\ StoreGrows
    <3>1. \A f \in 1..MaxPosition : Len(attempts[f]) \in Nat
      BY <1>1, AttemptFields
    <3> QED BY <1>1, <1>3, <1>4, <2>1, <3>1 DEF StoreTypeOK, StoreGrows
  <2>3. NothingSkipped'
    <3>1. ASSUME NEW f \in Matching
          PROVE  (f <= position' => Settled(f)') /\ (attempts'[f] # <<>> => position' + 1 >= f)
      <4>1. f \in Nat
        BY DispatchAssumption
      <4>2. f <= position' => f <= position \/ f = e
        BY <1>4, <2>1, <4>1
      <4>3. Settled(f) => Settled(f)'
        BY <1>1 DEF Settled, Accepted
      <4>4. attempts'[f] # <<>> => position + 1 >= f
        BY <1>1 DEF StoreOK, NothingSkipped
      <4>5. f <= position => Settled(f)
        BY <1>1 DEF StoreOK, NothingSkipped
      <4>6. f = e => Settled(f)
        BY <1>2
      <4> QED BY <1>4, <2>1, <4>1, <4>2, <4>3, <4>4, <4>5, <4>6
    <3> QED BY <3>1 DEF NothingSkipped
  <2>4. AttemptsInOrder'
    BY <1>1 DEF StoreOK, AttemptsInOrder, DeadLettersJustified, BackoffKept
  <2>5. q \in TurnStates /\ q.pc = "event" /\ q.position = e /\ q.upto = r.upto
    <3>1. e \in Nat
      BY <1>2
    <3> HIDE DEF e
    <3> QED BY <1>2, <3>1 DEF TurnStates, Working
  <2>6. TurnOK(q)'
    <3> HIDE DEF q
    <3> QED BY <1>1, <1>2, <2>1, <2>5 DEF TurnOK, Effects
  <2>7. TurnsOK'
    BY <2>1, <2>2, <2>6, TurnStep
  <2> QED BY <1>1, <2>2, <2>3, <2>4, <2>7 DEF IInv, StoreOK
<1> QED BY <1>5, <1>6

LEMMA ThrowStep ==
  ASSUME IInv, NEW t \in Turns, Throw(t)
  PROVE  IInv'
<1>1. UNCHANGED <<journal, store>> /\ now' \in Nat /\ Quit(t, "caught")
  BY DEF Throw, IInv
<1>2. LeaseTypeOK'
  BY LeaseAssumption DEF Throw, IInv, LeaseTypeOK, leaseVars
<1>3. StoreOK' /\ StoreGrows
  BY <1>1, SameStoreOK DEF IInv
<1> QED BY <1>1, <1>2, <1>3, QuitStep DEF IInv, StoreOK

\* The turn is over: it was released, or its host stopped.
LEMMA EndStep ==
  ASSUME IInv, NEW t \in Turns, End(t) \/ Crash(t)
  PROVE  IInv'
<1>1. UNCHANGED <<journal, store>> /\ now' \in Nat
  BY DEF End, Crash, IInv
<1>2. turn' = [turn EXCEPT ![t] = Idle]
  BY DEF End, Crash
<1>3. TurnOK(Idle)
  <2>1. Idle = [Idle EXCEPT !.pc = "idle"]
    BY DEF Idle
  <2> QED BY <2>1, IdleTurn DEF IInv, StoreOK
<1>4. LeaseTypeOK'
  <2>1. guard' = [guard EXCEPT ![t] = NoGuard] /\ lease' \in {lease, [lease EXCEPT !.owner = NoOwner]}
    BY DEF End, Crash, Release, Abandon
  <2>2. troubles' \in 0..MaxTroubles
    BY LeaseAssumption DEF End, Crash, Abandon, IInv, LeaseTypeOK
  <2> QED BY <1>1, <2>1, <2>2, ReleaseKeepsLease DEF IInv
<1> QED BY <1>1, <1>2, <1>3, <1>4, QuietStep

\* The journal grows, time passes, or nothing happens.
LEMMA OutsideStep ==
  ASSUME IInv, Publish \/ Pass \/ UNCHANGED vars
  PROVE  IInv'
<1>1. journal \in Nat /\ position \in Nat /\ now \in Nat /\ StoreTypeOK
  BY DispatchAssumption DEF IInv, StoreOK, StoreTypeOK
<1>2. /\ journal' \in {journal, journal + 1} /\ journal' <= MaxPosition
      /\ UNCHANGED <<leaseVars, troubles, store, turn>>
  BY DispatchAssumption DEF Publish, Pass, Tick, vars, IInv, StoreOK, StoreTypeOK
<1>3. now' \in Nat /\ LeaseTypeOK'
  BY <1>1, <1>2 DEF Publish, Pass, Tick, vars, IInv, LeaseTypeOK, leaseVars
<1>4. StoreTypeOK' /\ StoreGrows
  <2>1. \A e \in 1..MaxPosition : Len(attempts[e]) \in Nat
    BY <1>1, AttemptFields
  <2> QED BY <1>1, <1>2, <2>1, DispatchAssumption DEF StoreTypeOK, StoreGrows, store
<1>5. NothingSkipped' /\ AttemptsInOrder'
  BY <1>2 DEF IInv, StoreOK, NothingSkipped, Settled, Accepted, AttemptsInOrder,
       DeadLettersJustified, BackoffKept, store
<1>6. TurnsOK'
  <2>1. \A r : TurnOK(r) => TurnOK(r)'
    BY <1>1, <1>4, TurnStaysOK
  <2>2. turn' = turn
    BY <1>2
  <2> QED BY <2>1, <2>2 DEF IInv, TurnsOK
<1> QED BY <1>3, <1>4, <1>5, <1>6 DEF IInv, StoreOK

LEMMA InitHolds == Init => IInv
<1> SUFFICES ASSUME Init PROVE IInv
  OBVIOUS
<1>1. LeaseTypeOK
  BY LeaseAssumption DEF Init, LeaseInit, LeaseTypeOK, NoGuard
<1>2. StoreTypeOK
  BY DispatchAssumption DEF Init, StoreTypeOK
<1>3. NothingSkipped
  <2>1. ASSUME NEW e \in Matching
        PROVE  ~(e <= position) /\ attempts[e] = <<>>
    BY DispatchAssumption DEF Init
  <2> QED BY <2>1 DEF NothingSkipped
<1>4. AttemptsInOrder
  <2>1. \A e \in Matching : DOMAIN attempts[e] = {}
    BY DispatchAssumption DEF Init
  <2> QED BY <2>1 DEF Init, AttemptsInOrder, DeadLettersJustified, BackoffKept
<1>5. TurnOK(Idle)
  <2>1. Idle = [Idle EXCEPT !.pc = "idle"]
    BY DEF Idle
  <2> QED BY <1>2, <2>1, IdleTurn
<1>6. TurnsOK
  BY <1>5 DEF Init, TurnsOK
<1> QED BY <1>1, <1>2, <1>3, <1>4, <1>6 DEF Init, IInv, LeaseInit, StoreOK

LEMMA NextHolds == IInv /\ [Next]_vars => IInv'
<1> SUFFICES ASSUME IInv, [Next]_vars PROVE IInv'
  OBVIOUS
<1>1. CASE Publish \/ Pass \/ UNCHANGED vars
  BY <1>1, OutsideStep
<1>2. ASSUME NEW t \in Turns, Begin(t) \/ Step(t) \/ Beat(t) \/ Throw(t) \/ Crash(t)
      PROVE  IInv'
  BY <1>2, BeginStep, ReassertStep, ReadPositionStep, ReadEventsStep, ConsiderStep, DeliverStep,
     RecordStep, DeadLetterStep, AdvanceStep, EndStep, BeatStep, ThrowStep DEF Step
<1> QED BY <1>1, <1>2 DEF Next

\* Whatever turns are fenced, crash or fail, the position passes an event that matches only
\* if an attempt at it was accepted or it is a dead letter, and no event is tried before
\* those ahead of it are settled.
THEOREM PositionSkipsNothing == Spec => []NothingSkipped
<1>1. IInv => NothingSkipped
  BY DEF IInv, StoreOK
<1> QED BY <1>1, InitHolds, NextHolds, PTL DEF Spec

\* No attempt on record was made before the time set by the one before it, and an event is
\* given up only for a permanent failure or after the last attempt.
THEOREM AttemptsKeepOrder == Spec => []AttemptsInOrder
<1>1. IInv => AttemptsInOrder
  BY DEF IInv, StoreOK
<1> QED BY <1>1, InitHolds, NextHolds, PTL DEF Spec

\* Of all steps only Reassert makes a turn sure of its lease, and only if it owns it.
LEMMA OnlyOwnersAreSure ==
  ASSUME IInv, NEW t \in Turns, NEW v \in Turns,
         Begin(v) \/ Step(v) \/ Beat(v) \/ Throw(v) \/ Crash(v),
         turn'[t].sure, ~turn[t].sure
  PROVE  v = t /\ Owns(t)
<1>1. turn = [s \in Turns |-> turn[s]] /\ turn[t] \in TurnStates
  BY DEF IInv, TurnsOK, TurnOK
<1>2. v = t
  <2>1. ASSUME v # t PROVE turn'[t] = turn[t]
    <3>1. CASE Begin(v) \/ Beat(v) \/ Throw(v) \/ Crash(v)
      BY <1>1, <2>1, <3>1 DEF Begin, Beat, Throw, Crash, Go, Quit
    <3>2. CASE Reassert(v) \/ ReadPosition(v) \/ ReadEvents(v) \/ Consider(v)
      BY <1>1, <2>1, <3>2 DEF Reassert, ReadPosition, ReadEvents, Consider, Go, Quit
    <3>3. CASE Deliver(v) \/ Record(v)
      BY <1>1, <2>1, <3>3 DEF Deliver, Record, AfterAttempt, Quit
    <3>4. CASE DeadLetter(v) \/ Advance(v) \/ End(v)
      BY <1>1, <2>1, <3>4 DEF DeadLetter, Advance, End, Go, Quit
    <3> QED BY <3>1, <3>2, <3>3, <3>4 DEF Step
  <2> QED BY <2>1
<1>3. ~Idle.sure
  BY DEF Idle
<1>4. ASSUME NEW pc, Quit(t, pc) PROVE FALSE
  <2>1. turn'[t] = [Idle EXCEPT !.pc = pc]
    BY <1>1, <1>4 DEF Quit
  <2>2. ~turn'[t].sure
    BY <2>1 DEF Idle
  <2> QED BY <2>2
<1>5. ASSUME NEW pc, Go(t, pc) PROVE FALSE
  BY <1>1, <1>5 DEF Go, TurnStates
<1>6. ~(Begin(t) \/ Throw(t) \/ DeadLetter(t))
  BY <1>4, <1>5 DEF Begin, Throw, DeadLetter, Consider
<1>7. ~(Beat(t) \/ End(t) \/ Crash(t))
  BY <1>1, <1>3 DEF Beat, End, Crash
<1>8. ~(ReadPosition(t) \/ ReadEvents(t))
  BY <1>1 DEF ReadPosition, ReadEvents, TurnStates
<1>9. ~Consider(t)
  BY <1>1, <1>4, <1>5 DEF Consider, TurnStates
<1>10. ~Deliver(t)
  BY <1>1 DEF Deliver, TurnStates
<1>11. ~Record(t)
  <2>1. ~AfterAttempt(t)
    BY <1>1, <1>4 DEF AfterAttempt, TurnStates
  <2> QED BY <2>1, <1>4 DEF Record
<1>12. ~Advance(t)
  BY <1>1, <1>4 DEF Advance, TurnStates
<1>13. ASSUME Reassert(t) PROVE Owns(t)
  BY <1>4, <1>13 DEF Reassert
<1> QED BY <1>2, <1>6, <1>7, <1>8, <1>9, <1>10, <1>11, <1>12, <1>13 DEF Step

\* A turn asserts its ownership of the lease only with the newest fencing token given out.
THEOREM OldOwnersAreFenced == Spec => FencedOut
<1>1. ASSUME IInv, [Next]_vars
      PROVE  [\A t \in Turns :
                turn'[t].sure /\ ~turn[t].sure => \A u \in Turns : guard[u].token <= guard[t].token]_vars
  <2>1. ASSUME NEW t \in Turns, turn'[t].sure, ~turn[t].sure, NEW u \in Turns
        PROVE  guard[u].token <= guard[t].token
    <3>1. turn[t].sure \in BOOLEAN /\ turn[t].sure # turn'[t].sure
      BY <1>1, <2>1, TurnFields DEF IInv, TurnsOK, TurnOK
    <3>2. turn' # turn
      BY <3>1
    <3>3. PICK v \in Turns : Begin(v) \/ Step(v) \/ Beat(v) \/ Throw(v) \/ Crash(v)
      BY <1>1, <3>2 DEF Next, Publish, Pass, vars
    <3>4. Owns(t)
      BY <1>1, <2>1, <3>3, OnlyOwnersAreSure
    <3>5. lease.token = guard[t].token /\ guard[u].token \in 0..lease.token
      BY <1>1, <3>4 DEF Owns, Renewable, IInv, LeaseTypeOK
    <3> QED BY <3>5
  <2> QED BY <2>1
<1> QED BY <1>1, InitHolds, NextHolds, PTL DEF Spec, FencedOut

-----------------------------------------------------------------------------
(* The ready queue of a host. *)

\* Induction over the natural numbers, for a set instead of a predicate.
LEMMA Induction ==
  ASSUME NEW S, 0 \in S, \A n \in Nat : n \in S => n + 1 \in S
  PROVE  \A n \in Nat : n \in S
<1> SUFFICES ASSUME NEW m \in Nat, m \notin S PROVE FALSE
  OBVIOUS
<1> DEFINE T == {n \in Nat : n \notin S}
<1>1. T \subseteq Nat /\ T # {} OBVIOUS
<1> HIDE DEF T
<1>2. PICK x \in T : \A y \in T : <<y, x>> \notin OpToRel(<, Nat)
  BY <1>1, NatLessThanWellFounded, WFMin, Zenon
<1>3. x \in Nat /\ x \notin S BY DEF T
<1>4. x # 0 BY <1>3
<1>5. x - 1 \in Nat /\ x - 1 + 1 = x BY <1>3, <1>4
<1>6. x - 1 \in T BY <1>3, <1>5 DEF T
<1>7. <<x - 1, x>> \in OpToRel(<, Nat) BY <1>3, <1>5 DEF OpToRel
<1> QED BY <1>2, <1>6, <1>7

Served == {"not served", "stayed", "left"}
Queues ==
  [order : Seq(TenantSet), items : [TenantSet -> Seq(Items)], next : Nat, count : Int,
   passed : [TenantSet -> [TenantSet -> Served]]]

\* The order lists each tenant that has items once, and next is a place in it.
OrderOK(q) ==
  /\ q.next < Len(q.order) \/ (q.order = <<>> /\ q.next = 0)
  /\ \A i, j \in 1..Len(q.order) : q.order[i] = q.order[j] => i = j
  /\ \A t \in TenantSet : (\E i \in 1..Len(q.order) : q.order[i] = t) <=> q.items[t] # <<>>

\* How many tenants come before the i-th of the order, and itself, counted from the start of
\* this round: those before next have their place in the next round.
Place(q, i) == IF i > q.next THEN i ELSE i + Len(q.order)

\* Who was served while w waited, and has stayed in the order, waits behind w.
GoneBehind(q) ==
  \A w, u \in TenantSet :
    q.passed[w][u] = "stayed" =>
      \E i, j \in 1..Len(q.order) :
        q.order[i] = w /\ q.order[j] = u /\ Place(q, i) < Place(q, j)

QueueOK(q) == q \in Queues /\ OrderOK(q) /\ GoneBehind(q)

HostTurns == [item : Items, next : {"work", "end", "give up"}]

HostIInv ==
  /\ hostState \in {"idle", "running", "draining", "stopped"}
  /\ hints \subseteq Items
  /\ underWay \in Seq(HostTurns)
  /\ poll \in [pc : {"idle", "scan", "offer", "pump", "done"}, tenant : Nat, page : SUBSET Items]
  /\ ingest \in [pc : {"idle", "next", "offer", "settle", "done"}, item : Items \cup {NoItem}]
  /\ ingest.pc \in {"offer", "settle"} => ingest.item \in Items
  /\ QueueOK(queue)
  /\ Stopping => queue = EmptyQueue

-----------------------------------------------------------------------------
LEMMA NothingQueued == QueueOK(EmptyQueue)
<1>1. EmptyQueue \in Queues BY DEF EmptyQueue, NotServed, Queues, Served
<1>2. OrderOK(EmptyQueue) BY DEF EmptyQueue, OrderOK
<1>3. GoneBehind(EmptyQueue) BY DEF EmptyQueue, GoneBehind, NotServed
<1> QED BY <1>1, <1>2, <1>3 DEF QueueOK

LEMMA TenantsOfItems == \A i \in Items : TenantOf[i] \in TenantSet
BY HostAssumption DEF TenantSet

\* An item offered goes behind those of its tenant, a tenant that comes back behind all others.
LEMMA OfferKeepsQueue ==
  ASSUME NEW q, QueueOK(q), NEW i \in Items
  PROVE  QueueOK(Offer(q, i))
<1> DEFINE t == TenantOf[i]
           order == IF q.items[t] = <<>> THEN Append(q.order, t) ELSE q.order
           items == [q.items EXCEPT ![t] = Append(@, i)]
           r == [order |-> order, items |-> items, next |-> q.next, count |-> q.count + 1,
                 passed |-> q.passed]
<1> SUFFICES QueueOK(r)
  BY DEF Offer
<1> USE DEF QueueOK
<1>1. t \in TenantSet BY TenantsOfItems
<1>2. q \in Queues /\ q.order \in Seq(TenantSet) /\ q.items \in [TenantSet -> Seq(Items)]
      /\ q.items[t] \in Seq(Items) /\ q.next \in Nat /\ q.count \in Int
      /\ q.passed \in [TenantSet -> [TenantSet -> Served]]
  BY <1>1 DEF Queues
<1>3. /\ r.order = order /\ r.items = items /\ r.next = q.next /\ r.count = q.count + 1
      /\ r.passed = q.passed
  BY <1>2 DEF Queues
<1>4. order \in Seq(TenantSet) /\ items \in [TenantSet -> Seq(Items)]
  BY <1>1, <1>2
<1>5. r \in Queues
  <2> HIDE DEF t, order, items
  <2> QED BY <1>2, <1>4 DEF Queues
<1> HIDE DEF r
<1>6. items[t] # <<>> /\ \A u \in TenantSet \ {t} : items[u] = q.items[u]
  <2>1. items[t] = Append(q.items[t], i) BY <1>1, <1>2
  <2>2. \A s \in Seq(Items) : Append(s, i) # <<>> BY AppendProperties
  <2>3. items[t] # <<>> BY <2>1, <2>2, <1>2
  <2>4. \A u \in TenantSet \ {t} : items[u] = q.items[u] BY <1>2
  <2> QED BY <2>3, <2>4
<1>7. /\ Len(q.order) \in Nat /\ Len(order) \in Nat /\ Len(q.order) <= Len(order)
      /\ \A k \in 1..Len(q.order) : order[k] = q.order[k]
      /\ \A k \in 1..Len(order) : k \in 1..Len(q.order)
                                  \/ (k = Len(q.order) + 1 /\ order[k] = t /\ q.items[t] = <<>>)
      /\ q.items[t] = <<>> => order[Len(q.order) + 1] = t /\ Len(order) = Len(q.order) + 1
  <2> HIDE DEF t
  <2>1. CASE q.items[t] = <<>>
    <3>1. order = Append(q.order, t) BY <2>1
    <3> HIDE DEF order
    <3> QED BY <1>1, <1>2, <2>1, <3>1, AppendProperties
  <2>2. CASE q.items[t] # <<>>
    <3>1. order = q.order BY <2>2
    <3> HIDE DEF order
    <3> QED BY <1>2, <2>2, <3>1
  <2> QED BY <2>1, <2>2
<1>8. OrderOK(r)
  <2> HIDE DEF t, order, items
  <2>1. q.next < Len(order) \/ (order = <<>> /\ q.next = 0)
    <3>1. q.next < Len(q.order) \/ (q.order = <<>> /\ q.next = 0) BY DEF OrderOK
    <3>2. CASE q.items[t] = <<>> BY <3>1, <3>2, <1>7, <1>2
    <3>3. CASE q.items[t] # <<>> BY <3>1, <3>3 DEF order
    <3> QED BY <3>2, <3>3
  <2>2. \A k, l \in 1..Len(order) : order[k] = order[l] => k = l
    BY <1>1, <1>7 DEF OrderOK
  <2>3. ASSUME NEW u \in TenantSet
        PROVE  (\E k \in 1..Len(order) : order[k] = u) <=> items[u] # <<>>
    <3>1. (\E k \in 1..Len(q.order) : q.order[k] = u) <=> q.items[u] # <<>> BY DEF OrderOK
    <3>2. CASE u = t
      <4>1. CASE q.items[t] = <<>> BY <4>1, <3>2, <1>6, <1>7
      <4>2. CASE q.items[t] # <<>> BY <4>2, <3>1, <3>2, <1>6, <1>7
      <4> QED BY <4>1, <4>2
    <3>3. CASE u # t BY <3>1, <3>3, <1>6, <1>7
    <3> QED BY <3>2, <3>3
  <2> QED BY <2>1, <2>2, <2>3, <1>3 DEF OrderOK
<1>9. GoneBehind(r)
  <2> HIDE DEF t, order, items
  <2> SUFFICES ASSUME NEW w \in TenantSet, NEW u \in TenantSet, q.passed[w][u] = "stayed"
               PROVE  \E k, l \in 1..Len(order) :
                        order[k] = w /\ order[l] = u /\ Place(r, k) < Place(r, l)
    BY <1>3 DEF GoneBehind
  <2>1. PICK k, l \in 1..Len(q.order) :
          q.order[k] = w /\ q.order[l] = u /\ Place(q, k) < Place(q, l)
    BY DEF GoneBehind
  <2>2. k \in 1..Len(order) /\ l \in 1..Len(order) /\ order[k] = w /\ order[l] = u
    BY <2>1, <1>7
  <2>3. Place(r, k) < Place(r, l)
    BY <2>1, <1>2, <1>3, <1>7 DEF Place
  <2> QED BY <2>2, <2>3
<1> QED BY <1>5, <1>8, <1>9

LEMMA RemoveAtFacts ==
  ASSUME NEW S, NEW s \in Seq(S), NEW i \in 1..Len(s)
  PROVE  /\ RemoveAt(s, i) \in Seq(S)
         /\ Len(s) \in Nat /\ Len(RemoveAt(s, i)) = Len(s) - 1
         /\ \A k \in 1..Len(s) - 1 : RemoveAt(s, i)[k] = IF k < i THEN s[k] ELSE s[k + 1]
<1> DEFINE a == SubSeq(s, 1, i - 1)
           b == SubSeq(s, i + 1, Len(s))
<1>1. i \in Int /\ Len(s) \in Nat /\ i - 1 \in Int /\ i + 1 \in Int /\ 1 <= i /\ i <= Len(s)
      /\ \A k \in 1..Len(s) : s[k] \in S
  OBVIOUS
<1>2. /\ a \in Seq(S) /\ Len(a) = i - 1
      /\ \A k \in 1..i - 1 : a[k] = s[k]
  <2>1. \A k \in 1..i - 1 : s[k] \in S BY <1>1
  <2>2. /\ a \in Seq(S) /\ Len(a) = IF 1 <= i - 1 THEN i - 1 - 1 + 1 ELSE 0
        /\ \A k \in 1..i - 1 - 1 + 1 : a[k] = s[1 + k - 1]
    BY <1>1, <2>1, SubSeqProperties
  <2> HIDE DEF a
  <2> QED BY <1>1, <2>2
<1>3. /\ b \in Seq(S) /\ Len(b) = Len(s) - i
      /\ \A k \in 1..Len(s) - i : b[k] = s[i + k]
  <2>1. \A k \in i + 1..Len(s) : s[k] \in S BY <1>1
  <2>2. /\ b \in Seq(S) /\ Len(b) = IF i + 1 <= Len(s) THEN Len(s) - (i + 1) + 1 ELSE 0
        /\ \A k \in 1..Len(s) - (i + 1) + 1 : b[k] = s[i + 1 + k - 1]
    BY <1>1, <2>1, SubSeqProperties
  <2> HIDE DEF b
  <2> QED BY <1>1, <2>2
<1>4. RemoveAt(s, i) = a \o b BY DEF RemoveAt
<1> HIDE DEF a, b
<1>5. /\ a \o b \in Seq(S) /\ Len(a \o b) = Len(a) + Len(b)
      /\ \A k \in 1..Len(a) + Len(b) : (a \o b)[k] = IF k <= Len(a) THEN a[k] ELSE b[k - Len(a)]
  BY <1>2, <1>3, ConcatProperties
<1>6. Len(a) + Len(b) = Len(s) - 1 BY <1>1, <1>2, <1>3
<1>7. ASSUME NEW k \in 1..Len(s) - 1
      PROVE  (a \o b)[k] = IF k < i THEN s[k] ELSE s[k + 1]
  <2>1. CASE k < i BY <2>1, <1>1, <1>2, <1>5, <1>6
  <2>2. CASE ~(k < i)
    <3>1. k - Len(a) \in 1..Len(s) - i /\ ~(k <= Len(a)) BY <2>2, <1>1, <1>2
    <3>2. (a \o b)[k] = b[k - Len(a)] BY <3>1, <1>1, <1>5, <1>6
    <3>3. i + (k - Len(a)) = k + 1 BY <1>1, <1>2
    <3> QED BY <2>2, <3>1, <3>2, <3>3, <1>3
  <2> QED BY <2>1, <2>2
<1> QED BY <1>1, <1>4, <1>5, <1>6, <1>7

LEMMA Wraps ==
  ASSUME NEW m \in Nat, NEW n \in Nat \ {0}, m <= n
  PROVE  m % n = IF m = n THEN 0 ELSE m
<1>1. CASE m = n BY <1>1, Z3
<1>2. CASE m # n BY <1>2, Z3
<1> QED BY <1>1, <1>2

\* What both cases of a take have in common.
LEMMA Taken ==
  ASSUME NEW q, QueueOK(q), q.order # <<>>
  PROVE  LET t == NextTenant(q)
             r == AfterTake(q) IN
         /\ Len(q.order) \in Nat \ {0} /\ q.next \in Nat /\ q.next < Len(q.order)
         /\ t \in TenantSet /\ t = q.order[q.next + 1]
         /\ q.order \in Seq(TenantSet)
         /\ q.items[t] \in Seq(Items) /\ q.items[t] # <<>> /\ NextItem(q) \in Items
         /\ r.items = [q.items EXCEPT ![t] = Tail(q.items[t])]
         /\ r.items \in [TenantSet -> Seq(Items)]
         /\ r.count \in Int /\ r.passed = PassOver(q, t)
         /\ r.passed \in [TenantSet -> [TenantSet -> Served]]
         /\ r = [order |-> r.order, items |-> r.items, next |-> r.next, count |-> r.count,
                 passed |-> r.passed]
<1> DEFINE t == NextTenant(q)
           r == AfterTake(q)
<1>1. q \in Queues /\ OrderOK(q) BY DEF QueueOK
<1>2. /\ q.order \in Seq(TenantSet) /\ q.items \in [TenantSet -> Seq(Items)] /\ q.next \in Nat
      /\ q.count \in Int /\ q.passed \in [TenantSet -> [TenantSet -> Served]]
  BY <1>1 DEF Queues
<1>3. Len(q.order) \in Nat \ {0} /\ q.next < Len(q.order)
  BY <1>1, <1>2, EmptySeq DEF OrderOK
<1>4. q.next + 1 \in 1..Len(q.order) BY <1>2, <1>3
<1>5. t \in TenantSet /\ t = q.order[q.next + 1] BY <1>2, <1>4 DEF NextTenant
<1>6. q.items[t] \in Seq(Items) /\ q.items[t] # <<>>
  BY <1>1, <1>2, <1>4, <1>5 DEF OrderOK
<1>7. NextItem(q) \in Items /\ Tail(q.items[t]) \in Seq(Items)
  BY <1>6, HeadTailProperties DEF NextItem
<1>8. /\ r.items = [q.items EXCEPT ![t] = Tail(q.items[t])] /\ r.count = q.count - 1
      /\ r.passed = PassOver(q, t)
  BY DEF AfterTake
<1>9. r.items \in [TenantSet -> Seq(Items)] /\ r.count \in Int
  <2>1. [q.items EXCEPT ![t] = Tail(q.items[t])] \in [TenantSet -> Seq(Items)]
    <3> HIDE DEF t
    <3> QED BY <1>2, <1>7
  <2>2. q.count - 1 \in Int BY <1>2
  <2> HIDE DEF t, r
  <2> QED BY <1>8, <2>1, <2>2
<1>10. PassOver(q, t) \in [TenantSet -> [TenantSet -> Served]]
  <2> HIDE DEF t
  <2>1. NotServed \in [TenantSet -> Served] BY DEF NotServed, Served
  <2>2. ASSUME NEW w \in TenantSet, NEW s \in Served
        PROVE  [q.passed[w] EXCEPT ![t] = s] \in [TenantSet -> Served]
    BY <1>2
  <2>3. {"left", "stayed"} \subseteq Served BY DEF Served
  <2> QED BY <2>1, <2>2, <2>3 DEF PassOver
<1>11. r = [order |-> r.order, items |-> r.items, next |-> r.next, count |-> r.count,
            passed |-> r.passed]
  BY DEF AfterTake
<1> HIDE DEF t, r
<1> QED BY <1>2, <1>3, <1>5, <1>6, <1>7, <1>8, <1>9, <1>10, <1>11 DEF t, r

\* A tenant with further items goes to the end of the round.
LEMMA TakeStays ==
  ASSUME NEW q, QueueOK(q), q.order # <<>>, Tail(q.items[NextTenant(q)]) # <<>>
  PROVE  QueueOK(AfterTake(q))
<1> DEFINE t == NextTenant(q)
           r == AfterTake(q)
           n == Len(q.order)
<1>1. /\ n \in Nat \ {0} /\ q.next \in Nat /\ q.next < n
      /\ t \in TenantSet /\ t = q.order[q.next + 1] /\ q.order \in Seq(TenantSet)
      /\ q.items[t] # <<>>
      /\ r.items = [q.items EXCEPT ![t] = Tail(q.items[t])]
      /\ r.items \in [TenantSet -> Seq(Items)]
      /\ r.count \in Int /\ r.passed = PassOver(q, t)
      /\ r.passed \in [TenantSet -> [TenantSet -> Served]]
      /\ r = [order |-> r.order, items |-> r.items, next |-> r.next, count |-> r.count,
              passed |-> r.passed]
  BY Taken
<1>2. r.order = q.order /\ r.next = (q.next + 1) % n
  BY DEF AfterTake
<1>3. r.next = IF q.next + 1 = n THEN 0 ELSE q.next + 1
  <2> HIDE DEF t, r, n
  <2>1. q.next + 1 \in Nat /\ q.next + 1 <= n BY <1>1
  <2> QED BY <1>1, <1>2, <2>1, Wraps
<1>4. q \in Queues /\ OrderOK(q) /\ GoneBehind(q) BY DEF QueueOK
<1>5. Tail(q.items[t]) # <<>> OBVIOUS
<1>6. q.items \in [TenantSet -> Seq(Items)] /\ q.passed \in [TenantSet -> [TenantSet -> Served]]
  BY <1>4 DEF Queues
<1>7. PassOver(q, t) =
        [w \in TenantSet |-> IF w = t \/ w \notin Range(q.order) THEN NotServed
                             ELSE [q.passed[w] EXCEPT ![t] = "stayed"]]
  BY <1>5 DEF PassOver
<1> HIDE DEF t, r
<1>8. r.next \in Nat /\ r.next < n BY <1>1, <1>3
<1>9. r \in Queues
  <2> HIDE DEF n
  <2> QED BY <1>1, <1>2, <1>8 DEF Queues
<1>10. OrderOK(r)
  <2>1. \A u \in TenantSet : r.items[u] # <<>> <=> q.items[u] # <<>>
    BY <1>1, <1>5, <1>6
  <2> QED BY <1>2, <1>4, <1>8, <2>1 DEF OrderOK
<1>11. GoneBehind(r)
  <2> SUFFICES ASSUME NEW w \in TenantSet, NEW u \in TenantSet, r.passed[w][u] = "stayed"
               PROVE  \E k, l \in 1..n :
                        q.order[k] = w /\ q.order[l] = u /\ Place(r, k) < Place(r, l)
    BY <1>2 DEF GoneBehind
  <2>1. w # t /\ w \in Range(q.order)
    BY <1>1, <1>7 DEF NotServed
  <2>2. r.passed[w] = [q.passed[w] EXCEPT ![t] = "stayed"] BY <1>1, <1>7, <2>1
  <2>3. q.next + 1 \in 1..n /\ Place(r, q.next + 1) = IF q.next + 1 = n THEN n ELSE q.next + 1 + n
    BY <1>1, <1>2, <1>3 DEF Place
  <2>4. \A k \in 1..n \ {q.next + 1} :
          /\ Place(r, k) < Place(r, q.next + 1)
          /\ Place(r, k) = IF q.next + 1 = n THEN Place(q, k) - n ELSE Place(q, k)
    BY <1>1, <1>2, <1>3 DEF Place
  <2>5. CASE u = t
    <3>1. PICK k \in 1..n : q.order[k] = w
      <4>1. DOMAIN q.order = 1..n BY <1>1
      <4> QED BY <2>1, <4>1 DEF Range
    <3>2. k # q.next + 1 BY <3>1, <2>1, <1>1
    <3> QED BY <2>3, <2>4, <2>5, <3>1, <3>2, <1>1
  <2>6. CASE u # t
    <3>1. q.passed[w][u] = "stayed" BY <2>2, <2>6, <1>6
    <3>2. PICK k, l \in 1..n : q.order[k] = w /\ q.order[l] = u /\ Place(q, k) < Place(q, l)
      BY <3>1, <1>4 DEF GoneBehind
    <3>3. k # q.next + 1 /\ l # q.next + 1 BY <3>2, <2>1, <2>6, <1>1
    <3>4. Place(r, k) < Place(r, l)
      BY <3>2, <3>3, <2>4, <1>1 DEF Place
    <3> QED BY <3>2, <3>4
  <2> QED BY <2>5, <2>6
<1> QED BY <1>9, <1>10, <1>11 DEF QueueOK, r

\* A tenant without further items leaves the order, and the others keep theirs.
LEMMA TakeLeaves ==
  ASSUME NEW q, QueueOK(q), q.order # <<>>, Tail(q.items[NextTenant(q)]) = <<>>
  PROVE  QueueOK(AfterTake(q))
<1> DEFINE t == NextTenant(q)
           r == AfterTake(q)
           n == Len(q.order)
           at == q.next + 1
           moved(k) == IF k < at THEN k ELSE k - 1
           was(k) == IF k < at THEN k ELSE k + 1
<1>1. /\ n \in Nat \ {0} /\ q.next \in Nat /\ q.next < n
      /\ t \in TenantSet /\ t = q.order[at] /\ q.order \in Seq(TenantSet)
      /\ q.items[t] # <<>>
      /\ r.items = [q.items EXCEPT ![t] = Tail(q.items[t])]
      /\ r.items \in [TenantSet -> Seq(Items)]
      /\ r.count \in Int /\ r.passed = PassOver(q, t)
      /\ r.passed \in [TenantSet -> [TenantSet -> Served]]
      /\ r = [order |-> r.order, items |-> r.items, next |-> r.next, count |-> r.count,
              passed |-> r.passed]
  BY Taken
<1>2. /\ r.order = RemoveAt(q.order, at)
      /\ r.next = IF r.order = <<>> THEN 0 ELSE (q.next + 0) % Len(r.order)
  BY DEF AfterTake
<1>3. /\ r.order \in Seq(TenantSet) /\ Len(r.order) = n - 1
      /\ \A k \in 1..n - 1 : r.order[k] = IF k < at THEN q.order[k] ELSE q.order[k + 1]
  <2>1. at \in 1..n BY <1>1
  <2> HIDE DEF at, r
  <2> QED BY <1>1, <1>2, <2>1, RemoveAtFacts
<1>4. q \in Queues /\ OrderOK(q) /\ GoneBehind(q) BY DEF QueueOK
<1>5. Tail(q.items[t]) = <<>> OBVIOUS
<1>6. q.items \in [TenantSet -> Seq(Items)] /\ q.passed \in [TenantSet -> [TenantSet -> Served]]
  BY <1>4 DEF Queues
<1>7. PassOver(q, t) =
        [w \in TenantSet |-> IF w = t \/ w \notin Range(q.order) THEN NotServed
                             ELSE [q.passed[w] EXCEPT ![t] = "left"]]
  BY <1>5 DEF PassOver
<1> HIDE DEF t, r
<1>8. r.order = <<>> <=> n = 1
  <2> HIDE DEF n
  <2> QED BY <1>1, <1>3, EmptySeq
<1>9. r.next = IF at = n THEN 0 ELSE q.next
  <2> HIDE DEF n
  <2>1. CASE n = 1 BY <2>1, <1>1, <1>2, <1>8
  <2>2. CASE n # 1
    <3>1. n - 1 \in Nat \ {0} /\ q.next <= n - 1 /\ q.next + 0 = q.next
          /\ (q.next = n - 1 <=> at = n)
      BY <2>2, <1>1
    <3>2. r.next = q.next % (n - 1) BY <2>2, <3>1, <1>2, <1>3, <1>8
    <3> QED BY <3>1, <3>2, <1>1, Wraps
  <2> QED BY <2>1, <2>2
<1>10. r.next \in Nat /\ (r.next < n - 1 \/ (r.order = <<>> /\ r.next = 0))
  <2> HIDE DEF n
  <2>1. CASE n = 1 BY <2>1, <1>1, <1>8, <1>9
  <2>2. CASE n # 1 BY <2>2, <1>1, <1>9
  <2> QED BY <2>1, <2>2
<1>11. r \in Queues
  <2> HIDE DEF n
  <2> QED BY <1>1, <1>3, <1>10 DEF Queues
<1>12. ASSUME NEW k \in 1..n, k # at
       PROVE  /\ moved(k) \in 1..n - 1 /\ r.order[moved(k)] = q.order[k]
              /\ Place(r, moved(k)) = IF at = n THEN Place(q, k) - n ELSE Place(q, k) - 1
  <2> HIDE DEF n
  <2>1. CASE k < at
    <3>1. moved(k) = k /\ k \in 1..n - 1 BY <2>1, <1>1
    <3>2. Place(r, k) = IF k > r.next THEN k ELSE k + (n - 1) BY <1>3 DEF Place
    <3>3. Place(q, k) = k + n BY <2>1, <1>1 DEF Place, n
    <3> QED BY <2>1, <3>1, <3>2, <3>3, <1>1, <1>3, <1>9
  <2>2. CASE ~(k < at)
    <3>1. moved(k) = k - 1 /\ k - 1 \in 1..n - 1 /\ k > at /\ at # n BY <2>2, <1>1, <1>12
    <3>2. r.order[k - 1] = q.order[k - 1 + 1] /\ k - 1 + 1 = k BY <3>1, <1>1, <1>3
    <3>3. Place(r, k - 1) = k - 1 /\ Place(q, k) = k BY <3>1, <1>1, <1>9 DEF Place
    <3> QED BY <3>1, <3>2, <3>3
  <2> QED BY <2>1, <2>2
<1>15. ASSUME NEW k \in 1..n - 1
       PROVE  was(k) \in 1..n /\ was(k) # at /\ at \in 1..n /\ r.order[k] = q.order[was(k)]
  <2> HIDE DEF n
  <2>1. CASE k < at BY <2>1, <1>1, <1>3
  <2>2. CASE ~(k < at) BY <2>2, <1>1, <1>3
  <2> QED BY <2>1, <2>2
<1>13. OrderOK(r)
  <2>1. ASSUME NEW k \in 1..n - 1, NEW l \in 1..n - 1, r.order[k] = r.order[l] PROVE k = l
    <3> HIDE DEF was
    <3>1. was(k) = was(l) BY <2>1, <1>15, <1>4 DEF OrderOK
    <3>2. was(k) = was(l) => k = l BY <1>1 DEF was
    <3> QED BY <3>1, <3>2
  <2>2. ASSUME NEW u \in TenantSet
        PROVE  (\E k \in 1..n - 1 : r.order[k] = u) <=> r.items[u] # <<>>
    <3>1. (\E k \in 1..n : q.order[k] = u) <=> q.items[u] # <<>> BY <1>4 DEF OrderOK
    <3>2. CASE u = t
      <4>1. r.items[u] = <<>> BY <3>2, <1>1, <1>5, <1>6
      <4>2. ASSUME NEW k \in 1..n - 1, r.order[k] = u PROVE FALSE
        <5> HIDE DEF was
        <5> QED BY <3>2, <4>2, <1>1, <1>4, <1>15 DEF OrderOK
      <4> QED BY <4>1, <4>2
    <3>3. CASE u # t
      <4>1. r.items[u] = q.items[u] BY <3>3, <1>1, <1>6
      <4>2. ASSUME NEW k \in 1..n, q.order[k] = u PROVE \E l \in 1..n - 1 : r.order[l] = u
        <5>1. k # at BY <3>3, <4>2, <1>1
        <5> HIDE DEF moved
        <5> QED BY <4>2, <5>1, <1>12
      <4>3. ASSUME NEW k \in 1..n - 1, r.order[k] = u PROVE \E l \in 1..n : q.order[l] = u
        <5>1. k \in 1..n /\ k + 1 \in 1..n BY <1>1
        <5> QED BY <4>3, <5>1, <1>3
      <4> QED BY <3>1, <4>1, <4>2, <4>3
    <3> QED BY <3>2, <3>3
  <2> HIDE DEF n, moved, was
  <2> QED BY <1>3, <1>10, <2>1, <2>2 DEF OrderOK
<1>14. GoneBehind(r)
  <2> SUFFICES ASSUME NEW w \in TenantSet, NEW u \in TenantSet, r.passed[w][u] = "stayed"
               PROVE  \E k, l \in 1..n - 1 :
                        r.order[k] = w /\ r.order[l] = u /\ Place(r, k) < Place(r, l)
    BY <1>3 DEF GoneBehind
  <2>1. w # t /\ w \in Range(q.order)
    BY <1>1, <1>7 DEF NotServed
  <2>2. r.passed[w] = [q.passed[w] EXCEPT ![t] = "left"] BY <1>1, <1>7, <2>1
  <2>3. u # t /\ q.passed[w][u] = "stayed" BY <2>2, <1>1, <1>6
  <2>4. PICK k, l \in 1..n : q.order[k] = w /\ q.order[l] = u /\ Place(q, k) < Place(q, l)
    BY <2>3, <1>4 DEF GoneBehind
  <2>5. k # at /\ l # at BY <2>1, <2>3, <2>4, <1>1
  <2>6. Place(q, k) \in Int /\ Place(q, l) \in Int /\ n \in Int BY <1>1 DEF Place
  <2> HIDE DEF moved, n, at
  <2>7. Place(r, moved(k)) < Place(r, moved(l))
    BY <2>4, <2>5, <2>6, <1>12
  <2> QED BY <2>4, <2>5, <2>7, <1>12
<1> QED BY <1>11, <1>13, <1>14 DEF QueueOK, r

LEMMA TakeKeepsQueue ==
  ASSUME NEW q, QueueOK(q), q.order # <<>>
  PROVE  QueueOK(AfterTake(q)) /\ NextItem(q) \in Items
BY Taken, TakeStays, TakeLeaves, Zenon

-----------------------------------------------------------------------------
(* Loops: the functions by which they are defined exist, and each round of *)
(* theirs keeps the queue in order.                                        *)

\* What m rounds make of b.
Rounds(D, b, F, m) ==
  {f \in [0..m -> D] : f[0] = b /\ \A n \in 1..m : f[n] = F[n][f[n - 1]]}

LEMMA RoundsExist ==
  ASSUME NEW D, NEW b \in D, NEW F \in [Nat -> [D -> D]], NEW m \in Nat
  PROVE  Rounds(D, b, F, m) # {}
<1> DEFINE Does(f, k) == f \in [0..k -> D] /\ f[0] = b /\ \A n \in 1..k : f[n] = F[n][f[n - 1]]
           S == {k \in Nat : \E f : Does(f, k)}
<1>1. 0 \in S
  <2>1. Does([n \in 0..0 |-> b], 0) OBVIOUS
  <2> HIDE DEF Does
  <2> QED BY <2>1
<1>2. ASSUME NEW k \in Nat, k \in S PROVE k + 1 \in S
  <2>1. PICK f : Does(f, k) BY <1>2
  <2> DEFINE g == [n \in 0..k + 1 |-> IF n = k + 1 THEN F[k + 1][f[k]] ELSE f[n]]
  <2>2. f[k] \in D /\ F[k + 1][f[k]] \in D BY <2>1
  <2>3. g \in [0..k + 1 -> D] /\ g[0] = b BY <2>1, <2>2
  <2>4. ASSUME NEW n \in 1..k + 1 PROVE g[n] = F[n][g[n - 1]]
    <3>1. n - 1 \in 0..k /\ n - 1 \in 0..k + 1 /\ n - 1 # k + 1 /\ n \in 0..k + 1 OBVIOUS
    <3>2. g[n - 1] = f[n - 1] BY <3>1
    <3>3. CASE n = k + 1
      <4>1. g[n] = F[n][f[k]] /\ n - 1 = k BY <3>1, <3>3
      <4> HIDE DEF g
      <4> QED BY <3>2, <4>1
    <3>4. CASE n # k + 1
      <4>1. n \in 1..k /\ g[n] = f[n] BY <3>1, <3>4
      <4> HIDE DEF g
      <4> QED BY <3>2, <4>1, <2>1
    <3> QED BY <3>3, <3>4
  <2> HIDE DEF g
  <2>5. Does(g, k + 1) BY <2>3, <2>4
  <2> HIDE DEF Does
  <2> QED BY <2>5
<1>3. m \in S
  <2> HIDE DEF S
  <2> QED BY <1>1, <1>2, Induction
<1> QED BY <1>3 DEF Rounds

Pumping == [queue : {q \in Queues : QueueOK(q)}, underWay : Seq(HostTurns)]

LEMMA PumpKeepsQueue ==
  ASSUME NEW q, QueueOK(q), NEW turns \in Seq(HostTurns)
  PROVE  QueueOK(Pumped(q, turns).queue) /\ Pumped(q, turns).underWay \in Seq(HostTurns)
<1> DEFINE b == [queue |-> q, underWay |-> turns]
           Round(p) == IF Len(p.underWay) >= MaxTurns \/ p.queue.order = <<>> THEN p
                       ELSE [queue |-> AfterTake(p.queue),
                             underWay |-> Append(p.underWay, Turn(p.underWay, NextItem(p.queue)))]
           F == [n \in Nat |-> [p \in Pumping |-> Round(p)]]
           Started(f) == f = [n \in 0..MaxTurns |-> IF n = 0 THEN b ELSE Round(f[n - 1])]
<1>1. MaxTurns \in Nat BY HostAssumption
<1>2. b \in Pumping BY DEF Pumping, QueueOK
<1>3. ASSUME NEW p \in Pumping PROVE Round(p) \in Pumping
  <2>1. QueueOK(p.queue) /\ p.underWay \in Seq(HostTurns) BY DEF Pumping
  <2>2. CASE Len(p.underWay) >= MaxTurns \/ p.queue.order = <<>> BY <2>2
  <2>3. CASE ~(Len(p.underWay) >= MaxTurns \/ p.queue.order = <<>>)
    <3>1. QueueOK(AfterTake(p.queue)) /\ NextItem(p.queue) \in Items
      BY <2>1, <2>3, TakeKeepsQueue
    <3>2. Turn(p.underWay, NextItem(p.queue)) \in HostTurns BY <3>1 DEF Turn, HostTurns
    <3>3. Append(p.underWay, Turn(p.underWay, NextItem(p.queue))) \in Seq(HostTurns)
      BY <2>1, <3>2
    <3> QED BY <2>3, <3>1, <3>3 DEF Pumping, QueueOK
  <2> QED BY <2>2, <2>3
<1> HIDE DEF b, Round
<1>4. F \in [Nat -> [Pumping -> Pumping]] BY <1>3
<1>5. PICK f \in [0..MaxTurns -> Pumping] :
        f[0] = b /\ \A n \in 1..MaxTurns : f[n] = F[n][f[n - 1]]
  <2> HIDE DEF F
  <2>1. Rounds(Pumping, b, F, MaxTurns) # {} BY <1>1, <1>2, <1>4, RoundsExist
  <2> QED BY <2>1 DEF Rounds
<1>6. Started(f)
  <2>1. ASSUME NEW n \in 0..MaxTurns PROVE f[n] = IF n = 0 THEN b ELSE Round(f[n - 1])
    <3>1. CASE n = 0 BY <3>1, <1>5
    <3>2. CASE n # 0
      <4>1. n \in 1..MaxTurns /\ n \in Nat /\ n - 1 \in 0..MaxTurns BY <3>2, <1>1
      <4>2. f[n - 1] \in Pumping BY <4>1
      <4> QED BY <3>2, <4>1, <4>2, <1>5
    <3> QED BY <3>1, <3>2
  <2> QED BY <2>1
<1> DEFINE started == CHOOSE s : Started(s)
<1>7. Pumped(q, turns) = started[MaxTurns] BY DEF Pumped, Round, b
<1>8. Started(started)
  <2> HIDE DEF Started
  <2> QED BY <1>6
<1>11. \A k \in 0..MaxTurns : started[k] = IF k = 0 THEN b ELSE Round(started[k - 1])
  <2> HIDE DEF started
  <2> QED BY <1>8
<1> HIDE DEF started
<1>9. \A n \in Nat : n <= MaxTurns => started[n] \in Pumping
  <2> DEFINE S == {n \in Nat : n <= MaxTurns => started[n] \in Pumping}
  <2>1. 0 \in S BY <1>1, <1>2, <1>11
  <2>2. ASSUME NEW n \in Nat, n \in S PROVE n + 1 \in S
    <3> SUFFICES ASSUME n + 1 <= MaxTurns PROVE started[n + 1] \in Pumping
      OBVIOUS
    <3>1. started[n] \in Pumping BY <2>2, <1>1
    <3>2. n + 1 \in 0..MaxTurns /\ n + 1 # 0 /\ n + 1 - 1 = n BY <1>1
    <3>3. started[n + 1] = Round(started[n + 1 - 1]) BY <3>2, <1>11
    <3> QED BY <3>1, <3>2, <3>3, <1>3
  <2>3. \A n \in Nat : n \in S
    <3> HIDE DEF S
    <3> QED BY <2>1, <2>2, Induction
  <2> QED BY <2>3
<1>10. started[MaxTurns] \in Pumping BY <1>1, <1>9
<1> QED BY <1>7, <1>10 DEF Pumping

LEMMA OffersKeepQueue ==
  ASSUME NEW q, QueueOK(q), NEW page \in SUBSET Items
  PROVE  QueueOK(OfferAll(q, page))
<1> DEFINE D == {r \in Queues : QueueOK(r)}
           m == Len(ScanOrder)
           Round(n, r) == IF ScanOrder[n] \in page THEN Offer(r, ScanOrder[n]) ELSE r
           F == [n \in Nat |-> [r \in D |-> Round(n, r)]]
           Offers(f) == f = [n \in 0..m |-> IF n = 0 THEN q ELSE Round(n, f[n - 1])]
<1>1. m \in Nat BY HostAssumption
<1>2. q \in D BY DEF QueueOK
<1>3. ASSUME NEW n, NEW r \in D PROVE Round(n, r) \in D
  <2>1. CASE ScanOrder[n] \in page
    <3>1. QueueOK(Offer(r, ScanOrder[n])) BY <2>1, OfferKeepsQueue
    <3> QED BY <2>1, <3>1 DEF QueueOK
  <2>2. CASE ScanOrder[n] \notin page BY <2>2
  <2> QED BY <2>1, <2>2
<1> HIDE DEF D, m, Round
<1>4. F \in [Nat -> [D -> D]] BY <1>3
<1>5. PICK f \in [0..m -> D] : f[0] = q /\ \A n \in 1..m : f[n] = F[n][f[n - 1]]
  <2> HIDE DEF F
  <2>1. Rounds(D, q, F, m) # {} BY <1>1, <1>2, <1>4, RoundsExist
  <2> QED BY <2>1 DEF Rounds
<1>6. Offers(f)
  <2>1. ASSUME NEW n \in 0..m PROVE f[n] = IF n = 0 THEN q ELSE Round(n, f[n - 1])
    <3>1. CASE n = 0 BY <3>1, <1>5
    <3>2. CASE n # 0
      <4>1. n \in 1..m /\ n \in Nat /\ n - 1 \in 0..m BY <3>2, <1>1
      <4>2. f[n - 1] \in D BY <4>1
      <4> QED BY <3>2, <4>1, <4>2, <1>5
    <3> QED BY <3>1, <3>2
  <2> QED BY <2>1
<1> DEFINE offered == CHOOSE s : Offers(s)
<1>7. OfferAll(q, page) = offered[m] BY DEF OfferAll, Round, m
<1>8. Offers(offered)
  <2> HIDE DEF Offers
  <2> QED BY <1>6
<1>9. \A k \in 0..m : offered[k] = IF k = 0 THEN q ELSE Round(k, offered[k - 1])
  <2> HIDE DEF offered
  <2> QED BY <1>8
<1> HIDE DEF offered
<1>10. \A n \in Nat : n <= m => offered[n] \in D
  <2> DEFINE S == {n \in Nat : n <= m => offered[n] \in D}
  <2>1. 0 \in S BY <1>1, <1>2, <1>9
  <2>2. ASSUME NEW n \in Nat, n \in S PROVE n + 1 \in S
    <3> SUFFICES ASSUME n + 1 <= m PROVE offered[n + 1] \in D
      OBVIOUS
    <3>1. offered[n] \in D BY <2>2, <1>1
    <3>2. n + 1 \in 0..m /\ n + 1 # 0 /\ n + 1 - 1 = n BY <1>1
    <3>3. offered[n + 1] = Round(n + 1, offered[n + 1 - 1]) BY <3>2, <1>9
    <3> QED BY <3>1, <3>2, <3>3, <1>3
  <2>3. \A n \in Nat : n \in S
    <3> HIDE DEF S
    <3> QED BY <2>1, <2>2, Induction
  <2> QED BY <2>3
<1>11. offered[m] \in D BY <1>1, <1>10
<1> QED BY <1>7, <1>11 DEF D

-----------------------------------------------------------------------------
(* The host. *)

\* What a pump does, whether the host is stopping or not.
LEMMA PumpStep ==
  ASSUME QueueOK(queue), Stopping => queue = EmptyQueue, NEW turns \in Seq(HostTurns),
         Pump(turns), UNCHANGED hostState
  PROVE  /\ underWay' \in Seq(HostTurns) /\ QueueOK(queue') /\ Stopping' = Stopping
         /\ Stopping => queue' = EmptyQueue /\ underWay' = turns
<1>1. CASE Stopping BY <1>1 DEF Pump, Stopping
<1>2. CASE ~Stopping
  <2>1. queue' = Pumped(queue, turns).queue /\ underWay' = Pumped(queue, turns).underWay
    BY <1>2 DEF Pump
  <2> QED BY <1>2, <2>1, PumpKeepsQueue DEF Stopping
<1> QED BY <1>1, <1>2

LEMMA HostInitially == HostInit => HostIInv
<1> SUFFICES ASSUME HostInit PROVE HostIInv OBVIOUS
<1>1. QueueOK(queue) BY NothingQueued DEF HostInit
<1> QED BY <1>1 DEF HostInit, HostIInv, Stopping

LEMMA HostStep == HostIInv /\ [HostNext]_hostVars => HostIInv'
<1> SUFFICES ASSUME HostIInv, [HostNext]_hostVars PROVE HostIInv'
  OBVIOUS
<1> USE DEF HostIInv
<1>1. CASE Scan
  <2>1. \A t : Page(t) \subseteq Items BY HostAssumption DEF Page, Range
  <2> DEFINE Polls ==
               [pc : {"idle", "scan", "offer", "pump", "done"}, tenant : Nat, page : SUBSET Items]
  <2>2. ASSUME NEW page \in SUBSET Items, poll' = [poll EXCEPT !.pc = "offer", !.page = page]
        PROVE  poll' \in Polls
    <3>1. poll \in Polls OBVIOUS
    <3> QED BY <2>2, <3>1
  <2>3. \/ poll' = [poll EXCEPT !.pc = "pump"] \/ poll' = [poll EXCEPT !.tenant = @ + 1]
        \/ poll' = [poll EXCEPT !.pc = "offer", !.page = Page(Tenants[poll.tenant])]
    BY <1>1 DEF Scan
  <2>4. poll' = [poll EXCEPT !.pc = "pump"] => poll' \in Polls OBVIOUS
  <2>5. poll' = [poll EXCEPT !.tenant = @ + 1] => poll' \in Polls OBVIOUS
  <2>6. poll' \in Polls BY <2>1, <2>2, <2>3, <2>4, <2>5
  <2> QED BY <1>1, <2>6 DEF Scan, Stopping
<1>2. CASE OfferPage
  <2>1. CASE Stopping BY <1>2, <2>1 DEF OfferPage, Stopping
  <2>2. CASE ~Stopping
    <3>1. QueueOK(OfferAll(queue, poll.page)) BY OffersKeepQueue
    <3> QED BY <1>2, <2>2, <3>1 DEF OfferPage, Stopping
  <2> QED BY <2>1, <2>2
<1>3. CASE PollPump
  <2>1. Pump(underWay) /\ UNCHANGED hostState BY <1>3 DEF PollPump
  <2>2. /\ underWay' \in Seq(HostTurns) /\ QueueOK(queue') /\ Stopping' = Stopping
        /\ Stopping => queue' = EmptyQueue
    BY <2>1, PumpStep
  <2> QED BY <1>3, <2>2 DEF PollPump
<1>4. CASE NextHint BY <1>4 DEF NextHint, Stopping
<1>5. CASE OfferHint
  <2>1. CASE Stopping BY <1>5, <2>1 DEF OfferHint, Stopping
  <2>2. CASE ~Stopping
    <3>1. QueueOK(Offer(queue, ingest.item)) BY <1>5, OfferKeepsQueue DEF OfferHint
    <3> QED BY <1>5, <2>2, <3>1 DEF OfferHint, Stopping
  <2> QED BY <2>1, <2>2
<1>6. CASE SettleHint
  <2>1. CASE Pump(underWay)
    <3>1. /\ underWay' \in Seq(HostTurns) /\ QueueOK(queue') /\ Stopping' = Stopping
          /\ Stopping => queue' = EmptyQueue
      BY <1>6, <2>1, PumpStep DEF SettleHint
    <3> QED BY <1>6, <3>1 DEF SettleHint, Trouble
  <2>2. CASE ~Pump(underWay) BY <1>6, <2>2 DEF SettleHint, Trouble, Stopping
  <2> QED BY <2>1, <2>2
<1>7. CASE Start BY <1>7 DEF Start, Stopping
<1>8. CASE Drain BY <1>8, NothingQueued DEF Drain, Stopping
<1>9. CASE Drained BY <1>9 DEF Drained, Stopping
<1>10. ASSUME NEW i \in Items, Arrive(i) PROVE HostIInv'
  BY <1>10 DEF Arrive, Stopping
<1>11. ASSUME NEW k \in DOMAIN underWay, Work(k) PROVE HostIInv'
  <2>1. [underWay EXCEPT ![k].next = "end"] \in Seq(HostTurns)
    <3>1. k \in 1..Len(underWay) /\ underWay[k] \in HostTurns OBVIOUS
    <3>2. [underWay[k] EXCEPT !.next = "end"] \in HostTurns BY <3>1 DEF HostTurns
    <3> QED BY <3>1, <3>2
  <2> QED BY <1>11, <2>1 DEF Work, Stopping
<1>12. ASSUME NEW k \in DOMAIN underWay, EndTurn(k) PROVE HostIInv'
  <2>1. k \in 1..Len(underWay) OBVIOUS
  <2>2. RemoveAt(underWay, k) \in Seq(HostTurns) BY <2>1, RemoveAtFacts
  <2>3. Pump(RemoveAt(underWay, k)) /\ UNCHANGED hostState BY <1>12 DEF EndTurn
  <2>4. /\ underWay' \in Seq(HostTurns) /\ QueueOK(queue') /\ Stopping' = Stopping
        /\ Stopping => queue' = EmptyQueue
    BY <2>2, <2>3, PumpStep
  <2> QED BY <1>12, <2>4 DEF EndTurn
<1>13. CASE UNCHANGED hostVars BY <1>13 DEF hostVars, Stopping
<1> QED BY <1>1, <1>2, <1>3, <1>4, <1>5, <1>6, <1>7, <1>8, <1>9, <1>10, <1>11, <1>12, <1>13
        DEF HostNext, Polling, Turning

\* The ready queue is in order and empty once the host stops, in every reachable state.
THEOREM HostInvariance == HostSpec => []HostIInv
BY HostInitially, HostStep, PTL DEF HostSpec

\* A hot tenant that has been served, and has more in the queue, is not next before each
\* tenant that waits: whatever is offered, dropped or drained meanwhile, with any number of
\* tenants, items and turns (ready-queue.ts, take and offer).
THEOREM ServedInTurn == HostSpec => []TenantsTakeTurns
<1>1. HostIInv => TenantsTakeTurns
  <2> SUFFICES ASSUME HostIInv, NEW w \in Range(queue.order),
                      queue.passed[w][NextTenant(queue)] = "stayed"
               PROVE  FALSE
    BY DEF TenantsTakeTurns, QueuedTenants
  <2> DEFINE n == Len(queue.order)
  <2>1. queue \in Queues /\ OrderOK(queue) /\ GoneBehind(queue) BY DEF HostIInv, QueueOK
  <2>2. queue.order \in Seq(TenantSet) /\ queue.next \in Nat BY <2>1 DEF Queues
  <2>3. DOMAIN queue.order = 1..n /\ n \in Nat BY <2>2
  <2>4. w \in TenantSet /\ n # 0 BY <2>2, <2>3 DEF Range
  <2>5. queue.next + 1 \in 1..n BY <2>1, <2>2, <2>3, <2>4 DEF OrderOK
  <2>6. NextTenant(queue) = queue.order[queue.next + 1] /\ NextTenant(queue) \in TenantSet
    BY <2>2, <2>5 DEF NextTenant
  <2>7. PICK i, j \in 1..n : /\ queue.order[i] = w /\ queue.order[j] = NextTenant(queue)
                             /\ Place(queue, i) < Place(queue, j)
    BY <2>1, <2>4, <2>6 DEF GoneBehind
  <2>8. j = queue.next + 1 BY <2>1, <2>5, <2>6, <2>7 DEF OrderOK
  <2>9. Place(queue, j) = j /\ Place(queue, i) >= j
    BY <2>2, <2>3, <2>8 DEF Place
  <2> QED BY <2>2, <2>3, <2>7, <2>9 DEF Place
<1> QED BY <1>1, HostInvariance, PTL

\* Once a host drains, no scan, hint or turn that was under way puts anything in the queue or
\* starts a turn (cluster-host.ts, isStopping wherever an await has returned).
THEOREM DrainIsFinal == HostSpec => DrainSticks
<1>1. HostIInv /\ [HostNext]_hostVars =>
        [Stopping => queue'.count = 0 /\ Len(underWay') <= Len(underWay)]_hostVars
  <2> SUFFICES ASSUME HostIInv, HostNext, Stopping
               PROVE  queue'.count = 0 /\ Len(underWay') <= Len(underWay)
    OBVIOUS
  <2>1. queue = EmptyQueue /\ underWay \in Seq(HostTurns) /\ QueueOK(queue)
    BY DEF HostIInv
  <2>2. queue.count = 0 BY <2>1 DEF EmptyQueue
  <2>3. CASE UNCHANGED <<queue, underWay>> BY <2>1, <2>2, <2>3
  <2>4. CASE Pump(underWay) BY <2>1, <2>2, <2>4 DEF Pump
  <2>5. ASSUME NEW k \in DOMAIN underWay, EndTurn(k)
        PROVE  queue'.count = 0 /\ Len(underWay') <= Len(underWay)
    <3>1. k \in 1..Len(underWay) BY <2>1
    <3>2. underWay' = RemoveAt(underWay, k) /\ queue' = queue BY <2>5 DEF EndTurn, Pump
    <3>3. Len(RemoveAt(underWay, k)) = Len(underWay) - 1 /\ Len(underWay) \in Nat
      BY <2>1, <3>1, RemoveAtFacts
    <3> QED BY <2>2, <3>2, <3>3
  <2>6. ASSUME NEW k \in DOMAIN underWay, Work(k)
        PROVE  queue'.count = 0 /\ Len(underWay') <= Len(underWay)
    <3>1. Len(underWay') = Len(underWay) /\ Len(underWay) \in Nat /\ queue' = queue
      BY <2>1, <2>6 DEF Work
    <3> QED BY <2>2, <3>1
  <2>7. CASE Scan \/ OfferPage \/ NextHint \/ OfferHint \/ Start \/ Drained
    BY <2>3, <2>7 DEF Scan, OfferPage, NextHint, OfferHint, Start, Drained
  <2>8. CASE PollPump \/ SettleHint BY <2>3, <2>4, <2>8 DEF PollPump, SettleHint
  <2>9. CASE Drain BY <2>9 DEF Drain
  <2>10. CASE \E i \in Items : Arrive(i) BY <2>3, <2>10 DEF Arrive
  <2> QED BY <2>5, <2>6, <2>7, <2>8, <2>9, <2>10 DEF HostNext, Polling, Turning
<1> QED BY <1>1, HostInvariance, PTL DEF HostSpec, DrainSticks
===============================================================================
