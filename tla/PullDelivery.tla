---------------------------- MODULE PullDelivery ----------------------------
(***************************************************************************)
(* Cursor pull and acknowledgement over the delivery ledger, for one       *)
(* subscription and one partition.  A pull reads the delivery position and *)
(* the active delivery, hands the active one out again, replaces it, or    *)
(* scans the journal and claims a new one; an acknowledgement settles a    *)
(* delivery.  Every call of the ledger is an await of its own, and only    *)
(* the ledger's operations are atomic.                                     *)
(***************************************************************************)
EXTENDS Integers, Sequences

CONSTANTS
  Workers,      \* pulls and acknowledgements that may be in flight together
  Matching,     \* the positions whose events pass the filter and the policy
  Limit,        \* events scanned by one pull
  Timeout,      \* the visibility timeout
  MayFail,      \* whether calls are lost
  MaxPosition,  \* bound: the length of the journal
  MaxAttempt,   \* bound: clients ask for no retry of a later attempt
  MaxTime       \* bound: the clock stops here

ASSUME PullAssumption ==
  /\ Matching \subseteq Nat \ {0}
  /\ Limit \in Nat \ {0} /\ Timeout \in Nat \ {0}
  /\ MayFail \in BOOLEAN
  /\ MaxPosition \in Nat /\ MaxAttempt \in Nat /\ MaxTime \in Nat

VARIABLES
  journal,      \* the length of the partition's journal: events 1..journal
  position,     \* the delivery position
  active,       \* the identifier of the active delivery, or None
  deliveries,   \* every delivery, at its identifier
  deadLetters,  \* the positions of dead letters
  now,
  worker        \* each worker's local state

vars == <<journal, position, active, deliveries, deadLetters, now, worker>>

None == 0

Outcomes == {"pending", "acknowledged", "retry", "rejected", "expired"}
Advancing == {"acknowledged", "rejected"}

Deliveries ==
  [from : Nat, to : Nat, attempt : Nat, expires : Nat, outcome : Outcomes]

\* The events a delivery carries, by position.
EventsOf(d) == {e \in Matching : d.from < e /\ e <= d.to}

Idle == [pc |-> "idle", now |-> 0, position |-> 0, id |-> None, to |-> 0, outcome |-> "pending"]

Go(w, pc) == worker' = [worker EXCEPT ![w].pc = pc]
Done(w) == worker' = [worker EXCEPT ![w] = Idle]

-----------------------------------------------------------------------------
(* The ledger. *)

\* A new delivery becomes the active one.
Insert(d) ==
  /\ deliveries' = Append(deliveries, d)
  /\ active' = Len(deliveries) + 1

\* Bug: an acknowledgement of whatever delivery, wherever the position is.
SettlesAnywhere(id, outcome) == deliveries[id].outcome = "pending"

\* The settlement takes effect: neither a replay, nor a conflict of outcomes or
\* positions.
Settles(id, outcome) ==
  /\ deliveries[id].outcome = "pending"
  /\ outcome \in Advancing => position = deliveries[id].from

\* Bug: a retry moves on as well.
SettleAndSkip(id, outcome) ==
  LET d == deliveries[id] IN
  /\ deliveries' = [deliveries EXCEPT ![id].outcome = outcome]
  /\ deadLetters' = IF outcome = "rejected" THEN deadLetters \cup EventsOf(d) ELSE deadLetters
  /\ position' = d.to
  /\ active' = IF active = id THEN None ELSE active

\* settleDelivery, in one transaction.
SettleDelivery(id, outcome) ==
  LET d == deliveries[id] IN
  /\ deliveries' = [deliveries EXCEPT ![id].outcome = outcome]
  /\ deadLetters' = IF outcome = "rejected" THEN deadLetters \cup EventsOf(d) ELSE deadLetters
  /\ position' = IF outcome \in Advancing THEN d.to ELSE position
  /\ active' = IF outcome \in Advancing /\ active = id THEN None ELSE active

-----------------------------------------------------------------------------
(* Pull. *)

StartPull(w) ==
  /\ worker[w].pc = "idle"
  /\ worker' = [worker EXCEPT ![w] = [Idle EXCEPT !.pc = "position", !.now = now]]
  /\ UNCHANGED <<journal, position, active, deliveries, deadLetters, now>>

ReadPosition(w) ==
  /\ worker[w].pc = "position"
  /\ worker' = [worker EXCEPT ![w].pc = "active", ![w].position = position]
  /\ UNCHANGED <<journal, position, active, deliveries, deadLetters, now>>

\* An active delivery that is still visible is handed out again.
ReadActive(w) ==
  /\ worker[w].pc = "active"
  /\ IF active = None
       THEN Go(w, "scan")
       ELSE LET d == deliveries[active] IN
            IF d.outcome = "pending" /\ d.expires > worker[w].now
              THEN Done(w)
              ELSE worker' = [worker EXCEPT
                     ![w].pc = IF d.outcome = "pending" THEN "expire" ELSE "replace",
                     ![w].id = active]
  /\ UNCHANGED <<journal, position, active, deliveries, deadLetters, now>>

\* The expiry may already be recorded, by another pull or an acknowledgement.
Expire(w) ==
  LET id == worker[w].id IN
  /\ worker[w].pc = "expire"
  /\ IF Settles(id, "expired")
       THEN SettleDelivery(id, "expired") /\ Go(w, "replace")
       ELSE /\ UNCHANGED <<position, active, deliveries, deadLetters>>
            /\ IF deliveries[id].outcome = "expired" THEN Go(w, "replace") ELSE Done(w)
  /\ UNCHANGED <<journal, now>>

\* The next attempt at the same events, unless the active delivery has changed; in
\* that case the delivery found active, if pending, is handed out instead.
Replace(w) ==
  LET id == worker[w].id d == deliveries[id] IN
  /\ worker[w].pc = "replace"
  /\ IF active = id /\ d.outcome \in {"retry", "expired"}
       THEN Insert([d EXCEPT !.attempt = @ + 1, !.expires = worker[w].now + Timeout,
                             !.outcome = "pending"])
       ELSE UNCHANGED <<deliveries, active>>
  /\ Done(w)
  /\ UNCHANGED <<journal, position, deadLetters, now>>

\* Bug: a scan that is not cut at the end of the journal.
ScanEndUncut(from) == from + Limit

\* The last position one pull looks at.
ScanEnd(from) == IF from + Limit < journal THEN from + Limit ELSE journal

\* readPartition, the filter and the policy.  The delivery ends at the last match.
Scan(w) ==
  LET from == worker[w].position
      end == ScanEnd(from)
      matched == {e \in Matching : from < e /\ e <= end}
  IN
  /\ worker[w].pc = "scan"
  /\ IF matched # {}
       THEN \E last \in matched :
              /\ \A e \in matched : e <= last
              /\ worker' = [worker EXCEPT ![w].pc = "claim", ![w].to = last]
       ELSE IF end > from
              THEN worker' = [worker EXCEPT ![w].pc = "advance", ![w].to = end]
              ELSE Done(w)
  /\ UNCHANGED <<journal, position, active, deliveries, deadLetters, now>>

\* Bug: the position is compared with where the scan ended.
MayAdvanceLate(w) == position = worker[w].to

MayAdvance(w) == position = worker[w].position /\ worker[w].to >= position

\* advanceDeliveryPosition over events that do not match, if the position has not moved.
Advance(w) ==
  /\ worker[w].pc = "advance"
  /\ position' = IF MayAdvance(w) THEN worker[w].to ELSE position
  /\ Done(w)
  /\ UNCHANGED <<journal, active, deliveries, deadLetters, now>>

\* Bug: claim without looking for an active delivery.
MayClaimAlways == TRUE

MayClaim == active = None

\* claimPendingDelivery.  The position is the one read before the scan.
Claim(w) ==
  LET r == worker[w] IN
  /\ r.pc = "claim"
  /\ IF MayClaim
       THEN Insert([from |-> r.position, to |-> r.to, attempt |-> 1,
                    expires |-> r.now + Timeout, outcome |-> "pending"])
       ELSE UNCHANGED <<deliveries, active>>
  /\ Done(w)
  /\ UNCHANGED <<journal, position, deadLetters, now>>

-----------------------------------------------------------------------------
(* Acknowledge: of any delivery ever handed out, with any outcome. *)

StartAck(w, id, outcome) ==
  /\ worker[w].pc = "idle"
  /\ outcome = "retry" => deliveries[id].attempt < MaxAttempt
  /\ worker' = [worker EXCEPT ![w] =
                  [Idle EXCEPT !.pc = "read", !.now = now, !.id = id, !.outcome = outcome]]
  /\ UNCHANGED <<journal, position, active, deliveries, deadLetters, now>>

\* getDelivery: a lapsed delivery is to be settled as expired instead.
ReadDelivery(w) ==
  LET r == worker[w] d == deliveries[r.id] IN
  /\ r.pc = "read"
  /\ CASE d.outcome = "expired" -> Done(w)
       [] d.outcome = "pending" /\ d.expires <= r.now ->
            worker' = [worker EXCEPT ![w].pc = "settle", ![w].outcome = "expired"]
       [] OTHER -> Go(w, "settle")
  /\ UNCHANGED <<journal, position, active, deliveries, deadLetters, now>>

Settle(w) ==
  LET r == worker[w] IN
  /\ r.pc = "settle"
  /\ IF Settles(r.id, r.outcome)
       THEN SettleDelivery(r.id, r.outcome)
       ELSE UNCHANGED <<position, active, deliveries, deadLetters>>
  /\ Done(w)
  /\ UNCHANGED <<journal, now>>

-----------------------------------------------------------------------------
\* A ledger call is lost or the process stops.
Fail(w) ==
  /\ MayFail /\ worker[w].pc # "idle"
  /\ Done(w)
  /\ UNCHANGED <<journal, position, active, deliveries, deadLetters, now>>

Publish ==
  /\ journal < MaxPosition
  /\ journal' = journal + 1
  /\ UNCHANGED <<position, active, deliveries, deadLetters, now, worker>>

Tick ==
  /\ now < MaxTime
  /\ now' = now + 1
  /\ UNCHANGED <<journal, position, active, deliveries, deadLetters, worker>>

Init ==
  /\ journal = 0 /\ position = 0 /\ active = None
  /\ deliveries = <<>> /\ deadLetters = {} /\ now = 0
  /\ worker = [w \in Workers |-> Idle]

Ack(w, outcome) == \E id \in DOMAIN deliveries : StartAck(w, id, outcome)

Step(w) ==
  \/ ReadPosition(w) \/ ReadActive(w) \/ Expire(w) \/ Replace(w) \/ Scan(w)
  \/ Advance(w) \/ Claim(w) \/ ReadDelivery(w) \/ Settle(w)

Next ==
  \/ Publish \/ Tick
  \/ \E w \in Workers :
       \/ StartPull(w) \/ Step(w) \/ Fail(w)
       \/ \E outcome \in {"acknowledged", "retry", "rejected"} : Ack(w, outcome)

Spec == Init /\ [][Next]_vars

\* A call that is under way ends, the client pulls again and again, and now and
\* then acknowledges what it was handed out last.
Fairness ==
  /\ \A w \in Workers : WF_vars(Step(w))
  /\ SF_vars(\E w \in Workers : StartPull(w))
  /\ SF_vars(\E w \in Workers : active # None /\ StartAck(w, active, "acknowledged"))

FairSpec == Spec /\ Fairness
-----------------------------------------------------------------------------
(* Properties. *)

Calls ==
  [pc : {"idle", "position", "active", "expire", "replace", "scan", "advance", "claim",
         "read", "settle"},
   now : Nat, position : Nat, id : Nat, to : Nat, outcome : Outcomes]

\* Every variable ranges over what it is meant to hold.
TypeOK ==
  /\ journal \in Nat /\ position \in 0..journal
  /\ active \in {None} \cup DOMAIN deliveries
  /\ deliveries \in Seq(Deliveries)
  /\ deadLetters \subseteq 1..journal
  /\ now \in Nat
  /\ worker \in [Workers -> Calls]

Settled(e) == \E d \in DOMAIN deliveries :
  deliveries[d].outcome \in Advancing /\ e \in EventsOf(deliveries[d])

\* README: only an effective acknowledgement advances the position.  Whatever the
\* calls in flight, no matching event falls behind the position that was not in a
\* delivery acknowledged or rejected, and those rejected are the dead letters.
NothingSkipped ==
  /\ \A e \in Matching : e <= position => Settled(e)
  /\ deadLetters = UNION {EventsOf(deliveries[d]) :
                            d \in {i \in DOMAIN deliveries : deliveries[i].outcome = "rejected"}}

\* exchange-core-design: no two deliveries are pending at once, and the one that is
\* can be found by the next pull.
OnePending ==
  /\ \A d \in DOMAIN deliveries : deliveries[d].outcome = "pending" => active = d
  /\ active # None => deliveries[active].outcome \notin Advancing

\* No event takes effect twice on the position: the ranges of deliveries that were
\* acknowledged or rejected do not overlap, however late or often they are settled.
SettledOnce ==
  \A c, d \in DOMAIN deliveries :
    c # d /\ deliveries[c].outcome \in Advancing /\ deliveries[d].outcome \in Advancing =>
      deliveries[c].to <= deliveries[d].from \/ deliveries[d].to <= deliveries[c].from

\* subscriptions.md: delivery is at least once.  Every matching event is handed out,
\* to a client that goes on pulling and acknowledges.
Delivered(e) == \E d \in DOMAIN deliveries : e \in EventsOf(deliveries[d])
AtLeastOnce == \A e \in Matching : journal >= e ~> Delivered(e)
=============================================================================
