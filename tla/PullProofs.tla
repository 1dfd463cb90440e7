----------------------------- MODULE PullProofs -----------------------------
(***************************************************************************)
(* Theorems about the readers of the journal.  PullDelivery, for any       *)
(* workers, filter, scan limit and timeout, whatever calls are in flight   *)
(* or lost: no event is skipped, one delivery is pending at most, and none *)
(* is settled twice.  Projection, for any journal and turns, whatever      *)
(* lapses, fails or crashes: a read model replays a prefix of the journal. *)
(***************************************************************************)
EXTENDS PullDelivery, Projection, SequenceTheorems, FiniteSetTheorems, TLAPS

-----------------------------------------------------------------------------
(* Deliveries: the inductive invariant.  The ledger alone is consistent,   *)
(* whoever calls it: a delivery that advances begins at the position.      *)
(* What a call has read may be stale; only what never goes stale is kept   *)
(* of it.                                                                  *)

LedgerTypeOK ==
  /\ journal \in Nat /\ position \in 0..journal /\ now \in Nat
  /\ active \in {None} \cup DOMAIN deliveries
  /\ deliveries \in Seq(Deliveries)
  /\ deadLetters \subseteq 1..journal

\* A delivery lies within the journal, and behind the position once it has advanced it.
RangesOK ==
  \A d \in DOMAIN deliveries :
    /\ deliveries[d].from <= deliveries[d].to /\ deliveries[d].to <= journal
    /\ deliveries[d].outcome \in Advancing => deliveries[d].to <= position

LedgerOK == LedgerTypeOK /\ RangesOK /\ OnePending /\ NothingSkipped /\ SettledOnce

NothingBetween(from, to) == \A e \in Matching : ~(from < e /\ e <= to)

\* What is known of a call whose local state is r.
CallOK(r) ==
  /\ r \in Calls
  /\ r.pc \in {"expire", "replace", "read", "settle"} => r.id \in DOMAIN deliveries
  /\ r.pc \in {"read", "settle"} => r.outcome # "pending"
  /\ r.position <= journal
  /\ r.pc \in {"claim", "advance"} => r.position <= r.to /\ r.to <= journal
  /\ r.pc = "advance" => NothingBetween(r.position, r.to)

CallsOK ==
  /\ worker = [w \in Workers |-> worker[w]]
  /\ \A w \in Workers : CallOK(worker[w])

IInv == LedgerOK /\ CallsOK

-----------------------------------------------------------------------------
(* The ledger's operations. *)

LEMMA NoneIsNoDelivery ==
  ASSUME deliveries \in Seq(Deliveries)
  PROVE  None \notin DOMAIN deliveries
BY DEF None

LEMMA DeliveryFields ==
  ASSUME deliveries \in Seq(Deliveries), NEW i \in DOMAIN deliveries
  PROVE  /\ i \in 1..Len(deliveries) /\ deliveries[i] \in Deliveries
         /\ deliveries[i].from \in Nat /\ deliveries[i].to \in Nat /\ deliveries[i].outcome \in Outcomes
<1>1. i \in 1..Len(deliveries) /\ deliveries[i] \in Deliveries
  BY LenProperties
<1> QED BY <1>1 DEF Deliveries

\* What a sequence holds after Append.
LEMMA InsertedAtTheEnd ==
  ASSUME deliveries \in Seq(Deliveries), NEW d \in Deliveries, Insert(d)
  PROVE  /\ deliveries' \in Seq(Deliveries)
         /\ DOMAIN deliveries' = DOMAIN deliveries \cup {active'}
         /\ active' \notin DOMAIN deliveries /\ deliveries'[active'] = d
         /\ \A i \in DOMAIN deliveries : deliveries'[i] = deliveries[i]
BY DEF Insert

\* A new delivery, when none is pending and the active one can be left.
LEMMA InsertKeepsLedger ==
  ASSUME LedgerOK, NEW d \in Deliveries, Insert(d),
         d.outcome = "pending", d.from <= d.to, d.to <= journal,
         active # None => deliveries[active].outcome # "pending",
         UNCHANGED <<journal, position, deadLetters, now>>
  PROVE  LedgerOK'
<1> USE InsertedAtTheEnd DEF LedgerOK, LedgerTypeOK
<1>0. \A i \in DOMAIN deliveries : deliveries[i].outcome # "pending"
  BY NoneIsNoDelivery DEF OnePending
<1>1. LedgerTypeOK'
  OBVIOUS
<1>2. RangesOK'
  BY DEF RangesOK, Advancing
<1>3. OnePending'
  BY <1>0, NoneIsNoDelivery DEF OnePending, Advancing
<1>4. NothingSkipped'
  <2>1. ASSUME NEW e \in Matching, e <= position PROVE Settled(e)'
    <3>1. PICK i \in DOMAIN deliveries :
            deliveries[i].outcome \in Advancing /\ e \in EventsOf(deliveries[i])
      BY <2>1 DEF NothingSkipped, Settled
    <3> QED BY <3>1 DEF Settled
  <2>2. {i \in DOMAIN deliveries' : deliveries'[i].outcome = "rejected"}
          = {i \in DOMAIN deliveries : deliveries[i].outcome = "rejected"}
    OBVIOUS
  <2>3. UNION {EventsOf(deliveries'[i]) :
                 i \in {j \in DOMAIN deliveries' : deliveries'[j].outcome = "rejected"}}
          = UNION {EventsOf(deliveries[i]) :
                     i \in {j \in DOMAIN deliveries : deliveries[j].outcome = "rejected"}}
    BY <2>2 DEF EventsOf
  <2> QED BY <2>1, <2>3 DEF NothingSkipped
<1>5. SettledOnce'
  BY DEF SettledOnce, Advancing
<1> QED BY <1>1, <1>2, <1>3, <1>4, <1>5

\* A settlement that takes effect.
LEMMA SettleKeepsLedger ==
  ASSUME LedgerOK, NEW id \in DOMAIN deliveries, NEW outcome \in Outcomes \ {"pending"},
         Settles(id, outcome), SettleDelivery(id, outcome), UNCHANGED <<journal, now>>
  PROVE  LedgerOK' /\ DOMAIN deliveries' = DOMAIN deliveries
<1> DEFINE d == deliveries[id]
<1> USE DEF LedgerOK, LedgerTypeOK
<1>0. /\ deliveries' = [deliveries EXCEPT ![id].outcome = outcome]
      /\ DOMAIN deliveries' = DOMAIN deliveries
      /\ deliveries'[id] = [d EXCEPT !.outcome = outcome]
      /\ \A i \in DOMAIN deliveries \ {id} : deliveries'[i] = deliveries[i]
      /\ d \in Deliveries /\ d.outcome = "pending"
  BY DEF SettleDelivery, Settles
<1>1. deliveries'[id].from = d.from /\ deliveries'[id].to = d.to /\ deliveries'[id].outcome = outcome
  BY <1>0 DEF Deliveries
<1>2. outcome \in Advancing => position = d.from /\ position' = d.to
  BY DEF Settles, SettleDelivery
<1>3. outcome \notin Advancing => position' = position
  BY DEF SettleDelivery
<1>4. position <= position' /\ position' \in 0..journal
  BY <1>0, <1>2, <1>3 DEF RangesOK, Deliveries
<1>5. active' \in {None, active} /\ (active' = None /\ active # None => active = id)
  BY DEF SettleDelivery
<1>6. EventsOf(deliveries'[id]) = EventsOf(d)
  BY <1>1 DEF EventsOf
<1>7. LedgerTypeOK'
  <2>1. deliveries' \in Seq(Deliveries)
    <3>1. [d EXCEPT !.outcome = outcome] \in Deliveries
      BY <1>0 DEF Deliveries
    <3>2. deliveries' = [deliveries EXCEPT ![id] = [d EXCEPT !.outcome = outcome]]
      BY <1>0
    <3>3. id \in 1..Len(deliveries)
      BY DeliveryFields
    <3>4. [deliveries EXCEPT ![id] = [d EXCEPT !.outcome = outcome]] \in Seq(Deliveries)
      BY <3>1, <3>3, ExceptSeq
    <3> QED BY <3>2, <3>4
  <2>2. EventsOf(d) \subseteq 1..journal
    <3>1. d.from \in Nat /\ d.to \in Nat /\ d.to <= journal
      BY DeliveryFields DEF RangesOK
    <3>2. ASSUME NEW e \in Matching, e <= d.to PROVE e \in 1..journal
      <4>1. e \in Nat \ {0}
        BY PullAssumption
      <4> QED BY <3>1, <3>2, <4>1
    <3> QED BY <3>2 DEF EventsOf
  <2>3. deadLetters' \subseteq 1..journal
    BY <2>2 DEF SettleDelivery
  <2> QED BY <2>1, <2>3, <1>0, <1>4, <1>5
<1>8. RangesOK'
  <2>1. ASSUME NEW i \in DOMAIN deliveries'
        PROVE  /\ deliveries'[i].from <= deliveries'[i].to /\ deliveries'[i].to <= journal'
               /\ deliveries'[i].outcome \in Advancing => deliveries'[i].to <= position'
    <3>1. CASE i = id
      BY <3>1, <1>0, <1>1, <1>2, <1>4 DEF RangesOK, Deliveries
    <3>2. CASE i # id
      BY <3>2, <1>0, <1>4, DeliveryFields DEF RangesOK
    <3> QED BY <3>1, <3>2
  <2> QED BY <2>1 DEF RangesOK
<1>9. OnePending'
  <2>1. \A i \in DOMAIN deliveries' : deliveries'[i].outcome = "pending" => active' = i
    BY <1>0, <1>1, <1>5, NoneIsNoDelivery DEF OnePending
  <2>2. ASSUME active' # None PROVE deliveries'[active'].outcome \notin Advancing
    BY <2>2, <1>0, <1>1, <1>5 DEF OnePending, SettleDelivery
  <2> QED BY <2>1, <2>2 DEF OnePending
<1>10. NothingSkipped'
  <2>1. ASSUME NEW e \in Matching, e <= position' PROVE Settled(e)'
    <3>1. CASE e <= position
      <4>1. PICK i \in DOMAIN deliveries :
              deliveries[i].outcome \in Advancing /\ e \in EventsOf(deliveries[i])
        BY <3>1 DEF NothingSkipped, Settled
      <4>2. i # id
        BY <4>1, <1>0 DEF Advancing
      <4> QED BY <4>1, <4>2, <1>0 DEF Settled
    <3>2. CASE ~(e <= position)
      <4>1. outcome \in Advancing /\ e \in EventsOf(d)
        BY <3>2, <2>1, <1>2, <1>3, PullAssumption DEF EventsOf
      <4> QED BY <4>1, <1>0, <1>1, <1>6 DEF Settled
    <3> QED BY <3>1, <3>2
  <2>2. \A i \in DOMAIN deliveries : EventsOf(deliveries'[i]) = EventsOf(deliveries[i])
    BY <1>0, <1>6
  <2>3. \A e : e \in deadLetters' <=>
                \E i \in DOMAIN deliveries' : deliveries'[i].outcome = "rejected" /\ e \in EventsOf(deliveries'[i])
    <3>1. \A e : e \in deadLetters <=>
                  \E i \in DOMAIN deliveries : deliveries[i].outcome = "rejected" /\ e \in EventsOf(deliveries[i])
      BY DEF NothingSkipped
    <3>2. deadLetters' = IF outcome = "rejected" THEN deadLetters \cup EventsOf(d) ELSE deadLetters
      BY DEF SettleDelivery
    <3> HIDE DEF d
    <3> QED BY <3>1, <3>2, <2>2, <1>0, <1>1, <1>6 DEF d
  <2>4. deadLetters' = UNION {EventsOf(deliveries'[i]) :
                                i \in {j \in DOMAIN deliveries' : deliveries'[j].outcome = "rejected"}}
    BY <2>3
  <2> QED BY <2>1, <2>4 DEF NothingSkipped
<1>11. SettledOnce'
  <2>1. ASSUME NEW i \in DOMAIN deliveries, i # id, outcome \in Advancing,
               deliveries[i].outcome \in Advancing
        PROVE  deliveries[i].to <= d.from
    BY <2>1, <1>2 DEF RangesOK
  <2> QED BY <2>1, <1>0, <1>1 DEF SettledOnce
<1> QED BY <1>0, <1>7, <1>8, <1>9, <1>10, <1>11

\* The position passes events that do not match.
LEMMA AdvanceKeepsLedger ==
  ASSUME LedgerOK, NEW to \in Nat, position <= to, to <= journal, NothingBetween(position, to),
         position' = to, UNCHANGED <<journal, active, deliveries, deadLetters, now>>
  PROVE  LedgerOK'
<1> USE DEF LedgerOK, LedgerTypeOK
<1>1. LedgerTypeOK'
  OBVIOUS
<1>2. RangesOK'
  BY DeliveryFields DEF RangesOK
<1>3. OnePending'
  BY DEF OnePending
<1>4. NothingSkipped'
  BY PullAssumption DEF NothingSkipped, NothingBetween, Settled
<1>5. SettledOnce'
  BY DEF SettledOnce
<1> QED BY <1>1, <1>2, <1>3, <1>4, <1>5

\* The journal grows, or time passes.
LEMMA OutsideKeepsLedger ==
  ASSUME LedgerOK, journal' \in Nat, journal <= journal', now' \in Nat,
         UNCHANGED <<position, active, deliveries, deadLetters>>
  PROVE  LedgerOK'
<1> USE DEF LedgerOK, LedgerTypeOK
<1>1. LedgerTypeOK'
  OBVIOUS
<1>2. RangesOK'
  BY DeliveryFields DEF RangesOK
<1>3. OnePending' /\ NothingSkipped' /\ SettledOnce'
  BY DEF OnePending, NothingSkipped, SettledOnce, Settled
<1> QED BY <1>1, <1>2, <1>3

-----------------------------------------------------------------------------
(* The calls. *)

\* The fields of a call.
LEMMA CallFields ==
  ASSUME NEW r \in Calls
  PROVE  /\ r.now \in Nat /\ r.position \in Nat /\ r.id \in Nat
         /\ r.to \in Nat /\ r.outcome \in Outcomes
BY DEF Calls

LEMMA IdleIsACall ==
  /\ Idle \in Calls /\ Idle.pc = "idle" /\ Idle.position = 0
  /\ journal \in Nat => CallOK(Idle)
<1>1. Idle \in Calls /\ Idle.pc = "idle" /\ Idle.position = 0
  BY DEF Idle, Calls, None, Outcomes
<1> QED BY <1>1 DEF CallOK

\* What is known of a call stays true while the ledger grows.
LEMMA CallStaysOK ==
  ASSUME journal \in Nat, journal' \in Nat, journal <= journal',
         DOMAIN deliveries \subseteq DOMAIN deliveries',
         NEW r, CallOK(r)
  PROVE  CallOK(r)'
<1>1. r \in Calls /\ r.position \in Nat /\ r.to \in Nat
  BY CallFields DEF CallOK
<1> QED BY <1>1 DEF CallOK, NothingBetween

\* A step of one call, on a ledger that has grown.
LEMMA CallStep ==
  ASSUME IInv, LedgerOK', journal <= journal', DOMAIN deliveries \subseteq DOMAIN deliveries',
         NEW w \in Workers, NEW r, worker' = [worker EXCEPT ![w] = r], CallOK(r)
  PROVE  IInv'
<1>1. journal \in Nat /\ journal' \in Nat
  BY DEF IInv, LedgerOK, LedgerTypeOK
<1>2. \A q : CallOK(q) => CallOK(q)'
  BY <1>1, CallStaysOK
<1>3. /\ worker = [v \in Workers |-> worker[v]]
      /\ \A v \in Workers : CallOK(worker[v])
  BY DEF IInv, CallsOK
<1>4. worker' = [v \in Workers |-> worker'[v]] /\ \A v \in Workers : worker'[v] \in {worker[v], r}
  BY <1>3
<1>5. \A v \in Workers : CallOK(worker'[v])
  BY <1>3, <1>4
<1>6. \A v \in Workers : CallOK(worker[v])'
  BY <1>2, <1>5 DEF CallOK
<1> QED BY <1>4, <1>6 DEF IInv, CallsOK

\* A step that leaves the ledger alone.
LEMMA QuietStep ==
  ASSUME IInv, NEW w \in Workers, NEW r, worker' = [worker EXCEPT ![w] = r], CallOK(r),
         UNCHANGED <<journal, position, active, deliveries, deadLetters, now>>
  PROVE  IInv'
<1>1. LedgerOK' /\ journal <= journal' /\ DOMAIN deliveries \subseteq DOMAIN deliveries'
  BY OutsideKeepsLedger DEF IInv, LedgerOK, LedgerTypeOK
<1> QED BY <1>1, CallStep

\* A call ends, on a ledger that has grown.
LEMMA DoneStep ==
  ASSUME IInv, LedgerOK', journal <= journal', DOMAIN deliveries \subseteq DOMAIN deliveries',
         NEW w \in Workers, Done(w)
  PROVE  IInv'
<1>1. CallOK(Idle)
  BY IdleIsACall DEF IInv, LedgerOK, LedgerTypeOK
<1> QED BY <1>1, CallStep DEF Done

\* A call goes on to a phase in which no more is known of it than before.
LEMMA GoStep ==
  ASSUME IInv, LedgerOK', journal <= journal', DOMAIN deliveries \subseteq DOMAIN deliveries',
         NEW w \in Workers, NEW pc \in {"scan", "replace", "settle"}, Go(w, pc),
         pc = "replace" => worker[w].pc = "expire", pc = "settle" => worker[w].pc = "read"
  PROVE  IInv'
<1> DEFINE r == worker[w]
           q == [r EXCEPT !.pc = pc]
<1>1. CallOK(r) /\ r \in Calls
  BY DEF IInv, CallsOK, CallOK
<1>2. q \in Calls /\ q.pc = pc /\ q.position = r.position /\ q.id = r.id /\ q.outcome = r.outcome
  BY <1>1 DEF Calls
<1>3. CallOK(q)
  <2> HIDE DEF q, r
  <2> QED BY <1>1, <1>2 DEF CallOK, r
<1>4. worker' = [worker EXCEPT ![w] = q]
  BY DEF Go, IInv, CallsOK
<1> QED BY <1>3, <1>4, CallStep

-----------------------------------------------------------------------------
(* One lemma for every step. *)

LEMMA StartPullStep ==
  ASSUME IInv, NEW w \in Workers, StartPull(w)
  PROVE  IInv'
<1> DEFINE r == [Idle EXCEPT !.pc = "position", !.now = now]
<1>1. journal \in Nat /\ now \in Nat
  BY DEF IInv, LedgerOK, LedgerTypeOK
<1>2. r \in Calls /\ r.pc = "position" /\ r.position = 0
  BY <1>1 DEF Idle, Calls, None, Outcomes
<1>3. CallOK(r)
  BY <1>1, <1>2 DEF CallOK
<1> QED BY <1>3, QuietStep DEF StartPull

LEMMA StartAckStep ==
  ASSUME IInv, NEW w \in Workers, NEW id \in DOMAIN deliveries,
         NEW outcome \in {"acknowledged", "retry", "rejected"}, StartAck(w, id, outcome)
  PROVE  IInv'
<1> DEFINE r == [Idle EXCEPT !.pc = "read", !.now = now, !.id = id, !.outcome = outcome]
<1>1. journal \in Nat /\ now \in Nat /\ id \in Nat
  BY DeliveryFields DEF IInv, LedgerOK, LedgerTypeOK
<1>2. r \in Calls /\ r.pc = "read" /\ r.position = 0 /\ r.id = id /\ r.outcome = outcome
  BY <1>1 DEF Idle, Calls, None, Outcomes
<1>3. CallOK(r)
  BY <1>1, <1>2 DEF CallOK
<1> QED BY <1>3, QuietStep DEF StartAck

LEMMA ReadPositionStep ==
  ASSUME IInv, NEW w \in Workers, ReadPosition(w)
  PROVE  IInv'
<1> DEFINE r == worker[w]
           q == [r EXCEPT !.pc = "active", !.position = position]
<1>1. position \in Nat /\ journal \in Nat /\ position <= journal
  BY DEF IInv, LedgerOK, LedgerTypeOK
<1>2. r \in Calls
  BY DEF IInv, CallsOK, CallOK
<1>3. q \in Calls /\ q.pc = "active" /\ q.position = position
  BY <1>1, <1>2 DEF Calls
<1>4. CallOK(q)
  BY <1>1, <1>3 DEF CallOK
<1>5. worker' = [worker EXCEPT ![w] = q]
  BY DEF ReadPosition, IInv, CallsOK
<1> QED BY <1>4, <1>5, QuietStep DEF ReadPosition

LEMMA ReadActiveStep ==
  ASSUME IInv, NEW w \in Workers, ReadActive(w)
  PROVE  IInv'
<1> DEFINE r == worker[w]
           pc == IF deliveries[active].outcome = "pending" THEN "expire" ELSE "replace"
           q == [r EXCEPT !.pc = pc, !.id = active]
<1>0. UNCHANGED <<journal, position, active, deliveries, deadLetters, now>>
  BY DEF ReadActive
<1>1. LedgerOK' /\ journal <= journal' /\ DOMAIN deliveries \subseteq DOMAIN deliveries'
  BY <1>0, OutsideKeepsLedger DEF IInv, LedgerOK, LedgerTypeOK
<1>2. CASE active = None
  BY <1>1, <1>2, GoStep DEF ReadActive
<1>3. CASE Done(w)
  BY <1>1, <1>3, DoneStep
<1>4. CASE active # None /\ worker' = [worker EXCEPT ![w].pc = pc, ![w].id = active]
  <2>1. active \in DOMAIN deliveries /\ active \in Nat
    BY <1>4, DeliveryFields DEF IInv, LedgerOK, LedgerTypeOK
  <2>2. r \in Calls /\ r.position <= journal
    BY DEF IInv, CallsOK, CallOK
  <2>3. q \in Calls /\ q.pc \in {"expire", "replace"} /\ q.id = active /\ q.position = r.position
    BY <2>1, <2>2 DEF Calls
  <2>4. CallOK(q)
    <3> HIDE DEF q
    <3> QED BY <2>1, <2>2, <2>3 DEF CallOK
  <2>5. worker' = [worker EXCEPT ![w] = q]
    BY <1>4 DEF IInv, CallsOK
  <2> QED BY <1>0, <2>4, <2>5, QuietStep
<1> QED BY <1>2, <1>3, <1>4 DEF ReadActive

\* A settlement, whoever asks for it, of a delivery there is.
LEMMA LedgerSettles ==
  ASSUME LedgerOK, NEW id \in DOMAIN deliveries, NEW outcome \in Outcomes \ {"pending"},
         IF Settles(id, outcome) THEN SettleDelivery(id, outcome)
                                 ELSE UNCHANGED <<position, active, deliveries, deadLetters>>,
         UNCHANGED <<journal, now>>
  PROVE  LedgerOK' /\ journal <= journal' /\ DOMAIN deliveries \subseteq DOMAIN deliveries'
<1>1. journal \in Nat /\ now \in Nat
  BY DEF LedgerOK, LedgerTypeOK
<1>2. CASE Settles(id, outcome)
  BY <1>1, <1>2, SettleKeepsLedger
<1>3. CASE ~Settles(id, outcome)
  BY <1>1, <1>3, OutsideKeepsLedger
<1> QED BY <1>2, <1>3

LEMMA ExpireStep ==
  ASSUME IInv, NEW w \in Workers, Expire(w)
  PROVE  IInv'
<1>1. worker[w].id \in DOMAIN deliveries /\ worker[w].pc = "expire"
  BY DEF IInv, CallsOK, CallOK, Expire
<1>2. LedgerOK' /\ journal <= journal' /\ DOMAIN deliveries \subseteq DOMAIN deliveries'
  BY <1>1, LedgerSettles DEF Expire, Outcomes, IInv
<1>3. Go(w, "replace") \/ Done(w)
  BY DEF Expire
<1> QED BY <1>1, <1>2, <1>3, GoStep, DoneStep

\* The next attempt carries the same events, which have not been settled.
LEMMA ReplaceStep ==
  ASSUME IInv, NEW w \in Workers, Replace(w)
  PROVE  IInv'
<1> DEFINE id == worker[w].id
           d == deliveries[id]
           e == [d EXCEPT !.attempt = @ + 1, !.expires = worker[w].now + Timeout,
                          !.outcome = "pending"]
<1>1. id \in DOMAIN deliveries /\ worker[w].now \in Nat
  BY CallFields DEF IInv, CallsOK, CallOK, Replace
<1>2. d \in Deliveries /\ d.from \in Nat /\ d.to \in Nat /\ d.from <= d.to /\ d.to <= journal
  BY <1>1, DeliveryFields DEF IInv, LedgerOK, LedgerTypeOK, RangesOK
<1>3. e \in Deliveries /\ e.from = d.from /\ e.to = d.to /\ e.outcome = "pending"
  <2>1. worker[w].now + Timeout \in Nat /\ "pending" \in Outcomes
    BY <1>1, PullAssumption DEF Outcomes
  <2>2. d.attempt + 1 \in Nat
    BY <1>2 DEF Deliveries
  <2> HIDE DEF d
  <2> QED BY <1>2, <2>1, <2>2 DEF Deliveries
<1>4. UNCHANGED <<journal, position, deadLetters, now>> /\ Done(w)
  BY DEF Replace
<1>5. journal \in Nat /\ now \in Nat /\ deliveries \in Seq(Deliveries) /\ LedgerOK
  BY DEF IInv, LedgerOK, LedgerTypeOK
<1>6. LedgerOK' /\ DOMAIN deliveries \subseteq DOMAIN deliveries'
  <2>1. CASE active = id /\ d.outcome \in {"retry", "expired"}
    <3>1. Insert(e)
      BY <2>1 DEF Replace
    <3>2. active # None => deliveries[active].outcome # "pending"
      BY <2>1
    <3> HIDE DEF e
    <3> QED BY <1>2, <1>3, <1>4, <1>5, <3>1, <3>2, InsertKeepsLedger, InsertedAtTheEnd
  <2>2. CASE ~(active = id /\ d.outcome \in {"retry", "expired"})
    <3>1. UNCHANGED <<deliveries, active>>
      BY <2>2 DEF Replace
    <3> QED BY <3>1, <1>4, <1>5, OutsideKeepsLedger
  <2> QED BY <2>1, <2>2
<1> QED BY <1>4, <1>5, <1>6, DoneStep

\* What the scan returns lies between the position it started from and the end of
\* the journal.
LEMMA ScanStep ==
  ASSUME IInv, NEW w \in Workers, Scan(w)
  PROVE  IInv'
<1> DEFINE r == worker[w]
           end == ScanEnd(r.position)
           matched == {e \in Matching : r.position < e /\ e <= end}
<1>0. UNCHANGED <<journal, position, active, deliveries, deadLetters, now>>
  BY DEF Scan
<1>1. journal \in Nat /\ r \in Calls /\ r.position \in Nat /\ r.position <= journal
  BY CallFields DEF IInv, CallsOK, CallOK, LedgerOK, LedgerTypeOK
<1>2. end \in Nat /\ r.position <= end /\ end <= journal
  BY <1>1, PullAssumption DEF ScanEnd
<1>3. LedgerOK' /\ journal <= journal' /\ DOMAIN deliveries \subseteq DOMAIN deliveries'
  BY <1>0, OutsideKeepsLedger DEF IInv, LedgerOK, LedgerTypeOK
<1>4. ASSUME NEW last \in matched,
             worker' = [worker EXCEPT ![w].pc = "claim", ![w].to = last]
      PROVE  IInv'
  <2> DEFINE q == [r EXCEPT !.pc = "claim", !.to = last]
  <2>1. last \in Nat /\ r.position <= last /\ last <= journal
    BY <1>1, <1>2, <1>4, PullAssumption
  <2>2. q \in Calls /\ q.pc = "claim" /\ q.to = last /\ q.position = r.position
    BY <1>1, <2>1 DEF Calls
  <2>3. CallOK(q)
    <3> HIDE DEF q
    <3> QED BY <1>1, <2>1, <2>2 DEF CallOK
  <2>4. worker' = [worker EXCEPT ![w] = q]
    BY <1>4 DEF IInv, CallsOK
  <2> QED BY <1>0, <2>3, <2>4, QuietStep
<1>5. ASSUME matched = {}, worker' = [worker EXCEPT ![w].pc = "advance", ![w].to = end]
      PROVE  IInv'
  <2> DEFINE q == [r EXCEPT !.pc = "advance", !.to = end]
  <2>1. NothingBetween(r.position, end)
    BY <1>5 DEF NothingBetween
  <2>2. q \in Calls /\ q.pc = "advance" /\ q.to = end /\ q.position = r.position
    BY <1>1, <1>2 DEF Calls
  <2>3. CallOK(q)
    <3> HIDE DEF q, end
    <3> QED BY <1>1, <1>2, <2>1, <2>2 DEF CallOK
  <2>4. worker' = [worker EXCEPT ![w] = q]
    BY <1>5 DEF IInv, CallsOK
  <2> QED BY <1>0, <2>3, <2>4, QuietStep
<1>6. CASE Done(w)
  BY <1>3, <1>6, DoneStep
<1> QED BY <1>4, <1>5, <1>6 DEF Scan

LEMMA AdvanceStep ==
  ASSUME IInv, NEW w \in Workers, Advance(w)
  PROVE  IInv'
<1> DEFINE r == worker[w]
<1>1. /\ r.position <= r.to /\ r.to <= journal /\ NothingBetween(r.position, r.to)
      /\ r.to \in Nat /\ journal \in Nat /\ now \in Nat /\ LedgerOK
  BY CallFields DEF IInv, CallsOK, CallOK, Advance, LedgerOK, LedgerTypeOK
<1>2. UNCHANGED <<journal, active, deliveries, deadLetters, now>> /\ Done(w)
  BY DEF Advance
<1>3. CASE MayAdvance(w)
  <2>1. position' = r.to /\ position = r.position
    BY <1>3 DEF Advance, MayAdvance
  <2>2. LedgerOK'
    BY <1>1, <1>2, <2>1, AdvanceKeepsLedger
  <2> QED BY <1>1, <1>2, <2>2, DoneStep
<1>4. CASE ~MayAdvance(w)
  <2>1. LedgerOK'
    BY <1>1, <1>2, <1>4, OutsideKeepsLedger DEF Advance
  <2> QED BY <1>1, <1>2, <2>1, DoneStep
<1> QED BY <1>3, <1>4

\* The position may have moved since it was read: the delivery claimed may then lie
\* behind it, and no outcome that advances takes effect on it.
LEMMA ClaimStep ==
  ASSUME IInv, NEW w \in Workers, Claim(w)
  PROVE  IInv'
<1> DEFINE r == worker[w]
           e == [from |-> r.position, to |-> r.to, attempt |-> 1,
                 expires |-> r.now + Timeout, outcome |-> "pending"]
<1>1. /\ r.position \in Nat /\ r.to \in Nat /\ r.now \in Nat
      /\ r.position <= r.to /\ r.to <= journal
  BY CallFields DEF IInv, CallsOK, CallOK, Claim
<1>2. e \in Deliveries /\ e.from = r.position /\ e.to = r.to /\ e.outcome = "pending"
  BY <1>1, PullAssumption DEF Deliveries, Outcomes
<1>3. UNCHANGED <<journal, position, deadLetters, now>> /\ Done(w)
  BY DEF Claim
<1>4. journal \in Nat /\ now \in Nat /\ deliveries \in Seq(Deliveries) /\ LedgerOK
  BY DEF IInv, LedgerOK, LedgerTypeOK
<1>5. LedgerOK' /\ DOMAIN deliveries \subseteq DOMAIN deliveries'
  <2>1. CASE active = None
    <3>1. Insert(e)
      BY <2>1 DEF Claim, MayClaim
    <3> HIDE DEF e
    <3> QED BY <1>1, <1>2, <1>3, <1>4, <2>1, <3>1, InsertKeepsLedger, InsertedAtTheEnd
  <2>2. CASE active # None
    <3>1. UNCHANGED <<deliveries, active>>
      BY <2>2 DEF Claim, MayClaim
    <3> QED BY <3>1, <1>3, <1>4, OutsideKeepsLedger
  <2> QED BY <2>1, <2>2
<1> QED BY <1>3, <1>4, <1>5, DoneStep

LEMMA ReadDeliveryStep ==
  ASSUME IInv, NEW w \in Workers, ReadDelivery(w)
  PROVE  IInv'
<1> DEFINE r == worker[w]
           q == [r EXCEPT !.pc = "settle", !.outcome = "expired"]
<1>0. UNCHANGED <<journal, position, active, deliveries, deadLetters, now>> /\ r.pc = "read"
  BY DEF ReadDelivery
<1>1. LedgerOK' /\ journal <= journal' /\ DOMAIN deliveries \subseteq DOMAIN deliveries'
  BY <1>0, OutsideKeepsLedger DEF IInv, LedgerOK, LedgerTypeOK
<1>2. CASE Done(w)
  BY <1>1, <1>2, DoneStep
<1>3. CASE Go(w, "settle")
  BY <1>0, <1>1, <1>3, GoStep
<1>4. CASE worker' = [worker EXCEPT ![w].pc = "settle", ![w].outcome = "expired"]
  <2>1. r \in Calls /\ r.position <= journal /\ r.id \in DOMAIN deliveries
    BY <1>0 DEF IInv, CallsOK, CallOK
  <2>2. q \in Calls /\ q.pc = "settle" /\ q.outcome = "expired" /\ q.id = r.id /\ q.position = r.position
    BY <2>1 DEF Calls, Outcomes
  <2>3. CallOK(q)
    <3> HIDE DEF q
    <3> QED BY <2>1, <2>2 DEF CallOK
  <2>4. worker' = [worker EXCEPT ![w] = q]
    BY <1>4 DEF IInv, CallsOK
  <2> QED BY <1>0, <2>3, <2>4, QuietStep
<1> QED BY <1>2, <1>3, <1>4 DEF ReadDelivery

LEMMA SettleStep ==
  ASSUME IInv, NEW w \in Workers, Settle(w)
  PROVE  IInv'
<1>1. worker[w].id \in DOMAIN deliveries /\ worker[w].outcome \in Outcomes \ {"pending"}
  BY CallFields DEF IInv, CallsOK, CallOK, Settle
<1>2. LedgerOK' /\ journal <= journal' /\ DOMAIN deliveries \subseteq DOMAIN deliveries'
  BY <1>1, LedgerSettles DEF Settle, IInv
<1> QED BY <1>2, DoneStep DEF Settle

LEMMA FailStep ==
  ASSUME IInv, NEW w \in Workers, Fail(w)
  PROVE  IInv'
<1>1. LedgerOK' /\ journal <= journal' /\ DOMAIN deliveries \subseteq DOMAIN deliveries'
  BY OutsideKeepsLedger DEF Fail, IInv, LedgerOK, LedgerTypeOK
<1> QED BY <1>1, DoneStep DEF Fail

\* The journal grows, time passes, or nothing happens.
LEMMA OutsideStep ==
  ASSUME IInv, Publish \/ Tick \/ UNCHANGED vars
  PROVE  IInv'
<1>1. journal \in Nat /\ now \in Nat
  BY DEF IInv, LedgerOK, LedgerTypeOK
<1>2. /\ journal' \in Nat /\ journal <= journal' /\ now' \in Nat
      /\ UNCHANGED <<position, active, deliveries, deadLetters, worker>>
  BY <1>1 DEF Publish, Tick, vars
<1>3. LedgerOK'
  BY <1>2, OutsideKeepsLedger DEF IInv
<1>4. \A r : CallOK(r) => CallOK(r)'
  BY <1>1, <1>2, CallStaysOK
<1>5. \A w \in Workers : CallOK(worker[w])'
  BY <1>2, <1>4 DEF IInv, CallsOK, CallOK
<1> QED BY <1>2, <1>3, <1>5 DEF IInv, CallsOK

LEMMA InitHolds == Init => IInv
<1> SUFFICES ASSUME Init PROVE IInv
  OBVIOUS
<1>1. LedgerOK
  BY PullAssumption DEF Init, LedgerOK, LedgerTypeOK, RangesOK, OnePending, NothingSkipped,
       SettledOnce, None
<1>2. CallsOK
  BY IdleIsACall DEF Init, CallsOK
<1> QED BY <1>1, <1>2 DEF IInv

LEMMA NextHolds == IInv /\ [Next]_vars => IInv'
<1> SUFFICES ASSUME IInv, [Next]_vars PROVE IInv'
  OBVIOUS
<1>1. CASE Publish \/ Tick \/ UNCHANGED vars
  BY <1>1, OutsideStep
<1>2. ASSUME NEW w \in Workers, StartPull(w) \/ Step(w) \/ Fail(w)
      PROVE  IInv'
  BY <1>2, StartPullStep, ReadPositionStep, ReadActiveStep, ExpireStep, ReplaceStep, ScanStep,
     AdvanceStep, ClaimStep, ReadDeliveryStep, SettleStep, FailStep DEF Step
<1>3. ASSUME NEW w \in Workers, NEW outcome \in {"acknowledged", "retry", "rejected"},
             Ack(w, outcome)
      PROVE  IInv'
  BY <1>3, StartAckStep DEF Ack
<1> QED BY <1>1, <1>2, <1>3 DEF Next

\* Every variable ranges over what it is meant to hold: the position never passes the
\* journal and the active delivery is one that was handed out.
THEOREM TypeCorrect == Spec => []TypeOK
<1>1. IInv => TypeOK
  BY DEF IInv, LedgerOK, LedgerTypeOK, CallsOK, CallOK, TypeOK
<1> QED BY <1>1, InitHolds, NextHolds, PTL DEF Spec

\* The position passes a matching event only when a delivery that carries it was
\* acknowledged or rejected, and the dead letters are the events of those rejected.
THEOREM PositionSkipsNothing == Spec => []NothingSkipped
<1>1. IInv => NothingSkipped
  BY DEF IInv, LedgerOK
<1> QED BY <1>1, InitHolds, NextHolds, PTL DEF Spec

\* Of the deliveries handed out, one at most is pending, and the ledger knows which.
THEOREM OneDeliveryIsPending == Spec => []OnePending
<1>1. IInv => OnePending
  BY DEF IInv, LedgerOK
<1> QED BY <1>1, InitHolds, NextHolds, PTL DEF Spec

\* Deliveries that advanced the position carry ranges that do not overlap.
THEOREM RangesSettleOnce == Spec => []SettledOnce
<1>1. IInv => SettledOnce
  BY DEF IInv, LedgerOK
<1> QED BY <1>1, InitHolds, NextHolds, PTL DEF Spec

-----------------------------------------------------------------------------
(* Projections: replays of prefixes of the journal. *)

\* The events of h among the first n.
Past(n, h) == {e \in DOMAIN Journal : e <= n /\ Journal[e] = h}

LEMMA JournalDomain == DOMAIN Journal = 1..Len(Journal) /\ Len(Journal) \in Nat
BY ProjectionAssumption, LenProperties

LEMMA PastIsFinite ==
  ASSUME NEW n, NEW h
  PROVE  IsFiniteSet(Past(n, h)) /\ Cardinality(Past(n, h)) \in Nat
<1>1. IsFiniteSet(DOMAIN Journal)
  BY JournalDomain, FS_Interval
<1> QED BY <1>1, FS_Subset, FS_CardinalityType DEF Past

LEMMA ReplayIsPast ==
  ASSUME NEW n
  PROVE  /\ ReplayTo(n) = [h \in HandoffsSeen |-> Cardinality(Past(n, h))]
         /\ ReplayTo(n) \in [HandoffsSeen -> Nat]
BY PastIsFinite DEF ReplayTo, Past

LEMMA ReplayToNothing == ReplayTo(0) = [h \in HandoffsSeen |-> 0]
<1>1. \A h : Past(0, h) = {}
  BY JournalDomain DEF Past
<1> QED BY <1>1, ReplayIsPast, FS_EmptySet

\* A longer replay has no older versions.
LEMMA ReplayGrows ==
  ASSUME NEW m \in Nat, NEW n \in Nat, m <= n, NEW h \in HandoffsSeen
  PROVE  ReplayTo(m)[h] <= ReplayTo(n)[h]
<1>1. Past(m, h) \subseteq Past(n, h)
  BY JournalDomain DEF Past
<1>2. Cardinality(Past(m, h)) <= Cardinality(Past(n, h))
  BY <1>1, PastIsFinite, FS_Subset
<1> QED BY <1>2, ReplayIsPast

\* One event more is one version more of its Handoff.
LEMMA ReplayOneMore ==
  ASSUME NEW n \in Nat, n < Len(Journal), NEW g, g = Journal[n + 1]
  PROVE  /\ g \in HandoffsSeen /\ ReplayTo(n)[g] \in Nat /\ VersionOf(n + 1) = ReplayTo(n)[g] + 1
         /\ ReplayTo(n + 1) = [ReplayTo(n) EXCEPT ![g] = VersionOf(n + 1)]
<1>1. n + 1 \in DOMAIN Journal /\ g \in HandoffsSeen
  BY JournalDomain DEF HandoffsSeen
<1>2. Past(n + 1, g) = Past(n, g) \cup {n + 1} /\ n + 1 \notin Past(n, g)
  BY <1>1, JournalDomain DEF Past
<1>3. Cardinality(Past(n + 1, g)) = Cardinality(Past(n, g)) + 1
  BY <1>2, PastIsFinite, FS_AddElement
<1>4. \A h \in HandoffsSeen \ {g} : Past(n + 1, h) = Past(n, h)
  BY <1>1, JournalDomain DEF Past
<1>5. /\ ReplayTo(n) = [h \in HandoffsSeen |-> Cardinality(Past(n, h))]
      /\ ReplayTo(n + 1) = [h \in HandoffsSeen |-> Cardinality(Past(n + 1, h))]
      /\ ReplayTo(n)[g] \in Nat
  BY <1>1, ReplayIsPast
<1>6. VersionOf(n + 1) = ReplayTo(n)[g] + 1
  BY <1>1, <1>3, <1>5 DEF VersionOf
<1>7. ReplayTo(n + 1) = [ReplayTo(n) EXCEPT ![g] = VersionOf(n + 1)]
  BY <1>1, <1>3, <1>4, <1>5, <1>6
<1> QED BY <1>1, <1>5, <1>6, <1>7

-----------------------------------------------------------------------------
(* The inductive invariant.  Nothing in it is about the lease: a runner that *)
(* has lost it writes nothing that is not in the view already.              *)

AtWork == {"may put", "put", "may note", "note", "may advance", "advance", "may block", "block"}
RunnerRecords ==
  [pc : AtWork \cup {"idle", "load", "look", "clear", "reset"},
   position : Nat, upto : Nat, value : Nat]

ViewTypes ==
  /\ projector \in Projectors /\ published \in 0..Len(Journal) /\ checkpoint \in 0..published
  /\ upstream \in [HandoffsSeen -> Nat] /\ view \in [HandoffsSeen -> Nat]
  /\ runner \in [Runners -> RunnerRecords]

\* What a runner whose local state is x knows of the event it is at.
EventSeen(x) == VersionOf(x.position + 1) <= view[Journal[x.position + 1]]
RunnerOK(x) ==
  /\ x.pc \in AtWork \cup {"look"} =>
       x.position <= x.upto /\ x.upto <= published /\ x.position <= checkpoint
  /\ x.pc \in AtWork => x.position # x.upto
  /\ x.pc \in {"may put", "put"} =>
       /\ VersionOf(x.position + 1) <= x.value
       /\ projector # "collaboration" => x.value = VersionOf(x.position + 1)
  /\ x.pc \in {"may note", "note"} => projector = "collaboration" /\ EventSeen(x)
  /\ x.pc \in {"may advance", "advance"} =>
       EventSeen(x) /\ (projector = "collaboration" => x.position + 1 \in timeline)

\* A rebuild has the view to itself.
Alone ==
  /\ \A t \in ProjectionTurns : runner[t].pc \notin {"clear", "reset"}
  /\ Rebuilding => \A t \in ProjectionTurns : runner[t].pc = "idle"
  /\ runner["rebuild"].pc = "reset" => view = [h \in HandoffsSeen |-> 0] /\ timeline = {}

ViewIInv == ViewTypes /\ (\A r \in Runners : RunnerOK(runner[r])) /\ Alone /\ ViewIsAPrefix

\* The event a runner works at is one of the journal.
LEMMA EventAtWork ==
  ASSUME ViewTypes, NEW x \in RunnerRecords, RunnerOK(x),
         x.pc \in AtWork \/ (x.pc = "look" /\ x.position # x.upto),
         NEW g, g = Journal[x.position + 1]
  PROVE  /\ x.position \in Nat /\ x.position < Len(Journal) /\ x.position < published
         /\ g \in HandoffsSeen /\ VersionOf(x.position + 1) \in Nat
         /\ VersionOf(x.position + 1) = ReplayTo(x.position + 1)[g]
<1>1. x.position <= x.upto /\ x.upto <= published /\ x.position # x.upto
  BY Zenon DEF RunnerOK
<1>2. x.position \in Nat /\ x.upto \in Nat /\ published \in 0..Len(Journal) /\ Len(Journal) \in Nat
  BY JournalDomain DEF ViewTypes, RunnerRecords
<1>3. x.position < Len(Journal) /\ x.position < published
  BY <1>1, <1>2
<1>4. g \in HandoffsSeen /\ ReplayTo(x.position)[g] \in Nat /\ VersionOf(x.position + 1) = ReplayTo(x.position)[g] + 1
  BY <1>2, <1>3, ReplayOneMore
<1> QED BY <1>2, <1>3, <1>4 DEF VersionOf

\* What a runner knows does not go stale while views, timeline and checkpoint only grow.
LEMMA RunnerStays ==
  ASSUME ViewTypes, ViewTypes', projector' = projector, published' >= published, checkpoint' >= checkpoint,
         \A h \in HandoffsSeen : view'[h] >= view[h], timeline \subseteq timeline',
         NEW x \in RunnerRecords, RunnerOK(x)
  PROVE  RunnerOK(x)'
<1>1. x.position \in Nat /\ x.upto \in Nat /\ published \in Nat /\ checkpoint \in Nat
      /\ published' \in Nat /\ checkpoint' \in Nat
  BY JournalDomain DEF ViewTypes, RunnerRecords
<1>2. x.pc \in AtWork => (EventSeen(x) => EventSeen(x)')
  <2> SUFFICES ASSUME x.pc \in AtWork, EventSeen(x) PROVE EventSeen(x)'
    OBVIOUS
  <2>1. PICK g : g = Journal[x.position + 1]
    OBVIOUS
  <2>2. PICK v : v = VersionOf(x.position + 1)
    OBVIOUS
  <2>3. g \in HandoffsSeen /\ v \in Nat /\ v <= view[g]
    BY <2>1, <2>2, EventAtWork DEF EventSeen
  <2>4. view[g] \in Nat /\ view'[g] \in Nat /\ view'[g] >= view[g]
    BY <2>3 DEF ViewTypes
  <2>5. v <= view'[g]
    BY <2>3, <2>4
  <2> QED BY <2>1, <2>2, <2>5 DEF EventSeen
<1>3. x.pc \in AtWork \cup {"look"} =>
        x.position <= x.upto /\ x.upto <= published' /\ x.position <= checkpoint'
  <2> SUFFICES ASSUME x.pc \in AtWork \cup {"look"}
               PROVE  x.position <= x.upto /\ x.upto <= published' /\ x.position <= checkpoint'
    OBVIOUS
  <2>1. x.position <= x.upto /\ x.upto <= published /\ x.position <= checkpoint
    BY Zenon DEF RunnerOK
  <2> QED BY <1>1, <2>1
<1> QED BY <1>2, <1>3 DEF RunnerOK, AtWork

\* A step of one runner, in which views, timeline and checkpoint grow or stay.
LEMMA RunnerStep ==
  ASSUME ViewIInv, ViewTypes', NEW r \in Runners, NEW x \in RunnerRecords,
         runner' = [runner EXCEPT ![r] = x], UNCHANGED <<projector, published>>,
         checkpoint' >= checkpoint, \A h \in HandoffsSeen : view'[h] >= view[h], timeline \subseteq timeline',
         RunnerOK(x)', ViewIsAPrefix',
         x.pc # "reset", r \in ProjectionTurns => x.pc # "clear",
         \/ x.pc = "idle" \/ runner[r].pc # "idle"
         \/ r \in ProjectionTurns /\ ~Rebuilding
         \/ r = "rebuild" /\ \A t \in ProjectionTurns : runner[t].pc = "idle",
         runner[r].pc \in AtWork \/ UNCHANGED <<view, timeline>>
  PROVE  ViewIInv'
<1>1. runner'[r] = x /\ \A o \in Runners \ {r} : runner'[o] = runner[o]
  BY DEF ViewIInv, ViewTypes
<1>2. \A o \in Runners : RunnerOK(runner[o])'
  <2>1. ASSUME NEW o \in Runners, o # r PROVE RunnerOK(runner[o])'
    <3>1. PICK y \in RunnerRecords : y = runner[o]
      BY DEF ViewIInv, ViewTypes
    <3>2. published' >= published
      BY JournalDomain DEF ViewIInv, ViewTypes
    <3>3. RunnerOK(y)'
      BY <3>1, <3>2, RunnerStays DEF ViewIInv
    <3> QED BY <1>1, <2>1, <3>1, <3>3 DEF RunnerOK, EventSeen
  <2>2. RunnerOK(runner[r])'
    BY <1>1 DEF RunnerOK, EventSeen
  <2> QED BY <2>1, <2>2
<1>3. "rebuild" \in Runners /\ "rebuild" \notin ProjectionTurns /\ ProjectionTurns \subseteq Runners
  BY ProjectionAssumption DEF Runners
<1>4. Alone'
  <2>1. \A t \in ProjectionTurns : runner'[t].pc \notin {"clear", "reset"}
    BY <1>1, <1>3 DEF ViewIInv, Alone
  <2>2. CASE r = "rebuild"
    <3>1. \A t \in ProjectionTurns : runner'[t] = runner[t]
      BY <1>1, <1>3, <2>2
    <3>2. runner'["rebuild"].pc # "idle" => \A t \in ProjectionTurns : runner[t].pc = "idle"
      BY <1>1, <1>3, <2>2 DEF ViewIInv, Alone, Rebuilding
    <3> QED BY <1>1, <2>1, <2>2, <3>1, <3>2 DEF Alone, Rebuilding
  <2>3. CASE r \in ProjectionTurns
    <3>1. runner'["rebuild"] = runner["rebuild"] /\ r # "rebuild"
      BY <1>1, <1>3, <2>3
    <3>2. Rebuilding => \A t \in ProjectionTurns : runner'[t].pc = "idle"
      BY <1>1, <1>3, <2>3, <3>1 DEF ViewIInv, Alone
    <3>3. runner["rebuild"].pc = "reset" => UNCHANGED <<view, timeline>>
      BY <2>3 DEF ViewIInv, Alone, Rebuilding, AtWork
    <3> QED BY <2>1, <3>1, <3>2, <3>3 DEF ViewIInv, Alone, Rebuilding
  <2> QED BY <2>2, <2>3 DEF Runners
<1> QED BY <1>2, <1>4 DEF ViewIInv

LEMMA PrefixStays ==
  ASSUME ViewIsAPrefix, UNCHANGED <<projector, view, timeline, checkpoint, dirty>>
  PROVE  ViewIsAPrefix'
BY DEF ViewIsAPrefix

\* A step of one runner that writes nothing.
LEMMA ReadingStep ==
  ASSUME ViewIInv, NEW r \in Runners, NEW x \in RunnerRecords,
         runner' = [runner EXCEPT ![r] = x],
         UNCHANGED <<projector, published, upstream, view, timeline, checkpoint, dirty>>,
         RunnerOK(x), x.pc # "reset", r \in ProjectionTurns => x.pc # "clear",
         \/ x.pc = "idle" \/ runner[r].pc # "idle"
         \/ r \in ProjectionTurns /\ ~Rebuilding
         \/ r = "rebuild" /\ \A t \in ProjectionTurns : runner[t].pc = "idle"
  PROVE  ViewIInv'
<1>1. ViewTypes'
  BY DEF ViewIInv, ViewTypes
<1>2. RunnerOK(x)'
  BY DEF RunnerOK, EventSeen
<1>3. checkpoint' >= checkpoint /\ \A h \in HandoffsSeen : view'[h] >= view[h]
  BY JournalDomain DEF ViewIInv, ViewTypes
<1>4. ViewIsAPrefix'
  BY PrefixStays DEF ViewIInv
<1>5. timeline \subseteq timeline' /\ UNCHANGED <<projector, published>>
  OBVIOUS
<1> QED BY <1>1, <1>2, <1>3, <1>4, <1>5, RunnerStep

LEMMA RestIsOK == AtRest \in RunnerRecords /\ AtRest.pc = "idle" /\ RunnerOK(AtRest)
BY DEF AtRest, RunnerRecords, RunnerOK, AtWork

\* A runner that is not idle may leave off.
LEMMA LeaveOffStep ==
  ASSUME ViewIInv, NEW r \in Runners, NEW result, LeaveOff(r, result), runner[r].pc # "idle",
         UNCHANGED <<projector, published, upstream, view, timeline, checkpoint, dirty>>
  PROVE  ViewIInv'
<1>1. PICK x : x = [AtRest EXCEPT !.pc = IF result = "advanced" THEN "load" ELSE "idle"]
  OBVIOUS
<1>2. x \in RunnerRecords /\ x.pc \in {"load", "idle"}
  BY <1>1 DEF AtRest, RunnerRecords
<1>3. RunnerOK(x)
  BY <1>2 DEF RunnerOK, AtWork
<1>4. PICK y \in {x, AtRest} : runner' = [runner EXCEPT ![r] = y]
  BY <1>1 DEF LeaveOff
<1>5. y \in RunnerRecords /\ RunnerOK(y) /\ y.pc \in {"load", "idle"}
  BY <1>2, <1>3, <1>4, RestIsOK
<1> QED BY <1>4, <1>5, ReadingStep

-----------------------------------------------------------------------------
(* The steps. *)

LEMMA BeginTurnStep == ASSUME ~Beside, ViewIInv, NEW t \in ProjectionTurns, BeginTurn(t) PROVE ViewIInv'
<1>1. PICK x : x = [runner[t] EXCEPT !.pc = "load"]
  OBVIOUS
<1>2. x \in RunnerRecords /\ x.pc = "load" /\ t \in Runners
  <2>1. t \in Runners
    BY DEF Runners
  <2>2. runner[t] \in RunnerRecords
    BY <2>1 DEF ViewIInv, ViewTypes
  <2> QED BY <1>1, <2>1, <2>2 DEF RunnerRecords
<1>3. RunnerOK(x)
  BY <1>2 DEF RunnerOK, AtWork
<1>4. runner' = [runner EXCEPT ![t] = x] /\ ~Rebuilding
  BY <1>1 DEF BeginTurn, GoOn, MayTakeTurn
<1>5. UNCHANGED <<projector, published, upstream, view, timeline, checkpoint, dirty>>
  BY DEF BeginTurn, views, projectionBounds
<1> QED BY <1>2, <1>3, <1>4, <1>5, ReadingStep

LEMMA BeginRebuildStep == ASSUME ~Beside, ViewIInv, BeginRebuild PROVE ViewIInv'
<1>1. PICK x : x = [runner["rebuild"] EXCEPT !.pc = "clear"]
  OBVIOUS
<1>2. x \in RunnerRecords /\ x.pc = "clear" /\ "rebuild" \in Runners /\ "rebuild" \notin ProjectionTurns
  <2>1. "rebuild" \in Runners /\ "rebuild" \notin ProjectionTurns
    BY ProjectionAssumption DEF Runners
  <2>2. runner["rebuild"] \in RunnerRecords
    BY <2>1 DEF ViewIInv, ViewTypes
  <2> QED BY <1>1, <2>1, <2>2 DEF RunnerRecords
<1>3. RunnerOK(x)
  BY <1>2 DEF RunnerOK, AtWork
<1>4. runner' = [runner EXCEPT !["rebuild"] = x] /\ \A t \in ProjectionTurns : runner[t].pc = "idle"
  BY <1>1 DEF BeginRebuild, GoOn, MayRebuild
<1>5. UNCHANGED <<projector, published, upstream, view, timeline, checkpoint, dirty>>
  BY DEF BeginRebuild, views
<1> QED BY <1>2, <1>3, <1>4, <1>5, ReadingStep

LEMMA LoadBatchStep == ASSUME ViewIInv, NEW r \in Runners, LoadBatch(r) PROVE ViewIInv'
<1>1. UNCHANGED <<projector, published, upstream, view, timeline, checkpoint, dirty>> /\ runner[r].pc = "load"
  BY DEF LoadBatch, views, projectionBounds
<1>2. PICK end : end = IF checkpoint + Batch < published THEN checkpoint + Batch ELSE published
  OBVIOUS
<1>3. \/ end <= checkpoint /\ LeaveOff(r, "idle")
      \/ end > checkpoint /\ runner' = [runner EXCEPT ![r] =
               [pc |-> "look", position |-> checkpoint, upto |-> end, value |-> 0]]
  <2>1. published \in Nat /\ checkpoint \in Nat /\ Batch \in Nat
    BY JournalDomain, ProjectionAssumption DEF ViewIInv, ViewTypes
  <2> QED BY <1>2, <2>1 DEF LoadBatch
<1>4. CASE LeaveOff(r, "idle")
  BY <1>1, <1>4, LeaveOffStep
<1>5. CASE end > checkpoint /\ runner' = [runner EXCEPT ![r] =
               [pc |-> "look", position |-> checkpoint, upto |-> end, value |-> 0]]
  <2>1. PICK x : x = [pc |-> "look", position |-> checkpoint, upto |-> end, value |-> 0]
    OBVIOUS
  <2>2. published \in Nat /\ checkpoint \in Nat /\ Batch \in Nat
    BY JournalDomain, ProjectionAssumption DEF ViewIInv, ViewTypes
  <2>3. end \in Nat /\ end <= published /\ checkpoint <= end
    BY <1>2, <1>5, <2>2
  <2>4. x \in RunnerRecords /\ x.pc = "look" /\ x.position = checkpoint /\ x.upto = end
    BY <2>1, <2>2, <2>3 DEF RunnerRecords
  <2>5. RunnerOK(x)
    BY <2>2, <2>3, <2>4 DEF RunnerOK, AtWork
  <2> QED BY <1>1, <1>5, <2>1, <2>4, <2>5, ReadingStep
<1> QED BY <1>3, <1>4, <1>5

\* The same runner, at another step.
LEMMA GoOnStep ==
  ASSUME ViewIInv, NEW r \in Runners, NEW pc, GoOn(r, pc), runner[r].pc # "idle",
         pc \in {"load", "look"} \cup AtWork,
         UNCHANGED <<projector, published, upstream, view, timeline, checkpoint, dirty>>,
         RunnerOK([runner[r] EXCEPT !.pc = pc])
  PROVE  ViewIInv'
<1>1. PICK x : x = [runner[r] EXCEPT !.pc = pc]
  OBVIOUS
<1>2. x \in RunnerRecords /\ x.pc = pc
  BY <1>1 DEF ViewIInv, ViewTypes, RunnerRecords
<1>3. runner' = [runner EXCEPT ![r] = x]
  BY <1>1 DEF GoOn
<1>4. x.pc \notin {"clear", "reset"}
  BY <1>2 DEF AtWork
<1> QED BY <1>1, <1>2, <1>3, <1>4, ReadingStep

\* What the projector is to do with an event fits the view it looked at.
LEMMA VerdictIs ==
  ASSUME ViewIInv, NEW r \in Runners, runner[r].pc = "look", runner[r].position # runner[r].upto,
         NEW v, v = VersionOf(Cursor(r)), NEW w, w = Verdict(r)
  PROVE  /\ w.do \in {"put", "skip", "block", "wait"} /\ w.value \in Nat
         /\ w.do = "put" => v <= w.value /\ (projector # "collaboration" => w.value = v)
         /\ w.do = "skip" => v <= view[Journal[Cursor(r)]] /\ projector # "collaboration"
<1>1. PICK x \in RunnerRecords : x = runner[r]
  BY DEF ViewIInv, ViewTypes
<1>2. PICK g : g = Journal[Cursor(r)]
  OBVIOUS
<1>3. Cursor(r) = x.position + 1 /\ RunnerOK(x)
  BY <1>1 DEF ViewIInv, Cursor
<1>4. g \in HandoffsSeen /\ v \in Nat
  BY <1>1, <1>2, <1>3, EventAtWork DEF ViewIInv
<1>5. view[g] \in Nat /\ upstream[g] \in Nat
  BY <1>4 DEF ViewIInv, ViewTypes
<1>6. projector \in {"handoff", "inbox", "collaboration"}
  BY ProjectionAssumption DEF ViewIInv, ViewTypes
<1>7. CASE projector = "inbox"
  BY <1>2, <1>4, <1>5, <1>7 DEF Verdict
<1>8. CASE projector = "collaboration"
  BY <1>2, <1>4, <1>5, <1>8 DEF Verdict
<1>9. CASE projector = "handoff"
  BY <1>2, <1>4, <1>5, <1>9 DEF Verdict
<1> QED BY <1>6, <1>7, <1>8, <1>9

LEMMA JudgeStep == ASSUME ViewIInv, NEW r \in Runners, Judge(r) PROVE ViewIInv'
<1>1. UNCHANGED <<projector, published, upstream, view, timeline, checkpoint, dirty>> /\ runner[r].pc = "look"
  BY DEF Judge, views, projectionBounds
<1>2. ASSUME NEW result, LeaveOff(r, result) PROVE ViewIInv'
  BY <1>1, <1>2, LeaveOffStep
<1>3. CASE runner[r].position # runner[r].upto /\ Verdict(r).do # "wait"
  <2>1. PICK w : w = Verdict(r)
    OBVIOUS
  <2>2. PICK v : v = VersionOf(Cursor(r))
    OBVIOUS
  <2>3. /\ w.do \in {"put", "skip", "block"} /\ w.value \in Nat
        /\ w.do = "put" => v <= w.value /\ (projector # "collaboration" => w.value = v)
        /\ w.do = "skip" => v <= view[Journal[Cursor(r)]] /\ projector # "collaboration"
    BY <1>1, <1>3, <2>1, <2>2, VerdictIs
  <2>4. PICK pc : pc = CASE w.do = "put" -> "may put" [] w.do = "skip" -> "may advance"
                         [] w.do = "block" -> "may block"
    OBVIOUS
  <2>5. /\ pc \in {"may put", "may advance", "may block"}
        /\ (pc = "may put" => w.do = "put") /\ (pc = "may advance" => w.do = "skip")
    BY <2>3, <2>4
  <2>6. PICK y \in RunnerRecords : y = runner[r]
    BY DEF ViewIInv, ViewTypes
  <2>7. PICK x : x = [y EXCEPT !.value = w.value, !.pc = pc]
    OBVIOUS
  <2>8. runner' = [runner EXCEPT ![r] = x]
    BY <1>3, <2>1, <2>4, <2>6, <2>7 DEF Judge
  <2>9. /\ x \in RunnerRecords /\ x.pc = pc /\ x.value = w.value
        /\ x.position = y.position /\ x.upto = y.upto
    BY <2>3, <2>5, <2>6, <2>7 DEF RunnerRecords, AtWork
  <2>10. x.position + 1 = Cursor(r)
    BY <2>6, <2>9 DEF Cursor
  <2>11. y.position <= y.upto /\ y.upto <= published /\ y.position <= checkpoint
    BY <1>1, <2>6, Zenon DEF ViewIInv, RunnerOK
  <2>12. RunnerOK(x)
    <3>1. x.position <= x.upto /\ x.upto <= published /\ x.position <= checkpoint /\ x.position # x.upto
      BY <1>3, <2>6, <2>9, <2>11
    <3>2. x.pc = "may put" => /\ VersionOf(x.position + 1) <= x.value
                              /\ projector # "collaboration" => x.value = VersionOf(x.position + 1)
      BY <2>2, <2>3, <2>5, <2>9, <2>10
    <3>3. x.pc = "may advance" => EventSeen(x) /\ projector # "collaboration"
      BY <2>2, <2>3, <2>5, <2>9, <2>10 DEF EventSeen
    <3>4. x.pc \notin {"put", "may note", "note", "advance"}
      BY <2>5, <2>9
    <3> QED BY <3>1, <3>2, <3>3, <3>4, Zenon DEF RunnerOK
  <2>13. x.pc \notin {"clear", "reset"}
    BY <2>5, <2>9
  <2> QED BY <1>1, <2>8, <2>9, <2>12, <2>13, ReadingStep
<1> QED BY <1>2, <1>3 DEF Judge

LEMMA AssertOwnershipStep == ASSUME ViewIInv, NEW r \in Runners, AssertOwnership(r) PROVE ViewIInv'
<1>1. /\ UNCHANGED <<projector, published, upstream, view, timeline, checkpoint, dirty>>
      /\ runner[r].pc \in {"may put", "may note", "may advance", "may block"}
  BY DEF AssertOwnership, views, projectionBounds
<1>2. CASE LeaveOff(r, "lost")
  BY <1>1, <1>2, LeaveOffStep
<1>3. CASE ~LeaveOff(r, "lost")
  <2>1. PICK y \in RunnerRecords : y = runner[r]
    BY DEF ViewIInv, ViewTypes
  <2>2. PICK pc : pc = CASE y.pc = "may put" -> "put" [] y.pc = "may note" -> "note"
                         [] y.pc = "may advance" -> "advance" [] y.pc = "may block" -> "block"
    OBVIOUS
  <2>3. /\ pc \in {"put", "note", "advance", "block"}
        /\ (pc = "put" => y.pc = "may put") /\ (pc = "note" => y.pc = "may note")
        /\ (pc = "advance" => y.pc = "may advance")
    BY <1>1, <2>1, <2>2
  <2>4. GoOn(r, pc)
    BY <1>3, <2>1, <2>2 DEF AssertOwnership
  <2>5. PICK x : x = [y EXCEPT !.pc = pc]
    OBVIOUS
  <2>6. x.pc = pc /\ x.position = y.position /\ x.upto = y.upto /\ x.value = y.value
    BY <2>1, <2>5 DEF RunnerRecords
  <2>7. RunnerOK(y) /\ y.pc \in AtWork /\ x.pc \in AtWork
    BY <1>1, <2>1, <2>3, <2>6 DEF ViewIInv, AtWork
  <2>8. RunnerOK(x)
    BY <2>3, <2>6, <2>7 DEF RunnerOK, EventSeen
  <2> QED BY <1>1, <2>1, <2>4, <2>5, <2>6, <2>7, <2>8, GoOnStep
<1> QED BY <1>2, <1>3

LEMMA RecordBlockStep == ASSUME ViewIInv, NEW r \in Runners, RecordBlock(r) PROVE ViewIInv'
BY LeaveOffStep DEF RecordBlock, projectionBounds

LEMMA CrashStep == ASSUME ViewIInv, NEW r \in Runners, CrashAt(r) PROVE ViewIInv'
BY RestIsOK, ReadingStep DEF CrashAt, CallFails, views

\* A call that fails, or finds that it comes too late, blocks.
LEMMA BlockStep ==
  ASSUME ViewIInv, NEW r \in Runners, GoOn(r, "may block"), runner[r].pc \in AtWork,
         UNCHANGED <<projector, published, upstream, view, timeline, checkpoint, dirty>>
  PROVE  ViewIInv'
<1>1. PICK y \in RunnerRecords : y = runner[r]
  BY DEF ViewIInv, ViewTypes
<1>2. PICK x : x = [y EXCEPT !.pc = "may block"]
  OBVIOUS
<1>3. x.pc = "may block" /\ x.position = y.position /\ x.upto = y.upto
  BY <1>1, <1>2 DEF RunnerRecords
<1>4. RunnerOK(y) /\ y.pc \in AtWork /\ x.pc \in AtWork
  BY <1>1, <1>3 DEF ViewIInv, AtWork
<1>5. RunnerOK(x)
  BY <1>3, <1>4 DEF RunnerOK
<1>6. runner[r].pc # "idle"
  BY DEF AtWork
<1> QED BY <1>1, <1>2, <1>3, <1>4, <1>5, <1>6, GoOnStep

\* The view is no shorter than the replay up to the checkpoint.
LEMMA ViewReaches ==
  ASSUME ViewTypes, ViewIsAPrefix, ~dirty, NEW h \in HandoffsSeen
  PROVE  ReplayTo(checkpoint)[h] <= view[h]
<1>1. checkpoint \in Nat /\ checkpoint <= checkpoint + 1
  BY JournalDomain DEF ViewTypes
<1>2. ReplayTo(checkpoint)[h] \in Nat /\ ReplayTo(checkpoint)[h] <= ReplayTo(checkpoint + 1)[h]
  BY <1>1, ReplayIsPast, ReplayGrows
<1> QED BY <1>2 DEF ViewIsAPrefix

\* A version that is put where the view is no newer makes the view the replay of one event
\* more at most.
LEMMA PutKeepsPrefix ==
  ASSUME ViewTypes, ViewIsAPrefix, ~dirty, NEW n \in Nat, n <= checkpoint, n < Len(Journal),
         NEW g, g = Journal[n + 1], NEW value \in Nat, view[g] <= value, VersionOf(n + 1) <= value,
         projector # "collaboration" => value = VersionOf(n + 1),
         view' = [view EXCEPT ![g] = value], UNCHANGED <<projector, timeline, checkpoint, dirty>>
  PROVE  ViewIsAPrefix'
<1>1. PICK v : v = VersionOf(n + 1)
  OBVIOUS
<1>2. /\ g \in HandoffsSeen /\ v \in Nat /\ v = ReplayTo(n + 1)[g]
      /\ ReplayTo(n + 1) = [ReplayTo(n) EXCEPT ![g] = v]
  BY <1>1, ReplayOneMore DEF VersionOf
<1>3. checkpoint \in Nat /\ \A h \in HandoffsSeen : view[h] \in Nat
  BY JournalDomain DEF ViewTypes
<1>4. CASE projector = "collaboration"
  <2>1. \A h \in HandoffsSeen : view'[h] >= view[h] /\ view'[h] \in Nat
    BY <1>2, <1>3 DEF ViewTypes
  <2>2. \A h \in HandoffsSeen : ReplayTo(checkpoint)[h] \in Nat /\ ReplayTo(checkpoint)[h] <= view[h]
    BY ReplayIsPast, ViewReaches
  <2>3. \A h \in HandoffsSeen : view'[h] >= ReplayTo(checkpoint)[h]
    BY <1>3, <2>1, <2>2
  <2> QED BY <1>4, <2>3 DEF ViewIsAPrefix
<1>5. CASE projector # "collaboration" /\ n = checkpoint
  <2>1. view = ReplayTo(n) \/ view = ReplayTo(n + 1)
    BY <1>5 DEF ViewIsAPrefix
  <2>2. view' = ReplayTo(n + 1)
    BY <1>1, <1>2, <1>5, <2>1, ReplayIsPast
  <2> QED BY <1>5, <2>2 DEF ViewIsAPrefix
<1>6. CASE projector # "collaboration" /\ n < checkpoint
  <2>1. v <= ReplayTo(checkpoint)[g] /\ ReplayTo(checkpoint)[g] \in Nat
    BY <1>2, <1>3, <1>6, ReplayGrows, ReplayIsPast
  <2>2. ReplayTo(checkpoint)[g] <= view[g]
    BY <1>2, ViewReaches
  <2>3. view[g] = value
    BY <1>1, <1>2, <1>3, <1>6, <2>1, <2>2
  <2>4. view' = view
    BY <2>3, <1>2 DEF ViewTypes
  <2> QED BY <2>4, PrefixStays
<1> QED BY <1>3, <1>4, <1>5, <1>6

LEMMA PutViewStep == ASSUME ViewIInv, NEW r \in Runners, PutView(r) PROVE ViewIInv'
<1>1. UNCHANGED <<projector, published, upstream, timeline, checkpoint, dirty>> /\ runner[r].pc = "put"
  BY DEF PutView, CallFails, projectionBounds
<1>2. CASE GoOn(r, "may block") /\ UNCHANGED view
  BY <1>1, <1>2, BlockStep DEF AtWork
<1>3. CASE /\ ~IsStale(r) /\ view' = [view EXCEPT ![Journal[Cursor(r)]] = runner[r].value]
           /\ GoOn(r, IF projector = "collaboration" THEN "may note" ELSE "may advance")
  <2>1. PICK y \in RunnerRecords : y = runner[r]
    BY DEF ViewIInv, ViewTypes
  <2>2. PICK pc : pc = IF projector = "collaboration" THEN "may note" ELSE "may advance"
    OBVIOUS
  <2>3. PICK x : x = [y EXCEPT !.pc = pc]
    OBVIOUS
  <2>4. PICK g : g = Journal[y.position + 1]
    OBVIOUS
  <2>5. /\ x \in RunnerRecords /\ x.pc = pc /\ x.position = y.position /\ x.upto = y.upto
        /\ pc \in {"may note", "may advance"}
        /\ (pc = "may note" <=> projector = "collaboration")
    BY <2>1, <2>2, <2>3 DEF RunnerRecords, AtWork
  <2>6. RunnerOK(y) /\ y.pc = "put" /\ Cursor(r) = y.position + 1 /\ y.value \in Nat
    BY <1>1, <2>1 DEF ViewIInv, Cursor, RunnerRecords
  <2>7. /\ y.position \in Nat /\ y.position < Len(Journal) /\ g \in HandoffsSeen
        /\ VersionOf(y.position + 1) \in Nat
    BY <2>4, <2>6, EventAtWork DEF ViewIInv, AtWork
  <2>8. view[g] \in Nat /\ view[g] <= y.value
    <3>1. view[g] \in Nat
      BY <2>7 DEF ViewIInv, ViewTypes
    <3>2. ~(y.value < view[g])
      BY <1>3, <2>1, <2>4, <2>6 DEF IsStale
    <3> QED BY <2>6, <3>1, <3>2
  <2>9. view' = [view EXCEPT ![g] = y.value] /\ runner' = [runner EXCEPT ![r] = x]
    BY <1>3, <2>1, <2>2, <2>3, <2>4, <2>6 DEF GoOn
  <2>10. /\ VersionOf(y.position + 1) <= y.value
         /\ projector # "collaboration" => y.value = VersionOf(y.position + 1)
         /\ y.position <= checkpoint
    BY <2>6, Zenon DEF RunnerOK, AtWork
  <2>11. ViewTypes'
    <3>1. view' \in [HandoffsSeen -> Nat]
      BY <2>6, <2>9 DEF ViewIInv, ViewTypes
    <3>2. runner' \in [Runners -> RunnerRecords]
      BY <2>5, <2>9 DEF ViewIInv, ViewTypes
    <3> QED BY <1>1, <3>1, <3>2 DEF ViewIInv, ViewTypes
  <2>12. \A h \in HandoffsSeen : view'[h] >= view[h]
    BY <2>7, <2>8, <2>9 DEF ViewIInv, ViewTypes
  <2>13. view'[g] = y.value
    BY <2>7, <2>9 DEF ViewIInv, ViewTypes
  <2>14. RunnerOK(x)'
    <3>1. EventSeen(x)'
      BY <2>4, <2>5, <2>10, <2>13 DEF EventSeen
    <3>2. x.position <= x.upto /\ x.upto <= published /\ x.position <= checkpoint /\ x.position # x.upto
      BY <2>5, <2>6, Zenon DEF RunnerOK, AtWork
    <3> QED BY <1>1, <2>5, <3>1, <3>2 DEF RunnerOK
  <2>15. ViewIsAPrefix'
    <3>1. CASE dirty
      BY <1>1, <3>1 DEF ViewIsAPrefix
    <3>2. CASE ~dirty
      BY <1>1, <2>4, <2>6, <2>7, <2>8, <2>9, <2>10, <3>2, PutKeepsPrefix DEF ViewIInv
    <3> QED BY <3>1, <3>2
  <2>16. checkpoint' >= checkpoint /\ timeline \subseteq timeline' /\ runner[r].pc \in AtWork
    BY <1>1, JournalDomain DEF ViewIInv, ViewTypes, AtWork
  <2>17. runner[r].pc # "idle" /\ x.pc \notin {"clear", "reset"}
    BY <1>1, <2>5
  <2> QED BY <1>1, <2>5, <2>9, <2>11, <2>12, <2>14, <2>15, <2>16, <2>17, RunnerStep
<1> QED BY <1>2, <1>3 DEF PutView

LEMMA NoteStep == ASSUME ViewIInv, NEW r \in Runners, Note(r) PROVE ViewIInv'
<1>1. /\ UNCHANGED <<projector, published, upstream, view, checkpoint, dirty>> /\ runner[r].pc = "note"
      /\ timeline' = timeline \cup {Cursor(r)} /\ GoOn(r, "may advance")
  BY DEF Note, projectionBounds
<1>2. PICK y \in RunnerRecords : y = runner[r]
  BY DEF ViewIInv, ViewTypes
<1>3. PICK x : x = [y EXCEPT !.pc = "may advance"]
  OBVIOUS
<1>4. /\ x \in RunnerRecords /\ x.pc = "may advance" /\ x.position = y.position /\ x.upto = y.upto
  BY <1>2, <1>3 DEF RunnerRecords, AtWork
<1>5. RunnerOK(y) /\ y.pc = "note" /\ Cursor(r) = y.position + 1
  BY <1>1, <1>2 DEF ViewIInv, Cursor
<1>6. /\ projector = "collaboration" /\ EventSeen(y) /\ y.position <= checkpoint
      /\ y.position <= y.upto /\ y.upto <= published /\ y.position # y.upto
  BY <1>5, Zenon DEF RunnerOK, AtWork
<1>7. runner' = [runner EXCEPT ![r] = x]
  BY <1>1, <1>2, <1>3 DEF GoOn
<1>8. ViewTypes'
  <2>1. runner' \in [Runners -> RunnerRecords]
    BY <1>4, <1>7 DEF ViewIInv, ViewTypes
  <2> QED BY <1>1, <2>1 DEF ViewIInv, ViewTypes
<1>9. RunnerOK(x)'
  <2>1. EventSeen(x)'
    BY <1>1, <1>4, <1>6 DEF EventSeen
  <2>2. x.position + 1 \in timeline'
    BY <1>1, <1>4, <1>5
  <2> QED BY <1>1, <1>4, <1>6, <2>1, <2>2 DEF RunnerOK
<1>10. ViewIsAPrefix'
  <2>1. CASE dirty
    BY <1>1, <2>1 DEF ViewIsAPrefix
  <2>2. CASE ~dirty
    <3>1. checkpoint \in Nat /\ y.position \in Nat
      BY JournalDomain, <1>2 DEF ViewIInv, ViewTypes, RunnerRecords
    <3>2. timeline = 1..checkpoint \/ timeline = 1..checkpoint + 1
      BY <1>6, <2>2 DEF ViewIInv, ViewIsAPrefix
    <3>3. y.position + 1 \in 1..checkpoint \/ y.position + 1 = checkpoint + 1
      BY <1>6, <3>1
    <3>4. timeline' = 1..checkpoint \/ timeline' = 1..checkpoint + 1
      <4>1. PICK c \in Nat : c = y.position + 1
        BY <3>1
      <4>2. timeline' = timeline \cup {c} /\ (c \in 1..checkpoint \/ c = checkpoint + 1)
        BY <1>1, <1>5, <3>3, <4>1
      <4>3. (1..checkpoint) \cup {checkpoint + 1} = 1..checkpoint + 1
        BY <3>1
      <4>4. 1..checkpoint \subseteq 1..checkpoint + 1 /\ checkpoint + 1 \in 1..checkpoint + 1
        BY <3>1
      <4> QED BY <3>2, <4>2, <4>3, <4>4
    <3> QED BY <1>1, <1>6, <2>2, <3>4 DEF ViewIInv, ViewIsAPrefix
  <2> QED BY <2>1, <2>2
<1>11. checkpoint' >= checkpoint /\ timeline \subseteq timeline' /\ \A h \in HandoffsSeen : view'[h] >= view[h]
  <2>1. checkpoint \in Nat /\ \A h \in HandoffsSeen : view[h] \in Nat
    BY JournalDomain DEF ViewIInv, ViewTypes
  <2>2. timeline \subseteq timeline'
    BY <1>1
  <2>3. view' = view /\ checkpoint' = checkpoint
    BY <1>1
  <2> QED BY <2>1, <2>2, <2>3
<1>12. runner[r].pc \in AtWork /\ runner[r].pc # "idle" /\ x.pc \notin {"clear", "reset"}
  BY <1>1, <1>4 DEF AtWork
<1> QED BY <1>1, <1>4, <1>7, <1>8, <1>9, <1>10, <1>11, <1>12, RunnerStep

\* The checkpoint passes an event that is in the view.
LEMMA AdvanceKeepsPrefix ==
  ASSUME ViewTypes, ViewIsAPrefix, ~dirty, checkpoint < Len(Journal),
         VersionOf(checkpoint + 1) <= view[Journal[checkpoint + 1]],
         projector = "collaboration" => checkpoint + 1 \in timeline,
         checkpoint' = checkpoint + 1, UNCHANGED <<projector, view, timeline, dirty>>
  PROVE  ViewIsAPrefix'
<1>1. PICK n \in Nat : n = checkpoint
  BY JournalDomain DEF ViewTypes
<1>2. PICK g : g = Journal[n + 1]
  OBVIOUS
<1>3. PICK v : v = VersionOf(n + 1)
  OBVIOUS
<1>4. /\ g \in HandoffsSeen /\ ReplayTo(n)[g] \in Nat /\ v = ReplayTo(n)[g] + 1
      /\ ReplayTo(n + 1) = [ReplayTo(n) EXCEPT ![g] = v]
  BY <1>1, <1>2, <1>3, ReplayOneMore
<1>5. v <= view[g] /\ checkpoint' = n + 1
  BY <1>1, <1>2, <1>3
<1>6. CASE projector = "collaboration"
  <2>1. \A h \in HandoffsSeen : ReplayTo(n)[h] <= view[h]
    BY <1>1, ViewReaches
  <2>2. \A h \in HandoffsSeen : ReplayTo(n + 1)[h] <= view[h]
    BY <1>4, <1>5, <2>1, ReplayIsPast
  <2>3. \A h \in HandoffsSeen : view[h] \in Nat /\ ReplayTo(n + 1)[h] \in Nat
    BY ReplayIsPast DEF ViewTypes
  <2>4. \A h \in HandoffsSeen : view[h] >= ReplayTo(n + 1)[h]
    BY <2>2, <2>3
  <2>5. timeline = 1..n + 1
    <3>1. timeline = 1..n \/ timeline = 1..n + 1
      BY <1>1, <1>6 DEF ViewIsAPrefix
    <3>2. n + 1 \in timeline /\ n + 1 \notin 1..n
      BY <1>1, <1>6
    <3> QED BY <3>1, <3>2
  <2> QED BY <1>5, <1>6, <2>4, <2>5 DEF ViewIsAPrefix
<1>7. CASE projector # "collaboration"
  <2>1. view = ReplayTo(n) \/ view = ReplayTo(n + 1)
    BY <1>1, <1>7 DEF ViewIsAPrefix
  <2>2. view # ReplayTo(n)
    BY <1>4, <1>5
  <2> QED BY <1>5, <1>7, <2>1, <2>2 DEF ViewIsAPrefix
<1> QED BY <1>6, <1>7

LEMMA AdvanceViewStep == ASSUME ViewIInv, NEW r \in Runners, AdvanceCheckpoint(r) PROVE ViewIInv'
<1>1. UNCHANGED <<projector, published, upstream, view, timeline, dirty>> /\ runner[r].pc = "advance"
  BY DEF AdvanceCheckpoint, CallFails, projectionBounds
<1>2. CASE GoOn(r, "may block") /\ UNCHANGED checkpoint
  BY <1>1, <1>2, BlockStep DEF AtWork
<1>3. CASE /\ MayAdvanceTo(r) /\ checkpoint' = Cursor(r)
           /\ runner' = [runner EXCEPT ![r].pc = "look", ![r].position = Cursor(r), ![r].value = 0]
  <2>1. PICK y \in RunnerRecords : y = runner[r]
    BY DEF ViewIInv, ViewTypes
  <2>2. PICK n : n = y.position + 1
    OBVIOUS
  <2>3. PICK x : x = [y EXCEPT !.pc = "look", !.position = n, !.value = 0]
    OBVIOUS
  <2>4. RunnerOK(y) /\ y.pc = "advance" /\ Cursor(r) = n
    BY <1>1, <2>1, <2>2 DEF ViewIInv, Cursor
  <2>5. /\ y.position \in Nat /\ n \in Nat /\ checkpoint = y.position /\ y.upto \in Nat
        /\ published \in Nat /\ Len(Journal) \in Nat /\ published <= Len(Journal)
    BY <1>3, <2>1, <2>2, JournalDomain DEF MayAdvanceTo, RunnerRecords, ViewIInv, ViewTypes
  <2>6. /\ x \in RunnerRecords /\ x.pc = "look" /\ x.position = n /\ x.upto = y.upto
    BY <2>1, <2>3, <2>5 DEF RunnerRecords
  <2>7. /\ y.position <= y.upto /\ y.upto <= published /\ y.position # y.upto
        /\ EventSeen(y) /\ (projector = "collaboration" => n \in timeline)
    BY <2>2, <2>4, Zenon DEF RunnerOK, AtWork
  <2>8. n <= y.upto /\ n <= published /\ checkpoint < Len(Journal)
    BY <2>2, <2>5, <2>7
  <2>9. checkpoint' = n /\ n = checkpoint + 1
    BY <1>3, <2>2, <2>4, <2>5
  <2>10. runner' = [runner EXCEPT ![r] = x]
    BY <1>3, <2>1, <2>3, <2>4
  <2>11. ViewTypes'
    <3>1. runner' \in [Runners -> RunnerRecords]
      BY <2>6, <2>10 DEF ViewIInv, ViewTypes
    <3>2. checkpoint' \in 0..published
      BY <2>5, <2>8, <2>9
    <3> QED BY <1>1, <3>1, <3>2 DEF ViewIInv, ViewTypes
  <2>12. RunnerOK(x)'
    <3>1. x.position <= x.upto /\ x.upto <= published' /\ x.position <= checkpoint'
      BY <1>1, <2>5, <2>6, <2>7, <2>8, <2>9
    <3> QED BY <2>6, <3>1 DEF RunnerOK, AtWork
  <2>13. ViewIsAPrefix'
    <3>1. CASE dirty
      BY <1>1, <3>1 DEF ViewIsAPrefix
    <3>2. CASE ~dirty
      <4>1. VersionOf(checkpoint + 1) <= view[Journal[checkpoint + 1]]
        BY <2>2, <2>7, <2>9 DEF EventSeen
      <4> QED BY <1>1, <2>7, <2>8, <2>9, <3>2, <4>1, AdvanceKeepsPrefix DEF ViewIInv
    <3> QED BY <3>1, <3>2
  <2>14. checkpoint' >= checkpoint /\ \A h \in HandoffsSeen : view'[h] >= view[h]
    <3>1. \A h \in HandoffsSeen : view[h] \in Nat
      BY DEF ViewIInv, ViewTypes
    <3>2. view' = view
      BY <1>1
    <3> QED BY <2>5, <2>9, <3>1, <3>2
  <2>15. timeline \subseteq timeline' /\ UNCHANGED <<projector, published>>
    BY <1>1
  <2>16. runner[r].pc \in AtWork /\ runner[r].pc # "idle" /\ x.pc \notin {"clear", "reset"}
    BY <1>1, <2>6 DEF AtWork
  <2> QED BY <2>6, <2>10, <2>11, <2>12, <2>13, <2>14, <2>15, <2>16, RunnerStep
<1> QED BY <1>2, <1>3 DEF AdvanceCheckpoint

\* A rebuild clears the view and resets the checkpoint while nobody else is under way.
LEMMA RebuildStep == ASSUME ViewIInv, ClearView \/ ResetCheckpoint PROVE ViewIInv'
<1>1. /\ runner["rebuild"].pc \in {"clear", "reset"} /\ "rebuild" \in Runners
      /\ "rebuild" \notin ProjectionTurns /\ ProjectionTurns \subseteq Runners
  BY ProjectionAssumption DEF ClearView, ResetCheckpoint, Runners
<1>2. \A t \in ProjectionTurns : runner[t].pc = "idle"
  BY <1>1 DEF ViewIInv, Alone, Rebuilding
<1>3. PICK pc : pc = IF runner["rebuild"].pc = "clear" THEN "reset" ELSE "load"
  OBVIOUS
<1>4. PICK y \in RunnerRecords : y = runner["rebuild"]
  BY <1>1 DEF ViewIInv, ViewTypes
<1>5. PICK x : x = [y EXCEPT !.pc = pc]
  OBVIOUS
<1>6. x \in RunnerRecords /\ x.pc = pc /\ pc \in {"reset", "load"}
  BY <1>3, <1>4, <1>5 DEF RunnerRecords
<1>7. runner' = [runner EXCEPT !["rebuild"] = x]
  BY <1>3, <1>4, <1>5 DEF ClearView, ResetCheckpoint, GoOn
<1>8. runner'["rebuild"] = x /\ \A t \in ProjectionTurns : runner'[t] = runner[t]
  BY <1>1, <1>7 DEF ViewIInv, ViewTypes
<1>9. \A r \in Runners : runner'[r].pc \in {"idle", "reset", "load"}
  BY <1>2, <1>6, <1>8 DEF Runners
<1>10. \A r \in Runners : RunnerOK(runner[r])'
  BY <1>9 DEF RunnerOK, AtWork
<1>11. published \in Nat /\ 0 \in 0..published /\ UNCHANGED <<projector, published, upstream>>
  BY JournalDomain DEF ViewIInv, ViewTypes, ClearView, ResetCheckpoint
<1>12. runner' \in [Runners -> RunnerRecords]
  BY <1>6, <1>7 DEF ViewIInv, ViewTypes
<1>13. CASE ClearView
  <2>1. /\ view' = [h \in HandoffsSeen |-> 0] /\ timeline' = {} /\ dirty' /\ UNCHANGED checkpoint
    BY <1>13 DEF ClearView
  <2>2. ViewTypes'
    BY <1>11, <1>12, <2>1 DEF ViewIInv, ViewTypes
  <2>3. Alone'
    BY <1>2, <1>8, <2>1 DEF Alone
  <2> QED BY <1>10, <2>1, <2>2, <2>3 DEF ViewIInv, ViewIsAPrefix
<1>14. CASE ResetCheckpoint
  <2>1. /\ checkpoint' = 0 /\ UNCHANGED <<view, timeline>> /\ runner["rebuild"].pc = "reset"
    BY <1>14 DEF ResetCheckpoint
  <2>2. view = [h \in HandoffsSeen |-> 0] /\ timeline = {}
    BY <2>1 DEF ViewIInv, Alone
  <2>3. ViewTypes'
    BY <1>11, <1>12, <2>1 DEF ViewIInv, ViewTypes
  <2>4. x.pc = "load"
    BY <1>3, <1>6, <2>1
  <2>5. Alone'
    BY <1>2, <1>8, <2>4 DEF Alone
  <2>6. ViewIsAPrefix'
    <3>1. view' = ReplayTo(0) /\ timeline' = 1..0
      BY <2>1, <2>2, ReplayToNothing
    <3>2. \A h \in HandoffsSeen : view'[h] >= ReplayTo(0)[h]
      BY <2>1, <2>2, ReplayToNothing
    <3> QED BY <2>1, <3>1, <3>2 DEF ViewIsAPrefix
  <2> QED BY <1>10, <2>3, <2>5, <2>6 DEF ViewIInv
<1> QED BY <1>13, <1>14

\* Events, lapses and the model that is followed: no runner is told.
LEMMA AroundStep ==
  ASSUME ViewIInv, \/ PublishEvent \/ Lapse \/ (\E h \in HandoffsSeen : Upstream(h)) \/ UNCHANGED projectionVars
  PROVE  ViewIInv'
<1>1. UNCHANGED <<projector, view, timeline, checkpoint, runner, dirty>>
  BY DEF PublishEvent, Lapse, Upstream, projectionVars, views, projectionBounds
<1>2. published' \in 0..Len(Journal) /\ published' >= published /\ published \in Nat /\ published' \in Nat
  BY JournalDomain DEF ViewIInv, ViewTypes, PublishEvent, Lapse, Upstream, projectionVars
<1>3. upstream' \in [HandoffsSeen -> Nat]
  BY DEF ViewIInv, ViewTypes, PublishEvent, Lapse, Upstream, projectionVars
<1>4. ViewTypes'
  <2>1. checkpoint \in 0..published'
    BY <1>2 DEF ViewIInv, ViewTypes
  <2> QED BY <1>1, <1>2, <1>3, <2>1 DEF ViewIInv, ViewTypes
<1>5. \A r \in Runners : RunnerOK(runner[r])'
  <2>1. checkpoint' >= checkpoint /\ \A h \in HandoffsSeen : view'[h] >= view[h]
    <3>1. checkpoint \in Nat /\ \A h \in HandoffsSeen : view[h] \in Nat
      BY JournalDomain DEF ViewIInv, ViewTypes
    <3>2. checkpoint' = checkpoint /\ view' = view
      BY <1>1
    <3> QED BY <3>1, <3>2
  <2>2. ASSUME NEW r \in Runners PROVE RunnerOK(runner[r])'
    <3>1. PICK x \in RunnerRecords : x = runner[r]
      BY DEF ViewIInv, ViewTypes
    <3>2. RunnerOK(x)'
      BY <1>1, <1>2, <1>4, <2>1, <3>1, RunnerStays DEF ViewIInv
    <3> QED BY <1>1, <3>1, <3>2 DEF RunnerOK, EventSeen
  <2> QED BY <2>2
<1>6. Alone' /\ ViewIsAPrefix'
  BY <1>1, PrefixStays DEF ViewIInv, Alone, Rebuilding
<1> QED BY <1>4, <1>5, <1>6 DEF ViewIInv

LEMMA ViewStart == ProjectionInit => ViewIInv
<1> SUFFICES ASSUME ProjectionInit PROVE ViewIInv
  OBVIOUS
<1>1. \A r \in Runners : runner[r] = AtRest
  BY DEF ProjectionInit
<1>2. "rebuild" \in Runners /\ ProjectionTurns \subseteq Runners
  BY DEF Runners
<1>3. ViewTypes
  BY RestIsOK, JournalDomain DEF ProjectionInit, ViewTypes
<1>4. Alone
  BY <1>1, <1>2, RestIsOK DEF Alone, Rebuilding
<1>5. ViewIsAPrefix
  <2>1. view = ReplayTo(0) /\ timeline = 1..0 /\ checkpoint = 0
    BY ReplayToNothing DEF ProjectionInit
  <2>2. \A h \in HandoffsSeen : view[h] >= ReplayTo(0)[h]
    BY ReplayToNothing DEF ProjectionInit
  <2> QED BY <2>1, <2>2 DEF ViewIsAPrefix
<1> QED BY <1>1, <1>3, <1>4, <1>5, RestIsOK DEF ViewIInv

LEMMA ViewStepKeeps == ASSUME ~Beside, ViewIInv, [ProjectionNext]_projectionVars PROVE ViewIInv'
<1>1. CASE \E t \in ProjectionTurns : BeginTurn(t)
  BY <1>1, BeginTurnStep
<1>2. CASE \E r \in Runners : RunStep(r) \/ CrashAt(r)
  BY <1>2, LoadBatchStep, JudgeStep, AssertOwnershipStep, PutViewStep, NoteStep, AdvanceViewStep,
     RecordBlockStep, CrashStep DEF RunStep
<1> QED BY <1>1, <1>2, BeginRebuildStep, RebuildStep, AroundStep DEF ProjectionNext

\* A read model is the replay of a prefix of the journal, up to its checkpoint or one event
\* further, whichever turns lapse, fail or crash, if rebuilds have the partition to themselves
\* (handoff-projector.ts, inbox-projector.ts and collaboration-projector.ts).
THEOREM ViewsReplay == ASSUME ~Beside PROVE ProjectionSpec => []ViewIsAPrefix
<1>1. ViewIInv /\ [ProjectionNext]_projectionVars => ViewIInv'
  BY ViewStepKeeps
<1>2. ViewIInv => ViewIsAPrefix
  BY DEF ViewIInv
<1> QED BY <1>1, <1>2, ViewStart, PTL DEF ProjectionSpec
=============================================================================
