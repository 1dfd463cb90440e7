--------------------------- MODULE ExchangeProofs ---------------------------
(***************************************************************************)
(* Theorems about the Exchange, for any set of handlers, Handoffs, actors, *)
(* packages and keys, and with no bound on versions or time other than the *)
(* constants'.                                                             *)
(***************************************************************************)
EXTENDS Exchange, TLAPS

-----------------------------------------------------------------------------
(* What the decider and the reducer of a Handoff preserve, for every       *)
(* state, command and time.                                                *)


\* The null values belong to the types they are null values of, and a stream
\* nobody has written to is consistent.
LEMMA NullFacts ==
  /\ NoClaim \in Claims
  /\ Absent \in HandoffStates
  /\ Absent.version = 0 /\ Absent.life = "none" /\ Absent.claim = NoClaim
  /\ Consistent(Absent)
BY NullAssumption
   DEF NoClaim, Claims, Absent, HandoffStates, Consistent, ResponsibleFor, Targets,
       LifecycleStates, Proposed, UnderReview, TerminalStates

\* The reducer's value after a first event (evolveHandoff, on no state).
LEMMA CreatedOK ==
  ASSUME NEW e \in Events, e.type \in CreationTypes, e.actor \in Actors, e.pkg \in Packages
  PROVE  /\ Created(e) \in HandoffStates
         /\ Consistent(Created(e))
         /\ Created(e).version = 1
         /\ Created(e).recipient = NoActor
         /\ Created(e).life \in Proposed \ {"claimed"}
         /\ Created(e).parent = e.link
<1> DEFINE s == Created(e)
<1>1. s.life \in Proposed \ {"claimed"}
  BY DEF Created, Absent, Proposed
<1>2. /\ s.version = 1 /\ s.initiator = e.actor /\ s.recipient = NoActor
      /\ s.responsible = e.actor /\ s.claim = NoClaim /\ s.pkg = e.pkg
      /\ s.parent = e.link
  BY DEF Created, Absent
<1>3. e.pkg.target \in Targets
  BY PackageAssumption
<1>4. s \in HandoffStates
  <2>1. s.life \in LifecycleStates /\ e.link \in Handoffs \cup {NoHandoff}
    BY <1>1 DEF LifecycleStates, Proposed, Events
  <2> QED BY <2>1, <1>3, NullFacts DEF Created, HandoffStates, Absent
<1>5. Consistent(s)
  <2> HIDE DEF s
  <2> QED
    BY <1>1, <1>2, NullAssumption
       DEF Consistent, ResponsibleFor, Proposed, UnderReview
<1> QED BY <1>1, <1>2, <1>4, <1>5

\* Appending an event that suits a consistent Handoff leaves it consistent.
THEOREM EvolveKeepsConsistent ==
  ASSUME NEW s \in HandoffStates, NEW e \in Events, Consistent(s), Suits(s, e)
  PROVE  Evolve(s, e) \in HandoffStates /\ Consistent(Evolve(s, e))
<1>1. CASE s.version = 0
  <2>1. e.type \in CreationTypes /\ Evolve(s, e) = Created(e)
    BY <1>1 DEF Suits, EventAllowed, Evolve
  <2> QED BY <2>1, CreatedOK DEF Suits
<1>2. CASE s.version # 0
  <2> DEFINE t == EvolveExisting(s, e)
  <2>1. Evolve(s, e) = t /\ s.life \in DOMAIN AllowedFrom /\ e.type \in AllowedFrom[s.life]
    BY <1>2 DEF Suits, EventAllowed, Evolve
  <2>2. /\ s.initiator \in Actors /\ s.pkg \in Packages /\ s.pkg.verifier \in Actors
        /\ s.version + 1 \in Nat /\ s.version + 1 # 0
    BY <1>2, PackageAssumption DEF Consistent, HandoffStates
  <2>3. s.recipient \in Actors \cup {NoActor} /\ e.claim \in Claims /\ s.claim \in Claims
    BY DEF HandoffStates, Events
  <2>4. NoClaim \in Claims /\ NoClaim.actor \notin Actors
    BY NullFacts, NullAssumption DEF NoClaim
  <2>5. CASE e.type = "claimed"
    <3>1. s.life = "claimable"
      BY <2>1, <2>5 DEF AllowedFrom
    <3>2. t = [s EXCEPT !.version = @ + 1, !.life = "claimed", !.claim = e.claim,
                        !.fencingToken = e.claim.token]
      BY <2>5 DEF EvolveExisting
    <3>3. e.claim.actor \in Actors /\ e.claim # NoClaim /\ e.claim.token \in Nat
      BY <2>3, <2>4, <2>5 DEF Suits, Claims
    <3>4. t \in HandoffStates
      BY <3>2, <3>3, <2>2, <2>3 DEF HandoffStates, LifecycleStates, Proposed
    <3>5. Consistent(t)
      BY <3>1, <3>2, <3>3, <2>2, <1>2 DEF Consistent, ResponsibleFor, HandoffStates, Proposed, UnderReview
    <3> QED BY <2>1, <3>4, <3>5
  <2>6. CASE e.type = "claim_renewed"
    <3>1. s.life = "claimed"
      BY <2>1, <2>6 DEF AllowedFrom
    <3>2. t = [s EXCEPT !.version = @ + 1, !.claim = e.claim]
      BY <2>6 DEF EvolveExisting
    <3>3. e.claim.actor \in Actors /\ e.claim # NoClaim /\ e.claim.token = s.fencingToken
      BY <2>3, <2>4, <2>6, <3>1 DEF Suits, Consistent
    <3>4. t \in HandoffStates
      BY <3>2, <2>2, <2>3 DEF HandoffStates
    <3>5. Consistent(t)
      BY <3>1, <3>2, <3>3, <2>2, <1>2
         DEF Consistent, ResponsibleFor, HandoffStates, Proposed, UnderReview
    <3> QED BY <2>1, <3>4, <3>5
  <2>7. CASE e.type \in {"claim_released", "claim_expired"}
    <3>1. s.life = "claimed"
      BY <2>1, <2>7 DEF AllowedFrom
    <3>2. t = [s EXCEPT !.version = @ + 1, !.life = "claimable", !.claim = NoClaim]
      BY <2>7 DEF EvolveExisting
    <3>3. t \in HandoffStates
      BY <3>2, <2>2, <2>4 DEF HandoffStates, LifecycleStates, Proposed
    <3>4. Consistent(t)
      BY <3>1, <3>2, <2>2, <1>2
         DEF Consistent, ResponsibleFor, HandoffStates, Proposed, UnderReview
    <3> QED BY <2>1, <3>3, <3>4
  <2>8. CASE e.type = "target_resolved"
    <3>1. s.life = "target_resolution_pending"
      BY <2>1, <2>8 DEF AllowedFrom
    <3>2. t = [s EXCEPT !.version = @ + 1, !.life = "offered", !.target = e.target]
      BY <2>8 DEF EvolveExisting
    <3>3. t \in HandoffStates
      BY <3>2, <2>2 DEF HandoffStates, LifecycleStates, Proposed, Events
    <3>4. Consistent(t)
      BY <3>1, <3>2, <2>2, <1>2
         DEF Consistent, ResponsibleFor, HandoffStates, Proposed, UnderReview
    <3> QED BY <2>1, <3>3, <3>4
  <2>9. CASE e.type = "accepted"
    <3>1. t = [s EXCEPT !.version = @ + 1, !.life = "accepted", !.recipient = e.actor,
                        !.responsible = e.actor, !.claim = NoClaim, !.target = e.target]
      BY <2>9 DEF EvolveExisting
    <3>2. e.actor \in Actors
      BY <2>9 DEF Suits
    <3>3. t \in HandoffStates
      BY <3>1, <3>2, <2>2, <2>4 DEF HandoffStates, LifecycleStates, Events
    <3>4. Consistent(t)
      BY <3>1, <3>2, <2>2, <1>2
         DEF Consistent, ResponsibleFor, HandoffStates, Proposed, UnderReview
    <3> QED BY <2>1, <3>3, <3>4
  <2>10. CASE e.type \in {"target_unavailable", "declined", "closed"}
    <3>1. s.life \in {"target_resolution_pending", "offered", "verified"}
      BY <2>1, <2>10 DEF AllowedFrom
    <3>2. t = [s EXCEPT !.version = @ + 1, !.life = e.type, !.responsible = NoActor]
      BY <2>10 DEF EvolveExisting
    <3>3. t \in HandoffStates
      BY <3>2, <2>2, <2>10 DEF HandoffStates, LifecycleStates, TerminalStates
    <3>4. Consistent(t)
      BY <3>1, <3>2, <2>2, <1>2, <2>10
         DEF Consistent, ResponsibleFor, HandoffStates, Proposed, UnderReview
    <3> QED BY <2>1, <3>3, <3>4
  <2>11. CASE e.type \in {"expired", "cancelled"}
    <3>1. t = [s EXCEPT !.version = @ + 1, !.life = e.type, !.responsible = NoActor,
                        !.claim = NoClaim]
      BY <2>11 DEF EvolveExisting
    <3>2. t \in HandoffStates
      BY <3>1, <2>2, <2>4, <2>11 DEF HandoffStates, LifecycleStates, TerminalStates
    <3>3. Consistent(t)
      BY <3>1, <2>2, <1>2, <2>11
         DEF Consistent, ResponsibleFor, HandoffStates, Proposed, UnderReview
    <3> QED BY <2>1, <3>2, <3>3
  <2>12. CASE e.type \in {"result_returned", "verified", "rework_requested"}
    <3>1. s.life \in {"accepted", "result_returned"}
      BY <2>1, <2>12 DEF AllowedFrom
    <3>2. t = [s EXCEPT !.version = @ + 1, !.life = e.type, !.responsible = s.pkg.verifier]
      BY <2>12 DEF EvolveExisting
    <3>3. t \in HandoffStates
      BY <3>2, <2>2, <2>12 DEF HandoffStates, LifecycleStates, UnderReview
    <3>4. Consistent(t)
      BY <3>1, <3>2, <2>2, <1>2, <2>12
         DEF Consistent, ResponsibleFor, HandoffStates, Proposed, UnderReview
    <3> QED BY <2>1, <3>3, <3>4
  <2>13. CASE e.type = "transferred"
    <3>1. s.life = "accepted"
      BY <2>1, <2>13 DEF AllowedFrom
    <3>2. t = [s EXCEPT !.version = @ + 1, !.life = "transferred", !.responsible = NoActor,
                        !.child = e.link]
      BY <2>13 DEF EvolveExisting
    <3>3. t \in HandoffStates
      BY <3>2, <2>2 DEF HandoffStates, LifecycleStates, TerminalStates, Events
    <3>4. Consistent(t)
      BY <3>1, <3>2, <2>2, <1>2
         DEF Consistent, ResponsibleFor, HandoffStates, Proposed, UnderReview
    <3> QED BY <2>1, <3>3, <3>4
  <2>14. CASE e.type = "status_reported"
    <3>1. t = [s EXCEPT !.version = @ + 1]
      BY <2>14 DEF EvolveExisting
    <3>2. t \in HandoffStates
      BY <3>1, <2>2 DEF HandoffStates
    <3>3. Consistent(t)
      BY <3>1, <2>2, <1>2 DEF Consistent, ResponsibleFor, HandoffStates
    <3> QED BY <2>1, <3>2, <3>3
  <2>15. e.type \in EventTypes \ CreationTypes
    BY <2>1 DEF AllowedFrom, EventTypes, CreationTypes
  <2> QED
    BY <2>5, <2>6, <2>7, <2>8, <2>9, <2>10, <2>11, <2>12, <2>13, <2>14, <2>15
       DEF EventTypes, CreationTypes
<1> QED BY <1>1, <1>2

\* What an event of each type changes of the version, the links and the recipient.
LEMMA EvolveFacts ==
  ASSUME NEW s \in HandoffStates, NEW e \in Events, Consistent(s), Suits(s, e)
  PROVE  /\ Evolve(s, e).version = s.version + 1
         /\ s.version = 0 =>
              /\ e.type \in CreationTypes
              /\ Evolve(s, e).recipient = NoActor
              /\ Evolve(s, e).life \in Proposed
              /\ Evolve(s, e).parent = e.link
         /\ s.version # 0 =>
              /\ e.type \notin CreationTypes
              /\ s.life # "transferred"
              /\ Evolve(s, e).parent = s.parent
              /\ Evolve(s, e).recipient =
                   IF e.type = "accepted" THEN e.actor ELSE s.recipient
         /\ Evolve(s, e).life = "transferred" <=> e.type = "transferred"
         /\ e.type = "transferred" => Evolve(s, e).child = e.link
<1>1. CASE s.version = 0
  <2>1. e.type \in CreationTypes /\ Evolve(s, e) = Created(e)
    BY <1>1 DEF Suits, EventAllowed, Evolve
  <2>2. /\ Created(e).version = 1 /\ Created(e).recipient = NoActor
        /\ Created(e).life \in Proposed /\ Created(e).parent = e.link
    BY <2>1, CreatedOK DEF Suits
  <2> QED BY <1>1, <2>1, <2>2 DEF Proposed, CreationTypes
<1>2. CASE s.version # 0
  <2>1. /\ Evolve(s, e) = EvolveExisting(s, e)
        /\ s.life \in DOMAIN AllowedFrom /\ e.type \in AllowedFrom[s.life]
    BY <1>2 DEF Suits, EventAllowed, Evolve
  <2>2. e.type \in EventTypes \ CreationTypes /\ s.life # "transferred"
    BY <2>1 DEF AllowedFrom, EventTypes, CreationTypes
  <2> QED BY <1>2, <2>1, <2>2 DEF EvolveExisting, HandoffStates, EventTypes, CreationTypes
<1> QED BY <1>1, <1>2

\* The decider and the reducer agree: an accepted command on one stream produces
\* an event that the reducer takes, and the claim it grants is a fresh one.
THEOREM DecideSuits ==
  ASSUME NEW s \in HandoffStates, Consistent(s), NEW c, NEW t \in Nat,
         NEW eligible \in BOOLEAN,
         c.kind \in Kinds \ {"transfer"}, c.actor \in Actors, c.token \in Nat,
         c.heartbeat \in Nat, c.target \in Targets,
         c.kind = "offer" => c.pkg \in Packages,
         c.pkg \in Packages \cup {NoPackage},
         Decide(s, c, t, eligible)
  PROVE  /\ EventOf(s, c, t) \in Events
         /\ Suits(s, EventOf(s, c, t))
         /\ EventOf(s, c, t).type # "transferred"
         /\ EventOf(s, c, t).type = "accepted" => c.kind = "accept"
         /\ EventOf(s, c, t).link = NoHandoff
<1> DEFINE e == EventOf(s, c, t)
<1>1. NoClaim \in Claims /\ NoActor \in Targets
  BY NullFacts DEF Targets
<1>2. /\ NoActor \notin Actors /\ s.claim \in Claims /\ s.target \in Targets
      /\ s.fencingToken \in Nat /\ s.version \in Nat /\ AnyActor \in Targets
  BY NullAssumption DEF HandoffStates, Targets
<1>3. s.life \notin {"none", "unreadable"} => s.version # 0
  BY DEF Consistent, Absent
<1>4. CASE c.kind = "offer"
  <2>1. e = OfferEvent(c, NoHandoff) /\ s.version = 0
    BY <1>4 DEF EventOf, Decide
  <2> QED
    BY <2>1, <1>1, <1>4
       DEF OfferEvent, Event, Events, EventTypes, CreationTypes, Suits, EventAllowed
<1>5. CASE c.kind = "resolve_target"
  <2>1. e = [Event("target_resolved") EXCEPT !.target = c.target]
        /\ s.life = "target_resolution_pending"
    BY <1>5 DEF EventOf, Decide, DecideResolve
  <2> QED
    BY <2>1, <1>1, <1>3
       DEF Event, Events, EventTypes, CreationTypes, Suits, EventAllowed, AllowedFrom
<1>6. CASE c.kind = "claim"
  <2>1. e = [Event("claimed") EXCEPT !.claim = GrantClaim(s, c, t)] /\ s.life = "claimable"
    BY <1>6 DEF EventOf, Decide, DecideClaim
  <2>2. /\ GrantClaim(s, c, t) \in Claims
        /\ GrantClaim(s, c, t).actor = c.actor
        /\ GrantClaim(s, c, t).token = s.fencingToken + 1
    BY <1>2, LeaseAssumption DEF GrantClaim, Claims
  <2> QED
    BY <2>1, <2>2, <1>1, <1>3
       DEF Event, Events, EventTypes, CreationTypes, Suits, EventAllowed, AllowedFrom
<1>7. CASE c.kind = "renew_claim"
  <2>1. e = [Event("claim_renewed") EXCEPT !.claim = RenewClaim(s, c, t)]
        /\ s.life = "claimed"
    BY <1>7 DEF EventOf, Decide, DecideHeartbeat
  <2>2. /\ RenewClaim(s, c, t) \in Claims
        /\ RenewClaim(s, c, t).actor = s.claim.actor
        /\ RenewClaim(s, c, t).token = s.claim.token
    <3> DEFINE claim == s.claim
    <3>1. claim \in Claims /\ t + LeaseSeconds \in Nat
      BY <1>2, LeaseAssumption
    <3>2. RenewClaim(s, c, t) =
            [claim EXCEPT !.heartbeat = c.heartbeat, !.expiresAt = t + LeaseSeconds]
      BY DEF RenewClaim
    <3> HIDE DEF claim
    <3>3. /\ RenewClaim(s, c, t) \in Claims
          /\ RenewClaim(s, c, t).actor = claim.actor
          /\ RenewClaim(s, c, t).token = claim.token
      BY <3>1, <3>2 DEF Claims
    <3> QED BY <3>3 DEF claim
  <2> QED
    BY <2>1, <2>2, <1>1, <1>3
       DEF Event, Events, EventTypes, CreationTypes, Suits, EventAllowed, AllowedFrom
<1>8. CASE c.kind = "accept"
  <2>1. /\ e = [Event("accepted") EXCEPT
                  !.actor = c.actor, !.target = IF s.life = "claimed" THEN AnyActor ELSE s.target]
        /\ s.life \in {"offered", "claimed", "rework_requested"}
    BY <1>8 DEF EventOf, Decide, DecideAccept
  <2> DEFINE target == IF s.life = "claimed" THEN AnyActor ELSE s.target
  <2>2. target \in Targets
    BY <1>2
  <2> HIDE DEF target
  <2>3. /\ e.type = "accepted" /\ e.actor = c.actor /\ e.link = NoHandoff /\ e \in Events
    BY <2>1, <2>2, <1>1 DEF Event, Events, EventTypes, target
  <2>4. EventAllowed(s, e)
    BY <2>1, <2>3, <1>3 DEF EventAllowed, AllowedFrom
  <2>5. Suits(s, e)
    <3> HIDE DEF e
    <3> QED BY <2>3, <2>4 DEF CreationTypes, Suits
  <2> QED BY <2>3, <2>5, <1>8
<1>9. CASE c.kind \in Kinds \ {"offer", "resolve_target", "claim", "renew_claim", "accept",
                               "transfer"}
  <2>1. e = Event(SimpleEvent[c.kind])
    BY <1>9 DEF EventOf, Kinds
  <2>2. /\ s.life \in DOMAIN AllowedFrom
        /\ SimpleEvent[c.kind] \in AllowedFrom[s.life]
    <3>1. CASE c.kind \in {"decline", "expire", "cancel"}
      BY <3>1 DEF Decide, DecideDecline, DecideExpire, DecideCancel, SimpleEvent, AllowedFrom,
                  Proposed
    <3>2. CASE c.kind \in {"report_status", "return_result"}
      BY <3>2 DEF Decide, DecideWork, SimpleEvent, AllowedFrom
    <3>3. CASE c.kind \in {"verify", "close", "request_rework"}
      BY <3>3 DEF Decide, DecideReview, SimpleEvent, AllowedFrom
    <3>4. CASE c.kind \in {"report_target_unavailable", "release_claim", "expire_claim"}
      BY <3>4 DEF Decide, DecideResolve, DecideHeartbeat, DecideExpireClaim, SimpleEvent,
                  AllowedFrom
    <3> QED BY <1>9, <3>1, <3>2, <3>3, <3>4 DEF Kinds
  <2>3. SimpleEvent[c.kind] \in EventTypes \
          (CreationTypes \cup {"claimed", "claim_renewed", "accepted", "transferred"})
    BY <1>9 DEF Kinds, SimpleEvent, EventTypes, CreationTypes
  <2>4. s.version # 0
    BY <2>2, <1>3 DEF AllowedFrom
  <2>5. EventAllowed(s, e)
    BY <2>1, <2>2, <2>4 DEF EventAllowed, Event
  <2> QED BY <2>1, <2>3, <2>5, <1>1 DEF Event, Events, Suits
<1> QED BY <1>4, <1>5, <1>6, <1>7, <1>8, <1>9 DEF Kinds
-----------------------------------------------------------------------------
(* Claims. *)

\* What an event of each type changes of the claim.
LEMMA EvolveClaim ==
  ASSUME NEW s \in HandoffStates, NEW e \in Events, Consistent(s), Suits(s, e)
  PROVE  /\ e.type = "claimed" => s.claim = NoClaim /\ Evolve(s, e).claim = e.claim
         /\ e.type = "claim_renewed" => s.claim # NoClaim /\ Evolve(s, e).claim = e.claim
         /\ e.type \in {"claim_released", "claim_expired"} =>
              Evolve(s, e).claim = NoClaim /\ Evolve(s, e).life = "claimable"
         /\ e.type = "accepted" =>
              /\ Evolve(s, e).claim = NoClaim /\ Evolve(s, e).life = "accepted"
              /\ Evolve(s, e).recipient = e.actor
         /\ e.type \in {"expired", "cancelled"} =>
              Evolve(s, e).claim = NoClaim /\ Evolve(s, e).life = e.type
         /\ e.type \notin {"claimed", "claim_renewed", "claim_released", "claim_expired", "accepted",
                           "expired", "cancelled"} => Evolve(s, e).claim = s.claim
<1>1. CASE s.version = 0
  <2>1. e.type \in CreationTypes /\ Evolve(s, e) = Created(e) /\ s = Absent
    BY <1>1 DEF Suits, EventAllowed, Evolve, Consistent
  <2> QED BY <2>1 DEF CreationTypes, Created, Absent
<1>2. CASE s.version # 0
  <2>1. /\ Evolve(s, e) = EvolveExisting(s, e)
        /\ s.life \in DOMAIN AllowedFrom /\ e.type \in AllowedFrom[s.life]
    BY <1>2 DEF Suits, EventAllowed, Evolve
  <2>2. e.type \in EventTypes \ CreationTypes
    BY <2>1 DEF AllowedFrom, EventTypes, CreationTypes
  <2>3. e.type = "claimed" => s.claim = NoClaim
    BY <2>1 DEF AllowedFrom, Consistent
  <2>4. e.type = "claim_renewed" => s.claim # NoClaim
    BY <2>1 DEF AllowedFrom, Consistent
  <2>5. s \in HandoffStates
    OBVIOUS
  <2> QED BY <2>1, <2>2, <2>3, <2>4, <2>5 DEF EvolveExisting, HandoffStates, EventTypes, CreationTypes
<1> QED BY <1>1, <1>2

\* No claim is promised for longer than a lease from now.
LeaseBounded(s, t) == s.claim # NoClaim => s.claim.expiresAt <= t + LeaseSeconds

\* An event ends a claim for a reason: its lease has lapsed, its holder asks for it, or the
\* Handoff goes to the holder, or ends.  A renewal moves the claim forward.
ClaimSound(s, e, c, t) ==
  /\ e.type = "claim_expired" => t >= s.claim.expiresAt
  /\ e.type = "claim_released" => HoldsClaim(s, c) /\ c.heartbeat > s.claim.heartbeat
  /\ e.type = "expired" => t >= s.pkg.acceptBy
  /\ (e.type = "accepted" /\ s.claim # NoClaim) => e.actor = s.claim.actor
  /\ e.type = "claim_renewed" =>
       e.claim.heartbeat > s.claim.heartbeat /\ e.claim.expiresAt >= s.claim.expiresAt

\* What the decider accepts is sound for the claim.
LEMMA DecideClaims ==
  ASSUME NEW s \in HandoffStates, Consistent(s), NEW c, NEW t \in Nat, LeaseBounded(s, t),
         NEW eligible \in BOOLEAN, c.kind \in Kinds \ {"transfer"}, c.heartbeat \in Nat,
         Decide(s, c, t, eligible)
  PROVE  /\ ClaimSound(s, EventOf(s, c, t), c, t)
         /\ EventOf(s, c, t).type \in {"claimed", "claim_renewed"} =>
              EventOf(s, c, t).claim.expiresAt <= t + LeaseSeconds
<1> DEFINE e == EventOf(s, c, t)
<1>1. s.claim \in Claims /\ s.claim.heartbeat \in Nat /\ s.claim.expiresAt \in Nat /\ LeaseSeconds \in Nat
  BY LeaseAssumption DEF HandoffStates, Claims
<1>2. CASE c.kind = "offer"
  <2>1. e.type \in CreationTypes
    BY <1>2 DEF EventOf, OfferEvent, Event, CreationTypes
  <2> QED BY <2>1 DEF ClaimSound, CreationTypes
<1>3. CASE c.kind = "resolve_target"
  <2>1. e.type = "target_resolved"
    BY <1>3 DEF EventOf, Event
  <2> QED BY <2>1 DEF ClaimSound
<1>4. CASE c.kind = "claim"
  <2>1. e.type = "claimed" /\ e.claim = GrantClaim(s, c, t)
    BY <1>4 DEF EventOf, Event
  <2>2. GrantClaim(s, c, t).expiresAt = t + LeaseSeconds
    BY DEF GrantClaim
  <2> QED BY <1>1, <2>1, <2>2 DEF ClaimSound
<1>5. CASE c.kind = "renew_claim"
  <2>1. e.type = "claim_renewed" /\ e.claim = RenewClaim(s, c, t)
    BY <1>5 DEF EventOf, Event
  <2>2. RenewClaim(s, c, t).expiresAt = t + LeaseSeconds /\ RenewClaim(s, c, t).heartbeat = c.heartbeat
    BY <1>1 DEF RenewClaim, Claims
  <2>3. s.claim # NoClaim /\ c.heartbeat = s.claim.heartbeat + 1
    BY <1>5 DEF Decide, DecideHeartbeat, HoldsClaim
  <2> QED BY <1>1, <2>1, <2>2, <2>3 DEF ClaimSound, LeaseBounded
<1>6. CASE c.kind = "accept"
  <2>1. e.type = "accepted" /\ e.actor = c.actor
    BY <1>6 DEF EventOf, Event
  <2>2. s.claim # NoClaim => s.claim.actor = c.actor
    BY <1>6 DEF Decide, DecideAccept, HoldsClaim, Consistent
  <2> QED BY <2>1, <2>2 DEF ClaimSound
<1>7. CASE c.kind \in DOMAIN SimpleEvent
  <2>1. e.type = SimpleEvent[c.kind]
    BY <1>7 DEF EventOf, Event, SimpleEvent
  <2>2. c.kind = "release_claim" => HoldsClaim(s, c) /\ c.heartbeat > s.claim.heartbeat
    BY <1>1 DEF Decide, DecideHeartbeat
  <2>3. c.kind = "expire_claim" => t >= s.claim.expiresAt
    BY DEF Decide, DecideExpireClaim
  <2>4. c.kind = "expire" => t >= s.pkg.acceptBy
    BY DEF Decide, DecideExpire
  <2> QED BY <1>7, <2>1, <2>2, <2>3, <2>4 DEF ClaimSound, SimpleEvent
<1>8. c.kind \in {"offer", "resolve_target", "claim", "renew_claim", "accept"} \cup DOMAIN SimpleEvent
  BY DEF Kinds, SimpleEvent
<1> QED BY <1>2, <1>3, <1>4, <1>5, <1>6, <1>7, <1>8

-----------------------------------------------------------------------------
(* Types. *)

\* What a client sends is well formed.
LEMMA CommandsOnType ==
  ASSUME NEW h \in Handoffs, NEW v \in Nat, NEW key \in Keys \cup {UniqueKey},
         NEW c \in CommandsOn(h, v, key)
  PROVE  WellFormed(c)
<1>1. PICK k \in Kinds : c \in CommandsOfKind(k, h, v, key)
  BY ExchangeAssumption DEF CommandsOn
<1> DEFINE T == IF k \in Fenced THEN 0..MaxFence ELSE {0}
           B == IF k \in Heartbeats THEN 1..MaxFence ELSE {0}
           A == IF k = "offer" THEN Initiators ELSE Actors
           D == IF k = "resolve_target" THEN Targets \ {NoActor} ELSE {NoActor}
           H == IF k = "offer" THEN {NoHandoff} ELSE {h}
           V == IF k = "offer" THEN {0} ELSE {v}
           O == IF k \in Judged THEN BOOLEAN ELSE {TRUE}
           G == IF k \in Offering THEN Packages ELSE {NoPackage}
<1>2. /\ T \subseteq Nat /\ B \subseteq Nat
      /\ A \subseteq Actors /\ V \subseteq Nat
  BY ExchangeAssumption
<1>3. D \subseteq Targets /\ H \subseteq Handoffs \cup {NoHandoff}
  BY DEF Targets
<1>4. O \subseteq BOOLEAN /\ G \subseteq Packages \cup {NoPackage}
  OBVIOUS
<1>5. (k \in Offering => G = Packages) /\ (k # "offer" => H = {h})
  OBVIOUS
<1>6. c \in [kind : {k}, key : {key}, handoff : H, version : V, actor : A, token : T,
             heartbeat : B, ok : O, target : D, pkg : G]
  BY <1>1 DEF CommandsOfKind
<1> HIDE DEF T, B, A, D, H, V, O, G
<1>7. c \in CommandType
  BY <1>2, <1>3, <1>4, <1>6 DEF CommandType
<1>8. /\ c.kind \in Offering => c.pkg \in Packages
      /\ c.kind # "offer" => c.handoff \in Handoffs
  BY <1>5, <1>6
<1> QED BY <1>7, <1>8 DEF WellFormed

\* An idle handler is well typed, and the event that stands for no append has no type.
LEMMA IdleType ==
  /\ Idle \in Requests
  /\ Idle.pc = "idle"
  /\ NoEvent \in Events /\ NoEvent.type = "none"
BY NullFacts
   DEF Idle, Requests, Refusal, Outcomes, NoEvent, Event, Events, Unchecked, Targets, NoClaim, Claims

-----------------------------------------------------------------------------
(* Requests. *)

\* A request stays sound when other requests commit: its snapshots and the versions
\* it is to check were current at some time, and versions only grow.
LEMMA RequestStable ==
  ASSUME TypeOK, TypeOK', NEW p \in Handlers, RequestOK(p), request'[p] = request[p],
         \A h \in Handoffs :
           handoff'[h] = handoff[h] \/ handoff'[h].version > handoff[h].version
  PROVE  RequestOK(p)'
<1> DEFINE r == request[p]
<1>1. /\ \A h \in Handoffs : handoff[h].version \in Nat /\ handoff'[h].version \in Nat
      /\ \A h \in Handoffs : handoff'[h].version >= handoff[h].version
  BY DEF TypeOK, HandoffStates
<1>2. \A s \in HandoffStates, h \in Handoffs : Snapshot(s, h) => Snapshot(s, h)'
  BY <1>1 DEF Snapshot, HandoffStates
<1>3. r \in Requests
  BY DEF TypeOK
<1>4. r.pc \in {"loaded", "paired"} => LoadedOK(r)'
  BY <1>2, <1>3 DEF RequestOK, LoadedOK, Requests
<1>5. r.pc = "paired" => Snapshot(r.peer, r.other)'
  BY <1>2, <1>3 DEF RequestOK, Requests
<1>6. r.pc = "decided" => ProposalFits(r)'
  <2> SUFFICES ASSUME r.pc = "decided" PROVE ProposalFits(r)'
    OBVIOUS
  <2>1. ProposalFits(r)
    BY DEF RequestOK
  <2>2. /\ r.expect \in [Handoffs -> Nat \cup {Unchecked}]
        /\ r.append \in [Handoffs -> Events]
    BY <1>3 DEF Requests
  <2>3. \A h \in Handoffs :
          /\ r.expect[h] <= handoff'[h].version
          /\ r.append[h] # NoEvent => r.expect[h] # Unchecked
          /\ r.append[h].type \in CreationTypes => r.append[h].link # h
    BY <1>1, <2>1, <2>2 DEF ProposalFits, Unchecked
  <2>4. ASSUME ~VersionConflict(r)'
        PROVE  /\ ~VersionConflict(r)
               /\ \A h \in Handoffs : r.append[h] # NoEvent => handoff'[h] = handoff[h]
    <3>1. \A h \in Handoffs : r.expect[h] # Unchecked => handoff'[h].version = r.expect[h]
      BY <2>4 DEF VersionConflict
    <3>2. \A h \in Handoffs : r.expect[h] # Unchecked => handoff'[h] = handoff[h]
      BY <3>1, <1>1, <2>1 DEF ProposalFits
    <3> QED BY <3>1, <3>2, <2>1 DEF ProposalFits, VersionConflict
  <2>5. ASSUME ~VersionConflict(r)', NEW h \in Handoffs
        PROVE  LET e == r.append[h] IN
               /\ e # NoEvent => Suits(handoff'[h], e)
               /\ e.type = "accepted" /\ handoff'[h].parent # NoHandoff =>
                    /\ r.append[handoff'[h].parent].type = "transferred"
                    /\ r.append[handoff'[h].parent].link = h
               /\ e.type = "transferred" =>
                    /\ e.link \in Handoffs
                    /\ r.append[e.link].type = "accepted"
                    /\ handoff'[e.link].parent = h
    <3>1. /\ ~VersionConflict(r)
          /\ \A g \in Handoffs : r.append[g] # NoEvent => handoff'[g] = handoff[g]
      BY <2>4, <2>5
    <3>2. \A g \in Handoffs : r.append[g].type # "none" => r.append[g] # NoEvent
      BY IdleType
    <3> QED BY <3>1, <3>2, <2>1 DEF ProposalFits
  <2> QED BY <2>3, <2>5 DEF ProposalFits
<1> QED BY <1>3, <1>4, <1>5, <1>6 DEF RequestOK

\* A step of handler p that changes nothing but its own request.
LEMMA QuietStep ==
  ASSUME IInv, NEW p \in Handlers, NEW r \in Requests,
         request' = [request EXCEPT ![p] = r],
         UNCHANGED <<handoff, commands, now>>, RequestOK(p)'
  PROVE  IInv'
<1>1. TypeOK'
  BY DEF IInv, TypeOK
<1>2. \A q \in Handlers : RequestOK(q)'
  <2> SUFFICES ASSUME NEW q \in Handlers, q # p PROVE RequestOK(q)'
    OBVIOUS
  <2>1. request'[q] = request[q]
    BY DEF IInv, TypeOK
  <2> QED BY <2>1, <1>1, RequestStable DEF IInv, ProposalsFit
<1>3. (\A h \in Handoffs : Consistent(handoff[h]))' /\ TransfersLinked' /\ TransferAtomic'
  BY DEF IInv, ProposalsFit, TransfersLinked, TransferAtomic
<1> QED BY <1>1, <1>2, <1>3 DEF IInv, ProposalsFit

\* The reply to a command.
LEMMA AnswerStep ==
  ASSUME IInv, NEW p \in Handlers, NEW c, WellFormed(c), NEW outcome \in Outcomes,
         Answer(p, c, outcome), UNCHANGED <<handoff, commands, now>>
  PROVE  IInv'
<1> DEFINE a == [Idle EXCEPT !.pc = "answered", !.cmd = c, !.outcome = outcome]
<1>1. a \in Requests /\ a.pc = "answered" /\ a.cmd = c
  BY IdleType DEF Requests, WellFormed
<1>2. PICK r \in {Idle, a} : request' = [request EXCEPT ![p] = r]
  BY DEF Answer
<1> HIDE DEF a
<1>3. r \in Requests /\ request'[p] = r /\ r.pc \in {"idle", "answered"}
      /\ (r.pc # "idle" => r.cmd = c)
  BY <1>1, <1>2, IdleType DEF IInv, TypeOK
<1>4. RequestOK(p)'
  BY <1>3 DEF RequestOK, WellFormed
<1> QED BY <1>2, <1>3, <1>4, QuietStep

\* A refusal is an outcome handle() may return.
LEMMA RefusalType == \A status \in {"rejected", "version_conflict", "idempotency_key_reused"} :
                       Refusal(status) \in Outcomes
BY DEF Refusal, Outcomes

\* The reply to a command whose key is taken.
LEMMA ReplayStep ==
  ASSUME IInv, NEW p \in Handlers, NEW c, WellFormed(c), ReplayOrReuse(p, c),
         UNCHANGED <<handoff, commands, now>>
  PROVE  IInv'
<1>1. PICK r \in commands :
        Answer(p, c, IF r.cmd = c THEN r.outcome ELSE Refusal("idempotency_key_reused"))
  BY DEF ReplayOrReuse, Saved
<1>2. r.outcome \in Outcomes
  BY DEF IInv, TypeOK
<1> QED BY <1>1, <1>2, RefusalType, AnswerStep

\* A handler's proposal.
LEMMA ProposeStep ==
  ASSUME IInv, NEW p \in Handlers,
         NEW expect \in [Handoffs -> Nat \cup {Unchecked}],
         NEW append \in [Handoffs -> Events], NEW outcome \in Outcomes,
         request[p].pc # "idle", request[p].stream \in Handoffs,
         Propose(p, expect, append, outcome), UNCHANGED <<handoff, commands, now>>,
         ProposalFits(request'[p])
  PROVE  IInv'
<1> DEFINE r == [Idle EXCEPT !.pc = "decided", !.cmd = request[p].cmd,
                             !.stream = request[p].stream,
                             !.expect = expect, !.append = append, !.outcome = outcome]
<1>1. WellFormed(request[p].cmd)
  BY DEF IInv, ProposalsFit, RequestOK
<1>2. r \in Requests /\ r.pc = "decided" /\ r.cmd = request[p].cmd
  BY <1>1, IdleType DEF Requests, WellFormed
<1>3. request' = [request EXCEPT ![p] = r]
  BY DEF Propose
<1> HIDE DEF r
<1>4. request'[p] = r
  BY <1>3 DEF IInv, TypeOK
<1>5. RequestOK(p)'
  <2>1. ProposalFits(request[p])'
    BY DEF ProposalFits, VersionConflict
  <2> QED BY <2>1, <1>1, <1>2, <1>4 DEF RequestOK, WellFormed
<1> QED BY <1>2, <1>3, <1>5, QuietStep

-----------------------------------------------------------------------------
(* One lemma for every step of a handler. *)

\* A command found by its key, or not, in findCommand: the streams are not touched.
LEMMA ReceiveStep == ASSUME IInv, NEW p \in Handlers, Receive(p) PROVE IInv'
<1> DEFINE Found(key, c) ==
      IF Saved(key) # {}
        THEN ReplayOrReuse(p, c)
        ELSE request' = [request EXCEPT ![p] = [Idle EXCEPT !.pc = "received", !.cmd = c]]
<1>1. PICK key \in Keys, h \in Handoffs : \E v \in 0..handoff[h].version :
        \E c \in {d \in CommandsOn(h, v, key) : d.kind = "offer" \/ d.version > 0} :
          Found(key, c)
  BY Zenon DEF Receive
<1> HIDE DEF Found
<1>2. PICK v \in 0..handoff[h].version :
        \E c \in {d \in CommandsOn(h, v, key) : d.kind = "offer" \/ d.version > 0} :
          Found(key, c)
  BY <1>1
<1>3. PICK c \in CommandsOn(h, v, key) : Found(key, c)
  BY <1>2
<1>4. v \in Nat
  BY <1>2 DEF IInv, TypeOK, HandoffStates
<1>5. WellFormed(c)
  BY <1>4, CommandsOnType
<1>6. UNCHANGED <<handoff, commands, now>>
  BY DEF Receive
<1>7. CASE Saved(key) # {}
  BY <1>3, <1>5, <1>6, <1>7, ReplayStep DEF Found
<1>8. CASE Saved(key) = {}
  <2> DEFINE r == [Idle EXCEPT !.pc = "received", !.cmd = c]
  <2>1. r \in Requests /\ r.pc = "received" /\ r.cmd = c
    BY <1>5, IdleType DEF Requests, WellFormed
  <2>2. request' = [request EXCEPT ![p] = r]
    BY <1>3, <1>8 DEF Found
  <2> HIDE DEF r
  <2>3. request'[p] = r
    BY <2>2 DEF IInv, TypeOK
  <2>4. RequestOK(p)'
    BY <2>1, <2>3, <1>5 DEF RequestOK, WellFormed
  <2> QED BY <2>1, <2>2, <2>4, <1>6, QuietStep
<1> QED BY <1>7, <1>8

\* readStream and the version check leave the handler with a snapshot of the stream.
LEMMA LoadStep ==
  ASSUME IInv, NEW p \in Handlers, NEW c, NEW id \in Handoffs, WellFormed(c),
         Load(p, c, id), UNCHANGED <<handoff, commands, now>>
  PROVE  IInv'
<1> DEFINE stream == IF c.kind = "offer" THEN id ELSE c.handoff
           s == handoff[stream]
           other == CASE c.kind = "transfer" -> id
                      [] c.kind = "accept" -> s.parent
                      [] OTHER -> NoHandoff
           r == [Idle EXCEPT !.pc = "loaded", !.cmd = c, !.stream = stream, !.own = s,
                             !.other = other]
<1>1. Answer(p, c, Refusal("version_conflict")) \/ request' = [request EXCEPT ![p] = r]
  BY DEF Load
<1>2. CASE Answer(p, c, Refusal("version_conflict"))
  BY <1>2, RefusalType, AnswerStep
<1>3. CASE request' = [request EXCEPT ![p] = r]
  <2>1. stream \in Handoffs /\ s \in HandoffStates /\ Consistent(s) /\ s.parent # stream
    BY DEF IInv, TypeOK, ProposalsFit, TransfersLinked, WellFormed
  <2>2. other \in Handoffs \cup {NoHandoff}
    BY <2>1 DEF HandoffStates
  <2>3. /\ c.kind = "transfer" => other \in Handoffs
        /\ c.kind = "accept" => other = s.parent
        /\ c.kind \notin {"transfer", "accept"} => other = NoHandoff
    OBVIOUS
  <2>4. s.version <= handoff[stream].version
    BY <2>1 DEF HandoffStates
  <2>5. s = handoff[stream]
    OBVIOUS
  <2> HIDE DEF stream, s, other
  <2>6. /\ r \in Requests /\ r.pc = "loaded" /\ r.cmd = c /\ r.stream = stream
        /\ r.own = s /\ r.other = other
    BY <2>1, <2>2, IdleType DEF Requests, WellFormed
  <2> HIDE DEF r
  <2>7. request'[p] = r
    BY <1>3 DEF IInv, TypeOK
  <2>8. LoadedOK(request'[p])
    BY <2>1, <2>3, <2>4, <2>5, <2>6, <2>7 DEF LoadedOK, Snapshot
  <2>9. LoadedOK(request[p])'
    BY <2>8 DEF LoadedOK, Snapshot
  <2>10. RequestOK(p)'
    BY <2>6, <2>7, <2>9 DEF RequestOK, WellFormed
  <2> QED BY <1>3, <2>6, <2>10, QuietStep
<1> QED BY <1>1, <1>2, <1>3

\* The same, of a command that goes by a key of its own.
LEMMA LoadUniqueStep == ASSUME IInv, NEW p \in Handlers, LoadUnique(p) PROVE IInv'
<1>1. PICK h \in Handoffs, id \in Handoffs :
        \E c \in CommandsOn(h, handoff[h].version, UniqueKey) : Load(p, c, id)
  BY DEF LoadUnique
<1>2. PICK c \in CommandsOn(h, handoff[h].version, UniqueKey) : Load(p, c, id)
  BY <1>1
<1>3. PICK v \in Nat : v = handoff[h].version
  BY DEF IInv, TypeOK, HandoffStates
<1>4. WellFormed(c)
  BY <1>2, <1>3, CommandsOnType
<1> QED BY <1>2, <1>4, LoadStep DEF LoadUnique

\* The same, of a command whose key findCommand did not know.
LEMMA LoadReceivedStep == ASSUME IInv, NEW p \in Handlers, LoadReceived(p) PROVE IInv'
<1>1. WellFormed(request[p].cmd)
  BY DEF LoadReceived, IInv, ProposalsFit, RequestOK
<1>2. PICK id \in Handoffs : Load(p, request[p].cmd, id)
  BY DEF LoadReceived
<1> QED BY <1>1, <1>2, LoadStep DEF LoadReceived

\* The second readStream, of a parent or a child, is a snapshot of that stream.
LEMMA LoadOtherStep == ASSUME IInv, NEW p \in Handlers, LoadOther(p) PROVE IInv'
<1> DEFINE r == request[p]
           q == [r EXCEPT !.pc = "paired", !.peer = handoff[r.other]]
<1>1. r \in Requests /\ r.pc = "loaded" /\ r.other # NoHandoff
  BY DEF LoadOther, IInv, TypeOK
<1>2. WellFormed(r.cmd) /\ LoadedOK(r)
  BY <1>1 DEF IInv, ProposalsFit, RequestOK
<1>3. r.other \in Handoffs /\ handoff[r.other] \in HandoffStates
  BY <1>1 DEF Requests, IInv, TypeOK
<1>4. r.cmd.kind \in {"transfer", "accept"}
  BY <1>1, <1>2 DEF LoadedOK
<1>5. request' = [request EXCEPT ![p] = q]
  BY DEF LoadOther
<1> HIDE DEF r
<1>6. /\ q \in Requests /\ q.pc = "paired" /\ q.cmd = r.cmd /\ q.stream = r.stream
      /\ q.own = r.own /\ q.other = r.other /\ q.peer = handoff[r.other]
  BY <1>1, <1>3 DEF Requests
<1> HIDE DEF q
<1>7. request'[p] = q
  BY <1>5 DEF IInv, TypeOK
<1>8. UNCHANGED <<handoff, commands, now>>
  BY DEF LoadOther
<1>9. LoadedOK(request[p])'
  BY <1>2, <1>6, <1>7, <1>8 DEF LoadedOK, Snapshot
<1>10. Snapshot(request[p].peer, request[p].other)'
  BY <1>3, <1>6, <1>7, <1>8 DEF Snapshot, HandoffStates
<1>11. q.other = q.stream => q.own.version <= q.peer.version
  BY <1>2, <1>6 DEF LoadedOK, Snapshot
<1>12. RequestOK(p)'
  BY <1>2, <1>3, <1>4, <1>6, <1>7, <1>9, <1>10, <1>11 DEF RequestOK, WellFormed
<1> QED BY <1>5, <1>6, <1>8, <1>12, QuietStep

\* A proposal that appends nothing fits whatever versions of the past it checks.
LEMMA RejectStep ==
  ASSUME IInv, NEW p \in Handlers,
         NEW expect \in [Handoffs -> Nat \cup {Unchecked}], NEW outcome \in Outcomes,
         \A h \in Handoffs : expect[h] <= handoff[h].version,
         request[p].pc # "idle", request[p].stream \in Handoffs,
         Propose(p, expect, Idle.append, outcome), UNCHANGED <<handoff, commands, now>>
  PROVE  IInv'
<1>1. /\ Idle.append \in [Handoffs -> Events]
      /\ \A h \in Handoffs : Idle.append[h] = NoEvent
  BY IdleType DEF Idle
<1>2. request'[p].expect = expect /\ request'[p].append = Idle.append
  BY DEF Propose, Idle, IInv, TypeOK
<1>3. ProposalFits(request'[p])
  BY <1>1, <1>2, IdleType DEF ProposalFits, CreationTypes
<1> QED BY <1>1, <1>3, ProposeStep

\* What decideHandoff proposes for one stream fits the stream while its version is checked.
LEMMA DecideOneStep == ASSUME IInv, NEW p \in Handlers, DecideOne(p) PROVE IInv'
<1> DEFINE r == request[p]
           expect == [Idle.expect EXCEPT ![r.stream] = r.own.version]
           append == [Idle.append EXCEPT ![r.stream] = EventOf(r.own, r.cmd, now)]
           done == Accepted(r.stream, r.own.version + 1)
<1>1. r \in Requests /\ r.pc = "loaded" /\ r.other = NoHandoff
  BY DEF DecideOne, IInv, TypeOK
<1>2. WellFormed(r.cmd) /\ LoadedOK(r)
  BY <1>1 DEF IInv, ProposalsFit, RequestOK
<1>3. /\ r.stream \in Handoffs /\ r.own \in HandoffStates /\ r.own.version \in Nat
      /\ handoff[r.stream] \in HandoffStates
  BY <1>1, <1>2 DEF LoadedOK, Requests, HandoffStates, IInv, TypeOK
<1>4. /\ r.cmd.kind # "transfer"
      /\ r.cmd.kind = "accept" => r.own.parent = NoHandoff
  BY <1>1, <1>2, NullAssumption DEF LoadedOK
<1>5. UNCHANGED <<handoff, commands, now>>
  BY DEF DecideOne
<1>6. /\ expect \in [Handoffs -> Nat \cup {Unchecked}]
      /\ \A h \in Handoffs : expect[h] = IF h = r.stream THEN r.own.version ELSE Unchecked
  BY <1>3 DEF Idle
<1>7. \A h \in Handoffs : expect[h] <= handoff[h].version
  BY <1>2, <1>3, <1>6 DEF LoadedOK, Snapshot, IInv, TypeOK, HandoffStates, Unchecked
<1>8. PICK eligible \in BOOLEAN :
        IF Decide(r.own, r.cmd, now, eligible)
          THEN Propose(p, expect, append, done)
          ELSE Reject(p, expect)
  BY DEF DecideOne
<1>9. CASE ~Decide(r.own, r.cmd, now, eligible)
  <2>1. Propose(p, expect, Idle.append, Refusal("rejected"))
    BY <1>8, <1>9 DEF Reject
  <2> HIDE DEF expect
  <2> QED BY <2>1, <1>1, <1>3, <1>5, <1>6, <1>7, RefusalType, RejectStep
<1>10. CASE Decide(r.own, r.cmd, now, eligible)
  <2>1. Propose(p, expect, append, done)
    BY <1>8, <1>10
  <2>2. done \in Outcomes
    BY <1>3 DEF Accepted, Outcomes
  <2> DEFINE e == EventOf(r.own, r.cmd, now)
  <2>3. /\ e \in Events /\ Suits(r.own, e)
        /\ e.type # "transferred"
        /\ e.type = "accepted" => r.cmd.kind = "accept"
        /\ e.link \notin Handoffs
    <3>1. /\ r.cmd.kind \in Kinds \ {"transfer"} /\ r.cmd.actor \in Actors
          /\ r.cmd.token \in Nat /\ r.cmd.heartbeat \in Nat /\ r.cmd.target \in Targets
          /\ r.cmd.kind = "offer" => r.cmd.pkg \in Packages
          /\ r.cmd.pkg \in Packages \cup {NoPackage}
      BY <1>2, <1>4 DEF WellFormed, CommandType, Offering
    <3>2. now \in Nat /\ Consistent(r.own)
      BY <1>2 DEF IInv, TypeOK, LoadedOK
    <3> HIDE DEF r
    <3> QED BY <3>1, <3>2, <1>3, <1>10, DecideSuits, NullAssumption
  <2>4. /\ append \in [Handoffs -> Events]
        /\ \A h \in Handoffs : append[h] = IF h = r.stream THEN e ELSE NoEvent
    <3> HIDE DEF e
    <3>1. append = [Idle.append EXCEPT ![r.stream] = e]
      BY DEF e
    <3> HIDE DEF append
    <3> QED BY <3>1, <2>3, <1>3, IdleType DEF Idle
  <2>5. /\ request'[p].expect = expect /\ request'[p].append = append
    <3> HIDE DEF expect, append, done
    <3> QED BY <2>1 DEF Propose, Idle, IInv, TypeOK
  <2> HIDE DEF expect, append, e, done
  <2>6. ProposalFits(request'[p])
    <3>1. ASSUME ~VersionConflict(request'[p])
          PROVE  handoff[r.stream] = r.own
      <4>1. expect[r.stream] = r.own.version /\ r.own.version # Unchecked
        BY <1>3, <1>6 DEF Unchecked
      <4>2. handoff[r.stream].version = r.own.version
        BY <3>1, <4>1, <2>5, <1>3 DEF VersionConflict
      <4> QED BY <4>2, <1>2 DEF LoadedOK, Snapshot
    <3>2. \A h \in Handoffs : append[h] # NoEvent => expect[h] # Unchecked
      BY <2>4, <1>6, <1>3 DEF Unchecked
    <3>3. e.type = "accepted" => r.own.parent = NoHandoff
      BY <2>3, <1>4
    <3>4. \A h \in Handoffs : append[h].type \in CreationTypes => append[h].link # h
      BY <2>3, <2>4, IdleType DEF CreationTypes
    <3> QED BY <3>1, <3>2, <3>3, <3>4, <2>3, <2>4, <2>5, <1>7, IdleType DEF ProposalFits
  <2> QED BY <2>1, <2>2, <2>4, <2>6, <1>1, <1>3, <1>5, <1>6, ProposeStep
<1> QED BY <1>9, <1>10

\* What offerChildHandoff proposes fits the parent and the child it creates.
LEMMA DecideChildOfferStep ==
  ASSUME IInv, NEW p \in Handlers, DecideChildOffer(p) PROVE IInv'
<1> DEFINE r == request[p]
           parent == [Idle.expect EXCEPT ![r.stream] = r.own.version]
           expect == [parent EXCEPT ![r.other] = 0]
           e == OfferEvent(r.cmd, r.stream)
           append == [Idle.append EXCEPT ![r.other] = e]
           done == Accepted(r.other, 1)
<1>1. r \in Requests /\ r.pc = "paired" /\ r.cmd.kind = "transfer"
  BY DEF DecideChildOffer, IInv, TypeOK
<1>2. WellFormed(r.cmd) /\ LoadedOK(r) /\ r.other \in Handoffs
  BY <1>1 DEF IInv, ProposalsFit, RequestOK
<1>3. /\ r.stream \in Handoffs /\ r.own.version \in Nat
      /\ \A h \in Handoffs : handoff[h].version \in Nat
  BY <1>1, <1>2 DEF LoadedOK, Requests, HandoffStates, IInv, TypeOK
<1>4. UNCHANGED <<handoff, commands, now>>
  BY DEF DecideChildOffer
<1>5. /\ parent \in [Handoffs -> Nat \cup {Unchecked}]
      /\ \A h \in Handoffs : parent[h] = IF h = r.stream THEN r.own.version ELSE Unchecked
  BY <1>3 DEF Idle
<1>6. \A h \in Handoffs : parent[h] <= handoff[h].version
  BY <1>2, <1>3, <1>5 DEF LoadedOK, Snapshot, Unchecked
<1>7. \/ Propose(p, parent, Idle.append, Refusal("version_conflict"))
      \/ Reject(p, parent)
      \/ Propose(p, expect, append, done) /\ r.peer.version = 0 /\ r.own.life = "accepted"
  BY <1>1 DEF DecideChildOffer, DecideTransfer, Requests, HandoffStates
<1> HIDE DEF parent
<1>8. CASE \/ Propose(p, parent, Idle.append, Refusal("version_conflict"))
           \/ Reject(p, parent)
  <2>1. PICK status \in {"version_conflict", "rejected"} :
          Propose(p, parent, Idle.append, Refusal(status))
    BY <1>8 DEF Reject
  <2> QED BY <2>1, <1>1, <1>3, <1>4, <1>5, <1>6, RefusalType, RejectStep
<1>9. CASE Propose(p, expect, append, done) /\ r.peer.version = 0 /\ r.own.life = "accepted"
  <2>1. done \in Outcomes
    BY <1>2 DEF Accepted, Outcomes
  <2>2. /\ e \in Events /\ e.type \in CreationTypes /\ e.actor \in Actors /\ e.pkg \in Packages
        /\ e.link = r.stream
    BY <1>1, <1>2, <1>3, NullFacts
       DEF OfferEvent, Event, Events, EventTypes, CreationTypes, WellFormed, CommandType,
           Offering, Targets
  <2> HIDE DEF e
  <2>3. /\ append \in [Handoffs -> Events]
        /\ \A h \in Handoffs : append[h] = IF h = r.other THEN e ELSE NoEvent
    BY <1>2, <2>2, IdleType DEF Idle
  <2>4. /\ expect \in [Handoffs -> Nat \cup {Unchecked}]
        /\ \A h \in Handoffs : expect[h] = IF h = r.other THEN 0 ELSE parent[h]
    BY <1>5, <1>2
  <2> HIDE DEF append, expect, done
  <2>5. request'[p].expect = expect /\ request'[p].append = append
    BY <1>9 DEF Propose, Idle, IInv, TypeOK
  <2>6. ProposalFits(request'[p])
    <3>1. ASSUME ~VersionConflict(request'[p])
          PROVE  Suits(handoff[r.other], e)
      <4>1. handoff[r.other].version = 0
        BY <3>1, <2>4, <2>5, <1>2 DEF VersionConflict, Unchecked
      <4> QED BY <4>1, <2>2 DEF Suits, EventAllowed, CreationTypes
    <3>2. \A h \in Handoffs : expect[h] <= handoff[h].version
      BY <2>4, <1>6, <1>3
    <3>3. e.type \notin {"accepted", "transferred"}
      BY <2>2 DEF CreationTypes
    <3>4. r.stream # r.other
      BY <1>1, <1>2, <1>3, <1>9
         DEF LoadedOK, Consistent, Absent, IInv, ProposalsFit, RequestOK
    <3>5. \A h \in Handoffs : append[h].type \in CreationTypes => append[h].link # h
      BY <3>4, <2>2, <2>3, IdleType DEF CreationTypes
    <3> QED
      BY <3>1, <3>2, <3>3, <3>5, <2>3, <2>4, <2>5, IdleType DEF ProposalFits, Unchecked
  <2> QED BY <1>9, <2>1, <2>3, <2>4, <2>6, <1>1, <1>3, <1>4, ProposeStep
<1> QED BY <1>7, <1>8, <1>9

\* What acceptChildAndTransferParent proposes fits the child and the parent, together.
LEMMA DecideChildAcceptStep ==
  ASSUME IInv, NEW p \in Handlers, DecideChildAccept(p) PROVE IInv'
<1> DEFINE r == request[p]
           expect == [Idle.expect EXCEPT ![r.stream] = r.own.version,
                                         ![r.other] = r.peer.version]
           e == EventOf(r.own, r.cmd, now)
           f == [Event("transferred") EXCEPT !.link = r.stream]
           append == [Idle.append EXCEPT ![r.stream] = e, ![r.other] = f]
           done == Accepted(r.stream, r.own.version + 1)
<1>1. r \in Requests /\ r.pc = "paired" /\ r.cmd.kind = "accept"
  BY DEF DecideChildAccept, IInv, TypeOK
<1>2. /\ WellFormed(r.cmd) /\ LoadedOK(r)
      /\ r.other \in Handoffs /\ Snapshot(r.peer, r.other)
  BY <1>1 DEF IInv, ProposalsFit, RequestOK
<1>3. /\ r.stream \in Handoffs /\ r.own \in HandoffStates /\ r.peer \in HandoffStates
      /\ r.own.version \in Nat /\ r.peer.version \in Nat
      /\ \A h \in Handoffs : handoff[h].version \in Nat
      /\ r.other = r.own.parent /\ r.other # r.stream
  BY <1>1, <1>2 DEF LoadedOK, Requests, HandoffStates, IInv, TypeOK
<1>4. UNCHANGED <<handoff, commands, now>>
  BY DEF DecideChildAccept
<1>5. /\ expect \in [Handoffs -> Nat \cup {Unchecked}]
      /\ \A h \in Handoffs :
           expect[h] = IF h = r.other THEN r.peer.version
                       ELSE IF h = r.stream THEN r.own.version ELSE Unchecked
  BY <1>2, <1>3 DEF Idle
<1>6. \A h \in Handoffs : expect[h] <= handoff[h].version
  BY <1>2, <1>3, <1>5 DEF LoadedOK, Snapshot, Unchecked
<1>7. IF MayTransferTo(r.peer, r.own) /\ DecideAccept(r.own, r.cmd, now)
        THEN Propose(p, expect, append, done)
        ELSE Reject(p, expect)
  BY DEF DecideChildAccept
<1> HIDE DEF expect
<1>8. CASE Reject(p, expect)
  <2>1. Propose(p, expect, Idle.append, Refusal("rejected"))
    BY <1>8 DEF Reject
  <2> QED BY <2>1, <1>1, <1>3, <1>4, <1>5, <1>6, RefusalType, RejectStep
<1>9. CASE /\ MayTransferTo(r.peer, r.own) /\ DecideAccept(r.own, r.cmd, now)
           /\ Propose(p, expect, append, done)
  <2>1. done \in Outcomes
    BY <1>3 DEF Accepted, Outcomes
  <2>2. /\ e \in Events /\ Suits(r.own, e) /\ e.type = "accepted"
    <3>1. /\ r.cmd.kind \in Kinds \ {"transfer"} /\ r.cmd.actor \in Actors
          /\ r.cmd.token \in Nat /\ r.cmd.heartbeat \in Nat /\ r.cmd.target \in Targets
          /\ r.cmd.kind # "offer"
          /\ r.cmd.pkg \in Packages \cup {NoPackage}
      BY <1>1, <1>2 DEF WellFormed, CommandType, Kinds
    <3>2. now \in Nat /\ Consistent(r.own) /\ Decide(r.own, r.cmd, now, TRUE)
      BY <1>1, <1>2, <1>9 DEF IInv, TypeOK, LoadedOK, Decide
    <3>3. e.type = "accepted"
      BY <1>1 DEF EventOf, Event
    <3> HIDE DEF r
    <3> QED BY <3>1, <3>2, <3>3, <1>3, DecideSuits
  <2>3. f \in Events /\ f.type = "transferred" /\ f.link = r.stream
    BY <1>3, NullFacts DEF Event, Events, EventTypes, Targets
  <2> HIDE DEF e, f
  <2>4. /\ append \in [Handoffs -> Events]
        /\ \A h \in Handoffs :
             append[h] = IF h = r.other THEN f ELSE IF h = r.stream THEN e ELSE NoEvent
    BY <1>2, <1>3, <2>2, <2>3, IdleType DEF Idle
  <2> HIDE DEF append, done
  <2>5. request'[p].expect = expect /\ request'[p].append = append
    BY <1>9 DEF Propose, Idle, IInv, TypeOK
  <2>6. ProposalFits(request'[p])
    <3>1. ASSUME ~VersionConflict(request'[p])
          PROVE  /\ handoff[r.stream] = r.own /\ handoff[r.other] = r.peer
                 /\ r.stream # r.other
                 /\ Suits(handoff[r.stream], e) /\ Suits(handoff[r.other], f)
      <4>1. r.peer.version # Unchecked /\ r.own.version # Unchecked
        BY <1>3 DEF Unchecked
      <4>2. handoff[r.other] = r.peer
        BY <3>1, <4>1, <2>5, <1>2, <1>5 DEF VersionConflict, Snapshot
      <4>3. r.peer.life = "accepted" /\ r.own.life # "accepted"
        BY <1>9 DEF MayTransferTo, DecideAccept
      <4>4. handoff[r.stream] = r.own
        BY <3>1, <4>1, <2>5, <1>2, <1>3, <1>5 DEF VersionConflict, Snapshot, LoadedOK
      <4>5. r.peer.version # 0
        <5>1. Consistent(r.peer)
          BY <4>2, <1>2 DEF IInv, ProposalsFit
        <5> QED BY <5>1, <4>3 DEF Consistent, Absent
      <4>6. Suits(handoff[r.other], f)
        BY <4>2, <4>3, <4>5, <2>3 DEF Suits, EventAllowed, AllowedFrom, CreationTypes
      <4> QED BY <4>2, <4>3, <4>4, <4>6, <2>2
    <3>2. \A h \in Handoffs : append[h] # NoEvent => expect[h] # Unchecked
      BY <2>4, <1>5, <1>3 DEF Unchecked
    <3>3. \A h \in Handoffs : append[h].type \notin CreationTypes
      BY <2>2, <2>3, <2>4, IdleType DEF CreationTypes
    <3>4. ASSUME ~VersionConflict(request'[p]), NEW h \in Handoffs
          PROVE  /\ append[h] # NoEvent => Suits(handoff[h], append[h])
                 /\ append[h].type = "accepted" =>
                      handoff[h].parent = r.other /\ append[r.other] = f /\ h = r.stream
                 /\ append[h].type = "transferred" =>
                      /\ append[h].link = r.stream /\ append[r.stream] = e
                      /\ handoff[r.stream].parent = h
      <4>1. h = r.stream \/ h = r.other \/ append[h] = NoEvent
        BY <2>4
      <4>2. append[r.stream] = e /\ append[r.other] = f
        BY <2>4, <1>2, <1>3
      <4>3. handoff[r.stream].parent = r.other
        BY <3>1, <3>4, <1>3
      <4> QED BY <4>1, <4>2, <4>3, <3>1, <3>4, <2>2, <2>3, IdleType
    <3>5. \A h \in Handoffs : expect[h] <= handoff[h].version
      BY <1>6
    <3> HIDE DEF r
    <3> QED BY <3>2, <3>3, <3>4, <3>5, <2>2, <2>3, <2>5, <1>3 DEF ProposalFits
  <2> QED BY <1>9, <2>1, <2>4, <2>6, <1>1, <1>3, <1>4, <1>5, ProposeStep
<1> QED BY <1>7, <1>8, <1>9

\* commitAtomically, the only step that changes the streams: the heart of the proof.
LEMMA CommitStep == ASSUME IInv, NEW p \in Handlers, Commit(p) PROVE IInv'
<1> DEFINE r == request[p]
           append == r.append
           After(h) == IF append[h] = NoEvent THEN handoff[h] ELSE Evolve(handoff[h], append[h])
<1>1. /\ r \in Requests /\ r.pc = "decided" /\ now' = now
      /\ WellFormed(r.cmd) /\ ProposalFits(r)
  BY DEF Commit, IInv, TypeOK, ProposalsFit, RequestOK
<1>2. append \in [Handoffs -> Events] /\ r.outcome \in Outcomes
  BY <1>1 DEF Requests
<1>3. CASE Saved(r.cmd.key) # {}
  <2>1. ReplayOrReuse(p, r.cmd) /\ UNCHANGED <<handoff, commands, now>>
    BY <1>1, <1>3 DEF Commit
  <2> QED BY <2>1, <1>1, ReplayStep
<1>4. CASE Saved(r.cmd.key) = {} /\ VersionConflict(r)
  <2>1. Answer(p, r.cmd, Refusal("version_conflict")) /\ UNCHANGED <<handoff, commands, now>>
    BY <1>1, <1>4 DEF Commit
  <2> QED BY <2>1, <1>1, AnswerStep, RefusalType
<1>5. CASE Saved(r.cmd.key) = {} /\ ~VersionConflict(r)
  <2>1. /\ handoff' = [h \in Handoffs |-> After(h)]
        /\ commands' = IF r.cmd.key = UniqueKey THEN commands
                       ELSE commands \cup {[cmd |-> r.cmd, outcome |-> r.outcome]}
        /\ Answer(p, r.cmd, r.outcome)
    BY <1>5 DEF Commit
  <2>2. \A h \in Handoffs :
          /\ handoff[h] \in HandoffStates /\ handoff[h].version \in Nat
          /\ Consistent(handoff[h])
          /\ append[h] \in Events
          /\ append[h] # NoEvent => Suits(handoff[h], append[h])
    BY <1>1, <1>2, <1>5 DEF IInv, TypeOK, ProposalsFit, ProposalFits, HandoffStates
  <2> HIDE DEF append
  <2>3. \A h \in Handoffs :
          \/ append[h] = NoEvent /\ handoff'[h] = handoff[h]
          \/ append[h] # NoEvent /\ handoff'[h] = Evolve(handoff[h], append[h])
    BY <2>1
  <2>4. \A h \in Handoffs : handoff'[h] \in HandoffStates /\ Consistent(handoff'[h])
    BY <2>2, <2>3, EvolveKeepsConsistent
  <2>5. \A h \in Handoffs :
          handoff'[h] = handoff[h] \/ handoff'[h].version > handoff[h].version
    BY <2>2, <2>3, EvolveFacts
  <2>6. commands' \subseteq [cmd : CommandType, outcome : Outcomes]
    BY <1>1, <1>2, <2>1 DEF IInv, TypeOK, WellFormed
  <2>7. PICK q \in Requests : /\ request' = [request EXCEPT ![p] = q]
                              /\ q.pc \in {"idle", "answered"}
                              /\ q.pc # "idle" => q.cmd = r.cmd
    <3> DEFINE a == [Idle EXCEPT !.pc = "answered", !.cmd = r.cmd, !.outcome = r.outcome]
    <3>1. a \in Requests /\ a.pc = "answered" /\ a.cmd = r.cmd
      BY <1>1, <1>2, IdleType DEF Requests, WellFormed
    <3>2. request' = [request EXCEPT ![p] = Idle] \/ request' = [request EXCEPT ![p] = a]
      BY <2>1 DEF Answer
    <3> HIDE DEF a, r
    <3> QED BY <3>1, <3>2, IdleType
  <2>8. request'[p] = q /\ \A o \in Handlers \ {p} : request'[o] = request[o]
    BY <2>7 DEF IInv, TypeOK
  <2>9. TypeOK'
    <3>1. handoff' \in [Handoffs -> HandoffStates]
      BY <2>1, <2>4
    <3>2. request' \in [Handlers -> Requests]
      BY <2>7 DEF IInv, TypeOK
    <3> QED BY <3>1, <3>2, <2>6, <1>1 DEF IInv, TypeOK
  <2>10. \A o \in Handlers : RequestOK(o)'
    <3>1. ASSUME NEW o \in Handlers, o # p PROVE RequestOK(o)'
      BY <3>1, <2>5, <2>8, <2>9, RequestStable DEF IInv, ProposalsFit
    <3>2. RequestOK(p)'
      BY <2>7, <2>8, <1>1 DEF RequestOK, WellFormed
    <3> QED BY <3>1, <3>2
  <2>11. \A h \in Handoffs :
           /\ append[h].type = "accepted" /\ handoff[h].parent # NoHandoff =>
                /\ append[handoff[h].parent].type = "transferred"
                /\ append[handoff[h].parent].link = h
           /\ append[h].type = "transferred" =>
                /\ append[h].link \in Handoffs
                /\ append[append[h].link].type = "accepted"
                /\ handoff[append[h].link].parent = h
           /\ append[h].type \in CreationTypes => append[h].link # h
    BY <1>1, <1>5 DEF ProposalFits, append
  <2>12. \A h \in Handoffs : handoff[h].version = 0 =>
           handoff[h].life = "none" /\ handoff[h].parent = NoHandoff
    BY <2>2 DEF Consistent, Absent
  <2>13. \A h \in Handoffs : append[h].type # "none" => append[h] # NoEvent
    BY IdleType
  <2>14. \A h \in Handoffs : handoff[h].version # 0 =>
           /\ handoff'[h].parent = handoff[h].parent
           /\ handoff'[h].recipient # NoActor <=>
                handoff[h].recipient # NoActor \/ append[h].type = "accepted"
    <3> SUFFICES ASSUME NEW h \in Handoffs, handoff[h].version # 0
                 PROVE  /\ handoff'[h].parent = handoff[h].parent
                        /\ handoff'[h].recipient # NoActor <=>
                             handoff[h].recipient # NoActor \/ append[h].type = "accepted"
      OBVIOUS
    <3>1. CASE append[h] = NoEvent
      BY <3>1, <2>3, IdleType
    <3>2. CASE append[h] # NoEvent
      <4>1. append[h].type = "accepted" => append[h].actor \in Actors
        BY <3>2, <2>2 DEF Suits
      <4> QED BY <3>2, <4>1, <2>2, <2>3, EvolveFacts, NullAssumption
    <3> QED BY <3>1, <3>2
  <2>15. \A h \in Handoffs : handoff'[h].life = "transferred" =>
           \/ handoff[h].life = "transferred" /\ handoff'[h].child = handoff[h].child
           \/ append[h].type = "transferred" /\ handoff'[h].child = append[h].link
    BY <2>2, <2>3, EvolveFacts
  <2>16. \A h \in Handoffs : handoff[h].life = "transferred" => handoff'[h] = handoff[h]
    BY <2>2, <2>3, <2>12, EvolveFacts
  <2>17. \A h \in Handoffs : append[h].type = "transferred" =>
           handoff'[h].life = "transferred" /\ handoff'[h].child = append[h].link
    BY <2>2, <2>3, <2>13, EvolveFacts
  <2>18. \A h \in Handoffs : handoff[h].version = 0 /\ handoff'[h].parent # NoHandoff =>
           /\ append[h].type \in CreationTypes
           /\ handoff'[h].parent = append[h].link
           /\ handoff'[h].recipient = NoActor
    BY <2>2, <2>3, <2>12, EvolveFacts
  <2> HIDE DEF append, After
  <2>19. TransfersLinked'
    <3> SUFFICES ASSUME NEW h \in Handoffs
                 PROVE  /\ handoff'[h].parent # h
                        /\ handoff'[h].life = "transferred" =>
                             /\ handoff'[h].child \in Handoffs
                             /\ handoff'[handoff'[h].child].parent = h
                             /\ handoff'[handoff'[h].child].recipient # NoActor
      BY DEF TransfersLinked
    <3>1. handoff'[h].parent # h
      BY <2>11, <2>14, <2>18, NullAssumption DEF IInv, ProposalsFit, TransfersLinked
    <3>2. CASE handoff[h].life = "transferred"
      <4> DEFINE c == handoff[h].child
      <4>1. /\ c \in Handoffs /\ handoff[c].parent = h /\ handoff[c].recipient # NoActor
            /\ handoff'[h].child = c
        BY <3>2, <2>16 DEF IInv, ProposalsFit, TransfersLinked
      <4>2. handoff[c].version # 0
        BY <4>1, <2>12, NullAssumption
      <4> QED BY <3>1, <4>1, <4>2, <2>14
    <3>3. CASE append[h].type = "transferred"
      <4> DEFINE c == append[h].link
      <4>1. c \in Handoffs /\ append[c].type = "accepted" /\ handoff[c].parent = h
        BY <3>3, <2>11
      <4>2. handoff[c].version # 0
        BY <4>1, <2>12, NullAssumption
      <4> QED BY <3>1, <3>3, <4>1, <4>2, <2>14, <2>17
    <3> QED BY <3>1, <3>2, <3>3, <2>15
  <2>20. TransferAtomic'
    <3> SUFFICES ASSUME NEW h \in Handoffs, handoff'[h].parent # NoHandoff
                 PROVE  LET parent == handoff'[handoff'[h].parent] IN
                        handoff'[h].recipient # NoActor <=>
                          parent.life = "transferred" /\ parent.child = h
      BY DEF TransferAtomic
    <3> DEFINE up == handoff'[h].parent
    <3>1. up \in Handoffs
      BY <2>4 DEF HandoffStates
    <3>2. CASE handoff[h].version = 0
      <4>1. append[h].type # "accepted" /\ handoff'[h].recipient = NoActor
        BY <3>2, <2>18 DEF CreationTypes
      <4>2. ~(handoff[up].life = "transferred" /\ handoff[up].child = h)
        BY <3>1, <3>2, <2>12, NullAssumption DEF IInv, ProposalsFit, TransfersLinked
      <4>3. ~(append[up].type = "transferred" /\ append[up].link = h)
        BY <3>1, <4>1, <2>11
      <4> QED BY <3>1, <4>1, <4>2, <4>3, <2>15
    <3>3. CASE handoff[h].version # 0
      <4>1. up = handoff[h].parent
        BY <3>3, <2>14
      <4>2. handoff[h].recipient # NoActor <=>
              handoff[up].life = "transferred" /\ handoff[up].child = h
        BY <3>1, <4>1, NullAssumption DEF IInv, TransferAtomic
      <4>3. append[h].type = "accepted" <=>
              append[up].type = "transferred" /\ append[up].link = h
        BY <3>1, <4>1, <2>11, NullAssumption
      <4>4. /\ handoff[up].life = "transferred" => handoff'[up] = handoff[up]
            /\ append[up].type = "transferred" =>
                 handoff'[up].life = "transferred" /\ handoff'[up].child = append[up].link
            /\ handoff'[up].life = "transferred" =>
                 \/ handoff[up].life = "transferred"
                 \/ append[up].type = "transferred"
        BY <3>1, <2>15, <2>16, <2>17
      <4>5. handoff'[h].recipient # NoActor <=>
              handoff[h].recipient # NoActor \/ append[h].type = "accepted"
        BY <3>3, <2>14
      <4> HIDE DEF up
      <4>6. handoff'[h].recipient # NoActor <=>
              handoff'[up].life = "transferred" /\ handoff'[up].child = h
        BY <4>2, <4>3, <4>4, <4>5
      <4> QED BY <4>6 DEF up
    <3> QED BY <3>2, <3>3
  <2>21. (\A h \in Handoffs : Consistent(handoff[h]))'
    BY <2>4
  <2> QED BY <2>9, <2>10, <2>19, <2>20, <2>21 DEF IInv, ProposalsFit
<1> QED BY <1>3, <1>4, <1>5

\* Fail and Release.
LEMMA IdleStep ==
  ASSUME IInv, NEW p \in Handlers, request' = [request EXCEPT ![p] = Idle],
         UNCHANGED <<handoff, commands, now>>
  PROVE  IInv'
<1>1. request'[p] = Idle
  BY DEF IInv, TypeOK
<1>2. RequestOK(p)'
  BY <1>1, IdleType DEF RequestOK
<1> QED BY <1>2, IdleType, QuietStep

\* Time passing disturbs nothing: no part of the invariant speaks of the clock.
LEMMA TickStep == ASSUME IInv, Tick PROVE IInv'
<1>1. TypeOK'
  BY DEF Tick, IInv, TypeOK
<1>2. \A p \in Handlers : RequestOK(p)'
  BY <1>1, RequestStable DEF Tick, IInv, ProposalsFit
<1>3. (\A h \in Handoffs : Consistent(handoff[h]))' /\ TransfersLinked' /\ TransferAtomic'
  BY DEF Tick, IInv, ProposalsFit, TransfersLinked, TransferAtomic
<1> QED BY <1>1, <1>2, <1>3 DEF IInv, ProposalsFit

\* With no streams and no requests, everything holds.
LEMMA InitOK == ASSUME Init PROVE IInv
<1>1. TypeOK
  BY NullFacts, IdleType DEF Init, TypeOK
<1>2. \A p \in Handlers : RequestOK(p)
  BY IdleType DEF Init, RequestOK
<1>3. \A h \in Handoffs : handoff[h] = Absent /\ Consistent(handoff[h])
  BY NullFacts DEF Init
<1>4. TransfersLinked /\ TransferAtomic
  BY <1>3, NullAssumption DEF Absent, TransfersLinked, TransferAtomic
<1> QED BY <1>1, <1>2, <1>3, <1>4 DEF IInv, ProposalsFit

-----------------------------------------------------------------------------
(* Theorems. *)

\* The invariant is inductive: no step of any handler, and no passing of time,
\* disturbs it.
THEOREM StepKeepsIInv == ASSUME IInv, [Next]_vars PROVE IInv'
<1>1. CASE Tick
  BY <1>1, TickStep
<1>2. ASSUME NEW p \in Handlers, Handle(p) PROVE IInv'
  <2>1. CASE Receive(p)
    BY <2>1, ReceiveStep
  <2>2. CASE LoadUnique(p) \/ LoadReceived(p) \/ LoadOther(p)
    BY <2>2, LoadUniqueStep, LoadReceivedStep, LoadOtherStep
  <2>3. CASE DecideOne(p) \/ DecideChildOffer(p) \/ DecideChildAccept(p)
    BY <2>3, DecideOneStep, DecideChildOfferStep, DecideChildAcceptStep
  <2>4. CASE Commit(p)
    BY <2>4, CommitStep
  <2>5. CASE Fail(p) \/ Release(p)
    BY <2>5, IdleStep DEF Fail, Release
  <2> QED BY <1>2, <2>1, <2>2, <2>3, <2>4, <2>5 DEF Handle
<1>3. CASE UNCHANGED vars
  <2> USE <1>3 DEF vars
  <2>1. TypeOK'
    BY DEF IInv, TypeOK
  <2>2. \A p \in Handlers : RequestOK(p)'
    BY <2>1, RequestStable DEF IInv, ProposalsFit
  <2>3. (\A h \in Handoffs : Consistent(handoff[h]))' /\ TransfersLinked' /\ TransferAtomic'
    BY DEF IInv, ProposalsFit, TransfersLinked, TransferAtomic
  <2> QED BY <2>1, <2>2, <2>3 DEF IInv, ProposalsFit
<1> QED BY <1>1, <1>2, <1>3 DEF Next

\* The invariant holds of every behaviour of the Exchange, whatever the constants.
THEOREM Invariance == Spec => []IInv
<1>1. Init => IInv
  BY InitOK
<1>2. IInv /\ [Next]_vars => IInv'
  BY StepKeepsIInv
<1> QED BY <1>1, <1>2, PTL DEF Spec

\* Type correctness.
THEOREM TypeCorrect == Spec => []TypeOK
<1>1. IInv => TypeOK
  BY DEF IInv
<1> QED BY <1>1, Invariance, PTL

\* Version checks at the commit make every decision on a snapshot safe, and every
\* stream stays one that replays (the optimistic concurrency of exchange-application).
THEOREM OptimisticConcurrency == Spec => []ProposalsFit
<1>1. IInv => ProposalsFit
  BY DEF IInv
<1> QED BY <1>1, Invariance, PTL

\* No stored stream ever fails to replay (handoff-decider against handoff-reducer).
THEOREM Replayable == Spec => []StreamsReplay
<1>1. IInv => StreamsReplay
  BY DEF IInv, ProposalsFit, StreamsReplay, Consistent, Absent
<1> QED BY <1>1, Invariance, PTL

\* The responsible actor is always the one the lifecycle state names.
THEOREM Responsible == Spec => []ResponsibleActor
<1>1. IInv => ResponsibleActor
  BY DEF IInv, ProposalsFit, ResponsibleActor, Consistent
<1> QED BY <1>1, Invariance, PTL

\* A child's accept and its parent's transfer happen together or not at all.
THEOREM AtomicTransfer == Spec => []TransferAtomic
<1>1. IInv => TransferAtomic
  BY DEF IInv
<1> QED BY <1>1, Invariance, PTL
-----------------------------------------------------------------------------
(* Retries: one record per key, one event per accepted record.              *)

\* What an accepted proposal answers is the version its event will make.
OutcomeFits(r) ==
  r.outcome.status = "accepted" =>
    /\ r.outcome.handoff \in Handoffs /\ r.append[r.outcome.handoff] # NoEvent
    /\ r.outcome.version = r.expect[r.outcome.handoff] + 1

\* A definite answer is on record.
AnswerOK(r) ==
  (r.pc = "answered" /\ r.outcome.status \in Definite) =>
    [cmd |-> r.cmd, outcome |-> r.outcome] \in commands

RecordsOK ==
  /\ \A r, q \in commands :
       /\ r.cmd.key = q.cmd.key => r = q
       /\ r.outcome = q.outcome /\ r.outcome.status = "accepted" => r = q
  /\ \A r \in commands : r.outcome.status = "accepted" =>
       /\ r.outcome.handoff \in Handoffs
       /\ handoff[r.outcome.handoff].version >= r.outcome.version

RetriesIInv ==
  /\ IInv /\ RecordsOK
  /\ \A p \in Handlers : AnswerOK(request[p]) /\ (request[p].pc = "decided" => OutcomeFits(request[p]))

\* A step of handler p that changes nothing but its own request.
LEMMA RequestKeepsRetries ==
  ASSUME RetriesIInv, IInv', NEW p \in Handlers, NEW r, request' = [request EXCEPT ![p] = r],
         UNCHANGED <<handoff, commands>>, AnswerOK(r), r.pc = "decided" => OutcomeFits(r)
  PROVE  RetriesIInv'
<1>1. request'[p] = r /\ \A q \in Handlers \ {p} : request'[q] = request[q]
  BY DEF RetriesIInv, IInv, TypeOK
<1>2. RecordsOK'
  BY DEF RetriesIInv, RecordsOK
<1>3. \A q \in Handlers : AnswerOK(request[q])'
  BY <1>1 DEF RetriesIInv, AnswerOK
<1>4. \A q \in Handlers : request'[q].pc = "decided" => OutcomeFits(request[q])'
  BY <1>1 DEF RetriesIInv, OutcomeFits
<1> QED BY <1>2, <1>3, <1>4 DEF RetriesIInv

LEMMA AnswerKeepsRetries ==
  ASSUME RetriesIInv, IInv', NEW p \in Handlers, NEW c, NEW outcome, Answer(p, c, outcome),
         UNCHANGED <<handoff, commands>>,
         outcome.status \in Definite => [cmd |-> c, outcome |-> outcome] \in commands
  PROVE  RetriesIInv'
<1>1. PICK a : a = [Idle EXCEPT !.pc = "answered", !.cmd = c, !.outcome = outcome]
  OBVIOUS
<1>2. a.pc = "answered" /\ a.cmd = c /\ a.outcome = outcome
  BY <1>1 DEF Idle
<1>3. PICK r \in {Idle, a} : request' = [request EXCEPT ![p] = r]
  BY <1>1 DEF Answer
<1>4. AnswerOK(r) /\ r.pc # "decided"
  BY <1>2, <1>3, IdleType DEF AnswerOK
<1> QED BY <1>3, <1>4, RequestKeepsRetries

\* A key that is taken answers what is on record, or that it is taken.
LEMMA ReplayKeepsRetries ==
  ASSUME RetriesIInv, IInv', NEW p \in Handlers, NEW c, ReplayOrReuse(p, c), UNCHANGED <<handoff, commands>>
  PROVE  RetriesIInv'
<1>1. PICK r \in commands :
        Answer(p, c, IF r.cmd = c THEN r.outcome ELSE Refusal("idempotency_key_reused"))
  BY DEF ReplayOrReuse, Saved
<1>2. CASE r.cmd = c
  <2>1. r = [cmd |-> c, outcome |-> r.outcome]
    BY <1>2 DEF RetriesIInv, IInv, TypeOK
  <2> QED BY <1>1, <1>2, <2>1, AnswerKeepsRetries
<1>3. CASE r.cmd # c
  <2>1. Refusal("idempotency_key_reused").status \notin Definite
    BY DEF Refusal, Definite
  <2> QED BY <1>1, <1>3, <2>1, AnswerKeepsRetries
<1> QED BY <1>2, <1>3

LEMMA ProposalKeepsRetries ==
  ASSUME RetriesIInv, IInv', NEW p \in Handlers, NEW expect, NEW append, NEW outcome,
         Propose(p, expect, append, outcome), UNCHANGED <<handoff, commands>>,
         outcome.status = "accepted" =>
           /\ outcome.handoff \in Handoffs /\ append[outcome.handoff] # NoEvent
           /\ outcome.version = expect[outcome.handoff] + 1
  PROVE  RetriesIInv'
<1>1. PICK r : r = [Idle EXCEPT !.pc = "decided", !.cmd = request[p].cmd, !.stream = request[p].stream,
                                !.expect = expect, !.append = append, !.outcome = outcome]
  OBVIOUS
<1>2. r.pc = "decided" /\ r.expect = expect /\ r.append = append /\ r.outcome = outcome
  BY <1>1 DEF Idle
<1>3. request' = [request EXCEPT ![p] = r]
  BY <1>1 DEF Propose
<1>4. AnswerOK(r) /\ OutcomeFits(r)
  BY <1>2 DEF AnswerOK, OutcomeFits
<1> QED BY <1>3, <1>4, RequestKeepsRetries

LEMMA RefusalIsNone == \A status \in {"rejected", "version_conflict", "idempotency_key_reused"} :
                         Refusal(status).status = status
BY DEF Refusal

LEMMA RejectKeepsRetries ==
  ASSUME RetriesIInv, IInv', NEW p \in Handlers, NEW expect, Reject(p, expect), UNCHANGED <<handoff, commands>>
  PROVE  RetriesIInv'
<1>1. PICK outcome : outcome = Refusal("rejected")
  OBVIOUS
<1>2. Propose(p, expect, Idle.append, outcome)
  BY <1>1 DEF Reject
<1>3. outcome.status # "accepted"
  BY <1>1, RefusalIsNone
<1> QED BY <1>2, <1>3, ProposalKeepsRetries

LEMMA ReceiveRetries == ASSUME RetriesIInv, IInv', NEW p \in Handlers, Receive(p) PROVE RetriesIInv'
<1> DEFINE Found(key, c) ==
      IF Saved(key) # {}
        THEN ReplayOrReuse(p, c)
        ELSE request' = [request EXCEPT ![p] = [Idle EXCEPT !.pc = "received", !.cmd = c]]
<1>1. PICK key \in Keys, h \in Handoffs : \E v \in 0..handoff[h].version :
        \E c \in {d \in CommandsOn(h, v, key) : d.kind = "offer" \/ d.version > 0} :
          Found(key, c)
  BY Zenon DEF Receive
<1> HIDE DEF Found
<1>2. PICK v \in 0..handoff[h].version :
        \E c \in {d \in CommandsOn(h, v, key) : d.kind = "offer" \/ d.version > 0} :
          Found(key, c)
  BY <1>1
<1>3. PICK c : Found(key, c)
  BY <1>2
<1>4. UNCHANGED <<handoff, commands>>
  BY DEF Receive
<1>5. CASE Saved(key) # {}
  BY <1>3, <1>4, <1>5, ReplayKeepsRetries DEF Found
<1>6. CASE Saved(key) = {}
  <2>1. PICK r : r = [Idle EXCEPT !.pc = "received", !.cmd = c]
    OBVIOUS
  <2>2. request' = [request EXCEPT ![p] = r] /\ r.pc = "received"
    BY <1>3, <1>6, <2>1 DEF Found, Idle
  <2> QED BY <1>4, <2>2, RequestKeepsRetries DEF AnswerOK
<1> QED BY <1>5, <1>6

LEMMA LoadRetries ==
  ASSUME RetriesIInv, IInv', NEW p \in Handlers, NEW c, NEW id, Load(p, c, id), UNCHANGED <<handoff, commands>>
  PROVE  RetriesIInv'
<1>1. PICK outcome : outcome = Refusal("version_conflict")
  OBVIOUS
<1>2. CASE Answer(p, c, outcome)
  <2>1. outcome.status \notin Definite
    BY <1>1, RefusalIsNone DEF Definite
  <2> QED BY <1>2, <2>1, AnswerKeepsRetries
<1>3. CASE \E r : r.pc = "loaded" /\ request' = [request EXCEPT ![p] = r]
  BY <1>3, RequestKeepsRetries DEF AnswerOK
<1>4. Answer(p, c, outcome) \/ \E r : r.pc = "loaded" /\ request' = [request EXCEPT ![p] = r]
  BY <1>1 DEF Load, Idle
<1> QED BY <1>2, <1>3, <1>4

LEMMA LoadsRetries ==
  ASSUME RetriesIInv, IInv', NEW p \in Handlers, LoadUnique(p) \/ LoadReceived(p)
  PROVE  RetriesIInv'
<1>1. \E c, id : Load(p, c, id)
  BY DEF LoadUnique, LoadReceived
<1> QED BY <1>1, LoadRetries DEF LoadUnique, LoadReceived

LEMMA LoadOtherRetries == ASSUME RetriesIInv, IInv', NEW p \in Handlers, LoadOther(p) PROVE RetriesIInv'
<1>1. PICK r : r = [request[p] EXCEPT !.pc = "paired", !.peer = handoff[request[p].other]]
  OBVIOUS
<1>2. r.pc = "paired"
  BY <1>1 DEF RetriesIInv, IInv, TypeOK, Requests
<1>3. request' = [request EXCEPT ![p] = r] /\ UNCHANGED <<handoff, commands>>
  BY <1>1 DEF LoadOther
<1> QED BY <1>2, <1>3, RequestKeepsRetries DEF AnswerOK

\* What the decider accepts has an event.
LEMMA DecidedIsSomething ==
  ASSUME IInv, NEW p \in Handlers, request[p].pc \in {"loaded", "paired"}, request[p].cmd.kind # "transfer",
         NEW eligible \in BOOLEAN, Decide(request[p].own, request[p].cmd, now, eligible)
  PROVE  EventOf(request[p].own, request[p].cmd, now) # NoEvent
<1> DEFINE r == request[p]
           e == EventOf(r.own, r.cmd, now)
<1>1. r \in Requests /\ WellFormed(r.cmd) /\ LoadedOK(r)
  BY DEF IInv, TypeOK, ProposalsFit, RequestOK
<1>2. /\ r.cmd.kind \in Kinds \ {"transfer"} /\ r.cmd.actor \in Actors
      /\ r.cmd.token \in Nat /\ r.cmd.heartbeat \in Nat /\ r.cmd.target \in Targets
      /\ r.cmd.kind = "offer" => r.cmd.pkg \in Packages
      /\ r.cmd.pkg \in Packages \cup {NoPackage}
  BY <1>1 DEF WellFormed, CommandType, Offering
<1>3. now \in Nat /\ Consistent(r.own) /\ r.own \in HandoffStates
  BY <1>1 DEF IInv, TypeOK, LoadedOK, Requests
<1>4. Suits(r.own, e)
  <2> HIDE DEF r
  <2> QED BY <1>2, <1>3, DecideSuits DEF r
<1> HIDE DEF e
<1>5. e.type # "none"
  BY <1>4 DEF Suits, EventAllowed, CreationTypes, AllowedFrom
<1> QED BY <1>5, IdleType DEF e

LEMMA DecideOneRetries == ASSUME RetriesIInv, IInv', NEW p \in Handlers, DecideOne(p) PROVE RetriesIInv'
<1> DEFINE r == request[p]
           e == EventOf(r.own, r.cmd, now)
           expect == [Idle.expect EXCEPT ![r.stream] = r.own.version]
           append == [Idle.append EXCEPT ![r.stream] = e]
           done == Accepted(r.stream, r.own.version + 1)
<1>1. IInv /\ r.pc = "loaded" /\ r.other = NoHandoff /\ UNCHANGED <<handoff, commands>>
  BY DEF DecideOne, RetriesIInv
<1>2. r.stream \in Handoffs /\ r.cmd.kind # "transfer"
  BY <1>1, NullAssumption DEF IInv, ProposalsFit, RequestOK, LoadedOK
<1>3. PICK eligible \in BOOLEAN :
        IF Decide(r.own, r.cmd, now, eligible)
          THEN Propose(p, expect, append, done)
          ELSE Reject(p, expect)
  BY DEF DecideOne
<1>4. CASE ~Decide(r.own, r.cmd, now, eligible)
  <2>1. Reject(p, expect)
    BY <1>3, <1>4
  <2> HIDE DEF expect
  <2> QED BY <1>1, <2>1, RejectKeepsRetries
<1>5. CASE Decide(r.own, r.cmd, now, eligible)
  <2>1. Propose(p, expect, append, done)
    BY <1>3, <1>5
  <2>2. e # NoEvent
    BY <1>1, <1>2, <1>5, DecidedIsSomething
  <2>3. /\ done.handoff = r.stream /\ done.version = r.own.version + 1
        /\ expect[r.stream] = r.own.version /\ append[r.stream] = e
    BY <1>2 DEF Accepted, Idle
  <2> HIDE DEF expect, append, done, e, r
  <2> QED BY <1>1, <1>2, <2>1, <2>2, <2>3, ProposalKeepsRetries
<1> QED BY <1>4, <1>5

LEMMA DecideChildOfferRetries ==
  ASSUME RetriesIInv, IInv', NEW p \in Handlers, DecideChildOffer(p) PROVE RetriesIInv'
<1> DEFINE r == request[p]
           parent == [Idle.expect EXCEPT ![r.stream] = r.own.version]
           expect == [parent EXCEPT ![r.other] = 0]
           e == OfferEvent(r.cmd, r.stream)
           append == [Idle.append EXCEPT ![r.other] = e]
           done == Accepted(r.other, 1)
           conflict == Refusal("version_conflict")
<1>1. IInv /\ r.pc = "paired" /\ UNCHANGED <<handoff, commands>> /\ r.cmd.kind = "transfer"
  BY DEF DecideChildOffer, RetriesIInv
<1>2. r.other \in Handoffs /\ WellFormed(r.cmd)
  BY <1>1 DEF IInv, ProposalsFit, RequestOK
<1>3. Propose(p, parent, Idle.append, conflict) \/ Reject(p, parent) \/ Propose(p, expect, append, done)
  BY DEF DecideChildOffer
<1>4. e # NoEvent
  BY <1>1, <1>2, IdleType DEF OfferEvent, Event, WellFormed, Offering
<1>5. /\ done.handoff = r.other /\ done.version = 1 /\ expect[r.other] = 0 /\ append[r.other] = e
      /\ conflict.status # "accepted"
  BY <1>2, RefusalIsNone DEF Accepted, Idle
<1> HIDE DEF parent, expect, append, done, conflict, e, r
<1>6. CASE Propose(p, parent, Idle.append, conflict)
  BY <1>1, <1>5, <1>6, ProposalKeepsRetries
<1>7. CASE Reject(p, parent)
  BY <1>1, <1>7, RejectKeepsRetries
<1>8. CASE Propose(p, expect, append, done)
  BY <1>1, <1>2, <1>4, <1>5, <1>8, ProposalKeepsRetries
<1> QED BY <1>3, <1>6, <1>7, <1>8

LEMMA DecideChildAcceptRetries ==
  ASSUME RetriesIInv, IInv', NEW p \in Handlers, DecideChildAccept(p) PROVE RetriesIInv'
<1> DEFINE r == request[p]
           expect == [Idle.expect EXCEPT ![r.stream] = r.own.version,
                                         ![r.other] = r.peer.version]
           e == EventOf(r.own, r.cmd, now)
           f == [Event("transferred") EXCEPT !.link = r.stream]
           append == [Idle.append EXCEPT ![r.stream] = e, ![r.other] = f]
           done == Accepted(r.stream, r.own.version + 1)
<1>1. IInv /\ r.pc = "paired" /\ UNCHANGED <<handoff, commands>> /\ r.cmd.kind = "accept"
  BY DEF DecideChildAccept, RetriesIInv
<1>2. /\ r.other \in Handoffs /\ r.stream \in Handoffs /\ LoadedOK(r)
  BY <1>1 DEF IInv, ProposalsFit, RequestOK, LoadedOK
<1>3. r.other # r.stream
  BY <1>1, <1>2 DEF LoadedOK
<1>4. \/ Reject(p, expect)
      \/ DecideAccept(r.own, r.cmd, now) /\ Propose(p, expect, append, done)
  BY DEF DecideChildAccept
<1>5. /\ done.handoff = r.stream /\ done.version = r.own.version + 1
      /\ expect[r.stream] = r.own.version /\ append[r.stream] = e
  BY <1>2, <1>3 DEF Accepted, Idle
<1>6. e # NoEvent
  BY <1>1, IdleType DEF EventOf, Event
<1> HIDE DEF expect, append, done, e, r
<1>7. CASE Reject(p, expect)
  BY <1>1, <1>7, RejectKeepsRetries
<1>8. CASE Propose(p, expect, append, done)
  BY <1>1, <1>2, <1>5, <1>6, <1>8, ProposalKeepsRetries
<1> QED BY <1>4, <1>7, <1>8

\* Streams only grow; those a commit appends to, by one.
LEMMA CommitGrows ==
  ASSUME IInv, NEW p \in Handlers, Commit(p), Saved(request[p].cmd.key) = {}, ~VersionConflict(request[p])
  PROVE  /\ \A h \in Handoffs :
              IF request[p].append[h] = NoEvent THEN handoff'[h] = handoff[h]
              ELSE /\ Suits(handoff[h], request[p].append[h])
                   /\ handoff'[h] = Evolve(handoff[h], request[p].append[h])
                   /\ handoff'[h].version = handoff[h].version + 1
                   /\ request[p].expect[h] = handoff[h].version
         /\ \A h \in Handoffs : handoff[h].version \in Nat
         /\ commands' = IF request[p].cmd.key = UniqueKey THEN commands
                        ELSE commands \cup {[cmd |-> request[p].cmd, outcome |-> request[p].outcome]}
         /\ Answer(p, request[p].cmd, request[p].outcome)
<1> DEFINE r == request[p]
<1>1. r \in Requests /\ r.pc = "decided" /\ ProposalFits(r)
  BY DEF Commit, IInv, TypeOK, ProposalsFit, RequestOK
<1>2. \A h \in Handoffs : /\ handoff[h] \in HandoffStates /\ handoff[h].version \in Nat
                          /\ Consistent(handoff[h]) /\ r.append[h] \in Events
  BY <1>1 DEF IInv, TypeOK, ProposalsFit, HandoffStates, Requests
<1>3. /\ handoff' = [h \in Handoffs |-> IF r.append[h] = NoEvent THEN handoff[h]
                                         ELSE Evolve(handoff[h], r.append[h])]
      /\ commands' = IF r.cmd.key = UniqueKey THEN commands
                     ELSE commands \cup {[cmd |-> r.cmd, outcome |-> r.outcome]}
      /\ Answer(p, r.cmd, r.outcome)
  BY DEF Commit
<1>4. \A h \in Handoffs : r.append[h] # NoEvent =>
        Suits(handoff[h], r.append[h]) /\ r.expect[h] = handoff[h].version
  BY <1>1 DEF ProposalFits, VersionConflict
<1> HIDE DEF r
<1>5. \A h \in Handoffs : r.append[h] # NoEvent => Evolve(handoff[h], r.append[h]).version = handoff[h].version + 1
  BY <1>2, <1>4, EvolveFacts
<1> QED BY <1>2, <1>3, <1>4, <1>5 DEF r

LEMMA CommitRetries == ASSUME RetriesIInv, IInv', NEW p \in Handlers, Commit(p) PROVE RetriesIInv'
<1> DEFINE r == request[p]
<1>1. IInv /\ r.pc = "decided" /\ r \in Requests /\ WellFormed(r.cmd) /\ OutcomeFits(r)
  BY DEF Commit, RetriesIInv, IInv, TypeOK, ProposalsFit, RequestOK
<1>2. CASE Saved(r.cmd.key) # {}
  <2>1. ReplayOrReuse(p, r.cmd) /\ UNCHANGED <<handoff, commands>>
    BY <1>1, <1>2 DEF Commit
  <2> QED BY <2>1, ReplayKeepsRetries
<1>3. CASE Saved(r.cmd.key) = {} /\ VersionConflict(r)
  <2>1. PICK outcome : outcome = Refusal("version_conflict")
    OBVIOUS
  <2>2. Answer(p, r.cmd, outcome) /\ UNCHANGED <<handoff, commands>>
    BY <1>1, <1>3, <2>1 DEF Commit
  <2>3. outcome.status \notin Definite
    BY <2>1, RefusalIsNone DEF Definite
  <2> QED BY <2>2, <2>3, AnswerKeepsRetries
<1>4. CASE Saved(r.cmd.key) = {} /\ ~VersionConflict(r)
  <2>1. PICK s : s = [cmd |-> r.cmd, outcome |-> r.outcome]
    OBVIOUS
  <2>2. s.cmd = r.cmd /\ s.outcome = r.outcome
    BY <2>1
  <2>3. /\ \A h \in Handoffs :
             IF r.append[h] = NoEvent THEN handoff'[h] = handoff[h]
             ELSE /\ handoff'[h].version = handoff[h].version + 1
                  /\ r.expect[h] = handoff[h].version
        /\ \A h \in Handoffs : handoff[h].version \in Nat
        /\ commands' = IF r.cmd.key = UniqueKey THEN commands ELSE commands \cup {s}
        /\ Answer(p, r.cmd, r.outcome)
    BY <1>1, <1>4, <2>1, CommitGrows
  <2>4. \A q \in commands : q.outcome \in Outcomes /\ q.outcome.version \in Nat /\ q.cmd.key # r.cmd.key
    BY <1>4 DEF RetriesIInv, IInv, TypeOK, Outcomes, Saved
  <2> HIDE DEF r
  <2>5. \A q \in commands : q.outcome.status = "accepted" =>
          /\ q.outcome.handoff \in Handoffs
          /\ handoff'[q.outcome.handoff].version >= q.outcome.version
          /\ handoff[q.outcome.handoff].version >= q.outcome.version
    BY <2>3, <2>4 DEF RetriesIInv, RecordsOK
  <2>6. s.outcome.status = "accepted" =>
          /\ s.outcome.handoff \in Handoffs
          /\ handoff'[s.outcome.handoff].version >= s.outcome.version
          /\ handoff[s.outcome.handoff].version < s.outcome.version
    BY <1>1, <2>2, <2>3 DEF OutcomeFits
  <2>7. \A q \in commands : q.outcome = s.outcome => s.outcome.status # "accepted"
    <3> SUFFICES ASSUME NEW q \in commands, q.outcome = s.outcome, s.outcome.status = "accepted" PROVE FALSE
      OBVIOUS
    <3>1. PICK h \in Handoffs : h = s.outcome.handoff
      BY <2>6
    <3>2. handoff[h].version >= q.outcome.version /\ handoff[h].version < q.outcome.version
      BY <2>5, <2>6, <3>1
    <3> QED BY <2>3, <2>4, <3>2
  <2>8. RecordsOK'
    <3>1. \A q \in commands', o \in commands' :
            /\ q.cmd.key = o.cmd.key => q = o
            /\ (q.outcome = o.outcome /\ q.outcome.status = "accepted") => q = o
      BY <2>2, <2>3, <2>4, <2>7 DEF RetriesIInv, RecordsOK
    <3>2. \A q \in commands' : q.outcome.status = "accepted" =>
            /\ q.outcome.handoff \in Handoffs
            /\ handoff'[q.outcome.handoff].version >= q.outcome.version
      BY <2>3, <2>5, <2>6
    <3> QED BY <3>1, <3>2 DEF RecordsOK
  <2>9. PICK a : a = [Idle EXCEPT !.pc = "answered", !.cmd = r.cmd, !.outcome = r.outcome]
    OBVIOUS
  <2>10. a.pc = "answered" /\ a.cmd = r.cmd /\ a.outcome = r.outcome
    BY <2>9 DEF Idle
  <2>11. PICK q : /\ request' = [request EXCEPT ![p] = q]
                  /\ (q = Idle \/ (q = a /\ r.cmd.key # UniqueKey))
    BY <2>3, <2>9 DEF Answer
  <2>12. request'[p] = q /\ \A o \in Handlers \ {p} : request'[o] = request[o]
    BY <2>11 DEF RetriesIInv, IInv, TypeOK
  <2>13. AnswerOK(q)' /\ q.pc # "decided"
    BY <2>1, <2>3, <2>10, <2>11, IdleType DEF AnswerOK
  <2>14. \A o \in Handlers \ {p} : AnswerOK(request[o])'
    BY <2>3, <2>12 DEF RetriesIInv, AnswerOK
  <2>15. \A o \in Handlers \ {p} : request'[o].pc = "decided" => OutcomeFits(request[o])'
    BY <2>12 DEF RetriesIInv, OutcomeFits
  <2>16. \A o \in Handlers : AnswerOK(request[o])' /\ (request'[o].pc = "decided" => OutcomeFits(request[o])')
    <3>1. AnswerOK(request[p])' /\ request'[p].pc # "decided"
      BY <2>12, <2>13 DEF AnswerOK
    <3> QED BY <2>14, <2>15, <3>1
  <2> QED BY <2>8, <2>16 DEF RetriesIInv
<1> QED BY <1>2, <1>3, <1>4

LEMMA RetriesStepKeeps == ASSUME RetriesIInv, [Next]_vars PROVE RetriesIInv'
<1>1. IInv'
  BY StepKeepsIInv DEF RetriesIInv
<1>2. ASSUME UNCHANGED <<handoff, commands, request>> PROVE RetriesIInv'
  <2>1. RecordsOK' /\ \A p \in Handlers : AnswerOK(request[p])'
    BY <1>2 DEF RetriesIInv, RecordsOK, AnswerOK
  <2>2. \A p \in Handlers : request'[p].pc = "decided" => OutcomeFits(request[p])'
    BY <1>2 DEF RetriesIInv, OutcomeFits
  <2> QED BY <1>1, <2>1, <2>2 DEF RetriesIInv
<1>3. ASSUME NEW p \in Handlers, Fail(p) \/ Release(p) PROVE RetriesIInv'
  BY <1>1, <1>3, IdleType, RequestKeepsRetries DEF Fail, Release, AnswerOK
<1>4. ASSUME NEW p \in Handlers, Handle(p) PROVE RetriesIInv'
  BY <1>1, <1>3, <1>4, ReceiveRetries, LoadsRetries, LoadOtherRetries, DecideOneRetries,
     DecideChildOfferRetries, DecideChildAcceptRetries, CommitRetries DEF Handle
<1> QED BY <1>2, <1>4 DEF Next, Tick, vars

LEMMA RetriesStart == Init => RetriesIInv
<1> SUFFICES ASSUME Init PROVE RetriesIInv
  OBVIOUS
<1>1. \A p \in Handlers : request[p].pc = "idle"
  BY IdleType DEF Init
<1>2. RecordsOK
  BY DEF Init, RecordsOK
<1> QED BY <1>1, <1>2, InitOK DEF RetriesIInv, AnswerOK

THEOREM RetriesInvariance == Spec => []RetriesIInv
BY RetriesStart, RetriesStepKeeps, PTL DEF Spec

\* Commands that are retried or sent twice at once under one key take effect once, and
\* every definite answer is the one on record (findCommand, and the key at the commit).
THEOREM ExactlyOnce == Spec => []RetriesTakeEffectOnce
<1>1. RetriesIInv => RetriesTakeEffectOnce
  BY DEF RetriesIInv, RecordsOK, AnswerOK, RetriesTakeEffectOnce
<1> QED BY <1>1, RetriesInvariance, PTL
-----------------------------------------------------------------------------
(* Claims: what a claimant holds ends properly, and every claim outranks.  *)

\* While the versions it checks are current, a proposal is sound for every claim it touches,
\* and it promises no claim beyond a lease from now.
ClaimFits(r) ==
  /\ ~VersionConflict(r) => \A h \in Handoffs :
       r.append[h] # NoEvent => ClaimSound(handoff[h], r.append[h], r.cmd, now)
  /\ \A h \in Handoffs : r.append[h].type \in {"claimed", "claim_renewed"} =>
       r.append[h].claim.expiresAt <= now + LeaseSeconds

ClaimsOK(r) ==
  /\ r.pc \in {"loaded", "paired"} => LeaseBounded(r.own, now)
  /\ r.pc = "decided" => ClaimFits(r)

ClaimsIInv ==
  /\ IInv
  /\ \A h \in Handoffs : LeaseBounded(handoff[h], now)
  /\ \A p \in Handlers : ClaimsOK(request[p])

\* What is sound for a claim stays so as time passes.
LEMMA SoundLater ==
  ASSUME NEW s \in HandoffStates, Consistent(s), NEW e \in Events, Suits(s, e), NEW c,
         NEW t \in Nat, NEW u \in Nat, t <= u, ClaimSound(s, e, c, t)
  PROVE  ClaimSound(s, e, c, u)
<1>1. s.claim.expiresAt \in Nat
  BY DEF HandoffStates, Claims
<1>2. e.type = "expired" => s.pkg.acceptBy \in Nat
  <2> SUFFICES ASSUME e.type = "expired" PROVE s.pkg \in Packages
    BY PackageAssumption
  <2>1. s.version # 0
    BY DEF Suits, EventAllowed, CreationTypes
  <2> QED BY <2>1 DEF Consistent
<1> QED BY <1>1, <1>2 DEF ClaimSound

LEMMA BoundedLater ==
  ASSUME NEW s \in HandoffStates, NEW t \in Nat, NEW u \in Nat, t <= u, LeaseBounded(s, t)
  PROVE  LeaseBounded(s, u)
BY LeaseAssumption DEF LeaseBounded, HandoffStates, Claims

\* A request's claims stay sound when other requests commit and time passes.
LEMMA ClaimsStable ==
  ASSUME IInv, IInv', NEW p \in Handlers, ClaimsOK(request[p]), request'[p] = request[p], now' >= now,
         \A h \in Handoffs : handoff'[h] = handoff[h] \/ handoff'[h].version > handoff[h].version
  PROVE  ClaimsOK(request[p])'
<1> PICK r : r = request[p]
  OBVIOUS
<1>1. r \in Requests /\ now \in Nat /\ now' \in Nat
  BY DEF IInv, TypeOK
<1>2. r.pc \in {"loaded", "paired"} => LeaseBounded(r.own, now)'
  BY <1>1, BoundedLater DEF ClaimsOK, LeaseBounded, Requests
<1>3. r.pc = "decided" => ClaimFits(r)'
  <2> SUFFICES ASSUME r.pc = "decided" PROVE ClaimFits(r)'
    OBVIOUS
  <2>1. ClaimFits(r) /\ ProposalFits(r) /\ r.append \in [Handoffs -> Events]
    BY <1>1 DEF ClaimsOK, Requests, IInv, ProposalsFit, RequestOK
  <2>2. \A h \in Handoffs : r.append[h].type \in {"claimed", "claim_renewed"} =>
          r.append[h].claim.expiresAt <= now' + LeaseSeconds
    BY <1>1, <2>1, LeaseAssumption DEF ClaimFits, Events, Claims
  <2>3. ASSUME ~VersionConflict(r)', NEW h \in Handoffs, r.append[h] # NoEvent
        PROVE  ClaimSound(handoff'[h], r.append[h], r.cmd, now')
    <3>1. \A g \in Handoffs : r.expect[g] # Unchecked => handoff'[g].version = r.expect[g]
      BY <2>3 DEF VersionConflict
    <3>2. \A g \in Handoffs : /\ handoff[g].version \in Nat /\ handoff'[g].version \in Nat
                              /\ r.expect[g] \in Nat \cup {Unchecked}
      BY <1>1 DEF IInv, TypeOK, HandoffStates, Requests
    <3>3. \A g \in Handoffs : r.expect[g] # Unchecked => handoff'[g] = handoff[g]
      BY <2>1, <3>1, <3>2 DEF ProposalFits, Unchecked
    <3>4. ~VersionConflict(r) /\ handoff'[h] = handoff[h]
      BY <2>1, <2>3, <3>1, <3>3 DEF VersionConflict, ProposalFits
    <3>5. ClaimSound(handoff[h], r.append[h], r.cmd, now) /\ Suits(handoff[h], r.append[h])
      BY <2>1, <2>3, <3>4 DEF ClaimFits, ProposalFits
    <3>6. handoff[h] \in HandoffStates /\ Consistent(handoff[h]) /\ r.append[h] \in Events
      BY <2>1 DEF IInv, TypeOK, ProposalsFit
    <3> QED BY <1>1, <3>4, <3>5, <3>6, SoundLater
  <2> QED BY <2>2, <2>3 DEF ClaimFits
<1> QED BY <1>2, <1>3 DEF ClaimsOK

\* A step of handler p that changes nothing but its own request.
LEMMA RequestKeepsClaims ==
  ASSUME ClaimsIInv, IInv', NEW p \in Handlers, NEW r, request' = [request EXCEPT ![p] = r],
         UNCHANGED <<handoff, now>>, ClaimsOK(r)
  PROVE  ClaimsIInv'
<1>1. request'[p] = r /\ \A q \in Handlers \ {p} : request'[q] = request[q]
  BY DEF ClaimsIInv, IInv, TypeOK
<1>2. ClaimsOK(request[p])'
  BY <1>1 DEF ClaimsOK, ClaimFits, VersionConflict
<1>3. now' >= now /\ \A h \in Handoffs : handoff'[h] = handoff[h]
  BY DEF ClaimsIInv, IInv, TypeOK
<1>4. \A q \in Handlers : ClaimsOK(request[q])'
  BY <1>1, <1>2, <1>3, ClaimsStable DEF ClaimsIInv
<1>5. \A h \in Handoffs : LeaseBounded(handoff[h], now)'
  BY DEF ClaimsIInv
<1> QED BY <1>4, <1>5 DEF ClaimsIInv

\* So does every answer.
LEMMA AnswerKeepsClaims ==
  ASSUME ClaimsIInv, IInv', NEW p \in Handlers, NEW c, NEW outcome, Answer(p, c, outcome),
         UNCHANGED <<handoff, now>>
  PROVE  ClaimsIInv'
<1>1. PICK a : a = [Idle EXCEPT !.pc = "answered", !.cmd = c, !.outcome = outcome]
  OBVIOUS
<1>2. a.pc = "answered"
  BY <1>1 DEF Idle
<1>3. PICK r \in {Idle, a} : request' = [request EXCEPT ![p] = r]
  BY <1>1 DEF Answer
<1>4. ClaimsOK(r)
  BY <1>2, <1>3, IdleType DEF ClaimsOK
<1> QED BY <1>3, <1>4, RequestKeepsClaims

LEMMA ReplayKeepsClaims ==
  ASSUME ClaimsIInv, IInv', NEW p \in Handlers, NEW c, ReplayOrReuse(p, c), UNCHANGED <<handoff, now>>
  PROVE  ClaimsIInv'
<1>1. \E outcome : Answer(p, c, outcome)
  BY DEF ReplayOrReuse
<1> QED BY <1>1, AnswerKeepsClaims

\* A proposal has to be sound where the versions it checks are current.
LEMMA ProposalKeepsClaims ==
  ASSUME ClaimsIInv, IInv', NEW p \in Handlers, NEW expect, NEW append, NEW outcome,
         Propose(p, expect, append, outcome), UNCHANGED <<handoff, now>>,
         ASSUME \A h \in Handoffs : expect[h] # Unchecked => handoff[h].version = expect[h]
         PROVE  \A h \in Handoffs : append[h] # NoEvent =>
                  ClaimSound(handoff[h], append[h], request[p].cmd, now),
         \A h \in Handoffs : append[h].type \in {"claimed", "claim_renewed"} =>
           append[h].claim.expiresAt <= now + LeaseSeconds
  PROVE  ClaimsIInv'
<1>1. PICK r : r = [Idle EXCEPT !.pc = "decided", !.cmd = request[p].cmd, !.stream = request[p].stream,
                                !.expect = expect, !.append = append, !.outcome = outcome]
  OBVIOUS
<1>2. r.pc = "decided" /\ r.expect = expect /\ r.append = append /\ r.cmd = request[p].cmd
  BY <1>1 DEF Idle
<1>3. request' = [request EXCEPT ![p] = r]
  BY <1>1 DEF Propose
<1>4. ClaimsOK(r)
  BY <1>2 DEF ClaimsOK, ClaimFits, VersionConflict
<1> QED BY <1>3, <1>4, RequestKeepsClaims

LEMMA RejectKeepsClaims ==
  ASSUME ClaimsIInv, IInv', NEW p \in Handlers, NEW expect, NEW outcome,
         Propose(p, expect, Idle.append, outcome), UNCHANGED <<handoff, now>>
  PROVE  ClaimsIInv'
<1>1. \A h \in Handoffs : Idle.append[h] = NoEvent
  BY DEF Idle
<1> QED BY <1>1, IdleType, ProposalKeepsClaims

LEMMA ReceiveClaims == ASSUME ClaimsIInv, IInv', NEW p \in Handlers, Receive(p) PROVE ClaimsIInv'
<1> DEFINE Found(key, c) ==
      IF Saved(key) # {}
        THEN ReplayOrReuse(p, c)
        ELSE request' = [request EXCEPT ![p] = [Idle EXCEPT !.pc = "received", !.cmd = c]]
<1>1. PICK key \in Keys, h \in Handoffs : \E v \in 0..handoff[h].version :
        \E c \in {d \in CommandsOn(h, v, key) : d.kind = "offer" \/ d.version > 0} :
          Found(key, c)
  BY Zenon DEF Receive
<1> HIDE DEF Found
<1>2. PICK v \in 0..handoff[h].version :
        \E c \in {d \in CommandsOn(h, v, key) : d.kind = "offer" \/ d.version > 0} :
          Found(key, c)
  BY <1>1
<1>3. PICK c : Found(key, c)
  BY <1>2
<1>4. UNCHANGED <<handoff, now>>
  BY DEF Receive
<1>5. CASE Saved(key) # {}
  BY <1>3, <1>4, <1>5, ReplayKeepsClaims DEF Found
<1>6. CASE Saved(key) = {}
  <2>1. PICK r : r = [Idle EXCEPT !.pc = "received", !.cmd = c]
    OBVIOUS
  <2>2. request' = [request EXCEPT ![p] = r] /\ r.pc = "received"
    BY <1>3, <1>6, <2>1 DEF Found, Idle
  <2> QED BY <1>4, <2>2, RequestKeepsClaims DEF ClaimsOK
<1> QED BY <1>5, <1>6

\* A snapshot is of a stream whose claim is bounded now.
LEMMA LoadClaims ==
  ASSUME ClaimsIInv, IInv', NEW p \in Handlers, NEW c, NEW id \in Handoffs,
         WellFormed(c), Load(p, c, id), UNCHANGED <<handoff, now>>
  PROVE  ClaimsIInv'
<1>1. CASE Answer(p, c, Refusal("version_conflict"))
  BY <1>1, AnswerKeepsClaims
<1>2. CASE \E h \in Handoffs : \E r : /\ r.pc = "loaded" /\ r.own = handoff[h]
                                      /\ request' = [request EXCEPT ![p] = r]
  BY <1>2, RequestKeepsClaims DEF ClaimsOK, ClaimsIInv
<1>3. \/ Answer(p, c, Refusal("version_conflict"))
      \/ \E h \in Handoffs : \E r : /\ r.pc = "loaded" /\ r.own = handoff[h]
                                    /\ request' = [request EXCEPT ![p] = r]
  <2>1. PICK h \in Handoffs : h = IF c.kind = "offer" THEN id ELSE c.handoff
    BY DEF WellFormed
  <2>2. PICK other : other = CASE c.kind = "transfer" -> id
                               [] c.kind = "accept" -> handoff[h].parent
                               [] OTHER -> NoHandoff
    OBVIOUS
  <2>3. PICK r : r = [Idle EXCEPT !.pc = "loaded", !.cmd = c, !.stream = h, !.own = handoff[h],
                                  !.other = other]
    OBVIOUS
  <2>4. r.pc = "loaded" /\ r.own = handoff[h]
    BY <2>3 DEF Idle
  <2>5. Answer(p, c, Refusal("version_conflict")) \/ request' = [request EXCEPT ![p] = r]
    BY <2>1, <2>2, <2>3 DEF Load
  <2> QED BY <2>4, <2>5
<1> QED BY <1>1, <1>2, <1>3

LEMMA LoadsClaims ==
  ASSUME ClaimsIInv, IInv', NEW p \in Handlers, LoadUnique(p) \/ LoadReceived(p)
  PROVE  ClaimsIInv'
<1>1. CASE LoadUnique(p)
  <2>1. PICK h \in Handoffs, id \in Handoffs :
          \E c \in CommandsOn(h, handoff[h].version, UniqueKey) : Load(p, c, id)
    BY <1>1 DEF LoadUnique
  <2>2. PICK c \in CommandsOn(h, handoff[h].version, UniqueKey) : Load(p, c, id)
    BY <2>1
  <2>3. PICK v \in Nat : v = handoff[h].version
    BY DEF ClaimsIInv, IInv, TypeOK, HandoffStates
  <2>4. WellFormed(c)
    BY <2>2, <2>3, CommandsOnType
  <2> QED BY <1>1, <2>2, <2>4, LoadClaims DEF LoadUnique
<1>2. CASE LoadReceived(p)
  <2>1. WellFormed(request[p].cmd)
    BY <1>2 DEF LoadReceived, ClaimsIInv, IInv, ProposalsFit, RequestOK
  <2> QED BY <1>2, <2>1, LoadClaims DEF LoadReceived
<1> QED BY <1>1, <1>2

LEMMA LoadOtherClaims == ASSUME ClaimsIInv, IInv', NEW p \in Handlers, LoadOther(p) PROVE ClaimsIInv'
<1>1. PICK r : r = [request[p] EXCEPT !.pc = "paired", !.peer = handoff[request[p].other]]
  OBVIOUS
<1>2. r.pc = "paired" /\ r.own = request[p].own
  BY <1>1 DEF ClaimsIInv, IInv, TypeOK, Requests
<1>3. request' = [request EXCEPT ![p] = r] /\ UNCHANGED <<handoff, now>>
  BY <1>1 DEF LoadOther
<1>4. ClaimsOK(r)
  BY <1>2 DEF LoadOther, ClaimsIInv, ClaimsOK
<1> QED BY <1>3, <1>4, RequestKeepsClaims

\* What the decider accepts of a snapshot is sound for the snapshot's claim.
LEMMA DecidedClaims ==
  ASSUME ClaimsIInv, NEW p \in Handlers, request[p].pc \in {"loaded", "paired"},
         request[p].cmd.kind # "transfer",
         NEW eligible \in BOOLEAN, Decide(request[p].own, request[p].cmd, now, eligible),
         NEW e, e = EventOf(request[p].own, request[p].cmd, now)
  PROVE  /\ ClaimSound(request[p].own, e, request[p].cmd, now)
         /\ e.type \in {"claimed", "claim_renewed"} => e.claim.expiresAt <= now + LeaseSeconds
<1> DEFINE r == request[p]
<1>1. r \in Requests /\ WellFormed(r.cmd) /\ LoadedOK(r)
  BY DEF ClaimsIInv, IInv, TypeOK, ProposalsFit, RequestOK
<1>2. r.cmd.kind \in Kinds \ {"transfer"} /\ r.cmd.heartbeat \in Nat
  BY <1>1 DEF WellFormed, CommandType
<1>3. now \in Nat /\ Consistent(r.own) /\ r.own \in HandoffStates /\ LeaseBounded(r.own, now)
  BY <1>1 DEF ClaimsIInv, IInv, TypeOK, LoadedOK, Requests, ClaimsOK
<1> HIDE DEF r
<1> QED BY <1>2, <1>3, DecideClaims DEF r

LEMMA DecideOneClaims == ASSUME ClaimsIInv, IInv', NEW p \in Handlers, DecideOne(p) PROVE ClaimsIInv'
<1> DEFINE r == request[p]
           expect == [Idle.expect EXCEPT ![r.stream] = r.own.version]
<1>1. PICK e : e = EventOf(r.own, r.cmd, now)
  OBVIOUS
<1> DEFINE append == [Idle.append EXCEPT ![r.stream] = e]
           done == Accepted(r.stream, r.own.version + 1)
<1>2. IInv /\ r.pc = "loaded" /\ r.other = NoHandoff /\ UNCHANGED <<handoff, now>>
  BY DEF DecideOne, ClaimsIInv
<1>3. /\ r.stream \in Handoffs /\ r.cmd.kind # "transfer" /\ Snapshot(r.own, r.stream)
      /\ r.own.version \in Nat
  BY <1>2, NullAssumption DEF IInv, TypeOK, Requests, HandoffStates, ProposalsFit, RequestOK, LoadedOK
<1>4. PICK eligible \in BOOLEAN :
        IF Decide(r.own, r.cmd, now, eligible)
          THEN Propose(p, expect, append, done)
          ELSE Reject(p, expect)
  BY <1>1 DEF DecideOne
<1>5. CASE ~Decide(r.own, r.cmd, now, eligible)
  <2>1. Reject(p, expect)
    BY <1>4, <1>5
  <2> HIDE DEF expect
  <2> QED BY <1>2, <2>1, RejectKeepsClaims DEF Reject
<1>6. CASE Decide(r.own, r.cmd, now, eligible)
  <2>1. Propose(p, expect, append, done)
    BY <1>4, <1>6
  <2>2. /\ ClaimSound(r.own, e, r.cmd, now)
        /\ e.type \in {"claimed", "claim_renewed"} => e.claim.expiresAt <= now + LeaseSeconds
    BY <1>1, <1>2, <1>3, <1>6, DecidedClaims
  <2>3. /\ expect[r.stream] = r.own.version /\ r.own.version # Unchecked
        /\ \A h \in Handoffs : append[h] = IF h = r.stream THEN e ELSE NoEvent
    BY <1>3 DEF Idle, Unchecked
  <2> HIDE DEF expect, append, done
  <2>4. ASSUME \A h \in Handoffs : expect[h] # Unchecked => handoff[h].version = expect[h]
        PROVE  handoff[r.stream] = r.own
    BY <1>3, <2>3, <2>4 DEF Snapshot
  <2> HIDE DEF r
  <2>5. \A h \in Handoffs : append[h].type \in {"claimed", "claim_renewed"} =>
          append[h].claim.expiresAt <= now + LeaseSeconds
    BY <2>2, <2>3, IdleType
  <2>6. ASSUME \A h \in Handoffs : expect[h] # Unchecked => handoff[h].version = expect[h]
        PROVE  \A h \in Handoffs : append[h] # NoEvent => ClaimSound(handoff[h], append[h], request[p].cmd, now)
    BY <2>2, <2>3, <2>4, <2>6 DEF r
  <2> QED BY <1>2, <2>1, <2>5, <2>6, ProposalKeepsClaims
<1> QED BY <1>5, <1>6

\* The event that creates a child touches no claim.
LEMMA DecideChildOfferClaims ==
  ASSUME ClaimsIInv, IInv', NEW p \in Handlers, DecideChildOffer(p) PROVE ClaimsIInv'
<1> DEFINE r == request[p]
           parent == [Idle.expect EXCEPT ![r.stream] = r.own.version]
           expect == [parent EXCEPT ![r.other] = 0]
           e == OfferEvent(r.cmd, r.stream)
           append == [Idle.append EXCEPT ![r.other] = e]
           done == Accepted(r.other, 1)
           conflict == Refusal("version_conflict")
<1>1. IInv /\ UNCHANGED <<handoff, now>>
  BY DEF DecideChildOffer, ClaimsIInv
<1>2. Propose(p, parent, Idle.append, conflict) \/ Reject(p, parent) \/ Propose(p, expect, append, done)
  BY DEF DecideChildOffer
<1>3. e.type \in CreationTypes
  BY DEF OfferEvent, Event, CreationTypes
<1>4. \A h \in Handoffs : append[h] = NoEvent \/ append[h] = e
  BY DEF Idle
<1> HIDE DEF parent, expect, append, done, conflict, e, r
<1>5. \A h \in Handoffs : append[h].type \notin {"claimed", "claim_renewed"}
  BY <1>3, <1>4, IdleType DEF CreationTypes
<1>6. \A h \in Handoffs : append[h] # NoEvent => ClaimSound(handoff[h], append[h], request[p].cmd, now)
  BY <1>3, <1>4 DEF ClaimSound, CreationTypes
<1>7. CASE Propose(p, parent, Idle.append, conflict) \/ Reject(p, parent)
  BY <1>1, <1>7, RejectKeepsClaims DEF Reject
<1>8. CASE Propose(p, expect, append, done)
  BY <1>1, <1>5, <1>6, <1>8, ProposalKeepsClaims
<1> QED BY <1>2, <1>7, <1>8

\* The accept of a child is decided on the child's claim; its parent has none to lose.
LEMMA DecideChildAcceptClaims ==
  ASSUME ClaimsIInv, IInv', NEW p \in Handlers, DecideChildAccept(p) PROVE ClaimsIInv'
<1> DEFINE r == request[p]
           expect == [Idle.expect EXCEPT ![r.stream] = r.own.version,
                                         ![r.other] = r.peer.version]
           f == [Event("transferred") EXCEPT !.link = r.stream]
           done == Accepted(r.stream, r.own.version + 1)
<1>1. PICK e : e = EventOf(r.own, r.cmd, now)
  OBVIOUS
<1> DEFINE append == [Idle.append EXCEPT ![r.stream] = e, ![r.other] = f]
<1>2. IInv /\ r.pc = "paired" /\ UNCHANGED <<handoff, now>> /\ r.cmd.kind = "accept"
  BY DEF DecideChildAccept, ClaimsIInv
<1>3. /\ r.other \in Handoffs /\ r.stream \in Handoffs /\ LoadedOK(r) /\ r.own.version \in Nat
  BY <1>2 DEF IInv, TypeOK, Requests, HandoffStates, ProposalsFit, RequestOK, LoadedOK
<1>4. r.other # r.stream /\ Snapshot(r.own, r.stream)
  BY <1>2, <1>3 DEF LoadedOK
<1>5. \/ Reject(p, expect)
      \/ DecideAccept(r.own, r.cmd, now) /\ Propose(p, expect, append, done)
  BY <1>1 DEF DecideChildAccept
<1>6. CASE Reject(p, expect)
  <2> HIDE DEF expect
  <2> QED BY <1>2, <1>6, RejectKeepsClaims DEF Reject
<1>7. CASE DecideAccept(r.own, r.cmd, now) /\ Propose(p, expect, append, done)
  <2>1. Decide(r.own, r.cmd, now, TRUE)
    BY <1>2, <1>7 DEF Decide
  <2>2. /\ ClaimSound(r.own, e, r.cmd, now)
        /\ e.type \in {"claimed", "claim_renewed"} => e.claim.expiresAt <= now + LeaseSeconds
    BY <1>1, <1>2, <2>1, DecidedClaims
  <2>3. f.type = "transferred"
    BY DEF Event
  <2>4. /\ expect[r.stream] = r.own.version /\ r.own.version # Unchecked
        /\ \A h \in Handoffs : append[h] = IF h = r.other THEN f ELSE IF h = r.stream THEN e ELSE NoEvent
    BY <1>3, <1>4 DEF Idle, Unchecked
  <2> HIDE DEF expect, append, done, f
  <2>5. ASSUME \A h \in Handoffs : expect[h] # Unchecked => handoff[h].version = expect[h]
        PROVE  handoff[r.stream] = r.own
    BY <1>3, <1>4, <2>4, <2>5 DEF Snapshot
  <2> HIDE DEF r
  <2>6. \A h \in Handoffs : append[h].type \in {"claimed", "claim_renewed"} =>
          append[h].claim.expiresAt <= now + LeaseSeconds
    BY <2>2, <2>3, <2>4, IdleType
  <2>7. \A h \in Handoffs : ClaimSound(handoff[h], f, request[p].cmd, now)
    BY <2>3 DEF ClaimSound
  <2>8. ASSUME \A h \in Handoffs : expect[h] # Unchecked => handoff[h].version = expect[h]
        PROVE  \A h \in Handoffs : append[h] # NoEvent => ClaimSound(handoff[h], append[h], request[p].cmd, now)
    BY <2>2, <2>4, <2>5, <2>7, <2>8 DEF r
  <2> QED BY <1>2, <1>7, <2>6, <2>8, ProposalKeepsClaims
<1> QED BY <1>5, <1>6, <1>7

\* The claim of a stream after its event is promised for no longer than a lease from now.
LEMMA CommitClaims == ASSUME ClaimsIInv, IInv', NEW p \in Handlers, Commit(p) PROVE ClaimsIInv'
<1> DEFINE r == request[p]
<1>1. IInv /\ r.pc = "decided" /\ r \in Requests /\ ClaimFits(r) /\ now' = now /\ now \in Nat
  BY DEF Commit, ClaimsIInv, ClaimsOK, IInv, TypeOK
<1>2. CASE Saved(r.cmd.key) # {}
  <2>1. ReplayOrReuse(p, r.cmd) /\ UNCHANGED <<handoff, now>>
    BY <1>1, <1>2 DEF Commit
  <2> QED BY <2>1, ReplayKeepsClaims
<1>3. CASE Saved(r.cmd.key) = {} /\ VersionConflict(r)
  <2>1. Answer(p, r.cmd, Refusal("version_conflict")) /\ UNCHANGED <<handoff, now>>
    BY <1>1, <1>3 DEF Commit
  <2> QED BY <2>1, AnswerKeepsClaims
<1>4. CASE Saved(r.cmd.key) = {} /\ ~VersionConflict(r)
  <2>1. /\ \A h \in Handoffs :
             IF r.append[h] = NoEvent THEN handoff'[h] = handoff[h]
             ELSE /\ Suits(handoff[h], r.append[h])
                  /\ handoff'[h] = Evolve(handoff[h], r.append[h])
                  /\ handoff'[h].version = handoff[h].version + 1
        /\ \A h \in Handoffs : handoff[h].version \in Nat
        /\ Answer(p, r.cmd, r.outcome)
    BY <1>1, <1>4, CommitGrows
  <2>2. \A h \in Handoffs :
          /\ handoff[h] \in HandoffStates /\ Consistent(handoff[h]) /\ r.append[h] \in Events
          /\ LeaseBounded(handoff[h], now)
          /\ r.append[h].type \in {"claimed", "claim_renewed"} =>
               r.append[h].claim.expiresAt <= now + LeaseSeconds
    BY <1>1 DEF ClaimsIInv, ClaimFits, IInv, TypeOK, ProposalsFit, Requests
  <2> HIDE DEF r
  <2>3. \A h \in Handoffs : LeaseBounded(handoff'[h], now)
    <3> SUFFICES ASSUME NEW h \in Handoffs PROVE LeaseBounded(handoff'[h], now)
      OBVIOUS
    <3>1. CASE r.append[h] = NoEvent
      BY <2>1, <2>2, <3>1
    <3>2. CASE r.append[h] # NoEvent
      <4> PICK e \in Events : e = r.append[h]
        BY <2>2
      <4>1. /\ Suits(handoff[h], e) /\ handoff'[h] = Evolve(handoff[h], e)
            /\ handoff[h] \in HandoffStates /\ Consistent(handoff[h])
        BY <2>1, <2>2, <3>2
      <4>2. \/ handoff'[h].claim \in {NoClaim, handoff[h].claim}
            \/ e.type \in {"claimed", "claim_renewed"} /\ handoff'[h].claim = e.claim
        BY <4>1, EvolveClaim
      <4> QED BY <2>2, <4>2 DEF LeaseBounded
    <3> QED BY <3>1, <3>2
  <2>4. \A h \in Handoffs : handoff'[h] = handoff[h] \/ handoff'[h].version > handoff[h].version
    BY <2>1
  <2>5. PICK a : a = [Idle EXCEPT !.pc = "answered", !.cmd = r.cmd, !.outcome = r.outcome]
    OBVIOUS
  <2>6. PICK q \in {Idle, a} : request' = [request EXCEPT ![p] = q]
    BY <2>1, <2>5 DEF Answer
  <2>7. q.pc \notin {"loaded", "paired", "decided"}
    <3>1. a.pc = "answered"
      BY <2>5 DEF Idle
    <3> QED BY <2>6, <3>1, IdleType
  <2>8. request'[p] = q /\ \A o \in Handlers \ {p} : request'[o] = request[o]
    BY <2>6 DEF ClaimsIInv, IInv, TypeOK
  <2>9. \A o \in Handlers \ {p} : ClaimsOK(request[o])'
    BY <1>1, <2>4, <2>8, ClaimsStable DEF ClaimsIInv
  <2>10. ClaimsOK(request[p])'
    BY <2>7, <2>8 DEF ClaimsOK
  <2>11. \A h \in Handoffs : LeaseBounded(handoff[h], now)'
    BY <1>1, <2>3 DEF LeaseBounded
  <2> QED BY <2>9, <2>10, <2>11 DEF ClaimsIInv
<1> QED BY <1>2, <1>3, <1>4

LEMMA ClaimsStepKeeps == ASSUME ClaimsIInv, [Next]_vars PROVE ClaimsIInv'
<1>1. IInv'
  BY StepKeepsIInv DEF ClaimsIInv
<1>2. ASSUME UNCHANGED <<handoff, request>>, now' \in {now, now + 1} PROVE ClaimsIInv'
  <2>1. now \in Nat /\ now' \in Nat /\ now' >= now
    BY <1>1, <1>2 DEF ClaimsIInv, IInv, TypeOK
  <2>2. \A p \in Handlers : ClaimsOK(request[p])'
    BY <1>1, <1>2, <2>1, ClaimsStable DEF ClaimsIInv
  <2>3. \A h \in Handoffs : LeaseBounded(handoff[h], now')
    BY <2>1, BoundedLater DEF ClaimsIInv, IInv, TypeOK
  <2>4. \A h \in Handoffs : LeaseBounded(handoff[h], now)'
    BY <1>2, <2>3 DEF LeaseBounded
  <2> QED BY <1>1, <2>2, <2>4 DEF ClaimsIInv
<1>3. ASSUME NEW p \in Handlers, Fail(p) \/ Release(p) PROVE ClaimsIInv'
  BY <1>1, <1>3, IdleType, RequestKeepsClaims DEF Fail, Release, ClaimsOK
<1>4. ASSUME NEW p \in Handlers, Handle(p) PROVE ClaimsIInv'
  BY <1>1, <1>3, <1>4, ReceiveClaims, LoadsClaims, LoadOtherClaims, DecideOneClaims,
     DecideChildOfferClaims, DecideChildAcceptClaims, CommitClaims DEF Handle
<1> QED BY <1>2, <1>4 DEF Next, Tick, vars

LEMMA ClaimsStart == Init => ClaimsIInv
<1> SUFFICES ASSUME Init PROVE ClaimsIInv
  OBVIOUS
<1>1. \A p \in Handlers : request[p].pc = "idle"
  BY IdleType DEF Init
<1>2. \A h \in Handoffs : handoff[h].claim = NoClaim
  BY NullFacts DEF Init
<1> QED BY <1>1, <1>2, InitOK DEF ClaimsIInv, ClaimsOK, LeaseBounded

THEOREM ClaimsInvariance == Spec => []ClaimsIInv
BY ClaimsStart, ClaimsStepKeeps, PTL DEF Spec

\* Only a commit whose checks pass writes to a stream.
LEMMA OnlyCommitsWrite ==
  ASSUME [Next]_vars, handoff' # handoff
  PROVE  \E p \in Handlers : Commit(p) /\ Saved(request[p].cmd.key) = {} /\ ~VersionConflict(request[p])
<1>1. PICK p \in Handlers : Handle(p)
  BY DEF Next, Tick, vars
<1>2. Commit(p)
  BY <1>1 DEF Handle, Receive, LoadUnique, LoadReceived, LoadOther, DecideOne, DecideChildOffer,
              DecideChildAccept, Fail, Release
<1>3. Saved(request[p].cmd.key) = {} /\ ~VersionConflict(request[p])
  BY <1>2 DEF Commit
<1> QED BY <1>2, <1>3

\* What one event does to one claim.
LEMMA EventKeepsClaim ==
  ASSUME NEW s \in HandoffStates, NEW e \in Events, Consistent(s), Suits(s, e),
         NEW t, t = Evolve(s, e), NEW c, NEW u, ClaimSound(s, e, c, u)
  PROVE  /\ (s.claim # NoClaim /\ t.claim = NoClaim) =>
              \/ t.life = "accepted" /\ t.recipient = s.claim.actor
              \/ t.life = "claimable" /\ u >= s.claim.expiresAt
              \/ t.life = "claimable" /\ HoldsClaim(s, c) /\ c.heartbeat > s.claim.heartbeat
              \/ t.life = "expired" /\ u >= s.pkg.acceptBy
              \/ t.life = "cancelled"
         /\ (t.claim # NoClaim /\ t.claim # s.claim) =>
              IF s.claim = NoClaim
                THEN t.claim.token > s.fencingToken
                ELSE /\ t.claim.actor = s.claim.actor /\ t.claim.token = s.claim.token
                     /\ t.claim.heartbeat > s.claim.heartbeat
                     /\ t.claim.expiresAt >= s.claim.expiresAt
<1>1. s.fencingToken \in Nat
  BY DEF HandoffStates
<1>2. CASE e.type \in {"claimed", "claim_renewed"}
  <2>1. /\ t.claim = e.claim
        /\ e.type = "claimed" => s.claim = NoClaim
        /\ e.type = "claim_renewed" => s.claim # NoClaim
    BY <1>2, EvolveClaim
  <2>2. t.claim # NoClaim
    BY <1>2, <2>1, NullAssumption DEF Suits, NoClaim, Consistent
  <2>3. e.type = "claimed" => t.claim.token > s.fencingToken
    BY <1>1, <2>1 DEF Suits
  <2>4. e.type = "claim_renewed" =>
          /\ t.claim.actor = s.claim.actor /\ t.claim.token = s.claim.token
          /\ t.claim.heartbeat > s.claim.heartbeat /\ t.claim.expiresAt >= s.claim.expiresAt
    BY <2>1 DEF Suits, ClaimSound
  <2> QED BY <1>2, <2>1, <2>2, <2>3, <2>4
<1>3. CASE e.type \notin {"claimed", "claim_renewed"}
  <2>1. t.claim = NoClaim \/ t.claim = s.claim
    BY <1>3, EvolveClaim
  <2>2. e.type \in {"claim_released", "claim_expired"} => t.life = "claimable"
    BY EvolveClaim
  <2>3. e.type = "accepted" => t.life = "accepted" /\ t.recipient = e.actor
    BY EvolveClaim
  <2>4. e.type \in {"expired", "cancelled"} => t.life = e.type
    BY EvolveClaim
  <2>5. e.type \notin {"claim_released", "claim_expired", "accepted", "expired", "cancelled"} =>
          t.claim = s.claim
    BY <1>3, EvolveClaim
  <2> QED BY <1>3, <2>1, <2>2, <2>3, <2>4, <2>5 DEF ClaimSound
<1> QED BY <1>2, <1>3

LEMMA StepKeepsClaims ==
  ASSUME ClaimsIInv, [Next]_vars, NEW h \in Handoffs
  PROVE  ClaimEndsProperly(h) /\ ClaimOutranks(h)
<1>1. CASE handoff'[h] = handoff[h]
  BY <1>1 DEF ClaimEndsProperly, ClaimOutranks
<1>2. CASE handoff'[h] # handoff[h]
  <2>1. PICK p \in Handlers :
          Commit(p) /\ Saved(request[p].cmd.key) = {} /\ ~VersionConflict(request[p])
    BY <1>2, OnlyCommitsWrite
  <2>2. PICK e : e = request[p].append[h]
    OBVIOUS
  <2>3. IInv /\ request[p].pc = "decided" /\ ClaimFits(request[p])
    BY <2>1 DEF Commit, ClaimsIInv, ClaimsOK
  <2>4. /\ e # NoEvent /\ Suits(handoff[h], e) /\ handoff'[h] = Evolve(handoff[h], e)
        /\ Answer(p, request[p].cmd, request[p].outcome)
    BY <1>2, <2>1, <2>2, <2>3, CommitGrows
  <2>5. handoff[h] \in HandoffStates /\ Consistent(handoff[h]) /\ e \in Events
    BY <2>2, <2>3 DEF IInv, TypeOK, ProposalsFit, Requests
  <2>6. ClaimSound(handoff[h], e, request[p].cmd, now)
    BY <2>1, <2>2, <2>3, <2>4 DEF ClaimFits
  <2>7. Committed(p)
    <3>1. PICK a : a = [Idle EXCEPT !.pc = "answered", !.cmd = request[p].cmd, !.outcome = request[p].outcome]
      OBVIOUS
    <3>2. a.pc = "answered"
      BY <3>1 DEF Idle
    <3>3. request' = [request EXCEPT ![p] = Idle] \/ request' = [request EXCEPT ![p] = a]
      BY <2>4, <3>1 DEF Answer
    <3>4. request'[p].pc # "decided"
      BY <2>3, <3>2, <3>3, IdleType DEF IInv, TypeOK
    <3> QED BY <2>3, <3>4 DEF Committed
  <2>8. ClaimEndsProperly(h)
    BY <2>4, <2>5, <2>6, <2>7, EventKeepsClaim DEF ClaimEndsProperly
  <2>9. ClaimOutranks(h)
    BY <2>4, <2>5, <2>6, EventKeepsClaim DEF ClaimOutranks
  <2> QED BY <2>8, <2>9
<1> QED BY <1>1, <1>2

\* A claim is ended by its holder, by its lease or with its Handoff, and every claim outranks
\* the one before it, whatever is committed between a decision and its commit.
THEOREM ClaimsKept == Spec => ClaimsAreKept
<1>1. ClaimsIInv /\ [Next]_vars => \A h \in Handoffs : ClaimEndsProperly(h) /\ ClaimOutranks(h)
  BY StepKeepsClaims
<1> QED BY <1>1, ClaimsInvariance, PTL DEF Spec, ClaimsAreKept
=============================================================================
