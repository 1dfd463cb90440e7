------------------------------- MODULE Handoff -------------------------------
(***************************************************************************)
(* The domain of the Exchange: one Handoff as the value obtained by        *)
(* replaying its event stream, the decider that turns a command into an    *)
(* event, and the reducer that folds an event into the value.              *)
(*                                                                         *)
(* Everything here is pure.  The decider and the reducer carry their own   *)
(* tables of what is allowed from which lifecycle state; nothing in the    *)
(* program makes the two agree, and a stored event the reducer refuses     *)
(* makes the stream unreadable from then on.                               *)
(***************************************************************************)
EXTENDS Integers

CONSTANTS
  Actors,        \* actor references (id and type together)
  NoActor,       \* null
  AnyActor,      \* an endpoint target: every authorized actor is its recipient
  Handoffs,      \* handoff (= stream) identifiers
  NoHandoff,     \* null
  Packages,      \* the Handoff Packages an offer may carry
  NoPackage,     \* the package of a stream that does not exist yet
  LeaseSeconds   \* the claim lease granted by the Exchange

ASSUME NullAssumption ==
  /\ NoActor \notin Actors /\ AnyActor \notin Actors /\ AnyActor # NoActor
  /\ NoHandoff \notin Handoffs
  /\ NoPackage \notin Packages

Targets == Actors \cup {NoActor, AnyActor}

\* The assignment mode stands for the shape of the package's target: an
\* explicit actor or endpoint, or a capability requirement of either mode.
Modes == {"explicit", "external_resolution", "eligible_pool_claim"}

ASSUME PackageAssumption ==
  \A k \in Packages :
    /\ k.mode \in Modes
    /\ k.target \in Targets
    /\ k.verifier \in Actors
    /\ k.mayRedelegate \in BOOLEAN
    /\ k.acceptBy \in Nat
    /\ k.authorityUntil \in Nat
    /\ (k.mode = "explicit") <=> (k.target # NoActor)

ASSUME LeaseAssumption == LeaseSeconds \in Nat \ {0}

-----------------------------------------------------------------------------
(* The replayed value of a stream. *)

Proposed == {"target_resolution_pending", "claimable", "claimed", "offered"}
UnderReview == {"result_returned", "verified", "rework_requested"}
TerminalStates ==
  {"target_unavailable", "closed", "declined", "expired", "cancelled", "transferred"}

\* "none" is an empty stream; "unreadable" one whose replay throws.
LifecycleStates ==
  Proposed \cup UnderReview \cup TerminalStates \cup {"accepted", "none", "unreadable"}

Claims == [actor : Actors \cup {NoActor}, token : Nat, heartbeat : Nat, expiresAt : Nat]
NoClaim == [actor |-> NoActor, token |-> 0, heartbeat |-> 0, expiresAt |-> 0]

HandoffStates ==
  [version : Nat, life : LifecycleStates,
   initiator : Actors \cup {NoActor}, recipient : Actors \cup {NoActor},
   responsible : Actors \cup {NoActor}, target : Targets,
   claim : Claims, fencingToken : Nat,
   pkg : Packages \cup {NoPackage},
   parent : Handoffs \cup {NoHandoff}, child : Handoffs \cup {NoHandoff}]

Absent ==
  [version |-> 0, life |-> "none", initiator |-> NoActor, recipient |-> NoActor,
   responsible |-> NoActor, target |-> NoActor, claim |-> NoClaim, fencingToken |-> 0,
   pkg |-> NoPackage, parent |-> NoHandoff, child |-> NoHandoff]

-----------------------------------------------------------------------------
(* Commands and events. *)

\* heartbeat is the sequence number the command carries; ok says that the
\* criterion identifiers (and the reason) of a verify or rework command pass
\* their validation, required criteria included.
Kinds ==
  {"offer", "resolve_target", "report_target_unavailable", "claim", "renew_claim",
   "release_claim", "expire_claim", "accept", "decline", "expire", "cancel",
   "report_status", "return_result", "verify", "close", "request_rework", "transfer"}

EventTypes ==
  {"offered", "target_resolution_requested", "claim_pool_opened", "target_resolved",
   "target_unavailable", "claimed", "claim_renewed", "claim_released", "claim_expired",
   "accepted", "declined", "expired", "cancelled", "status_reported", "result_returned",
   "verified", "closed", "rework_requested", "transferred"}
CreationTypes == {"offered", "target_resolution_requested", "claim_pool_opened"}

\* link is the parent of a created Handoff, the child of a transferred one; "none"
\* is no event.
Events ==
  [type : EventTypes \cup {"none"}, actor : Actors \cup {NoActor}, claim : Claims, target : Targets,
   pkg : Packages \cup {NoPackage}, link : Handoffs \cup {NoHandoff}]

Event(type) ==
  [type |-> type, actor |-> NoActor, claim |-> NoClaim, target |-> NoActor,
   pkg |-> NoPackage, link |-> NoHandoff]

-----------------------------------------------------------------------------
(* The decider: the conditions under which each command is accepted.  s is  *)
(* the state the command was decided on, now the clock at the decision.     *)

IsDirectRecipient(s, a) == s.target = AnyActor \/ s.target = a

\* Bug: any actor of the endpoint may take up the rework.
IsAnyRecipient(s, a) == IsDirectRecipient(s, a)

IsAuthorizedRecipient(s, a) ==
  /\ IsDirectRecipient(s, a)
  /\ s.life = "rework_requested" => s.recipient = a

\* The fence a claim holder must present.
HoldsClaim(s, c) ==
  /\ s.claim # NoClaim
  /\ s.claim.actor = c.actor
  /\ s.claim.token = c.token

DecideAccept(s, c, now) ==
  /\ s.life \in {"offered", "claimed", "rework_requested"}
  /\ IF s.life = "claimed"
       THEN HoldsClaim(s, c) /\ now < s.claim.expiresAt
       ELSE IsAuthorizedRecipient(s, c.actor)

DecideDecline(s, c) == s.life = "offered" /\ IsAuthorizedRecipient(s, c.actor)

DecideExpire(s, now) == s.life \in Proposed /\ now >= s.pkg.acceptBy

\* Bug: cancelling a Handoff whose result is already in.
DecideCancelLate(s, c) ==
  s.life \in Proposed \cup {"accepted", "result_returned"} /\ s.initiator = c.actor

DecideCancel(s, c) == s.life \in Proposed \cup {"accepted"} /\ s.initiator = c.actor

\* resolve_target and report_target_unavailable; only the former asks the
\* eligibility verifier.
DecideResolve(s, c, eligible) ==
  /\ s.life = "target_resolution_pending"
  /\ s.pkg.mode # "explicit"
  /\ c.kind = "resolve_target" => eligible

DecideClaim(s, eligible) ==
  s.life = "claimable" /\ s.pkg.mode = "eligible_pool_claim" /\ eligible

DecideHeartbeat(s, c, now) ==     \* renew_claim and release_claim
  /\ s.life = "claimed"
  /\ HoldsClaim(s, c)
  /\ c.heartbeat = s.claim.heartbeat + 1
  /\ now < s.claim.expiresAt

DecideExpireClaim(s, c, now) ==
  /\ s.life = "claimed"
  /\ s.claim # NoClaim /\ s.claim.token = c.token
  /\ now >= s.claim.expiresAt

DecideWork(s, c, now) ==          \* report_status and return_result
  /\ s.life = "accepted"
  /\ s.recipient = c.actor
  /\ c.kind = "return_result" => now < s.pkg.authorityUntil

DecideReview(s, c) ==             \* verify, request_rework and close
  /\ s.life = IF c.kind = "close" THEN "verified" ELSE "result_returned"
  /\ s.pkg.verifier = c.actor
  /\ c.ok

\* A transfer is decided on the parent: it offers a child in its name.
DecideTransfer(s, c) ==
  s.life = "accepted" /\ s.recipient = c.actor /\ s.pkg.mayRedelegate

Decide(s, c, now, eligible) ==
  CASE c.kind = "offer" -> s.version = 0
    [] c.kind = "transfer" -> DecideTransfer(s, c)
    [] c.kind \in {"resolve_target", "report_target_unavailable"} ->
         DecideResolve(s, c, eligible)
    [] c.kind = "claim" -> DecideClaim(s, eligible)
    [] c.kind \in {"renew_claim", "release_claim"} -> DecideHeartbeat(s, c, now)
    [] c.kind = "expire_claim" -> DecideExpireClaim(s, c, now)
    [] c.kind = "accept" -> DecideAccept(s, c, now)
    [] c.kind = "decline" -> DecideDecline(s, c)
    [] c.kind = "expire" -> DecideExpire(s, now)
    [] c.kind = "cancel" -> DecideCancel(s, c)
    [] c.kind \in {"report_status", "return_result"} -> DecideWork(s, c, now)
    [] c.kind \in {"verify", "close", "request_rework"} -> DecideReview(s, c)
    [] OTHER -> FALSE

-----------------------------------------------------------------------------
(* The event an accepted command produces. *)

OfferEvent(c, parent) ==
  [Event(CASE c.pkg.mode = "explicit" -> "offered"
           [] c.pkg.mode = "eligible_pool_claim" -> "claim_pool_opened"
           [] OTHER -> "target_resolution_requested")
     EXCEPT !.actor = c.actor, !.pkg = c.pkg, !.link = parent]

\* Bug: a claim that reuses the fencing token of the claim before it.
GrantClaimUnfenced(s, c, now) ==
  [actor |-> c.actor, token |-> s.fencingToken, heartbeat |-> 0,
   expiresAt |-> now + LeaseSeconds]

GrantClaim(s, c, now) ==
  [actor |-> c.actor, token |-> s.fencingToken + 1, heartbeat |-> 0,
   expiresAt |-> now + LeaseSeconds]

\* Bug: a renewal that counts the heartbeats down.
RenewClaimBackwards(s, c, now) ==
  [s.claim EXCEPT !.heartbeat = @ - 1, !.expiresAt = now + LeaseSeconds]

RenewClaim(s, c, now) ==
  [s.claim EXCEPT !.heartbeat = c.heartbeat, !.expiresAt = now + LeaseSeconds]

SimpleEvent ==
  [report_target_unavailable |-> "target_unavailable", release_claim |-> "claim_released",
   expire_claim |-> "claim_expired", decline |-> "declined", expire |-> "expired",
   cancel |-> "cancelled", report_status |-> "status_reported",
   return_result |-> "result_returned", verify |-> "verified", close |-> "closed",
   request_rework |-> "rework_requested"]

\* An accept out of a claim binds the target to the claim's endpoint.
EventOf(s, c, now) ==
  CASE c.kind = "offer" -> OfferEvent(c, NoHandoff)
    [] c.kind = "resolve_target" ->
         [Event("target_resolved") EXCEPT !.target = c.target]
    [] c.kind = "claim" -> [Event("claimed") EXCEPT !.claim = GrantClaim(s, c, now)]
    [] c.kind = "renew_claim" ->
         [Event("claim_renewed") EXCEPT !.claim = RenewClaim(s, c, now)]
    [] c.kind = "accept" ->
         [Event("accepted") EXCEPT
            !.actor = c.actor,
            !.target = IF s.life = "claimed" THEN AnyActor ELSE s.target]
    [] OTHER -> Event(SimpleEvent[c.kind])

-----------------------------------------------------------------------------
(* The reducer. *)

AllowedFrom ==
  [target_resolution_pending |->
     {"target_resolved", "target_unavailable", "expired", "cancelled"},
   claimable |-> {"claimed", "expired", "cancelled"},
   claimed |-> {"claim_renewed", "claim_released", "claim_expired", "accepted",
                "expired", "cancelled"},
   offered |-> {"accepted", "declined", "expired", "cancelled"},
   accepted |-> {"cancelled", "status_reported", "result_returned", "transferred"},
   result_returned |-> {"verified", "rework_requested"},
   rework_requested |-> {"accepted"},
   verified |-> {"closed"}]

\* The reducer takes the event; otherwise it throws.
EventAllowed(s, e) ==
  IF s.version = 0
    THEN e.type \in CreationTypes
    ELSE s.life \in DOMAIN AllowedFrom /\ e.type \in AllowedFrom[s.life]

\* Bug: the target is responsible as soon as the Handoff is offered.
CreatedForTarget(e) ==
  [Absent EXCEPT
     !.version = 1, !.life = "offered", !.initiator = e.actor,
     !.responsible = IF e.pkg.target \in Actors THEN e.pkg.target ELSE e.actor,
     !.pkg = e.pkg, !.target = e.pkg.target, !.parent = e.link]

Created(e) ==
  [Absent EXCEPT
     !.version = 1,
     !.life = CASE e.type = "offered" -> "offered"
                [] e.type = "claim_pool_opened" -> "claimable"
                [] OTHER -> "target_resolution_pending",
     !.initiator = e.actor, !.responsible = e.actor,
     !.pkg = e.pkg, !.target = e.pkg.target, !.parent = e.link]

EvolveExisting(s, e) ==
  LET t == [s EXCEPT !.version = @ + 1] IN
  CASE e.type = "claimed" ->
         [t EXCEPT !.life = "claimed", !.claim = e.claim, !.fencingToken = e.claim.token]
    [] e.type = "claim_renewed" -> [t EXCEPT !.claim = e.claim]
    [] e.type \in {"claim_released", "claim_expired"} ->
         [t EXCEPT !.life = "claimable", !.claim = NoClaim]
    [] e.type = "target_resolved" -> [t EXCEPT !.life = "offered", !.target = e.target]
    [] e.type = "accepted" ->
         [t EXCEPT !.life = "accepted", !.recipient = e.actor, !.responsible = e.actor,
                   !.claim = NoClaim, !.target = e.target]
    [] e.type \in {"target_unavailable", "declined", "closed"} ->
         [t EXCEPT !.life = e.type, !.responsible = NoActor]
    [] e.type \in {"expired", "cancelled"} ->
         [t EXCEPT !.life = e.type, !.responsible = NoActor, !.claim = NoClaim]
    [] e.type \in {"result_returned", "verified", "rework_requested"} ->
         [t EXCEPT !.life = e.type, !.responsible = s.pkg.verifier]
    [] e.type = "transferred" ->
         [t EXCEPT !.life = "transferred", !.responsible = NoActor, !.child = e.link]
    [] OTHER -> t                                                \* status_reported

\* The stream after e is appended, as the next reader will replay it.
Evolve(s, e) ==
  IF ~EventAllowed(s, e)
    THEN [s EXCEPT !.version = @ + 1, !.life = "unreadable"]
    ELSE IF s.version = 0 THEN Created(e) ELSE EvolveExisting(s, e)
-----------------------------------------------------------------------------
(* What holds of every Handoff the Exchange stores. *)

\* The actor that the lifecycle state makes responsible.
ResponsibleFor(s) ==
  CASE s.life \in Proposed -> s.initiator
    [] s.life = "accepted" -> s.recipient
    [] s.life \in UnderReview -> s.pkg.verifier
    [] OTHER -> NoActor

Consistent(s) ==
  /\ IF s.version = 0 THEN s = Absent
     ELSE /\ s.initiator \in Actors /\ s.pkg \in Packages
          /\ s.life \notin {"none", "unreadable"}
  /\ s.life = "claimed" <=> s.claim # NoClaim
  /\ s.claim # NoClaim => s.claim.actor \in Actors /\ s.claim.token = s.fencingToken
  /\ s.life \in Proposed => s.recipient = NoActor
  /\ s.life \in UnderReview \cup {"accepted", "transferred"} => s.recipient \in Actors
  /\ s.responsible = ResponsibleFor(s)

\* The event is one the reducer takes in state s, and carries what it should.
Suits(s, e) ==
  /\ EventAllowed(s, e)
  /\ e.type \in CreationTypes => e.actor \in Actors /\ e.pkg \in Packages
  /\ e.type = "claimed" =>
       e.claim.actor \in Actors /\ e.claim.token = s.fencingToken + 1
  /\ e.type = "claim_renewed" =>
       e.claim.actor = s.claim.actor /\ e.claim.token = s.claim.token
  /\ e.type = "accepted" => e.actor \in Actors
=============================================================================
