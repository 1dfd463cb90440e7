------------------------------ MODULE Exchange ------------------------------
(***************************************************************************)
(* The authoritative Exchange: command handlers that run concurrently over *)
(* one persistence.  A handler looks up the idempotency key, replays the   *)
(* stream (and, for a transfer or the accept of a child, a second stream), *)
(* decides, and commits; between any two of these steps, each an await,    *)
(* the other handlers and the clock move on.  Only the commit is atomic.   *)
(***************************************************************************)
EXTENDS Handoff

CONSTANTS
  Handlers,        \* invocations of handle() that may be in flight together
  Keys,            \* idempotency keys that clients use more than once
  UniqueKey,       \* stands for every key that is used for one request only
  SubmittedKinds,  \* the kinds of command clients send under a unique key
  Initiators,      \* the actors that make root offers
  RetriedKinds,    \* the kinds they send under a key of Keys
  MaxVersion,      \* bound: no command is started on a longer stream
  MaxFence,        \* bound: the largest fencing token or heartbeat clients send
  MaxTime          \* bound: the clock stops here

ASSUME ExchangeAssumption ==
  /\ UniqueKey \notin Keys
  /\ Initiators \subseteq Actors
  /\ SubmittedKinds \subseteq Kinds /\ RetriedKinds \subseteq Kinds
  /\ MaxVersion \in Nat /\ MaxFence \in Nat /\ MaxTime \in Nat

VARIABLES
  handoff,    \* each stream, as its replay; its length is the version
  commands,   \* the command records: what was saved under each key
  now,        \* the clock
  request     \* each handler's local state

vars == <<handoff, commands, now, request>>

-----------------------------------------------------------------------------
(* Commands as clients send them. *)

CommandType ==
  [kind : Kinds, handoff : Handoffs \cup {NoHandoff}, actor : Actors, version : Nat,
   key : Keys \cup {UniqueKey}, token : Nat, heartbeat : Nat, ok : BOOLEAN,
   target : Targets, pkg : Packages \cup {NoPackage}]

Heartbeats == {"renew_claim", "release_claim"}
Fenced == Heartbeats \cup {"expire_claim", "accept"}
Judged == {"verify", "request_rework"}
Offering == {"offer", "transfer"}

\* The commands a client may address to stream h at version v; a field that a kind
\* does not use is null.
CommandsOfKind(k, h, v, key) ==
  [kind : {k}, key : {key},
   handoff : IF k = "offer" THEN {NoHandoff} ELSE {h},
   version : IF k = "offer" THEN {0} ELSE {v},
   actor : IF k = "offer" THEN Initiators ELSE Actors,
   token : IF k \in Fenced THEN 0..MaxFence ELSE {0},
   heartbeat : IF k \in Heartbeats THEN 1..MaxFence ELSE {0},
   ok : IF k \in Judged THEN BOOLEAN ELSE {TRUE},
   target : IF k = "resolve_target" THEN Targets \ {NoActor} ELSE {NoActor},
   pkg : IF k \in Offering THEN Packages ELSE {NoPackage}]

CommandsOn(h, v, key) ==
  UNION {CommandsOfKind(k, h, v, key) :
           k \in IF key = UniqueKey THEN SubmittedKinds ELSE RetriedKinds}

-----------------------------------------------------------------------------
(* Handlers. *)

Outcomes ==
  [status : {"accepted", "rejected", "version_conflict", "idempotency_key_reused"},
   handoff : Handoffs \cup {NoHandoff}, version : Nat]

Refusal(status) == [status |-> status, handoff |-> NoHandoff, version |-> 0]
Accepted(h, v) == [status |-> "accepted", handoff |-> h, version |-> v]

\* A stream the commit does not check, and does not append to.
Unchecked == -1
NoEvent == Event("none")

\* own and peer are the replayed streams, stream and other their identifiers;
\* expect, append and outcome make up the AtomicCommitRequest.
Idle ==
  [pc |-> "idle", cmd |-> NoHandoff, stream |-> NoHandoff, other |-> NoHandoff,
   own |-> Absent, peer |-> Absent,
   expect |-> [h \in Handoffs |-> Unchecked], append |-> [h \in Handoffs |-> NoEvent],
   outcome |-> Refusal("rejected")]

\* Bug: no idempotency records.
SavedNever(key) == {}

Saved(key) == {r \in commands : r.cmd.key = key}

\* The reply to command c leaves the handler.  A reply under a key of Keys is kept
\* until the handler is used again, for the properties to look at.
Answer(p, c, outcome) ==
  request' = [request EXCEPT ![p] =
                IF c.key = UniqueKey THEN Idle
                ELSE [Idle EXCEPT !.pc = "answered", !.cmd = c, !.outcome = outcome]]

\* What findCommand answers, and again what the commit answers, for a key
\* that is already taken.
ReplayOrReuse(p, c) ==
  \E r \in Saved(c.key) :
    Answer(p, c, IF r.cmd = c THEN r.outcome ELSE Refusal("idempotency_key_reused"))

\* findCommand.  A unique key finds nothing, so this step is only taken for Keys.
\* The command may be a first attempt, a retry, or another command altogether.
Receive(p) ==
  /\ request[p].pc = "idle"
  /\ \E key \in Keys, h \in Handoffs : \E v \in 0..handoff[h].version :
       \E c \in {d \in CommandsOn(h, v, key) : d.kind = "offer" \/ d.version > 0} :
         IF Saved(key) # {}
           THEN ReplayOrReuse(p, c)
           ELSE request' = [request EXCEPT ![p] = [Idle EXCEPT !.pc = "received", !.cmd = c]]
  /\ UNCHANGED <<handoff, commands, now>>

\* readStream, replay and the check of expected_version.  An offer and a
\* transfer draw an identifier for the stream they create.
Load(p, c, id) ==
  LET stream == IF c.kind = "offer" THEN id ELSE c.handoff
      s == handoff[stream]
  IN  IF c.kind # "offer" /\ c.version # s.version
        THEN Answer(p, c, Refusal("version_conflict"))
        ELSE request' = [request EXCEPT ![p] =
               [Idle EXCEPT !.pc = "loaded", !.cmd = c, !.stream = stream, !.own = s,
                            !.other = CASE c.kind = "transfer" -> id
                                        [] c.kind = "accept" -> s.parent
                                        [] OTHER -> NoHandoff]]

\* A command under a unique key that carries a stale expected_version, or that
\* the decider would refuse now and at every later time, ends without a trace:
\* only the others are started.
MayBeAccepted(s, c) == \E t \in now..MaxTime : Decide(s, c, t, TRUE)

LoadUnique(p) ==
  /\ request[p].pc = "idle"
  /\ \E h \in Handoffs, id \in Handoffs :
       \E c \in CommandsOn(h, handoff[h].version, UniqueKey) :
         /\ handoff[h].version < MaxVersion
         /\ c.kind \in Offering \/ id = h
         /\ MayBeAccepted(handoff[IF c.kind = "offer" THEN id ELSE h], c)
         /\ Load(p, c, id)
  /\ UNCHANGED <<handoff, commands, now>>

LoadReceived(p) ==
  /\ request[p].pc = "received"
  /\ \E id \in Handoffs : Load(p, request[p].cmd, id)
  /\ UNCHANGED <<handoff, commands, now>>

\* The second readStream: of the child a transfer is about to create, or of
\* the parent of the child being accepted.
LoadOther(p) ==
  LET r == request[p] IN
  /\ r.pc = "loaded" /\ r.other # NoHandoff
  /\ request' = [request EXCEPT ![p].pc = "paired", ![p].peer = handoff[r.other]]
  /\ UNCHANGED <<handoff, commands, now>>

Propose(p, expect, append, outcome) ==
  request' = [request EXCEPT ![p] =
                [Idle EXCEPT !.pc = "decided", !.cmd = request[p].cmd,
                             !.stream = request[p].stream,
                             !.expect = expect, !.append = append, !.outcome = outcome]]

\* A rejection is committed too, with a check of the versions it was made on and
\* no append.  Under a unique key that records something nobody asks for again:
\* the handler is then no different from one that failed.
Reject(p, expect) ==
  /\ request[p].cmd.key # UniqueKey
  /\ Propose(p, expect, Idle.append, Refusal("rejected"))

\* Every command on one stream.
DecideOne(p) ==
  LET r == request[p]
      expect == [Idle.expect EXCEPT ![r.stream] = r.own.version]
      append == [Idle.append EXCEPT ![r.stream] = EventOf(r.own, r.cmd, now)]
  IN
  /\ r.pc = "loaded" /\ r.other = NoHandoff
  /\ \E eligible \in IF r.cmd.kind \in {"claim", "resolve_target"} THEN BOOLEAN ELSE {TRUE} :
       IF Decide(r.own, r.cmd, now, eligible)
         THEN Propose(p, expect, append, Accepted(r.stream, r.own.version + 1))
         ELSE Reject(p, expect)
  /\ UNCHANGED <<handoff, commands, now>>

\* A transfer appends the child's first event and checks the parent's version.
DecideChildOffer(p) ==
  LET r == request[p]
      parent == [Idle.expect EXCEPT ![r.stream] = r.own.version]
      append == [Idle.append EXCEPT ![r.other] = OfferEvent(r.cmd, r.stream)]
  IN
  /\ r.pc = "paired" /\ r.cmd.kind = "transfer"
  /\ IF r.peer.version > 0
       THEN Propose(p, parent, Idle.append, Refusal("version_conflict"))
       ELSE IF DecideTransfer(r.own, r.cmd)
              THEN Propose(p, [parent EXCEPT ![r.other] = 0], append, Accepted(r.other, 1))
              ELSE Reject(p, parent)
  /\ UNCHANGED <<handoff, commands, now>>

\* Bug: a child may also be accepted once its parent's result is in.
MayTransferLate(parent, child) ==
  /\ parent.life \in {"accepted", "result_returned"}
  /\ parent.pkg.mayRedelegate
  /\ parent.recipient = child.initiator

\* acceptChildAndTransferParent, before it consults the child.
MayTransferTo(parent, child) ==
  /\ parent.life = "accepted"
  /\ parent.pkg.mayRedelegate
  /\ parent.recipient = child.initiator

\* The accept of a child appends to the child and to its parent.
DecideChildAccept(p) ==
  LET r == request[p]
      expect == [Idle.expect EXCEPT ![r.stream] = r.own.version,
                                    ![r.other] = r.peer.version]
      append == [Idle.append EXCEPT ![r.stream] = EventOf(r.own, r.cmd, now),
                                    ![r.other] = [Event("transferred") EXCEPT !.link = r.stream]]
  IN
  /\ r.pc = "paired" /\ r.cmd.kind = "accept"
  /\ IF MayTransferTo(r.peer, r.own) /\ DecideAccept(r.own, r.cmd, now)
       THEN Propose(p, expect, append, Accepted(r.stream, r.own.version + 1))
       ELSE Reject(p, expect)
  /\ UNCHANGED <<handoff, commands, now>>

\* Bugs: a commit that checks the first stream only, and one that checks none.
ConflictOnFirst(r) == handoff[r.stream].version # r.expect[r.stream]
ConflictNever(r) == FALSE

VersionConflict(r) ==
  \E h \in Handoffs : r.expect[h] # Unchecked /\ handoff[h].version # r.expect[h]

\* commitAtomically: the key, then every version, then all the appends at once.
Commit(p) ==
  LET r == request[p] IN
  /\ r.pc = "decided"
  /\ CASE Saved(r.cmd.key) # {} ->
            ReplayOrReuse(p, r.cmd) /\ UNCHANGED <<handoff, commands>>
       [] Saved(r.cmd.key) = {} /\ VersionConflict(r) ->
            Answer(p, r.cmd, Refusal("version_conflict")) /\ UNCHANGED <<handoff, commands>>
       [] OTHER ->
            /\ handoff' = [h \in Handoffs |->
                             IF r.append[h] = NoEvent
                               THEN handoff[h] ELSE Evolve(handoff[h], r.append[h])]
            /\ commands' = IF r.cmd.key = UniqueKey THEN commands
                           ELSE commands \cup {[cmd |-> r.cmd, outcome |-> r.outcome]}
            /\ Answer(p, r.cmd, r.outcome)
  /\ UNCHANGED now

\* The request fails before its commit: a read, the Context, the eligibility
\* verifier or the commit is unavailable, or the process stops.  Nothing is
\* saved and the client may send the command again.
Fail(p) ==
  /\ request[p].pc \notin {"idle", "answered"}
  /\ request' = [request EXCEPT ![p] = Idle]
  /\ UNCHANGED <<handoff, commands, now>>

Release(p) ==
  /\ request[p].pc = "answered"
  /\ request' = [request EXCEPT ![p] = Idle]
  /\ UNCHANGED <<handoff, commands, now>>

Tick == now < MaxTime /\ now' = now + 1 /\ UNCHANGED <<handoff, commands, request>>

Init ==
  /\ handoff = [h \in Handoffs |-> Absent]
  /\ commands = {}
  /\ now = 0
  /\ request = [p \in Handlers |-> Idle]

Handle(p) ==
  \/ Receive(p) \/ LoadUnique(p) \/ LoadReceived(p) \/ LoadOther(p)
  \/ DecideOne(p) \/ DecideChildOffer(p) \/ DecideChildAccept(p)
  \/ Commit(p) \/ Fail(p) \/ Release(p)

Next == Tick \/ \E p \in Handlers : Handle(p)

Spec == Init /\ [][Next]_vars
-----------------------------------------------------------------------------
(* Properties. *)

Requests ==
  [pc : {"idle", "received", "loaded", "paired", "decided", "answered"},
   cmd : CommandType \cup {NoHandoff},
   stream : Handoffs \cup {NoHandoff}, other : Handoffs \cup {NoHandoff},
   own : HandoffStates, peer : HandoffStates,
   expect : [Handoffs -> Nat \cup {Unchecked}], append : [Handoffs -> Events],
   outcome : Outcomes]

\* Every variable ranges over what it is meant to hold.
TypeOK ==
  /\ handoff \in [Handoffs -> HandoffStates]
  /\ commands \subseteq [cmd : CommandType, outcome : Outcomes]
  /\ now \in Nat
  /\ request \in [Handlers -> Requests]

\* The decider (run on a snapshot some time ago) never stores an event that the
\* reducer refuses on replay, which would make the Handoff unreadable for good.
StreamsReplay == \A h \in Handoffs : handoff[h].life # "unreadable"

\* Somebody is responsible for a Handoff for as long as it is open, and it is the
\* initiator until somebody accepts, the recipient while it works, the verifier
\* from the result on; a claim, a resolution or a transfer offer moves nothing.
ResponsibleActor ==
  \A h \in Handoffs : handoff[h].responsible = ResponsibleFor(handoff[h])

\* A child has been accepted exactly when its parent has been transferred to it:
\* no crash, race between two children, or race with a cancel or a result of the
\* parent leaves both responsible, or neither.
TransferAtomic ==
  \A h \in Handoffs :
    LET parent == handoff[handoff[h].parent] IN
    handoff[h].parent # NoHandoff =>
      (handoff[h].recipient # NoActor <=> parent.life = "transferred" /\ parent.child = h)

\* Commands retried, or sent twice at once, under one key take effect once: one
\* record per key, an accepted record stands for an event of its own on a stream,
\* and every definite answer is the one on record.
Definite == {"accepted", "rejected"}
RetriesTakeEffectOnce ==
  /\ \A r, q \in commands :
       /\ r.cmd.key = q.cmd.key => r = q
       /\ r.outcome = q.outcome /\ r.outcome.status = "accepted" => r = q
  /\ \A r \in commands : r.outcome.status = "accepted" =>
       handoff[r.outcome.handoff].version >= r.outcome.version
  /\ \A p \in Handlers :
       request[p].pc = "answered" /\ request[p].outcome.status \in Definite =>
         [cmd |-> request[p].cmd, outcome |-> request[p].outcome] \in commands

\* interactions.md: the original recipient of a Handoff sent back for rework takes
\* the responsibility again by accepting; so the accept it sends must be one the
\* Exchange can accept.
ReworkCanBeAccepted ==
  \A h \in Handoffs :
    LET s == handoff[h] IN
    s.life = "rework_requested" /\ s.parent # NoHandoff =>
      MayTransferTo(handoff[s.parent], s)

\* The commit of p that this step performed.
Committed(p) == request[p].pc = "decided" /\ request'[p].pc # "decided"

\* A claim ends by a command of its holder with its own fence, by its lease
\* having lapsed, or with the Handoff; so a renewal committed between the
\* decision and the commit of an expiry, or a later claim, is never undone.
ClaimEndsProperly(h) ==
  LET s == handoff[h] t == handoff'[h] IN
  (s.claim # NoClaim /\ t.claim = NoClaim) =>
    \/ t.life = "accepted" /\ t.recipient = s.claim.actor
    \/ t.life = "claimable" /\ now >= s.claim.expiresAt
    \/ t.life = "claimable" /\ \E p \in Handlers :
          /\ Committed(p)
          /\ HoldsClaim(s, request[p].cmd)
          /\ request[p].cmd.heartbeat > s.claim.heartbeat
    \/ t.life = "expired" /\ now >= s.pkg.acceptBy
    \/ t.life = "cancelled"

\* A new claim is made only of an unclaimed Handoff and outranks every earlier
\* one; while it lasts only its lease and its heartbeat move, and only forward.
ClaimOutranks(h) ==
  LET c == handoff[h].claim d == handoff'[h].claim IN
  (d # NoClaim /\ d # c) =>
    IF c = NoClaim
      THEN d.token > handoff[h].fencingToken
      ELSE /\ d.actor = c.actor /\ d.token = c.token
           /\ d.heartbeat > c.heartbeat /\ d.expiresAt >= c.expiresAt

\* The two together: what a claimant holds is taken from nobody else, and by nobody late.
ClaimsAreKept == [][\A h \in Handoffs : ClaimEndsProperly(h) /\ ClaimOutranks(h)]_vars

-----------------------------------------------------------------------------
(* The inductive invariant behind the safety properties. *)

\* s is what stream h was at some time, and is what it still is unless its version
\* has moved on.
Snapshot(s, h) ==
  /\ s.version <= handoff[h].version
  /\ s.version = handoff[h].version => s = handoff[h]

WellFormed(c) ==
  /\ c \in CommandType
  /\ c.kind \in Offering => c.pkg \in Packages
  /\ c.kind # "offer" => c.handoff \in Handoffs

LoadedOK(r) ==
  /\ r.stream \in Handoffs
  /\ Snapshot(r.own, r.stream) /\ Consistent(r.own) /\ r.own.parent # r.stream
  /\ CASE r.cmd.kind = "transfer" -> r.other \in Handoffs
       [] r.cmd.kind = "accept" -> r.other = r.own.parent
       [] OTHER -> r.other = NoHandoff

\* What a proposal appends it checks, and while its checks still pass, its events
\* suit their streams, those of a child's accept in their pair.
ProposalFits(r) ==
  /\ \A h \in Handoffs :
       /\ r.expect[h] <= handoff[h].version
       /\ r.append[h] # NoEvent => r.expect[h] # Unchecked
       /\ r.append[h].type \in CreationTypes => r.append[h].link # h
  /\ ~VersionConflict(r) => \A h \in Handoffs :
       LET e == r.append[h] IN
       /\ e # NoEvent => Suits(handoff[h], e)
       /\ e.type = "accepted" /\ handoff[h].parent # NoHandoff =>
            /\ r.append[handoff[h].parent].type = "transferred"
            /\ r.append[handoff[h].parent].link = h
       /\ e.type = "transferred" =>
            /\ e.link \in Handoffs
            /\ r.append[e.link].type = "accepted"
            /\ handoff[e.link].parent = h

RequestOK(p) ==
  LET r == request[p] IN
  /\ r.pc # "idle" => WellFormed(r.cmd)
  /\ r.pc \in {"loaded", "paired"} => LoadedOK(r)
  /\ r.pc = "paired" =>
       /\ r.cmd.kind \in {"transfer", "accept"}
       /\ r.other \in Handoffs /\ Snapshot(r.peer, r.other)
       /\ r.other = r.stream => r.own.version <= r.peer.version
  /\ r.pc = "decided" => ProposalFits(r)

TransfersLinked ==
  \A h \in Handoffs :
    LET child == handoff[h].child IN
    /\ handoff[h].parent # h
    /\ handoff[h].life = "transferred" =>
         child \in Handoffs /\ handoff[child].parent = h /\ handoff[child].recipient # NoActor

\* Optimistic concurrency is sound: whatever the other handlers commit between the
\* reads, the decision and the commit of a request, a proposal whose version checks
\* still pass fits the streams as they are now, and the streams stay consistent.
ProposalsFit ==
  /\ \A h \in Handoffs : Consistent(handoff[h])
  /\ TransfersLinked
  /\ \A p \in Handlers : RequestOK(p)

IInv == TypeOK /\ ProposalsFit /\ TransferAtomic
=============================================================================
