-------------------------- MODULE RefinementProofs --------------------------
(***************************************************************************)
(* The Exchange implements Responsibility, step by step, for any actors,   *)
(* Handoffs, packages, handlers and keys.                                  *)
(***************************************************************************)
EXTENDS ExchangeRefinement, ExchangeProofs

-----------------------------------------------------------------------------
(* The forest of Handoffs.  A root is found by recursion along the parents; *)
(* that there is one function that finds it, is an invariant.              *)

IsRoot(ho, f) ==
  f = [h \in Handoffs |-> IF ho[h].parent = NoHandoff THEN h ELSE f[ho[h].parent]]

RootIn(ho) == CHOOSE f : IsRoot(ho, f)

OneRoot(ho) == \A f : IsRoot(ho, f) => f = RootIn(ho)

\* Parents are there before their children; the root of a Handoff is one without parent, and
\* there is one as soon as there is the Handoff.
Forest(ho) ==
  /\ IsRoot(ho, RootIn(ho)) /\ OneRoot(ho)
  /\ \A h \in Handoffs :
       /\ ho[h].parent # NoHandoff => ho[h].parent \in Handoffs /\ ho[ho[h].parent].version > 0
       /\ RootIn(ho)[h] \in Handoffs /\ ho[RootIn(ho)[h]].parent = NoHandoff
       /\ ho[h].version > 0 => ho[RootIn(ho)[h]].version > 0

\* One Handoff of a tree bears the responsibility at most, and none does before the root has
\* been accepted.
OneBearer(ho) ==
  /\ \A g, h \in Handoffs :
       /\ {ho[g].life, ho[h].life} \subseteq UnderReview \cup {"accepted"}
       /\ RootIn(ho)[g] = RootIn(ho)[h]
       => g = h
  /\ \A h \in Handoffs : ho[h].recipient # NoActor => ho[RootIn(ho)[h]].life \notin Proposed

LEMMA RootIsThat == Root = RootIn(handoff)
BY DEF Root, RootIn, IsRoot

\* A Handoff without a parent is its own root.
LEMMA RootOfRoot ==
  ASSUME NEW ho, Forest(ho), NEW h \in Handoffs, ho[h].parent = NoHandoff
  PROVE  RootIn(ho)[h] = h
BY DEF Forest, IsRoot

\* As long as no parent changes, no root does.
LEMMA SameForest ==
  ASSUME NEW ho, NEW hn, Forest(ho),
         \A h \in Handoffs : hn[h].parent = ho[h].parent /\ (ho[h].version > 0 => hn[h].version > 0),
         \A h \in Handoffs : hn[h].version > 0 => ho[h].version > 0 \/ hn[h].parent = NoHandoff
  PROVE  Forest(hn) /\ RootIn(hn) = RootIn(ho)
<1>1. \A f : IsRoot(hn, f) <=> IsRoot(ho, f)
  BY DEF IsRoot
<1>2. IsRoot(hn, RootIn(ho))
  BY <1>1 DEF Forest
<1>3. IsRoot(hn, RootIn(hn))
  BY <1>2 DEF RootIn
<1>4. RootIn(hn) = RootIn(ho) /\ OneRoot(hn)
  BY <1>1, <1>3 DEF Forest, OneRoot
<1>5. \A h \in Handoffs : hn[h].parent = NoHandoff => RootIn(ho)[h] = h
  BY RootOfRoot
<1> QED BY <1>3, <1>4, <1>5 DEF Forest

\* A child that is created hangs below the root of its parent.
LEMMA GrownForest ==
  ASSUME NEW ho, NEW hn, Forest(ho), NEW c \in Handoffs, NEW p \in Handoffs, p # c,
         ho[c].version = 0, ho[c].parent = NoHandoff, ho[p].version > 0,
         \A h \in Handoffs : ho[h].version \in Nat /\ (ho[h].version = 0 => ho[h].parent = NoHandoff),
         hn[c].parent = p, \A h \in Handoffs \ {c} : hn[h] = ho[h]
  PROVE  Forest(hn) /\ RootIn(hn) = [RootIn(ho) EXCEPT ![c] = RootIn(ho)[p]]
<1> DEFINE R == RootIn(ho)
           S == [R EXCEPT ![c] = R[p]]
<1>1. R = [h \in Handoffs |-> IF ho[h].parent = NoHandoff THEN h ELSE R[ho[h].parent]]
  BY DEF Forest, IsRoot
<1>2. \A h \in Handoffs : ho[h].parent # c
  BY NullAssumption DEF Forest
<1>3. S = [h \in Handoffs |-> IF h = c THEN R[p] ELSE R[h]]
  BY <1>1
<1> HIDE DEF R, S
<1>4. \A h \in Handoffs : S[h] = IF hn[h].parent = NoHandoff THEN h ELSE S[hn[h].parent]
  <2> SUFFICES ASSUME NEW h \in Handoffs
               PROVE  S[h] = IF hn[h].parent = NoHandoff THEN h ELSE S[hn[h].parent]
    OBVIOUS
  <2>1. CASE h = c
    BY <1>3, <2>1, NullAssumption
  <2>2. CASE h # c
    BY <1>1, <1>2, <1>3, <2>2 DEF Forest
  <2> QED BY <2>1, <2>2
<1>5. IsRoot(hn, S)
  BY <1>3, <1>4 DEF IsRoot
<1>6. ASSUME NEW f, IsRoot(hn, f) PROVE f = S
  <2> DEFINE g == [h \in Handoffs |-> IF h = c THEN c ELSE f[h]]
  <2>1. \A h \in Handoffs : f[h] = IF hn[h].parent = NoHandoff THEN h ELSE f[hn[h].parent]
    BY <1>6 DEF IsRoot
  <2>2. f = [h \in Handoffs |-> f[h]]
    BY <1>6 DEF IsRoot
  <2>3. \A h \in Handoffs : g[h] = IF ho[h].parent = NoHandoff THEN h ELSE g[ho[h].parent]
    BY <1>2, <2>1 DEF Forest
  <2>4. g = [h \in Handoffs |-> g[h]]
    OBVIOUS
  <2>5. IsRoot(ho, g)
    BY <2>3, <2>4 DEF IsRoot
  <2>6. g = R
    BY <2>5 DEF Forest, OneRoot, R
  <2>7. \A h \in Handoffs \ {c} : f[h] = R[h]
    BY <2>6
  <2>8. f[c] = R[p]
    BY <2>1, <2>7, NullAssumption
  <2> HIDE DEF g
  <2> QED BY <1>3, <2>2, <2>7, <2>8
<1>7. IsRoot(hn, RootIn(hn))
  BY <1>5 DEF RootIn
<1>8. RootIn(hn) = S /\ OneRoot(hn)
  BY <1>6, <1>7 DEF OneRoot
<1>9. \A h \in Handoffs :
        /\ R[h] \in Handoffs /\ ho[R[h]].parent = NoHandoff
        /\ ho[h].version > 0 => ho[R[h]].version > 0
        /\ ho[h].parent = NoHandoff => R[h] = h
  BY RootOfRoot DEF Forest, R
<1>10. \A h \in Handoffs \ {c} : R[h] # c
  BY <1>9
<1>11. ASSUME NEW h \in Handoffs
       PROVE  /\ hn[h].parent # NoHandoff => hn[h].parent \in Handoffs /\ hn[hn[h].parent].version > 0
              /\ S[h] \in Handoffs /\ hn[S[h]].parent = NoHandoff
              /\ hn[h].version > 0 => hn[S[h]].version > 0
  <2>1. CASE h = c
    BY <1>3, <1>9, <1>10, <2>1
  <2>2. CASE h # c
    BY <1>2, <1>3, <1>9, <1>10, <2>2 DEF Forest
  <2> QED BY <2>1, <2>2
<1> QED BY <1>7, <1>8, <1>11 DEF Forest, S, R

-----------------------------------------------------------------------------
(* Requests. *)

\* A proposal is one event, or the accept of a child with the transfer of its parent; the
\* parent of what it creates is there; and a rework is taken up by who had accepted before.
TokenFits(r) ==
  /\ \E g \in Handoffs : \A h \in Handoffs : r.append[h] # NoEvent =>
       h = g \/ (r.append[h].type = "transferred" /\ r.append[h].link = g)
  /\ \A h \in Handoffs : r.append[h].type \in CreationTypes /\ r.append[h].link # NoHandoff =>
       handoff[r.append[h].link].version > 0
  /\ ~VersionConflict(r) => \A h \in Handoffs :
       r.append[h].type = "accepted" /\ handoff[h].life = "rework_requested" =>
         r.append[h].actor = handoff[h].recipient

ProposalsMoveOne == \A p \in Handlers : request[p].pc = "decided" => TokenFits(request[p])

\* A proposal stays one as others commit.
LEMMA TokenStable ==
  ASSUME IInv, IInv', NEW p \in Handlers, request[p].pc = "decided", TokenFits(request[p]),
         request'[p] = request[p],
         \A h \in Handoffs : handoff'[h] = handoff[h] \/ handoff'[h].version > handoff[h].version
  PROVE  TokenFits(request[p])'
<1> PICK r : r = request[p]
  OBVIOUS
<1>1. r \in Requests /\ ProposalFits(r) /\ TokenFits(r) /\ r.append \in [Handoffs -> Events]
  BY DEF IInv, TypeOK, ProposalsFit, RequestOK, Requests
<1>2. \A g \in Handoffs : handoff[g].version \in Nat /\ handoff'[g].version \in Nat
  BY DEF IInv, TypeOK, HandoffStates
<1>3. \A h \in Handoffs : r.append[h].link \in Handoffs \cup {NoHandoff}
  BY <1>1 DEF Events
<1>4. \A h \in Handoffs : r.append[h].type \in CreationTypes /\ r.append[h].link # NoHandoff =>
        handoff'[r.append[h].link].version > 0
  BY <1>1, <1>2, <1>3 DEF TokenFits
<1>5. ASSUME ~VersionConflict(r)', NEW h \in Handoffs, r.append[h].type = "accepted"
      PROVE  ~VersionConflict(r) /\ handoff'[h] = handoff[h]
  <2>1. \A g \in Handoffs : r.expect[g] # Unchecked => handoff'[g].version = r.expect[g]
    BY <1>5 DEF VersionConflict
  <2>2. \A g \in Handoffs : r.expect[g] \in Nat \cup {Unchecked}
    BY <1>1 DEF Requests
  <2>3. \A g \in Handoffs : r.expect[g] # Unchecked => handoff'[g] = handoff[g]
    BY <1>1, <1>2, <2>1, <2>2 DEF ProposalFits, Unchecked
  <2>4. r.append[h] # NoEvent
    BY <1>5, IdleType
  <2> QED BY <1>1, <1>5, <2>1, <2>3, <2>4 DEF VersionConflict, ProposalFits
<1>6. ~VersionConflict(r)' => \A h \in Handoffs :
        r.append[h].type = "accepted" /\ handoff'[h].life = "rework_requested" =>
          r.append[h].actor = handoff'[h].recipient
  BY <1>1, <1>5 DEF TokenFits
<1>7. TokenFits(r)'
  BY <1>1, <1>4, <1>6 DEF TokenFits
<1> QED BY <1>7

\* A step of handler p that changes nothing but its own request.
LEMMA RequestKeepsToken ==
  ASSUME IInv, ProposalsMoveOne, IInv', NEW p \in Handlers, NEW r, request' = [request EXCEPT ![p] = r],
         UNCHANGED handoff, r.pc = "decided" => TokenFits(r)
  PROVE  ProposalsMoveOne'
<1>1. request'[p] = r /\ \A q \in Handlers \ {p} : request'[q] = request[q]
  BY DEF IInv, TypeOK
<1>2. request[p]'.pc = "decided" => TokenFits(request[p])'
  BY <1>1 DEF TokenFits, VersionConflict
<1>3. \A h \in Handoffs : handoff'[h] = handoff[h]
  OBVIOUS
<1>4. \A q \in Handlers \ {p} : request[q]'.pc = "decided" => TokenFits(request[q])'
  BY <1>1, <1>3, TokenStable DEF ProposalsMoveOne
<1> QED BY <1>2, <1>4 DEF ProposalsMoveOne

\* A proposal as the handlers make it.
LEMMA ProposalKeepsToken ==
  ASSUME IInv, ProposalsMoveOne, IInv', NEW p \in Handlers, NEW expect, NEW append, NEW outcome,
         Propose(p, expect, append, outcome), UNCHANGED handoff,
         NEW g \in Handoffs,
         \A h \in Handoffs : append[h] # NoEvent =>
           h = g \/ (append[h].type = "transferred" /\ append[h].link = g),
         \A h \in Handoffs : append[h].type \in CreationTypes /\ append[h].link # NoHandoff =>
           handoff[append[h].link].version > 0,
         (\A h \in Handoffs : expect[h] # Unchecked => handoff[h].version = expect[h]) =>
           \A h \in Handoffs :
             append[h].type = "accepted" /\ handoff[h].life = "rework_requested" =>
               append[h].actor = handoff[h].recipient
  PROVE  ProposalsMoveOne'
<1>1. PICK r : r = [Idle EXCEPT !.pc = "decided", !.cmd = request[p].cmd, !.stream = request[p].stream,
                                !.expect = expect, !.append = append, !.outcome = outcome]
  OBVIOUS
<1>2. r.expect = expect /\ r.append = append
  BY <1>1 DEF Idle
<1>3. request' = [request EXCEPT ![p] = r]
  BY <1>1 DEF Propose
<1>4. TokenFits(r)
  BY <1>2 DEF TokenFits, VersionConflict
<1> QED BY <1>3, <1>4, RequestKeepsToken

LEMMA RejectKeepsToken ==
  ASSUME IInv, ProposalsMoveOne, IInv', NEW p \in Handlers, request[p].stream \in Handoffs,
         NEW expect, NEW outcome, Propose(p, expect, Idle.append, outcome), UNCHANGED handoff
  PROVE  ProposalsMoveOne'
<1>1. PICK append : append = Idle.append
  OBVIOUS
<1>2. \A h \in Handoffs : append[h] = NoEvent
  BY <1>1 DEF Idle
<1>3. NoEvent.type \notin CreationTypes \cup {"accepted"}
  BY IdleType DEF CreationTypes
<1>4. \A h \in Handoffs : append[h].type \notin CreationTypes \cup {"accepted"}
  BY <1>2, <1>3
<1>5. Propose(p, expect, append, outcome)
  BY <1>1
<1> QED BY <1>2, <1>4, <1>5, ProposalKeepsToken

\* The other steps propose nothing.
LEMMA ProposesNothing ==
  ASSUME IInv, NEW p \in Handlers,
         \/ Receive(p) \/ LoadUnique(p) \/ LoadReceived(p) \/ LoadOther(p) \/ Fail(p) \/ Release(p)
  PROVE  UNCHANGED handoff /\ \E r : r.pc # "decided" /\ request' = [request EXCEPT ![p] = r]
<1>1. UNCHANGED handoff
  BY DEF Receive, LoadUnique, LoadReceived, LoadOther, Fail, Release
<1>2. ASSUME NEW c, NEW outcome, Answer(p, c, outcome)
      PROVE  \E r : r.pc # "decided" /\ request' = [request EXCEPT ![p] = r]
  <2>1. PICK a : a = [Idle EXCEPT !.pc = "answered", !.cmd = c, !.outcome = outcome]
    OBVIOUS
  <2>2. a.pc = "answered"
    BY <2>1 DEF Idle
  <2> QED BY <1>2, <2>1, <2>2, IdleType DEF Answer
<1>3. ASSUME NEW c, NEW id, Load(p, c, id)
      PROVE  \E r : r.pc # "decided" /\ request' = [request EXCEPT ![p] = r]
  <2>1. CASE Answer(p, c, Refusal("version_conflict"))
    BY <1>2, <2>1
  <2>2. CASE ~Answer(p, c, Refusal("version_conflict"))
    BY <1>3, <2>2 DEF Load, Idle
  <2> QED BY <2>1, <2>2
<1>4. ASSUME NEW c PROVE [Idle EXCEPT !.pc = "received", !.cmd = c].pc = "received"
  BY DEF Idle
<1>5. CASE Receive(p)
  <2>1. PICK c : \/ \E outcome : Answer(p, c, outcome)
                 \/ request' = [request EXCEPT ![p] = [Idle EXCEPT !.pc = "received", !.cmd = c]]
    BY <1>5 DEF Receive, ReplayOrReuse
  <2>2. CASE \E outcome : Answer(p, c, outcome)
    BY <1>1, <1>2, <2>2
  <2>3. CASE request' = [request EXCEPT ![p] = [Idle EXCEPT !.pc = "received", !.cmd = c]]
    <3>1. PICK r : r = [Idle EXCEPT !.pc = "received", !.cmd = c]
      OBVIOUS
    <3>2. r.pc = "received"
      BY <1>4, <3>1
    <3> QED BY <1>1, <2>3, <3>1, <3>2
  <2> QED BY <2>1, <2>2, <2>3
<1>6. CASE LoadUnique(p) \/ LoadReceived(p)
  BY <1>3, <1>6 DEF LoadUnique, LoadReceived
<1>7. CASE LoadOther(p)
  <2>1. PICK r : r = [request[p] EXCEPT !.pc = "paired", !.peer = handoff[request[p].other]]
    OBVIOUS
  <2>2. r.pc = "paired"
    BY <2>1 DEF IInv, TypeOK, Requests
  <2> QED BY <1>7, <2>1, <2>2 DEF LoadOther
<1>8. CASE Fail(p) \/ Release(p)
  BY <1>8, IdleType DEF Fail, Release
<1> QED BY <1>1, <1>5, <1>6, <1>7, <1>8

\* What the decider accepts of a snapshot.
LEMMA DecidedToken ==
  ASSUME IInv, NEW p \in Handlers, request[p].pc \in {"loaded", "paired"},
         request[p].cmd.kind # "transfer",
         NEW eligible \in BOOLEAN, Decide(request[p].own, request[p].cmd, now, eligible),
         NEW e, e = EventOf(request[p].own, request[p].cmd, now)
  PROVE  /\ e.link = NoHandoff
         /\ e.type = "accepted" /\ request[p].own.life = "rework_requested" =>
              e.actor = request[p].own.recipient
<1> DEFINE r == request[p]
<1>1. r \in Requests /\ WellFormed(r.cmd) /\ LoadedOK(r)
  BY DEF IInv, TypeOK, ProposalsFit, RequestOK
<1>2. /\ r.cmd.kind \in Kinds \ {"transfer"} /\ r.cmd.actor \in Actors
      /\ r.cmd.token \in Nat /\ r.cmd.heartbeat \in Nat /\ r.cmd.target \in Targets
      /\ r.cmd.kind = "offer" => r.cmd.pkg \in Packages
      /\ r.cmd.pkg \in Packages \cup {NoPackage}
  BY <1>1 DEF WellFormed, CommandType, Offering
<1>3. now \in Nat /\ Consistent(r.own) /\ r.own \in HandoffStates
  BY <1>1 DEF IInv, TypeOK, LoadedOK, Requests
<1> HIDE DEF r
<1>4. e.link = NoHandoff /\ (e.type = "accepted" => r.cmd.kind = "accept")
  BY <1>2, <1>3, DecideSuits DEF r
<1>5. r.cmd.kind = "accept" => e.actor = r.cmd.actor
  BY DEF EventOf, Event, r
<1>6. r.cmd.kind = "accept" /\ r.own.life = "rework_requested" => r.own.recipient = r.cmd.actor
  BY DEF Decide, DecideAccept, IsAuthorizedRecipient, r
<1> QED BY <1>4, <1>5, <1>6 DEF r

LEMMA DecideOneToken ==
  ASSUME IInv, ProposalsMoveOne, IInv', NEW p \in Handlers, DecideOne(p) PROVE ProposalsMoveOne'
<1> DEFINE r == request[p]
           expect == [Idle.expect EXCEPT ![r.stream] = r.own.version]
<1>1. PICK e : e = EventOf(r.own, r.cmd, now)
  OBVIOUS
<1> DEFINE append == [Idle.append EXCEPT ![r.stream] = e]
           done == Accepted(r.stream, r.own.version + 1)
<1>2. r.pc = "loaded" /\ r.other = NoHandoff /\ UNCHANGED handoff
  BY DEF DecideOne
<1>3. /\ r.stream \in Handoffs /\ r.cmd.kind # "transfer" /\ Snapshot(r.own, r.stream)
      /\ r.own.version \in Nat
  BY <1>2, NullAssumption DEF IInv, TypeOK, Requests, HandoffStates, ProposalsFit, RequestOK, LoadedOK
<1>4. PICK eligible \in BOOLEAN :
        IF Decide(r.own, r.cmd, now, eligible)
          THEN Propose(p, expect, append, done)
          ELSE Reject(p, expect)
  BY <1>1 DEF DecideOne
<1>5. CASE ~Decide(r.own, r.cmd, now, eligible)
  <2>1. Reject(p, expect)
    BY <1>4, <1>5
  <2> HIDE DEF expect
  <2> QED BY <1>2, <1>3, <2>1, RejectKeepsToken DEF Reject
<1>6. CASE Decide(r.own, r.cmd, now, eligible)
  <2>1. Propose(p, expect, append, done)
    BY <1>4, <1>6
  <2>2. /\ e.link = NoHandoff
        /\ e.type = "accepted" /\ r.own.life = "rework_requested" => e.actor = r.own.recipient
    BY <1>1, <1>2, <1>3, <1>6, DecidedToken
  <2>3. /\ expect[r.stream] = r.own.version /\ r.own.version # Unchecked
        /\ \A h \in Handoffs : append[h] = IF h = r.stream THEN e ELSE NoEvent
    BY <1>3 DEF Idle, Unchecked
  <2> HIDE DEF expect, append, done
  <2>4. ASSUME \A h \in Handoffs : expect[h] # Unchecked => handoff[h].version = expect[h]
        PROVE  handoff[r.stream] = r.own
    BY <1>3, <2>3, <2>4 DEF Snapshot
  <2>5. NoEvent.type \notin CreationTypes \cup {"accepted"}
    BY IdleType DEF CreationTypes
  <2>6. /\ \A h \in Handoffs : append[h] # NoEvent =>
             h = r.stream \/ (append[h].type = "transferred" /\ append[h].link = r.stream)
        /\ \A h \in Handoffs : append[h].type \in CreationTypes /\ append[h].link # NoHandoff =>
             handoff[append[h].link].version > 0
    BY <2>2, <2>3, <2>5
  <2>7. (\A h \in Handoffs : expect[h] # Unchecked => handoff[h].version = expect[h]) =>
          \A h \in Handoffs :
            append[h].type = "accepted" /\ handoff[h].life = "rework_requested" =>
              append[h].actor = handoff[h].recipient
    BY <2>2, <2>3, <2>4, <2>5
  <2> HIDE DEF r
  <2> QED BY <1>2, <1>3, <2>1, <2>6, <2>7, ProposalKeepsToken
<1> QED BY <1>5, <1>6

LEMMA DecideChildOfferToken ==
  ASSUME IInv, ProposalsMoveOne, IInv', NEW p \in Handlers, DecideChildOffer(p) PROVE ProposalsMoveOne'
<1> DEFINE r == request[p]
           parent == [Idle.expect EXCEPT ![r.stream] = r.own.version]
           expect == [parent EXCEPT ![r.other] = 0]
           done == Accepted(r.other, 1)
<1>1. PICK e : e = OfferEvent(r.cmd, r.stream)
  OBVIOUS
<1> DEFINE append == [Idle.append EXCEPT ![r.other] = e]
<1>2. r.pc = "paired" /\ r.cmd.kind = "transfer" /\ UNCHANGED handoff
  BY DEF DecideChildOffer
<1>3. /\ r.other \in Handoffs /\ r.stream \in Handoffs /\ Snapshot(r.own, r.stream) /\ Consistent(r.own)
      /\ r.own.version \in Nat /\ handoff[r.stream].version \in Nat
  BY <1>2 DEF IInv, TypeOK, Requests, HandoffStates, ProposalsFit, RequestOK, LoadedOK
<1>4. \/ \E outcome : Propose(p, parent, Idle.append, outcome)
      \/ DecideTransfer(r.own, r.cmd) /\ Propose(p, expect, append, done)
  BY <1>1 DEF DecideChildOffer, Reject
<1>5. CASE \E outcome : Propose(p, parent, Idle.append, outcome)
  <2> HIDE DEF parent
  <2> QED BY <1>2, <1>3, <1>5, RejectKeepsToken
<1>6. CASE DecideTransfer(r.own, r.cmd) /\ Propose(p, expect, append, done)
  <2>1. e.link = r.stream /\ e.type \notin {"accepted"}
    BY <1>1 DEF OfferEvent, Event
  <2>2. \A h \in Handoffs : append[h] = IF h = r.other THEN e ELSE NoEvent
    BY <1>3 DEF Idle
  <2>3. handoff[r.stream].version > 0
    <3>1. r.own.version # 0
      BY <1>3, <1>6 DEF DecideTransfer, Consistent, Absent
    <3> QED BY <1>3, <3>1 DEF Snapshot
  <2> HIDE DEF expect, append, done
  <2>4. NoEvent.type \notin CreationTypes \cup {"accepted"}
    BY IdleType DEF CreationTypes
  <2> HIDE DEF r
  <2>5. /\ \A h \in Handoffs : append[h] # NoEvent =>
             h = r.other \/ (append[h].type = "transferred" /\ append[h].link = r.other)
        /\ \A h \in Handoffs : append[h].type \in CreationTypes /\ append[h].link # NoHandoff =>
             handoff[append[h].link].version > 0
    BY <2>1, <2>2, <2>3, <2>4
  <2>6. \A h \in Handoffs : append[h].type # "accepted"
    BY <2>1, <2>2, <2>4
  <2> QED BY <1>2, <1>3, <1>6, <2>5, <2>6, ProposalKeepsToken
<1> QED BY <1>4, <1>5, <1>6

LEMMA DecideChildAcceptToken ==
  ASSUME IInv, ProposalsMoveOne, IInv', NEW p \in Handlers, DecideChildAccept(p) PROVE ProposalsMoveOne'
<1> DEFINE r == request[p]
           expect == [Idle.expect EXCEPT ![r.stream] = r.own.version,
                                         ![r.other] = r.peer.version]
           f == [Event("transferred") EXCEPT !.link = r.stream]
           done == Accepted(r.stream, r.own.version + 1)
<1>1. PICK e : e = EventOf(r.own, r.cmd, now)
  OBVIOUS
<1> DEFINE append == [Idle.append EXCEPT ![r.stream] = e, ![r.other] = f]
<1>2. r.pc = "paired" /\ UNCHANGED handoff /\ r.cmd.kind = "accept"
  BY DEF DecideChildAccept
<1>3. /\ r.other \in Handoffs /\ r.stream \in Handoffs /\ LoadedOK(r) /\ r.own.version \in Nat
  BY <1>2 DEF IInv, TypeOK, Requests, HandoffStates, ProposalsFit, RequestOK, LoadedOK
<1>4. r.other # r.stream /\ Snapshot(r.own, r.stream)
  BY <1>2, <1>3 DEF LoadedOK
<1>5. \/ Reject(p, expect)
      \/ DecideAccept(r.own, r.cmd, now) /\ Propose(p, expect, append, done)
  BY <1>1 DEF DecideChildAccept
<1>6. CASE Reject(p, expect)
  <2> HIDE DEF expect
  <2> QED BY <1>2, <1>3, <1>6, RejectKeepsToken DEF Reject
<1>7. CASE DecideAccept(r.own, r.cmd, now) /\ Propose(p, expect, append, done)
  <2>1. Decide(r.own, r.cmd, now, TRUE)
    BY <1>2, <1>7 DEF Decide
  <2>2. /\ e.type = "accepted" /\ e.link = NoHandoff
        /\ e.type = "accepted" /\ r.own.life = "rework_requested" => e.actor = r.own.recipient
    <3>1. e.type = "accepted"
      BY <1>1, <1>2 DEF EventOf, Event
    <3> QED BY <1>1, <1>2, <2>1, <3>1, DecidedToken
  <2>3. f.type = "transferred" /\ f.link = r.stream
    BY DEF Event
  <2>4. /\ expect[r.stream] = r.own.version /\ r.own.version # Unchecked
        /\ \A h \in Handoffs : append[h] = IF h = r.other THEN f ELSE IF h = r.stream THEN e ELSE NoEvent
    BY <1>3, <1>4 DEF Idle, Unchecked
  <2> HIDE DEF expect, append, done, f
  <2>5. ASSUME \A h \in Handoffs : expect[h] # Unchecked => handoff[h].version = expect[h]
        PROVE  handoff[r.stream] = r.own
    BY <1>3, <1>4, <2>4, <2>5 DEF Snapshot
  <2>6. NoEvent.type \notin CreationTypes \cup {"accepted"} /\ "transferred" \notin CreationTypes
    BY IdleType DEF CreationTypes
  <2> HIDE DEF r
  <2>7. /\ \A h \in Handoffs : append[h] # NoEvent =>
             h = r.stream \/ (append[h].type = "transferred" /\ append[h].link = r.stream)
        /\ \A h \in Handoffs : append[h].type \in CreationTypes /\ append[h].link # NoHandoff =>
             handoff[append[h].link].version > 0
    BY <2>2, <2>3, <2>4, <2>6
  <2>8. (\A h \in Handoffs : expect[h] # Unchecked => handoff[h].version = expect[h]) =>
          \A h \in Handoffs :
            append[h].type = "accepted" /\ handoff[h].life = "rework_requested" =>
              append[h].actor = handoff[h].recipient
    BY <1>4, <2>2, <2>3, <2>4, <2>5, <2>6
  <2> QED BY <1>2, <1>3, <1>7, <2>7, <2>8, ProposalKeepsToken
<1> QED BY <1>5, <1>6, <1>7

LEMMA CommitToken ==
  ASSUME IInv, ProposalsMoveOne, IInv', NEW p \in Handlers, Commit(p) PROVE ProposalsMoveOne'
<1> DEFINE r == request[p]
<1>1. PICK q : request' = [request EXCEPT ![p] = q] /\ q.pc # "decided"
  <2>1. \E c, outcome : Answer(p, c, outcome)
    BY DEF Commit, ReplayOrReuse
  <2>2. PICK c, outcome : Answer(p, c, outcome)
    BY <2>1
  <2>3. PICK a : a = [Idle EXCEPT !.pc = "answered", !.cmd = c, !.outcome = outcome]
    OBVIOUS
  <2>4. a.pc = "answered"
    BY <2>3 DEF Idle
  <2> QED BY <2>2, <2>3, <2>4, IdleType DEF Answer
<1>2. request'[p] = q /\ \A o \in Handlers \ {p} : request'[o] = request[o]
  BY <1>1 DEF IInv, TypeOK
<1>3. \A h \in Handoffs : handoff'[h] = handoff[h] \/ handoff'[h].version > handoff[h].version
  <2>1. CASE Saved(r.cmd.key) = {} /\ ~VersionConflict(r)
    <3>1. \A h \in Handoffs :
            IF r.append[h] = NoEvent THEN handoff'[h] = handoff[h]
            ELSE handoff'[h].version = handoff[h].version + 1
      BY <2>1, CommitGrows
    <3>2. \A h \in Handoffs : handoff[h].version \in Nat
      BY DEF IInv, TypeOK, HandoffStates
    <3> HIDE DEF r
    <3> QED BY <3>1, <3>2
  <2>2. CASE ~(Saved(r.cmd.key) = {} /\ ~VersionConflict(r))
    BY <2>2 DEF Commit
  <2> QED BY <2>1, <2>2
<1>4. \A o \in Handlers \ {p} : request'[o].pc = "decided" => TokenFits(request[o])'
  BY <1>2, <1>3, TokenStable DEF ProposalsMoveOne
<1> QED BY <1>1, <1>2, <1>4 DEF ProposalsMoveOne

\* Every step keeps the proposals.
LEMMA StepKeepsProposals ==
  ASSUME IInv, ProposalsMoveOne, [Next]_vars PROVE ProposalsMoveOne'
<1>1. IInv'
  BY StepKeepsIInv
<1>2. CASE Tick \/ UNCHANGED vars
  <2>1. request' = request /\ handoff' = handoff
    BY <1>2 DEF Tick, vars
  <2>2. \A p \in Handlers : request'[p].pc = "decided" => TokenFits(request[p])'
    BY <1>1, <2>1, TokenStable DEF ProposalsMoveOne
  <2> QED BY <2>2 DEF ProposalsMoveOne
<1>3. ASSUME NEW p \in Handlers, Handle(p) PROVE ProposalsMoveOne'
  <2>1. CASE \/ Receive(p) \/ LoadUnique(p) \/ LoadReceived(p) \/ LoadOther(p) \/ Fail(p) \/ Release(p)
    <3>1. PICK r : UNCHANGED handoff /\ r.pc # "decided" /\ request' = [request EXCEPT ![p] = r]
      BY <2>1, ProposesNothing
    <3> QED BY <1>1, <3>1, RequestKeepsToken
  <2>2. CASE DecideOne(p) \/ DecideChildOffer(p) \/ DecideChildAccept(p) \/ Commit(p)
    BY <1>1, <2>2, DecideOneToken, DecideChildOfferToken, DecideChildAcceptToken, CommitToken
  <2> QED BY <1>3, <2>1, <2>2 DEF Handle
<1> QED BY <1>2, <1>3 DEF Next

-----------------------------------------------------------------------------
(* What one commit does to the streams. *)

\* A Handoff is created, offered by somebody: a root, or the child of one that is there.
Creates(ho, hn, h) ==
  /\ ho[h].version = 0 /\ hn[h].version > 0
  /\ hn[h].life \in Proposed /\ hn[h].recipient = NoActor /\ hn[h].responsible \in Actors
  /\ hn[h].parent # h
  /\ hn[h].parent # NoHandoff => hn[h].parent \in Handoffs /\ ho[hn[h].parent].version > 0
  /\ \A g \in Handoffs \ {h} : hn[g] = ho[g]

\* Where one Handoff goes of its own: nowhere as far as responsibility is concerned, out of
\* the proposed states, to its recipient, to its verifier, back to its recipient, or to an end.
Stays(s, t) ==
  /\ t.responsible = s.responsible /\ t.recipient = s.recipient
  /\ \/ s.life \in Proposed /\ t.life \in Proposed
     \/ s.life = "accepted" /\ t.life = "accepted"
     \/ s.life \in UnderReview /\ t.life \in UnderReview
Lapses(s, t) ==
  s.life \in Proposed /\ t.life \notin Proposed /\ ~Bearing(t) /\ t.recipient = s.recipient
Takes(s, t) ==
  /\ s.life \in Proposed /\ s.parent = NoHandoff
  /\ t.life = "accepted" /\ t.recipient \in Actors /\ t.responsible = t.recipient
Submits(s, t) ==
  /\ s.life = "accepted" /\ t.life \in UnderReview /\ t.recipient = s.recipient
  /\ t.responsible \in Actors
Resumes(s, t) ==
  /\ s.life \in UnderReview /\ t.life = "accepted" /\ t.recipient = s.recipient
  /\ t.responsible = s.recipient
Ends(s, t) ==
  Bearing(s) /\ ~Bearing(t) /\ t.life \notin Proposed /\ t.recipient = s.recipient

MovesOn(ho, hn, h) ==
  /\ ho[h].version > 0 /\ hn[h].version > 0 /\ hn[h].parent = ho[h].parent
  /\ \A g \in Handoffs \ {h} : hn[g] = ho[g]
  /\ \/ Stays(ho[h], hn[h]) \/ Lapses(ho[h], hn[h]) \/ Takes(ho[h], hn[h])
     \/ Submits(ho[h], hn[h]) \/ Resumes(ho[h], hn[h]) \/ Ends(ho[h], hn[h])

\* A parent is transferred to its child, which is accepted.
Passes(ho, hn, h, g) ==
  /\ h # g /\ ho[g].parent = h
  /\ ho[h].version > 0 /\ hn[h].version > 0 /\ ho[g].version > 0 /\ hn[g].version > 0
  /\ hn[h].parent = ho[h].parent /\ hn[g].parent = h
  /\ ho[h].life = "accepted" /\ ~Bearing(hn[h]) /\ hn[h].life \notin Proposed
  /\ hn[h].recipient = ho[h].recipient
  /\ ho[g].life \in Proposed /\ hn[g].life = "accepted"
  /\ hn[g].recipient \in Actors /\ hn[g].responsible = hn[g].recipient
  /\ \A f \in Handoffs \ {h, g} : hn[f] = ho[f]

\* One event, other than a first one and a transfer.
LEMMA EventMoves ==
  ASSUME NEW s \in HandoffStates, NEW e \in Events, Consistent(s), Suits(s, e), s.version # 0,
         e.type # "transferred",
         e.type = "accepted" /\ s.life = "rework_requested" => e.actor = s.recipient,
         e.type = "accepted" /\ s.life # "rework_requested" => s.parent = NoHandoff,
         NEW t, t = Evolve(s, e)
  PROVE  \/ Stays(s, t) \/ Lapses(s, t) \/ Takes(s, t) \/ Submits(s, t) \/ Resumes(s, t) \/ Ends(s, t)
<1>1. /\ t = EvolveExisting(s, e) /\ s.life \in DOMAIN AllowedFrom /\ e.type \in AllowedFrom[s.life]
      /\ t \in HandoffStates /\ Consistent(t)
  BY EvolveKeepsConsistent DEF Suits, EventAllowed, Evolve
<1>2. e.type \in EventTypes \ CreationTypes
  BY <1>1 DEF AllowedFrom, EventTypes, CreationTypes
<1>3. s.pkg.verifier \in Actors
  BY PackageAssumption DEF Consistent
<1>4. CASE e.type = "accepted"
  <2>1. PICK v : v = [s EXCEPT !.version = @ + 1, !.life = "accepted", !.recipient = e.actor,
                        !.responsible = e.actor, !.claim = NoClaim, !.target = e.target]
    OBVIOUS
  <2>2. t = v
    BY <1>1, <1>4, <2>1 DEF EvolveExisting
  <2>3. /\ t.life = "accepted" /\ t.recipient = e.actor /\ t.responsible = e.actor
        /\ e.actor \in Actors
    BY <1>4, <2>1, <2>2 DEF HandoffStates, Suits
  <2>4. s.life \in {"claimed", "offered", "rework_requested"}
    BY <1>1, <1>4 DEF AllowedFrom
  <2> QED BY <1>4, <2>3, <2>4 DEF Takes, Resumes, Proposed, UnderReview
<1>5. CASE e.type # "accepted"
  <2>1. t.recipient = s.recipient /\ t.initiator = s.initiator /\ t.pkg = s.pkg
    BY <1>1, <1>2, <1>5 DEF EvolveExisting, HandoffStates, EventTypes, CreationTypes
  <2>2. t.life = CASE e.type = "claimed" -> "claimed"
                   [] e.type \in {"claim_released", "claim_expired"} -> "claimable"
                   [] e.type = "target_resolved" -> "offered"
                   [] e.type \in {"claim_renewed", "status_reported"} -> s.life
                   [] OTHER -> e.type
    BY <1>1, <1>2, <1>5 DEF EvolveExisting, HandoffStates, EventTypes, CreationTypes
  <2>3. t.responsible = ResponsibleFor(t) /\ s.responsible = ResponsibleFor(s)
    BY <1>1 DEF Consistent
  <2>4. CASE s.life \in Proposed
    <3>1. e.type \notin {"result_returned", "verified", "rework_requested", "status_reported", "closed"}
      BY <1>1, <2>4 DEF AllowedFrom, Proposed
    <3>2. t.life \in Proposed \cup {"declined", "expired", "cancelled", "target_unavailable"}
      BY <1>2, <1>5, <2>2, <2>4, <3>1 DEF Proposed, EventTypes, CreationTypes
    <3> QED BY <2>1, <2>3, <2>4, <3>2 DEF Stays, Lapses, Bearing, ResponsibleFor, Proposed, UnderReview
  <2>5. CASE s.life = "accepted"
    <3>1. e.type \in {"cancelled", "status_reported", "result_returned"}
      BY <1>1, <2>5 DEF AllowedFrom
    <3> QED BY <1>3, <2>1, <2>2, <2>3, <2>5, <3>1
            DEF Stays, Submits, Ends, Bearing, ResponsibleFor, Proposed, UnderReview
  <2>6. CASE s.life \in UnderReview
    <3>1. e.type \in {"verified", "rework_requested", "closed"}
      BY <1>1, <1>5, <2>6 DEF AllowedFrom, UnderReview
    <3> QED BY <2>1, <2>2, <2>3, <2>6, <3>1 DEF Stays, Ends, Bearing, ResponsibleFor, Proposed, UnderReview
  <2> QED BY <1>1, <2>4, <2>5, <2>6 DEF AllowedFrom, Proposed, UnderReview
<1> QED BY <1>4, <1>5

LEMMA CommitMoves ==
  ASSUME IInv, ProposalsMoveOne, IInv', [Next]_vars, handoff' # handoff
  PROVE  \/ \E h \in Handoffs : Creates(handoff, handoff', h) \/ MovesOn(handoff, handoff', h)
         \/ \E h, g \in Handoffs : Passes(handoff, handoff', h, g)
<1>1. PICK p \in Handlers : Commit(p) /\ Saved(request[p].cmd.key) = {} /\ ~VersionConflict(request[p])
  BY OnlyCommitsWrite
<1>2. PICK r : r = request[p]
  OBVIOUS
<1>3. r \in Requests /\ ProposalFits(r) /\ TokenFits(r) /\ ~VersionConflict(r)
  BY <1>1, <1>2 DEF Commit, IInv, TypeOK, ProposalsFit, RequestOK, ProposalsMoveOne
<1>4. PICK A : A = r.append
  OBVIOUS
<1>5. \A h \in Handoffs :
        /\ A[h] \in Events
        /\ A[h] = NoEvent => handoff'[h] = handoff[h]
        /\ A[h] # NoEvent => Suits(handoff[h], A[h]) /\ handoff'[h] = Evolve(handoff[h], A[h])
  BY <1>1, <1>2, <1>3, <1>4, CommitGrows DEF Requests
<1>6. \A h \in Handoffs : /\ handoff[h] \in HandoffStates /\ Consistent(handoff[h])
                          /\ handoff'[h] \in HandoffStates /\ Consistent(handoff'[h])
                          /\ handoff[h].version \in Nat /\ handoff'[h].version \in Nat
  BY DEF IInv, TypeOK, ProposalsFit, HandoffStates
<1>7. PICK g \in Handoffs :
        \A h \in Handoffs : A[h] # NoEvent => h = g \/ (A[h].type = "transferred" /\ A[h].link = g)
  BY <1>3, <1>4 DEF TokenFits
<1>8. \A h \in Handoffs :
        /\ A[h].type \in CreationTypes => A[h].link # h
        /\ A[h].type = "accepted" /\ handoff[h].parent # NoHandoff =>
             A[handoff[h].parent].type = "transferred" /\ A[handoff[h].parent].link = h
        /\ A[h].type = "transferred" =>
             A[h].link \in Handoffs /\ A[A[h].link].type = "accepted" /\ handoff[A[h].link].parent = h
        /\ A[h].type \in CreationTypes /\ A[h].link # NoHandoff => handoff[A[h].link].version > 0
        /\ A[h].type = "accepted" /\ handoff[h].life = "rework_requested" =>
             A[h].actor = handoff[h].recipient
  BY <1>3, <1>4 DEF ProposalFits, TokenFits
<1>9. NoEvent.type = "none"
  BY IdleType
<1>10. \A h \in Handoffs : A[h].link \in Handoffs \cup {NoHandoff}
  BY <1>5 DEF Events
<1>11. CASE \E h \in Handoffs : A[h].type = "transferred"
  <2>1. PICK h \in Handoffs : A[h].type = "transferred"
    BY <1>11
  <2>2. /\ A[h].link = g /\ A[g].type = "accepted" /\ handoff[g].parent = h /\ h # g
    BY <1>7, <1>8, <1>9, <2>1
  <2>3. \A f \in Handoffs \ {h, g} : handoff'[f] = handoff[f]
    BY <1>5, <1>7, <1>8, <2>2
  <2>4. /\ A[h] # NoEvent /\ A[g] # NoEvent
    BY <1>9, <2>1, <2>2
  <2>5. PICK eh \in Events, eg \in Events : eh = A[h] /\ eg = A[g]
    BY <1>5
  <2>6. PICK s, t, u, v : s = handoff[h] /\ t = handoff'[h] /\ u = handoff[g] /\ v = handoff'[g]
    OBVIOUS
  <2>7. /\ {s, t, u, v} \subseteq HandoffStates
        /\ Consistent(s) /\ Consistent(t) /\ Consistent(u) /\ Consistent(v)
        /\ Suits(s, eh) /\ Suits(u, eg) /\ t = Evolve(s, eh) /\ v = Evolve(u, eg)
        /\ eh.type = "transferred" /\ eg.type = "accepted" /\ u.parent = h
    BY <1>5, <1>6, <2>1, <2>2, <2>4, <2>5, <2>6
  <2>8. s.version # 0 /\ u.version # 0
    BY <2>7, EvolveFacts DEF CreationTypes
  <2>9. s.life = "accepted"
    BY <2>7, <2>8 DEF Suits, EventAllowed, AllowedFrom
  <2>10. /\ t.life = "transferred" /\ t.version = s.version + 1 /\ t.parent = s.parent
         /\ t.recipient = s.recipient
    BY <2>7, <2>8, EvolveFacts
  <2>11. u.recipient = NoActor
    BY <2>2, <2>6, <2>9, NullAssumption DEF IInv, TransferAtomic
  <2>12. u.life \in Proposed
    <3>1. u.life \in {"claimed", "offered", "rework_requested"}
      BY <2>7, <2>8 DEF Suits, EventAllowed, AllowedFrom
    <3> QED BY <2>7, <2>11, <3>1, NullAssumption DEF Consistent, Proposed, UnderReview
  <2>13. /\ v.version = u.version + 1 /\ v.parent = h /\ v.recipient = eg.actor /\ eg.actor \in Actors
    BY <2>7, <2>8, EvolveFacts DEF Suits
  <2>14. v.life = "accepted"
    <3>1. v = EvolveExisting(u, eg)
      BY <2>7, <2>8 DEF Suits, Evolve
    <3>2. PICK x : x = [u EXCEPT !.version = @ + 1, !.life = "accepted", !.recipient = eg.actor,
                          !.responsible = eg.actor, !.claim = NoClaim, !.target = eg.target]
      OBVIOUS
    <3>3. v = x
      BY <2>7, <3>1, <3>2 DEF EvolveExisting
    <3> QED BY <2>7, <3>2, <3>3 DEF HandoffStates
  <2>15. v.responsible = v.recipient
    BY <2>7, <2>14 DEF Consistent, ResponsibleFor, Proposed, UnderReview
  <2>16. s.version > 0 /\ t.version > 0 /\ u.version > 0 /\ v.version > 0
    BY <1>6, <2>6, <2>8, <2>10, <2>13
  <2>17. Passes(handoff, handoff', h, g)
    BY <2>2, <2>3, <2>6, <2>9, <2>10, <2>12, <2>13, <2>14, <2>15, <2>16
       DEF Passes, Bearing, UnderReview, Proposed
  <2> QED BY <2>17
<1>12. CASE \A h \in Handoffs : A[h].type # "transferred"
  <2>1. \A f \in Handoffs \ {g} : handoff'[f] = handoff[f]
    BY <1>5, <1>7, <1>12
  <2>2. A[g] # NoEvent
    <3>1. handoff' = [h \in Handoffs |-> handoff'[h]] /\ handoff = [h \in Handoffs |-> handoff[h]]
      BY DEF IInv, TypeOK
    <3>2. handoff'[g] # handoff[g]
      BY <2>1, <3>1
    <3> QED BY <1>5, <3>2
  <2>3. PICK e \in Events : e = A[g]
    BY <1>5
  <2>4. PICK s, t : s = handoff[g] /\ t = handoff'[g]
    OBVIOUS
  <2>5. /\ {s, t} \subseteq HandoffStates /\ Consistent(s) /\ Consistent(t)
        /\ Suits(s, e) /\ t = Evolve(s, e) /\ s.version \in Nat
    BY <1>5, <1>6, <2>2, <2>3, <2>4
  <2>6. e.type # "transferred" /\ t.version > 0
    BY <1>12, <2>3, <2>5, EvolveFacts
  <2>7. CASE s.version = 0
    <3>1. /\ e.type \in CreationTypes /\ t.recipient = NoActor /\ t.life \in Proposed /\ t.parent = e.link
      BY <2>5, <2>7, EvolveFacts
    <3>2. t.responsible \in Actors
      <4>1. t.responsible = ResponsibleFor(t) /\ t.initiator \in Actors
        BY <2>5, <2>6 DEF Consistent
      <4> QED BY <3>1, <4>1 DEF ResponsibleFor, Proposed, UnderReview
    <3>3. Creates(handoff, handoff', g)
      BY <1>8, <1>10, <2>1, <2>3, <2>4, <2>6, <2>7, <3>1, <3>2 DEF Creates
    <3> QED BY <3>3
  <2>8. CASE s.version # 0
    <3>1. t.parent = s.parent /\ s.version > 0
      BY <2>5, <2>8, EvolveFacts
    <3>2. e.type = "accepted" => s.parent = NoHandoff
      <4>1. s.parent \in Handoffs \cup {NoHandoff}
        BY <2>5 DEF HandoffStates
      <4> QED BY <1>8, <1>12, <2>3, <2>4, <4>1
    <3>3. e.type = "accepted" /\ s.life = "rework_requested" => e.actor = s.recipient
      BY <1>8, <2>3, <2>4
    <3>4. \/ Stays(s, t) \/ Lapses(s, t) \/ Takes(s, t) \/ Submits(s, t) \/ Resumes(s, t) \/ Ends(s, t)
      BY <2>5, <2>6, <2>8, <3>2, <3>3, EventMoves
    <3>5. MovesOn(handoff, handoff', g)
      BY <2>1, <2>4, <2>6, <3>1, <3>4 DEF MovesOn
    <3> QED BY <3>5
  <2> QED BY <2>7, <2>8
<1> QED BY <1>11, <1>12

-----------------------------------------------------------------------------
(* The forest and its bearers, from one state to the next. *)

Sound(ho) ==
  \A h \in Handoffs :
    /\ ho[h].version \in Nat
    /\ ho[h].version = 0 =>
         ho[h].parent = NoHandoff /\ ho[h].recipient = NoActor /\ ho[h].life = "none"
    /\ ho[h].life \in Proposed => ho[h].recipient = NoActor
    /\ Bearing(ho[h]) => ho[h].recipient \in Actors
    /\ ho[h].recipient \in Actors \cup {NoActor}

LEMMA IInvSound == IInv => Sound(handoff)
BY NullAssumption DEF IInv, TypeOK, ProposalsFit, HandoffStates, Consistent, Absent, Sound, Bearing

LEMMA IInvSoundNext == IInv' => Sound(handoff')
BY NullAssumption DEF IInv, TypeOK, ProposalsFit, HandoffStates, Consistent, Absent, Sound, Bearing

LEMMA CreationGrows ==
  ASSUME NEW ho, NEW hn, Sound(ho), Sound(hn), Forest(ho), OneBearer(ho), NEW h \in Handoffs, Creates(ho, hn, h)
  PROVE  /\ Forest(hn) /\ OneBearer(hn)
         /\ \A g \in Handoffs \ {h} : RootIn(hn)[g] = RootIn(ho)[g]
<1>1. Forest(hn) /\ \A g \in Handoffs \ {h} : RootIn(hn)[g] = RootIn(ho)[g]
  <2>1. CASE hn[h].parent = NoHandoff
    <3>1. \A g \in Handoffs : hn[g].parent = ho[g].parent /\ (ho[g].version > 0 => hn[g].version > 0)
      BY <2>1 DEF Creates, Sound
    <3>2. \A g \in Handoffs : hn[g].version > 0 => ho[g].version > 0 \/ hn[g].parent = NoHandoff
      BY <2>1 DEF Creates
    <3> QED BY <3>1, <3>2, SameForest
  <2>2. CASE hn[h].parent # NoHandoff
    <3>1. PICK p \in Handoffs : p = hn[h].parent
      BY <2>2 DEF Creates
    <3>2. /\ p # h /\ ho[h].version = 0 /\ ho[h].parent = NoHandoff /\ ho[p].version > 0
          /\ hn[h].parent = p /\ \A g \in Handoffs \ {h} : hn[g] = ho[g]
      BY <2>2, <3>1 DEF Creates, Sound
    <3>3. \A g \in Handoffs : ho[g].version \in Nat /\ (ho[g].version = 0 => ho[g].parent = NoHandoff)
      BY DEF Sound
    <3>4. Forest(hn) /\ RootIn(hn) = [RootIn(ho) EXCEPT ![h] = RootIn(ho)[p]]
      BY <3>2, <3>3, GrownForest
    <3> QED BY <3>4
  <2> QED BY <2>1, <2>2
<1>2. \A g \in Handoffs : ho[g].version > 0 =>
        /\ g # h /\ hn[g] = ho[g] /\ RootIn(ho)[g] \in Handoffs /\ RootIn(ho)[g] # h
        /\ hn[RootIn(ho)[g]] = ho[RootIn(ho)[g]]
  BY DEF Creates, Forest
<1>3. \A g \in Handoffs : Bearing(hn[g]) \/ hn[g].recipient # NoActor => ho[g].version > 0
  BY NullAssumption DEF Creates, Sound, Bearing, Proposed, UnderReview
<1>4. OneBearer(hn)
  BY <1>1, <1>2, <1>3 DEF OneBearer, Bearing
<1> QED BY <1>1, <1>4

\* Where all that changes is what happens to Handoffs that are there.
LEMMA MoveKeepsForest ==
  ASSUME NEW ho, NEW hn, Forest(ho),
         \A g \in Handoffs : hn[g] = ho[g] \/ (ho[g].version > 0 /\ hn[g].version > 0 /\ hn[g].parent = ho[g].parent)
  PROVE  Forest(hn) /\ RootIn(hn) = RootIn(ho)
<1>1. \A g \in Handoffs : hn[g].parent = ho[g].parent /\ (ho[g].version > 0 => hn[g].version > 0)
  OBVIOUS
<1>2. \A g \in Handoffs : hn[g].version > 0 => ho[g].version > 0 \/ hn[g].parent = NoHandoff
  OBVIOUS
<1> QED BY <1>1, <1>2, SameForest

LEMMA MoveKeepsOneBearer ==
  ASSUME NEW ho, NEW hn, Sound(ho), Sound(hn), Forest(ho), OneBearer(ho), NEW h \in Handoffs, MovesOn(ho, hn, h)
  PROVE  Forest(hn) /\ RootIn(hn) = RootIn(ho) /\ OneBearer(hn)
<1>1. Forest(hn) /\ RootIn(hn) = RootIn(ho)
  <2>1. \A g \in Handoffs : hn[g] = ho[g] \/ (ho[g].version > 0 /\ hn[g].version > 0 /\ hn[g].parent = ho[g].parent)
    BY DEF MovesOn
  <2> QED BY <2>1, MoveKeepsForest
<1>2. PICK R : R = RootIn(ho) /\ R = RootIn(hn)
  BY <1>1
<1>3. \A g, f \in Handoffs : Bearing(ho[g]) /\ Bearing(ho[f]) /\ R[g] = R[f] => g = f
  BY <1>2 DEF OneBearer, Bearing
<1>4. \A g \in Handoffs : ho[g].recipient # NoActor => ho[R[g]].life \notin Proposed
  BY <1>2 DEF OneBearer
<1>5. \A g \in Handoffs : Bearing(ho[g]) => ho[g].recipient # NoActor
  BY NullAssumption DEF Sound
<1>6. \A g \in Handoffs : R[g] \in Handoffs /\ (ho[g].parent = NoHandoff => R[g] = g)
  <2>1. \A g \in Handoffs : R[g] \in Handoffs
    BY <1>2 DEF Forest
  <2> QED BY <1>2, <2>1, RootOfRoot
<1>7. \A g \in Handoffs \ {h} : hn[g] = ho[g]
  BY DEF MovesOn
<1>8. CASE Takes(ho[h], hn[h])
  <2>1. R[h] = h /\ hn[h].life \notin Proposed /\ Bearing(hn[h]) /\ ho[h].life \in Proposed
    BY <1>6, <1>8 DEF Takes, Bearing, Proposed
  <2>2. \A g \in Handoffs : Bearing(ho[g]) => R[g] # h
    BY <1>4, <1>5, <2>1
  <2>3. \A g, f \in Handoffs : Bearing(hn[g]) /\ Bearing(hn[f]) /\ R[g] = R[f] => g = f
    BY <1>3, <1>7, <2>1, <2>2
  <2>4. \A g \in Handoffs : hn[g].recipient # NoActor => hn[R[g]].life \notin Proposed
    BY <1>4, <1>6, <1>7, <2>1
  <2> QED BY <1>1, <1>2, <2>3, <2>4 DEF OneBearer, Bearing
<1>9. CASE ~Takes(ho[h], hn[h])
  <2>1. /\ Bearing(hn[h]) => Bearing(ho[h])
        /\ hn[h].recipient = ho[h].recipient
        /\ hn[h].life \in Proposed => ho[h].life \in Proposed
    BY <1>9 DEF MovesOn, Stays, Lapses, Submits, Resumes, Ends, Bearing, Proposed, UnderReview
  <2>2. \A g, f \in Handoffs : Bearing(hn[g]) /\ Bearing(hn[f]) /\ R[g] = R[f] => g = f
    BY <1>3, <1>7, <2>1
  <2>3. \A g \in Handoffs : hn[g].recipient # NoActor => hn[R[g]].life \notin Proposed
    BY <1>4, <1>6, <1>7, <2>1
  <2> QED BY <1>1, <1>2, <2>2, <2>3 DEF OneBearer, Bearing
<1> QED BY <1>8, <1>9

LEMMA PassKeepsOneBearer ==
  ASSUME NEW ho, NEW hn, Sound(ho), Sound(hn), Forest(ho), OneBearer(ho),
         NEW h \in Handoffs, NEW k \in Handoffs, Passes(ho, hn, h, k)
  PROVE  Forest(hn) /\ RootIn(hn) = RootIn(ho) /\ OneBearer(hn) /\ RootIn(ho)[k] = RootIn(ho)[h]
<1>1. Forest(hn) /\ RootIn(hn) = RootIn(ho)
  <2>1. \A g \in Handoffs : hn[g] = ho[g] \/ (ho[g].version > 0 /\ hn[g].version > 0 /\ hn[g].parent = ho[g].parent)
    BY DEF Passes
  <2> QED BY <2>1, MoveKeepsForest
<1>2. PICK R : R = RootIn(ho) /\ R = RootIn(hn)
  BY <1>1
<1>3. \A g, f \in Handoffs : Bearing(ho[g]) /\ Bearing(ho[f]) /\ R[g] = R[f] => g = f
  BY <1>2 DEF OneBearer, Bearing
<1>4. \A g \in Handoffs : ho[g].recipient # NoActor => ho[R[g]].life \notin Proposed
  BY <1>2 DEF OneBearer
<1>5. Bearing(ho[h]) /\ ho[h].recipient # NoActor
  BY NullAssumption DEF Sound, Passes, Bearing
<1>6. \A g \in Handoffs : R[g] \in Handoffs
  BY <1>2 DEF Forest
<1>7. R[k] = R[h]
  BY <1>2, NullAssumption DEF Forest, IsRoot, Passes
<1>8. /\ \A g \in Handoffs \ {h, k} : hn[g] = ho[g]
      /\ ~Bearing(hn[h]) /\ hn[h].recipient = ho[h].recipient /\ h # k
      /\ hn[h].life \notin Proposed /\ hn[k].life \notin Proposed
  BY DEF Passes, Proposed
<1>9. \A g \in Handoffs \ {h, k} : Bearing(ho[g]) => R[g] # R[h]
  BY <1>3, <1>5
<1>10. \A g, f \in Handoffs : Bearing(hn[g]) /\ Bearing(hn[f]) /\ R[g] = R[f] => g = f
  BY <1>3, <1>7, <1>8, <1>9
<1>11. \A g \in Handoffs : hn[g].recipient # NoActor => hn[R[g]].life \notin Proposed
  BY <1>4, <1>5, <1>6, <1>7, <1>8
<1> QED BY <1>1, <1>2, <1>7, <1>10, <1>11 DEF OneBearer, Bearing

\* The invariant of the refinement.
TokenIInv == IInv /\ ProposalsMoveOne /\ Forest(handoff) /\ OneBearer(handoff)

LEMMA StepKeepsToken == ASSUME TokenIInv, [Next]_vars PROVE TokenIInv'
<1>1. IInv' /\ ProposalsMoveOne' /\ Sound(handoff) /\ Sound(handoff')
  BY StepKeepsIInv, StepKeepsProposals, IInvSound, IInvSoundNext DEF TokenIInv
<1>2. Forest(handoff') /\ OneBearer(handoff')
  <2>1. CASE handoff' = handoff
    BY <2>1 DEF TokenIInv
  <2>2. CASE handoff' # handoff
    <3>1. CASE \E h \in Handoffs : Creates(handoff, handoff', h)
      BY <1>1, <3>1, CreationGrows DEF TokenIInv
    <3>2. CASE \E h \in Handoffs : MovesOn(handoff, handoff', h)
      BY <1>1, <3>2, MoveKeepsOneBearer DEF TokenIInv
    <3>3. CASE \E h, g \in Handoffs : Passes(handoff, handoff', h, g)
      BY <1>1, <3>3, PassKeepsOneBearer DEF TokenIInv
    <3> QED BY <1>1, <2>2, <3>1, <3>2, <3>3, CommitMoves DEF TokenIInv
  <2> QED BY <2>1, <2>2
<1>3. Forest(handoff)' /\ OneBearer(handoff)'
  BY <1>2 DEF Forest, OneBearer, RootIn, OneRoot, IsRoot
<1> QED BY <1>1, <1>3 DEF TokenIInv

LEMMA TokenStart == Init => TokenIInv
<1> SUFFICES ASSUME Init PROVE TokenIInv
  OBVIOUS
<1>1. IInv /\ ProposalsMoveOne
  BY InitOK, IdleType DEF Init, ProposalsMoveOne
<1>2. \A h \in Handoffs : handoff[h].parent = NoHandoff /\ handoff[h].recipient = NoActor
                          /\ handoff[h].life = "none" /\ handoff[h].version = 0
  BY DEF Init, Absent
<1>3. \A f : IsRoot(handoff, f) <=> f = [h \in Handoffs |-> h]
  BY <1>2 DEF IsRoot
<1>4. IsRoot(handoff, RootIn(handoff)) /\ RootIn(handoff) = [h \in Handoffs |-> h]
  BY <1>3 DEF RootIn
<1>5. Forest(handoff) /\ OneBearer(handoff)
  BY <1>2, <1>3, <1>4 DEF Forest, OneRoot, OneBearer, UnderReview
<1> QED BY <1>1, <1>5 DEF TokenIInv

THEOREM TokenInvariance == Spec => []TokenIInv
BY TokenStart, StepKeepsToken, PTL DEF Spec

-----------------------------------------------------------------------------
(* The refinement mapping, by what it says rather than how it is found. *)

\* phase, bearer, executor and holder are what the streams ho make of each piece of work.
Reads(ho, ph, be, ex, hl) ==
  \A w \in Handoffs :
    /\ (ho[w].version = 0 \/ ho[w].parent # NoHandoff) =>
         ph[w] = "new" /\ be[w] = NoHandoff /\ hl[w] = NoActor
    /\ ho[w].version > 0 /\ ho[w].parent = NoHandoff /\ ho[w].life \in Proposed =>
         ph[w] = "open" /\ be[w] = NoHandoff /\ hl[w] = ho[w].responsible
    /\ \A h \in Handoffs : Bearing(ho[h]) /\ RootIn(ho)[h] = w =>
         /\ ph[w] = IF ho[h].life = "accepted" THEN "borne" ELSE "review"
         /\ be[w] = h /\ ex[w] = ho[h].recipient /\ hl[w] = ho[h].responsible
    /\ (/\ ho[w].version > 0 /\ ho[w].parent = NoHandoff /\ ho[w].life \notin Proposed
        /\ \A h \in Handoffs : ~(Bearing(ho[h]) /\ RootIn(ho)[h] = w)) =>
         ph[w] = "over" /\ be[w] = NoHandoff /\ hl[w] = NoActor
    /\ be[w] = NoHandoff => ex[w] = NoActor

MapReads ==
  IInv /\ Forest(handoff) /\ OneBearer(handoff) =>
    Reads(handoff, [w \in Handoffs |-> Phase(w)], [w \in Handoffs |-> Bearer(w)],
          [w \in Handoffs |-> IF Bearer(w) = NoHandoff THEN NoActor ELSE handoff[Bearer(w)].recipient],
          [w \in Handoffs |-> Holder(w)])

LEMMA MapReadsNow == MapReads
<1> SUFFICES ASSUME IInv, Forest(handoff), OneBearer(handoff)
             PROVE  Reads(handoff, [w \in Handoffs |-> Phase(w)], [w \in Handoffs |-> Bearer(w)],
                      [w \in Handoffs |-> IF Bearer(w) = NoHandoff THEN NoActor
                                          ELSE handoff[Bearer(w)].recipient],
                      [w \in Handoffs |-> Holder(w)])
  BY DEF MapReads
<1>1. Sound(handoff) /\ Root = RootIn(handoff)
  BY IInvSound, RootIsThat
<1>2. \A h, w \in Handoffs : Bears(h, w) <=> Bearing(handoff[h]) /\ RootIn(handoff)[h] = w
  BY <1>1 DEF Bears, Bearing
<1>3. \A h, w \in Handoffs : Bears(h, w) => IsWork(w) /\ handoff[w].life \notin Proposed
  <2> SUFFICES ASSUME NEW h \in Handoffs, NEW w \in Handoffs, Bears(h, w)
               PROVE  IsWork(w) /\ handoff[w].life \notin Proposed
    OBVIOUS
  <2>1. Bearing(handoff[h]) /\ RootIn(handoff)[h] = w
    BY <1>2
  <2>2. handoff[h].recipient # NoActor /\ handoff[h].version > 0
    BY <1>1, <2>1, NullAssumption DEF Sound, Bearing, UnderReview
  <2> QED BY <2>1, <2>2 DEF Forest, OneBearer, IsWork
<1>4. \A h, w \in Handoffs : Bears(h, w) => Bearer(w) = h
  BY <1>2 DEF Bearer, OneBearer, Bearing
<1>5. \A w \in Handoffs : (\A h \in Handoffs : ~Bears(h, w)) => Bearer(w) = NoHandoff
  BY DEF Bearer
<1>6. \A w \in Handoffs : ~IsWork(w) => Phase(w) = "new" /\ Bearer(w) = NoHandoff /\ Holder(w) = NoActor
  <2> SUFFICES ASSUME NEW w \in Handoffs, ~IsWork(w)
               PROVE  Phase(w) = "new" /\ Bearer(w) = NoHandoff /\ Holder(w) = NoActor
    OBVIOUS
  <2>1. Bearer(w) = NoHandoff
    BY <1>3, <1>5
  <2>2. Phase(w) = "new"
    BY <2>1 DEF Phase
  <2> QED BY <2>1, <2>2 DEF Holder
<1>7. \A w \in Handoffs : IsWork(w) /\ handoff[w].life \in Proposed =>
        Phase(w) = "open" /\ Bearer(w) = NoHandoff /\ Holder(w) = handoff[w].responsible
  <2> SUFFICES ASSUME NEW w \in Handoffs, IsWork(w), handoff[w].life \in Proposed
               PROVE  Phase(w) = "open" /\ Bearer(w) = NoHandoff /\ Holder(w) = handoff[w].responsible
    OBVIOUS
  <2>1. Bearer(w) = NoHandoff
    BY <1>3, <1>5
  <2>2. Phase(w) = "open"
    BY <2>1 DEF Phase
  <2> QED BY <2>1, <2>2 DEF Holder
<1>8. \A h, w \in Handoffs : Bears(h, w) =>
        /\ Phase(w) = IF handoff[h].life = "accepted" THEN "borne" ELSE "review"
        /\ Bearer(w) = h /\ Holder(w) = handoff[h].responsible
  <2> SUFFICES ASSUME NEW h \in Handoffs, NEW w \in Handoffs, Bears(h, w)
               PROVE  /\ Phase(w) = IF handoff[h].life = "accepted" THEN "borne" ELSE "review"
                      /\ Bearer(w) = h /\ Holder(w) = handoff[h].responsible
    OBVIOUS
  <2>1. Bearer(w) = h /\ h # NoHandoff /\ IsWork(w) /\ handoff[w].life \notin Proposed
    BY <1>3, <1>4, NullAssumption
  <2>2. Phase(w) = IF handoff[h].life = "accepted" THEN "borne" ELSE "review"
    BY <2>1 DEF Phase
  <2> QED BY <2>1, <2>2 DEF Holder
<1>9. \A w \in Handoffs : IsWork(w) /\ handoff[w].life \notin Proposed /\ (\A h \in Handoffs : ~Bears(h, w)) =>
        Phase(w) = "over" /\ Bearer(w) = NoHandoff /\ Holder(w) = NoActor
  <2> SUFFICES ASSUME NEW w \in Handoffs, IsWork(w), handoff[w].life \notin Proposed,
                      \A h \in Handoffs : ~Bears(h, w)
               PROVE  Phase(w) = "over" /\ Bearer(w) = NoHandoff /\ Holder(w) = NoActor
    OBVIOUS
  <2>1. Bearer(w) = NoHandoff
    BY <1>5
  <2>2. Phase(w) = "over"
    BY <2>1 DEF Phase
  <2> QED BY <2>1, <2>2 DEF Holder
<1>10. \A w \in Handoffs : IsWork(w) <=> ~(handoff[w].version = 0 \/ handoff[w].parent # NoHandoff)
  BY <1>1 DEF IsWork, Sound
<1> DEFINE ph == [w \in Handoffs |-> Phase(w)]
           be == [w \in Handoffs |-> Bearer(w)]
           ex == [w \in Handoffs |-> IF Bearer(w) = NoHandoff THEN NoActor ELSE handoff[Bearer(w)].recipient]
           hl == [w \in Handoffs |-> Holder(w)]
<1>11. \A w \in Handoffs :
         /\ ph[w] = Phase(w) /\ be[w] = Bearer(w) /\ hl[w] = Holder(w)
         /\ ex[w] = IF be[w] = NoHandoff THEN NoActor ELSE handoff[be[w]].recipient
  OBVIOUS
<1> HIDE DEF ph, be, ex, hl
<1>12. ASSUME NEW w \in Handoffs
       PROVE  /\ (handoff[w].version = 0 \/ handoff[w].parent # NoHandoff) =>
                   ph[w] = "new" /\ be[w] = NoHandoff /\ hl[w] = NoActor
              /\ handoff[w].version > 0 /\ handoff[w].parent = NoHandoff /\ handoff[w].life \in Proposed =>
                   ph[w] = "open" /\ be[w] = NoHandoff /\ hl[w] = handoff[w].responsible
              /\ (/\ handoff[w].version > 0 /\ handoff[w].parent = NoHandoff /\ handoff[w].life \notin Proposed
                  /\ \A h \in Handoffs : ~(Bearing(handoff[h]) /\ RootIn(handoff)[h] = w)) =>
                   ph[w] = "over" /\ be[w] = NoHandoff /\ hl[w] = NoActor
  BY <1>2, <1>6, <1>7, <1>9, <1>10, <1>11 DEF IsWork
<1>13. ASSUME NEW w \in Handoffs, NEW h \in Handoffs, Bearing(handoff[h]), RootIn(handoff)[h] = w
       PROVE  /\ ph[w] = IF handoff[h].life = "accepted" THEN "borne" ELSE "review"
              /\ be[w] = h /\ ex[w] = handoff[h].recipient /\ hl[w] = handoff[h].responsible
  BY <1>2, <1>8, <1>11, <1>13, NullAssumption
<1>14. Reads(handoff, ph, be, ex, hl)
  BY <1>11, <1>12, <1>13 DEF Reads
<1> QED BY <1>14 DEF ph, be, ex, hl

LEMMA MapReadsNext == MapReads'
BY MapReadsNow, PTL

-----------------------------------------------------------------------------
(* Every commit moves one token by one step of Responsibility, or none. *)

\* One piece of work moves on, as Responsibility says; hd and hd2 are the Handoffs served.
MovesAt(w, ph, be, ex, hl, sv, ph2, be2, ex2, hl2, sv2) ==
  \/ /\ ph[w] = "new" /\ ph2[w] = "open" /\ hl2[w] \in Actors
     /\ be2[w] = be[w] /\ ex2[w] = ex[w] /\ sv2 = sv
  \/ /\ ph[w] = "open" /\ ph2[w] = "over" /\ hl2[w] = NoActor
     /\ be2[w] = be[w] /\ ex2[w] = ex[w] /\ sv2 = sv
  \/ /\ ph[w] = "open" /\ ph2[w] = "borne" /\ be2[w] = w /\ ex2[w] \in Actors /\ hl2[w] = ex2[w]
     /\ w \notin sv /\ sv2 = sv \cup {w}
  \/ /\ ph[w] = "borne" /\ ph2[w] = "borne" /\ be2[w] \in Handoffs /\ ex2[w] \in Actors /\ hl2[w] = ex2[w]
     /\ be2[w] \notin sv /\ sv2 = sv \cup {be2[w]}
  \/ /\ ph[w] = "borne" /\ ph2[w] = "review" /\ hl2[w] \in Actors
     /\ be2[w] = be[w] /\ ex2[w] = ex[w] /\ sv2 = sv
  \/ /\ ph[w] = "review" /\ ph2[w] = "borne" /\ hl2[w] = ex[w]
     /\ be2[w] = be[w] /\ ex2[w] = ex[w] /\ sv2 = sv
  \/ /\ ph[w] \in {"borne", "review"} /\ ph2[w] = "over" /\ hl2[w] = NoActor
     /\ be2[w] = NoHandoff /\ ex2[w] = NoActor /\ sv2 = sv

SameAt(v, ph, be, ex, hl, ph2, be2, ex2, hl2) ==
  ph2[v] = ph[v] /\ be2[v] = be[v] /\ ex2[v] = ex[v] /\ hl2[v] = hl[v]

Served(ho) == {h \in Handoffs : ho[h].recipient # NoActor}

\* A piece of work is where it was as long as its root and its bearer are left alone.
LEMMA Untouched ==
  ASSUME NEW ho, NEW hn, Sound(ho), Sound(hn),
         NEW ph, NEW be, NEW ex, NEW hl, Reads(ho, ph, be, ex, hl),
         NEW ph2, NEW be2, NEW ex2, NEW hl2, Reads(hn, ph2, be2, ex2, hl2),
         NEW v \in Handoffs,
         \/ hn[v] = ho[v]
         \/ /\ ho[v].version = 0 \/ ho[v].parent # NoHandoff
            /\ hn[v].version = 0 \/ hn[v].parent # NoHandoff,
         \A h \in Handoffs :
           /\ (Bearing(hn[h]) /\ RootIn(hn)[h] = v) <=> (Bearing(ho[h]) /\ RootIn(ho)[h] = v)
           /\ Bearing(ho[h]) /\ RootIn(ho)[h] = v => hn[h] = ho[h]
  PROVE  SameAt(v, ph, be, ex, hl, ph2, be2, ex2, hl2)
<1>1. CASE ho[v].version = 0 \/ ho[v].parent # NoHandoff
  <2>1. hn[v].version = 0 \/ hn[v].parent # NoHandoff
    BY <1>1
  <2>2. /\ ph[v] = "new" /\ be[v] = NoHandoff /\ hl[v] = NoActor /\ ex[v] = NoActor
        /\ ph2[v] = "new" /\ be2[v] = NoHandoff /\ hl2[v] = NoActor /\ ex2[v] = NoActor
    BY <1>1, <2>1 DEF Reads
  <2> QED BY <2>2 DEF SameAt
<1>2. CASE ~(ho[v].version = 0 \/ ho[v].parent # NoHandoff)
  <2>1. hn[v] = ho[v] /\ ho[v].version > 0 /\ ho[v].parent = NoHandoff
    BY <1>2 DEF Sound
  <2>2. CASE ho[v].life \in Proposed
    <3>1. /\ ph[v] = "open" /\ be[v] = NoHandoff /\ hl[v] = ho[v].responsible /\ ex[v] = NoActor
          /\ ph2[v] = "open" /\ be2[v] = NoHandoff /\ hl2[v] = ho[v].responsible /\ ex2[v] = NoActor
      BY <2>1, <2>2 DEF Reads
    <3> QED BY <3>1 DEF SameAt
  <2>3. CASE \E h \in Handoffs : Bearing(ho[h]) /\ RootIn(ho)[h] = v
    <3>1. PICK h \in Handoffs : Bearing(ho[h]) /\ RootIn(ho)[h] = v
      BY <2>3
    <3>2. Bearing(hn[h]) /\ RootIn(hn)[h] = v /\ hn[h] = ho[h]
      BY <3>1
    <3> QED BY <3>1, <3>2 DEF Reads, SameAt
  <2>4. CASE ho[v].life \notin Proposed /\ \A h \in Handoffs : ~(Bearing(ho[h]) /\ RootIn(ho)[h] = v)
    <3>1. \A h \in Handoffs : ~(Bearing(hn[h]) /\ RootIn(hn)[h] = v)
      BY <2>4
    <3>2. /\ ph[v] = "over" /\ be[v] = NoHandoff /\ hl[v] = NoActor /\ ex[v] = NoActor
          /\ ph2[v] = "over" /\ be2[v] = NoHandoff /\ hl2[v] = NoActor /\ ex2[v] = NoActor
      BY <2>1, <2>4, <3>1 DEF Reads
    <3> QED BY <3>2 DEF SameAt
  <2> QED BY <2>2, <2>3, <2>4
<1> QED BY <1>1, <1>2

\* The creation of a Handoff opens a piece of work, or is none of Responsibility's business.
LEMMA CreationReads ==
  ASSUME NEW ho, NEW hn, Sound(ho), Sound(hn), Forest(ho), OneBearer(ho), NEW h \in Handoffs, Creates(ho, hn, h),
         NEW ph, NEW be, NEW ex, NEW hl, Reads(ho, ph, be, ex, hl),
         NEW ph2, NEW be2, NEW ex2, NEW hl2, Reads(hn, ph2, be2, ex2, hl2)
  PROVE  /\ \A v \in Handoffs \ {h} : SameAt(v, ph, be, ex, hl, ph2, be2, ex2, hl2)
         /\ \/ SameAt(h, ph, be, ex, hl, ph2, be2, ex2, hl2) /\ Served(hn) = Served(ho)
            \/ MovesAt(h, ph, be, ex, hl, Served(ho), ph2, be2, ex2, hl2, Served(hn))
<1>1. /\ Forest(hn) /\ \A g \in Handoffs \ {h} : RootIn(hn)[g] = RootIn(ho)[g] /\ hn[g] = ho[g]
  BY CreationGrows DEF Creates
<1>2. ~Bearing(hn[h]) /\ ~Bearing(ho[h]) /\ ho[h].version = 0 /\ hn[h].version > 0
  BY DEF Creates, Sound, Bearing, Proposed, UnderReview
<1>3. \A v, g \in Handoffs :
        /\ (Bearing(hn[g]) /\ RootIn(hn)[g] = v) <=> (Bearing(ho[g]) /\ RootIn(ho)[g] = v)
        /\ Bearing(ho[g]) /\ RootIn(ho)[g] = v => hn[g] = ho[g]
  BY <1>1, <1>2
<1>4. \A v \in Handoffs \ {h} : SameAt(v, ph, be, ex, hl, ph2, be2, ex2, hl2)
  BY <1>1, <1>3, Untouched
<1>5. Served(hn) = Served(ho)
  BY <1>1 DEF Served, Creates, Sound
<1>6. CASE hn[h].parent # NoHandoff
  BY <1>2, <1>3, <1>4, <1>5, <1>6, Untouched
<1>7. CASE hn[h].parent = NoHandoff
  <2>1. ph[h] = "new" /\ be[h] = NoHandoff /\ ex[h] = NoActor
    BY <1>2 DEF Reads
  <2>2. ph2[h] = "open" /\ be2[h] = NoHandoff /\ ex2[h] = NoActor /\ hl2[h] = hn[h].responsible
    BY <1>2, <1>7 DEF Reads, Creates
  <2> QED BY <1>4, <1>5, <2>1, <2>2 DEF MovesAt, Creates
<1> QED BY <1>6, <1>7

\* Nor does what a Handoff does concern any piece of work but its own.
LEMMA MoveReads ==
  ASSUME NEW ho, NEW hn, Sound(ho), Sound(hn), Forest(ho), OneBearer(ho), NEW h \in Handoffs, MovesOn(ho, hn, h),
         NEW ph, NEW be, NEW ex, NEW hl, Reads(ho, ph, be, ex, hl),
         NEW ph2, NEW be2, NEW ex2, NEW hl2, Reads(hn, ph2, be2, ex2, hl2),
         NEW w \in Handoffs, w = RootIn(ho)[h]
  PROVE  /\ \A v \in Handoffs \ {w} : SameAt(v, ph, be, ex, hl, ph2, be2, ex2, hl2)
         /\ \/ SameAt(w, ph, be, ex, hl, ph2, be2, ex2, hl2) /\ Served(hn) = Served(ho)
            \/ MovesAt(w, ph, be, ex, hl, Served(ho), ph2, be2, ex2, hl2, Served(hn))
<1>1. PICK R : R = RootIn(ho) /\ R = RootIn(hn)
  BY MoveKeepsOneBearer
<1>2. /\ \A g \in Handoffs \ {h} : hn[g] = ho[g]
      /\ ho[h].version > 0 /\ hn[h].version > 0 /\ hn[h].parent = ho[h].parent
      /\ w = R[h]
  BY <1>1 DEF MovesOn
<1>3. \A g \in Handoffs : ho[g].parent = NoHandoff => R[g] = g
  BY <1>1, RootOfRoot
<1>4. ASSUME NEW v \in Handoffs, v # w PROVE SameAt(v, ph, be, ex, hl, ph2, be2, ex2, hl2)
  <2>1. hn[v] = ho[v] \/ (ho[v].parent # NoHandoff /\ hn[v].parent # NoHandoff)
    BY <1>2, <1>3, <1>4
  <2>2. \A g \in Handoffs :
          /\ (Bearing(hn[g]) /\ RootIn(hn)[g] = v) <=> (Bearing(ho[g]) /\ RootIn(ho)[g] = v)
          /\ Bearing(ho[g]) /\ RootIn(ho)[g] = v => hn[g] = ho[g]
    BY <1>1, <1>2, <1>4
  <2> QED BY <2>1, <2>2, Untouched
<1>5. \A g, f \in Handoffs : Bearing(ho[g]) /\ Bearing(ho[f]) /\ R[g] = R[f] => g = f
  BY <1>1 DEF OneBearer, Bearing
<1>6. \A g \in Handoffs : ho[g].recipient # NoActor => ho[R[g]].life \notin Proposed
  BY <1>1 DEF OneBearer
<1>7. /\ ho[w].version > 0 /\ ho[w].parent = NoHandoff /\ hn[w].version > 0 /\ hn[w].parent = NoHandoff
      /\ R[w] = w
  <2>1. ho[w].version > 0 /\ ho[w].parent = NoHandoff
    BY <1>1, <1>2 DEF Forest
  <2> QED BY <1>2, <1>3, <2>1
<1>8. hn[h].recipient = ho[h].recipient => Served(hn) = Served(ho)
  BY <1>2 DEF Served
<1>9. CASE ho[h].life \in Proposed /\ h # w
  <2>1. ~Bearing(ho[h]) /\ ~Bearing(hn[h]) /\ hn[h].recipient = ho[h].recipient
    BY <1>2, <1>3, <1>9
       DEF MovesOn, Stays, Lapses, Takes, Submits, Resumes, Ends, Bearing, Proposed, UnderReview
  <2>2. \A g \in Handoffs :
          /\ (Bearing(hn[g]) /\ RootIn(hn)[g] = w) <=> (Bearing(ho[g]) /\ RootIn(ho)[g] = w)
          /\ Bearing(ho[g]) /\ RootIn(ho)[g] = w => hn[g] = ho[g]
    BY <1>1, <1>2, <2>1
  <2>3. SameAt(w, ph, be, ex, hl, ph2, be2, ex2, hl2)
    BY <1>2, <1>9, <2>2, Untouched
  <2> QED BY <1>4, <1>8, <2>1, <2>3
<1>10. CASE ho[h].life \in Proposed /\ h = w
  <2>1. ph[w] = "open" /\ be[w] = NoHandoff /\ ex[w] = NoActor /\ hl[w] = ho[w].responsible
    BY <1>7, <1>10 DEF Reads
  <2>2. \A g \in Handoffs : ~(Bearing(ho[g]) /\ R[g] = w)
    BY <1>6, <1>10, NullAssumption DEF Sound
  <2>3. CASE hn[w].life \in Proposed
    <3>1. Stays(ho[h], hn[h])
      BY <1>10, <2>3
         DEF MovesOn, Stays, Lapses, Takes, Submits, Resumes, Ends, Bearing, Proposed, UnderReview
    <3>2. ph2[w] = "open" /\ be2[w] = NoHandoff /\ ex2[w] = NoActor /\ hl2[w] = hn[w].responsible
      BY <1>7, <2>3 DEF Reads
    <3> QED BY <1>4, <1>8, <1>10, <2>1, <3>1, <3>2 DEF SameAt, Stays
  <2>4. CASE Lapses(ho[h], hn[h])
    <3>1. \A g \in Handoffs : ~(Bearing(hn[g]) /\ R[g] = w)
      BY <1>2, <2>2, <2>4 DEF Lapses
    <3>2. ph2[w] = "over" /\ be2[w] = NoHandoff /\ ex2[w] = NoActor /\ hl2[w] = NoActor
      BY <1>1, <1>7, <1>10, <2>4, <3>1 DEF Reads, Lapses
    <3> QED BY <1>4, <1>8, <2>1, <2>4, <3>2 DEF MovesAt, Lapses
  <2>5. CASE Takes(ho[h], hn[h])
    <3>1. hn[h].life = "accepted" /\ hn[h].recipient \in Actors /\ hn[h].responsible = hn[h].recipient
      BY <2>5 DEF Takes
    <3>2. Bearing(hn[h]) /\ RootIn(hn)[h] = w
      BY <1>1, <1>2, <3>1 DEF Bearing
    <3>3. ph2[w] = "borne" /\ be2[w] = w /\ ex2[w] = hn[h].recipient /\ hl2[w] = hn[h].recipient
      BY <1>10, <3>1, <3>2 DEF Reads
    <3>4. ho[h].recipient = NoActor
      BY <1>10 DEF Sound
    <3>5. w \notin Served(ho) /\ Served(hn) = Served(ho) \cup {w}
      BY <1>2, <1>10, <3>1, <3>4, NullAssumption DEF Served
    <3> QED BY <1>4, <2>1, <3>1, <3>3, <3>5 DEF MovesAt
  <2> QED BY <1>2, <1>10, <2>3, <2>4, <2>5
          DEF MovesOn, Stays, Submits, Resumes, Ends, Bearing, Proposed, UnderReview
<1>11. CASE ho[h].life \notin Proposed
  <2>1. Bearing(ho[h]) /\ hn[h].recipient = ho[h].recipient /\ ho[h].recipient # NoActor
    BY <1>11, NullAssumption
       DEF MovesOn, Stays, Lapses, Takes, Submits, Resumes, Ends, Bearing, UnderReview, Sound
  <2>2. /\ ph[w] = IF ho[h].life = "accepted" THEN "borne" ELSE "review"
        /\ be[w] = h /\ ex[w] = ho[h].recipient /\ hl[w] = ho[h].responsible
    BY <1>1, <1>2, <2>1 DEF Reads
  <2>3. Served(hn) = Served(ho)
    BY <1>8, <2>1
  <2>4. CASE Bearing(hn[h])
    <3>1. /\ ph2[w] = IF hn[h].life = "accepted" THEN "borne" ELSE "review"
          /\ be2[w] = h /\ ex2[w] = ho[h].recipient /\ hl2[w] = hn[h].responsible
      BY <1>1, <1>2, <2>1, <2>4 DEF Reads
    <3>2. CASE Stays(ho[h], hn[h])
      BY <1>4, <1>11, <2>2, <2>3, <3>1, <3>2 DEF Stays, SameAt, UnderReview
    <3>3. CASE Submits(ho[h], hn[h])
      BY <1>4, <2>2, <2>3, <3>1, <3>3 DEF Submits, MovesAt, UnderReview
    <3>4. CASE Resumes(ho[h], hn[h])
      BY <1>4, <2>2, <2>3, <3>1, <3>4 DEF Resumes, MovesAt, UnderReview
    <3> QED BY <1>11, <2>4, <3>2, <3>3, <3>4 DEF MovesOn, Lapses, Takes, Ends
  <2>5. CASE ~Bearing(hn[h])
    <3>1. Ends(ho[h], hn[h])
      BY <1>11, <2>5 DEF MovesOn, Stays, Lapses, Takes, Submits, Resumes, Bearing, UnderReview
    <3>2. \A g \in Handoffs : ~(Bearing(hn[g]) /\ R[g] = w)
      BY <1>2, <1>5, <2>1, <2>5
    <3>3. hn[w].life \notin Proposed
      BY <1>2, <1>6, <2>1, <3>1 DEF Ends
    <3>4. ph2[w] = "over" /\ be2[w] = NoHandoff /\ ex2[w] = NoActor /\ hl2[w] = NoActor
      BY <1>1, <1>7, <3>2, <3>3 DEF Reads
    <3> QED BY <1>4, <2>2, <2>3, <3>4 DEF MovesAt
  <2> QED BY <2>4, <2>5
<1> QED BY <1>9, <1>10, <1>11

\* The accept of a child passes the token to it.
LEMMA PassReads ==
  ASSUME NEW ho, NEW hn, Sound(ho), Sound(hn), Forest(ho), OneBearer(ho),
         NEW h \in Handoffs, NEW k \in Handoffs, Passes(ho, hn, h, k),
         NEW ph, NEW be, NEW ex, NEW hl, Reads(ho, ph, be, ex, hl),
         NEW ph2, NEW be2, NEW ex2, NEW hl2, Reads(hn, ph2, be2, ex2, hl2),
         NEW w \in Handoffs, w = RootIn(ho)[h]
  PROVE  /\ \A v \in Handoffs \ {w} : SameAt(v, ph, be, ex, hl, ph2, be2, ex2, hl2)
         /\ MovesAt(w, ph, be, ex, hl, Served(ho), ph2, be2, ex2, hl2, Served(hn))
<1>1. PICK R : R = RootIn(ho) /\ R = RootIn(hn) /\ R[k] = R[h] /\ w = R[h]
  BY PassKeepsOneBearer
<1>2. /\ \A g \in Handoffs \ {h, k} : hn[g] = ho[g]
      /\ hn[h].parent = ho[h].parent /\ hn[k].parent = ho[k].parent
      /\ ho[h].life = "accepted" /\ hn[k].life = "accepted" /\ ho[k].life \in Proposed
      /\ hn[h].recipient = ho[h].recipient
      /\ hn[k].recipient \in Actors /\ hn[k].responsible = hn[k].recipient
  BY DEF Passes
<1>3. \A g \in Handoffs : ho[g].parent = NoHandoff => R[g] = g
  BY <1>1, RootOfRoot
<1>4. ASSUME NEW v \in Handoffs, v # w PROVE SameAt(v, ph, be, ex, hl, ph2, be2, ex2, hl2)
  <2>1. hn[v] = ho[v] \/ (ho[v].parent # NoHandoff /\ hn[v].parent # NoHandoff)
    BY <1>1, <1>2, <1>3, <1>4
  <2>2. \A g \in Handoffs :
          /\ (Bearing(hn[g]) /\ RootIn(hn)[g] = v) <=> (Bearing(ho[g]) /\ RootIn(ho)[g] = v)
          /\ Bearing(ho[g]) /\ RootIn(ho)[g] = v => hn[g] = ho[g]
    BY <1>1, <1>2, <1>4
  <2> QED BY <2>1, <2>2, Untouched
<1>5. ph[w] = "borne"
  BY <1>1, <1>2 DEF Reads, Bearing
<1>6. ph2[w] = "borne" /\ be2[w] = k /\ ex2[w] = hn[k].recipient /\ hl2[w] = hn[k].recipient
  BY <1>1, <1>2 DEF Reads, Bearing
<1>7. ho[k].recipient = NoActor
  BY <1>2 DEF Sound
<1>8. k \notin Served(ho) /\ Served(hn) = Served(ho) \cup {k}
  BY <1>2, <1>7, NullAssumption DEF Served
<1> QED BY <1>2, <1>4, <1>5, <1>6, <1>8 DEF MovesAt

\* A function that changes at one place.
LEMMA OnePlace ==
  ASSUME NEW f, NEW g, f = [v \in Handoffs |-> f[v]], g = [v \in Handoffs |-> g[v]],
         NEW w \in Handoffs, \A v \in Handoffs \ {w} : g[v] = f[v]
  PROVE  g = [f EXCEPT ![w] = g[w]]
OBVIOUS

\* The mapping takes every step that writes to a stream to a step of Responsibility, or to none.
LEMMA StepMoves ==
  ASSUME TokenIInv, TokenIInv', [Next]_vars, handoff' # handoff
  PROVE  [Work!Next]_(Work!vars)
<1>1. PICK ph, be, ex, hl, sv :
        /\ ph = [w \in Handoffs |-> Phase(w)]
        /\ be = [w \in Handoffs |-> Bearer(w)]
        /\ ex = [w \in Handoffs |-> IF Bearer(w) = NoHandoff THEN NoActor ELSE handoff[Bearer(w)].recipient]
        /\ hl = [w \in Handoffs |-> Holder(w)]
        /\ sv = {h \in Handoffs : handoff[h].recipient # NoActor}
  OBVIOUS
<1>2. PICK ph2, be2, ex2, hl2, sv2 :
        /\ ph2 = [w \in Handoffs |-> Phase(w)]'
        /\ be2 = [w \in Handoffs |-> Bearer(w)]'
        /\ ex2 = [w \in Handoffs |-> IF Bearer(w) = NoHandoff THEN NoActor ELSE handoff[Bearer(w)].recipient]'
        /\ hl2 = [w \in Handoffs |-> Holder(w)]'
        /\ sv2 = {h \in Handoffs : handoff[h].recipient # NoActor}'
  OBVIOUS
<1>3. Reads(handoff, ph, be, ex, hl) /\ sv = Served(handoff)
  BY <1>1, MapReadsNow DEF MapReads, TokenIInv, Served
<1>4. Reads(handoff', ph2, be2, ex2, hl2) /\ sv2 = Served(handoff')
  BY <1>2, MapReadsNext DEF MapReads, TokenIInv, Served, Reads, RootIn, IsRoot
<1>5. /\ Sound(handoff) /\ Sound(handoff') /\ Forest(handoff) /\ OneBearer(handoff)
      /\ IInv /\ IInv' /\ ProposalsMoveOne
  BY IInvSound, IInvSoundNext DEF TokenIInv
<1>6. \E w \in Handoffs :
        /\ \A v \in Handoffs \ {w} : SameAt(v, ph, be, ex, hl, ph2, be2, ex2, hl2)
        /\ \/ SameAt(w, ph, be, ex, hl, ph2, be2, ex2, hl2) /\ sv2 = sv
           \/ MovesAt(w, ph, be, ex, hl, sv, ph2, be2, ex2, hl2, sv2)
  <2>1. CASE \E h \in Handoffs : Creates(handoff, handoff', h)
    BY <1>3, <1>4, <1>5, <2>1, CreationReads
  <2>2. CASE \E h \in Handoffs : MovesOn(handoff, handoff', h)
    <3>1. PICK h \in Handoffs : MovesOn(handoff, handoff', h)
      BY <2>2
    <3>2. PICK w \in Handoffs : w = RootIn(handoff)[h]
      BY <1>5 DEF Forest
    <3> QED BY <1>3, <1>4, <1>5, <3>1, <3>2, MoveReads
  <2>3. CASE \E h, g \in Handoffs : Passes(handoff, handoff', h, g)
    <3>1. PICK h, g \in Handoffs : Passes(handoff, handoff', h, g)
      BY <2>3
    <3>2. PICK w \in Handoffs : w = RootIn(handoff)[h]
      BY <1>5 DEF Forest
    <3> QED BY <1>3, <1>4, <1>5, <3>1, <3>2, PassReads
  <2> QED BY <1>5, <2>1, <2>2, <2>3, CommitMoves
<1>7. PICK w \in Handoffs :
        /\ \A v \in Handoffs \ {w} : SameAt(v, ph, be, ex, hl, ph2, be2, ex2, hl2)
        /\ \/ SameAt(w, ph, be, ex, hl, ph2, be2, ex2, hl2) /\ sv2 = sv
           \/ MovesAt(w, ph, be, ex, hl, sv, ph2, be2, ex2, hl2, sv2)
  BY <1>6
<1>8. /\ ph = [v \in Handoffs |-> ph[v]] /\ ph2 = [v \in Handoffs |-> ph2[v]]
      /\ be = [v \in Handoffs |-> be[v]] /\ be2 = [v \in Handoffs |-> be2[v]]
      /\ ex = [v \in Handoffs |-> ex[v]] /\ ex2 = [v \in Handoffs |-> ex2[v]]
      /\ hl = [v \in Handoffs |-> hl[v]] /\ hl2 = [v \in Handoffs |-> hl2[v]]
  BY <1>1, <1>2
<1>9. /\ ph2 = [ph EXCEPT ![w] = ph2[w]] /\ be2 = [be EXCEPT ![w] = be2[w]]
      /\ ex2 = [ex EXCEPT ![w] = ex2[w]] /\ hl2 = [hl EXCEPT ![w] = hl2[w]]
  BY <1>7, <1>8, OnePlace DEF SameAt
<1>10. CASE SameAt(w, ph, be, ex, hl, ph2, be2, ex2, hl2) /\ sv2 = sv
  <2>1. ph2 = ph /\ be2 = be /\ ex2 = ex /\ hl2 = hl
    BY <1>8, <1>9, <1>10 DEF SameAt
  <2> QED BY <1>1, <1>2, <1>10, <2>1 DEF Work!vars
<1>11. CASE MovesAt(w, ph, be, ex, hl, sv, ph2, be2, ex2, hl2, sv2)
  <2>1. /\ be2[w] = be[w] => be2 = be
        /\ ex2[w] = ex[w] => ex2 = ex
    BY <1>8, <1>9
  <2>2. CASE /\ ph[w] = "new" /\ ph2[w] = "open" /\ hl2[w] \in Actors
             /\ be2[w] = be[w] /\ ex2[w] = ex[w] /\ sv2 = sv
    <3>1. Work!Open(w, hl2[w])
      BY <1>1, <1>2, <1>9, <2>1, <2>2 DEF Work!Open
    <3> QED BY <2>2, <3>1 DEF Work!Next
  <2>3. CASE /\ ph[w] = "open" /\ ph2[w] = "over" /\ hl2[w] = NoActor
             /\ be2[w] = be[w] /\ ex2[w] = ex[w] /\ sv2 = sv
    <3>1. Work!Lapse(w)
      BY <1>1, <1>2, <1>9, <2>1, <2>3 DEF Work!Lapse
    <3> QED BY <3>1 DEF Work!Next
  <2>4. CASE /\ ph[w] = "open" /\ ph2[w] = "borne" /\ be2[w] = w /\ ex2[w] \in Actors /\ hl2[w] = ex2[w]
             /\ w \notin sv /\ sv2 = sv \cup {w}
    <3>1. Work!Take(w, ex2[w])
      BY <1>1, <1>2, <1>9, <2>4 DEF Work!Take, Work!Bear
    <3> QED BY <2>4, <3>1 DEF Work!Next
  <2>5. CASE /\ ph[w] = "borne" /\ ph2[w] = "borne" /\ be2[w] \in Handoffs /\ ex2[w] \in Actors /\ hl2[w] = ex2[w]
             /\ be2[w] \notin sv /\ sv2 = sv \cup {be2[w]}
    <3>1. Work!Pass(w, be2[w], ex2[w])
      BY <1>1, <1>2, <1>9, <2>5 DEF Work!Pass, Work!Bear
    <3> QED BY <2>5, <3>1 DEF Work!Next
  <2>6. CASE /\ ph[w] = "borne" /\ ph2[w] = "review" /\ hl2[w] \in Actors
             /\ be2[w] = be[w] /\ ex2[w] = ex[w] /\ sv2 = sv
    <3>1. Work!Submit(w, hl2[w])
      BY <1>1, <1>2, <1>9, <2>1, <2>6 DEF Work!Submit
    <3> QED BY <2>6, <3>1 DEF Work!Next
  <2>7. CASE /\ ph[w] = "review" /\ ph2[w] = "borne" /\ hl2[w] = ex[w]
             /\ be2[w] = be[w] /\ ex2[w] = ex[w] /\ sv2 = sv
    <3>1. Work!Resume(w)
      BY <1>1, <1>2, <1>9, <2>1, <2>7 DEF Work!Resume
    <3> QED BY <3>1 DEF Work!Next
  <2>8. CASE /\ ph[w] \in {"borne", "review"} /\ ph2[w] = "over" /\ hl2[w] = NoActor
             /\ be2[w] = NoHandoff /\ ex2[w] = NoActor /\ sv2 = sv
    <3>1. Work!Finish(w)
      BY <1>1, <1>2, <1>9, <2>8 DEF Work!Finish
    <3> QED BY <3>1 DEF Work!Next
  <2> QED BY <1>11, <2>2, <2>3, <2>4, <2>5, <2>6, <2>7, <2>8 DEF MovesAt
<1> QED BY <1>7, <1>10, <1>11

\* Before anything is offered, nobody bears a responsibility.
LEMMA TokenInit == Init => Work!Init
<1> SUFFICES ASSUME Init PROVE Work!Init
  OBVIOUS
<1>1. TokenIInv
  BY TokenStart
<1>2. PICK ph, be, ex, hl :
        /\ ph = [w \in Handoffs |-> Phase(w)]
        /\ be = [w \in Handoffs |-> Bearer(w)]
        /\ ex = [w \in Handoffs |-> IF Bearer(w) = NoHandoff THEN NoActor ELSE handoff[Bearer(w)].recipient]
        /\ hl = [w \in Handoffs |-> Holder(w)]
  OBVIOUS
<1>3. Reads(handoff, ph, be, ex, hl)
  BY <1>1, <1>2, MapReadsNow DEF MapReads, TokenIInv
<1>4. \A h \in Handoffs : handoff[h].version = 0 /\ handoff[h].recipient = NoActor
  BY DEF Init, Absent
<1>5. \A w \in Handoffs : ph[w] = "new" /\ be[w] = NoHandoff /\ ex[w] = NoActor /\ hl[w] = NoActor
  BY <1>3, <1>4 DEF Reads
<1>6. /\ ph = [w \in Handoffs |-> "new"] /\ be = [w \in Handoffs |-> NoHandoff]
      /\ ex = [w \in Handoffs |-> NoActor] /\ hl = [w \in Handoffs |-> NoActor]
  BY <1>2, <1>5
<1>7. {h \in Handoffs : handoff[h].recipient # NoActor} = {}
  BY <1>4
<1> QED BY <1>2, <1>6, <1>7 DEF Work!Init

\* The Exchange implements Responsibility: in every behaviour of any number of handlers, the
\* responsibility for a piece of work is a token that moves as Responsibility says.
THEOREM TokenPassed == Spec => ResponsibilityIsAToken
<1>1. TokenIInv /\ TokenIInv' /\ [Next]_vars => (handoff' # handoff => [Work!Next]_(Work!vars))
  BY StepMoves
<1> QED BY <1>1, TokenInit, TokenInvariance, PTL DEF Spec, ResponsibilityIsAToken

\* The mapping looks at the streams only.
LEMMA MapOfStreams == ASSUME handoff' = handoff PROVE UNCHANGED Work!vars
<1>1. Root' = Root
  BY DEF Root
<1>2. \A w \in Handoffs : Bearer(w)' = Bearer(w)
  BY <1>1 DEF Bearer, Bears, Bearing
<1>3. \A w \in Handoffs : Phase(w)' = Phase(w)
  BY <1>2 DEF Phase, IsWork
<1>4. \A w \in Handoffs : Holder(w)' = Holder(w)
  BY <1>2, <1>3 DEF Holder
<1> QED BY <1>2, <1>3, <1>4 DEF Work!vars

\* The same as a refinement of the abstract specification.
THEOREM ExchangeImplementsResponsibility == Spec => Work!Spec
<1>1. TokenIInv /\ TokenIInv' /\ [Next]_vars => [Work!Next]_(Work!vars)
  BY StepMoves, MapOfStreams
<1> QED BY <1>1, TokenInit, TokenInvariance, PTL DEF Spec, Work!Spec
=============================================================================
