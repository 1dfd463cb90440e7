----------------------------- MODULE Projection -----------------------------
(***************************************************************************)
(* A read model of one partition: the journal is replayed into views and a *)
(* checkpoint says how far.  View and checkpoint are written by separate   *)
(* calls, in turns that hold the partition's lease, or in a rebuild, which *)
(* holds nothing: it clears the views, resets the checkpoint and replays.  *)
(* Three projectors are modelled: that of Handoffs, which replays each     *)
(* event on its model; that of endpoint inboxes, whose facts are whole     *)
(* events; and that of collaboration, which follows the Handoff model.     *)
(***************************************************************************)
EXTENDS Integers, Sequences, FiniteSets

CONSTANTS
  Journal,        \* the Handoff of each event of the partition
  Projectors,     \* the projectors considered
  ProjectionTurns, \* turns of work that may be under way together
  NoTurn,         \* null
  Batch,          \* events read at a time
  Beside,         \* whether a rebuild may run beside a turn
  MaxLapses,      \* bound: leases that lapse under a turn
  MaxRebuilds,    \* bound
  MaxViewTroubles \* bound: calls that fail and processes that crash

ASSUME ProjectionAssumption ==
  /\ Journal \in Seq({Journal[e] : e \in DOMAIN Journal})
  /\ Projectors \subseteq {"handoff", "inbox", "collaboration"}
  /\ NoTurn \notin ProjectionTurns /\ "rebuild" \notin ProjectionTurns
  /\ Batch \in Nat \ {0} /\ Beside \in BOOLEAN
  /\ MaxLapses \in Nat /\ MaxRebuilds \in Nat /\ MaxViewTroubles \in Nat

VARIABLES
  projector,   \* the projector at work
  published,   \* the length of the journal so far
  upstream,    \* versions of the Handoff model that the collaboration projector follows
  view,        \* the version of each Handoff in the view, 0 if it has none
  timeline,    \* the events in the timeline (collaboration only)
  checkpoint,
  failures,    \* events recorded as blocking the partition
  holder,      \* the turn that holds the lease
  runner,      \* the local state of each turn and of the rebuild
  lapses, rebuilds, viewTroubles,
  dirty        \* history: the view was cleared and the checkpoint not yet reset

projectionBounds == <<lapses, rebuilds, viewTroubles, dirty>>
views == <<view, timeline, checkpoint, failures>>
projectionVars == <<projector, published, upstream, views, holder, runner, projectionBounds>>

HandoffsSeen == {Journal[e] : e \in DOMAIN Journal}
Runners == ProjectionTurns \cup {"rebuild"}

\* The version of each Handoff after the first n events, and of the stream at event e.
ReplayTo(n) == [h \in HandoffsSeen |-> Cardinality({e \in DOMAIN Journal : e <= n /\ Journal[e] = h})]
VersionOf(e) == ReplayTo(e)[Journal[e]]

AtRest == [pc |-> "idle", position |-> 0, upto |-> 0, value |-> 0]
GoOn(r, pc) == runner' = [runner EXCEPT ![r].pc = pc]

\* The event a runner is at.
Cursor(r) == runner[r].position + 1

CallFails ==
  viewTroubles < MaxViewTroubles /\ viewTroubles' = viewTroubles + 1
  /\ UNCHANGED <<lapses, rebuilds, dirty>>

-----------------------------------------------------------------------------
(* Turns and the lease. *)

Rebuilding == runner["rebuild"].pc # "idle"
MayTakeTurn == Beside \/ ~Rebuilding
MayRebuild == Beside \/ \A t \in ProjectionTurns : runner[t].pc = "idle"

BeginTurn(t) ==
  /\ runner[t].pc = "idle" /\ holder = NoTurn /\ MayTakeTurn
  /\ checkpoint < published
  /\ holder' = t /\ GoOn(t, "load")
  /\ UNCHANGED <<projector, published, upstream, views, projectionBounds>>

\* A lease lapses while its turn goes on, or after its turn has crashed.
Lapse ==
  /\ holder # NoTurn
  /\ holder' = NoTurn
  /\ IF runner[holder].pc = "idle" THEN UNCHANGED lapses
     ELSE lapses < MaxLapses /\ lapses' = lapses + 1
  /\ UNCHANGED <<projector, published, upstream, views, runner, rebuilds, viewTroubles, dirty>>

\* What a runner leaves off with: a turn gives its lease back, a rebuild goes on with
\* the next batch unless it is stuck or there is no more.
LeaveOff(r, result) ==
  IF r = "rebuild"
    THEN /\ runner' = [runner EXCEPT ![r] =
            [AtRest EXCEPT !.pc = IF result = "advanced" THEN "load" ELSE "idle"]]
         /\ UNCHANGED holder
    ELSE /\ runner' = [runner EXCEPT ![r] = AtRest]
         /\ holder' = IF holder = r THEN NoTurn ELSE holder

-----------------------------------------------------------------------------
(* runPartition. *)

LoadBatch(r) ==
  /\ runner[r].pc = "load"
  /\ LET end == IF checkpoint + Batch < published THEN checkpoint + Batch ELSE published IN
     IF end <= checkpoint THEN LeaveOff(r, "idle")
     ELSE /\ runner' = [runner EXCEPT ![r] =
               [pc |-> "look", position |-> checkpoint, upto |-> end, value |-> 0]]
          /\ UNCHANGED holder
  /\ UNCHANGED <<projector, published, upstream, views, projectionBounds>>

\* Bug: an event that is in the model already does not fit it.
VerdictNoSkip(r) ==
  LET h == Journal[Cursor(r)] v == VersionOf(Cursor(r)) IN
  IF projector = "collaboration" /\ upstream[h] < v THEN [do |-> "wait", value |-> 0]
  ELSE IF projector = "handoff" /\ view[h] + 1 # v THEN [do |-> "block", value |-> 0]
  ELSE [do |-> "put", value |-> IF projector = "collaboration" THEN upstream[h] ELSE v]

\* What the projector is to do with the event it is at: "skip" it, "put" a version in
\* the view, wait for the Handoff model, or block.
Verdict(r) ==
  LET h == Journal[Cursor(r)] v == VersionOf(Cursor(r)) IN
  CASE projector = "inbox" -> [do |-> "put", value |-> v]
    [] projector = "collaboration" ->
         IF upstream[h] < v THEN [do |-> "wait", value |-> 0] ELSE [do |-> "put", value |-> upstream[h]]
    [] projector = "handoff" ->
         IF view[h] >= v THEN [do |-> "skip", value |-> 0]
         ELSE IF view[h] + 1 = v THEN [do |-> "put", value |-> v] ELSE [do |-> "block", value |-> 0]

Judge(r) ==
  /\ runner[r].pc = "look"
  /\ IF runner[r].position = runner[r].upto THEN LeaveOff(r, "advanced")
     ELSE LET w == Verdict(r) IN
          IF w.do = "wait" THEN LeaveOff(r, "waiting")
          ELSE /\ runner' = [runner EXCEPT ![r].value = w.value,
                   ![r].pc = CASE w.do = "put" -> "may put" [] w.do = "skip" -> "may advance"
                               [] w.do = "block" -> "may block"]
               /\ UNCHANGED holder
  /\ UNCHANGED <<projector, published, upstream, views, projectionBounds>>

\* assertOwnership: a turn that has lost its lease throws; a rebuild has no fence.
AssertOwnership(r) ==
  /\ runner[r].pc \in {"may put", "may note", "may advance", "may block"}
  /\ IF r = "rebuild" \/ holder = r
       THEN /\ GoOn(r, CASE runner[r].pc = "may put" -> "put" [] runner[r].pc = "may note" -> "note"
                         [] runner[r].pc = "may advance" -> "advance" [] runner[r].pc = "may block" -> "block")
            /\ UNCHANGED holder
       ELSE LeaveOff(r, "lost")
  /\ UNCHANGED <<projector, published, upstream, views, projectionBounds>>

\* The store refuses to put an older version over a newer one.
IsStale(r) == runner[r].value < view[Journal[Cursor(r)]]

PutView(r) ==
  /\ runner[r].pc = "put"
  /\ \/ /\ IF IsStale(r)
             THEN GoOn(r, "may block") /\ UNCHANGED view
             ELSE /\ view' = [view EXCEPT ![Journal[Cursor(r)]] = runner[r].value]
                  /\ GoOn(r, IF projector = "collaboration" THEN "may note" ELSE "may advance")
        /\ UNCHANGED projectionBounds
     \/ CallFails /\ GoOn(r, "may block") /\ UNCHANGED view
  /\ UNCHANGED <<projector, published, upstream, timeline, checkpoint, failures, holder>>

\* The collaboration projector puts the event in its timeline.
Note(r) ==
  /\ runner[r].pc = "note"
  /\ timeline' = timeline \cup {Cursor(r)}
  /\ GoOn(r, "may advance")
  /\ UNCHANGED <<projector, published, upstream, view, checkpoint, failures, holder, projectionBounds>>

MayAdvanceTo(r) == checkpoint = runner[r].position

AdvanceCheckpoint(r) ==
  /\ runner[r].pc = "advance"
  /\ \/ /\ IF MayAdvanceTo(r)
             THEN /\ checkpoint' = Cursor(r)
                  /\ runner' = [runner EXCEPT ![r].pc = "look", ![r].position = Cursor(r), ![r].value = 0]
             ELSE GoOn(r, "may block") /\ UNCHANGED checkpoint
        /\ UNCHANGED projectionBounds
     \/ CallFails /\ GoOn(r, "may block") /\ UNCHANGED checkpoint
  /\ UNCHANGED <<projector, published, upstream, view, timeline, failures, holder>>

RecordBlock(r) ==
  /\ runner[r].pc = "block"
  /\ failures' = failures \cup {Cursor(r)}
  /\ LeaveOff(r, "blocked")
  /\ UNCHANGED <<projector, published, upstream, view, timeline, checkpoint, projectionBounds>>

\* The process of a turn or of a rebuild ends where it is.
CrashAt(r) ==
  /\ runner[r].pc # "idle" /\ CallFails
  /\ runner' = [runner EXCEPT ![r] = AtRest]
  /\ UNCHANGED <<projector, published, upstream, views, holder>>

-----------------------------------------------------------------------------
(* rebuildPartition. *)

BeginRebuild ==
  /\ ~Rebuilding /\ MayRebuild
  /\ rebuilds < MaxRebuilds /\ rebuilds' = rebuilds + 1
  /\ GoOn("rebuild", "clear")
  /\ UNCHANGED <<projector, published, upstream, views, holder, lapses, viewTroubles, dirty>>

ClearView ==
  /\ runner["rebuild"].pc = "clear"
  /\ view' = [h \in HandoffsSeen |-> 0] /\ timeline' = {} /\ dirty' = TRUE
  /\ GoOn("rebuild", "reset")
  /\ UNCHANGED <<projector, published, upstream, checkpoint, failures, holder, lapses, rebuilds, viewTroubles>>

\* Bug: the checkpoint stays where it is.
ResetForgotten ==
  /\ runner["rebuild"].pc = "reset"
  /\ dirty' = FALSE /\ GoOn("rebuild", "load")
  /\ UNCHANGED <<projector, published, upstream, views, holder, lapses, rebuilds, viewTroubles>>

ResetCheckpoint ==
  /\ runner["rebuild"].pc = "reset"
  /\ checkpoint' = 0 /\ dirty' = FALSE
  /\ GoOn("rebuild", "load")
  /\ UNCHANGED <<projector, published, upstream, view, timeline, failures, holder, lapses, rebuilds, viewTroubles>>

-----------------------------------------------------------------------------
PublishEvent ==
  /\ published < Len(Journal) /\ published' = published + 1
  /\ UNCHANGED <<projector, upstream, views, holder, runner, projectionBounds>>

\* The Handoff projection catches up.
Upstream(h) ==
  /\ projector = "collaboration" /\ upstream[h] < ReplayTo(published)[h]
  /\ upstream' = [upstream EXCEPT ![h] = @ + 1]
  /\ UNCHANGED <<projector, published, views, holder, runner, projectionBounds>>

ProjectionInit ==
  /\ projector \in Projectors
  /\ published = 0 /\ upstream = [h \in HandoffsSeen |-> 0]
  /\ view = [h \in HandoffsSeen |-> 0] /\ timeline = {} /\ checkpoint = 0 /\ failures = {}
  /\ holder = NoTurn /\ runner = [r \in Runners |-> AtRest]
  /\ lapses = 0 /\ rebuilds = 0 /\ viewTroubles = 0 /\ dirty = FALSE

RunStep(r) ==
  \/ LoadBatch(r) \/ Judge(r) \/ AssertOwnership(r) \/ PutView(r) \/ Note(r)
  \/ AdvanceCheckpoint(r) \/ RecordBlock(r)

ProjectionNext ==
  \/ PublishEvent \/ Lapse \/ BeginRebuild \/ ClearView \/ ResetCheckpoint
  \/ \E h \in HandoffsSeen : Upstream(h)
  \/ \E t \in ProjectionTurns : BeginTurn(t)
  \/ \E r \in Runners : RunStep(r) \/ CrashAt(r)

ProjectionSpec == ProjectionInit /\ [][ProjectionNext]_projectionVars

\* Turns are taken while there is work and end, leases of the dead lapse, a rebuild
\* that has begun goes on, and the Handoff projection catches up.
ProjectionFairness ==
  /\ WF_projectionVars(\E t \in ProjectionTurns : BeginTurn(t))
  /\ WF_projectionVars(Lapse) /\ WF_projectionVars(ClearView \/ ResetCheckpoint)
  /\ \A r \in Runners : WF_projectionVars(RunStep(r))
  /\ WF_projectionVars(\E h \in HandoffsSeen : Upstream(h))

ProjectionFairSpec == ProjectionSpec /\ ProjectionFairness
-----------------------------------------------------------------------------
(* Properties. *)

ProjectionTypeOK ==
  /\ projector \in Projectors
  /\ published \in 0..Len(Journal) /\ checkpoint \in 0..published
  /\ \A h \in HandoffsSeen : upstream[h] <= ReplayTo(published)[h] /\ view[h] <= ReplayTo(published)[h]
  /\ timeline \subseteq 1..published /\ failures \subseteq 1..published
  /\ holder \in ProjectionTurns \cup {NoTurn}

\* operations.md: a rebuild clears the projection, resets its checkpoint and replays the
\* immutable journal.  The view is the replay of the journal up to the checkpoint, or of
\* one event more if a turn was cut short between its two writes, whatever turns were
\* fenced out, crashed or failed.  (A rebuild that crashes between its first two calls
\* leaves the checkpoint ahead of the view until the next rebuild.)
ViewIsAPrefix ==
  dirty \/
    IF projector = "collaboration"
      THEN /\ \A h \in HandoffsSeen : view[h] >= ReplayTo(checkpoint)[h]
           /\ timeline \in {1..checkpoint, 1..checkpoint + 1}
      ELSE view \in {ReplayTo(checkpoint), ReplayTo(checkpoint + 1)}

\* Phase 6A: projection backlogs recover.  Every event published is projected in the end,
\* after any crash, lapse or recorded failure.
EverythingIsProjected == []<>(checkpoint = published \/ dirty)
=============================================================================
