--------------------------- MODULE CalendarExecutor ---------------------------
(***************************************************************************)
(* The Feishu calendar provider: executions of event operations, each      *)
(* under an idempotency key, by attempts that may overlap.  An attempt     *)
(* calls Feishu and the provider's own store in turn, and may end anywhere *)
(* in between: by a crash, by a call that fails, or by one whose effect is *)
(* unknown.  What is on record decides what a later attempt goes on with.  *)
(***************************************************************************)
EXTENDS Integers, FiniteSets

CONSTANTS
  Executions,      \* idempotency keys, each with its fixed input
  OperationOf,     \* "create", "update", "attendees" or "delete"
  EventOf,         \* the event an execution creates or is about
  ExpectedVersion, \* expected_provider_version of its input
  Inviting,        \* the executions that create an event with attendees
  Attempts,        \* attempts that may be under way together
  NoExecution,     \* null
  MaxOutsideChanges \* bound: changes of events by others

ASSUME CalendarAssumption ==
  /\ OperationOf \in [Executions -> {"create", "update", "attendees", "delete"}]
  /\ ExpectedVersion \in [Executions -> Nat \ {0}] /\ DOMAIN EventOf = Executions
  /\ \A x \in Executions, y \in Executions :
       OperationOf[x] = "create" /\ OperationOf[y] = "create" /\ EventOf[x] = EventOf[y] => x = y
  /\ Inviting \subseteq Executions /\ NoExecution \notin Executions /\ MaxOutsideChanges \in Nat

VARIABLES
  execution,      \* the record of each execution
  ownership,      \* the provider's record of each event
  calendar,       \* the events in Feishu
  proofs,         \* confirmations that have not been consumed
  attempt,        \* what each attempt is doing
  answers,        \* history: successes and unknown outcomes reported
  deletions,      \* history: 1 once Feishu has confirmed a deletion, 2 if it is asked again
  outsideChanges

calendarVars == <<execution, ownership, calendar, proofs, attempt, answers, deletions, outsideChanges>>

Events == {EventOf[x] : x \in Executions}
NoOutcome == [kind |-> "none", version |-> 0, complete |-> FALSE]
Unknown == [NoOutcome EXCEPT !.kind = "unknown"]
Consumed == [NoOutcome EXCEPT !.kind = "consumed"]
Succeeded(version, complete) == [kind |-> "succeeded", version |-> version, complete |-> complete]
AtEase ==
  [pc |-> "idle", x |-> NoExecution, version |-> 0, state |-> "absent",
   outcome |-> NoOutcome, seen |-> 0]

OpOf(a) == OperationOf[attempt[a].x]
EventAt(a) == EventOf[attempt[a].x]
Proceed(a, pc) == attempt' = [attempt EXCEPT ![a].pc = pc]

\* An attempt that is refused, or fails and may be tried again, leaves nothing behind.
Abandon(a) == attempt' = [attempt EXCEPT ![a] = AtEase]

Report(a, outcome) ==
  /\ answers' = answers \cup {[x |-> attempt[a].x, outcome |-> outcome]}
  /\ Abandon(a)

-----------------------------------------------------------------------------
(* Records of executions: beginExecution, replay, checkpoint. *)

Replays(r) == r.outcome.kind # "none" /\ (r.state = "completed" \/ r.outcome.kind = "unknown")

Recorded(x) ==
  IF execution[x].state = "absent" THEN [state |-> "started", outcome |-> NoOutcome, version |-> 1]
  ELSE execution[x]

FirstStep(x, state) ==
  IF OperationOf[x] # "create" THEN "look"
  ELSE CASE state = "started" -> "create"
         [] state = "event_created" -> "invite"
         [] state = "attendees_applied" -> "complete"

\* The caller has seen the version of the event that it expects.
BeginExecution(a, x) ==
  LET r == Recorded(x) IN
  /\ attempt[a].pc = "idle"
  /\ OperationOf[x] # "create" => ownership[EventOf[x]].version >= ExpectedVersion[x]
  /\ execution' = [execution EXCEPT ![x] = r]
  /\ IF Replays(r)
       THEN answers' = answers \cup {[x |-> x, outcome |-> r.outcome]} /\ UNCHANGED attempt
       ELSE /\ attempt' = [attempt EXCEPT ![a] = [pc |-> FirstStep(x, r.state), x |-> x, version |-> r.version,
                                                  state |-> r.state, outcome |-> r.outcome, seen |-> 0]]
            /\ UNCHANGED answers
  /\ UNCHANGED <<ownership, calendar, proofs, deletions, outsideChanges>>

\* The record moves on if it is as the attempt last saw it.
MayCheckpoint(a) == execution[attempt[a].x].version = attempt[a].version

Saves(a, state, outcome) ==
  execution' = [execution EXCEPT ![attempt[a].x] =
                  [state |-> state, outcome |-> outcome, version |-> @.version + 1]]

Checkpoint(a, state, outcome, pc) ==
  IF MayCheckpoint(a)
    THEN /\ Saves(a, state, outcome)
         /\ attempt' = [attempt EXCEPT ![a].pc = pc, ![a].version = @ + 1, ![a].state = state, ![a].outcome = outcome]
    ELSE Abandon(a) /\ UNCHANGED execution

\* persistOutcome, completeExecution: the last checkpoint of an attempt, and its answer.
Conclude(a, state, outcome) ==
  IF MayCheckpoint(a) THEN Saves(a, state, outcome) /\ Report(a, outcome)
  ELSE Abandon(a) /\ UNCHANGED <<execution, answers>>

PersistUnknown(a) ==
  /\ attempt[a].pc = "unknown"
  /\ Conclude(a, attempt[a].state, Unknown)
  /\ UNCHANGED <<ownership, calendar, proofs, deletions, outsideChanges>>

CompleteExecution(a) ==
  /\ attempt[a].pc = "complete"
  /\ Conclude(a, "completed", attempt[a].outcome)
  /\ UNCHANGED <<ownership, calendar, proofs, deletions, outsideChanges>>

\* A call of Feishu that fails: it is refused or its answer is lost, and may be tried
\* again, or it times out, and nobody knows what became of it.
CallFailed(a) == Abandon(a) \/ Proceed(a, "unknown")

-----------------------------------------------------------------------------
(* createEvent. *)

\* Feishu creates one event per idempotency key.
CreatedIn(e) ==
  IF calendar[e].rev = 0 THEN [calendar EXCEPT ![e] = [exists |-> TRUE, rev |-> 1]] ELSE calendar

CreateEvent(a) ==
  LET e == EventAt(a) IN
  /\ attempt[a].pc = "create"
  /\ \/ calendar' = CreatedIn(e) /\ attempt' = [attempt EXCEPT ![a].pc = "own", ![a].seen = calendar'[e].rev]
     \/ calendar' \in {calendar, CreatedIn(e)} /\ CallFailed(a)
  /\ UNCHANGED <<execution, ownership, proofs, answers, deletions, outsideChanges>>

\* putEventOwnership: the same record again is no change, another one a conflict.
PutOwnership(a) ==
  LET e == EventAt(a)
      own == [version |-> 1, deleted |-> FALSE, seen |-> attempt[a].seen] IN
  /\ attempt[a].pc = "own"
  /\ IF ownership[e].version = 0 THEN ownership' = [ownership EXCEPT ![e] = own] /\ Proceed(a, "created")
     ELSE UNCHANGED ownership /\ IF ownership[e] = own THEN Proceed(a, "created") ELSE Abandon(a)
  /\ UNCHANGED <<execution, calendar, proofs, answers, deletions, outsideChanges>>

CheckpointCreated(a) ==
  /\ attempt[a].pc = "created"
  /\ Checkpoint(a, "event_created", Succeeded(1, attempt[a].x \notin Inviting), "invite")
  /\ UNCHANGED <<ownership, calendar, proofs, answers, deletions, outsideChanges>>

\* Attendees who are refused for good leave the event partial.
Invite(a) ==
  /\ attempt[a].pc = "invite"
  /\ \/ \E complete \in {TRUE} \cup {attempt[a].x \notin Inviting} :
          attempt' = [attempt EXCEPT ![a].pc = "invited", ![a].outcome = Succeeded(1, complete)]
     \/ attempt[a].x \in Inviting /\ CallFailed(a)
  /\ UNCHANGED <<execution, ownership, calendar, proofs, answers, deletions, outsideChanges>>

CheckpointInvited(a) ==
  /\ attempt[a].pc = "invited"
  /\ Checkpoint(a, "attendees_applied", attempt[a].outcome, "complete")
  /\ UNCHANGED <<ownership, calendar, proofs, answers, deletions, outsideChanges>>

-----------------------------------------------------------------------------
(* updateEvent, mutateAttendees, deleteEvent. *)

\* ownedEvent: the event is the provider's, at the version expected.
LookAtOwnership(a) ==
  LET own == ownership[EventAt(a)]
      as_expected == own.version = ExpectedVersion[attempt[a].x] IN
  /\ attempt[a].pc = "look"
  /\ CASE own.deleted /\ OpOf(a) = "delete" ->
            attempt' = [attempt EXCEPT ![a].pc = "complete", ![a].outcome = Succeeded(own.version, TRUE)]
       [] own.deleted /\ OpOf(a) # "delete" -> Abandon(a)
       [] ~own.deleted /\ ~as_expected -> Abandon(a)
       [] ~own.deleted /\ as_expected ->
            attempt' = [attempt EXCEPT ![a].seen = own.seen,
              ![a].pc = CASE OpOf(a) = "update" -> "read" [] OpOf(a) = "attendees" -> "call"
                          [] OpOf(a) = "delete" -> IF attempt[a].state = "started" THEN "consume" ELSE "call"]
  /\ UNCHANGED <<execution, ownership, calendar, proofs, answers, deletions, outsideChanges>>

\* An update goes on only if nobody else has changed the event.
ReadEvent(a) ==
  LET there == calendar[EventAt(a)] IN
  /\ attempt[a].pc = "read"
  /\ IF there.exists /\ there.rev = attempt[a].seen THEN Proceed(a, "call") ELSE Abandon(a)
  /\ UNCHANGED <<execution, ownership, calendar, proofs, answers, deletions, outsideChanges>>

\* A confirmation is good for one deletion.
ConsumeConfirmation(a) ==
  /\ attempt[a].pc = "consume"
  /\ proofs' = proofs \ {attempt[a].x}
  /\ IF attempt[a].x \in proofs THEN Proceed(a, "consumed") ELSE Abandon(a)
  /\ UNCHANGED <<execution, ownership, calendar, answers, deletions, outsideChanges>>

CheckpointConsumed(a) ==
  /\ attempt[a].pc = "consumed"
  /\ Checkpoint(a, "confirmation_consumed", Consumed, "call")
  /\ UNCHANGED <<ownership, calendar, proofs, answers, deletions, outsideChanges>>

\* Attendees are no part of what updated_at speaks of.
CalledOn(a) ==
  CASE OpOf(a) = "update" -> [calendar EXCEPT ![EventAt(a)].rev = @ + 1]
    [] OpOf(a) = "attendees" -> calendar
    [] OpOf(a) = "delete" -> [calendar EXCEPT ![EventAt(a)].exists = FALSE]

CallFeishu(a) ==
  LET e == EventAt(a) IN
  /\ attempt[a].pc = "call"
  /\ \/ /\ calendar[e].exists /\ calendar' = CalledOn(a)
        /\ attempt' = [attempt EXCEPT ![a].pc = "version",
                         ![a].seen = IF OpOf(a) = "update" THEN calendar'[e].rev ELSE @]
     \/ calendar' \in {calendar} \cup (IF calendar[e].exists THEN {CalledOn(a)} ELSE {}) /\ CallFailed(a)
  /\ deletions' = [deletions EXCEPT ![attempt[a].x] =
                     IF @ > 0 THEN 2 ELSE IF OpOf(a) = "delete" /\ attempt'[a].pc = "version" THEN 1 ELSE 0]
  /\ UNCHANGED <<execution, ownership, proofs, answers, outsideChanges>>

\* Bug: the version is not compared.
MayBumpAlways(a) == ~ownership[EventAt(a)].deleted

MayBump(a) ==
  ~ownership[EventAt(a)].deleted /\ ownership[EventAt(a)].version = ExpectedVersion[attempt[a].x]

\* updateEventVersion, markEventDeleted.
BumpVersion(a) ==
  LET e == EventAt(a) IN
  /\ attempt[a].pc = "version"
  /\ IF MayBump(a)
       THEN /\ ownership' = [ownership EXCEPT ![e].version = @ + 1, ![e].seen = attempt[a].seen,
                                              ![e].deleted = OpOf(a) = "delete"]
            /\ attempt' = [attempt EXCEPT ![a].pc = "complete",
                                          ![a].outcome = Succeeded(ownership[e].version + 1, TRUE)]
       ELSE Abandon(a) /\ UNCHANGED ownership
  /\ UNCHANGED <<execution, calendar, proofs, answers, deletions, outsideChanges>>

-----------------------------------------------------------------------------
\* The process of an attempt ends, or its caller stops waiting.
CrashAttempt(a) ==
  /\ attempt[a].pc # "idle" /\ Abandon(a)
  /\ UNCHANGED <<execution, ownership, calendar, proofs, answers, deletions, outsideChanges>>

\* Somebody changes or deletes the event in Feishu.
ChangeOutside(e) ==
  /\ calendar[e].exists /\ outsideChanges < MaxOutsideChanges /\ outsideChanges' = outsideChanges + 1
  /\ \/ calendar' = [calendar EXCEPT ![e].rev = @ + 1]
     \/ calendar' = [calendar EXCEPT ![e].exists = FALSE]
  /\ UNCHANGED <<execution, ownership, proofs, attempt, answers, deletions>>

CalendarInit ==
  /\ execution = [x \in Executions |-> [state |-> "absent", outcome |-> NoOutcome, version |-> 0]]
  /\ ownership = [e \in Events |-> [version |-> 0, deleted |-> FALSE, seen |-> 0]]
  /\ calendar = [e \in Events |-> [exists |-> FALSE, rev |-> 0]]
  /\ proofs = {x \in Executions : OperationOf[x] = "delete"}
  /\ attempt = [a \in Attempts |-> AtEase]
  /\ answers = {} /\ deletions = [x \in Executions |-> 0] /\ outsideChanges = 0

AttemptStep(a) ==
  \/ CreateEvent(a) \/ PutOwnership(a) \/ CheckpointCreated(a) \/ Invite(a) \/ CheckpointInvited(a)
  \/ LookAtOwnership(a) \/ ReadEvent(a) \/ ConsumeConfirmation(a) \/ CheckpointConsumed(a) \/ CallFeishu(a)
  \/ BumpVersion(a) \/ PersistUnknown(a) \/ CompleteExecution(a) \/ CrashAttempt(a)

CalendarNext ==
  \/ \E a \in Attempts : AttemptStep(a) \/ \E x \in Executions : BeginExecution(a, x)
  \/ \E e \in Events : ChangeOutside(e)

CalendarSpec == CalendarInit /\ [][CalendarNext]_calendarVars
-----------------------------------------------------------------------------
(* Properties. *)

CalendarTypeOK ==
  /\ \A x \in Executions :
       /\ execution[x].state \in {"absent", "started", "event_created", "attendees_applied",
                                  "confirmation_consumed", "completed"}
       /\ execution[x].state = "completed" => execution[x].outcome.kind = "succeeded"
  /\ \A e \in Events : ownership[e].version > 0 => calendar[e].rev > 0
  /\ proofs \subseteq Executions

\* Two changes, at most one of them a deletion, that expect the same version of an event.
Rivals(x, y) ==
  /\ x # y /\ EventOf[x] = EventOf[y] /\ ExpectedVersion[x] = ExpectedVersion[y]
  /\ "create" \notin {OperationOf[x], OperationOf[y]} /\ {OperationOf[x], OperationOf[y]} # {"delete"}

\* A deletion that finds the event deleted, at whatever version, succeeds with nothing to do.
FoundDeleted(p) ==
  OperationOf[p.x] = "delete" /\ p.outcome.version # ExpectedVersion[p.x] + 1

\* Calendar design, sections 8.4 and 11: an execution is one, whatever attempts of it
\* overlap, crash or are made again.  Its successes are one and the same, and one that was
\* reported unknown does not succeed after all.  Of the changes that expect the same
\* version of an event one succeeds, save deletions that have nothing to do: none writes
\* over another unawares.
AnswersAgree ==
  \A p \in answers, q \in answers :
    /\ p.x = q.x => p = q
    /\ Rivals(p.x, q.x) =>
         "unknown" \in {p.outcome.kind, q.outcome.kind} \/ FoundDeleted(p) \/ FoundDeleted(q)

\* Calendar design, section 8.7: replays return the existing deletion result and never
\* invoke Feishu twice, once it has confirmed the deletion.
DeletesOnce == \A x \in Executions : deletions[x] <= 1
=============================================================================
