----------------------------- MODULE RuntimeHost -----------------------------
(***************************************************************************)
(* An agent runtime host and one Handoff offered to it.  The host keeps a  *)
(* durable run: who holds it under which token, how far it is, and its     *)
(* result.  Deliveries of the Handoff are handled at the same time as      *)
(* executions go on; the process may crash, close, or lose its lease       *)
(* anywhere, and recovery takes up, once, what it finds when it starts.    *)
(***************************************************************************)
EXTENDS Integers, FiniteSets

CONSTANTS
  Handlers,      \* deliveries that may be handled together
  NoTask,        \* null
  Results,       \* what an execution may come to: two executions may differ
  NoResult,      \* null
  MaxStarts,     \* bound: starts of the process
  MaxRunTroubles \* bound: calls that fail, answers lost, leases that lapse under their task

ASSUME RuntimeAssumption ==
  /\ NoTask \notin Handlers \cup {"recover"} /\ "recover" \notin Handlers /\ NoResult \notin Results
  /\ MaxStarts \in Nat /\ MaxRunTroubles \in Nat

VARIABLES
  host,       \* "down", "up" or "closing"
  remote,     \* the Handoff in Work Fabric
  keys,       \* commands Work Fabric has taken, by their idempotency key
  deliveries, \* what the Gateway has not seen acknowledged
  run,        \* the durable run
  commands,   \* commands recorded as sent
  receipts,   \* deliveries recorded as acknowledged
  task,       \* the handlers and the recovery
  activeTask, \* the task whose execution is registered, to be aborted by others
  snapshot,   \* whether a terminal snapshot is kept for the active task
  starts, runTroubles

durable == <<run, commands, receipts>>
service == <<remote, keys, deliveries>>
runtimeBounds == <<starts, runTroubles>>
runtimeVars == <<host, service, durable, task, activeTask, snapshot, runtimeBounds>>

Tasks == Handlers \cup {"recover"}
Terminal == {"result_returned", "cancelled", "declined"}
Over == {"succeeded", "failed", "cancelled"}
Resting == [pc |-> "idle", delivery |-> "offer", seen |-> "offered", fresh |-> TRUE, was |-> "received",
            token |-> 0, state |-> "received", result |-> NoResult, submits |-> FALSE, aborted |-> FALSE,
            then |-> "end"]

Goto(t, pc) == task' = [task EXCEPT ![t].pc = pc]
Aborted(t) == task[t].aborted \/ host = "closing"
Misfortune == runTroubles < MaxRunTroubles /\ runTroubles' = runTroubles + 1

-----------------------------------------------------------------------------
(* The state store: leases, fencing tokens and transitions of the run. *)

MayClaimRun(states) == run.state \in states /\ ~run.leased
OwnsLease(t) == run.leased /\ run.token = task[t].token
MayMove(t) == OwnsLease(t) /\ run.state = task[t].state

\* Task t moves the run on, or is told that it no longer may.
Transition(t, next, result, onward, otherwise) ==
  IF MayMove(t)
    THEN /\ run' = [run EXCEPT !.state = next, !.result = result]
         /\ task' = [task EXCEPT ![t].state = next, ![t].pc = onward]
    ELSE UNCHANGED run /\ Goto(t, otherwise)

ClaimedRun == [run EXCEPT !.token = @ + 1, !.leased = TRUE]

-----------------------------------------------------------------------------
(* issueCommand. *)

Applicable(c) ==
  CASE c = "accept" -> remote.life = "offered"
    [] c = "decline" -> remote.life = "offered"
    [] c = "status" -> remote.life = "accepted"
    [] c = "result" -> remote.life = "accepted"

Applied(c, result) ==
  /\ keys' = keys \cup {c}
  /\ remote' = CASE c = "accept" -> [remote EXCEPT !.life = "accepted"]
                 [] c = "decline" -> [remote EXCEPT !.life = "declined"]
                 [] c = "status" -> remote
                 [] c = "result" -> [life |-> "result_returned", result |-> result]
  /\ deliveries' = IF c \in {"decline", "result"} THEN deliveries \cup {"end"} ELSE deliveries

\* Bug: any conflict is taken for the echo of an earlier attempt.
EquivalentAlways(c, result) == TRUE

\* Whether the Handoff is as the command would have made it.
Equivalent(c, result) ==
  CASE c = "accept" -> remote.life \in {"accepted", "result_returned"}
    [] c = "decline" -> remote.life = "declined"
    [] c = "status" -> "status" \in keys
    [] c = "result" -> remote.life = "result_returned" /\ remote.result = result

Issues == {"accept", "decline", "status", "result"}
Sending ==
  [accept |-> "send accept", decline |-> "send decline",
   status |-> "send status", result |-> "send result"]
Rereading ==
  [accept |-> "read accept", decline |-> "read decline",
   status |-> "read status", result |-> "read result"]
Recording ==
  [accept |-> "note accept", decline |-> "note decline",
   status |-> "note status", result |-> "note result"]
Onward == [accept |-> "to accepted", decline |-> "end", status |-> "checkpoint", result |-> "to succeeded"]

\* A command on record is not sent again.  One sent under a key that is taken already, at
\* another version, is a conflict.  The answer to one that has been applied may be lost.
Send(t, c) ==
  /\ task[t].pc = Sending[c]
  /\ \/ c \in commands /\ Goto(t, Onward[c]) /\ UNCHANGED <<service, runTroubles>>
     \/ /\ c \notin commands /\ Applicable(c) /\ c \notin keys /\ Applied(c, task[t].result)
        /\ \/ Goto(t, Recording[c]) /\ UNCHANGED runTroubles
           \/ Aborted(t) /\ Goto(t, "catch") /\ UNCHANGED runTroubles
           \/ Misfortune /\ Goto(t, "catch")
     \/ /\ c \notin commands /\ ~(Applicable(c) /\ c \notin keys)
        /\ Goto(t, Rereading[c]) /\ UNCHANGED <<service, runTroubles>>
     \/ /\ c \notin commands /\ UNCHANGED service /\ Goto(t, "catch")
        /\ (Aborted(t) /\ UNCHANGED runTroubles) \/ Misfortune
  /\ UNCHANGED <<host, durable, activeTask, snapshot, starts>>

Reread(t, c) ==
  /\ task[t].pc = Rereading[c]
  /\ \/ /\ Goto(t, IF Equivalent(c, task[t].result) THEN Recording[c] ELSE "catch")
        /\ UNCHANGED runTroubles
     \/ Goto(t, "catch") /\ ((Aborted(t) /\ UNCHANGED runTroubles) \/ Misfortune)
  /\ UNCHANGED <<host, service, durable, activeTask, snapshot, starts>>

Record(t, c) ==
  /\ task[t].pc = Recording[c]
  /\ commands' = commands \cup {c}
  /\ Goto(t, Onward[c])
  /\ UNCHANGED <<host, service, run, receipts, activeTask, snapshot, runtimeBounds>>

Issue(t) == \E c \in Issues : Send(t, c) \/ Reread(t, c) \/ Record(t, c)

-----------------------------------------------------------------------------
(* handle. *)

\* A delivery that has not been acknowledged may be handed out again at any time.
Begin(t, d) ==
  /\ host = "up" /\ task["recover"].pc = "idle"
  /\ task[t].pc = "idle" /\ d \in deliveries
  /\ task' = [task EXCEPT ![t] = [Resting EXCEPT !.pc = "record", !.delivery = d, !.seen = remote.life]]
  /\ UNCHANGED <<host, service, durable, activeTask, snapshot, runtimeBounds>>

\* Bug: the run is created when the delivery has been acknowledged.
FirstRecordLate(t) ==
  IF run.state = "absent" /\ task[t].delivery \in receipts THEN [run EXCEPT !.state = "received"] ELSE run

\* createRunIfAbsent.
FirstRecord(t) == IF run.state = "absent" THEN [run EXCEPT !.state = "received"] ELSE run

\* The delivery and the run are recorded.
RecordDelivery(t) ==
  /\ task[t].pc = "record"
  /\ run' = FirstRecord(t)
  /\ task' = [task EXCEPT ![t].fresh = task[t].delivery \notin receipts, ![t].was = FirstRecord(t).state,
                          ![t].pc = IF task[t].seen \in Terminal THEN "terminal" ELSE "acknowledge"]
  /\ UNCHANGED <<host, service, commands, receipts, activeTask, snapshot, runtimeBounds>>

\* The Handoff is over: what is active is aborted, and the run brought to the same end,
\* with the claim of the task aborted or with one of its own.
ConvergeDelivered(t) ==
  /\ task[t].pc = "terminal"
  /\ IF activeTask # NoTask
       THEN /\ snapshot' = TRUE /\ UNCHANGED run
            /\ task' = [task EXCEPT ![activeTask].aborted = TRUE, ![t].token = task[activeTask].token,
                          ![t].state = run.state, ![t].then = "acknowledge",
                          ![t].pc = IF run.state \in Over THEN "acknowledge" ELSE "converge"]
       ELSE /\ snapshot' = FALSE
            /\ IF MayClaimRun({"received", "accepted", "running", "result_ready"})
                 THEN /\ run' = ClaimedRun
                      /\ task' = [task EXCEPT ![t].token = ClaimedRun.token, ![t].state = run.state,
                                    ![t].then = "acknowledge", ![t].pc = "converge"]
                 ELSE UNCHANGED run /\ Goto(t, "acknowledge")
  /\ UNCHANGED <<host, service, commands, receipts, activeTask, runtimeBounds>>

\* A service acknowledgement, after which the delivery is never seen again.
Acknowledge(t) ==
  /\ task[t].pc = "acknowledge"
  /\ \/ deliveries' = deliveries \ {task[t].delivery} /\ Goto(t, "mark") /\ UNCHANGED runTroubles
     \/ Misfortune /\ Goto(t, "end") /\ deliveries' \in {deliveries, deliveries \ {task[t].delivery}}
  /\ UNCHANGED <<host, remote, keys, durable, activeTask, snapshot, starts>>

\* The record is marked, and the policy decides on what was seen when the delivery came in.
Decide(t) ==
  /\ task[t].pc = "mark"
  /\ receipts' = receipts \cup {task[t].delivery}
  /\ task' = [task EXCEPT ![t] = [Resting EXCEPT !.token = task[t].token, !.pc =
                IF task[t].seen # "offered" \/ ~task[t].fresh THEN "end"
                ELSE IF task[t].was = "received" THEN "claim" ELSE Sending["decline"]]]
  /\ UNCHANGED <<host, service, run, commands, activeTask, snapshot, runtimeBounds>>

-----------------------------------------------------------------------------
(* claimAndRun and submitReadyResult. *)

\* Bug: the execution of an earlier claim is left running.
TakeOverLax(t) == [task EXCEPT ![t].token = ClaimedRun.token, ![t].state = run.state, ![t].pc = "load"]

TakeOver(t) ==
  [u \in Tasks |->
     IF u = t THEN [task[t] EXCEPT !.token = ClaimedRun.token, !.state = run.state, !.pc = "load"]
     ELSE IF u = activeTask THEN [task[u] EXCEPT !.aborted = TRUE] ELSE task[u]]

Claim(t) ==
  /\ task[t].pc = "claim"
  /\ IF ~MayClaimRun({"received", "accepted", "running", "result_ready"})
       THEN Goto(t, "end") /\ UNCHANGED <<run, activeTask>>
       ELSE /\ run' = ClaimedRun
            /\ IF run.state = "result_ready"
                 THEN /\ task' = [task EXCEPT ![t].token = ClaimedRun.token, ![t].state = "result_ready",
                                    ![t].result = run.result, ![t].submits = TRUE, ![t].pc = Sending["result"]]
                      /\ UNCHANGED activeTask
                 ELSE task' = TakeOver(t) /\ activeTask' = t
  /\ UNCHANGED <<host, service, commands, receipts, snapshot, runtimeBounds>>

\* What an accepted run goes on with.
Begun == IF run.reported THEN "to running" ELSE Sending["status"]

LoadHandoff(t) ==
  /\ task[t].pc = "load"
  /\ \/ /\ ~Aborted(t) /\ UNCHANGED runTroubles
        /\ Goto(t, CASE task[t].state = "received" -> Sending["accept"]
                     [] task[t].state = "accepted" -> Begun
                     [] task[t].state = "running" -> "execute")
     \/ Goto(t, "catch") /\ ((Aborted(t) /\ UNCHANGED runTroubles) \/ Misfortune)
  /\ UNCHANGED <<host, service, durable, activeTask, snapshot, starts>>

\* The transitions of a run that goes well.
Move(t) ==
  /\ \/ task[t].pc = "to accepted" /\ Transition(t, "accepted", run.result, Begun, "catch")
     \/ task[t].pc = "to running" /\ Transition(t, "running", run.result, "execute", "catch")
     \/ task[t].pc = "to succeeded" /\ Transition(t, "succeeded", run.result, "end", "catch")
  /\ UNCHANGED <<host, service, commands, receipts, activeTask, snapshot, runtimeBounds>>

\* The first progress report is sent once and checkpointed.
CheckpointReported(t) ==
  /\ task[t].pc = "checkpoint"
  /\ IF OwnsLease(t) /\ ~run.reported
       THEN run' = [run EXCEPT !.reported = TRUE] /\ Goto(t, "to running")
       ELSE UNCHANGED run /\ Goto(t, "catch")
  /\ UNCHANGED <<host, service, commands, receipts, activeTask, snapshot, runtimeBounds>>

\* The driver is called, unless the signal it is called with has been aborted.
Execute(t) ==
  /\ task[t].pc = "execute"
  /\ Goto(t, IF Aborted(t) THEN "catch" ELSE "executing")
  /\ UNCHANGED <<host, service, durable, activeTask, snapshot, runtimeBounds>>

\* It ends with a result, even if aborted meanwhile, or fails.
Executed(t) ==
  /\ task[t].pc = "executing"
  /\ \/ \E r \in Results : task' = [task EXCEPT ![t].result = r, ![t].pc = "capture"]
        /\ UNCHANGED runTroubles
     \/ Goto(t, "catch") /\ ((Aborted(t) /\ UNCHANGED runTroubles) \/ Misfortune)
  /\ UNCHANGED <<host, service, durable, activeTask, snapshot, starts>>

Capture(t) ==
  /\ task[t].pc = "capture"
  /\ Transition(t, "result_ready", task[t].result, Sending["result"], "catch")
  /\ UNCHANGED <<host, service, commands, receipts, activeTask, snapshot, runtimeBounds>>

-----------------------------------------------------------------------------
(* The ways out. *)

\* A captured result is kept for a later owner if only its submission failed.  Otherwise
\* the remote Handoff is looked at, from a snapshot delivered or by a query (which a host
\* that is closing cannot make).
Catch(t) ==
  /\ task[t].pc = "catch"
  /\ IF task[t].state = "result_ready" /\ ~task[t].submits /\ ~Aborted(t)
       THEN Goto(t, "end") /\ UNCHANGED <<snapshot, runTroubles>>
       ELSE /\ snapshot' = FALSE
            /\ \/ /\ snapshot \/ host # "closing"
                  /\ IF remote.life \notin Terminal THEN Goto(t, "give up")
                     ELSE IF run.state \in Over THEN Goto(t, "end")
                     ELSE task' = [task EXCEPT ![t].pc = "converge", ![t].state = run.state, ![t].then = "end"]
                  /\ UNCHANGED runTroubles
               \/ /\ ~snapshot /\ Goto(t, "give up")
                  /\ (host = "closing" /\ UNCHANGED runTroubles) \/ Misfortune
  /\ UNCHANGED <<host, service, durable, activeTask, starts>>

\* tryTransition: the run ends, if the task may still say so.
GiveUp(t) ==
  /\ task[t].pc = "give up"
  /\ IF task[t].submits THEN Goto(t, "end") /\ UNCHANGED run
     ELSE Transition(t, IF Aborted(t) THEN "cancelled" ELSE "failed", run.result, "end", "end")
  /\ UNCHANGED <<host, service, commands, receipts, activeTask, snapshot, runtimeBounds>>

\* convergeTerminalClaim, one transition at a time: to the result returned, or cancelled.
Converge(t) ==
  LET forward == [received |-> "accepted", accepted |-> "running", running |-> "result_ready",
                  result_ready |-> "succeeded"]
      next == IF remote.life = "result_returned" THEN forward[task[t].state] ELSE "cancelled"
      result == IF next = "result_ready" THEN remote.result ELSE run.result
      lost == IF task[t].then = "acknowledge" THEN "end" ELSE "give up"
  IN
  /\ task[t].pc = "converge"
  /\ Transition(t, next, result, IF next \in Over THEN task[t].then ELSE "converge", lost)
  /\ UNCHANGED <<host, service, commands, receipts, activeTask, snapshot, runtimeBounds>>

End(t) ==
  /\ task[t].pc = "end"
  /\ task' = [task EXCEPT ![t] = Resting]
  /\ activeTask' = IF activeTask = t THEN NoTask ELSE activeTask
  /\ snapshot' = (snapshot /\ activeTask # t)
  /\ UNCHANGED <<host, service, durable, runtimeBounds>>

-----------------------------------------------------------------------------
(* The process, the lease, and the owner of the Handoff. *)

\* Nothing is delivered until recovery is done.
StartHost ==
  /\ host = "down" /\ starts < MaxStarts
  /\ host' = "up" /\ starts' = starts + 1
  /\ Goto("recover", "recover")
  /\ UNCHANGED <<service, durable, activeTask, snapshot, runTroubles>>

\* recover, once per start: only a run whose lease has lapsed is looked at.
Recover ==
  LET t == "recover" IN
  /\ task[t].pc = "recover"
  /\ IF run.leased \/ run.state \in Over \cup {"absent"} \/ host = "closing"
       THEN Goto(t, "end") /\ UNCHANGED run
     ELSE IF remote.life \in Terminal
       THEN /\ run' = ClaimedRun
            /\ task' = [task EXCEPT ![t].pc = "converge", ![t].token = ClaimedRun.token,
                          ![t].state = run.state, ![t].then = "end"]
     ELSE UNCHANGED run /\ Goto(t, IF run.state = "result_ready" \/ remote.life = "accepted"
                                       \/ run.state = "received" THEN "claim" ELSE "end")
  /\ UNCHANGED <<host, service, commands, receipts, activeTask, snapshot, runtimeBounds>>

CloseHost ==
  /\ host = "up" /\ host' = "closing"
  /\ UNCHANGED <<service, durable, task, activeTask, snapshot, runtimeBounds>>

\* The end of the grace period, or a crash.
Down ==
  /\ host # "down" /\ host' = "down"
  /\ task' = [t \in Tasks |-> Resting] /\ activeTask' = NoTask /\ snapshot' = FALSE
  /\ UNCHANGED <<service, durable, runtimeBounds>>

LapseRun ==
  /\ run.leased /\ run' = [run EXCEPT !.leased = FALSE]
  /\ IF \E t \in Tasks : OwnsLease(t) THEN Misfortune ELSE UNCHANGED runTroubles
  /\ UNCHANGED <<host, service, commands, receipts, task, activeTask, snapshot, starts>>

\* A renewal that fails, or is refused, aborts the execution.
RenewalFails(t) ==
  /\ activeTask = t /\ ~task[t].aborted
  /\ IF OwnsLease(t) THEN Misfortune ELSE UNCHANGED runTroubles
  /\ task' = [task EXCEPT ![t].aborted = TRUE]
  /\ UNCHANGED <<host, service, durable, activeTask, snapshot, starts>>

Withdraw ==
  /\ remote.life \in {"offered", "accepted"}
  /\ remote' = [remote EXCEPT !.life = "cancelled"] /\ deliveries' = deliveries \cup {"end"}
  /\ UNCHANGED <<host, keys, durable, task, activeTask, snapshot, runtimeBounds>>

RuntimeInit ==
  /\ host = "down"
  /\ remote = [life |-> "offered", result |-> NoResult] /\ keys = {} /\ deliveries = {"offer"}
  /\ run = [state |-> "absent", token |-> 0, leased |-> FALSE, reported |-> FALSE, result |-> NoResult]
  /\ commands = {} /\ receipts = {}
  /\ task = [t \in Tasks |-> Resting] /\ activeTask = NoTask /\ snapshot = FALSE
  /\ starts = 0 /\ runTroubles = 0

TaskStep(t) ==
  \/ RecordDelivery(t) \/ ConvergeDelivered(t) \/ Acknowledge(t) \/ Decide(t)
  \/ Claim(t) \/ LoadHandoff(t) \/ Issue(t) \/ Move(t) \/ CheckpointReported(t)
  \/ Execute(t) \/ Executed(t) \/ Capture(t) \/ Catch(t) \/ GiveUp(t) \/ Converge(t) \/ End(t)
  \/ RenewalFails(t)

RuntimeNext ==
  \/ StartHost \/ Recover \/ CloseHost \/ Down \/ LapseRun \/ Withdraw
  \/ \E t \in Handlers, d \in {"offer", "end"} : Begin(t, d)
  \/ \E t \in Tasks : TaskStep(t)

RuntimeSpec == RuntimeInit /\ [][RuntimeNext]_runtimeVars
-----------------------------------------------------------------------------
(* Properties. *)

RuntimeHostTypeOK ==
  /\ host \in {"down", "up", "closing"}
  /\ remote.life \in {"offered", "accepted"} \cup Terminal /\ deliveries \subseteq {"offer", "end"}
  /\ run.state \in {"absent", "received", "accepted", "running", "result_ready"} \cup Over
  /\ run.result \in Results \cup {NoResult}
  /\ commands \subseteq keys
  /\ activeTask = NoTask \/ task[activeTask].token <= run.token

\* However often the work was executed, the result returned is the one captured, and the
\* run succeeds only with the result that was returned.
ResultsAgree ==
  /\ remote.result # NoResult => run.result = remote.result
  /\ run.state = "succeeded" => remote.life = "result_returned" /\ run.result = remote.result

\* runtime-host.ts:219-221: the run is created before the acknowledgement, so that a crash
\* in between leaves durable custody: an offer that will not be seen again has its run.
AckedIsHeld == "offer" \notin deliveries => run.state # "absent"

\* agently-agent-runtime-adapter-design.md: one logical run and no concurrent duplicate
\* execution; once a validated result is captured, no restart calls the model again.
ExecutedOnce ==
  /\ Cardinality({t \in Tasks : task[t].pc = "executing" /\ ~Aborted(t)}) <= 1
  /\ run.result # NoResult => \A t \in Tasks : task[t].pc = "executing" => Aborted(t)

\* runtime-host.ts:540-541: only an authoritative terminal Delivery is allowed to dispose of
\* result_ready.
CapturedResultKept ==
  run.result # NoResult /\ run.state \in {"failed", "cancelled"} => remote.life \in Terminal
=============================================================================
