----------------------------- MODULE MCRuntime ------------------------------
(***************************************************************************)
(* Instances of the components around the Exchange for TLC.  They share no *)
(* state, so a behaviour is about one of them, the focus; the others stay  *)
(* in their initial state.                                                 *)
(***************************************************************************)
EXTENDS ClusterHost, Projection, Recovery, AgentGateway, RuntimeHost, CalendarExecutor,
        PostgresCommit, TLC

CONSTANT Focus

ASSUME FocusAssumption == Focus \subseteq
  {"commit", "host", "projection", "recovery", "gateway", "runtime", "restart", "deletion",
   "tombstone", "attendance", "outside"}

VARIABLE focus

CONSTANTS a1, a2, b1, d1, ta, tb, td,        \* items and tenants of the host
          x1, x2, u1, u2,                    \* Handoffs and turns of a partition
          i1, i2,                            \* ingresses
          g1, g2,                            \* gateways
          h1,                                \* a handler
          create, update, attendees, delete, \* executions
          redelete,                          \* a deletion at the next version
          transfer, accept, cancel,          \* commits
          parent, child                      \* streams

\* Two items of one tenant, one of each of two others.
ItemTenant == [i \in Items |-> IF i = b1 THEN tb ELSE IF i = d1 THEN td ELSE ta]
TenantOrder == <<ta, tb, td>>
Listing == <<a1, a2, b1, d1>>

TwoHandoffs == <<x1, x2, x1>>

\* A command, and one that is ignored.
Kinds == [i \in Ingresses |-> IF i = i1 THEN "command" ELSE "ignored"]

\* The first gateway can open, renew, drain and close, with one call less to send again.
Calls == [g \in Gateways |-> IF g = g1 THEN 3 ELSE 1]

\* An event is created, then updated, given attendees and deleted at its first version, or
\* deleted at its second.
Operation ==
  [x \in Executions |-> CASE x = create -> "create" [] x = update -> "update"
                          [] x = attendees -> "attendees" [] x \in {delete, redelete} -> "delete"]
OneEvent == [x \in Executions |-> "event"]
SeenVersion == [x \in Executions |-> IF x = redelete THEN 2 ELSE 1]

\* Four instances of the calendar: the executions that are begun in each.
ExecutionsIn ==
  [deletion |-> {create, update, delete}, tombstone |-> {create, update, delete, redelete},
   attendance |-> {create, update, attendees}, outside |-> {create, update}]

\* A transfer checks the version of the parent and creates the child; the accept of the
\* child appends to both; a cancel of the parent comes with the key of the accept.
CommitKey == [c \in Commits |-> IF c = transfer THEN "k1" ELSE "k2"]
CommitDigest == [c \in Commits |-> IF c = cancel THEN "d2" ELSE "d1"]
OnePartition == [c \in Commits |-> "p"]
ParentChecked == [c \in Commits |-> IF c = transfer THEN {parent} ELSE {}]
EventsAppended ==
  [c \in Commits |-> IF c = transfer THEN <<child>>
                     ELSE IF c = accept THEN <<child, parent>> ELSE <<parent>>]
ParentFirst == [s \in Streams |-> IF s = parent THEN 1 ELSE 2]

-----------------------------------------------------------------------------
vars == <<commitVars, hostVars, projectionVars, recoveryVars, gatewayVars, runtimeVars, calendarVars,
          focus>>

Init ==
  /\ focus \in Focus
  /\ CommitInit /\ HostInit /\ ProjectionInit /\ RecoveryInit /\ GatewayInit /\ RuntimeInit /\ CalendarInit
  /\ focus # "projection" => projector = "handoff"
  /\ focus # "host" => ready = {}

AllBut(f) ==
  /\ UNCHANGED focus
  /\ f # "commit" => UNCHANGED commitVars
  /\ f # "host" => UNCHANGED hostVars
  /\ f # "projection" => UNCHANGED projectionVars
  /\ f # "recovery" => UNCHANGED recoveryVars
  /\ f # "gateway" => UNCHANGED gatewayVars
  /\ f # "runtime" => UNCHANGED runtimeVars
  /\ f # "calendar" => UNCHANGED calendarVars

\* Two instances of the agent runtime: two handlers under one start, one over all starts.
OfRuntime ==
  \/ focus = "runtime" /\ starts' <= 1
  \/ focus = "restart" /\ \A t \in Handlers : task'[t] # Resting => t = h1

\* Only in the last of them is the event changed by others; with two deletions attempts are
\* made one after the other.
OfInstance ==
  /\ \A x \in Executions \ ExecutionsIn[focus] : execution'[x] = execution[x]
  /\ focus # "outside" => outsideChanges' = 0
  /\ focus = "tombstone" => \A a, b \in Attempts : AtEase \in {attempt'[a], attempt'[b]} \/ a = b

Next ==
  \/ focus = "commit" /\ CommitNext /\ AllBut("commit")
  \/ focus = "host" /\ HostNext /\ AllBut("host")
  \/ focus = "projection" /\ ProjectionNext /\ AllBut("projection")
  \/ focus = "recovery" /\ RecoveryNext /\ AllBut("recovery")
  \/ focus = "gateway" /\ GatewayNext /\ AllBut("gateway")
  \/ focus \in {"runtime", "restart"} /\ RuntimeNext /\ OfRuntime /\ AllBut("runtime")
  \/ focus \in DOMAIN ExecutionsIn /\ CalendarNext /\ OfInstance /\ AllBut("calendar")

Spec == Init /\ [][Next]_vars

\* What tells the states of a focus apart.
View ==
  CASE focus = "commit" -> <<focus, commitVars>>
    [] focus = "host" -> <<focus, hostVars>>
    [] focus = "projection" -> <<focus, projectionVars>>
    [] focus = "recovery" -> <<focus, recoveryVars>> [] focus = "gateway" -> <<focus, gatewayVars>>
    [] focus \in {"runtime", "restart"} -> <<focus, runtimeVars>> [] OTHER -> <<focus, calendarVars>>

-----------------------------------------------------------------------------
\* The types of the component at work.
RuntimeTypeOK ==
  CASE focus = "commit" -> CommitTypeOK
    [] focus = "host" -> HostTypeOK
    [] focus = "projection" -> ProjectionTypeOK
    [] focus = "recovery" -> RecoveryTypeOK
    [] focus = "gateway" -> GatewayTypeOK
    [] focus \in {"runtime", "restart"} -> RuntimeHostTypeOK
    [] OTHER -> CalendarTypeOK
=============================================================================
