------------------------------ MODULE Recovery ------------------------------
(***************************************************************************)
(* Recovery requests of operators, worked off beside the connector: a      *)
(* request names a dead-lettered ingress and the version, its attempts, at *)
(* which the operator saw it.  A worker claims the request, looks at the   *)
(* ingress, requeues it, and records the outcome, each in a call of its    *)
(* own.  Nothing joins the look and the requeue.                           *)
(***************************************************************************)
EXTENDS ConnectorIngress

CONSTANTS
  Requests,        \* by their idempotency keys
  RecoveryWorkers,
  MaxPauses        \* bound: claims of requests that lapse under their worker, or crash with it

ASSUME RecoveryAssumption == MaxPauses \in Nat

VARIABLES
  recovery,        \* the record of each request
  operator,        \* what each recovery worker is doing
  pauses

recoveryVars == <<ingressVars, recovery, operator, pauses>>

NoRequest == [state |-> "absent", id |-> "none", expected |-> 0, token |-> 0, leased |-> FALSE]
AtLeisure == [pc |-> "idle", request |-> "none", token |-> 0]

Submit(r, i) ==
  /\ recovery[r].state = "absent" /\ ingress[i].state = "dead_letter"
  /\ recovery' = [recovery EXCEPT ![r] =
       [NoRequest EXCEPT !.state = "pending", !.id = i, !.expected = ingress[i].attempt]]
  /\ UNCHANGED <<ingressVars, operator, pauses>>

\* Bug: a request that its worker left behind is not claimed again.
RequestOpenOnce(r) == recovery[r].state = "pending"

RequestOpen(r) ==
  \/ recovery[r].state = "pending"
  \/ recovery[r].state = "processing" /\ ~recovery[r].leased

ClaimRequest(v, r) ==
  /\ operator[v].pc = "idle" /\ RequestOpen(r)
  /\ recovery' = [recovery EXCEPT ![r].state = "processing", ![r].token = @ + 1, ![r].leased = TRUE]
  /\ operator' = [operator EXCEPT ![v] = [pc |-> "look", request |-> r, token |-> recovery[r].token + 1]]
  /\ UNCHANGED <<ingressVars, pauses>>

RequestOf(v) == recovery[operator[v].request]
Does(v, pc) == operator' = [operator EXCEPT ![v].pc = pc]

\* The version of a requeue is the number of attempts.
LookAtIngress(v) ==
  /\ operator[v].pc = "look"
  /\ Does(v, IF ingress[RequestOf(v).id].attempt = RequestOf(v).expected THEN "requeue" ELSE "fail")
  /\ UNCHANGED <<ingressVars, recovery, pauses>>

IsDead(i) == ingress[i].state = "dead_letter"

\* The attempts stay as they are: the next failure is the last.
Requeue(v) ==
  LET i == RequestOf(v).id IN
  /\ operator[v].pc = "requeue"
  /\ IF IsDead(i)
       THEN /\ ingress' = [ingress EXCEPT ![i].state = "retry_wait", ![i].due = FALSE]
            /\ refused' = refused \ {i}
            /\ Does(v, "complete")
       ELSE UNCHANGED <<ingress, refused>> /\ Does(v, "fail")
  /\ UNCHANGED <<worker, effects, receiptsKept, connectorTroubles, recovery, pauses>>

\* Only the claim as it is can record the outcome: a completion refused is tried as a
\* failure, and a failure refused is let go.
Finish(v) ==
  LET r == operator[v].request
      mine == /\ recovery[r].state = "processing" /\ recovery[r].leased
              /\ recovery[r].token = operator[v].token IN
  /\ operator[v].pc \in {"complete", "fail"}
  /\ IF mine
       THEN recovery' = [recovery EXCEPT ![r].leased = FALSE,
              ![r].state = IF operator[v].pc = "complete" THEN "completed" ELSE "failed"]
       ELSE UNCHANGED recovery
  /\ operator' = [operator EXCEPT ![v] =
       IF ~mine /\ operator[v].pc = "complete" THEN [@ EXCEPT !.pc = "fail"] ELSE AtLeisure]
  /\ UNCHANGED <<ingressVars, pauses>>

Pauses == pauses < MaxPauses /\ pauses' = pauses + 1

CrashOperator(v) ==
  /\ operator[v].pc # "idle" /\ Pauses
  /\ operator' = [operator EXCEPT ![v] = AtLeisure]
  /\ UNCHANGED <<ingressVars, recovery>>

LapseRequest(r) ==
  /\ recovery[r].leased
  /\ recovery' = [recovery EXCEPT ![r].leased = FALSE]
  /\ IF \E v \in RecoveryWorkers : operator[v].request = r /\ operator[v].token = recovery[r].token
       THEN Pauses ELSE UNCHANGED pauses
  /\ UNCHANGED <<ingressVars, operator>>

-----------------------------------------------------------------------------
RecoveryInit ==
  /\ ConnectorInit
  /\ recovery = [r \in Requests |-> NoRequest]
  /\ operator = [v \in RecoveryWorkers |-> AtLeisure]
  /\ pauses = 0

OperatorStep(v) ==
  (\E r \in Requests : ClaimRequest(v, r)) \/ LookAtIngress(v) \/ Requeue(v) \/ Finish(v)

RecoveryNext ==
  \/ ConnectorNext /\ UNCHANGED <<recovery, operator, pauses>>
  \/ \E r \in Requests : LapseRequest(r) \/ \E i \in Ingresses : Submit(r, i)
  \/ \E v \in RecoveryWorkers : OperatorStep(v) \/ CrashOperator(v)

RecoverySpec == RecoveryInit /\ [][RecoveryNext]_recoveryVars

RecoveryFairness ==
  /\ ConnectorFairness
  /\ \A v \in RecoveryWorkers : WF_recoveryVars(OperatorStep(v))
  /\ \A r \in Requests : WF_recoveryVars(LapseRequest(r))

RecoveryFairSpec == RecoverySpec /\ RecoveryFairness
-----------------------------------------------------------------------------
(* Properties. *)

RecoveryTypeOK ==
  /\ ConnectorTypeOK
  /\ \A r \in Requests :
       /\ recovery[r].state \in {"absent", "pending", "processing", "completed", "failed"}
       /\ recovery[r].leased => recovery[r].state = "processing"
  /\ \A v \in RecoveryWorkers : operator[v].pc = "idle" \/ operator[v].request \in Requests

\* Every recovery request gets an outcome, whatever crashes or lapses.
EveryRequestEnds ==
  \A r \in Requests : recovery[r].state = "pending" ~> recovery[r].state \in {"completed", "failed"}
=============================================================================
