-------------------------- MODULE ConnectorIngress --------------------------
(***************************************************************************)
(* What connectors receive, from its durable acceptance to its end: each   *)
(* ingress is claimed, in batches, by workers that map it, pass it on to   *)
(* the Exchange or to the observation sink, and settle the claim.  A claim *)
(* is a lease with a token: it may lapse under its worker, which finds out *)
(* at its next call of the store.  Workers crash, calls fail or lose their *)
(* answer, and retries are bounded by the attempts, which claims count.    *)
(***************************************************************************)
EXTENDS Integers, Sequences, FiniteSets, SequencesExt

CONSTANTS
  Ingresses,          \* by their dedupe keys
  KindOf,             \* what each is mapped to: "command", "observation" or "ignored"
  ConnectorWorkers,   \* workers of one connector
  BatchLimit, MaxAttempts,
  KeepsReceipts,      \* whether the worker has an accepted_receipt_handler
  MaxConnectorTroubles, \* bound: crashes, failed calls, claims that lapse under their worker
  MaxRefusals         \* bound: refusals for good

ASSUME ConnectorAssumption ==
  /\ IsFiniteSet(Ingresses)
  /\ KindOf \in [Ingresses -> {"command", "observation", "ignored"}]
  /\ BatchLimit \in Nat \ {0} /\ MaxAttempts \in Nat \ {0} /\ KeepsReceipts \in BOOLEAN
  /\ MaxConnectorTroubles \in Nat /\ MaxRefusals \in Nat

VARIABLES
  ingress,     \* the record of each ingress
  worker,      \* what each worker is doing, and the claims of its batch
  effects,     \* ingresses whose command or observation the sink has accepted
  receiptsKept, \* ingresses whose accepted command is on record
  refused,     \* history: ingresses refused for good, until they are requeued
  connectorTroubles

ingressVars == <<ingress, worker, effects, receiptsKept, refused, connectorTroubles>>
outside == <<effects, receiptsKept, refused>>

NoIngress == [state |-> "absent", attempt |-> 0, token |-> 0, leased |-> FALSE, due |-> FALSE]
NoBatch == [pc |-> "idle", batch |-> <<>>, again |-> FALSE]

-----------------------------------------------------------------------------
(* The store. *)

\* A second delivery under the same dedupe key is answered duplicate, or conflict.
AcceptIngress(i) ==
  /\ ingress[i].state = "absent"
  /\ ingress' = [ingress EXCEPT ![i] = [NoIngress EXCEPT !.state = "pending", !.due = TRUE]]
  /\ UNCHANGED <<worker, outside, connectorTroubles>>

\* The delay of a retry is over.
ComesDue(i) ==
  /\ ingress[i].state = "retry_wait" /\ ~ingress[i].due
  /\ ingress' = [ingress EXCEPT ![i].due = TRUE]
  /\ UNCHANGED <<worker, outside, connectorTroubles>>

\* Bug: an ingress whose worker is gone is left to it.
EligibleUnleased(i) == ingress[i].state \in {"pending", "retry_wait"} /\ ingress[i].due

Eligible(i) ==
  \/ ingress[i].state \in {"pending", "retry_wait"} /\ ingress[i].due
  \/ ingress[i].state = "processing" /\ ~ingress[i].leased

ClaimedIngress(i) ==
  [state |-> "processing", attempt |-> ingress[i].attempt + 1, token |-> ingress[i].token + 1,
   leased |-> TRUE, due |-> FALSE]

\* Bug: the claim is known by its ingress alone.
IsMineByIngress(c) == ingress[c.id].state = "processing" /\ ingress[c.id].leased

\* requireClaim
IsMine(c) ==
  /\ ingress[c.id].state = "processing" /\ ingress[c.id].leased
  /\ ingress[c.id].token = c.token

Settled(i, state) ==
  [ingress EXCEPT ![i].state = state, ![i].leased = FALSE, ![i].due = FALSE]

-----------------------------------------------------------------------------
(* The worker. *)

Trips == connectorTroubles < MaxConnectorTroubles /\ connectorTroubles' = connectorTroubles + 1
Smoothly == UNCHANGED connectorTroubles

Mine(w) == Head(worker[w].batch)
Goes(w, pc) == worker' = [worker EXCEPT ![w].pc = pc]
Failing(w, again) == worker' = [worker EXCEPT ![w].pc = "fail", ![w].again = again]
Drops(w) == worker' = [worker EXCEPT ![w] = NoBatch]
Finishes(w) ==
  IF Len(worker[w].batch) = 1 THEN Drops(w)
  ELSE worker' = [worker EXCEPT ![w] = [pc |-> "map", batch |-> Tail(@.batch), again |-> FALSE]]

\* A claim counts as an attempt, whatever becomes of it.
ClaimBatch(w) ==
  /\ worker[w].pc = "idle"
  /\ LET open == {i \in Ingresses : Eligible(i)}
         n == IF Cardinality(open) < BatchLimit THEN Cardinality(open) ELSE BatchLimit IN
     /\ open # {}
     /\ \E some \in {s \in SUBSET open : Cardinality(s) = n} :
        \E order \in SetToSeqs(some) :
          /\ ingress' = [i \in Ingresses |-> IF i \in some THEN ClaimedIngress(i) ELSE ingress[i]]
          /\ worker' = [worker EXCEPT ![w] = [pc |-> "map", again |-> FALSE,
               batch |-> [k \in 1..n |-> [id |-> order[k], token |-> ClaimedIngress(order[k]).token,
                                          attempt |-> ClaimedIngress(order[k]).attempt]]]]
  /\ UNCHANGED <<outside, connectorTroubles>>

\* A refusal for good is not tried again; a failure is.
Refuses(w) ==
  /\ Cardinality(refused) < MaxRefusals
  /\ refused' = refused \cup {Mine(w).id} /\ Failing(w, FALSE) /\ Smoothly
Breaks(w) == Trips /\ Failing(w, TRUE) /\ UNCHANGED refused

MapIngress(w) ==
  /\ worker[w].pc = "map"
  /\ \/ /\ Goes(w, IF KindOf[Mine(w).id] = "ignored" THEN "complete" ELSE "renew")
        /\ UNCHANGED refused /\ Smoothly
     \/ Refuses(w) \/ Breaks(w)
  /\ UNCHANGED <<ingress, effects, receiptsKept>>

\* The lease is renewed before each side effect; a worker that has lost it stops, and
\* drops the rest of its batch.
RenewClaimOf(w) ==
  /\ worker[w].pc \in {"renew", "renew for receipt"}
  /\ \/ /\ IF IsMine(Mine(w)) THEN Goes(w, IF worker[w].pc = "renew" THEN "effect" ELSE "receipt")
           ELSE Drops(w)
        /\ UNCHANGED refused /\ Smoothly
     \/ Breaks(w)
  /\ UNCHANGED <<ingress, effects, receiptsKept>>

\* The sink takes a command twice under one idempotency key as once.  A call that fails
\* may have had its effect.
TakeEffect(w) ==
  LET i == Mine(w).id
      next == IF KindOf[i] = "command" /\ KeepsReceipts THEN "renew for receipt" ELSE "complete" IN
  /\ worker[w].pc = "effect"
  /\ \/ effects' = effects \cup {i} /\ Goes(w, next) /\ UNCHANGED refused /\ Smoothly
     \/ Breaks(w) /\ effects' \in {effects, effects \cup {i}}
     \/ Refuses(w) /\ UNCHANGED effects
  /\ UNCHANGED <<ingress, receiptsKept>>

KeepReceipt(w) ==
  /\ worker[w].pc = "receipt"
  /\ \/ /\ receiptsKept' = receiptsKept \cup {Mine(w).id}
        /\ Goes(w, "complete") /\ UNCHANGED refused /\ Smoothly
     \/ Breaks(w) /\ receiptsKept' \in {receiptsKept, receiptsKept \cup {Mine(w).id}}
     \/ Refuses(w) /\ UNCHANGED receiptsKept
  /\ UNCHANGED <<ingress, effects>>

\* If the store's answer is lost, the failure that follows finds the claim gone.
CompleteIngress(w) ==
  LET c == Mine(w) IN
  /\ worker[w].pc = "complete"
  /\ \/ /\ IsMine(c) /\ ingress' = Settled(c.id, "completed") /\ Finishes(w) /\ Smoothly
     \/ ~IsMine(c) /\ Drops(w) /\ UNCHANGED ingress /\ Smoothly
     \/ /\ Trips /\ Failing(w, TRUE)
        /\ ingress' \in {ingress, IF IsMine(c) THEN Settled(c.id, "completed") ELSE ingress}
  /\ UNCHANGED outside

\* Bug: the last attempt is not made.
IsExhaustedEarly(c) == c.attempt + 1 >= MaxAttempts

IsExhausted(c) == c.attempt >= MaxAttempts

SettleFailure(w) ==
  LET c == Mine(w)
      end == IF ~worker[w].again \/ IsExhausted(c) THEN "dead_letter" ELSE "retry_wait" IN
  /\ worker[w].pc = "fail"
  /\ \/ IsMine(c) /\ ingress' = Settled(c.id, end) /\ Finishes(w) /\ Smoothly
     \/ ~IsMine(c) /\ Drops(w) /\ UNCHANGED ingress /\ Smoothly
     \/ Trips /\ Drops(w) /\ ingress' \in {ingress, IF IsMine(c) THEN Settled(c.id, end) ELSE ingress}
  /\ UNCHANGED outside

CrashWorker(w) ==
  /\ worker[w].pc # "idle" /\ Trips /\ Drops(w)
  /\ UNCHANGED <<ingress, outside>>

\* A lease lapses, behind a worker that is gone or under one at work.
LapseClaim(i) ==
  /\ ingress[i].state = "processing" /\ ingress[i].leased
  /\ ingress' = [ingress EXCEPT ![i].leased = FALSE]
  /\ IF \E w \in ConnectorWorkers : \E k \in DOMAIN worker[w].batch :
          worker[w].batch[k].id = i /\ worker[w].batch[k].token = ingress[i].token
       THEN Trips ELSE Smoothly
  /\ UNCHANGED <<worker, outside>>

-----------------------------------------------------------------------------
ConnectorInit ==
  /\ ingress = [i \in Ingresses |-> NoIngress]
  /\ worker = [w \in ConnectorWorkers |-> NoBatch]
  /\ effects = {} /\ receiptsKept = {} /\ refused = {} /\ connectorTroubles = 0

WorkerStep(w) ==
  \/ ClaimBatch(w) \/ MapIngress(w) \/ RenewClaimOf(w) \/ TakeEffect(w) \/ KeepReceipt(w)
  \/ CompleteIngress(w) \/ SettleFailure(w)

ConnectorNext ==
  \/ \E i \in Ingresses : AcceptIngress(i) \/ ComesDue(i) \/ LapseClaim(i)
  \/ \E w \in ConnectorWorkers : WorkerStep(w) \/ CrashWorker(w)

\* Workers are scheduled and their calls return; delays and leases run out.
ConnectorFairness ==
  /\ \A w \in ConnectorWorkers : WF_ingressVars(WorkerStep(w))
  /\ \A i \in Ingresses : WF_ingressVars(ComesDue(i)) /\ WF_ingressVars(LapseClaim(i))
-----------------------------------------------------------------------------
(* Properties. *)

ConnectorTypeOK ==
  /\ \A i \in Ingresses :
       /\ ingress[i].state \in {"absent", "pending", "processing", "retry_wait", "completed", "dead_letter"}
       /\ ingress[i].token = ingress[i].attempt
       /\ ingress[i].leased => ingress[i].state = "processing"
  /\ \A w \in ConnectorWorkers : worker[w].pc = "idle" <=> worker[w].batch = <<>>
  /\ effects \subseteq Ingresses /\ receiptsKept \subseteq effects

\* An ingress that is completed had its effect, and its receipt if receipts are kept,
\* whatever was retried, lost or fenced on the way; one that is dead-lettered was refused
\* for good or has used up its attempts.
IngressVerdicts ==
  \A i \in Ingresses :
    /\ ingress[i].state = "completed" =>
         /\ KindOf[i] # "ignored" => i \in effects
         /\ KindOf[i] = "command" /\ KeepsReceipts => i \in receiptsKept
    /\ ingress[i].state = "dead_letter" => i \in refused \/ ingress[i].attempt >= MaxAttempts

\* Connector design, section 4.2: a stale worker can perform no state transition after
\* lease recovery.  Until the worker that holds the latest claim of an ingress has tried
\* to settle it, the ingress is neither completed, nor retried, nor dead-lettered.
HeldIsUnsettled ==
  \A w \in ConnectorWorkers : \A k \in DOMAIN worker[w].batch :
    LET c == worker[w].batch[k] IN
    ingress[c.id].token = c.token /\ ~(k = 1 /\ worker[w].pc = "fail") =>
      ingress[c.id].state = "processing"

\* The two together: only the holder settles an ingress, and as it deserves.
SettledByHolder == HeldIsUnsettled /\ IngressVerdicts

\* Every ingress comes to an end, after any crash, lapse or failure at any step: nothing
\* is left to a worker that is gone.
EveryIngressEnds ==
  \A i \in Ingresses :
    ingress[i].state \in {"pending", "retry_wait"} ~> ingress[i].state \in {"completed", "dead_letter"}
=============================================================================
