----------------------------- MODULE MCLiveness -----------------------------
(***************************************************************************)
(* Instances of the components that promise progress, for TLC.  They share *)
(* no state, so a behaviour is about one of them, the focus; the others    *)
(* stay in their initial state, and nothing is assumed of their fairness.  *)
(***************************************************************************)
EXTENDS ClusterHost, Projection, Recovery

CONSTANTS
  a1, b1, ta, tb,   \* items and tenants of the host
  x1, x2, u1,       \* Handoffs and the turn of a partition
  w1, t1, owner     \* a client, a turn of signal dispatch and their host

VARIABLES
  focus,
  pullJournal, pullPosition, active, deliveries, pullDeadLetters, pullNow, client, \* of PullDelivery
  lease, guard, now, troubles, journal, position, attempts, deadLetters, turn      \* of SignalDispatch

ItemTenant == [i \in Items |-> IF i = b1 THEN tb ELSE ta]
TenantOrder == <<ta, tb>>
Listing == <<a1, b1>>
TwoHandoffs == <<x1, x2, x1>>
Commands == [i \in Ingresses |-> "command"]

\* One client, which makes one call at a time; events to pass over come before and between.
Pull == INSTANCE PullDelivery WITH
  Workers <- {w1}, Matching <- {3, 4}, Limit <- 2, Timeout <- 1, MayFail <- FALSE,
  MaxPosition <- 4, MaxAttempt <- 2, MaxTime <- 1,
  journal <- pullJournal, position <- pullPosition, deadLetters <- pullDeadLetters,
  now <- pullNow, worker <- client

Signal == INSTANCE SignalDispatch WITH
  Turns <- {t1}, OwnerOf <- [t \in {t1} |-> owner], NoOwner <- "none", LeaseSeconds <- 1,
  MaxTime <- 2, MaxTroubles <- 1, Matching <- {2}, Limit <- 2, MaxAttempts <- 2,
  BaseDelay <- 1, MaxDelay <- 2, MaxPosition <- 2

-----------------------------------------------------------------------------
pullVars == <<pullJournal, pullPosition, active, deliveries, pullDeadLetters, pullNow, client>>
signalVars == <<lease, guard, now, troubles, journal, position, attempts, deadLetters, turn>>
vars == <<hostVars, projectionVars, recoveryVars, pullVars, signalVars, focus>>

Init ==
  /\ focus \in {"host", "projection", "recovery", "pull", "signal"}
  /\ HostInit /\ ProjectionInit /\ RecoveryInit /\ Pull!Init /\ Signal!Init
  /\ focus # "projection" => projector = "handoff"
  /\ focus # "host" => ready = {}

AllBut(f) ==
  /\ UNCHANGED focus
  /\ f # "host" => UNCHANGED hostVars
  /\ f # "projection" => UNCHANGED projectionVars
  /\ f # "recovery" => UNCHANGED recoveryVars
  /\ f # "pull" => UNCHANGED pullVars
  /\ f # "signal" => UNCHANGED signalVars

Next ==
  \/ focus = "host" /\ HostNext /\ AllBut("host")
  \/ focus = "projection" /\ ProjectionNext /\ AllBut("projection")
  \/ focus = "recovery" /\ RecoveryNext /\ AllBut("recovery")
  \/ focus = "pull" /\ Pull!Next /\ AllBut("pull")
  \/ focus = "signal" /\ Signal!Next /\ AllBut("signal")

\* The fairness of each component.  No action of the first three that is fair is enabled
\* in their initial states; the other two are asked for it only when they are the focus.
Fairness ==
  /\ HostFairness /\ ProjectionFairness /\ RecoveryFairness
  /\ WF_vars(focus = "pull" /\ Pull!Step(w1) /\ AllBut("pull"))
  /\ SF_vars(focus = "pull" /\ Pull!StartPull(w1) /\ AllBut("pull"))
  /\ SF_vars(focus = "pull" /\ active # Pull!None /\ Pull!StartAck(w1, active, "acknowledged") /\ AllBut("pull"))
  /\ WF_vars(focus = "signal" /\ Signal!Pass /\ AllBut("signal"))
  /\ WF_vars(focus = "signal" /\ Signal!Begin(t1) /\ AllBut("signal"))
  /\ WF_vars(focus = "signal" /\ Signal!Step(t1) /\ AllBut("signal"))

FairSpec == Init /\ [][Next]_vars /\ Fairness
-----------------------------------------------------------------------------
\* Cursor pull: every event that matches is handed out to a client that keeps on pulling
\* and acknowledging.
AtLeastOnce == Pull!AtLeastOnce

\* Signal dispatch: every event of the journal is passed by the delivery position, its
\* signal accepted or dead-lettered.
EverythingSettles == Signal!EverythingSettles
=============================================================================
