--------------------------- MODULE SignalDispatch ---------------------------
(***************************************************************************)
(* The delivery of the events of one partition to one webhook              *)
(* subscription, in turns of work guarded by the partition's lease.  A     *)
(* turn asserts its ownership before every effect (a delivery, an attempt  *)
(* on record, a dead letter, an advance of the position), but an effect is *)
(* a call of its own: the lease may have been lost by the time it is made. *)
(***************************************************************************)
EXTENDS PartitionLease, Sequences

CONSTANTS
  Matching,     \* the positions whose events pass the filter and the policy
  Limit,        \* events read by one turn
  MaxAttempts,  \* the subscription's max_attempts
  BaseDelay,    \* the delay before the second attempt
  MaxDelay,
  MaxPosition   \* bound: the length of the journal

ASSUME DispatchAssumption ==
  /\ Matching \subseteq 1..MaxPosition /\ MaxPosition \in Nat
  /\ Limit \in Nat \ {0} /\ MaxAttempts \in Nat \ {0}
  /\ BaseDelay \in Nat \ {0} /\ MaxDelay \in Nat /\ BaseDelay <= MaxDelay

VARIABLES
  journal,      \* the length of the partition's journal: events 1..journal
  position,     \* the delivery position of the subscription
  attempts,     \* the attempts on record for each event, numbered from 1
  deadLetters,  \* the events of dead letters
  turn          \* each turn's local state

store == <<position, attempts, deadLetters>>
vars == <<leaseVars, now, troubles, journal, store, turn>>

Verdicts == {"accepted", "retryable", "permanent"}
NoRetry == 0
Attempts == [at : Nat, verdict : Verdicts, next : Nat]

Effects == {"deliver", "record", "deadLetter", "advance"}
Working == Effects \cup {"position", "events", "event"}

\* pc names the call a turn is about to make; sure says that it has asserted its
\* ownership for it.
Idle ==
  [pc |-> "idle", sure |-> FALSE, now |-> 0, position |-> 0, upto |-> 0, number |-> 0,
   verdict |-> "accepted"]

Go(t, pc) == turn' = [turn EXCEPT ![t].pc = pc, ![t].sure = FALSE]

\* The turn is done with the subscription.
Quit(t, pc) == turn' = [turn EXCEPT ![t] = [Idle EXCEPT !.pc = pc]]

\* The event a turn is working on.
Current(t) == turn[t].position + 1

\* Exponential backoff, capped.
RetryDelay(n) ==
  LET exponent == IF n - 1 < 52 THEN n - 1 ELSE 52
      delay == BaseDelay * 2^exponent
  IN IF delay < MaxDelay THEN delay ELSE MaxDelay

-----------------------------------------------------------------------------
(* The catalog: there is work, and no retry to wait for. *)

NextAttemptAt(e) ==
  IF attempts[e] = <<>> THEN NoRetry ELSE attempts[e][Len(attempts[e])].next

Ready == position < journal /\ NextAttemptAt(position + 1) <= now

\* A turn begins by acquiring the lease, and by asserting its ownership.
Begin(t) ==
  /\ turn[t].pc = "idle" /\ Ready
  /\ Acquire(t)
  /\ Go(t, "start")
  /\ UNCHANGED <<now, troubles, journal, store>>

\* assertOwnership, before the first call, before every effect, and after a failure.
Reassert(t) ==
  LET r == turn[t] IN
  /\ r.pc \in Effects \cup {"start", "caught"} /\ ~r.sure
  /\ AssertOwnership(t)
  /\ CASE r.pc = "caught" \/ ~Owns(t) -> Quit(t, "release")
       [] r.pc = "start" /\ Owns(t) ->
            turn' = [turn EXCEPT ![t].pc = "position", ![t].now = now]
       [] OTHER -> turn' = [turn EXCEPT ![t].sure = TRUE]
  /\ UNCHANGED <<now, troubles, journal, store>>

Beat(t) == Heartbeat(t) /\ UNCHANGED <<now, journal, store, turn>>

ReadPosition(t) ==
  /\ turn[t].pc = "position"
  /\ turn' = [turn EXCEPT ![t].pc = "events", ![t].position = position]
  /\ UNCHANGED <<leaseVars, now, troubles, journal, store>>

\* Bug: a batch that is not cut at the end of the journal.
BatchEndUncut(from) == from + Limit

BatchEnd(from) == IF from + Limit < journal THEN from + Limit ELSE journal

ReadEvents(t) ==
  /\ turn[t].pc = "events"
  /\ turn' = [turn EXCEPT ![t].pc = "event", ![t].upto = BatchEnd(turn[t].position)]
  /\ UNCHANGED <<leaseVars, now, troubles, journal, store>>

\* Bug: no waiting for the time of the next attempt.
IsDueAlways(e, time) == TRUE

\* The clock was read when the turn began.
IsDue(e, time) == NextAttemptAt(e) <= time

\* The next event of the batch: to be passed over, to be delivered, or put off
\* together with all that follow it.
Consider(t) ==
  LET r == turn[t] e == Current(t) IN
  /\ r.pc = "event"
  /\ CASE r.position = r.upto -> Quit(t, "release")
       [] r.position < r.upto /\ e \notin Matching -> Go(t, "advance")
       [] OTHER ->
            IF IsDue(e, r.now)
              THEN turn' = [turn EXCEPT ![t].pc = "deliver", ![t].number = Len(attempts[e]) + 1]
              ELSE Quit(t, "release")
  /\ UNCHANGED <<leaseVars, now, troubles, journal, store>>

\* Bug: the attempts are counted from 0.
IsLastAttemptEarly(n) == n >= MaxAttempts - 1

IsLastAttempt(n) == n >= MaxAttempts

Retried(r) == r.verdict = "retryable" /\ ~IsLastAttempt(r.number)

\* The destination answers.  Bound: no retry is put off beyond the last tick.
Deliver(t) ==
  LET r == turn[t] IN
  /\ r.pc = "deliver" /\ r.sure
  /\ \E v \in Verdicts :
       LET s == [r EXCEPT !.pc = "record", !.sure = FALSE, !.verdict = v] IN
       /\ Retried(s) => r.now + RetryDelay(r.number) <= MaxTime
       /\ turn' = [turn EXCEPT ![t] = s]
  /\ UNCHANGED <<leaseVars, now, troubles, journal, store>>

AttemptOf(r) ==
  [at |-> r.now, verdict |-> r.verdict,
   next |-> IF Retried(r) THEN r.now + RetryDelay(r.number) ELSE NoRetry]

\* Bug: an event whose attempts are exhausted is passed over without a dead letter.
IsGivenUpForgets(r) == r.verdict = "permanent"

IsGivenUp(r) == r.verdict # "accepted"

AfterAttempt(t) ==
  LET r == turn[t] IN
  IF Retried(r)
    THEN Quit(t, "release")
    ELSE turn' = [turn EXCEPT ![t].pc = IF IsGivenUp(r) THEN "deadLetter" ELSE "advance",
                              ![t].sure = FALSE, ![t].number = 0, ![t].verdict = "accepted"]

\* recordDeliveryAttempt: another turn may have recorded an attempt of this number,
\* the same one or a contradictory one (two failures may differ in their detail).
Record(t) ==
  LET r == turn[t] e == Current(t) IN
  /\ r.pc = "record" /\ r.sure
  /\ IF Len(attempts[e]) < r.number
       THEN /\ attempts' = [attempts EXCEPT ![e] = Append(@, AttemptOf(r))]
            /\ AfterAttempt(t)
       ELSE /\ UNCHANGED attempts
            /\ \/ attempts[e][r.number] = AttemptOf(r) /\ AfterAttempt(t)
               \/ /\ attempts[e][r.number] # AttemptOf(r) \/ r.verdict # "accepted"
                  /\ Quit(t, "caught")
  /\ UNCHANGED <<leaseVars, now, troubles, journal, position, deadLetters>>

DeadLetter(t) ==
  /\ turn[t].pc = "deadLetter" /\ turn[t].sure
  /\ deadLetters' = deadLetters \cup {Current(t)}
  /\ Go(t, "advance")
  /\ UNCHANGED <<leaseVars, now, troubles, journal, position, attempts>>

MayAdvance(t) == position = turn[t].position

Advance(t) ==
  /\ turn[t].pc = "advance" /\ turn[t].sure
  /\ IF MayAdvance(t)
       THEN /\ position' = Current(t)
            /\ turn' = [turn EXCEPT ![t].pc = "event", ![t].sure = FALSE,
                                    ![t].position = Current(t)]
       ELSE UNCHANGED position /\ Quit(t, "release")
  /\ UNCHANGED <<leaseVars, now, troubles, journal, attempts, deadLetters>>

\* A call fails, or takes effect and its answer is lost: the failure is caught and
\* the turn goes on with the other subscriptions.
Throw(t) ==
  /\ turn[t].pc \in Working
  /\ troubles < MaxTroubles /\ troubles' = troubles + 1
  /\ Quit(t, "caught")
  /\ UNCHANGED <<leaseVars, now, journal, store>>

End(t) ==
  /\ turn[t].pc = "release"
  /\ Release(t)
  /\ turn' = [turn EXCEPT ![t] = Idle]
  /\ UNCHANGED <<now, troubles, journal, store>>

Crash(t) ==
  /\ turn[t].pc # "idle"
  /\ Abandon(t)
  /\ turn' = [turn EXCEPT ![t] = Idle]
  /\ UNCHANGED <<now, journal, store>>

Publish ==
  /\ journal < MaxPosition /\ journal' = journal + 1
  /\ UNCHANGED <<leaseVars, now, troubles, store, turn>>

Pass == Tick /\ UNCHANGED <<journal, store, turn>>

Init ==
  /\ LeaseInit
  /\ journal = 0 /\ position = 0 /\ deadLetters = {}
  /\ attempts = [e \in 1..MaxPosition |-> <<>>]
  /\ turn = [t \in Turns |-> Idle]

Step(t) ==
  \/ Reassert(t) \/ ReadPosition(t) \/ ReadEvents(t) \/ Consider(t) \/ Deliver(t)
  \/ Record(t) \/ DeadLetter(t) \/ Advance(t) \/ End(t)

Next ==
  \/ Publish \/ Pass
  \/ \E t \in Turns : Begin(t) \/ Step(t) \/ Beat(t) \/ Throw(t) \/ Crash(t)

Spec == Init /\ [][Next]_vars

\* The host polls the catalog for as long as it runs, a turn that has begun ends,
\* and time passes.
Fairness ==
  /\ WF_vars(Pass)
  /\ WF_vars(\E t \in Turns : Begin(t))
  /\ \A t \in Turns : WF_vars(Step(t))

FairSpec == Spec /\ Fairness
-----------------------------------------------------------------------------
(* Properties. *)

TurnStates ==
  [pc : Working \cup {"idle", "start", "caught", "release"}, sure : BOOLEAN,
   now : Nat, position : Nat, upto : Nat, number : Nat, verdict : Verdicts]

\* Every variable ranges over what it is meant to hold.
TypeOK ==
  /\ LeaseTypeOK
  /\ journal \in 0..MaxPosition /\ position \in 0..journal
  /\ attempts \in [1..MaxPosition -> Seq(Attempts)]
  /\ deadLetters \subseteq 1..journal
  /\ turn \in [Turns -> TurnStates]

Accepted(e) == \E n \in DOMAIN attempts[e] : attempts[e][n].verdict = "accepted"
Settled(e) == Accepted(e) \/ e \in deadLetters

\* Phase 6A: a crashed or fenced worker cannot skip authoritative progress.  What is
\* behind the position was accepted or is a dead letter, and no event was tried
\* before all those ahead of it were settled.
NothingSkipped ==
  \A e \in Matching :
    /\ e <= position => Settled(e)
    /\ attempts[e] # <<>> => position + 1 >= e

\* A dead letter has an attempt on record that failed for good, or as the last one;
\* nothing is given up for failures of the store or of the host.
DeadLettersJustified ==
  \A e \in deadLetters : \E n \in DOMAIN attempts[e] :
    \/ attempts[e][n].verdict = "permanent"
    \/ attempts[e][n].verdict = "retryable" /\ n >= MaxAttempts

\* exchange-core-design: temporary failures are retried with exponential backoff.  An
\* attempt on record was never made before the time set by the one before it,
\* whichever turns made the two.
BackoffKept ==
  \A e \in Matching : \A n \in DOMAIN attempts[e] :
    n > 1 => attempts[e][n].at >= attempts[e][n - 1].next

\* The two together: no attempt is made too early, and none is left out.
AttemptsInOrder == DeadLettersJustified /\ BackoffKept

\* Phase 6A: an expired owner is fenced.  Once a turn has acquired the lease, no
\* earlier turn, of the same host or another, begins an effect.
FencedOut ==
  [][\A t \in Turns :
       turn'[t].sure /\ ~turn[t].sure => \A u \in Turns : guard[u].token <= guard[t].token]_vars

\* Every event that is published is accepted or becomes a dead letter, and so does
\* what comes after it, whatever crashes, lapses of the lease and failures on the way.
EverythingSettles == []<>(position = journal)
=============================================================================
