------------------------ MODULE CapabilityInvocation ------------------------
(***************************************************************************)
(* One invocation of a capability by an agent at work on a Handoff.  The   *)
(* port keeps a durable record of it, offers an auxiliary Handoff to a     *)
(* candidate of the catalog, resolves it to the candidate's endpoint and   *)
(* polls it until a result is there.  The call may be made again, after a  *)
(* crash or by another host, while an earlier one is still under way; a    *)
(* lease with a fencing token says whose record it is.                     *)
(*                                                                         *)
(* The Exchange answers a command whose idempotency key it knows as it did *)
(* before, or with a conflict if the payload differs.  The key of an offer *)
(* is made from the invocation alone.  Schemas, authority and the data of  *)
(* a result are left out.                                                  *)
(***************************************************************************)
EXTENDS Integers

CONSTANTS
  Invokes,          \* calls of the port that may be under way at once
  Candidates,       \* of the catalog
  NoCandidate,
  HoldSeconds,      \* the lease asked for, cut at the deadline
  Deadline,
  MaxInvokeTime,    \* bounds: the clock,
  MaxInvokes,       \* the calls made,
  MaxInvokeTroubles \* and those that crash or fail

ASSUME InvocationAssumption ==
  /\ NoCandidate \notin Candidates /\ HoldSeconds \in Nat \ {0} /\ Deadline \in Nat \ {0}

VARIABLES
  invokeTime,
  invocation,       \* the record
  auxiliary,        \* the auxiliary Handoff: its payload's candidate, its endpoint, its state
  invoke,           \* each call's local state
  invokes,          \* calls made so far,
  invokeTroubles,
  told              \* what calls have answered, and which of them without a look at the record

invocationVars == <<invokeTime, invocation, auxiliary, invoke, invokes, invokeTroubles, told>>

ResultOutcomes == {"succeeded", "rejected", "failed"}
NoResult == [outcome |-> "none", candidate |-> NoCandidate]
Failure == [outcome |-> "failed", candidate |-> NoCandidate]

\* What a call answers with when it is let in, and when it is turned away at the door.
Answer(r) == [result |-> r, atTheDoor |-> FALSE]
TurnedAway == [result |-> Failure, atTheDoor |-> TRUE]

\* A terminal record.
IsOver == invocation.state \in ResultOutcomes

AtRest == [pc |-> "idle", now |-> 0, token |-> 0, state |-> "none", candidate |-> NoCandidate,
           result |-> NoResult]

InvocationTypeOK ==
  /\ invocation.state \in {"none", "requested", "offered", "waiting"} \cup ResultOutcomes
  /\ invocation.candidate \in Candidates \cup {NoCandidate}
  /\ invocation.state \in {"none", "requested"} => invocation.candidate = NoCandidate
  /\ auxiliary.state \in {"none", "unresolved", "resolved", "ended"} \cup ResultOutcomes
  /\ \A k \in Invokes : invoke[k].token <= invocation.token

-----------------------------------------------------------------------------
(* The store *)

\* transitionInvocation: for the holder of the lease, from the state it knows.
MayTransition(k, from) ==
  /\ invocation.token = invoke[k].token
  /\ invocation.until > invokeTime
  /\ invocation.state = from

Proceed(k, pc) == invoke' = [invoke EXCEPT ![k].pc = pc]
Leave(k) == invoke' = [invoke EXCEPT ![k] = AtRest]

\* The call returns what the record holds.
AnswerRecord(k) == told' = told \cup {Answer(invocation.result)} /\ Leave(k)

-----------------------------------------------------------------------------
(* A call *)

\* A caller that has given up already, and one that comes after the deadline, are answered with
\* a failure, whatever is on record.
StartInvoke(k) ==
  /\ invoke[k].pc = "idle" /\ invokes < MaxInvokes
  /\ invokes' = invokes + 1
  /\ \/ told' = told \cup {TurnedAway} /\ UNCHANGED invoke
     \/ /\ invokeTime < Deadline
        /\ invoke' = [invoke EXCEPT ![k].pc = "create", ![k].now = invokeTime]
        /\ UNCHANGED told
  /\ UNCHANGED <<invokeTime, invocation, auxiliary, invokeTroubles>>

CreateInvocation(k) ==
  /\ invoke[k].pc = "create"
  /\ IF IsOver
     THEN AnswerRecord(k) /\ UNCHANGED invocation
     ELSE /\ invocation' = IF invocation.state = "none" THEN [invocation EXCEPT !.state = "requested"]
                           ELSE invocation
          /\ Proceed(k, "claim") /\ UNCHANGED told
  /\ UNCHANGED <<invokeTime, auxiliary, invokes, invokeTroubles>>

\* Until when a call that began at a time holds the record.
HeldUntil(now) == IF now + HoldSeconds < Deadline + 1 THEN now + HoldSeconds ELSE Deadline + 1

\* The lease of whoever holds the record must have lapsed, be it an earlier call of the same
\* runtime.  A record with a candidate is taken up where it was left.
ClaimInvocation(k) ==
  LET now == invoke[k].now IN
  /\ invoke[k].pc = "claim"
  /\ IF ~IsOver /\ invocation.until <= now
     THEN /\ invocation' = [invocation EXCEPT !.token = @ + 1, !.until = HeldUntil(now)]
          /\ invoke' = [invoke EXCEPT
               ![k].pc = IF invocation.candidate = NoCandidate THEN "discover"
                         ELSE IF invocation.state = "offered" THEN "look" ELSE "wait",
               ![k].token = invocation.token + 1, ![k].state = invocation.state,
               ![k].candidate = invocation.candidate]
     ELSE Proceed(k, "taken") /\ UNCHANGED invocation
  /\ UNCHANGED <<invokeTime, auxiliary, invokes, invokeTroubles, told>>

\* Owned by another call: its result is returned, or an error.
ReadTaken(k) ==
  /\ invoke[k].pc = "taken"
  /\ IF IsOver THEN AnswerRecord(k) ELSE Leave(k) /\ UNCHANGED told
  /\ UNCHANGED <<invokeTime, invocation, auxiliary, invokes, invokeTroubles>>

\* The first candidate of the catalog as it is now; there may be none, and the contract, the
\* input or the authority may be refused.
DiscoverCandidate(k) ==
  /\ invoke[k].pc = "discover"
  /\ \/ \E c \in Candidates : invoke' = [invoke EXCEPT ![k].pc = "offer", ![k].candidate = c]
     \/ invoke' = [invoke EXCEPT ![k].pc = "finish", ![k].result = Failure]
     \/ Proceed(k, "caught")
  /\ UNCHANGED <<invokeTime, invocation, auxiliary, invokes, invokeTroubles, told>>

\* Bug: a conflict of the key is taken for the offer made before.
IsAcceptedAlways(k) == TRUE

\* The Exchange has not seen the key, or has seen it with this payload.
IsAccepted(k) == auxiliary.state = "none" \/ auxiliary.candidate = invoke[k].candidate

Offer(k) ==
  /\ invoke[k].pc = "offer"
  /\ auxiliary' = IF auxiliary.state = "none"
                  THEN [auxiliary EXCEPT !.state = "unresolved", !.candidate = invoke[k].candidate]
                  ELSE auxiliary
  /\ Proceed(k, IF IsAccepted(k) THEN "recordOffer" ELSE "caught")
  /\ UNCHANGED <<invokeTime, invocation, invokes, invokeTroubles, told>>

\* The record is bound to the candidate; the call goes on even if it was refused.
RecordOffer(k) ==
  /\ invoke[k].pc = "recordOffer"
  /\ invocation' = IF MayTransition(k, invoke[k].state)
                   THEN [invocation EXCEPT !.state = "offered", !.candidate = invoke[k].candidate]
                   ELSE invocation
  /\ invoke' = [invoke EXCEPT ![k].pc = "resolve", ![k].state = "offered"]
  /\ UNCHANGED <<invokeTime, auxiliary, invokes, invokeTroubles, told>>

\* A call that takes up an offer looks whether it is resolved.
LookAtOffer(k) ==
  /\ invoke[k].pc = "look"
  /\ Proceed(k, IF auxiliary.state = "unresolved" THEN "resolve" ELSE "recordWaiting")
  /\ UNCHANGED <<invokeTime, invocation, auxiliary, invokes, invokeTroubles, told>>

\* One that is resolved by now, or over, is left as it is.
Resolve(k) ==
  /\ invoke[k].pc = "resolve"
  /\ auxiliary' = IF auxiliary.state = "unresolved"
                  THEN [auxiliary EXCEPT !.state = "resolved", !.endpoint = invoke[k].candidate]
                  ELSE auxiliary
  /\ Proceed(k, "recordWaiting")
  /\ UNCHANGED <<invokeTime, invocation, invokes, invokeTroubles, told>>

RecordWaiting(k) ==
  /\ invoke[k].pc = "recordWaiting"
  /\ invocation' = IF MayTransition(k, invoke[k].state) THEN [invocation EXCEPT !.state = "waiting"]
                   ELSE invocation
  /\ invoke' = [invoke EXCEPT ![k].pc = "wait", ![k].state = "waiting"]
  /\ UNCHANGED <<invokeTime, auxiliary, invokes, invokeTroubles, told>>

\* One poll.  The deadline is looked at first; what succeeded may yet fail to match the
\* contract, and a result may be malformed.
Poll(k) ==
  LET finish(r) == invoke' = [invoke EXCEPT ![k].pc = "finish", ![k].result = r] IN
  /\ invoke[k].pc = "wait"
  /\ IF invokeTime >= Deadline THEN finish(Failure)
     ELSE /\ auxiliary.state \in {"ended"} \cup ResultOutcomes
          /\ \/ finish(Failure) /\ auxiliary.state \in {"ended", "failed", "succeeded"}
             \/ /\ auxiliary.state = "rejected"
                /\ finish([outcome |-> "rejected", candidate |-> NoCandidate])
             \/ /\ auxiliary.state = "succeeded"
                /\ finish([outcome |-> "succeeded", candidate |-> invoke[k].candidate])
             \/ auxiliary.state # "ended" /\ Proceed(k, "caught")
  /\ UNCHANGED <<invokeTime, invocation, auxiliary, invokes, invokeTroubles, told>>

\* The runtime closes: the wait ends as a failure.
AbortWait(k) ==
  /\ invoke[k].pc = "wait" /\ invokeTroubles < MaxInvokeTroubles
  /\ invokeTroubles' = invokeTroubles + 1
  /\ invoke' = [invoke EXCEPT ![k].pc = "finish", ![k].result = Failure]
  /\ UNCHANGED <<invokeTime, invocation, auxiliary, invokes, told>>

Recorded(r) == [invocation EXCEPT !.state = r.outcome, !.result = r]

\* Bug: the call answers with its result though the record does not take it.
FinishUnchecked(k) ==
  /\ invoke[k].pc = "finish"
  /\ invocation' = IF MayTransition(k, invoke[k].state) THEN Recorded(invoke[k].result) ELSE invocation
  /\ told' = told \cup {Answer(invoke[k].result)} /\ Leave(k)
  /\ UNCHANGED <<invokeTime, auxiliary, invokes, invokeTroubles>>

\* The result is recorded and then returned; otherwise the call has lost the record.
Finish(k) ==
  /\ invoke[k].pc = "finish"
  /\ IF MayTransition(k, invoke[k].state)
     THEN /\ invocation' = Recorded(invoke[k].result)
          /\ told' = told \cup {Answer(invoke[k].result)} /\ Leave(k)
     ELSE Proceed(k, "caught") /\ UNCHANGED <<invocation, told>>
  /\ UNCHANGED <<invokeTime, auxiliary, invokes, invokeTroubles>>

\* An error: the result on record, if there is one by now.
ReadCaught(k) ==
  /\ invoke[k].pc = "caught"
  /\ IF IsOver THEN AnswerRecord(k)
     ELSE /\ invoke' = [invoke EXCEPT ![k].pc = "fail", ![k].state = invocation.state]
          /\ UNCHANGED told
  /\ UNCHANGED <<invokeTime, invocation, auxiliary, invokes, invokeTroubles>>

\* Otherwise the invocation fails; or the call does, without an answer.
FinishFailed(k) ==
  /\ invoke[k].pc = "fail"
  /\ IF MayTransition(k, invoke[k].state)
     THEN invocation' = Recorded(Failure) /\ told' = told \cup {Answer(Failure)}
     ELSE UNCHANGED <<invocation, told>>
  /\ Leave(k)
  /\ UNCHANGED <<invokeTime, auxiliary, invokes, invokeTroubles>>

\* A command or a query fails; its effect may have happened.
InvokeThrows(k) ==
  /\ invoke[k].pc \in {"offer", "recordOffer", "look", "resolve", "recordWaiting", "wait"}
  /\ invokeTroubles < MaxInvokeTroubles /\ invokeTroubles' = invokeTroubles + 1
  /\ Proceed(k, "caught")
  /\ UNCHANGED <<invokeTime, invocation, auxiliary, invokes, told>>

InvokeCrashes(k) ==
  /\ invoke[k].pc # "idle" /\ invokeTroubles < MaxInvokeTroubles
  /\ invokeTroubles' = invokeTroubles + 1
  /\ Leave(k)
  /\ UNCHANGED <<invokeTime, invocation, auxiliary, invokes, told>>

-----------------------------------------------------------------------------
(* The provider behind the endpoint, and the clock *)

ProviderReturns ==
  /\ auxiliary.state = "resolved"
  /\ \E o \in ResultOutcomes : auxiliary' = [auxiliary EXCEPT !.state = o]
  /\ UNCHANGED <<invokeTime, invocation, invoke, invokes, invokeTroubles, told>>

\* Declined, expired or cancelled.
AuxiliaryEnds ==
  /\ auxiliary.state \in {"unresolved", "resolved"}
  /\ auxiliary' = [auxiliary EXCEPT !.state = "ended"]
  /\ UNCHANGED <<invokeTime, invocation, invoke, invokes, invokeTroubles, told>>

InvokeTick ==
  /\ invokeTime < MaxInvokeTime /\ invokeTime' = invokeTime + 1
  /\ UNCHANGED <<invocation, auxiliary, invoke, invokes, invokeTroubles, told>>

-----------------------------------------------------------------------------
InvocationInit ==
  /\ invokeTime = 0 /\ invokes = 0 /\ invokeTroubles = 0 /\ told = {}
  /\ invocation = [state |-> "none", candidate |-> NoCandidate, result |-> NoResult, token |-> 0,
                   until |-> 0]
  /\ auxiliary = [state |-> "none", candidate |-> NoCandidate, endpoint |-> NoCandidate]
  /\ invoke = [k \in Invokes |-> AtRest]

InvocationNext ==
  \/ \E k \in Invokes :
       \/ StartInvoke(k) \/ CreateInvocation(k) \/ ClaimInvocation(k) \/ ReadTaken(k)
       \/ DiscoverCandidate(k) \/ Offer(k) \/ RecordOffer(k) \/ LookAtOffer(k) \/ Resolve(k)
       \/ RecordWaiting(k) \/ Poll(k) \/ AbortWait(k) \/ Finish(k) \/ ReadCaught(k)
       \/ FinishFailed(k) \/ InvokeThrows(k) \/ InvokeCrashes(k)
  \/ ProviderReturns \/ AuxiliaryEnds \/ InvokeTick

InvocationSpec == InvocationInit /\ [][InvocationNext]_invocationVars

-----------------------------------------------------------------------------
\* Invocation plan, task 5: duplicate recovery returns the prior invocation result.  However
\* many calls there are and whoever holds the record, all that are let in answer alike and as
\* the record says; and a success is what the one provider returned that the Handoff was
\* offered to.
OneAnswer ==
  /\ \A a \in told : a.atTheDoor \/ a.result = invocation.result
  /\ auxiliary.endpoint \in {NoCandidate, auxiliary.candidate}
  /\ invocation.candidate \in {NoCandidate, auxiliary.candidate}
  /\ invocation.state = "succeeded" =>
       /\ auxiliary.state = "succeeded"
       /\ invocation.result.candidate = auxiliary.endpoint
=============================================================================
