---------------------------- MODULE AgentGateway ----------------------------
(***************************************************************************)
(* The gateways of one Endpoint and the directory that keeps its sessions. *)
(* A gateway opens a session, renews it, and closes it by a last heartbeat *)
(* and a close.  A call that it stops waiting for goes on: it may reach    *)
(* the directory at any later time.  The directory handles a call in two   *)
(* steps, a look at the session and a write, and calls interleave.         *)
(***************************************************************************)
EXTENDS Integers, Sequences, FiniteSets, FiniteSetsExt

CONSTANTS
  Gateways,        \* each starts once, with its own client_session_id
  NoGateway,       \* null
  RetryCount,      \* heartbeat_retry_count
  MaxProvisions,   \* bound: changes of the registration
  MaxCalls         \* bound: calls of each gateway

ASSUME GatewayAssumption ==
  NoGateway \notin Gateways /\ RetryCount \in Nat /\ MaxProvisions \in Nat /\ MaxCalls \in [Gateways -> Nat]

VARIABLES
  registration,    \* its version and whether it is enabled
  session,         \* the session of each gateway, as the directory keeps it
  activeSession,   \* the gateway whose session is the active one
  fencing,         \* the last fencing token given out
  gateway,         \* what each gateway is doing
  calls            \* calls under way, those that nobody waits for included

gatewayVars == <<registration, session, activeSession, fencing, gateway, calls>>
directory == <<registration, session, activeSession, fencing>>

NoSession == [state |-> "absent", fence |-> 0, seq |-> 0, availability |-> "unavailable", live |-> FALSE]

Waiting(g) == gateway[g].pc \in {"opening", "renewing", "draining", "closing"}
AnswerOf(g) == {c \in calls : c.from = g /\ c.stage = "answered"}

-----------------------------------------------------------------------------
(* The directory. *)

\* A changed registration refuses the heartbeats of sessions opened under the old one.
Provision(enabled) ==
  /\ registration.version <= MaxProvisions
  /\ registration' = [version |-> registration.version + 1, enabled |-> enabled]
  /\ UNCHANGED <<session, activeSession, fencing, gateway, calls>>

\* The lease of a session runs out.
Expire(g) ==
  /\ session[g].live
  /\ session' = [session EXCEPT ![g].live = FALSE]
  /\ UNCHANGED <<registration, activeSession, fencing, gateway, calls>>

\* An answer that nobody waits for is dropped.
Answered(c, answer) ==
  calls' = (calls \ {c}) \cup
    IF gateway[c.from].sent = c.n /\ Waiting(c.from)
      THEN {[c EXCEPT !.stage = "answered", !.answer = answer]} ELSE {}

SameRequest(c) == session[c.from].seq = c.seq /\ session[c.from].availability = c.availability

\* Bug: any session that is no longer active counts as closed.
LookAnswerLax(c) ==
  IF c.kind = "close" /\ session[c.from].state # "active" THEN "ok" ELSE "none"

\* registrationForRuntime, assertSessionDeclaration, and the replay of what was done before.
LookAnswer(c) ==
  LET s == session[c.from] IN
  CASE c.kind # "close" /\ (~registration.enabled \/ registration.version # c.version) -> "refused"
    [] c.kind = "open" -> IF s.state # "absent" THEN "ok" ELSE "none"
    [] c.kind = "heartbeat" ->
         IF s.seq # c.seq THEN "none" ELSE IF SameRequest(c) THEN "ok" ELSE "stale_sequence"
    [] c.kind = "close" -> IF s.state = "closed" /\ s.seq = c.seq THEN "ok" ELSE "none"

LookUp(c) ==
  /\ c.stage = "sent"
  /\ IF LookAnswer(c) # "none" THEN Answered(c, LookAnswer(c))
     ELSE calls' = (calls \ {c}) \cup {[c EXCEPT !.stage = "looked"]}
  /\ UNCHANGED <<directory, gateway>>

\* Bug: the session there is is not fenced.
FencedOutNone(g) == session

\* A new session fences the active one.
FencedOut(g) ==
  IF activeSession = NoGateway THEN session ELSE [session EXCEPT ![activeSession].state = "fenced"]

\* Bug: counted from the active session, so that a close starts the tokens over.
NextFenceOfActive == IF activeSession = NoGateway THEN 1 ELSE session[activeSession].fence + 1

\* Fencing tokens are given out once, whatever became of the sessions.
NextFence == fencing + 1

WriteOpen(c) ==
  /\ c.stage = "looked" /\ c.kind = "open"
  /\ IF session[c.from].state # "absent" THEN UNCHANGED directory
     ELSE /\ fencing' = NextFence
          /\ session' = [FencedOut(c.from) EXCEPT ![c.from] =
               [state |-> "active", fence |-> NextFence, seq |-> 0,
                availability |-> "available", live |-> TRUE]]
          /\ activeSession' = c.from
          /\ UNCHANGED registration
  /\ Answered(c, "ok") /\ UNCHANGED gateway

\* Bug: a write is taken whatever its sequence number.
WriteAnswerUnordered(c) ==
  IF session[c.from].state # "active" \/ session[c.from].fence # c.fence \/ activeSession # c.from
    THEN "session_fenced" ELSE "ok"

WriteAnswer(c) ==
  IF session[c.from].state # "active" \/ session[c.from].fence # c.fence \/ activeSession # c.from
    THEN "session_fenced"
  ELSE IF c.seq <= session[c.from].seq THEN "stale_sequence" ELSE "ok"

WriteHeartbeat(c) ==
  /\ c.stage = "looked" /\ c.kind = "heartbeat"
  /\ IF WriteAnswer(c) = "ok"
       THEN session' = [session EXCEPT ![c.from].seq = c.seq, ![c.from].availability = c.availability,
                                       ![c.from].live = TRUE]
       ELSE UNCHANGED session
  /\ Answered(c, WriteAnswer(c))
  /\ UNCHANGED <<registration, activeSession, fencing, gateway>>

WriteClose(c) ==
  /\ c.stage = "looked" /\ c.kind = "close"
  /\ IF WriteAnswer(c) = "ok"
       THEN /\ session' = [session EXCEPT ![c.from].state = "closed", ![c.from].seq = c.seq,
                                          ![c.from].availability = "unavailable"]
            /\ activeSession' = NoGateway
       ELSE UNCHANGED <<session, activeSession>>
  /\ Answered(c, WriteAnswer(c))
  /\ UNCHANGED <<registration, fencing, gateway>>

-----------------------------------------------------------------------------
(* The gateway. *)

Call(g, kind, availability) ==
  [from |-> g, n |-> gateway[g].sent + 1, kind |-> kind,
   seq |-> IF kind = "open" THEN 0 ELSE gateway[g].seq + 1,
   availability |-> availability, version |-> gateway[g].version, fence |-> gateway[g].fence,
   stage |-> "sent", answer |-> "none"]

\* A call of the gateway's own at its present step: sending it again is the same request.
Sends(g, pc, kind, availability, tries) ==
  /\ gateway[g].sent < MaxCalls[g]
  /\ calls' = (calls \ AnswerOf(g)) \cup {Call(g, kind, availability)}
  /\ gateway' = [gateway EXCEPT ![g].pc = pc, ![g].sent = @ + 1, ![g].tries = tries]

KindAt(pc) ==
  CASE pc = "opening" -> "open"
    [] pc \in {"renewing", "draining"} -> "heartbeat"
    [] pc = "closing" -> "close"

AvailabilityAt(pc) ==
  CASE pc \in {"opening", "renewing"} -> "available"
    [] pc = "draining" -> "draining"
    [] pc = "closing" -> "unavailable"

Ends(g, reason) ==
  /\ gateway' = [gateway EXCEPT ![g].pc = "ended", ![g].reason = reason]
  /\ calls' = calls \ AnswerOf(g)

StartGateway(g) ==
  /\ gateway[g].pc = "new" /\ gateway[g].sent < MaxCalls[g]
  /\ calls' = calls \cup {[Call(g, "open", "available") EXCEPT !.version = registration.version]}
  /\ gateway' = [gateway EXCEPT ![g].pc = "opening", ![g].sent = @ + 1, ![g].version = registration.version]
  /\ UNCHANGED directory

Renew(g) ==
  /\ gateway[g].pc = "open"
  /\ Sends(g, "renewing", "heartbeat", "available", 0)
  /\ UNCHANGED directory

\* close: a renewal under way is left.
CloseGateway(g) ==
  /\ gateway[g].pc \in {"open", "renewing"}
  /\ Sends(g, "draining", "heartbeat", "draining", 0)
  /\ UNCHANGED directory

\* The answer that the gateway waits for.
TakeAnswer(g) ==
  \E c \in AnswerOf(g) :
    /\ CASE c.answer = "ok" /\ c.kind # "close" ->
              /\ gateway' = [gateway EXCEPT ![g].seq = c.seq, ![g].fence = session[g].fence, ![g].tries = 0,
                   ![g].pc = IF gateway[g].pc = "draining" THEN "drained" ELSE "open"]
              /\ calls' = calls \ {c}
         [] c.answer = "ok" /\ c.kind = "close" -> Ends(g, "closed")
         [] c.answer \in {"session_fenced", "stale_sequence"} -> Ends(g, "fenced")
         [] c.answer = "refused" -> Ends(g, "failed")
    /\ UNCHANGED directory

SendClose(g) ==
  /\ gateway[g].pc = "drained"
  /\ Sends(g, "closing", "close", "unavailable", 0)
  /\ UNCHANGED directory

\* replayWrite, replayOpen: no answer in time, or a network error.
SendAgain(g) ==
  /\ Waiting(g) /\ gateway[g].tries < RetryCount
  /\ Sends(g, gateway[g].pc, KindAt(gateway[g].pc), AvailabilityAt(gateway[g].pc), gateway[g].tries + 1)
  /\ UNCHANGED directory

\* The last try failed, or the time for a graceful close is over.
GiveUpWaiting(g) ==
  /\ Waiting(g)
  /\ gateway[g].tries >= RetryCount \/ gateway[g].pc \in {"draining", "closing"}
  /\ Ends(g, "failed") /\ UNCHANGED directory

\* The caller's signal, or a crash: the directory is not told.
AbortGateway(g) ==
  /\ gateway[g].pc \in {"opening", "open", "renewing"}
  /\ Ends(g, "aborted") /\ UNCHANGED directory

-----------------------------------------------------------------------------
GatewayInit ==
  /\ registration = [version |-> 1, enabled |-> TRUE]
  /\ session = [g \in Gateways |-> NoSession] /\ activeSession = NoGateway /\ fencing = 0
  /\ gateway = [g \in Gateways |->
       [pc |-> "new", seq |-> 0, fence |-> 0, version |-> 0, sent |-> 0, tries |-> 0, reason |-> "none"]]
  /\ calls = {}

GatewayStep(g) ==
  \/ StartGateway(g) \/ Renew(g) \/ CloseGateway(g) \/ TakeAnswer(g) \/ SendClose(g)
  \/ SendAgain(g) \/ GiveUpWaiting(g) \/ AbortGateway(g)

DirectoryStep ==
  \/ \E enabled \in BOOLEAN : Provision(enabled)
  \/ \E g \in Gateways : Expire(g)
  \/ \E c \in calls : LookUp(c) \/ WriteOpen(c) \/ WriteHeartbeat(c) \/ WriteClose(c)

GatewayNext == DirectoryStep \/ \E g \in Gateways : GatewayStep(g)

GatewaySpec == GatewayInit /\ [][GatewayNext]_gatewayVars
-----------------------------------------------------------------------------
(* Properties. *)

GatewayTypeOK ==
  /\ \A g \in Gateways :
       /\ session[g].state \in {"absent", "active", "fenced", "closed"}
       /\ session[g].fence \in 0..fencing /\ (session[g].state = "absent" <=> session[g].fence = 0)
       /\ gateway[g].reason \in {"none", "closed", "fenced", "failed", "aborted"}
       /\ (gateway[g].reason = "none" <=> gateway[g].pc # "ended")
  /\ fencing = Cardinality({g \in Gateways : session[g].state # "absent"})

\* Endpoint boundary design, section 4.2: one authoritative active session per Endpoint,
\* the one opened last.  However late or often calls arrive, a session that was fenced or
\* closed is never the one that discovery shows.
OneActiveSession ==
  \A g \in Gateways : session[g].state = "active" <=> activeSession = g /\ session[g].fence = fencing

\* A gateway that says it has closed has: its session is closed and not the active one, which
\* discovery shows, whatever calls of it are still under way, and whatever was repeated.
ClosedIsGone ==
  \A g \in Gateways : gateway[g].reason = "closed" => session[g].state = "closed" /\ activeSession # g

\* The two together: what the gateways know and what discovery shows of a session agree.
SessionsInOrder == OneActiveSession /\ ClosedIsGone

\* A call that was left behind never takes back what its gateway did later: the sequence
\* numbers of a session only grow, and a draining or closed session is not shown available
\* again.
LateCallsAreStale ==
  [][\A g \in Gateways :
       /\ session'[g].seq >= session[g].seq
       /\ session[g].availability \in {"draining", "unavailable"} /\ session[g].state # "absent" =>
            session'[g].availability # "available"]_gatewayVars
=============================================================================
