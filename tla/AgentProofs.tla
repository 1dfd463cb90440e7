----------------------------- MODULE AgentProofs ------------------------------
(***************************************************************************)
(* Theorems about the agents' side.  AgentGateway, for any gateways,       *)
(* retries and provisioning changes: one session is active, a gateway that *)
(* says it has closed has, and no call that was left behind undoes what    *)
(* came after it.  RuntimeHost, for any deliveries handled together,       *)
(* crashes and lapses of the lease: an offer acknowledged has its run, the *)
(* result returned is the one captured, and one execution goes on at most. *)
(***************************************************************************)
EXTENDS AgentGateway, RuntimeHost, FiniteSetTheorems, TLAPS

-----------------------------------------------------------------------------
(* Sessions: the inductive invariant. *)

SessionRecords ==
  [state : {"absent", "active", "fenced", "closed"}, fence : Nat, seq : Nat,
   availability : {"available", "draining", "unavailable"}, live : BOOLEAN]

GatewayPcs == {"new", "opening", "open", "renewing", "draining", "drained", "closing", "ended"}

GatewayRecords ==
  [pc : GatewayPcs, seq : Nat, fence : Nat, version : Nat, sent : Nat, tries : Nat,
   reason : {"none", "closed", "fenced", "failed", "aborted"}]

CallRecords ==
  [from : Gateways, n : Nat, kind : {"open", "heartbeat", "close"}, seq : Nat,
   availability : {"available", "draining", "unavailable"}, version : Nat, fence : Nat,
   stage : {"sent", "looked", "answered"},
   answer : {"none", "ok", "stale_sequence", "refused", "session_fenced"}]

GatewayTypes ==
  /\ registration.version \in Nat
  /\ session \in [Gateways -> SessionRecords]
  /\ activeSession \in Gateways \cup {NoGateway}
  /\ fencing \in Nat
  /\ gateway \in [Gateways -> GatewayRecords]
  /\ calls \subseteq CallRecords

Renews(c) == c.kind = "heartbeat" /\ c.availability = "available"
Drains(c) == c.kind = "heartbeat" /\ c.availability = "draining"

\* The gateway is past its last renewal.
Leaving(g) == gateway[g].pc \in {"draining", "drained", "closing", "ended"}

\* What a gateway knows of a call of its own: the last call sent is the request of its
\* present step, and the only one that may be answered.
CallOK(c) ==
  LET g == c.from pc == gateway[g].pc IN
  /\ c.n <= gateway[g].sent /\ c.seq <= gateway[g].seq + 1
  /\ c.kind = "heartbeat" => Renews(c) \/ Drains(c)
  /\ c.stage = "answered" => c.n = gateway[g].sent /\ Waiting(g) /\ c.answer # "none"
  /\ c.n = gateway[g].sent /\ Waiting(g) =>
       /\ c.kind = KindAt(pc)
       /\ c.seq = IF pc = "opening" THEN 0 ELSE gateway[g].seq + 1
  /\ c.stage = "answered" /\ c.kind = "close" /\ c.answer = "ok" => session[g].state = "closed"
  /\ Drains(c) => Leaving(g)

\* A gateway that has not opened has sequence number 0.
SequencesOK == \A g \in Gateways : gateway[g].pc \in {"new", "opening"} => gateway[g].seq = 0

\* No renewal is newer than the request to drain, wherever that one is by now.
DrainsAreLast ==
  /\ \A c, d \in calls : c.from = d.from /\ Renews(c) /\ Drains(d) => c.seq <= d.seq
  /\ \A c \in calls :
       Renews(c) /\ session[c.from].availability = "draining" => c.seq <= session[c.from].seq

SessionsOK ==
  \A g \in Gateways :
    /\ activeSession = g => session[g].state = "active" /\ session[g].fence = fencing
    /\ session[g].state = "absent" => session[g].seq = 0 /\ session[g].availability = "unavailable"
    /\ session[g].state = "active" => session[g].availability # "unavailable"
    /\ session[g].availability = "draining" => Leaving(g)

\* The calls of a gateway are numbered.
OneOfEach == \A c, d \in calls : c.from = d.from /\ c.n = d.n => c = d

GatewayIInv ==
  /\ GatewayTypes /\ OneOfEach /\ (\A c \in calls : CallOK(c))
  /\ SequencesOK /\ DrainsAreLast /\ SessionsOK /\ SessionsInOrder

-----------------------------------------------------------------------------
LEMMA CallFields ==
  ASSUME NEW c \in CallRecords
  PROVE  /\ c.from \in Gateways /\ c.n \in Nat /\ c.seq \in Nat
         /\ c.kind \in {"open", "heartbeat", "close"}
         /\ c.availability \in {"available", "draining", "unavailable"}
BY DEF CallRecords

LEMMA GatewayFields ==
  ASSUME GatewayTypes, NEW g \in Gateways
  PROVE  /\ gateway[g] \in GatewayRecords /\ gateway[g].pc \in GatewayPcs /\ gateway[g].seq \in Nat
         /\ gateway[g].sent \in Nat /\ gateway[g].fence \in Nat /\ gateway[g].version \in Nat
         /\ session[g] \in SessionRecords /\ session[g].seq \in Nat /\ session[g].fence \in Nat
BY DEF GatewayTypes, GatewayRecords, SessionRecords

-----------------------------------------------------------------------------
(* The directory.  A call under way is looked at or answered, and stays *)
(* the request it was.                                                  *)

SameRequestAs(q, c) ==
  /\ q.from = c.from /\ q.n = c.n /\ q.kind = c.kind /\ q.seq = c.seq
  /\ q.availability = c.availability

CallsRemain ==
  /\ UNCHANGED gateway
  /\ calls' \subseteq CallRecords /\ OneOfEach'
  /\ \A q \in calls' : \E c \in calls :
       /\ SameRequestAs(q, c)
       /\ q.stage = "answered" => q = c \/ (c.n = gateway[c.from].sent /\ Waiting(c.from) /\ q.answer # "none")

LEMMA AnsweredRemain ==
  ASSUME GatewayTypes, OneOfEach, NEW c \in calls, UNCHANGED gateway,
         NEW answer \in {"ok", "stale_sequence", "refused", "session_fenced"},
         Answered(c, answer)
  PROVE  /\ CallsRemain
         /\ \A q \in calls' : q \in calls \/ (SameRequestAs(q, c) /\ q.answer = answer)
<1> DEFINE a == [c EXCEPT !.stage = "answered", !.answer = answer]
<1>1. c \in CallRecords /\ calls \subseteq CallRecords
  BY DEF GatewayTypes
<1>2. a \in CallRecords /\ SameRequestAs(a, c) /\ a.answer = answer
  BY <1>1 DEF CallRecords, SameRequestAs
<1>3. \A q \in calls' : q \in calls \/ (q = a /\ gateway[c.from].sent = c.n /\ Waiting(c.from))
  BY DEF Answered
<1>4. \A q \in calls : SameRequestAs(q, q)
  BY DEF SameRequestAs
<1>5. calls' \subseteq (calls \ {c}) \cup {a}
  BY DEF Answered
<1> HIDE DEF a
<1>6. OneOfEach'
  BY <1>2, <1>5 DEF OneOfEach, SameRequestAs
<1> QED BY <1>1, <1>2, <1>3, <1>4, <1>6 DEF CallsRemain

LEMMA LookedRemain ==
  ASSUME GatewayTypes, OneOfEach, NEW c \in calls, UNCHANGED gateway,
         calls' = (calls \ {c}) \cup {[c EXCEPT !.stage = "looked"]}
  PROVE  /\ CallsRemain
         /\ \A q \in calls' : q \in calls \/ (SameRequestAs(q, c) /\ q.stage = "looked")
<1> DEFINE a == [c EXCEPT !.stage = "looked"]
<1>1. c \in CallRecords /\ calls \subseteq CallRecords
  BY DEF GatewayTypes
<1>2. a \in CallRecords /\ SameRequestAs(a, c) /\ a.stage = "looked"
  BY <1>1 DEF CallRecords, SameRequestAs
<1>3. \A q \in calls : SameRequestAs(q, q)
  BY DEF SameRequestAs
<1>4. calls' = (calls \ {c}) \cup {a}
  OBVIOUS
<1> HIDE DEF a
<1>5. OneOfEach'
  BY <1>2, <1>4 DEF OneOfEach, SameRequestAs
<1> QED BY <1>1, <1>2, <1>3, <1>4, <1>5 DEF CallsRemain

\* What a step of the directory has to show: the sessions, and no answer that is wrong.
LEMMA DirectoryKeeps ==
  ASSUME GatewayIInv, CallsRemain, GatewayTypes', SessionsOK', OneActiveSession',
         \A g \in Gateways : session[g].state = "closed" => session'[g].state = "closed",
         \A q \in calls' : q.stage = "answered" /\ q.kind = "close" /\ q.answer = "ok" =>
                             q \in calls \/ session'[q.from].state = "closed",
         \A c \in calls : Renews(c) /\ session'[c.from].availability = "draining" =>
                            c.seq <= session'[c.from].seq
  PROVE  GatewayIInv'
<1>1. gateway' = gateway
  BY DEF CallsRemain
<1>2. ASSUME NEW q \in calls' PROVE CallOK(q)'
  <2>1. PICK c \in calls :
          /\ SameRequestAs(q, c)
          /\ q.stage = "answered" => q = c \/ (c.n = gateway[c.from].sent /\ Waiting(c.from) /\ q.answer # "none")
    BY <1>2 DEF CallsRemain
  <2>2. CallOK(c)
    BY <2>1 DEF GatewayIInv
  <2>3. q.from \in Gateways /\ q.from = c.from /\ q.n = c.n /\ q.kind = c.kind /\ q.seq = c.seq
        /\ q.availability = c.availability
    BY <1>2, <2>1, CallFields DEF SameRequestAs, CallsRemain
  <2>4. q.stage = "answered" => q.n = gateway[q.from].sent /\ Waiting(q.from) /\ q.answer # "none"
    BY <2>1, <2>2, <2>3 DEF CallOK
  <2>5. q.stage = "answered" /\ q.kind = "close" /\ q.answer = "ok" => session'[q.from].state = "closed"
    <3>1. ASSUME q \in calls, q.stage = "answered", q.kind = "close", q.answer = "ok"
          PROVE  session[q.from].state = "closed"
      BY <3>1 DEF GatewayIInv, CallOK
    <3> QED BY <1>2, <2>3, <3>1
  <2> QED BY <1>1, <2>2, <2>3, <2>4, <2>5 DEF CallOK, Renews, Drains, Leaving, Waiting
<1>3. SequencesOK'
  BY <1>1 DEF GatewayIInv, SequencesOK
<1>4. DrainsAreLast'
  <2>1. ASSUME NEW q \in calls' PROVE \E c \in calls : SameRequestAs(q, c)
    BY <2>1 DEF CallsRemain
  <2>2. ASSUME NEW p \in calls', NEW q \in calls', p.from = q.from, Renews(p), Drains(q)
        PROVE  p.seq <= q.seq
    <3>1. PICK c \in calls, d \in calls : SameRequestAs(p, c) /\ SameRequestAs(q, d)
      BY <2>1
    <3> QED BY <2>2, <3>1 DEF GatewayIInv, DrainsAreLast, SameRequestAs, Renews, Drains
  <2>3. ASSUME NEW p \in calls', Renews(p), session'[p.from].availability = "draining"
        PROVE  p.seq <= session'[p.from].seq
    <3>1. PICK c \in calls : SameRequestAs(p, c)
      BY <2>1
    <3> QED BY <2>3, <3>1 DEF SameRequestAs, Renews
  <2> QED BY <2>2, <2>3 DEF DrainsAreLast
<1>5. ClosedIsGone'
  <2>1. ASSUME NEW g \in Gateways, gateway'[g].reason = "closed"
        PROVE  session'[g].state = "closed" /\ activeSession' # g
    <3>1. session'[g].state = "closed"
      BY <1>1, <2>1 DEF GatewayIInv, SessionsInOrder, ClosedIsGone
    <3> QED BY <3>1 DEF SessionsOK
  <2> QED BY <2>1 DEF ClosedIsGone
<1> QED BY <1>2, <1>3, <1>4, <1>5 DEF GatewayIInv, SessionsInOrder, CallsRemain

LEMMA SameSessions ==
  ASSUME GatewayIInv, CallsRemain, UNCHANGED directory,
         \A q \in calls' : q.stage = "answered" /\ q.kind = "close" /\ q.answer = "ok" =>
                             q \in calls \/ session[q.from].state = "closed"
  PROVE  GatewayIInv'
<1>1. UNCHANGED <<registration, session, activeSession, fencing, gateway>>
  BY DEF directory, CallsRemain
<1>2. GatewayTypes' /\ SessionsOK' /\ OneActiveSession'
  BY <1>1 DEF GatewayIInv, GatewayTypes, CallsRemain, SessionsOK, Leaving, SessionsInOrder, OneActiveSession
<1>3. \A c \in calls : Renews(c) /\ session'[c.from].availability = "draining" =>
                         c.seq <= session'[c.from].seq
  BY <1>1 DEF GatewayIInv, DrainsAreLast
<1> QED BY <1>1, <1>2, <1>3, DirectoryKeeps

LEMMA LookUpStep ==
  ASSUME GatewayIInv, NEW c \in calls, LookUp(c)
  PROVE  GatewayIInv'
<1> USE DEF GatewayIInv
<1>1. UNCHANGED gateway /\ UNCHANGED directory /\ GatewayTypes
  BY DEF LookUp
<1>2. CASE LookAnswer(c) # "none" /\ Answered(c, LookAnswer(c))
  <2>1. LookAnswer(c) \in {"ok", "stale_sequence", "refused"}
    BY <1>1, <1>2, CallFields DEF LookAnswer, GatewayTypes
  <2>2. /\ CallsRemain
        /\ \A q \in calls' : q \in calls \/ (SameRequestAs(q, c) /\ q.answer = LookAnswer(c))
    <3> PICK answer : answer = LookAnswer(c)
      OBVIOUS
    <3> QED BY <1>1, <1>2, <2>1, AnsweredRemain
  <2>3. LookAnswer(c) = "ok" /\ c.kind = "close" => session[c.from].state = "closed"
    BY DEF LookAnswer
  <2> QED BY <1>1, <2>2, <2>3, SameSessions DEF SameRequestAs
<1>3. CASE calls' = (calls \ {c}) \cup {[c EXCEPT !.stage = "looked"]}
  BY <1>1, <1>3, LookedRemain, SameSessions
<1> QED BY <1>2, <1>3 DEF LookUp

\* Expiry changes nothing that the invariant speaks of.
LEMMA ExpireStep ==
  ASSUME GatewayIInv, NEW g \in Gateways, Expire(g)
  PROVE  GatewayIInv'
<1>1. UNCHANGED <<registration, activeSession, fencing, gateway, calls>> /\ GatewayTypes
  BY DEF Expire, GatewayIInv
<1>2. session' = [session EXCEPT ![g].live = FALSE] /\ session \in [Gateways -> SessionRecords]
  BY DEF Expire, GatewayIInv, GatewayTypes
<1>3. /\ session' \in [Gateways -> SessionRecords]
      /\ \A h \in Gateways :
           /\ session'[h].state = session[h].state /\ session'[h].fence = session[h].fence
           /\ session'[h].seq = session[h].seq /\ session'[h].availability = session[h].availability
  BY <1>2 DEF SessionRecords
<1>4. CallsRemain
  BY <1>1 DEF CallsRemain, SameRequestAs, GatewayIInv, GatewayTypes, OneOfEach
<1>5. GatewayTypes' /\ SessionsOK' /\ OneActiveSession'
  BY <1>1, <1>3 DEF GatewayIInv, GatewayTypes, SessionsOK, Leaving, SessionsInOrder, OneActiveSession
<1>6. \A c \in calls : c.from \in Gateways
  BY <1>1, CallFields DEF GatewayTypes
<1>7. \A c \in calls : Renews(c) /\ session'[c.from].availability = "draining" =>
                         c.seq <= session'[c.from].seq
  BY <1>3, <1>6 DEF GatewayIInv, DrainsAreLast
<1> QED BY <1>1, <1>3, <1>4, <1>5, <1>7, DirectoryKeeps

\* A new session takes the place of the active one.
LEMMA WriteOpenStep ==
  ASSUME GatewayIInv, NEW c \in calls, WriteOpen(c)
  PROVE  GatewayIInv'
<1> DEFINE h == c.from
           new == [state |-> "active", fence |-> fencing + 1, seq |-> 0,
                   availability |-> "available", live |-> TRUE]
<1>1. GatewayTypes /\ OneOfEach /\ h \in Gateways /\ c.kind = "open" /\ UNCHANGED gateway /\ Answered(c, "ok")
  BY CallFields DEF WriteOpen, GatewayIInv, GatewayTypes
<1>2. CallsRemain /\ \A q \in calls' : q \in calls \/ (SameRequestAs(q, c) /\ q.answer = "ok")
  BY <1>1, AnsweredRemain
<1>3. \A q \in calls' : q.kind = "close" => q \in calls
  BY <1>1, <1>2 DEF SameRequestAs
<1>4. CASE session[h].state # "absent"
  BY <1>2, <1>3, <1>4, SameSessions DEF WriteOpen
<1>5. CASE session[h].state = "absent"
  <2>1. /\ fencing' = fencing + 1 /\ activeSession' = h /\ UNCHANGED registration
        /\ session' = [FencedOut(h) EXCEPT ![h] = new]
    BY <1>5 DEF WriteOpen, NextFence
  <2>2. session \in [Gateways -> SessionRecords] /\ fencing \in Nat /\ new \in SessionRecords
    BY <1>1 DEF GatewayTypes, SessionRecords
  <2>3. /\ FencedOut(h) \in [Gateways -> SessionRecords]
        /\ \A g \in Gateways :
             /\ FencedOut(h)[g].state = IF g = activeSession THEN "fenced" ELSE session[g].state
             /\ FencedOut(h)[g].fence = session[g].fence /\ FencedOut(h)[g].seq = session[g].seq
             /\ FencedOut(h)[g].availability = session[g].availability
    <3>1. CASE activeSession = NoGateway
      BY <2>2, <3>1, GatewayAssumption DEF FencedOut
    <3>2. CASE activeSession \in Gateways
      BY <2>2, <3>2, GatewayAssumption DEF FencedOut, SessionRecords
    <3> QED BY <1>1, <3>1, <3>2 DEF GatewayTypes
  <2>4. /\ session' \in [Gateways -> SessionRecords] /\ session'[h] = new
        /\ \A g \in Gateways \ {h} : session'[g] = FencedOut(h)[g]
    BY <1>1, <2>1, <2>2, <2>3
  <2>5. new.state = "active" /\ new.fence = fencing + 1 /\ new.seq = 0 /\ new.availability = "available"
    OBVIOUS
  <2> HIDE DEF new, h
  <2>6. GatewayTypes'
    BY <1>1, <1>2, <2>1, <2>2, <2>4 DEF GatewayTypes, CallsRemain
  <2>7. \A g \in Gateways : activeSession = g => session[g].state = "active"
    BY DEF GatewayIInv, SessionsOK
  <2>8. SessionsOK'
    BY <1>1, <2>1, <2>3, <2>4, <2>5 DEF GatewayIInv, SessionsOK, Leaving
  <2>9. OneActiveSession'
    BY <1>1, <2>1, <2>3, <2>4, <2>5 DEF GatewayIInv, SessionsInOrder, OneActiveSession
  <2>10. \A g \in Gateways : session[g].state = "closed" => session'[g].state = "closed"
    BY <1>5, <2>3, <2>4, <2>7
  <2>11. ASSUME NEW d \in calls, Renews(d), session'[d.from].availability = "draining"
         PROVE  d.seq <= session'[d.from].seq
    <3>1. d.from \in Gateways
      BY <1>1, CallFields DEF GatewayTypes
    <3>2. session[d.from].availability = "draining" /\ session'[d.from].seq = session[d.from].seq
      BY <2>3, <2>4, <2>5, <2>11, <3>1
    <3> QED BY <2>11, <3>2 DEF GatewayIInv, DrainsAreLast
  <2> QED BY <1>2, <1>3, <2>6, <2>8, <2>9, <2>10, <2>11, DirectoryKeeps
<1> QED BY <1>4, <1>5

\* A heartbeat is taken from the active session only, and in order.
LEMMA WriteHeartbeatStep ==
  ASSUME GatewayIInv, NEW c \in calls, WriteHeartbeat(c)
  PROVE  GatewayIInv'
<1> DEFINE h == c.from
<1>1. /\ GatewayTypes /\ OneOfEach /\ h \in Gateways /\ c.kind = "heartbeat" /\ c.seq \in Nat
      /\ c.availability \in {"available", "draining"} /\ (c.availability = "draining" => Leaving(h))
      /\ UNCHANGED <<registration, activeSession, fencing, gateway>> /\ Answered(c, WriteAnswer(c))
  BY CallFields DEF WriteHeartbeat, GatewayIInv, GatewayTypes, CallOK, Renews, Drains
<1>2. WriteAnswer(c) \in {"session_fenced", "stale_sequence", "ok"}
  BY DEF WriteAnswer
<1>3. CallsRemain /\ \A q \in calls' : q \in calls \/ SameRequestAs(q, c)
  <2> PICK answer : answer = WriteAnswer(c)
    OBVIOUS
  <2> QED BY <1>1, <1>2, AnsweredRemain
<1>4. \A q \in calls' : q.kind = "close" => q \in calls
  BY <1>1, <1>3 DEF SameRequestAs
<1>5. CASE WriteAnswer(c) # "ok"
  BY <1>1, <1>3, <1>4, <1>5, SameSessions DEF WriteHeartbeat, directory
<1>6. CASE WriteAnswer(c) = "ok"
  <2>1. /\ session[h].state = "active" /\ activeSession = h /\ ~(c.seq <= session[h].seq)
        /\ session' = [session EXCEPT ![h].seq = c.seq, ![h].availability = c.availability, ![h].live = TRUE]
    BY <1>6 DEF WriteAnswer, WriteHeartbeat
  <2>2. /\ session' \in [Gateways -> SessionRecords]
        /\ \A g \in Gateways : session'[g].state = session[g].state /\ session'[g].fence = session[g].fence
        /\ \A g \in Gateways \ {h} : session'[g] = session[g]
        /\ session'[h].seq = c.seq /\ session'[h].availability = c.availability
    BY <1>1, <2>1 DEF GatewayTypes, SessionRecords
  <2>3. GatewayTypes'
    BY <1>1, <1>3, <2>2 DEF GatewayTypes, CallsRemain
  <2>4. SessionsOK'
    BY <1>1, <2>1, <2>2 DEF GatewayIInv, SessionsOK, Leaving
  <2>5. OneActiveSession'
    BY <1>1, <2>2 DEF GatewayIInv, SessionsInOrder, OneActiveSession
  <2>6. ASSUME NEW d \in calls, Renews(d), session'[d.from].availability = "draining"
        PROVE  d.seq <= session'[d.from].seq
    <3>1. d.from \in Gateways
      BY <1>1, CallFields DEF GatewayTypes
    <3>2. CASE d.from = h
      BY <1>1, <2>2, <2>6, <3>2 DEF GatewayIInv, DrainsAreLast, Drains
    <3>3. CASE d.from # h
      BY <2>2, <2>6, <3>1, <3>3 DEF GatewayIInv, DrainsAreLast
    <3> QED BY <3>2, <3>3
  <2> QED BY <1>3, <1>4, <2>2, <2>3, <2>4, <2>5, <2>6, DirectoryKeeps
<1> QED BY <1>5, <1>6

LEMMA WriteCloseStep ==
  ASSUME GatewayIInv, NEW c \in calls, WriteClose(c)
  PROVE  GatewayIInv'
<1> DEFINE h == c.from
<1>1. /\ GatewayTypes /\ OneOfEach /\ h \in Gateways /\ c.kind = "close" /\ c.seq \in Nat
      /\ UNCHANGED <<registration, fencing, gateway>> /\ Answered(c, WriteAnswer(c))
  BY CallFields DEF WriteClose, GatewayIInv, GatewayTypes
<1>2. WriteAnswer(c) \in {"session_fenced", "stale_sequence", "ok"}
  BY DEF WriteAnswer
<1>3. /\ CallsRemain
      /\ \A q \in calls' : q \in calls \/ (SameRequestAs(q, c) /\ q.answer = WriteAnswer(c))
  <2> PICK answer : answer = WriteAnswer(c)
    OBVIOUS
  <2> QED BY <1>1, <1>2, AnsweredRemain
<1>4. CASE WriteAnswer(c) # "ok"
  BY <1>1, <1>3, <1>4, SameSessions DEF WriteClose, directory
<1>5. CASE WriteAnswer(c) = "ok"
  <2>1. /\ session[h].state = "active" /\ activeSession = h /\ activeSession' = NoGateway
        /\ ~(c.seq <= session[h].seq)
        /\ session' = [session EXCEPT ![h].state = "closed", ![h].seq = c.seq,
                                      ![h].availability = "unavailable"]
    BY <1>5 DEF WriteAnswer, WriteClose
  <2>2. /\ session' \in [Gateways -> SessionRecords]
        /\ \A g \in Gateways \ {h} : session'[g] = session[g]
        /\ session'[h].state = "closed" /\ session'[h].availability = "unavailable"
    BY <1>1, <2>1 DEF GatewayTypes, SessionRecords
  <2>3. GatewayTypes'
    BY <1>1, <1>3, <2>1, <2>2 DEF GatewayTypes, CallsRemain
  <2>4. SessionsOK' /\ OneActiveSession'
    BY <1>1, <2>1, <2>2, GatewayAssumption
       DEF GatewayIInv, SessionsOK, Leaving, SessionsInOrder, OneActiveSession
  <2>5. ASSUME NEW d \in calls, Renews(d), session'[d.from].availability = "draining"
        PROVE  d.seq <= session'[d.from].seq
    <3>1. d.from \in Gateways /\ d.from # h
      BY <1>1, <2>2, <2>5, CallFields DEF GatewayTypes
    <3> QED BY <2>2, <2>5, <3>1 DEF GatewayIInv, DrainsAreLast
  <2>6. \A g \in Gateways : session[g].state = "closed" => session'[g].state = "closed"
    BY <2>2
  <2>7. \A q \in calls' : q \in calls \/ session'[q.from].state = "closed"
    BY <1>3, <2>2 DEF SameRequestAs
  <2> QED BY <1>3, <2>3, <2>4, <2>5, <2>6, <2>7, DirectoryKeeps
<1> QED BY <1>4, <1>5

LEMMA ProvisionStep ==
  ASSUME GatewayIInv, NEW enabled \in BOOLEAN, Provision(enabled)
  PROVE  GatewayIInv'
<1>1. UNCHANGED <<session, activeSession, fencing, gateway, calls>> /\ GatewayTypes
  BY DEF Provision, GatewayIInv
<1>2. CallsRemain
  BY <1>1 DEF CallsRemain, SameRequestAs, GatewayIInv, GatewayTypes, OneOfEach
<1>3. registration'.version \in Nat
  BY <1>1 DEF Provision, GatewayTypes
<1>4. GatewayTypes' /\ SessionsOK' /\ OneActiveSession'
  BY <1>1, <1>3 DEF GatewayIInv, GatewayTypes, SessionsOK, Leaving, SessionsInOrder, OneActiveSession
<1> QED BY <1>1, <1>2, <1>4, DirectoryKeeps DEF GatewayIInv, DrainsAreLast

-----------------------------------------------------------------------------
(* The gateway. *)

LEMMA GatewayKeeps ==
  ASSUME GatewayIInv, NEW g \in Gateways, NEW r \in GatewayRecords,
         gateway' = [gateway EXCEPT ![g] = r], UNCHANGED directory,
         calls' \subseteq CallRecords, OneOfEach', DrainsAreLast',
         Leaving(g) => r.pc \in {"draining", "drained", "closing", "ended"},
         r.pc \in {"new", "opening"} => r.seq = 0,
         r.reason = "closed" => session[g].state = "closed",
         \A c \in calls' : IF c.from = g THEN CallOK(c)' ELSE c \in calls
  PROVE  GatewayIInv'
<1>1. UNCHANGED <<registration, session, activeSession, fencing>> /\ GatewayTypes
  BY DEF directory, GatewayIInv
<1>2. gateway' \in [Gateways -> GatewayRecords] /\ gateway'[g] = r
      /\ \A h \in Gateways \ {g} : gateway'[h] = gateway[h]
  BY <1>1 DEF GatewayTypes
<1>3. GatewayTypes'
  BY <1>1, <1>2 DEF GatewayTypes
<1>4. ASSUME NEW c \in calls' PROVE CallOK(c)'
  <2>1. CASE c.from # g
    <3>1. c.from \in Gateways /\ gateway'[c.from] = gateway[c.from] /\ CallOK(c)
      BY <1>2, <1>4, <2>1, CallFields DEF GatewayIInv
    <3> QED BY <1>1, <3>1 DEF CallOK, Waiting, Leaving, Renews, Drains
  <2> QED BY <1>4, <2>1
<1>5. SequencesOK'
  BY <1>2 DEF GatewayIInv, SequencesOK
<1>6. SessionsOK'
  BY <1>1, <1>2 DEF GatewayIInv, SessionsOK, Leaving
<1>7. OneActiveSession'
  BY <1>1 DEF GatewayIInv, SessionsInOrder, OneActiveSession
<1>8. ClosedIsGone'
  <2>1. ASSUME NEW h \in Gateways, gateway'[h].reason = "closed"
        PROVE  session[h].state = "closed"
    BY <1>2, <2>1 DEF GatewayIInv, SessionsInOrder, ClosedIsGone
  <2> QED BY <1>1, <2>1 DEF ClosedIsGone, GatewayIInv, SessionsOK
<1> QED BY <1>3, <1>4, <1>5, <1>6, <1>7, <1>8 DEF GatewayIInv, SessionsInOrder

\* Calls of the gateway are dropped, and none is sent.
LEMMA NothingSent ==
  ASSUME GatewayIInv, calls' \subseteq calls, UNCHANGED session
  PROVE  calls' \subseteq CallRecords /\ OneOfEach' /\ DrainsAreLast'
BY DEF GatewayIInv, GatewayTypes, OneOfEach, DrainsAreLast

\* A gateway that ends waits for nothing more.
LEMMA EndsStep ==
  ASSUME GatewayIInv, NEW g \in Gateways, NEW reason \in {"closed", "fenced", "failed", "aborted"},
         Ends(g, reason), UNCHANGED directory, reason = "closed" => session[g].state = "closed"
  PROVE  GatewayIInv'
<1> DEFINE r == [gateway[g] EXCEPT !.pc = "ended", !.reason = reason]
<1>1. gateway[g] \in GatewayRecords /\ gateway[g].seq \in Nat /\ gateway[g].sent \in Nat
  BY GatewayFields DEF GatewayIInv
<1>2. /\ r \in GatewayRecords /\ r.pc = "ended" /\ r.reason = reason
      /\ r.sent = gateway[g].sent /\ r.seq = gateway[g].seq
  BY <1>1 DEF GatewayRecords, GatewayPcs
<1>3. gateway' = [gateway EXCEPT ![g] = r] /\ gateway'[g] = r
  BY DEF Ends, GatewayIInv, GatewayTypes
<1>4. calls' \subseteq calls /\ \A c \in calls' : c.from = g => c.stage # "answered"
  BY DEF Ends, AnswerOf
<1>5. UNCHANGED session
  BY DEF directory
<1>6. calls' \subseteq CallRecords /\ OneOfEach' /\ DrainsAreLast'
  BY <1>4, <1>5, NothingSent
<1> HIDE DEF r
<1>7. ASSUME NEW c \in calls', c.from = g PROVE CallOK(c)'
  <2>1. CallOK(c) /\ c.stage # "answered"
    BY <1>4, <1>7 DEF GatewayIInv
  <2> QED BY <1>2, <1>3, <1>7, <2>1 DEF CallOK, Waiting, Leaving, Renews, Drains
<1> QED BY <1>2, <1>3, <1>4, <1>6, <1>7, GatewayKeeps

\* A request of the gateway's present step is sent, for the first time or again.
LEMMA SendsStep ==
  ASSUME GatewayIInv, NEW g \in Gateways, NEW r \in GatewayRecords, NEW q \in CallRecords,
         gateway' = [gateway EXCEPT ![g] = r], UNCHANGED directory,
         calls' = (calls \ AnswerOf(g)) \cup {q},
         r.sent = gateway[g].sent + 1, r.seq = gateway[g].seq, r.reason = gateway[g].reason,
         r.pc \in {"opening", "renewing", "draining", "closing"},
         q.from = g, q.n = r.sent, q.kind = KindAt(r.pc), q.availability = AvailabilityAt(r.pc),
         q.seq = IF q.kind = "open" THEN 0 ELSE r.seq + 1, q.stage = "sent",
         Leaving(g) => r.pc \in {"draining", "closing"},
         r.pc = "opening" => gateway[g].pc \in {"new", "opening"}
  PROVE  GatewayIInv'
<1>1. UNCHANGED session /\ r.seq \in Nat /\ gateway[g].sent \in Nat /\ calls \subseteq CallRecords
      /\ gateway'[g] = r
  BY GatewayFields DEF directory, GatewayIInv, GatewayTypes
<1>2. q.kind \in {"open", "heartbeat", "close"} /\ q.seq \in Nat /\ q.seq <= r.seq + 1
      /\ (q.kind = "open" <=> r.pc = "opening") /\ (Drains(q) => r.pc = "draining")
      /\ (Renews(q) => r.pc = "renewing") /\ (q.kind = "heartbeat" => Renews(q) \/ Drains(q))
  BY <1>1, CallFields DEF KindAt, AvailabilityAt, Drains, Renews
<1>3. \A c \in calls' : c = q \/ (c \in calls /\ (c.from = g => c.stage # "answered"))
  BY DEF AnswerOf
<1>4. ASSUME NEW c \in calls, c.from = g
      PROVE  /\ CallOK(c) /\ c.n \in Nat /\ c.seq \in Nat /\ c.n < r.sent /\ c.seq <= r.seq + 1
             /\ Drains(c) => Leaving(g)
  <2>1. CallOK(c) /\ c.n \in Nat /\ c.seq \in Nat
    BY <1>1, <1>4, CallFields DEF GatewayIInv
  <2> QED BY <1>1, <1>4, <2>1 DEF CallOK
<1>5. calls' \subseteq CallRecords
  BY <1>1, <1>3
<1>6. OneOfEach'
  BY <1>1, <1>3, <1>4 DEF GatewayIInv, OneOfEach
<1>7. DrainsAreLast'
  <2>1. ASSUME NEW c \in calls', NEW d \in calls', c.from = d.from, Renews(c), Drains(d)
        PROVE  c.seq <= d.seq
    <3>1. CASE c \in calls /\ d \in calls
      BY <2>1, <3>1 DEF GatewayIInv, DrainsAreLast
    <3>2. CASE c = q
      <4>1. r.pc = "renewing" /\ d # q
        BY <1>2, <2>1, <3>2 DEF Drains, Renews
      <4>2. d \in calls /\ Leaving(g)
        BY <1>3, <1>4, <2>1, <3>2, <4>1
      <4> QED BY <4>1, <4>2
    <3>3. CASE d = q /\ c # q
      <4>1. d.seq = r.seq + 1
        BY <1>2, <2>1, <3>3 DEF Drains
      <4> QED BY <1>3, <1>4, <2>1, <3>3, <4>1
    <3> QED BY <1>3, <3>1, <3>2, <3>3
  <2>2. ASSUME NEW c \in calls', Renews(c), session'[c.from].availability = "draining"
        PROVE  c.seq <= session'[c.from].seq
    <3>1. CASE c = q
      <4>1. r.pc = "renewing" /\ Leaving(g)
        BY <1>1, <1>2, <2>2, <3>1 DEF GatewayIInv, SessionsOK
      <4> QED BY <4>1
    <3>2. CASE c \in calls
      BY <1>1, <2>2, <3>2 DEF GatewayIInv, DrainsAreLast
    <3> QED BY <1>3, <3>1, <3>2
  <2> QED BY <2>1, <2>2 DEF DrainsAreLast
<1>8. ASSUME NEW c \in calls', c.from = g PROVE CallOK(c)'
  <2>1. CASE c = q
    BY <1>1, <1>2, <2>1 DEF CallOK, Waiting, Leaving, Renews, Drains
  <2>2. CASE c # q
    <3>1. CallOK(c) /\ c.stage # "answered" /\ c.n < r.sent /\ c.n \in Nat /\ c.seq <= r.seq + 1
          /\ (Drains(c) => Leaving(g))
      BY <1>3, <1>4, <1>8, <2>2
    <3>2. r.sent \in Nat /\ c.n # r.sent
      BY <1>1, <3>1
    <3> QED BY <1>1, <1>8, <3>1, <3>2 DEF CallOK, Leaving, Renews, Drains
  <2> QED BY <2>1, <2>2
<1>9. r.pc = "opening" => r.seq = 0
  BY DEF GatewayIInv, SequencesOK
<1>10. r.reason = "closed" => session[g].state = "closed"
  BY DEF GatewayIInv, SessionsInOrder, ClosedIsGone
<1>11. \A c \in calls' : IF c.from = g THEN CallOK(c)' ELSE c \in calls
  BY <1>3, <1>8
<1> QED BY <1>5, <1>6, <1>7, <1>9, <1>10, <1>11, GatewayKeeps

LEMMA SendsAtStep ==
  ASSUME GatewayIInv, NEW g \in Gateways, NEW pc \in {"opening", "renewing", "draining", "closing"},
         NEW tries \in Nat, Sends(g, pc, KindAt(pc), AvailabilityAt(pc), tries), UNCHANGED directory,
         Leaving(g) => pc \in {"draining", "closing"},
         pc = "opening" => gateway[g].pc \in {"new", "opening"}
  PROVE  GatewayIInv'
<1> DEFINE r == [gateway[g] EXCEPT !.pc = pc, !.sent = @ + 1, !.tries = tries]
           q == Call(g, KindAt(pc), AvailabilityAt(pc))
<1>1. /\ gateway[g] \in GatewayRecords /\ gateway[g].sent \in Nat /\ gateway[g].seq \in Nat
      /\ gateway[g].version \in Nat /\ gateway[g].fence \in Nat
  BY GatewayFields DEF GatewayIInv
<1>2. /\ r \in GatewayRecords /\ r.pc = pc /\ r.sent = gateway[g].sent + 1 /\ r.seq = gateway[g].seq
      /\ r.reason = gateway[g].reason
  <2>1. gateway[g].sent + 1 \in Nat
    BY <1>1
  <2> QED BY <1>1, <2>1 DEF GatewayRecords, GatewayPcs
<1>3. KindAt(pc) \in {"open", "heartbeat", "close"}
      /\ AvailabilityAt(pc) \in {"available", "draining", "unavailable"}
  BY DEF KindAt, AvailabilityAt
<1>4. /\ q \in CallRecords /\ q.from = g /\ q.n = gateway[g].sent + 1 /\ q.kind = KindAt(pc)
      /\ q.availability = AvailabilityAt(pc) /\ q.stage = "sent"
      /\ q.seq = IF q.kind = "open" THEN 0 ELSE gateway[g].seq + 1
  <2>1. gateway[g].sent + 1 \in Nat /\ (IF KindAt(pc) = "open" THEN 0 ELSE gateway[g].seq + 1) \in Nat
    BY <1>1
  <2> QED BY <1>1, <1>3, <2>1 DEF Call, CallRecords
<1>5. /\ gateway' = [gateway EXCEPT ![g] = r]
      /\ calls' = (calls \ AnswerOf(g)) \cup {q}
  BY DEF Sends, GatewayIInv, GatewayTypes
<1> HIDE DEF r, q
<1> QED BY <1>2, <1>4, <1>5, SendsStep

LEMMA StartGatewayStep ==
  ASSUME GatewayIInv, NEW g \in Gateways, StartGateway(g)
  PROVE  GatewayIInv'
<1> DEFINE v == registration.version
           r == [gateway[g] EXCEPT !.pc = "opening", !.sent = @ + 1, !.version = v]
           q == [Call(g, "open", "available") EXCEPT !.version = v]
<1>1. /\ gateway[g] \in GatewayRecords /\ gateway[g].sent \in Nat /\ gateway[g].seq \in Nat
      /\ gateway[g].version \in Nat /\ gateway[g].fence \in Nat /\ v \in Nat
  BY GatewayFields DEF GatewayIInv, GatewayTypes
<1>2. /\ r \in GatewayRecords /\ r.pc = "opening" /\ r.sent = gateway[g].sent + 1
      /\ r.seq = gateway[g].seq /\ r.reason = gateway[g].reason
  <2>1. gateway[g].sent + 1 \in Nat
    BY <1>1
  <2> HIDE DEF v
  <2> QED BY <1>1, <2>1 DEF GatewayRecords, GatewayPcs
<1>3. /\ q \in CallRecords /\ q.from = g /\ q.n = gateway[g].sent + 1 /\ q.kind = "open"
      /\ q.availability = "available" /\ q.stage = "sent" /\ q.seq = 0
  <2>1. gateway[g].sent + 1 \in Nat
    BY <1>1
  <2> HIDE DEF v
  <2> QED BY <1>1, <2>1 DEF Call, CallRecords
<1>4. gateway[g].pc = "new" /\ UNCHANGED directory /\ calls' = calls \cup {q}
      /\ gateway' = [gateway EXCEPT ![g] = r]
  BY DEF StartGateway, GatewayIInv, GatewayTypes
<1>5. AnswerOf(g) = {}
  BY <1>4 DEF AnswerOf, GatewayIInv, CallOK, Waiting
<1>6. KindAt("opening") = "open" /\ AvailabilityAt("opening") = "available" /\ ~Leaving(g)
  BY <1>4 DEF KindAt, AvailabilityAt, Leaving
<1> HIDE DEF r, q
<1>7. calls' = (calls \ AnswerOf(g)) \cup {q}
  BY <1>4, <1>5
<1> QED BY <1>2, <1>3, <1>4, <1>6, <1>7, SendsStep

\* The answer the gateway waits for: it goes on, or ends.
LEMMA TakeAnswerStep ==
  ASSUME GatewayIInv, NEW g \in Gateways, TakeAnswer(g)
  PROVE  GatewayIInv'
<1>1. PICK c \in AnswerOf(g) :
        /\ CASE c.answer = "ok" /\ c.kind # "close" ->
                  /\ gateway' = [gateway EXCEPT ![g].seq = c.seq, ![g].fence = session[g].fence, ![g].tries = 0,
                       ![g].pc = IF gateway[g].pc = "draining" THEN "drained" ELSE "open"]
                  /\ calls' = calls \ {c}
             [] c.answer = "ok" /\ c.kind = "close" -> Ends(g, "closed")
             [] c.answer \in {"session_fenced", "stale_sequence"} -> Ends(g, "fenced")
             [] c.answer = "refused" -> Ends(g, "failed")
        /\ UNCHANGED directory
  BY DEF TakeAnswer
<1>2. /\ c \in calls /\ c.from = g /\ c.stage = "answered" /\ c \in CallRecords /\ CallOK(c)
      /\ c.answer \in {"ok", "stale_sequence", "refused", "session_fenced"} /\ UNCHANGED session
  BY <1>1 DEF AnswerOf, GatewayIInv, GatewayTypes, CallRecords, CallOK, directory
<1>3. CASE c.answer # "ok"
  BY <1>1, <1>2, <1>3, EndsStep
<1>4. CASE c.answer = "ok" /\ c.kind = "close"
  BY <1>1, <1>2, <1>4, EndsStep DEF CallOK
<1>5. CASE c.answer = "ok" /\ c.kind # "close"
  <2> DEFINE pc == IF gateway[g].pc = "draining" THEN "drained" ELSE "open"
             r == [gateway[g] EXCEPT !.seq = c.seq, !.fence = session[g].fence, !.tries = 0, !.pc = pc]
  <2>1. /\ gateway[g] \in GatewayRecords /\ gateway[g].sent \in Nat /\ gateway[g].seq \in Nat
        /\ session[g].fence \in Nat /\ c.seq \in Nat /\ c.n \in Nat
    BY <1>2, CallFields, GatewayFields DEF GatewayIInv
  <2>2. /\ r \in GatewayRecords /\ r.pc = pc /\ r.sent = gateway[g].sent /\ r.seq = c.seq
        /\ r.reason = gateway[g].reason
    BY <2>1 DEF GatewayRecords, GatewayPcs
  <2>3. gateway' = [gateway EXCEPT ![g] = r] /\ gateway'[g] = r /\ calls' = calls \ {c}
    BY <1>1, <1>5 DEF GatewayIInv, GatewayTypes
  <2>4. c.n = gateway[g].sent /\ gateway[g].pc \in {"opening", "renewing", "draining"}
        /\ c.seq >= gateway[g].seq
    <3>1. /\ c.n = gateway[g].sent /\ Waiting(g) /\ c.kind = KindAt(gateway[g].pc)
          /\ c.seq = IF gateway[g].pc = "opening" THEN 0 ELSE gateway[g].seq + 1
      BY <1>2 DEF CallOK
    <3>2. gateway[g].pc # "closing"
      BY <1>5, <3>1 DEF KindAt
    <3>3. gateway[g].pc = "opening" => gateway[g].seq = 0
      BY DEF GatewayIInv, SequencesOK
    <3> QED BY <2>1, <3>1, <3>2, <3>3 DEF Waiting
  <2> HIDE DEF r
  <2>5. calls' \subseteq CallRecords /\ OneOfEach' /\ DrainsAreLast'
    BY <1>2, <2>3, NothingSent
  <2>6. ASSUME NEW d \in calls', d.from = g PROVE CallOK(d)'
    <3>1. CallOK(d) /\ d.seq \in Nat /\ d.n # c.n /\ d \in calls
      BY <1>2, <2>3, <2>6, CallFields DEF GatewayIInv, GatewayTypes, OneOfEach
    <3>2. d.stage # "answered" /\ d.seq <= r.seq + 1 /\ d.n <= r.sent
      BY <2>1, <2>2, <2>4, <2>6, <3>1 DEF CallOK
    <3>3. ~Waiting(g)' /\ (Leaving(g) => Leaving(g)')
      BY <2>2, <2>3, <2>4 DEF Waiting, Leaving
    <3> QED BY <2>3, <2>6, <3>1, <3>2, <3>3 DEF CallOK, Renews, Drains
  <2>7. Leaving(g) => r.pc = "drained"
    BY <2>2, <2>4 DEF Leaving
  <2>8. r.reason = "closed" => session[g].state = "closed"
    BY <2>2 DEF GatewayIInv, SessionsInOrder, ClosedIsGone
  <2>9. r.pc \notin {"new", "opening"} /\ \A d \in calls' : IF d.from = g THEN CallOK(d)' ELSE d \in calls
    BY <2>2, <2>3, <2>6
  <2> QED BY <1>1, <2>2, <2>3, <2>5, <2>7, <2>8, <2>9, GatewayKeeps
<1> QED BY <1>3, <1>4, <1>5

LEMMA GatewayStepKeeps ==
  ASSUME GatewayIInv, NEW g \in Gateways, GatewayStep(g)
  PROVE  GatewayIInv'
<1>1. CASE StartGateway(g)
  BY <1>1, StartGatewayStep
<1>2. CASE TakeAnswer(g)
  BY <1>2, TakeAnswerStep
<1>3. CASE Renew(g)
  <2>1. KindAt("renewing") = "heartbeat" /\ AvailabilityAt("renewing") = "available"
    BY DEF KindAt, AvailabilityAt
  <2> QED BY <1>3, <2>1, SendsAtStep DEF Renew, Leaving
<1>4. CASE CloseGateway(g)
  <2>1. KindAt("draining") = "heartbeat" /\ AvailabilityAt("draining") = "draining"
    BY DEF KindAt, AvailabilityAt
  <2> QED BY <1>4, <2>1, SendsAtStep DEF CloseGateway, Leaving
<1>5. CASE SendClose(g)
  <2>1. KindAt("closing") = "close" /\ AvailabilityAt("closing") = "unavailable"
    BY DEF KindAt, AvailabilityAt
  <2> QED BY <1>5, <2>1, SendsAtStep DEF SendClose, Leaving
<1>6. CASE SendAgain(g)
  <2>1. PICK pc : pc = gateway[g].pc
    OBVIOUS
  <2>2. PICK tries : tries = gateway[g].tries + 1
    OBVIOUS
  <2>3. tries \in Nat
    <3>1. gateway[g] \in GatewayRecords
      BY GatewayFields DEF GatewayIInv
    <3> QED BY <2>2, <3>1 DEF GatewayRecords
  <2> QED BY <1>6, <2>1, <2>2, <2>3, SendsAtStep DEF SendAgain, Waiting, Leaving
<1>7. CASE GiveUpWaiting(g) \/ AbortGateway(g)
  BY <1>7, EndsStep DEF GiveUpWaiting, AbortGateway
<1> QED BY <1>1, <1>2, <1>3, <1>4, <1>5, <1>6, <1>7 DEF GatewayStep

LEMMA GatewayInitHolds == GatewayInit => GatewayIInv
<1> SUFFICES ASSUME GatewayInit PROVE GatewayIInv
  OBVIOUS
<1>1. GatewayTypes
  BY DEF GatewayInit, GatewayTypes, NoSession, SessionRecords, GatewayRecords, GatewayPcs
<1>2. /\ OneOfEach /\ (\A c \in calls : CallOK(c)) /\ DrainsAreLast
  BY DEF GatewayInit, OneOfEach, DrainsAreLast
<1>3. SequencesOK
  BY DEF GatewayInit, SequencesOK
<1>4. SessionsOK /\ SessionsInOrder
  BY GatewayAssumption DEF GatewayInit, NoSession, SessionsOK, SessionsInOrder, OneActiveSession, ClosedIsGone, Leaving
<1> QED BY <1>1, <1>2, <1>3, <1>4 DEF GatewayIInv

LEMMA GatewayNextHolds == GatewayIInv /\ [GatewayNext]_gatewayVars => GatewayIInv'
<1> SUFFICES ASSUME GatewayIInv, [GatewayNext]_gatewayVars PROVE GatewayIInv'
  OBVIOUS
<1>1. CASE UNCHANGED gatewayVars
  BY <1>1 DEF gatewayVars, GatewayIInv, GatewayTypes, OneOfEach, CallOK, Renews, Drains, Leaving, Waiting,
       SequencesOK, DrainsAreLast, SessionsOK, SessionsInOrder, OneActiveSession, ClosedIsGone
<1>2. CASE DirectoryStep
  BY <1>2, ProvisionStep, ExpireStep, LookUpStep, WriteOpenStep, WriteHeartbeatStep, WriteCloseStep
     DEF DirectoryStep
<1>3. ASSUME NEW g \in Gateways, GatewayStep(g) PROVE GatewayIInv'
  BY <1>3, GatewayStepKeeps
<1> QED BY <1>1, <1>2, <1>3 DEF GatewayNext

\* However late or often calls arrive, one session is active at most, the one opened last,
\* and a gateway that was told that it has closed has a closed session.
THEOREM SessionsStayInOrder == GatewaySpec => []SessionsInOrder
<1>1. GatewayIInv => SessionsInOrder
  BY DEF GatewayIInv
<1> QED BY <1>1, GatewayInitHolds, GatewayNextHolds, PTL DEF GatewaySpec

\* What is at stake in a step of the directory: no number taken back, and nothing that is
\* draining or closed shown as available.
NothingTakenBack ==
  \A g \in Gateways :
    /\ session'[g].seq >= session[g].seq
    /\ session[g].availability \in {"draining", "unavailable"} /\ session[g].state # "absent" =>
         session'[g].availability # "available"

LEMMA WritesAreInOrder ==
  ASSUME GatewayIInv, NEW c \in calls, WriteOpen(c) \/ WriteHeartbeat(c) \/ WriteClose(c)
  PROVE  NothingTakenBack
<1> DEFINE h == c.from
<1>1. /\ GatewayTypes /\ h \in Gateways /\ c.seq \in Nat /\ session \in [Gateways -> SessionRecords]
      /\ \A g \in Gateways : session[g].seq \in Nat
  BY CallFields, GatewayFields DEF GatewayIInv, GatewayTypes
<1>2. ASSUME UNCHANGED session PROVE NothingTakenBack
  BY <1>1, <1>2 DEF NothingTakenBack
<1>3. CASE WriteOpen(c) /\ session[h].state = "absent"
  <2>1. session' = [FencedOut(h) EXCEPT ![h] = [state |-> "active", fence |-> fencing + 1, seq |-> 0,
                                                availability |-> "available", live |-> TRUE]]
    BY <1>3 DEF WriteOpen, NextFence
  <2>2. /\ FencedOut(h) \in [Gateways -> SessionRecords]
        /\ \A g \in Gateways : /\ FencedOut(h)[g].seq = session[g].seq
                               /\ FencedOut(h)[g].availability = session[g].availability
    <3>1. CASE activeSession = NoGateway
      BY <1>1, <3>1 DEF FencedOut
    <3>2. CASE activeSession \in Gateways
      BY <1>1, <3>2, GatewayAssumption DEF FencedOut, SessionRecords
    <3> QED BY <1>1, <3>1, <3>2 DEF GatewayTypes
  <2>3. session'[h].seq = 0 /\ \A g \in Gateways \ {h} : session'[g] = FencedOut(h)[g]
    BY <1>1, <2>1, <2>2
  <2>4. session[h].seq = 0
    BY <1>1, <1>3 DEF GatewayIInv, SessionsOK
  <2> QED BY <1>1, <1>3, <2>2, <2>3, <2>4 DEF NothingTakenBack
<1>4. CASE WriteHeartbeat(c) /\ WriteAnswer(c) = "ok"
  <2>1. /\ session[h].state = "active" /\ ~(c.seq <= session[h].seq) /\ c.kind = "heartbeat"
        /\ session' = [session EXCEPT ![h].seq = c.seq, ![h].availability = c.availability, ![h].live = TRUE]
    BY <1>4 DEF WriteAnswer, WriteHeartbeat
  <2>2. /\ session'[h].seq = c.seq /\ session'[h].availability = c.availability
        /\ \A g \in Gateways \ {h} : session'[g] = session[g]
    BY <1>1, <2>1 DEF SessionRecords
  <2>3. session[h].availability # "unavailable"
    BY <1>1, <2>1 DEF GatewayIInv, SessionsOK
  <2>4. c.availability = "available" => session[h].availability # "draining"
    BY <2>1 DEF GatewayIInv, DrainsAreLast, Renews
  <2> QED BY <1>1, <2>1, <2>2, <2>3, <2>4 DEF NothingTakenBack
<1>5. CASE WriteClose(c) /\ WriteAnswer(c) = "ok"
  <2>1. /\ ~(c.seq <= session[h].seq)
        /\ session' = [session EXCEPT ![h].state = "closed", ![h].seq = c.seq,
                                      ![h].availability = "unavailable"]
    BY <1>5 DEF WriteAnswer, WriteClose
  <2>2. /\ session'[h].seq = c.seq /\ session'[h].availability = "unavailable"
        /\ \A g \in Gateways \ {h} : session'[g] = session[g]
    BY <1>1, <2>1 DEF SessionRecords
  <2> QED BY <1>1, <2>1, <2>2 DEF NothingTakenBack
<1>6. CASE (WriteOpen(c) /\ session[h].state # "absent")
           \/ ((WriteHeartbeat(c) \/ WriteClose(c)) /\ WriteAnswer(c) # "ok")
  BY <1>2, <1>6 DEF WriteOpen, WriteHeartbeat, WriteClose, directory
<1> QED BY <1>3, <1>4, <1>5, <1>6

\* A heartbeat or a close that was left behind never takes back what its gateway did later.
THEOREM LateCallsChangeNothing == GatewaySpec => LateCallsAreStale
<1>1. GatewayIInv /\ [GatewayNext]_gatewayVars => [NothingTakenBack]_gatewayVars
  <2> SUFFICES ASSUME GatewayIInv, GatewayNext PROVE NothingTakenBack
    OBVIOUS
  <2>1. \A g \in Gateways : session[g].seq \in Nat /\ session[g] \in SessionRecords
    BY GatewayFields DEF GatewayIInv
  <2>2. ASSUME UNCHANGED session PROVE NothingTakenBack
    BY <2>1, <2>2 DEF NothingTakenBack
  <2>3. CASE \E g \in Gateways : GatewayStep(g)
    BY <2>2, <2>3 DEF GatewayStep, StartGateway, Renew, CloseGateway, TakeAnswer, SendClose, SendAgain,
         GiveUpWaiting, AbortGateway, directory
  <2>4. CASE \E enabled \in BOOLEAN : Provision(enabled)
    BY <2>2, <2>4 DEF Provision
  <2>5. ASSUME NEW g \in Gateways, Expire(g) PROVE NothingTakenBack
    <3>1. session' = [session EXCEPT ![g].live = FALSE]
      BY <2>5 DEF Expire
    <3>2. \A h \in Gateways : session'[h].seq = session[h].seq
                             /\ session'[h].availability = session[h].availability
      BY <2>1, <3>1 DEF SessionRecords, GatewayIInv, GatewayTypes
    <3> QED BY <2>1, <3>2 DEF NothingTakenBack
  <2>6. ASSUME NEW c \in calls, LookUp(c) PROVE NothingTakenBack
    BY <2>2, <2>6 DEF LookUp, directory
  <2> QED BY <2>3, <2>4, <2>5, <2>6, WritesAreInOrder DEF GatewayNext, DirectoryStep
<1> QED BY <1>1, GatewayInitHolds, GatewayNextHolds, PTL
        DEF GatewaySpec, LateCallsAreStale, NothingTakenBack

-----------------------------------------------------------------------------
(* Agent runs: what the variables range over. *)

Early == {"received", "accepted", "running"}
RunStates == Early \cup {"absent", "result_ready"} \cup Over
Lives == {"offered", "accepted"} \cup Terminal

\* A task at one of these has taken the run over and works on it.
AtWork ==
  {"load", "send accept", "read accept", "note accept", "to accepted",
   "send status", "read status", "note status", "checkpoint", "to running",
   "execute", "executing", "capture"}

Submitting == {"send result", "read result", "note result"}
NothingSeen == {"idle", "record", "recover", "end"}

Pcs == AtWork \cup Submitting \cup NothingSeen \cup
  {"terminal", "acknowledge", "mark", "claim", "send decline", "read decline", "note decline",
   "to succeeded", "catch", "give up", "converge"}

RunRecords ==
  [state : RunStates, token : Nat, leased : BOOLEAN, reported : BOOLEAN,
   result : Results \cup {NoResult}]

TaskRecords ==
  [pc : Pcs, delivery : {"offer", "end"}, seen : Lives, fresh : BOOLEAN, was : RunStates,
   token : Nat, state : RunStates, result : Results \cup {NoResult}, submits : BOOLEAN,
   aborted : BOOLEAN, then : {"end", "acknowledge"}]

RuntimeTypes ==
  /\ host \in {"down", "up", "closing"}
  /\ remote \in [life : Lives, result : Results \cup {NoResult}]
  /\ run \in RunRecords
  /\ task \in [Tasks -> TaskRecords]
  /\ activeTask \in Tasks \cup {NoTask}

-----------------------------------------------------------------------------
(* The inductive invariant. *)

\* The run and the Handoff: a result is captured before it is returned.
RecordsOK ==
  /\ run.state \in Early \cup {"absent"} => run.result = NoResult
  /\ run.state = "result_ready" => run.result \in Results
  /\ remote.life = "result_returned" => remote.result \in Results
  /\ "result" \in commands => remote.life = "result_returned"
  /\ ResultsAgree /\ AckedIsHeld

\* What a task whose local state is r knows for good.
TaskOK(r) ==
  /\ r.token <= run.token
  /\ r.pc \notin NothingSeen => run.state # "absent"
  /\ r.pc \in AtWork => r.state \in Early
  /\ r.pc = "converge" => r.state \in Early \cup {"result_ready"}
  /\ r.pc = "capture" => r.result \in Results
  /\ r.pc \in Submitting => r.result = run.result /\ r.result \in Results
  /\ r.pc \in {"note result", "to succeeded"} => remote.life = "result_returned"

\* A task at work that nobody has aborted is the active one and alone has the newest token:
\* no other can move the run on under it.
Working(t) == task[t].pc \in AtWork /\ ~task[t].aborted

Alone(t) ==
  /\ activeTask = t /\ task[t].token = run.token /\ run.token # 0
  /\ \A u \in Tasks : u # t => task[u].token # run.token
  /\ run.state \in Early

WorkersAreAlone == \A t \in Tasks : Working(t) => Alone(t)

\* Recovery begins before any delivery is handled.
RecoveryIsFirst ==
  /\ host = "down" => \A t \in Tasks : task[t].pc = "idle"
  /\ task["recover"].pc = "recover" => \A t \in Handlers : task[t].pc = "idle"

RuntimeIInv ==
  /\ RuntimeTypes /\ RecordsOK /\ (\A t \in Tasks : TaskOK(task[t]))
  /\ WorkersAreAlone /\ RecoveryIsFirst

-----------------------------------------------------------------------------
(* Steps in general. *)

LEMMA RunFields ==
  ASSUME RuntimeTypes
  PROVE  /\ run.state \in RunStates /\ run.token \in Nat /\ run.leased \in BOOLEAN
         /\ run.reported \in BOOLEAN /\ run.result \in Results \cup {NoResult}
         /\ remote.life \in Lives /\ remote.result \in Results \cup {NoResult}
BY DEF RuntimeTypes, RunRecords

LEMMA TaskFields ==
  ASSUME RuntimeTypes, NEW t \in Tasks
  PROVE  /\ task[t] \in TaskRecords /\ task[t].pc \in Pcs /\ task[t].token \in Nat
         /\ task[t].state \in RunStates /\ task[t].result \in Results \cup {NoResult}
         /\ task[t].aborted \in BOOLEAN /\ task[t].then \in {"end", "acknowledge"}
         /\ task[t].delivery \in {"offer", "end"} /\ task[t].seen \in Lives /\ task[t].was \in RunStates
BY DEF RuntimeTypes, TaskRecords

\* What tasks rely on: tokens only grow, the run stays, and a result is never replaced.
RecordsGrow ==
  /\ run.token <= run'.token
  /\ run.state # "absent" => run'.state # "absent"
  /\ run.result \in Results => run'.result = run.result
  /\ remote.life = "result_returned" => remote'.life = "result_returned"

LEMMA TaskStaysOK ==
  ASSUME RuntimeTypes, RuntimeTypes', RecordsGrow, NEW r, r.token \in Nat, TaskOK(r)
  PROVE  TaskOK(r)'
<1>1. run.token \in Nat /\ run'.token \in Nat /\ r.token <= run.token /\ run.token <= run'.token
  BY DEF TaskOK, RecordsGrow, RuntimeTypes, RunRecords
<1>2. r.token <= run'.token
  BY <1>1
<1>3. r.pc \notin NothingSeen => run'.state # "absent"
  BY DEF TaskOK, RecordsGrow
<1>4. r.pc \in Submitting => r.result = run'.result /\ r.result \in Results
  BY DEF TaskOK, RecordsGrow
<1>5. r.pc \in {"note result", "to succeeded"} => remote'.life = "result_returned"
  BY DEF TaskOK, RecordsGrow
<1> QED BY <1>2, <1>3, <1>4, <1>5 DEF TaskOK

\* Task t moves on to r, and others may be aborted.
Moves(t, r) ==
  /\ task'[t] = r
  /\ \A u \in Tasks \ {t} : task'[u] \in {task[u], [task[u] EXCEPT !.aborted = TRUE]}

LEMMA OthersKeep ==
  ASSUME RuntimeTypes, NEW t \in Tasks, NEW r \in TaskRecords, Moves(t, r), NEW u \in Tasks, u # t
  PROVE  /\ task'[u].token = task[u].token /\ task'[u].pc = task[u].pc
         /\ task'[u].state = task[u].state /\ task'[u].result = task[u].result
         /\ task[u].aborted => task'[u].aborted
<1>1. task[u] \in TaskRecords /\ task'[u] \in {task[u], [task[u] EXCEPT !.aborted = TRUE]}
  BY DEF RuntimeTypes, Moves
<1> QED BY <1>1 DEF TaskRecords

LEMMA Becomes ==
  ASSUME RuntimeTypes, NEW t \in Tasks, NEW r \in TaskRecords, task' = [task EXCEPT ![t] = r]
  PROVE  /\ Moves(t, r) /\ task' \in [Tasks -> TaskRecords] /\ task'[t] = r
         /\ \A u \in Tasks : u # t => task'[u] = task[u]
BY DEF Moves, RuntimeTypes

LEMMA TaskMoves ==
  ASSUME RuntimeIInv, NEW t \in Tasks, NEW r \in TaskRecords, Moves(t, r),
         RuntimeTypes', RecordsOK', RecordsGrow, TaskOK(r)', WorkersAreAlone',
         r.pc \notin {"idle", "recover"} \/ r.pc = "idle",
         task[t].pc = "idle" => t # "recover" /\ task["recover"].pc = "idle",
         UNCHANGED host, host # "down"
  PROVE  RuntimeIInv'
<1>0. RuntimeTypes /\ (\A u \in Tasks : TaskOK(task[u])) /\ task'[t] = r
  BY DEF RuntimeIInv, Moves
<1>1. ASSUME NEW u \in Tasks, u # t PROVE TaskOK(task[u])'
  <2>1. PICK q : q = task'[u]
    OBVIOUS
  <2>2. /\ q.token = task[u].token /\ q.pc = task[u].pc /\ q.state = task[u].state
        /\ q.result = task[u].result
    BY <1>0, <1>1, <2>1, OthersKeep
  <2>3. TaskOK(q) /\ q.token \in Nat
    BY <1>0, <2>2, TaskFields DEF TaskOK
  <2>4. TaskOK(q)'
    BY <1>0, <2>3, TaskStaysOK
  <2> QED BY <2>1, <2>4 DEF TaskOK
<1>2. TaskOK(task[t])'
  BY <1>0 DEF TaskOK
<1>3. RecoveryIsFirst'
  <2>1. "recover" \in Tasks /\ Tasks = Handlers \cup {"recover"} /\ "recover" \notin Handlers
    BY RuntimeAssumption DEF Tasks
  <2>2. ASSUME task'["recover"].pc = "recover" PROVE \A u \in Handlers : task'[u].pc = "idle"
    <3>1. t # "recover" /\ task["recover"].pc = "recover"
      BY <1>0, <2>1, <2>2, OthersKeep
    <3>2. \A u \in Handlers : task[u].pc = "idle"
      BY <3>1 DEF RuntimeIInv, RecoveryIsFirst
    <3> QED BY <1>0, <2>1, <3>1, <3>2
  <2> QED BY <2>2 DEF RecoveryIsFirst
<1> QED BY <1>1, <1>2, <1>3 DEF RuntimeIInv

\* Who is still at work keeps the run to itself while nobody takes a newer token.
LEMMA WorkersStay ==
  ASSUME RuntimeIInv, RuntimeTypes',
         \A u \in Tasks : Working(u)' =>
           /\ Working(u) /\ task'[u].token = task[u].token
           /\ UNCHANGED activeTask /\ run'.token = run.token /\ run'.state \in Early
           /\ \A v \in Tasks : task'[v].token \in {0, task[v].token}
  PROVE  WorkersAreAlone'
BY DEF RuntimeIInv, WorkersAreAlone, Alone

\* A step of task t alone, which only moves on to another place.
LEMMA GotoMoves ==
  ASSUME RuntimeTypes, NEW t \in Tasks, NEW pc \in Pcs, Goto(t, pc)
  PROVE  /\ task' \in [Tasks -> TaskRecords]
         /\ \E r \in TaskRecords :
              /\ Moves(t, r) /\ r.pc = pc /\ r.token = task[t].token /\ r.state = task[t].state
              /\ r.result = task[t].result /\ r.aborted = task[t].aborted
         /\ \A u \in Tasks : task'[u].token = task[u].token
         /\ \A u \in Tasks : u # t => task'[u] = task[u]
<1> DEFINE r == [task[t] EXCEPT !.pc = pc]
<1>1. task[t] \in TaskRecords /\ task \in [Tasks -> TaskRecords]
  BY DEF RuntimeTypes
<1>2. /\ r \in TaskRecords /\ r.pc = pc /\ r.token = task[t].token /\ r.state = task[t].state
      /\ r.result = task[t].result /\ r.aborted = task[t].aborted
  BY <1>1 DEF TaskRecords
<1>3. task' = [task EXCEPT ![t] = r]
  BY DEF Goto
<1> HIDE DEF r
<1> QED BY <1>1, <1>2, <1>3 DEF Moves

LEMMA NoLessThanItself == \A n \in Nat : n <= n
OBVIOUS

LEMMA GoesOn ==
  ASSUME RuntimeIInv, NEW t \in Tasks, NEW pc \in Pcs \ {"idle", "recover", "capture"}, Goto(t, pc),
         UNCHANGED <<host, activeTask>>, host # "down", task[t].pc # "idle",
         run' \in RunRecords, run'.state = run.state, run'.token = run.token, run'.result = run.result,
         remote' \in [life : Lives, result : Results \cup {NoResult}],
         remote.life = "result_returned" => remote'.life = "result_returned",
         RecordsOK',
         pc \in AtWork => task[t].pc \in AtWork,
         pc \notin NothingSeen => task[t].pc \notin NothingSeen \/ run.state # "absent",
         pc = "converge" => task[t].state \in Early \cup {"result_ready"},
         pc \in Submitting => task[t].pc \in Submitting,
         pc \in {"note result", "to succeeded"} => remote'.life = "result_returned"
  PROVE  RuntimeIInv'
<1>1. RuntimeTypes /\ TaskOK(task[t]) /\ run.token \in Nat /\ task[t].token \in Nat
  BY TaskFields, RunFields DEF RuntimeIInv
<1>2. PICK r \in TaskRecords :
        /\ Moves(t, r) /\ r.pc = pc /\ r.token = task[t].token /\ r.state = task[t].state
        /\ r.result = task[t].result /\ r.aborted = task[t].aborted
  BY <1>1, GotoMoves
<1>3. /\ task' \in [Tasks -> TaskRecords] /\ (\A u \in Tasks : task'[u].token = task[u].token)
      /\ \A u \in Tasks : u # t => task'[u] = task[u]
  BY <1>1, GotoMoves
<1>4. RuntimeTypes'
  BY <1>1, <1>3 DEF RuntimeTypes
<1>5. RecordsGrow
  <2>1. run.token <= run'.token
    BY <1>1, NoLessThanItself, Zenon
  <2> QED BY <2>1 DEF RecordsGrow
<1>6. TaskOK(r)'
  BY <1>1, <1>2 DEF TaskOK
<1>7. \A u \in Tasks : Working(u)' => Working(u)
  BY <1>2, <1>3 DEF Working, Moves
<1>8. \A u \in Tasks : Working(u) => run.state \in Early
  BY DEF RuntimeIInv, WorkersAreAlone, Alone
<1>9. WorkersAreAlone'
  BY <1>3, <1>4, <1>7, <1>8, WorkersStay
<1> QED BY <1>2, <1>4, <1>5, <1>6, <1>9, TaskMoves

LEMMA RunningHost ==
  ASSUME RuntimeIInv, NEW t \in Tasks, task[t].pc # "idle"
  PROVE  host # "down"
BY DEF RuntimeIInv, RecoveryIsFirst

LEMMA SameRecords ==
  ASSUME RecordsOK, run'.state = run.state, run'.result = run.result, UNCHANGED remote,
         deliveries' = deliveries \/ run.state # "absent",
         "result" \in commands' => "result" \in commands \/ remote.life = "result_returned"
  PROVE  RecordsOK'
BY DEF RecordsOK, ResultsAgree, AckedIsHeld

\* A step that leaves the run, the Handoff and the deliveries alone.
LEMMA QuietStep ==
  ASSUME RuntimeIInv, NEW t \in Tasks, NEW pc \in Pcs \ {"idle", "recover", "capture"}, Goto(t, pc),
         UNCHANGED <<host, activeTask, remote, run>>, task[t].pc # "idle",
         deliveries' = deliveries \/ run.state # "absent",
         "result" \in commands' => "result" \in commands \/ remote.life = "result_returned",
         pc \in AtWork => task[t].pc \in AtWork,
         pc \notin NothingSeen => task[t].pc \notin NothingSeen \/ run.state # "absent",
         pc = "converge" => task[t].state \in Early \cup {"result_ready"},
         pc \in Submitting => task[t].pc \in Submitting,
         pc \in {"note result", "to succeeded"} => remote.life = "result_returned"
  PROVE  RuntimeIInv'
<1>1. RuntimeTypes /\ RecordsOK /\ host # "down"
  BY RunningHost DEF RuntimeIInv
<1>2. run' \in RunRecords /\ remote' \in [life : Lives, result : Results \cup {NoResult}]
  BY <1>1 DEF RuntimeTypes
<1>3. RecordsOK'
  BY <1>1, SameRecords
<1> QED BY <1>1, <1>2, <1>3, GoesOn

-----------------------------------------------------------------------------
(* issueCommand. *)

LEMMA Places ==
  ASSUME NEW c \in Issues, NEW pc \in {Rereading[c], Recording[c], Onward[c]},
         NEW from \in {Sending[c], Rereading[c], Recording[c]}
  PROVE  /\ pc \in Pcs \ {"idle", "recover", "capture", "converge"} /\ from \in Pcs \ NothingSeen
         /\ pc \in AtWork => from \in AtWork
         /\ pc \in Submitting => from \in Submitting
         /\ pc = "note result" => pc = Recording[c] /\ c = "result"
         /\ pc = "to succeeded" => pc = Onward[c] /\ c = "result"
<1>1. CASE c = "accept"
  BY <1>1 DEF Sending, Rereading, Recording, Onward, Pcs, AtWork, Submitting, NothingSeen
<1>2. CASE c = "decline"
  BY <1>2 DEF Sending, Rereading, Recording, Onward, Pcs, AtWork, Submitting, NothingSeen
<1>3. CASE c = "status"
  BY <1>3 DEF Sending, Rereading, Recording, Onward, Pcs, AtWork, Submitting, NothingSeen
<1>4. CASE c = "result"
  BY <1>4 DEF Sending, Rereading, Recording, Onward, Pcs, AtWork, Submitting, NothingSeen
<1> QED BY <1>1, <1>2, <1>3, <1>4 DEF Issues

LEMMA ResultPlaces ==
  /\ Sending["result"] = "send result" /\ Recording["result"] = "note result"
  /\ \A c \in Issues : Rereading[c] \in {"read accept", "read decline", "read status", "read result"}
<1>1. /\ Rereading["accept"] = "read accept" /\ Rereading["decline"] = "read decline"
      /\ Rereading["status"] = "read status" /\ Rereading["result"] = "read result"
  BY DEF Rereading
<1>2. Sending["result"] = "send result" /\ Recording["result"] = "note result"
  BY DEF Sending, Recording
<1> QED BY <1>1, <1>2 DEF Issues

LEMMA AppliedKeeps ==
  ASSUME RuntimeIInv, NEW t \in Tasks, NEW c \in Issues, task[t].pc = Sending[c],
         Applicable(c), Applied(c, task[t].result), UNCHANGED <<run, commands>>
  PROVE  /\ remote' \in [life : Lives, result : Results \cup {NoResult}]
         /\ remote.life # "result_returned" /\ RecordsOK'
         /\ c = "result" => remote'.life = "result_returned"
<1>1. /\ RuntimeTypes /\ RecordsOK /\ TaskOK(task[t])
      /\ remote \in [life : Lives, result : Results \cup {NoResult}]
  BY DEF RuntimeIInv, RuntimeTypes
<1>2. remote.life \in {"offered", "accepted"} /\ remote.life # "result_returned"
  BY DEF Applicable, Issues
<1>3. c = "result" => task[t].result = run.result /\ run.result \in Results
  BY <1>1, ResultPlaces DEF TaskOK, Submitting
<1>4. /\ c = "result" => remote' = [life |-> "result_returned", result |-> run.result]
      /\ c # "result" => remote'.result = remote.result /\ remote'.life # "result_returned"
      /\ remote' \in [life : Lives, result : Results \cup {NoResult}]
  BY <1>1, <1>2, <1>3 DEF Applied, Issues, Lives, Terminal
<1>5. deliveries \subseteq deliveries'
  BY DEF Applied
<1>6. ResultsAgree'
  BY <1>1, <1>2, <1>4 DEF RecordsOK, ResultsAgree
<1>7. AckedIsHeld'
  BY <1>1, <1>5 DEF RecordsOK, AckedIsHeld
<1> QED BY <1>1, <1>2, <1>3, <1>4, <1>6, <1>7 DEF RecordsOK

LEMMA SendKeeps ==
  ASSUME RuntimeIInv, NEW t \in Tasks, NEW c \in Issues, Send(t, c)
  PROVE  RuntimeIInv'
<1>1. task[t].pc = Sending[c] /\ UNCHANGED <<host, activeTask, run, commands>>
  BY DEF Send, durable
<1>2. RuntimeTypes /\ RecordsOK /\ TaskOK(task[t]) /\ host # "down" /\ task[t].pc \notin NothingSeen
  BY <1>1, Places, RunningHost DEF RuntimeIInv, NothingSeen
<1>3. CASE c \in commands /\ Goto(t, Onward[c]) /\ UNCHANGED service
  <2>1. c = "result" => remote.life = "result_returned"
    BY <1>2, <1>3 DEF RecordsOK
  <2> QED BY <1>1, <1>2, <1>3, <2>1, Places, QuietStep DEF service, NothingSeen
<1>4. CASE Goto(t, Rereading[c]) /\ UNCHANGED service
  <2>1. Rereading[c] \notin {"note result", "to succeeded"}
    BY ResultPlaces
  <2> QED BY <1>1, <1>2, <1>4, <2>1, Places, QuietStep DEF service, NothingSeen
<1>5. CASE Goto(t, "catch") /\ UNCHANGED service
  <2>1. "catch" \in Pcs \ (AtWork \cup Submitting \cup NothingSeen)
    BY DEF Pcs, AtWork, Submitting, NothingSeen
  <2> QED BY <1>1, <1>2, <1>5, <2>1, QuietStep DEF service, NothingSeen
<1>6. CASE Applicable(c) /\ Applied(c, task[t].result) /\ (Goto(t, Recording[c]) \/ Goto(t, "catch"))
  <2>1. /\ remote' \in [life : Lives, result : Results \cup {NoResult}]
        /\ remote.life # "result_returned" /\ RecordsOK'
        /\ c = "result" => remote'.life = "result_returned"
    BY <1>1, <1>6, AppliedKeeps
  <2>2. run' \in RunRecords /\ run' = run
    BY <1>1, <1>2 DEF RuntimeTypes
  <2>3. CASE Goto(t, Recording[c])
    <3>1. /\ Recording[c] \in Pcs \ {"idle", "recover", "capture", "converge"}
          /\ Recording[c] \in AtWork => task[t].pc \in AtWork
          /\ Recording[c] \in Submitting => task[t].pc \in Submitting
          /\ Recording[c] \in {"note result", "to succeeded"} => c = "result"
      BY <1>1, Places
    <3> QED BY <1>1, <1>2, <2>1, <2>2, <2>3, <3>1, GoesOn DEF NothingSeen
  <2>4. CASE Goto(t, "catch")
    <3>1. "catch" \in Pcs \ (AtWork \cup Submitting \cup NothingSeen)
      BY DEF Pcs, AtWork, Submitting, NothingSeen
    <3> QED BY <1>1, <1>2, <2>1, <2>2, <2>4, <3>1, GoesOn DEF NothingSeen
  <2> QED BY <1>6, <2>3, <2>4
<1> QED BY <1>3, <1>4, <1>5, <1>6 DEF Send

LEMMA RereadKeeps ==
  ASSUME RuntimeIInv, NEW t \in Tasks, NEW c \in Issues, Reread(t, c)
  PROVE  RuntimeIInv'
<1>1. task[t].pc = Rereading[c] /\ UNCHANGED <<host, activeTask, run, commands, service>>
  BY DEF Reread, durable
<1>2. task[t].pc \notin NothingSeen /\ task[t].pc # "idle"
  BY <1>1, Places DEF NothingSeen
<1>3. CASE Goto(t, "catch")
  <2>1. "catch" \in Pcs \ (AtWork \cup Submitting \cup NothingSeen)
    BY DEF Pcs, AtWork, Submitting, NothingSeen
  <2> QED BY <1>1, <1>2, <1>3, <2>1, QuietStep DEF service, NothingSeen
<1>4. CASE Equivalent(c, task[t].result) /\ Goto(t, Recording[c])
  <2>1. /\ Recording[c] \in Pcs \ {"idle", "recover", "capture", "converge"}
        /\ Recording[c] \in AtWork => task[t].pc \in AtWork
        /\ Recording[c] \in Submitting => task[t].pc \in Submitting
        /\ Recording[c] \in {"note result", "to succeeded"} => c = "result"
    BY <1>1, Places
  <2>2. c = "result" => remote.life = "result_returned"
    BY <1>4 DEF Equivalent
  <2> QED BY <1>1, <1>2, <1>4, <2>1, <2>2, QuietStep DEF service, NothingSeen
<1> QED BY <1>3, <1>4 DEF Reread

LEMMA RecordKeeps ==
  ASSUME RuntimeIInv, NEW t \in Tasks, NEW c \in Issues, Record(t, c)
  PROVE  RuntimeIInv'
<1>1. /\ task[t].pc = Recording[c] /\ UNCHANGED <<host, activeTask, run, service>>
      /\ commands' = commands \cup {c} /\ Goto(t, Onward[c]) /\ TaskOK(task[t])
  BY DEF Record, RuntimeIInv
<1>2. task[t].pc \notin NothingSeen /\ task[t].pc # "idle"
  BY <1>1, Places DEF NothingSeen
<1>3. c = "result" => remote.life = "result_returned"
  BY <1>1, ResultPlaces DEF TaskOK
<1>4. /\ Onward[c] \in Pcs \ {"idle", "recover", "capture", "converge"}
      /\ Onward[c] \in AtWork => task[t].pc \in AtWork
      /\ Onward[c] \in Submitting => task[t].pc \in Submitting
      /\ Onward[c] \in {"note result", "to succeeded"} => c = "result"
  BY <1>1, Places
<1> QED BY <1>1, <1>2, <1>3, <1>4, QuietStep DEF service

-----------------------------------------------------------------------------
(* handle. *)

\* Task t comes to r, where it does not work on the run.
LEMMA TaskRests ==
  ASSUME RuntimeIInv, NEW t \in Tasks, NEW r \in TaskRecords, task' = [task EXCEPT ![t] = r],
         r.pc \notin AtWork \cup {"recover"}, r.token \in {0, task[t].token},
         UNCHANGED <<host, remote>>, host # "down",
         UNCHANGED activeTask \/ (activeTask = t /\ activeTask' = NoTask),
         run' \in RunRecords, run'.token = run.token, run'.result = run.result,
         run'.state = run.state \/ (run.state = "absent" /\ run'.state = "received"),
         deliveries' = deliveries \/ run'.state # "absent",
         "result" \in commands' => "result" \in commands,
         TaskOK(r)',
         task[t].pc = "idle" => t # "recover" /\ task["recover"].pc = "idle"
  PROVE  RuntimeIInv'
<1>1. /\ RuntimeTypes /\ RecordsOK /\ run.token \in Nat
      /\ remote \in [life : Lives, result : Results \cup {NoResult}]
  BY RunFields DEF RuntimeIInv, RuntimeTypes
<1>2. Moves(t, r) /\ task' \in [Tasks -> TaskRecords] /\ (\A u \in Tasks : u # t => task'[u] = task[u])
      /\ task'[t] = r
  BY <1>1 DEF Moves, RuntimeTypes
<1>3. RuntimeTypes'
  BY <1>1, <1>2 DEF RuntimeTypes
<1>4. RecordsGrow
  <2>1. run.token <= run'.token
    BY <1>1, NoLessThanItself, Zenon
  <2> QED BY <2>1 DEF RecordsGrow
<1>5. RecordsOK'
  BY <1>1 DEF RecordsOK, ResultsAgree, AckedIsHeld, Early, Over
<1>6. WorkersAreAlone'
  <2>1. ASSUME NEW u \in Tasks, Working(u)' PROVE u # t /\ Working(u)
    BY <1>2, <2>1 DEF Working
  <2>2. ASSUME NEW u \in Tasks, Working(u) PROVE activeTask = u /\ run.state \in Early
    BY <2>2 DEF RuntimeIInv, WorkersAreAlone, Alone
  <2>3. \A v \in Tasks : task'[v].token \in {0, task[v].token}
    BY <1>2
  <2>4. "absent" \notin Early /\ "received" \in Early
    BY DEF Early
  <2> QED BY <1>2, <1>3, <2>1, <2>2, <2>3, <2>4, WorkersStay
<1>7. r.pc \notin {"idle", "recover"} \/ r.pc = "idle"
  OBVIOUS
<1> QED BY <1>2, <1>3, <1>4, <1>5, <1>6, <1>7, TaskMoves

LEMMA RestingFields ==
  /\ Resting \in TaskRecords /\ Resting.pc = "idle" /\ Resting.token = 0
  /\ Resting.result = NoResult /\ Resting.state = "received"
BY DEF Resting, TaskRecords, Pcs, NothingSeen, Lives, RunStates, Early

LEMMA BeginKeeps ==
  ASSUME RuntimeIInv, NEW t \in Handlers, NEW d \in {"offer", "end"}, Begin(t, d)
  PROVE  RuntimeIInv'
<1> DEFINE begun == [Resting EXCEPT !.pc = "record", !.delivery = d, !.seen = remote.life]
<1>0. PICK r : r = begun
  OBVIOUS
<1>1. /\ t \in Tasks /\ t # "recover" /\ RuntimeTypes /\ remote.life \in Lives
      /\ run \in RunRecords /\ run.token \in Nat
  BY RuntimeAssumption, RunFields DEF Tasks, RuntimeIInv, RuntimeTypes
<1>2. r \in TaskRecords /\ r.pc = "record" /\ r.token = 0 /\ task' = [task EXCEPT ![t] = r]
  BY <1>0, <1>1, RestingFields DEF TaskRecords, Begin, Pcs, NothingSeen
<1> HIDE DEF begun
<1>3. 0 <= run.token
  BY <1>1
<1>4. r.pc \notin AtWork \cup {"recover"} /\ TaskOK(r)
  BY <1>2, <1>3 DEF TaskOK, AtWork, NothingSeen, Submitting
<1>5. UNCHANGED <<host, remote, run, activeTask, deliveries, commands>> /\ host = "up"
      /\ task["recover"].pc = "idle"
  BY DEF Begin, service, durable
<1>6. TaskOK(r)'
  BY <1>4, <1>5 DEF TaskOK
<1> QED BY <1>1, <1>2, <1>4, <1>5, <1>6, TaskRests

LEMMA RecordDeliveryKeeps ==
  ASSUME RuntimeIInv, NEW t \in Tasks, RecordDelivery(t)
  PROVE  RuntimeIInv'
<1> DEFINE recorded ==
      [task[t] EXCEPT !.fresh = task[t].delivery \notin receipts, !.was = FirstRecord(t).state,
         !.pc = IF task[t].seen \in Terminal THEN "terminal" ELSE "acknowledge"]
<1>0. PICK r : r = recorded
  OBVIOUS
<1>1. /\ task[t].pc = "record" /\ RuntimeTypes /\ task[t] \in TaskRecords /\ run \in RunRecords
      /\ TaskOK(task[t]) /\ run.token \in Nat /\ task[t].token \in Nat
  BY TaskFields, RunFields DEF RecordDelivery, RuntimeIInv, RuntimeTypes
<1>2. /\ FirstRecord(t) \in RunRecords /\ FirstRecord(t).state # "absent"
      /\ FirstRecord(t).token = run.token /\ FirstRecord(t).result = run.result
      /\ FirstRecord(t).state = run.state \/ (run.state = "absent" /\ FirstRecord(t).state = "received")
  BY <1>1 DEF FirstRecord, RunRecords, RunStates, Early
<1>3. /\ run' = FirstRecord(t) /\ UNCHANGED <<host, remote, activeTask, deliveries, commands>>
  BY DEF RecordDelivery, service
<1>4. FirstRecord(t).state \in RunStates
  BY <1>2 DEF RunRecords
<1>5. /\ r \in TaskRecords /\ r.pc \in {"terminal", "acknowledge"} /\ r.token = task[t].token
      /\ task' = [task EXCEPT ![t] = r]
  BY <1>0, <1>1, <1>4 DEF TaskRecords, RecordDelivery, Pcs
<1> HIDE DEF recorded
<1>6. r.token <= run'.token
  BY <1>1, <1>2, <1>3, <1>5 DEF TaskOK
<1>7. TaskOK(r)' /\ r.pc \notin AtWork \cup {"recover"}
  BY <1>2, <1>3, <1>5, <1>6 DEF TaskOK, AtWork, Submitting
<1>8. host # "down"
  BY <1>1, RunningHost
<1> QED BY <1>1, <1>2, <1>3, <1>5, <1>7, <1>8, TaskRests

LEMMA DecideKeeps ==
  ASSUME RuntimeIInv, NEW t \in Tasks, Decide(t)
  PROVE  RuntimeIInv'
<1> DEFINE pc == IF task[t].seen # "offered" \/ ~task[t].fresh THEN "end"
                 ELSE IF task[t].was = "received" THEN "claim" ELSE Sending["decline"]
           decided == [Resting EXCEPT !.token = task[t].token, !.pc = pc]
<1>0. PICK r : r = decided
  OBVIOUS
<1>1. /\ task[t].pc = "mark" /\ RuntimeTypes /\ run \in RunRecords
      /\ TaskOK(task[t]) /\ run.token \in Nat /\ task[t].token \in Nat
  BY TaskFields, RunFields DEF Decide, RuntimeIInv, RuntimeTypes
<1>2. pc \in {"end", "claim", "send decline"}
  BY DEF Sending
<1>3. task' = [task EXCEPT ![t] = r]
  BY <1>0 DEF Decide
<1> HIDE DEF pc
<1>4. r \in TaskRecords /\ r.pc \in {"end", "claim", "send decline"} /\ r.token = task[t].token
  BY <1>0, <1>1, <1>2, RestingFields DEF TaskRecords, Pcs, NothingSeen
<1> HIDE DEF decided
<1>5. UNCHANGED <<host, remote, run, activeTask, deliveries, commands>> /\ host # "down"
  BY <1>1, RunningHost DEF Decide, service
<1>6. r.token <= run.token /\ run.state # "absent"
  BY <1>1, <1>4 DEF TaskOK, NothingSeen
<1>7. TaskOK(r)' /\ r.pc \notin AtWork \cup {"recover"}
  BY <1>4, <1>5, <1>6 DEF TaskOK, AtWork, Submitting
<1> QED BY <1>1, <1>3, <1>4, <1>5, <1>7, TaskRests

LEMMA EndKeeps ==
  ASSUME RuntimeIInv, NEW t \in Tasks, End(t)
  PROVE  RuntimeIInv'
<1>1. /\ task[t].pc = "end" /\ RuntimeTypes /\ run \in RunRecords /\ run.token \in Nat
      /\ task' = [task EXCEPT ![t] = Resting]
  BY RunFields DEF End, RuntimeIInv, RuntimeTypes
<1>2. /\ UNCHANGED <<host, remote, run, deliveries, commands>> /\ host # "down"
      /\ UNCHANGED activeTask \/ (activeTask = t /\ activeTask' = NoTask)
  BY <1>1, RunningHost DEF End, service, durable
<1>3. 0 <= run.token
  BY <1>1
<1>4. TaskOK(Resting)
  BY <1>3, RestingFields DEF TaskOK, AtWork, Submitting, NothingSeen
<1>5. TaskOK(Resting)' /\ Resting.pc \notin AtWork \cup {"recover"}
  BY <1>2, <1>4, RestingFields DEF TaskOK, AtWork
<1> QED BY <1>1, <1>2, <1>5, RestingFields, TaskRests

-----------------------------------------------------------------------------
(* claimAndRun, the steps that leave the run alone. *)

\* A task stops working on the run.
LEMMA StepsAside ==
  ASSUME RuntimeIInv, NEW t \in Tasks, NEW pc \in {"catch", "end", "give up", "acknowledge", "mark"},
         Goto(t, pc), task[t].pc \notin NothingSeen,
         UNCHANGED <<host, remote, run, activeTask, commands>>,
         deliveries' = deliveries \/ run.state # "absent"
  PROVE  RuntimeIInv'
<1>1. pc \in Pcs \ ({"idle", "recover", "capture", "converge", "note result", "to succeeded"}
                      \cup AtWork \cup Submitting)
  BY DEF Pcs, AtWork, Submitting, NothingSeen
<1> QED BY <1>1, QuietStep DEF NothingSeen

LEMMA AcknowledgeKeeps ==
  ASSUME RuntimeIInv, NEW t \in Tasks, Acknowledge(t)
  PROVE  RuntimeIInv'
<1>1. /\ task[t].pc = "acknowledge" /\ UNCHANGED <<host, remote, run, activeTask, commands>>
      /\ Goto(t, "mark") \/ Goto(t, "end")
  BY DEF Acknowledge, durable
<1>2. task[t].pc \notin NothingSeen
  BY <1>1 DEF NothingSeen
<1>3. run.state # "absent"
  BY <1>2 DEF RuntimeIInv, TaskOK
<1> QED BY <1>1, <1>2, <1>3, StepsAside

LEMMA BegunPlaces ==
  Begun \in {"to running", "send status"} /\ Sending["accept"] = "send accept"
BY DEF Begun, Sending

LEMMA LoadKeeps ==
  ASSUME RuntimeIInv, NEW t \in Tasks, LoadHandoff(t)
  PROVE  RuntimeIInv'
<1>1. /\ task[t].pc = "load"
      /\ UNCHANGED <<host, remote, run, activeTask, commands, deliveries>>
  BY DEF LoadHandoff, service, durable
<1>2. task[t].pc \notin NothingSeen /\ task[t].pc \in AtWork /\ task[t].pc # "idle"
  BY <1>1 DEF NothingSeen, AtWork
<1>3. task[t].state \in Early
  BY <1>2 DEF RuntimeIInv, TaskOK
<1>4. CASE Goto(t, "catch")
  BY <1>1, <1>2, <1>4, StepsAside
<1>5. CASE ~Goto(t, "catch")
  <2>1. PICK pc \in {"send accept", "to running", "send status", "execute"} : Goto(t, pc)
    <3>1. Goto(t, CASE task[t].state = "received" -> Sending["accept"]
                    [] task[t].state = "accepted" -> Begun
                    [] task[t].state = "running" -> "execute")
      BY <1>5 DEF LoadHandoff
    <3>2. CASE task[t].state = "received"
      BY <3>1, <3>2, BegunPlaces
    <3>3. CASE task[t].state = "accepted"
      BY <3>1, <3>3, BegunPlaces
    <3>4. CASE task[t].state = "running"
      BY <3>1, <3>4, BegunPlaces
    <3> QED BY <1>3, <3>2, <3>3, <3>4 DEF Early
  <2>2. pc \in Pcs \ ({"idle", "recover", "capture", "converge", "note result", "to succeeded"} \cup Submitting)
    BY DEF Pcs, AtWork, Submitting, NothingSeen
  <2> QED BY <1>1, <1>2, <2>1, <2>2, QuietStep
<1> QED BY <1>4, <1>5

LEMMA CheckpointKeeps ==
  ASSUME RuntimeIInv, NEW t \in Tasks, CheckpointReported(t)
  PROVE  RuntimeIInv'
<1>1. /\ task[t].pc = "checkpoint"
      /\ UNCHANGED <<host, remote, activeTask, commands, deliveries>>
  BY DEF CheckpointReported, service
<1>2. task[t].pc \notin NothingSeen /\ task[t].pc \in AtWork /\ task[t].pc # "idle"
  BY <1>1 DEF NothingSeen, AtWork
<1>3. CASE UNCHANGED run /\ Goto(t, "catch")
  BY <1>1, <1>2, <1>3, StepsAside
<1>4. CASE run' = [run EXCEPT !.reported = TRUE] /\ Goto(t, "to running")
  <2>1. RuntimeTypes /\ RecordsOK /\ run \in RunRecords /\ host # "down"
        /\ remote \in [life : Lives, result : Results \cup {NoResult}]
    BY <1>2, RunningHost DEF RuntimeIInv, RuntimeTypes
  <2>2. /\ run' \in RunRecords /\ run'.state = run.state /\ run'.token = run.token
        /\ run'.result = run.result
    BY <1>4, <2>1 DEF RunRecords
  <2>3. RecordsOK'
    BY <1>1, <2>1, <2>2, SameRecords
  <2>4. "to running" \in Pcs \ ({"idle", "recover", "capture", "converge", "note result", "to succeeded"} \cup Submitting)
    BY DEF Pcs, AtWork, Submitting, NothingSeen
  <2> QED BY <1>1, <1>2, <1>4, <2>1, <2>2, <2>3, <2>4, GoesOn
<1> QED BY <1>3, <1>4 DEF CheckpointReported

LEMMA ExecuteKeeps ==
  ASSUME RuntimeIInv, NEW t \in Tasks, Execute(t)
  PROVE  RuntimeIInv'
<1>1. /\ task[t].pc = "execute" /\ (Goto(t, "catch") \/ Goto(t, "executing"))
      /\ UNCHANGED <<host, remote, run, activeTask, commands, deliveries>>
  BY DEF Execute, service, durable
<1>2. task[t].pc \notin NothingSeen /\ task[t].pc \in AtWork /\ task[t].pc # "idle"
  BY <1>1 DEF NothingSeen, AtWork
<1>3. "executing" \in Pcs \ ({"idle", "recover", "capture", "converge", "note result", "to succeeded"} \cup Submitting)
  BY DEF Pcs, AtWork, Submitting, NothingSeen
<1>4. CASE Goto(t, "catch")
  BY <1>1, <1>2, <1>4, StepsAside
<1>5. CASE Goto(t, "executing")
  BY <1>1, <1>2, <1>3, <1>5, QuietStep
<1> QED BY <1>1, <1>4, <1>5

LEMMA ExecutedKeeps ==
  ASSUME RuntimeIInv, NEW t \in Tasks, Executed(t)
  PROVE  RuntimeIInv'
<1>1. /\ task[t].pc = "executing"
      /\ UNCHANGED <<host, remote, run, activeTask, commands, deliveries>>
  BY DEF Executed, service, durable
<1>2. task[t].pc \notin NothingSeen /\ task[t].pc \in AtWork /\ task[t].pc # "idle"
  BY <1>1 DEF NothingSeen, AtWork
<1>3. CASE Goto(t, "catch")
  BY <1>1, <1>2, <1>3, StepsAside
<1>4. ASSUME NEW out \in Results, task' = [task EXCEPT ![t].result = out, ![t].pc = "capture"]
      PROVE  RuntimeIInv'
  <2>1. /\ RuntimeTypes /\ RecordsOK /\ task[t] \in TaskRecords /\ TaskOK(task[t]) /\ host # "down"
        /\ run \in RunRecords /\ run.token \in Nat
        /\ remote \in [life : Lives, result : Results \cup {NoResult}]
    BY <1>2, TaskFields, RunFields, RunningHost DEF RuntimeIInv, RuntimeTypes
  <2>2. PICK r : r = [task[t] EXCEPT !.result = out, !.pc = "capture"]
    OBVIOUS
  <2>3. /\ r \in TaskRecords /\ r.pc = "capture" /\ r.token = task[t].token /\ r.result = out
        /\ r.state = task[t].state /\ r.aborted = task[t].aborted
    BY <2>1, <2>2 DEF TaskRecords, Pcs, AtWork
  <2>4. task' = [task EXCEPT ![t] = r]
    BY <1>4, <2>1, <2>2
  <2>5. /\ Moves(t, r) /\ task' \in [Tasks -> TaskRecords] /\ task'[t] = r
        /\ \A u \in Tasks : u # t => task'[u] = task[u]
    BY <2>1, <2>3, <2>4 DEF Moves, RuntimeTypes
  <2>6. RuntimeTypes' /\ RecordsOK'
    BY <1>1, <2>1, <2>5, SameRecords DEF RuntimeTypes
  <2>7. TaskOK(r)
    BY <1>2, <2>1, <2>3 DEF TaskOK, AtWork, Submitting
  <2>8. TaskOK(r)' /\ RecordsGrow
    <3>1. run.token <= run'.token
      BY <1>1, <2>1, NoLessThanItself, Zenon
    <3> QED BY <1>1, <2>7, <3>1 DEF TaskOK, RecordsGrow
  <2>9. WorkersAreAlone'
    <3>1. \A u \in Tasks : Working(u)' => Working(u)
      BY <1>2, <2>3, <2>5 DEF Working
    <3>2. \A u \in Tasks : Working(u) => run.state \in Early
      BY DEF RuntimeIInv, WorkersAreAlone, Alone
    <3>3. \A v \in Tasks : task'[v].token = task[v].token
      BY <2>3, <2>5
    <3> QED BY <1>1, <2>6, <3>1, <3>2, <3>3, WorkersStay
  <2> QED BY <1>1, <1>2, <2>1, <2>3, <2>5, <2>6, <2>8, <2>9, TaskMoves
<1> QED BY <1>3, <1>4 DEF Executed

LEMMA CatchKeeps ==
  ASSUME RuntimeIInv, NEW t \in Tasks, Catch(t)
  PROVE  RuntimeIInv'
<1>1. /\ task[t].pc = "catch"
      /\ UNCHANGED <<host, remote, run, activeTask, commands, deliveries>>
  BY DEF Catch, service, durable
<1>2. task[t].pc \notin NothingSeen /\ task[t].pc # "idle"
  BY <1>1 DEF NothingSeen
<1>3. CASE Goto(t, "end") \/ Goto(t, "give up")
  BY <1>1, <1>2, <1>3, StepsAside
<1>4. CASE /\ task' = [task EXCEPT ![t].pc = "converge", ![t].state = run.state, ![t].then = "end"]
           /\ run.state \notin Over
  <2>1. /\ RuntimeTypes /\ task[t] \in TaskRecords /\ TaskOK(task[t]) /\ host # "down"
        /\ run \in RunRecords /\ run.state \in RunStates /\ task[t].token \in Nat
    BY <1>2, TaskFields, RunFields, RunningHost DEF RuntimeIInv, RuntimeTypes
  <2>2. run.state \in Early \cup {"result_ready"}
    BY <1>2, <1>4, <2>1 DEF TaskOK, RunStates
  <2>3. PICK r : r = [task[t] EXCEPT !.pc = "converge", !.state = run.state, !.then = "end"]
    OBVIOUS
  <2>4. /\ r \in TaskRecords /\ r.pc = "converge" /\ r.token = task[t].token /\ r.state = run.state
    BY <2>1, <2>3 DEF TaskRecords, Pcs
  <2>5. task' = [task EXCEPT ![t] = r]
    BY <1>4, <2>1, <2>3
  <2>6. TaskOK(r)
    BY <1>2, <2>1, <2>2, <2>4 DEF TaskOK, AtWork, Submitting
  <2>7. TaskOK(r)' /\ r.pc \notin AtWork \cup {"recover"}
    BY <1>1, <2>4, <2>6 DEF TaskOK, AtWork
  <2> QED BY <1>1, <1>2, <2>1, <2>4, <2>5, <2>7, TaskRests
<1> QED BY <1>3, <1>4 DEF Catch

-----------------------------------------------------------------------------
(* The transitions of the run. *)

LEMMA TransitionTaken ==
  ASSUME RuntimeIInv, NEW t \in Tasks, MayMove(t), task[t].pc \notin NothingSeen,
         NEW next \in RunStates \ {"absent"}, NEW result \in Results \cup {NoResult},
         NEW onward \in Pcs \ {"idle", "recover", "capture", "note result", "to succeeded"},
         run' = [run EXCEPT !.state = next, !.result = result],
         task' = [task EXCEPT ![t].state = next, ![t].pc = onward],
         UNCHANGED <<host, remote, deliveries, commands, activeTask>>,
         run.result \in Results => result = run.result,
         onward \in AtWork => task[t].pc \in AtWork /\ next \in Early,
         onward = "converge" => next \in Early \cup {"result_ready"},
         onward \in Submitting => task[t].result = result /\ result \in Results,
         next \in Early => result = NoResult,
         next = "result_ready" => result \in Results,
         next = "succeeded" => remote.life = "result_returned" /\ result = remote.result
  PROVE  RuntimeIInv'
<1>1. /\ RuntimeTypes /\ RecordsOK /\ task[t] \in TaskRecords /\ TaskOK(task[t]) /\ host # "down"
      /\ run \in RunRecords /\ run.token \in Nat /\ task[t].token = run.token
      /\ remote \in [life : Lives, result : Results \cup {NoResult}] /\ task[t].pc # "idle"
  BY TaskFields, RunFields, RunningHost DEF RuntimeIInv, RuntimeTypes, NothingSeen, MayMove, OwnsLease
<1>2. /\ run' \in RunRecords /\ run'.state = next /\ run'.result = result /\ run'.token = run.token
  BY <1>1 DEF RunRecords
<1>3. PICK r : r = [task[t] EXCEPT !.state = next, !.pc = onward]
  OBVIOUS
<1>4. /\ r \in TaskRecords /\ r.pc = onward /\ r.token = task[t].token /\ r.state = next
      /\ r.result = task[t].result /\ r.aborted = task[t].aborted
  BY <1>1, <1>3 DEF TaskRecords
<1>5. task' = [task EXCEPT ![t] = r]
  BY <1>1, <1>3
<1>6. /\ Moves(t, r) /\ task' \in [Tasks -> TaskRecords] /\ task'[t] = r
      /\ \A u \in Tasks : u # t => task'[u] = task[u]
  BY <1>1, <1>4, <1>5, Becomes, Zenon
<1>7. RuntimeTypes'
  BY <1>1, <1>2, <1>6 DEF RuntimeTypes
<1>8. RecordsOK'
  <2>1. remote.result # NoResult => result = remote.result
    BY <1>1, RunFields DEF RecordsOK, ResultsAgree
  <2>2. ResultsAgree'
    BY <1>2, <2>1 DEF ResultsAgree
  <2>3. AckedIsHeld'
    BY <1>2 DEF AckedIsHeld
  <2> QED BY <1>1, <1>2, <2>2, <2>3 DEF RecordsOK
<1>9. RecordsGrow
  <2>1. run.token <= run'.token
    BY <1>1, <1>2, NoLessThanItself, Zenon
  <2> QED BY <1>2, <2>1 DEF RecordsGrow
<1>10. TaskOK(r)'
  <2>1. r.token <= run'.token
    BY <1>1, <1>2, <1>4, NoLessThanItself, Zenon
  <2> QED BY <1>2, <1>4, <2>1 DEF TaskOK
<1>11. WorkersAreAlone'
  <2>1. ASSUME NEW u \in Tasks, Working(u)' PROVE Working(u) /\ next \in Early
    <3>1. CASE u = t
      BY <1>4, <1>6, <2>1, <3>1 DEF Working
    <3>2. CASE u # t
      <4>1. Working(u)
        BY <1>6, <2>1, <3>2 DEF Working
      <4>2. task[t].token # run.token
        BY <3>2, <4>1 DEF RuntimeIInv, WorkersAreAlone, Alone
      <4> QED BY <1>1, <4>2
    <3> QED BY <3>1, <3>2
  <2>2. \A v \in Tasks : task'[v].token = task[v].token
    BY <1>4, <1>6
  <2> QED BY <1>2, <1>7, <2>1, <2>2, WorkersStay
<1> QED BY <1>1, <1>4, <1>6, <1>7, <1>8, <1>9, <1>10, <1>11, TaskMoves

\* What a task that may move the run on finds there.
LEMMA MovedFrom ==
  ASSUME RuntimeIInv, NEW t \in Tasks, MayMove(t)
  PROVE  /\ task[t].state = run.state /\ run.result \in Results \cup {NoResult}
         /\ run.state \in Early => run.result = NoResult
         /\ task[t].pc \in AtWork => run.state \in Early
  BY RunFields DEF RuntimeIInv, MayMove, RecordsOK, TaskOK

LEMMA MoveKeeps ==
  ASSUME RuntimeIInv, NEW t \in Tasks, Move(t)
  PROVE  RuntimeIInv'
<1>1. UNCHANGED <<host, remote, activeTask, commands, deliveries>> /\ NoResult \notin Results
  BY RuntimeAssumption DEF Move, service
<1>2. /\ task[t].pc \in {"to accepted", "to running", "to succeeded"}
      /\ task[t].pc \notin NothingSeen
      /\ task[t].pc \in {"to accepted", "to running"} => task[t].pc \in AtWork
  BY DEF Move, NothingSeen, AtWork
<1>3. CASE UNCHANGED run /\ Goto(t, "catch")
  BY <1>1, <1>2, <1>3, StepsAside
<1>4. CASE MayMove(t) /\ ~(UNCHANGED run /\ Goto(t, "catch"))
  <2>1. /\ task[t].state = run.state /\ run.result \in Results \cup {NoResult}
        /\ run.state \in Early => run.result = NoResult
        /\ task[t].pc \in AtWork => run.state \in Early
    BY <1>4, MovedFrom
  <2>2. CASE task[t].pc = "to accepted" /\ Transition(t, "accepted", run.result, Begun, "catch")
    <3>1. /\ Begun \in Pcs \ ({"idle", "recover", "capture", "converge", "note result", "to succeeded"} \cup Submitting)
          /\ Begun \in Pcs \ {"idle", "recover", "capture", "note result", "to succeeded"}
          /\ "accepted" \in Early /\ "accepted" \in RunStates \ {"absent"}
      BY BegunPlaces DEF Pcs, AtWork, Submitting, NothingSeen, Early, RunStates
    <3>2. run' = [run EXCEPT !.state = "accepted", !.result = run.result]
          /\ task' = [task EXCEPT ![t].state = "accepted", ![t].pc = Begun]
      BY <1>4, <2>2 DEF Transition
    <3>3. PICK pc \in {"to running", "send status"} : pc = Begun
      BY BegunPlaces
    <3> QED BY <1>1, <1>2, <1>4, <2>1, <2>2, <3>1, <3>2, <3>3, TransitionTaken
  <2>3. CASE task[t].pc = "to running" /\ Transition(t, "running", run.result, "execute", "catch")
    <3>1. /\ "execute" \in Pcs \ ({"idle", "recover", "capture", "converge", "note result", "to succeeded"} \cup Submitting)
          /\ "execute" \in Pcs \ {"idle", "recover", "capture", "note result", "to succeeded"}
          /\ "running" \in Early /\ "running" \in RunStates \ {"absent"}
      BY DEF Pcs, AtWork, Submitting, NothingSeen, Early, RunStates
    <3>2. run' = [run EXCEPT !.state = "running", !.result = run.result]
          /\ task' = [task EXCEPT ![t].state = "running", ![t].pc = "execute"]
      BY <1>4, <2>3 DEF Transition
    <3> QED BY <1>1, <1>2, <1>4, <2>1, <2>3, <3>1, <3>2, TransitionTaken
  <2>4. CASE task[t].pc = "to succeeded" /\ Transition(t, "succeeded", run.result, "end", "catch")
    <3>1. /\ "end" \in Pcs \ ({"idle", "recover", "capture", "converge", "note result", "to succeeded"}
                                \cup AtWork \cup Submitting)
          /\ "end" \in Pcs \ {"idle", "recover", "capture", "note result", "to succeeded"}
          /\ "succeeded" \notin Early /\ "succeeded" \in RunStates \ {"absent"}
      BY DEF Pcs, AtWork, Submitting, NothingSeen, Early, RunStates, Over
    <3>2. run' = [run EXCEPT !.state = "succeeded", !.result = run.result]
          /\ task' = [task EXCEPT ![t].state = "succeeded", ![t].pc = "end"]
      BY <1>4, <2>4 DEF Transition
    <3>3. remote.life = "result_returned" /\ run.result = remote.result
      BY <1>1, <2>4 DEF RuntimeIInv, TaskOK, RecordsOK, ResultsAgree
    <3> QED BY <1>1, <1>2, <1>4, <2>1, <3>1, <3>2, <3>3, TransitionTaken
  <2> QED BY <1>4, <2>2, <2>3, <2>4 DEF Move
<1> QED BY <1>3, <1>4 DEF Move, Transition

LEMMA CaptureKeeps ==
  ASSUME RuntimeIInv, NEW t \in Tasks, Capture(t)
  PROVE  RuntimeIInv'
<1>1. /\ task[t].pc = "capture" /\ UNCHANGED <<host, remote, activeTask, commands, deliveries>>
      /\ NoResult \notin Results
  BY RuntimeAssumption DEF Capture, service
<1>2. task[t].pc \notin NothingSeen /\ task[t].pc \in AtWork
  BY <1>1 DEF NothingSeen, AtWork
<1>3. CASE UNCHANGED run /\ Goto(t, "catch")
  BY <1>1, <1>2, <1>3, StepsAside
<1>4. CASE MayMove(t) /\ ~(UNCHANGED run /\ Goto(t, "catch"))
  <2>1. run.result = NoResult /\ task[t].result \in Results
    BY <1>1, <1>2, <1>4, MovedFrom DEF RuntimeIInv, TaskOK
  <2>2. /\ run' = [run EXCEPT !.state = "result_ready", !.result = task[t].result]
        /\ task' = [task EXCEPT ![t].state = "result_ready", ![t].pc = "send result"]
    BY <1>4, ResultPlaces DEF Capture, Transition
  <2>3. /\ "send result" \in Pcs \ {"idle", "recover", "capture", "note result", "to succeeded"}
        /\ "send result" \notin AtWork /\ "result_ready" \notin Early
        /\ "result_ready" \in RunStates \ {"absent"}
    BY DEF Pcs, AtWork, Submitting, NothingSeen, Early, RunStates, Over
  <2>4. PICK out \in Results : out = task[t].result
    BY <2>1
  <2> QED BY <1>1, <1>2, <1>4, <2>1, <2>2, <2>3, <2>4, TransitionTaken
<1> QED BY <1>3, <1>4 DEF Capture, Transition

LEMMA Endings ==
  /\ Over \subseteq RunStates \ {"absent"}
  /\ Over \cap (Early \cup {"absent", "result_ready"}) = {}
  /\ {"end", "acknowledge"} \subseteq Pcs \ ({"idle", "recover", "capture", "converge", "note result",
                                              "to succeeded"} \cup AtWork \cup Submitting)
BY DEF RunStates, Over, Early, Pcs, AtWork, Submitting, NothingSeen

\* The run comes to its end.
LEMMA RunEnds ==
  ASSUME RuntimeIInv, NEW t \in Tasks, MayMove(t), task[t].pc \notin NothingSeen,
         NEW next \in Over, NEW onward \in {"end", "acknowledge"},
         run' = [run EXCEPT !.state = next, !.result = run.result],
         task' = [task EXCEPT ![t].state = next, ![t].pc = onward],
         UNCHANGED <<host, remote, deliveries, commands, activeTask>>,
         next = "succeeded" => remote.life = "result_returned" /\ run.result = remote.result
  PROVE  RuntimeIInv'
<1>1. PICK result \in Results \cup {NoResult} : result = run.result
  BY MovedFrom
<1>2. next \in RunStates \ {"absent"} /\ next \notin Early \cup {"result_ready"}
  BY Endings
<1>3. /\ onward \in Pcs \ {"idle", "recover", "capture", "note result", "to succeeded"}
      /\ onward \notin AtWork /\ onward # "converge" /\ onward \notin Submitting
  BY Endings
<1> QED BY <1>1, <1>2, <1>3, TransitionTaken

LEMMA GiveUpKeeps ==
  ASSUME RuntimeIInv, NEW t \in Tasks, GiveUp(t)
  PROVE  RuntimeIInv'
<1>1. /\ task[t].pc = "give up" /\ UNCHANGED <<host, remote, activeTask, commands, deliveries>>
  BY DEF GiveUp, service
<1>2. task[t].pc \notin NothingSeen
  BY <1>1 DEF NothingSeen
<1>3. CASE UNCHANGED run /\ Goto(t, "end")
  BY <1>1, <1>2, <1>3, StepsAside
<1>4. CASE ~(UNCHANGED run /\ Goto(t, "end"))
  <2>1. PICK next \in {"cancelled", "failed"} : Transition(t, next, run.result, "end", "end")
    BY <1>4 DEF GiveUp
  <2>2. /\ MayMove(t) /\ run' = [run EXCEPT !.state = next, !.result = run.result]
        /\ task' = [task EXCEPT ![t].state = next, ![t].pc = "end"]
    BY <1>4, <2>1 DEF Transition
  <2>3. next \in Over /\ next # "succeeded"
    BY DEF Over
  <2> QED BY <1>1, <1>2, <2>2, <2>3, RunEnds
<1> QED BY <1>3, <1>4

LEMMA ConvergeKeeps ==
  ASSUME RuntimeIInv, NEW t \in Tasks, Converge(t)
  PROVE  RuntimeIInv'
<1> DEFINE forward == [received |-> "accepted", accepted |-> "running", running |-> "result_ready",
                       result_ready |-> "succeeded"]
           next == IF remote.life = "result_returned" THEN forward[task[t].state] ELSE "cancelled"
           result == IF next = "result_ready" THEN remote.result ELSE run.result
           lost == IF task[t].then = "acknowledge" THEN "end" ELSE "give up"
<1>1. /\ task[t].pc = "converge" /\ UNCHANGED <<host, remote, activeTask, commands, deliveries>>
      /\ Transition(t, next, result, IF next \in Over THEN task[t].then ELSE "converge", lost)
  BY DEF Converge, service
<1>2. task[t].pc \notin NothingSeen
  BY <1>1 DEF NothingSeen
<1>3. CASE ~MayMove(t)
  <2>1. UNCHANGED run /\ Goto(t, lost) /\ lost \in {"end", "give up"}
    BY <1>1, <1>3 DEF Transition
  <2> QED BY <1>1, <1>2, <2>1, StepsAside
<1>4. CASE MayMove(t)
  <2>1. /\ task[t].state = run.state
        /\ run.state \in Early => run.result = NoResult
        /\ task[t].state \in Early \cup {"result_ready"} /\ task[t].then \in {"end", "acknowledge"}
    BY <1>1, <1>4, MovedFrom, TaskFields DEF RuntimeIInv, TaskOK
  <2>2. remote.life = "result_returned" => task[t].state = "result_ready" /\ run.result = remote.result
    BY <2>1, RuntimeAssumption DEF RuntimeIInv, RecordsOK, ResultsAgree
  <2>3. forward["result_ready"] = "succeeded"
    OBVIOUS
  <2>4. /\ next \in {"succeeded", "cancelled"} /\ result = run.result
        /\ next = "succeeded" => remote.life = "result_returned" /\ run.result = remote.result
    BY <2>2, <2>3
  <2>5. PICK n \in {"succeeded", "cancelled"} : n = next
    BY <2>4
  <2>6. PICK onward \in {"end", "acknowledge"} : onward = task[t].then
    BY <2>1
  <2>7. n \in Over
    BY DEF Over
  <2>8. /\ run' = [run EXCEPT !.state = n, !.result = run.result]
        /\ task' = [task EXCEPT ![t].state = n, ![t].pc = onward]
    BY <1>1, <1>4, <2>4, <2>5, <2>6, <2>7 DEF Transition
  <2>9. n = "succeeded" => remote.life = "result_returned" /\ run.result = remote.result
    BY <2>4, <2>5
  <2> HIDE DEF next, result, lost, forward
  <2> QED BY <1>1, <1>2, <1>4, <2>7, <2>8, <2>9, RunEnds
<1> QED BY <1>3, <1>4

-----------------------------------------------------------------------------
(* The run is taken over under a new token. *)

LEMMA ClaimFields ==
  ASSUME RuntimeTypes
  PROVE  /\ ClaimedRun \in RunRecords /\ ClaimedRun.token = run.token + 1
         /\ ClaimedRun.state = run.state /\ ClaimedRun.result = run.result
<1>1. run \in RunRecords /\ run.token \in Nat
  BY RunFields DEF RuntimeTypes
<1>2. run.token + 1 \in Nat
  BY <1>1
<1> QED BY <1>1, <1>2 DEF ClaimedRun, RunRecords

LEMMA NewestToken ==
  \A n \in Nat : n <= n + 1 /\ n + 1 <= n + 1 /\ n + 1 # 0 /\ \A m \in Nat : m <= n => m # n + 1
OBVIOUS

LEMMA TakenOver ==
  ASSUME RuntimeIInv, NEW t \in Tasks, NEW r \in TaskRecords, Moves(t, r), run' = ClaimedRun,
         task' \in [Tasks -> TaskRecords], activeTask' \in Tasks \cup {NoTask},
         UNCHANGED <<host, remote, deliveries, commands>>,
         r.token = run.token + 1, r.pc \in {"converge", "send result", "load"},
         r.state \in Early \cup {"result_ready"}, run.state # "absent",
         r.pc = "send result" => r.result = run.result /\ r.result \in Results,
         r.pc = "load" => r.state \in Early,
         task[t].pc # "idle",
         \A u \in Tasks : Working(u)' => u = t /\ activeTask' = t /\ run.state \in Early
  PROVE  RuntimeIInv'
<1>1. /\ RuntimeTypes /\ RecordsOK /\ host # "down" /\ run.token \in Nat
      /\ remote \in [life : Lives, result : Results \cup {NoResult}]
      /\ \A u \in Tasks : task[u].token \in Nat /\ task[u].token <= run.token
  BY RunFields, TaskFields, RunningHost DEF RuntimeIInv, RuntimeTypes, TaskOK
<1>2. /\ run' \in RunRecords /\ run'.token = run.token + 1
      /\ run'.state = run.state /\ run'.result = run.result
  BY <1>1, ClaimFields
<1>3. RuntimeTypes'
  BY <1>1, <1>2 DEF RuntimeTypes
<1>4. RecordsOK'
  BY <1>1, <1>2, SameRecords
<1>5. RecordsGrow
  <2>1. run.token <= run'.token
    BY <1>1, <1>2, NewestToken, Zenon
  <2> QED BY <1>2, <2>1 DEF RecordsGrow
<1>6. TaskOK(r)'
  <2>1. r.token <= run'.token
    BY <1>1, <1>2, NewestToken, Zenon
  <2> QED BY <1>2, <2>1 DEF TaskOK, AtWork, Submitting, NothingSeen
<1>7. WorkersAreAlone'
  <2>1. task'[t].token = run'.token /\ run'.token # 0
    BY <1>1, <1>2, NewestToken, Zenon DEF Moves
  <2>2. ASSUME NEW u \in Tasks, u # t PROVE task'[u].token # run'.token
    <3>1. task'[u].token = task[u].token
      BY <1>1, <2>2, OthersKeep
    <3> QED BY <1>1, <1>2, <3>1, NewestToken, Zenon
  <2> QED BY <1>2, <2>1, <2>2 DEF WorkersAreAlone, Alone
<1>8. r.pc \notin {"idle", "recover"}
  OBVIOUS
<1> QED BY <1>1, <1>3, <1>4, <1>5, <1>6, <1>7, <1>8, TaskMoves

LEMMA ClaimableStates ==
  ASSUME MayClaimRun({"received", "accepted", "running", "result_ready"})
  PROVE  run.state \in Early \cup {"result_ready"} /\ run.state # "absent"
BY DEF MayClaimRun, Early

LEMMA OnlyTheActiveWorks ==
  ASSUME RuntimeIInv, NEW t \in Tasks, Working(t)
  PROVE  activeTask = t /\ task[t].token = run.token /\ run.state \in Early
BY DEF RuntimeIInv, WorkersAreAlone, Alone

LEMMA ClaimKeeps ==
  ASSUME RuntimeIInv, NEW t \in Tasks, Claim(t)
  PROVE  RuntimeIInv'
<1>1. /\ task[t].pc = "claim" /\ UNCHANGED <<host, remote, commands, deliveries>>
      /\ task[t].pc \notin NothingSeen /\ task[t].pc # "idle"
  BY DEF Claim, service, NothingSeen
<1>2. CASE Goto(t, "end") /\ UNCHANGED <<run, activeTask>>
  BY <1>1, <1>2, StepsAside
<1>3. CASE MayClaimRun({"received", "accepted", "running", "result_ready"})
  <2>1. /\ RuntimeTypes /\ RecordsOK /\ task[t] \in TaskRecords /\ run.token + 1 \in Nat
        /\ run.state \in Early \cup {"result_ready"} /\ run.state # "absent"
        /\ run' = ClaimedRun /\ ClaimedRun.token = run.token + 1 /\ activeTask \in Tasks \cup {NoTask}
        /\ task \in [Tasks -> TaskRecords]
    BY <1>3, TaskFields, ClaimFields, ClaimableStates DEF RuntimeIInv, Claim, RuntimeTypes, RunRecords
  <2>2. CASE run.state = "result_ready"
    <3>1. PICK r : r = [task[t] EXCEPT !.token = ClaimedRun.token, !.state = "result_ready",
                          !.result = run.result, !.submits = TRUE, !.pc = "send result"]
      OBVIOUS
    <3>2. task' = [task EXCEPT ![t] = r] /\ UNCHANGED activeTask
      BY <1>3, <2>1, <2>2, <3>1, ResultPlaces DEF Claim
    <3>3. run.result \in Results
      BY <2>1, <2>2 DEF RecordsOK
    <3>4. "result_ready" \in RunStates /\ "send result" \in Pcs \ AtWork /\ "result_ready" \notin Early
      BY DEF RunStates, Pcs, Submitting, AtWork, Early
    <3>5. /\ r \in TaskRecords /\ r.token = run.token + 1 /\ r.pc = "send result"
          /\ r.state = "result_ready" /\ r.result = run.result
      BY <2>1, <3>1, <3>3, <3>4 DEF TaskRecords
    <3>6. /\ Moves(t, r) /\ task' \in [Tasks -> TaskRecords] /\ task'[t] = r
          /\ \A u \in Tasks : u # t => task'[u] = task[u]
      BY <2>1, <3>2, <3>5, Becomes
    <3>7. \A u \in Tasks : Working(u)' => u # t /\ Working(u)
      BY <3>4, <3>5, <3>6 DEF Working
    <3>8. \A u \in Tasks : ~Working(u)'
      BY <2>2, <3>4, <3>7, OnlyTheActiveWorks
    <3> QED BY <1>1, <2>1, <3>2, <3>3, <3>5, <3>6, <3>8, TakenOver
  <2>3. CASE run.state # "result_ready"
    <3>1. PICK r : r = [task[t] EXCEPT !.token = ClaimedRun.token, !.state = run.state, !.pc = "load"]
      OBVIOUS
    <3>2. task' = TakeOver(t) /\ activeTask' = t
      BY <1>3, <2>3 DEF Claim
    <3>3. run.state \in Early /\ run.state \in RunStates /\ "load" \in Pcs
      BY <2>1, <2>3 DEF Pcs, AtWork, RunStates
    <3>4. /\ r \in TaskRecords /\ r.token = run.token + 1 /\ r.pc = "load" /\ r.state = run.state
      BY <2>1, <3>1, <3>3 DEF TaskRecords
    <3>5. task'[t] = r /\ (\A u \in Tasks : u # t =>
             task'[u] = IF u = activeTask THEN [task[u] EXCEPT !.aborted = TRUE] ELSE task[u])
      BY <3>1, <3>2 DEF TakeOver
    <3>6. \A u \in Tasks : [task[u] EXCEPT !.aborted = TRUE] \in TaskRecords /\ task[u] \in TaskRecords
          /\ [task[u] EXCEPT !.aborted = TRUE].aborted = TRUE
          /\ [task[u] EXCEPT !.aborted = TRUE].pc = task[u].pc
      BY <2>1 DEF TaskRecords
    <3>7. Moves(t, r)
      BY <3>5 DEF Moves
    <3>8. task' \in [Tasks -> TaskRecords]
      <4>1. \A u \in Tasks : task'[u] \in TaskRecords
        BY <3>4, <3>5, <3>6
      <4> QED BY <3>2, <4>1 DEF TakeOver
    <3>9. ASSUME NEW u \in Tasks, Working(u)', u # t PROVE FALSE
      <4>1. CASE u = activeTask
        BY <3>5, <3>6, <3>9, <4>1 DEF Working
      <4>2. CASE u # activeTask
        <5>1. Working(u)
          BY <3>5, <3>9, <4>2 DEF Working
        <5> QED BY <4>2, <5>1, OnlyTheActiveWorks
      <4> QED BY <4>1, <4>2
    <3> QED BY <1>1, <2>1, <3>2, <3>3, <3>4, <3>7, <3>8, <3>9, TakenOver
  <2> QED BY <2>2, <2>3
<1> QED BY <1>2, <1>3 DEF Claim

LEMMA ConvergeDeliveredKeeps ==
  ASSUME RuntimeIInv, NEW t \in Tasks, ConvergeDelivered(t)
  PROVE  RuntimeIInv'
<1>1. /\ task[t].pc = "terminal" /\ UNCHANGED <<host, remote, commands, deliveries, activeTask>>
      /\ task[t].pc \notin NothingSeen /\ task[t].pc # "idle"
  BY DEF ConvergeDelivered, service, NothingSeen
<1>2. /\ RuntimeTypes /\ RecordsOK /\ task[t] \in TaskRecords /\ TaskOK(task[t]) /\ host # "down"
      /\ task \in [Tasks -> TaskRecords] /\ activeTask \in Tasks \cup {NoTask}
      /\ run \in RunRecords /\ run.token \in Nat /\ run.state \in RunStates /\ run.state # "absent"
      /\ remote \in [life : Lives, result : Results \cup {NoResult}]
  BY <1>1, TaskFields, RunFields, RunningHost DEF RuntimeIInv, RuntimeTypes, TaskOK
<1>3. CASE UNCHANGED run /\ Goto(t, "acknowledge")
  BY <1>1, <1>3, StepsAside
<1>4. CASE activeTask # NoTask
  <2>1. PICK mid : mid = [task EXCEPT ![activeTask].aborted = TRUE]
    OBVIOUS
  <2>2. PICK pc \in {"acknowledge", "converge"} : pc = IF run.state \in Over THEN "acknowledge" ELSE "converge"
    OBVIOUS
  <2>3. PICK r : r = [mid[t] EXCEPT !.token = task[activeTask].token, !.state = run.state,
                        !.then = "acknowledge", !.pc = pc]
    OBVIOUS
  <2>4. /\ mid \in [Tasks -> TaskRecords] /\ mid[activeTask].aborted = TRUE
        /\ \A u \in Tasks : u # activeTask => mid[u] = task[u]
        /\ mid[activeTask] = [task[activeTask] EXCEPT !.aborted = TRUE]
    BY <1>2, <1>4, <2>1 DEF TaskRecords
  <2>5. task' = [mid EXCEPT ![t] = r] /\ UNCHANGED run
    <3>1. /\ task' = [task EXCEPT ![activeTask].aborted = TRUE, ![t].token = task[activeTask].token,
                       ![t].state = run.state, ![t].then = "acknowledge",
                       ![t].pc = IF run.state \in Over THEN "acknowledge" ELSE "converge"]
          /\ UNCHANGED run
      BY <1>4 DEF ConvergeDelivered
    <3> QED BY <1>2, <2>1, <2>2, <2>3, <2>4, <3>1
  <2>6. /\ r \in TaskRecords /\ r.pc = pc /\ r.token = task[activeTask].token /\ r.state = run.state
    <3>1. pc \in Pcs /\ task[activeTask].token \in Nat
      BY <1>2, <1>4, TaskFields DEF Pcs
    <3>2. PICK old \in TaskRecords : old = mid[t]
      BY <2>4
    <3>3. PICK token \in Nat : token = task[activeTask].token
      BY <3>1
    <3>4. r = [old EXCEPT !.token = token, !.state = run.state, !.then = "acknowledge", !.pc = pc]
      BY <2>3, <3>2, <3>3
    <3>5. r \in TaskRecords /\ r.pc = pc /\ r.token = token /\ r.state = run.state
      BY <1>2, <3>1, <3>4 DEF TaskRecords
    <3> QED BY <3>3, <3>5
  <2>7. task' \in [Tasks -> TaskRecords] /\ task'[t] = r /\ (\A u \in Tasks : u # t => task'[u] = mid[u])
    BY <2>4, <2>5, <2>6
  <2>8. Moves(t, r)
    BY <2>4, <2>7 DEF Moves
  <2>9. ASSUME NEW u \in Tasks, Working(u)' PROVE FALSE
    <3>1. u # t
      BY <2>6, <2>7, <2>9 DEF Working, AtWork
    <3>2. u # activeTask
      BY <2>4, <2>7, <2>9, <3>1 DEF Working
    <3>3. Working(u)
      BY <2>4, <2>7, <2>9, <3>1, <3>2 DEF Working
    <3> QED BY <3>2, <3>3, OnlyTheActiveWorks
  <2>10. RuntimeTypes' /\ RecordsOK'
    BY <1>1, <1>2, <2>5, <2>7, SameRecords DEF RuntimeTypes
  <2>11. RecordsGrow
    <3>1. run.token <= run'.token
      BY <1>2, <2>5, NoLessThanItself, Zenon
    <3> QED BY <1>1, <2>5, <3>1 DEF RecordsGrow
  <2>12. TaskOK(r)
    <3>1. r.token <= run.token
      BY <1>4, <1>2, <2>6 DEF RuntimeIInv, TaskOK
    <3>2. pc = "converge" => run.state \in Early \cup {"result_ready"}
      BY <1>2, <2>2 DEF RunStates
    <3> QED BY <1>2, <2>6, <3>1, <3>2 DEF TaskOK, AtWork, Submitting
  <2>13. TaskOK(r)' /\ r.pc \notin {"idle", "recover"}
    BY <1>1, <2>5, <2>6, <2>12 DEF TaskOK
  <2>14. WorkersAreAlone'
    BY <2>9 DEF WorkersAreAlone
  <2> QED BY <1>1, <1>2, <2>6, <2>8, <2>10, <2>11, <2>13, <2>14, TaskMoves
<1>5. CASE /\ activeTask = NoTask /\ MayClaimRun({"received", "accepted", "running", "result_ready"})
           /\ run' = ClaimedRun
           /\ task' = [task EXCEPT ![t].token = ClaimedRun.token, ![t].state = run.state,
                         ![t].then = "acknowledge", ![t].pc = "converge"]
  <2>1. PICK r : r = [task[t] EXCEPT !.token = ClaimedRun.token, !.state = run.state,
                        !.then = "acknowledge", !.pc = "converge"]
    OBVIOUS
  <2>2. task' = [task EXCEPT ![t] = r]
    BY <1>2, <1>5, <2>1
  <2>3. ClaimedRun.token = run.token + 1 /\ run.token + 1 \in Nat /\ "converge" \in Pcs \ AtWork
    BY <1>2, ClaimFields DEF Pcs, AtWork
  <2>4. /\ r \in TaskRecords /\ r.token = run.token + 1 /\ r.pc = "converge" /\ r.state = run.state
    BY <1>2, <2>1, <2>3 DEF TaskRecords
  <2>5. /\ Moves(t, r) /\ task' \in [Tasks -> TaskRecords] /\ task'[t] = r
        /\ \A u \in Tasks : u # t => task'[u] = task[u]
    BY <1>2, <2>2, <2>4, Becomes
  <2>6. \A u \in Tasks : Working(u)' => Working(u)
    BY <2>3, <2>4, <2>5 DEF Working
  <2>7. NoTask \notin Tasks
    BY RuntimeAssumption DEF Tasks
  <2>8. \A u \in Tasks : ~Working(u)'
    BY <1>5, <2>6, <2>7, OnlyTheActiveWorks
  <2>9. run.state \in Early \cup {"result_ready"}
    BY <1>5, ClaimableStates
  <2> QED BY <1>1, <1>2, <1>5, <2>4, <2>5, <2>8, <2>9, TakenOver
<1> QED BY <1>3, <1>4, <1>5 DEF ConvergeDelivered

LEMMA RecoverKeeps ==
  ASSUME RuntimeIInv, Recover
  PROVE  RuntimeIInv'
<1> DEFINE t == "recover"
<1>1. /\ task[t].pc = "recover" /\ UNCHANGED <<host, remote, commands, deliveries, activeTask>>
      /\ t \in Tasks /\ Tasks = Handlers \cup {t} /\ task[t].pc # "idle"
  BY DEF Recover, service, Tasks
<1>2. /\ RuntimeTypes /\ RecordsOK /\ task[t] \in TaskRecords /\ TaskOK(task[t]) /\ host # "down"
      /\ task \in [Tasks -> TaskRecords] /\ activeTask \in Tasks \cup {NoTask}
      /\ run \in RunRecords /\ run.token \in Nat /\ run.state \in RunStates
  BY <1>1, TaskFields, RunFields, RunningHost DEF RuntimeIInv, RuntimeTypes
<1>3. CASE Goto(t, "end") /\ UNCHANGED run
  <2>1. "end" \in Pcs \ ({"idle", "recover", "capture", "converge", "note result", "to succeeded"}
                           \cup AtWork \cup Submitting) /\ "end" \in NothingSeen
    BY DEF Pcs, AtWork, Submitting, NothingSeen
  <2> QED BY <1>1, <1>3, <2>1, QuietStep
<1>4. CASE run.state # "absent" /\ Goto(t, "claim") /\ UNCHANGED run
  <2>1. "claim" \in Pcs \ ({"idle", "recover", "capture", "converge", "note result", "to succeeded"}
                             \cup AtWork \cup Submitting)
    BY DEF Pcs, AtWork, Submitting, NothingSeen
  <2> QED BY <1>1, <1>4, <2>1, QuietStep
<1>5. CASE /\ run.state \notin Over \cup {"absent"} /\ run' = ClaimedRun
           /\ task' = [task EXCEPT ![t].pc = "converge", ![t].token = ClaimedRun.token,
                         ![t].state = run.state, ![t].then = "end"]
  <2>1. PICK r : r = [task[t] EXCEPT !.pc = "converge", !.token = ClaimedRun.token,
                        !.state = run.state, !.then = "end"]
    OBVIOUS
  <2>2. task' = [task EXCEPT ![t] = r]
    BY <1>1, <1>2, <1>5, <2>1
  <2>3. ClaimedRun.token = run.token + 1 /\ run.token + 1 \in Nat /\ "converge" \in Pcs \ AtWork
    BY <1>2, ClaimFields DEF Pcs, AtWork
  <2>4. /\ r \in TaskRecords /\ r.token = run.token + 1 /\ r.pc = "converge" /\ r.state = run.state
    BY <1>2, <2>1, <2>3 DEF TaskRecords
  <2>5. /\ Moves(t, r) /\ task' \in [Tasks -> TaskRecords] /\ task'[t] = r
        /\ \A u \in Tasks : u # t => task'[u] = task[u]
    BY <1>1, <1>2, <2>2, <2>4, Becomes
  <2>6. \A u \in Handlers : task[u].pc = "idle"
    BY <1>1 DEF RuntimeIInv, RecoveryIsFirst
  <2>7. \A u \in Tasks : ~Working(u)'
    BY <1>1, <2>3, <2>4, <2>5, <2>6 DEF Working, AtWork
  <2>8. run.state \in Early \cup {"result_ready"} /\ run.state # "absent"
    BY <1>2, <1>5 DEF RunStates
  <2> HIDE DEF t
  <2> QED BY <1>1, <1>2, <1>5, <2>4, <2>5, <2>7, <2>8, TakenOver
<1> QED BY <1>3, <1>4, <1>5 DEF Recover

-----------------------------------------------------------------------------
(* The process, the lease and the owner of the Handoff. *)

\* A step that is not one of a task.
LEMMA TasksStay ==
  ASSUME RuntimeIInv, UNCHANGED <<task, activeTask>>,
         host' \in {"down", "up", "closing"}, host' = "down" => host = "down",
         run' \in RunRecords, run'.state = run.state, run'.token = run.token, run'.result = run.result,
         remote' \in [life : Lives, result : Results \cup {NoResult}],
         remote.life = "result_returned" => remote'.life = "result_returned",
         RecordsOK'
  PROVE  RuntimeIInv'
<1>1. RuntimeTypes' /\ RuntimeTypes
  BY DEF RuntimeIInv, RuntimeTypes
<1>2. \A t \in Tasks : TaskOK(task[t])'
  BY DEF RuntimeIInv, TaskOK
<1>3. WorkersAreAlone'
  BY DEF RuntimeIInv, WorkersAreAlone, Working, Alone
<1>4. RecoveryIsFirst'
  BY DEF RuntimeIInv, RecoveryIsFirst
<1> QED BY <1>1, <1>2, <1>3, <1>4 DEF RuntimeIInv

LEMMA RestingOK ==
  ASSUME RuntimeTypes
  PROVE  TaskOK(Resting)
<1>1. 0 <= run.token
  BY RunFields
<1> QED BY <1>1, RestingFields DEF TaskOK, AtWork, Submitting, NothingSeen

LEMMA ProcessKeeps ==
  ASSUME RuntimeIInv, StartHost \/ CloseHost \/ Down \/ LapseRun \/ Withdraw
  PROVE  RuntimeIInv'
<1>1. /\ RuntimeTypes /\ RecordsOK /\ run \in RunRecords /\ task \in [Tasks -> TaskRecords]
      /\ remote \in [life : Lives, result : Results \cup {NoResult}]
  BY DEF RuntimeIInv, RuntimeTypes
<1>2. CASE StartHost
  <2>1. PICK r : r = [task["recover"] EXCEPT !.pc = "recover"]
    OBVIOUS
  <2>2. "recover" \in Tasks /\ task["recover"] \in TaskRecords /\ "recover" \notin Handlers
        /\ Tasks = Handlers \cup {"recover"}
    BY <1>1, RuntimeAssumption DEF Tasks
  <2>3. /\ r \in TaskRecords /\ r.pc = "recover" /\ r.token = task["recover"].token
    BY <2>1, <2>2 DEF TaskRecords, Pcs, NothingSeen
  <2>4. task' = [task EXCEPT !["recover"] = r]
    BY <1>2, <2>1 DEF StartHost, Goto
  <2>5. /\ task' \in [Tasks -> TaskRecords] /\ task'["recover"] = r
        /\ \A u \in Tasks : u # "recover" => task'[u] = task[u]
    BY <1>1, <2>2, <2>3, <2>4, Becomes
  <2>6. /\ host = "down" /\ host' = "up"
        /\ UNCHANGED <<run, remote, commands, deliveries, activeTask>>
    BY <1>2 DEF StartHost, service, durable
  <2>7. \A u \in Tasks : task[u].pc = "idle"
    BY <2>6 DEF RuntimeIInv, RecoveryIsFirst
  <2>8. RuntimeTypes' /\ RecordsOK'
    BY <1>1, <2>5, <2>6, SameRecords DEF RuntimeTypes
  <2>9. TaskOK(r)
    BY <2>2, <2>3 DEF RuntimeIInv, TaskOK, AtWork, Submitting, NothingSeen
  <2>10. \A u \in Tasks : TaskOK(task[u])'
    BY <2>5, <2>6, <2>9 DEF RuntimeIInv, TaskOK
  <2>11. WorkersAreAlone'
    BY <2>2, <2>3, <2>5, <2>7 DEF WorkersAreAlone, Working, AtWork
  <2>12. RecoveryIsFirst'
    BY <2>2, <2>5, <2>6, <2>7 DEF RecoveryIsFirst
  <2> QED BY <2>8, <2>10, <2>11, <2>12 DEF RuntimeIInv
<1>3. CASE CloseHost
  <2>1. UNCHANGED <<run, remote, commands, deliveries, activeTask, task>> /\ host' = "closing"
    BY <1>3 DEF CloseHost, service, durable
  <2>2. RecordsOK'
    BY <1>1, <2>1, SameRecords
  <2> QED BY <1>1, <2>1, <2>2, TasksStay
<1>4. CASE Down
  <2>1. /\ UNCHANGED <<run, remote, commands, deliveries>> /\ host' = "down"
        /\ task' = [t \in Tasks |-> Resting] /\ activeTask' = NoTask
    BY <1>4 DEF Down, service, durable
  <2>2. \A u \in Tasks : task'[u] = Resting
    BY <2>1
  <2>3. RuntimeTypes' /\ RecordsOK'
    BY <1>1, <2>1, SameRecords, RestingFields DEF RuntimeTypes
  <2>4. \A u \in Tasks : TaskOK(task[u])'
    BY <1>1, <2>1, <2>2, RestingOK DEF TaskOK
  <2>5. "idle" \notin AtWork /\ "idle" # "recover"
    BY DEF AtWork
  <2>6. WorkersAreAlone' /\ RecoveryIsFirst'
    BY <2>2, <2>5, RestingFields DEF WorkersAreAlone, Working, RecoveryIsFirst, Tasks
  <2> QED BY <2>3, <2>4, <2>6 DEF RuntimeIInv
<1>5. CASE LapseRun
  <2>1. UNCHANGED <<host, remote, commands, deliveries, activeTask, task>>
        /\ run' = [run EXCEPT !.leased = FALSE]
    BY <1>5 DEF LapseRun, service
  <2>2. /\ run' \in RunRecords /\ run'.state = run.state /\ run'.token = run.token
        /\ run'.result = run.result
    BY <1>1, <2>1 DEF RunRecords
  <2>3. RecordsOK'
    BY <1>1, <2>1, <2>2, SameRecords
  <2>4. host \in {"down", "up", "closing"}
    BY <1>1 DEF RuntimeTypes
  <2> QED BY <1>1, <2>1, <2>2, <2>3, <2>4, TasksStay
<1>6. CASE Withdraw
  <2>1. /\ UNCHANGED <<host, run, commands, activeTask, task>> /\ deliveries \subseteq deliveries'
        /\ remote.life \in {"offered", "accepted"} /\ remote' = [remote EXCEPT !.life = "cancelled"]
    BY <1>6 DEF Withdraw, durable
  <2>2. /\ remote' \in [life : Lives, result : Results \cup {NoResult}] /\ remote'.life = "cancelled"
        /\ remote'.result = remote.result
    BY <1>1, <2>1 DEF Lives, Terminal
  <2>3. RecordsOK'
    BY <1>1, <2>1, <2>2 DEF RecordsOK, ResultsAgree, AckedIsHeld
  <2>4. host \in {"down", "up", "closing"}
    BY <1>1 DEF RuntimeTypes
  <2> QED BY <1>1, <2>1, <2>2, <2>3, <2>4, TasksStay
<1> QED BY <1>2, <1>3, <1>4, <1>5, <1>6

LEMMA RenewalFailsKeeps ==
  ASSUME RuntimeIInv, NEW t \in Tasks, RenewalFails(t)
  PROVE  RuntimeIInv'
<1>1. /\ task' = [task EXCEPT ![t].aborted = TRUE]
      /\ UNCHANGED <<host, run, remote, commands, deliveries, activeTask>>
  BY DEF RenewalFails, service, durable
<1>2. RuntimeTypes /\ RecordsOK /\ task[t] \in TaskRecords /\ TaskOK(task[t])
      /\ task \in [Tasks -> TaskRecords]
  BY TaskFields DEF RuntimeIInv, RuntimeTypes
<1>3. PICK r : r = [task[t] EXCEPT !.aborted = TRUE]
  OBVIOUS
<1>4. /\ r \in TaskRecords /\ r.pc = task[t].pc /\ r.token = task[t].token /\ r.aborted = TRUE
      /\ r.state = task[t].state /\ r.result = task[t].result
  BY <1>2, <1>3 DEF TaskRecords
<1>5. task' = [task EXCEPT ![t] = r]
  BY <1>1, <1>3
<1>6. /\ task' \in [Tasks -> TaskRecords] /\ task'[t] = r
      /\ \A u \in Tasks : u # t => task'[u] = task[u]
  BY <1>2, <1>4, <1>5, Becomes
<1>7. RuntimeTypes' /\ RecordsOK'
  BY <1>1, <1>2, <1>6, SameRecords DEF RuntimeTypes
<1>8. TaskOK(r)
  BY <1>2, <1>4 DEF TaskOK
<1>9. \A u \in Tasks : TaskOK(task[u])'
  BY <1>1, <1>6, <1>8 DEF RuntimeIInv, TaskOK
<1>10. \A u \in Tasks : task'[u].pc = task[u].pc /\ task'[u].token = task[u].token
  BY <1>4, <1>6
<1>11. WorkersAreAlone'
  <2>1. \A u \in Tasks : Working(u)' => Working(u)
    BY <1>4, <1>6 DEF Working
  <2> QED BY <1>1, <1>7, <1>10, <2>1, OnlyTheActiveWorks, WorkersStay
<1>12. RecoveryIsFirst'
  BY <1>1, <1>10 DEF RuntimeIInv, RecoveryIsFirst, Tasks
<1> QED BY <1>7, <1>9, <1>11, <1>12 DEF RuntimeIInv

-----------------------------------------------------------------------------
(* The theorems. *)

LEMMA RuntimeStarts == RuntimeInit => RuntimeIInv
<1> SUFFICES ASSUME RuntimeInit PROVE RuntimeIInv
  OBVIOUS
<1>1. /\ host = "down" /\ remote = [life |-> "offered", result |-> NoResult] /\ deliveries = {"offer"}
      /\ run = [state |-> "absent", token |-> 0, leased |-> FALSE, reported |-> FALSE, result |-> NoResult]
      /\ commands = {} /\ task = [t \in Tasks |-> Resting] /\ activeTask = NoTask
  BY DEF RuntimeInit
<1>2. \A t \in Tasks : task[t] = Resting
  BY <1>1
<1>3. RuntimeTypes
  BY <1>1, RestingFields DEF RuntimeTypes, RunRecords, RunStates, Lives
<1>4. RecordsOK
  BY <1>1, RuntimeAssumption DEF RecordsOK, ResultsAgree, AckedIsHeld
<1>5. \A t \in Tasks : TaskOK(task[t])
  BY <1>2, <1>3, RestingOK
<1>6. "idle" \notin AtWork
  BY DEF AtWork
<1>7. WorkersAreAlone /\ RecoveryIsFirst
  BY <1>2, <1>6, RestingFields DEF WorkersAreAlone, Working, RecoveryIsFirst, Tasks
<1> QED BY <1>3, <1>4, <1>5, <1>7 DEF RuntimeIInv

LEMMA RuntimeStepKeeps == RuntimeIInv /\ [RuntimeNext]_runtimeVars => RuntimeIInv'
<1> SUFFICES ASSUME RuntimeIInv, [RuntimeNext]_runtimeVars PROVE RuntimeIInv'
  OBVIOUS
<1>1. CASE UNCHANGED runtimeVars
  <2>1. UNCHANGED <<host, run, remote, commands, deliveries, activeTask, task>>
    BY <1>1 DEF runtimeVars, service, durable
  <2>2. RuntimeTypes /\ RecordsOK
    BY DEF RuntimeIInv
  <2>3. RecordsOK' /\ host' \in {"down", "up", "closing"} /\ run' \in RunRecords
        /\ remote' \in [life : Lives, result : Results \cup {NoResult}]
    BY <2>1, <2>2, SameRecords DEF RuntimeTypes
  <2> QED BY <2>1, <2>3, TasksStay
<1>2. CASE RuntimeNext
  <2>1. CASE StartHost \/ CloseHost \/ Down \/ LapseRun \/ Withdraw
    BY <2>1, ProcessKeeps
  <2>2. CASE Recover
    BY <2>2, RecoverKeeps
  <2>3. ASSUME NEW t \in Handlers, NEW d \in {"offer", "end"}, Begin(t, d) PROVE RuntimeIInv'
    BY <2>3, BeginKeeps
  <2>4. ASSUME NEW t \in Tasks, TaskStep(t) PROVE RuntimeIInv'
    <3>1. CASE Issue(t)
      BY <3>1, SendKeeps, RereadKeeps, RecordKeeps DEF Issue
    <3> QED BY <2>4, <3>1, RecordDeliveryKeeps, ConvergeDeliveredKeeps, AcknowledgeKeeps, DecideKeeps,
               ClaimKeeps, LoadKeeps, MoveKeeps, CheckpointKeeps, ExecuteKeeps, ExecutedKeeps,
               CaptureKeeps, CatchKeeps, GiveUpKeeps, ConvergeKeeps, EndKeeps, RenewalFailsKeeps
            DEF TaskStep
  <2> QED BY <1>2, <2>1, <2>2, <2>3, <2>4 DEF RuntimeNext
<1> QED BY <1>1, <1>2

\* At most one execution that nobody has told to stop.
LEMMA OneWorks ==
  ASSUME RuntimeIInv
  PROVE  ExecutedOnce
<1> DEFINE E == {t \in Tasks : task[t].pc = "executing" /\ ~Aborted(t)}
<1>1. \A t \in Tasks : task[t].pc = "executing" /\ ~Aborted(t) => Working(t)
  BY DEF Working, AtWork, Aborted
<1>2. E \subseteq {activeTask}
  BY <1>1, OnlyTheActiveWorks
<1>3. IsFiniteSet({activeTask}) /\ Cardinality({activeTask}) = 1
  BY FS_Singleton
<1>4. Cardinality(E) <= 1
  BY <1>2, <1>3, FS_Subset
<1>5. run.result # NoResult => \A t \in Tasks : task[t].pc = "executing" => Aborted(t)
  BY <1>1, OnlyTheActiveWorks DEF RuntimeIInv, RecordsOK
<1> QED BY <1>4, <1>5 DEF ExecutedOnce

LEMMA RuntimeAlwaysIInv == RuntimeSpec => []RuntimeIInv
BY RuntimeStarts, RuntimeStepKeeps, PTL DEF RuntimeSpec

\* However often the process restarts, the work is executed again or the lease is lost, the
\* result returned is the one captured, and a run succeeds only with what was returned.
THEOREM ResultsStayAgreed == RuntimeSpec => []ResultsAgree
<1>1. RuntimeIInv => ResultsAgree
  BY DEF RuntimeIInv, RecordsOK
<1> QED BY <1>1, RuntimeAlwaysIInv, PTL

\* An offer is acknowledged only once its run is on record: no crash loses it.
THEOREM AcknowledgedHasARun == RuntimeSpec => []AckedIsHeld
<1>1. RuntimeIInv => AckedIsHeld
  BY DEF RuntimeIInv, RecordsOK
<1> QED BY <1>1, RuntimeAlwaysIInv, PTL

\* One execution at most goes on that nobody has aborted, and none once a result has been
\* captured.
THEOREM OneExecution == RuntimeSpec => []ExecutedOnce
BY OneWorks, RuntimeAlwaysIInv, PTL
=============================================================================
