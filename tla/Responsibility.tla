--------------------------- MODULE Responsibility ---------------------------
(***************************************************************************)
(* What the Exchange promises about responsibility, without streams,       *)
(* versions, claims or handlers.  A piece of work is named by the Handoff  *)
(* it was first offered in; the Handoffs transferred from it form its      *)
(* tree.  The responsibility for the work is a token: the initiator keeps  *)
(* it until somebody accepts, from then on exactly one Handoff of the tree *)
(* bears it, it moves to another only by the accept of that other, and a   *)
(* Handoff that gave it away never bears it again.                         *)
(***************************************************************************)
CONSTANTS Actors, NoActor, Handoffs, NoHandoff

VARIABLES
  phase,     \* of each piece of work
  bearer,    \* the Handoff that bears its responsibility
  executor,  \* the actor that accepted the bearer
  holder,    \* the actor responsible at present
  served     \* the Handoffs that have borne a responsibility, all bearers included

vars == <<phase, bearer, executor, holder, served>>

Phases == {"new", "open", "borne", "review", "over"}

TypeOK ==
  /\ phase \in [Handoffs -> Phases]
  /\ bearer \in [Handoffs -> Handoffs \cup {NoHandoff}]
  /\ executor \in [Handoffs -> Actors \cup {NoActor}]
  /\ holder \in [Handoffs -> Actors \cup {NoActor}]
  /\ served \in SUBSET Handoffs

Init ==
  /\ phase = [w \in Handoffs |-> "new"]
  /\ bearer = [w \in Handoffs |-> NoHandoff]
  /\ executor = [w \in Handoffs |-> NoActor]
  /\ holder = [w \in Handoffs |-> NoActor]
  /\ served = {}

Open(w, a) ==
  /\ phase[w] = "new"
  /\ phase' = [phase EXCEPT ![w] = "open"]
  /\ holder' = [holder EXCEPT ![w] = a]
  /\ UNCHANGED <<bearer, executor, served>>

\* Declined, expired, withdrawn or without a target before anybody accepted.
Lapse(w) ==
  /\ phase[w] = "open"
  /\ phase' = [phase EXCEPT ![w] = "over"]
  /\ holder' = [holder EXCEPT ![w] = NoActor]
  /\ UNCHANGED <<bearer, executor, served>>

Bear(w, h, a) ==
  /\ phase' = [phase EXCEPT ![w] = "borne"]
  /\ bearer' = [bearer EXCEPT ![w] = h]
  /\ executor' = [executor EXCEPT ![w] = a]
  /\ holder' = [holder EXCEPT ![w] = a]
  /\ h \notin served /\ served' = served \cup {h}

Take(w, a) == phase[w] = "open" /\ Bear(w, w, a)

\* From one Handoff of the tree to another, in one step.
Pass(w, h, a) ==
  /\ phase[w] = "borne"
  /\ Bear(w, h, a)

Submit(w, verifier) ==
  /\ phase[w] = "borne"
  /\ phase' = [phase EXCEPT ![w] = "review"]
  /\ holder' = [holder EXCEPT ![w] = verifier]
  /\ UNCHANGED <<bearer, executor, served>>

\* After a rework request, to the actor that had accepted and to no other.
Resume(w) ==
  /\ phase[w] = "review"
  /\ phase' = [phase EXCEPT ![w] = "borne"]
  /\ holder' = [holder EXCEPT ![w] = executor[w]]
  /\ UNCHANGED <<bearer, executor, served>>

Finish(w) ==
  /\ phase[w] \in {"borne", "review"}
  /\ phase' = [phase EXCEPT ![w] = "over"]
  /\ bearer' = [bearer EXCEPT ![w] = NoHandoff]
  /\ executor' = [executor EXCEPT ![w] = NoActor]
  /\ holder' = [holder EXCEPT ![w] = NoActor]
  /\ UNCHANGED served

Next ==
  \E w \in Handoffs :
    \/ Lapse(w) \/ Resume(w) \/ Finish(w)
    \/ \E a \in Actors : Open(w, a) \/ Take(w, a) \/ Submit(w, a)
    \/ \E h \in Handoffs, a \in Actors : Pass(w, h, a)

Spec == Init /\ [][Next]_vars
=============================================================================
