------------------------- MODULE ExchangeRefinement -------------------------
(***************************************************************************)
(* The Exchange implements Responsibility: the mapping from its streams to *)
(* the responsibility for each piece of work.                              *)
(***************************************************************************)
EXTENDS Exchange

\* The piece of work that a Handoff belongs to: the root of its tree.
Root[h \in Handoffs] ==
  IF handoff[h].parent = NoHandoff THEN h ELSE Root[handoff[h].parent]

Bearing(s) == s.life \in UnderReview \cup {"accepted"}

IsWork(w) == handoff[w].version > 0 /\ handoff[w].parent = NoHandoff

\* Where the responsibility for w is, in the tree of the Handoffs transferred from it.
Bears(h, w) == Bearing(handoff[h]) /\ Root[h] = w
Bearer(w) ==
  IF \E h \in Handoffs : Bears(h, w) THEN CHOOSE h \in Handoffs : Bears(h, w) ELSE NoHandoff

Phase(w) ==
  CASE ~IsWork(w) -> "new"
    [] IsWork(w) /\ handoff[w].life \in Proposed -> "open"
    [] Bearer(w) # NoHandoff ->
         IF handoff[Bearer(w)].life = "accepted" THEN "borne" ELSE "review"
    [] OTHER -> "over"

Holder(w) ==
  CASE Phase(w) = "open" -> handoff[w].responsible
    [] Phase(w) \in {"borne", "review"} -> handoff[Bearer(w)].responsible
    [] OTHER -> NoActor

Work ==
  INSTANCE Responsibility WITH
    phase <- [w \in Handoffs |-> Phase(w)],
    bearer <- [w \in Handoffs |-> Bearer(w)],
    executor <- [w \in Handoffs |->
                   IF Bearer(w) = NoHandoff THEN NoActor ELSE handoff[Bearer(w)].recipient],
    holder <- [w \in Handoffs |-> Holder(w)],
    served <- {h \in Handoffs : handoff[h].recipient # NoActor}

\* One bearer of responsibility per piece of work, at every moment of every
\* interleaving of offers, transfers, accepts, cancels, results and reworks.
\* This is Work!Spec: the mapping depends on handoff alone, so that a step that
\* leaves handoff as it is stutters, and only the others are looked at.
ResponsibilityIsAToken ==
  Work!Init /\ [][handoff' # handoff => [Work!Next]_(Work!vars)]_vars
=============================================================================
