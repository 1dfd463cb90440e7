----------------------------- MODULE MCTransfer -----------------------------
(***************************************************************************)
(* Two instances of Exchange in one run of TLC, told apart by the packages *)
(* of their offers: in one, Handoffs are transferred under keys that are   *)
(* used once; in the other, fewer of them under a key that is used again.  *)
(***************************************************************************)
EXTENDS MCExchange, FiniteSets

\* The Handoffs that exist or that a handler is about to create.
InUse == {h \in Handoffs : handoff[h].version > 0 \/ \E p \in Handlers :
            h = request[p].stream \/ h = request[p].other}

OffersOnly(packages) == \A h \in Handoffs : handoff[h].pkg \in packages \cup {NoPackage}

\* The commands under way.
Sent == {request[p].cmd : p \in {q \in Handlers : request[q].pc # "idle"}}

InTransfer ==
  /\ OffersOnly(TransferPackages)
  /\ \A c \in Sent : c.key = UniqueKey /\ (c.kind \in Offering => c.pkg \in TransferPackages)

\* Two Handoffs, which are offered and accepted beside what is sent again.
InRetry ==
  /\ OffersOnly(RetryPackages) /\ Cardinality(InUse) <= 2
  /\ \A c \in Sent :
       /\ c.kind \in Offering => c.pkg \in RetryPackages
       /\ c.key = UniqueKey => c.kind \in {"offer", "accept"}

OfOneInstance == InTransfer \/ InRetry
=============================================================================
