----------------------------- MODULE Federation -----------------------------
(***************************************************************************)
(* A transfer between two Exchanges: the source signs an offer and sends   *)
(* it, the same bytes again after a failure; the target looks it up in its *)
(* replay store, calls the bridge of its deployment, signs a receipt and   *)
(* returns the one that was recorded first; the source checks the receipt  *)
(* and applies it.  Calls may overlap, be late or get lost; a message may  *)
(* be late by the skew that both allow.                                    *)
(*                                                                         *)
(* The bridges are the deployment's; the target's is idempotent.           *)
(* Signatures, digests and audiences are left out.                         *)
(***************************************************************************)
EXTENDS Integers, FiniteSets

CONSTANTS
  Offers,         \* messages of the source
  Exchanges,      \* calls that may be under way at once
  TtlSeconds,     \* the life of a message
  Skew,           \* by which it may be late
  KeepSeconds,    \* by which the target keeps its record longer than the offer's life
  MaxRecords,     \* capacity of the replay store
  MaxFederationTime  \* bound: the clock

ASSUME FederationAssumption ==
  /\ TtlSeconds \in Nat \ {0} /\ Skew \in Nat /\ KeepSeconds \in Nat /\ Skew <= KeepSeconds
  /\ MaxRecords \in Nat \ {0} /\ MaxFederationTime \in Nat

VARIABLES
  fedTime,
  expiry,       \* of each offer that has been signed; 0 before
  replay,       \* the target's record of each: until when it is kept, and the receipt
  decision,     \* of the target's bridge
  exchange,     \* each call's local state
  returned,     \* the receipts that the target has returned for each offer,
  applied       \* and those that the source has applied

federationVars == <<fedTime, expiry, replay, decision, exchange, returned, applied>>

NoReceipt == [decision |-> "none", at |-> 0, by |-> "none"]
NoRecord == [kept |-> FALSE, until |-> 0, receipt |-> NoReceipt]
Decisions == {"accepted", "rejected"}

AtEase == [pc |-> "idle", offer |-> "none", receipt |-> NoReceipt]

FederationTypeOK ==
  /\ fedTime \in 0..MaxFederationTime
  /\ \A o \in Offers : decision[o] \in Decisions \cup {"none"} /\ replay[o].kept \in BOOLEAN
  /\ \A x \in Exchanges : exchange[x].pc \in {"idle", "sent", "bridge", "sign", "complete", "answered"}
  /\ Cardinality({o \in Offers : replay[o].kept}) <= MaxRecords

Hang(x) == exchange' = [exchange EXCEPT ![x] = AtEase]

-----------------------------------------------------------------------------
PrepareOutbound(o) ==
  /\ expiry[o] = 0
  /\ expiry' = [expiry EXCEPT ![o] = fedTime + TtlSeconds]
  /\ UNCHANGED <<fedTime, replay, decision, exchange, returned, applied>>

\* For the first time or again.
SendOffer(x, o) ==
  /\ exchange[x].pc = "idle" /\ expiry[o] # 0
  /\ exchange' = [exchange EXCEPT ![x] = [AtEase EXCEPT !.pc = "sent", !.offer = o]]
  /\ UNCHANGED <<fedTime, expiry, replay, decision, returned, applied>>

\* Bug: the record is kept for as long as the offer lives.
KeptUntilExpiry(o) == expiry[o]

KeptUntil(o) == expiry[o] + KeepSeconds

\* What is left of the records when one is begun.
PrunedRecords == [o \in Offers |-> IF replay[o].kept /\ replay[o].until < fedTime THEN NoRecord
                                   ELSE replay[o]]

\* The offer is verified and its record begun; no call of another comes in between.
ReceiveOffer(x) ==
  LET o == exchange[x].offer
      records == PrunedRecords
  IN
  /\ exchange[x].pc = "sent"
  /\ IF fedTime - Skew > expiry[o]
     THEN Hang(x) /\ UNCHANGED <<replay, returned>>
     ELSE IF records[o].kept
     THEN /\ replay' = records
          /\ IF records[o].receipt # NoReceipt
             THEN /\ exchange' = [exchange EXCEPT ![x].pc = "answered", ![x].receipt = records[o].receipt]
                  /\ returned' = [returned EXCEPT ![o] = @ \cup {records[o].receipt}]
             ELSE exchange' = [exchange EXCEPT ![x].pc = "bridge"] /\ UNCHANGED returned
     ELSE /\ UNCHANGED returned
          /\ IF Cardinality({p \in Offers : records[p].kept}) < MaxRecords
             THEN /\ replay' = [records EXCEPT ![o] = [NoRecord EXCEPT !.kept = TRUE,
                                                                      !.until = KeptUntil(o)]]
                  /\ exchange' = [exchange EXCEPT ![x].pc = "bridge"]
             ELSE replay' = records /\ Hang(x)
  /\ UNCHANGED <<fedTime, expiry, decision, applied>>

\* A new record and a pending one alike: the bridge gives the decision that it gave before.
OfferInbound(x) ==
  LET o == exchange[x].offer IN
  /\ exchange[x].pc = "bridge"
  /\ IF decision[o] = "none" THEN \E d \in Decisions : decision' = [decision EXCEPT ![o] = d]
     ELSE UNCHANGED decision
  /\ exchange' = [exchange EXCEPT ![x].pc = "sign"]
  /\ UNCHANGED <<fedTime, expiry, replay, returned, applied>>

\* With an identifier and a time of its own.
SignReceipt(x) ==
  /\ exchange[x].pc = "sign"
  /\ exchange' = [exchange EXCEPT ![x].pc = "complete",
       ![x].receipt = [decision |-> decision[exchange[x].offer], at |-> fedTime, by |-> x]]
  /\ UNCHANGED <<fedTime, expiry, replay, decision, returned, applied>>

\* The first receipt on record is the one that is returned.
Complete(x) ==
  LET o == exchange[x].offer
      stable == IF replay[o].receipt = NoReceipt THEN exchange[x].receipt ELSE replay[o].receipt
  IN
  /\ exchange[x].pc = "complete"
  /\ IF replay[o].kept
     THEN /\ replay' = [replay EXCEPT ![o].receipt = stable]
          /\ exchange' = [exchange EXCEPT ![x].pc = "answered", ![x].receipt = stable]
          /\ returned' = [returned EXCEPT ![o] = @ \cup {stable}]
     ELSE Hang(x) /\ UNCHANGED <<replay, returned>>
  /\ UNCHANGED <<fedTime, expiry, decision, applied>>

\* The source verifies the receipt, and its bridge applies it.
ApplyReceipt(x) ==
  LET o == exchange[x].offer r == exchange[x].receipt IN
  /\ exchange[x].pc = "answered"
  /\ applied' = IF fedTime - Skew > r.at + TtlSeconds THEN applied
                ELSE [applied EXCEPT ![o] = @ \cup {r}]
  /\ Hang(x)
  /\ UNCHANGED <<fedTime, expiry, replay, decision, returned>>

\* A failure anywhere on the way.
LoseExchange(x) ==
  /\ exchange[x].pc # "idle"
  /\ Hang(x)
  /\ UNCHANGED <<fedTime, expiry, replay, decision, returned, applied>>

FederationTick ==
  /\ fedTime < MaxFederationTime /\ fedTime' = fedTime + 1
  /\ UNCHANGED <<expiry, replay, decision, exchange, returned, applied>>

FederationInit ==
  /\ fedTime = 0 /\ expiry = [o \in Offers |-> 0]
  /\ replay = [o \in Offers |-> NoRecord] /\ decision = [o \in Offers |-> "none"]
  /\ exchange = [x \in Exchanges |-> AtEase]
  /\ returned = [o \in Offers |-> {}] /\ applied = [o \in Offers |-> {}]

FederationNext ==
  \/ \E o \in Offers : PrepareOutbound(o) \/ \E x \in Exchanges : SendOffer(x, o)
  \/ \E x \in Exchanges :
       \/ ReceiveOffer(x) \/ OfferInbound(x) \/ SignReceipt(x) \/ Complete(x) \/ ApplyReceipt(x)
       \/ LoseExchange(x)
  \/ FederationTick

FederationSpec == FederationInit /\ [][FederationNext]_federationVars

-----------------------------------------------------------------------------
\* Federation design, 8: a duplicate retry returns a byte-identical receipt.  All receipts that
\* the target ever returns for one offer are one receipt, whatever calls overlap, fail or come
\* at the last moment at which the offer is valid; and the source applies no other.
OneReceipt ==
  \A o \in Offers : \A r, s \in returned[o] \cup applied[o] : r = s
=============================================================================
