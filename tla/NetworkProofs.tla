----------------------------- MODULE NetworkProofs -----------------------------
(***************************************************************************)
(* Theorems about Federation, CapabilityInvocation and Discovery, for any  *)
(* offers, exchanges, calls, candidates and capabilities, any times and    *)
(* any number of failures.                                                 *)
(***************************************************************************)
EXTENDS Federation, CapabilityInvocation, Discovery, FiniteSetTheorems, TLAPS

-----------------------------------------------------------------------------
(* Federation: what the target has returned is what its record holds for   *)
(* as long as the record is kept, and after that the offer is too late.    *)

Receipts == [decision : Decisions, at : Nat, by : Exchanges]
ReplayRecords == [kept : BOOLEAN, until : Nat, receipt : Receipts \cup {NoReceipt}]
ExchangeRecords ==
  [pc : {"idle", "sent", "bridge", "sign", "complete", "answered"},
   offer : Offers \cup {"none"}, receipt : Receipts \cup {NoReceipt}]

FederationTypes ==
  /\ fedTime \in Nat /\ expiry \in [Offers -> Nat]
  /\ replay \in [Offers -> ReplayRecords]
  /\ decision \in [Offers -> Decisions \cup {"none"}]
  /\ exchange \in [Exchanges -> ExchangeRecords]
  /\ returned \in [Offers -> SUBSET Receipts] /\ applied \in [Offers -> SUBSET Receipts]

\* The record of an offer, the receipts returned and those applied.
OfferOK(o) ==
  /\ replay[o].kept => replay[o].until = KeptUntil(o)
  /\ ~replay[o].kept => replay[o].receipt = NoReceipt
  /\ expiry[o] = 0 => ~replay[o].kept /\ returned[o] = {}
  /\ \A r \in returned[o] :
       IF replay[o].kept THEN replay[o].receipt = r ELSE fedTime > KeptUntil(o)
  /\ \A r, s \in returned[o] : r = s
  /\ applied[o] \subseteq returned[o]

ExchangeOK(x) ==
  LET e == exchange[x] IN
  /\ e.pc # "idle" => e.offer \in Offers /\ expiry[e.offer] # 0
  /\ e.pc \in {"sign", "complete"} => decision[e.offer] \in Decisions
  /\ e.pc = "complete" => e.receipt \in Receipts
  /\ e.pc = "answered" => e.receipt \in returned[e.offer]

FederationIInv ==
  /\ FederationTypes
  /\ \A o \in Offers : OfferOK(o)
  /\ \A x \in Exchanges : ExchangeOK(x)

LEMMA NotAReceipt == NoReceipt \notin Receipts
BY DEF NoReceipt, Receipts, Decisions

\* Two fields of a call's record change.
LEMMA TwoFields ==
  ASSUME NEW f \in [Exchanges -> ExchangeRecords], NEW x \in Exchanges, NEW pc, NEW r
  PROVE  [f EXCEPT ![x].pc = pc, ![x].receipt = r]
           = [f EXCEPT ![x] = [f[x] EXCEPT !.pc = pc, !.receipt = r]]
BY DEF ExchangeRecords

LEMMA FederationInitHolds == FederationInit => FederationIInv
BY NotAReceipt
DEF FederationInit, FederationIInv, FederationTypes, OfferOK, ExchangeOK, NoRecord, ReplayRecords, AtEase,
    ExchangeRecords

\* A call comes to rest, and nothing else changes, or a receipt is applied.
LEMMA Hangs ==
  ASSUME FederationIInv, NEW x \in Exchanges, Hang(x),
         UNCHANGED <<fedTime, expiry, replay, decision, returned>>,
         applied' \in [Offers -> SUBSET Receipts], \A o \in Offers : applied'[o] \subseteq returned[o]
  PROVE  FederationIInv'
<1>1. AtEase \in ExchangeRecords /\ AtEase.pc = "idle" BY DEF AtEase, ExchangeRecords
<1>2. FederationTypes' BY <1>1 DEF FederationIInv, FederationTypes, Hang
<1>3. \A o \in Offers : OfferOK(o)' BY DEF FederationIInv, OfferOK, KeptUntil
<1>4. \A y \in Exchanges : ExchangeOK(y)' 
  BY <1>1 DEF FederationIInv, FederationTypes, ExchangeOK, Hang
<1> QED BY <1>2, <1>3, <1>4 DEF FederationIInv

\* Records that are dropped when another is begun belong to offers that are too late.
LEMMA PruningIsSafe ==
  ASSUME FederationIInv
  PROVE  /\ PrunedRecords \in [Offers -> ReplayRecords]
         /\ \A o \in Offers :
              /\ PrunedRecords[o].kept =>
                   replay[o].kept /\ PrunedRecords[o] = replay[o] /\ fedTime <= KeptUntil(o)
              /\ ~PrunedRecords[o].kept => PrunedRecords[o].receipt = NoReceipt
              /\ ~PrunedRecords[o].kept /\ replay[o].kept => KeptUntil(o) < fedTime
<1> USE FederationAssumption
<1>1. NoRecord \in ReplayRecords /\ ~NoRecord.kept /\ NoRecord.receipt = NoReceipt
  BY DEF NoRecord, ReplayRecords
<1>2. PrunedRecords \in [Offers -> ReplayRecords]
  BY <1>1 DEF FederationIInv, FederationTypes, PrunedRecords
<1>3. ASSUME NEW o \in Offers
      PROVE  /\ PrunedRecords[o].kept =>
                  replay[o].kept /\ PrunedRecords[o] = replay[o] /\ fedTime <= KeptUntil(o)
             /\ ~PrunedRecords[o].kept => PrunedRecords[o].receipt = NoReceipt
             /\ ~PrunedRecords[o].kept /\ replay[o].kept => KeptUntil(o) < fedTime
  <2>1. PrunedRecords[o] = IF replay[o].kept /\ replay[o].until < fedTime THEN NoRecord ELSE replay[o]
    BY DEF PrunedRecords
  <2>2. fedTime \in Nat /\ KeptUntil(o) \in Nat /\ OfferOK(o)
    BY DEF FederationIInv, FederationTypes, KeptUntil
  <2> QED BY <1>1, <2>1, <2>2 DEF OfferOK
<1> QED BY <1>2, <1>3

\* Records that hold what has been returned,
HoldsReturned(records) ==
  /\ records \in [Offers -> ReplayRecords]
  /\ \A o \in Offers :
       /\ records[o].kept => records[o].until = KeptUntil(o) /\ expiry[o] # 0
       /\ ~records[o].kept => records[o].receipt = NoReceipt
       /\ \A r \in returned[o] :
            IF records[o].kept THEN records[o].receipt = r ELSE fedTime > KeptUntil(o)

\* receipts returned from such records,
ReturnedFrom(records, after) ==
  /\ after \in [Offers -> SUBSET Receipts]
  /\ \A o \in Offers :
       /\ returned[o] \subseteq after[o]
       /\ \A r \in after[o] \ returned[o] : records[o].kept /\ records[o].receipt = r

\* and a call that looks on, or has its answer.
AnsweredFrom(e, after) ==
  /\ e \in ExchangeRecords
  /\ e.pc # "idle" => e.offer \in Offers /\ expiry[e.offer] # 0
  /\ \/ e.pc \in {"idle", "bridge"}
     \/ e.pc = "answered" /\ e.receipt \in after[e.offer]

LEMMA NothingNew ==
  ASSUME FederationIInv, NEW records PROVE ReturnedFrom(records, returned)
BY DEF FederationIInv, FederationTypes, ReturnedFrom

LEMMA AnswersAreKept ==
  ASSUME FederationIInv, NEW x \in Exchanges, NEW e,
         UNCHANGED <<fedTime, expiry, decision, applied>>,
         exchange' = [exchange EXCEPT ![x] = e],
         HoldsReturned(replay'), ReturnedFrom(replay', returned'), AnsweredFrom(e, returned')
  PROVE  FederationIInv'
<1> USE DEF HoldsReturned, ReturnedFrom, AnsweredFrom
<1>3. FederationTypes' BY DEF FederationIInv, FederationTypes
<1>4. ASSUME NEW o \in Offers PROVE OfferOK(o)'
  <2>1. OfferOK(o) /\ KeptUntil(o)' = KeptUntil(o) BY DEF FederationIInv, KeptUntil
  <2>2. \A r \in returned'[o] :
          IF replay'[o].kept THEN replay'[o].receipt = r ELSE fedTime > KeptUntil(o)
    OBVIOUS
  <2>3. \A r, s \in returned'[o] : r = s
    <3>1. CASE replay'[o].kept BY <3>1, <2>2
    <3>2. CASE ~replay'[o].kept BY <3>2, <2>1 DEF OfferOK
    <3> QED BY <3>1, <3>2
  <2>4. expiry[o] = 0 => ~replay'[o].kept /\ returned'[o] = {} BY <2>1 DEF OfferOK
  <2>5. applied[o] \subseteq returned'[o] BY <2>1 DEF OfferOK
  <2> QED BY <2>1, <2>2, <2>3, <2>4, <2>5 DEF OfferOK
<1>5. ASSUME NEW y \in Exchanges PROVE ExchangeOK(y)'
  <2>1. CASE y = x
    <3>1. exchange'[y] = e BY <2>1 DEF FederationIInv, FederationTypes
    <3> QED BY <2>1, <3>1 DEF ExchangeOK
  <2>2. CASE y # x
    <3>1. exchange'[y] = exchange[y] BY <2>2 DEF FederationIInv, FederationTypes
    <3> QED BY <3>1 DEF FederationIInv, FederationTypes, ExchangeOK
  <2> QED BY <2>1, <2>2
<1> QED BY <1>3, <1>4, <1>5 DEF FederationIInv

LEMMA FederationKeeps ==
  ASSUME FederationIInv, [FederationNext]_federationVars PROVE FederationIInv'
<1> USE FederationAssumption
<1>1. ASSUME NEW o \in Offers, PrepareOutbound(o) PROVE FederationIInv'
  <2>1. FederationTypes' BY <1>1 DEF FederationIInv, FederationTypes, PrepareOutbound
  <2>2. \A p \in Offers : OfferOK(p)'
    BY <1>1 DEF FederationIInv, FederationTypes, OfferOK, KeptUntil, PrepareOutbound
  <2>3. \A x \in Exchanges : ExchangeOK(x)'
    BY <1>1 DEF FederationIInv, FederationTypes, ExchangeOK, PrepareOutbound
  <2> QED BY <2>1, <2>2, <2>3 DEF FederationIInv
<1>2. ASSUME NEW x \in Exchanges, NEW o \in Offers, SendOffer(x, o) PROVE FederationIInv'
  <2>1. FederationTypes'
    BY <1>2 DEF FederationIInv, FederationTypes, SendOffer, ExchangeRecords, AtEase
  <2>2. \A p \in Offers : OfferOK(p)' BY <1>2 DEF FederationIInv, OfferOK, KeptUntil, SendOffer
  <2>3. \A y \in Exchanges : ExchangeOK(y)'
    BY <1>2 DEF FederationIInv, FederationTypes, ExchangeOK, SendOffer, AtEase
  <2> QED BY <2>1, <2>2, <2>3 DEF FederationIInv
<1>3. ASSUME NEW x \in Exchanges, ReceiveOffer(x) PROVE FederationIInv'
  <2> PICK o : o = exchange[x].offer OBVIOUS
  <2> PICK records : records = PrunedRecords OBVIOUS
  <2>1. /\ o \in Offers /\ expiry[o] # 0 /\ exchange[x] \in ExchangeRecords
        /\ fedTime \in Nat /\ expiry[o] \in Nat /\ exchange[x].pc = "sent"
    BY <1>3 DEF FederationIInv, FederationTypes, ExchangeOK, ReceiveOffer
  <2>2. AtEase \in ExchangeRecords /\ AtEase.pc = "idle" BY DEF AtEase, ExchangeRecords
  <2>3. UNCHANGED <<fedTime, expiry, decision, applied>> BY <1>3 DEF ReceiveOffer
  <2>4. \A p \in Offers : OfferOK(p) BY DEF FederationIInv
  <2>5. CASE fedTime - Skew > expiry[o]
    BY <1>3, <2>5, Hangs DEF ReceiveOffer, FederationIInv, FederationTypes, OfferOK
  <2>6. CASE ~(fedTime - Skew > expiry[o])
    <3>1. HoldsReturned(records) BY <2>4, PruningIsSafe DEF OfferOK, HoldsReturned
    <3>2. records \in [Offers -> ReplayRecords] BY PruningIsSafe
    <3>3. ~(fedTime > KeptUntil(o)) BY <2>1, <2>6 DEF KeptUntil
    <3>4. CASE records[o].kept /\ records[o].receipt # NoReceipt
      <4> PICK e : e = [exchange[x] EXCEPT !.pc = "answered", !.receipt = records[o].receipt] OBVIOUS
      <4>1. records[o].receipt \in Receipts BY <2>1, <3>2, <3>4 DEF ReplayRecords
      <4>2. e \in ExchangeRecords /\ e.pc = "answered" /\ e.offer = o /\ e.receipt = records[o].receipt
        BY <2>1, <4>1 DEF ExchangeRecords
      <4>3. exchange' = [exchange EXCEPT ![x] = e] /\ replay' = records
            /\ returned' = [returned EXCEPT ![o] = @ \cup {e.receipt}]
        <5>1. /\ exchange' = [exchange EXCEPT ![x].pc = "answered", ![x].receipt = records[o].receipt]
              /\ replay' = records /\ returned' = [returned EXCEPT ![o] = @ \cup {records[o].receipt}]
          BY <1>3, <2>6, <3>4 DEF ReceiveOffer
        <5> QED BY <4>2, <5>1, TwoFields DEF FederationIInv, FederationTypes
      <4>4. ReturnedFrom(replay', returned')
        BY <2>1, <3>4, <4>1, <4>2, <4>3 DEF FederationIInv, FederationTypes, ReturnedFrom
      <4>5. AnsweredFrom(e, returned')
        BY <2>1, <4>2, <4>3 DEF FederationIInv, FederationTypes, AnsweredFrom
      <4>6. HoldsReturned(replay') BY <3>1, <4>3
      <4> QED BY <2>3, <4>3, <4>4, <4>5, <4>6, AnswersAreKept
    <3>5. CASE records[o].kept /\ records[o].receipt = NoReceipt
      <4> PICK e : e = [exchange[x] EXCEPT !.pc = "bridge"] OBVIOUS
      <4>1. e \in ExchangeRecords /\ e.pc = "bridge" /\ e.offer = o BY <2>1 DEF ExchangeRecords
      <4>2. exchange' = [exchange EXCEPT ![x] = e] /\ replay' = records /\ returned' = returned
        BY <1>3, <2>6, <3>5 DEF ReceiveOffer
      <4>3. AnsweredFrom(e, returned') BY <2>1, <4>1 DEF AnsweredFrom
      <4>4. HoldsReturned(replay') /\ ReturnedFrom(replay', returned') BY <3>1, <4>2, NothingNew
      <4> QED BY <2>3, <4>2, <4>3, <4>4, AnswersAreKept
    <3>6. CASE ~records[o].kept /\ Cardinality({p \in Offers : records[p].kept}) < MaxRecords
      <4> PICK e : e = [exchange[x] EXCEPT !.pc = "bridge"] OBVIOUS
      <4> PICK new : new = [NoRecord EXCEPT !.kept = TRUE, !.until = KeptUntil(o)] OBVIOUS
      <4>1. e \in ExchangeRecords /\ e.pc = "bridge" /\ e.offer = o BY <2>1 DEF ExchangeRecords
      <4>2. exchange' = [exchange EXCEPT ![x] = e] /\ replay' = [records EXCEPT ![o] = new]
            /\ returned' = returned
        BY <1>3, <2>6, <3>6 DEF ReceiveOffer
      <4>3. new.kept /\ new.until = KeptUntil(o) /\ new \in ReplayRecords
        <5>1. KeptUntil(o) \in Nat BY <2>1 DEF KeptUntil
        <5> QED BY <5>1 DEF NoRecord, ReplayRecords
      <4>4. returned[o] = {} BY <2>1, <3>1, <3>3, <3>6 DEF HoldsReturned
      <4>5. AnsweredFrom(e, returned') BY <2>1, <4>1 DEF AnsweredFrom
      <4>6. ReturnedFrom(replay', returned') BY <4>2, NothingNew
      <4>7. HoldsReturned(replay') BY <2>1, <3>1, <3>2, <4>2, <4>3, <4>4 DEF HoldsReturned
      <4> QED BY <2>3, <4>2, <4>5, <4>6, <4>7, AnswersAreKept
    <3>7. CASE ~records[o].kept /\ ~(Cardinality({p \in Offers : records[p].kept}) < MaxRecords)
      <4>1. exchange' = [exchange EXCEPT ![x] = AtEase] /\ replay' = records /\ returned' = returned
        BY <1>3, <2>6, <3>7 DEF ReceiveOffer, Hang
      <4>2. AnsweredFrom(AtEase, returned') BY <2>2 DEF AnsweredFrom
      <4>3. HoldsReturned(replay') /\ ReturnedFrom(replay', returned') BY <3>1, <4>1, NothingNew
      <4> QED BY <2>3, <4>1, <4>2, <4>3, AnswersAreKept
    <3> QED BY <3>4, <3>5, <3>6, <3>7
  <2> QED BY <2>5, <2>6
<1>4. ASSUME NEW x \in Exchanges, OfferInbound(x) PROVE FederationIInv'
  <2>1. FederationTypes'
    <3>1. decision' \in [Offers -> Decisions \cup {"none"}]
      BY <1>4 DEF FederationIInv, FederationTypes, OfferInbound
    <3>2. exchange' \in [Exchanges -> ExchangeRecords]
      BY <1>4 DEF FederationIInv, FederationTypes, OfferInbound, ExchangeRecords
    <3> QED BY <1>4, <3>1, <3>2 DEF FederationIInv, FederationTypes, OfferInbound
  <2>2. \A p \in Offers : OfferOK(p)' BY <1>4 DEF FederationIInv, OfferOK, KeptUntil, OfferInbound
  <2>3. \A y \in Exchanges : ExchangeOK(y)'
    BY <1>4 DEF FederationIInv, FederationTypes, ExchangeRecords, ExchangeOK, OfferInbound
  <2> QED BY <2>1, <2>2, <2>3 DEF FederationIInv
<1>5. ASSUME NEW x \in Exchanges, SignReceipt(x) PROVE FederationIInv'
  <2> PICK r : r = [decision |-> decision[exchange[x].offer], at |-> fedTime, by |-> x] OBVIOUS
  <2>1. r \in Receipts
    BY <1>5 DEF FederationIInv, FederationTypes, ExchangeOK, SignReceipt, Receipts
  <2>2. exchange' = [exchange EXCEPT ![x] = [exchange[x] EXCEPT !.pc = "complete", !.receipt = r]]
    <3>1. exchange' = [exchange EXCEPT ![x].pc = "complete", ![x].receipt = r] BY <1>5 DEF SignReceipt
    <3> QED BY <3>1, TwoFields DEF FederationIInv, FederationTypes
  <2>3. FederationTypes'
    BY <1>5, <2>1, <2>2 DEF FederationIInv, FederationTypes, SignReceipt, ExchangeRecords
  <2>4. \A p \in Offers : OfferOK(p)' BY <1>5 DEF FederationIInv, OfferOK, KeptUntil, SignReceipt
  <2>5. \A y \in Exchanges : ExchangeOK(y)'
    BY <1>5, <2>1, <2>2 DEF FederationIInv, FederationTypes, ExchangeRecords, ExchangeOK, SignReceipt
  <2> QED BY <2>3, <2>4, <2>5 DEF FederationIInv
<1>6. ASSUME NEW x \in Exchanges, Complete(x) PROVE FederationIInv'
  <2> PICK o : o = exchange[x].offer OBVIOUS
  <2> PICK stable : stable = IF replay[o].receipt = NoReceipt THEN exchange[x].receipt ELSE replay[o].receipt
    OBVIOUS
  <2>1. /\ o \in Offers /\ expiry[o] # 0 /\ exchange[x] \in ExchangeRecords
        /\ exchange[x].receipt \in Receipts /\ replay[o] \in ReplayRecords /\ exchange[x].pc = "complete"
    BY <1>6 DEF FederationIInv, FederationTypes, ExchangeOK, Complete
  <2>2. \A p \in Offers : OfferOK(p) BY DEF FederationIInv
  <2>3. CASE ~replay[o].kept
    BY <1>6, <2>3, Hangs DEF Complete, FederationIInv, FederationTypes, OfferOK
  <2>4. CASE replay[o].kept
    <3> PICK e : e = [exchange[x] EXCEPT !.pc = "answered", !.receipt = stable] OBVIOUS
    <3>1. stable \in Receipts BY <2>1 DEF ReplayRecords
    <3>2. e \in ExchangeRecords /\ e.pc = "answered" /\ e.offer = o /\ e.receipt = stable
      BY <2>1, <3>1 DEF ExchangeRecords
    <3>3. /\ exchange' = [exchange EXCEPT ![x] = e] /\ replay' = [replay EXCEPT ![o].receipt = stable]
          /\ returned' = [returned EXCEPT ![o] = @ \cup {e.receipt}]
          /\ UNCHANGED <<fedTime, expiry, decision, applied>>
      <4>1. /\ exchange' = [exchange EXCEPT ![x].pc = "answered", ![x].receipt = stable]
            /\ replay' = [replay EXCEPT ![o].receipt = stable]
            /\ returned' = [returned EXCEPT ![o] = @ \cup {stable}]
            /\ UNCHANGED <<fedTime, expiry, decision, applied>>
        BY <1>6, <2>4 DEF Complete
      <4> QED BY <3>2, <4>1, TwoFields DEF FederationIInv, FederationTypes
    <3>4. replay' \in [Offers -> ReplayRecords]
      BY <2>1, <3>1, <3>3 DEF FederationIInv, FederationTypes, ReplayRecords
    <3>5. replay'[o] = [replay[o] EXCEPT !.receipt = stable] /\ \A p \in Offers \ {o} : replay'[p] = replay[p]
      BY <2>1, <3>3 DEF FederationIInv, FederationTypes
    <3>6. replay'[o].kept /\ replay'[o].until = KeptUntil(o) /\ replay'[o].receipt = stable
      BY <2>1, <2>2, <2>4, <3>5 DEF ReplayRecords, OfferOK
    <3>7. \A r \in returned[o] : r = stable
      BY <2>1, <2>2, <2>4, NotAReceipt DEF OfferOK, FederationIInv, FederationTypes
    <3>8. HoldsReturned(replay')
      <4> SUFFICES ASSUME NEW p \in Offers
                   PROVE  /\ replay'[p].kept => replay'[p].until = KeptUntil(p) /\ expiry[p] # 0
                          /\ ~replay'[p].kept => replay'[p].receipt = NoReceipt
                          /\ \A r \in returned[p] :
                               IF replay'[p].kept THEN replay'[p].receipt = r ELSE fedTime > KeptUntil(p)
        BY <3>4 DEF HoldsReturned
      <4>1. CASE p = o BY <2>1, <3>6, <3>7, <4>1
      <4>2. CASE p # o BY <2>2, <3>5, <4>2 DEF OfferOK
      <4> QED BY <4>1, <4>2
    <3>9. ReturnedFrom(replay', returned')
      <4>1. returned' \in [Offers -> SUBSET Receipts]
        BY <2>1, <3>1, <3>2, <3>3 DEF FederationIInv, FederationTypes
      <4>2. returned'[o] = returned[o] \cup {stable} /\ \A q \in Offers \ {o} : returned'[q] = returned[q]
        BY <2>1, <3>2, <3>3 DEF FederationIInv, FederationTypes
      <4> QED BY <3>6, <4>1, <4>2 DEF ReturnedFrom
    <3>10. AnsweredFrom(e, returned')
      BY <2>1, <3>2, <3>3 DEF FederationIInv, FederationTypes, AnsweredFrom
    <3> QED BY <3>3, <3>8, <3>9, <3>10, AnswersAreKept
  <2> QED BY <2>3, <2>4
<1>7. ASSUME NEW x \in Exchanges, ApplyReceipt(x) PROVE FederationIInv'
  <2>1. exchange[x].offer \in Offers /\ exchange[x].receipt \in returned[exchange[x].offer]
    BY <1>7 DEF FederationIInv, ExchangeOK, ApplyReceipt
  <2>2. /\ applied' \in [Offers -> SUBSET Receipts]
        /\ \A o \in Offers : applied'[o] \subseteq returned[o]
    BY <1>7, <2>1 DEF FederationIInv, FederationTypes, OfferOK, ApplyReceipt
  <2> QED BY <1>7, <2>2, Hangs DEF ApplyReceipt
<1>8. ASSUME NEW x \in Exchanges, LoseExchange(x) PROVE FederationIInv'
  BY <1>8, Hangs DEF LoseExchange, FederationIInv, FederationTypes, OfferOK
<1>9. CASE FederationTick
  <2>1. FederationTypes' BY <1>9 DEF FederationIInv, FederationTypes, FederationTick
  <2>2. \A p \in Offers : OfferOK(p)'
    BY <1>9 DEF FederationIInv, FederationTypes, OfferOK, KeptUntil, FederationTick
  <2>3. \A x \in Exchanges : ExchangeOK(x)' BY <1>9 DEF FederationIInv, ExchangeOK, FederationTick
  <2> QED BY <2>1, <2>2, <2>3 DEF FederationIInv
<1>10. CASE UNCHANGED federationVars
  BY <1>10 DEF federationVars, FederationIInv, FederationTypes, OfferOK, KeptUntil, ExchangeOK
<1> QED BY <1>1, <1>2, <1>3, <1>4, <1>5, <1>6, <1>7, <1>8, <1>9, <1>10 DEF FederationNext

\* Every receipt that is returned or applied for an offer is the same one: the record that
\* holds the first is kept for as long as the offer can be received.
THEOREM ReceiptsAreOne == FederationSpec => []OneReceipt
<1>1. FederationIInv => OneReceipt BY DEF FederationIInv, OfferOK, OneReceipt
<1> QED BY <1>1, FederationInitHolds, FederationKeeps, PTL DEF FederationSpec

-----------------------------------------------------------------------------
(* The replay records do not outgrow their limit: what one call finds of   *)
(* the room, it takes in the same step.                                    *)

Kept(records) == {o \in Offers : records[o].kept}
RoomKept(records) ==
  IsFiniteSet(Kept(records)) /\ Cardinality(Kept(records)) \in 0..MaxRecords

LEMMA FewerAreKept ==
  ASSUME NEW f, NEW g, RoomKept(f), Kept(g) \subseteq Kept(f)
  PROVE  RoomKept(g)
<1>1. IsFiniteSet(Kept(f)) /\ Kept(g) \in SUBSET Kept(f) BY DEF RoomKept
<1>2. IsFiniteSet(Kept(g)) /\ Cardinality(Kept(g)) <= Cardinality(Kept(f))
  BY <1>1, FS_Subset
<1>3. Cardinality(Kept(g)) \in Nat BY <1>2, FS_CardinalityType
<1>4. Cardinality(Kept(f)) \in 0..MaxRecords /\ MaxRecords \in Nat
  BY FederationAssumption DEF RoomKept
<1>5. Cardinality(Kept(g)) \in 0..MaxRecords BY <1>2, <1>3, <1>4
<1> QED BY <1>2, <1>5 DEF RoomKept

LEMMA OneMoreIsKept ==
  ASSUME NEW f, NEW o, NEW g, RoomKept(f), Cardinality(Kept(f)) < MaxRecords,
         Kept(g) \subseteq Kept(f) \cup {o}
  PROVE  RoomKept(g)
<1>1. IsFiniteSet(Kept(f)) /\ Cardinality(Kept(f)) \in Nat /\ MaxRecords \in Nat
  BY FederationAssumption DEF RoomKept
<1>2. IsFiniteSet(Kept(f) \cup {o}) /\ Cardinality(Kept(f) \cup {o}) <= Cardinality(Kept(f)) + 1
  <2> DEFINE S == Kept(f)
  <2>1. IsFiniteSet(S) /\ Cardinality(S) \in Nat BY <1>1
  <2> HIDE DEF S
  <2>2. /\ IsFiniteSet(S \cup {o})
        /\ Cardinality(S \cup {o}) = IF o \in S THEN Cardinality(S) ELSE Cardinality(S) + 1
    BY <2>1, FS_AddElement
  <2>3. Cardinality(S \cup {o}) <= Cardinality(S) + 1 BY <2>1, <2>2
  <2> QED BY <2>2, <2>3 DEF S
<1>3. IsFiniteSet(Kept(g)) /\ Cardinality(Kept(g)) <= Cardinality(Kept(f) \cup {o})
  <2>1. Kept(g) \in SUBSET (Kept(f) \cup {o}) OBVIOUS
  <2> QED BY <1>2, <2>1, FS_Subset
<1>4. Cardinality(Kept(g)) \in Nat /\ Cardinality(Kept(f) \cup {o}) \in Nat
  BY <1>2, <1>3, FS_CardinalityType
<1>5. Cardinality(Kept(g)) <= MaxRecords BY <1>1, <1>2, <1>3, <1>4
<1> QED BY <1>1, <1>3, <1>4, <1>5 DEF RoomKept

LEMMA RoomStep == FederationIInv /\ RoomKept(replay) /\ [FederationNext]_federationVars => RoomKept(replay')
<1> SUFFICES ASSUME FederationIInv, RoomKept(replay), [FederationNext]_federationVars
             PROVE  RoomKept(replay')
  OBVIOUS
<1>1. CASE UNCHANGED replay BY <1>1
<1>2. ASSUME NEW x \in Exchanges, ReceiveOffer(x) PROVE RoomKept(replay')
  <2> DEFINE o == exchange[x].offer
  <2>1. Kept(PrunedRecords) \subseteq Kept(replay) BY DEF Kept, PrunedRecords, NoRecord
  <2>2. RoomKept(PrunedRecords) BY <2>1, FewerAreKept
  <2>3. CASE replay' = PrunedRecords BY <2>2, <2>3
  <2>4. ASSUME Cardinality({p \in Offers : PrunedRecords[p].kept}) < MaxRecords,
               \E r : replay' = [PrunedRecords EXCEPT ![o] = r]
        PROVE  RoomKept(replay')
    <3>1. Kept(replay') \subseteq Kept(PrunedRecords) \cup {o}
      <4>1. \A p \in Offers \ {o} : replay'[p] = PrunedRecords[p] BY <2>4 DEF PrunedRecords
      <4> HIDE DEF o
      <4> QED BY <4>1 DEF Kept
    <3>2. Cardinality(Kept(PrunedRecords)) < MaxRecords BY <2>4 DEF Kept
    <3> HIDE DEF o
    <3> QED BY <2>2, <3>1, <3>2, OneMoreIsKept
  <2>5. \/ UNCHANGED replay \/ replay' = PrunedRecords
        \/ /\ Cardinality({p \in Offers : PrunedRecords[p].kept}) < MaxRecords
           /\ \E r : replay' = [PrunedRecords EXCEPT ![o] = r]
    <3>1. CASE fedTime - Skew > expiry[o] BY <1>2, <3>1 DEF ReceiveOffer
    <3>2. CASE ~(fedTime - Skew > expiry[o]) /\ PrunedRecords[o].kept BY <1>2, <3>2 DEF ReceiveOffer
    <3>3. CASE ~(fedTime - Skew > expiry[o]) /\ ~PrunedRecords[o].kept BY <1>2, <3>3 DEF ReceiveOffer
    <3> QED BY <3>1, <3>2, <3>3
  <2> HIDE DEF o
  <2> QED BY <1>1, <2>3, <2>4, <2>5
<1>3. ASSUME NEW x \in Exchanges, Complete(x) PROVE RoomKept(replay')
  <2>1. replay' = replay \/ \E r : replay' = [replay EXCEPT ![exchange[x].offer].receipt = r]
    BY <1>3 DEF Complete
  <2>2. replay \in [Offers -> ReplayRecords] BY DEF FederationIInv, FederationTypes
  <2>3. ASSUME NEW p \in Offers PROVE replay'[p].kept = replay[p].kept
    <3>1. replay[p] \in ReplayRecords BY <2>2
    <3>2. CASE replay' = replay BY <3>2
    <3>3. CASE \E r : replay' = [replay EXCEPT ![exchange[x].offer].receipt = r]
      <4>1. PICK r : replay' = [replay EXCEPT ![exchange[x].offer].receipt = r] BY <3>3
      <4>2. CASE p = exchange[x].offer
        <5>1. replay'[p] = [replay[p] EXCEPT !.receipt = r] BY <2>2, <4>1, <4>2
        <5> QED BY <3>1, <5>1 DEF ReplayRecords
      <4>3. CASE p # exchange[x].offer BY <2>2, <4>1, <4>3
      <4> QED BY <4>2, <4>3
    <3> QED BY <2>1, <3>2, <3>3
  <2>4. Kept(replay') \subseteq Kept(replay) BY <2>3 DEF Kept
  <2> QED BY <2>4, FewerAreKept
<1>4. ASSUME NEW o \in Offers, PrepareOutbound(o) PROVE UNCHANGED replay BY <1>4 DEF PrepareOutbound
<1>5. ASSUME NEW o \in Offers, NEW x \in Exchanges, SendOffer(x, o) PROVE UNCHANGED replay
  BY <1>5 DEF SendOffer
<1>6. ASSUME NEW x \in Exchanges,
             OfferInbound(x) \/ SignReceipt(x) \/ ApplyReceipt(x) \/ LoseExchange(x)
      PROVE  UNCHANGED replay
  <2>1. CASE OfferInbound(x) BY <2>1 DEF OfferInbound
  <2>2. CASE SignReceipt(x) BY <2>2 DEF SignReceipt
  <2>3. CASE ApplyReceipt(x) BY <2>3 DEF ApplyReceipt
  <2>4. CASE LoseExchange(x) BY <2>4 DEF LoseExchange
  <2> QED BY <1>6, <2>1, <2>2, <2>3, <2>4
<1>7. CASE FederationTick BY <1>1, <1>7 DEF FederationTick
<1>8. CASE UNCHANGED federationVars BY <1>1, <1>8 DEF federationVars
<1> QED BY <1>1, <1>2, <1>3, <1>4, <1>5, <1>6, <1>7, <1>8 DEF FederationNext

LEMMA TimeStep ==
  [FederationNext]_federationVars => UNCHANGED fedTime \/ FederationTick
<1> SUFFICES ASSUME [FederationNext]_federationVars PROVE UNCHANGED fedTime \/ FederationTick
  OBVIOUS
<1>1. ASSUME NEW o \in Offers, PrepareOutbound(o) PROVE UNCHANGED fedTime BY <1>1 DEF PrepareOutbound
<1>2. ASSUME NEW o \in Offers, NEW x \in Exchanges, SendOffer(x, o) PROVE UNCHANGED fedTime
  BY <1>2 DEF SendOffer
<1>3. ASSUME NEW x \in Exchanges, ReceiveOffer(x) PROVE UNCHANGED fedTime BY <1>3 DEF ReceiveOffer
<1>4. ASSUME NEW x \in Exchanges, OfferInbound(x) PROVE UNCHANGED fedTime BY <1>4 DEF OfferInbound
<1>5. ASSUME NEW x \in Exchanges, SignReceipt(x) PROVE UNCHANGED fedTime BY <1>5 DEF SignReceipt
<1>6. ASSUME NEW x \in Exchanges, Complete(x) PROVE UNCHANGED fedTime BY <1>6 DEF Complete
<1>7. ASSUME NEW x \in Exchanges, ApplyReceipt(x) PROVE UNCHANGED fedTime BY <1>7 DEF ApplyReceipt
<1>8. ASSUME NEW x \in Exchanges, LoseExchange(x) PROVE UNCHANGED fedTime BY <1>8 DEF LoseExchange
<1>9. CASE UNCHANGED federationVars BY <1>9 DEF federationVars
<1> QED BY <1>1, <1>2, <1>3, <1>4, <1>5, <1>6, <1>7, <1>8, <1>9 DEF FederationNext

\* Types, and the limit of the replay store: however many calls are verified at once, no more
\* records are kept than there is room for.
THEOREM RecordsStayBounded == FederationSpec => []FederationTypeOK
<1>1. FederationInit => RoomKept(replay) /\ fedTime \in 0..MaxFederationTime
  <2> SUFFICES ASSUME FederationInit PROVE RoomKept(replay) /\ fedTime \in 0..MaxFederationTime
    OBVIOUS
  <2>1. Kept(replay) = {} BY DEF FederationInit, Kept, NoRecord
  <2>2. Cardinality({}) = 0 /\ IsFiniteSet({}) BY FS_EmptySet
  <2> QED BY <2>1, <2>2, FederationAssumption DEF RoomKept, FederationInit
<1>2. fedTime \in 0..MaxFederationTime /\ [FederationNext]_federationVars
        => (fedTime \in 0..MaxFederationTime)'
  <2>1. fedTime \in 0..MaxFederationTime /\ FederationTick => (fedTime \in 0..MaxFederationTime)'
    BY FederationAssumption DEF FederationTick
  <2> QED BY <2>1, TimeStep
<1>3. FederationIInv /\ RoomKept(replay) /\ fedTime \in 0..MaxFederationTime => FederationTypeOK
  BY DEF FederationIInv, FederationTypes, FederationTypeOK, ReplayRecords, ExchangeRecords, RoomKept, Kept
<1>4. FederationIInv /\ RoomKept(replay) /\ [FederationNext]_federationVars => RoomKept(replay)'
  BY RoomStep
<1> QED BY <1>1, <1>2, <1>3, <1>4, FederationInitHolds, FederationKeeps, PTL DEF FederationSpec

-----------------------------------------------------------------------------
(* Invocation: what is bound to a candidate is bound to the candidate of   *)
(* the auxiliary Handoff, and a result is recorded over none.              *)

InvokeResults == [outcome : {"none"} \cup ResultOutcomes, candidate : Candidates \cup {NoCandidate}]
InvocationRecords ==
  [state : {"none", "requested", "offered", "waiting"} \cup ResultOutcomes,
   candidate : Candidates \cup {NoCandidate}, result : InvokeResults, token : Nat, until : Nat]
AuxiliaryRecords ==
  [state : {"none", "unresolved", "resolved", "ended"} \cup ResultOutcomes,
   candidate : Candidates \cup {NoCandidate}, endpoint : Candidates \cup {NoCandidate}]
InvokePcs ==
  {"idle", "create", "claim", "taken", "discover", "offer", "recordOffer", "look", "resolve",
   "recordWaiting", "wait", "finish", "caught", "fail"}
InvokeRecords ==
  [pc : InvokePcs, now : Nat, token : Nat,
   state : {"none", "requested", "offered", "waiting"} \cup ResultOutcomes,
   candidate : Candidates \cup {NoCandidate}, result : InvokeResults]

InvocationTypes ==
  /\ invokeTime \in Nat /\ invocation \in InvocationRecords /\ auxiliary \in AuxiliaryRecords
  /\ invoke \in [Invokes -> InvokeRecords]

AuxiliaryOK ==
  /\ auxiliary.state = "none" <=> auxiliary.candidate = NoCandidate
  /\ auxiliary.endpoint \in {NoCandidate, auxiliary.candidate}
  /\ auxiliary.state \in {"resolved"} \cup ResultOutcomes => auxiliary.endpoint = auxiliary.candidate

\* What a call knows of the candidate, and of the result.
Bound == {"recordOffer", "look", "resolve", "recordWaiting", "wait"}
InvokeOK(i) ==
  /\ i.state \notin ResultOutcomes
  /\ i.pc = "offer" => i.candidate \in Candidates
  /\ i.pc \in Bound => auxiliary.state # "none" /\ i.candidate = auxiliary.candidate
  /\ i.pc = "finish" =>
       /\ i.result.outcome \in ResultOutcomes
       /\ i.result.outcome = "succeeded" =>
            auxiliary.state = "succeeded" /\ i.result.candidate = auxiliary.candidate

InvocationIInv ==
  /\ InvocationTypes /\ AuxiliaryOK /\ OneAnswer
  /\ ~IsOver => \A a \in told : a.atTheDoor
  /\ \A k \in Invokes : InvokeOK(invoke[k])

LEMMA AtRestIsOK == AtRest \in InvokeRecords /\ InvokeOK(AtRest)
BY DEF AtRest, InvokeRecords, InvokePcs, InvokeOK, InvokeResults, NoResult, ResultOutcomes, Bound

LEMMA InvocationInitHolds == InvocationInit => InvocationIInv
BY AtRestIsOK
DEF InvocationInit, InvocationIInv, InvocationTypes, AuxiliaryOK, OneAnswer, IsOver, InvocationRecords,
    AuxiliaryRecords, InvokeResults, NoResult, ResultOutcomes

\* The record of a call changes, and nothing else that matters.
LEMMA CallMoves ==
  ASSUME InvocationIInv, NEW k \in Invokes, NEW i \in InvokeRecords, InvokeOK(i),
         invoke' = [invoke EXCEPT ![k] = i],
         UNCHANGED <<invokeTime, invocation, auxiliary, told>>
  PROVE  InvocationIInv'
<1>1. \A j \in InvokeRecords : InvokeOK(j)' <=> InvokeOK(j) BY DEF InvokeOK
<1>2. InvocationTypes' BY DEF InvocationIInv, InvocationTypes
<1>3. (AuxiliaryOK /\ OneAnswer)' BY DEF InvocationIInv, AuxiliaryOK, OneAnswer
<1>4. (~IsOver => \A a \in told : a.atTheDoor)' BY DEF InvocationIInv, IsOver
<1>5. \A j \in Invokes : InvokeOK(invoke[j])' 
  BY <1>1, <1>2 DEF InvocationIInv, InvocationTypes
<1> QED BY <1>2, <1>3, <1>4, <1>5 DEF InvocationIInv

\* A step of the auxiliary Handoff after its offer takes nothing back.
LEMMA AuxiliaryMoves ==
  ASSUME InvocationIInv, NEW a \in AuxiliaryRecords,
         \/ invoke' = invoke
         \/ \E k \in Invokes, i \in InvokeRecords : invoke' = [invoke EXCEPT ![k] = i] /\ InvokeOK(i)',
         auxiliary' = a, UNCHANGED <<invokeTime, invocation, told>>,
         auxiliary.state # "none" => a.candidate = auxiliary.candidate /\ a.state # "none",
         auxiliary.state = "succeeded" => a.state = "succeeded" /\ a.endpoint = auxiliary.endpoint,
         AuxiliaryOK'
  PROVE  InvocationIInv'
<1>1. \A j \in InvokeRecords : InvokeOK(j) => InvokeOK(j)'
  BY DEF InvokeOK, InvocationIInv, AuxiliaryOK, Bound, ResultOutcomes
<1>2. InvocationTypes' BY DEF InvocationIInv, InvocationTypes
<1>3. OneAnswer' BY DEF InvocationIInv, AuxiliaryOK, OneAnswer
<1>4. (~IsOver => \A b \in told : b.atTheDoor)' BY DEF InvocationIInv, IsOver
<1>5. \A j \in Invokes : InvokeOK(invoke[j])' 
  BY <1>1, <1>2 DEF InvocationIInv, InvocationTypes
<1> QED BY <1>2, <1>3, <1>4, <1>5 DEF InvocationIInv

\* A record that is not over changes: it stays so, bound to the candidate of the Handoff if to
\* any, or a result is recorded and answered.
LEMMA RecordMoves ==
  ASSUME InvocationIInv, NEW k \in Invokes, NEW i \in InvokeRecords, InvokeOK(i),
         NEW r \in InvocationRecords,
         invoke' = [invoke EXCEPT ![k] = i], invocation' = r, UNCHANGED <<invokeTime, auxiliary>>,
         ~IsOver, r.candidate \in {NoCandidate, auxiliary.candidate},
         IF r.state \in ResultOutcomes THEN \A a \in told' : a.atTheDoor \/ a.result = r.result
                                    ELSE told' = told,
         r.state = "succeeded" =>
           auxiliary.state = "succeeded" /\ r.result.candidate = auxiliary.candidate
  PROVE  InvocationIInv'
<1>1. \A j \in InvokeRecords : InvokeOK(j)' <=> InvokeOK(j) BY DEF InvokeOK
<1>2. InvocationTypes' BY DEF InvocationIInv, InvocationTypes
<1>3. AuxiliaryOK' BY DEF InvocationIInv, AuxiliaryOK
<1>4. OneAnswer' BY DEF InvocationIInv, AuxiliaryOK, OneAnswer, ResultOutcomes
<1>5. (~IsOver => \A a \in told : a.atTheDoor)' BY DEF InvocationIInv, IsOver
<1>6. \A j \in Invokes : InvokeOK(invoke[j])' 
  BY <1>1, <1>2 DEF InvocationIInv, InvocationTypes
<1> QED BY <1>2, <1>3, <1>4, <1>5, <1>6 DEF InvocationIInv

\* A call answers with what is on record.
LEMMA RecordIsAnswered ==
  ASSUME InvocationIInv, NEW k \in Invokes, IsOver, AnswerRecord(k),
         UNCHANGED <<invokeTime, invocation, auxiliary>>
  PROVE  InvocationIInv'
<1>1. invoke' = [invoke EXCEPT ![k] = AtRest] /\ told' = told \cup {Answer(invocation.result)}
  BY DEF AnswerRecord, Leave
<1>2. \A j \in InvokeRecords : InvokeOK(j)' <=> InvokeOK(j) BY DEF InvokeOK
<1>3. InvocationTypes' BY <1>1, AtRestIsOK DEF InvocationIInv, InvocationTypes
<1>4. (AuxiliaryOK /\ OneAnswer)' BY <1>1 DEF InvocationIInv, AuxiliaryOK, OneAnswer, Answer
<1>5. (~IsOver => \A a \in told : a.atTheDoor)' BY DEF InvocationIInv, IsOver
<1>6. \A j \in Invokes : InvokeOK(invoke[j])'
  BY <1>1, <1>2, <1>3, AtRestIsOK DEF InvocationIInv, InvocationTypes
<1> QED BY <1>3, <1>4, <1>5, <1>6 DEF InvocationIInv

\* A call goes on with the same knowledge.
LEMMA Proceeds ==
  ASSUME InvocationIInv, NEW k \in Invokes, NEW pc \in InvokePcs, Proceed(k, pc),
         UNCHANGED <<invokeTime, invocation, auxiliary, told>>,
         pc \notin {"offer", "finish"},
         pc \in Bound => auxiliary.state # "none" /\ invoke[k].candidate = auxiliary.candidate
  PROVE  InvocationIInv'
<1> PICK i : i = [invoke[k] EXCEPT !.pc = pc] OBVIOUS
<1>1. invoke[k] \in InvokeRecords /\ InvokeOK(invoke[k]) BY DEF InvocationIInv, InvocationTypes
<1>2. i \in InvokeRecords /\ i.pc = pc /\ i.candidate = invoke[k].candidate /\ i.state = invoke[k].state
  BY <1>1 DEF InvokeRecords
<1>3. InvokeOK(i) BY <1>1, <1>2 DEF InvokeOK
<1>4. invoke' = [invoke EXCEPT ![k] = i] BY DEF Proceed
<1> QED BY <1>2, <1>3, <1>4, CallMoves

\* A call is left.
LEMMA Leaves ==
  ASSUME InvocationIInv, NEW k \in Invokes, Leave(k), UNCHANGED <<invokeTime, invocation, auxiliary, told>>
  PROVE  InvocationIInv'
BY AtRestIsOK, CallMoves DEF Leave

LEMMA CallFields ==
  ASSUME NEW i \in InvokeRecords
  PROVE  /\ i.pc \in InvokePcs /\ i.now \in Nat /\ i.token \in Nat
         /\ i.state \in {"none", "requested", "offered", "waiting"} \cup ResultOutcomes
         /\ i.candidate \in Candidates \cup {NoCandidate} /\ i.result \in InvokeResults
BY DEF InvokeRecords

LEMMA RecordFields ==
  ASSUME NEW r \in InvocationRecords
  PROVE  /\ r.state \in {"none", "requested", "offered", "waiting"} \cup ResultOutcomes
         /\ r.candidate \in Candidates \cup {NoCandidate} /\ r.result \in InvokeResults
         /\ r.token \in Nat /\ r.until \in Nat
BY DEF InvocationRecords

\* A result is recorded and told.
LEMMA ResultIsRecorded ==
  ASSUME InvocationIInv, NEW k \in Invokes, NEW r \in InvokeResults, r.outcome \in ResultOutcomes,
         r.outcome = "succeeded" =>
            auxiliary.state = "succeeded" /\ r.candidate = auxiliary.candidate,
         MayTransition(k, invoke[k].state), invocation' = Recorded(r), told' = told \cup {Answer(r)}, Leave(k),
         UNCHANGED <<invokeTime, auxiliary>>
  PROVE  InvocationIInv'
<1> PICK s : s = Recorded(r) OBVIOUS
<1>1. InvokeOK(invoke[k]) /\ invocation \in InvocationRecords
  BY DEF InvocationIInv, InvocationTypes
<1>2. ~IsOver BY <1>1 DEF MayTransition, IsOver, InvokeOK
<1>3. s \in InvocationRecords /\ s.state = r.outcome /\ s.result = r /\ s.candidate = invocation.candidate
  BY <1>1 DEF Recorded, InvocationRecords
<1>4. \A a \in told' : a.atTheDoor \/ a.result = r BY <1>2 DEF InvocationIInv, Answer
<1>5. s.candidate \in {NoCandidate, auxiliary.candidate} BY <1>3 DEF InvocationIInv, OneAnswer
<1>6. invoke' = [invoke EXCEPT ![k] = AtRest] BY DEF Leave
<1> QED BY <1>2, <1>3, <1>4, <1>5, <1>6, AtRestIsOK, RecordMoves

LEMMA FailureIsAResult ==
  Failure \in InvokeResults /\ Failure.outcome = "failed"
BY DEF Failure, InvokeResults, ResultOutcomes

LEMMA HeldUntilIsATime == ASSUME NEW now \in Nat PROVE HeldUntil(now) \in Nat
BY InvocationAssumption DEF HeldUntil

LEMMA InvocationKeeps ==
  ASSUME InvocationIInv, [InvocationNext]_invocationVars PROVE InvocationIInv'
<1> USE DEF ResultOutcomes
<1>0. /\ invokeTime \in Nat /\ invocation \in InvocationRecords /\ auxiliary \in AuxiliaryRecords
      /\ invoke \in [Invokes -> InvokeRecords] /\ AuxiliaryOK /\ OneAnswer
      /\ \A k \in Invokes : invoke[k] \in InvokeRecords /\ InvokeOK(invoke[k])
  BY DEF InvocationIInv, InvocationTypes
<1>a. \A pc \in {"idle", "create", "claim", "taken", "caught", "fail"} : pc \in InvokePcs \ Bound
  BY DEF InvokePcs, Bound
<1>b. Bound \subseteq InvokePcs BY DEF InvokePcs, Bound
<1>1. ASSUME NEW k \in Invokes, StartInvoke(k) PROVE InvocationIInv'
  <2>1. CASE told' = told \cup {TurnedAway} /\ UNCHANGED invoke
    BY <1>1, <2>1
       DEF StartInvoke, TurnedAway, InvocationIInv, InvocationTypes, AuxiliaryOK, OneAnswer, IsOver, InvokeOK
  <2>2. CASE invoke' = [invoke EXCEPT ![k].pc = "create", ![k].now = invokeTime] /\ UNCHANGED told
    <3> PICK i : i = [invoke[k] EXCEPT !.pc = "create", !.now = invokeTime] OBVIOUS
    <3>1. i \in InvokeRecords /\ InvokeOK(i)
      BY <1>0, <1>a DEF InvokeRecords, InvokeOK
    <3>2. invoke' = [invoke EXCEPT ![k] = i] BY <1>0, <2>2 DEF InvokeRecords
    <3>3. UNCHANGED <<invokeTime, invocation, auxiliary, told>> BY <1>1, <2>2 DEF StartInvoke
    <3> QED BY <3>1, <3>2, <3>3, CallMoves
  <2> QED BY <1>1, <2>1, <2>2 DEF StartInvoke
<1>2. ASSUME NEW k \in Invokes, CreateInvocation(k) PROVE InvocationIInv'
  <2>1. CASE IsOver BY <1>2, <2>1, RecordIsAnswered DEF CreateInvocation
  <2>2. CASE ~IsOver
    <3> PICK r : r = IF invocation.state = "none" THEN [invocation EXCEPT !.state = "requested"] ELSE invocation
      OBVIOUS
    <3> PICK i : i = [invoke[k] EXCEPT !.pc = "claim"] OBVIOUS
    <3>1. i \in InvokeRecords /\ InvokeOK(i) BY <1>0, <1>a DEF InvokeRecords, InvokeOK
    <3>2. invocation' = r /\ invoke' = [invoke EXCEPT ![k] = i] /\ UNCHANGED <<invokeTime, auxiliary, told>>
      BY <1>2, <2>2 DEF CreateInvocation, Proceed
    <3>3. r \in InvocationRecords /\ r.state \notin ResultOutcomes /\ r.candidate = invocation.candidate
      BY <1>0, <2>2 DEF InvocationRecords, IsOver
    <3>4. r.candidate \in {NoCandidate, auxiliary.candidate} BY <1>0, <3>3 DEF OneAnswer
    <3> QED BY <2>2, <3>1, <3>2, <3>3, <3>4, RecordMoves
  <2> QED BY <2>1, <2>2
<1>3. ASSUME NEW k \in Invokes, ClaimInvocation(k) PROVE InvocationIInv'
  <2>1. CASE ~IsOver /\ invocation.until <= invoke[k].now
    <3> PICK r : r = [invocation EXCEPT !.token = invocation.token + 1, !.until = HeldUntil(invoke[k].now)]
      OBVIOUS
    <3> PICK pc : pc = IF invocation.candidate = NoCandidate THEN "discover"
                       ELSE IF invocation.state = "offered" THEN "look" ELSE "wait" OBVIOUS
    <3> PICK i : i = [invoke[k] EXCEPT !.pc = pc, !.token = invocation.token + 1, !.state = invocation.state,
                                       !.candidate = invocation.candidate] OBVIOUS
    <3>1. invocation.token + 1 \in Nat /\ HeldUntil(invoke[k].now) \in Nat
      BY <1>0, HeldUntilIsATime, RecordFields, CallFields
    <3>2. r \in InvocationRecords /\ r.state = invocation.state /\ r.candidate = invocation.candidate
      BY <1>0, <3>1 DEF InvocationRecords
    <3>3. pc \in {"discover", "look", "wait"} /\ (pc # "discover" => invocation.candidate # NoCandidate)
      OBVIOUS
    <3>4. i \in InvokeRecords /\ i.pc = pc /\ i.state = invocation.state /\ i.candidate = invocation.candidate
      <4>1. pc \in InvokePcs BY <3>3 DEF InvokePcs
      <4> QED BY <1>0, <3>1, <4>1, RecordFields DEF InvokeRecords
    <3>5. InvokeOK(i)
      BY <1>0, <2>1, <3>3, <3>4 DEF InvokeOK, Bound, IsOver, OneAnswer, AuxiliaryOK
    <3>6. invocation' = r /\ invoke' = [invoke EXCEPT ![k] = i] /\ UNCHANGED <<invokeTime, auxiliary, told>>
      <4>1. /\ invocation' = r
            /\ invoke' = [invoke EXCEPT ![k].pc = pc, ![k].token = invocation.token + 1,
                                        ![k].state = invocation.state, ![k].candidate = invocation.candidate]
            /\ UNCHANGED <<invokeTime, auxiliary, told>>
        BY <1>3, <2>1 DEF ClaimInvocation
      <4> PICK n, t, c : n = invocation.token + 1 /\ t = invocation.state /\ c = invocation.candidate OBVIOUS
      <4>2. invoke' = [invoke EXCEPT ![k].pc = pc, ![k].token = n, ![k].state = t, ![k].candidate = c]
        BY <4>1
      <4>3. i = [invoke[k] EXCEPT !.pc = pc, !.token = n, !.state = t, !.candidate = c] OBVIOUS
      <4>4. invoke' = [invoke EXCEPT ![k] = i]
        <5>1. invoke \in [Invokes -> InvokeRecords] BY <1>0
        <5> HIDE DEF ResultOutcomes
        <5> QED BY <4>2, <4>3, <5>1 DEF InvokeRecords
      <4> QED BY <4>1, <4>4
    <3>7. r.candidate \in {NoCandidate, auxiliary.candidate} /\ r.state \notin ResultOutcomes
      BY <1>0, <2>1, <3>2 DEF IsOver, OneAnswer
    <3>8. r.state # "succeeded" BY <3>7
    <3>9. ~IsOver BY <2>1
    <3>10. IF r.state \in ResultOutcomes THEN \A a \in told' : a.atTheDoor \/ a.result = r.result
                                    ELSE told' = told BY <3>6, <3>7
    <3> QED BY <3>2, <3>4, <3>5, <3>6, <3>7, <3>8, <3>9, <3>10, RecordMoves
  <2>2. CASE ~(~IsOver /\ invocation.until <= invoke[k].now)
    BY <1>3, <2>2, <1>a, Proceeds DEF ClaimInvocation
  <2> QED BY <2>1, <2>2
<1>4. ASSUME NEW k \in Invokes, ReadTaken(k) PROVE InvocationIInv'
  BY <1>4, RecordIsAnswered, Leaves DEF ReadTaken
<1>5. ASSUME NEW k \in Invokes, DiscoverCandidate(k) PROVE InvocationIInv'
  <2>1. ASSUME NEW c \in Candidates, invoke' = [invoke EXCEPT ![k].pc = "offer", ![k].candidate = c]
        PROVE InvocationIInv'
    <3> PICK i : i = [invoke[k] EXCEPT !.pc = "offer", !.candidate = c] OBVIOUS
    <3>1. i \in InvokeRecords /\ InvokeOK(i)
      BY <1>0 DEF InvokeRecords, InvokePcs, InvokeOK, Bound
    <3>2. invoke' = [invoke EXCEPT ![k] = i] BY <1>0, <2>1 DEF InvokeRecords
    <3> QED BY <1>5, <3>1, <3>2, CallMoves DEF DiscoverCandidate
  <2>2. CASE invoke' = [invoke EXCEPT ![k].pc = "finish", ![k].result = Failure]
    <3> PICK i : i = [invoke[k] EXCEPT !.pc = "finish", !.result = Failure] OBVIOUS
    <3>1. i \in InvokeRecords /\ InvokeOK(i)
      BY <1>0, FailureIsAResult DEF InvokeRecords, InvokePcs, InvokeOK, Bound
    <3>2. invoke' = [invoke EXCEPT ![k] = i] BY <1>0, <2>2 DEF InvokeRecords
    <3> QED BY <1>5, <3>1, <3>2, CallMoves DEF DiscoverCandidate
  <2>3. CASE Proceed(k, "caught") BY <1>5, <2>3, <1>a, Proceeds DEF DiscoverCandidate
  <2> QED BY <1>5, <2>1, <2>2, <2>3 DEF DiscoverCandidate
<1>6. ASSUME NEW k \in Invokes, Offer(k) PROVE InvocationIInv'
  <2> PICK c : c = invoke[k].candidate OBVIOUS
  <2> PICK pc : pc = IF IsAccepted(k) THEN "recordOffer" ELSE "caught" OBVIOUS
  <2> PICK i : i = [invoke[k] EXCEPT !.pc = pc] OBVIOUS
  <2>1. c \in Candidates /\ i \in InvokeRecords /\ i.pc = pc /\ i.candidate = c /\ i.state \notin ResultOutcomes
    BY <1>0, <1>6 DEF Offer, InvokeRecords, InvokePcs, InvokeOK
  <2>2. invoke' = [invoke EXCEPT ![k] = i] /\ UNCHANGED <<invokeTime, invocation, told>>
    BY <1>6 DEF Offer, Proceed
  <2>3. CASE auxiliary.state = "none"
    <3> PICK a : a = [auxiliary EXCEPT !.state = "unresolved", !.candidate = c] OBVIOUS
    <3>1. a \in AuxiliaryRecords /\ a.state = "unresolved" /\ a.candidate = c /\ a.endpoint = auxiliary.endpoint
      BY <1>0, <2>1 DEF AuxiliaryRecords
    <3>2. auxiliary' = a BY <1>6, <2>3 DEF Offer
    <3>3. a.endpoint = NoCandidate BY <1>0, <2>3, <3>1 DEF AuxiliaryOK
    <3>4. AuxiliaryOK' BY <2>1, <3>1, <3>2, <3>3, InvocationAssumption DEF AuxiliaryOK
    <3>5. InvokeOK(i)'
      BY <2>1, <3>1, <3>2 DEF InvokeOK, Bound
    <3> QED BY <2>1, <2>2, <2>3, <3>1, <3>2, <3>4, <3>5, AuxiliaryMoves
  <2>4. CASE auxiliary.state # "none"
    <3>1. InvokeOK(i)
      BY <1>0, <2>1, <2>4 DEF InvokeOK, Bound, IsAccepted
    <3> QED BY <1>6, <2>1, <2>2, <2>4, <3>1, CallMoves DEF Offer
  <2> QED BY <2>3, <2>4
<1>7. ASSUME NEW k \in Invokes, RecordOffer(k) PROVE InvocationIInv'
  <2> PICK i : i = [invoke[k] EXCEPT !.pc = "resolve", !.state = "offered"] OBVIOUS
  <2>1. i \in InvokeRecords /\ i.pc = "resolve" /\ i.candidate = invoke[k].candidate /\ i.state = "offered"
    BY <1>0 DEF InvokeRecords, InvokePcs
  <2>2. invoke[k].candidate = auxiliary.candidate /\ InvokeOK(i)
    BY <1>0, <1>7, <2>1 DEF RecordOffer, InvokeOK, Bound
  <2>3. invoke' = [invoke EXCEPT ![k] = i] /\ UNCHANGED <<invokeTime, auxiliary, told>>
    BY <1>0, <1>7 DEF RecordOffer, InvokeRecords
  <2>4. CASE MayTransition(k, invoke[k].state)
    <3> PICK r : r = [invocation EXCEPT !.state = "offered", !.candidate = invoke[k].candidate] OBVIOUS
    <3>1. r \in InvocationRecords /\ r.state = "offered" /\ r.candidate = auxiliary.candidate
      BY <1>0, <2>2, CallFields DEF InvocationRecords
    <3>2. ~IsOver BY <1>0, <2>4 DEF MayTransition, IsOver, InvokeOK
    <3>3. invocation' = r BY <1>7, <2>4 DEF RecordOffer
    <3> QED BY <2>1, <2>2, <2>3, <3>1, <3>2, <3>3, RecordMoves
  <2>5. CASE ~MayTransition(k, invoke[k].state)
    BY <1>7, <2>1, <2>2, <2>3, <2>5, CallMoves DEF RecordOffer
  <2> QED BY <2>4, <2>5
<1>8. ASSUME NEW k \in Invokes, LookAtOffer(k) PROVE InvocationIInv'
  BY <1>0, <1>8, <1>b, Proceeds DEF LookAtOffer, InvokeOK, Bound
<1>9. ASSUME NEW k \in Invokes, Resolve(k) PROVE InvocationIInv'
  <2> PICK a : a = IF auxiliary.state = "unresolved"
                   THEN [auxiliary EXCEPT !.state = "resolved", !.endpoint = invoke[k].candidate]
                   ELSE auxiliary OBVIOUS
  <2> PICK i : i = [invoke[k] EXCEPT !.pc = "recordWaiting"] OBVIOUS
  <2>1. invoke[k].candidate = auxiliary.candidate /\ auxiliary.state # "none"
    BY <1>0, <1>9 DEF Resolve, InvokeOK, Bound
  <2>2. a \in AuxiliaryRecords /\ a.candidate = auxiliary.candidate /\ a.state # "none"
    BY <1>0, <2>1, CallFields DEF AuxiliaryRecords
  <2>3. auxiliary.state = "succeeded" => a = auxiliary OBVIOUS
  <2>4. i \in InvokeRecords /\ i.pc = "recordWaiting" /\ i.candidate = auxiliary.candidate
        /\ i.state = invoke[k].state
    BY <1>0, <2>1 DEF InvokeRecords, InvokePcs
  <2>5. auxiliary' = a /\ invoke' = [invoke EXCEPT ![k] = i] /\ UNCHANGED <<invokeTime, invocation, told>>
    BY <1>9 DEF Resolve, Proceed
  <2>6. AuxiliaryOK'
    <3>1. CASE auxiliary.state = "unresolved"
      <4>1. a.state = "resolved" /\ a.endpoint = auxiliary.candidate
        BY <1>0, <2>1, <3>1 DEF AuxiliaryRecords
      <4> QED BY <1>0, <2>2, <2>5, <3>1, <4>1 DEF AuxiliaryOK
    <3>2. CASE auxiliary.state # "unresolved" BY <1>0, <2>5, <3>2 DEF AuxiliaryOK
    <3> QED BY <3>1, <3>2
  <2>7. InvokeOK(i)' BY <1>0, <2>2, <2>4, <2>5 DEF InvokeOK, Bound
  <2> QED BY <2>2, <2>3, <2>4, <2>5, <2>6, <2>7, AuxiliaryMoves
<1>10. ASSUME NEW k \in Invokes, RecordWaiting(k) PROVE InvocationIInv'
  <2> PICK i : i = [invoke[k] EXCEPT !.pc = "wait", !.state = "waiting"] OBVIOUS
  <2>1. i \in InvokeRecords /\ i.pc = "wait" /\ i.candidate = invoke[k].candidate /\ i.state = "waiting"
    BY <1>0 DEF InvokeRecords, InvokePcs
  <2>2. InvokeOK(i) BY <1>0, <1>10, <2>1 DEF RecordWaiting, InvokeOK, Bound
  <2>3. invoke' = [invoke EXCEPT ![k] = i] /\ UNCHANGED <<invokeTime, auxiliary, told>>
    BY <1>0, <1>10 DEF RecordWaiting, InvokeRecords
  <2>4. CASE MayTransition(k, invoke[k].state)
    <3> PICK r : r = [invocation EXCEPT !.state = "waiting"] OBVIOUS
    <3>1. r \in InvocationRecords /\ r.state = "waiting" /\ r.candidate = invocation.candidate
      BY <1>0 DEF InvocationRecords
    <3>2. ~IsOver BY <1>0, <2>4 DEF MayTransition, IsOver, InvokeOK
    <3>3. invocation' = r BY <1>10, <2>4 DEF RecordWaiting
    <3> QED BY <1>0, <2>1, <2>2, <2>3, <3>1, <3>2, <3>3, RecordMoves DEF OneAnswer
  <2>5. CASE ~MayTransition(k, invoke[k].state)
    BY <1>10, <2>1, <2>2, <2>3, <2>5, CallMoves DEF RecordWaiting
  <2> QED BY <2>4, <2>5
<1>11. ASSUME NEW k \in Invokes, Poll(k) PROVE InvocationIInv'
  <2>1. ASSUME NEW r \in InvokeResults, r.outcome \in ResultOutcomes,
               r.outcome = "succeeded" => auxiliary.state = "succeeded" /\ r.candidate = auxiliary.candidate,
               invoke' = [invoke EXCEPT ![k].pc = "finish", ![k].result = r]
        PROVE InvocationIInv'
    <3> PICK i : i = [invoke[k] EXCEPT !.pc = "finish", !.result = r] OBVIOUS
    <3>1. i \in InvokeRecords /\ i.pc = "finish" /\ i.result = r /\ i.state = invoke[k].state
      BY <1>0 DEF InvokeRecords, InvokePcs
    <3>2. InvokeOK(i) BY <1>0, <2>1, <3>1 DEF InvokeOK, Bound
    <3>3. invoke' = [invoke EXCEPT ![k] = i] BY <1>0, <2>1 DEF InvokeRecords
    <3> QED BY <1>11, <3>1, <3>2, <3>3, CallMoves DEF Poll
  <2>2. invoke[k].candidate = auxiliary.candidate
    BY <1>0, <1>11 DEF Poll, InvokeOK, Bound
  <2>3. CASE invoke' = [invoke EXCEPT ![k].pc = "finish", ![k].result = Failure]
    BY <2>1, <2>3, FailureIsAResult
  <2>4. CASE /\ auxiliary.state = "rejected"
             /\ invoke' = [invoke EXCEPT ![k].pc = "finish",
                                         ![k].result = [outcome |-> "rejected", candidate |-> NoCandidate]]
    <3>1. [outcome |-> "rejected", candidate |-> NoCandidate] \in InvokeResults BY DEF InvokeResults
    <3> QED BY <2>1, <2>4, <3>1
  <2>5. CASE /\ auxiliary.state = "succeeded"
             /\ invoke' = [invoke EXCEPT ![k].pc = "finish",
                             ![k].result = [outcome |-> "succeeded", candidate |-> invoke[k].candidate]]
    <3>1. [outcome |-> "succeeded", candidate |-> invoke[k].candidate] \in InvokeResults
      BY <1>0, CallFields DEF InvokeResults
    <3> QED BY <2>1, <2>2, <2>5, <3>1
  <2>6. CASE Proceed(k, "caught") BY <1>11, <2>6, <1>a, Proceeds DEF Poll
  <2> QED BY <1>11, <2>3, <2>4, <2>5, <2>6 DEF Poll
<1>12. ASSUME NEW k \in Invokes, AbortWait(k) PROVE InvocationIInv'
  <2> PICK i : i = [invoke[k] EXCEPT !.pc = "finish", !.result = Failure] OBVIOUS
  <2>1. i \in InvokeRecords /\ InvokeOK(i)
    BY <1>0, FailureIsAResult DEF InvokeRecords, InvokePcs, InvokeOK, Bound
  <2>2. invoke' = [invoke EXCEPT ![k] = i] BY <1>0, <1>12 DEF AbortWait, InvokeRecords
  <2> QED BY <1>12, <2>1, <2>2, CallMoves DEF AbortWait
<1>13. ASSUME NEW k \in Invokes, Finish(k) PROVE InvocationIInv'
  <2>1. CASE MayTransition(k, invoke[k].state)
    <3>1. invoke[k].result \in InvokeResults /\ invoke[k].pc = "finish" /\ InvokeOK(invoke[k])
      BY <1>0, <1>13, CallFields DEF Finish
    <3> QED BY <1>13, <2>1, <3>1, ResultIsRecorded DEF Finish, InvokeOK
  <2>2. CASE ~MayTransition(k, invoke[k].state) BY <1>13, <2>2, <1>a, Proceeds DEF Finish
  <2> QED BY <2>1, <2>2
<1>14. ASSUME NEW k \in Invokes, ReadCaught(k) PROVE InvocationIInv'
  <2>1. CASE IsOver BY <1>14, <2>1, RecordIsAnswered DEF ReadCaught
  <2>2. CASE ~IsOver
    <3> PICK i : i = [invoke[k] EXCEPT !.pc = "fail", !.state = invocation.state] OBVIOUS
    <3>1. i \in InvokeRecords /\ i.pc = "fail" /\ i.state = invocation.state
      BY <1>0, <1>a, RecordFields DEF InvokeRecords
    <3>2. InvokeOK(i) BY <2>2, <3>1 DEF InvokeOK, Bound, IsOver
    <3>3. invoke' = [invoke EXCEPT ![k] = i] BY <1>0, <1>14, <2>2 DEF ReadCaught, InvokeRecords
    <3> QED BY <1>14, <2>2, <3>1, <3>2, <3>3, CallMoves DEF ReadCaught
  <2> QED BY <2>1, <2>2
<1>15. ASSUME NEW k \in Invokes, FinishFailed(k) PROVE InvocationIInv'
  <2>1. CASE MayTransition(k, invoke[k].state)
    BY <1>15, <2>1, FailureIsAResult, ResultIsRecorded DEF FinishFailed
  <2>2. CASE ~MayTransition(k, invoke[k].state) BY <1>15, <2>2, Leaves DEF FinishFailed
  <2> QED BY <2>1, <2>2
<1>16. ASSUME NEW k \in Invokes, InvokeThrows(k) PROVE InvocationIInv'
  BY <1>16, <1>a, Proceeds DEF InvokeThrows
<1>17. ASSUME NEW k \in Invokes, InvokeCrashes(k) PROVE InvocationIInv'
  BY <1>17, Leaves DEF InvokeCrashes
<1>18. CASE ProviderReturns
  <2> PICK o \in ResultOutcomes : auxiliary' = [auxiliary EXCEPT !.state = o] BY <1>18 DEF ProviderReturns
  <2> PICK a : a = [auxiliary EXCEPT !.state = o] OBVIOUS
  <2>1. a \in AuxiliaryRecords /\ a.state = o /\ a.candidate = auxiliary.candidate
        /\ a.endpoint = auxiliary.endpoint
    BY <1>0 DEF AuxiliaryRecords
  <2>2. AuxiliaryOK' BY <1>0, <1>18, <2>1 DEF AuxiliaryOK, ProviderReturns
  <2> QED BY <1>18, <2>1, <2>2, AuxiliaryMoves DEF ProviderReturns
<1>19. CASE AuxiliaryEnds
  <2> PICK a : a = [auxiliary EXCEPT !.state = "ended"] OBVIOUS
  <2>1. a \in AuxiliaryRecords /\ a.state = "ended" /\ a.candidate = auxiliary.candidate
        /\ a.endpoint = auxiliary.endpoint
    BY <1>0 DEF AuxiliaryRecords
  <2>2. AuxiliaryOK' BY <1>0, <1>19, <2>1 DEF AuxiliaryOK, AuxiliaryEnds
  <2> QED BY <1>19, <2>1, <2>2, AuxiliaryMoves DEF AuxiliaryEnds
<1>20. CASE InvokeTick
  BY <1>20 DEF InvokeTick, InvocationIInv, InvocationTypes, AuxiliaryOK, OneAnswer, IsOver, InvokeOK
<1>21. CASE UNCHANGED invocationVars
  BY <1>21
  DEF invocationVars, InvocationIInv, InvocationTypes, AuxiliaryOK, OneAnswer, IsOver, InvokeOK
<1> QED
  BY <1>1, <1>2, <1>3, <1>4, <1>5, <1>6, <1>7, <1>8, <1>9, <1>10, <1>11, <1>12, <1>13, <1>14, <1>15,
     <1>16, <1>17, <1>18, <1>19, <1>20, <1>21 DEF InvocationNext

\* All calls that are let in answer alike and as the record says, and a success is what the
\* provider returned that the Handoff was offered to, whoever held the record when.
THEOREM AnswersAreOne == InvocationSpec => []OneAnswer
<1>1. InvocationIInv => OneAnswer BY DEF InvocationIInv
<1> QED BY <1>1, InvocationInitHolds, InvocationKeeps, PTL DEF InvocationSpec

-----------------------------------------------------------------------------
(* Discovery: withdrawn records stay gone.  Whatever of a capability is on *)
(* its way is in the order in which the exporter signed it, except for     *)
(* what has ended before the revisions started again.  Nothing is said of  *)
(* what a store had no room for, nor of what the peer has applied after    *)
(* its end once the revisions have started again.                          *)

Kinds == {"none", "record", "tombstone"}
Entries == [revision : Nat, kind : Kinds, issued : Nat, until : Nat, sequence : Nat]
PageItems == [name : Capabilities, value : Entries, place : Nat]
RefreshRecords ==
  [scheduled : BOOLEAN, running : BOOLEAN, dirty : BOOLEAN, at : Nat,
   offered : SUBSET Capabilities, left : SUBSET Capabilities, current : [Capabilities -> Entries]]
PullRecords ==
  [pc : {"idle", "building", "answered"}, after : Nat, items : SUBSET PageItems, next : Nat]

DiscoveryTypes ==
  /\ clock \in Nat /\ sequence \in Nat /\ cursor \in Nat /\ refresh \in RefreshRecords
  /\ origin \in [Capabilities -> Entries] /\ peer \in [Capabilities -> Entries]
  /\ gone \in [Capabilities -> Entries] /\ pull \in [Pulls -> PullRecords]
  /\ \A p \in Pulls : IsFiniteSet(pull[p].items)
  /\ offered \subseteq Capabilities /\ announced \in [Capabilities -> Nat] /\ repeated \subseteq Capabilities
  /\ peerSequence \in Nat /\ late \subseteq Capabilities /\ evicted \subseteq Capabilities

\* What was signed for c and is still about: in a store, or in an answer.
IsAbout(c, x) ==
  \/ x = origin[c] \/ x = peer[c]
  \/ \E p \in Pulls : \E i \in pull[p].items : i.name = c /\ i.value = x

\* An entry made at time t or earlier.
WellMade(x, t) ==
  /\ x.kind = "none" => x.revision = 0 /\ x.until = 0
  /\ x.kind = "record" => x.until = x.issued + RecordSeconds
  /\ x.kind = "tombstone" => x.until = x.issued + RetainSeconds
  /\ x.issued <= t

IsRecord(x) == x.kind = "record"

\* The origin holds what supersedes a live record.
Superseded(x, o) == IsHeld(o) /\ x.revision <= o.revision /\ x.issued <= o.issued

\* Of two records the one signed first has the smaller revision, or ended before the other.
InOrder(x, y, t) ==
  t <= x.until /\ x.issued < y.issued => x.revision < y.revision \/ x.until <= y.issued

\* A live record is not from before withdrawal g, or e keeps it out until it has ended.
KeptOut(x, g, e, t) ==
  x.until > t =>
    \/ x.issued >= g.issued \/ x.revision > g.revision
    \/ IsHeld(e) /\ x.revision <= e.revision /\ x.until <= e.until

\* The record that a refresh r may sign for c.
NextOf(r, c) ==
  [revision |-> r.current[c].revision + 1, kind |-> "record", issued |-> r.at,
   until |-> r.at + RecordSeconds, sequence |-> 0]

\* What a refresh r that has yet to come to c knows of an entry x, if the origin holds o.
KnownTo(r, c, x, o, t) ==
  /\ IsRecord(x) => x.issued <= r.at
  /\ IsRecord(x) /\ x.until > r.at /\ x.until >= t =>
       x.revision <= r.current[c].revision \/ (o.kind = "tombstone" /\ Superseded(x, o))
  /\ x.kind = "tombstone" /\ o.kind = "tombstone" => x.issued <= r.at

RefreshOK(c) ==
  refresh.running /\ c \in refresh.left =>
    /\ refresh.at <= clock /\ origin[c].issued <= refresh.at
    /\ \A x : IsAbout(c, x) => KnownTo(refresh, c, x, origin[c], clock)
    /\ KnownTo(refresh, c, gone[c], origin[c], clock)
    /\ (c \in late => announced[c] <= refresh.current[c].revision) =>
         KeptOut(NextOf(refresh, c), gone[c], peer[c], clock)

\* The revisions of c have not started again: a later one was not signed before.
FirstLife(c) ==
  \A x, y : IsAbout(c, x) /\ IsAbout(c, y) /\ IsRecord(x) /\ IsRecord(y) =>
    x.revision <= announced[c] /\ (x.revision < y.revision => x.issued <= y.issued)

EntriesOK(c) ==
  /\ \A x : IsAbout(c, x) =>
       /\ WellMade(x, clock)
       /\ IsRecord(x) => KeptOut(x, gone[c], peer[c], clock)
       /\ IsRecord(x) /\ x.until > clock => Superseded(x, origin[c])
  /\ \A x, y : IsAbout(c, x) /\ IsAbout(c, y) /\ IsRecord(x) /\ IsRecord(y) => InOrder(x, y, clock)
  /\ WellMade(gone[c], clock) /\ gone[c].kind # "record"
  /\ c \notin repeated => FirstLife(c)

StaysGone(c) ==
  IsLive(peer[c]) => peer[c].issued >= gone[c].issued \/ peer[c].revision > gone[c].revision

IsSound(c) == c \notin evicted /\ (c \in late => c \notin repeated)

DiscoveryOK(c) == IsSound(c) => EntriesOK(c) /\ RefreshOK(c) /\ StaysGone(c)

DiscoveryIInv == DiscoveryTypes /\ \A c \in Capabilities : DiscoveryOK(c)

-----------------------------------------------------------------------------
LEMMA Lives == RecordSeconds \in Nat /\ RetainSeconds \in Nat /\ RecordSeconds < RetainSeconds
BY DiscoveryAssumption

LEMMA AboutTyped ==
  ASSUME DiscoveryTypes, NEW c \in Capabilities, NEW x, IsAbout(c, x)
  PROVE  x \in Entries
BY DEF DiscoveryTypes, IsAbout, PullRecords, PageItems

LEMMA Made ==
  /\ Nothing \in Entries /\ NoPull \in PullRecords /\ NoPull.items = {} /\ NoPull.pc = "idle"
  /\ Nothing.revision = 0 /\ Nothing.kind = "none" /\ Nothing.issued = 0 /\ Nothing.until = 0
BY DEF Nothing, NoPull, Entries, PullRecords, Kinds

\* The order of entries and what keeps them out hold the longer, the later it is.
LEMMA Later ==
  ASSUME NEW t \in Nat, NEW u \in Nat, t <= u, NEW x \in Entries, NEW y \in Entries,
         NEW g \in Entries, NEW e \in Entries
  PROVE  /\ WellMade(x, t) => WellMade(x, u)
         /\ InOrder(x, y, t) => InOrder(x, y, u)
         /\ KeptOut(x, g, e, t) => KeptOut(x, g, e, u)
BY DEF WellMade, InOrder, KeptOut, Entries

\* A step that neither makes nor applies anything of c.
LEMMA NothingHappens ==
  ASSUME DiscoveryIInv, DiscoveryTypes', NEW c \in Capabilities,
         clock <= clock', origin'[c] = origin[c], peer'[c] = peer[c], gone'[c] = gone[c],
         \A x : IsAbout(c, x)' => IsAbout(c, x),
         refresh'.running /\ c \in refresh'.left =>
           /\ refresh.running /\ c \in refresh.left
           /\ refresh'.at = refresh.at /\ refresh'.current[c] = refresh.current[c],
         evicted \subseteq evicted', repeated \subseteq repeated', c \in late' <=> c \in late,
         announced[c] <= announced'[c]
  PROVE  DiscoveryOK(c)'
<1> SUFFICES ASSUME IsSound(c)' PROVE (EntriesOK(c) /\ RefreshOK(c) /\ StaysGone(c))'
  BY DEF DiscoveryOK
<1>0. IsSound(c) BY DEF IsSound
<1> DEFINE t == clock
           u == clock'
           o == origin[c]
           e == peer[c]
           g == gone[c]
<1>1. t \in Nat /\ u \in Nat /\ t <= u BY DEF DiscoveryIInv, DiscoveryTypes
<1>2. o \in Entries /\ e \in Entries /\ g \in Entries BY DEF DiscoveryIInv, DiscoveryTypes
<1>3. EntriesOK(c) /\ RefreshOK(c) /\ StaysGone(c) BY <1>0 DEF DiscoveryIInv, DiscoveryOK
<1>4. \A x : IsAbout(c, x) => x \in Entries BY AboutTyped DEF DiscoveryIInv
<1>5. WellMade(g, u) /\ g.kind # "record"
  BY <1>1, <1>2, <1>3, Later DEF EntriesOK
<1>6. ASSUME NEW x, IsAbout(c, x)
      PROVE  /\ WellMade(x, u)
             /\ IsRecord(x) => KeptOut(x, g, e, u)
             /\ IsRecord(x) /\ x.until > u => Superseded(x, o)
  <2>1. x \in Entries /\ (x.until > u => x.until > t) BY <1>1, <1>4, <1>6 DEF Entries
  <2> QED BY <1>1, <1>2, <1>3, <1>6, <2>1, Later DEF EntriesOK
<1>7. ASSUME NEW x, NEW y, IsAbout(c, x), IsAbout(c, y), IsRecord(x), IsRecord(y)
      PROVE  InOrder(x, y, u)
  BY <1>1, <1>2, <1>3, <1>4, <1>7, Later DEF EntriesOK
<1>8. EntriesOK(c)'
  <2>1. ASSUME c \notin repeated' PROVE FirstLife(c)'
    <3>1. FirstLife(c) BY <1>3, <2>1 DEF EntriesOK
    <3>2. announced[c] \in Nat /\ announced'[c] \in Nat BY DEF DiscoveryIInv, DiscoveryTypes
    <3> QED BY <1>4, <3>1, <3>2 DEF FirstLife, Entries
  <2> QED BY <1>5, <1>6, <1>7, <2>1 DEF EntriesOK
<1>9. RefreshOK(c)'
  <2> SUFFICES ASSUME refresh'.running, c \in refresh'.left PROVE RefreshOK(c)'
    BY DEF RefreshOK
  <2> DEFINE n == NextOf(refresh, c)
  <2>1. NextOf(refresh', c) = n BY DEF NextOf
  <2>2. n \in Entries
    <3>1. refresh.current[c] \in Entries /\ refresh.at \in Nat
      BY DEF DiscoveryIInv, DiscoveryTypes, RefreshRecords
    <3>2. refresh.current[c].revision + 1 \in Nat /\ refresh.at + RecordSeconds \in Nat
      BY <3>1, Lives DEF Entries
    <3> QED BY <3>1, <3>2 DEF NextOf, Entries, Kinds
  <2>3. ASSUME c \in late' => announced'[c] <= refresh'.current[c].revision PROVE KeptOut(n, g, e, u)
    <3>1. refresh.current[c] \in Entries /\ announced[c] \in Nat /\ announced'[c] \in Nat
      BY DEF DiscoveryIInv, DiscoveryTypes, RefreshRecords
    <3>2. c \in late => announced[c] <= refresh.current[c].revision BY <2>3, <3>1 DEF Entries
    <3>3. KeptOut(n, g, e, t) BY <1>3, <3>2 DEF RefreshOK
    <3> QED BY <1>1, <1>2, <2>2, <3>3, Later
  <2>4. refresh.at \in Nat /\ refresh.at <= u /\ o.issued <= refresh.at
    BY <1>1, <1>3 DEF RefreshOK, DiscoveryIInv, DiscoveryTypes, RefreshRecords
  <2>5. ASSUME NEW x \in Entries, KnownTo(refresh, c, x, o, t) PROVE KnownTo(refresh', c, x, o, u)
    <3>1. x.until >= u => x.until >= t BY <1>1 DEF Entries
    <3> QED BY <2>5, <3>1 DEF KnownTo
  <2>6. \A x : IsAbout(c, x) => KnownTo(refresh', c, x, o, u)
    BY <1>3, <1>4, <2>5 DEF RefreshOK
  <2>7. KnownTo(refresh', c, g, o, u) BY <1>2, <1>3, <2>5 DEF RefreshOK
  <2> QED BY <2>1, <2>3, <2>4, <2>6, <2>7 DEF RefreshOK
<1>10. StaysGone(c)'
  <2>1. e.until > u => e.until > t BY <1>1, <1>2 DEF Entries
  <2> QED BY <1>3, <2>1 DEF StaysGone, IsLive
<1> QED BY <1>8, <1>9, <1>10

\* The page of a call is given up, or loses entries.
LEMMA ShorterPages ==
  ASSUME DiscoveryTypes, NEW p \in Pulls, NEW q \in PullRecords, q.items \subseteq pull[p].items,
         pull' = [pull EXCEPT ![p] = q], NEW c \in Capabilities, origin'[c] = origin[c],
         peer'[c] = peer[c]
  PROVE  \A x : IsAbout(c, x)' => IsAbout(c, x)
BY DEF DiscoveryTypes, IsAbout

\* The stores and the pages stay, and so does c for a refresh that has not come to it.
LEMMA NothingToPages ==
  ASSUME DiscoveryIInv, DiscoveryTypes', clock <= clock',
         UNCHANGED <<origin, peer, pull, history>>,
         \A c \in Capabilities : refresh'.running /\ c \in refresh'.left =>
           /\ refresh.running /\ c \in refresh.left
           /\ refresh'.at = refresh.at /\ refresh'.current[c] = refresh.current[c]
  PROVE  DiscoveryIInv'
<1>1. \A c, x : IsAbout(c, x)' => IsAbout(c, x) BY DEF IsAbout
<1>2. \A c \in Capabilities : announced[c] <= announced'[c]
  BY DEF DiscoveryIInv, DiscoveryTypes, history
<1>3. \A c \in Capabilities : DiscoveryOK(c)'
  BY <1>1, <1>2, NothingHappens DEF history
<1> QED BY <1>3 DEF DiscoveryIInv

LEMMA DiscoveryStart == DiscoveryInit => DiscoveryIInv
<1> SUFFICES ASSUME DiscoveryInit PROVE DiscoveryIInv OBVIOUS
<1>1. DiscoveryTypes BY Made, FS_EmptySet DEF DiscoveryInit, DiscoveryTypes, RefreshRecords
<1>2. ASSUME NEW c \in Capabilities, NEW x, IsAbout(c, x) PROVE x = Nothing
  BY <1>2, Made DEF DiscoveryInit, IsAbout
<1>3. ASSUME NEW c \in Capabilities PROVE EntriesOK(c) /\ RefreshOK(c) /\ StaysGone(c)
  <2>1. WellMade(Nothing, 0) /\ ~IsRecord(Nothing) BY Made DEF WellMade, IsRecord
  <2>2. EntriesOK(c) BY <1>2, <2>1, Made DEF DiscoveryInit, EntriesOK, FirstLife, IsRecord
  <2>3. RefreshOK(c) BY DEF DiscoveryInit, RefreshOK
  <2>4. StaysGone(c) BY Made DEF DiscoveryInit, StaysGone, IsLive
  <2> QED BY <2>2, <2>3, <2>4
<1> QED BY <1>1, <1>3 DEF DiscoveryIInv, DiscoveryOK

-----------------------------------------------------------------------------
(* The directory and the exporter. *)

LEMMA RefreshTyped ==
  ASSUME DiscoveryTypes
  PROVE  /\ Requested(refresh) \in RefreshRecords
         /\ Requested(refresh).running = refresh.running /\ Requested(refresh).left = refresh.left
         /\ Requested(refresh).at = refresh.at /\ Requested(refresh).current = refresh.current
BY DEF DiscoveryTypes, RefreshRecords, Requested

LEMMA ChangeDirectoryStep ==
  ASSUME DiscoveryIInv, NEW c \in Capabilities, ChangeDirectory(c) PROVE DiscoveryIInv'
<1>1. DiscoveryTypes' /\ clock <= clock'
  BY RefreshTyped DEF DiscoveryIInv, DiscoveryTypes, ChangeDirectory, history
<1> QED BY <1>1, NothingToPages, RefreshTyped DEF ChangeDirectory, history, DiscoveryIInv

LEMMA RequestRefreshStep == ASSUME DiscoveryIInv, RequestRefresh PROVE DiscoveryIInv'
<1>1. DiscoveryTypes' /\ clock <= clock'
  BY RefreshTyped DEF DiscoveryIInv, DiscoveryTypes, RequestRefresh, history
<1> QED BY <1>1, NothingToPages, RefreshTyped DEF RequestRefresh, history, DiscoveryIInv

LEMMA ChangePolicyStep ==
  ASSUME DiscoveryIInv, NEW c \in Capabilities, ChangePolicy(c) PROVE DiscoveryIInv'
<1>1. DiscoveryTypes' /\ clock <= clock'
  BY DEF DiscoveryIInv, DiscoveryTypes, ChangePolicy, history
<1> QED BY <1>1, NothingToPages DEF ChangePolicy, history

LEMMA DiscoveryTickStep == ASSUME DiscoveryIInv, DiscoveryTick PROVE DiscoveryIInv'
<1>1. DiscoveryTypes' /\ clock <= clock'
  BY DEF DiscoveryIInv, DiscoveryTypes, DiscoveryTick, history
<1> QED BY <1>1, NothingToPages DEF DiscoveryTick, history

LEMMA FailRefreshStep == ASSUME DiscoveryIInv, FailRefresh PROVE DiscoveryIInv'
<1>1. refresh' \in RefreshRecords /\ refresh'.left = {}
  BY DEF DiscoveryIInv, DiscoveryTypes, RefreshRecords, FailRefresh
<1>2. DiscoveryTypes' /\ clock <= clock'
  BY <1>1 DEF DiscoveryIInv, DiscoveryTypes, FailRefresh, history
<1> QED BY <1>1, <1>2, NothingToPages DEF FailRefresh, history

LEMMA EndRefreshStep == ASSUME DiscoveryIInv, EndRefresh PROVE DiscoveryIInv'
<1>1. refresh' \in RefreshRecords /\ ~refresh'.running
  BY DEF DiscoveryIInv, DiscoveryTypes, RefreshRecords, EndRefresh
<1>2. DiscoveryTypes' /\ clock <= clock'
  BY <1>1 DEF DiscoveryIInv, DiscoveryTypes, EndRefresh, history
<1> QED BY <1>1, <1>2, NothingToPages DEF EndRefresh, history

\* A refresh begins now: what is live is in the store, or is superseded by a tombstone.
LEMMA StartRefreshStep == ASSUME DiscoveryIInv, StartRefresh PROVE DiscoveryIInv'
<1> DEFINE r == refresh'
           current == [c \in Capabilities |-> IF IsLive(origin[c]) THEN origin[c] ELSE Nothing]
<1>1. current \in [Capabilities -> Entries]
  BY Made DEF DiscoveryIInv, DiscoveryTypes
<1>2. r \in RefreshRecords /\ r.at = clock /\ r.current = current
  <2>1. refresh \in RefreshRecords /\ clock \in Nat /\ offered \in SUBSET Capabilities
    BY DEF DiscoveryIInv, DiscoveryTypes
  <2> HIDE DEF current
  <2>2. r = [refresh EXCEPT !.scheduled = FALSE, !.running = TRUE, !.at = clock,
                            !.offered = offered, !.left = Capabilities, !.current = current]
    BY DEF StartRefresh, current
  <2> QED BY <1>1, <2>1, <2>2 DEF RefreshRecords
<1>3. DiscoveryTypes' BY <1>2 DEF DiscoveryIInv, DiscoveryTypes, StartRefresh, history
<1>4. UNCHANGED <<clock, origin, peer, gone, pull, announced, repeated, late, evicted>>
  BY DEF StartRefresh, history
<1>5. ASSUME NEW c \in Capabilities, IsSound(c) PROVE (EntriesOK(c) /\ RefreshOK(c) /\ StaysGone(c))'
  <2> DEFINE o == origin[c]
             g == gone[c]
  <2>1. EntriesOK(c) /\ StaysGone(c) BY <1>5 DEF DiscoveryIInv, DiscoveryOK
  <2>2. \A x : IsAbout(c, x)' <=> IsAbout(c, x) BY <1>4 DEF IsAbout
  <2>3. EntriesOK(c)' BY <1>4, <2>1, <2>2 DEF EntriesOK, FirstLife
  <2>4. StaysGone(c)' BY <1>4, <2>1 DEF StaysGone, IsLive
  <2>5. clock \in Nat /\ o \in Entries /\ g \in Entries BY DEF DiscoveryIInv, DiscoveryTypes
  <2>6. g.issued <= clock /\ g.kind # "record" BY <2>1 DEF EntriesOK, WellMade
  <2>7. IsAbout(c, o) /\ o.issued <= clock BY <2>1 DEF IsAbout, EntriesOK, WellMade
  <2>8. ASSUME NEW x, IsAbout(c, x) PROVE KnownTo(r, c, x, o, clock)
    <3>1. x \in Entries BY <2>8, AboutTyped DEF DiscoveryIInv
    <3>2. x.issued <= clock /\ WellMade(x, clock) BY <2>1, <2>8 DEF EntriesOK, WellMade
    <3>3. ASSUME IsRecord(x), x.until > clock
          PROVE  x.revision <= r.current[c].revision \/ (o.kind = "tombstone" /\ Superseded(x, o))
      <4>1. Superseded(x, o) BY <2>1, <2>8, <3>3 DEF EntriesOK
      <4>2. o.kind \in {"record", "tombstone"} BY <2>5, <4>1 DEF Superseded, IsHeld, Entries, Kinds
      <4>3. CASE o.kind = "record"
        <5>1. WellMade(o, clock) BY <2>1, <2>7 DEF EntriesOK
        <5>2. o.until > clock
          BY <2>5, <3>1, <3>2, <3>3, <4>1, <4>3, <5>1, Lives DEF WellMade, IsRecord, Superseded, Entries
        <5>3. r.current[c] = o BY <1>2, <4>3, <5>2 DEF IsLive
        <5> QED BY <4>1, <5>3 DEF Superseded
      <4> QED BY <4>1, <4>2, <4>3
    <3> QED BY <1>2, <1>4, <3>2, <3>3 DEF KnownTo
  <2>9. KnownTo(r, c, g, o, clock) BY <1>2, <1>4, <2>6 DEF KnownTo, IsRecord
  <2>10. KeptOut(NextOf(r, c), g, peer[c], clock)
    BY <1>2, <2>5, <2>6 DEF KeptOut, NextOf, Entries
  <2>11. RefreshOK(c)'
    BY <1>2, <1>4, <2>2, <2>5, <2>7, <2>8, <2>9, <2>10 DEF RefreshOK
  <2> QED BY <2>3, <2>4, <2>11
<1>6. \A c \in Capabilities : DiscoveryOK(c)' BY <1>4, <1>5 DEF DiscoveryOK, IsSound
<1> QED BY <1>3, <1>6 DEF DiscoveryIInv

\* What an export of c signs.
Signed(r, c) ==
  IF c \in r.offered
  THEN [NewRecord(r.current[c].revision + 1) EXCEPT !.issued = r.at, !.until = r.at + RecordSeconds]
  ELSE [NewTombstone(r.current[c].revision + 1) EXCEPT !.issued = r.at, !.until = r.at + RetainSeconds]

LEMMA SignedTyped ==
  ASSUME DiscoveryTypes, NEW c \in Capabilities
  PROVE  /\ Signed(refresh, c) \in Entries
         /\ Signed(refresh, c).revision = refresh.current[c].revision + 1
         /\ Signed(refresh, c).issued = refresh.at
         /\ WellMade(Signed(refresh, c), refresh.at)
         /\ Signed(refresh, c).kind # "none"
<1> DEFINE k == refresh.current[c].revision + 1
           at == refresh.at
<1>1. refresh.current[c] \in Entries /\ at \in Nat /\ clock \in Nat
  BY DEF DiscoveryTypes, RefreshRecords
<1>2. /\ k \in Nat /\ at + RecordSeconds \in Nat /\ at + RetainSeconds \in Nat /\ at <= at
      /\ clock + RecordSeconds \in Nat /\ clock + RetainSeconds \in Nat
  BY <1>1, Lives DEF Entries
<1>3. Signed(refresh, c) =
        IF c \in refresh.offered
        THEN [NewRecord(k) EXCEPT !.issued = at, !.until = at + RecordSeconds]
        ELSE [NewTombstone(k) EXCEPT !.issued = at, !.until = at + RetainSeconds]
  BY DEF Signed
<1> HIDE DEF k, at
<1>4. /\ NewRecord(k) \in Entries /\ NewRecord(k).revision = k /\ NewRecord(k).kind = "record"
      /\ NewTombstone(k) \in Entries /\ NewTombstone(k).revision = k
      /\ NewTombstone(k).kind = "tombstone"
  BY <1>1, <1>2 DEF NewRecord, NewTombstone, Entries, Kinds
<1>5. CASE c \in refresh.offered
  <2>1. PICK v : v = [NewRecord(k) EXCEPT !.issued = at, !.until = at + RecordSeconds] OBVIOUS
  <2>2. /\ v \in Entries /\ v.revision = k /\ v.issued = at /\ v.kind = "record"
        /\ v.until = at + RecordSeconds
    BY <1>1, <1>2, <1>4, <2>1 DEF Entries
  <2>3. WellMade(v, at) BY <1>2, <2>2 DEF WellMade
  <2> QED BY <1>3, <1>5, <2>1, <2>2, <2>3 DEF k, at
<1>6. CASE c \notin refresh.offered
  <2>1. PICK v : v = [NewTombstone(k) EXCEPT !.issued = at, !.until = at + RetainSeconds] OBVIOUS
  <2>2. /\ v \in Entries /\ v.revision = k /\ v.issued = at /\ v.kind = "tombstone"
        /\ v.until = at + RetainSeconds
    BY <1>1, <1>2, <1>4, <2>1 DEF Entries
  <2>3. WellMade(v, at) BY <1>2, <2>2 DEF WellMade
  <2> QED BY <1>3, <1>6, <2>1, <2>2, <2>3 DEF k, at
<1> QED BY <1>5, <1>6

\* What a store holds after an apply.
LEMMA StoreKeeps ==
  ASSUME NEW store \in [Capabilities -> Entries], NEW c \in Capabilities, NEW value \in Entries,
         NEW place \in Nat
  PROVE  LET placed == Placed(store, c, value, place) IN
         /\ Enforced(placed) \in [Capabilities -> Entries]
         /\ \A d \in Capabilities :
              /\ placed[d] = IF d = c THEN [value EXCEPT !.sequence = place] ELSE store[d]
              /\ Enforced(placed)[d] \in {placed[d], Nothing}
              /\ d \notin Dropped(placed) => Enforced(placed)[d] = placed[d]
<1>1. [value EXCEPT !.sequence = place] \in Entries BY DEF Entries
<1>2. PICK placed : placed = Placed(store, c, value, place) OBVIOUS
<1>3. placed \in [Capabilities -> Entries]
      /\ \A d \in Capabilities :
           placed[d] = IF d = c THEN [value EXCEPT !.sequence = place] ELSE store[d]
  BY <1>1, <1>2 DEF Placed
<1> QED BY <1>2, <1>3, Made DEF Enforced

\* An export, as far as the stores and the refresh are concerned.
LEMMA Exports ==
  ASSUME DiscoveryIInv, NEW c \in Capabilities, Export(c)
  PROVE  LET v == Signed(refresh, c)
             placed == Placed(origin, c, v, sequence + 1)
         IN
         /\ DiscoveryTypes'
         /\ refresh.running /\ c \in refresh.left
         /\ refresh'.left \subseteq refresh.left \ {c} /\ refresh'.running = refresh.running
         /\ refresh'.at = refresh.at /\ refresh'.current = refresh.current
         /\ UNCHANGED <<clock, peer, gone, late, pull>>
         /\ \/ UNCHANGED <<origin, sequence, evicted>>
            \/ /\ ApplyResult(origin[c], v) = "applied"
               /\ sequence' = sequence + 1
               /\ origin' = Enforced(placed) /\ evicted' = evicted \cup Dropped(placed)
         /\ \/ UNCHANGED <<origin, sequence, announced, repeated>>
            \/ /\ announced' = [announced EXCEPT ![c] = IF v.revision > @ THEN v.revision ELSE @]
               /\ repeated' = IF v.revision > announced[c] THEN repeated ELSE repeated \cup {c}
               /\ ApplyResult(origin[c], v) = "applied" => sequence' = sequence + 1
<1> DEFINE previous == refresh.current[c]
           v == Signed(refresh, c)
           placed == Placed(origin, c, v, sequence + 1)
           fresh == IsHeld(previous) /\ previous.until > refresh.at + RenewAhead
           signs == IF c \in refresh.offered THEN ~fresh ELSE IsHeld(previous)
           fails == signs /\ ApplyResult(origin[c], v) = "conflict"
           value == IF c \in refresh.offered
                    THEN [NewRecord(previous.revision + 1) EXCEPT !.issued = refresh.at,
                                                                  !.until = refresh.at + RecordSeconds]
                    ELSE [NewTombstone(previous.revision + 1) EXCEPT !.issued = refresh.at,
                                                                  !.until = refresh.at + RetainSeconds]
<1>1. v = value BY DEF Signed
<1>2. /\ refresh.running /\ c \in refresh.left
      /\ refresh' = IF fails THEN [refresh EXCEPT !.left = {}] ELSE [refresh EXCEPT !.left = @ \ {c}]
      /\ IF signs
         THEN /\ announced' = [announced EXCEPT ![c] = IF v.revision > @ THEN v.revision ELSE @]
              /\ repeated' = IF v.revision > announced[c] THEN repeated ELSE repeated \cup {c}
              /\ IF ApplyResult(origin[c], v) = "applied"
                 THEN /\ sequence' = sequence + 1
                      /\ origin' = Enforced(placed) /\ evicted' = evicted \cup Dropped(placed)
                 ELSE UNCHANGED <<origin, sequence, evicted>>
         ELSE UNCHANGED <<origin, sequence, announced, repeated, evicted>>
      /\ UNCHANGED <<clock, offered, denied, changes, peer, peerSequence, cursor, pull, gone, late>>
  BY <1>1 DEF Export
<1> DEFINE rest == IF fails THEN {} ELSE refresh.left \ {c}
<1>3. refresh \in RefreshRecords /\ v \in Entries /\ sequence \in Nat
  BY SignedTyped DEF DiscoveryIInv, DiscoveryTypes
<1> HIDE DEF v, placed, signs, fails
<1>4. refresh' = [refresh EXCEPT !.left = rest] /\ rest \subseteq refresh.left \ {c} BY <1>2
<1>5. /\ refresh' \in RefreshRecords /\ refresh'.left = rest /\ refresh'.running = refresh.running
      /\ refresh'.at = refresh.at /\ refresh'.current = refresh.current
  BY <1>3, <1>4 DEF RefreshRecords
<1>6. /\ announced' \in [Capabilities -> Nat] /\ repeated' \subseteq Capabilities
  BY <1>2, <1>3 DEF DiscoveryIInv, DiscoveryTypes, Entries
<1>7. sequence' \in Nat /\ origin' \in [Capabilities -> Entries] /\ evicted' \subseteq Capabilities
  <2>1. sequence + 1 \in Nat /\ origin \in [Capabilities -> Entries] /\ evicted \subseteq Capabilities
    BY <1>3 DEF DiscoveryIInv, DiscoveryTypes
  <2>2. Enforced(placed) \in [Capabilities -> Entries] /\ Dropped(placed) \subseteq Capabilities
    BY <1>3, <2>1, StoreKeeps DEF placed, Dropped
  <2> QED BY <1>2, <1>3, <2>1, <2>2
<1>8. DiscoveryTypes' BY <1>2, <1>5, <1>6, <1>7 DEF DiscoveryIInv, DiscoveryTypes
<1> QED BY <1>2, <1>4, <1>5, <1>8 DEF v, placed

\* What is applied is newer than what was held.
LEMMA AppliedIsNewer ==
  ASSUME NEW e \in Entries, NEW x \in Entries, ApplyResult(e, x) = "applied", IsHeld(e)
  PROVE  e.revision < x.revision
BY DEF ApplyResult, Entries

\* What the origin applies follows everything that is about.
LEMMA AppliedStep ==
  ASSUME DiscoveryIInv, DiscoveryTypes', NEW c \in Capabilities, refresh.running, c \in refresh.left,
         c \notin refresh'.left, UNCHANGED <<clock, peer, gone, late, pull>>,
         ApplyResult(origin[c], Signed(refresh, c)) = "applied",
         origin'[c] = [Signed(refresh, c) EXCEPT !.sequence = sequence + 1],
         IsSound(c), IsSound(c)',
         announced[c] <= announced'[c], repeated \subseteq repeated',
         c \notin repeated' =>
           announced[c] < Signed(refresh, c).revision /\ announced'[c] = Signed(refresh, c).revision
  PROVE  (EntriesOK(c) /\ RefreshOK(c) /\ StaysGone(c))'
<1> DEFINE o == origin[c]
           e == peer[c]
           g == gone[c]
           v == Signed(refresh, c)
           n == [v EXCEPT !.sequence = sequence + 1]
           at == refresh.at
<1>1. DiscoveryTypes /\ EntriesOK(c) /\ RefreshOK(c) /\ StaysGone(c) BY DEF DiscoveryIInv, DiscoveryOK
<1>2. clock \in Nat /\ at \in Nat /\ o \in Entries /\ e \in Entries /\ g \in Entries /\ sequence \in Nat
  BY <1>1 DEF DiscoveryTypes, RefreshRecords
<1>3. /\ v \in Entries /\ v.revision = refresh.current[c].revision + 1 /\ v.issued = at
      /\ WellMade(v, at) /\ v.kind # "none"
  BY <1>1, SignedTyped
<1>4. at <= clock BY <1>1 DEF RefreshOK
<1> HIDE DEF v
<1>5. /\ n \in Entries /\ n.revision = v.revision /\ n.kind = v.kind /\ n.issued = at
      /\ n.until = v.until
  BY <1>2, <1>3 DEF Entries
<1>6. origin'[c] = n BY DEF v
<1> HIDE DEF n
<1>7. \A x : IsAbout(c, x)' => x = n \/ IsAbout(c, x) BY <1>6 DEF IsAbout
<1>8. WellMade(n, clock) BY <1>2, <1>3, <1>4, <1>5 DEF WellMade, Entries
<1>9. IsRecord(n) => KeptOut(n, g, e, clock)
  <2>1. refresh.current[c].revision \in Nat /\ announced[c] \in Nat
    BY <1>1 DEF DiscoveryTypes, RefreshRecords, Entries
  <2>2. c \in late => announced[c] <= refresh.current[c].revision
    BY <1>3, <2>1 DEF IsSound, v
  <2>3. KeptOut(NextOf(refresh, c), g, e, clock) BY <1>1, <2>2 DEF RefreshOK
  <2> QED BY <1>3, <1>5, <2>3 DEF KeptOut, IsRecord, NextOf, WellMade
<1>10. IsHeld(n) BY <1>3, <1>5 DEF IsHeld
<1>11. IsHeld(o) => o.revision < n.revision
  BY <1>2, <1>3, <1>5, AppliedIsNewer DEF v
<1>12. ASSUME NEW x, IsAbout(c, x), IsRecord(x)
       PROVE  x \in Entries /\ x.issued <= at /\ KnownTo(refresh, c, x, o, clock)
  <2>1. x \in Entries /\ KnownTo(refresh, c, x, o, clock) BY <1>1, <1>12, AboutTyped DEF RefreshOK
  <2> QED BY <1>12, <2>1 DEF KnownTo
<1>13. ASSUME NEW x, IsAbout(c, x), IsRecord(x), x.until > clock PROVE Superseded(x, n)
  <2>1. Superseded(x, o) BY <1>1, <1>13 DEF EntriesOK
  <2> QED BY <1>2, <1>5, <1>10, <1>11, <1>12, <1>13, <2>1 DEF Superseded, Entries
<1>14. ASSUME NEW x, IsAbout(c, x), IsRecord(x) PROVE InOrder(x, n, clock) /\ InOrder(n, x, clock)
  <2>1. x \in Entries /\ x.issued <= at /\ KnownTo(refresh, c, x, o, clock) BY <1>12, <1>14
  <2>2. InOrder(n, x, clock) BY <1>2, <1>5, <2>1 DEF InOrder, Entries
  <2>3. ASSUME clock <= x.until, x.until > at PROVE x.revision < n.revision
    <3>1. x.revision <= refresh.current[c].revision \/ (IsHeld(o) /\ x.revision <= o.revision)
      BY <1>2, <1>14, <2>1, <2>3 DEF KnownTo, Superseded, Entries
    <3>2. refresh.current[c].revision \in Nat BY <1>1 DEF DiscoveryTypes, RefreshRecords, Entries
    <3> QED BY <1>2, <1>3, <1>5, <1>11, <2>1, <3>1, <3>2 DEF Entries
  <2> QED BY <1>2, <1>5, <2>1, <2>2, <2>3 DEF InOrder, Entries
<1>15. InOrder(n, n, clock) BY <1>5 DEF InOrder, Entries
<1>16. EntriesOK(c)'
  <2>1. WellMade(g, clock) /\ g.kind # "record" BY <1>1 DEF EntriesOK
  <2>2. ASSUME NEW x, x = n \/ IsAbout(c, x)
        PROVE  /\ WellMade(x, clock)
               /\ IsRecord(x) => KeptOut(x, g, e, clock)
               /\ IsRecord(x) /\ x.until > clock => Superseded(x, n)
    <3>1. CASE x = n
      <4>1. Superseded(n, n) BY <1>5, <1>10 DEF Superseded, Entries
      <4> QED BY <1>8, <1>9, <3>1, <4>1
    <3>2. CASE IsAbout(c, x) BY <1>1, <1>13, <3>2 DEF EntriesOK
    <3> QED BY <2>2, <3>1, <3>2
  <2>3. ASSUME NEW x, NEW y, x = n \/ IsAbout(c, x), y = n \/ IsAbout(c, y), IsRecord(x), IsRecord(y)
        PROVE  InOrder(x, y, clock)
    BY <1>1, <1>14, <1>15, <2>3 DEF EntriesOK
  <2>4. ASSUME c \notin repeated' PROVE FirstLife(c)'
    <3>1. FirstLife(c) /\ announced[c] < n.revision /\ announced'[c] = n.revision
      BY <1>1, <1>5, <2>4 DEF EntriesOK, v
    <3>2. announced[c] \in Nat BY <1>1 DEF DiscoveryTypes
    <3>3. ASSUME NEW x, IsAbout(c, x), IsRecord(x)
          PROVE  /\ x.revision \in Nat /\ x.revision < n.revision /\ x.issued <= n.issued
                 /\ x.revision <= announced'[c]
      BY <1>5, <1>12, <3>1, <3>2, <3>3 DEF FirstLife, Entries
    <3>4. n.revision \in Nat /\ n.revision <= announced'[c] BY <1>5, <3>1 DEF Entries
    <3>5. ASSUME NEW x, NEW y, x = n \/ IsAbout(c, x), y = n \/ IsAbout(c, y), IsRecord(x), IsRecord(y)
          PROVE  x.revision <= announced'[c] /\ (x.revision < y.revision => x.issued <= y.issued)
      BY <3>1, <3>3, <3>4, <3>5 DEF FirstLife
    <3> QED BY <1>7, <3>5 DEF FirstLife
  <2> QED BY <1>6, <1>7, <2>1, <2>2, <2>3, <2>4 DEF EntriesOK
<1>17. RefreshOK(c)' BY DEF RefreshOK
<1>18. StaysGone(c)' BY <1>1 DEF StaysGone, IsLive
<1> QED BY <1>16, <1>17, <1>18

LEMMA ExportStep == ASSUME DiscoveryIInv, NEW c \in Capabilities, Export(c) PROVE DiscoveryIInv'
<1> DEFINE v == Signed(refresh, c)
           placed == Placed(origin, c, v, sequence + 1)
<1>1. /\ DiscoveryTypes'
      /\ refresh.running /\ c \in refresh.left
      /\ refresh'.left \subseteq refresh.left \ {c} /\ refresh'.running = refresh.running
      /\ refresh'.at = refresh.at /\ refresh'.current = refresh.current
      /\ UNCHANGED <<clock, peer, gone, late, pull>>
      /\ \/ UNCHANGED <<origin, sequence, evicted>>
         \/ /\ ApplyResult(origin[c], v) = "applied"
            /\ sequence' = sequence + 1
            /\ origin' = Enforced(placed) /\ evicted' = evicted \cup Dropped(placed)
      /\ \/ UNCHANGED <<origin, sequence, announced, repeated>>
         \/ /\ announced' = [announced EXCEPT ![c] = IF v.revision > @ THEN v.revision ELSE @]
            /\ repeated' = IF v.revision > announced[c] THEN repeated ELSE repeated \cup {c}
            /\ ApplyResult(origin[c], v) = "applied" => sequence' = sequence + 1
  BY Exports
<1>2. /\ clock \in Nat /\ clock <= clock' /\ sequence \in Nat /\ sequence + 1 \in Nat
      /\ origin \in [Capabilities -> Entries] /\ announced \in [Capabilities -> Nat]
      /\ v \in Entries
  BY <1>1, SignedTyped DEF DiscoveryIInv, DiscoveryTypes
<1>3. /\ Enforced(placed) \in [Capabilities -> Entries]
      /\ \A d \in Capabilities :
           /\ placed[d] = IF d = c THEN [v EXCEPT !.sequence = sequence + 1] ELSE origin[d]
           /\ Enforced(placed)[d] \in {placed[d], Nothing}
           /\ d \notin Dropped(placed) => Enforced(placed)[d] = placed[d]
  <2> HIDE DEF v, placed
  <2> QED BY <1>2, StoreKeeps DEF placed
<1> HIDE DEF v, placed
<1>4. /\ evicted \subseteq evicted' /\ repeated \subseteq repeated'
      /\ \A d \in Capabilities : announced[d] <= announced'[d]
  BY <1>1, <1>2 DEF Entries
<1>5. ASSUME NEW d \in Capabilities, origin'[d] = origin[d] PROVE DiscoveryOK(d)'
  <2>1. \A x : IsAbout(d, x)' => IsAbout(d, x) BY <1>1, <1>5 DEF IsAbout
  <2> QED BY <1>1, <1>2, <1>4, <1>5, <2>1, NothingHappens
<1>6. CASE UNCHANGED <<origin, sequence, evicted>>
  BY <1>1, <1>5, <1>6 DEF DiscoveryIInv
<1>7. CASE /\ ApplyResult(origin[c], v) = "applied" /\ sequence' = sequence + 1
           /\ origin' = Enforced(placed) /\ evicted' = evicted \cup Dropped(placed)
  <2>1. \A d \in Capabilities : IsSound(d)' => IsSound(d) /\ origin'[d] = placed[d]
    BY <1>1, <1>3, <1>4, <1>7 DEF IsSound
  <2>2. ASSUME IsSound(c)' PROVE (EntriesOK(c) /\ RefreshOK(c) /\ StaysGone(c))'
    <3>1. c \notin repeated' => announced[c] < v.revision /\ announced'[c] = v.revision
      <4>1. sequence' # sequence BY <1>2, <1>7
      <4> QED BY <1>1, <1>2, <4>1 DEF Entries
    <3>2. origin'[c] = [v EXCEPT !.sequence = sequence + 1] /\ IsSound(c) BY <1>3, <2>1, <2>2
    <3>3. c \notin refresh'.left /\ announced[c] <= announced'[c] BY <1>1, <1>4
    <3> QED BY <1>1, <1>4, <1>7, <2>2, <3>1, <3>2, <3>3, AppliedStep DEF v
  <2>3. DiscoveryOK(c)' BY <2>2 DEF DiscoveryOK
  <2>4. ASSUME NEW d \in Capabilities, d # c PROVE DiscoveryOK(d)'
    <3>1. CASE IsSound(d)' BY <1>3, <1>5, <2>1, <2>4, <3>1
    <3>2. CASE ~IsSound(d)' BY <3>2 DEF DiscoveryOK
    <3> QED BY <3>1, <3>2
  <2> QED BY <1>1, <2>3, <2>4 DEF DiscoveryIInv
<1> QED BY <1>1, <1>6, <1>7

-----------------------------------------------------------------------------
(* The pages. *)

LEMMA PageFields ==
  ASSUME DiscoveryTypes, NEW p \in Pulls
  PROVE  /\ pull[p] \in PullRecords /\ pull[p].items \subseteq PageItems
         /\ \A c \in Capabilities : \A i \in pull[p].items : i.name = c => IsAbout(c, i.value)
BY DEF DiscoveryTypes, PullRecords, IsAbout

\* A call goes on with what is left of its page, or is over.
LEMMA PageShortens ==
  ASSUME DiscoveryIInv, NEW p \in Pulls, NEW q \in PullRecords, q.items \subseteq pull[p].items,
         pull' = [pull EXCEPT ![p] = q], cursor' \in Nat,
         UNCHANGED <<clock, offered, refresh, origin, peer, sequence, peerSequence, history>>
  PROVE  DiscoveryIInv'
<1>1. \A c \in Capabilities : \A x : IsAbout(c, x)' => IsAbout(c, x)
  BY ShorterPages DEF DiscoveryIInv
<1>2. DiscoveryTypes'
  <2>1. IsFiniteSet(q.items) BY FS_Subset DEF DiscoveryIInv, DiscoveryTypes
  <2> QED BY <2>1 DEF DiscoveryIInv, DiscoveryTypes, history
<1>3. clock <= clock' /\ \A c \in Capabilities : announced[c] <= announced'[c]
  BY DEF DiscoveryIInv, DiscoveryTypes, history
<1>4. \A c \in Capabilities : DiscoveryOK(c)'
  BY <1>1, <1>2, <1>3, NothingHappens DEF history
<1> QED BY <1>2, <1>4 DEF DiscoveryIInv

LEMMA SendPullStep == ASSUME DiscoveryIInv, NEW p \in Pulls, SendPull(p) PROVE DiscoveryIInv'
<1> DEFINE q == [NoPull EXCEPT !.pc = "building", !.after = cursor, !.next = cursor]
<1>1. q \in PullRecords /\ q.items = {}
  BY DEF DiscoveryIInv, DiscoveryTypes, NoPull, PullRecords
<1> QED BY <1>1, PageShortens DEF SendPull, DiscoveryIInv, DiscoveryTypes

LEMMA EndPageStep == ASSUME DiscoveryIInv, NEW p \in Pulls, EndPage(p) PROVE DiscoveryIInv'
<1> DEFINE q == [pull[p] EXCEPT !.pc = "answered"]
<1>1. q \in PullRecords /\ q.items = pull[p].items
  BY PageFields DEF DiscoveryIInv, PullRecords
<1> QED BY <1>1, PageShortens DEF EndPage, DiscoveryIInv, DiscoveryTypes

LEMMA EndPullStep == ASSUME DiscoveryIInv, NEW p \in Pulls, EndPull(p) PROVE DiscoveryIInv'
<1>1. cursor' \in Nat BY PageFields DEF EndPull, DiscoveryIInv, PullRecords
<1> QED BY <1>1, Made, PageShortens DEF EndPull

LEMMA LosePullStep == ASSUME DiscoveryIInv, NEW p \in Pulls, LosePull(p) PROVE DiscoveryIInv'
BY Made, PageShortens DEF LosePull, DiscoveryIInv, DiscoveryTypes

\* What is known of an entry is known of it with another place among the changes.
Alike(x, o) ==
  x.revision = o.revision /\ x.kind = o.kind /\ x.issued = o.issued /\ x.until = o.until

LEMMA PlaceIsNoMatter ==
  ASSUME NEW o \in Entries, NEW place \in Nat
  PROVE  LET x == [o EXCEPT !.sequence = place] IN x \in Entries /\ Alike(x, o)
BY DEF Entries, Alike

\* A page shows what the origin holds, or a withdrawal by the policy.
LEMMA ExportedIs ==
  ASSUME DiscoveryTypes, NEW c \in Capabilities, IsHeld(origin[c])
  PROVE  /\ Exported(c) \in Entries /\ IsHeld(Exported(c))
         /\ \/ /\ Exported(c).revision = origin[c].revision /\ Exported(c).kind = origin[c].kind
               /\ Exported(c).issued = origin[c].issued /\ Exported(c).until = origin[c].until
            \/ /\ IsRecord(origin[c]) /\ Exported(c).kind = "tombstone"
               /\ Exported(c).issued = clock /\ Exported(c).until = clock + RetainSeconds
               /\ Exported(c).revision = origin[c].revision + 1
<1>1. origin[c] \in Entries /\ clock \in Nat BY DEF DiscoveryTypes
<1>2. clock + RetainSeconds \in Nat /\ origin[c].revision + 1 \in Nat BY <1>1, Lives DEF Entries
<1>3. NewTombstone(origin[c].revision + 1) \in Entries
  BY <1>1, <1>2 DEF NewTombstone, Entries, Kinds
<1>4. CASE origin[c].kind = "record" /\ c \in denied
  <2>1. Exported(c) = NewTombstone(origin[c].revision + 1) BY <1>4 DEF Exported
  <2> QED BY <1>3, <1>4, <2>1 DEF NewTombstone, IsRecord, IsHeld
<1>5. CASE ~(origin[c].kind = "record" /\ c \in denied)
  <2>1. Exported(c) = [origin[c] EXCEPT !.sequence = 0] BY <1>5 DEF Exported
  <2> QED BY <1>1, <2>1, PlaceIsNoMatter DEF IsHeld, Alike
<1> QED BY <1>4, <1>5

LEMMA ShownStep ==
  ASSUME DiscoveryIInv, NEW c \in Capabilities, IsHeld(origin[c]), DiscoveryTypes',
         UNCHANGED <<clock, refresh, origin, peer, announced, repeated, gone, late, evicted>>,
         \A x : IsAbout(c, x)' => x = Exported(c) \/ IsAbout(c, x)
  PROVE  DiscoveryOK(c)'
<1> SUFFICES ASSUME IsSound(c) PROVE (EntriesOK(c) /\ RefreshOK(c) /\ StaysGone(c))'
  BY DEF DiscoveryOK, IsSound
<1> DEFINE o == origin[c]
           e == peer[c]
           g == gone[c]
           n == Exported(c)
<1>1. DiscoveryTypes /\ EntriesOK(c) /\ RefreshOK(c) /\ StaysGone(c) BY DEF DiscoveryIInv, DiscoveryOK
<1>2. clock \in Nat /\ o \in Entries /\ e \in Entries /\ g \in Entries BY <1>1 DEF DiscoveryTypes
<1>3. /\ n \in Entries
      /\ \/ n.revision = o.revision /\ n.kind = o.kind /\ n.issued = o.issued /\ n.until = o.until
         \/ /\ IsRecord(o) /\ n.kind = "tombstone" /\ n.issued = clock
            /\ n.until = clock + RetainSeconds
  BY <1>1, ExportedIs
<1> HIDE DEF n
<1>4. IsAbout(c, o) /\ (IsRecord(n) => IsRecord(o) /\ n.issued = o.issued /\ n.until = o.until
                                       /\ n.revision = o.revision)
  BY <1>3 DEF IsAbout, IsRecord
<1>5. WellMade(n, clock)
  <2>1. WellMade(o, clock) BY <1>1, <1>4 DEF EntriesOK
  <2> QED BY <1>2, <1>3, <2>1 DEF WellMade
<1>6. IsRecord(n) => KeptOut(n, g, e, clock) /\ (n.until > clock => Superseded(n, o))
  BY <1>1, <1>4 DEF EntriesOK, KeptOut, Superseded
<1>7. ASSUME NEW x, IsAbout(c, x), IsRecord(x), IsRecord(n)
      PROVE  InOrder(x, n, clock) /\ InOrder(n, x, clock)
  BY <1>1, <1>4, <1>7 DEF EntriesOK, InOrder
<1>8. IsRecord(n) => InOrder(n, n, clock) BY <1>3 DEF InOrder, Entries
<1>9. EntriesOK(c)'
  <2>1. WellMade(g, clock) /\ g.kind # "record" BY <1>1 DEF EntriesOK
  <2>2. ASSUME NEW x, x = n \/ IsAbout(c, x)
        PROVE  /\ WellMade(x, clock)
               /\ IsRecord(x) => KeptOut(x, g, e, clock)
               /\ IsRecord(x) /\ x.until > clock => Superseded(x, o)
    BY <1>1, <1>5, <1>6, <2>2 DEF EntriesOK
  <2>3. ASSUME NEW x, NEW y, x = n \/ IsAbout(c, x), y = n \/ IsAbout(c, y), IsRecord(x), IsRecord(y)
        PROVE  InOrder(x, y, clock)
    BY <1>1, <1>7, <1>8, <2>3 DEF EntriesOK
  <2>4. \A x : IsAbout(c, x)' => x = n \/ IsAbout(c, x) BY DEF n
  <2>5. ASSUME c \notin repeated PROVE FirstLife(c)'
    <3>1. FirstLife(c) BY <1>1, <2>5 DEF EntriesOK
    <3>2. ASSUME NEW x, x = n \/ IsAbout(c, x), IsRecord(x)
          PROVE  \E w : IsAbout(c, w) /\ IsRecord(w) /\ x.revision = w.revision /\ x.issued = w.issued
      BY <1>4, <3>2 DEF IsRecord
    <3> QED BY <2>4, <3>1, <3>2 DEF FirstLife
  <2> QED BY <2>1, <2>2, <2>3, <2>4, <2>5 DEF EntriesOK
<1>10. RefreshOK(c)'
  <2> SUFFICES ASSUME refresh.running, c \in refresh.left PROVE RefreshOK(c)'
    BY DEF RefreshOK
  <2>1. KnownTo(refresh, c, o, o, clock) BY <1>1, <1>4 DEF RefreshOK
  <2>2. KnownTo(refresh, c, n, o, clock)
    BY <1>2, <1>3, <2>1 DEF KnownTo, IsRecord, Superseded
  <2>3. \A x : IsAbout(c, x)' => x = n \/ IsAbout(c, x) BY DEF n
  <2> QED BY <1>1, <2>2, <2>3 DEF RefreshOK, NextOf
<1>11. StaysGone(c)' BY <1>1 DEF StaysGone, IsLive
<1> QED BY <1>9, <1>10, <1>11

LEMMA AddToPageStep == ASSUME DiscoveryIInv, NEW p \in Pulls, AddToPage(p) PROVE DiscoveryIInv'
<1> DEFINE item(c) ==
             [name |-> c, value |-> Exported(c), place |-> Cardinality(pull[p].items) + 1]
<1>1. PICK c \in NextChange(pull[p].next) :
        pull' = [pull EXCEPT ![p].items = @ \cup {item(c)}, ![p].next = PlaceAfter(c)]
  BY DEF AddToPage
<1>2. c \in Capabilities /\ IsHeld(origin[c]) BY DEF NextChange
<1>3. /\ DiscoveryTypes /\ pull[p] \in PullRecords /\ pull[p].items \subseteq PageItems
      /\ IsFiniteSet(pull[p].items)
  BY PageFields DEF DiscoveryIInv, DiscoveryTypes
<1>4. UNCHANGED <<clock, offered, refresh, origin, peer, sequence, peerSequence, cursor, history>>
  BY DEF AddToPage
<1>5. item(c) \in PageItems
  <2>1. Cardinality(pull[p].items) + 1 \in Nat BY <1>3, FS_CardinalityType
  <2> QED BY <1>2, <1>3, <2>1, ExportedIs DEF PageItems
<1>6. PlaceAfter(c) \in Nat BY <1>2, <1>3 DEF PlaceAfter, DiscoveryTypes, Entries
<1>7. PICK q : q = [pull[p] EXCEPT !.items = @ \cup {item(c)}, !.next = PlaceAfter(c)] OBVIOUS
<1>8. pull' = [pull EXCEPT ![p] = q] BY <1>1, <1>7
<1>9. item(c).name = c /\ item(c).value = Exported(c) OBVIOUS
<1> HIDE DEF item
<1>10. q \in PullRecords /\ q.items = pull[p].items \cup {item(c)}
  BY <1>3, <1>5, <1>6, <1>7 DEF PullRecords
<1>11. IsFiniteSet(q.items) BY <1>3, <1>10, FS_AddElement
<1>12. DiscoveryTypes' BY <1>3, <1>4, <1>8, <1>10, <1>11 DEF DiscoveryTypes, history
<1>13. ASSUME NEW d \in Capabilities, NEW x, IsAbout(d, x)'
       PROVE  IsAbout(d, x) \/ (d = c /\ x = Exported(c))
  <2>1. CASE x = origin'[d] \/ x = peer'[d] BY <1>4, <2>1 DEF IsAbout
  <2>2. CASE \E s \in Pulls : \E i \in pull'[s].items : i.name = d /\ i.value = x
    <3>1. PICK s \in Pulls : \E i \in pull'[s].items : i.name = d /\ i.value = x BY <2>2
    <3>2. PICK i \in pull'[s].items : i.name = d /\ i.value = x BY <3>1
    <3>3. i \in pull[s].items \/ i = item(c) BY <1>3, <1>8, <1>10, <3>2 DEF DiscoveryTypes
    <3> QED BY <1>9, <3>1, <3>2, <3>3 DEF IsAbout
  <2> QED BY <1>13, <2>1, <2>2 DEF IsAbout
<1>14. DiscoveryOK(c)' BY <1>2, <1>4, <1>12, <1>13, ShownStep DEF history
<1>15. ASSUME NEW d \in Capabilities, d # c PROVE DiscoveryOK(d)'
  <2>1. clock <= clock' /\ announced[d] <= announced'[d] BY <1>3, <1>4 DEF DiscoveryTypes, history
  <2> QED BY <1>4, <1>12, <1>13, <1>15, <2>1, NothingHappens DEF history
<1> QED BY <1>12, <1>14, <1>15 DEF DiscoveryIInv

-----------------------------------------------------------------------------
(* The peer. *)

\* What the peer applies replaces what it held, and keeps out whatever that kept out.
LEMMA AppliedByPeer ==
  ASSUME DiscoveryIInv, DiscoveryTypes', NEW c \in Capabilities, NEW y, IsAbout(c, y),
         UNCHANGED <<clock, refresh, origin, announced, repeated>>,
         ApplyResult(peer[c], y) = "applied", Alike(peer'[c], y),
         gone'[c] = IF y.kind = "tombstone" THEN y ELSE gone[c],
         IF clock > y.until THEN c \in late' ELSE c \in late' <=> c \in late,
         IsSound(c), IsSound(c)',
         \A x : IsAbout(c, x)' => \E w : IsAbout(c, w) /\ Alike(x, w)
  PROVE  (EntriesOK(c) /\ RefreshOK(c) /\ StaysGone(c))'
<1> DEFINE o == origin[c]
           e == peer[c]
           g == gone[c]
           h == gone'[c]
           n == NextOf(refresh, c)
           z == peer'[c]
<1>1. DiscoveryTypes /\ EntriesOK(c) /\ RefreshOK(c) /\ StaysGone(c) BY DEF DiscoveryIInv, DiscoveryOK
<1>2. clock \in Nat /\ o \in Entries /\ e \in Entries /\ g \in Entries /\ y \in Entries
  BY <1>1, AboutTyped DEF DiscoveryTypes
<1>3. WellMade(y, clock) /\ WellMade(g, clock) /\ g.kind # "record" BY <1>1 DEF EntriesOK
<1>4. WellMade(h, clock) /\ h.kind # "record" /\ h \in Entries BY <1>2, <1>3
<1>5. IsHeld(e) => e.revision < y.revision BY <1>2, AppliedIsNewer
<1>6. \A x : IsAbout(c, x) => x \in Entries BY <1>1, AboutTyped
\* The skew lets in only what is of the first life of c.
<1>7. ASSUME clock > y.until PROVE FirstLife(c) BY <1>1, <1>7 DEF IsSound, EntriesOK
\* A tombstone keeps out every record from before it.
<1>8. ASSUME y.kind = "tombstone", NEW x \in Entries, x.until = x.issued + RecordSeconds
      PROVE  KeptOut(x, h, y, clock)
  BY <1>2, <1>3, <1>8, Lives DEF KeptOut, WellMade, IsHeld, Entries
\* A record takes the place of what it supersedes.
<1>9. ASSUME IsRecord(y), NEW x, IsAbout(c, x), IsRecord(x) PROVE KeptOut(x, g, y, clock)
  <2> SUFFICES ASSUME x.until > clock, x.issued < g.issued, x.revision <= g.revision
               PROVE  IsHeld(y) /\ x.revision <= y.revision /\ x.until <= y.until
    BY <1>2, <1>6, <1>9 DEF KeptOut, Entries
  <2>1. x \in Entries /\ WellMade(x, clock) BY <1>1, <1>6, <1>9 DEF EntriesOK
  <2>2. IsHeld(e) /\ x.revision <= e.revision
    <3>1. KeptOut(x, g, e, clock) BY <1>1, <1>9 DEF EntriesOK
    <3> QED BY <1>2, <2>1, <3>1 DEF KeptOut, Entries
  <2>3. x.revision < y.revision BY <1>2, <1>5, <2>1, <2>2 DEF Entries
  <2>4. InOrder(y, x, clock) BY <1>1, <1>9 DEF EntriesOK
  <2>5. ~(y.issued < x.issued)
    <3> SUFFICES ASSUME y.issued < x.issued PROVE FALSE OBVIOUS
    <3>1. CASE clock > y.until
      <4>1. x.issued <= y.issued BY <1>9, <1>7, <2>3, <3>1 DEF FirstLife
      <4> QED BY <1>2, <2>1, <4>1 DEF Entries
    <3>2. CASE clock <= y.until
      <4>1. y.until <= x.issued BY <1>2, <2>1, <2>3, <2>4, <3>2 DEF InOrder, Entries
      <4>2. clock <= x.issued BY <1>2, <2>1, <3>2, <4>1 DEF Entries
      <4>3. g.issued <= clock BY <1>3 DEF WellMade
      <4> QED BY <1>2, <2>1, <4>2, <4>3 DEF Entries
    <3> QED BY <1>2, <3>1, <3>2 DEF Entries
  <2>6. x.until <= y.until
    BY <1>2, <1>3, <1>9, <2>1, <2>5, Lives DEF WellMade, IsRecord, Entries
  <2> QED BY <1>2, <1>9, <2>1, <2>3, <2>6 DEF IsHeld, IsRecord, Entries
\* What the peer does not hold keeps nothing out.
<1>10. ASSUME y.kind = "none", NEW x, KeptOut(x, g, e, clock) PROVE KeptOut(x, g, y, clock)
  <2>1. ~IsHeld(e) BY <1>2, <1>3, <1>5, <1>10 DEF WellMade, Entries
  <2> QED BY <1>10, <2>1 DEF KeptOut
<1>11. y.kind \in {"none", "record", "tombstone"} BY <1>2 DEF Entries, Kinds
<1>12. ASSUME NEW x, IsAbout(c, x), IsRecord(x) PROVE KeptOut(x, h, y, clock)
  <2>1. x \in Entries /\ x.until = x.issued + RecordSeconds /\ KeptOut(x, g, e, clock)
    BY <1>1, <1>6, <1>12 DEF EntriesOK, WellMade, IsRecord
  <2> QED BY <1>8, <1>9, <1>10, <1>11, <1>12, <2>1 DEF IsRecord
<1>13. EntriesOK(c)'
  <2>1. ASSUME NEW x, IsAbout(c, x)'
        PROVE  /\ WellMade(x, clock)
               /\ IsRecord(x) => KeptOut(x, h, z, clock)
               /\ IsRecord(x) /\ x.until > clock => Superseded(x, o)
    <3>1. PICK w : IsAbout(c, w) /\ Alike(x, w) BY <2>1
    <3>2. /\ WellMade(w, clock)
          /\ IsRecord(w) => KeptOut(w, h, y, clock)
          /\ IsRecord(w) /\ w.until > clock => Superseded(w, o)
      BY <1>1, <1>12, <3>1 DEF EntriesOK
    <3>3. IsRecord(x) <=> IsRecord(w) BY <3>1 DEF Alike, IsRecord
    <3>4. WellMade(x, clock) BY <3>1, <3>2 DEF Alike, WellMade
    <3>5. IsRecord(w) => KeptOut(x, h, z, clock) BY <3>1, <3>2 DEF Alike, KeptOut, IsHeld
    <3>6. IsRecord(w) /\ x.until > clock => Superseded(x, o) BY <3>1, <3>2 DEF Alike, Superseded
    <3> QED BY <3>3, <3>4, <3>5, <3>6
  <2>2. ASSUME NEW x, NEW x2, IsAbout(c, x)', IsAbout(c, x2)', IsRecord(x), IsRecord(x2)
        PROVE  InOrder(x, x2, clock)
    <3>1. PICK w : IsAbout(c, w) /\ Alike(x, w) BY <2>2
    <3>2. PICK w2 : IsAbout(c, w2) /\ Alike(x2, w2) BY <2>2
    <3>3. InOrder(w, w2, clock) BY <1>1, <2>2, <3>1, <3>2 DEF EntriesOK, Alike, IsRecord
    <3> QED BY <3>1, <3>2, <3>3 DEF Alike, InOrder
  <2>3. ASSUME c \notin repeated PROVE FirstLife(c)'
    <3> SUFFICES ASSUME NEW x, NEW x2, IsAbout(c, x)', IsAbout(c, x2)', IsRecord(x), IsRecord(x2)
                 PROVE  x.revision <= announced[c] /\ (x.revision < x2.revision => x.issued <= x2.issued)
      BY DEF FirstLife
    <3>1. PICK w : IsAbout(c, w) /\ Alike(x, w) OBVIOUS
    <3>2. PICK w2 : IsAbout(c, w2) /\ Alike(x2, w2) OBVIOUS
    <3>3. FirstLife(c) /\ IsRecord(w) /\ IsRecord(w2)
      BY <1>1, <2>3, <3>1, <3>2 DEF EntriesOK, Alike, IsRecord
    <3> QED BY <3>1, <3>2, <3>3 DEF FirstLife, Alike
  <2> QED BY <1>4, <2>1, <2>2, <2>3 DEF EntriesOK
<1>14. RefreshOK(c)'
  <2> SUFFICES ASSUME refresh.running, c \in refresh.left PROVE RefreshOK(c)'
    BY DEF RefreshOK
  <2>1. n \in Entries /\ n.until = n.issued + RecordSeconds /\ n.issued = refresh.at
        /\ n.revision = refresh.current[c].revision + 1
    <3>1. refresh.current[c] \in Entries /\ refresh.at \in Nat BY <1>1 DEF DiscoveryTypes, RefreshRecords
    <3>2. refresh.current[c].revision + 1 \in Nat /\ refresh.at + RecordSeconds \in Nat
      BY <3>1, Lives DEF Entries
    <3> QED BY <3>1, <3>2 DEF NextOf, Entries, Kinds
  <2>2. refresh.current[c].revision \in Nat /\ refresh.at \in Nat /\ refresh.at <= clock
    BY <1>1 DEF DiscoveryTypes, RefreshRecords, RefreshOK, Entries
  <2> DEFINE premise == c \in late' => announced[c] <= refresh.current[c].revision
  <2> HIDE DEF n
  <2>3. /\ premise => KeptOut(n, g, e, clock)
        /\ KnownTo(refresh, c, y, o, clock) /\ KnownTo(refresh, c, g, o, clock)
    BY <1>1 DEF RefreshOK, n
  <2>4. ASSUME premise, IsRecord(y) PROVE KeptOut(n, g, y, clock)
    <3> SUFFICES ASSUME n.until > clock, n.issued < g.issued, n.revision <= g.revision
                 PROVE  FALSE
      BY <1>2, <2>1 DEF KeptOut, Entries
    <3>1. IsHeld(e) /\ n.revision <= e.revision
      BY <1>2, <2>1, <2>3, <2>4 DEF KeptOut, Entries
    <3>2. n.revision < y.revision BY <1>2, <1>5, <2>1, <3>1 DEF Entries
    <3>3. clock <= y.until
      <4> SUFFICES ASSUME clock > y.until PROVE FALSE BY <1>2 DEF Entries
      <4>1. y.revision <= announced[c] /\ announced[c] <= refresh.current[c].revision
        BY <1>7, <2>4 DEF FirstLife
      <4>2. announced[c] \in Nat BY <1>1 DEF DiscoveryTypes
      <4> QED BY <1>2, <2>1, <2>2, <3>2, <4>1, <4>2 DEF Entries
    <3>4. refresh.at < clock /\ refresh.at < y.until
      BY <1>2, <1>3, <2>1, <2>2, <3>3 DEF WellMade, Entries
    <3>5. y.revision <= refresh.current[c].revision \/ o.kind = "tombstone"
      BY <1>2, <2>2, <2>3, <2>4, <3>4, <3>3 DEF KnownTo, Entries
    <3>6. o.kind = "tombstone" BY <1>2, <2>1, <2>2, <3>2, <3>5 DEF Entries
    <3>7. g.kind = "tombstone"
      BY <1>2, <1>3, <2>1, <2>2 DEF Entries, Kinds, WellMade
    <3>8. g.issued <= refresh.at BY <2>3, <3>6, <3>7 DEF KnownTo
    <3> QED BY <1>2, <2>1, <2>2, <3>8 DEF Entries
  <2>5. ASSUME premise PROVE KeptOut(n, h, z, clock)
    <3>1. KeptOut(n, h, y, clock)
      BY <1>8, <1>10, <1>11, <2>1, <2>3, <2>4, <2>5 DEF IsRecord
    <3> QED BY <3>1 DEF Alike, KeptOut, IsHeld
  <2>6. KnownTo(refresh, c, h, o, clock) BY <2>3
  <2>7. ASSUME NEW x, IsAbout(c, x)' PROVE KnownTo(refresh, c, x, o, clock)
    <3>1. PICK w : IsAbout(c, w) /\ Alike(x, w) BY <2>7
    <3>2. KnownTo(refresh, c, w, o, clock) BY <1>1, <3>1 DEF RefreshOK
    <3> QED BY <3>1, <3>2 DEF Alike, KnownTo, IsRecord, Superseded
  <2> QED BY <1>1, <2>5, <2>6, <2>7 DEF RefreshOK, n, NextOf
<1>15. StaysGone(c)'
  <2> SUFFICES ASSUME IsRecord(y), y.until > clock
               PROVE  y.issued >= g.issued \/ y.revision > g.revision
    BY DEF StaysGone, IsLive, IsRecord, Alike
  <2>1. KeptOut(y, g, e, clock) BY <1>1 DEF EntriesOK
  <2> QED BY <1>2, <1>5, <2>1 DEF KeptOut, Entries
<1> QED BY <1>13, <1>14, <1>15

\* What the application of item i of the page of call p does.
Applies(p, i) ==
  LET placed == Placed(peer, i.name, i.value, peerSequence + 1) IN
  /\ UNCHANGED <<clock, offered, refresh, origin, sequence, cursor, announced, repeated>>
  /\ \/ pull' = [pull EXCEPT ![p] = NoPull] /\ UNCHANGED <<peer, peerSequence, gone, late, evicted>>
     \/ /\ ApplyResult(peer[i.name], i.value) \notin {"conflict", "applied"}
        /\ pull' = [pull EXCEPT ![p].items = @ \ {i}]
        /\ UNCHANGED <<peer, peerSequence, gone, late, evicted>>
     \/ /\ ApplyResult(peer[i.name], i.value) = "applied"
        /\ pull' = [pull EXCEPT ![p].items = @ \ {i}]
        /\ peerSequence' = peerSequence + 1
        /\ peer' = Enforced(placed) /\ evicted' = evicted \cup Dropped(placed)
        /\ gone' = IF i.value.kind = "tombstone" THEN [gone EXCEPT ![i.name] = i.value] ELSE gone
        /\ late' = IF clock > i.value.until THEN late \cup {i.name} ELSE late

LEMMA ApplyItemApplies ==
  ASSUME DiscoveryTypes, NEW p \in Pulls, ApplyItem(p)
  PROVE  {i \in pull[p].items : i \in PageItems /\ Applies(p, i)} # {}
<1> DEFINE placed(i) == Placed(peer, i.name, i.value, peerSequence + 1)
           result(i) == ApplyResult(peer[i.name], i.value)
           ended(i) == clock > i.value.until + RecordSkew
           inTime(i) == clock <= i.value.until + RecordSkew
<1>1. PICK i \in pull[p].items :
        /\ pull' = IF ended(i) \/ result(i) = "conflict"
                   THEN [pull EXCEPT ![p] = NoPull] ELSE [pull EXCEPT ![p].items = @ \ {i}]
        /\ IF inTime(i) /\ result(i) = "applied"
           THEN /\ peerSequence' = peerSequence + 1
                /\ peer' = Enforced(placed(i)) /\ evicted' = evicted \cup Dropped(placed(i))
                /\ gone' = IF i.value.kind = "tombstone" THEN [gone EXCEPT ![i.name] = i.value] ELSE gone
                /\ late' = IF clock > i.value.until THEN late \cup {i.name} ELSE late
           ELSE UNCHANGED <<peer, peerSequence, evicted, gone, late>>
        /\ UNCHANGED <<clock, offered, refresh, origin, sequence, cursor, announced, repeated>>
  BY DEF ApplyItem
<1>2. i \in PageItems /\ clock \in Nat BY PageFields DEF DiscoveryTypes
<1>3. ended(i) <=> ~inTime(i)
  <2>1. i.value.until + RecordSkew \in Nat BY <1>2, DiscoveryAssumption DEF PageItems, Entries
  <2> QED BY <1>2, <2>1
<1>4. Applies(p, i)
  <2> HIDE DEF ended, inTime, result, placed
  <2>1. CASE ended(i) \/ result(i) = "conflict"
    <3>1. pull' = [pull EXCEPT ![p] = NoPull] BY <1>1, <2>1
    <3> QED BY <1>1, <1>3, <2>1, <3>1 DEF Applies, result
  <2>2. CASE ~(ended(i) \/ result(i) = "conflict")
    <3>1. pull' = [pull EXCEPT ![p].items = @ \ {i}] BY <1>1, <2>2
    <3> QED BY <1>1, <1>3, <2>2, <3>1 DEF Applies, result, placed
  <2> QED BY <2>1, <2>2
<1> QED BY <1>2, <1>4

LEMMA ApplyItemStep == ASSUME DiscoveryIInv, NEW p \in Pulls, ApplyItem(p) PROVE DiscoveryIInv'
<1>1. DiscoveryTypes /\ pull[p] \in PullRecords BY PageFields DEF DiscoveryIInv
<1>2. PICK i \in pull[p].items : i \in PageItems /\ Applies(p, i) BY <1>1, ApplyItemApplies
<1> DEFINE c == i.name
           y == i.value
           placed == Placed(peer, c, y, peerSequence + 1)
<1>3. c \in Capabilities /\ y \in Entries /\ IsAbout(c, y)
  BY <1>1, <1>2, PageFields DEF PageItems
<1>4. /\ clock <= clock' /\ cursor' \in Nat /\ \A d \in Capabilities : announced[d] <= announced'[d]
      /\ UNCHANGED <<clock, offered, refresh, origin, sequence, announced, repeated>>
  BY <1>1, <1>2 DEF Applies, DiscoveryTypes
<1>5. PICK q : q = [pull[p] EXCEPT !.items = @ \ {i}] OBVIOUS
<1>6. q \in PullRecords /\ q.items \subseteq pull[p].items BY <1>1, <1>5 DEF PullRecords
<1>7. CASE UNCHANGED <<peer, peerSequence, gone, late, evicted>>
  <2>1. pull' = [pull EXCEPT ![p] = NoPull] \/ pull' = [pull EXCEPT ![p] = q]
    BY <1>2, <1>5 DEF Applies
  <2> QED BY <1>4, <1>6, <1>7, <2>1, Made, PageShortens DEF history
<1>8. CASE /\ ApplyResult(peer[c], y) = "applied"
           /\ pull' = [pull EXCEPT ![p] = q]
           /\ peerSequence' = peerSequence + 1
           /\ peer' = Enforced(placed) /\ evicted' = evicted \cup Dropped(placed)
           /\ gone' = IF y.kind = "tombstone" THEN [gone EXCEPT ![c] = y] ELSE gone
           /\ late' = IF clock > y.until THEN late \cup {c} ELSE late
  <2>1. /\ peer \in [Capabilities -> Entries] /\ peerSequence + 1 \in Nat
        /\ gone \in [Capabilities -> Entries]
    BY <1>1 DEF DiscoveryTypes
  <2> HIDE DEF c, y
  <2>2. /\ Enforced(placed) \in [Capabilities -> Entries]
        /\ \A d \in Capabilities :
             /\ placed[d] = IF d = c THEN [y EXCEPT !.sequence = peerSequence + 1] ELSE peer[d]
             /\ Enforced(placed)[d] \in {placed[d], Nothing}
             /\ d \notin Dropped(placed) => Enforced(placed)[d] = placed[d]
    <3> HIDE DEF placed
    <3> QED BY <1>3, <2>1, StoreKeeps DEF placed
  <2>3. Dropped(placed) \subseteq Capabilities BY DEF Dropped
  <2> HIDE DEF placed
  <2>4. DiscoveryTypes'
    <3>1. IsFiniteSet(q.items) BY <1>6, FS_Subset, <1>1 DEF DiscoveryTypes
    <3>2. /\ gone' \in [Capabilities -> Entries] /\ late' \subseteq Capabilities
          /\ peer' \in [Capabilities -> Entries] /\ evicted' \subseteq Capabilities
          /\ peerSequence' \in Nat
      BY <1>1, <1>3, <1>8, <2>1, <2>2, <2>3 DEF DiscoveryTypes
    <3>3. pull' \in [Pulls -> PullRecords] /\ \A s \in Pulls : IsFiniteSet(pull'[s].items)
      BY <1>1, <1>6, <1>8, <3>1 DEF DiscoveryTypes
    <3> QED BY <1>1, <1>4, <3>2, <3>3 DEF DiscoveryTypes
  <2>5. \A s \in Pulls : pull'[s].items \subseteq pull[s].items
    BY <1>1, <1>6, <1>8 DEF DiscoveryTypes
  <2>6. ASSUME NEW d \in Capabilities, peer'[d] = peer[d], NEW x, IsAbout(d, x)' PROVE IsAbout(d, x)
    BY <1>4, <2>5, <2>6 DEF IsAbout
  <2>7. ASSUME IsSound(c)' PROVE (EntriesOK(c) /\ RefreshOK(c) /\ StaysGone(c))'
    <3>1. IsSound(c) /\ c \notin Dropped(placed) BY <1>4, <1>8, <2>7 DEF IsSound
    <3>2. peer'[c] = [y EXCEPT !.sequence = peerSequence + 1] BY <1>3, <1>8, <2>2, <3>1
    <3>3. Alike(peer'[c], y) BY <1>3, <2>1, <3>2, PlaceIsNoMatter
    <3>4. ASSUME NEW x, IsAbout(c, x)' PROVE \E w : IsAbout(c, w) /\ Alike(x, w)
      <4>1. CASE x = peer'[c] BY <1>3, <3>3, <4>1
      <4>2. CASE x # peer'[c]
        <5>1. IsAbout(c, x) BY <1>4, <2>5, <3>4, <4>2 DEF IsAbout
        <5>2. Alike(x, x) BY DEF Alike
        <5> QED BY <5>1, <5>2
      <4> QED BY <4>1, <4>2
    <3>5. gone'[c] = IF y.kind = "tombstone" THEN y ELSE gone[c] BY <1>3, <1>8, <2>1
    <3>6. IF clock > y.until THEN c \in late' ELSE c \in late' <=> c \in late BY <1>8
    <3> QED BY <1>3, <1>4, <1>8, <2>4, <2>7, <3>1, <3>3, <3>4, <3>5, <3>6, AppliedByPeer
  <2>8. ASSUME NEW d \in Capabilities, d # c PROVE DiscoveryOK(d)'
    <3>1. CASE IsSound(d)'
      <4>1. peer'[d] = peer[d] BY <1>8, <2>2, <2>8, <3>1 DEF IsSound
      <4>2. gone'[d] = gone[d] /\ (d \in late' <=> d \in late) /\ evicted \subseteq evicted'
        BY <1>3, <1>8, <2>1, <2>8
      <4> QED BY <1>4, <2>4, <2>6, <4>1, <4>2, NothingHappens
    <3>2. CASE ~IsSound(d)' BY <3>2 DEF DiscoveryOK
    <3> QED BY <3>1, <3>2
  <2>9. DiscoveryOK(c)' BY <2>7 DEF DiscoveryOK
  <2> QED BY <2>4, <2>8, <2>9 DEF DiscoveryIInv
<1> QED BY <1>2, <1>5, <1>7, <1>8 DEF Applies

-----------------------------------------------------------------------------
(* What has ended is removed. *)

LEMMA PrunedTyped ==
  ASSUME NEW store \in [Capabilities -> Entries] PROVE Pruned(store) \in [Capabilities -> Entries]
BY Made DEF Pruned

\* The origin removes what is no longer needed: what it superseded has ended before.
LEMMA PruneOriginStep == ASSUME DiscoveryIInv, PruneOrigin PROVE DiscoveryIInv'
<1>1. /\ DiscoveryTypes /\ origin' = Pruned(origin)
      /\ UNCHANGED <<clock, offered, refresh, peer, sequence, peerSequence, cursor, pull, history>>
  BY DEF DiscoveryIInv, PruneOrigin
<1>2. DiscoveryTypes' BY <1>1, PrunedTyped DEF DiscoveryTypes, history
<1>3. ASSUME NEW c \in Capabilities, IsSound(c) PROVE DiscoveryOK(c)'
  <2> DEFINE o == origin[c]
  <2>1. CASE o.until > clock
    <3>1. o \in Entries /\ clock \in Nat BY <1>1 DEF DiscoveryTypes
    <3>2. origin'[c] = origin[c] BY <1>1, <2>1, <3>1 DEF Pruned, Entries
    <3>3. \A x : IsAbout(c, x)' => IsAbout(c, x) BY <1>1, <3>2 DEF IsAbout
    <3>4. clock <= clock' /\ announced[c] <= announced'[c] BY <1>1, <3>1 DEF DiscoveryTypes, history
    <3> QED BY <1>1, <1>2, <3>2, <3>3, <3>4, NothingHappens DEF history
  <2>2. CASE o.until <= clock
    <3>1. /\ origin'[c] = Nothing /\ Nothing \in Entries /\ Nothing.kind = "none"
          /\ ~IsRecord(Nothing) /\ Nothing.issued = 0
          /\ UNCHANGED <<clock, refresh, peer, announced, repeated, gone, late, pull>>
      BY <1>1, <2>2, Made DEF Pruned, IsRecord, history
    <3>2. \A x : IsAbout(c, x)' => x = Nothing \/ IsAbout(c, x) BY <3>1 DEF IsAbout
    <3>3. EntriesOK(c) /\ RefreshOK(c) /\ StaysGone(c) BY <1>3 DEF DiscoveryIInv, DiscoveryOK
    <3>4. clock \in Nat /\ o \in Entries BY <1>1 DEF DiscoveryTypes
    <3>5. IsAbout(c, o) /\ WellMade(o, clock) BY <3>3 DEF IsAbout, EntriesOK
    <3>6. ASSUME NEW x, IsAbout(c, x), IsRecord(x), Superseded(x, o)
          PROVE  x.until <= clock /\ (o.kind = "tombstone" => x.until < clock)
      <4>1. x \in Entries /\ WellMade(x, clock) BY <1>1, <3>3, <3>6, AboutTyped DEF EntriesOK
      <4> QED BY <2>2, <3>4, <3>5, <3>6, <4>1, Lives
              DEF WellMade, IsRecord, Superseded, IsHeld, Entries, Kinds
    <3>7. ASSUME NEW x, IsAbout(c, x), IsRecord(x) PROVE ~(x.until > clock)
      <4>1. x \in Entries BY <1>1, <3>7, AboutTyped
      <4> QED BY <3>3, <3>4, <3>6, <3>7, <4>1 DEF EntriesOK, Entries
    <3>8. WellMade(Nothing, clock) BY <3>1, <3>4, Made DEF WellMade
    <3>9. EntriesOK(c)'
      <4>1. c \notin repeated => FirstLife(c)' BY <3>1, <3>2, <3>3 DEF EntriesOK, FirstLife
      <4> QED BY <3>1, <3>2, <3>3, <3>7, <3>8, <4>1 DEF EntriesOK
    <3>10. RefreshOK(c)'
      <4> SUFFICES ASSUME refresh.running, c \in refresh.left PROVE RefreshOK(c)'
        BY <3>1 DEF RefreshOK
      <4>1. refresh.at \in Nat /\ 0 <= refresh.at BY <1>1 DEF DiscoveryTypes, RefreshRecords
      <4>2. ASSUME NEW x, IsAbout(c, x) \/ x = gone[c] PROVE KnownTo(refresh, c, x, Nothing, clock)
        <5>1. KnownTo(refresh, c, x, o, clock) BY <3>3, <4>2 DEF RefreshOK
        <5>2. IsRecord(x) => IsAbout(c, x) BY <3>3, <4>2 DEF EntriesOK, IsRecord
        <5>3. x \in Entries BY <1>1, <4>2, AboutTyped DEF DiscoveryTypes
        <5>4. ~(IsRecord(x) /\ x.until >= clock /\ o.kind = "tombstone" /\ Superseded(x, o))
          BY <3>4, <3>6, <5>2, <5>3 DEF Entries
        <5> QED BY <3>1, <5>1, <5>4 DEF KnownTo
      <4>3. KnownTo(refresh, c, Nothing, Nothing, clock) BY <3>1 DEF KnownTo
      <4> QED BY <3>1, <3>2, <3>3, <4>1, <4>2, <4>3 DEF RefreshOK, NextOf
    <3>11. StaysGone(c)' BY <3>1, <3>3 DEF StaysGone, IsLive
    <3> QED BY <3>9, <3>10, <3>11 DEF DiscoveryOK
  <2> QED BY <1>1, <2>1, <2>2 DEF DiscoveryTypes, Entries
<1> QED BY <1>1, <1>2, <1>3 DEF DiscoveryIInv, DiscoveryOK, IsSound, history

\* The peer removes what has ended: what it kept out has ended as well.
LEMMA PrunePeerStep == ASSUME DiscoveryIInv, PrunePeer PROVE DiscoveryIInv'
<1>1. /\ DiscoveryTypes /\ peer' = Pruned(peer)
      /\ UNCHANGED <<clock, offered, refresh, origin, sequence, peerSequence, cursor, pull, history>>
  BY DEF DiscoveryIInv, PrunePeer
<1>2. DiscoveryTypes' BY <1>1, PrunedTyped DEF DiscoveryTypes, history
<1>3. ASSUME NEW c \in Capabilities, IsSound(c) PROVE DiscoveryOK(c)'
  <2> DEFINE e == peer[c]
             g == gone[c]
  <2>1. CASE e.until > clock
    <3>1. e \in Entries /\ clock \in Nat BY <1>1 DEF DiscoveryTypes
    <3>2. peer'[c] = peer[c] BY <1>1, <2>1, <3>1 DEF Pruned, Entries
    <3>3. \A x : IsAbout(c, x)' => IsAbout(c, x) BY <1>1, <3>2 DEF IsAbout
    <3>4. clock <= clock' /\ announced[c] <= announced'[c] BY <1>1, <3>1 DEF DiscoveryTypes, history
    <3> QED BY <1>1, <1>2, <3>2, <3>3, <3>4, NothingHappens DEF history
  <2>2. CASE e.until <= clock
    <3>1. /\ peer'[c] = Nothing /\ Nothing \in Entries /\ Nothing.kind = "none"
          /\ ~IsRecord(Nothing)
          /\ UNCHANGED <<clock, refresh, origin, announced, repeated, gone, late, pull>>
      BY <1>1, <2>2, Made DEF Pruned, IsRecord, history
    <3>2. \A x : IsAbout(c, x)' => x = Nothing \/ IsAbout(c, x) BY <3>1 DEF IsAbout
    <3>3. EntriesOK(c) /\ RefreshOK(c) /\ StaysGone(c) BY <1>3 DEF DiscoveryIInv, DiscoveryOK
    <3>4. clock \in Nat /\ e \in Entries BY <1>1 DEF DiscoveryTypes
    <3>5. ASSUME NEW x, x.until \in Nat, KeptOut(x, g, e, clock) PROVE KeptOut(x, g, Nothing, clock)
      BY <2>2, <3>4, <3>5 DEF KeptOut, Entries
    <3>6. ASSUME NEW x, IsAbout(c, x), IsRecord(x) PROVE KeptOut(x, g, Nothing, clock)
      <4>1. x \in Entries BY <1>1, <3>6, AboutTyped
      <4> QED BY <3>3, <3>5, <3>6, <4>1 DEF EntriesOK, Entries
    <3>7. WellMade(Nothing, clock) BY <3>1, <3>4, Made DEF WellMade
    <3>8. EntriesOK(c)'
      <4>1. c \notin repeated => FirstLife(c)' BY <3>1, <3>2, <3>3 DEF EntriesOK, FirstLife
      <4> QED BY <3>1, <3>2, <3>3, <3>6, <3>7, <4>1 DEF EntriesOK
    <3>9. RefreshOK(c)'
      <4> SUFFICES ASSUME refresh.running, c \in refresh.left PROVE RefreshOK(c)'
        BY <3>1 DEF RefreshOK
      <4>1. NextOf(refresh, c).until \in Nat
        BY <1>1, Lives DEF DiscoveryTypes, RefreshRecords, NextOf
      <4>2. (c \in late => announced[c] <= refresh.current[c].revision) =>
              KeptOut(NextOf(refresh, c), g, Nothing, clock)
        BY <3>3, <3>5, <4>1 DEF RefreshOK
      <4>3. KnownTo(refresh, c, Nothing, origin[c], clock)
        BY <3>1 DEF KnownTo
      <4> QED BY <3>1, <3>2, <3>3, <4>2, <4>3 DEF RefreshOK, NextOf
    <3>10. StaysGone(c)' BY <3>1 DEF StaysGone, IsLive
    <3> QED BY <3>8, <3>9, <3>10 DEF DiscoveryOK
  <2> QED BY <1>1, <2>1, <2>2 DEF DiscoveryTypes, Entries
<1> QED BY <1>1, <1>2, <1>3 DEF DiscoveryIInv, DiscoveryOK, IsSound, history

-----------------------------------------------------------------------------
LEMMA DiscoveryStepKeeps == DiscoveryIInv /\ [DiscoveryNext]_discoveryVars => DiscoveryIInv'
<1> SUFFICES ASSUME DiscoveryIInv, [DiscoveryNext]_discoveryVars PROVE DiscoveryIInv' OBVIOUS
<1>1. ASSUME NEW c \in Capabilities, ChangeDirectory(c) \/ ChangePolicy(c) \/ Export(c)
      PROVE  DiscoveryIInv'
  BY <1>1, ChangeDirectoryStep, ChangePolicyStep, ExportStep
<1>2. ASSUME NEW p \in Pulls,
             SendPull(p) \/ AddToPage(p) \/ EndPage(p) \/ ApplyItem(p) \/ EndPull(p) \/ LosePull(p)
      PROVE  DiscoveryIInv'
  BY <1>2, SendPullStep, AddToPageStep, EndPageStep, ApplyItemStep, EndPullStep, LosePullStep
<1>3. CASE RequestRefresh \/ StartRefresh \/ FailRefresh \/ EndRefresh
  BY <1>3, RequestRefreshStep, StartRefreshStep, FailRefreshStep, EndRefreshStep
<1>4. CASE PruneOrigin \/ PrunePeer \/ DiscoveryTick
  BY <1>4, PruneOriginStep, PrunePeerStep, DiscoveryTickStep
<1>5. CASE UNCHANGED discoveryVars
  <2>1. UNCHANGED <<clock, offered, refresh, origin, peer, sequence, peerSequence, cursor, pull, history>>
    BY <1>5 DEF discoveryVars
  <2>2. DiscoveryTypes' BY <2>1 DEF DiscoveryIInv, DiscoveryTypes, history
  <2>3. clock <= clock' BY <2>1 DEF DiscoveryIInv, DiscoveryTypes
  <2> QED BY <2>1, <2>2, <2>3, NothingToPages DEF history
<1> QED BY <1>1, <1>2, <1>3, <1>4, <1>5 DEF DiscoveryNext

\* However late answers come and whatever is pruned meanwhile, what a peer shows of a capability
\* was not signed before the last withdrawal it has applied: an older record cannot bring the
\* capability back, as long as no store has dropped an entry of it to make room, and unless its
\* revisions have started again and the peer has applied something of it after its end.
THEOREM WithdrawnNeverReturns == DiscoverySpec => []WithdrawnStaysGone
<1>1. DiscoveryIInv => WithdrawnStaysGone
  BY DEF DiscoveryIInv, DiscoveryOK, IsSound, StaysGone, WithdrawnStaysGone
<1> QED BY <1>1, DiscoveryStart, DiscoveryStepKeeps, PTL DEF DiscoverySpec
-----------------------------------------------------------------------------
(* Nothing is passed over: the peer, or the page of the call, holds a later *)
(* version of each change behind the cursor, and holds it for as long.      *)

Covers(x, o) == o.revision <= x.revision /\ o.until <= x.until

\* The change of c that counts lies behind place n.
IsBehind(c, n) == IsHeld(origin[c]) /\ origin[c].sequence <= n /\ origin[c].until > clock

\* How far the peer has come, and each call with what is left of its page.
IsPlace(n, page) ==
  \/ n = cursor /\ page = {}
  \/ \E p \in Pulls : n = pull[p].next /\ page = pull[p].items

SeenAt(c, n, page) ==
  IsBehind(c, n) =>
    Covers(peer[c], origin[c]) \/ \E i \in page : i.name = c /\ Covers(i.value, origin[c])

PlacesOK ==
  /\ \A n, page : IsPlace(n, page) => n <= sequence
  /\ \A c \in Capabilities : IsHeld(origin[c]) => origin[c].sequence \in 1..sequence
  /\ \A c, d \in Capabilities :
       IsHeld(origin[c]) /\ IsHeld(origin[d]) /\ origin[c].sequence = origin[d].sequence => c = d

\* Only a withdrawal by the policy has a revision after the one announced, and it counts for longer.
RevisionsOK(c) ==
  /\ \A x : IsAbout(c, x) => x.revision <= announced[c] + 1
  /\ IsHeld(origin[c]) =>
       /\ origin[c].revision = announced[c]
       /\ \A x : IsAbout(c, x) => x.revision <= announced[c] \/ origin[c].until <= x.until

SeenOK(c) == \A n, page : IsPlace(n, page) => SeenAt(c, n, page)

\* The revisions have not started again, and no store has made room.
Steady == Capabilities \ (repeated \cup evicted)

PassedIInv == DiscoveryIInv /\ PlacesOK /\ \A c \in Steady : RevisionsOK(c) /\ SeenOK(c)

LEMMA DiscoveryTypeOf ==
  ASSUME DiscoveryIInv, NEW c \in Capabilities
  PROVE  /\ DiscoveryTypes /\ clock \in Nat /\ sequence \in Nat /\ cursor \in Nat
         /\ origin[c] \in Entries /\ peer[c] \in Entries /\ announced[c] \in Nat
         /\ \A x : IsAbout(c, x) => x \in Entries
         /\ IsAbout(c, origin[c]) /\ IsAbout(c, peer[c])
         /\ c \in Steady => \A x : IsAbout(c, x) => WellMade(x, clock)
<1>1. IsAbout(c, origin[c]) /\ IsAbout(c, peer[c]) BY DEF IsAbout
<1>2. \A x : IsAbout(c, x) => x \in Entries BY AboutTyped DEF DiscoveryIInv
<1>3. c \in Steady => EntriesOK(c) BY DEF DiscoveryIInv, DiscoveryOK, IsSound, Steady
<1> QED BY <1>1, <1>2, <1>3 DEF DiscoveryIInv, DiscoveryTypes, EntriesOK

LEMMA PlaceTyped ==
  ASSUME DiscoveryTypes, NEW n, NEW page, IsPlace(n, page) PROVE n \in Nat
BY DEF DiscoveryTypes, IsPlace, PullRecords

\* The places stay, or a call is given up.
LEMMA PlacesStay ==
  ASSUME PlacesOK, DiscoveryIInv, UNCHANGED <<origin, sequence>>,
         \A n, page : IsPlace(n, page)' => IsPlace(n, page) \/ n = 0
  PROVE  PlacesOK'
<1>1. sequence \in Nat /\ 0 <= sequence BY DEF DiscoveryIInv, DiscoveryTypes
<1>2. \A n, page : IsPlace(n, page)' => n <= sequence' BY <1>1 DEF PlacesOK
<1> QED BY <1>2 DEF PlacesOK

LEMMA RevisionsStay ==
  ASSUME NEW c \in Capabilities, RevisionsOK(c), origin'[c] = origin[c], announced'[c] = announced[c],
         \A x : IsAbout(c, x)' => \E w : IsAbout(c, w) /\ Alike(x, w)
  PROVE  RevisionsOK(c)'
BY DEF RevisionsOK, Alike

LEMMA AlikeItself == \A x : Alike(x, x)
BY DEF Alike

\* Nothing of c is made or applied.
LEMMA SeenStays ==
  ASSUME DiscoveryIInv, PlacesOK, NEW c \in Capabilities, SeenOK(c), origin'[c] = origin[c],
         peer'[c] = peer[c], clock <= clock', clock' \in Nat,
         \A n, page : IsPlace(n, page)' => IsPlace(n, page) \/ n = 0
  PROVE  SeenOK(c)'
<1>1. clock \in Nat /\ origin[c] \in Entries BY DiscoveryTypeOf
<1>2. IsHeld(origin[c]) => origin[c].sequence > 0
  BY <1>1 DEF PlacesOK, DiscoveryIInv, DiscoveryTypes
<1>3. ASSUME NEW n, NEW page, IsPlace(n, page)', IsBehind(c, n)' PROVE IsPlace(n, page) /\ IsBehind(c, n)
  <2>1. IsHeld(origin[c]) /\ origin[c].sequence <= n /\ origin[c].until > clock
    BY <1>1, <1>3 DEF IsBehind, Entries
  <2>2. n # 0 BY <1>1, <1>2, <2>1 DEF Entries
  <2> QED BY <1>3, <2>1, <2>2 DEF IsBehind
<1>4. ASSUME NEW n, NEW page, IsPlace(n, page)', IsBehind(c, n)'
      PROVE  Covers(peer'[c], origin'[c]) \/ \E i \in page : i.name = c /\ Covers(i.value, origin'[c])
  <2>1. SeenAt(c, n, page) /\ IsBehind(c, n) BY <1>3, <1>4 DEF SeenOK
  <2> QED BY <2>1 DEF SeenAt
<1> QED BY <1>4 DEF SeenOK, SeenAt

\* The stores and what has been announced stay, and no page grows.
LEMMA NothingPassed ==
  ASSUME PassedIInv, DiscoveryIInv', clock <= clock',
         UNCHANGED <<origin, peer, sequence, announced, repeated, evicted>>,
         \A c \in Capabilities : \A x : IsAbout(c, x)' => IsAbout(c, x),
         \A n, page : IsPlace(n, page)' => IsPlace(n, page) \/ n = 0
  PROVE  PassedIInv'
<1>1. PlacesOK' BY PlacesStay DEF PassedIInv
<1>2. clock' \in Nat BY DEF DiscoveryIInv, DiscoveryTypes
<1>3. ASSUME NEW c \in Steady PROVE (RevisionsOK(c) /\ SeenOK(c))'
  <2>1. c \in Capabilities /\ RevisionsOK(c) /\ SeenOK(c) BY <1>3 DEF PassedIInv, Steady
  <2> QED BY <1>2, <2>1, AlikeItself, RevisionsStay, SeenStays DEF PassedIInv
<1> QED BY <1>1, <1>3 DEF PassedIInv, Steady

\* The peer and its calls rest.
LEMMA NobodyPulls ==
  ASSUME PassedIInv, DiscoveryIInv', clock <= clock',
         UNCHANGED <<origin, peer, sequence, announced, repeated, evicted, cursor, pull>>
  PROVE  PassedIInv'
<1>1. \A c, x : IsAbout(c, x)' => IsAbout(c, x) BY DEF IsAbout
<1>2. \A n, page : IsPlace(n, page)' => IsPlace(n, page) BY DEF IsPlace
<1> QED BY <1>1, <1>2, NothingPassed

\* A call begins at the cursor, goes on, is given up or moves the cursor.
LEMMA PullsPass ==
  ASSUME PassedIInv, DiscoveryIInv', NEW p \in Pulls, NEW q \in PullRecords,
         pull' = [pull EXCEPT ![p] = q], q.items \subseteq pull[p].items,
         IsPlace(q.next, q.items) \/ q.next = 0, IsPlace(cursor', {}),
         UNCHANGED <<clock, origin, peer, sequence, announced, repeated, evicted>>
  PROVE  PassedIInv'
<1>1. DiscoveryTypes /\ clock <= clock' BY DEF PassedIInv, DiscoveryIInv, DiscoveryTypes
<1>2. \A c \in Capabilities : \A x : IsAbout(c, x)' => IsAbout(c, x)
  BY <1>1, ShorterPages
<1>3. ASSUME NEW n, NEW page, IsPlace(n, page)' PROVE IsPlace(n, page) \/ n = 0
  <2>1. CASE n = cursor' /\ page = {} BY <2>1
  <2>2. CASE \E s \in Pulls : n = pull'[s].next /\ page = pull'[s].items
    <3>1. PICK s \in Pulls : n = pull'[s].next /\ page = pull'[s].items BY <2>2
    <3>2. CASE s = p BY <1>1, <3>1, <3>2 DEF DiscoveryTypes
    <3>3. CASE s # p BY <1>1, <3>1, <3>3 DEF DiscoveryTypes, IsPlace
    <3> QED BY <3>2, <3>3
  <2> QED BY <1>3, <2>1, <2>2 DEF IsPlace
<1> QED BY <1>1, <1>2, <1>3, NothingPassed

LEMMA PassedQuietSteps ==
  ASSUME PassedIInv, DiscoveryIInv'
  PROVE  /\ \A c \in Capabilities : ChangeDirectory(c) \/ ChangePolicy(c) => PassedIInv'
         /\ RequestRefresh \/ StartRefresh \/ FailRefresh \/ EndRefresh \/ DiscoveryTick => PassedIInv'
         /\ UNCHANGED discoveryVars => PassedIInv'
<1>1. clock \in Nat /\ clock <= clock /\ clock <= clock + 1
  BY DEF PassedIInv, DiscoveryIInv, DiscoveryTypes
<1>2. ASSUME NEW c \in Capabilities, ChangeDirectory(c) \/ ChangePolicy(c) PROVE PassedIInv'
  BY <1>1, <1>2, NobodyPulls DEF ChangeDirectory, ChangePolicy, history
<1>3. ASSUME RequestRefresh \/ StartRefresh \/ FailRefresh \/ EndRefresh \/ DiscoveryTick
      PROVE  PassedIInv'
  BY <1>1, <1>3, NobodyPulls
     DEF RequestRefresh, StartRefresh, FailRefresh, EndRefresh, DiscoveryTick, history
<1>4. ASSUME UNCHANGED discoveryVars PROVE PassedIInv'
  BY <1>1, <1>4, NobodyPulls DEF discoveryVars, history
<1> QED BY <1>2, <1>3, <1>4

LEMMA PassedPullSteps ==
  ASSUME PassedIInv, DiscoveryIInv', NEW p \in Pulls,
         SendPull(p) \/ EndPage(p) \/ EndPull(p) \/ LosePull(p)
  PROVE  PassedIInv'
<1>1. /\ DiscoveryTypes /\ cursor \in Nat /\ pull[p] \in PullRecords
      /\ pull[p].items \subseteq pull[p].items
  BY PageFields DEF PassedIInv, DiscoveryIInv, DiscoveryTypes
<1>2. IsPlace(cursor, {}) /\ IsPlace(pull[p].next, pull[p].items) BY DEF IsPlace
<1>3. NoPull.next = 0 /\ NoPull.items = {} /\ NoPull \in PullRecords BY Made DEF NoPull
<1>4. CASE SendPull(p)
  <2> DEFINE q == [NoPull EXCEPT !.pc = "building", !.after = cursor, !.next = cursor]
  <2>1. q \in PullRecords /\ q.items = {} /\ q.next = cursor
    BY <1>1, <1>3 DEF PullRecords
  <2>2. pull' = [pull EXCEPT ![p] = q] BY <1>4 DEF SendPull
  <2> HIDE DEF q
  <2>3. IsPlace(q.next, q.items) /\ q.items \subseteq pull[p].items BY <1>2, <2>1
  <2>4. UNCHANGED <<clock, origin, peer, sequence, announced, repeated, evicted>> /\ IsPlace(cursor', {})
    BY <1>2, <1>4 DEF SendPull, history
  <2> QED BY <2>1, <2>2, <2>3, <2>4, PullsPass
<1>5. CASE EndPage(p)
  <2> DEFINE q == [pull[p] EXCEPT !.pc = "answered"]
  <2>1. q \in PullRecords /\ q.items = pull[p].items /\ q.next = pull[p].next
    BY <1>1 DEF PullRecords
  <2>2. pull' = [pull EXCEPT ![p] = q] BY <1>5 DEF EndPage
  <2> HIDE DEF q
  <2> QED BY <1>1, <1>2, <1>5, <2>1, <2>2, PullsPass DEF EndPage, history
<1>6. CASE EndPull(p)
  BY <1>2, <1>3, <1>6, PullsPass DEF EndPull, history
<1>7. CASE LosePull(p)
  BY <1>2, <1>3, <1>7, PullsPass DEF LosePull, history
<1> QED BY <1>4, <1>5, <1>6, <1>7

\* A new entry is announced, and lies after every place.
LEMMA PassedExportStep ==
  ASSUME PassedIInv, DiscoveryIInv', NEW c \in Capabilities, Export(c) PROVE PassedIInv'
<1> DEFINE v == Signed(refresh, c)
           n == [v EXCEPT !.sequence = sequence + 1]
           placed == Placed(origin, c, v, sequence + 1)
<1>1. DiscoveryIInv /\ DiscoveryTypes BY DEF PassedIInv, DiscoveryIInv
<1>2. /\ UNCHANGED <<clock, peer, gone, late, pull>>
      /\ \/ UNCHANGED <<origin, sequence, evicted>>
         \/ /\ ApplyResult(origin[c], v) = "applied"
            /\ sequence' = sequence + 1
            /\ origin' = Enforced(placed) /\ evicted' = evicted \cup Dropped(placed)
      /\ \/ UNCHANGED <<origin, sequence, announced, repeated>>
         \/ /\ announced' = [announced EXCEPT ![c] = IF v.revision > @ THEN v.revision ELSE @]
            /\ repeated' = IF v.revision > announced[c] THEN repeated ELSE repeated \cup {c}
            /\ ApplyResult(origin[c], v) = "applied" => sequence' = sequence + 1
  BY <1>1, Exports
<1>3. cursor' = cursor BY DEF Export
<1>4. v \in Entries /\ v.kind # "none" BY <1>1, SignedTyped
<1>5. /\ clock \in Nat /\ sequence \in Nat /\ clock <= clock' /\ clock' \in Nat
      /\ sequence + 1 \in Nat
      /\ origin \in [Capabilities -> Entries] /\ announced \in [Capabilities -> Nat]
  BY <1>1, <1>2 DEF DiscoveryTypes
<1> HIDE DEF v
<1>6. n \in Entries /\ n.revision = v.revision /\ n.sequence = sequence + 1 /\ IsHeld(n)
  BY <1>4, <1>5 DEF Entries, IsHeld
<1>7. /\ Enforced(placed) \in [Capabilities -> Entries]
       /\ \A d \in Capabilities :
            /\ placed[d] = IF d = c THEN n ELSE origin[d]
            /\ Enforced(placed)[d] \in {placed[d], Nothing}
            /\ d \notin Dropped(placed) => Enforced(placed)[d] = placed[d]
  <2>1. v \in Entries /\ sequence + 1 \in Nat /\ origin \in [Capabilities -> Entries]
    BY <1>4, <1>5
  <2> HIDE DEF placed
  <2> QED BY <2>1, StoreKeeps DEF placed
<1> HIDE DEF n, placed
<1>8. evicted \subseteq evicted' /\ Steady' \subseteq Steady BY <1>2 DEF Steady
<1>9. ASSUME NEW d \in Steady'
       PROVE  origin'[d] = IF d = c /\ sequence' = sequence + 1 THEN n ELSE origin[d]
  BY <1>2, <1>5, <1>7, <1>9 DEF Steady
<1>10. \A m, page : IsPlace(m, page)' <=> IsPlace(m, page) BY <1>2, <1>3 DEF IsPlace
<1>11. \A m, page : IsPlace(m, page) => m \in Nat /\ m <= sequence
  BY <1>1, PlaceTyped DEF PassedIInv, PlacesOK
<1>12. PlacesOK'
  <2>1. CASE UNCHANGED <<origin, sequence>> BY <1>1, <1>10, <2>1, PlacesStay DEF PassedIInv
  <2>2. CASE sequence' = sequence + 1 /\ origin' = Enforced(placed)
    <3>1. \A m, page : IsPlace(m, page)' => m <= sequence' BY <1>5, <1>10, <1>11, <2>2
    <3>2. \A d \in Capabilities :
            IsHeld(origin'[d]) => origin'[d] = IF d = c THEN n ELSE origin[d]
      BY <1>7, <2>2, Made DEF IsHeld
    <3>3. \A d \in Capabilities : IsHeld(origin[d]) => origin[d].sequence \in 1..sequence
      BY DEF PassedIInv, PlacesOK
    <3>4. \A d \in Capabilities : IsHeld(origin'[d]) => origin'[d].sequence \in 1..sequence'
      BY <1>5, <1>6, <2>2, <3>2, <3>3
    <3>5. \A d, f \in Capabilities :
            IsHeld(origin'[d]) /\ IsHeld(origin'[f]) /\ origin'[d].sequence = origin'[f].sequence => d = f
      BY <1>5, <1>6, <3>2, <3>3 DEF PassedIInv, PlacesOK
    <3> QED BY <3>1, <3>4, <3>5 DEF PlacesOK
  <2> QED BY <1>2, <2>1, <2>2
<1>13. ASSUME NEW d \in Steady', origin'[d] = origin[d], announced'[d] = announced[d]
       PROVE (RevisionsOK(d) /\ SeenOK(d))'
  <2>1. d \in Capabilities /\ RevisionsOK(d) /\ SeenOK(d) BY <1>13, <1>8 DEF PassedIInv, Steady
  <2>2. \A x : IsAbout(d, x)' => IsAbout(d, x) BY <1>2, <1>13 DEF IsAbout
  <2>3. SeenOK(d)' BY <1>1, <1>2, <1>5, <1>10, <1>13, <2>1, SeenStays DEF PassedIInv
  <2>4. RevisionsOK(d)' BY <1>13, <2>1, <2>2, AlikeItself, RevisionsStay
  <2> QED BY <2>3, <2>4
<1>14. CASE UNCHANGED <<origin, sequence, announced, repeated>>
  BY <1>12, <1>13, <1>14 DEF PassedIInv
<1>15. CASE /\ announced' = [announced EXCEPT ![c] = IF v.revision > @ THEN v.revision ELSE @]
            /\ repeated' = IF v.revision > announced[c] THEN repeated ELSE repeated \cup {c}
            /\ ApplyResult(origin[c], v) = "applied" => sequence' = sequence + 1
  <2>1. ASSUME NEW d \in Steady', d # c PROVE (RevisionsOK(d) /\ SeenOK(d))'
    <3>1. origin'[d] = origin[d] BY <1>9, <2>1
    <3>2. announced'[d] = announced[d] BY <1>5, <1>15, <2>1 DEF Steady
    <3> QED BY <1>13, <2>1, <3>1, <3>2
  <2>2. ASSUME c \in Steady' PROVE (RevisionsOK(c) /\ SeenOK(c))'
    <3>1. v.revision > announced[c] /\ announced'[c] = v.revision
      BY <1>5, <1>15, <2>2 DEF Steady
    <3>2. RevisionsOK(c) BY <1>8, <2>2 DEF PassedIInv
    <3>3. ApplyResult(origin[c], v) = "applied"
      <4>1. IsHeld(origin[c]) => origin[c].revision < v.revision
        BY <1>4, <1>5, <3>1, <3>2 DEF RevisionsOK, Entries
      <4> QED BY <1>4, <1>5, <4>1 DEF ApplyResult, Entries
    <3>4. sequence' = sequence + 1 /\ origin'[c] = n BY <1>15, <1>9, <2>2, <3>3
    <3>5. \A x : IsAbout(c, x)' => x = n \/ (x \in Entries /\ IsAbout(c, x))
      BY <1>1, <1>2, <3>4, AboutTyped DEF IsAbout
    <3>6. \A x : IsAbout(c, x)' => x.revision <= announced'[c]
      BY <1>4, <1>5, <1>6, <3>1, <3>2, <3>5 DEF RevisionsOK, Entries
    <3>7. announced'[c] <= announced'[c] + 1 /\ announced'[c] \in Nat BY <1>4, <3>1 DEF Entries
    <3>8. RevisionsOK(c)'
      <4>1. \A x : IsAbout(c, x)' => x.revision \in Nat BY <1>6, <3>5 DEF Entries
      <4>2. \A x : IsAbout(c, x)' => x.revision <= announced'[c] + 1 BY <3>6, <3>7, <4>1
      <4> QED BY <1>6, <3>1, <3>4, <3>6, <4>2 DEF RevisionsOK
    <3>9. SeenOK(c)'
      <4>1. ASSUME NEW m, NEW page, IsPlace(m, page)' PROVE ~IsBehind(c, m)'
        <5>1. m \in Nat /\ m <= sequence BY <1>10, <1>11, <4>1
        <5> QED BY <1>5, <1>6, <3>4, <5>1 DEF IsBehind
      <4> QED BY <4>1 DEF SeenOK, SeenAt
    <3> QED BY <3>8, <3>9
  <2> QED BY <1>12, <2>1, <2>2 DEF PassedIInv
<1> QED BY <1>2, <1>14, <1>15

\* A page grows by the next change.
LEMMA PassedAddToPageStep ==
  ASSUME PassedIInv, DiscoveryIInv', NEW p \in Pulls, AddToPage(p) PROVE PassedIInv'
<1> DEFINE item(c) ==
             [name |-> c, value |-> Exported(c), place |-> Cardinality(pull[p].items) + 1]
<1>1. PICK c \in NextChange(pull[p].next) :
        pull' = [pull EXCEPT ![p].items = @ \cup {item(c)}, ![p].next = PlaceAfter(c)]
  BY DEF AddToPage
<1>2. /\ c \in Capabilities /\ IsHeld(origin[c])
      /\ \A d \in Capabilities : IsHeld(origin[d]) /\ origin[d].sequence > pull[p].next =>
           origin[c].sequence <= origin[d].sequence
  BY <1>1 DEF NextChange
<1>3. DiscoveryIInv /\ DiscoveryTypes /\ PlacesOK BY DEF PassedIInv, DiscoveryIInv
<1>4. UNCHANGED <<clock, origin, peer, sequence, cursor, announced, repeated, evicted>>
  BY DEF AddToPage, history
<1>5. pull[p] \in PullRecords /\ pull \in [Pulls -> PullRecords] BY <1>3 DEF DiscoveryTypes
<1>6. PICK q : q = [pull[p] EXCEPT !.items = @ \cup {item(c)}, !.next = PlaceAfter(c)] OBVIOUS
<1>7. pull' = [pull EXCEPT ![p] = q] BY <1>1, <1>6
<1>8. item(c).name = c /\ item(c).value = Exported(c) OBVIOUS
<1> DEFINE it == item(c)
<1> HIDE DEF item, it
<1>9. q.items = pull[p].items \cup {it} /\ q.next = origin[c].sequence
  BY <1>5, <1>6 DEF PullRecords, PlaceAfter, it
<1>10. it.name = c /\ it.value = Exported(c) BY <1>8 DEF it
<1>11. ASSUME NEW d \in Capabilities, NEW x, IsAbout(d, x)'
       PROVE  IsAbout(d, x) \/ (d = c /\ x = Exported(c))
  <2>1. CASE x = origin'[d] \/ x = peer'[d] BY <1>4, <2>1 DEF IsAbout
  <2>2. CASE \E s \in Pulls : \E i \in pull'[s].items : i.name = d /\ i.value = x
    <3>1. PICK s \in Pulls : \E i \in pull'[s].items : i.name = d /\ i.value = x BY <2>2
    <3>2. PICK i \in pull'[s].items : i.name = d /\ i.value = x BY <3>1
    <3>3. i \in pull[s].items \/ i = it BY <1>5, <1>7, <1>9, <3>2
    <3> QED BY <1>10, <3>1, <3>2, <3>3 DEF IsAbout
  <2> QED BY <1>11, <2>1, <2>2 DEF IsAbout
<1>12. ASSUME NEW n, NEW page, IsPlace(n, page)'
       PROVE  IsPlace(n, page) \/ (n = origin[c].sequence /\ page = pull[p].items \cup {it})
  <2>1. CASE n = cursor' /\ page = {} BY <1>4, <2>1 DEF IsPlace
  <2>2. CASE \E s \in Pulls : n = pull'[s].next /\ page = pull'[s].items
    <3>1. PICK s \in Pulls : n = pull'[s].next /\ page = pull'[s].items BY <2>2
    <3>2. CASE s = p BY <1>5, <1>7, <1>9, <3>1, <3>2
    <3>3. CASE s # p BY <1>5, <1>7, <3>1, <3>3 DEF IsPlace
    <3> QED BY <3>2, <3>3
  <2> QED BY <1>12, <2>1, <2>2 DEF IsPlace
<1>13. /\ sequence \in Nat /\ clock \in Nat /\ origin[c] \in Entries
       /\ c \in Steady => WellMade(origin[c], clock)
       /\ announced[c] \in Nat /\ pull[p].next \in Nat
       /\ \A d \in Capabilities : origin[d] \in Entries
  BY <1>2, <1>3, <1>5, DiscoveryTypeOf DEF DiscoveryTypes, PullRecords
<1>14. PlacesOK'
  <2>1. origin[c].sequence <= sequence BY <1>2, <1>3, <1>13 DEF PlacesOK
  <2>2. \A n, page : IsPlace(n, page)' => n <= sequence'
    BY <1>3, <1>4, <1>12, <2>1 DEF PlacesOK
  <2> QED BY <1>3, <1>4, <2>2 DEF PlacesOK
\* What the page shows is the present version, or withdraws it for longer.
<1>15. ASSUME c \in Steady
       PROVE  LET x == Exported(c) IN
              /\ x \in Entries /\ Covers(x, origin[c]) /\ x.revision <= origin[c].revision + 1
              /\ x.revision <= origin[c].revision \/ origin[c].until <= x.until
  <2>1. PICK x : x = Exported(c) OBVIOUS
  <2>2. /\ x \in Entries
        /\ \/ /\ x.revision = origin[c].revision /\ x.until = origin[c].until
           \/ /\ IsRecord(origin[c]) /\ x.until = clock + RetainSeconds
              /\ x.revision = origin[c].revision + 1
    BY <1>2, <1>3, <2>1, ExportedIs
  <2>3. IsRecord(origin[c]) => origin[c].until <= clock + RetainSeconds
    BY <1>13, <1>15, Lives DEF WellMade, IsRecord, Entries
  <2>4. /\ x \in Entries /\ Covers(x, origin[c]) /\ x.revision <= origin[c].revision + 1
        /\ x.revision <= origin[c].revision \/ origin[c].until <= x.until
    BY <1>13, <2>2, <2>3, Lives DEF Covers, Entries
  <2> QED BY <2>1, <2>4
<1>16. ASSUME NEW d \in Steady PROVE RevisionsOK(d)'
  <2>1. RevisionsOK(d) /\ d \in Capabilities BY <1>16 DEF PassedIInv, Steady
  <2>2. CASE d # c
    <3>1. \A x : IsAbout(d, x)' => IsAbout(d, x) BY <1>11, <2>1, <2>2
    <3> QED BY <1>4, <2>1, <3>1, AlikeItself, RevisionsStay
  <2>3. CASE d = c
    <3>1. origin[c].revision = announced[c] BY <1>2, <2>1, <2>3 DEF RevisionsOK
    <3>2. PICK x : x = Exported(c) OBVIOUS
    <3>3. x.revision <= announced[c] + 1 /\ (x.revision <= announced[c] \/ origin[c].until <= x.until)
      BY <1>15, <1>16, <2>3, <3>1, <3>2
    <3>4. \A z : IsAbout(c, z)' => z = x \/ IsAbout(c, z) BY <1>11, <1>2, <3>2
    <3> QED BY <1>4, <2>1, <2>3, <3>1, <3>3, <3>4 DEF RevisionsOK
  <2> QED BY <2>2, <2>3
<1>17. ASSUME NEW d \in Steady, NEW n, NEW page, IsPlace(n, page)', IsBehind(d, n)'
       PROVE  Covers(peer[d], origin[d]) \/ \E i \in page : i.name = d /\ Covers(i.value, origin[d])
  <2>1. SeenOK(d) /\ IsBehind(d, n) /\ d \in Capabilities
    BY <1>4, <1>17 DEF PassedIInv, IsBehind, Steady
  <2>2. CASE IsPlace(n, page) BY <2>1, <2>2 DEF SeenOK, SeenAt
  <2>3. CASE n = origin[c].sequence /\ page = pull[p].items \cup {it}
    <3>1. CASE d = c BY <1>10, <1>15, <1>17, <2>3, <3>1
    <3>2. CASE d # c
      <4>1. origin[d].sequence # origin[c].sequence
        BY <1>2, <1>3, <2>1, <3>2 DEF PlacesOK, IsBehind
      <4>2. origin[d].sequence <= pull[p].next
        BY <1>2, <1>13, <2>1, <2>3, <4>1 DEF IsBehind, Entries
      <4>3. IsPlace(pull[p].next, pull[p].items) /\ IsBehind(d, pull[p].next)
        BY <2>1, <4>2 DEF IsPlace, IsBehind
      <4>4. Covers(peer[d], origin[d])
            \/ \E i \in pull[p].items : i.name = d /\ Covers(i.value, origin[d])
        BY <2>1, <4>3 DEF SeenOK, SeenAt
      <4> QED BY <2>3, <4>4
    <3> QED BY <3>1, <3>2
  <2> QED BY <1>12, <1>17, <2>2, <2>3
<1>18. ASSUME NEW d \in Steady PROVE SeenOK(d)'
  BY <1>4, <1>17, <1>18 DEF SeenOK, SeenAt
<1> QED BY <1>4, <1>14, <1>16, <1>18 DEF PassedIInv, Steady

LEMMA SameFields ==
  ASSUME NEW e \in Entries, NEW f \in Entries, Same(e, f)
  PROVE  e.revision = f.revision /\ e.until = f.until
<1>1. \A o \in Entries : Alike([o EXCEPT !.sequence = 0], o) BY DEF Entries, Alike
<1> QED BY <1>1 DEF Same, Alike

\* A change is covered by the entry that is applied, by the one that made it stale or a duplicate,
\* or by what replaces the one that covered it.
LEMMA AppliedCovers ==
  ASSUME PassedIInv, NEW c \in Steady, NEW y, IsAbout(c, y),
         ApplyResult(peer[c], y) # "conflict", NEW e,
         Alike(e, IF ApplyResult(peer[c], y) = "applied" THEN y ELSE peer[c]),
         IsHeld(origin[c]), clock < origin[c].until
  PROVE  /\ Covers(peer[c], origin[c]) => Covers(e, origin[c])
         /\ Covers(y, origin[c]) => Covers(e, origin[c])
<1> DEFINE o == origin[c]
           p == peer[c]
<1>1. DiscoveryIInv /\ RevisionsOK(c) /\ c \in Capabilities BY DEF PassedIInv, Steady
<1>2. /\ o \in Entries /\ p \in Entries /\ y \in Entries /\ clock \in Nat
      /\ WellMade(p, clock) /\ IsAbout(c, p)
  BY <1>1, DiscoveryTypeOf
<1>3. \A x \in {p, y} : x.revision > o.revision => o.until <= x.until
  BY <1>1, <1>2 DEF RevisionsOK, Entries
<1>4. ASSUME Covers(p, o), ApplyResult(p, y) = "applied" PROVE Covers(y, o)
  <2>1. IsHeld(p) BY <1>2, <1>4 DEF Covers, WellMade, IsHeld, Entries
  <2>2. p.revision < y.revision BY <1>2, <1>4, <2>1, AppliedIsNewer
  <2> QED BY <1>2, <1>3, <1>4, <2>2 DEF Covers, Entries
<1>5. ASSUME Covers(y, o), ApplyResult(p, y) # "applied" PROVE Covers(p, o)
  <2>1. (IsHeld(p) /\ y.revision < p.revision) \/ Same(y, p)
    BY <1>5 DEF ApplyResult
  <2>2. CASE Same(y, p) BY <1>2, <1>5, <2>2, SameFields DEF Covers
  <2>3. CASE y.revision < p.revision BY <1>2, <1>3, <1>5, <2>3 DEF Covers, Entries
  <2> QED BY <2>1, <2>2, <2>3
<1> QED BY <1>4, <1>5 DEF Covers, Alike

LEMMA PassedApplyItemStep ==
  ASSUME PassedIInv, DiscoveryIInv', NEW p \in Pulls, ApplyItem(p) PROVE PassedIInv'
<1>1. DiscoveryIInv /\ DiscoveryTypes /\ pull[p] \in PullRecords
  BY PageFields DEF PassedIInv, DiscoveryIInv
<1>2. PICK i \in pull[p].items : i \in PageItems /\ Applies(p, i) BY <1>1, ApplyItemApplies
<1> DEFINE c == i.name
           y == i.value
           z == [y EXCEPT !.sequence = peerSequence + 1]
           placed == Placed(peer, c, y, peerSequence + 1)
<1>3. c \in Capabilities /\ y \in Entries /\ IsAbout(c, y)
  BY <1>1, <1>2, PageFields DEF PageItems
<1>4. UNCHANGED <<clock, origin, sequence, cursor, announced, repeated>> BY <1>2 DEF Applies
<1>5. CASE pull' = [pull EXCEPT ![p] = NoPull] /\ UNCHANGED <<peer, evicted>>
  <2>1. /\ NoPull \in PullRecords /\ NoPull.items \subseteq pull[p].items /\ NoPull.next = 0
        /\ IsPlace(cursor', {})
    BY <1>4, Made DEF NoPull, IsPlace
  <2> QED BY <1>4, <1>5, <2>1, PullsPass
<1>6. CASE /\ ApplyResult(peer[c], y) # "conflict" /\ pull' = [pull EXCEPT ![p].items = @ \ {i}]
           /\ IF ApplyResult(peer[c], y) = "applied"
              THEN peer' = Enforced(placed) /\ evicted' = evicted \cup Dropped(placed)
              ELSE UNCHANGED <<peer, evicted>>
  <2>1. PICK q : q = [pull[p] EXCEPT !.items = @ \ {i}] OBVIOUS
  <2>2. q.items = pull[p].items \ {i} /\ q.next = pull[p].next
    BY <1>1, <2>1 DEF PullRecords
  <2>3. pull' = [pull EXCEPT ![p] = q] /\ pull \in [Pulls -> PullRecords]
    BY <1>1, <1>6, <2>1 DEF DiscoveryTypes
  <2>4. Steady' \subseteq Steady BY <1>4, <1>6 DEF Steady
  <2>5. /\ peer \in [Capabilities -> Entries] /\ peerSequence + 1 \in Nat
        /\ \A d \in Capabilities :
             /\ placed[d] = IF d = c THEN z ELSE peer[d]
             /\ Enforced(placed)[d] \in {placed[d], Nothing}
             /\ d \notin Dropped(placed) => Enforced(placed)[d] = placed[d]
    <3>1. /\ peer \in [Capabilities -> Entries] /\ peerSequence + 1 \in Nat
      BY <1>1 DEF DiscoveryTypes
    <3>2. /\ Enforced(placed) \in [Capabilities -> Entries]
          /\ \A d \in Capabilities :
               /\ placed[d] = IF d = c THEN [y EXCEPT !.sequence = peerSequence + 1] ELSE peer[d]
               /\ Enforced(placed)[d] \in {placed[d], Nothing}
               /\ d \notin Dropped(placed) => Enforced(placed)[d] = placed[d]
      <4> HIDE DEF c, y, placed
      <4> QED BY <1>3, <3>1, StoreKeeps DEF placed
    <3> QED BY <3>1, <3>2
  <2>6. Alike(z, y) BY <1>3, <2>5, PlaceIsNoMatter
  <2> HIDE DEF c, y, z, placed
  <2>7. ASSUME NEW d \in Steady'
        PROVE  peer'[d] = IF d = c /\ ApplyResult(peer[c], y) = "applied" THEN z ELSE peer[d]
    BY <1>6, <2>5, <2>7 DEF Steady
  <2>8. ASSUME NEW n, NEW page, IsPlace(n, page)'
        PROVE  IsPlace(n, page) \/ (n = pull[p].next /\ page = pull[p].items \ {i})
    <3>1. CASE n = cursor' /\ page = {} BY <1>4, <3>1 DEF IsPlace
    <3>2. CASE \E s \in Pulls : n = pull'[s].next /\ page = pull'[s].items
      <4>1. PICK s \in Pulls : n = pull'[s].next /\ page = pull'[s].items BY <3>2
      <4>2. CASE s = p BY <2>2, <2>3, <4>1, <4>2
      <4>3. CASE s # p BY <2>3, <4>1, <4>3 DEF IsPlace
      <4> QED BY <4>2, <4>3
    <3> QED BY <2>8, <3>1, <3>2 DEF IsPlace
  <2>9. IsPlace(pull[p].next, pull[p].items) BY DEF IsPlace
  <2>10. PlacesOK'
    <3>1. \A n, page : IsPlace(n, page)' => n <= sequence'
      BY <1>4, <2>8, <2>9 DEF PassedIInv, PlacesOK
    <3> QED BY <1>4, <3>1 DEF PassedIInv, PlacesOK
  <2>11. ASSUME NEW d \in Steady', NEW x, IsAbout(d, x)' PROVE \E w : IsAbout(d, w) /\ Alike(x, w)
    <3>1. CASE x = peer'[d] /\ d = c /\ ApplyResult(peer[c], y) = "applied"
      BY <1>3, <2>6, <2>7, <3>1
    <3>2. CASE ~(x = peer'[d] /\ d = c /\ ApplyResult(peer[c], y) = "applied")
      <4>1. \A s \in Pulls : pull'[s].items \subseteq pull[s].items BY <2>2, <2>3
      <4>2. IsAbout(d, x) BY <1>4, <2>7, <2>11, <3>2, <4>1 DEF IsAbout
      <4> QED BY <4>2, AlikeItself
    <3> QED BY <3>1, <3>2
  <2>12. ASSUME NEW d \in Steady' PROVE RevisionsOK(d)'
    <3>1. d \in Capabilities /\ RevisionsOK(d) BY <2>4, <2>12 DEF PassedIInv, Steady
    <3> QED BY <1>4, <2>11, <2>12, <3>1, RevisionsStay
  <2>13. ASSUME NEW d \in Steady', IsHeld(origin[d]), clock < origin[d].until
         PROVE  /\ Covers(peer[d], origin[d]) => Covers(peer'[d], origin[d])
                /\ d = c /\ Covers(y, origin[d]) => Covers(peer'[d], origin[d])
    <3>1. CASE d # c BY <2>7, <2>13, <3>1
    <3>2. CASE d = c
      <4>1. PICK e : e = peer'[d] OBVIOUS
      <4>2. Alike(e, IF ApplyResult(peer[d], y) = "applied" THEN y ELSE peer[d])
        BY <2>6, <2>7, <2>13, <3>2, <4>1, AlikeItself
      <4>3. d \in Steady /\ ApplyResult(peer[d], y) # "conflict" /\ IsAbout(d, y)
        BY <1>3, <1>6, <2>4, <2>13, <3>2
      <4> QED BY <2>13, <4>1, <4>2, <4>3, AppliedCovers
    <3> QED BY <3>1, <3>2
  <2>14. ASSUME NEW d \in Steady', NEW n, NEW page, IsPlace(n, page)', IsBehind(d, n)'
         PROVE  Covers(peer'[d], origin[d]) \/ \E j \in page : j.name = d /\ Covers(j.value, origin[d])
    <3>1. SeenOK(d) /\ IsBehind(d, n) /\ d \in Capabilities
      BY <1>4, <2>4, <2>14 DEF PassedIInv, IsBehind, Steady
    <3>2. IsHeld(origin[d]) /\ clock < origin[d].until
      BY <1>1, <3>1, DiscoveryTypeOf DEF IsBehind, Entries
    <3>3. PICK all : IsPlace(n, all) /\ all \ {i} \subseteq page
      BY <2>8, <2>9, <2>14
    <3>4. Covers(peer[d], origin[d]) \/ \E j \in all : j.name = d /\ Covers(j.value, origin[d])
      BY <3>1, <3>3 DEF SeenOK, SeenAt
    <3>5. CASE Covers(peer[d], origin[d]) BY <2>13, <2>14, <3>2, <3>5
    <3>6. ASSUME NEW j \in all, j.name = d, Covers(j.value, origin[d])
          PROVE  Covers(peer'[d], origin[d])
                 \/ \E k \in page : k.name = d /\ Covers(k.value, origin[d])
      <4>1. CASE j = i BY <2>13, <2>14, <3>2, <3>6, <4>1 DEF c, y
      <4>2. CASE j # i BY <3>3, <3>6, <4>2
      <4> QED BY <4>1, <4>2
    <3> QED BY <3>4, <3>5, <3>6
  <2>15. ASSUME NEW d \in Steady' PROVE SeenOK(d)'
    BY <1>4, <2>14, <2>15 DEF SeenOK, SeenAt
  <2> QED BY <2>10, <2>12, <2>15 DEF PassedIInv
<1> QED
  <2>1. "applied" # "conflict" OBVIOUS
  <2> QED BY <1>2, <1>5, <1>6, <2>1 DEF Applies

\* What has ended counts no longer, at the origin or at the peer.
LEMMA PassedPruneSteps ==
  ASSUME PassedIInv, DiscoveryIInv', PruneOrigin \/ PrunePeer PROVE PassedIInv'
<1>1. /\ UNCHANGED <<clock, sequence, cursor, pull, announced, repeated, evicted>>
      /\ \/ origin' = Pruned(origin) /\ peer' = peer
         \/ origin' = origin /\ peer' = Pruned(peer)
  BY DEF PruneOrigin, PrunePeer, history
<1>2. DiscoveryIInv /\ DiscoveryTypes BY DEF PassedIInv, DiscoveryIInv
<1>3. /\ clock \in Nat /\ sequence \in Nat /\ origin \in [Capabilities -> Entries]
      /\ peer \in [Capabilities -> Entries] /\ announced \in [Capabilities -> Nat]
  BY <1>2 DEF DiscoveryTypes
<1>4. /\ Nothing \in Entries /\ Nothing.revision = 0 /\ ~IsHeld(Nothing)
  BY Made DEF IsHeld
<1>5. ASSUME NEW c \in Capabilities
      PROVE  /\ origin'[c] = origin[c] \/ (origin'[c] = Nothing /\ origin[c].until <= clock)
             /\ peer'[c] = peer[c] \/ (peer'[c] = Nothing /\ peer[c].until <= clock)
  BY <1>1 DEF Pruned
<1>6. \A n, page : IsPlace(n, page)' <=> IsPlace(n, page) BY <1>1 DEF IsPlace
<1>7. PlacesOK' BY <1>1, <1>4, <1>5, <1>6 DEF PassedIInv, PlacesOK
<1>8. ASSUME NEW c \in Capabilities, NEW x, IsAbout(c, x)' PROVE x = Nothing \/ IsAbout(c, x)
  BY <1>1, <1>5, <1>8 DEF IsAbout
<1>9. ASSUME NEW c \in Steady PROVE RevisionsOK(c)'
  <2>1. RevisionsOK(c) /\ announced[c] \in Nat /\ c \in Capabilities
    BY <1>3, <1>9 DEF PassedIInv, Steady
  <2>2. Nothing.revision <= announced[c] + 1 /\ Nothing.revision <= announced[c] BY <1>4, <2>1
  <2>3. IsHeld(origin'[c]) => origin'[c] = origin[c] BY <1>4, <1>5, <2>1
  <2> QED BY <1>1, <1>8, <2>1, <2>2, <2>3 DEF RevisionsOK
<1>10. ASSUME NEW c \in Steady PROVE SeenOK(c)'
  <2>1. c \in Capabilities BY <1>10 DEF Steady
  <2>2. ASSUME NEW n, NEW page, IsPlace(n, page)', IsBehind(c, n)'
        PROVE  Covers(peer'[c], origin'[c]) \/ \E i \in page : i.name = c /\ Covers(i.value, origin'[c])
    <3>1. origin'[c] = origin[c] BY <1>4, <1>5, <2>2, <2>1 DEF IsBehind
    <3>2. SeenOK(c) /\ IsPlace(n, page) /\ IsBehind(c, n)
      BY <1>1, <1>6, <1>10, <2>2, <3>1 DEF PassedIInv, IsBehind
    <3>3. Covers(peer[c], origin[c]) \/ \E i \in page : i.name = c /\ Covers(i.value, origin[c])
      BY <3>2 DEF SeenOK, SeenAt
    <3>4. Covers(peer[c], origin[c]) => peer'[c] = peer[c]
      BY <1>3, <1>5, <2>1, <3>2 DEF Covers, IsBehind, Entries
    <3> QED BY <3>1, <3>3, <3>4
  <2> QED BY <2>2 DEF SeenOK, SeenAt
<1> QED BY <1>1, <1>7, <1>9, <1>10 DEF PassedIInv, Steady

LEMMA PassedStart == DiscoveryInit => PassedIInv
<1> SUFFICES ASSUME DiscoveryInit PROVE PassedIInv OBVIOUS
<1>1. \A c \in Capabilities : ~IsHeld(origin[c])
  BY Made DEF DiscoveryInit, IsHeld
<1>2. \A n, page : IsPlace(n, page) => n = 0
  BY DEF DiscoveryInit, IsPlace, NoPull
<1>3. PlacesOK BY <1>1, <1>2 DEF PlacesOK, DiscoveryInit
<1>4. ASSUME NEW c \in Capabilities PROVE RevisionsOK(c) /\ SeenOK(c)
  <2>1. \A x : IsAbout(c, x) => x = Nothing BY Made DEF DiscoveryInit, IsAbout
  <2>2. RevisionsOK(c) BY <1>1, <2>1, Made DEF RevisionsOK, DiscoveryInit
  <2>3. SeenOK(c) BY <1>1 DEF SeenOK, SeenAt, IsBehind
  <2> QED BY <2>2, <2>3
<1> QED BY <1>3, <1>4, DiscoveryStart DEF PassedIInv, Steady

LEMMA PassedStepKeeps == PassedIInv /\ [DiscoveryNext]_discoveryVars => PassedIInv'
<1> SUFFICES ASSUME PassedIInv, [DiscoveryNext]_discoveryVars PROVE PassedIInv' OBVIOUS
<1>0. DiscoveryIInv' BY DiscoveryStepKeeps DEF PassedIInv
<1>1. ASSUME NEW c \in Capabilities, ChangeDirectory(c) \/ ChangePolicy(c) \/ Export(c)
      PROVE  PassedIInv'
  BY <1>0, <1>1, PassedQuietSteps, PassedExportStep
<1>2. ASSUME NEW p \in Pulls,
             SendPull(p) \/ AddToPage(p) \/ EndPage(p) \/ ApplyItem(p) \/ EndPull(p) \/ LosePull(p)
      PROVE  PassedIInv'
  BY <1>0, <1>2, PassedPullSteps, PassedAddToPageStep, PassedApplyItemStep
<1>3. CASE RequestRefresh \/ StartRefresh \/ FailRefresh \/ EndRefresh \/ DiscoveryTick
  BY <1>0, <1>3, PassedQuietSteps
<1>4. CASE PruneOrigin \/ PrunePeer BY <1>0, <1>4, PassedPruneSteps
<1>5. CASE UNCHANGED discoveryVars BY <1>0, <1>5, PassedQuietSteps
<1> QED BY <1>1, <1>2, <1>3, <1>4, <1>5 DEF DiscoveryNext

\* Whatever calls overlap, fail or come late, the peer has seen each change that lies behind its
\* cursor, as it is or as a later one, until it has come to its end: for every capability of which
\* no store has dropped an entry to make room and whose revisions have not started again.
THEOREM CursorPassesNothing == DiscoverySpec => []NothingPassedOver
<1>1. PassedIInv => NothingPassedOver
  <2> SUFFICES ASSUME PassedIInv, NEW c \in Steady, IsBehind(c, cursor)
               PROVE  peer[c].revision >= origin[c].revision
    BY DEF NothingPassedOver, IsBehind, Steady
  <2>1. IsPlace(cursor, {}) BY DEF IsPlace
  <2>2. Covers(peer[c], origin[c]) BY <2>1 DEF PassedIInv, SeenOK, SeenAt
  <2>3. peer[c].revision \in Nat /\ origin[c].revision \in Nat
    BY DEF PassedIInv, DiscoveryIInv, DiscoveryTypes, Entries, Steady
  <2> QED BY <2>2, <2>3 DEF Covers
<1> QED BY <1>1, PassedStart, PassedStepKeeps, PTL DEF DiscoverySpec
=============================================================================
