--------------------------- MODULE ConnectorProofs ---------------------------
(***************************************************************************)
(* Theorems about the connectors' side.  Recovery with ConnectorIngress,   *)
(* for any ingresses, workers, requests, lapses and failures: only the     *)
(* holder of a claim settles its ingress, and as it deserves.              *)
(* CalendarExecutor, for any executions, versions, attempts and changes by *)
(* others: what is answered once is what is answered ever after, and no    *)
(* change writes over another unawares.                                    *)
(***************************************************************************)
EXTENDS Recovery, CalendarExecutor, FiniteSetTheorems, TLAPS

-----------------------------------------------------------------------------
(* Ingresses: the inductive invariant. *)

IngressStates == {"absent", "pending", "processing", "retry_wait", "completed", "dead_letter"}
IngressRecords ==
  [state : IngressStates, attempt : Nat, token : Nat, leased : BOOLEAN, due : BOOLEAN]
Claims == [id : Ingresses, token : Nat, attempt : Nat]
WorkerPcs ==
  {"idle", "map", "renew", "effect", "renew for receipt", "receipt", "complete", "fail"}
WorkerRecords == [pc : WorkerPcs, batch : Seq(Claims), again : BOOLEAN]

IngressesTyped ==
  /\ ingress \in [Ingresses -> IngressRecords]
  /\ \A i \in Ingresses :
       ingress[i].attempt = ingress[i].token /\ (ingress[i].state = "absent" => ingress[i].token = 0)

WorkersTyped ==
  /\ worker \in [ConnectorWorkers -> WorkerRecords]
  /\ \A w \in ConnectorWorkers : worker[w].pc # "idle" => worker[w].batch # <<>>

\* A claim is no newer than its ingress, and the newest one is known by its token.
Current(c) == c.token = ingress[c.id].token
ClaimOK(c) == c.token <= ingress[c.id].token /\ c.attempt = c.token

\* Nobody but the holder of the newest claim has settled the ingress; if the holder is about
\* to report a failure, it may have completed it without knowing.
Unsettled(u) ==
  \A k \in DOMAIN u.batch : Current(u.batch[k]) =>
    \/ ingress[u.batch[k].id].state = "processing"
    \/ k = 1 /\ u.pc = "fail" /\ ingress[u.batch[k].id].state = "completed"

\* What has been done for the first claim of a batch.
Done(i) ==
  /\ KindOf[i] # "ignored" => i \in effects
  /\ (KindOf[i] = "command" /\ KeepsReceipts) => i \in receiptsKept

HeadOK(u) ==
  /\ u.pc \in {"renew for receipt", "receipt"} => u.batch[1].id \in effects
  /\ u.pc = "complete" => Done(u.batch[1].id)
  /\ (u.pc = "fail" /\ ~u.again) =>
       (Current(u.batch[1]) /\ ingress[u.batch[1].id].state = "processing" =>
          u.batch[1].id \in refused)

WorkerOK(u) == (\A k \in DOMAIN u.batch : ClaimOK(u.batch[k])) /\ Unsettled(u) /\ HeadOK(u)

\* Claims of one ingress have different tokens.
Differ(c, d) == c.id = d.id => c.token # d.token
Distinct(b) == \A j, k \in DOMAIN b : j # k => Differ(b[j], b[k])
Apart(b, d) == \A j \in DOMAIN b, k \in DOMAIN d : Differ(b[j], d[k])

ClaimsDiffer ==
  /\ \A w \in ConnectorWorkers : Distinct(worker[w].batch)
  /\ \A w, v \in ConnectorWorkers : w # v => Apart(worker[w].batch, worker[v].batch)

Deserved(i) ==
  /\ ingress[i].state = "completed" => Done(i)
  /\ ingress[i].state = "dead_letter" => i \in refused \/ ingress[i].attempt >= MaxAttempts

ConnectorIInv ==
  /\ IngressesTyped /\ WorkersTyped /\ ClaimsDiffer
  /\ \A w \in ConnectorWorkers : WorkerOK(worker[w])
  /\ \A i \in Ingresses : Deserved(i)

-----------------------------------------------------------------------------
(* Moves. *)

\* A worker that is not idle has a first claim.
LEMMA FirstClaim ==
  ASSUME ConnectorIInv, NEW w \in ConnectorWorkers, worker[w].pc # "idle"
  PROVE  /\ Mine(w) = worker[w].batch[1] /\ Mine(w) \in Claims /\ 1 \in DOMAIN worker[w].batch
         /\ worker[w].batch \in Seq(Claims) /\ worker[w].batch # <<>>
         /\ WorkerOK(worker[w]) /\ worker[w] \in WorkerRecords
<1>1. worker[w] \in WorkerRecords /\ worker[w].batch # <<>>
  BY DEF ConnectorIInv, WorkersTyped
<1>2. worker[w].batch \in Seq(Claims)
  BY <1>1 DEF WorkerRecords
<1>3. 1 \in DOMAIN worker[w].batch /\ worker[w].batch[1] \in Claims
  BY <1>1, <1>2
<1> QED BY <1>1, <1>2, <1>3 DEF Mine, ConnectorIInv

\* A worker moves on with its batch, or is left without one.
LEMMA WorkerMoves ==
  ASSUME ConnectorIInv, NEW w \in ConnectorWorkers, NEW u \in WorkerRecords,
         worker' = [worker EXCEPT ![w] = u], UNCHANGED ingress,
         effects \subseteq effects', receiptsKept \subseteq receiptsKept', refused \subseteq refused',
         \/ u.batch = worker[w].batch /\ worker[w].pc \notin {"idle", "fail"}
         \/ u.batch = <<>> /\ u.pc = "idle",
         HeadOK(u)'
  PROVE  ConnectorIInv'
<1>1. worker'[w] = u /\ \A v \in ConnectorWorkers \ {w} : worker'[v] = worker[v]
  BY DEF ConnectorIInv, WorkersTyped
<1>2. IngressesTyped'
  BY DEF ConnectorIInv, IngressesTyped
<1>3. WorkersTyped'
  BY <1>1 DEF ConnectorIInv, WorkersTyped
<1>4. ClaimsDiffer'
  BY <1>1 DEF ConnectorIInv, ClaimsDiffer, Distinct, Apart
<1>5. ASSUME NEW v \in ConnectorWorkers \ {w} PROVE WorkerOK(worker[v])'
  <2>1. WorkerOK(worker[v])
    BY DEF ConnectorIInv
  <2>2. worker'[v] = worker[v]
    BY <1>1
  <2> QED BY <2>1, <2>2 DEF WorkerOK, ClaimOK, Current, Unsettled, HeadOK, Done
<1>6. WorkerOK(u)'
  <2>1. WorkerOK(worker[w])
    BY DEF ConnectorIInv
  <2>2. (\A k \in DOMAIN u.batch : ClaimOK(u.batch[k]))' /\ Unsettled(u)'
    BY <2>1 DEF WorkerOK, ClaimOK, Current, Unsettled
  <2> QED BY <2>2 DEF WorkerOK
<1>7. \A i \in Ingresses : Deserved(i)'
  BY DEF ConnectorIInv, Deserved, Done
<1> QED BY <1>1, <1>2, <1>3, <1>4, <1>5, <1>6, <1>7 DEF ConnectorIInv

LEMMA NoBatchOK == NoBatch \in WorkerRecords /\ NoBatch.batch = <<>> /\ NoBatch.pc = "idle" /\ HeadOK(NoBatch)
BY DEF NoBatch, WorkerRecords, WorkerPcs, HeadOK

LEMMA WorkerDrops ==
  ASSUME ConnectorIInv, NEW w \in ConnectorWorkers, Drops(w), UNCHANGED <<ingress, outside>>
  PROVE  ConnectorIInv'
<1>1. HeadOK(NoBatch)'
  BY DEF NoBatch, HeadOK
<1> QED BY <1>1, NoBatchOK, WorkerMoves DEF Drops, outside

\* A worker goes on, or is about to report a failure, with the batch it has.
LEMMA WorkerGoes ==
  ASSUME ConnectorIInv, NEW w \in ConnectorWorkers, worker[w].pc \notin {"idle", "fail"},
         NEW pc \in WorkerPcs \ {"idle", "fail"}, Goes(w, pc), UNCHANGED <<ingress, refused>>,
         effects \subseteq effects', receiptsKept \subseteq receiptsKept',
         NEW i, i = Mine(w).id,
         pc \in {"renew for receipt", "receipt"} => i \in effects',
         pc = "complete" => Done(i)'
  PROVE  ConnectorIInv'
<1>1. PICK u : u = [worker[w] EXCEPT !.pc = pc]
  OBVIOUS
<1>2. u \in WorkerRecords /\ u.pc = pc /\ u.batch = worker[w].batch
  BY <1>1, FirstClaim DEF WorkerRecords
<1>3. worker' = [worker EXCEPT ![w] = u]
  BY <1>1 DEF Goes
<1>4. HeadOK(u)'
  BY <1>2, FirstClaim DEF HeadOK
<1> QED BY <1>2, <1>3, <1>4, WorkerMoves

LEMMA WorkerFails ==
  ASSUME ConnectorIInv, NEW w \in ConnectorWorkers, worker[w].pc \notin {"idle", "fail"},
         NEW again \in BOOLEAN, Failing(w, again), UNCHANGED ingress,
         effects \subseteq effects', receiptsKept \subseteq receiptsKept', refused \subseteq refused',
         ~again => Mine(w).id \in refused'
  PROVE  ConnectorIInv'
<1>1. PICK u : u = [worker[w] EXCEPT !.pc = "fail", !.again = again]
  OBVIOUS
<1>2. /\ u \in WorkerRecords /\ u.pc = "fail" /\ u.again = again
      /\ u.batch = worker[w].batch
  BY <1>1, FirstClaim DEF WorkerRecords, WorkerPcs
<1>3. worker' = [worker EXCEPT ![w] = u]
  BY <1>1 DEF Failing
<1>4. HeadOK(u)'
  BY <1>2, FirstClaim DEF HeadOK
<1> QED BY <1>2, <1>3, <1>4, WorkerMoves

\* The holder of the newest claim, the first of its batch, settles its ingress.
LEMMA ClaimSettles ==
  ASSUME ConnectorIInv, NEW w \in ConnectorWorkers, worker[w].pc \notin {"idle"},
         NEW c, c = Mine(w), IsMine(c),
         NEW end \in {"completed", "dead_letter", "retry_wait"}, ingress' = Settled(c.id, end),
         end = "completed" => Done(c.id),
         end = "dead_letter" => c.id \in refused \/ c.attempt >= MaxAttempts,
         UNCHANGED outside,
         NEW u \in WorkerRecords, worker' = [worker EXCEPT ![w] = u],
         \/ u = NoBatch
         \/ u.pc = "map" /\ u.batch = Tail(worker[w].batch) /\ Len(worker[w].batch) # 1
         \/ u.pc = "fail" /\ u.again /\ u.batch = worker[w].batch /\ end = "completed"
  PROVE  ConnectorIInv'
<1>1. /\ c = worker[w].batch[1] /\ c \in Claims /\ 1 \in DOMAIN worker[w].batch
      /\ worker[w].batch \in Seq(Claims) /\ worker[w].batch # <<>>
      /\ WorkerOK(worker[w])
  BY FirstClaim
<1>2. /\ c.id \in Ingresses /\ ingress[c.id].token = c.token
      /\ ingress[c.id].state = "processing" /\ ingress[c.id].attempt = c.attempt
  <2>1. c.id \in Ingresses /\ c.attempt = c.token
    BY <1>1 DEF Claims, WorkerOK, ClaimOK
  <2> QED BY <2>1 DEF IsMine, ConnectorIInv, IngressesTyped
<1>3. worker'[w] = u /\ \A v \in ConnectorWorkers \ {w} : worker'[v] = worker[v]
  BY DEF ConnectorIInv, WorkersTyped
<1>4. /\ ingress' \in [Ingresses -> IngressRecords]
      /\ ingress'[c.id].state = end
      /\ \A i \in Ingresses : ingress'[i].token = ingress[i].token /\ ingress'[i].attempt = ingress[i].attempt
      /\ \A i \in Ingresses \ {c.id} : ingress'[i].state = ingress[i].state
  <2>1. ingress \in [Ingresses -> IngressRecords]
    BY DEF ConnectorIInv, IngressesTyped
  <2> QED BY <1>2, <2>1 DEF Settled, IngressRecords, IngressStates
<1>5. IngressesTyped'
  BY <1>2, <1>4 DEF ConnectorIInv, IngressesTyped
<1>6. /\ DOMAIN Tail(worker[w].batch) = 1..(Len(worker[w].batch) - 1)
      /\ \A k \in DOMAIN Tail(worker[w].batch) :
           /\ k + 1 \in DOMAIN worker[w].batch /\ k + 1 # 1
           /\ Tail(worker[w].batch)[k] = worker[w].batch[k + 1]
  BY <1>1
<1>7. \A k \in DOMAIN u.batch : \E j \in DOMAIN worker[w].batch :
        /\ u.batch[k] = worker[w].batch[j]
        /\ j = 1 => (k = 1 /\ u.pc = "fail" /\ end = "completed")
  <2>1. CASE u = NoBatch
    BY <2>1, NoBatchOK
  <2>2. CASE u.batch = Tail(worker[w].batch)
    BY <2>2, <1>6
  <2>3. CASE u.pc = "fail" /\ u.batch = worker[w].batch /\ end = "completed"
    BY <2>3
  <2> QED BY <2>1, <2>2, <2>3
<1>8. \A j, k \in DOMAIN u.batch : j # k => Differ(u.batch[j], u.batch[k])
  <2>1. Distinct(worker[w].batch)
    BY DEF ConnectorIInv, ClaimsDiffer
  <2>2. CASE u = NoBatch
    BY <2>2, NoBatchOK
  <2>3. CASE u.batch = Tail(worker[w].batch)
    BY <2>1, <2>3, <1>6 DEF Distinct
  <2>4. CASE u.batch = worker[w].batch
    BY <2>1, <2>4 DEF Distinct
  <2> QED BY <2>2, <2>3, <2>4
<1>9. ClaimsDiffer'
  <2>1. \A v \in ConnectorWorkers \ {w} : Apart(u.batch, worker[v].batch) /\ Apart(worker[v].batch, u.batch)
    BY <1>7 DEF ConnectorIInv, ClaimsDiffer, Apart, Differ
  <2> QED BY <1>3, <1>8, <2>1 DEF ConnectorIInv, ClaimsDiffer, Distinct
<1>10. WorkersTyped'
  <2>1. Len(worker[w].batch) # 1 => Tail(worker[w].batch) # <<>>
    <3>1. PICK b, t : b = worker[w].batch /\ t = Tail(b)
      OBVIOUS
    <3>2. b \in Seq(Claims) /\ b # <<>>
      BY <1>1, <3>1
    <3>3. Len(b) \in Nat /\ Len(b) # 0 /\ Len(t) = Len(b) - 1
      BY <3>1, <3>2
    <3>4. Len(<<>>) = 0
      OBVIOUS
    <3>5. Len(b) # 1 => t # <<>>
      BY <3>3, <3>4
    <3> QED BY <3>1, <3>5
  <2>2. u.pc # "idle" => u.batch # <<>>
    BY <2>1, <1>1, NoBatchOK
  <2> QED BY <1>3, <2>2 DEF ConnectorIInv, WorkersTyped
<1>11. ASSUME NEW v \in ConnectorWorkers \ {w} PROVE WorkerOK(worker[v])'
  <2>1. WorkerOK(worker[v]) /\ worker'[v] = worker[v] /\ worker[v] \in WorkerRecords
    BY <1>3 DEF ConnectorIInv, WorkersTyped
  <2>2. PICK r : r = worker[v]
    OBVIOUS
  <2>3. \A k \in DOMAIN r.batch : r.batch[k] \in Claims /\ (Current(r.batch[k]) => r.batch[k].id # c.id)
    <3>1. Apart(r.batch, worker[w].batch)
      BY <2>2 DEF ConnectorIInv, ClaimsDiffer
    <3>2. r.batch \in Seq(Claims)
      BY <2>1, <2>2 DEF WorkerRecords
    <3> QED BY <1>1, <1>2, <3>1, <3>2 DEF Apart, Differ, Current
  <2>4. \A k \in DOMAIN r.batch : ClaimOK(r.batch[k])' /\ (Current(r.batch[k])' <=> Current(r.batch[k]))
    BY <1>4, <2>1, <2>2, <2>3 DEF WorkerOK, ClaimOK, Current, Claims
  <2>5. Unsettled(r)'
    BY <1>4, <2>1, <2>2, <2>3, <2>4 DEF WorkerOK, Unsettled, Claims
  <2>6. HeadOK(r)'
    <3>1. r.pc # "idle" => 1 \in DOMAIN r.batch
      BY <2>1, <2>2 DEF ConnectorIInv, WorkersTyped, WorkerRecords
    <3> QED BY <1>4, <2>1, <2>2, <2>3, <2>4, <3>1 DEF WorkerOK, HeadOK, Done, outside, Claims
  <2> QED BY <2>1, <2>2, <2>4, <2>5, <2>6 DEF WorkerOK
<1>12. WorkerOK(u)'
  <2>1. \A k \in DOMAIN u.batch : ClaimOK(u.batch[k])'
    <3>1. ASSUME NEW k \in DOMAIN u.batch PROVE ClaimOK(u.batch[k])'
      <4>1. PICK d : d = u.batch[k]
        OBVIOUS
      <4>2. d \in Claims /\ ClaimOK(d)
        BY <1>1, <1>7, <4>1 DEF WorkerOK
      <4>3. ClaimOK(d)'
        BY <1>4, <4>2 DEF ClaimOK, Claims
      <4> QED BY <4>1, <4>3
    <3> QED BY <3>1
  <2>2. ASSUME NEW j \in DOMAIN worker[w].batch, j # 1
        PROVE  /\ worker[w].batch[j] \in Claims
               /\ Current(worker[w].batch[j]) => worker[w].batch[j].id # c.id
    <3>1. Differ(worker[w].batch[j], c)
      BY <1>1, <2>2 DEF ConnectorIInv, ClaimsDiffer, Distinct
    <3> QED BY <1>1, <1>2, <2>2, <3>1 DEF Differ, Current
  <2>3. Unsettled(u)'
    <3> SUFFICES ASSUME NEW k \in DOMAIN u.batch, Current(u.batch[k])'
                 PROVE  \/ ingress'[u.batch[k].id].state = "processing"
                        \/ k = 1 /\ u.pc = "fail" /\ ingress'[u.batch[k].id].state = "completed"
      BY DEF Unsettled
    <3>1. PICK j \in DOMAIN worker[w].batch :
            /\ u.batch[k] = worker[w].batch[j]
            /\ j = 1 => (k = 1 /\ u.pc = "fail" /\ end = "completed")
      BY <1>7
    <3>2. CASE j = 1
      BY <3>1, <3>2, <1>1, <1>4
    <3>3. CASE j # 1
      <4>1. worker[w].batch[j].id # c.id /\ worker[w].batch[j].id \in Ingresses /\ Current(worker[w].batch[j])
        BY <2>2, <3>1, <3>3, <1>4 DEF Current, Claims
      <4> QED BY <1>1, <1>4, <3>1, <3>3, <4>1 DEF WorkerOK, Unsettled
    <3> QED BY <3>2, <3>3
  <2>4. HeadOK(u)'
    BY NoBatchOK DEF HeadOK
  <2> QED BY <2>1, <2>3, <2>4 DEF WorkerOK
<1>13. \A i \in Ingresses : Deserved(i)'
  BY <1>2, <1>4 DEF ConnectorIInv, Deserved, Done, outside
<1> QED BY <1>3, <1>5, <1>9, <1>10, <1>11, <1>12, <1>13 DEF ConnectorIInv

\* The records of ingresses that nobody holds, or their leases and delays, change.
LEMMA IngressChanges ==
  ASSUME ConnectorIInv, NEW i \in Ingresses, NEW r \in IngressRecords,
         ingress' = [ingress EXCEPT ![i] = r],
         r.token = ingress[i].token, r.attempt = ingress[i].attempt, r.state # "absent",
         \/ r.state = ingress[i].state
         \/ ingress[i].state \in {"absent", "dead_letter"} /\ r.state \in {"pending", "retry_wait"},
         refused' = refused \/ (ingress[i].state = "dead_letter" /\ r.state # "dead_letter"
                                /\ refused' = refused \ {i}),
         UNCHANGED <<worker, effects, receiptsKept>>
  PROVE  ConnectorIInv'
<1>1. /\ ingress' \in [Ingresses -> IngressRecords] /\ ingress'[i] = r
      /\ \A j \in Ingresses : ingress'[j].token = ingress[j].token /\ ingress'[j].attempt = ingress[j].attempt
      /\ \A j \in Ingresses \ {i} : ingress'[j] = ingress[j]
  BY DEF ConnectorIInv, IngressesTyped
<1>2. IngressesTyped'
  BY <1>1 DEF ConnectorIInv, IngressesTyped
<1>3. WorkersTyped' /\ ClaimsDiffer'
  BY DEF ConnectorIInv, WorkersTyped, ClaimsDiffer, Distinct, Apart
<1>4. ASSUME NEW w \in ConnectorWorkers PROVE WorkerOK(worker[w])'
  <2>1. PICK u : u = worker[w]
    OBVIOUS
  <2>2. /\ u \in WorkerRecords /\ WorkerOK(u) /\ u.batch \in Seq(Claims)
        /\ u.pc # "idle" => 1 \in DOMAIN u.batch
    BY <2>1 DEF ConnectorIInv, WorkersTyped, WorkerRecords
  <2>3. \A k \in DOMAIN u.batch :
          /\ u.batch[k] \in Claims /\ ClaimOK(u.batch[k])'
          /\ Current(u.batch[k])' <=> Current(u.batch[k])
    <3> SUFFICES ASSUME NEW k \in DOMAIN u.batch
                 PROVE  /\ u.batch[k] \in Claims /\ ClaimOK(u.batch[k])'
                        /\ Current(u.batch[k])' <=> Current(u.batch[k])
      OBVIOUS
    <3>1. u.batch[k] \in Claims /\ ClaimOK(u.batch[k])
      BY <2>2 DEF WorkerOK
    <3> QED BY <1>1, <3>1 DEF ClaimOK, Current, Claims
  <2>4. Unsettled(u)'
    <3> SUFFICES ASSUME NEW k \in DOMAIN u.batch, Current(u.batch[k])
                 PROVE  \/ ingress'[u.batch[k].id].state = "processing"
                        \/ k = 1 /\ u.pc = "fail" /\ ingress'[u.batch[k].id].state = "completed"
      BY <2>3 DEF Unsettled
    <3>1. \/ ingress[u.batch[k].id].state = "processing"
          \/ k = 1 /\ u.pc = "fail" /\ ingress[u.batch[k].id].state = "completed"
      BY <2>2 DEF WorkerOK, Unsettled
    <3>2. u.batch[k].id \in Ingresses
      BY <2>3 DEF Claims
    <3> QED BY <1>1, <3>1, <3>2
  <2>5. HeadOK(u)'
    <3>1. ASSUME u.pc = "fail", ~u.again, Current(u.batch[1]), ingress'[u.batch[1].id].state = "processing"
          PROVE  u.batch[1].id \in refused'
      <4>1. u.batch[1].id \in Ingresses /\ 1 \in DOMAIN u.batch
        BY <2>2, <2>3, <3>1 DEF Claims
      <4>2. ingress[u.batch[1].id].state = "processing"
        BY <1>1, <3>1, <4>1
      <4> QED BY <2>2, <3>1, <4>1, <4>2 DEF WorkerOK, HeadOK
    <3> QED BY <2>2, <2>3, <3>1 DEF WorkerOK, HeadOK, Done
  <2> QED BY <2>1, <2>3, <2>4, <2>5 DEF WorkerOK
<1>5. ASSUME NEW j \in Ingresses PROVE Deserved(j)'
  <2>1. Deserved(j)
    BY DEF ConnectorIInv
  <2> QED BY <1>1, <2>1 DEF Deserved, Done
<1> QED BY <1>2, <1>3, <1>4, <1>5 DEF ConnectorIInv

LEMMA IngressFields ==
  ASSUME NEW r \in IngressRecords, NEW state \in IngressStates, NEW leased \in BOOLEAN, NEW due \in BOOLEAN
  PROVE  \A s : s = [r EXCEPT !.state = state, !.leased = leased, !.due = due] =>
           /\ s \in IngressRecords /\ s.state = state /\ s.leased = leased /\ s.due = due
           /\ s.token = r.token /\ s.attempt = r.attempt
BY DEF IngressRecords

LEMMA ClaimBatchStep == ASSUME ConnectorIInv, NEW w \in ConnectorWorkers, ClaimBatch(w) PROVE ConnectorIInv'
<1> DEFINE free == {i \in Ingresses : Eligible(i)}
           size == IF Cardinality(free) < BatchLimit THEN Cardinality(free) ELSE BatchLimit
<1>1. /\ free # {} /\ UNCHANGED outside
      /\ \E some \in {s \in SUBSET free : Cardinality(s) = size} : \E order \in SetToSeqs(some) :
          /\ ingress' = [i \in Ingresses |-> IF i \in some THEN ClaimedIngress(i) ELSE ingress[i]]
          /\ worker' = [worker EXCEPT ![w] = [pc |-> "map", again |-> FALSE,
               batch |-> [k \in 1..size |-> [id |-> order[k], token |-> ClaimedIngress(order[k]).token,
                                             attempt |-> ClaimedIngress(order[k]).attempt]]]]
  BY DEF ClaimBatch
<1>2. size \in Nat \ {0} /\ free \subseteq Ingresses
  <2>1. IsFiniteSet(free)
    BY FS_Subset, ConnectorAssumption
  <2>2. Cardinality(free) \in Nat \ {0}
    BY <1>1, <2>1, FS_CardinalityType, FS_EmptySet
  <2> QED BY <2>2, ConnectorAssumption
<1> HIDE DEF free, size
<1>3. PICK n, some, order :
        /\ n \in Nat \ {0} /\ some \in SUBSET Ingresses
        /\ Cardinality(some) = n /\ order \in SetToSeqs(some)
        /\ ingress' = [i \in Ingresses |-> IF i \in some THEN ClaimedIngress(i) ELSE ingress[i]]
        /\ worker' = [worker EXCEPT ![w] = [pc |-> "map", again |-> FALSE,
               batch |-> [k \in 1..n |-> [id |-> order[k], token |-> ClaimedIngress(order[k]).token,
                                          attempt |-> ClaimedIngress(order[k]).attempt]]]]
  <2>1. PICK some, order :
        /\ some \in SUBSET Ingresses /\ Cardinality(some) = size /\ order \in SetToSeqs(some)
        /\ ingress' = [i \in Ingresses |-> IF i \in some THEN ClaimedIngress(i) ELSE ingress[i]]
        /\ worker' = [worker EXCEPT ![w] = [pc |-> "map", again |-> FALSE,
               batch |-> [k \in 1..size |-> [id |-> order[k], token |-> ClaimedIngress(order[k]).token,
                                             attempt |-> ClaimedIngress(order[k]).attempt]]]]
    <3> DEFINE Takes(some, order) ==
          /\ ingress' = [i \in Ingresses |-> IF i \in some THEN ClaimedIngress(i) ELSE ingress[i]]
          /\ worker' = [worker EXCEPT ![w] = [pc |-> "map", again |-> FALSE,
               batch |-> [k \in 1..size |-> [id |-> order[k], token |-> ClaimedIngress(order[k]).token,
                                             attempt |-> ClaimedIngress(order[k]).attempt]]]]
    <3>1. \E some \in {s \in SUBSET free : Cardinality(s) = size} : \E order \in SetToSeqs(some) :
            Takes(some, order)
      BY <1>1
    <3> HIDE DEF Takes
    <3>2. PICK some \in {s \in SUBSET free : Cardinality(s) = size} :
            \E order \in SetToSeqs(some) : Takes(some, order)
      BY <3>1
    <3>3. PICK order \in SetToSeqs(some) : Takes(some, order)
      BY <3>2
    <3>4. some \in SUBSET Ingresses /\ Cardinality(some) = size
      BY <1>2, <3>2
    <3> QED BY <3>3, <3>4 DEF Takes
  <2> QED BY <1>2, <2>1
<1>4. order \in [1..n -> some] /\ \A j, k \in 1..n : j # k => order[j] # order[k]
  BY <1>3 DEF SetToSeqs
<1>5. PICK b : b = [k \in 1..n |-> [id |-> order[k], token |-> ClaimedIngress(order[k]).token,
                                   attempt |-> ClaimedIngress(order[k]).attempt]]
  OBVIOUS
<1>6. PICK u : u = [pc |-> "map", again |-> FALSE, batch |-> b]
  OBVIOUS
<1>7. \A i \in some : /\ i \in Ingresses /\ ClaimedIngress(i) \in IngressRecords
                      /\ ClaimedIngress(i).token = ingress[i].token + 1
                      /\ ClaimedIngress(i).attempt = ingress[i].token + 1
                      /\ ClaimedIngress(i).state = "processing"
  BY <1>1, <1>3 DEF ConnectorIInv, IngressesTyped, ClaimedIngress, IngressRecords, IngressStates
<1>8. /\ ingress' \in [Ingresses -> IngressRecords]
      /\ \A i \in some : /\ ingress'[i].token = ingress[i].token + 1
                         /\ ingress'[i].attempt = ingress[i].token + 1
                         /\ ingress'[i].state = "processing"
      /\ \A i \in Ingresses \ some : ingress'[i] = ingress[i]
  BY <1>3, <1>7 DEF ConnectorIInv, IngressesTyped
<1>9. /\ DOMAIN b = 1..n
      /\ \A k \in 1..n : b[k].id = order[k] /\ b[k].id \in some /\ b[k].token = ingress[order[k]].token + 1
                         /\ b[k].attempt = ingress[order[k]].token + 1 /\ b[k] \in Claims
  BY <1>4, <1>5, <1>7 DEF Claims, ConnectorIInv, IngressesTyped, IngressRecords
<1>10. b \in Seq(Claims) /\ b # <<>>
  <2>1. b \in [1..n -> Claims]
    BY <1>5, <1>9
  <2> QED BY <1>3, <2>1
<1>11. /\ u \in WorkerRecords /\ u.pc = "map" /\ u.batch = b
  BY <1>6, <1>10 DEF WorkerRecords, WorkerPcs
<1>12. worker' = [worker EXCEPT ![w] = u]
  BY <1>3, <1>5, <1>6
<1>13. worker'[w] = u /\ \A v \in ConnectorWorkers \ {w} : worker'[v] = worker[v]
  BY <1>12 DEF ConnectorIInv, WorkersTyped
<1>14. IngressesTyped'
  BY <1>8 DEF ConnectorIInv, IngressesTyped
<1>15. WorkersTyped'
  BY <1>10, <1>11, <1>12, <1>13 DEF ConnectorIInv, WorkersTyped
<1>16. ASSUME NEW v \in ConnectorWorkers \ {w}
       PROVE  /\ WorkerOK(worker[v])'
              /\ Apart(worker[v].batch, b) /\ Apart(b, worker[v].batch)
  <2>1. PICK r : r = worker[v]
    OBVIOUS
  <2>2. /\ r \in WorkerRecords /\ WorkerOK(r) /\ r.batch \in Seq(Claims) /\ worker'[v] = r
        /\ r.pc # "idle" => 1 \in DOMAIN r.batch
    BY <2>1, <1>13 DEF ConnectorIInv, WorkersTyped, WorkerRecords
  <2>3. \A k \in DOMAIN r.batch :
          /\ r.batch[k] \in Claims /\ r.batch[k].token <= ingress[r.batch[k].id].token
          /\ r.batch[k].attempt = r.batch[k].token
    BY <2>2 DEF WorkerOK, ClaimOK
  <2>4. \A k \in DOMAIN r.batch :
          /\ ClaimOK(r.batch[k])'
          /\ Current(r.batch[k])' => Current(r.batch[k]) /\ r.batch[k].id \in Ingresses \ some
    BY <1>8, <2>3 DEF ClaimOK, Current, Claims, ConnectorIInv, IngressesTyped, IngressRecords
  <2>5. Unsettled(r)'
    BY <1>8, <2>2, <2>4 DEF WorkerOK, Unsettled
  <2>6. HeadOK(r)'
    <3>1. ASSUME r.pc = "fail", ~r.again, Current(r.batch[1])', ingress'[r.batch[1].id].state = "processing"
          PROVE  r.batch[1].id \in refused'
      <4>1. 1 \in DOMAIN r.batch
        BY <2>2, <3>1
      <4>2. Current(r.batch[1]) /\ ingress'[r.batch[1].id] = ingress[r.batch[1].id]
        BY <1>8, <2>4, <3>1, <4>1
      <4> QED BY <1>1, <2>2, <3>1, <4>2 DEF WorkerOK, HeadOK, outside
    <3> QED BY <1>1, <2>2, <3>1 DEF WorkerOK, HeadOK, Done, outside
  <2>7. Apart(r.batch, b) /\ Apart(b, r.batch)
    <3>1. ASSUME NEW j \in DOMAIN r.batch, NEW k \in DOMAIN b, r.batch[j].id = b[k].id
          PROVE  r.batch[j].token # b[k].token
      <4>1. PICK i : i = b[k].id
        OBVIOUS
      <4>2. /\ i \in Ingresses /\ b[k].token = ingress[i].token + 1
            /\ r.batch[j].token <= ingress[i].token
        BY <1>7, <1>9, <2>3, <3>1, <4>1
      <4>3. r.batch[j].token \in Nat /\ ingress[i].token \in Nat
        BY <2>3, <4>2 DEF Claims, ConnectorIInv, IngressesTyped, IngressRecords
      <4> QED BY <4>2, <4>3
    <3> QED BY <3>1 DEF Apart, Differ
  <2> QED BY <2>1, <2>2, <2>4, <2>5, <2>6, <2>7 DEF WorkerOK
<1>17. ClaimsDiffer'
  <2>1. Distinct(b)
    BY <1>4, <1>9 DEF Distinct, Differ
  <2> QED BY <1>11, <1>13, <1>16, <2>1 DEF ConnectorIInv, ClaimsDiffer
<1>18. WorkerOK(u)'
  <2>1. \A k \in DOMAIN b : ClaimOK(b[k])' /\ ingress'[b[k].id].state = "processing"
    <3> SUFFICES ASSUME NEW k \in DOMAIN b PROVE ClaimOK(b[k])' /\ ingress'[b[k].id].state = "processing"
      OBVIOUS
    <3>1. PICK i : i = order[k]
      OBVIOUS
    <3>2. i \in some /\ b[k].id = i /\ b[k].token = ingress[i].token + 1 /\ b[k].attempt = b[k].token
          /\ ingress[i].token \in Nat
      BY <1>3, <1>9, <3>1 DEF ConnectorIInv, IngressesTyped, IngressRecords
    <3> QED BY <1>8, <3>2 DEF ClaimOK
  <2> QED BY <1>11, <2>1 DEF WorkerOK, Unsettled, HeadOK
<1>19. \A i \in Ingresses : Deserved(i)'
  BY <1>1, <1>8 DEF ConnectorIInv, Deserved, Done, outside
<1> QED BY <1>13, <1>14, <1>15, <1>16, <1>17, <1>18, <1>19 DEF ConnectorIInv

-----------------------------------------------------------------------------
(* Every step. *)

LEMMA MapStep == ASSUME ConnectorIInv, NEW w \in ConnectorWorkers, MapIngress(w) PROVE ConnectorIInv'
<1>1. PICK i : i = Mine(w).id
  OBVIOUS
<1>2. worker[w].pc = "map" /\ UNCHANGED <<ingress, effects, receiptsKept>>
  BY DEF MapIngress
<1>3. CASE Goes(w, IF KindOf[i] = "ignored" THEN "complete" ELSE "renew") /\ UNCHANGED refused
  <2>1. PICK pc : pc = IF KindOf[i] = "ignored" THEN "complete" ELSE "renew"
    OBVIOUS
  <2>2. pc \in WorkerPcs \ {"idle", "fail", "receipt", "renew for receipt"} /\ (pc = "complete" => Done(i)')
    BY <2>1 DEF WorkerPcs, Done
  <2>3. Goes(w, pc) /\ effects \subseteq effects' /\ receiptsKept \subseteq receiptsKept'
    BY <1>2, <1>3, <2>1
  <2> QED BY <1>1, <1>2, <1>3, <2>2, <2>3, WorkerGoes DEF Done
<1>4. CASE Refuses(w)
  BY <1>1, <1>2, <1>4, WorkerFails DEF Refuses
<1>5. CASE Breaks(w)
  BY <1>1, <1>2, <1>5, WorkerFails DEF Breaks
<1> QED BY <1>1, <1>3, <1>4, <1>5 DEF MapIngress

LEMMA RenewStep == ASSUME ConnectorIInv, NEW w \in ConnectorWorkers, RenewClaimOf(w) PROVE ConnectorIInv'
<1>1. PICK i : i = Mine(w).id
  OBVIOUS
<1>2. worker[w].pc \in {"renew", "renew for receipt"} /\ UNCHANGED <<ingress, effects, receiptsKept>>
  BY DEF RenewClaimOf
<1>3. worker[w].pc = "renew for receipt" => i \in effects
  BY <1>1, FirstClaim DEF WorkerOK, HeadOK
<1>4. CASE Goes(w, "effect") /\ UNCHANGED refused
  <2>1. PICK pc : pc = "effect"
    OBVIOUS
  <2>2. pc \in WorkerPcs \ {"idle", "fail", "receipt", "renew for receipt", "complete"} /\ Goes(w, pc)
    BY <1>4, <2>1 DEF WorkerPcs
  <2>3. worker[w].pc \notin {"idle", "fail"} /\ effects \subseteq effects' /\ receiptsKept \subseteq receiptsKept'
    BY <1>2
  <2> QED BY <1>1, <1>2, <1>4, <2>2, <2>3, WorkerGoes DEF Done
<1>5. CASE Goes(w, "receipt") /\ worker[w].pc # "renew" /\ UNCHANGED refused
  BY <1>1, <1>2, <1>3, <1>5, WorkerGoes DEF WorkerPcs, Done
<1>6. CASE Drops(w) /\ UNCHANGED refused
  BY <1>2, <1>6, WorkerDrops DEF outside
<1>7. CASE Breaks(w)
  BY <1>1, <1>2, <1>7, WorkerFails DEF Breaks
<1> QED BY <1>4, <1>5, <1>6, <1>7 DEF RenewClaimOf

LEMMA EffectStep == ASSUME ConnectorIInv, NEW w \in ConnectorWorkers, TakeEffect(w) PROVE ConnectorIInv'
<1>1. PICK i : i = Mine(w).id
  OBVIOUS
<1>2. worker[w].pc = "effect" /\ UNCHANGED <<ingress, receiptsKept>>
  BY DEF TakeEffect
<1>3. CASE /\ effects' = effects \cup {i} /\ UNCHANGED refused
           /\ Goes(w, IF KindOf[i] = "command" /\ KeepsReceipts THEN "renew for receipt" ELSE "complete")
  <2>1. Done(i)' \/ (KindOf[i] = "command" /\ KeepsReceipts)
    BY <1>3 DEF Done
  <2> QED BY <1>1, <1>2, <1>3, <2>1, WorkerGoes DEF WorkerPcs, Done
<1>4. CASE Breaks(w) /\ effects' \in {effects, effects \cup {i}}
  BY <1>1, <1>2, <1>4, WorkerFails DEF Breaks
<1>5. CASE Refuses(w) /\ UNCHANGED effects
  BY <1>1, <1>2, <1>5, WorkerFails DEF Refuses
<1> QED BY <1>1, <1>3, <1>4, <1>5 DEF TakeEffect

LEMMA ReceiptStep == ASSUME ConnectorIInv, NEW w \in ConnectorWorkers, KeepReceipt(w) PROVE ConnectorIInv'
<1>1. PICK i : i = Mine(w).id
  OBVIOUS
<1>2. worker[w].pc = "receipt" /\ UNCHANGED <<ingress, effects>>
  BY DEF KeepReceipt
<1>3. i \in effects
  BY <1>1, <1>2, FirstClaim DEF WorkerOK, HeadOK
<1>4. CASE receiptsKept' = receiptsKept \cup {i} /\ Goes(w, "complete") /\ UNCHANGED refused
  <2>1. PICK pc : pc = "complete"
    OBVIOUS
  <2>2. pc \in WorkerPcs \ {"idle", "fail", "receipt", "renew for receipt"} /\ Done(i)' /\ Goes(w, pc)
    BY <1>2, <1>3, <1>4, <2>1 DEF WorkerPcs, Done
  <2>3. effects \subseteq effects' /\ receiptsKept \subseteq receiptsKept'
    BY <1>2, <1>4
  <2> QED BY <1>1, <1>2, <1>4, <2>2, <2>3, WorkerGoes DEF Done
<1>5. CASE Breaks(w) /\ receiptsKept' \in {receiptsKept, receiptsKept \cup {i}}
  BY <1>1, <1>2, <1>5, WorkerFails DEF Breaks
<1>6. CASE Refuses(w) /\ UNCHANGED receiptsKept
  BY <1>1, <1>2, <1>6, WorkerFails DEF Refuses
<1> QED BY <1>1, <1>4, <1>5, <1>6 DEF KeepReceipt

\* The two ways of going on after a claim is settled.
LEMMA Finishing ==
  ASSUME ConnectorIInv, NEW w \in ConnectorWorkers, worker[w].pc # "idle", Finishes(w)
  PROVE  \E u \in WorkerRecords :
           /\ worker' = [worker EXCEPT ![w] = u]
           /\ \/ u = NoBatch
              \/ u.pc = "map" /\ u.batch = Tail(worker[w].batch) /\ Len(worker[w].batch) # 1
<1>1. CASE Len(worker[w].batch) = 1
  BY <1>1, NoBatchOK DEF Finishes, Drops
<1>2. CASE Len(worker[w].batch) # 1
  <2>1. PICK u : u = [pc |-> "map", batch |-> Tail(worker[w].batch), again |-> FALSE]
    OBVIOUS
  <2>2. Tail(worker[w].batch) \in Seq(Claims)
    BY FirstClaim
  <2>3. u \in WorkerRecords /\ u.pc = "map" /\ u.batch = Tail(worker[w].batch)
    BY <2>1, <2>2 DEF WorkerRecords, WorkerPcs
  <2>4. worker' = [worker EXCEPT ![w] = u]
    BY <1>2, <2>1 DEF Finishes
  <2> QED BY <1>2, <2>3, <2>4
<1> QED BY <1>1, <1>2

LEMMA CompleteStep == ASSUME ConnectorIInv, NEW w \in ConnectorWorkers, CompleteIngress(w) PROVE ConnectorIInv'
<1>1. PICK c : c = Mine(w)
  OBVIOUS
<1>2. worker[w].pc = "complete" /\ UNCHANGED outside
  BY DEF CompleteIngress
<1>3. Done(c.id)
  BY <1>1, <1>2, FirstClaim DEF WorkerOK, HeadOK
<1>4. CASE IsMine(c) /\ ingress' = Settled(c.id, "completed") /\ Finishes(w)
  <2>1. PICK u \in WorkerRecords :
          /\ worker' = [worker EXCEPT ![w] = u]
          /\ \/ u = NoBatch
             \/ u.pc = "map" /\ u.batch = Tail(worker[w].batch) /\ Len(worker[w].batch) # 1
    BY <1>2, <1>4, Finishing
  <2> QED BY <1>1, <1>2, <1>3, <1>4, <2>1, ClaimSettles
<1>5. CASE Drops(w) /\ UNCHANGED ingress
  BY <1>2, <1>5, WorkerDrops
<1>6. CASE Failing(w, TRUE) /\ UNCHANGED ingress
  BY <1>1, <1>2, <1>6, WorkerFails DEF outside
<1>7. CASE Failing(w, TRUE) /\ IsMine(c) /\ ingress' = Settled(c.id, "completed")
  <2>1. PICK u : u = [worker[w] EXCEPT !.pc = "fail", !.again = TRUE]
    OBVIOUS
  <2>2. u \in WorkerRecords /\ u.pc = "fail" /\ u.again /\ u.batch = worker[w].batch
    BY <1>2, <2>1, FirstClaim DEF WorkerRecords, WorkerPcs
  <2>3. worker' = [worker EXCEPT ![w] = u]
    BY <1>7, <2>1 DEF Failing
  <2> QED BY <1>1, <1>2, <1>3, <1>7, <2>2, <2>3, ClaimSettles
<1> QED BY <1>1, <1>4, <1>5, <1>6, <1>7 DEF CompleteIngress

LEMMA FailureStep == ASSUME ConnectorIInv, NEW w \in ConnectorWorkers, SettleFailure(w) PROVE ConnectorIInv'
<1>1. PICK c, end : /\ c = Mine(w)
                    /\ end = IF ~worker[w].again \/ IsExhausted(c) THEN "dead_letter" ELSE "retry_wait"
  OBVIOUS
<1>2. worker[w].pc = "fail" /\ UNCHANGED outside
  BY DEF SettleFailure
<1>3. IsMine(c) => (end = "dead_letter" => c.id \in refused \/ c.attempt >= MaxAttempts)
  <2>1. /\ worker[w].again \in BOOLEAN /\ c = worker[w].batch[1] /\ HeadOK(worker[w])
    BY <1>1, <1>2, FirstClaim DEF WorkerOK, WorkerRecords
  <2> QED BY <1>1, <1>2, <2>1 DEF HeadOK, IsMine, Current, IsExhausted
<1>4. CASE IsMine(c) /\ ingress' = Settled(c.id, end) /\ (Finishes(w) \/ Drops(w))
  <2>1. PICK u \in WorkerRecords :
          /\ worker' = [worker EXCEPT ![w] = u]
          /\ \/ u = NoBatch
             \/ u.pc = "map" /\ u.batch = Tail(worker[w].batch) /\ Len(worker[w].batch) # 1
    BY <1>2, <1>4, Finishing, NoBatchOK DEF Drops
  <2>2. end \in {"dead_letter", "retry_wait"}
    BY <1>1
  <2> QED BY <1>1, <1>2, <1>3, <1>4, <2>1, <2>2, ClaimSettles
<1>5. CASE Drops(w) /\ UNCHANGED ingress
  BY <1>2, <1>5, WorkerDrops
<1> QED BY <1>1, <1>4, <1>5 DEF SettleFailure

LEMMA IngressStep ==
  ASSUME ConnectorIInv, NEW i \in Ingresses, AcceptIngress(i) \/ ComesDue(i) \/ LapseClaim(i)
  PROVE  ConnectorIInv'
<1>1. ingress[i] \in IngressRecords /\ UNCHANGED <<worker, outside>>
  BY DEF ConnectorIInv, IngressesTyped, AcceptIngress, ComesDue, LapseClaim
<1>2. CASE AcceptIngress(i)
  <2>1. PICK r : r = [NoIngress EXCEPT !.state = "pending", !.due = TRUE]
    OBVIOUS
  <2>2. r \in IngressRecords /\ r.state = "pending" /\ r.token = 0 /\ r.attempt = 0
    BY <2>1 DEF NoIngress, IngressRecords, IngressStates
  <2>3. ingress[i].state = "absent" /\ ingress[i].token = 0 /\ ingress[i].attempt = 0
    BY <1>2 DEF AcceptIngress, ConnectorIInv, IngressesTyped
  <2>4. ingress' = [ingress EXCEPT ![i] = r]
    BY <1>2, <2>1 DEF AcceptIngress
  <2> QED BY <1>1, <2>2, <2>3, <2>4, IngressChanges DEF outside
<1>3. CASE ComesDue(i)
  <2>1. PICK r : r = [ingress[i] EXCEPT !.due = TRUE]
    OBVIOUS
  <2>2. /\ r \in IngressRecords /\ r.state = ingress[i].state /\ r.token = ingress[i].token
        /\ r.attempt = ingress[i].attempt
    BY <1>1, <2>1 DEF IngressRecords
  <2>3. ingress' = [ingress EXCEPT ![i] = r] /\ ingress[i].state = "retry_wait"
    BY <1>3, <2>1 DEF ComesDue
  <2> QED BY <1>1, <2>2, <2>3, IngressChanges DEF outside
<1>4. CASE LapseClaim(i)
  <2>1. PICK r : r = [ingress[i] EXCEPT !.leased = FALSE]
    OBVIOUS
  <2>2. /\ r \in IngressRecords /\ r.state = ingress[i].state /\ r.token = ingress[i].token
        /\ r.attempt = ingress[i].attempt
    BY <1>1, <2>1 DEF IngressRecords
  <2>3. ingress' = [ingress EXCEPT ![i] = r] /\ ingress[i].state = "processing"
    BY <1>4, <2>1 DEF LapseClaim
  <2> QED BY <1>1, <2>2, <2>3, IngressChanges DEF outside
<1> QED BY <1>2, <1>3, <1>4

LEMMA UntouchedKeeps == ASSUME ConnectorIInv, UNCHANGED ingressVars PROVE ConnectorIInv'
BY DEF ingressVars, ConnectorIInv, IngressesTyped, WorkersTyped, ClaimsDiffer, Distinct, Apart, WorkerOK,
       ClaimOK, Current, Unsettled, HeadOK, Done, Deserved

LEMMA RequeueStep == ASSUME ConnectorIInv, NEW v \in RecoveryWorkers, Requeue(v) PROVE ConnectorIInv'
<1>1. PICK i : i = RequestOf(v).id
  OBVIOUS
<1>2. UNCHANGED <<worker, effects, receiptsKept, connectorTroubles>>
  BY DEF Requeue
<1>3. CASE i \in Ingresses /\ IsDead(i)
  <2>1. PICK r : r = [ingress[i] EXCEPT !.state = "retry_wait", !.due = FALSE]
    OBVIOUS
  <2>2. /\ r \in IngressRecords /\ r.state = "retry_wait" /\ r.token = ingress[i].token
        /\ r.attempt = ingress[i].attempt
    BY <1>3, <2>1 DEF ConnectorIInv, IngressesTyped, IngressRecords, IngressStates
  <2>3. ingress' = [ingress EXCEPT ![i] = r] /\ refused' = refused \ {i}
    BY <1>1, <1>3, <2>1 DEF Requeue
  <2> QED BY <1>2, <1>3, <2>2, <2>3, IngressChanges DEF IsDead
<1>4. CASE i \notin Ingresses \/ ~IsDead(i)
  <2>1. ingress' = ingress /\ (refused' = refused \/ (i \notin Ingresses /\ refused' = refused \ {i}))
    BY <1>1, <1>4 DEF Requeue, ConnectorIInv, IngressesTyped
  <2>2. CASE refused' = refused
    BY <1>2, <2>1, <2>2, UntouchedKeeps DEF ingressVars
  <2>3. CASE i \notin Ingresses /\ refused' = refused \ {i}
    <3>1. IngressesTyped' /\ WorkersTyped' /\ ClaimsDiffer' /\ \A j \in Ingresses : Deserved(j)'
      BY <1>2, <2>1, <2>3 DEF ConnectorIInv, IngressesTyped, WorkersTyped, ClaimsDiffer, Distinct, Apart,
         Deserved, Done
    <3>2. ASSUME NEW w \in ConnectorWorkers PROVE WorkerOK(worker[w])'
      <4>1. PICK u : u = worker[w]
        OBVIOUS
      <4>2. WorkerOK(u) /\ (u.pc = "fail" => u.batch[1].id \in Ingresses)
        BY <4>1, FirstClaim DEF ConnectorIInv, Claims
      <4>3. WorkerOK(u)'
        BY <1>2, <2>1, <2>3, <4>2 DEF WorkerOK, ClaimOK, Current, Unsettled, HeadOK, Done
      <4> QED BY <1>2, <4>1, <4>3
    <3> QED BY <3>1, <3>2 DEF ConnectorIInv
  <2> QED BY <2>1, <2>2, <2>3
<1> QED BY <1>3, <1>4

LEMMA ConnectorStepKeeps == ASSUME ConnectorIInv, [RecoveryNext]_recoveryVars PROVE ConnectorIInv'
<1>1. CASE UNCHANGED recoveryVars
  BY <1>1, UntouchedKeeps DEF recoveryVars
<1>2. CASE ConnectorNext
  <2>1. CASE \E i \in Ingresses : AcceptIngress(i) \/ ComesDue(i) \/ LapseClaim(i)
    BY <2>1, IngressStep
  <2>2. ASSUME NEW w \in ConnectorWorkers, WorkerStep(w) PROVE ConnectorIInv'
    BY <2>2, ClaimBatchStep, MapStep, RenewStep, EffectStep, ReceiptStep, CompleteStep, FailureStep
       DEF WorkerStep
  <2>3. ASSUME NEW w \in ConnectorWorkers, CrashWorker(w) PROVE ConnectorIInv'
    BY <2>3, WorkerDrops DEF CrashWorker
  <2> QED BY <1>2, <2>1, <2>2, <2>3 DEF ConnectorNext
<1>3. CASE \E r \in Requests : LapseRequest(r) \/ \E i \in Ingresses : Submit(r, i)
  BY <1>3, UntouchedKeeps DEF LapseRequest, Submit
<1>4. ASSUME NEW v \in RecoveryWorkers, OperatorStep(v) \/ CrashOperator(v) PROVE ConnectorIInv'
  <2>1. CASE Requeue(v)
    BY <2>1, RequeueStep
  <2>2. CASE ~Requeue(v)
    <3>1. UNCHANGED ingressVars
      BY <1>4, <2>2 DEF OperatorStep, CrashOperator, ClaimRequest, LookAtIngress, Finish
    <3> QED BY <3>1, UntouchedKeeps
  <2> QED BY <2>1, <2>2
<1> QED BY <1>1, <1>2, <1>3, <1>4 DEF RecoveryNext

LEMMA ConnectorStarts == RecoveryInit => ConnectorIInv
<1> SUFFICES ASSUME RecoveryInit PROVE ConnectorIInv
  OBVIOUS
<1>1. /\ NoIngress \in IngressRecords /\ NoIngress.state = "absent"
      /\ NoIngress.token = 0 /\ NoIngress.attempt = 0
  BY DEF NoIngress, IngressRecords, IngressStates
<1>2. \A i \in Ingresses : ingress[i] = NoIngress
  BY DEF RecoveryInit, ConnectorInit
<1>3. \A w \in ConnectorWorkers : worker[w] = NoBatch
  BY DEF RecoveryInit, ConnectorInit
<1>4. IngressesTyped /\ \A i \in Ingresses : Deserved(i)
  BY <1>1, <1>2 DEF RecoveryInit, ConnectorInit, IngressesTyped, Deserved
<1>5. WorkersTyped
  BY <1>3, NoBatchOK DEF RecoveryInit, ConnectorInit, WorkersTyped
<1>6. ClaimsDiffer
  BY <1>3, NoBatchOK DEF ClaimsDiffer, Distinct, Apart
<1>7. \A w \in ConnectorWorkers : WorkerOK(worker[w])
  BY <1>3, NoBatchOK DEF WorkerOK, Unsettled
<1> QED BY <1>4, <1>5, <1>6, <1>7 DEF ConnectorIInv

THEOREM ConnectorAlwaysIInv == RecoverySpec => []ConnectorIInv
BY ConnectorStarts, ConnectorStepKeeps, PTL DEF RecoverySpec

\* Only the holder of the newest claim settles an ingress; it is completed only with its
\* effect and its receipt, and given up only for a refusal or after the last attempt.
THEOREM HoldersSettle == RecoverySpec => []SettledByHolder
<1>1. ConnectorIInv => SettledByHolder
  <2> SUFFICES ASSUME ConnectorIInv PROVE SettledByHolder
    OBVIOUS
  <2>1. HeldIsUnsettled
    BY DEF ConnectorIInv, HeldIsUnsettled, WorkerOK, Unsettled, Current
  <2>2. IngressVerdicts
    BY DEF ConnectorIInv, IngressVerdicts, Deserved, Done
  <2> QED BY <2>1, <2>2 DEF SettledByHolder
<1> QED BY <1>1, ConnectorAlwaysIInv, PTL

-----------------------------------------------------------------------------
(* Calendar executions: the inductive invariant. *)

CalendarStates ==
  {"absent", "started", "event_created", "attendees_applied", "confirmation_consumed", "completed"}
CalendarOutcomes ==
  [kind : {"none", "unknown", "consumed", "succeeded"}, version : Nat, complete : BOOLEAN]
Creating == {"create", "own", "created", "invite", "invited"}
Changing == {"look", "read", "consume", "consumed", "call", "version"}
AttemptPcs == Creating \cup Changing \cup {"idle", "complete", "unknown"}

ExecutionRecords == [state : CalendarStates, outcome : CalendarOutcomes, version : Nat]
OwnershipRecords == [version : Nat, deleted : BOOLEAN, seen : Nat]
EventRecords == [exists : BOOLEAN, rev : Nat]
AttemptRecords ==
  [pc : AttemptPcs, x : Executions \cup {NoExecution}, version : Nat, state : CalendarStates,
   outcome : CalendarOutcomes, seen : Nat]

CalendarTyped ==
  /\ execution \in [Executions -> ExecutionRecords] /\ ownership \in [Events -> OwnershipRecords]
  /\ calendar \in [Events -> EventRecords] /\ attempt \in [Attempts -> AttemptRecords]

\* The states in between of an execution.
Underway(x) ==
  IF OperationOf[x] = "create" THEN {"started", "event_created", "attendees_applied"}
  ELSE {"started", "confirmation_consumed"}

RecordOK(x, r) ==
  /\ r.state \in Underway(x) \cup {"absent", "completed"}
  /\ r.state = "absent" => r.outcome.kind = "none" /\ r.version = 0
  /\ r.state = "completed" => r.outcome.kind = "succeeded"
  /\ r.state = "attendees_applied" => r.outcome.kind \in {"succeeded", "unknown"}

\* An attempt that is up to date has an execution without an answer.
AttemptOK(t) ==
  t.pc # "idle" =>
    /\ t.x \in Executions /\ t.state \in Underway(t.x)
    /\ t.version <= execution[t.x].version
    /\ t.version = execution[t.x].version => ~Replays(execution[t.x])
    /\ t.pc \in Creating => OperationOf[t.x] = "create"
    /\ t.pc \in Changing => OperationOf[t.x] # "create"
    /\ t.pc \in {"invited", "complete"} => t.outcome.kind = "succeeded"

\* Every answer is on record, and is replayed.
AnswersRecorded ==
  \A p \in answers :
    /\ p.x \in Executions /\ p = [x |-> p.x, outcome |-> execution[p.x].outcome]
    /\ Replays(execution[p.x])

\* A change that has taken the step from the version it expected, or will say so.
Claimed(x, o) ==
  /\ o.kind = "succeeded" /\ OperationOf[x] # "create"
  /\ ~(OperationOf[x] = "delete" /\ o.version # ExpectedVersion[x] + 1)
Claimants ==
  {x \in Executions :
     \/ execution[x].state = "completed" /\ Claimed(x, execution[x].outcome)
     \/ \E a \in Attempts : attempt[a].x = x /\ attempt[a].pc = "complete" /\ Claimed(x, attempt[a].outcome)}

\* The event has gone beyond what the change expected; if it is deleted since, further still.
Passed(x, own) ==
  /\ own.version > ExpectedVersion[x]
  /\ (own.deleted /\ OperationOf[x] # "delete") => own.version > ExpectedVersion[x] + 1

ClaimantsOK ==
  /\ \A x \in Claimants : Passed(x, ownership[EventOf[x]])
  /\ \A x, y \in Claimants : ~Rivals(x, y)

CalendarIInv ==
  /\ CalendarTyped /\ AnswersRecorded /\ ClaimantsOK
  /\ \A x \in Executions : RecordOK(x, execution[x])
  /\ \A a \in Attempts : AttemptOK(attempt[a])

-----------------------------------------------------------------------------
(* Moves of attempts. *)

\* What an attempt at work knows.
LEMMA AttemptAtWork ==
  ASSUME CalendarIInv, NEW a \in Attempts, attempt[a].pc # "idle"
  PROVE  /\ attempt[a] \in AttemptRecords /\ AttemptOK(attempt[a]) /\ attempt[a].x \in Executions
         /\ execution[attempt[a].x] \in ExecutionRecords
         /\ EventAt(a) \in Events /\ ownership[EventAt(a)] \in OwnershipRecords
         /\ calendar[EventAt(a)] \in EventRecords
<1>1. attempt[a] \in AttemptRecords /\ AttemptOK(attempt[a]) /\ attempt[a].x \in Executions
  BY DEF CalendarIInv, CalendarTyped, AttemptOK
<1>2. EventAt(a) \in Events
  BY <1>1 DEF EventAt, Events
<1> QED BY <1>1, <1>2 DEF CalendarIInv, CalendarTyped

\* An attempt moves on, and claims nothing.
LEMMA AttemptMoves ==
  ASSUME CalendarIInv, NEW a \in Attempts, NEW t \in AttemptRecords, AttemptOK(t),
         attempt' = [attempt EXCEPT ![a] = t],
         t.pc = "complete" => ~Claimed(t.x, t.outcome),
         UNCHANGED <<execution, ownership, answers>>, calendar' \in [Events -> EventRecords]
  PROVE  CalendarIInv'
<1>1. attempt'[a] = t /\ \A b \in Attempts \ {a} : attempt'[b] = attempt[b]
  BY DEF CalendarIInv, CalendarTyped
<1>2. CalendarTyped'
  BY DEF CalendarIInv, CalendarTyped
<1>3. Claimants' \subseteq Claimants
  BY <1>1 DEF Claimants, Claimed
<1>4. ClaimantsOK'
  BY <1>3 DEF CalendarIInv, ClaimantsOK, Passed
<1>5. AnswersRecorded' /\ \A x \in Executions : RecordOK(x, execution[x])'
  BY DEF CalendarIInv, AnswersRecorded, RecordOK, Replays, Underway
<1>6. \A b \in Attempts : AttemptOK(attempt[b])'
  BY <1>1 DEF CalendarIInv, AttemptOK, Underway, Replays
<1> QED BY <1>2, <1>4, <1>5, <1>6 DEF CalendarIInv

LEMMA AtEaseOK == AtEase \in AttemptRecords /\ AtEase.pc = "idle"
BY DEF AtEase, AttemptRecords, AttemptPcs, Creating, Changing, CalendarStates, NoOutcome, CalendarOutcomes

LEMMA AttemptAbandons ==
  ASSUME CalendarIInv, NEW a \in Attempts, Abandon(a), UNCHANGED <<execution, ownership, answers>>,
         calendar' \in [Events -> EventRecords]
  PROVE  CalendarIInv'
BY AtEaseOK, AttemptMoves DEF Abandon, AttemptOK

LEMMA AttemptProceeds ==
  ASSUME CalendarIInv, NEW a \in Attempts, attempt[a].pc # "idle",
         NEW pc \in AttemptPcs \ {"invited", "complete", "idle"},
         pc \in Creating => OpOf(a) = "create", pc \in Changing => OpOf(a) # "create", Proceed(a, pc),
         UNCHANGED <<execution, ownership, answers>>, calendar' \in [Events -> EventRecords]
  PROVE  CalendarIInv'
<1>1. PICK t : t = [attempt[a] EXCEPT !.pc = pc]
  OBVIOUS
<1>2. t \in AttemptRecords /\ t.pc = pc /\ t.x = attempt[a].x /\ t.version = attempt[a].version
      /\ t.state = attempt[a].state
  BY <1>1, AttemptAtWork DEF AttemptRecords
<1>3. AttemptOK(t)
  BY <1>2, AttemptAtWork DEF AttemptOK, OpOf
<1>4. attempt' = [attempt EXCEPT ![a] = t]
  BY <1>1 DEF Proceed
<1> QED BY <1>2, <1>3, <1>4, AttemptMoves

LEMMA AttemptFails ==
  ASSUME CalendarIInv, NEW a \in Attempts, attempt[a].pc # "idle", CallFailed(a),
         UNCHANGED <<execution, ownership, answers>>, calendar' \in [Events -> EventRecords]
  PROVE  CalendarIInv'
<1>1. PICK pc : pc = "unknown"
  OBVIOUS
<1>2. pc \in AttemptPcs \ {"invited", "complete", "idle"} /\ pc \notin Creating \cup Changing
  BY <1>1 DEF AttemptPcs, Creating, Changing
<1> QED BY <1>1, <1>2, AttemptAbandons, AttemptProceeds DEF CallFailed

\* The record of an execution moves on with an attempt that is up to date.  Outcomes that
\* are answered stay on record; nobody else is up to date after that.
LEMMA RecordMoves ==
  ASSUME CalendarIInv, NEW a \in Attempts, attempt[a].pc # "idle", MayCheckpoint(a),
         NEW x, x = attempt[a].x, NEW r \in ExecutionRecords, NEW t \in AttemptRecords,
         r.version = execution[x].version + 1, RecordOK(x, r), r.state # "absent",
         execution' = [execution EXCEPT ![x] = r], attempt' = [attempt EXCEPT ![a] = t],
         \/ t.pc = "idle"
         \/ /\ ~Replays(r) /\ t.pc # "idle" /\ t.x = x /\ t.version = r.version /\ t.state \in Underway(x)
            /\ t.pc = "complete" => OperationOf[x] = "create"
            /\ t.pc \in Creating => OperationOf[x] = "create"
            /\ t.pc \in Changing => OperationOf[x] # "create"
            /\ t.pc \in {"invited", "complete"} => t.outcome.kind = "succeeded",
         (r.state = "completed" /\ Claimed(x, r.outcome)) => x \in Claimants,
         answers' = answers \/ (Replays(r) /\ answers' = answers \cup {[x |-> x, outcome |-> r.outcome]}),
         UNCHANGED <<ownership, calendar>>
  PROVE  CalendarIInv'
<1>1. attempt'[a] = t /\ \A b \in Attempts \ {a} : attempt'[b] = attempt[b]
  BY DEF CalendarIInv, CalendarTyped
<1>2. /\ x \in Executions /\ execution[x] \in ExecutionRecords /\ ~Replays(execution[x])
      /\ attempt[a].version = execution[x].version
  BY AttemptAtWork DEF AttemptOK, MayCheckpoint
<1>3. execution'[x] = r /\ \A y \in Executions \ {x} : execution'[y] = execution[y]
  BY <1>2 DEF CalendarIInv, CalendarTyped
<1>4. CalendarTyped'
  BY <1>2 DEF CalendarIInv, CalendarTyped
<1>5. \A y \in Executions : RecordOK(y, execution[y])'
  <2>1. ASSUME NEW y \in Executions, NEW s, s = execution'[y] PROVE RecordOK(y, s)
    BY <1>3, <2>1 DEF CalendarIInv
  <2> QED BY <2>1 DEF RecordOK, Underway
<1>6. AnswersRecorded'
  <2>1. \A p \in answers : p.x # x
    BY <1>2 DEF CalendarIInv, AnswersRecorded
  <2>2. ASSUME NEW p \in answers
        PROVE  /\ p.x \in Executions /\ p = [x |-> p.x, outcome |-> execution'[p.x].outcome]
               /\ Replays(execution'[p.x])
    BY <1>3, <2>1 DEF CalendarIInv, AnswersRecorded
  <2>3. ASSUME NEW p, p = [x |-> x, outcome |-> r.outcome], Replays(r)
        PROVE  /\ p.x \in Executions /\ p = [x |-> p.x, outcome |-> execution'[p.x].outcome]
               /\ Replays(execution'[p.x])
    BY <1>2, <1>3, <2>3
  <2>4. ASSUME NEW p \in answers'
        PROVE  /\ p.x \in Executions /\ p = [x |-> p.x, outcome |-> execution'[p.x].outcome]
               /\ Replays(execution'[p.x])
    BY <2>2, <2>3
  <2> QED BY <2>4 DEF AnswersRecorded, Replays
<1>7. Claimants' \subseteq Claimants
  <2>1. ASSUME NEW y \in Claimants', y = x PROVE y \in Claimants
    <3>1. CASE r.state = "completed" /\ Claimed(x, r.outcome)
      BY <2>1, <3>1
    <3>2. CASE \E b \in Attempts : attempt'[b].x = x /\ attempt'[b].pc = "complete" /\ Claimed(x, attempt'[b].outcome)
      BY <1>1, <1>2, <2>1, <3>2 DEF Claimants, Claimed
    <3> QED BY <1>3, <2>1, <3>1, <3>2 DEF Claimants, Claimed
  <2>2. ASSUME NEW y \in Claimants', y # x PROVE y \in Claimants
    BY <1>1, <1>3, <2>2 DEF Claimants, Claimed
  <2> QED BY <2>1, <2>2
<1>8. ClaimantsOK'
  BY <1>7 DEF CalendarIInv, ClaimantsOK, Passed
<1>9. ASSUME NEW b \in Attempts \ {a} PROVE AttemptOK(attempt[b])'
  <2>1. PICK u : u = attempt[b]
    OBVIOUS
  <2>2. u \in AttemptRecords /\ AttemptOK(u) /\ attempt'[b] = u
    BY <1>1, <2>1 DEF CalendarIInv, CalendarTyped
  <2>3. u.version \in Nat /\ execution[x].version \in Nat
    BY <1>2, <2>2 DEF AttemptRecords, ExecutionRecords
  <2>4. AttemptOK(u)'
    BY <1>3, <2>2, <2>3 DEF AttemptOK, Underway, Replays
  <2> QED BY <2>2, <2>4
<1>10. AttemptOK(t)'
  <2>1. t.version = r.version => t.version <= r.version
    BY DEF ExecutionRecords
  <2> QED BY <1>2, <1>3, <2>1 DEF AttemptOK, Underway, Replays
<1> QED BY <1>1, <1>4, <1>5, <1>6, <1>8, <1>9, <1>10 DEF CalendarIInv

\* An attempt moves on in a change of the event that everybody who claimed one allows for,
\* and may claim it.
LEMMA AttemptClaims ==
  ASSUME CalendarIInv, NEW a \in Attempts, NEW t \in AttemptRecords, AttemptOK(t),
         attempt' = [attempt EXCEPT ![a] = t], UNCHANGED <<execution, answers, calendar>>,
         ownership' \in [Events -> OwnershipRecords],
         \A y \in Claimants : Passed(y, ownership'[EventOf[y]]),
         (t.pc = "complete" /\ Claimed(t.x, t.outcome)) =>
           Passed(t.x, ownership'[EventOf[t.x]]) /\ \A y \in Claimants : ~Rivals(t.x, y)
  PROVE  CalendarIInv'
<1>1. attempt'[a] = t /\ \A b \in Attempts \ {a} : attempt'[b] = attempt[b]
  BY DEF CalendarIInv, CalendarTyped
<1>2. CalendarTyped'
  BY DEF CalendarIInv, CalendarTyped
<1>3. ASSUME NEW y \in Claimants', y \notin Claimants
      PROVE  y = t.x /\ t.pc = "complete" /\ Claimed(t.x, t.outcome)
  BY <1>1, <1>3 DEF Claimants, Claimed
<1>4. \A y \in Claimants' : Passed(y, ownership'[EventOf[y]])
  BY <1>3
<1>5. ASSUME NEW y \in Claimants', NEW z \in Claimants' PROVE ~Rivals(y, z)
  <2>1. CASE y \in Claimants /\ z \in Claimants
    BY <2>1 DEF CalendarIInv, ClaimantsOK
  <2>2. CASE y \notin Claimants
    BY <1>3, <2>2 DEF Rivals
  <2>3. CASE z \notin Claimants
    BY <1>3, <2>3 DEF Rivals
  <2> QED BY <2>1, <2>2, <2>3
<1>6. ClaimantsOK'
  BY <1>4, <1>5 DEF ClaimantsOK, Passed, Rivals
<1>7. AnswersRecorded' /\ \A x \in Executions : RecordOK(x, execution[x])'
  BY DEF CalendarIInv, AnswersRecorded, RecordOK, Replays, Underway
<1>8. \A b \in Attempts : AttemptOK(attempt[b])'
  BY <1>1 DEF CalendarIInv, AttemptOK, Underway, Replays
<1> QED BY <1>2, <1>6, <1>7, <1>8 DEF CalendarIInv

-----------------------------------------------------------------------------
(* Every step keeps it. *)

LEMMA ReplayStep ==
  ASSUME CalendarIInv, NEW a \in Attempts, NEW x \in Executions, BeginExecution(a, x), Replays(Recorded(x))
  PROVE  CalendarIInv'
<1>1. execution[x] \in ExecutionRecords /\ RecordOK(x, execution[x])
  BY DEF CalendarIInv, CalendarTyped
<1>2. Recorded(x) = execution[x]
  BY <1>1 DEF Recorded, Replays, NoOutcome
<1>3. execution' = execution
  BY <1>1, <1>2 DEF BeginExecution, CalendarIInv, CalendarTyped
<1>4. UNCHANGED <<attempt, ownership, calendar>> /\ answers' = answers \cup {[x |-> x, outcome |-> execution[x].outcome]}
  BY <1>2 DEF BeginExecution
<1>5. AnswersRecorded'
  BY <1>2, <1>3, <1>4 DEF CalendarIInv, AnswersRecorded, Replays
<1>6. CalendarTyped' /\ ClaimantsOK'
  BY <1>3, <1>4 DEF CalendarIInv, CalendarTyped, ClaimantsOK, Claimants, Claimed, Passed
<1>7. (\A y \in Executions : RecordOK(y, execution[y])') /\ \A b \in Attempts : AttemptOK(attempt[b])'
  BY <1>3, <1>4 DEF CalendarIInv, RecordOK, AttemptOK, Underway, Replays
<1> QED BY <1>5, <1>6, <1>7 DEF CalendarIInv

LEMMA BeginStep ==
  ASSUME CalendarIInv, NEW a \in Attempts, NEW x \in Executions, BeginExecution(a, x), ~Replays(Recorded(x))
  PROVE  CalendarIInv'
<1>1. execution[x] \in ExecutionRecords /\ RecordOK(x, execution[x])
  BY DEF CalendarIInv, CalendarTyped
<1>2. PICK r : r = Recorded(x)
  OBVIOUS
<1>3. /\ r \in ExecutionRecords /\ RecordOK(x, r) /\ r.state \in Underway(x) /\ ~Replays(r)
      /\ execution[x].version <= r.version /\ (r = execution[x] \/ r.outcome.kind = "none")
  BY <1>1, <1>2 DEF Recorded, RecordOK, Replays, Underway, ExecutionRecords, NoOutcome, CalendarStates, CalendarOutcomes
<1>4. PICK t : t = [pc |-> FirstStep(x, r.state), x |-> x, version |-> r.version, state |-> r.state,
                    outcome |-> r.outcome, seen |-> 0]
  OBVIOUS
<1>5. /\ t.pc = FirstStep(x, r.state) /\ t.x = x /\ t.version = r.version /\ t.state = r.state
      /\ t.outcome = r.outcome /\ t.seen = 0
  BY <1>4
<1>6. /\ execution' = [execution EXCEPT ![x] = r] /\ attempt' = [attempt EXCEPT ![a] = t]
      /\ UNCHANGED <<answers, ownership, calendar>> /\ attempt[a].pc = "idle"
  BY <1>2, <1>4 DEF BeginExecution
<1>7. /\ t.pc \in {"look", "create", "invite", "complete"} /\ (t.pc = "look" <=> OperationOf[x] # "create")
      /\ t.pc = "complete" => r.state = "attendees_applied"
  <2>1. CASE OperationOf[x] # "create"
    BY <1>5, <2>1 DEF FirstStep
  <2>2. CASE OperationOf[x] = "create" /\ r.state = "started"
    BY <1>5, <2>2 DEF FirstStep
  <2>3. CASE OperationOf[x] = "create" /\ r.state = "event_created"
    BY <1>5, <2>3 DEF FirstStep
  <2>4. CASE OperationOf[x] = "create" /\ r.state = "attendees_applied"
    BY <1>5, <2>4 DEF FirstStep
  <2> QED BY <1>3, <2>1, <2>2, <2>3, <2>4 DEF Underway
<1>8. t \in AttemptRecords
  BY <1>3, <1>4, <1>7 DEF AttemptRecords, AttemptPcs, ExecutionRecords, Creating, Changing
<1>9. t.pc \in {"invited", "complete"} => t.outcome.kind = "succeeded"
  BY <1>3, <1>5, <1>7 DEF RecordOK, Replays
<1>10. execution'[x] = r /\ \A y \in Executions \ {x} : execution'[y] = execution[y]
  BY <1>6 DEF CalendarIInv, CalendarTyped
<1>11. attempt'[a] = t /\ \A b \in Attempts \ {a} : attempt'[b] = attempt[b]
  BY <1>6 DEF CalendarIInv, CalendarTyped
<1>12. CalendarTyped'
  BY <1>3, <1>6, <1>8 DEF CalendarIInv, CalendarTyped
<1>13. \A y \in Executions : RecordOK(y, execution[y])'
  <2>1. ASSUME NEW y \in Executions, NEW s, s = execution'[y] PROVE RecordOK(y, s)
    BY <1>3, <1>10, <2>1 DEF CalendarIInv
  <2> QED BY <2>1 DEF RecordOK, Underway
<1>14. AnswersRecorded'
  <2>1. ASSUME NEW p \in answers
        PROVE  /\ p.x \in Executions /\ p = [x |-> p.x, outcome |-> execution'[p.x].outcome]
               /\ Replays(execution'[p.x])
    <3>1. p.x # x \/ r = execution[x]
      BY <1>1, <1>2 DEF CalendarIInv, AnswersRecorded, Replays, RecordOK, Recorded
    <3> QED BY <1>10, <3>1 DEF CalendarIInv, AnswersRecorded
  <2> QED BY <1>6, <2>1 DEF AnswersRecorded, Replays
<1>15. Claimants' \subseteq Claimants
  <2>1. ASSUME NEW y \in Claimants' PROVE y \in Claimants
    <3>1. r.state # "completed"
      BY <1>3 DEF Underway
    <3>2. CASE \E b \in Attempts : attempt'[b].x = y /\ attempt'[b].pc = "complete" /\ Claimed(y, attempt'[b].outcome)
      BY <1>5, <1>7, <1>11, <2>1, <3>2 DEF Claimants, Claimed
    <3>3. CASE execution'[y].state = "completed" /\ Claimed(y, execution'[y].outcome)
      BY <1>10, <2>1, <3>1, <3>3 DEF Claimants, Claimed
    <3> QED BY <2>1, <3>2, <3>3 DEF Claimants, Claimed
  <2> QED BY <2>1
<1>16. ClaimantsOK'
  BY <1>6, <1>15 DEF CalendarIInv, ClaimantsOK, Passed
<1>17. ASSUME NEW b \in Attempts \ {a} PROVE AttemptOK(attempt[b])'
  <2>1. PICK u : u = attempt[b]
    OBVIOUS
  <2>2. u \in AttemptRecords /\ AttemptOK(u) /\ attempt'[b] = u
    BY <1>11, <2>1 DEF CalendarIInv, CalendarTyped
  <2>3. u.version \in Nat /\ execution[x].version \in Nat /\ r.version \in Nat
    BY <1>1, <1>3, <2>2 DEF AttemptRecords, ExecutionRecords
  <2>4. AttemptOK(u)'
    BY <1>3, <1>10, <2>2, <2>3 DEF AttemptOK, Underway, Replays
  <2> QED BY <2>2, <2>4
<1>18. AttemptOK(t)'
  <2>1. t.version <= r.version
    BY <1>3, <1>5 DEF ExecutionRecords
  <2> QED BY <1>3, <1>5, <1>7, <1>9, <1>10, <2>1 DEF AttemptOK, Underway, Replays, Creating, Changing
<1> QED BY <1>11, <1>12, <1>13, <1>14, <1>16, <1>17, <1>18 DEF CalendarIInv

LEMMA BeginKeeps ==
  ASSUME CalendarIInv, NEW a \in Attempts, NEW x \in Executions, BeginExecution(a, x)
  PROVE  CalendarIInv'
BY ReplayStep, BeginStep

LEMMA CreatedInOK ==
  ASSUME CalendarIInv, NEW e \in Events
  PROVE  CreatedIn(e) \in [Events -> EventRecords] /\ calendar \in [Events -> EventRecords]
BY DEF CalendarIInv, CalendarTyped, CreatedIn, EventRecords

LEMMA CreateStep == ASSUME CalendarIInv, NEW a \in Attempts, CreateEvent(a) PROVE CalendarIInv'
<1>1. attempt[a].pc = "create" /\ UNCHANGED <<execution, ownership, answers>>
  BY DEF CreateEvent
<1>2. EventAt(a) \in Events /\ OpOf(a) = "create"
  BY <1>1, AttemptAtWork DEF AttemptOK, Creating, Changing, OpOf
<1>3. CASE /\ calendar' = CreatedIn(EventAt(a))
           /\ attempt' = [attempt EXCEPT ![a].pc = "own", ![a].seen = calendar'[EventAt(a)].rev]
  <2>1. calendar' \in [Events -> EventRecords] /\ calendar'[EventAt(a)].rev \in Nat
    BY <1>2, <1>3, CreatedInOK DEF EventRecords
  <2>2. PICK t : t = [attempt[a] EXCEPT !.pc = "own", !.seen = calendar'[EventAt(a)].rev]
    OBVIOUS
  <2>3. /\ t \in AttemptRecords /\ t.pc = "own" /\ t.x = attempt[a].x /\ t.version = attempt[a].version
        /\ t.state = attempt[a].state
    BY <1>1, <2>1, <2>2, AttemptAtWork DEF AttemptRecords, AttemptPcs, Creating, Changing
  <2>4. AttemptOK(t)
    BY <1>1, <1>2, <2>3, AttemptAtWork DEF AttemptOK, Changing, OpOf
  <2>5. attempt' = [attempt EXCEPT ![a] = t]
    BY <1>3, <2>2
  <2> QED BY <1>1, <2>1, <2>3, <2>4, <2>5, AttemptMoves
<1>4. CASE calendar' \in {calendar, CreatedIn(EventAt(a))} /\ CallFailed(a)
  <2>1. calendar' \in [Events -> EventRecords]
    BY <1>2, <1>4, CreatedInOK
  <2> QED BY <1>1, <1>4, <2>1, AttemptFails
<1> QED BY <1>3, <1>4 DEF CreateEvent

\* An event that has no owner has no claimant.
LEMMA PutStep == ASSUME CalendarIInv, NEW a \in Attempts, PutOwnership(a) PROVE CalendarIInv'
<1>1. attempt[a].pc = "own" /\ UNCHANGED <<execution, calendar, answers>> /\ attempt[a].pc # "idle"
  BY DEF PutOwnership
<1>2. EventAt(a) \in Events /\ OpOf(a) = "create" /\ attempt[a].seen \in Nat
  BY <1>1, AttemptAtWork DEF AttemptOK, Creating, Changing, OpOf, AttemptRecords
<1>3. "created" \in AttemptPcs \ ({"invited", "complete", "idle"} \cup Changing) /\ calendar' \in [Events -> EventRecords]
  BY <1>1 DEF AttemptPcs, Creating, Changing, CalendarIInv, CalendarTyped
<1>4. CASE Abandon(a) /\ UNCHANGED ownership
  BY <1>1, <1>3, <1>4, AttemptAbandons
<1>5. CASE Proceed(a, "created") /\ UNCHANGED ownership
  BY <1>1, <1>2, <1>3, <1>5, AttemptProceeds
<1>6. CASE /\ ownership[EventAt(a)].version = 0 /\ Proceed(a, "created")
           /\ ownership' = [ownership EXCEPT ![EventAt(a)] =
                              [version |-> 1, deleted |-> FALSE, seen |-> attempt[a].seen]]
  <2>1. PICK t : t = [attempt[a] EXCEPT !.pc = "created"]
    OBVIOUS
  <2>2. /\ t \in AttemptRecords /\ t.pc = "created" /\ t.x = attempt[a].x /\ t.version = attempt[a].version
        /\ t.state = attempt[a].state
    BY <1>1, <2>1, AttemptAtWork DEF AttemptRecords, AttemptPcs, Creating, Changing
  <2>3. AttemptOK(t)
    BY <1>1, <1>2, <2>2, AttemptAtWork DEF AttemptOK, Changing, OpOf
  <2>4. attempt' = [attempt EXCEPT ![a] = t]
    BY <1>6, <2>1 DEF Proceed
  <2>5. ownership' \in [Events -> OwnershipRecords]
    BY <1>2, <1>6 DEF CalendarIInv, CalendarTyped, OwnershipRecords
  <2>6. ASSUME NEW y \in Claimants PROVE Passed(y, ownership'[EventOf[y]])
    <3>1. y \in Executions /\ EventOf[y] \in Events /\ Passed(y, ownership[EventOf[y]])
      BY DEF CalendarIInv, ClaimantsOK, Claimants, Events
    <3>2. ExpectedVersion[y] \in Nat \ {0}
      BY <3>1, CalendarAssumption
    <3>3. EventOf[y] # EventAt(a)
      BY <1>6, <3>1, <3>2 DEF Passed
    <3> QED BY <1>6, <3>1, <3>3 DEF CalendarIInv, CalendarTyped
  <2> QED BY <1>1, <2>2, <2>3, <2>4, <2>5, <2>6, AttemptClaims
<1> QED BY <1>4, <1>5, <1>6 DEF PutOwnership

\* A checkpoint in between.
LEMMA CheckpointStep ==
  ASSUME CalendarIInv, NEW a \in Attempts, attempt[a].pc # "idle",
         NEW state \in Underway(attempt[a].x), NEW outcome \in CalendarOutcomes,
         NEW pc \in AttemptPcs \ {"idle", "invited"}, Checkpoint(a, state, outcome, pc),
         pc \in Creating \cup {"complete"} => OpOf(a) = "create", pc \in Changing => OpOf(a) # "create", outcome.kind \in {"succeeded", "consumed"},
         (state = "attendees_applied" \/ pc = "complete") => outcome.kind = "succeeded",
         UNCHANGED <<ownership, calendar, answers>>
  PROVE  CalendarIInv'
<1>1. CASE ~MayCheckpoint(a)
  BY <1>1, AttemptAbandons DEF Checkpoint, CalendarIInv, CalendarTyped
<1>2. CASE MayCheckpoint(a)
  <2>1. PICK x : x = attempt[a].x
    OBVIOUS
  <2>2. PICK r : r = [state |-> state, outcome |-> outcome, version |-> execution[x].version + 1]
    OBVIOUS
  <2>3. PICK t : t = [attempt[a] EXCEPT !.pc = pc, !.version = @ + 1, !.state = state, !.outcome = outcome]
    OBVIOUS
  <2>4. x \in Executions /\ execution[x].version \in Nat /\ attempt[a].version = execution[x].version
    BY <1>2, <2>1, AttemptAtWork DEF MayCheckpoint, ExecutionRecords
  <2>5. state \in CalendarStates /\ state \in Underway(x) /\ state \notin {"absent", "completed"}
    BY <2>1 DEF Underway, CalendarStates
  <2>6. /\ r \in ExecutionRecords /\ r.state = state /\ r.outcome = outcome
        /\ r.version = execution[x].version + 1
    BY <2>2, <2>4, <2>5 DEF ExecutionRecords
  <2>7. RecordOK(x, r) /\ ~Replays(r)
    BY <2>5, <2>6 DEF RecordOK, Replays
  <2>8. /\ t \in AttemptRecords /\ t.pc = pc /\ t.x = x /\ t.version = r.version /\ t.state = state
        /\ t.outcome = outcome
    <3>1. attempt[a] \in AttemptRecords /\ attempt[a].version + 1 \in Nat
      BY <1>2, <2>4, AttemptAtWork DEF AttemptRecords
    <3>2. t.pc = pc /\ t.x = x /\ t.version = r.version /\ t.state = state /\ t.outcome = outcome
      BY <2>1, <2>3, <2>4, <2>6, <3>1 DEF AttemptRecords
    <3>3. t \in AttemptRecords
      BY <2>3, <2>5, <3>1 DEF AttemptRecords
    <3> QED BY <3>2, <3>3
  <2>9. execution' = [execution EXCEPT ![x] = r] /\ attempt' = [attempt EXCEPT ![a] = t]
    BY <1>2, <2>1, <2>2, <2>3 DEF Checkpoint, Saves
  <2> QED BY <1>2, <2>1, <2>4, <2>5, <2>6, <2>7, <2>8, <2>9, RecordMoves DEF OpOf
<1> QED BY <1>1, <1>2

LEMMA CreatedStep == ASSUME CalendarIInv, NEW a \in Attempts, CheckpointCreated(a) PROVE CalendarIInv'
<1>1. attempt[a].pc = "created" /\ UNCHANGED <<ownership, calendar, answers>>
  BY DEF CheckpointCreated
<1>2. OpOf(a) = "create" /\ "event_created" \in Underway(attempt[a].x)
  BY <1>1, AttemptAtWork DEF AttemptOK, Creating, Changing, OpOf, Underway
<1>3. PICK o : o = Succeeded(1, attempt[a].x \notin Inviting)
  OBVIOUS
<1>4. o \in CalendarOutcomes /\ o.kind = "succeeded"
  BY <1>3 DEF Succeeded, CalendarOutcomes
<1>5. Checkpoint(a, "event_created", o, "invite")
  BY <1>3 DEF CheckpointCreated
<1>6. "invite" \in AttemptPcs \ {"idle", "invited"} /\ "invite" \notin Changing
  BY DEF AttemptPcs, Creating, Changing
<1> QED BY <1>1, <1>2, <1>4, <1>5, <1>6, CheckpointStep

LEMMA InvitedStep == ASSUME CalendarIInv, NEW a \in Attempts, CheckpointInvited(a) PROVE CalendarIInv'
<1>1. attempt[a].pc = "invited" /\ UNCHANGED <<ownership, calendar, answers>>
  BY DEF CheckpointInvited
<1>2. OpOf(a) = "create" /\ "attendees_applied" \in Underway(attempt[a].x)
  BY <1>1, AttemptAtWork DEF AttemptOK, Creating, Changing, OpOf, Underway
<1>3. PICK o : o = attempt[a].outcome
  OBVIOUS
<1>4. o \in CalendarOutcomes /\ o.kind = "succeeded"
  BY <1>1, <1>3, AttemptAtWork DEF AttemptRecords, AttemptOK
<1>5. Checkpoint(a, "attendees_applied", o, "complete")
  BY <1>3 DEF CheckpointInvited
<1>6. "complete" \in AttemptPcs \ {"idle", "invited"} /\ "complete" \notin Changing
  BY DEF AttemptPcs, Creating, Changing
<1> QED BY <1>1, <1>2, <1>4, <1>5, <1>6, CheckpointStep

\* Nothing but a deletion comes to its confirmation; only an execution that is not a
\* creation is under way with it.
LEMMA ConsumedStep == ASSUME CalendarIInv, NEW a \in Attempts, CheckpointConsumed(a) PROVE CalendarIInv'
<1>1. attempt[a].pc = "consumed" /\ UNCHANGED <<ownership, calendar, answers>>
  BY DEF CheckpointConsumed
<1>2. "confirmation_consumed" \in Underway(attempt[a].x)
  BY <1>1, AttemptAtWork DEF AttemptOK, Changing, OpOf, Underway
<1>3. PICK o : o = Consumed
  OBVIOUS
<1>4. o \in CalendarOutcomes /\ o.kind = "consumed"
  BY <1>3 DEF Consumed, NoOutcome, CalendarOutcomes
<1>5. Checkpoint(a, "confirmation_consumed", o, "call")
  BY <1>3 DEF CheckpointConsumed
<1>6. "call" \in AttemptPcs \ {"idle", "invited"} /\ "call" \notin Creating /\ OpOf(a) # "create"
  BY <1>1, AttemptAtWork DEF AttemptOK, AttemptPcs, Creating, Changing, OpOf
<1> QED BY <1>1, <1>2, <1>4, <1>5, <1>6, CheckpointStep

LEMMA InviteStep == ASSUME CalendarIInv, NEW a \in Attempts, Invite(a) PROVE CalendarIInv'
<1>1. /\ attempt[a].pc = "invite" /\ UNCHANGED <<execution, ownership, answers>>
      /\ calendar' \in [Events -> EventRecords]
  BY DEF Invite, CalendarIInv, CalendarTyped
<1>2. CASE CallFailed(a)
  BY <1>1, <1>2, AttemptFails
<1>3. ASSUME NEW complete \in {TRUE} \cup {attempt[a].x \notin Inviting},
             attempt' = [attempt EXCEPT ![a].pc = "invited", ![a].outcome = Succeeded(1, complete)]
      PROVE  CalendarIInv'
  <2>1. PICK o : o = Succeeded(1, complete)
    OBVIOUS
  <2>2. o \in CalendarOutcomes /\ o.kind = "succeeded"
    BY <2>1 DEF Succeeded, CalendarOutcomes
  <2>3. PICK t : t = [attempt[a] EXCEPT !.pc = "invited", !.outcome = o]
    OBVIOUS
  <2>4. /\ t \in AttemptRecords /\ t.pc = "invited" /\ t.x = attempt[a].x /\ t.version = attempt[a].version
        /\ t.state = attempt[a].state /\ t.outcome = o
    BY <1>1, <2>2, <2>3, AttemptAtWork DEF AttemptRecords, AttemptPcs, Creating, Changing
  <2>5. AttemptOK(t)
    BY <1>1, <2>2, <2>4, AttemptAtWork DEF AttemptOK, Creating, Changing
  <2>6. attempt' = [attempt EXCEPT ![a] = t]
    BY <1>3, <2>1, <2>3
  <2> QED BY <1>1, <2>4, <2>5, <2>6, AttemptMoves
<1> QED BY <1>2, <1>3 DEF Invite

\* A deletion that finds the event deleted has taken the step if the event has gone one
\* version beyond what it expected: then nobody else has taken it.
LEMMA LookStep == ASSUME CalendarIInv, NEW a \in Attempts, LookAtOwnership(a) PROVE CalendarIInv'
<1>1. /\ attempt[a].pc = "look" /\ UNCHANGED <<execution, ownership, calendar, answers>>
      /\ calendar' \in [Events -> EventRecords] /\ ownership' \in [Events -> OwnershipRecords]
  BY DEF LookAtOwnership, CalendarIInv, CalendarTyped
<1>2. PICK own : own = ownership[EventAt(a)]
  OBVIOUS
<1>3. PICK x : x = attempt[a].x
  OBVIOUS
<1>4. /\ own \in OwnershipRecords /\ x \in Executions /\ OperationOf[x] # "create" /\ OpOf(a) = OperationOf[x]
      /\ ExpectedVersion[x] \in Nat /\ EventAt(a) = EventOf[x]
      /\ OperationOf[x] \in {"update", "attendees", "delete"}
  BY <1>1, <1>2, <1>3, AttemptAtWork, CalendarAssumption DEF AttemptOK, Changing, OpOf, EventAt
<1>5. CASE Abandon(a)
  BY <1>1, <1>5, AttemptAbandons
<1>6. CASE own.deleted /\ OpOf(a) = "delete"
  <2>1. PICK o : o = Succeeded(own.version, TRUE)
    OBVIOUS
  <2>2. o \in CalendarOutcomes /\ o.kind = "succeeded" /\ o.version = own.version
    BY <1>4, <2>1 DEF Succeeded, CalendarOutcomes, OwnershipRecords
  <2>3. PICK t : t = [attempt[a] EXCEPT !.pc = "complete", !.outcome = o]
    OBVIOUS
  <2>4. /\ t \in AttemptRecords /\ t.pc = "complete" /\ t.x = x /\ t.version = attempt[a].version
        /\ t.state = attempt[a].state /\ t.outcome = o
    BY <1>1, <1>3, <2>2, <2>3, AttemptAtWork DEF AttemptRecords, AttemptPcs
  <2>5. AttemptOK(t)
    BY <1>1, <1>3, <2>2, <2>4, AttemptAtWork DEF AttemptOK, Creating, Changing
  <2>6. attempt' = [attempt EXCEPT ![a] = t]
    BY <1>2, <1>6, <2>1, <2>3 DEF LookAtOwnership
  <2>7. \A y \in Claimants : Passed(y, ownership'[EventOf[y]])
    BY <1>1 DEF CalendarIInv, ClaimantsOK
  <2>8. ASSUME Claimed(x, o) PROVE Passed(x, ownership'[EventOf[x]]) /\ \A y \in Claimants : ~Rivals(x, y)
    <3>1. own.version = ExpectedVersion[x] + 1
      BY <1>4, <1>6, <2>2, <2>8 DEF Claimed
    <3>2. Passed(x, ownership'[EventOf[x]])
      BY <1>1, <1>2, <1>4, <1>6, <3>1 DEF Passed
    <3>3. ASSUME NEW y \in Claimants, Rivals(x, y) PROVE FALSE
      <4>1. EventOf[y] = EventAt(a) /\ ExpectedVersion[y] = ExpectedVersion[x] /\ OperationOf[y] # "delete"
        BY <1>4, <1>6, <3>3 DEF Rivals
      <4>2. own.version > ExpectedVersion[x] + 1
        BY <1>2, <1>6, <4>1 DEF CalendarIInv, ClaimantsOK, Passed
      <4> QED BY <1>4, <3>1, <4>2
    <3> QED BY <3>2, <3>3
  <2> QED BY <1>1, <2>4, <2>5, <2>6, <2>7, <2>8, AttemptClaims
<1>7. CASE ~own.deleted /\ own.version = ExpectedVersion[x]
  <2>1. PICK pc : pc = CASE OpOf(a) = "update" -> "read" [] OpOf(a) = "attendees" -> "call"
                         [] OpOf(a) = "delete" -> IF attempt[a].state = "started" THEN "consume" ELSE "call"
    OBVIOUS
  <2>2. pc \in {"read", "call", "consume"}
    BY <1>4, <2>1
  <2>3. PICK t : t = [attempt[a] EXCEPT !.seen = own.seen, !.pc = pc]
    OBVIOUS
  <2>4. /\ t \in AttemptRecords /\ t.pc = pc /\ t.x = x /\ t.version = attempt[a].version
        /\ t.state = attempt[a].state
    BY <1>1, <1>3, <1>4, <2>2, <2>3, AttemptAtWork DEF AttemptRecords, AttemptPcs, Creating, Changing, OwnershipRecords
  <2>5. AttemptOK(t)
    BY <1>1, <1>3, <1>4, <2>2, <2>4, AttemptAtWork DEF AttemptOK, Creating, Changing
  <2>6. attempt' = [attempt EXCEPT ![a] = t]
    BY <1>2, <1>3, <1>7, <2>1, <2>3 DEF LookAtOwnership
  <2> QED BY <1>1, <2>2, <2>4, <2>5, <2>6, AttemptMoves
<1>8. Abandon(a) \/ (own.deleted /\ OpOf(a) = "delete") \/ (~own.deleted /\ own.version = ExpectedVersion[x])
  BY <1>2, <1>3, <1>4 DEF LookAtOwnership, OwnershipRecords
<1> QED BY <1>5, <1>6, <1>7, <1>8

\* Steps of an attempt that goes on to another call, or gives up.
LEMMA OnwardStep ==
  ASSUME CalendarIInv, NEW a \in Attempts, ReadEvent(a) \/ ConsumeConfirmation(a)
  PROVE  CalendarIInv'
<1>1. /\ attempt[a].pc \in {"read", "consume"} /\ UNCHANGED <<execution, ownership, answers>>
      /\ calendar' \in [Events -> EventRecords]
  BY DEF ReadEvent, ConsumeConfirmation, CalendarIInv, CalendarTyped
<1>2. OpOf(a) # "create"
  BY <1>1, AttemptAtWork DEF AttemptOK, Changing, OpOf
<1>3. PICK pc \in {"call", "consumed"} : Abandon(a) \/ Proceed(a, pc)
  BY DEF ReadEvent, ConsumeConfirmation
<1>4. pc \in AttemptPcs \ {"invited", "complete", "idle"} /\ pc \notin Creating
  BY <1>3 DEF AttemptPcs, Creating, Changing
<1> QED BY <1>1, <1>2, <1>3, <1>4, AttemptAbandons, AttemptProceeds

LEMMA CallStep == ASSUME CalendarIInv, NEW a \in Attempts, CallFeishu(a) PROVE CalendarIInv'
<1>1. attempt[a].pc = "call" /\ UNCHANGED <<execution, ownership, answers>>
  BY DEF CallFeishu
<1>2. EventAt(a) \in Events /\ calendar[EventAt(a)] \in EventRecords /\ attempt[a] \in AttemptRecords
  BY <1>1, AttemptAtWork
<1>3. OpOf(a) \in {"update", "attendees", "delete"}
  BY <1>1, AttemptAtWork, CalendarAssumption DEF AttemptOK, Changing, OpOf
<1>4. CalledOn(a) \in [Events -> EventRecords] /\ calendar \in [Events -> EventRecords]
  <2>1. calendar \in [Events -> EventRecords]
    BY DEF CalendarIInv, CalendarTyped
  <2>2. CASE OpOf(a) = "update"
    BY <1>2, <2>1, <2>2 DEF CalledOn, EventRecords
  <2>3. CASE OpOf(a) = "attendees"
    BY <1>2, <2>1, <2>3 DEF CalledOn
  <2>4. CASE OpOf(a) = "delete"
    BY <1>2, <2>1, <2>4 DEF CalledOn, EventRecords
  <2> QED BY <1>3, <2>1, <2>2, <2>3, <2>4
<1>5. CASE /\ calendar' = CalledOn(a)
           /\ attempt' = [attempt EXCEPT ![a].pc = "version",
                            ![a].seen = IF OpOf(a) = "update" THEN calendar'[EventAt(a)].rev ELSE @]
  <2>1. PICK seen : seen = IF OpOf(a) = "update" THEN calendar'[EventAt(a)].rev ELSE attempt[a].seen
    OBVIOUS
  <2>2. seen \in Nat
    <3>1. calendar'[EventAt(a)] \in EventRecords
      BY <1>2, <1>4, <1>5
    <3> QED BY <1>2, <2>1, <3>1 DEF EventRecords, AttemptRecords
  <2>3. PICK t : t = [attempt[a] EXCEPT !.pc = "version", !.seen = seen]
    OBVIOUS
  <2>4. /\ t \in AttemptRecords /\ t.pc = "version" /\ t.x = attempt[a].x /\ t.version = attempt[a].version
        /\ t.state = attempt[a].state
    BY <1>2, <2>2, <2>3 DEF AttemptRecords, AttemptPcs, Creating, Changing
  <2>5. AttemptOK(t)
    BY <1>1, <1>3, <2>4, AttemptAtWork DEF AttemptOK, Creating, Changing, OpOf
  <2>6. attempt' = [attempt EXCEPT ![a] = t]
    BY <1>5, <2>1, <2>3
  <2> QED BY <1>1, <1>4, <1>5, <2>4, <2>5, <2>6, AttemptMoves
<1>6. CASE /\ calendar' \in {calendar} \cup (IF calendar[EventAt(a)].exists THEN {CalledOn(a)} ELSE {})
           /\ CallFailed(a)
  <2>1. calendar' \in [Events -> EventRecords]
    BY <1>4, <1>6
  <2> QED BY <1>1, <1>6, <2>1, AttemptFails
<1> QED BY <1>5, <1>6 DEF CallFeishu

\* The change that finds the event as it expected takes the step; nobody has before.
LEMMA BumpStep == ASSUME CalendarIInv, NEW a \in Attempts, BumpVersion(a) PROVE CalendarIInv'
<1>1. /\ attempt[a].pc = "version" /\ UNCHANGED <<execution, calendar, answers>>
      /\ calendar' \in [Events -> EventRecords]
  BY DEF BumpVersion, CalendarIInv, CalendarTyped
<1>2. CASE ~MayBump(a)
  BY <1>1, <1>2, AttemptAbandons DEF BumpVersion
<1>3. CASE MayBump(a)
  <2>1. PICK own : own = ownership[EventAt(a)]
    OBVIOUS
  <2>2. PICK x : x = attempt[a].x
    OBVIOUS
  <2>3. /\ own \in OwnershipRecords /\ x \in Executions /\ OpOf(a) = OperationOf[x]
        /\ EventAt(a) = EventOf[x] /\ EventAt(a) \in Events /\ attempt[a] \in AttemptRecords
        /\ ~own.deleted /\ own.version = ExpectedVersion[x] /\ own.version \in Nat
    BY <1>1, <1>3, <2>1, <2>2, AttemptAtWork DEF MayBump, OpOf, EventAt, OwnershipRecords
  <2>4. PICK o : o = Succeeded(own.version + 1, TRUE)
    OBVIOUS
  <2>5. o \in CalendarOutcomes /\ o.kind = "succeeded"
    BY <2>3, <2>4 DEF Succeeded, CalendarOutcomes
  <2>6. PICK t : t = [attempt[a] EXCEPT !.pc = "complete", !.outcome = o]
    OBVIOUS
  <2>7. /\ t \in AttemptRecords /\ t.pc = "complete" /\ t.x = x /\ t.version = attempt[a].version
        /\ t.state = attempt[a].state /\ t.outcome = o
    BY <2>2, <2>3, <2>5, <2>6 DEF AttemptRecords, AttemptPcs
  <2>8. AttemptOK(t)
    BY <1>1, <2>2, <2>5, <2>7, AttemptAtWork DEF AttemptOK, Creating, Changing
  <2>9. attempt' = [attempt EXCEPT ![a] = t]
    BY <1>3, <2>1, <2>4, <2>6 DEF BumpVersion
  <2>10. PICK next : next = [own EXCEPT !.version = @ + 1, !.seen = attempt[a].seen, !.deleted = OpOf(a) = "delete"]
    OBVIOUS
  <2>11. /\ next \in OwnershipRecords /\ next.version = own.version + 1
         /\ next.deleted => OperationOf[x] = "delete"
    <3>1. PICK gone : gone = (OpOf(a) = "delete")
      OBVIOUS
    <3>2. gone \in BOOLEAN /\ (gone => OperationOf[x] = "delete")
      BY <2>3, <3>1
    <3>3. PICK v : v = own.version + 1
      OBVIOUS
    <3>4. next = [own EXCEPT !.version = v, !.seen = attempt[a].seen, !.deleted = gone]
      BY <2>10, <3>1, <3>3
    <3>5. v \in Nat /\ attempt[a].seen \in Nat
      BY <2>3, <3>3 DEF AttemptRecords
    <3>6. next.version = v /\ next.deleted = gone
      BY <2>3, <3>4 DEF OwnershipRecords
    <3>7. next \in OwnershipRecords
      BY <2>3, <3>2, <3>4, <3>5 DEF OwnershipRecords
    <3> QED BY <3>2, <3>3, <3>6, <3>7
  <2>12. ownership' = [ownership EXCEPT ![EventAt(a)] = next]
    BY <1>3, <2>1, <2>10 DEF BumpVersion
  <2>13. /\ ownership' \in [Events -> OwnershipRecords] /\ ownership'[EventAt(a)] = next
         /\ \A e \in Events \ {EventAt(a)} : ownership'[e] = ownership[e]
    BY <2>3, <2>11, <2>12 DEF CalendarIInv, CalendarTyped
  <2>14. ASSUME NEW y \in Claimants PROVE Passed(y, ownership'[EventOf[y]]) /\ ~Rivals(x, y)
    <3>1. /\ y \in Executions /\ EventOf[y] \in Events /\ ExpectedVersion[y] \in Nat
          /\ Passed(y, ownership[EventOf[y]])
      BY CalendarAssumption DEF CalendarIInv, ClaimantsOK, Claimants, Events
    <3>2. CASE EventOf[y] = EventAt(a)
      <4>1. own.version > ExpectedVersion[y]
        BY <2>1, <3>1, <3>2 DEF Passed
      <4>2. ~Rivals(x, y)
        BY <2>3, <3>1, <4>1 DEF Rivals
      <4>3. Passed(y, next)
        BY <2>3, <2>11, <3>1, <4>1 DEF Passed
      <4> QED BY <2>13, <3>2, <4>2, <4>3
    <3>3. CASE EventOf[y] # EventAt(a)
      BY <2>3, <2>13, <3>1, <3>3 DEF Rivals
    <3> QED BY <3>2, <3>3
  <2>15. Passed(x, next)
    <3>1. next.version > ExpectedVersion[x]
      BY <2>3, <2>11
    <3> QED BY <2>11, <3>1 DEF Passed
  <2> QED BY <1>1, <2>3, <2>7, <2>8, <2>9, <2>13, <2>14, <2>15, AttemptClaims
<1> QED BY <1>2, <1>3

\* The last checkpoint of an attempt.
LEMMA ConcludeStep ==
  ASSUME CalendarIInv, NEW a \in Attempts, attempt[a].pc # "idle",
         NEW x, x = attempt[a].x, NEW state \in Underway(x) \cup {"completed"},
         NEW outcome \in CalendarOutcomes, Conclude(a, state, outcome),
         \/ state # "completed" /\ outcome.kind = "unknown"
         \/ /\ state = "completed" /\ outcome.kind = "succeeded"
            /\ Claimed(x, outcome) => x \in Claimants,
         UNCHANGED <<ownership, calendar>>
  PROVE  CalendarIInv'
<1>1. CASE ~MayCheckpoint(a)
  BY <1>1, AttemptAbandons DEF Conclude, CalendarIInv, CalendarTyped
<1>2. CASE MayCheckpoint(a)
  <2>1. PICK r : r = [state |-> state, outcome |-> outcome, version |-> execution[x].version + 1]
    OBVIOUS
  <2>2. x \in Executions /\ execution[x].version \in Nat
    BY AttemptAtWork DEF ExecutionRecords
  <2>3. state \in CalendarStates /\ state # "absent"
    BY DEF Underway, CalendarStates
  <2>4. /\ r \in ExecutionRecords /\ r.state = state /\ r.outcome = outcome
        /\ r.version = execution[x].version + 1
    BY <2>1, <2>2, <2>3 DEF ExecutionRecords
  <2>5. RecordOK(x, r) /\ Replays(r)
    BY <2>3, <2>4 DEF RecordOK, Replays, Underway
  <2>6. PICK t : t = AtEase
    OBVIOUS
  <2>7. /\ execution' = [execution EXCEPT ![x] = r] /\ attempt' = [attempt EXCEPT ![a] = t]
        /\ answers' = answers \cup {[x |-> x, outcome |-> r.outcome]}
    BY <1>2, <2>1, <2>4, <2>6 DEF Conclude, Saves, Report, Abandon
  <2>8. t \in AttemptRecords /\ t.pc = "idle"
    BY <2>6, AtEaseOK
  <2> QED BY <1>2, <2>2, <2>3, <2>4, <2>5, <2>7, <2>8, RecordMoves
<1> QED BY <1>1, <1>2

LEMMA UnknownStep == ASSUME CalendarIInv, NEW a \in Attempts, PersistUnknown(a) PROVE CalendarIInv'
<1>1. PICK x, state, outcome : x = attempt[a].x /\ state = attempt[a].state /\ outcome = Unknown
  OBVIOUS
<1>2. attempt[a].pc # "idle" /\ Conclude(a, state, outcome) /\ UNCHANGED <<ownership, calendar>>
  BY <1>1 DEF PersistUnknown
<1>3. outcome \in CalendarOutcomes /\ outcome.kind = "unknown"
  BY <1>1 DEF Unknown, NoOutcome, CalendarOutcomes
<1>4. state \in Underway(x) /\ state # "completed"
  BY <1>1, <1>2, AttemptAtWork DEF AttemptOK, Underway
<1> QED BY <1>1, <1>2, <1>3, <1>4, ConcludeStep

\* The success an attempt claimed goes on record.
LEMMA CompletedStep == ASSUME CalendarIInv, NEW a \in Attempts, CompleteExecution(a) PROVE CalendarIInv'
<1>1. PICK x, state, outcome : x = attempt[a].x /\ state = "completed" /\ outcome = attempt[a].outcome
  OBVIOUS
<1>2. attempt[a].pc = "complete" /\ Conclude(a, state, outcome) /\ UNCHANGED <<ownership, calendar>>
  BY <1>1 DEF CompleteExecution
<1>3. outcome \in CalendarOutcomes /\ outcome.kind = "succeeded" /\ x \in Executions
  BY <1>1, <1>2, AttemptAtWork DEF AttemptOK, AttemptRecords
<1>4. Claimed(x, outcome) => x \in Claimants
  BY <1>1, <1>2, <1>3 DEF Claimants
<1> QED BY <1>1, <1>2, <1>3, <1>4, ConcludeStep

LEMMA CrashStep == ASSUME CalendarIInv, NEW a \in Attempts, CrashAttempt(a) PROVE CalendarIInv'
BY AttemptAbandons DEF CrashAttempt, CalendarIInv, CalendarTyped

\* Nothing of it is about Feishu.
LEMMA OutsideStep ==
  ASSUME CalendarIInv, UNCHANGED <<execution, ownership, attempt, answers>>,
         calendar' \in [Events -> EventRecords]
  PROVE  CalendarIInv'
<1>1. CalendarTyped' /\ AnswersRecorded' /\ ClaimantsOK'
  BY DEF CalendarIInv, CalendarTyped, AnswersRecorded, Replays, ClaimantsOK, Claimants, Claimed, Passed
<1>2. (\A y \in Executions : RecordOK(y, execution[y])') /\ \A b \in Attempts : AttemptOK(attempt[b])'
  BY DEF CalendarIInv, RecordOK, AttemptOK, Underway, Replays
<1> QED BY <1>1, <1>2 DEF CalendarIInv

LEMMA CalendarStepKeeps == ASSUME CalendarIInv, [CalendarNext]_calendarVars PROVE CalendarIInv'
<1>1. ASSUME NEW a \in Attempts, AttemptStep(a) PROVE CalendarIInv'
  BY <1>1, CreateStep, PutStep, CreatedStep, InviteStep, InvitedStep, LookStep, OnwardStep, ConsumedStep,
     CallStep, BumpStep, UnknownStep, CompletedStep, CrashStep DEF AttemptStep
<1>2. ASSUME NEW a \in Attempts, NEW x \in Executions, BeginExecution(a, x) PROVE CalendarIInv'
  BY <1>2, BeginKeeps
<1>3. ASSUME NEW e \in Events, ChangeOutside(e) PROVE CalendarIInv'
  <2>1. calendar \in [Events -> EventRecords] /\ calendar[e] \in EventRecords
    BY DEF CalendarIInv, CalendarTyped
  <2>2. [calendar EXCEPT ![e].rev = @ + 1] \in [Events -> EventRecords]
    BY <2>1 DEF EventRecords
  <2>3. [calendar EXCEPT ![e].exists = FALSE] \in [Events -> EventRecords]
    BY <2>1 DEF EventRecords
  <2>4. calendar' \in [Events -> EventRecords]
    BY <1>3, <2>2, <2>3 DEF ChangeOutside
  <2> QED BY <1>3, <2>4, OutsideStep DEF ChangeOutside
<1>4. CASE UNCHANGED calendarVars
  BY <1>4, OutsideStep DEF calendarVars, CalendarIInv, CalendarTyped
<1> QED BY <1>1, <1>2, <1>3, <1>4 DEF CalendarNext

LEMMA CalendarStarts == CalendarInit => CalendarIInv
<1> SUFFICES ASSUME CalendarInit PROVE CalendarIInv
  OBVIOUS
<1>1. \A a \in Attempts : attempt[a] \in AttemptRecords /\ attempt[a].pc = "idle"
  BY AtEaseOK DEF CalendarInit
<1>2. NoOutcome \in CalendarOutcomes /\ NoOutcome.kind = "none"
  BY DEF NoOutcome, CalendarOutcomes
<1>3. \A x \in Executions : /\ execution[x] \in ExecutionRecords /\ execution[x].state = "absent"
                            /\ execution[x].outcome.kind = "none" /\ execution[x].version = 0
  BY <1>2 DEF CalendarInit, ExecutionRecords, CalendarStates
<1>4. CalendarTyped
  BY <1>1, <1>3 DEF CalendarInit, CalendarTyped, OwnershipRecords, EventRecords
<1>5. AnswersRecorded
  BY DEF CalendarInit, AnswersRecorded
<1>6. Claimants = {}
  BY <1>1, <1>3 DEF Claimants
<1>7. \A x \in Executions : RecordOK(x, execution[x])
  BY <1>3 DEF RecordOK
<1>8. \A a \in Attempts : AttemptOK(attempt[a])
  BY <1>1 DEF AttemptOK
<1> QED BY <1>4, <1>5, <1>6, <1>7, <1>8 DEF CalendarIInv, ClaimantsOK

THEOREM CalendarAlwaysIInv == CalendarSpec => []CalendarIInv
BY CalendarStarts, CalendarStepKeeps, PTL DEF CalendarSpec

\* An execution of a calendar operation has one answer, whatever attempts of it overlap or
\* crash, and of the changes that expect the same version of an event one succeeds, save
\* deletions that have nothing to do.
THEOREM ExecutionsAnswerOnce == CalendarSpec => []AnswersAgree
<1>1. CalendarIInv => AnswersAgree
  <2> SUFFICES ASSUME CalendarIInv, NEW p \in answers, NEW q \in answers
               PROVE  /\ p.x = q.x => p = q
                      /\ Rivals(p.x, q.x) =>
                           "unknown" \in {p.outcome.kind, q.outcome.kind} \/ FoundDeleted(p) \/ FoundDeleted(q)
    BY DEF AnswersAgree
  <2>1. p.x = q.x => p = q
    BY DEF CalendarIInv, AnswersRecorded
  <2>2. ASSUME NEW s \in answers, s.outcome.kind # "unknown", ~FoundDeleted(s), OperationOf[s.x] # "create"
        PROVE  s.x \in Claimants
    <3>1. /\ s.x \in Executions /\ s.outcome = execution[s.x].outcome /\ Replays(execution[s.x])
          /\ RecordOK(s.x, execution[s.x])
      BY DEF CalendarIInv, AnswersRecorded
    <3>2. execution[s.x].state = "completed" /\ s.outcome.kind = "succeeded"
      BY <2>2, <3>1 DEF Replays, RecordOK
    <3>3. Claimed(s.x, execution[s.x].outcome)
      BY <2>2, <3>1, <3>2 DEF Claimed, FoundDeleted
    <3> QED BY <3>1, <3>2, <3>3 DEF Claimants
  <2>3. ASSUME Rivals(p.x, q.x), p.outcome.kind # "unknown", q.outcome.kind # "unknown",
               ~FoundDeleted(p), ~FoundDeleted(q)
        PROVE  FALSE
    <3>1. p.x \in Claimants /\ q.x \in Claimants
      BY <2>2, <2>3 DEF Rivals
    <3> QED BY <2>3, <3>1 DEF CalendarIInv, ClaimantsOK
  <2> QED BY <2>1, <2>3
<1> QED BY <1>1, CalendarAlwaysIInv, PTL

=============================================================================
