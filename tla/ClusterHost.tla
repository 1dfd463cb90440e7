---------------------------- MODULE ClusterHost ----------------------------
(***************************************************************************)
(* One host of partition work: a bounded ready queue, filled by polling    *)
(* the catalog and by wakeup hints, and emptied by a bounded number of     *)
(* turns.  A hint is only a hint: it may be lost, doubled, dropped, or     *)
(* spent on a turn that finds the lease taken.  The catalog knows what is  *)
(* ready, and polling is what brings the work to a turn in the end.        *)
(***************************************************************************)
EXTENDS Integers, Sequences, SequencesExt

CONSTANTS
  Items,         \* partition and kind: what a turn works on
  TenantOf,      \* the tenant of each item
  Tenants,       \* the tenants of the host, in the order it polls them
  ScanOrder,     \* all items, in the order in which the catalog lists them
  Capacity,      \* max_ready_items
  PageSize,      \* catalog_page_size
  MaxTurns,      \* max_concurrent_turns
  Hot,           \* items whose work never ceases to arrive
  MaxLoad,       \* bound: arrivals of work for all the other items
  MaxHostTroubles \* bound: scans, turns and acknowledgements that fail

ASSUME HostAssumption ==
  /\ \A t \in DOMAIN Tenants, u \in DOMAIN Tenants : Tenants[t] = Tenants[u] => t = u
  /\ TenantOf \in [Items -> Range(Tenants)] /\ Hot \subseteq Items
  /\ ScanOrder \in Seq(Items) /\ Range(ScanOrder) = Items
  /\ MaxTurns \in Nat \ {0} /\ Capacity \in Nat /\ Capacity >= MaxTurns
  /\ PageSize \in Nat \ {0} /\ MaxLoad \in Nat /\ MaxHostTroubles \in Nat

VARIABLES
  hostState,     \* "idle", "running", "draining" or "stopped"
  ready,         \* the items the catalog lists: there is work for them
  hints,         \* wakeups under way
  queue,         \* the tenant-fair ready queue
  underWay,      \* the turns under way, each with its item and the next thing it does
  poll,          \* the poll loop: where it is, the tenant it is at, the page it holds
  ingest,        \* the ingest loop: where it is, the hint it holds
  load,          \* arrivals so far
  hostTroubles   \* failures so far

hostVars == <<hostState, ready, hints, queue, underWay, poll, ingest, load, hostTroubles>>

TenantSet == Range(Tenants)
NoItem == "none"
Stopping == hostState \in {"draining", "stopped"}

-----------------------------------------------------------------------------
(* The ready queue: round robin among the tenants that have items.  passed *)
(* is history: what each tenant has done since another began to wait or    *)
(* was last served.  It has not been served, or it has and stayed in the   *)
(* order for its further items, or it has and left.                        *)

NotServed == [u \in TenantSet |-> "not served"]

EmptyQueue ==
  [order |-> <<>>, items |-> [t \in TenantSet |-> <<>>], next |-> 0, count |-> 0,
   passed |-> [t \in TenantSet |-> NotServed]]

IsFull(q) == q.count >= Capacity

\* An item that is queued already is coalesced; a full queue drops it.
Offer(q, i) ==
  LET t == TenantOf[i] IN
  IF i \in Range(q.items[t]) \/ IsFull(q) THEN q
  ELSE [order |-> IF q.items[t] = <<>> THEN Append(q.order, t) ELSE q.order,
        items |-> [q.items EXCEPT ![t] = Append(@, i)], next |-> q.next,
        count |-> q.count + 1, passed |-> q.passed]

NextTenant(q) == q.order[q.next + 1]
NextItem(q) == Head(q.items[NextTenant(q)])

\* What becomes of passed when t is served.
PassOver(q, t) ==
  [w \in TenantSet |->
     IF w = t \/ w \notin Range(q.order) THEN NotServed
     ELSE [q.passed[w] EXCEPT ![t] = IF Tail(q.items[t]) = <<>> THEN "left" ELSE "stayed"]]

\* Bug: the tenant that was served stays next.
AfterTakeGreedy(q) ==
  LET t == NextTenant(q)
      rest == Tail(q.items[t])
      order == IF rest = <<>> THEN RemoveAt(q.order, q.next + 1) ELSE q.order IN
  [order |-> order, items |-> [q.items EXCEPT ![t] = rest], count |-> q.count - 1,
   next |-> IF order = <<>> THEN 0 ELSE q.next % Len(order), passed |-> PassOver(q, t)]

\* Bug: the last item of a tenant is not counted off.
AfterTakeLeaks(q) ==
  LET t == NextTenant(q)
      rest == Tail(q.items[t])
      order == IF rest = <<>> THEN RemoveAt(q.order, q.next + 1) ELSE q.order
      skip == IF rest = <<>> THEN 0 ELSE 1 IN
  [order |-> order, items |-> [q.items EXCEPT ![t] = rest], count |-> q.count - skip,
   next |-> IF order = <<>> THEN 0 ELSE (q.next + skip) % Len(order),
   passed |-> PassOver(q, t)]

\* A tenant without further items leaves the order: the one behind it is next.
AfterTake(q) ==
  LET t == NextTenant(q)
      rest == Tail(q.items[t])
      order == IF rest = <<>> THEN RemoveAt(q.order, q.next + 1) ELSE q.order
      skip == IF rest = <<>> THEN 0 ELSE 1 IN
  [order |-> order, items |-> [q.items EXCEPT ![t] = rest], count |-> q.count - 1,
   next |-> IF order = <<>> THEN 0 ELSE (q.next + skip) % Len(order),
   passed |-> PassOver(q, t)]

-----------------------------------------------------------------------------
(* Turns. *)

\* Turns of this host exclude each other by the lease of their item.
LeaseTaken(turns, i) == \E k \in DOMAIN turns : turns[k].item = i /\ turns[k].next # "give up"

\* A turn begins by asking for the lease.
Turn(turns, i) == [item |-> i, next |-> IF LeaseTaken(turns, i) THEN "give up" ELSE "work"]

\* pump: turns are started until the host or the queue has no more, in one go.
Pumped(q, turns) ==
  LET started[n \in 0..MaxTurns] ==
        IF n = 0 THEN [queue |-> q, underWay |-> turns]
        ELSE LET p == started[n - 1] IN
             IF Len(p.underWay) >= MaxTurns \/ p.queue.order = <<>> THEN p
             ELSE [queue |-> AfterTake(p.queue),
                   underWay |-> Append(p.underWay, Turn(p.underWay, NextItem(p.queue)))]
  IN started[MaxTurns]

Pump(turns) ==
  IF Stopping THEN underWay' = turns /\ UNCHANGED queue
  ELSE LET p == Pumped(queue, turns) IN queue' = p.queue /\ underWay' = p.underWay

Trouble == hostTroubles < MaxHostTroubles /\ hostTroubles' = hostTroubles + 1

\* The work there is gets done, or the turn fails.
Work(k) ==
  /\ underWay[k].next = "work"
  /\ underWay' = [underWay EXCEPT ![k].next = "end"]
  /\ \/ ready' = ready \ {underWay[k].item} /\ UNCHANGED hostTroubles
     \/ Trouble /\ UNCHANGED ready
  /\ UNCHANGED <<hostState, hints, queue, poll, ingest, load>>

\* A turn that ends makes room for the next.
EndTurn(k) ==
  /\ underWay[k].next \in {"end", "give up"}
  /\ Pump(RemoveAt(underWay, k))
  /\ UNCHANGED <<hostState, ready, hints, poll, ingest, load, hostTroubles>>

-----------------------------------------------------------------------------
(* The poll loop: the tenants in their order, as long as there is room. *)

\* The first items the catalog lists for t, as many as a page and the queue have room for.
Page(t) ==
  LET listed == {n \in DOMAIN ScanOrder : ScanOrder[n] \in ready /\ TenantOf[ScanOrder[n]] = t}
      size == Min({PageSize, Capacity - queue.count})
  IN {ScanOrder[n] : n \in {m \in listed : Cardinality({k \in listed : k <= m}) <= size}}

\* The items of a page are offered one by one, as they are listed.
OfferAll(q, page) ==
  LET offered[n \in 0..Len(ScanOrder)] ==
        IF n = 0 THEN q
        ELSE IF ScanOrder[n] \in page THEN Offer(offered[n - 1], ScanOrder[n]) ELSE offered[n - 1]
  IN offered[Len(ScanOrder)]

Scan ==
  /\ poll.pc = "scan"
  /\ \/ /\ Stopping \/ IsFull(queue) \/ poll.tenant > Len(Tenants)
        /\ poll' = [poll EXCEPT !.pc = "pump"] /\ UNCHANGED hostTroubles
     \/ /\ ~Stopping /\ ~IsFull(queue) /\ poll.tenant <= Len(Tenants)
        /\ \/ poll' = [poll EXCEPT !.pc = "offer", !.page = Page(Tenants[poll.tenant])]
              /\ UNCHANGED hostTroubles
           \/ Trouble /\ poll' = [poll EXCEPT !.tenant = @ + 1]
  /\ UNCHANGED <<hostState, ready, hints, queue, underWay, ingest, load>>

\* Bug: the page is queued though the host has begun to drain.
OfferPageLate ==
  /\ poll.pc = "offer"
  /\ queue' = OfferAll(queue, poll.page)
  /\ poll' = [pc |-> "scan", tenant |-> poll.tenant + 1, page |-> {}]
  /\ UNCHANGED <<hostState, ready, hints, underWay, ingest, load, hostTroubles>>

\* The scan has answered; hints may have taken the room meanwhile, or a drain begun.
OfferPage ==
  /\ poll.pc = "offer"
  /\ IF Stopping
       THEN poll' = [poll EXCEPT !.pc = "pump", !.page = {}] /\ UNCHANGED queue
       ELSE /\ queue' = OfferAll(queue, poll.page)
            /\ poll' = [pc |-> "scan", tenant |-> poll.tenant + 1, page |-> {}]
  /\ UNCHANGED <<hostState, ready, hints, underWay, ingest, load, hostTroubles>>

\* The loop goes on after a delay for as long as the host runs.
PollPump ==
  /\ poll.pc = "pump"
  /\ Pump(underWay)
  /\ poll' = [pc |-> IF hostState = "running" THEN "scan" ELSE "done", tenant |-> 1, page |-> {}]
  /\ UNCHANGED <<hostState, ready, hints, ingest, load, hostTroubles>>

-----------------------------------------------------------------------------
(* The ingest loop. *)

NextHint ==
  /\ ingest.pc = "next"
  /\ \/ /\ Stopping
        /\ ingest' = [ingest EXCEPT !.pc = "done"] /\ UNCHANGED hints
     \/ \E i \in hints :
          /\ ~Stopping
          /\ hints' = hints \ {i} /\ ingest' = [pc |-> "offer", item |-> i]
  /\ UNCHANGED <<hostState, ready, queue, underWay, poll, load, hostTroubles>>

\* A hint that arrives when the host is stopping is acknowledged and forgotten.
OfferHint ==
  /\ ingest.pc = "offer"
  /\ IF Stopping
       THEN ingest' = [pc |-> "done", item |-> NoItem] /\ UNCHANGED queue
       ELSE /\ queue' = Offer(queue, ingest.item)
            /\ ingest' = [ingest EXCEPT !.pc = "settle"]
  /\ UNCHANGED <<hostState, ready, hints, underWay, poll, load, hostTroubles>>

\* The hint is acknowledged whatever became of it, or else delivered again.
SettleHint ==
  /\ ingest.pc = "settle"
  /\ ingest' = [pc |-> "next", item |-> NoItem]
  /\ \/ Pump(underWay) /\ UNCHANGED <<hints, hostTroubles>>
     \/ Trouble /\ hints' = hints \cup {ingest.item} /\ UNCHANGED <<queue, underWay>>
  /\ UNCHANGED <<hostState, ready, poll, load>>

-----------------------------------------------------------------------------
(* The host, and the work that arrives. *)

Start ==
  /\ hostState = "idle"
  /\ hostState' = "running"
  /\ poll' = [poll EXCEPT !.pc = "scan"] /\ ingest' = [ingest EXCEPT !.pc = "next"]
  /\ UNCHANGED <<ready, hints, queue, underWay, load, hostTroubles>>

Drain ==
  /\ ~Stopping
  /\ hostState' = "draining" /\ queue' = EmptyQueue
  /\ UNCHANGED <<ready, hints, underWay, poll, ingest, load, hostTroubles>>

\* All turns have ended, or the time for them has run out.
Drained ==
  /\ hostState = "draining"
  /\ hostState' = "stopped"
  /\ UNCHANGED <<ready, hints, queue, underWay, poll, ingest, load, hostTroubles>>

\* Work arrives; its hint may be lost, or there is one already.
Arrive(i) ==
  /\ IF i \in Hot THEN i \notin ready /\ UNCHANGED load ELSE load < MaxLoad /\ load' = load + 1
  /\ ready' = ready \cup {i}
  /\ hints' \in {hints, hints \cup {i}}
  /\ UNCHANGED <<hostState, queue, underWay, poll, ingest, hostTroubles>>

\* The catalog may list work already when the host starts.
HostInit ==
  /\ ready \in SUBSET Items
  /\ hostState = "idle" /\ hints = {} /\ underWay = <<>> /\ queue = EmptyQueue
  /\ poll = [pc |-> "idle", tenant |-> 1, page |-> {}]
  /\ ingest = [pc |-> "idle", item |-> NoItem]
  /\ load = 0 /\ hostTroubles = 0

Polling == Scan \/ OfferPage \/ PollPump
Turning(k) == k \in DOMAIN underWay /\ (Work(k) \/ EndTurn(k))

HostNext ==
  \/ Polling \/ NextHint \/ OfferHint \/ SettleHint \/ Start \/ Drain \/ Drained
  \/ \E k \in 1..MaxTurns : Turning(k)
  \/ \E i \in Items : Arrive(i)

HostSpec == HostInit /\ [][HostNext]_hostVars

\* The calls of the poll loop return and its timer fires; turns end.  Nothing is
\* assumed of hints.
HostFairness == WF_hostVars(Polling) /\ WF_hostVars(Turning(1))
HostFairSpec == HostSpec /\ HostFairness
-----------------------------------------------------------------------------
(* Properties. *)

\* Types, and the index of the ready queue: take throws if a tenant in the order has no
\* item, and a wrong count blocks the queue or lets it grow.
HostTypeOK ==
  /\ hostState \in {"idle", "running", "draining", "stopped"}
  /\ ready \subseteq Items /\ hints \subseteq Items
  /\ Len(underWay) <= MaxTurns
  /\ Range(queue.order) = {t \in TenantSet : queue.items[t] # <<>>}
  /\ Cardinality(Range(queue.order)) = Len(queue.order)
  /\ queue.next \in 0..(IF queue.order = <<>> THEN 0 ELSE Len(queue.order) - 1)
  /\ queue.count = FoldLeft(LAMBDA n, t : n + Len(queue.items[t]), 0, Tenants)
  /\ queue.count <= Capacity

QueuedTenants == Range(queue.order)

\* Phase 6A, section 8: tenant round-robin.  However much work a hot tenant keeps in the
\* queue, having been served it is not next again before each of the tenants that wait.
TenantsTakeTurns ==
  \A t \in QueuedTenants : queue.passed[t][NextTenant(queue)] # "stayed"

\* The same of every tenant, as the design says it: each contributes at most one item per
\* round.  It is not so: a tenant whose only item was taken leaves the order, comes back at
\* its end, and that may be ahead of one that has been waiting since before.
OneItemPerRound ==
  \A t \in QueuedTenants : queue.passed[t][NextTenant(queue)] = "not served"

\* Once the host drains, nothing that was under way (a scan, a hint, a turn that ends)
\* puts work in the queue or starts a turn.
DrainSticks ==
  [][Stopping => queue'.count = 0 /\ Len(underWay') <= Len(underWay)]_hostVars

\* Phase 6A: catalog polling recovers the work whose hints were dropped, lost, or spent
\* on a turn that found the lease taken.  Whatever is ready gets done in the end.
WorkGetsDone == hostState = "running" ~> Stopping \/ ready = {}
=============================================================================
