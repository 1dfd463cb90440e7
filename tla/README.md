# Work Fabric in TLA+

Work Fabric hands work from one actor to another. The *Exchange* keeps, for every Handoff,
who is responsible for it, as an event stream; the runtime around it delivers the events,
projects them and connects agents, channels and other Exchanges. The modules here model
the parts of the code in which concurrency, failures and order decide whether
responsibility is lost, doubled or forgotten, whether events are delivered, and whether
what was done once is done again.

Contents: [inventory](#inventory), [modules](#modules), [runs](#runs),
[fairness](#fairness), [proofs](#proofs), [disagreements found](#disagreements-found),
[what the models show besides](#what-the-models-show-besides),
[abstractions](#abstractions), [not modelled](#not-modelled), [plan](#plan).
Paths are relative to `src/packages/` unless they begin with `src/`.

## Inventory

| Component | State it keeps | Operations | Interacts with |
|---|---|---|---|
| Handoff domain (`exchange-core/src/domain`) | none: pure functions on a replayed Handoff | `decideHandoff`, `evolveHandoff`, `offerChildHandoff`, `acceptChildAndTransferParent` | called by the Exchange application and by the projector |
| Exchange application (`exchange-core/src/application`) | none of its own: locals across awaits | `handle` for 17 kinds of command | persistence, context, authority, target eligibility |
| Exchange persistence (`exchange-spi`, `adapter-storage-*`) | streams, partition journals, command records, delivery positions, pending deliveries, attempts, dead letters, checkpoints, outbox | `commitAtomically`, `findCommand`, `readStream`, `readPartition`, `claimPendingDelivery`, `settleDelivery`, ... | everything |
| Cursor pull, SSE (`exchange-runtime/src/subscription/cursor-pull-service.ts`) | in the store: a position, and the chain of deliveries with an active one | `pull`, `pullSse`, `acknowledge` | journal, delivery state, clients |
| Signal dispatch (`.../signal-dispatcher.ts`) | in the store: a position, attempts, dead letters | `dispatchPartitionTurn` | journal, delivery state, destinations, lease fence |
| Partition leases and turns (`cluster-runtime/src/lease-guard.ts`, `partition-worker.ts`) | lease row (owner, fencing token, expiry), a guard per turn | `acquire`, `renew`, `release`, `assertOwnership`, heartbeat, `run` | signal dispatch, projections |
| Cluster host (`cluster-host.ts`, `ready-queue.ts`) | bounded ready queue, turns under way, state | `pollOnce`, `ingestOnce`, `pump`, `drain` | catalog, wakeups, worker |
| Projections (`exchange-runtime/src/projection`, `operations-runtime/src/collaboration-projector.ts`) | read models, checkpoints, failures | `runPartition`, `rebuildPartition` | journal, fence; one follows another |
| Connector ingress (`connector-runtime`, `adapter-connector-*`) | ingress records with fenced claims, dedupe index | `accept`, `claim`, `renew`, `complete`, `retry`, `deadLetter`, `requeue` | Exchange commands |
| Recovery requests (`operations-runtime/src/recovery-*.ts`) | requests with claims | `claim`, action, `complete`, `fail` | ingress records |
| Agent gateway, endpoint directory (`agent-gateway`, `endpoint-directory`) | session, renewal loop; registrations, sessions, fencing tokens, heartbeat sequences | `connect`, `renew`, `close`; `openSession`, `heartbeat`, `closeSession` | each other, target eligibility |
| Agent runtime host (`agent-runtime-host`) | runs with leases, recorded commands and deliveries | `handle`, `recover`, `claimAndRun`, `close` | gateway, Exchange commands, agent |
| Agent capability invocation (`agent-capability-runtime`) | invocation records with leases | `invoke` | Exchange commands, catalog, auxiliary Handoff |
| Federation gateway (`federation-runtime`) | replay records | `receiveOffer`, `prepareOutbound`, `deliverOutbound`, `applyReceipt` | other Exchanges, bridge |
| Participation discovery (`discovery-runtime`) | records and tombstones of origin and peers, cursors | `refresh`, `pull`, `apply`, `prune` | directory, other Exchanges |
| Feishu calendar provider (`provider-feishu`) | executions, ownership records, confirmations | create, update, delete, attendees | Feishu |
| Admission, governance, citizens, claim expiry, connectors, providers, channels, transport, SDK, node, console | policy, registrations, configuration, external clients | queries, mapping, routing, display | see [not modelled](#not-modelled) |

What is hard, and what makes each part correct:

* **Exchange.** A handler reads streams, awaits other services and then commits; others
  commit in between. Correct if a stale decision never reaches a stream, a stream can always
  be replayed, one party is responsible, a transfer moves the responsibility in one step,
  claims are fenced, and a retried command takes effect once.
* **Persistence.** A commit on PostgreSQL is many statements at READ COMMITTED. Correct if it
  is one step to everybody else, positions have no gaps, and commits never wait in a circle.
* **Cursor pull.** Position, active delivery and events are read in separate calls, and a
  delivery can expire, be retried and be acknowledged at the same time. Correct if the
  position never passes an event nobody settled, one delivery is pending at a time, and every
  event is handed out in the end.
* **Signal dispatch and leases.** A turn can lose its lease at any call. Correct if no event
  is skipped or given up without cause, backoff is kept across turns, an effect is begun under
  the newest token only, and everything settles whatever crashes.
* **Cluster host.** Dropped hints, a full queue, drain against polling. Correct if ready work
  is run in the end, tenants take turns, and a drain is final.
* **Projections.** A crash between model and checkpoint, two runners, a rebuild, a view that
  follows another. Correct if a model is the replay of a prefix that is no shorter than its
  checkpoint.
* **Ingress and recovery.** A worker that lost its claim; a retry of what was done. Correct if
  only the holder settles and every ingress and request ends.
* **Gateway and directory.** A call given up that is applied later; two processes of one
  Endpoint. Correct if one session is active, a closed one stays closed, nothing is undone.
* **Agent runtime host, invocation, federation, calendar.** A call repeated around a crash, a
  lapsed lease, or a late answer. Correct if all answers agree and an effect happens once.
* **Discovery.** Late and overlapping pages, pruning, skewed clocks, full stores. Correct if a
  withdrawn record stays gone and the cursor passes no change that the peer has not seen.

`PROJECT.json` lists the components with their sources and status, and every hazard with
the line where it bites and the properties that watch it.

## Modules

One module per component; those above it in the list are extended by name where they
interact (`SignalDispatch` on `PartitionLease`, `Recovery` on `ConnectorIngress`, `Exchange`
on `Handoff`). One action stands for one stretch of code between two awaits, or for one call
of a store; what a handler remembers across an await is a field of its local record.

| Module | Models | State and actions |
|---|---|---|
| `Handoff` | decider, reducer, transfer rules | no variables: `Decide`, `EventOf`, `EventAllowed`, `Evolve`; an empty stream is `Absent`, one whose replay throws is `"unreadable"` |
| `Exchange` | `ExchangeApplication.handle` over an atomic store | `handoff` (each stream as its replay), `commands`, `request` (locals of each handler), `now`; `Receive` (findCommand), `LoadUnique`/`LoadReceived`/`LoadOther` (readStream), `DecideOne`, `DecideChildOffer`, `DecideChildAccept`, `Commit`, `Fail` |
| `Responsibility`, `ExchangeRefinement` | what the Exchange promises: responsibility is a token; the mapping of the one to the other | `phase`, `bearer`, `executor`, `holder`, `served` per piece of work; `Root` follows the parents of a Handoff to the one it was transferred from first, `Bearer` is the one of the tree that bears the responsibility |
| `AtomicJournal` | what an adapter promises of `commitAtomically`; with SQLite, the code itself | `rows` (of the events), `recorded` (the command records), `call`; a call, its commit in one step, its return |
| `PostgresCommit` | the PostgreSQL transaction, statement by statement | `rows`, `recorded`, `tx` (each writer's transaction with its locks and what it has read); `BeginTx`, `Statement`, `Rollback`, `Return` |
| `PullDelivery` | `CursorPullService`, one subscription and partition | `journal`, `position`, `active`, `deliveries`, `deadLetters`, `now`, `worker`; one action per store call |
| `PartitionLease` | the lease row and `PartitionLeaseGuard` | `lease`, `guard`, `now`, `troubles`; `Acquire`, `Heartbeat`, `Release`, ... |
| `SignalDispatch` | a turn of `PartitionWorker` with the signal dispatcher | `journal`, `position`, `attempts`, `deadLetters`, `turn`; `Begin` ... `End`, `Reassert` before every effect, `Beat`, `Throw`, `Crash` |
| `ClusterHost` | `ClusterPartitionHost` and `TenantFairReadyQueue` | `queue`, `underWay`, `poll`, `ingest`, `ready`, `hints`, `hostState`; polling page by page, ingestion, `Pump` after every change, drain |
| `Projection` | the three projectors over one partition | `view`, `timeline`, `checkpoint`, `failures`, `upstream`, `holder` (of the lease), `runner`; batches, blocked Handoffs, lapses, rebuilds |
| `ConnectorIngress`, `Recovery` | worker and store of ingress records; requests, their worker and the requeue | `ingress`, `worker`, `effects`, `receiptsKept`; `recovery`, `operator` |
| `AgentGateway` | `AgentEndpointSession` and the directory's session operations | `registration`, `session`, `activeSession`, `fencing`, `gateway`, `calls` (each with its look and its write) |
| `RuntimeHost` | `AgentRuntimeHost` and one Handoff | durable `run`, `commands`, `receipts`; `task` (handlers and recovery), `activeTask`, `snapshot`, `host`; outside `remote`, `keys`, `deliveries` |
| `CalendarExecutor` | executions of event operations and Feishu | `execution`, `ownership`, `calendar`, `proofs`, `attempt` |
| `CapabilityInvocation` | `HandoffInvocationPort`, its record and the auxiliary Handoff | `invocation`, `auxiliary`, `invoke`, `told` (what calls have answered, and which of them at the door) |
| `Federation` | offer, replay store, bridge, receipt on both sides | `expiry` (of each offer), `replay` (the target's records), `decision`, `exchange` (each call), `returned`, `applied` |
| `Discovery` | exporter, origin store, page, peer store | `origin`, `peer` and their change counters `sequence`, `peerSequence`; `refresh`, `pull`, `cursor`; history: `announced`, `repeated`, `gone`, `late`, `evicted` |
| `ExchangeProofs`, `RefinementProofs`, `CommitProofs`, `PullProofs`, `DispatchProofs`, `ConnectorProofs`, `AgentProofs`, `NetworkProofs` | theorems, see [proofs](#proofs) | |
| `MCExchange`, `MCTransfer`, `MCPull`, `MCNetwork`, `MCRuntime`, `MCLiveness` | instances for TLC | packages, data, symmetry, the focus of a behaviour |

Definitions that say `Bug:` are mutations that show a property can fail: each is a plausible
mistake in the definition that follows it, and no specification uses them. History
variables and fields are commented as such; no action reads them.

## Runs

States are distinct states, with two workers on one machine; expect the times to vary.

| Run | Shows | States, time |
|---|---|---|
| `MCLifecycle` | the whole life of one Handoff with two handlers: types, replayable streams, the responsible actor fits the state, claims are kept, and the Exchange implements `Responsibility` | 172,056, 25 s |
| `MCTransfer` | transfers are atomic, stale proposals do not fit any more, responsibility is a token across transfers; retried and doubled commands take effect once | 283,490, 80 s |
| `MCPull` | nothing is skipped, one delivery is pending, ranges settle once | 1,436,451, 60 s |
| `MCNetwork` | signals, discovery, invocation, federation: `NothingSkipped`, `AttemptsInOrder`, `FencedOut`, `WithdrawnStaysGone`, `NothingPassedOver`, `OneAnswer`, `OneReceipt` | 1,346,865, 125 s |
| `MCRuntime` | commits, host, projections, ingress and recovery, gateway, agent runs, calendar: `CommitsAtomically` (PostgreSQL implements the atomic journal), `NobodyWaitsInACircle`, `TenantsTakeTurns`, `DrainSticks`, `ViewIsAPrefix`, `SettledByHolder`, `SessionsInOrder`, `LateCallsAreStale`, `ResultsAgree`, `AckedIsHeld`, `ExecutedOnce`, `AnswersAgree` | 1,121,576, 110 s |
| `MCLiveness` | what must happen does: `WorkGetsDone`, `EverythingIsProjected`, `EveryIngressEnds`, `EveryRequestEnds`, `AtLeastOnce`, `EverythingSettles` | 79,498, 95 s |
| `MCRework`, `MCPullRace`, `MCTenants`, `MCRebuild`, `MCResultLost`, `MCDeleteTwice` | the [disagreements](#disagreements-found), as counterexamples | seconds |

**Several components in one run.** Components that share no state are checked together: a
variable `focus` is chosen in the initial state and only that component moves, so the state
space is the disjoint union of theirs, and a property of one is checked in all of its states.
The `VIEW` of these runs leaves out the variables of the components that stand still.
`MCNetwork` uses symmetry: turns, calls, capabilities and exchanges are interchangeable, and
because only one component moves, all of them may be renamed together. Symmetry is used in
runs without liveness only. `MCTransfer` is the union of two instances, told apart by the
packages offered, as a constraint on states: one with transfers under keys used once, one
with a key that is used again.

**Bounds, and why they are enough.** Two handlers, calls or turns are what a race needs: each
holds at most one stale value at a time, and a third would find the state one of the two
leaves. Deadlock is not checked: every model stops at its bounds.

* `MCLifecycle`: two actors, a package of each assignment mode, `MaxVersion` 6 (the longest
  life up to a rework), `MaxFence` and `MaxTime` 2: a claim can be made, lapse and be made
  again.
* `MCTransfer`: three Handoffs, because two children of one parent, and a child of a child,
  are the smallest trees that differ; streams of 4. With the retried key: two Handoffs,
  transfers and accepts under the key beside offers and accepts under others.
* `MCPull`: a journal of 3 whose first event does not match, batches of 1, two attempts, one
  tick of a timeout of one: a pull scans, advances, claims, expires and comes back.
* `MCNetwork`, signals: two turns of one host (then only the token tells them apart), a
  journal of 2, batches of 1, two attempts with a backoff of two ticks, a lease of one tick
  that lapses at every step, one trouble. Discovery: records that live 2, are renewed 1
  ahead, tombstones 3, a skew of 1, refreshes begin at time 0 or 1 (`MaxRefreshClock`), in three
  instances. "overlap" has one capability, two changes of the directory, and two calls of the peer
  at once up to time 4, when not even the skew lets in a record of time 0. "pages" has two
  capabilities, two changes of directory or policy, pages of two and one call at a time up to
  time 2. "room" has three capabilities and stores with room for two (`MaxPerOrigin`), four changes
  of the directory (the first at time 0, the others at 1) and of each store (`MaxPlace`), and one late answer: what a
  withdrawal, its eviction by two others and the late return of the record take. In it a refresh
  and a page are done at once. The view leaves out the order of the peer's changes where its store
  cannot be full.
  Invocation: two calls at once, three in all, two candidates, a lease of 1, a deadline of 3.
  Federation: two offers, two exchanges, a life of 1, a skew of 1, records kept 2, room for
  one record, up to time 4.
* `MCRuntime`: commits of three kinds (transfer, accept, cancel: one checks what another
  appends, one creates, two share a key with another digest) by two writers. Host: four items
  of three tenants, one of them always hot, a queue of 3, pages of 2, one turn. Projections: a
  journal of two Handoffs, two turns, batches of 2, one lapse, one rebuild, one failed call.
  Ingress: a command and an ignored message, two workers, two attempts, one trouble, one
  refusal, one recovery request. Gateways: one with three calls, another with one, one retry.
  Agent runs: two handlers under one start, one handler over two starts (a crash, the lapse of
  the lease and the recovery between them), two possible results, one trouble. Calendar: five
  executions on one event, two attempts at once, one change by somebody outside, split into
  deletion, attendance, outside changes, and two deletions that expect different versions
  (there one attempt after the other).
* `MCLiveness`: one actor of a kind where two would only add interleavings, the same data,
  one or two troubles per component.

Three guards keep a bound from blocking progress that the code would make: a retry is put off
no further than the last tick, a host crashes only while the clock can still reach the end of
its lease, and a retried pull stops at `MaxAttempt`.

## Fairness

Stated with each component and conjoined in `MCLiveness`; nothing is assumed of failures,
heartbeats, destinations or hints.

* `PullDelivery`: a call that has begun ends (its awaits return); the client pulls again and
  again and acknowledges the active delivery again and again, strongly fair, because another
  call in flight disables it for a while. At-least-once is a promise to such a client only.
* `SignalDispatch`: time passes; the host polls for as long as it runs (`cluster-host.ts:294`),
  so a turn begins if one can begin for good; a turn that has begun goes on, ends or crashes.
  A destination may fail for ever: dead letters end that.
* `ClusterHost`: the poll loop goes round (a timer after every poll), a turn ends.
* `Projection`: a turn begins when the partition is ready and nobody holds the lease; leases
  lapse; runners go on; a rebuild is finished by whoever began it; the projection that another
  one follows makes progress.
* `ConnectorIngress`, `Recovery`: workers poll, claims lapse, retries come due.

## Proofs

TLAPS proves these for every value of the constants, from their named assumptions (nulls
are no members of the sets they are added to, durations and limits are positive, there are
finitely many ingresses, a partition's journal is a sequence, any streams that are locked have a first and a last, tombstones
outlive records, federation keeps records at least as long as the skew): more than
15,000 obligations. No safety property here is inductive by itself. What has to be added is in each
case what a value that was read before an await still means after it.

| Theorem | States |
|---|---|
| `ExchangeProofs`: `EvolveKeepsConsistent`, `DecideSuits` | what the decider accepts of a consistent Handoff the reducer applies, and leaves it consistent: the two tables of states agree |
| `ExchangeProofs`: `Invariance`, `TypeCorrect`, `OptimisticConcurrency`, `Replayable`, `Responsible`, `AtomicTransfer`, `ExactlyOnce`, `ClaimsKept` | the safety of the Exchange |
| `RefinementProofs`: `TokenInvariance`, `TokenPassed`, `ExchangeImplementsResponsibility` | the Exchange implements `Responsibility`: every behaviour of its handlers, under the mapping, is one of the abstract specification |
| `CommitProofs`: `ReadsHold`, `Serializable`, `CommitsAreAtomic`, `PositionsGapless`, `NoDeadlock` | `PostgresCommit` implements `AtomicJournal`, step by step; positions are 1 to n at every moment; no transactions wait for each other in a circle |
| `PullProofs`: `TypeCorrect`, `PositionSkipsNothing`, `OneDeliveryIsPending`, `RangesSettleOnce`, `ViewsReplay` | the safety of the delivery ledger; a read model replays a prefix of the journal |
| `DispatchProofs`: `PositionSkipsNothing`, `AttemptsKeepOrder`, `OldOwnersAreFenced`; `HostInvariance`, `ServedInTurn`, `DrainIsFinal` | signals, and the fencing of turns; the ready queue and the drain of a host |
| `ConnectorProofs`: `HoldersSettle`, `ExecutionsAnswerOnce` | ingress records under any claims, lapses and requeues; executions of calendar operations |
| `AgentProofs`: `SessionsStayInOrder`, `LateCallsChangeNothing`, `ResultsStayAgreed`, `AcknowledgedHasARun`, `OneExecution` | sessions of a gateway; agent runs |
| `NetworkProofs`: `ReceiptsAreOne`, `RecordsStayBounded`, `AnswersAreOne`, `WithdrawnNeverReturns`, `CursorPassesNothing` | federation, invocation and discovery |

The arguments, by inductive invariant (TLC checked each on a run before it was proved):

* `ExchangeProofs!IInv`. A loaded stream is a `Snapshot`: equal to the stream as it is unless
  the version has moved on. A proposal fits the streams *if its version checks would still
  pass* (`ProposalFits`); the accept of a child also needs the pair of events, and
  `TransfersLinked` relates each transferred parent to its child. The commit is where a
  proposal becomes state and every other proposal must survive it: whoever checked one of the
  streams just appended to now fails its checks.
  `RetriesIInv`: an accepted proposal answers the version its event will make, so two accepted
  records stand for two events; keys of records differ, and a definite answer is on record.
  `ClaimsIInv`: while the versions it checks are current, a proposal is sound for the claim it
  touches (`ClaimSound`: an expiry for a lapsed lease, a release or a renewal with the holder's
  fence and a new heartbeat, an accept by the holder), and no claim is promised for longer than a
  lease from now, which is why a renewal never shortens one.
* `RefinementProofs!TokenIInv`. The Handoffs form a forest: one function finds the root of each,
  and a child only ever has a parent that was there before. At most one Handoff of a tree bears
  the responsibility, and none while the root is only proposed. The steps that matter are few: a
  proposal is one event, or the accept of a child with the transfer of its parent
  (`ProposalsMoveOne`), so a commit creates a root, moves one Handoff on, or passes the
  responsibility from a parent to its child. `StepMoves` maps each to an action of
  `Responsibility`; every other step leaves the streams, and so the mapping, as they are.
* `CommitProofs!IInv`. What a transaction has read about its command, its streams and its
  partition holds for as long as it holds their locks, because whoever writes them holds the
  same lock. The statement that ends the transaction is then the atomic commit, and every
  other statement a stutter. `NoDeadlock` needs an order of all locks (`LocksInOrder`: command
  keys, then streams by rank, then partitions): whoever a transaction waits for can itself wait
  only for something later, so nobody waits in a circle.
* `PullProofs!IInv`. The ledger is consistent by itself: the active delivery begins where the
  position is or behind it, each advancing delivery's range ends where the next begins. A
  call keeps only facts that never go stale: identifiers of deliveries that exist, positions
  no greater than the present one, ends of scans that match nothing in between.
* `PullProofs!ViewIInv`. Nothing in it is about the lease: a turn that has lost it holds a
  version no newer than the view's, or the next one, and whoever advances the checkpoint past an
  event has seen that event in the view. `ViewsReplay` assumes `~Beside`, that a rebuild has the
  partition to itself: with a turn beside it, `MCRebuild` violates the property.
* `DispatchProofs!IInv`. The store only grows: positions, attempts and tokens are never taken
  back. So what a turn has seen remains a lower bound even when it has been fenced out, and
  the compare-and-set on the position does the rest. Backoff needs that a power of two is
  positive, which induction would give; it is shown through sets of subsets instead.
* `DispatchProofs!HostIInv`. The order of the ready queue lists each tenant that has items once.
  `Place` counts from the tenant that is next, round the end of the list: whoever was served
  while another waited, and stayed, has a later place (`GoneBehind`), and the one that is next has
  the first. A tenant that is offered again is appended, which may be ahead of others, but then it
  has left in between; that is what keeps `OneItemPerRound` from holding. The pump and the pages
  of a poll are loops: `Rounds` and `Induction` (the least number for which a fact fails would
  have a predecessor) carry the invariant through them.
* `ConnectorProofs!ConnectorIInv`. Tokens of claims only grow and no two batches hold the same
  one, so a claim that is current has not been settled and every settlement is by its holder.
  `CalendarIInv`: what was answered is on record and is replayed, and whoever is up to date with a
  record without an answer is the only one that can write the next. An execution *claims* the step
  from the version it expected when it is completed, or about to be; then its event has gone beyond
  that version, further still if it was deleted by another, so no rival can claim it.
* `AgentProofs!GatewayIInv`. The last call a gateway has sent is the request of its present
  step; calls left behind have smaller numbers or an older session; no renewal is newer than
  the drain.
* `AgentProofs!RuntimeIInv`. A worker that nobody has aborted alone has the newest token and
  is the active task, so nobody moves the run under it; a run in an early state has no result;
  recovery comes before any delivery.
* `NetworkProofs!FederationIInv`: what the target has returned is what its record holds as
  long as the record is kept; afterwards every copy of the offer is too late. `RoomKept` counts
  the records: the room that a call finds it takes in the same step.
  `InvocationIInv`: an invocation that is not over has told nobody anything who was let in; whatever is bound
  to a candidate is bound to that of the auxiliary Handoff.
* `NetworkProofs!DiscoveryIInv`. The origin holds what supersedes every live record that is about,
  in a store or in a late answer; of two records the one signed first has the smaller revision,
  unless it had ended before the other was signed; and a live record from before a withdrawal is
  kept out by what the peer holds, until it ends. The record that the running refresh is yet to
  sign obeys the same, though it is stamped with the time at which the refresh began. All this is
  said of each capability by itself (`DiscoveryOK`), as long as no store has dropped an entry of it:
  so what a full store drops of one does nothing to the others. What the skew lets in after its
  end is harmless while revisions have not started again (`FirstLife`): then a later revision was
  not signed earlier, so what has ended never takes the place of a tombstone signed after it.
  `PassedIInv`, for capabilities whose revisions never started again (`Steady`): the peer, or the page of the call that will move the cursor, holds a version of
  each change behind it that is no older and counts for as long.

Only model-checked: the type invariants `NetworkTypeOK` and `RuntimeTypeOK` of the runs
(conjunctions over components that no one specification has; `RecordsStayBounded` states the one of
`Federation`, and the inductive invariants of the others have types, but not all that these say
beyond them, such as the sum that `HostTypeOK` makes of the items queued), and the liveness properties, which with ENABLED are out of the prover's
reach. The recursive definitions that are proved about are functions on an interval of numbers, or
up a finite tree; the prover cannot instantiate the library's induction theorems, and
`DispatchProofs!Induction` does for sets what they do for predicates.

## Disagreements found

1. **Rework of a transferred child is a dead end** (`MCRework`, `ReworkCanBeAccepted`).
   `exchange-application.ts:408` treats every accept of a Handoff with a parent as the
   transfer from that parent, and `handoff-transfer-coordinator.ts:96-101` wants the parent
   to be `accepted`; after the first accept it is `transferred`. So a child sent back for
   rework refuses its own recipient. `src/protocol/spec/interactions.md:65` and
   `src/docs/architecture.md:486,502` want the recipient to accept again.
2. **Overlapping pulls can stop a subscription** (`MCPullRace`, `AtLeastOnce`).
   `cursor-pull-service.ts` claims a delivery (line 322) from a position it read earlier
   (line 177), and `claimPendingDelivery` does not compare the two. If another pull and its
   acknowledgement finish in between, the active delivery lies behind the position:
   acknowledgements answer `position_conflict`, replacements keep its range, and later
   events are never handed out, against `src/protocol/spec/subscriptions.md:21`. Nothing is
   skipped (`PositionSkipsNothing`): the subscription is stuck.
3. **A rebuild beside a turn leaves a view with a hole** (`MCRebuild`, `ViewIsAPrefix`).
   `handoff-projector.ts:300-301` clears models and checkpoint in two unfenced calls; a turn
   that has read its batch before goes on beside it. `src/docs/operations.md:23-24` promises a
   replay of the journal.
4. **A close can lose a captured result** (`MCResultLost`, `CapturedResultKept`).
   `runtime-host.ts:504` cancels a run whose result is being submitted, against the comment
   at line 540.
5. **A deletion may be asked of Feishu twice** (`MCDeleteTwice`, `DeletesOnce`).
   `calendar-executor.ts:827` deletes, 840 records it; after a crash in between the replay
   deletes again, against
   `src/docs/superpowers/specs/2026-07-29-feishu-calendar-capability-provider-design.md` (line 406).
6. **Rounds of tenants** (`MCTenants`, `OneItemPerRound`). `ready-queue.ts:62` puts a tenant
   that comes back at the end of the order; seen from `nextTenant` that may be ahead of one
   that waits. Two tenants with single items can alternate while a third waits with its second
   item. Lines 273-274 of `src/docs/superpowers/specs/2026-07-16-phase-6a-clustered-partition-runtime-design.md`
   promise one item per round. What holds is `TenantsTakeTurns`: a tenant that has more work
   queued is not served again before each that waits.

## What the models show besides

Observations made while modelling that no run states. Some lie in parts that are not modelled.

*Exchange and store.* A retry whose original commits between `findCommand`
(`exchange-application.ts:311`) and the read of the stream (369) is answered
`version_conflict` for its own success, against `src/protocol/spec/core.md:51`; the next
retry gets the original answer. The SQLite adapter refuses a stream in another partition
(`sqlite-exchange-persistence.ts:286-293`); the PostgreSQL adapter has no such test, and the
model assumes that a stream's commits name one partition. The key of a claim's expiry is made
from Handoff, claim and token, while its digest includes the expected version: a refusal once
saved would turn every later attempt into `idempotency_key_reused`.

*Delivery.* `sse-route.ts:47,97-101` passes the `Last-Event-ID` of the connection to every
pull, and `cursor-pull-service.ts:190-199` wants it to be the position: after a reconnect, the
second acknowledgement makes the next poll fail, and the SDK ends the stream, against
`src/docs/superpowers/specs/2026-07-15-http-service-binding-design.md:156`. A worker that has
lost its lease can still advance the position of signals (`signal-dispatcher.ts:250`), against
line 257 of the phase 6A design; the compare-and-set limits the harm (`PositionSkipsNothing`).

*Cluster host.* Polling walks the tenants in the catalog's order and stops when the queue is
full (`cluster-host.ts:119`): a tenant that is always hot keeps later ones out of the queue
(lines 369-370 of the phase 6A design). `WorkGetsDone` is therefore checked without one.

*Recovery.* The look at the ingress and the requeue are separate calls
(`recovery-actions.ts:34-41`), against `src/docs/operations.md:81-82`; a crash between the
requeue and the completion records a request as failed that took effect.

*Gateway.* A graceful close during a renewal that is applied answers its last heartbeat
`stale_sequence`; the session ends as fenced and stays active in the directory until its lease
runs out (`agent-endpoint-session.ts:245,268-272`).

*Agent runtime host.* Recovery runs once, at the start, and passes over leases that have not
lapsed. A graceful close marks a running run cancelled while the Handoff stays accepted. After
a rework the run is over, and the rework is never executed.

*Invocation.* The lease of a record lasts until a second after the deadline, so an invocation
that was interrupted is not resumed before it is too late. A call that is repeated after the
deadline, or whose caller has aborted, answers "failed" before it looks at the record
(`handoff-invocation-port.ts:241-258`), also when the invocation has succeeded and an earlier call
has said so, although the plan of the feature wants that "duplicate recovery returns the prior
invocation result" (lines 420-421 of
`src/docs/superpowers/plans/2026-07-27-agent-capability-invocation-implementation.md`). The model has
these answers in `told`, marked `atTheDoor`; `OneAnswer` is about the calls that are let in. The results of the transitions to offered and waiting are not looked at: a call that has lost the
record goes on to resolve the Handoff. A failed poll is recorded as failed although the provider
may go on.

*Discovery.* The exporter reads live records only (`endpoint-exporter.ts:113`), so a capability
that is offered again after its record was withdrawn or has expired is signed at revision 1,
against line 309 of `src/docs/superpowers/specs/2026-08-01-participation-discovery-design.md`: its
own store answers stale, or a conflict that ends the refresh, until it is pruned; and a peer takes
it for stale while its cursor passes it. `NothingPassedOver` is stated for the other records.
A full store drops the oldest changes of an origin when it applies another, tombstones and live
records alike (`memory-discovery-store.ts:155,269-278`; so does `postgres-discovery-store.ts:195-201`).
A peer that has dropped a tombstone applies the withdrawn record again when an answer comes late,
against section 6.5 of the design ("Peers retain tombstones for at least the maximum record TTL plus
allowed clock skew"); and it lacks a live record that it has dropped, while its cursor is behind
that change for good. TLC shows both in "room" when the two properties are stated for dropped
capabilities too (drop `evicted` from them). An origin with more capabilities than room signs the
dropped ones at revision 1 again with each refresh, which drops others. Both properties
are stated for the capabilities of which no store has dropped an entry (`evicted`).
A peer applies what ended no longer ago than the skew (`record-codec.ts:351-352,380-381`). If revisions
have started again, an ended record or tombstone of an earlier life may have the greater revision
and take the place of the tombstone of a later life; when it is pruned, a late record of that
life comes back. The proof found this, not the runs, whose times are too short for it:
`WithdrawnStaysGone` leaves out the capabilities that are both `late` and `repeated`.
`WithdrawnStaysGone` allows a record issued *in the same instant* as the withdrawal: read
strictly, section 6.5 of the design fails in a trace of 36 steps, in which a policy's tombstone is
signed in the instant in which the record is renewed and three pulls overlap. A policy's tombstone
is signed anew for every page at the same revision, which conflicts with the one before it until
the record is renewed. A tombstone that has ended but is still listed makes the peer refuse the page.

*Federation.* A cached receipt may end before its offer does if the two gateways have different
lifetimes of messages; sending the offer again then never gets a valid one.

*Calendar.* A crash after an external update and before its record makes the retry answer that
the version does not fit, although the update happened; one after the confirmation was consumed and
before its checkpoint leaves the execution with a confirmation it can no longer use. A deletion
that finds the event deleted succeeds before its expected version is looked at
(`calendar-executor.ts:766`), so two deletions that expect different versions both succeed, the
second with nothing to do: `AnswersAgree` leaves those out. The document
and message executors of the same provider answer "already in progress" for ever after such a crash.

## Abstractions

*Exchange.* A stream is kept as its replay, which is what every reader makes of it; the
journal order of events is left to `PostgresCommit` and the delivery modules. A claim's id and
endpoint are folded into its actor and token. Context, identity, authority and store failures that
end a command without a trace are the one action `Fail`. Schemas and texts are left out. A command
under a key of its own that is refused is not committed in the model (its record is never looked
at), and `MayBeAccepted` does not start one that could not succeed.

*PostgresCommit.* One tenant; the rows of events and of the outbox are one set; a unique
key is looked at when the transaction commits; two keys never share an advisory lock; what the
handler read before is any version not newer than the present one.

*PullDelivery.* One subscription and one partition; the cursor argument can only refuse a
pull and is left out. Filter and policy are the constant set `Matching`.

*SignalDispatch.* One webhook subscription: others only make a turn longer. The assertions at
the start of a turn (worker and handler) are one. A call that takes effect and whose answer is lost
is the effect followed by `Crash` or `Throw`.

*ClusterHost.* Turns are what they do to the queue and the catalog; counters and telemetry
are left out. *Projection.* The reads of the checkpoint and of a batch are one step.

*RuntimeHost.* One Handoff, whose offer the policy accepts unless the run is under way already;
recording a delivery and creating its run are one step; a resend under a taken key is a conflict;
capacity and repeated progress reports are left out. *CalendarExecutor.* Refusals for input, scope
or authority leave no trace; operations that only read keep no state.

*CapabilityInvocation.* The owner of a record is its fencing token; resolving, with its conflict,
second look and retry, is one step; whether the caller has aborted is a choice at the start of a
call, and a close at any later time is `AbortWait`. *Federation.* Verifying and beginning are one step; both sides
read one clock, and the skew is in the times a message may arrive. *Discovery.* One clock, with
the skew that the peer allows and that there is not; both stores have room for equally many entries;
a request that is sent twice is a second call; the loops of the exporter are taken in any order.

## Not modelled

The map covers the state machines and protocols of the system, which are a small part of its
lines. Left out for good: formats and codecs (`handoff-codec.ts`, `handoff-state-codec.ts`, the
binding of HTTP, the SDK), wiring (`service-node/src/compose.ts`), the conformance suites, the
console, connectors and channels of external services, and adapters of an interface whose other
adapter is modelled. Admission, authority and governance are stateless policy: their verdicts
are choices in the models. Not yet modelled, and worth it: the service's start and stop
(`compose.ts`), the multiplexer of a gateway's streams, the claim expiry runner and the citizen
directory, and the NATS consumer.

## Plan

1. More proofs: the count of the ready queue as a sum, and so its bound.
2. `EndpointStreams`: the multiplexer, SSE resume and the bounded queue of a gateway.
3. `ServiceLifecycle`: start, readiness and shutdown of a service node.
4. Claim expiry and the citizen directory.
