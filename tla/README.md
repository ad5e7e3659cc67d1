# Craqle: a TLA+ model of the replicated graph store

Craqle (`src/`) is a Rust library that stores RO-Crates as RDF named graphs. A graph is an
OR-Set: an insert carries the *dot* (actor, counter) of its event, a delete the vector clock
it *witnesses*, and removes the dots of its quad inside that clock. Graphs are replicated
through one Irokle topic each, or by hand through a merge API. Around the quads lie a policy
register, derived query indexes, a search index and SHACL validation, all maintained by the
same commits.

This directory holds TLA+ modules translated from that code, the instances TLC checks, and
theorems that TLAPS checks for every value of the constants.

- [Inventory](#inventory)
- [Modules and the code](#modules-and-the-code)
- [Runs](#runs), [bounds](#bounds), [fairness](#fairness)
- [Proofs](#proofs), [findings](#findings), [further disagreements](#further-disagreements), [what is left out](#what-is-left-out)

## Inventory

| Part | State | Operations | Interacts with |
| --- | --- | --- | --- |
| OR-Set types (`core.rs`) | - | clocks, dots, `Batch::from_changes`, tags | everything below |
| Store (`store.rs`) | quads with dots, clock, log head, tombstone, policy, topic cursor, rejection ledger, receipts, dirty queue, query index | one atomic `WriteBatch` per operation; `commit`, `persist`, `open` | written under the graph write guard and the commit guard |
| Replication engine (`replication.rs`) | - | `commit_with_plan`, `merge_batch`, `install_with_receipt`, `apply_irokle_record`, `set_policy`, `delete_graph`, SHACL bindings | store, sync |
| Topic sync (`sync.rs`) | topic binding, cursor | publish, `topic_records_since`, `own_pending`, validation of events | Irokle, which delivers records between nodes |
| Node (`lib.rs`) | reconcile lock, search worker | public API, `reconcile_irokle`, ledger retries, open | all of the above |
| Policy register (`lib.rs`, `replication.rs`) | policy with `PolicyTag` | `persist_policy`, `publish_policy`, `apply_policy_record` | topic, store |
| Query index (`store.rs`, `qv_gate.rs`) | two slots of rows, header, build record, deltas, debts | update at commit, rebuild, repair | every commit; queries read the active slot |
| Search (`search/`, `lib.rs`) | dirty queue, Tantivy index, generations | drain, flush, rebuild | commits enqueue, the worker drains |
| Receipts (`store.rs`, `replication.rs`) | mutation receipts, admission order | prepare, apply, retry, trim | every mutation |
| SHACL (`shacl/`, `replication.rs`) | bindings, compiled shapes, reports | bind, enforce at commit, advisory runs | commits |
| Queries (`sparql.rs`, `planner.rs`, `query/`, ...) | budgets of one query | parse, plan, evaluate on one snapshot | query index, policy |
| Validation rules, RO-Crate, RDF reading | - | conversion and rules over one graph | commits |
| History (`history.rs`) | - | versions and restore over the topic | sync, replication |
| Caches, memory (`cache.rs`, `memory.rs`) | reservations, cached entries | reserve, release, look up | queries |

What is hard, and the properties that make each part correct:

- *Merge API.* Batches and snapshots come in any order, late and repeatedly. The store must be
  the OR-Set of the events its clock covers; the clock must be causally closed; what was
  removed stays removed; deletion is permanent; an accepted event is deliverable.
- *Batch staging.* Operations of one batch read each other's effect through an overlay, and the
  index is maintained from their net effect. The loop must compute the ordered effect of the
  batch, and the index must list exactly the live quads.
- *Topic replication.* A write is published before it is applied. Between the two, and between
  the store's commits and its persists, anything can crash. The store must follow the
  topic; the durable cursor may pass a record only when it left a trace; every record must take
  effect in the end.
- *Policy register.* Writers mint tags and records arrive in any order: nodes must settle on one
  policy.
- *Query index.* A rebuild copies a snapshot while writers commit. A trusted index must list
  the live quads in every state, over debts, overflows and crashes; it must recover.
- *Search.* An acknowledged entry must cover the newest write of its subject; a flush must
  cover its target.
- *Receipts.* A mutation takes effect at most once, and its receipt says so while retries can
  still come.
- *Commit gate.* A waiter's deadline races the handoff to it: the gate must stay a first-come lock
  and a generation must never be handed to nobody.
- *Bindings, diagnostics, reports.* They describe one state of graphs that others change while they
  are computed, and are written after it: a stale one must never be taken for current, and
  what is owed must be settled in the end.
- *Reads and shortcuts.* Many paths answer one question: each must give what the definition gives.
- *Budgets, caches.* Several threads meet a limit: it must hold for all of them together.

`PROJECT.json` lists the hazards line by line, with the properties that cover them.

## Modules and the code

Names follow the source where TLA+ allows it. `map` in `PROJECT.json` gives the lines of each
definition. An operator whose comment starts with "Faulty" is a deliberate bug that
shows that a property can fail; no specification uses it.

### ORSet

Clocks are functions from actors to counters (an absent entry is 0). A quad's state is its set
of dots; the store's `QuadState` maps quads to dots. `from_changes` builds a batch: its inserts
share the event's dot and its deletes witness the base. `ApplyOps` is the effect of a batch in
order, stated per quad: which dots survive the removes (`KeptAfter`) and which are new and not
removed again (`NewDots`). `join_snapshot` is the per-quad join of `replication.rs`, with the
staged three steps of the code. `check_batch`, `check_causal_base` and `check_snapshot` are the
validations of `sync.rs`. Quads are model values: IRIs, literals and their limits do not matter
to these properties.

### MergeReplicas

Nodes without a sync backend. Each operation holds the graph's write guard and the commit guard
throughout and ends in one store batch, so it is one action:

| Action | Code |
| --- | --- |
| `CommitLocal` | `commit_with_plan` without sync: `next_counter`, the operations, the clock |
| `AuthorBatch` | a caller of `Batch::from_changes` |
| `MergeBatch` | `merge_batch`, `check_causal_base`, `apply_irokle_plan`, `apply_single_batch` |
| `ExportSnapshot`, `InstallSnapshot` | `graph_snapshot`, `install_with_receipt`, `join_snapshot` |
| `DeleteGraph` | `delete_graph_inner` |
| `ReplaceStore` | a lost store, opened empty and refilled (only in `ReplaceSpec`) |

`events` and `snaps` hold everything ever handed out, and any replica may be offered any of it
at any time: loss, delay, repetition and reordering need no actions of their own.

### StagedBatch

The loop that `MergeReplicas` and `TopicSync` take as one step: `insert_quad` and `remove_quad`
read a quad's dots from the overlay or else from the store, stage the new dots, log a
`QuadMutation`, and `commit` hands the net transitions of the log (`coalesced_transitions`) to
the index. A batch may be dropped at any point. The commit is assumed to own the index gate.

### TopicSync

One graph and its topic. Irokle is external: per actor a sequence of records that reaches each
node in growing, causally closed prefixes and survives crashes. `store` is the committed store
of a node and `disk` what a crash leaves of it.

| Action | Code |
| --- | --- |
| `Publish`, `FinishPublish`, `FailPublish` | `commit_with_plan`, `set_policy` and `delete_graph` with sync: `own_pending`, publish, apply under the write guard (`hold`) |
| `RetryMutation` | the retry path of `apply_mutation` |
| `StartPage`, `ApplyNext`, `RejectNext`, `EndPage`, `StallNext` | `reconcile_topic` with `topic_records_since`, `next_record`, `apply_reconciled_record`, the ledger and the cursor |
| `RetryRejected`, `DeleteRejected` | the operator's calls on the ledger |
| `Persist`, `Crash` | `persist`, and power loss at any point; reopening reconciles before the node is open |
| `Receive`, `PublishForeign`, `PublishControl` | Irokle |

`own_pending`, the order of records by generation, the target that a multi-page catch-up keeps,
and the fact that a ledger entry and its cursor are one batch are all as in the code. `skipped` is
a history variable: the nodes where a retried mutation went past an earlier own record (finding 4).
`StoreFollowsTopic` leaves those out, and `topic_retry` shows what happens there.

### PolicyRegister

Writers of several nodes: `persist_policy` reads the stored tag and mints the next one without a
lock, `publish_policy` takes the guard and publishes, `set_policy_receipt` stores what was
published, `apply_policy_record` keeps the greater tag.

### QueryIndex

Writers of different graphs and the maintenance worker on one index. Each writer changes one quad
of its own, since a graph's write guard serialises the commits of a graph. `seen` is the header
that a staged batch builds on: it is read when the batch is staged and written back when the
batch commits.

| Action | Code |
| --- | --- |
| `Enter`, `Granted`, `TimesOut`, `CommitOwned`, `CommitDebt`, `CommitFails` | `commit_with_index`, `stage_index_update`, `stage_query_delta`, `stage_projection_debt` |
| `repair_projection_debt`, `CommitRepair`, `RepairFails` | the catch-up of a commit in debt |
| `ReadFailed`, `fail_projection_debt`, `StrandDebt` | a catch-up that failed |
| `StartRepair`, `Admit`, `fail_unrepaired_debt` | `repair_query_with` |
| `ClearBuild`, `RetireBuild`, `clear_query_deltas`, `CleanSlot` | `recover_query_build`, also at the open and after a switch |
| `StartRebuild`, `CreateBuild`, `clear_query_slot`, `Capture` | `rebuild_query_inner` up to its snapshot |
| `ScanChunk`, `ScanDone`, `replay_query_deltas` | `build_query_rows`, `replay_query_deltas` |
| `StartVerify`, `Verify`, `StartSwitch`, `SwitchSlot`, `replay_owned_deltas` | the two sections under the gate |
| `WorkerFails`, `Crash` | a timeout, a store error or a stop; a crash and the open after it |

Commits share the projection lock, so "no commit is under way" stands for its exclusive holder.
The sections that hold it alone are single steps, as nothing else can run in them. The copying
of a chunk and the cursor written after it are one step: only the maintenance lock's holder
looks at the inactive slot. Row counters are the numbers of rows, so `active_matches` compares
those. Epochs count commits instead of the store's sequence numbers.

### QvGate and FifoLock

`FifoLock` is what the gate promises: at most one holder, and a line served in order of arrival
that a client may leave. `QvGate` is `qv_gate.rs` with its two mutexes: `own` and
`acquire_timeout` (take a free gate or queue a slot), `WakeGranted`, `WaitTimesOut`,
`remove_waiter` and `ClaimGrant` (the waiter's side), `release_once` and `HandOver` (the owner's
side; the state mutex, `latch`, is kept in between), `DropReleased`. A client *holds* the gate from
the moment it is chosen as the heir, before the generation is in its slot: with that mapping the
gate implements the lock.

### Receipts, QueryRequest

`Receipts`: a mutation is prepared with an admission sequence, staged under the receipt's lock,
committed, settled, trimmed by retention under its own lock, and restored after a restart.
`QueryRequest`: requests register with the shared cancellation handle and the deadline service, poll
their clock and deregister, beside the caller of `cancel` and the deadline thread; each step is one
critical section or atomic access.

### SearchIndex, SearchWorker

`SearchIndex`: commits queue dirty subjects, reindexes and deletes with tokens; a maintenance pass
drains them into the index, commits it, acknowledges, certifies coverage, stages and switches
generations on a rebuild, and clears what is unreferenced. `reindex_from_store` runs when no pass
does, or between the draining of a pass and its certification. Crashes and failed index commits fall
anywhere. `SearchWorker`: the thread above it, with flush permits, wake-ups, cancellation,
deadlines and shutdown; one drain is one step with each of its outcomes.

### OrphanDiagnostics, ShaclBindings

The two kinds of derived record that are written after the commit they describe. Both modules
keep the locks where the code takes and drops them, so that evaluation runs beside other commits,
and both contain the crash and the repair or replay when the store opens.

### ShaclEvaluation, ShaclCompile, BoundedCache

`ShaclEvaluation` is a function of a snapshot: full validation, the incremental one and the estimate
that picks between them. `ShaclCompile` walks imports without locks and confirms the versions it
read around every use of the schema; full validations cache their report, incremental ones the
report of their base. `BoundedCache` is the cache both use, with the size of its allocations: an insert
at the limit evicts a share of the oldest entries, shrinks, and goes on one by one. `CacheHolds` says
that it fits afterwards and that only the oldest entries went.

### CrateRules, CrateEdits

`CrateRules` holds the structural rules three times, as the code does: from the changes of a local
write, over a whole snapshot, and for an imported document. `CrateEdits` is editing, prepared
documents, import and export over a graph that changes between their steps.

### QueryRead, DeltaRead, CountPaths, GraphJoin, QueryDataset, Planner

Reads of one immutable snapshot: an action picks the snapshot and the question, and the properties
compare every path of the code with the definition of the answer. `GraphJoin` takes its joins
one at a time, in any order the planner's counters could choose. `Planner` compares the
optimized query with the written one under the evaluator's semantics. A read of `QueryRead` is that of
a query under a visibility, or of a validation, which sees one graph with its orphans and never takes
the dense path.

### SearchQuery, FtsService, SparqlUpdate, IndexVerify

`SearchQuery` collects a page over segments and blocks with pruning and checks a ranked page again
before it is returned; `FtsService` rewrites the full-text clause and narrows the join.

`SparqlUpdate` evaluates on a pinned view and commits under the graph's lock while policies and graphs
change. The solutions of a pattern are a sequence: every quad of a template counts, copies included. A
DELETE/INSERT is refused when the estimate of its pattern (`pattern_features`) exceeds what it may
materialize, when its evaluation reads more rows than the query budget allows, or at the limits on
quads, changes and graphs. How many rows the evaluator reads is its own affair: the model knows the
fewest and the most an evaluation of the pattern may read, and the budget refuses an evaluation when the
fewest exceed it, accepts it when the most do not, and does either in between.

`IndexVerify` damages an exact index in up to two places and asks the verification, the open and the
statuses about it. The header's epochs and its query id generation are apart: the admission asks for
both, the verification for the epochs only, so a verified index is admitted if its header has a
generation. `index_status_fast` reads the header alone; a debt, which keeps
queries off the index, does not show in it, and `StatusesAgree` says that nothing else separates the
two.

### QueryBudget, MemoryPool

Shared counters charged by several threads, and the process-wide reservation of stores.

## Runs

| Run | Checks | Shows |
| --- | --- | --- |
| `merge_replicas` | `StoreIsReduction`, `Convergence`, `NoResurrection`, `SeenIsKept`, `Delivery` | the merge API keeps every store the OR-Set of its history, and the causal check never wedges delivery |
| `topic_sync` | `StoreFollowsTopic`, `CursorIsBacked`, `DiskIsKept` | the store follows the topic over crashes, retries and stalls; no record is passed without a trace |
| `store` | `FreshPolicyConverges`, `StagedIsApplyOps`, `IndexIsLive`, `ExactUnlessRevived`, `SwitchIsExact`, `Recovers`, `GateIsAnswered`, `GateIsFifoLock`, `AppliedOnce`, `OutcomeIsHonest`, `TopicReconciled` | the store's own protocols: policy register, batch staging, query index, commit gate, receipts, requests, and that every topic record takes effect |
| `settle` | `SearchOwesWrites`, `WritesAreCertified`, `FlushesAreCovered`, `FlushesReturn`, `DiagnosticsAreExact`, `VisibilitySettles`, `BindingsSettle` | nothing a commit leaves to be done is forgotten, and all of it gets done |
| `query` | `ReadsAreExact`, `ShortcutsAreExact`, `DatasetIsExact`, `DiagnosisIsExact`, `PlanIsEquivalent`, `SearchIsExact`, `UpdateIsAuthorized`, `LimitsHold` | every path of reading answers what the definition says; updates stay inside what their caller may do; limits hold |
| `crates` | `IncrementalIsFull`, `ReportsAreCurrent`, `VerdictsAreCurrent`, `CacheHolds`, `RulesAreExact`, `DocumentsAreExact` | validation is of one current state, and the incremental checks agree with the full ones |
| `merge_unit` | `UnitOfReplication` is violated | finding 1 |
| `merge_replace` | `Convergence` is violated | finding 2 |
| `topic_converge` | `Convergence` is violated | finding 3 |
| `topic_retry` | `ClockMeansApplied` is violated | finding 4 |
| `policy_converge` | `PolicyConverges` is violated | finding 5 |
| `query_revive` | `TrustedIsExact` is violated | finding 6 |

`store`, `settle`, `query` and `crates` each run several components that share no state:
a variable `part` names the one a behaviour exercises. In `store`, and for the search thread and
the orphan diagnostics in `settle`, the others rest in their initial states, in which their
properties hold; elsewhere their variables are `Off`, and a property says which part it is about. A property of these runs gathers what the component's module
states one by one under its own names.

### Bounds

- `MergeReplicas`: two nodes, one caller that authors events, one quad, four change sets (insert,
  delete, and both orders of both), three events, two snapshots. Three events suffice for an
  insert, a concurrent delete and a replay over both; two snapshots for a stale one next to
  a fresh one. Dots of different quads never meet, so one quad is enough; the proofs cover
  the rest.
- `TopicSync`: a node and a foreign publisher, or two nodes; three records (four in
  `topic_retry`); pages of one to three records; at most two faults. The
  node publishes no policies of its own here: `PolicyRegister` looks at those. A page of one record
  makes every catch-up a multi-page one; a page of two can be cut short by a fault.
- `PolicyRegister`: two nodes, two writers on one of them, three policies, three writes.
- `StagedBatch`: all batches of up to three operations on two quads with two actors' dots.
- `QueryIndex`: two writers, one as the owner of the gate and one in debt; three commits, so that a
  build can meet more deltas than `DeltaLimit` (two) or replay two of one quad; one crash or
  failed call. `query_revive` has a limit of one and no faults.

- `QvGate`: three clients, so that one holds, one is handed the gate and one stays in line; five
  generations. `Receipts`: two mutations, two clock readings, retention of one row.
  `QueryRequest`: two requests that compete for one registration of each kind.
- `SearchIndex`: one subject, two writes, one fault. `SearchWorker`: two flush calls and two permits.
  `OrphanDiagnostics`, `ShaclBindings`: two threads, two writes, one crash or failure.
- The read side: two graphs and up to five quads, chosen so that a triple lies in both graphs, an
  entity is orphaned, ids meet `IdLimit` and ranges have no, one or several rows; two damages of an
  index; queries of each shape the code tells apart.
- `SearchQuery`: scores of 0, 1, 2 and 4, so that with a segment scale of two a page that is full of
  the best documents lets blocks be skipped; limits on both sides of `SearchLimit`.
  `SparqlUpdate`: `MaxReads` 3 and `MaxHash` 2 (production limits of the read budget, without and with
  a hash table), `MaxBindings`, `MaxChanges` and `MaxGraphs`: each limit is reached by a request that
  no other limit refuses. `BoundedCache`: four entries and `EvictShare` 4 (an eighth in the code), so
  that the first eviction takes one entry; payloads of three sizes, so that this is enough, or more
  have to go before or after the storage shrinks.
- Validation: shapes of each kind of constraint, nested once, over five triples and two changes; three
  shapes graphs with one write during a compilation. Rules and crates: three entities, two
  merges that may close a `hasPart` cycle.

The instances stop when their bounds are used up, so deadlock is not checked.

### Fairness

`HostOffers` (`merge_replicas`): the host goes on offering the batches it holds, which the API asks of it: a batch that misses dependencies leaves the store unchanged "for transport
retry" (`replication.rs:2772`). `SyncFairness` (`store`): Irokle delivers, the host keeps
calling `reconcile_irokle`, and a call that has started runs on unless one of the bounded
faults stops it. Writers are not fair. `IndexFairness` (`store`): a commit that has started goes
on, and so does a call of the worker. `StartRepair` is strongly fair: the search worker calls
`repair_query_with` in every round, at least once a second (`lib.rs:1275`), and takes the
maintenance lock in the end however often an operator asks for a rebuild in between. New
commits are not fair; their bound is what gives the rebuild, which gives way to commits, its pause.
`SettleFairness` (`settle`): the search thread loops, a thread inside a call goes on, a queued entity
is visited by the search thread, and a store that is down is opened again. Faults and new writes are
bounded and not fair.

## Proofs

`MergeReplicasProofs` shows, for any replicas, authors, quads, change sets and bounds, that `Inv`
is invariant. Assumed: `ReplicaAssumption`, `ChangeSetsAssumption`, `BoundAssumption`. Neither
`StoreIsReduction` nor `Convergence` is inductive alone. A batch applied out of its causal order
would break the first, so `CausallyClosed` is needed; a reused dot would, so `FreshCounters` and
the uniqueness in `HistoryOK` are. The heart is `ApplyNextEvent` (applying an uncovered, ready
event to the reduction of a clock gives the reduction of the advanced clock) and
`JoinOfReductions` (the join of two reductions is the reduction of the merged clock). From `Inv`
follow `TypeCorrect`, `StoresReduceHistory`, `ClocksAreClosed`, `ReplicasConverge`,
`DroppedStaysDropped`, `ClocksOnlyAdvance` and `DeletedStaysEmpty`.

`TopicSyncProofs` shows, for any actors, quads, change sets and page size, that `SyncInv` is
invariant; the steps of a node that keep it are in `TopicSyncSteps`. Assumed: `ActorAssumption`
(finitely many actors), `ForeignAssumption`, `ChangeSetsAssumption`, `LimitAssumption`. The
properties say nothing about a page under way, about what a record observed or about the order of
application, and all three are needed. `TopicOK`: what a node has of the topic is causally closed,
and a record's generation is above all it observes, so that `next_record` never meets a record whose
context is missing. `StoreOK` and `PageOK`: cursor, page and target follow each other, and every
record up to the cursor has left its trace (`Backed`). `DiskOK`: the disk has the cursor of the
store and is otherwise behind it, so a crash loses data only above what the replay starts from.
`OrderOK` and `DotsOK`: data is applied after its context, and the dots are those of the OR-Set of
the covered records, up to what an own delete did not see. `OpenOK` and `HoldOK` keep this true for
a record that is published and not yet applied. From `SyncInv` follow `CursorsAreBacked`,
`StoresFollowTopic`, and the step property `DisksAreKept`.

`GraphStateProofs` has two parts. For the policy register it shows `PolicyInv`: while no stale tag
was published, a node's own tags grow along its topic, the stored policy is above everything
consumed, and it is itself Genesis or a record of some topic. `FreshTagsConverge` follows because
settled nodes have consumed all topics and tags are totally ordered. For a batch it shows
`BatchInv`: the overlay is the effect of the prefix processed so far (`LoopComputesApplyOps`), and
the log's first and last entry for a quad give the committed and the staged liveness
(`IndexFollowsStore`). Assumed: `NodeAssumption`, `PolicyAssumption`, `BatchesAssumption`.

`QueryIndexProofs` shows, for any writers, commits, delta limit and faults, that `IndexInv` is
invariant. Assumed: `WorkerAssumption`, `BoundAssumption`. `ExactUnlessRevived` is not inductive,
because a commit in debt makes the slot wrong before its debt is settled. `ReadyOK` says where a
ready slot may be wrong: at a quad whose writer still owes, or anywhere once a debt is stranded.
`DebtsOK` keeps those debts on disk and apart, so that an index without debts has neither.
`LocksOK` says that the holder of the gate planned its update on a header that changed at most to
failed, and that nobody goes into debt beside a build, whose deltas would miss the change.
`CandidateOK` is the argument for the rebuild: each quad is right in the candidate's rows and the
rest of the scan, or its last queued delta is right. With the gate held and all deltas replayed no
delta is queued, so the candidate equals the source (`CandidateIsLive`). `TrustedUnlessRevived`,
`RebuildPublishesLive`, `RecordsSpareActive` and `TypeCorrect` follow.

`WriteProofs` has two parts. For the commit gate it shows `GateInv`, for any clients: a client is
queued at most once and only with an empty slot (`LineOK`), the heir of a handoff still waits
(`LatchOK`), a waiter is queued, chosen or granted (`SlotOK`), and the current generation belongs to
the one client that knows it or will find it in its slot (`OwnerOK`). The last two are what a
deadline that races a handoff could break. `GateAnswered` follows, and `GateRefinesLock`: every step
of the gate is a step of `FifoLock` or none.

For the receipts `WriteProofs` shows `ReceiptInv`, for any ids, clock readings and retention.
Assumed: `ReceiptsAssumption`. `AppliedOnce` needs to know what a crash or an expiry may forget:
`AdmitOK` says that an admission has its receipt or has expired, `StageOK` that a staged batch
writes a sequence of its own that was never applied, `OnceOK` that a prepared receipt was not
applied. `ReceiptsApplyOnce`, `AdmissionsAreRemembered`, `ReceiptOrderExact` and the step property
`ReceiptsStayApplied` follow.

`QueryRequestProofs` shows `RequestInv` for any finite set of requests, both limits and any clock
bound (`RequestAssumption`). `OutcomeIsHonest` relates an outcome to its cause, but the cause is
read under one lock and marked under another. `PhaseOK` carries what a request holds in between,
`ScheduleOK` says that schedule and index file the same requests under the instants they asked for,
`RegistryOK` that a request is registered exactly from its admission to its drop. `HonestOutcomes`,
`RegistrationsExact`, `TablesAreBounded` and the step property `OutcomesStand` follow.

`SettleProofs` has two parts. For the orphan diagnostics (`OrphanAssumption`) it shows `OrphanInv`.
`DiagnosticsAreExact` is not inductive: a call carries a set it computed earlier. `LocksOK` says
that whoever is in a call holds a lock, so that a source commit, which needs both locks free, meets
nobody who carries one; `CarriedOK` then says that the carried set is the orphan set, `QueuedOK`
that between the two commits of a publication all that is shown wrongly is queued, and `CurrentOK`
that the record is current whenever nobody holds the write lock. `DiagnosticsExact` and
`OrphanTypes` follow. For the search thread (`SearchWorkerAssumption`) it shows `WorkerInv`: the
request of a call is in the channel or pending, never both, and unanswered while it is there; a
target only rises and is a token that exists; a permit is out exactly while its call is inside; an
answer Ok is covered. `FlushesCovered` and `WorkerTypes` follow.

Only model-checked:

- all liveness (`Delivery`, `TopicReconciled`, `Recovers`, and the settling properties of `settle`),
  which is out of the proof system's reach, as is `ENABLED`;
- `SearchOwesWrites`: its inductive invariant would have to follow a generation, its stages, the
  queue and the manifest through every restart, and is not worked out;
- everything of `query` and `crates`: what the readers, the planner and the validators compute rests
  on recursive definitions, whose results need induction over data, and the step properties there
  are checked beside them on the same instances;
- what the six runs that end in a violation show (see [findings](#findings)).

## Findings

1. *A local delete cannot be merged by peers.* Without sync, removes witness the commit's own
   event while the batch's base does not, and `check_batch` refuses that
   (`replication.rs:2635`, `sync.rs:2397`).
2. *A refilled store reuses dots.* `next_counter` reads the log head only, which a snapshot does
   not restore (`store.rs:9829`).
3. *A delete may overtake a received insert.* It witnesses records the topic holds and the store
   does not (`sync.rs:2111`): the own node keeps the insert, all others drop it. The passing
   `StoreFollowsTopic` says that this is the only way in which a store departs from its topic.
4. *A retried mutation skips the `own_pending` fence* (`replication.rs:887`): earlier own records
   that a crash took from the store are marked as seen.
5. *Policy tags are minted before the guard is taken* (`lib.rs:4585`): concurrent writes publish
   two policies under one tag. `FreshPolicyConverges` is the part that holds.
6. *A failed catch-up can be undone* (`store.rs:6471`). The failure is recorded without the gate; a
   gate owner that staged its update before writes a ready header over it, and the index is
   trusted without the rows of the failed catch-up. `revived` marks that step, and
   `ExactUnlessRevived` says that the index is exact as long as it has not happened.

## Further disagreements

Met while modelling and confirmed with TLC on larger or less restricted instances; the properties are
in the modules, the instances of the runs above avoid them:

- `RecoveryEnds` (SearchIndex): a stranded row blocks the rebuild that a replaced index requires
  (`store.rs:10546`), and the recovery a flush waits for need not come to an end; `README.md:176` says
  that it waits for work accepted before the call, "plus any recovery that work requires".
- `OlderNeverOverwrites` (ShaclBindings, with `MaxBare` above 0): snapshot installs stage pending
  bindings without the binding guard, so an evaluation may overwrite the record of a newer version,
  which the comment at `replication.rs:1958` excludes.
- `CapsDecideCounts` (ShaclEvaluation): each alternative of a path is cut at what remains of the cap,
  and may spend it on values already found (`paths.rs:57`), so a capped count can be too small.
- `IncrementalIsFull` with deactivated shapes: `targets.rs:92` and `compile.rs:1254` disagree about the
  focus nodes of a property shape below a deactivated shape.
- `ImportReplacesVisible`, `FullExportIsComplete`, `FullExportListsOnce` (CrateEdits): after an import
  readers may see more than the document, and a full export may miss a visible subject
  or list an entity again (`rocrate.rs:1771`, `1938`, `892`).
- `PlanIsEquivalent` with blank nodes in the pattern: a hash side projects them away
  (`planner.rs:1153`).

## What is left out

- The content of terms, literals, policies and shapes; sizes and limits of payloads (pages are
  bounded by records, the code also bounds their bytes).
- Topic branches, expired cursors and their repair; several graphs and the topic binding; history
  and restore, which read the topic.
- Equal generations: the code takes the lower actor first, the model any.
- Authorizers: a remote policy may be refused at any time.
- External authors are assumed to include their own earlier events in their base, and to use
  fresh counters.
- Tombstone contents; `replace_snapshot`, the operator's repair that may set a clock back.
- Format upgrades of the index; a crash that takes back committed store batches of it (it equals an
  earlier crash). Power loss beyond what the buffered store batches of `TopicSync` show.
- Search: repair of damaged documents, byte budgets, drain quotas, the legacy dirty counter, hydration of
  hits. Graphs are deleted for good.
- SHACL: path budgets, a missing data graph. RO-Crate: context, license and
  metadata rendering. Planner: property paths, VALUES, GROUP, ORDER BY, quoted triples. Updates:
  property paths in the estimate. Datasets: dense scopes are never exhausted; terms in no live quad all
  have a query id, or none has one.
- The deadline thread marks the requests that are due in one step; the code goes through them one by
  one. A causal base with a counter of 0 is refused by `check_causal_base`; the model has none. A join
  mode that is forced on a query without joins is refused by the planner; the model answers it.
- RDF and JSON-LD parsing, format migration, backup and the recovery tool, benches.
