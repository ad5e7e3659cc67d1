----------------------------- MODULE SearchIndex -----------------------------
(***************************************************************************)
(* Full-text search maintenance: the durable queue of dirty subjects,       *)
(* reindexes and deletes (store.rs), the search index that derives its      *)
(* documents from the RDF rows (search/mod.rs), and the maintenance pass    *)
(* that drains the one into the other while writers keep committing and     *)
(* the process may stop between any two steps.                              *)
(*                                                                          *)
(* A row's value is the token of the commit that wrote it, negated when     *)
(* that commit removed the subject; the text of a document is the token of  *)
(* the row it was derived from, 0 when there is no document.  Graphs are    *)
(* deleted for good (a tombstone refuses re-creation).                      *)
(***************************************************************************)
EXTENDS Integers, FiniteSets, FiniteSetsExt

CONSTANTS Graph,          \* graph term ids, in scan order
          Subject,        \* subject term ids, in scan order
          MaxWrites,      \* bound on the batches writers attempt
          MaxFaults,      \* bound on crashes and failed index commits
          MaxToken,       \* tokens and generations that many writes and faults
          MaxGeneration   \*   can use up

\* What the constants satisfy; a module that instantiates this one assumes it.
SearchIndexAssumption ==
  /\ Graph \subseteq Nat \ {0} /\ Graph # {}
  /\ Subject \subseteq Nat \ {0}
  /\ {MaxToken, MaxGeneration} \subseteq Nat \ {0}
  /\ {MaxWrites, MaxFaults} \subseteq Nat

VARIABLES
  source,     \* [graph -> [subject -> token, negated when removed, 0 never written]]
  life,       \* [graph -> "absent" | "live" | "deleted"]
  queue,      \* queue rows: [key -> [oldest, latest]]
  failure,    \* RetryState rows that retry no more: [key -> target]
  head,       \* SEARCH_HEAD_KEY
  gens,       \* StoredGeneration rows
  stage,      \* StoredStage rows
  cleanup,    \* generations with a CleanupJob
  manifest,   \* StoredManifest: the active generations, as a set
  coverage,   \* SearchCoverage
  scan,       \* SearchRebuildScan
  nextGen,    \* SEARCH_NEXT_KEY
  owner,      \* [generation -> graph], the graph field of a job and of a document
  indexId,    \* identity file of the index directory
  docs,       \* committed documents: [generation -> [subject -> token]]
  written,    \* the same with the writer's uncommitted operations
  counter,    \* dirty_counter
  committed,  \* dirty_committed
  floor,      \* queue_floor
  rebuildStaged, \* rebuild_staged
  view,       \* published generation of each graph
  session,    \* session of this process
  sources,    \* stage_sources: [generation -> rows of the pinned snapshot]
  owed,       \* rebuild_owed.pending()
  pc, work,   \* the maintenance pass
  writes, faults  \* writes and faults so far, only to bound them

storeVars == <<source, life, queue, failure, head, gens, stage, cleanup, manifest,
               coverage, scan, nextGen, owner>>
memVars == <<counter, committed, floor, rebuildStaged, view, session, sources, owed>>
searchVars == <<storeVars, memVars, indexId, docs, written, pc, work, writes, faults>>

None == 0
Generation == 1..MaxGeneration
Token == 0..MaxToken
Whole == 0      \* the subject field of a graph-level key

SubjectKey(g, s) == [kind |-> "subject", graph |-> g, subject |-> s]
ReindexKey(g) == [kind |-> "reindex", graph |-> g, subject |-> Whole]
DeleteKey(g) == [kind |-> "delete", graph |-> g, subject |-> Whole]
Key == {SubjectKey(g, s) : g \in Graph, s \in Subject}
         \cup {ReindexKey(g) : g \in Graph} \cup {DeleteKey(g) : g \in Graph}
NoTokens == [oldest |-> 0, latest |-> 0]
Queued(q) == {k \in Key : q[k] # NoTokens}

NoStage == [index |-> None, target |-> 0, generation |-> None, cursor |-> 0,
            complete |-> FALSE, session |-> 0]
NoDocs == [s \in Subject |-> 0]
NoSource == [s \in Subject |-> -1]
Text(row) == [s \in Subject |-> Max({row[s], 0})]
Idle == [key |-> DeleteKey(Min(Graph)), oldest |-> 0, latest |-> 0, text |-> 0, api |-> FALSE,
         target |-> 0, bound |-> 0, clean |-> TRUE, recovery |-> 0, rows |-> {},
         shown |-> [g \in Graph |-> None], paused |-> -1]

-----------------------------------------------------------------------------
(* The queue.  Every operator below runs under fts_queue_lock.             *)

stage_fts_entry(q, key, token) ==
  [q EXCEPT ![key] = IF @ = NoTokens
                     THEN [oldest |-> token, latest |-> token]
                     ELSE [oldest |-> Min({@.oldest, token}),
                           latest |-> Max({@.latest, token})]]

\* Older work of a graph goes in the batch that deletes it.
stage_delete_queue(rows, g, none) ==
  [k \in Key |-> IF k.graph = g /\ k.kind # "delete" THEN none ELSE rows[k]]

\* Faulty: the whole entry goes, with what a later write owes.
settle_drops_entry(key, covered) ==
  /\ queue' = [queue EXCEPT ![key] = NoTokens]
  /\ failure' = [failure EXCEPT ![key] = 0]
  /\ UNCHANGED floor

\* What was covered is retired; what a later write owes stays, from there on.
settle_fts_entry(key, covered) ==
  LET stored == queue[key]
      kept == [oldest |-> covered + 1, latest |-> stored.latest]
      retired == stored = NoTokens \/ stored.latest <= covered
  IN  /\ queue' = [queue EXCEPT ![key] = IF retired THEN NoTokens ELSE kept]
      /\ failure' = [failure EXCEPT ![key] = IF retired \/ @ # stored.latest THEN 0 ELSE @]
      /\ floor' = IF retired THEN floor ELSE Min({floor, kept.oldest})

acknowledge_fts_queue(key, covered) == settle_fts_entry(key, covered)
acknowledge_reindex(key, covered) == settle_fts_entry(key, covered)
acknowledge_deletes(key, covered) == settle_fts_entry(key, covered)

Retire(keys) ==
  /\ queue' = [k \in Key |-> IF k \in keys THEN NoTokens ELSE queue[k]]
  /\ failure' = [k \in Key |-> IF k \in keys THEN 0 ELSE failure[k]]
  /\ UNCHANGED floor

\* Faulty: a subject dirtied again since is retired by its oldest token.
acknowledge_reindexed_by_oldest(g, upto) ==
  Retire({k \in Queued(queue) : k.graph = g /\ k.kind = "subject" /\ queue[k].oldest <= upto})

\* The subjects a reindex up to "upto" covered; one dirtied later is not covered.
acknowledge_reindexed(g, upto) ==
  Retire({k \in Queued(queue) : k.graph = g /\ k.kind = "subject" /\ queue[k].latest <= upto})

acknowledge_deleted(g, upto) ==
  Retire({k \in Queued(queue) : k.graph = g /\ k.kind # "delete" /\ queue[k].latest <= upto})

\* Every entry of the graph, settled up to the pinned token.
clear_graph_queue(g, upto) ==
  LET kept(k) == [oldest |-> upto + 1, latest |-> queue[k].latest]
      late == {k \in Queued(queue) : k.graph = g /\ queue[k].latest > upto}
  IN  /\ queue' = [k \in Key |-> IF k.graph # g THEN queue[k]
                                 ELSE IF k \in late THEN kept(k) ELSE NoTokens]
      /\ failure' = [k \in Key |-> IF k.graph = g /\ (k \notin late \/ failure[k] # queue[k].latest)
                                   THEN 0 ELSE failure[k]]
      /\ floor' = Min({floor} \cup {kept(k).oldest : k \in late})

\* queue_head scans from the cached floor, never from the start of the queue.
queue_head ==
  LET seen == {queue[k].oldest : k \in {x \in Queued(queue) : queue[x].oldest >= floor}}
  IN  IF seen = {} THEN None ELSE Min(seen)

\* Faulty: as if a certification up to the target had succeeded.
RaisedFloor_by_target == Max({floor, work.target + 1})

RaisedFloor == Max({floor, IF queue_head = None THEN counter ELSE queue_head})

\* commit_durable: the rows and the queue entries they owe, in one batch.
commit_durable(key) ==
  LET g == key.graph
      deletes == key.kind = "delete"
  IN
  /\ queue' = stage_fts_entry(IF deletes THEN stage_delete_queue(queue, g, NoTokens) ELSE queue,
                              key, counter)
  /\ failure' = IF deletes THEN stage_delete_queue(failure, g, 0) ELSE failure
  /\ head' = counter
  /\ committed' = Max({committed, counter})
  /\ counter' = counter + 1
  /\ floor' = Min({floor, queue'[key].oldest})

Writer == writes < MaxWrites /\ writes' = writes + 1
WriterKeeps == UNCHANGED <<gens, stage, cleanup, manifest, coverage, scan, nextGen, owner,
                           rebuildStaged, view, session, sources, owed,
                           indexId, docs, written, pc, work, faults>>

\* enqueue_fts: one subject written or removed.
enqueue_fts(g, s) ==
  /\ Writer
  /\ life[g] # "deleted"
  /\ commit_durable(SubjectKey(g, s))
  /\ \E value \in {counter} \cup (IF source[g][s] > 0 THEN {-counter} ELSE {}) :
       source' = [source EXCEPT ![g][s] = value]
  /\ life' = [life EXCEPT ![g] = "live"]
  /\ WriterKeeps

\* enqueue_fts_subjects past the threshold: one reindex for the whole graph.
enqueue_fts_reindex(g) ==
  /\ Writer
  /\ life[g] # "deleted"
  /\ commit_durable(ReindexKey(g))
  /\ source' = [source EXCEPT ![g] = [s \in Subject |-> counter]]
  /\ life' = [life EXCEPT ![g] = "live"]
  /\ WriterKeeps

delete_graph_inner(g) ==
  /\ Writer
  /\ life[g] = "live"
  /\ commit_durable(DeleteKey(g))
  /\ source' = [source EXCEPT ![g] = [s \in Subject |-> -counter]]
  /\ life' = [life EXCEPT ![g] = "deleted"]
  /\ WriterKeeps

\* The batch of a write fails: its token is spent, its rows are not stored.
commit_fails(g, s) ==
  /\ Writer
  /\ life[g] # "deleted"
  /\ counter' = counter + 1
  /\ floor' = Min({floor, stage_fts_entry(queue, SubjectKey(g, s), counter)[SubjectKey(g, s)].oldest})
  /\ UNCHANGED <<storeVars, committed, rebuildStaged, view, session, sources, owed,
                 indexId, docs, written, pc, work, faults>>

-----------------------------------------------------------------------------
(* Generations.  A graph's documents live in generations; the active one is *)
(* published, the staged one is being written, the others are cleaned up.   *)

Active(g) == IF gens[g].index = indexId THEN gens[g].active ELSE None
Staged(g) == stage[g].index = indexId
Jobs(set) == set \ {None}

\* Faulty: the replaced generation stays in the digest.
stage_manifest_forgets(g, previous, active) ==
  LET mine == IF manifest.index = indexId THEN manifest.rows ELSE {}
  IN  [index |-> indexId, rows |-> mine \cup {<<g, a>> : a \in Jobs({active})}]

\* ManifestChange: the manifest of another index is discarded.
stage_manifest(g, previous, active) ==
  LET mine == IF manifest.index = indexId THEN manifest.rows ELSE {}
  IN  [index |-> indexId,
       rows |-> (mine \ {<<g, previous>>}) \cup {<<g, a>> : a \in Jobs({active})}]

next_search_generation(g) ==
  /\ nextGen' = nextGen + 1
  /\ owner' = [owner EXCEPT ![nextGen] = g]

\* Mints an active generation when this index has none for the graph.
ensure_search_generation(g) ==
  IF Active(g) # None
  THEN UNCHANGED <<gens, cleanup, manifest, nextGen, owner>>
  ELSE /\ next_search_generation(g)
       /\ gens' = [gens EXCEPT ![g] = [index |-> indexId, active |-> nextGen, covered |-> 0]]
       /\ cleanup' = cleanup \cup Jobs({gens[g].active})
       /\ manifest' = stage_manifest(g, Active(g), nextGen)

\* Resumes a stage of this session or a complete one; otherwise starts over.
Resumable(g, wanted) ==
  /\ Staged(g)
  /\ stage[g].target = wanted
  /\ stage[g].complete \/ stage[g].session = session

begin_search_stage(g, wanted) ==
  IF Resumable(g, wanted)
  THEN UNCHANGED <<stage, cleanup, nextGen, owner>>
  ELSE /\ next_search_generation(g)
       /\ stage' = [stage EXCEPT ![g] = [index |-> indexId, target |-> wanted,
                                         generation |-> nextGen, cursor |-> 0,
                                         complete |-> FALSE, session |-> session]]
       /\ cleanup' = cleanup \cup Jobs({stage[g].generation})

switch_search_stage(g) ==
  /\ gens' = [gens EXCEPT ![g] = [index |-> indexId, active |-> stage[g].generation,
                                  covered |-> stage[g].target]]
  /\ stage' = [stage EXCEPT ![g] = NoStage]
  /\ manifest' = stage_manifest(g, Active(g), stage[g].generation)
  /\ cleanup' = cleanup \cup Jobs({Active(g)})

Switchable(g) ==
  /\ life[g] = "live"
  /\ queue[ReindexKey(g)] # NoTokens
  /\ stage[g].target >= queue[ReindexKey(g)].oldest

\* Faulty: the stage is cleaned up and kept.
delete_search_graph_keeps_stage(g, covered) ==
  /\ gens' = [gens EXCEPT ![g] = [index |-> indexId, active |-> None, covered |-> covered]]
  /\ UNCHANGED stage
  /\ manifest' = stage_manifest(g, Active(g), None)
  /\ cleanup' = cleanup \cup Jobs({Active(g), stage[g].generation})

delete_search_graph(g, covered) ==
  /\ gens' = [gens EXCEPT ![g] = [index |-> indexId, active |-> None, covered |-> covered]]
  /\ stage' = [stage EXCEPT ![g] = NoStage]
  /\ manifest' = stage_manifest(g, Active(g), None)
  /\ cleanup' = cleanup \cup Jobs({Active(g)})
                        \cup Jobs({IF Staged(g) THEN stage[g].generation ELSE None})

-----------------------------------------------------------------------------
(* Coverage and rebuilds of the whole index.                               *)

\* What the manifest scan reports of each live graph and each generation row.
scan_search_manifest ==
  [g \in {x \in Graph : life[x] = "live" \/ gens[x].index # None} |->
     [active |-> gens[g].active,
      live |-> life[g] = "live",
      wrong_index |-> \E i \in {gens[g].index, stage[g].index} : i \notin {None, indexId},
      owed |-> {queue[ReindexKey(g)].oldest, queue[DeleteKey(g)].oldest, stage[g].target} \ {0},
      source_owed |-> queue[ReindexKey(g)].oldest,
      delete_owed |-> queue[DeleteKey(g)].oldest]]

\* Whether everything up to a token is in the active generations, and which they are.
load_manifest(upto) ==
  LET scanned == scan_search_manifest
      oldDebt(r) == \E t \in r.owed : t <= upto
      missingLive(r) == r.live /\ r.active = None /\ r.source_owed <= upto
      staleDead(r) == ~r.live /\ r.active # None /\ r.delete_owed <= upto
  IN  [valid |-> /\ \A k \in Queued(queue) : queue[k].oldest > upto
                 /\ \A g \in DOMAIN scanned :
                      LET r == scanned[g]
                      IN  ~(r.wrong_index \/ oldDebt(r) \/ missingLive(r) \/ staleDead(r)),
       rows |-> {<<g, scanned[g].active>> : g \in {x \in DOMAIN scanned : scanned[x].active # None}},
       generations |-> [g \in Graph |-> IF life[g] = "live" THEN gens[g].active ELSE None]]

NoRebuild == -1
RebuildPending == coverage.index # indexId \/ coverage.rebuild # NoRebuild

\* Keeps a rebuild already owed to this index, otherwise owes a new one.
bind_search_rebuild(index, token) ==
  IF coverage.index = index /\ coverage.rebuild # NoRebuild
  THEN UNCHANGED <<coverage, scan>>
  ELSE /\ coverage' = [index |-> index, covered |-> 0, rebuild |-> token,
                       rows |-> IF manifest.index = index THEN manifest.rows ELSE {}]
       /\ scan' = [after |-> 0, done |-> FALSE]

Unscanned == {g \in Graph : g > scan.after /\ life[g] = "live"}

\* One page of the rebuild scan: the next graph owes a reindex, or the scan ends.
queue_search_rebuild ==
  IF scan.done
  THEN /\ work' = [work EXCEPT !.recovery = Max({@, work.bound, coverage.rebuild, rebuildStaged})]
       /\ UNCHANGED <<queue, failure, head, scan, counter, committed, floor, rebuildStaged>>
  ELSE IF Unscanned = {}
  THEN /\ scan' = [scan EXCEPT !.done = TRUE]
       /\ head' = committed
       /\ rebuildStaged' = Max({rebuildStaged, committed})
       /\ work' = [work EXCEPT !.recovery = Max({@, work.bound, committed})]
       /\ UNCHANGED <<queue, failure, counter, committed, floor>>
  ELSE LET g == Min(Unscanned) IN
       /\ commit_durable(ReindexKey(g))
       /\ scan' = [after |-> g, done |-> Cardinality(Unscanned) = 1]
       /\ rebuildStaged' = Max({rebuildStaged, counter})
       /\ work' = [work EXCEPT !.recovery = Max({@, work.bound, counter}),
                               !.clean = @ /\ Cardinality(Unscanned) = 1]

-----------------------------------------------------------------------------
(* The maintenance pass.  It holds work_lock; only writers and a crash come *)
(* between its steps.                                                       *)

Due(kind) == {k \in Queued(queue) : k.kind = kind /\ queue[k].oldest <= work.bound}
At(phase) == pc = phase
Goto(phase) == pc' = phase
Unclean == work' = [work EXCEPT !.clean = FALSE]
GiveUp == Goto("idle") /\ work' = Idle

\* The end of reindex_from_store: a pass that it came in between goes on to
\* certify what it drained.
Leave == IF work.paused < 0 THEN GiveUp
         ELSE Goto("certify") /\ work' = [Idle EXCEPT !.target = work.paused]

\* What a step leaves alone when it touches neither the queue nor the counters.
KeepQueue == UNCHANGED <<queue, failure, head, counter, committed, floor, rebuildStaged>>
KeepGens == UNCHANGED <<gens, stage, cleanup, manifest, nextGen, owner>>
KeepIndex == UNCHANGED <<indexId, docs, written>>
KeepRows == UNCHANGED <<source, life, coverage, scan, session, owed>>

\* A rebuild a rolled-back writer requested is owed durably before any draining.
settle_poisoned_writer ==
  IF owed THEN bind_search_rebuild(indexId, committed) ELSE UNCHANGED <<coverage, scan>>

\* A new pass up to the newest committed token, or to the rebuild it now owes.
BeginPass ==
  /\ At("idle")
  /\ settle_poisoned_writer
  /\ LET raised == IF owed THEN coverage'.rebuild ELSE 0
     IN  work' = [Idle EXCEPT !.target = committed, !.recovery = raised,
                              !.bound = IF owed THEN raised ELSE committed]
  /\ owed' = FALSE
  /\ Goto("delete")
  /\ KeepQueue /\ KeepGens /\ KeepIndex
  /\ UNCHANGED <<source, life, session, view, sources>>

\* retry_failure forgets a failure of an older target than the one to work on.
clear_fts_failure(k) == failure' = [failure EXCEPT ![k] = IF @ = queue[k].latest THEN @ ELSE 0]

\* drain_queues: the next entry of a class within the bound, or the next class.
ordered_queue(kind, handler, next) ==
  /\ At(kind)
  /\ IF Due(kind) = {}
     THEN /\ Goto(next)
          /\ UNCHANGED <<work, failure>>
     ELSE \E k \in Due(kind) :
            /\ work' = [work EXCEPT !.key = k, !.oldest = queue[k].oldest,
                                    !.latest = queue[k].latest,
                                    !.clean = @ /\ Cardinality(Due(kind)) = 1]
            /\ clear_fts_failure(k)
            /\ Goto(handler)
  /\ KeepRows /\ KeepGens /\ KeepIndex
  /\ UNCHANGED <<queue, head, counter, committed, floor, rebuildStaged, view, sources>>

drain_deleted_graphs == ordered_queue("delete", "settle", "reindex")
drain_rebuilt_graphs == ordered_queue("reindex", "rebuild", "subject")
drain_dirty_subjects == ordered_queue("subject", "prepare", "cleanup")

AfterClass == CASE work.key.kind = "delete" -> "reindex"
                [] work.key.kind = "reindex" -> "subject"
                [] OTHER -> "cleanup"

\* An entry with a failure for this very target is no longer tried.
Deferred == ~work.api /\ failure[work.key] # 0

set_fts_failure ==
  /\ failure' = [failure EXCEPT ![work.key] = work.latest]
  /\ UNCHANGED <<stage, cleanup, sources>>

\* A failed reindex also gives up its stage.
quarantine_search_failure ==
  LET a == stage[work.key.graph].generation IN
  /\ failure' = [failure EXCEPT ![work.key] = work.latest]
  /\ stage' = [stage EXCEPT ![work.key.graph] = NoStage]
  /\ cleanup' = cleanup \cup Jobs({a})
  /\ sources' = [x \in Generation |-> IF x = a THEN NoSource ELSE sources[x]]

\* ... unless a writer has since added to the debt: then the pass fails.
Quarantinable == /\ queue[work.key] = [oldest |-> work.oldest, latest |-> work.latest]
                 /\ stage[work.key.graph].index \in {None, indexId}

FailItem ==
  /\ IF work.key.kind = "reindex" /\ ~Quarantinable
     THEN /\ GiveUp
          /\ UNCHANGED <<failure, stage, cleanup, sources>>
     ELSE /\ IF work.key.kind = "reindex" THEN quarantine_search_failure ELSE set_fts_failure
          /\ Unclean
          /\ Goto(AfterClass)
  /\ KeepRows /\ KeepIndex
  /\ UNCHANGED <<queue, head, counter, committed, floor, rebuildStaged, gens, manifest,
                 nextGen, owner, view>>

\* retry_failure: an entry that failed for good is reported and not tried again.
retry_failure ==
  /\ pc \in {"settle", "rebuild", "prepare"} /\ Deferred
  /\ FailItem

\* record_failure: an item larger than the budgets fails for good.
record_failure ==
  /\ pc \in {"page", "prepare"} /\ ~Deferred /\ ~work.api
  /\ faults < MaxFaults
  /\ faults' = faults + 1
  /\ FailItem
  /\ UNCHANGED writes

Erased(d, erase) == [a \in Generation |-> IF a \in erase THEN NoDocs ELSE d[a]]

\* SearchIndex::commit: the writer's operations reach the reader together.
commit_index == docs' = written'

\* A failed index commit rolls the writer back and owes a rebuild; the pass ends.
reset_writer ==
  /\ pc \in {"erase", "page", "apply", "clean"}
  /\ faults < MaxFaults
  /\ faults' = faults + 1
  /\ owed' = TRUE
  /\ written' = docs
  /\ Leave
  /\ UNCHANGED <<storeVars, counter, committed, floor, rebuildStaged, view, session,
                 sources, indexId, docs, writes>>

\* The graph is gone: so are its generations, then its documents.
DropGenerations ==
  LET g == work.key.graph IN
  /\ delete_search_graph(g, work.latest)
  /\ sources' = IF Staged(g) THEN [sources EXCEPT ![stage[g].generation] = NoSource] ELSE sources
  /\ view' = [view EXCEPT ![g] = None]
  /\ Goto("erase")
  /\ KeepQueue /\ KeepRows /\ KeepIndex
  /\ UNCHANGED <<nextGen, owner, work>>

settle_deleted_graph ==
  /\ At("settle") /\ ~Deferred
  /\ DropGenerations

\* A graph removed after its rebuild was queued stays removed.
rebuild_queued_graph ==
  /\ At("rebuild") /\ ~Deferred /\ ~work.api /\ life[work.key.graph] # "live"
  /\ DropGenerations

delete_documents_locked ==
  /\ At("erase")
  /\ written' = Erased(written, {a \in Generation : owner[a] = work.key.graph})
  /\ commit_index
  /\ Goto("ackSubjects")
  /\ UNCHANGED <<storeVars, memVars, indexId, work>>

AckKeeps == /\ KeepRows /\ KeepGens /\ KeepIndex
            /\ UNCHANGED <<head, counter, committed, rebuildStaged, view, sources, work>>

\* The two acknowledgements of a graph entry, each in a batch of its own.
AckSubjects ==
  /\ At("ackSubjects")
  /\ IF work.key.kind = "delete" THEN acknowledge_deleted(work.key.graph, work.latest)
     ELSE acknowledge_reindexed(work.key.graph, work.latest)
  /\ Goto("ack")
  /\ AckKeeps

AckEntry ==
  /\ At("ack")
  /\ CASE work.key.kind = "delete" -> acknowledge_deletes(work.key, work.latest)
       [] work.key.kind = "reindex" -> acknowledge_reindex(work.key, work.latest)
       [] OTHER -> acknowledge_fts_queue(work.key, work.latest)
  /\ Goto(AfterClass)
  /\ AckKeeps

\* stage_graph, first part: already covered, or the stage to continue.
stage_graph ==
  LET g == work.key.graph
      wanted == IF Staged(g) THEN stage[g].target ELSE work.latest
      replaced == Staged(g) /\ ~Resumable(g, wanted)
  IN
  /\ At("rebuild") /\ ~Deferred /\ life[g] = "live"
  /\ IF Active(g) # None /\ gens[g].covered >= work.latest
     THEN /\ view' = [view EXCEPT ![g] = Active(g)]
          /\ Goto(IF work.api THEN "clear" ELSE "ackSubjects")
          /\ UNCHANGED <<stage, cleanup, nextGen, owner, sources>>
     ELSE /\ begin_search_stage(g, wanted)
          /\ sources' = IF replaced THEN [sources EXCEPT ![stage[g].generation] = NoSource]
                        ELSE sources
          /\ Goto(IF stage'[g].complete THEN "switch" ELSE "page")
          /\ UNCHANGED view
  /\ KeepQueue /\ KeepRows /\ KeepIndex
  /\ UNCHANGED <<gens, manifest, work>>

\* stage_graph, second part: pin the snapshot, then its next subject or the end.
Pinned(g, a) == IF sources[a] = NoSource THEN Text(source[g]) ELSE sources[a]
NextRows(g, a) == {s \in Subject : s > stage[g].cursor /\ Pinned(g, a)[s] > 0}

finish_search_stage ==
  LET g == work.key.graph
      a == stage[g].generation
  IN
  /\ At("page") /\ NextRows(g, a) = {}
  /\ sources' = [sources EXCEPT ![a] = Pinned(g, a)]
  /\ stage' = [stage EXCEPT ![g].complete = TRUE]
  /\ Goto("switch")
  /\ KeepQueue /\ KeepRows /\ KeepIndex
  /\ UNCHANGED <<gens, cleanup, manifest, nextGen, owner, view, work>>

prepare_stage ==
  LET g == work.key.graph
      a == stage[g].generation
      s == Min(NextRows(g, a))
  IN
  /\ At("page") /\ NextRows(g, a) # {}
  /\ sources' = [sources EXCEPT ![a] = Pinned(g, a)]
  /\ written' = [written EXCEPT ![a][s] = Pinned(g, a)[s]]
  /\ commit_index
  /\ work' = [work EXCEPT !.text = s]
  /\ Goto("advance")
  /\ KeepQueue /\ KeepRows /\ KeepGens
  /\ UNCHANGED <<view, indexId>>

\* Pending: the pass goes on without this graph, the API call loops.
advance_search_stage ==
  /\ At("advance")
  /\ stage' = [stage EXCEPT ![work.key.graph].cursor = work.text]
  /\ Unclean
  /\ Goto(IF work.api THEN "rebuild" ELSE "subject")
  /\ KeepQueue /\ KeepRows /\ KeepIndex
  /\ UNCHANGED <<gens, cleanup, manifest, nextGen, owner, view, sources>>

\* The staged generation becomes the active one; a refusal ends the pass.
switch_stage ==
  LET g == work.key.graph IN
  /\ At("switch")
  /\ IF Switchable(g)
     THEN /\ switch_search_stage(g)
          /\ sources' = [sources EXCEPT ![stage[g].generation] = NoSource]
          /\ view' = [view EXCEPT ![g] = stage[g].generation]
          /\ work' = [work EXCEPT !.latest = stage[g].target]
          /\ Goto(IF work.api THEN "clear" ELSE "ackSubjects")
     ELSE /\ Leave
          /\ UNCHANGED <<gens, stage, manifest, cleanup, sources, view>>
  /\ KeepQueue /\ KeepRows /\ KeepIndex
  /\ UNCHANGED <<nextGen, owner>>

\* A pass that left nothing behind.
Certifiable == work.clean /\ work.recovery <= work.target

\* SearchIndex::reindex_from_store: the caller takes work_lock, owes the graph a
\* reindex, and stages it up to the newest token until that token is covered.
\* drain_queues and complete_coverage take the lock separately, so that it may
\* run between a pass's draining and the certification of what it drained.
reindex_from_store(g) ==
  /\ At("idle") \/ (At("certify") /\ Certifiable)
  /\ Writer
  /\ life[g] = "live"
  /\ commit_durable(ReindexKey(g))
  /\ work' = [Idle EXCEPT !.api = TRUE, !.key = ReindexKey(g),
                          !.latest = committed', !.target = committed',
                          !.paused = IF At("certify") THEN work.target ELSE -1]
  /\ Goto("rebuild")
  /\ KeepRows /\ KeepGens /\ KeepIndex
  /\ UNCHANGED <<rebuildStaged, view, sources, faults>>

ClearReindexed ==
  /\ At("clear")
  /\ clear_graph_queue(work.key.graph, Min({work.latest, work.target}))
  /\ IF work.latest >= work.target THEN Leave
     ELSE /\ work' = [work EXCEPT !.latest = work.target]
          /\ Goto("rebuild")
  /\ KeepRows /\ KeepGens /\ KeepIndex
  /\ UNCHANGED <<head, counter, committed, rebuildStaged, view, sources>>

\* begin_search_stage refuses a tombstoned graph, and the call fails.
ReindexRefused ==
  /\ At("rebuild") /\ work.api /\ life[work.key.graph] # "live"
  /\ Leave
  /\ UNCHANGED <<storeVars, memVars, indexId, docs, written>>

\* A reindex for subjects queued while a rebuild has yet to reach their graph.
ensure_reindex(g) ==
  IF queue[ReindexKey(g)] # NoTokens
  THEN /\ work' = [work EXCEPT !.clean = FALSE,
                               !.recovery = Max({@, queue[ReindexKey(g)].latest})]
       /\ UNCHANGED <<queue, failure, head, counter, committed, floor>>
  ELSE /\ commit_durable(ReindexKey(g))
       /\ work' = [work EXCEPT !.clean = FALSE, !.recovery = Max({@, counter})]

\* drain_dirty_subjects, an entry whose graph is being staged: it has to wait.
SubjectWaits ==
  /\ At("prepare") /\ ~Deferred /\ Staged(work.key.graph)
  /\ Unclean
  /\ Goto("cleanup")
  /\ UNCHANGED <<storeVars, memVars, indexId, docs, written>>

NeedsReindex(g) == RebuildPending /\ view[g] = None

SubjectReindexes ==
  LET g == work.key.graph IN
  /\ At("prepare") /\ ~Deferred /\ ~Staged(g) /\ NeedsReindex(g)
  /\ ensure_reindex(g)
  /\ Goto("cleanup")
  /\ KeepRows /\ KeepGens /\ KeepIndex
  /\ UNCHANGED <<rebuildStaged, view, sources>>

\* The subject's row is read for the active generation; no graph, no pass.
prepare_subject_op ==
  LET g == work.key.graph IN
  /\ At("prepare") /\ ~Deferred /\ ~Staged(g) /\ ~NeedsReindex(g)
  /\ IF life[g] = "live"
     THEN /\ ensure_search_generation(g)
          /\ view' = [view EXCEPT ![g] = gens'[g].active]
          /\ work' = [work EXCEPT !.text = Max({source[g][work.key.subject], 0})]
          /\ Goto("apply")
     ELSE /\ GiveUp
          /\ UNCHANGED <<gens, cleanup, manifest, nextGen, owner, view>>
  /\ KeepQueue /\ KeepRows /\ KeepIndex
  /\ UNCHANGED <<stage, sources>>

apply_prepared_op ==
  /\ At("apply")
  /\ written' = [written EXCEPT ![Active(work.key.graph)][work.key.subject] = work.text]
  /\ commit_index
  /\ Goto("ack")
  /\ UNCHANGED <<storeVars, memVars, indexId, work>>

\* drain_cleanup: the documents of retired generations go before their jobs do.
scan_search_cleanup ==
  /\ At("cleanup")
  /\ IF cleanup = {} THEN Goto("scan") /\ UNCHANGED work
     ELSE \E a \in cleanup : /\ work' = [work EXCEPT !.text = a,
                                                     !.clean = @ /\ Cardinality(cleanup) = 1]
                             /\ Goto("clean")
  /\ UNCHANGED <<storeVars, memVars, indexId, docs, written>>

drain_cleanup ==
  /\ At("clean")
  /\ written' = Erased(written, {work.text})
  /\ commit_index
  /\ Goto("ackCleanup")
  /\ UNCHANGED <<storeVars, memVars, indexId, work>>

ack_search_cleanup ==
  /\ At("ackCleanup")
  /\ cleanup' = cleanup \ {work.text}
  /\ Goto("scan")
  /\ KeepQueue /\ KeepRows /\ KeepIndex
  /\ UNCHANGED <<gens, stage, manifest, nextGen, owner, view, sources, work>>

queue_rebuild ==
  /\ At("scan")
  /\ IF coverage.index = indexId /\ coverage.rebuild # NoRebuild
     THEN queue_search_rebuild
     ELSE UNCHANGED <<queue, failure, head, scan, counter, committed, floor, rebuildStaged, work>>
  /\ Goto("certify")
  /\ KeepGens /\ KeepIndex
  /\ UNCHANGED <<source, life, coverage, view, session, sources, owed>>

-----------------------------------------------------------------------------
(* Certification: complete_coverage once a pass left nothing behind.       *)

\* Faulty: the token the rebuild was owed at is not enough.
RebuildPassed == work.target > coverage.rebuild

RebuildReached == work.target >= coverage.rebuild

\* After a rebuild: every document of no published and no staged generation goes.
sweep_unaddressed(active) ==
  LET keep == {active[g] : g \in Graph} \cup {stage[g].generation : g \in {x \in Graph : Staged(x)}}
  IN  written' = Erased(written, Generation \ keep) /\ commit_index

\* complete_coverage, first part: what there is to certify, read from one snapshot.
complete_coverage ==
  LET loaded == load_manifest(work.target) IN
  /\ At("certify")
  /\ IF ~Certifiable \/ (RebuildPending /\ ~(loaded.valid /\ RebuildReached))
     THEN GiveUp /\ UNCHANGED <<written, docs>>
     ELSE /\ Goto("finish")
          /\ work' = [work EXCEPT !.rows = IF RebuildPending THEN loaded.rows ELSE manifest.rows,
                                  !.shown = IF RebuildPending THEN loaded.generations ELSE view]
          /\ IF RebuildPending THEN sweep_unaddressed(loaded.generations)
             ELSE UNCHANGED <<written, docs>>
  /\ UNCHANGED <<storeVars, memVars, indexId>>

HeadOwed == queue_head # None /\ queue_head <= work.target
Certified == [index |-> indexId, covered |-> work.target, rebuild |-> NoRebuild, rows |-> work.rows]

finish_search_rebuild ==
  IF ~scan.done \/ HeadOwed \/ work.target < coverage.covered
  THEN UNCHANGED <<coverage, manifest, scan, view>>
  ELSE /\ coverage' = Certified
       /\ manifest' = [index |-> indexId, rows |-> work.rows]
       /\ scan' = [after |-> 0, done |-> FALSE]
       /\ view' = work.shown

advance_search_coverage ==
  /\ coverage' = IF HeadOwed \/ work.target < coverage.covered THEN coverage ELSE Certified
  /\ UNCHANGED <<manifest, scan, view>>

\* complete_coverage, second part: certify unless a writer added debt meanwhile.
FinishCoverage ==
  /\ At("finish")
  /\ floor' = RaisedFloor
  /\ IF RebuildPending THEN finish_search_rebuild ELSE advance_search_coverage
  /\ GiveUp
  /\ UNCHANGED <<source, life, queue, failure, head, gens, stage, cleanup, nextGen, owner,
                 counter, committed, rebuildStaged, session, sources, owed, indexId, docs, written>>

-----------------------------------------------------------------------------
(* Opening the node: at first, and again after the process stopped.        *)

NoView == [g \in Graph |-> None]

\* The index the store knows publishes its generations if they are whole.
bind_store ==
  LET loaded == load_manifest(IF coverage.rebuild # NoRebuild THEN 0 ELSE coverage.covered)
      whole == /\ loaded.valid
               /\ coverage.rebuild # NoRebuild
                    \/ (manifest.rows = loaded.rows /\ coverage.rows = loaded.rows)
  IN  /\ view' = IF whole THEN loaded.generations ELSE NoView
      /\ IF whole /\ coverage.rebuild = NoRebuild THEN UNCHANGED <<coverage, scan>>
         ELSE bind_search_rebuild(indexId, head)
      /\ written' = docs
      /\ UNCHANGED <<indexId, docs>>

\* A foreign index is emptied, and everything is owed to it.
purge_index ==
  /\ indexId' = indexId + 1
  /\ docs' = [a \in Generation |-> NoDocs]
  /\ written' = docs'
  /\ view' = NoView
  /\ bind_search_rebuild(indexId + 1, head)

restore_dirty_counter ==
  /\ counter' = head + 1
  /\ committed' = head

\* After a crash or a shutdown.
open ==
  /\ faults < MaxFaults
  /\ faults' = faults + 1
  /\ session' = session + 1
  /\ restore_dirty_counter
  /\ floor' = 0
  /\ rebuildStaged' = 0
  /\ sources' = [a \in Generation |-> NoSource]
  /\ owed' = FALSE
  /\ bind_store \/ purge_index
  /\ GiveUp
  /\ UNCHANGED <<source, life, queue, failure, head, gens, stage, cleanup, manifest, nextGen,
                 owner, writes>>

SearchInit ==
  /\ source = [g \in Graph |-> [s \in Subject |-> 0]]
  /\ life = [g \in Graph |-> "absent"]
  /\ queue = [k \in Key |-> NoTokens]
  /\ failure = [k \in Key |-> 0]
  /\ head = 0
  /\ gens = [g \in Graph |-> [index |-> None, active |-> None, covered |-> 0]]
  /\ stage = [g \in Graph |-> NoStage]
  /\ cleanup = {}
  /\ manifest = [index |-> None, rows |-> {}]
  /\ coverage = [index |-> 1, covered |-> 0, rebuild |-> 0, rows |-> {}]
  /\ scan = [after |-> 0, done |-> FALSE]
  /\ nextGen = 1
  /\ owner = [a \in Generation |-> None]
  /\ indexId = 1
  /\ docs = [a \in Generation |-> NoDocs]
  /\ written = docs
  /\ counter = 1
  /\ committed = 0
  /\ floor = 0
  /\ rebuildStaged = 0
  /\ view = NoView
  /\ session = 1
  /\ sources = [a \in Generation |-> NoSource]
  /\ owed = FALSE
  /\ pc = "idle"
  /\ work = Idle
  /\ writes = 0
  /\ faults = 0

Pass == \/ BeginPass
        \/ drain_deleted_graphs \/ drain_rebuilt_graphs \/ drain_dirty_subjects
        \/ retry_failure
        \/ settle_deleted_graph \/ rebuild_queued_graph \/ delete_documents_locked
        \/ AckSubjects \/ AckEntry
        \/ stage_graph \/ finish_search_stage \/ prepare_stage \/ advance_search_stage
        \/ switch_stage
        \/ SubjectWaits \/ SubjectReindexes \/ prepare_subject_op \/ apply_prepared_op
        \/ scan_search_cleanup \/ drain_cleanup \/ ack_search_cleanup
        \/ queue_rebuild \/ complete_coverage \/ FinishCoverage
        \/ ClearReindexed \/ ReindexRefused

Write == \E g \in Graph : \/ \E s \in Subject : enqueue_fts(g, s) \/ commit_fails(g, s)
                          \/ enqueue_fts_reindex(g) \/ delete_graph_inner(g)
                          \/ reindex_from_store(g)

Fault == record_failure \/ reset_writer \/ open

SearchNext == \/ Pass /\ UNCHANGED <<writes, faults>>
              \/ Write
              \/ Fault

SearchSpec == SearchInit /\ [][SearchNext]_searchVars

\* The maintenance thread loops until shutdown, so an enabled step is taken.
SearchFairSpec == SearchSpec /\ WF_searchVars(Pass /\ UNCHANGED <<writes, faults>>)

-----------------------------------------------------------------------------
SearchTypeOK ==
  /\ source \in [Graph -> [Subject -> (-MaxToken)..MaxToken]]
  /\ life \in [Graph -> {"absent", "live", "deleted"}]
  /\ queue \in [Key -> [oldest : Token, latest : Token]]
  /\ failure \in [Key -> Token]
  /\ \A g \in Graph : gens[g].active \in {None} \cup Generation
  /\ cleanup \subseteq Generation
  /\ nextGen \in 1..MaxGeneration + 1
  /\ docs \in [Generation -> [Subject -> Token]]
  /\ view \in [Graph -> {None} \cup Generation]
  /\ counter \in 1..MaxToken + 1 /\ committed \in Token /\ head \in Token

Magnitude(n) == Max({n, -n})
Shown(g, s) == IF Active(g) = None THEN 0 ELSE docs[Active(g)][s]

\* No write is lost: until the committed index shows a row, the store owes it in
\* a queue entry at least as new as the write, or in a rebuild that has yet to
\* reach its graph, whatever acknowledgements, crashes and failed commits came
\* in between (acknowledge_fts_queue, acknowledge_reindexed, settle_fts_entry).
WritesStayOwed ==
  \A g \in Graph, s \in Subject :
    life[g] = "live" =>
      \/ Shown(g, s) = Max({source[g][s], 0})
      \/ \E k \in {SubjectKey(g, s), ReindexKey(g)} : queue[k].latest >= Magnitude(source[g][s])
      \/ RebuildPending /\ ~scan.done /\ g > scan.after

\* A certified token is readable: once coverage reaches a write, the generation
\* published to readers shows it, and a deleted graph shows nothing
\* (complete_coverage, finish_search_rebuild, advance_search_coverage).
CertifiedIsReadable ==
  ~RebuildPending =>
    \A g \in Graph, s \in Subject :
      (source[g][s] # 0 /\ Magnitude(source[g][s]) <= coverage.covered) =>
        (IF view[g] = None THEN 0 ELSE docs[view[g]][s]) = Max({source[g][s], 0})

\* The documents of a generation that is published, active or being staged are
\* never queued for removal (queue_search_cleanup, ack_search_cleanup).
CleanupSparesLive ==
  \A g \in Graph : \A a \in {Active(g), stage[g].generation} : a \notin cleanup

\* The cached scan start never passes queued work, so the head check of a
\* certification sees every debt (queue_floor, queue_head).
FloorBelowQueue == \A k \in Queued(queue) : floor <= queue[k].oldest

\* The digest kept incrementally is the digest of the generation rows, so that
\* a reopened index is not rebuilt for nothing (stage_manifest, load_manifest).
ManifestIsExact ==
  ~RebuildPending => manifest.rows = load_manifest(0).rows

\* A deleted graph's generation row keeps the identity of an index that is gone.
StrandedRow == \E g \in Graph : life[g] = "deleted" /\ gens[g].index \notin {None, indexId}

\* Under the pass's fairness certification catches up with the writes again and
\* again, by a pass of a write's own or of a later one, across a crash, a failed
\* index commit and the rebuild they owe, unless an entry has failed for good or a
\* stranded row blocks the rebuild (drain_queues, complete_coverage).
CaughtUp ==
  coverage.covered >= committed \/ StrandedRow \/ \E k \in Queued(queue) : failure[k] # 0
EveryWriteCertified == []<>CaughtUp

\* The README on flush_search_updates: it "waits for work accepted before the
\* call, plus any recovery that work requires", so that the recovery a replaced
\* index requires must come to an end, unless an entry has failed for good.
RecoveryEnds == RebuildPending ~> (~RebuildPending \/ \E k \in Queued(queue) : failure[k] # 0)
=============================================================================
