------------------------------ MODULE MCSettle ------------------------------
(***************************************************************************)
(* What craqle does after a write, on small instances: indexing it for     *)
(* search, the thread that does so and the calls that wait for it, the     *)
(* diagnostics of orphaned entities, and the verdicts of SHACL bindings.   *)
(* One behaviour exercises the component that `part' names; the others    *)
(* stay in their initial state, or Off.                                    *)
(***************************************************************************)
EXTENDS OrphanDiagnostics, SearchWorker, TLC

CONSTANT Parts      \* the components to run

VARIABLES
    part,
    source, life, queue, failure, head, gens, stage, cleanup, manifest, coverage, scan, nextGen,
    owner, indexId, docs, written, counter, committed, floor, rebuildStaged, view, session, sources,
    owed, pc, work, writes, faults,
    shGraph, shStatus, shReverse, shQueue, shLock, shGuard, shThread, shOpen, shDeferred, shBare,
    shSpent

Off == 0

-----------------------------------------------------------------------------
Search == INSTANCE SearchIndex WITH
    Graph <- {1}, Subject <- {1}, MaxWrites <- 2, MaxFaults <- 1, MaxToken <- 12, MaxGeneration <- 9

\* Graph 2 holds the shapes of graph 1.
Shacl == INSTANCE ShaclBindings WITH
    Thread <- {1, 2}, Graph <- {1, 2}, Pairs <- {<<1, 2>>},
    Contents <- (1 :> {1, 2} @@ 2 :> {1, 2}), Import <- (1 :> {} @@ 2 :> {}),
    Start <- (1 :> 1 @@ 2 :> 1), Absent <- 9, Broken <- {3}, Retries <- 2,
    MaxWrites <- 2, MaxBinds <- 1, MaxBare <- 0, MaxFaults <- 1

ASSUME Constants == Search!SearchIndexAssumption /\ Shacl!ShaclAssumption

-----------------------------------------------------------------------------
searchOnly ==
    <<source, life, queue, failure, head, gens, stage, cleanup, manifest, coverage, scan, nextGen,
      owner, indexId, docs, written, counter, committed, floor, rebuildStaged, view, session, sources,
      owed, pc, work, writes, faults>>
shaclOnly ==
    <<shGraph, shStatus, shReverse, shQueue, shLock, shGuard, shThread, shOpen, shDeferred, shBare,
      shSpent>>

Init ==
    /\ part \in Parts
    /\ IF part = "search" THEN Search!SearchInit
       ELSE /\ source = Off /\ life = Off /\ queue = Off /\ failure = Off /\ head = Off /\ gens = Off
            /\ stage = Off /\ cleanup = Off /\ manifest = Off /\ coverage = Off /\ scan = Off
            /\ nextGen = Off /\ owner = Off /\ indexId = Off /\ docs = Off /\ written = Off
            /\ counter = Off /\ committed = Off /\ floor = Off /\ rebuildStaged = Off /\ view = Off
            /\ session = Off /\ sources = Off /\ owed = Off /\ pc = Off /\ work = Off
            /\ writes = Off /\ faults = Off
    /\ WorkerInit /\ OrphanInit
    /\ IF part = "shacl" THEN Shacl!ShaclInit
       ELSE /\ shGraph = Off /\ shStatus = Off /\ shReverse = Off /\ shQueue = Off /\ shLock = Off
            /\ shGuard = Off /\ shThread = Off /\ shOpen = Off /\ shDeferred = Off /\ shBare = Off
            /\ shSpent = Off

Next ==
    /\ UNCHANGED part
    /\ IF part = "search" THEN Search!SearchNext ELSE UNCHANGED searchOnly
    /\ IF part = "worker" THEN WorkerNext ELSE UNCHANGED workerVars
    /\ IF part = "orphan" THEN OrphanNext ELSE UNCHANGED odVars
    /\ IF part = "shacl" THEN Shacl!ShaclNext ELSE UNCHANGED shaclOnly

settleVars == <<part, searchOnly, workerVars, odVars, shaclOnly>>

\* The fairness of the components: threads in a call go on, loops loop, a store that is down is opened.
SettleFairness ==
    /\ WF_searchOnly(part = "search" /\ Search!Pass /\ UNCHANGED <<writes, faults>>)
    /\ WF_workerVars(part = "worker" /\ run_search_worker)
    /\ \A c \in Call : WF_workerVars(part = "worker" /\ Flusher(c))
    /\ \A c \in Caller : WF_odVars(part = "orphan" /\ Finish(c))
    /\ \A e \in Entity : WF_odVars(part = "orphan" /\ IndexEntity(e))
    /\ WF_odVars(part = "orphan" /\ repair_diagnostics)
    /\ \A t \in {1, 2} : WF_shaclOnly(part = "shacl" /\ Shacl!ShaclStep(t))
    /\ WF_shaclOnly(part = "shacl" /\ \E t \in {1, 2} : Shacl!open_replay(t))

SettleSpec == Init /\ [][Next]_settleVars /\ SettleFairness

-----------------------------------------------------------------------------
(* Properties.                                                                      *)

\* No write is lost between the store and the search index: it is shown or still owed, a certified one
\* is readable, cleanup takes nothing that is in use, and the cached queue start and digest are true.
SearchOwesWrites ==
    part = "search" => /\ Search!WritesStayOwed /\ Search!CertifiedIsReadable
                       /\ Search!CleanupSparesLive /\ Search!FloorBelowQueue /\ Search!ManifestIsExact

\* Every write is certified in the end, across a crash, a failed index commit and the rebuild they owe.
WritesAreCertified == []<>(part = "search" => Search!CaughtUp)

\* Every flush returns, a shutdown ends the thread, and a write is covered without anyone flushing:
\* again and again nothing of the three is outstanding, which implies FlushReturns, ShutdownEnds and
\* WriteGetsCovered.
FlushesReturn ==
    []<>(part = "worker" => /\ \A c \in Call : ~InPhase(c, "waiting")
                            /\ stopping => worker.at = "gone"
                            /\ CoveredOrGone(token))

\* Once changes stop, every active binding whose shapes are there has a verdict or an error on record.
BindingsSettle == <>[](part = "shacl" => Shacl!BindingsSettled)

=============================================================================
