------------------------- MODULE OrphanDiagnostics --------------------------
(***************************************************************************)
(* The orphan diagnostics of one graph (store.rs, replication.rs).  A data *)
(* entity that the root does not reach over schema:hasPart is an orphan,   *)
(* and search hides it.  The orphan set is a record of its own, tagged     *)
(* with the graph clock it describes; it is written after the source batch *)
(* that moved the clock, in a second commit.  Between the two, readers and *)
(* the search worker meet a stale record, other calls rebuild it, and the  *)
(* process may crash; opening the store repairs it.                        *)
(*                                                                         *)
(* One action is one commit or one critical section.  The commit that      *)
(* re-queues search entities and the commit of the record are separate     *)
(* steps.  The node's entry points hold the graph write lock from before   *)
(* the commit until the diagnostics are settled; the graph commit guard is *)
(* released in between by a local write and held by a merge.               *)
(***************************************************************************)
EXTENDS Naturals, FiniteSets, FiniteSetsExt

CONSTANTS
    Caller,         \* threads that call the node
    Entity,         \* subjects other than the root
    MaxWrites,      \* bound on source commits
    MaxCrashes,     \* bound on crashes
    MaxFailures     \* bound on diagnostics writes that fail

Root == 0

ASSUME OrphanAssumption ==
    /\ IsFiniteSet(Caller) /\ IsFiniteSet(Entity)
    /\ Root \notin Entity /\ Root \notin Caller
    /\ MaxWrites \in Nat /\ MaxCrashes \in Nat /\ MaxFailures \in Nat

VARIABLES
    odParts,    \* live schema:hasPart edges
    odTyped,    \* subjects typed schema:Dataset or schema:MediaObject
    odClock,    \* the graph clock: one tick per source commit
    odRecord,   \* StoredDiagnostics: the orphans and the clock they describe
    odQueue,    \* entities queued for search
    odHidden,   \* entities the search index left out as orphans
    odWrite,    \* holder of the graph write lock, 0 when free
    odCommit,   \* holder of the graph commit guard, 0 when free
    odCall,     \* per caller: where it is and what it carries
    odUp,       \* the store is open
    odCrashes,
    odFailures

odVars == <<odParts, odTyped, odClock, odRecord, odQueue, odHidden, odWrite,
            odCommit, odCall, odUp, odCrashes, odFailures>>
sourceVars == <<odParts, odTyped, odClock>>

Free == 0
Idle == [at |-> "idle", guarded |-> FALSE, touches |-> FALSE, orphans |-> {}]

OrphanInit ==
    /\ odParts = {} /\ odTyped = {} /\ odClock = 0
    /\ odRecord = [clock |-> 0, orphans |-> {}]
    /\ odQueue = {} /\ odHidden = {}
    /\ odWrite = Free /\ odCommit = Free
    /\ odCall = [c \in Caller |-> Idle]
    /\ odUp = TRUE /\ odCrashes = 0 /\ odFailures = 0

-----------------------------------------------------------------------------
(* The orphan set of a graph.                                              *)

\* The breadth-first walk from the root, one layer per step.
Reached[n \in Nat] ==
    IF n = 0 THEN {Root}
    ELSE Reached[n - 1] \cup {part[2] : part \in
            {q \in odParts : q[1] \in Reached[n - 1]}}

\* orphaned_entity_ids: data entities are the ends of hasPart edges and the
\* subjects of a data type, except the root.
data_entities ==
    (odTyped \cup {part[1] : part \in odParts}
             \cup {part[2] : part \in odParts}) \ {Root}

orphaned_entity_ids == data_entities \ Reached[Cardinality(Entity)]

\* graph_diagnostics_id on the current snapshot: the record while its tag
\* equals the clock, a recomputation otherwise, which is not persisted.
graph_diagnostics ==
    IF odRecord.clock = odClock THEN odRecord.orphans ELSE orphaned_entity_ids

\* search_orphan_ids: the same decision for the search worker, with
\* bounded_orphan_ids as the recomputation.
search_orphan_ids ==
    IF odRecord.clock = odClock THEN odRecord.orphans ELSE orphaned_entity_ids

\* Faulty: a type change is taken to leave reachability alone.
touches_reachability_by_part(change) == change.kind = "part"
\* summarize: the change shapes that can alter the orphan set.
touches_reachability(change) == change.kind \in {"part", "type"}

-----------------------------------------------------------------------------
(* Source commits.                                                         *)

Change == [kind : {"part"}, subject : Entity \cup {Root}, object : Entity]
            \cup [kind : {"type", "text"}, subject : Entity, object : {Root}]

\* The source batch of a change that adds what is absent and removes what is
\* present: it moves the clock and queues the subjects it touched.
Apply(change) ==
    /\ odClock < MaxWrites
    /\ odClock' = odClock + 1
    /\ odParts' = IF change.kind = "part"
                  THEN SymDiff(odParts, {<<change.subject, change.object>>})
                  ELSE odParts
    /\ odTyped' = IF change.kind = "type"
                  THEN SymDiff(odTyped, {change.subject}) ELSE odTyped
    /\ odQueue' = odQueue \cup ({change.subject} \ {Root})

\* Faulty: an entry point takes the lock for the commit only.
Serialized_commit(c) == TRUE
\* lock_graph: every entry point holds the write lock over the whole call.
Serialized(c) == odWrite = Free

\* commit_with_plan without a publisher, and local_apply_bulk when the
\* diagnostics are deferred.  The commit guard covers the capture of the
\* previous diagnostics and the batch, and is dropped before they settle.
commit_with_plan(c) ==
    /\ odUp /\ odCall[c] = Idle /\ Serialized(c) /\ odCommit = Free
    /\ \E change \in Change, mode \in {"settle", "rebuild"} :
         /\ Apply(change)
         /\ odCall' = [odCall EXCEPT ![c] =
              [at |-> mode, guarded |-> FALSE,
               touches |-> touches_reachability(change),
               orphans |-> graph_diagnostics]]
    /\ odWrite' = c
    /\ UNCHANGED <<odRecord, odHidden, odCommit, odUp, odCrashes, odFailures>>

\* apply_irokle_guarded: a merged batch; the commit guard stays held.
apply_irokle_guarded(c) ==
    /\ odUp /\ odCall[c] = Idle /\ Serialized(c) /\ odCommit = Free
    /\ \E change \in Change :
         /\ Apply(change)
         /\ odCall' = [odCall EXCEPT ![c] =
              [at |-> "settle", guarded |-> TRUE,
               touches |-> touches_reachability(change),
               orphans |-> graph_diagnostics]]
    /\ odWrite' = c /\ odCommit' = c
    /\ UNCHANGED <<odRecord, odHidden, odUp, odCrashes, odFailures>>

-----------------------------------------------------------------------------
(* Settling the diagnostics.                                               *)

\* settle_diagnostics: a write that cannot change reachability restamps the
\* previous set, any other recomputes.
settle_diagnostics(c) ==
    /\ odCall[c].at = "settle"
    /\ odCall' = [odCall EXCEPT ![c].at = "publish",
                    ![c].orphans = IF odCall[c].touches
                                   THEN graph_diagnostics ELSE @]
    /\ UNCHANGED <<sourceVars, odRecord, odQueue, odHidden, odWrite, odCommit,
                   odUp, odCrashes, odFailures>>

\* rebuild_graph_diagnostics: under the commit guard, at the end of a
\* deferred write or as a call of its own, which takes no write lock.
rebuild_graph_diagnostics(c) ==
    /\ odUp /\ odCall[c].at \in {"idle", "rebuild"} /\ odCommit = Free
    /\ odCommit' = c
    /\ odCall' = [odCall EXCEPT ![c].at = "publish", ![c].guarded = TRUE,
                    ![c].orphans = graph_diagnostics]
    /\ UNCHANGED <<sourceVars, odRecord, odQueue, odHidden, odWrite, odUp,
                   odCrashes, odFailures>>

\* queue_orphan_updates: the entities whose status differs from the
\* persisted baseline are queued for search again.
queue_orphan_updates(orphans) ==
    odQueue' = odQueue \cup SymDiff(odRecord.orphans, orphans)

\* Faulty: the record is published before the re-queue commits.
publish_graph_diagnostics_first(c) ==
    /\ odCall[c].at = "publish"
    /\ odRecord' = [clock |-> odClock, orphans |-> odCall[c].orphans]
    /\ odCall' = [odCall EXCEPT ![c].at = "record"]
    /\ UNCHANGED <<sourceVars, odQueue, odHidden, odWrite, odCommit, odUp,
                   odCrashes, odFailures>>
\* publish_graph_diagnostics, first commit: re-queue against the baseline.
publish_graph_diagnostics(c) ==
    /\ odCall[c].at = "publish"
    /\ queue_orphan_updates(odCall[c].orphans)
    /\ odCall' = [odCall EXCEPT ![c].at = "record"]
    /\ UNCHANGED <<sourceVars, odRecord, odHidden, odWrite, odCommit, odUp,
                   odCrashes, odFailures>>

\* The call returns and drops its guards.
Return(c) ==
    /\ odCall' = [odCall EXCEPT ![c] = Idle]
    /\ odWrite' = IF odWrite = c THEN Free ELSE odWrite
    /\ odCommit' = IF odCommit = c THEN Free ELSE odCommit

\* Second commit, set_graph_diagnostics: the record with the clock now.
set_graph_diagnostics(c) ==
    /\ odCall[c].at = "record"
    /\ odRecord' = [clock |-> odClock, orphans |-> odCall[c].orphans]
    /\ Return(c)
    /\ UNCHANGED <<sourceVars, odQueue, odHidden, odUp, odCrashes, odFailures>>

\* Settling failed: the source stays accepted and the call reports the error.
accepted_store(c) ==
    /\ odCall[c].at \notin {"idle"} /\ odFailures < MaxFailures
    /\ odFailures' = odFailures + 1
    /\ Return(c)
    /\ UNCHANGED <<sourceVars, odRecord, odQueue, odHidden, odUp, odCrashes>>

-----------------------------------------------------------------------------
(* The search worker, crashes, and the repair at open.                     *)

\* The worker reads a queued entity and its orphan status in one snapshot.
IndexEntity(e) ==
    /\ odUp /\ e \in odQueue
    /\ odQueue' = odQueue \ {e}
    /\ odHidden' = IF e \in search_orphan_ids THEN odHidden \cup {e}
                   ELSE odHidden \ {e}
    /\ UNCHANGED <<sourceVars, odRecord, odWrite, odCommit, odCall, odUp,
                   odCrashes, odFailures>>

\* What was committed survives a crash of the process.
Crash ==
    /\ odCrashes < MaxCrashes
    /\ odCrashes' = odCrashes + 1
    /\ odUp' = FALSE
    /\ odWrite' = Free /\ odCommit' = Free
    /\ odCall' = [c \in Caller |-> Idle]
    /\ UNCHANGED <<sourceVars, odRecord, odQueue, odHidden, odFailures>>

\* Faulty: the repair records without queueing what changed.
requeue_orphan_changes_never(orphans) == UNCHANGED odQueue
\* requeue_orphan_changes: the twin of queue_orphan_updates at open.
requeue_orphan_changes(orphans) ==
    odQueue' = odQueue \cup SymDiff(odRecord.orphans, orphans)

\* repair_diagnostics with a stale record, first commit; a crash here leaves
\* the baseline, and the next open repeats the step.
RepairQueue ==
    /\ ~odUp /\ odRecord.clock # odClock
    /\ ~(SymDiff(odRecord.orphans, orphaned_entity_ids) \subseteq odQueue)
    /\ requeue_orphan_changes(orphaned_entity_ids)
    /\ UNCHANGED <<sourceVars, odRecord, odHidden, odWrite, odCommit, odCall,
                   odUp, odCrashes, odFailures>>

\* repair_diagnostics, second commit, after which the store is open.
repair_diagnostics ==
    /\ ~odUp
    /\ IF odRecord.clock = odClock THEN UNCHANGED <<odRecord, odQueue>>
       ELSE /\ requeue_orphan_changes(orphaned_entity_ids)
            /\ odRecord' = [clock |-> odClock, orphans |-> orphaned_entity_ids]
    /\ odUp' = TRUE
    /\ UNCHANGED <<sourceVars, odHidden, odWrite, odCommit, odCall, odCrashes,
                   odFailures>>

-----------------------------------------------------------------------------
Finish(c) ==
    \/ settle_diagnostics(c)
    \/ odCall[c].at = "rebuild" /\ rebuild_graph_diagnostics(c)
    \/ publish_graph_diagnostics(c) \/ set_graph_diagnostics(c)

OrphanNext ==
    \/ \E c \in Caller :
         \/ commit_with_plan(c) \/ apply_irokle_guarded(c)
         \/ settle_diagnostics(c) \/ rebuild_graph_diagnostics(c)
         \/ publish_graph_diagnostics(c) \/ set_graph_diagnostics(c)
         \/ accepted_store(c)
    \/ \E e \in Entity : IndexEntity(e)
    \/ Crash \/ RepairQueue \/ repair_diagnostics

OrphanSpec == OrphanInit /\ [][OrphanNext]_odVars

\* A call in progress runs to its end, the search worker drains its queue,
\* and a store that is down is opened.  Nobody has to write.
OrphanFairness ==
    /\ \A c \in Caller : WF_odVars(Finish(c))
    /\ \A e \in Entity : WF_odVars(IndexEntity(e))
    /\ WF_odVars(repair_diagnostics)

OrphanFairSpec == OrphanSpec /\ OrphanFairness

-----------------------------------------------------------------------------
(* Properties *)

\* Type invariant; the locks are held by callers that are in a call.
OrphanTypeOK ==
    /\ odParts \subseteq (Entity \cup {Root}) \X Entity
    /\ odTyped \subseteq Entity
    /\ odRecord.orphans \subseteq Entity /\ odRecord.clock <= odClock
    /\ odQueue \subseteq Entity /\ odHidden \subseteq Entity
    /\ \A c \in Caller : c \in {odWrite, odCommit} => odCall[c] # Idle

\* A record that readers accept, because its tag equals the clock, is the
\* orphan set of the graph as it is: no interleaving of settling calls,
\* rebuilds and crashes tags a set with a clock newer than the state it was
\* computed from (set_graph_diagnostics, compute_tagged_diagnostics).
RecordIsExact ==
    odRecord.clock = odClock => odRecord.orphans = orphaned_entity_ids

\* An entity that search shows or hides wrongly is queued, or the persisted
\* baseline still disagrees with the graph about it, so that whoever replaces
\* the baseline will queue it (publish_graph_diagnostics,
\* repair_diagnostics).  A failed settlement forfeits this.
VisibilityIsOwed ==
    odFailures = 0 =>
      SymDiff(odHidden, orphaned_entity_ids)
        \subseteq odQueue \cup SymDiff(odRecord.orphans, orphaned_entity_ids)

\* An orphan record that readers accept is exact, and an entity that search
\* shows or hides wrongly is still owed a visit.
DiagnosticsAreExact == RecordIsExact /\ VisibilityIsOwed

\* Search ends up hiding exactly the orphans, whatever crashed in between.
VisibilitySettled == odFailures > 0 \/ odHidden = orphaned_entity_ids
VisibilitySettles == <>[]VisibilitySettled

=============================================================================
