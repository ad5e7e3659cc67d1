--------------------------- MODULE MergeReplicas ---------------------------
(***************************************************************************)
(* Replicas of one graph that exchange batches and snapshots through the   *)
(* public merge API, without a sync backend: local commits, merge_batch,   *)
(* install_graph_snapshot and delete_graph.                                *)
(*                                                                         *)
(* Batches travel over whatever channel the host has: `events' holds every *)
(* batch ever handed out and any replica may be offered any of them at any *)
(* time, again and again and in any order.  Snapshots are offered late as  *)
(* well: `snaps' keeps the ones that were exported.  A replica holds the   *)
(* graph write and commit guards over a whole operation, and its writes    *)
(* are one atomic store batch, so each operation is one action.            *)
(***************************************************************************)
EXTENDS ORSet, FiniteSets

CONSTANTS Replica,     \* the nodes; a node authors events in its own name
          ChangeSets,  \* the change sets that callers submit
          MaxEvents,   \* bound on the events authored
          MaxSnaps     \* bound on the snapshots exported

ASSUME ReplicaAssumption == Replica \subseteq Actor

ASSUME ChangeSetsAssumption == ChangeSets \subseteq Seq(MaterializedQuadChange)

ASSUME BoundAssumption == MaxEvents \in Nat /\ MaxSnaps \in Nat

\* Callers that build batches themselves, with Batch::from_changes.
Author == Actor \ Replica

VARIABLES clock,   \* per replica, the stored vector clock of the graph
          dots,    \* per replica, the stored dots of every quad
          head,    \* per actor, the log head: the last counter it used
          tomb,    \* the replicas that hold a tombstone of the graph
          events,  \* every batch handed out
          snaps    \* every snapshot exported

vars == <<clock, dots, head, tomb, events, snaps>>

Snapshot == [clock : VectorClock, dots : QuadState]

TypeOK ==
    /\ clock \in [Replica -> VectorClock]
    /\ dots \in [Replica -> QuadState]
    /\ head \in [Actor -> Nat]
    /\ tomb \subseteq Replica
    /\ events \subseteq Batch
    /\ snaps \subseteq Snapshot

Init ==
    /\ clock = [r \in Replica |-> NoEvents]
    /\ dots = [r \in Replica |-> Empty]
    /\ head = [a \in Actor |-> 0]
    /\ tomb = {}
    /\ events = {}
    /\ snaps = {}

-----------------------------------------------------------------------------

\* Faulty: the counter of the log head is used again.
CommitBatch_head_counter(r, changes) ==
    from_changes(r, head[r], clock[r], changes)

\* The batch of a local commit.  Its deletes witness the clock that already
\* includes the commit's own event, its base is the clock before.
CommitBatch(r, changes) ==
    LET counter == head[r] + 1
        dot     == [actor |-> r, counter |-> counter]
        after   == advance(clock[r], r, counter)
    IN  [actor |-> r, counter |-> counter, base |-> clock[r],
         ops |-> [i \in DOMAIN changes |-> QuadOpOf(changes[i], dot, after)]]

\* Faulty: the log head is not written.
CommitLocal_stale_head(r, changes) ==
    /\ r \notin tomb
    /\ Cardinality(events) < MaxEvents
    /\ LET batch == CommitBatch(r, changes) IN
       /\ dots' = [dots EXCEPT ![r] = ApplyOps(@, batch.ops)]
       /\ clock' = [clock EXCEPT ![r] = advance(@, r, batch.counter)]
       /\ events' = events \cup {batch}
    /\ UNCHANGED <<head, tomb, snaps>>

\* A local write: a fresh counter from the log head, the operations, the clock
\* and the log head in one store batch; the caller gets the replication batch.
CommitLocal(r, changes) ==
    /\ r \notin tomb
    /\ Cardinality(events) < MaxEvents
    /\ LET batch == CommitBatch(r, changes) IN
       /\ dots' = [dots EXCEPT ![r] = ApplyOps(@, batch.ops)]
       /\ clock' = [clock EXCEPT ![r] = advance(@, r, batch.counter)]
       /\ head' = [head EXCEPT ![r] = batch.counter]
       /\ events' = events \cup {batch}
    /\ UNCHANGED <<tomb, snaps>>

\* A caller builds an event of its own against the clock of a replica that has
\* all of its earlier events.  The caller supplies a fresh counter.
AuthorBatch(a, r, changes) ==
    /\ Cardinality(events) < MaxEvents
    /\ clock[r][a] = head[a]
    /\ head' = [head EXCEPT ![a] = @ + 1]
    /\ events' = events \cup {from_changes(a, head[a] + 1, clock[r], changes)}
    /\ UNCHANGED <<clock, dots, tomb, snaps>>

\* Faulty: a batch that was already applied is applied again.
MergeBatch_replays(r, batch) ==
    /\ check_batch(batch)
    /\ check_causal_base(batch, clock[r])
    /\ r \notin tomb
    /\ dots' = [dots EXCEPT ![r] = ApplyOps(@, batch.ops)]
    /\ clock' = [clock EXCEPT ![r] = advance(@, batch.actor, batch.counter)]
    /\ UNCHANGED <<head, tomb, events, snaps>>

\* A batch is merged when it is well formed, causally ready and not yet
\* covered by the clock.  In every other case the store is left as it is.
MergeBatch(r, batch) ==
    /\ check_batch(batch)
    /\ check_causal_base(batch, clock[r])
    /\ r \notin tomb
    /\ ~contains(clock[r], EventDot(batch))
    /\ dots' = [dots EXCEPT ![r] = ApplyOps(@, batch.ops)]
    /\ clock' = [clock EXCEPT ![r] = advance(@, batch.actor, batch.counter)]
    /\ UNCHANGED <<head, tomb, events, snaps>>

\* The host takes a snapshot of a replica to hand it to another one.
ExportSnapshot(r) ==
    /\ Cardinality(snaps) < MaxSnaps
    /\ snaps' = snaps \cup {[clock |-> clock[r], dots |-> dots[r]]}
    /\ UNCHANGED <<clock, dots, head, tomb, events>>

\* Faulty: the snapshot's clock replaces the stored one.
InstallSnapshot_replaces_clock(r, snap) ==
    /\ check_snapshot(snap)
    /\ r \notin tomb
    /\ dots' = [dots EXCEPT ![r] = join_snapshot(@, clock[r], snap)]
    /\ clock' = [clock EXCEPT ![r] = snap.clock]
    /\ UNCHANGED <<head, tomb, events, snaps>>

\* The snapshot is joined into the store, quad by quad, and its clock merged.
InstallSnapshot(r, snap) ==
    /\ check_snapshot(snap)
    /\ r \notin tomb
    /\ dots' = [dots EXCEPT ![r] = join_snapshot(@, clock[r], snap)]
    /\ clock' = [clock EXCEPT ![r] = merge(@, snap.clock)]
    /\ UNCHANGED <<head, tomb, events, snaps>>

\* Deletion leaves a permanent tombstone and drops quads, clock and log heads.
DeleteGraph(r) ==
    /\ r \notin tomb
    /\ tomb' = tomb \cup {r}
    /\ dots' = [dots EXCEPT ![r] = Empty]
    /\ clock' = [clock EXCEPT ![r] = NoEvents]
    /\ head' = [head EXCEPT ![r] = 0]
    /\ UNCHANGED <<events, snaps>>

Next ==
    \/ \E r \in Replica, changes \in ChangeSets : CommitLocal(r, changes)
    \/ \E a \in Author, r \in Replica, changes \in ChangeSets : AuthorBatch(a, r, changes)
    \/ \E r \in Replica, batch \in events : MergeBatch(r, batch)
    \/ \E r \in Replica : ExportSnapshot(r)
    \/ \E r \in Replica, snap \in snaps : InstallSnapshot(r, snap)
    \/ \E r \in Replica : DeleteGraph(r)

Spec == Init /\ [][Next]_vars

\* The host goes on offering the batches it holds, and a replica goes on merging as
\* long as it can merge one of them.
HostOffers == \A r \in Replica : WF_vars(\E batch \in events : MergeBatch(r, batch))

FairSpec == Spec /\ HostOffers

\* A node whose store was lost is opened again on an empty directory, under the
\* same actor id, and filled with a snapshot that covers every event it authored.
ReplaceStore(r, snap) ==
    /\ check_snapshot(snap)
    /\ r \notin tomb
    /\ snap.clock[r] = head[r]
    /\ dots' = [dots EXCEPT ![r] = join_snapshot(Empty, NoEvents, snap)]
    /\ clock' = [clock EXCEPT ![r] = merge(NoEvents, snap.clock)]
    /\ head' = [head EXCEPT ![r] = 0]
    /\ UNCHANGED <<tomb, events, snaps>>

ReplaceSpec ==
    Init /\ [][Next \/ \E r \in Replica, snap \in snaps : ReplaceStore(r, snap)]_vars

-----------------------------------------------------------------------------
(* Properties.                                                             *)

\* What the events of a history that a clock covers leave on a quad: the dots
\* one of them added and no other removed, in whatever order they were applied.
Reduction(history, seen, quad) ==
    LET known == {e \in history : contains(seen, EventDot(e))} IN
    {d \in {EventDot(e) : e \in known} :
        /\ \E e \in known : d \in NewDots(e.ops, quad)
        /\ \A e \in known : EventDot(e) # d => KeptAfter(e.ops, 0, quad, d)}

\* The stored dots of every replica, and of every snapshot, are exactly what
\* the history their clock covers leaves: apply_single_batch, the local commit
\* and join_snapshot all compute the same OR-Set, in any order of delivery.
StoreIsReduction ==
    /\ \A r \in Replica, q \in Quad : dots[r][q] = Reduction(events, clock[r], q)
    /\ \A s \in snaps, q \in Quad : s.dots[q] = Reduction(events, s.clock, q)

\* A clock covers, with every event, all that the event depends on.
Closed(history, seen) ==
    \A e \in history :
        contains(seen, EventDot(e)) => \A a \in Actor : e.base[a] <= seen[a]

\* No replica and no snapshot is ahead of its causal past: a vector clock names
\* the applied events exactly, which merge_batch relies on to detect repeats.
CausallyClosed ==
    /\ \A r \in Replica : Closed(events, clock[r])
    /\ \A s \in snaps : Closed(events, s.clock)

\* Replicas that have seen the same events hold the same quads, with the same
\* dots, whichever batches and snapshots brought those events.
Convergence ==
    \A r, s \in Replica : clock[r] = clock[s] => dots[r] = dots[s]

\* An operation never brings back a dot that the replica has already seen and
\* dropped: a removed insert stays removed under replays and stale snapshots.
NoResurrection ==
    [][\A r \in Replica, q \in Quad :
          \A d \in dots'[r][q] \ dots[r][q] : ~contains(clock[r], d)]_vars

\* What a replica has seen it keeps having seen, until the graph is deleted;
\* and a deleted graph never has a quad again.
SeenIsKept ==
    [][\A r \in Replica :
          \/ r \in tomb' /\ dots'[r] = Empty
          \/ r \notin tomb /\ \A a \in Actor : clock[r][a] <= clock'[r][a]]_vars

(* The inductive invariant behind these properties.                        *)

\* An event follows its author's previous one, its adds carry its own dot, and
\* its removes witness nothing beyond its base and itself.
EventOK(e) ==
    /\ e.base[e.actor] + 1 = e.counter
    /\ \A i \in DOMAIN e.ops :
          /\ e.ops[i].op = "Add" => e.ops[i].dot = EventDot(e)
          /\ e.ops[i].op = "Remove" =>
                \A a \in Actor :
                    e.ops[i].witnessed[a] <= IF a = e.actor THEN e.counter ELSE e.base[a]

HistoryOK(history) ==
    /\ \A e \in history : EventOK(e)
    /\ \A e, f \in history : EventDot(e) = EventDot(f) => e = f

\* While an actor can still author events, nobody has seen a counter beyond its
\* log head, and a node has seen all of its own events.
FreshCounters ==
    /\ \A a \in Actor \ tomb :
          /\ \A r \in Replica : clock[r][a] <= head[a]
          /\ \A s \in snaps : s.clock[a] <= head[a]
          /\ \A e \in events : e.actor = a => e.counter <= head[a]
    /\ \A r \in Replica \ tomb : clock[r][r] = head[r]

\* What every operation of the merge API preserves, taken together.
Inv ==
    /\ TypeOK
    /\ HistoryOK(events)
    /\ CausallyClosed
    /\ FreshCounters
    /\ StoreIsReduction

-----------------------------------------------------------------------------
\* An event and all it depends on are well formed, so nothing but delivery
\* stands between them and a replica.
Mergeable(dot) ==
    \E e \in events :
        /\ EventDot(e) = dot
        /\ \A f \in events : f = e \/ contains(e.base, EventDot(f)) => check_batch(f)

\* The causal check never wedges delivery: in the end every such event has reached
\* every replica that keeps the graph, however the batches are reordered and repeated.
Delivery ==
    <>[](\A r \in Replica, a \in Actor, n \in 1 .. MaxEvents :
            Mergeable([actor |-> a, counter |-> n]) => r \in tomb \/ clock[r][a] >= n)

\* Every batch that a commit hands out can be merged by its peers: "the unit of
\* replication".  The batch of a local delete cannot.
UnitOfReplication == \A e \in events : check_batch(e)

=============================================================================
