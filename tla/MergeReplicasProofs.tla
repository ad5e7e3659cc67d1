------------------------ MODULE MergeReplicasProofs ------------------------
(***************************************************************************)
(* Proofs about MergeReplicas, for any number of nodes, callers, quads and *)
(* events: the invariant Inv is inductive, and the properties follow.      *)
(***************************************************************************)
EXTENDS MergeReplicas, SequenceTheorems, TLAPS

-----------------------------------------------------------------------------
(* Facts about single events.                                              *)

\* Batch::from_changes and the local commit: an event adds only its own dot.
LEMMA NewDotIsOwn ==
    ASSUME NEW e \in Batch, EventOK(e), NEW q, NEW d \in NewDots(e.ops, q)
    PROVE  d = EventDot(e)
BY Zenon DEF NewDots, Adds, EventOK

\* check_batch and the local commit: an event that a causally closed clock
\* covers removes only dots that the clock covers as well.
LEMMA KillsOnlySeen ==
    ASSUME NEW history \in SUBSET Batch, HistoryOK(history),
           NEW seen \in VectorClock, Closed(history, seen),
           NEW e \in history, contains(seen, EventDot(e)),
           NEW q, NEW d \in Dot, ~KeptAfter(e.ops, 0, q, d)
    PROVE  contains(seen, d)
<1>1. PICK i \in DOMAIN e.ops : Kills(e.ops[i], q, d)
  BY Zenon DEF KeptAfter
<1>2. e \in Batch /\ EventOK(e) /\ e.ops[i] \in QuadOp
  BY DEF HistoryOK, Batch
<1>3. e.ops[i].op = "Remove" /\ e.ops[i].witnessed \in VectorClock
  BY <1>1, <1>2, Zenon DEF Kills, QuadOp
<1>4. e.ops[i].witnessed[d.actor] >= d.counter
  BY <1>1, Zenon DEF Kills, contains
<1>5. e.ops[i].witnessed[d.actor] <= IF d.actor = e.actor THEN e.counter ELSE e.base[d.actor]
  BY <1>2, <1>3, Zenon DEF EventOK, Dot
<1>6. e.base[d.actor] <= seen[d.actor] /\ e.counter <= seen[e.actor]
  BY <1>2, Zenon DEF Closed, Dot, contains, EventDot, Batch, VectorClock
<1> QED
  BY <1>2, <1>3, <1>4, <1>5, <1>6 DEF contains, Dot, Batch, VectorClock

\* Membership in the reduction, unfolded.
LEMMA InReduction ==
    ASSUME NEW history \in SUBSET Batch, HistoryOK(history),
           NEW seen, NEW q, NEW d
    PROVE  d \in Reduction(history, seen, q)
             <=> \E e \in history :
                    /\ contains(seen, EventDot(e))
                    /\ d = EventDot(e)
                    /\ d \in NewDots(e.ops, q)
                    /\ \A f \in history :
                          contains(seen, EventDot(f)) /\ f # e => KeptAfter(f.ops, 0, q, d)
<1>1. \A e \in history : d \in NewDots(e.ops, q) => d = EventDot(e)
  BY NewDotIsOwn, Zenon DEF HistoryOK
<1>2. \A e, f \in history : EventDot(e) = EventDot(f) <=> e = f
  BY Zenon DEF HistoryOK
<1> QED
  BY <1>1, <1>2, ZenonT(30) DEF Reduction

-----------------------------------------------------------------------------
(* How the reduction changes with the history and the clock.               *)

\* An event that a clock does not cover changes nothing for that clock.
LEMMA UncoveredEvent ==
    ASSUME NEW history, NEW seen, NEW b, ~contains(seen, EventDot(b))
    PROVE  /\ \A q : Reduction(history \cup {b}, seen, q) = Reduction(history, seen, q)
           /\ Closed(history, seen) => Closed(history \cup {b}, seen)
<1>1. {e \in history \cup {b} : contains(seen, EventDot(e))}
        = {e \in history : contains(seen, EventDot(e))}
  BY Zenon
<1> QED
  BY <1>1, Zenon DEF Reduction, Closed

\* apply_single_batch and the local commit: applying the operations of the next
\* event of some actor, whose base is covered, yields the reduction at the
\* advanced clock, and that clock is causally closed again.
LEMMA ApplyNextEvent ==
    ASSUME NEW history \in SUBSET Batch, NEW b \in history, HistoryOK(history),
           NEW seen \in VectorClock, Closed(history, seen),
           ~contains(seen, EventDot(b)),
           \A a \in Actor : b.base[a] <= seen[a]
    PROVE  LET after == advance(seen, b.actor, b.counter) IN
           /\ after \in VectorClock
           /\ Closed(history, after)
           /\ \A q \in Quad :
                Reduction(history, after, q)
                  = {d \in Reduction(history, seen, q) : KeptAfter(b.ops, 0, q, d)}
                      \cup NewDots(b.ops, q)
<1> DEFINE after == advance(seen, b.actor, b.counter)
<1>1. b.actor \in Actor /\ b.counter \in Nat \ {0} /\ b.base \in VectorClock /\ b \in Batch
  BY Zenon DEF Batch
<1>2. seen[b.actor] + 1 = b.counter
  <2>1. b.base[b.actor] + 1 = b.counter
    BY Zenon DEF HistoryOK, EventOK
  <2>2. b.base[b.actor] <= seen[b.actor]
    BY <1>1, Zenon
  <2>3. ~(seen[b.actor] >= b.counter)
    BY Zenon DEF contains, EventDot
  <2>4. b.base[b.actor] \in Nat /\ seen[b.actor] \in Nat
    BY <1>1, Zenon DEF VectorClock
  <2> QED
    BY <1>1, <2>1, <2>2, <2>3, <2>4
<1>3. after \in VectorClock /\ \A a \in Actor : seen[a] <= after[a]
  BY <1>1 DEF advance, VectorClock
<1>4. \A e \in history : contains(after, EventDot(e)) <=> contains(seen, EventDot(e)) \/ e = b
  <2> SUFFICES ASSUME NEW e \in history
               PROVE contains(after, EventDot(e)) <=> contains(seen, EventDot(e)) \/ e = b
    BY Zenon
  <2>1. e.actor \in Actor /\ e.counter \in Nat
    BY Zenon DEF Batch
  <2>2. EventDot(e) = EventDot(b) => e = b
    BY Zenon DEF HistoryOK
  <2>3. CASE e.actor = b.actor
    BY <1>1, <1>2, <2>1, <2>2, <2>3 DEF contains, EventDot, advance, VectorClock
  <2>4. CASE e.actor # b.actor
    BY <1>1, <2>1, <2>4, Zenon DEF contains, EventDot, advance, VectorClock
  <2> QED
    BY <2>3, <2>4, Zenon
<1>5. Closed(history, after)
  <2> SUFFICES ASSUME NEW e \in history, contains(after, EventDot(e)), NEW a \in Actor
               PROVE  e.base[a] <= after[a]
    BY Zenon DEF Closed
  <2>1. e.base[a] <= seen[a]
    BY <1>4, Zenon DEF Closed
  <2>2. e.base[a] \in Nat /\ seen[a] \in Nat /\ after[a] \in Nat /\ seen[a] <= after[a]
    BY <1>3, Zenon DEF Batch, VectorClock
  <2> QED
    BY <2>1, <2>2
<1>6. ASSUME NEW q \in Quad
      PROVE  Reduction(history, after, q)
               = {d \in Reduction(history, seen, q) : KeptAfter(b.ops, 0, q, d)}
                   \cup NewDots(b.ops, q)
  <2>1. \A d \in NewDots(b.ops, q) : d = EventDot(b)
    BY NewDotIsOwn, <1>1, Zenon DEF HistoryOK
  <2>2. EventDot(b) \in Dot
    BY <1>1, Zenon DEF EventDot, Dot
  <2>3. \A f \in history :
          contains(seen, EventDot(f)) => KeptAfter(f.ops, 0, q, EventDot(b))
    BY KillsOnlySeen, <2>2, Zenon
  <2>4. ASSUME NEW d
        PROVE  d \in Reduction(history, after, q)
                 <=> \/ d \in Reduction(history, seen, q) /\ KeptAfter(b.ops, 0, q, d)
                     \/ d \in NewDots(b.ops, q)
    <3>1. CASE d = EventDot(b)
      <4>1. d \notin Reduction(history, seen, q)
        BY <3>1, InReduction, Zenon
      <4>2. d \in Reduction(history, after, q) <=> d \in NewDots(b.ops, q)
        <5>1. d \in Reduction(history, after, q)
                 <=> \E e \in history :
                    /\ contains(after, EventDot(e))
                    /\ d = EventDot(e)
                    /\ d \in NewDots(e.ops, q)
                    /\ \A f \in history :
                          contains(after, EventDot(f)) /\ f # e => KeptAfter(f.ops, 0, q, d)
          BY InReduction
        <5>2. \A e \in history : d = EventDot(e) => e = b
          BY <3>1, Zenon DEF HistoryOK
        <5> QED
          BY <5>1, <5>2, <3>1, <1>4, <2>3, Zenon
      <4> QED
        BY <4>1, <4>2, Zenon
    <3>2. CASE d # EventDot(b)
      <4>1. d \notin NewDots(b.ops, q)
        BY <3>2, <2>1, Zenon
      <4>2. \A e \in history : d = EventDot(e) => e # b
        BY <3>2, Zenon
      <4> QED
        BY <4>1, <4>2, <1>4, InReduction
    <3> QED
      BY <3>1, <3>2, Zenon
  <2> QED
    BY <2>4, Zenon
<1> QED
  BY <1>3, <1>5, <1>6, Zenon

\* join_snapshot: staging the adds, one remove over the dropped dots and the
\* restores leaves exactly the dots that join_dots keeps.
LEMMA StagedJoinIsJoin ==
    ASSUME NEW local \in SUBSET Dot, NEW remote \in SUBSET Dot, NEW here, NEW there
    PROVE  StagedJoin(local, remote, here, there) = join_dots(local, remote, here, there)
<1> DEFINE joined == join_dots(local, remote, here, there)
<1>1. \A d \in local \ joined : CoveredBy(local \ joined, d)
  BY DEF CoveredBy, Dot
<1>2. StagedJoin(local, remote, here, there)
        = {d \in local \cup joined : ~CoveredBy(local \ joined, d)}
            \cup {d \in joined : CoveredBy(local \ joined, d)}
  BY Zenon DEF StagedJoin
<1> HIDE DEF joined
<1> QED
  BY <1>1, <1>2, Zenon DEF joined

\* join_snapshot: joining two reductions of one history gives its reduction at
\* the merged clock.  A dot one side lacks although its clock covers it was
\* removed there; one its clock does not cover was never seen there.
LEMMA JoinOfReductions ==
    ASSUME NEW history \in SUBSET Batch, HistoryOK(history),
           NEW here \in VectorClock, Closed(history, here),
           NEW there \in VectorClock, Closed(history, there)
    PROVE  LET after == merge(here, there) IN
           /\ after \in VectorClock
           /\ Closed(history, after)
           /\ \A q \in Quad :
                Reduction(history, after, q)
                  = join_dots(Reduction(history, here, q), Reduction(history, there, q),
                              here, there)
<1> DEFINE after == merge(here, there)
<1>1. after \in VectorClock /\ \A a \in Actor : here[a] <= after[a] /\ there[a] <= after[a]
  BY DEF merge, VectorClock
<1>2. \A d \in Dot : contains(after, d) <=> contains(here, d) \/ contains(there, d)
  BY DEF merge, VectorClock, contains, Dot
<1>3. \A e \in history : EventDot(e) \in Dot
  BY Zenon DEF EventDot, Dot, Batch
<1>4. Closed(history, after)
  <2> SUFFICES ASSUME NEW e \in history, contains(after, EventDot(e)), NEW a \in Actor
               PROVE  e.base[a] <= after[a]
    BY Zenon DEF Closed
  <2>1. e.base[a] <= here[a] \/ e.base[a] <= there[a]
    BY <1>2, <1>3, Zenon DEF Closed
  <2>2. e.base[a] \in Nat /\ here[a] \in Nat /\ there[a] \in Nat /\ after[a] \in Nat
          /\ here[a] <= after[a] /\ there[a] <= after[a]
    BY <1>1, Zenon DEF Batch, VectorClock
  <2> QED
    BY <2>1, <2>2
<1>5. ASSUME NEW q \in Quad, NEW d
      PROVE  d \in Reduction(history, after, q)
               <=> d \in join_dots(Reduction(history, here, q), Reduction(history, there, q),
                                   here, there)
  <2> DEFINE In(seen) ==
        \E e \in history :
           /\ contains(seen, EventDot(e))
           /\ d = EventDot(e)
           /\ d \in NewDots(e.ops, q)
           /\ \A f \in history :
                 contains(seen, EventDot(f)) /\ f # e => KeptAfter(f.ops, 0, q, d)
  <2>1. /\ d \in Reduction(history, after, q) <=> In(after)
        /\ d \in Reduction(history, here, q) <=> In(here)
        /\ d \in Reduction(history, there, q) <=> In(there)
    BY InReduction, Zenon
  <2>2. CASE \E e \in history : d = EventDot(e)
    <3>1. PICK e \in history : d = EventDot(e)
      BY <2>2, Zenon
    <3>2. d \in Dot /\ \A f \in history : d = EventDot(f) => f = e
      BY <3>1, <1>3, Zenon DEF HistoryOK
    <3>3. /\ ~contains(here, d) => \A f \in history :
                contains(here, EventDot(f)) => KeptAfter(f.ops, 0, q, d)
          /\ ~contains(there, d) => \A f \in history :
                contains(there, EventDot(f)) => KeptAfter(f.ops, 0, q, d)
      BY <3>2, KillsOnlySeen, Zenon
    <3>4. /\ In(after) => contains(after, d)
          /\ In(here) => contains(here, d)
          /\ In(there) => contains(there, d)
      BY Zenon
    <3>5. In(after) <=> \/ In(here) /\ In(there)
                        \/ In(here) /\ ~contains(there, d)
                        \/ In(there) /\ ~contains(here, d)
      BY <3>1, <3>2, <3>3, <1>2, <1>3, Zenon
    <3> QED
      BY <2>1, <3>4, <3>5, Zenon DEF join_dots
  <2>3. CASE ~\E e \in history : d = EventDot(e)
    BY <2>1, <2>3, Zenon DEF join_dots
  <2> QED
    BY <2>2, <2>3, Zenon
<1>6. ASSUME NEW q \in Quad
      PROVE Reduction(history, after, q)
              = join_dots(Reduction(history, here, q), Reduction(history, there, q), here, there)
  BY <1>5, Zenon
<1> QED
  BY <1>1, <1>4, <1>6, Zenon

-----------------------------------------------------------------------------
(* The events that callers create.                                         *)

\* The operations of a change set form a sequence of operations.
LEMMA OpsType ==
    ASSUME NEW changes \in ChangeSets, NEW dot \in Dot, NEW witnessed \in VectorClock
    PROVE  [i \in DOMAIN changes |-> QuadOpOf(changes[i], dot, witnessed)] \in Seq(QuadOp)
<1>1. changes \in Seq(MaterializedQuadChange)
  BY ChangeSetsAssumption, Zenon
<1>2. Len(changes) \in Nat /\ DOMAIN changes = 1 .. Len(changes)
  BY <1>1
<1>3. \A i \in DOMAIN changes : changes[i] \in MaterializedQuadChange
  BY <1>1, <1>2
<1>4. \A i \in DOMAIN changes : QuadOpOf(changes[i], dot, witnessed) \in QuadOp
  BY <1>3, Zenon DEF QuadOpOf, QuadOp, MaterializedQuadChange
<1>5. [i \in DOMAIN changes |-> QuadOpOf(changes[i], dot, witnessed)]
        \in [1 .. Len(changes) -> QuadOp]
  BY <1>2, <1>4, Zenon
<1> QED
  BY <1>2, <1>5, SeqDef

\* Batch::from_changes builds an admissible event for a fresh counter.
LEMMA FromChangesOK ==
    ASSUME NEW a \in Actor, NEW base \in VectorClock, NEW changes \in ChangeSets
    PROVE  LET b == from_changes(a, base[a] + 1, base, changes) IN
           /\ b \in Batch
           /\ EventOK(b)
           /\ b.actor = a /\ b.counter = base[a] + 1 /\ b.base = base
<1> DEFINE dot == [actor |-> a, counter |-> base[a] + 1]
           b == from_changes(a, base[a] + 1, base, changes)
<1>1. base[a] \in Nat /\ base[a] + 1 \in Nat \ {0} /\ dot \in Dot
  BY DEF VectorClock, Dot
<1>2. b.ops = [i \in DOMAIN changes |-> QuadOpOf(changes[i], dot, base)]
        /\ b.actor = a /\ b.counter = base[a] + 1 /\ b.base = base
  BY Zenon DEF from_changes
<1>3. b \in Batch
  <2>1. [i \in DOMAIN changes |-> QuadOpOf(changes[i], dot, base)] \in Seq(QuadOp)
    BY <1>1, OpsType, Zenon
  <2> QED
    BY <1>1, <2>1, Zenon DEF from_changes, Batch
<1>4. ASSUME NEW i \in DOMAIN b.ops
      PROVE  /\ b.ops[i].op = "Add" => b.ops[i].dot = EventDot(b)
             /\ b.ops[i].op = "Remove" => b.ops[i].witnessed = base
  BY <1>2 DEF QuadOpOf, EventDot
<1>5. \A c \in Actor : base[c] <= IF c = b.actor THEN b.counter ELSE b.base[c]
  BY <1>1, <1>2 DEF VectorClock
<1>6. EventOK(b)
  BY <1>2, <1>4, <1>5, Zenon DEF EventOK
<1> QED
  BY <1>2, <1>3, <1>6, Zenon

\* The local commit builds an admissible event as well, although its deletes
\* witness the advanced clock.
LEMMA CommitBatchOK ==
    ASSUME Inv, NEW r \in Replica \ tomb, NEW changes \in ChangeSets
    PROVE  LET b == CommitBatch(r, changes) IN
           /\ b \in Batch
           /\ EventOK(b)
           /\ b.actor = r /\ b.counter = head[r] + 1 /\ b.base = clock[r]
<1> DEFINE dot   == [actor |-> r, counter |-> head[r] + 1]
           after == advance(clock[r], r, head[r] + 1)
           b     == CommitBatch(r, changes)
<1>1. r \in Actor /\ clock[r] \in VectorClock /\ head[r] \in Nat /\ clock[r][r] = head[r]
  BY ReplicaAssumption, Zenon DEF Inv, TypeOK, FreshCounters
<1>2. dot \in Dot /\ after \in VectorClock /\ head[r] + 1 \in Nat \ {0}
  BY <1>1 DEF Dot, advance, VectorClock
<1>3. b.ops = [i \in DOMAIN changes |-> QuadOpOf(changes[i], dot, after)]
        /\ b.actor = r /\ b.counter = head[r] + 1 /\ b.base = clock[r]
  BY Zenon DEF CommitBatch
<1>4. b \in Batch
  <2>1. [i \in DOMAIN changes |-> QuadOpOf(changes[i], dot, after)] \in Seq(QuadOp)
    BY <1>2, OpsType, Zenon
  <2> QED
    BY <1>1, <1>2, <2>1, Zenon DEF CommitBatch, Batch
<1>5. ASSUME NEW i \in DOMAIN b.ops
      PROVE  /\ b.ops[i].op = "Add" => b.ops[i].dot = EventDot(b)
             /\ b.ops[i].op = "Remove" => b.ops[i].witnessed = after
  BY <1>3 DEF QuadOpOf, EventDot
<1>6. \A c \in Actor : after[c] <= IF c = b.actor THEN b.counter ELSE b.base[c]
  BY <1>1, <1>2, <1>3 DEF VectorClock, advance
<1>7. EventOK(b)
  BY <1>1, <1>3, <1>5, <1>6, Zenon DEF EventOK
<1> QED
  BY <1>3, <1>4, <1>7, Zenon

\* ApplyOps keeps quad states well typed.
LEMMA ApplyOpsType ==
    ASSUME NEW state \in QuadState, NEW b \in Batch, EventOK(b)
    PROVE  ApplyOps(state, b.ops) \in QuadState
<1>1. \A q \in Quad : NewDots(b.ops, q) \subseteq Dot
  <2>1. EventDot(b) \in Dot
    BY Zenon DEF EventDot, Dot, Batch
  <2>2. \A q \in Quad : \A d \in NewDots(b.ops, q) : d = EventDot(b)
    BY NewDotIsOwn, Zenon
  <2> QED
    BY <2>1, <2>2, Zenon
<1> QED
  BY <1>1, Zenon DEF ApplyOps, QuadState

\* join_snapshot keeps quad states well typed.
LEMMA JoinType ==
    ASSUME NEW state \in QuadState, NEW here, NEW snap \in Snapshot
    PROVE  /\ join_snapshot(state, here, snap) \in QuadState
           /\ \A q \in Quad : join_snapshot(state, here, snap)[q]
                              = join_dots(state[q], snap.dots[q], here, snap.clock)
<1>1. \A q \in Quad : state[q] \in SUBSET Dot /\ snap.dots[q] \in SUBSET Dot
  BY Zenon DEF QuadState, Snapshot
<1>2. \A q \in Quad : StagedJoin(state[q], snap.dots[q], here, snap.clock)
                        = join_dots(state[q], snap.dots[q], here, snap.clock)
  BY <1>1, StagedJoinIsJoin, Zenon
<1>3. \A q \in Quad : join_dots(state[q], snap.dots[q], here, snap.clock) \in SUBSET Dot
  BY <1>1, Zenon DEF join_dots
<1> QED
  BY <1>2, <1>3, Zenon DEF join_snapshot, QuadState

-----------------------------------------------------------------------------
(* The invariant.                                                          *)

\* The empty stores of fresh nodes satisfy the invariant.
LEMMA InitInv == Init => Inv
<1> SUFFICES ASSUME Init PROVE Inv
  BY Zenon
<1> USE DEF Init
<1>1. TypeOK
  BY Zenon DEF TypeOK, VectorClock, NoEvents, QuadState, Empty
<1>2. HistoryOK(events) /\ CausallyClosed
  BY Zenon DEF HistoryOK, CausallyClosed, Closed
<1>3. FreshCounters
  BY ReplicaAssumption DEF FreshCounters, NoEvents
<1>4. StoreIsReduction
  BY Zenon DEF StoreIsReduction, Reduction, Empty
<1> QED
  BY <1>1, <1>2, <1>3, <1>4, Zenon DEF Inv

\* A fresh event extends the history without touching what others hold: used
\* for local commits and for callers that author batches.
LEMMA FreshEvent ==
    ASSUME Inv, NEW b \in Batch, EventOK(b), b.actor \notin tomb,
           b.counter = head[b.actor] + 1
    PROVE  /\ HistoryOK(events \cup {b})
           /\ \A r \in Replica : ~contains(clock[r], EventDot(b))
           /\ \A s \in snaps : ~contains(s.clock, EventDot(b))
<1>1. b.actor \in Actor \ tomb /\ head[b.actor] \in Nat
  BY Zenon DEF Inv, TypeOK, Batch
<1>2. \A r \in Replica : clock[r][b.actor] \in Nat /\ clock[r][b.actor] <= head[b.actor]
  BY <1>1, Zenon DEF Inv, TypeOK, FreshCounters, VectorClock
<1>3. \A s \in snaps : s.clock[b.actor] \in Nat /\ s.clock[b.actor] <= head[b.actor]
  BY <1>1, Zenon DEF Inv, TypeOK, FreshCounters, VectorClock, Snapshot
<1>4. \A e \in events : e.counter \in Nat /\ (e.actor = b.actor => e.counter <= head[b.actor])
  BY <1>1, Zenon DEF Inv, TypeOK, FreshCounters, Batch
<1>5. \A e \in events : EventDot(e) # EventDot(b)
  BY <1>1, <1>4 DEF EventDot
<1>6. HistoryOK(events \cup {b})
  BY <1>5, Zenon DEF Inv, HistoryOK
<1> QED
  BY <1>1, <1>2, <1>3, <1>6 DEF contains, EventDot

\* Every operation preserves the type invariant.
LEMMA TypeStep == Inv /\ [Next]_vars => TypeOK'
<1> SUFFICES ASSUME Inv, [Next]_vars PROVE TypeOK'
  BY Zenon
<1> USE DEF Inv, TypeOK
<1>1. ASSUME NEW r \in Replica, NEW changes \in ChangeSets, CommitLocal(r, changes)
      PROVE  TypeOK'
  <2> DEFINE b == CommitBatch(r, changes)
  <2>1. r \in Replica \ tomb /\ r \in Actor
    BY <1>1, ReplicaAssumption, Zenon DEF CommitLocal
  <2>2. b \in Batch /\ EventOK(b) /\ b.counter \in Nat
    BY <2>1, CommitBatchOK, Zenon DEF Batch
  <2>3. ApplyOps(dots[r], b.ops) \in QuadState
    BY <2>2, ApplyOpsType, Zenon
  <2>4. advance(clock[r], r, b.counter) \in VectorClock
    BY <2>1, <2>2, Zenon DEF advance, VectorClock
  <2> HIDE DEF b
  <2> QED
    BY <1>1, <2>1, <2>2, <2>3, <2>4, Zenon DEF CommitLocal, b
<1>2. ASSUME NEW a \in Author, NEW r \in Replica, NEW changes \in ChangeSets,
             AuthorBatch(a, r, changes)
      PROVE  TypeOK'
  <2>1. a \in Actor /\ clock[r][a] = head[a]
    BY <1>2, Zenon DEF AuthorBatch, Author
  <2>2. from_changes(a, head[a] + 1, clock[r], changes) \in Batch
    BY <2>1, FromChangesOK, Zenon
  <2> QED
    BY <1>2, <2>1, <2>2 DEF AuthorBatch
<1>3. ASSUME NEW r \in Replica, NEW batch \in events, MergeBatch(r, batch)
      PROVE  TypeOK'
  <2>1. ApplyOps(dots[r], batch.ops) \in QuadState
    BY ApplyOpsType, Zenon DEF HistoryOK
  <2>2. advance(clock[r], batch.actor, batch.counter) \in VectorClock
    BY Zenon DEF advance, VectorClock, Batch
  <2> QED
    BY <1>3, <2>1, <2>2, Zenon DEF MergeBatch
<1>4. ASSUME NEW r \in Replica, ExportSnapshot(r)
      PROVE  TypeOK'
  BY <1>4 DEF ExportSnapshot, Snapshot
<1>5. ASSUME NEW r \in Replica, NEW snap \in snaps, InstallSnapshot(r, snap)
      PROVE  TypeOK'
  <2>1. join_snapshot(dots[r], clock[r], snap) \in QuadState
    BY JoinType, Zenon
  <2>2. merge(clock[r], snap.clock) \in VectorClock
    BY Zenon DEF merge, VectorClock, Snapshot
  <2> QED
    BY <1>5, <2>1, <2>2, Zenon DEF InstallSnapshot
<1>6. ASSUME NEW r \in Replica, DeleteGraph(r)
      PROVE  TypeOK'
  BY <1>6, ReplicaAssumption, Zenon DEF DeleteGraph, VectorClock, NoEvents, QuadState, Empty
<1>7. CASE UNCHANGED vars
  BY <1>7, Zenon DEF vars
<1> QED
  BY <1>1, <1>2, <1>3, <1>4, <1>5, <1>6, <1>7, Zenon DEF Next

\* An event that nobody has seen changes no store and no snapshot.
LEMMA UnseenEvent ==
    ASSUME Inv, NEW b,
           \A r \in Replica : ~contains(clock[r], EventDot(b)),
           \A s \in snaps : ~contains(s.clock, EventDot(b))
    PROVE  /\ \A r \in Replica : Closed(events \cup {b}, clock[r])
           /\ \A s \in snaps : Closed(events \cup {b}, s.clock)
           /\ \A r \in Replica, q \in Quad :
                 dots[r][q] = Reduction(events \cup {b}, clock[r], q)
           /\ \A s \in snaps, q \in Quad :
                 s.dots[q] = Reduction(events \cup {b}, s.clock, q)
<1>1. ASSUME NEW r \in Replica
      PROVE  /\ Closed(events \cup {b}, clock[r])
             /\ \A q \in Quad : dots[r][q] = Reduction(events \cup {b}, clock[r], q)
  <2>1. /\ \A q : Reduction(events \cup {b}, clock[r], q) = Reduction(events, clock[r], q)
        /\ Closed(events, clock[r]) => Closed(events \cup {b}, clock[r])
    BY UncoveredEvent, Zenon
  <2> QED
    BY <2>1, Zenon DEF Inv, CausallyClosed, StoreIsReduction
<1>2. ASSUME NEW s \in snaps
      PROVE  /\ Closed(events \cup {b}, s.clock)
             /\ \A q \in Quad : s.dots[q] = Reduction(events \cup {b}, s.clock, q)
  <2>1. /\ \A q : Reduction(events \cup {b}, s.clock, q) = Reduction(events, s.clock, q)
        /\ Closed(events, s.clock) => Closed(events \cup {b}, s.clock)
    BY UncoveredEvent, Zenon
  <2> QED
    BY <2>1, Zenon DEF Inv, CausallyClosed, StoreIsReduction
<1> QED
  BY <1>1, <1>2, Zenon

\* A local commit preserves the invariant.
LEMMA CommitStep ==
    ASSUME Inv, TypeOK', NEW r \in Replica, NEW changes \in ChangeSets, CommitLocal(r, changes)
    PROVE  Inv'
<1> DEFINE b == CommitBatch(r, changes)
<1>1. r \in Replica \ tomb /\ r \in Actor /\ head[r] \in Nat /\ clock[r][r] = head[r]
  BY ReplicaAssumption, Zenon DEF CommitLocal, Inv, TypeOK, FreshCounters
<1>2. b \in Batch /\ EventOK(b) /\ b.actor = r /\ b.counter = head[r] + 1 /\ b.base = clock[r]
  BY <1>1, CommitBatchOK, Zenon
<1>3. /\ dots' = [dots EXCEPT ![r] = ApplyOps(@, b.ops)]
      /\ clock' = [clock EXCEPT ![r] = advance(@, r, b.counter)]
      /\ head' = [head EXCEPT ![r] = b.counter]
      /\ events' = events \cup {b}
      /\ tomb' = tomb /\ snaps' = snaps
  BY Zenon DEF CommitLocal
<1> HIDE DEF b
<1>4. /\ HistoryOK(events')
      /\ \A s \in Replica : ~contains(clock[s], EventDot(b))
      /\ \A s \in snaps : ~contains(s.clock, EventDot(b))
  BY <1>1, <1>2, <1>3, FreshEvent, Zenon
<1>5. /\ \A s \in Replica : Closed(events', clock[s])
      /\ \A s \in snaps : Closed(events', s.clock)
      /\ \A s \in Replica, q \in Quad : dots[s][q] = Reduction(events', clock[s], q)
      /\ \A s \in snaps, q \in Quad : s.dots[q] = Reduction(events', s.clock, q)
  BY <1>3, <1>4, UnseenEvent, Zenon
<1>6. \A a \in Actor : b.base[a] <= clock[r][a]
  BY <1>2 DEF Inv, TypeOK, VectorClock
<1>7. LET after == advance(clock[r], b.actor, b.counter) IN
      /\ Closed(events', after)
      /\ \A q \in Quad :
            Reduction(events', after, q)
              = {d \in Reduction(events', clock[r], q) : KeptAfter(b.ops, 0, q, d)}
                  \cup NewDots(b.ops, q)
  <2>1. events' \in SUBSET Batch /\ b \in events' /\ clock[r] \in VectorClock
    BY <1>3, Zenon DEF Inv, TypeOK
  <2> QED
    BY <2>1, <1>4, <1>5, <1>6, ApplyNextEvent, ZenonT(30)
<1>8. clock'[r] = advance(clock[r], b.actor, b.counter) /\ dots'[r] = ApplyOps(dots[r], b.ops)
  BY <1>2, <1>3, Zenon DEF Inv, TypeOK
<1>9. \A s \in Replica : s # r => clock'[s] = clock[s] /\ dots'[s] = dots[s]
  BY <1>3, Zenon DEF Inv, TypeOK
<1>10. CausallyClosed'
  BY <1>3, <1>5, <1>7, <1>8, <1>9, Zenon DEF CausallyClosed
<1>11. \A q \in Quad : dots'[r][q] = Reduction(events', clock'[r], q)
  BY <1>5, <1>7, <1>8, Zenon DEF ApplyOps
<1>12. StoreIsReduction'
  <2>1. \A s \in Replica, q \in Quad : dots'[s][q] = Reduction(events', clock'[s], q)
    BY <1>5, <1>9, <1>11, Zenon
  <2>2. \A s \in snaps', q \in Quad : s.dots[q] = Reduction(events', s.clock, q)
    BY <1>3, <1>5, Zenon
  <2> QED
    BY <2>1, <2>2, Zenon DEF StoreIsReduction
<1>13. FreshCounters'
  <2>1. /\ \A a \in Actor : head[a] \in Nat /\ head'[a] = IF a = r THEN head[r] + 1 ELSE head[a]
        /\ \A s \in Replica, a \in Actor : clock[s][a] \in Nat
        /\ \A s \in snaps, a \in Actor : s.clock[a] \in Nat
        /\ \A e \in events : e.counter \in Nat
    BY <1>2, <1>3 DEF Inv, TypeOK, VectorClock, Snapshot, Batch
  <2>2. \A s \in Replica, a \in Actor :
            clock'[s][a] = IF s = r /\ a = r THEN head[r] + 1 ELSE clock[s][a]
    BY <1>1, <1>2, <1>8, <1>9 DEF Inv, TypeOK, VectorClock, advance
  <2>3. \A a \in Actor \ tomb :
          /\ \A s \in Replica : clock[s][a] <= head[a]
          /\ \A s \in snaps : s.clock[a] <= head[a]
          /\ \A e \in events : e.actor = a => e.counter <= head[a]
    BY Zenon DEF Inv, FreshCounters
  <2>4. \A s \in Replica \ tomb : clock'[s][s] = head'[s]
    BY <2>1, <2>2, ReplicaAssumption, Zenon DEF Inv, FreshCounters
  <2>5. ASSUME NEW a \in Actor \ tomb
        PROVE  /\ \A s \in Replica : clock'[s][a] <= head'[a]
               /\ \A s \in snaps : s.clock[a] <= head'[a]
               /\ \A e \in events' : e.actor = a => e.counter <= head'[a]
    BY <1>2, <1>3, <2>1, <2>2, <2>3
  <2> QED
    BY <1>3, <2>4, <2>5, Zenon DEF FreshCounters
<1> QED
  BY <1>4, <1>10, <1>12, <1>13, Zenon DEF Inv

\* A caller's own event preserves the invariant.
LEMMA AuthorStep ==
    ASSUME Inv, TypeOK', NEW a \in Author, NEW r \in Replica, NEW changes \in ChangeSets,
           AuthorBatch(a, r, changes)
    PROVE  Inv'
<1> DEFINE b == from_changes(a, head[a] + 1, clock[r], changes)
<1>1. /\ a \in Actor \ tomb /\ a \notin Replica
      /\ clock[r] \in VectorClock /\ clock[r][a] = head[a]
      /\ head' = [head EXCEPT ![a] = @ + 1]
      /\ events' = events \cup {b}
      /\ clock' = clock /\ dots' = dots /\ tomb' = tomb /\ snaps' = snaps
  BY Zenon DEF AuthorBatch, Author, Inv, TypeOK
<1>2. b \in Batch /\ EventOK(b) /\ b.actor = a /\ b.counter = head[a] + 1
  BY <1>1, FromChangesOK
<1> HIDE DEF b
<1>3. /\ HistoryOK(events')
      /\ \A s \in Replica : ~contains(clock[s], EventDot(b))
      /\ \A s \in snaps : ~contains(s.clock, EventDot(b))
  BY <1>1, <1>2, FreshEvent, Zenon
<1>4. CausallyClosed' /\ StoreIsReduction'
  <2>1. /\ \A s \in Replica : Closed(events', clock[s])
        /\ \A s \in snaps : Closed(events', s.clock)
        /\ \A s \in Replica, q \in Quad : dots[s][q] = Reduction(events', clock[s], q)
        /\ \A s \in snaps, q \in Quad : s.dots[q] = Reduction(events', s.clock, q)
    BY <1>1, <1>3, UnseenEvent, Zenon
  <2> QED
    BY <1>1, <2>1, Zenon DEF CausallyClosed, StoreIsReduction
<1>5. FreshCounters'
  <2>1. /\ \A c \in Actor : head[c] \in Nat /\ head'[c] = IF c = a THEN head[a] + 1 ELSE head[c]
        /\ \A s \in Replica, c \in Actor : clock[s][c] \in Nat
        /\ \A s \in snaps, c \in Actor : s.clock[c] \in Nat
        /\ \A e \in events : e.counter \in Nat
    BY <1>1 DEF Inv, TypeOK, VectorClock, Snapshot, Batch
  <2>2. \A c \in Actor \ tomb :
          /\ \A s \in Replica : clock[s][c] <= head[c]
          /\ \A s \in snaps : s.clock[c] <= head[c]
          /\ \A e \in events : e.actor = c => e.counter <= head[c]
    BY Zenon DEF Inv, FreshCounters
  <2>3. \A s \in Replica \ tomb : clock'[s][s] = head'[s]
    BY <1>1, <2>1, ReplicaAssumption, Zenon DEF Inv, FreshCounters
  <2>4. ASSUME NEW c \in Actor \ tomb
        PROVE  /\ \A s \in Replica : clock[s][c] <= head'[c]
               /\ \A s \in snaps : s.clock[c] <= head'[c]
               /\ \A e \in events' : e.actor = c => e.counter <= head'[c]
    BY <1>1, <1>2, <2>1, <2>2
  <2> QED
    BY <1>1, <2>3, <2>4, Zenon DEF FreshCounters
<1> QED
  BY <1>3, <1>4, <1>5, Zenon DEF Inv

\* Merging a batch preserves the invariant.
LEMMA MergeStep ==
    ASSUME Inv, TypeOK', NEW r \in Replica, NEW b \in events, MergeBatch(r, b)
    PROVE  Inv'
<1>1. /\ dots' = [dots EXCEPT ![r] = ApplyOps(@, b.ops)]
      /\ clock' = [clock EXCEPT ![r] = advance(@, b.actor, b.counter)]
      /\ head' = head /\ events' = events /\ tomb' = tomb /\ snaps' = snaps
      /\ ~contains(clock[r], EventDot(b))
  BY Zenon DEF MergeBatch
<1>2. /\ clock[r] \in VectorClock /\ b.base \in VectorClock /\ b.actor \in Actor
      /\ b.counter \in Nat /\ events \in SUBSET Batch /\ HistoryOK(events)
      /\ Closed(events, clock[r])
  BY Zenon DEF Inv, TypeOK, Batch, CausallyClosed
<1>3. \A a \in Actor : b.base[a] <= clock[r][a]
  <2>1. \A a \in Actor : ~(b.base[a] > clock[r][a])
    BY Zenon DEF MergeBatch, check_causal_base, missing_dots
  <2> QED
    BY <1>2, <2>1 DEF VectorClock
<1>4. LET after == advance(clock[r], b.actor, b.counter) IN
      /\ Closed(events, after)
      /\ \A q \in Quad :
            Reduction(events, after, q)
              = {d \in Reduction(events, clock[r], q) : KeptAfter(b.ops, 0, q, d)}
                  \cup NewDots(b.ops, q)
  BY <1>1, <1>2, <1>3, ApplyNextEvent, Zenon
<1>5. clock'[r] = advance(clock[r], b.actor, b.counter) /\ dots'[r] = ApplyOps(dots[r], b.ops)
  BY <1>1, Zenon DEF Inv, TypeOK
<1>6. \A s \in Replica : s # r => clock'[s] = clock[s] /\ dots'[s] = dots[s]
  BY <1>1, Zenon DEF Inv, TypeOK
<1>7. CausallyClosed'
  BY <1>1, <1>4, <1>5, <1>6, Zenon DEF Inv, CausallyClosed
<1>8. StoreIsReduction'
  <2>1. \A q \in Quad : dots'[r][q] = Reduction(events, clock'[r], q)
    BY <1>4, <1>5, Zenon DEF ApplyOps, Inv, StoreIsReduction
  <2>2. \A s \in Replica, q \in Quad : dots'[s][q] = Reduction(events, clock'[s], q)
    BY <1>6, <2>1, Zenon DEF Inv, StoreIsReduction
  <2> QED
    BY <1>1, <2>2, Zenon DEF Inv, StoreIsReduction
<1>9. FreshCounters'
  <2>1. \A s \in Replica, a \in Actor :
            clock'[s][a] = IF s = r /\ a = b.actor THEN b.counter ELSE clock[s][a]
    BY <1>1, <1>2, <1>5, <1>6, Zenon DEF Inv, TypeOK, VectorClock, advance, contains, EventDot
  <2>2. \A a \in Actor \ tomb, s \in Replica : clock'[s][a] <= head[a]
    BY <2>1, Zenon DEF Inv, FreshCounters
  <2>3. \A s \in Replica \ tomb : clock'[s][s] = head[s]
    <3>1. CASE b.actor = r /\ r \notin tomb
      <4>1. b.counter <= head[r] /\ clock[r][r] = head[r] /\ head[r] \in Nat
        BY <3>1, ReplicaAssumption, Zenon DEF Inv, FreshCounters, TypeOK
      <4> QED
        BY <1>1, <1>2, <3>1, <4>1, Zenon DEF contains, EventDot
    <3>2. CASE b.actor # r \/ r \in tomb
      BY <2>1, <3>2, ReplicaAssumption, Zenon DEF Inv, FreshCounters
    <3> QED
      BY <3>1, <3>2, Zenon
  <2> QED
    BY <1>1, <2>2, <2>3, Zenon DEF Inv, FreshCounters
<1> QED
  BY <1>1, <1>7, <1>8, <1>9, Zenon DEF Inv

\* Installing a snapshot preserves the invariant.
LEMMA InstallStep ==
    ASSUME Inv, TypeOK', NEW r \in Replica, NEW snap \in snaps, InstallSnapshot(r, snap)
    PROVE  Inv'
<1>1. /\ dots' = [dots EXCEPT ![r] = join_snapshot(@, clock[r], snap)]
      /\ clock' = [clock EXCEPT ![r] = merge(@, snap.clock)]
      /\ head' = head /\ events' = events /\ tomb' = tomb /\ snaps' = snaps
      /\ r \notin tomb
  BY Zenon DEF InstallSnapshot
<1>2. /\ clock[r] \in VectorClock /\ snap.clock \in VectorClock /\ snap \in Snapshot
      /\ dots[r] \in QuadState /\ events \in SUBSET Batch /\ HistoryOK(events)
      /\ Closed(events, clock[r]) /\ Closed(events, snap.clock)
  BY Zenon DEF Inv, TypeOK, Snapshot, CausallyClosed
<1>3. LET after == merge(clock[r], snap.clock) IN
      /\ Closed(events, after)
      /\ \A q \in Quad :
            Reduction(events, after, q)
              = join_dots(Reduction(events, clock[r], q), Reduction(events, snap.clock, q),
                          clock[r], snap.clock)
  BY <1>2, JoinOfReductions, Zenon
<1>4. clock'[r] = merge(clock[r], snap.clock)
      /\ dots'[r] = join_snapshot(dots[r], clock[r], snap)
  BY <1>1, Zenon DEF Inv, TypeOK
<1>5. \A s \in Replica : s # r => clock'[s] = clock[s] /\ dots'[s] = dots[s]
  BY <1>1, Zenon DEF Inv, TypeOK
<1>6. CausallyClosed'
  BY <1>1, <1>3, <1>4, <1>5, Zenon DEF Inv, CausallyClosed
<1>7. StoreIsReduction'
  <2>1. \A q \in Quad : dots'[r][q] = join_dots(dots[r][q], snap.dots[q], clock[r], snap.clock)
    BY <1>2, <1>4, JoinType
  <2>2. \A q \in Quad : dots'[r][q] = Reduction(events, clock'[r], q)
    BY <1>3, <1>4, <2>1, Zenon DEF Inv, StoreIsReduction
  <2>3. \A s \in Replica, q \in Quad : dots'[s][q] = Reduction(events, clock'[s], q)
    BY <1>5, <2>2, Zenon DEF Inv, StoreIsReduction
  <2> QED
    BY <1>1, <2>3, Zenon DEF Inv, StoreIsReduction
<1>8. FreshCounters'
  <2>1. \A s \in Replica, a \in Actor :
            clock'[s][a] = IF s = r /\ clock[r][a] < snap.clock[a]
                           THEN snap.clock[a] ELSE clock[s][a]
    BY <1>2, <1>4, <1>5 DEF merge, VectorClock
  <2>2. \A a \in Actor \ tomb, s \in Replica : clock'[s][a] <= head[a]
    BY <2>1, Zenon DEF Inv, FreshCounters
  <2>3. \A s \in Replica \ tomb : clock'[s][s] = head[s]
    <3>1. snap.clock[r] <= head[r] /\ clock[r][r] = head[r] /\ head[r] \in Nat
          /\ snap.clock[r] \in Nat
      BY <1>1, <1>2, ReplicaAssumption, Zenon DEF Inv, FreshCounters, TypeOK, VectorClock
    <3> QED
      BY <2>1, <3>1, ReplicaAssumption DEF Inv, FreshCounters
  <2> QED
    BY <1>1, <2>2, <2>3, Zenon DEF Inv, FreshCounters
<1> QED
  BY <1>1, <1>6, <1>7, <1>8, Zenon DEF Inv

\* Deleting the graph preserves the invariant.
LEMMA DeleteStep ==
    ASSUME Inv, TypeOK', NEW r \in Replica, DeleteGraph(r)
    PROVE  Inv'
<1>1. /\ dots' = [dots EXCEPT ![r] = Empty]
      /\ clock' = [clock EXCEPT ![r] = NoEvents]
      /\ head' = [head EXCEPT ![r] = 0]
      /\ tomb' = tomb \cup {r} /\ events' = events /\ snaps' = snaps
  BY Zenon DEF DeleteGraph
<1>2. dots'[r] = Empty /\ clock'[r] = NoEvents
  BY <1>1, Zenon DEF Inv, TypeOK
<1>3. \A s \in Replica : s # r => clock'[s] = clock[s] /\ dots'[s] = dots[s]
  BY <1>1, Zenon DEF Inv, TypeOK
<1>4. \A e \in events : ~contains(NoEvents, EventDot(e))
  BY DEF Inv, TypeOK, Batch, contains, NoEvents, EventDot
<1>5. Closed(events, NoEvents) /\ \A q \in Quad : Reduction(events, NoEvents, q) = {}
  BY <1>4, Zenon DEF Closed, Reduction
<1>6. CausallyClosed'
  BY <1>1, <1>2, <1>3, <1>5, Zenon DEF Inv, CausallyClosed
<1>7. StoreIsReduction'
  <2>1. \A s \in Replica, q \in Quad : dots'[s][q] = Reduction(events, clock'[s], q)
    <3> TAKE s \in Replica, q \in Quad
    <3>1. CASE s = r
      <4>1. Empty[q] = {} /\ Reduction(events, NoEvents, q) = {}
        BY <1>5, Zenon DEF Empty
      <4> QED
        BY <1>2, <3>1, <4>1, Zenon
    <3>2. CASE s # r
      <4>1. dots[s][q] = Reduction(events, clock[s], q)
        BY Zenon DEF Inv, StoreIsReduction
      <4> QED
        BY <1>3, <3>2, <4>1, Zenon
    <3> QED
      BY <3>1, <3>2, Zenon
  <2> QED
    BY <1>1, <2>1, Zenon DEF Inv, StoreIsReduction
<1>8. FreshCounters'
  <2>1. \A a \in Actor \ tomb' : a \in Actor \ tomb /\ a # r /\ head'[a] = head[a]
    BY <1>1, Zenon DEF Inv, TypeOK
  <2>2. \A a \in Actor \ tomb', s \in Replica : clock'[s][a] <= head[a]
    <3>1. \A a \in Actor : NoEvents[a] = 0 /\ head[a] \in Nat
      BY Zenon DEF NoEvents, Inv, TypeOK
    <3> QED
      BY <1>2, <1>3, <2>1, <3>1 DEF Inv, FreshCounters
  <2>3. \A s \in Replica \ tomb' : clock'[s][s] = head'[s]
    BY <1>3, <2>1, ReplicaAssumption, Zenon DEF Inv, FreshCounters
  <2> QED
    BY <1>1, <2>1, <2>2, <2>3, Zenon DEF Inv, FreshCounters
<1> QED
  BY <1>1, <1>6, <1>7, <1>8, Zenon DEF Inv

\* Every step preserves the invariant.
LEMMA InvStep == Inv /\ [Next]_vars => Inv'
<1> SUFFICES ASSUME Inv, [Next]_vars PROVE Inv'
  BY Zenon
<1>1. TypeOK'
  BY TypeStep, Zenon
<1>2. ASSUME NEW r \in Replica, ExportSnapshot(r)
      PROVE  Inv'
  <2>1. /\ snaps' = snaps \cup {[clock |-> clock[r], dots |-> dots[r]]}
        /\ clock' = clock /\ dots' = dots /\ head' = head /\ tomb' = tomb /\ events' = events
    BY <1>2, Zenon DEF ExportSnapshot
  <2>2. CausallyClosed' /\ StoreIsReduction'
    BY <2>1 DEF Inv, CausallyClosed, StoreIsReduction
  <2>3. FreshCounters'
    BY <2>1 DEF Inv, FreshCounters
  <2> QED
    BY <1>1, <2>1, <2>2, <2>3, Zenon DEF Inv
<1>3. CASE UNCHANGED vars
  BY <1>3, Zenon DEF vars, Inv, TypeOK, CausallyClosed, FreshCounters, StoreIsReduction
<1> QED
  BY <1>1, <1>2, <1>3, CommitStep, AuthorStep, MergeStep, InstallStep, DeleteStep, Zenon DEF Next

\* The merge API keeps its invariant in every run, for any replicas, authors,
\* quads and change sets, and without a bound on events or snapshots.
THEOREM Invariance == Spec => []Inv
<1>1. Init => Inv
  BY InitInv, Zenon
<1>2. Inv /\ [Next]_vars => Inv'
  BY InvStep, Zenon
<1> QED
  BY <1>1, <1>2, PTL DEF Spec

\* Every replica's clock, dots, log heads, batches and snapshots keep their type.
THEOREM TypeCorrect == Spec => []TypeOK
<1>1. Inv => TypeOK
  BY Zenon DEF Inv
<1> QED
  BY <1>1, Invariance, PTL

\* The stores compute the OR-Set of the history that their clocks cover.
THEOREM StoresReduceHistory == Spec => []StoreIsReduction
<1>1. Inv => StoreIsReduction
  BY Zenon DEF Inv
<1> QED
  BY <1>1, Invariance, PTL

\* No clock gets ahead of its causal past.
THEOREM ClocksAreClosed == Spec => []CausallyClosed
<1>1. Inv => CausallyClosed
  BY Zenon DEF Inv
<1> QED
  BY <1>1, Invariance, PTL

\* Replicas with equal clocks hold equal stores: README.md, "replicas with the
\* same causal event history converge".
THEOREM ReplicasConverge == Spec => []Convergence
<1>1. Inv => Convergence
  <2> SUFFICES ASSUME Inv, NEW r \in Replica, NEW s \in Replica, clock[r] = clock[s]
               PROVE  dots[r] = dots[s]
    BY Zenon DEF Convergence
  <2>1. dots[r] \in [Quad -> SUBSET Dot] /\ dots[s] \in [Quad -> SUBSET Dot]
    BY Zenon DEF Inv, TypeOK, QuadState
  <2>2. \A q \in Quad : dots[r][q] = dots[s][q]
    BY Zenon DEF Inv, StoreIsReduction
  <2> QED
    BY <2>1, <2>2
<1> QED
  BY <1>1, Invariance, PTL

\* No operation brings back a dot that a replica has seen and dropped.
THEOREM DroppedStaysDropped == Spec => NoResurrection
<1>1. ASSUME Inv, [Next]_vars, NEW r \in Replica, NEW q \in Quad,
             NEW d \in dots'[r][q] \ dots[r][q]
      PROVE  ~contains(clock[r], d)
  <2> USE DEF Inv, TypeOK
  <2>1. ASSUME NEW b \in Batch, EventOK(b), dots' = [dots EXCEPT ![r] = ApplyOps(@, b.ops)],
               ~contains(clock[r], EventDot(b))
        PROVE  ~contains(clock[r], d)
    <3>1. d \in NewDots(b.ops, q)
      BY <1>1, <2>1, Zenon DEF ApplyOps
    <3> QED
      BY <1>1, <2>1, <3>1, NewDotIsOwn, Zenon
  <2>2. ASSUME NEW s \in Replica, NEW changes \in ChangeSets, CommitLocal(s, changes)
        PROVE  ~contains(clock[r], d)
    <3> DEFINE b == CommitBatch(s, changes)
    <3>1. s \in Replica \ tomb /\ s \in Actor /\ dots' = [dots EXCEPT ![s] = ApplyOps(@, b.ops)]
      BY <1>1, <2>2, ReplicaAssumption, Zenon DEF CommitLocal
    <3>2. b \in Batch /\ EventOK(b) /\ b.actor = s /\ b.counter = head[s] + 1
      BY <1>1, <3>1, CommitBatchOK, Zenon
    <3> HIDE DEF b
    <3>3. ~contains(clock[r], EventDot(b))
      BY <1>1, <3>1, <3>2, FreshEvent, Zenon
    <3>4. s = r
      BY <1>1, <3>1, Zenon
    <3> QED
      BY <1>1, <2>1, <3>1, <3>2, <3>3, <3>4, Zenon
  <2>3. ASSUME NEW s \in Replica, NEW b \in events, MergeBatch(s, b)
        PROVE  ~contains(clock[r], d)
    <3>1. s = r
      BY <1>1, <2>3, Zenon DEF MergeBatch
    <3> QED
      BY <1>1, <2>1, <2>3, <3>1, Zenon DEF MergeBatch, HistoryOK
  <2>4. ASSUME NEW s \in Replica, NEW snap \in snaps, InstallSnapshot(s, snap)
        PROVE  ~contains(clock[r], d)
    <3>1. s = r
      BY <1>1, <2>4, Zenon DEF InstallSnapshot
    <3>2. d \in join_dots(dots[r][q], snap.dots[q], clock[r], snap.clock)
      <4>1. dots'[r] = join_snapshot(dots[r], clock[r], snap) /\ snap \in Snapshot
        BY <1>1, <2>4, <3>1, Zenon DEF InstallSnapshot
      <4> QED
        BY <1>1, <4>1, JoinType
    <3> QED
      BY <3>2, Zenon DEF join_dots
  <2>5. ASSUME NEW s \in Replica, DeleteGraph(s)
        PROVE  FALSE
    BY <1>1, <2>5, Zenon DEF DeleteGraph, Empty
  <2>6. CASE dots' = dots
    BY <1>1, <2>6, Zenon
  <2> QED
    BY <1>1, <2>2, <2>3, <2>4, <2>5, <2>6, Zenon DEF Next, AuthorBatch, ExportSnapshot, vars
<1>2. Inv /\ [Next]_vars =>
        [\A r \in Replica, q \in Quad :
            \A d \in dots'[r][q] \ dots[r][q] : ~contains(clock[r], d)]_vars
  BY <1>1, Zenon
<1> QED
  BY <1>2, Invariance, PTL DEF Spec, NoResurrection

\* A replica that holds a tombstone holds nothing else of the graph.
DeletedIsEmpty == \A r \in tomb : dots[r] = Empty

\* A deleted graph stays empty: every write path checks for the tombstone.
THEOREM DeletedStaysEmpty == Spec => []DeletedIsEmpty
<1>1. Init => DeletedIsEmpty
  BY Zenon DEF Init, DeletedIsEmpty
<1>2. Inv /\ DeletedIsEmpty /\ [Next]_vars => DeletedIsEmpty'
  <2> SUFFICES ASSUME Inv, DeletedIsEmpty, [Next]_vars, NEW r \in tomb'
               PROVE  dots'[r] = Empty
    BY Zenon DEF DeletedIsEmpty
  <2> USE DEF Inv, TypeOK, DeletedIsEmpty
  <2>1. ASSUME NEW s \in Replica, NEW changes \in ChangeSets, CommitLocal(s, changes)
        PROVE  dots'[r] = Empty
    <3>1. s \notin tomb /\ tomb' = tomb
      BY <2>1, Zenon DEF CommitLocal
    <3>2. dots' = [dots EXCEPT ![s] = ApplyOps(@, CommitBatch(s, changes).ops)]
      BY <2>1, Zenon DEF CommitLocal
    <3> QED
      BY <3>1, <3>2, Zenon
  <2>2. ASSUME NEW s \in Replica, NEW b \in events, MergeBatch(s, b)
        PROVE  dots'[r] = Empty
    BY <2>2, Zenon DEF MergeBatch
  <2>3. ASSUME NEW s \in Replica, NEW snap \in snaps, InstallSnapshot(s, snap)
        PROVE  dots'[r] = Empty
    BY <2>3, Zenon DEF InstallSnapshot
  <2>4. ASSUME NEW s \in Replica, DeleteGraph(s)
        PROVE  dots'[r] = Empty
    BY <2>4, Zenon DEF DeleteGraph
  <2>5. CASE dots' = dots /\ tomb' = tomb
    BY <2>5, Zenon
  <2> QED
    BY <2>1, <2>2, <2>3, <2>4, <2>5, Zenon DEF Next, AuthorBatch, ExportSnapshot, vars
<1> QED
  BY <1>1, <1>2, Invariance, PTL DEF Spec

\* A replica never forgets an event it has seen, short of deleting the graph for good.
THEOREM ClocksOnlyAdvance == Spec => SeenIsKept
<1> DEFINE Kept(r) == \/ r \in tomb' /\ dots'[r] = Empty
                      \/ r \notin tomb /\ \A a \in Actor : clock[r][a] <= clock'[r][a]
<1>1. ASSUME Inv, DeletedIsEmpty, DeletedIsEmpty', [Next]_vars, NEW r \in Replica
      PROVE  Kept(r)
  <2>1. tomb \subseteq tomb'
    <3>1. CASE Next
      BY <3>1, Zenon DEF Next, CommitLocal, AuthorBatch, MergeBatch, ExportSnapshot, InstallSnapshot,
                  DeleteGraph
    <3>2. CASE UNCHANGED vars
      BY <3>2, Zenon DEF vars
    <3> QED
      BY <1>1, <3>1, <3>2, Zenon
  <2>2. CASE r \in tomb'
    BY <1>1, <2>2, Zenon DEF DeletedIsEmpty
  <2>3. CASE r \notin tomb'
    <3>1. \A s \in Replica, a \in Actor : clock[s][a] \in Nat
      BY <1>1, Zenon DEF Inv, TypeOK, VectorClock
    <3>2. ASSUME NEW s \in Replica, NEW c \in Actor, NEW n \in Nat,
                 clock' = [clock EXCEPT ![s] = advance(@, c, n)]
          PROVE  \A a \in Actor : clock[r][a] <= clock'[r][a]
      BY <1>1, <3>1, <3>2 DEF Inv, TypeOK, VectorClock, advance
    <3>3. ASSUME NEW s \in Replica, NEW changes \in ChangeSets, CommitLocal(s, changes)
          PROVE  \A a \in Actor : clock[r][a] <= clock'[r][a]
      <4>1. CommitBatch(s, changes).counter \in Nat /\ s \in Actor
        BY <1>1, ReplicaAssumption DEF CommitBatch, Inv, TypeOK
      <4> QED
        BY <3>2, <3>3, <4>1, Zenon DEF CommitLocal
    <3>4. ASSUME NEW s \in Replica, NEW b \in events, MergeBatch(s, b)
          PROVE  \A a \in Actor : clock[r][a] <= clock'[r][a]
      <4>1. b.counter \in Nat /\ b.actor \in Actor
        BY <1>1, Zenon DEF Inv, TypeOK, Batch
      <4> QED
        BY <3>2, <3>4, <4>1, Zenon DEF MergeBatch
    <3>5. ASSUME NEW s \in Replica, NEW snap \in snaps, InstallSnapshot(s, snap)
          PROVE  \A a \in Actor : clock[r][a] <= clock'[r][a]
      BY <1>1, <3>1, <3>5 DEF InstallSnapshot, Inv, TypeOK, Snapshot, VectorClock, merge
    <3>6. ASSUME NEW s \in Replica, DeleteGraph(s)
          PROVE  clock'[r] = clock[r]
      BY <1>1, <2>3, <3>6, Zenon DEF DeleteGraph, Inv, TypeOK
    <3>7. ASSUME clock' = clock
          PROVE  \A a \in Actor : clock[r][a] <= clock'[r][a]
      BY <3>1, <3>7
    <3>8. \A a \in Actor : clock[r][a] <= clock'[r][a]
      <4>1. CASE UNCHANGED vars
        BY <3>7, <4>1, Zenon DEF vars
      <4>2. CASE Next
        <5>1. CASE \E a \in Author, s \in Replica, changes \in ChangeSets :
                      AuthorBatch(a, s, changes)
          BY <3>7, <5>1, Zenon DEF AuthorBatch
        <5>2. CASE \E s \in Replica : ExportSnapshot(s)
          BY <3>7, <5>2, Zenon DEF ExportSnapshot
        <5>3. CASE \E s \in Replica, changes \in ChangeSets : CommitLocal(s, changes)
          BY <3>3, <5>3, Zenon
        <5>4. CASE \E s \in Replica, b \in events : MergeBatch(s, b)
          BY <3>4, <5>4, Zenon
        <5>5. CASE \E s \in Replica, snap \in snaps : InstallSnapshot(s, snap)
          BY <3>5, <5>5, Zenon
        <5>6. CASE \E s \in Replica : DeleteGraph(s)
          BY <3>1, <3>6, <5>6
        <5> QED
          BY <4>2, <5>1, <5>2, <5>3, <5>4, <5>5, <5>6, Zenon DEF Next
      <4> QED
        BY <1>1, <4>1, <4>2, Zenon
    <3> QED
      BY <2>1, <2>3, <3>8, Zenon
  <2> QED
    BY <2>2, <2>3, Zenon
<1>2. Inv /\ DeletedIsEmpty /\ DeletedIsEmpty' /\ [Next]_vars
        => [\A r \in Replica : Kept(r)]_vars
  BY <1>1, Zenon
<1> QED
  BY <1>2, Invariance, DeletedStaysEmpty, PTL DEF Spec, SeenIsKept
=============================================================================
