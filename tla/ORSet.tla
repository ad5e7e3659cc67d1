------------------------------- MODULE ORSet -------------------------------
(***************************************************************************)
(* The data types of one replicated graph and the pure operations on them: *)
(* vector clocks, dots, quad states, batches and snapshots.                *)
(*                                                                         *)
(* A quad is one opaque value: subject, predicate and object are only ever *)
(* compared for equality here.  The dots of a quad are a set, because      *)
(* every write normalises the stored vector (sorted, without repetitions). *)
(* A clock maps every actor to a counter; an actor that the BTreeMap does  *)
(* not hold has counter 0, which no dot carries.                           *)
(***************************************************************************)
EXTENDS Naturals, Sequences

CONSTANTS Actor,   \* the actors that author events
          Quad     \* the quads of the graph

Dot == [actor : Actor, counter : Nat \ {0}]

VectorClock == [Actor -> Nat]

\* The clock of a graph nobody has written to.
NoEvents == [a \in Actor |-> 0]

advance(clock, actor, counter) ==
    [clock EXCEPT ![actor] = IF @ >= counter THEN @ ELSE counter]

contains(clock, dot) == clock[dot.actor] >= dot.counter

merge(clock, other) ==
    [a \in Actor |-> IF clock[a] >= other[a] THEN clock[a] ELSE other[a]]

\* Faulty: a context at the frontier counts as missing.
missing_dots_at_frontier(claim, known) ==
    {[actor |-> a, counter |-> claim[a]] : a \in {b \in Actor : claim[b] >= known[b]}}

\* The dots of a claimed context that a known clock does not cover.
missing_dots(claim, known) ==
    {[actor |-> a, counter |-> claim[a]] : a \in {b \in Actor : claim[b] > known[b]}}

-----------------------------------------------------------------------------
(* Quad states.  A quad without a dot is not stored: it is dead.           *)

QuadState == [Quad -> SUBSET Dot]

Empty == [q \in Quad |-> {}]

-----------------------------------------------------------------------------
(* Batches: the ordered operations of one event.                           *)

QuadOp == [op : {"Add"}, quad : Quad, dot : Dot]
            \cup [op : {"Remove"}, quad : Quad, witnessed : VectorClock]

Batch == [actor : Actor, counter : Nat \ {0}, base : VectorClock, ops : Seq(QuadOp)]

MaterializedQuadChange == [kind : {"Insert", "Delete"}, quad : Quad]

EventDot(batch) == [actor |-> batch.actor, counter |-> batch.counter]

\* The operation a change becomes: an insert carries the event's dot, a delete
\* the clock it witnesses.
QuadOpOf(change, dot, witnessed) ==
    IF change.kind = "Insert"
    THEN [op |-> "Add", quad |-> change.quad, dot |-> dot]
    ELSE [op |-> "Remove", quad |-> change.quad, witnessed |-> witnessed]

\* An event built outside the engine, or from a topic record: deletes witness
\* the base clock.
from_changes(actor, counter, base, changes) ==
    [actor |-> actor, counter |-> counter, base |-> base,
     ops |-> [i \in DOMAIN changes |->
                QuadOpOf(changes[i], [actor |-> actor, counter |-> counter], base)]]

Adds(op, quad, dot) == op.op = "Add" /\ op.quad = quad /\ op.dot = dot

Kills(op, quad, dot) ==
    op.op = "Remove" /\ op.quad = quad /\ contains(op.witnessed, dot)

\* No operation of ops after position i removes the dot from the quad.
KeptAfter(ops, i, quad, dot) ==
    \A j \in DOMAIN ops : j > i => ~Kills(ops[j], quad, dot)

\* The dots that ops leave on a quad that had none.
NewDots(ops, quad) ==
    {d \in {ops[i].dot : i \in {j \in DOMAIN ops : ops[j].op = "Add"}} :
        \E i \in DOMAIN ops : Adds(ops[i], quad, d) /\ KeptAfter(ops, i, quad, d)}

\* Faulty: every remove of the batch runs before every add.
ApplyOps_removes_first(dots, ops) ==
    [q \in Quad |-> {d \in dots[q] : KeptAfter(ops, 0, q, d)}
                      \cup {ops[i].dot : i \in {j \in DOMAIN ops : ops[j].op = "Add"
                                                                    /\ ops[j].quad = q}}]

\* The operations of a batch applied in their order: a dot stays if no
\* operation removes it, and a dot added is there if none removes it later.
ApplyOps(dots, ops) ==
    [q \in Quad |-> {d \in dots[q] : KeptAfter(ops, 0, q, d)} \cup NewDots(ops, q)]

-----------------------------------------------------------------------------
(* What a replica accepts from outside.                                    *)

\* Adds carry the batch's own event, removes witness only the base clock.
check_batch(batch) ==
    \A i \in DOMAIN batch.ops :
        LET op == batch.ops[i] IN
        \/ op.op = "Add" /\ op.dot = EventDot(batch)
        \/ op.op = "Remove" /\ missing_dots(op.witnessed, batch.base) = {}

\* Faulty: the base is not compared with the applied clock.
check_causal_base_unordered(batch, clock) == ~contains(batch.base, EventDot(batch))

\* A batch must not depend on itself, and all it depends on must be applied.
check_causal_base(batch, clock) ==
    /\ ~contains(batch.base, EventDot(batch))
    /\ missing_dots(batch.base, clock) = {}

\* Every live dot of a snapshot is covered by its clock.
check_snapshot(snap) ==
    \A q \in Quad : \A d \in snap.dots[q] : contains(snap.clock, d)

-----------------------------------------------------------------------------
(* The join of a replica with a snapshot of another one.                   *)

\* Faulty: the join keeps local dots that the snapshot has seen removed.
join_dots_keep_local(local, remote, here, there) ==
    local \cup {d \in remote : ~contains(here, d)}

\* What the join keeps of one quad: the dots both hold, and each side's dots
\* that the other side's clock does not cover.
join_dots(local, remote, here, there) ==
    {d \in local : d \in remote \/ ~contains(there, d)}
      \cup {d \in remote : d \notin local /\ ~contains(here, d)}

\* The clock advanced over some dots contains a dot.
CoveredBy(dots, dot) ==
    \E d \in dots : d.actor = dot.actor /\ d.counter >= dot.counter

\* How the join is staged on one quad: the added dots first, then one remove
\* that witnesses the dropped dots (and with them whole ranges of counters),
\* then the kept dots that the remove took along.
StagedJoin(local, remote, here, there) ==
    LET joined  == join_dots(local, remote, here, there)
        dropped == local \ joined
    IN  {d \in local \cup joined : ~CoveredBy(dropped, d)}
          \cup {d \in joined : CoveredBy(dropped, d)}

join_snapshot(dots, clock, snap) ==
    [q \in Quad |-> StagedJoin(dots[q], snap.dots[q], clock, snap.clock)]

=============================================================================
