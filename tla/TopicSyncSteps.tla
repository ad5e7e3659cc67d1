--------------------------- MODULE TopicSyncSteps ---------------------------
(***************************************************************************)
(* Topic replication, for any actors, quads, change sets and page size:    *)
(* the invariant that TopicSyncProofs shows, and the steps of a node that  *)
(* keep it.                                                                *)
(*                                                                         *)
(* The parts of the invariant are predicates on values: T is the topic, h  *)
(* what a node has of it, s a store, p a page.  Each is shown once to      *)
(* survive growth of the topic and once for each way a store changes.      *)
(***************************************************************************)
EXTENDS TopicSync, FiniteSetTheorems, WellFoundedInduction, TLAPS

\* A clock that reaches no further than another one.
Leq(c, e) == \A a \in Actor : c[a] <= e[a]

At(a, k) == [actor |-> a, counter |-> k]

\* A clock that covers what its records observe.
Closed(T, c) == \A a \in Actor : \A k \in 1 .. c[a] : Leq(T[a][k].observed, c)

\* A record observes its author's earlier ones, its author's store was inside what it
\* observes, and its generation is above all it observes.
RecordOK(T, a, k) ==
    /\ T[a][k].observed[a] = k - 1
    /\ Leq(T[a][k].seen, T[a][k].observed)
    /\ \A b \in Actor : T[a][k].observed[b] <= Len(T[b])
    /\ \A b \in Actor : \A j \in 1 .. T[a][k].observed[b] : T[b][j].gen < T[a][k].gen

\* What each actor holds of the topic is a causally closed part of it.
TopicOK(T, H) ==
    /\ \A a \in Actor : H[a][a] = Len(T[a]) /\ Len(T[a]) <= MaxRecords
    /\ \A n, a \in Actor : H[n][a] <= Len(T[a])
    /\ \A n \in Actor : Closed(T, H[n])
    /\ \A a \in Actor : \A k \in 1 .. Len(T[a]) : RecordOK(T, a, k)

\* Where the catch-up pages of a node end.
Goal(h, s) == IF s.target = NoEvents THEN h ELSE s.target

\* Every record up to a clock has left its trace in a store.
Backed(T, s, c) ==
    \A a \in Actor : \A k \in 1 .. c[a] :
        /\ T[a][k].kind = "Changes" => s.tomb \/ k <= s.clock[a]
        /\ T[a][k].kind = "Delete" => s.tomb
        /\ T[a][k].kind = "Bad" => At(a, k) \in s.ledger \cup s.settled

\* The own records saw no more of the foreign ones than a clock covers.
SawWithin(T, n, c) ==
    \A k \in 1 .. Len(T[n]) : \A a \in Actor \ {n} : T[n][k].seen[a] <= c[a]

\* A ledger entry is a record that this node has and that may be rejected.
LedgerOK(T, h, s) ==
    \A d \in s.ledger :
        /\ d.counter <= h[d.actor]
        /\ T[d.actor][d.counter].kind \in {"Changes", "Policy", "Bad"}
        /\ T[d.actor][d.counter].kind = "Changes" => s.tomb

\* The store or the disk of node n: cursor, goal and topic in this order, the cursor backed,
\* and of the foreign records no more applied, or seen by an own record, than the goal covers.
StoreOK(T, h, n, s) ==
    /\ Leq(s.clock, h)
    /\ Leq(s.cursor, Goal(h, s)) /\ Leq(Goal(h, s), h) /\ Closed(T, Goal(h, s))
    /\ \A a \in Actor \ {n} : s.clock[a] <= Goal(h, s)[a]
    /\ SawWithin(T, n, Goal(h, s))
    /\ Backed(T, s, s.cursor)
    /\ LedgerOK(T, h, s)

\* What a record must find applied on node n: an own one what its author's store held, a
\* foreign one all its author's topic held.
Context(T, n, a, k) == IF a = n THEN T[a][k].seen ELSE T[a][k].observed

\* The data records that a clock covers are applied in a store.
AppliedUpTo(T, s, c) ==
    \A b \in Actor : \A j \in 1 .. c[b] : T[b][j].kind = "Changes" => j <= s.clock[b]

\* Data is applied after its context.
OrderOK(T, n, s) ==
    \A a \in Actor : \A k \in 1 .. s.clock[a] :
        T[a][k].kind = "Changes" => AppliedUpTo(T, s, Context(T, n, a, k))

OpsAt(T, a, k) == from_changes(a, k, T[a][k].observed, T[a][k].changes).ops

\* The record at k of actor a leaves a dot alone.
Spares(T, a, k, q, d) == KeptAfter(OpsAt(T, a, k), 0, q, d)

\* The dots of a store are those of the OR-Set of the records its clock covers, except that
\* an own record may have missed what its author's store did not hold.
DotsOK(T, n, s) ==
    \A q \in Quad :
        /\ \A a \in Actor : \A k \in 1 .. s.clock[a] :
              \/ T[a][k].kind # "Changes"
              \/ At(a, k) \notin NewDots(OpsAt(T, a, k), q)
              \/ At(a, k) \in s.dots[q]
              \/ \E b \in Actor : \E j \in 1 .. s.clock[b] :
                    T[b][j].kind = "Changes" /\ At(b, j) # At(a, k) /\ ~Spares(T, b, j, q, At(a, k))
        /\ \A d \in s.dots[q] :
              /\ d.counter <= s.clock[d.actor]
              /\ T[d.actor][d.counter].kind = "Changes"
              /\ d \in NewDots(OpsAt(T, d.actor, d.counter), q)
              /\ \A b \in Actor : \A j \in 1 .. s.clock[b] :
                    \/ T[b][j].kind # "Changes"
                    \/ At(b, j) = d
                    \/ b = n /\ ~contains(T[b][j].seen, d)
                    \/ Spares(T, b, j, q, d)

DataOK(T, n, s) == s.tomb \/ (OrderOK(T, n, s) /\ DotsOK(T, n, s))

\* The disk e is behind the store s, and has its cursor.
DiskOK(s, e) ==
    /\ e.cursor = s.cursor /\ e.target = s.target
    /\ e.tomb => s.tomb
    /\ s.tomb \/ Leq(e.clock, s.clock)

\* On an open node the foreign data that the own records saw is applied.
OpenOK(T, n, s) ==
    s.tomb \/ \A k \in 1 .. Len(T[n]) : \A a \in Actor \ {n} : \A j \in 1 .. T[n][k].seen[a] :
                  T[a][j].kind = "Changes" => j <= s.clock[a]

\* The record that is published and not applied saw the store as it is.
HoldOK(T, n, s, i) == i # 0 => i <= Len(T[n]) /\ T[n][i].seen = s.clock

\* A page runs from the cursor to its target, and what it consumed has left its trace.  The
\* last page of a pass holds all that is left.
PageOK(T, h, n, s, p) ==
    /\ Leq(s.cursor, p.clock) /\ Leq(p.clock, p.target)
    /\ Leq(p.target, h) /\ Leq(p.target, Goal(h, s)) /\ Closed(T, p.target)
    /\ Backed(T, s, p.clock)
    /\ p.keep \in {NoEvents, p.target}
    /\ \A a \in Actor \ {n} : s.clock[a] <= p.target[a]
    /\ SawWithin(T, n, p.target)
    /\ p.keep = NoEvents => p.left = Cardinality(Between(p.clock, p.target))

NodeOK(n) ==
    /\ StoreOK(topic, have[n], n, store[n]) /\ StoreOK(topic, have[n], n, disk[n])
    /\ n \in skipped \/ (DataOK(topic, n, store[n]) /\ DataOK(topic, n, disk[n]))
    /\ DiskOK(store[n], disk[n])
    /\ n \in open => OpenOK(topic, n, store[n])
    /\ HoldOK(topic, n, store[n], hold[n])
    /\ IF pass[n].on THEN PageOK(topic, have[n], n, store[n], pass[n]) ELSE pass[n].left = 0

SyncInv == TypeOK /\ TopicOK(topic, have) /\ \A n \in Node : NodeOK(n)

-----------------------------------------------------------------------------
(* Naturals and finite sets.                                               *)

\* A nonempty set of naturals has a least element.
LEMMA HasMin ==
    ASSUME NEW U, U \subseteq Nat, U # {}
    PROVE  Min(U) \in U /\ \A y \in U : Min(U) <= y
<1> DEFINE R == {ss \in Nat \X Nat : ss[1] < ss[2]}
<1>1. IsWellFoundedOn(R, Nat)
  BY NatLessThanWellFounded, Zenon DEF OpToRel
<1>2. \E x \in U : \A y \in U : ~ (<<y, x>> \in R)
  <2> HIDE DEF R
  <2> QED BY <1>1, WFMin, Zenon
<1>3. PICK x \in U : \A y \in U : ~ (<<y, x>> \in R)
  BY <1>2, Zenon
<1>4. \A y \in U : ~ (y < x)
  <2> TAKE y \in U
  <2>1. <<y, x>> \in Nat \X Nat /\ <<y, x>>[1] = y /\ <<y, x>>[2] = x
    BY Zenon
  <2> QED
    BY <1>3, <2>1, Zenon
<1>5. \A y \in U : x <= y
  BY <1>4
<1> QED
  BY <1>5, Zenon DEF Min

\* A finite set of naturals is bounded.
LEMMA FiniteBounded ==
    ASSUME NEW S, S \subseteq Nat, IsFiniteSet(S)
    PROVE  \E m \in Nat : \A x \in S : x <= m
<1> DEFINE Bad(V) == V \in SUBSET Nat /\ IsFiniteSet(V) /\ \A m \in Nat : \E x \in V : ~ (x <= m)
           U == {i \in Nat : \E V \in SUBSET Nat : Bad(V) /\ Cardinality(V) = i}
<1> SUFFICES ASSUME Bad(S) PROVE FALSE
  BY Zenon
<1>1. Cardinality(S) \in U
  BY FS_CardinalityType, Zenon
<1>2. PICK i \in U : \A j \in U : i <= j
  <2> HIDE DEF U
  <2>1. U \subseteq Nat
    BY Zenon DEF U
  <2> QED
    BY <1>1, <2>1, HasMin, Zenon
<1>3. PICK V \in SUBSET Nat : Bad(V) /\ Cardinality(V) = i
  BY <1>2, Zenon
<1>4. PICK x \in V : ~ (x <= 0)
  BY <1>3, Zenon
<1>5. IsFiniteSet(V \ {x}) /\ Cardinality(V \ {x}) = i - 1
  BY <1>3, FS_RemoveElement, Zenon
<1>6. i \in Nat /\ i - 1 \notin U
  <2>1. i \in Nat
    BY <1>2, Zenon
  <2> HIDE DEF U
  <2> QED
    BY <1>2, <2>1
<1>7. i - 1 \in Nat
  BY <1>5, FS_CardinalityType, Zenon
<1>8. ~ Bad(V \ {x})
  BY <1>5, <1>6, <1>7, Zenon
<1>9. PICK m \in Nat : \A y \in V \ {x} : y <= m
  BY <1>5, <1>8, Zenon
<1>10. \A y \in V : y <= m + x
  BY <1>9
<1> QED
  BY <1>3, <1>10
-----------------------------------------------------------------------------
(* Growth of the topic.                                                    *)

\* The topic U extends the topic T.
Extends(T, U) ==
    \A a \in Actor : Len(T[a]) <= Len(U[a]) /\ \A k \in 1 .. Len(T[a]) : U[a][k] = T[a][k]

Topics == [Actor -> Seq(Record)]

Lengths(T) == [a \in Actor |-> Len(T[a])]

LEMMA RecordTypes ==
    ASSUME NEW T \in Topics, NEW a \in Actor, NEW k \in 1 .. Len(T[a])
    PROVE  T[a][k] \in Record
BY DEF Topics

LEMMA LengthsType ==
    ASSUME NEW T \in Topics
    PROVE  Lengths(T) \in VectorClock
BY DEF Topics, Lengths, VectorClock

LEMMA LeqReflexive ==
    ASSUME NEW c \in VectorClock
    PROVE  Leq(c, c)
<1> SUFFICES ASSUME NEW a \in Actor PROVE c[a] <= c[a]
  BY Zenon DEF Leq
<1>1. c[a] \in Nat
  BY Zenon DEF VectorClock
<1> QED
  BY <1>1

LEMMA LeqTransitive ==
    ASSUME NEW c \in VectorClock, NEW d \in VectorClock, NEW e \in VectorClock, Leq(c, d), Leq(d, e)
    PROVE  Leq(c, e)
<1> SUFFICES ASSUME NEW a \in Actor PROVE c[a] <= e[a]
  BY Zenon DEF Leq
<1>1. c[a] \in Nat /\ d[a] \in Nat /\ e[a] \in Nat
  BY Zenon DEF VectorClock
<1>2. c[a] <= d[a] /\ d[a] <= e[a]
  BY Zenon DEF Leq
<1> QED
  BY <1>1, <1>2

\* No dot is missing exactly when the clock reaches no further.
LEMMA MissingNone ==
    ASSUME NEW c \in VectorClock, NEW e \in VectorClock
    PROVE  missing_dots(c, e) = {} <=> Leq(c, e)
<1>1. ASSUME Leq(c, e) PROVE missing_dots(c, e) = {}
  BY <1>1 DEF missing_dots, Leq, VectorClock
<1>2. ASSUME missing_dots(c, e) = {}, NEW a \in Actor PROVE c[a] <= e[a]
  <2>1. c[a] \in Nat /\ e[a] \in Nat
    BY Zenon DEF VectorClock
  <2>2. ~ (c[a] > e[a])
    BY <1>2, Zenon DEF missing_dots
  <2> QED
    BY <2>1, <2>2
<1> QED
  BY <1>1, <1>2, Zenon DEF Leq

LEMMA GrowClosed ==
    ASSUME NEW T \in Topics, NEW U \in Topics, Extends(T, U),
           NEW c \in VectorClock, Leq(c, Lengths(T)), Closed(T, c)
    PROVE  Closed(U, c)
<1> SUFFICES ASSUME NEW a \in Actor, NEW k \in 1 .. c[a] PROVE Leq(U[a][k].observed, c)
  BY Zenon DEF Closed
<1>1. k \in 1 .. Len(T[a])
  BY DEF Leq, Lengths, VectorClock, Topics
<1> QED
  BY <1>1, Zenon DEF Closed, Extends

LEMMA GrowBacked ==
    ASSUME NEW T \in Topics, NEW U \in Topics, Extends(T, U), NEW s,
           NEW c \in VectorClock, Leq(c, Lengths(T)), Backed(T, s, c)
    PROVE  Backed(U, s, c)
<1> SUFFICES ASSUME NEW a \in Actor, NEW k \in 1 .. c[a]
             PROVE  /\ U[a][k].kind = "Changes" => s.tomb \/ k <= s.clock[a]
                    /\ U[a][k].kind = "Delete" => s.tomb
                    /\ U[a][k].kind = "Bad" => At(a, k) \in s.ledger \cup s.settled
  BY Zenon DEF Backed
<1>1. k \in 1 .. Len(T[a])
  BY DEF Leq, Lengths, VectorClock, Topics
<1> QED
  BY <1>1, Zenon DEF Backed, Extends

\* What the new own records saw is inside a clock.
NewSawWithin(T, U, n, c) ==
    \A k \in Len(T[n]) + 1 .. Len(U[n]) : \A a \in Actor \ {n} : U[n][k].seen[a] <= c[a]

LEMMA GrowSaw ==
    ASSUME NEW T \in Topics, NEW U \in Topics, Extends(T, U), NEW n \in Actor,
           NEW c \in VectorClock, NEW e \in VectorClock, Leq(c, e),
           SawWithin(T, n, c), NewSawWithin(T, U, n, c)
    PROVE  SawWithin(U, n, e)
<1> SUFFICES ASSUME NEW k \in 1 .. Len(U[n]), NEW a \in Actor \ {n}
             PROVE  U[n][k].seen[a] <= e[a]
  BY Zenon DEF SawWithin
<1>1. U[n][k].seen[a] \in Nat
  BY RecordTypes DEF Record, VectorClock
<1>2. U[n][k].seen[a] <= c[a]
  <2>1. CASE k <= Len(T[n])
    <3>1. k \in 1 .. Len(T[n])
      BY <2>1 DEF Topics
    <3> QED
      BY <3>1, Zenon DEF SawWithin, Extends
  <2>2. CASE k > Len(T[n])
    BY <2>2 DEF NewSawWithin, Topics
  <2> QED
    BY <2>1, <2>2 DEF Topics
<1> QED
  BY <1>1, <1>2 DEF Leq, VectorClock

LEMMA GoalGrows ==
    ASSUME NEW s \in Store, NEW h \in VectorClock, NEW i \in VectorClock, Leq(h, i)
    PROVE  /\ Goal(h, s) \in VectorClock /\ Goal(i, s) \in VectorClock
           /\ Leq(Goal(h, s), Goal(i, s))
<1>1. Goal(h, s) \in VectorClock /\ Goal(i, s) \in VectorClock
  BY Zenon DEF Goal, Store
<1>2. CASE s.target = NoEvents
  BY <1>1, <1>2, Zenon DEF Goal
<1>3. CASE s.target # NoEvents
  BY <1>1, <1>3, LeqReflexive, Zenon DEF Goal
<1> QED
  BY <1>1, <1>2, <1>3, Zenon

LEMMA GrowStore ==
    ASSUME NEW T \in Topics, NEW U \in Topics, Extends(T, U), NEW n \in Actor, NEW s \in Store,
           NEW h \in VectorClock, NEW i \in VectorClock, Leq(h, i), Leq(h, Lengths(T)),
           StoreOK(T, h, n, s), Closed(U, i), NewSawWithin(T, U, n, Goal(h, s))
    PROVE  StoreOK(U, i, n, s)
<1> DEFINE g == Goal(h, s)
           f == Goal(i, s)
<1>1. g \in VectorClock /\ f \in VectorClock /\ s.clock \in VectorClock /\ s.cursor \in VectorClock
  BY Zenon DEF Goal, Store
<1>2. Leq(g, f) /\ Leq(f, i) /\ Leq(g, Lengths(T)) /\ Leq(s.cursor, Lengths(T))
  <2>1. Lengths(T) \in VectorClock
    BY DEF Lengths, VectorClock, Topics
  <2>2. Leq(g, f)
    BY GoalGrows, Zenon
  <2>3. Leq(g, h) /\ Leq(s.cursor, g)
    BY Zenon DEF StoreOK
  <2>4. Leq(g, i)
    BY <1>1, <2>3, LeqTransitive, Zenon
  <2>5. Leq(f, i)
    <3>1. CASE s.target = NoEvents
      BY <3>1, LeqReflexive, Zenon DEF Goal
    <3>2. CASE s.target # NoEvents
      BY <3>2, <2>4, Zenon DEF Goal
    <3> QED
      BY <3>1, <3>2, Zenon
  <2> HIDE DEF g, f
  <2> QED
    BY <1>1, <2>1, <2>2, <2>3, <2>5, LeqTransitive, Zenon
<1>3. Closed(U, f)
  <2>1. Closed(U, g)
    BY <1>1, <1>2, GrowClosed, Zenon DEF StoreOK
  <2> QED
    BY <2>1, Zenon DEF Goal
<1>4. Leq(s.clock, i) /\ Leq(s.cursor, f)
  <2> HIDE DEF g, f
  <2> QED
    BY <1>1, <1>2, LeqTransitive, Zenon DEF StoreOK, g
<1>5. \A a \in Actor \ {n} : s.clock[a] <= f[a]
  <2> TAKE a \in Actor \ {n}
  <2>1. s.clock[a] <= g[a]
    BY Zenon DEF StoreOK
  <2> HIDE DEF g, f
  <2> QED
    BY <1>1, <1>2, <2>1 DEF Leq, VectorClock
<1>6. SawWithin(U, n, f)
  <2>1. SawWithin(T, n, g)
    BY Zenon DEF StoreOK
  <2> HIDE DEF g, f
  <2> QED
    BY <1>1, <1>2, <2>1, GrowSaw, Zenon DEF g
<1>7. Backed(U, s, s.cursor)
  BY <1>1, <1>2, GrowBacked, Zenon DEF StoreOK
<1>8. LedgerOK(U, i, s)
  <2> SUFFICES ASSUME NEW d \in s.ledger
               PROVE  /\ d.counter <= i[d.actor]
                      /\ U[d.actor][d.counter].kind \in {"Changes", "Policy", "Bad"}
                      /\ U[d.actor][d.counter].kind = "Changes" => s.tomb
    BY Zenon DEF LedgerOK
  <2>1. d.actor \in Actor /\ d.counter \in Nat \ {0}
    BY Zenon DEF Store, Dot
  <2>2. d.counter <= h[d.actor]
    BY Zenon DEF StoreOK, LedgerOK
  <2>3. d.counter <= i[d.actor] /\ d.counter \in 1 .. Len(T[d.actor])
    BY <2>1, <2>2 DEF Leq, Lengths, VectorClock, Topics
  <2> QED
    BY <2>1, <2>3, Zenon DEF StoreOK, LedgerOK, Extends
<1> QED
  BY <1>2, <1>3, <1>4, <1>5, <1>6, <1>7, <1>8, Zenon DEF StoreOK

\* The records of a topic observe and saw records that are there.
LEMMA ContextInside ==
    ASSUME NEW T \in Topics, NEW n \in Actor, NEW a \in Actor, NEW k \in 1 .. Len(T[a]),
           RecordOK(T, a, k)
    PROVE  /\ Context(T, n, a, k) \in VectorClock
           /\ Leq(Context(T, n, a, k), Lengths(T))
           /\ Leq(T[a][k].seen, Lengths(T))
<1>1. T[a][k].seen \in VectorClock /\ T[a][k].observed \in VectorClock /\ Lengths(T) \in VectorClock
  <2>1. T[a][k] \in Record
    BY RecordTypes, Zenon
  <2>2. Lengths(T) \in VectorClock
    BY DEF Lengths, VectorClock, Topics
  <2> QED
    BY <2>1, <2>2, Zenon DEF Record
<1>2. Leq(T[a][k].observed, Lengths(T))
  <2>1. \A b \in Actor : T[a][k].observed[b] <= Len(T[b]) /\ Lengths(T)[b] = Len(T[b])
    BY Zenon DEF RecordOK, Lengths
  <2> QED
    BY <2>1, Zenon DEF Leq
<1>3. Leq(T[a][k].seen, Lengths(T))
  BY <1>1, <1>2, LeqTransitive, Zenon DEF RecordOK
<1> QED
  BY <1>1, <1>2, <1>3, Zenon DEF Context

LEMMA SameRecord ==
    ASSUME NEW T \in Topics, NEW U \in Topics, Extends(T, U), NEW c \in VectorClock,
           Leq(c, Lengths(T)), NEW a \in Actor, NEW k \in 1 .. c[a]
    PROVE  /\ k \in 1 .. Len(T[a]) /\ U[a][k] = T[a][k] /\ OpsAt(U, a, k) = OpsAt(T, a, k)
           /\ \A n : Context(U, n, a, k) = Context(T, n, a, k)
<1>1. k \in 1 .. Len(T[a])
  BY DEF Leq, Lengths, VectorClock, Topics
<1>2. U[a][k] = T[a][k]
  BY <1>1, Zenon DEF Extends
<1> QED
  BY <1>1, <1>2, Zenon DEF OpsAt, Context

LEMMA GrowApplied ==
    ASSUME NEW T \in Topics, NEW U \in Topics, Extends(T, U), NEW s,
           NEW c \in VectorClock, Leq(c, Lengths(T)), AppliedUpTo(T, s, c)
    PROVE  AppliedUpTo(U, s, c)
BY SameRecord DEF AppliedUpTo

LEMMA GrowData ==
    ASSUME NEW T \in Topics, NEW U \in Topics, Extends(T, U), NEW n \in Actor, NEW s \in Store,
           Leq(s.clock, Lengths(T)), DataOK(T, n, s),
           \A a \in Actor : \A k \in 1 .. Len(T[a]) : RecordOK(T, a, k)
    PROVE  DataOK(U, n, s)
<1> SUFFICES ASSUME ~s.tomb PROVE OrderOK(U, n, s) /\ DotsOK(U, n, s)
  BY Zenon DEF DataOK
<1>1. OrderOK(T, n, s) /\ DotsOK(T, n, s) /\ s.clock \in VectorClock /\ s.dots \in QuadState
  BY Zenon DEF DataOK, Store
<1>2. \A a \in Actor : \A k \in 1 .. s.clock[a] :
         /\ k \in 1 .. Len(T[a]) /\ U[a][k] = T[a][k] /\ OpsAt(U, a, k) = OpsAt(T, a, k)
         /\ Context(U, n, a, k) = Context(T, n, a, k)
  BY <1>1, SameRecord
<1>3. OrderOK(U, n, s)
  <2> SUFFICES ASSUME NEW a \in Actor, NEW k \in 1 .. s.clock[a], U[a][k].kind = "Changes"
               PROVE  AppliedUpTo(U, s, Context(U, n, a, k))
    BY Zenon DEF OrderOK
  <2>1. AppliedUpTo(T, s, Context(T, n, a, k))
    BY <1>1, <1>2, Zenon DEF OrderOK
  <2>2. Context(T, n, a, k) \in VectorClock /\ Leq(Context(T, n, a, k), Lengths(T))
    BY <1>2, ContextInside, Zenon
  <2> QED
    BY <1>2, <2>1, <2>2, GrowApplied, Zenon
<1>4. \A a \in Actor : \A k \in 1 .. s.clock[a] : \A q, d :
         Spares(U, a, k, q, d) <=> Spares(T, a, k, q, d)
  BY <1>2, Zenon DEF Spares
<1>5. DotsOK(U, n, s)
  <2> SUFFICES ASSUME NEW q \in Quad
               PROVE  /\ \A a \in Actor : \A k \in 1 .. s.clock[a] :
                            \/ U[a][k].kind # "Changes"
                            \/ At(a, k) \notin NewDots(OpsAt(U, a, k), q)
                            \/ At(a, k) \in s.dots[q]
                            \/ \E b \in Actor : \E j \in 1 .. s.clock[b] :
                                  /\ U[b][j].kind = "Changes" /\ At(b, j) # At(a, k)
                                  /\ ~Spares(U, b, j, q, At(a, k))
                      /\ \A d \in s.dots[q] :
                            /\ d.counter <= s.clock[d.actor]
                            /\ U[d.actor][d.counter].kind = "Changes"
                            /\ d \in NewDots(OpsAt(U, d.actor, d.counter), q)
                            /\ \A b \in Actor : \A j \in 1 .. s.clock[b] :
                                  \/ U[b][j].kind # "Changes"
                                  \/ At(b, j) = d
                                  \/ b = n /\ ~contains(U[b][j].seen, d)
                                  \/ Spares(U, b, j, q, d)
    BY Zenon DEF DotsOK
  <2>1. ASSUME NEW a \in Actor, NEW k \in 1 .. s.clock[a],
               U[a][k].kind = "Changes", At(a, k) \in NewDots(OpsAt(U, a, k), q),
               At(a, k) \notin s.dots[q]
        PROVE  \E b \in Actor : \E j \in 1 .. s.clock[b] :
                  /\ U[b][j].kind = "Changes" /\ At(b, j) # At(a, k)
                  /\ ~Spares(U, b, j, q, At(a, k))
    <3>1. T[a][k].kind = "Changes" /\ At(a, k) \in NewDots(OpsAt(T, a, k), q)
      BY <1>2, <2>1, Zenon
    <3>2. PICK b \in Actor : \E j \in 1 .. s.clock[b] :
             T[b][j].kind = "Changes" /\ At(b, j) # At(a, k) /\ ~Spares(T, b, j, q, At(a, k))
      BY <1>1, <2>1, <3>1, Zenon DEF DotsOK
    <3>3. PICK j \in 1 .. s.clock[b] :
             T[b][j].kind = "Changes" /\ At(b, j) # At(a, k) /\ ~Spares(T, b, j, q, At(a, k))
      BY <3>2, Zenon
    <3> QED
      BY <1>2, <1>4, <3>3, Zenon
  <2>2. ASSUME NEW d \in s.dots[q]
        PROVE  /\ d.counter <= s.clock[d.actor]
               /\ U[d.actor][d.counter].kind = "Changes"
               /\ d \in NewDots(OpsAt(U, d.actor, d.counter), q)
    <3>1. d.actor \in Actor /\ d.counter \in Nat \ {0}
      BY <1>1 DEF QuadState, Dot
    <3>2. d.counter <= s.clock[d.actor] /\ T[d.actor][d.counter].kind = "Changes"
          /\ d \in NewDots(OpsAt(T, d.actor, d.counter), q)
      BY <1>1, Zenon DEF DotsOK
    <3>3. d.counter \in 1 .. s.clock[d.actor]
      BY <1>1, <3>1, <3>2 DEF VectorClock
    <3> QED
      BY <1>2, <3>1, <3>2, <3>3, Zenon
  <2>3. ASSUME NEW d \in s.dots[q], NEW b \in Actor, NEW j \in 1 .. s.clock[b]
        PROVE  \/ U[b][j].kind # "Changes"
               \/ At(b, j) = d
               \/ b = n /\ ~contains(U[b][j].seen, d)
               \/ Spares(U, b, j, q, d)
    <3>1. \/ T[b][j].kind # "Changes"
          \/ At(b, j) = d
          \/ b = n /\ ~contains(T[b][j].seen, d)
          \/ Spares(T, b, j, q, d)
      BY <1>1, Zenon DEF DotsOK
    <3> QED
      BY <1>2, <1>4, <3>1, Zenon
  <2> QED
    BY <2>1, <2>2, <2>3, Zenon
<1> QED
  BY <1>3, <1>5, Zenon

\* The new own records saw the store s, or less.
NewSaw(T, U, n, s) ==
    \A k \in Len(T[n]) + 1 .. Len(U[n]) : Leq(U[n][k].seen, s.clock)

LEMMA GrowOpen ==
    ASSUME NEW T \in Topics, NEW U \in Topics, Extends(T, U), NEW n \in Actor, NEW s \in Store,
           Leq(s.clock, Lengths(T)), OpenOK(T, n, s), NewSaw(T, U, n, s),
           \A a \in Actor : \A k \in 1 .. Len(T[a]) : RecordOK(T, a, k)
    PROVE  OpenOK(U, n, s)
<1> SUFFICES ASSUME ~s.tomb, NEW k \in 1 .. Len(U[n]), NEW a \in Actor \ {n},
                    NEW j \in 1 .. U[n][k].seen[a], U[a][j].kind = "Changes"
             PROVE  j <= s.clock[a]
  BY Zenon DEF OpenOK
<1>1. U[n][k].seen[a] \in Nat /\ s.clock[a] \in Nat
  BY RecordTypes DEF Record, VectorClock, Store
<1>2. CASE k > Len(T[n])
  <2>1. k \in Len(T[n]) + 1 .. Len(U[n])
    BY <1>2 DEF Topics
  <2>2. U[n][k].seen[a] <= s.clock[a]
    BY <2>1, Zenon DEF NewSaw, Leq
  <2> QED
    BY <1>1, <2>2
<1>3. CASE k <= Len(T[n])
  <2>1. k \in 1 .. Len(T[n])
    BY <1>3 DEF Topics
  <2>2. U[n][k] = T[n][k]
    BY <2>1, Zenon DEF Extends
  <2>3. T[n][k].seen \in VectorClock /\ Leq(T[n][k].seen, Lengths(T))
    BY <2>1, ContextInside, RecordTypes, Zenon DEF Record
  <2>4. U[a][j] = T[a][j]
    BY <2>2, <2>3, SameRecord
  <2> QED
    BY <2>1, <2>2, <2>4, Zenon DEF OpenOK
<1> QED
  BY <1>2, <1>3 DEF Topics

LEMMA GrowHold ==
    ASSUME NEW T \in Topics, NEW U \in Topics, Extends(T, U), NEW n \in Actor, NEW s, NEW i \in Nat,
           HoldOK(T, n, s, i)
    PROVE  HoldOK(U, n, s, i)
BY DEF HoldOK, Extends, Topics

LEMMA GrowPage ==
    ASSUME NEW T \in Topics, NEW U \in Topics, Extends(T, U), NEW n \in Actor,
           NEW s \in Store, NEW p \in Page,
           NEW h \in VectorClock, NEW i \in VectorClock, Leq(h, i), Leq(h, Lengths(T)),
           PageOK(T, h, n, s, p), NewSawWithin(T, U, n, p.target)
    PROVE  PageOK(U, i, n, s, p)
<1>1. p.clock \in VectorClock /\ p.target \in VectorClock /\ Lengths(T) \in VectorClock
  BY DEF Page, Lengths, VectorClock, Topics
<1>2. Leq(p.clock, p.target) /\ Leq(p.target, h)
  BY Zenon DEF PageOK
<1>3. Leq(p.target, i) /\ Leq(p.target, Lengths(T)) /\ Leq(p.clock, Lengths(T))
  BY <1>1, <1>2, LeqTransitive, Zenon
<1>4. Closed(U, p.target)
  BY <1>1, <1>3, GrowClosed, Zenon DEF PageOK
<1>5. Backed(U, s, p.clock)
  BY <1>1, <1>3, GrowBacked, Zenon DEF PageOK
<1>6. SawWithin(U, n, p.target)
  BY <1>1, LeqReflexive, GrowSaw, Zenon DEF PageOK
<1>7. Leq(p.target, Goal(i, s))
  BY <1>1, GoalGrows, LeqTransitive DEF PageOK
<1> QED
  BY <1>3, <1>4, <1>5, <1>6, <1>7, Zenon DEF PageOK

-----------------------------------------------------------------------------
(* Applying a record.                                                      *)

\* The operations of a record add its own dot, and spare what the record did not observe.
LEMMA OpsFacts ==
    ASSUME NEW T \in Topics, NEW a \in Actor, NEW k \in 1 .. Len(T[a]), NEW q, NEW d
    PROVE  /\ d \in NewDots(OpsAt(T, a, k), q) => d = At(a, k)
           /\ ~contains(T[a][k].observed, d) => Spares(T, a, k, q, d)
<1> DEFINE changes == T[a][k].changes
           ops == OpsAt(T, a, k)
<1>1. ops = [i \in DOMAIN changes |-> QuadOpOf(changes[i], At(a, k), T[a][k].observed)]
  BY Zenon DEF OpsAt, from_changes, At
<1>2. \A i \in DOMAIN ops : ops[i].op = "Add" => ops[i].dot = At(a, k)
  <2> TAKE i \in DOMAIN ops
  <2>1. ops[i] = QuadOpOf(changes[i], At(a, k), T[a][k].observed)
    BY <1>1, Zenon
  <2> HIDE DEF ops, changes
  <2> QED
    BY <2>1 DEF QuadOpOf
<1>3. \A i \in DOMAIN ops : ops[i].op = "Remove" => ops[i].witnessed = T[a][k].observed
  <2> TAKE i \in DOMAIN ops
  <2>1. ops[i] = QuadOpOf(changes[i], At(a, k), T[a][k].observed)
    BY <1>1, Zenon
  <2> HIDE DEF ops, changes
  <2> QED
    BY <2>1 DEF QuadOpOf
<1> HIDE DEF ops, changes
<1>4. d \in NewDots(ops, q) => d = At(a, k)
  BY <1>2, Zenon DEF NewDots
<1>5. ~contains(T[a][k].observed, d) => KeptAfter(ops, 0, q, d)
  BY <1>3, Zenon DEF KeptAfter, Kills
<1> QED
  BY <1>4, <1>5, Zenon DEF Spares, ops

\* The store t comes after s: the same cursor, no trace lost.
Advances(s, t) ==
    /\ t.cursor = s.cursor /\ t.target = s.target
    /\ t.ledger \subseteq s.ledger /\ s.ledger \cup s.settled \subseteq t.ledger \cup t.settled
    /\ s.tomb => t.tomb
    /\ t.tomb \/ Leq(s.clock, t.clock)

LEMMA AdvanceBacked ==
    ASSUME NEW T \in Topics, NEW s \in Store, NEW t \in Store, Advances(s, t),
           NEW c \in VectorClock, Backed(T, s, c)
    PROVE  Backed(T, t, c)
<1> SUFFICES ASSUME NEW a \in Actor, NEW k \in 1 .. c[a]
             PROVE  /\ T[a][k].kind = "Changes" => t.tomb \/ k <= t.clock[a]
                    /\ T[a][k].kind = "Delete" => t.tomb
                    /\ T[a][k].kind = "Bad" => At(a, k) \in t.ledger \cup t.settled
  BY Zenon DEF Backed
<1>1. /\ T[a][k].kind = "Changes" => s.tomb \/ k <= s.clock[a]
      /\ T[a][k].kind = "Delete" => s.tomb
      /\ T[a][k].kind = "Bad" => At(a, k) \in s.ledger \cup s.settled
  BY Zenon DEF Backed
<1>2. k \in Nat /\ s.clock[a] \in Nat /\ t.clock[a] \in Nat
  BY DEF VectorClock, Store
<1>3. ~t.tomb => s.clock[a] <= t.clock[a]
  BY Zenon DEF Advances, Leq
<1>4. k <= s.clock[a] => t.tomb \/ k <= t.clock[a]
  BY <1>2, <1>3
<1> QED
  BY <1>1, <1>4, Zenon DEF Advances

LEMMA AdvanceStore ==
    ASSUME NEW T \in Topics, NEW n \in Actor, NEW h \in VectorClock,
           NEW s \in Store, NEW t \in Store, Advances(s, t), StoreOK(T, h, n, s),
           Leq(t.clock, h), \A a \in Actor \ {n} : t.clock[a] <= Goal(h, s)[a]
    PROVE  StoreOK(T, h, n, t)
<1>1. t.cursor = s.cursor /\ Goal(h, t) = Goal(h, s) /\ s.cursor \in VectorClock
  BY Zenon DEF Advances, Goal, Store
<1>2. Backed(T, t, t.cursor)
  BY <1>1, AdvanceBacked, Zenon DEF StoreOK
<1>3. LedgerOK(T, h, t)
  BY Zenon DEF StoreOK, LedgerOK, Advances
<1> QED
  BY <1>1, <1>2, <1>3, Zenon DEF StoreOK

LEMMA AdvanceOpen ==
    ASSUME NEW T \in Topics, NEW n \in Actor, NEW s \in Store, NEW t \in Store,
           Advances(s, t), OpenOK(T, n, s)
    PROVE  OpenOK(T, n, t)
<1> SUFFICES ASSUME ~t.tomb, NEW k \in 1 .. Len(T[n]), NEW a \in Actor \ {n},
                    NEW j \in 1 .. T[n][k].seen[a], T[a][j].kind = "Changes"
             PROVE  j <= t.clock[a]
  BY Zenon DEF OpenOK
<1>1. j <= s.clock[a]
  BY Zenon DEF OpenOK, Advances
<1>2. j \in Nat /\ s.clock[a] \in Nat /\ t.clock[a] \in Nat
  BY DEF Store, VectorClock
<1>3. s.clock[a] <= t.clock[a]
  BY Zenon DEF Advances, Leq
<1> QED
  BY <1>1, <1>2, <1>3

LEMMA AdvanceDisk ==
    ASSUME NEW s \in Store, NEW t \in Store, NEW e \in Store, Advances(s, t), DiskOK(s, e)
    PROVE  DiskOK(t, e)
<1>1. ~t.tomb => Leq(e.clock, s.clock) /\ Leq(s.clock, t.clock)
  BY Zenon DEF Advances, DiskOK
<1>2. e.clock \in VectorClock /\ s.clock \in VectorClock /\ t.clock \in VectorClock
  BY Zenon DEF Store
<1>3. ~t.tomb => Leq(e.clock, t.clock)
  BY <1>1, <1>2, LeqTransitive, Zenon
<1> QED
  BY <1>3, Zenon DEF Advances, DiskOK

LEMMA AdvancePage ==
    ASSUME NEW T \in Topics, NEW n \in Actor, NEW h \in VectorClock, NEW p \in Page,
           NEW s \in Store, NEW t \in Store, Advances(s, t), PageOK(T, h, n, s, p),
           \A a \in Actor \ {n} : t.clock[a] <= p.target[a]
    PROVE  PageOK(T, h, n, t, p)
<1>1. t.cursor = s.cursor /\ Goal(h, t) = Goal(h, s) /\ p.clock \in VectorClock
  BY Zenon DEF Advances, Page, Goal
<1>2. Backed(T, t, p.clock)
  BY <1>1, AdvanceBacked, Zenon DEF PageOK
<1> QED
  BY <1>1, <1>2, Zenon DEF PageOK

\* A store after a data record, and after a deletion.
WithData(T, s, a, k) ==
    [s EXCEPT !.dots = ApplyOps(@, OpsAt(T, a, k)), !.clock = advance(@, a, k)]

Deleted(s) == [s EXCEPT !.dots = Empty, !.clock = NoEvents, !.tomb = TRUE]

\* A deletion leaves the tombstone, and nothing else of the data.
LEMMA DeleteStep ==
    ASSUME NEW s \in Store
    PROVE  /\ Deleted(s) \in Store /\ Advances(s, Deleted(s))
           /\ Deleted(s).tomb /\ Deleted(s).clock = NoEvents /\ NoEvents \in VectorClock
<1>1. NoEvents \in VectorClock /\ Empty \in QuadState
  BY Zenon DEF NoEvents, VectorClock, Empty, QuadState
<1> QED
  BY <1>1, Zenon DEF Deleted, Store, Advances

\* A data record moves the clock of its author to its counter.
LEMMA DataStep ==
    ASSUME NEW T \in Topics, NEW s \in Store, NEW a \in Actor, NEW k \in 1 .. Len(T[a]),
           k > s.clock[a]
    PROVE  LET t == WithData(T, s, a, k) IN
           /\ t \in Store /\ Advances(s, t) /\ (t.tomb <=> s.tomb)
           /\ t.clock = [s.clock EXCEPT ![a] = k]
           /\ t.dots = ApplyOps(s.dots, OpsAt(T, a, k))
<1> DEFINE t == WithData(T, s, a, k)
<1>1. s.clock \in VectorClock /\ s.dots \in QuadState /\ k \in Nat \ {0}
  BY DEF Store
<1>2. advance(s.clock, a, k) = [s.clock EXCEPT ![a] = k]
  <2>1. s.clock[a] \in Nat
    BY <1>1, Zenon DEF VectorClock
  <2> QED
    BY <1>1, <2>1 DEF advance
<1>3. [s.clock EXCEPT ![a] = k] \in VectorClock
  BY <1>1, Zenon DEF VectorClock
<1>4. ApplyOps(s.dots, OpsAt(T, a, k)) \in QuadState
  <2>1. At(a, k) \in Dot
    BY <1>1, Zenon DEF At, Dot
  <2>2. \A q \in Quad : NewDots(OpsAt(T, a, k), q) \subseteq Dot
    BY <2>1, OpsFacts, Zenon
  <2>3. \A q \in Quad : s.dots[q] \subseteq Dot
    BY <1>1, Zenon DEF QuadState
  <2> QED
    BY <2>2, <2>3, Zenon DEF ApplyOps, QuadState
<1>5. t = [s EXCEPT !.dots = ApplyOps(s.dots, OpsAt(T, a, k)), !.clock = [s.clock EXCEPT ![a] = k]]
  BY <1>2, Zenon DEF WithData, Store
<1>6. t \in Store
  BY <1>3, <1>4, <1>5, Zenon DEF Store
<1>7. /\ t.clock = [s.clock EXCEPT ![a] = k] /\ t.dots = ApplyOps(s.dots, OpsAt(T, a, k))
      /\ t.tomb = s.tomb /\ t.cursor = s.cursor /\ t.target = s.target
      /\ t.ledger = s.ledger /\ t.settled = s.settled
  BY <1>5, Zenon DEF Store
<1>8. Leq(s.clock, t.clock)
  <2> SUFFICES ASSUME NEW b \in Actor PROVE s.clock[b] <= t.clock[b]
    BY Zenon DEF Leq
  <2>1. s.clock[b] \in Nat
    BY <1>1, Zenon DEF VectorClock
  <2>2. t.clock[b] = IF b = a THEN k ELSE s.clock[b]
    BY <1>1, <1>7, Zenon DEF VectorClock
  <2> HIDE DEF t
  <2> QED
    BY <1>1, <2>1, <2>2
<1> QED
  BY <1>6, <1>7, <1>8, Zenon DEF Advances

\* A data record that finds its context applied, and no earlier data record of its author
\* left out, leaves the store a reduction of the topic.
LEMMA DataOKStep ==
    ASSUME NEW T \in Topics, NEW n \in Actor, NEW s \in Store, NEW a \in Actor,
           NEW k \in 1 .. Len(T[a]), k > s.clock[a], ~s.tomb,
           Leq(s.clock, Lengths(T)), DataOK(T, n, s),
           \A b \in Actor : \A j \in 1 .. Len(T[b]) : RecordOK(T, b, j),
           T[a][k].kind = "Changes",
           \A j \in 1 .. k - 1 : T[a][j].kind = "Changes" => j <= s.clock[a],
           AppliedUpTo(T, s, Context(T, n, a, k))
    PROVE  DataOK(T, n, WithData(T, s, a, k))
<1> DEFINE t == WithData(T, s, a, k)
<1>1. /\ t \in Store /\ Leq(s.clock, t.clock)
      /\ t.clock = [s.clock EXCEPT ![a] = k] /\ t.dots = ApplyOps(s.dots, OpsAt(T, a, k))
  BY DataStep DEF Advances
<1>2. s.clock \in VectorClock /\ t.clock \in VectorClock /\ s.dots \in QuadState /\ k \in Nat \ {0}
  BY <1>1 DEF Store
<1> HIDE DEF t
<1>3. \A b \in Actor : s.clock[b] \in Nat /\ t.clock[b] \in Nat /\ s.clock[b] <= t.clock[b]
                       /\ t.clock[b] = IF b = a THEN k ELSE s.clock[b]
  BY <1>1, <1>2, Zenon DEF Leq, VectorClock
\* The record is the only data record that the clock gains.
<1>4. ASSUME NEW b \in Actor, NEW j \in 1 .. t.clock[b], T[b][j].kind = "Changes"
      PROVE  (b = a /\ j = k) \/ j \in 1 .. s.clock[b]
  <2>1. CASE b # a
    BY <1>3, <2>1, Zenon
  <2>2. CASE b = a
    <3>1. j \in 1 .. k
      BY <1>3, <2>2, Zenon
    <3>2. j = k \/ j \in 1 .. k - 1
      BY <1>2, <3>1
    <3>3. j \in 1 .. k - 1 => j <= s.clock[a]
      BY <1>4, <2>2, Zenon
    <3> QED
      BY <1>3, <2>2, <3>1, <3>2, <3>3
  <2> QED
    BY <2>1, <2>2, Zenon
<1>5. \A b \in Actor : \A j \in 1 .. s.clock[b] : j \in 1 .. t.clock[b] /\ j \in 1 .. Len(T[b])
  <2> TAKE b \in Actor
  <2> TAKE j \in 1 .. s.clock[b]
  <2>1. s.clock[b] <= Len(T[b]) /\ Len(T[b]) \in Nat
    BY DEF Leq, Lengths, Topics
  <2> QED
    BY <1>3, <2>1
<1>6. OrderOK(T, n, s) /\ DotsOK(T, n, s)
  BY Zenon DEF DataOK
<1>7. OrderOK(T, n, t)
  <2> SUFFICES ASSUME NEW b \in Actor, NEW j \in 1 .. t.clock[b], T[b][j].kind = "Changes",
                      NEW c \in Actor, NEW i \in 1 .. Context(T, n, b, j)[c], T[c][i].kind = "Changes"
               PROVE  i <= t.clock[c]
    BY Zenon DEF OrderOK, AppliedUpTo
  <2>1. AppliedUpTo(T, s, Context(T, n, b, j))
    BY <1>4, <1>6, Zenon DEF OrderOK
  <2>2. i <= s.clock[c]
    BY <2>1, Zenon DEF AppliedUpTo
  <2> QED
    BY <1>3, <2>2
\* No record that is applied removes the new dot.
<1>8. ASSUME NEW q, NEW b \in Actor, NEW j \in 1 .. s.clock[b], T[b][j].kind = "Changes"
      PROVE  (b = n /\ ~contains(T[b][j].seen, At(a, k))) \/ Spares(T, b, j, q, At(a, k))
  <2>1. AppliedUpTo(T, s, Context(T, n, b, j))
    BY <1>6, <1>8, Zenon DEF OrderOK
  <2>2. Context(T, n, b, j) \in VectorClock
    BY <1>5, ContextInside, Zenon
  <2>3. ~ (k \in 1 .. Context(T, n, b, j)[a])
    BY <1>3, <2>1 DEF AppliedUpTo
  <2>4. Context(T, n, b, j)[a] \in Nat
    BY <2>2, Zenon DEF VectorClock
  <2>5. ~ (Context(T, n, b, j)[a] >= k)
    BY <1>2, <2>3, <2>4
  <2>6. At(a, k).actor = a /\ At(a, k).counter = k
    BY Zenon DEF At
  <2>7. ~contains(Context(T, n, b, j), At(a, k))
    BY <2>5, <2>6, Zenon DEF contains
  <2>8. j \in 1 .. Len(T[b])
    BY <1>5, Zenon
  <2> QED
    BY <2>7, <2>8, OpsFacts, Zenon DEF Context
<1>9. DotsOK(T, n, t)
  <2> SUFFICES ASSUME NEW q \in Quad
               PROVE  /\ \A b \in Actor : \A j \in 1 .. t.clock[b] :
                            \/ T[b][j].kind # "Changes"
                            \/ At(b, j) \notin NewDots(OpsAt(T, b, j), q)
                            \/ At(b, j) \in t.dots[q]
                            \/ \E c \in Actor : \E i \in 1 .. t.clock[c] :
                                  /\ T[c][i].kind = "Changes" /\ At(c, i) # At(b, j)
                                  /\ ~Spares(T, c, i, q, At(b, j))
                      /\ \A d \in t.dots[q] :
                            /\ d.counter <= t.clock[d.actor]
                            /\ T[d.actor][d.counter].kind = "Changes"
                            /\ d \in NewDots(OpsAt(T, d.actor, d.counter), q)
                            /\ \A b \in Actor : \A j \in 1 .. t.clock[b] :
                                  \/ T[b][j].kind # "Changes"
                                  \/ At(b, j) = d
                                  \/ b = n /\ ~contains(T[b][j].seen, d)
                                  \/ Spares(T, b, j, q, d)
    BY Zenon DEF DotsOK
  <2>1. t.dots[q] = {d \in s.dots[q] : Spares(T, a, k, q, d)} \cup NewDots(OpsAt(T, a, k), q)
    BY <1>1, Zenon DEF ApplyOps, Spares
  <2>2. k \in 1 .. t.clock[a]
    BY <1>2, <1>3
  <2>3. ASSUME NEW b \in Actor, NEW j \in 1 .. t.clock[b], T[b][j].kind = "Changes",
               At(b, j) \in NewDots(OpsAt(T, b, j), q), At(b, j) \notin t.dots[q]
        PROVE  \E c \in Actor : \E i \in 1 .. t.clock[c] :
                  T[c][i].kind = "Changes" /\ At(c, i) # At(b, j) /\ ~Spares(T, c, i, q, At(b, j))
    <3>1. ~ (b = a /\ j = k)
      BY <2>1, <2>3, Zenon
    <3>2. j \in 1 .. s.clock[b]
      BY <1>4, <2>3, <3>1, Zenon
    <3>3. CASE At(b, j) \notin s.dots[q]
      <4>1. PICK c \in Actor : \E i \in 1 .. s.clock[c] :
               T[c][i].kind = "Changes" /\ At(c, i) # At(b, j) /\ ~Spares(T, c, i, q, At(b, j))
        BY <1>6, <2>3, <3>2, <3>3, Zenon DEF DotsOK
      <4>2. PICK i \in 1 .. s.clock[c] :
               T[c][i].kind = "Changes" /\ At(c, i) # At(b, j) /\ ~Spares(T, c, i, q, At(b, j))
        BY <4>1, Zenon
      <4> QED
        BY <1>5, <4>2, Zenon
    <3>4. CASE At(b, j) \in s.dots[q]
      <4>1. ~Spares(T, a, k, q, At(b, j))
        BY <2>1, <2>3, <3>4, Zenon
      <4>2. At(a, k) # At(b, j)
        BY <3>1, Zenon DEF At
      <4> QED
        BY <2>2, <4>1, <4>2, Zenon
    <3> QED
      BY <3>3, <3>4, Zenon
  <2>4. ASSUME NEW d \in t.dots[q]
        PROVE  /\ d.counter <= t.clock[d.actor]
               /\ T[d.actor][d.counter].kind = "Changes"
               /\ d \in NewDots(OpsAt(T, d.actor, d.counter), q)
    <3>1. CASE d \in s.dots[q]
      <4>1. d.actor \in Actor /\ d.counter \in Nat
        BY <1>2, <3>1 DEF QuadState, Dot
      <4>2. d.counter <= s.clock[d.actor] /\ T[d.actor][d.counter].kind = "Changes"
            /\ d \in NewDots(OpsAt(T, d.actor, d.counter), q)
        BY <1>6, <3>1, Zenon DEF DotsOK
      <4> QED
        BY <1>3, <4>1, <4>2
    <3>2. CASE d \in NewDots(OpsAt(T, a, k), q)
      <4>1. d = At(a, k)
        BY <3>2, OpsFacts, Zenon
      <4>2. d.actor = a /\ d.counter = k
        BY <4>1, Zenon DEF At
      <4> QED
        BY <1>2, <1>3, <3>2, <4>2
    <3> QED
      BY <2>1, <3>1, <3>2, Zenon
  <2>5. ASSUME NEW d \in t.dots[q], NEW b \in Actor, NEW j \in 1 .. t.clock[b],
               T[b][j].kind = "Changes", At(b, j) # d
        PROVE  (b = n /\ ~contains(T[b][j].seen, d)) \/ Spares(T, b, j, q, d)
    <3>1. CASE d \in NewDots(OpsAt(T, a, k), q)
      <4>1. d = At(a, k)
        BY <3>1, OpsFacts, Zenon
      <4>2. ~ (b = a /\ j = k)
        BY <2>5, <4>1, Zenon
      <4>3. j \in 1 .. s.clock[b]
        BY <1>4, <2>5, <4>2, Zenon
      <4> QED
        BY <1>8, <2>5, <4>1, <4>3, Zenon
    <3>2. CASE d \in s.dots[q] /\ Spares(T, a, k, q, d)
      <4>1. CASE j \in 1 .. s.clock[b]
        <5>1. \/ T[b][j].kind # "Changes"
              \/ At(b, j) = d
              \/ b = n /\ ~contains(T[b][j].seen, d)
              \/ Spares(T, b, j, q, d)
          BY <1>6, <3>2, <4>1, Zenon DEF DotsOK
        <5> QED
          BY <2>5, <5>1, Zenon
      <4>2. CASE b = a /\ j = k
        BY <3>2, <4>2, Zenon
      <4> QED
        BY <1>4, <2>5, <4>1, <4>2, Zenon
    <3> QED
      BY <2>1, <3>1, <3>2, Zenon
  <2> QED
    BY <2>3, <2>4, <2>5, Zenon
<1> QED
  BY <1>7, <1>9, Zenon DEF DataOK, t

-----------------------------------------------------------------------------
(* The cursor and the pages.                                               *)

LEMMA SameData ==
    ASSUME NEW T, NEW n, NEW s, NEW t, t.clock = s.clock, t.dots = s.dots, t.tomb = s.tomb
    PROVE  /\ DataOK(T, n, s) => DataOK(T, n, t)
           /\ OpenOK(T, n, s) => OpenOK(T, n, t)
           /\ \A i : HoldOK(T, n, s, i) => HoldOK(T, n, t, i)
<1>1. OrderOK(T, n, s) => OrderOK(T, n, t)
  BY Zenon DEF OrderOK, AppliedUpTo
<1>2. DotsOK(T, n, s) => DotsOK(T, n, t)
  BY ZenonT(40) DEF DotsOK
<1> QED
  BY <1>1, <1>2, ZenonT(30) DEF DataOK, OpenOK, HoldOK

\* The cursor moves to where the page is.
LEMMA CursorStore ==
    ASSUME NEW T \in Topics, NEW n \in Actor, NEW h \in VectorClock, Closed(T, h),
           NEW s \in Store, NEW t \in Store, NEW p \in Page, NEW c \in VectorClock,
           StoreOK(T, h, n, s), PageOK(T, h, n, s, p), Leq(c, p.target),
           t.clock = s.clock, t.cursor = c, t.target = p.keep, Backed(T, t, c), LedgerOK(T, h, t)
    PROVE  StoreOK(T, h, n, t)
<1>1. p.target \in VectorClock /\ Goal(h, s) \in VectorClock /\ s.clock \in VectorClock
  BY Zenon DEF Page, Goal, Store
<1>2. Leq(p.target, h) /\ Leq(Goal(h, s), h) /\ Leq(s.clock, h)
  BY Zenon DEF PageOK, StoreOK
<1>3. CASE p.keep = NoEvents
  <2>1. Goal(h, t) = h
    BY <1>3, Zenon DEF Goal
  <2>2. SawWithin(T, n, h)
    <3> SUFFICES ASSUME NEW k \in 1 .. Len(T[n]), NEW a \in Actor \ {n}
                 PROVE  T[n][k].seen[a] <= h[a]
      BY Zenon DEF SawWithin
    <3>1. T[n][k].seen[a] \in Nat /\ Goal(h, s)[a] \in Nat /\ h[a] \in Nat
      BY <1>1, RecordTypes, SMTT(30) DEF Record, VectorClock
    <3>2. T[n][k].seen[a] <= Goal(h, s)[a]
      BY Zenon DEF StoreOK, SawWithin
    <3>3. Goal(h, s)[a] <= h[a]
      BY <1>2, Zenon DEF Leq
    <3> QED
      BY <3>1, <3>2, <3>3
  <2>3. Leq(c, h) /\ Leq(h, h)
    BY <1>1, <1>2, LeqTransitive, LeqReflexive, Zenon
  <2>4. \A a \in Actor \ {n} : t.clock[a] <= h[a]
    BY <1>2, Zenon DEF Leq
  <2> QED
    BY <1>2, <2>1, <2>2, <2>3, <2>4, Zenon DEF StoreOK
<1>4. CASE p.keep # NoEvents
  <2>1. Goal(h, t) = p.target
    BY <1>4, Zenon DEF Goal, PageOK
  <2> QED
    BY <1>2, <2>1, Zenon DEF StoreOK, PageOK
<1> QED
  BY <1>3, <1>4, Zenon

\* The page after its next record.
LEMMA ConsumeStep ==
    ASSUME NEW p \in Page, NEW d, d.actor \in Actor, d.counter \in Nat,
           d.counter = p.clock[d.actor] + 1, p.left > 0
    PROVE  /\ consume(p, d) \in Page
           /\ consume(p, d).clock = [p.clock EXCEPT ![d.actor] = d.counter]
           /\ consume(p, d).target = p.target /\ consume(p, d).keep = p.keep
           /\ consume(p, d).on = p.on /\ consume(p, d).left = p.left - 1
<1> DEFINE a == d.actor
           k == d.counter
<1>1. p.clock \in VectorClock /\ p.clock[a] \in Nat /\ p.left \in Nat
  BY Zenon DEF Page, VectorClock
<1>2. advance(p.clock, a, k) = [p.clock EXCEPT ![a] = k]
  <2>1. a \in Actor /\ k \in Nat /\ k = p.clock[a] + 1
    BY Zenon
  <2> HIDE DEF a, k
  <2> QED
    BY <1>1, <2>1 DEF advance
<1>3. [p.clock EXCEPT ![a] = k] \in VectorClock
  BY <1>1, Zenon DEF VectorClock
<1>4. p.left - 1 \in Nat
  BY <1>1
<1> QED
  BY <1>2, <1>3, <1>4, Zenon DEF consume, Page

LEMMA BetweenFinite ==
    ASSUME NEW c, NEW e
    PROVE  IsFiniteSet(Between(c, e)) /\ Cardinality(Between(c, e)) \in Nat
<1> DEFINE P == Actor \X (1 .. MaxRecords)
           Q == [actor : Actor, counter : 1 .. MaxRecords]
           f == [x \in P |-> [actor |-> x[1], counter |-> x[2]]]
<1>1. IsFiniteSet(P)
  <2>1. IsFiniteSet(1 .. MaxRecords)
    BY LimitAssumption, FS_Interval
  <2> QED
    BY <2>1, ActorAssumption, FS_Product, Zenon
<1>2. f \in Surjection(P, Q)
  <2>1. f \in [P -> Q]
    BY Zenon
  <2>2. ASSUME NEW d \in Q PROVE \E x \in P : f[x] = d
    <3>1. <<d.actor, d.counter>> \in P
      BY Zenon
    <3>2. f[<<d.actor, d.counter>>] = d
      BY <3>1, Zenon
    <3> QED
      BY <3>1, <3>2, Zenon
  <2> HIDE DEF f, P, Q
  <2> QED
    BY <2>1, <2>2, Zenon DEF Surjection
<1>3. IsFiniteSet(Q)
  <2> HIDE DEF f, P, Q
  <2> QED
    BY <1>1, <1>2, FS_Surjection, Zenon
<1>4. Between(c, e) \in SUBSET Q
  BY Zenon DEF Between
<1>5. IsFiniteSet(Between(c, e))
  <2> HIDE DEF Q
  <2> QED
    BY <1>3, <1>4, FS_Subset, Zenon
<1> QED
  BY <1>5, FS_CardinalityType, Zenon

\* One record less is left after the next one.
LEMMA BetweenStep ==
    ASSUME NEW c \in VectorClock, NEW e \in VectorClock, NEW a \in Actor, NEW k \in 1 .. MaxRecords,
           k = c[a] + 1, k <= e[a]
    PROVE  Cardinality(Between([c EXCEPT ![a] = k], e)) = Cardinality(Between(c, e)) - 1
<1> DEFINE f == [c EXCEPT ![a] = k]
<1>0. MaxRecords \in Nat
  BY LimitAssumption, Zenon
<1>1. \A b \in Actor : c[b] \in Nat /\ e[b] \in Nat /\ f[b] = IF b = a THEN k ELSE c[b]
  BY <1>0, Zenon DEF VectorClock
<1> HIDE DEF f
<1>2. ASSUME NEW d \in Between(f, e) PROVE d \in Between(c, e) /\ d # At(a, k)
  BY <1>0, <1>1 DEF Between, At
<1>3. ASSUME NEW d \in Between(c, e), d # At(a, k) PROVE d \in Between(f, e)
  <2>1. d.actor \in Actor /\ d.counter \in 1 .. MaxRecords /\ d = At(d.actor, d.counter)
    BY Zenon DEF Between, At
  <2>2. d.actor = a => d.counter # k
    BY <1>3, <2>1, Zenon
  <2> QED
    BY <1>0, <1>1, <2>1, <2>2 DEF Between
<1>4. Between(f, e) = Between(c, e) \ {At(a, k)}
  BY <1>2, <1>3, Zenon
<1>5. At(a, k) \in Between(c, e)
  BY <1>0, <1>1 DEF Between, At
<1> QED
  BY <1>4, <1>5, BetweenFinite, FS_RemoveElement, Zenon DEF f

LEMMA ConsumePage ==
    ASSUME NEW T \in Topics, NEW n \in Actor, NEW h \in VectorClock, Leq(h, Lengths(T)),
           NEW s \in Store, NEW t \in Store, NEW p \in Page, NEW r \in Page, PageOK(T, h, n, s, p),
           NEW a \in Actor, NEW k \in 1 .. MaxRecords, k = p.clock[a] + 1, k <= p.target[a],
           r.clock = [p.clock EXCEPT ![a] = k], r.target = p.target, r.keep = p.keep,
           p.left > 0, r.left = p.left - 1,
           Leq(t.cursor, r.clock), Leq(p.target, Goal(h, t)), Backed(T, t, p.clock),
           \A b \in Actor \ {n} : t.clock[b] <= p.target[b],
           T[a][k].kind = "Changes" => t.tomb \/ k <= t.clock[a],
           T[a][k].kind = "Delete" => t.tomb,
           T[a][k].kind = "Bad" => At(a, k) \in t.ledger \cup t.settled
    PROVE  PageOK(T, h, n, t, r) /\ Backed(T, t, r.clock)
<1>0. MaxRecords \in Nat
  BY LimitAssumption, Zenon
<1>1. p.clock \in VectorClock /\ p.target \in VectorClock /\ p.left \in Nat
  BY Zenon DEF Page
<1>2. \A b \in Actor : p.clock[b] \in Nat /\ p.target[b] \in Nat /\ r.clock[b] = IF b = a THEN k ELSE p.clock[b]
  BY <1>0, <1>1, Zenon DEF VectorClock
<1>3. Leq(r.clock, r.target)
  <2> SUFFICES ASSUME NEW b \in Actor PROVE r.clock[b] <= p.target[b]
    BY Zenon DEF Leq
  <2>1. p.clock[b] <= p.target[b]
    BY Zenon DEF PageOK, Leq
  <2> QED
    BY <1>2, <2>1, Zenon
<1>4. Backed(T, t, r.clock)
  <2> SUFFICES ASSUME NEW b \in Actor, NEW j \in 1 .. r.clock[b]
               PROVE  /\ T[b][j].kind = "Changes" => t.tomb \/ j <= t.clock[b]
                      /\ T[b][j].kind = "Delete" => t.tomb
                      /\ T[b][j].kind = "Bad" => At(b, j) \in t.ledger \cup t.settled
    BY Zenon DEF Backed
  <2>1. (b = a /\ j = k) \/ j \in 1 .. p.clock[b]
    BY <1>0, <1>2
  <2>2. CASE b = a /\ j = k
    BY <2>2, Zenon
  <2>3. CASE j \in 1 .. p.clock[b]
    BY <2>3, Zenon DEF Backed
  <2> QED
    BY <2>1, <2>2, <2>3, Zenon
<1>5. p.keep = NoEvents => r.left = Cardinality(Between(r.clock, r.target))
  BY <1>1, BetweenStep DEF PageOK
<1> QED
  BY <1>3, <1>4, <1>5, Zenon DEF PageOK

\* The last page of a pass ends at its target.
LEMMA PageDone ==
    ASSUME NEW T \in Topics, NEW n, NEW h \in VectorClock, Leq(h, Lengths(T)),
           \A a \in Actor : Len(T[a]) <= MaxRecords, NEW s, NEW p \in Page,
           PageOK(T, h, n, s, p), p.keep = NoEvents, p.left = 0, NEW a \in Actor
    PROVE  p.target[a] <= p.clock[a]
<1>1. p.clock[a] \in Nat /\ p.target[a] \in Nat /\ h[a] \in Nat /\ Len(T[a]) \in Nat /\ MaxRecords \in Nat
  BY LimitAssumption DEF Page, VectorClock, Topics
<1>2. Between(p.clock, p.target) = {}
  BY BetweenFinite, FS_EmptySet, Zenon DEF PageOK
<1>3. p.target[a] <= h[a] /\ h[a] <= Len(T[a]) /\ Len(T[a]) <= MaxRecords
  BY Zenon DEF PageOK, Leq, Lengths
<1>4. ASSUME p.clock[a] < p.target[a] PROVE FALSE
  <2>1. p.target[a] \in 1 .. MaxRecords
    BY <1>1, <1>3, <1>4
  <2>2. At(a, p.target[a]) \in Between(p.clock, p.target)
    BY <1>1, <1>4, <2>1 DEF Between, At
  <2> QED
    BY <1>2, <2>2, Zenon
<1> QED
  BY <1>1, <1>4

\* The constants and the topic of a state, in the form the lemmas need.
LEMMA StateFacts ==
    ASSUME SyncInv
    PROVE  /\ topic \in Topics /\ have \in [Actor -> VectorClock] /\ Node \subseteq Actor
           /\ \A a \in Actor : \A k \in 1 .. Len(topic[a]) : RecordOK(topic, a, k)
           /\ \A a \in Actor : have[a] \in VectorClock /\ Leq(have[a], Lengths(topic))
                               /\ Closed(topic, have[a]) /\ have[a][a] = Len(topic[a])
           /\ \A a \in Actor : Len(topic[a]) \in Nat /\ Len(topic[a]) <= MaxRecords
           /\ \A n \in Node : /\ store[n] \in Store /\ disk[n] \in Store /\ pass[n] \in Page
                              /\ hold[n] \in Nat /\ NodeOK(n)
           /\ MaxRecords \in Nat /\ PageRecords \in Nat \ {0} /\ NoEvents \in VectorClock
<1>1. topic \in Topics /\ have \in [Actor -> VectorClock] /\ Node \subseteq Actor
  BY Zenon DEF SyncInv, TypeOK, Topics, Node
<1>2. \A a \in Actor : Leq(have[a], Lengths(topic))
  BY Zenon DEF SyncInv, TopicOK, Leq, Lengths
<1>3. NoEvents \in VectorClock /\ MaxRecords \in Nat /\ PageRecords \in Nat \ {0}
  BY LimitAssumption, Zenon DEF NoEvents, VectorClock
<1>4. \A a \in Actor : Len(topic[a]) \in Nat
  BY <1>1 DEF Topics
<1>5. \A n \in Node : /\ store[n] \in Store /\ disk[n] \in Store /\ pass[n] \in Page /\ hold[n] \in Nat
  BY Zenon DEF SyncInv, TypeOK
<1> QED
  BY <1>1, <1>2, <1>3, <1>4, <1>5, Zenon DEF SyncInv, TopicOK

\* The next record of a page comes after all it observes.
LEMMA NextIsReady ==
    ASSUME SyncInv, NEW n \in Node, pass[n].left > 0, NEW dot \in NextRecords(n)
    PROVE  /\ pass[n].on /\ PageOK(topic, have[n], n, store[n], pass[n])
           /\ dot.actor \in Actor /\ dot.counter \in 1 .. MaxRecords
           /\ dot = At(dot.actor, dot.counter)
           /\ dot.counter = pass[n].clock[dot.actor] + 1
           /\ dot.counter <= pass[n].target[dot.actor]
           /\ dot.counter <= have[n][dot.actor]
           /\ dot.counter \in 1 .. Len(topic[dot.actor])
           /\ Leq(topic[dot.actor][dot.counter].observed, pass[n].clock)
<1> DEFINE a == dot.actor
           k == dot.counter
           p == pass[n]
<1>1. p.on /\ PageOK(topic, have[n], n, store[n], p)
  BY StateFacts DEF NodeOK
<1>2. /\ a \in Actor /\ k \in 1 .. MaxRecords /\ dot = At(a, k)
      /\ k = p.clock[a] + 1 /\ k <= p.target[a]
  BY Zenon DEF NextRecords, Candidates, Between, At
<1>3. p.clock \in VectorClock /\ p.target \in VectorClock /\ have[n] \in VectorClock
      /\ Leq(p.target, have[n]) /\ Leq(have[n], Lengths(topic)) /\ Closed(topic, p.target)
  BY <1>1, StateFacts, Zenon DEF Page, PageOK
<1>4. \A b \in Actor : /\ p.clock[b] \in Nat /\ p.target[b] \in Nat /\ have[n][b] \in Nat
                       /\ Len(topic[b]) \in Nat /\ p.target[b] <= have[n][b]
                       /\ have[n][b] <= Len(topic[b]) /\ Len(topic[b]) <= MaxRecords
  BY <1>3, StateFacts, Zenon DEF VectorClock, Leq, Lengths
<1>5. MaxRecords \in Nat
  BY StateFacts, Zenon
<1>6. k <= have[n][a] /\ k \in 1 .. Len(topic[a]) /\ k \in 1 .. p.target[a]
  BY <1>2, <1>4, <1>5
<1>7. topic[a][k].observed \in VectorClock /\ topic[a][k].gen \in Nat /\ Leq(topic[a][k].observed, p.target)
  <2>1. topic[a][k] \in Record
    BY <1>2, <1>6, StateFacts, RecordTypes, ZenonT(30)
  <2> QED
    BY <1>2, <1>3, <1>6, <2>1, Zenon DEF Record, Closed
<1>8. ASSUME NEW b \in Actor, ~ (topic[a][k].observed[b] <= p.clock[b]) PROVE FALSE
  <2> DEFINE j == p.clock[b] + 1
  <2>1. topic[a][k].observed[b] \in Nat /\ topic[a][k].observed[b] <= p.target[b]
    BY <1>7, Zenon DEF VectorClock, Leq
  <2>2. j \in 1 .. MaxRecords /\ j <= p.target[b] /\ j \in 1 .. topic[a][k].observed[b]
        /\ j \in 1 .. Len(topic[b])
    <3> DEFINE c == p.clock[b]
               e == p.target[b]
               o == topic[a][k].observed[b]
               h == have[n][b]
               l == Len(topic[b])
    <3>1. /\ c \in Nat /\ e \in Nat /\ o \in Nat /\ h \in Nat /\ l \in Nat /\ MaxRecords \in Nat
          /\ ~ (o <= c) /\ o <= e /\ e <= h /\ h <= l /\ l <= MaxRecords /\ j = c + 1
      BY <1>4, <1>5, <1>8, <2>1, Zenon
    <3> HIDE DEF c, e, o, h, l, j
    <3>2. j \in 1 .. MaxRecords /\ j <= e /\ j \in 1 .. o /\ j \in 1 .. l
      BY <3>1
    <3> QED
      BY <3>2, Zenon DEF e, o, l
  <2>3. At(b, j) \in Candidates(n) /\ RecordOf(At(b, j)) = topic[b][j]
    BY <1>4, <2>2 DEF Candidates, Between, At, RecordOf
  <2>4. topic[b][j].gen < topic[a][k].gen
    BY <1>2, <1>6, <2>2, StateFacts, Zenon DEF RecordOK
  <2>5. topic[a][k].gen <= topic[b][j].gen
    BY <2>3, Zenon DEF NextRecords, RecordOf
  <2>6. topic[b][j].gen \in Nat
    BY <2>2, StateFacts, RecordTypes, Zenon DEF Record
  <2> QED
    BY <1>7, <2>4, <2>5, <2>6, SMTT(30)
<1> QED
  BY <1>1, <1>2, <1>6, <1>8, Zenon DEF Leq

-----------------------------------------------------------------------------
(* The steps of a node that apply a record.                                *)

\* The first own record that is left: its own earlier data is applied.
LEMMA OwnPendingFacts ==
    ASSUME SyncInv, NEW n \in Node, NEW k \in 1 .. Len(topic[n]), own_pending(n) = k
    PROVE  /\ k > store[n].clock[n]
           /\ \A j \in 1 .. k - 1 :
                 topic[n][j].kind = "Changes" => store[n].tomb \/ j <= store[n].clock[n]
<1> DEFINE x == store[n].clock[n]
           y == store[n].cursor[n]
           after == Max({x, y})
           pending == {i \in after + 1 .. have[n][n] : topic[n][i].kind # "Control"}
<1>1. n \in Actor /\ x \in Nat /\ y \in Nat /\ have[n][n] = Len(topic[n]) /\ Len(topic[n]) \in Nat
  BY StateFacts, Zenon DEF Store, VectorClock
<1>2. after \in {x, y} /\ x <= after /\ y <= after
  <2>1. \E z \in {x, y} : \A w \in {x, y} : z >= w
    BY <1>1
  <2> HIDE DEF x, y
  <2> QED
    BY <1>1, <2>1, Zenon DEF Max
<1>3. own_pending(n) = IF pending = {} THEN 0 ELSE Min(pending)
  BY Zenon DEF own_pending
<1> HIDE DEF x, y, after
<1>4. after \in Nat /\ pending \subseteq Nat /\ k \in Nat \ {0}
  BY <1>1, <1>2
<1>5. pending # {} /\ k = Min(pending)
  BY <1>3, <1>4, Zenon
<1>6. k \in pending /\ \A j \in pending : k <= j
  <2> HIDE DEF pending
  <2> QED
    BY <1>4, <1>5, HasMin, Zenon
<1>7. k > x
  BY <1>1, <1>2, <1>4, <1>6, SMTT(30)
<1>8. ASSUME NEW j \in 1 .. k - 1, topic[n][j].kind = "Changes" PROVE store[n].tomb \/ j <= x
  <2>1. j \notin pending
    <3> HIDE DEF pending
    <3> QED
      BY <1>4, <1>6
  <2>2. j <= after
    BY <1>1, <1>4, <1>8, <2>1
  <2>3. CASE j <= x
    BY <2>3, Zenon
  <2>4. CASE j \in 1 .. y
    BY <1>1, <1>8, <2>4, StateFacts, Zenon DEF NodeOK, StoreOK, Backed, x, y
  <2> QED
    BY <1>1, <1>2, <1>4, <2>2, <2>3, <2>4, SMTT(30)
<1> QED
  BY <1>7, <1>8, Zenon DEF x

\* What applying a record does, by its kind.
LEMMA ApplyCases ==
    ASSUME NEW s, NEW a, NEW k
    PROVE  LET t == apply_record_locked(s, At(a, k)) IN
           /\ topic[a][k].kind = "Changes" /\ s.clock[a] >= k => t = s
           /\ topic[a][k].kind = "Changes" /\ ~ (s.clock[a] >= k) => t = WithData(topic, s, a, k)
           /\ topic[a][k].kind = "Delete" => t = Deleted(s)
           /\ topic[a][k].kind \notin {"Changes", "Delete"} => t = s
<1>1. At(a, k).actor = a /\ At(a, k).counter = k
  BY Zenon DEF At
<1> QED
  BY <1>1, Zenon DEF apply_record_locked, RecordOf, batch_from_changes, contains, WithData, Deleted, OpsAt

\* A record of the node's topic, within the goal, is applied: the store advances.
LEMMA ApplyAdvances ==
    ASSUME SyncInv, NEW n \in Node, NEW a \in Actor, NEW k \in 1 .. Len(topic[a]),
           k <= have[n][a], a # n => k <= Goal(have[n], store[n])[a]
    PROVE  LET t == apply_record_locked(store[n], At(a, k)) IN
           /\ t \in Store /\ Advances(store[n], t)
           /\ StoreOK(topic, have[n], n, t) /\ DiskOK(t, disk[n])
           /\ n \in open => OpenOK(topic, n, t)
           /\ topic[a][k].kind = "Changes" => k <= t.clock[a]
           /\ topic[a][k].kind = "Delete" => t.tomb
           /\ pass[n].on /\ (a # n => k <= pass[n].target[a])
                => PageOK(topic, have[n], n, t, pass[n])
           /\ t.ledger = store[n].ledger /\ t.settled = store[n].settled
<1> DEFINE s == store[n]
           t == apply_record_locked(s, At(a, k))
<1>1. /\ s \in Store /\ n \in Actor /\ topic \in Topics /\ have[n] \in VectorClock
      /\ s.clock \in VectorClock /\ disk[n] \in Store /\ pass[n] \in Page
      /\ StoreOK(topic, have[n], n, s) /\ DiskOK(s, disk[n])
      /\ n \in open => OpenOK(topic, n, s)
      /\ pass[n].on => PageOK(topic, have[n], n, s, pass[n])
  BY StateFacts, Zenon DEF NodeOK, Store
<1>2. k \in Nat /\ s.clock[a] \in Nat
  BY <1>1 DEF VectorClock
<1> HIDE DEF s
<1>3. CASE t = s
  <2>1. Advances(s, s)
    BY <1>1, LeqReflexive, Zenon DEF Advances
  <2>2. topic[a][k].kind = "Changes" => k <= s.clock[a]
    <3> SUFFICES ASSUME topic[a][k].kind = "Changes", ~ (s.clock[a] >= k) PROVE FALSE
      BY <1>2, Zenon
    <3>1. s = WithData(topic, s, a, k)
      BY <1>3, ApplyCases, SMTT(30)
    <3>2. s.clock = [s.clock EXCEPT ![a] = k]
      BY <1>1, <1>2, <3>1, DataStep
    <3>3. s.clock[a] = k
      BY <1>1, <3>2, Zenon DEF VectorClock
    <3> QED
      BY <1>2, <3>3
  <2>3. topic[a][k].kind = "Delete" => s.tomb
    BY <1>1, <1>3, ApplyCases, DeleteStep
  <2> QED
    BY <1>1, <1>3, <2>1, <2>2, <2>3, Zenon DEF s
<1>4. CASE topic[a][k].kind = "Changes" /\ ~ (s.clock[a] >= k)
  <2>1. t = WithData(topic, s, a, k) /\ k > s.clock[a]
    BY <1>2, <1>4, ApplyCases
  <2>2. /\ t \in Store /\ Advances(s, t) /\ t.clock = [s.clock EXCEPT ![a] = k]
        /\ t.ledger = s.ledger /\ t.settled = s.settled
    <3>1. /\ t \in Store /\ Advances(s, t) /\ t.clock = [s.clock EXCEPT ![a] = k]
      BY <1>1, <2>1, DataStep
    <3> QED
      BY <1>1, <2>1, <3>1, ZenonT(30) DEF WithData, Store
  <2> HIDE DEF t
  <2>3. \A b \in Actor : t.clock[b] = IF b = a THEN k ELSE s.clock[b]
    BY <1>1, <2>2, Zenon DEF VectorClock
  <2>4. Leq(t.clock, have[n]) /\ \A b \in Actor \ {n} : t.clock[b] <= Goal(have[n], s)[b]
    BY <1>1, <2>3, Zenon DEF StoreOK, Leq, s
  <2>5. StoreOK(topic, have[n], n, t)
    BY <1>1, <2>2, <2>4, AdvanceStore, Zenon
  <2>6. n \in open => OpenOK(topic, n, t)
    BY <1>1, <2>2, AdvanceOpen, Zenon
  <2>7. ASSUME pass[n].on, a # n => k <= pass[n].target[a] PROVE PageOK(topic, have[n], n, t, pass[n])
    <3>1. \A b \in Actor \ {n} : t.clock[b] <= pass[n].target[b]
      BY <1>1, <2>3, <2>7, Zenon DEF PageOK
    <3> QED
      BY <1>1, <2>2, <2>7, <3>1, AdvancePage, Zenon
  <2>8. DiskOK(t, disk[n])
    BY <1>1, <2>2, AdvanceDisk, Zenon
  <2>9. k <= t.clock[a]
    BY <1>2, <2>3
  <2> QED
    BY <1>4, <2>2, <2>5, <2>6, <2>7, <2>8, <2>9, Zenon DEF t, s
<1>5. CASE topic[a][k].kind = "Delete"
  <2>1. t = Deleted(s)
    BY <1>5, ApplyCases, Zenon
  <2>2. /\ t \in Store /\ Advances(s, t) /\ t.clock = NoEvents /\ t.tomb
        /\ t.ledger = s.ledger /\ t.settled = s.settled
    <3>1. /\ t \in Store /\ Advances(s, t) /\ t.clock = NoEvents /\ t.tomb
      BY <1>1, <2>1, DeleteStep, Zenon
    <3> QED
      BY <1>1, <2>1, <3>1, Zenon DEF Deleted, Store
  <2> HIDE DEF t
  <2>3. \A c \in VectorClock : Leq(t.clock, c)
    <3> SUFFICES ASSUME NEW c \in VectorClock, NEW b \in Actor PROVE t.clock[b] <= c[b]
      BY Zenon DEF Leq
    <3>1. t.clock[b] = 0 /\ c[b] \in Nat
      BY <2>2, Zenon DEF NoEvents, VectorClock
    <3> QED
      BY <3>1
  <2>4. Goal(have[n], s) \in VectorClock /\ pass[n].target \in VectorClock
    BY <1>1, Zenon DEF Goal, Store, Page
  <2>5. StoreOK(topic, have[n], n, t)
    BY <1>1, <2>2, <2>3, <2>4, AdvanceStore, Zenon DEF Leq
  <2>6. n \in open => OpenOK(topic, n, t)
    BY <1>1, <2>2, AdvanceOpen, Zenon
  <2>7. pass[n].on => PageOK(topic, have[n], n, t, pass[n])
    BY <1>1, <2>2, <2>3, <2>4, AdvancePage, Zenon DEF Leq
  <2>8. DiskOK(t, disk[n])
    BY <1>1, <2>2, AdvanceDisk, Zenon
  <2> QED
    BY <1>5, <2>2, <2>5, <2>6, <2>7, <2>8, Zenon DEF t, s
<1>6. \/ t = s
      \/ topic[a][k].kind = "Changes" /\ ~ (s.clock[a] >= k)
      \/ topic[a][k].kind = "Delete"
  BY ApplyCases, Zenon
<1> QED
  BY <1>3, <1>4, <1>5, <1>6, Zenon

\* Applied in its order, a record leaves the store a reduction of the topic.
LEMMA ApplyFollows ==
    ASSUME SyncInv, NEW n \in Node, n \notin skipped, NEW a \in Actor, NEW k \in 1 .. Len(topic[a]),
           topic[a][k].kind = "Changes" /\ ~store[n].tomb /\ k > store[n].clock[a] =>
              /\ \A j \in 1 .. k - 1 : topic[a][j].kind = "Changes" => j <= store[n].clock[a]
              /\ AppliedUpTo(topic, store[n], Context(topic, n, a, k))
    PROVE  DataOK(topic, n, apply_record_locked(store[n], At(a, k)))
<1> DEFINE s == store[n]
           t == apply_record_locked(s, At(a, k))
<1>1. /\ s \in Store /\ n \in Actor /\ topic \in Topics /\ s.clock[a] \in Nat /\ k \in Nat
      /\ DataOK(topic, n, s) /\ Leq(s.clock, Lengths(topic))
      /\ \A b \in Actor : \A j \in 1 .. Len(topic[b]) : RecordOK(topic, b, j)
  <2>1. have[n] \in VectorClock /\ Leq(have[n], Lengths(topic)) /\ s.clock \in VectorClock
    BY StateFacts, Zenon DEF Store
  <2>2. Leq(s.clock, have[n])
    BY StateFacts, Zenon DEF NodeOK, StoreOK
  <2>3. Lengths(topic) \in VectorClock
    BY StateFacts, LengthsType, Zenon
  <2> QED
    <3>1. Leq(s.clock, Lengths(topic))
      <4> HIDE DEF s
      <4> QED
        BY <2>1, <2>2, <2>3, LeqTransitive, Zenon
    <3>2. s.clock[a] \in Nat
      BY <2>1, Zenon DEF VectorClock
    <3> QED
      BY <3>1, <3>2, StateFacts DEF NodeOK
<1>2. CASE t = s
  BY <1>1, <1>2, Zenon
<1>3. CASE topic[a][k].kind = "Delete"
  <2>1. t = Deleted(s)
    BY <1>3, ApplyCases, Zenon
  <2> QED
    BY <1>1, <2>1, DeleteStep, Zenon DEF DataOK
<1>4. CASE topic[a][k].kind = "Changes" /\ ~ (s.clock[a] >= k)
  <2>1. t = WithData(topic, s, a, k) /\ k > s.clock[a]
    BY <1>1, <1>4, ApplyCases
  <2>2. CASE s.tomb
    <3> HIDE DEF s
    <3>1. WithData(topic, s, a, k).tomb
      BY <1>1, <2>1, <2>2, DataStep, Zenon
    <3>2. DataOK(topic, n, WithData(topic, s, a, k))
      BY <3>1, Zenon DEF DataOK
    <3> QED
      BY <2>1, <3>2, Zenon DEF s
  <2>3. CASE ~s.tomb
    <3> HIDE DEF s, t
    <3>1. /\ \A j \in 1 .. k - 1 : topic[a][j].kind = "Changes" => j <= s.clock[a]
          /\ AppliedUpTo(topic, s, Context(topic, n, a, k))
      BY <1>4, <2>1, <2>3, Zenon DEF s
    <3>2. DataOK(topic, n, WithData(topic, s, a, k))
      BY <1>1, <1>4, <2>1, <2>3, <3>1, DataOKStep, Zenon
    <3> QED
      BY <2>1, <3>2, Zenon DEF s, t
  <2> QED
    BY <2>2, <2>3, ZenonT(30)
<1> QED
  BY <1>2, <1>3, <1>4, ApplyCases, ZenonT(30)

\* A step of node n that leaves the topic and the other nodes alone.
OnlyNode(n) ==
    /\ UNCHANGED <<topic, have>>
    /\ \A m \in Node \ {n} :
          /\ store'[m] = store[m] /\ disk'[m] = disk[m] /\ pass'[m] = pass[m] /\ hold'[m] = hold[m]
          /\ m \in open' <=> m \in open
          /\ m \in skipped' <=> m \in skipped

LEMMA OnlyNodeStep ==
    ASSUME SyncInv, NEW n \in Node, OnlyNode(n), TypeOK', NodeOK(n)'
    PROVE  SyncInv'
<1>1. TopicOK(topic, have)'
  BY Zenon DEF SyncInv, OnlyNode
<1>2. ASSUME NEW m \in Node, m # n PROVE NodeOK(m)'
  <2>1. NodeOK(m)
    BY Zenon DEF SyncInv
  <2> QED
    BY <1>2, <2>1, Zenon DEF NodeOK, OnlyNode
<1> QED
  BY <1>1, <1>2, Zenon DEF SyncInv

\* The published record is applied.
LEMMA FinishPublishStep ==
    ASSUME SyncInv, NEW n \in Node, FinishPublish(n)
    PROVE  SyncInv'
<1> DEFINE k == hold[n]
           t == apply_record_locked(store[n], At(n, k))
<1>1. /\ n \in Actor /\ store[n] \in Store /\ k \in 1 .. Len(topic[n]) /\ k <= have[n][n]
      /\ topic[n][k].seen = store[n].clock /\ store[n].clock \in VectorClock
      /\ At(n, k) = [actor |-> n, counter |-> k] /\ RecordOf(At(n, k)) = topic[n][k]
  BY StateFacts DEF NodeOK, HoldOK, FinishPublish, Store, At, RecordOf
<1>2. NodeOK(n)
  BY StateFacts, Zenon
<1>3. CASE topic[n][k].kind = "Changes" /\ own_pending(n) # k
  <2>1. store' = store
    <3>1. store' = [store EXCEPT ![n] = store[n]]
      BY <1>1, <1>3, Zenon DEF FinishPublish
    <3> QED
      BY <3>1, Zenon DEF SyncInv, TypeOK
  <2>2. TypeOK'
    BY <2>1, Zenon DEF FinishPublish, SyncInv, TypeOK
  <2>3. OnlyNode(n)
    BY <2>1, Zenon DEF FinishPublish, OnlyNode, SyncInv, TypeOK
  <2>4. hold'[n] = 0
    BY Zenon DEF FinishPublish, SyncInv, TypeOK
  <2>5. NodeOK(n)'
    BY <1>2, <2>1, <2>4, Zenon DEF NodeOK, HoldOK, FinishPublish
  <2> QED
    BY <2>2, <2>3, <2>5, OnlyNodeStep, Zenon
<1>4. CASE ~ (topic[n][k].kind = "Changes" /\ own_pending(n) # k)
  <2>1. store' = [store EXCEPT ![n] = t]
    BY <1>1, <1>4, Zenon DEF FinishPublish
  <2>2. /\ t \in Store /\ StoreOK(topic, have[n], n, t) /\ DiskOK(t, disk[n])
        /\ n \in open => OpenOK(topic, n, t)
        /\ pass[n].on => PageOK(topic, have[n], n, t, pass[n])
    BY <1>1, ApplyAdvances, Zenon
  <2>3. n \in skipped \/ DataOK(topic, n, t)
    <3> SUFFICES ASSUME n \notin skipped PROVE DataOK(topic, n, t)
      BY Zenon
    <3>1. ASSUME topic[n][k].kind = "Changes", ~store[n].tomb
          PROVE  /\ \A j \in 1 .. k - 1 : topic[n][j].kind = "Changes" => j <= store[n].clock[n]
                 /\ AppliedUpTo(topic, store[n], Context(topic, n, n, k))
      <4>1. own_pending(n) = k
        BY <1>4, <3>1, Zenon
      <4>2. \A j \in 1 .. k - 1 : topic[n][j].kind = "Changes" => j <= store[n].clock[n]
        BY <1>1, <3>1, <4>1, OwnPendingFacts, ZenonT(30)
      <4>3. AppliedUpTo(topic, store[n], store[n].clock)
        BY <1>1 DEF AppliedUpTo, VectorClock
      <4> QED
        BY <1>1, <4>2, <4>3, Zenon DEF Context
    <3> QED
      BY <1>1, <3>1, ApplyFollows, Zenon
  <2> HIDE DEF t
  <2>4. store'[n] = t /\ hold'[n] = 0
    BY <2>1, Zenon DEF FinishPublish, SyncInv, TypeOK
  <2>5. TypeOK'
    BY <2>1, <2>2, Zenon DEF FinishPublish, SyncInv, TypeOK
  <2>6. OnlyNode(n)
    BY <2>1, Zenon DEF FinishPublish, OnlyNode, SyncInv, TypeOK
  <2>7. NodeOK(n)'
    BY <1>2, <2>2, <2>3, <2>4, Zenon DEF NodeOK, HoldOK, FinishPublish
  <2> QED
    BY <2>5, <2>6, <2>7, OnlyNodeStep, Zenon
<1> QED
  BY <1>3, <1>4, Zenon

\* The record of a retried mutation is applied where it was found.
LEMMA RetryMutationStep ==
    ASSUME SyncInv, NEW n \in Node, NEW k \in 1 .. MaxRecords, RetryMutation(n, k)
    PROVE  SyncInv'
<1> DEFINE t == apply_record_locked(store[n], At(n, k))
<1>1. /\ n \in Actor /\ store[n] \in Store /\ k \in 1 .. Len(topic[n]) /\ k <= have[n][n]
      /\ At(n, k) = [actor |-> n, counter |-> k] /\ n \in open /\ hold[n] = 0
      /\ topic[n][k].kind = "Changes" /\ ~store[n].tomb
  BY StateFacts DEF RetryMutation, At
<1>2. NodeOK(n)
  BY StateFacts, Zenon
<1>3. store' = [store EXCEPT ![n] = t]
  BY <1>1, Zenon DEF RetryMutation
<1>4. /\ t \in Store /\ StoreOK(topic, have[n], n, t) /\ DiskOK(t, disk[n])
      /\ OpenOK(topic, n, t)
      /\ pass[n].on => PageOK(topic, have[n], n, t, pass[n])
  BY <1>1, ApplyAdvances, Zenon
<1>5. n \in skipped' \/ DataOK(topic, n, t)
  <2> SUFFICES ASSUME n \notin skipped' PROVE DataOK(topic, n, t)
    BY Zenon
  <2>1. n \notin skipped /\ own_pending(n) = k
    BY Zenon DEF RetryMutation
  <2>2. \A j \in 1 .. k - 1 : topic[n][j].kind = "Changes" => j <= store[n].clock[n]
    BY <1>1, <2>1, OwnPendingFacts, Zenon
  <2>3. AppliedUpTo(topic, store[n], topic[n][k].seen)
    <3> SUFFICES ASSUME NEW b \in Actor, NEW j \in 1 .. topic[n][k].seen[b],
                        topic[b][j].kind = "Changes"
                 PROVE  j <= store[n].clock[b]
      BY Zenon DEF AppliedUpTo
    <3>1. CASE b # n
      BY <1>1, <1>2, <3>1, Zenon DEF NodeOK, OpenOK
    <3>2. CASE b = n
      <4>1. RecordOK(topic, n, k) /\ topic[n][k].seen \in VectorClock
        BY <1>1, StateFacts, RecordTypes, Zenon DEF Record
      <4>2. topic[n][k].seen[n] <= k - 1 /\ topic[n][k].seen[n] \in Nat
        BY <1>1, <4>1, Zenon DEF RecordOK, Leq, VectorClock
      <4>3. j \in 1 .. k - 1
        BY <1>1, <3>2, <4>2
      <4> QED
        BY <2>2, <3>2, <4>3, Zenon
    <3> QED
      BY <3>1, <3>2, Zenon
  <2> QED
    BY <1>1, <2>1, <2>2, <2>3, ApplyFollows, Zenon DEF Context
<1> HIDE DEF t
<1>6. store'[n] = t
  BY <1>3, Zenon DEF SyncInv, TypeOK
<1>7. TypeOK'
  BY <1>3, <1>4, Zenon DEF RetryMutation, SyncInv, TypeOK
<1>8. OnlyNode(n)
  BY <1>3, Zenon DEF RetryMutation, OnlyNode, SyncInv, TypeOK
<1>9. NodeOK(n)'
  <2>1. n \in skipped' \/ DataOK(topic, n, disk[n])
    BY <1>2, Zenon DEF NodeOK, RetryMutation
  <2> QED
    BY <1>1, <1>2, <1>4, <1>5, <1>6, <2>1, Zenon DEF NodeOK, HoldOK, RetryMutation
<1> QED
  BY <1>7, <1>8, <1>9, OnlyNodeStep, ZenonT(30)

\* The next record of a page is consumed and, if it is a graph event, applied.
LEMMA ApplyNextStep ==
    ASSUME SyncInv, NEW n \in Node, NEW dot \in NextRecords(n), ApplyNext(n, dot)
    PROVE  SyncInv'
<1> DEFINE a == dot.actor
           k == dot.counter
           s == store[n]
           p == pass[n]
           r == consume(p, dot)
           t == apply_record_locked(s, At(a, k))
<1>1. /\ p.on /\ PageOK(topic, have[n], n, s, p)
      /\ a \in Actor /\ k \in 1 .. MaxRecords /\ dot = At(a, k)
      /\ k = p.clock[a] + 1 /\ k <= p.target[a] /\ k <= have[n][a] /\ k \in 1 .. Len(topic[a])
      /\ Leq(topic[a][k].observed, p.clock)
  BY NextIsReady, Zenon DEF ApplyNext
<1>2. /\ n \in Actor /\ topic \in Topics /\ have[n] \in VectorClock /\ Leq(have[n], Lengths(topic))
      /\ s \in Store /\ p \in Page /\ NodeOK(n) /\ MaxRecords \in Nat
  BY StateFacts, Zenon
<1>3. p.clock \in VectorClock /\ p.target \in VectorClock /\ Goal(have[n], s) \in VectorClock
      /\ s.clock \in VectorClock /\ p.left > 0
  BY <1>2, Zenon DEF Page, Goal, Store, ApplyNext
<1>4. k <= Goal(have[n], s)[a]
  <2>1. p.target[a] <= Goal(have[n], s)[a]
    BY <1>1, ZenonT(40) DEF PageOK, Leq
  <2>2. k \in Nat
    <3>1. k \in 1 .. Len(topic[a])
      BY <1>1, Zenon
    <3> HIDE DEF k
    <3> QED
      BY <3>1
  <2>3. p.target[a] \in Nat /\ Goal(have[n], s)[a] \in Nat
    <3> HIDE DEF p, s, a
    <3> QED
      BY <1>1, <1>3, Zenon DEF VectorClock
  <2> HIDE DEF k, p
  <2> QED
    BY <1>1, <2>1, <2>2, <2>3
<1>5. /\ t \in Store /\ StoreOK(topic, have[n], n, t) /\ DiskOK(t, disk[n])
      /\ n \in open => OpenOK(topic, n, t)
      /\ PageOK(topic, have[n], n, t, p)
      /\ topic[a][k].kind = "Changes" => k <= t.clock[a]
      /\ topic[a][k].kind = "Delete" => t.tomb
  BY <1>1, <1>4, ApplyAdvances, Zenon
<1>6. n \in skipped \/ DataOK(topic, n, t)
  <2> SUFFICES ASSUME n \notin skipped PROVE DataOK(topic, n, t)
    BY Zenon
  <2>1. ASSUME topic[a][k].kind = "Changes", ~s.tomb
        PROVE  /\ \A j \in 1 .. k - 1 : topic[a][j].kind = "Changes" => j <= s.clock[a]
               /\ AppliedUpTo(topic, s, Context(topic, n, a, k))
    <3>1. Backed(topic, s, p.clock)
      BY <1>1, Zenon DEF PageOK
    <3>2. \A j \in 1 .. k - 1 : topic[a][j].kind = "Changes" => j <= s.clock[a]
      <4>1. p.clock[a] \in Nat
        BY <1>1, <1>3, Zenon DEF VectorClock
      <4>2. k - 1 = p.clock[a]
        <5> HIDE DEF k, p
        <5> QED
          BY <1>1, <4>1
      <4> QED
        BY <1>1, <2>1, <3>1, <4>1, <4>2, Zenon DEF Backed
    <3>3. AppliedUpTo(topic, s, Context(topic, n, a, k))
      <4> SUFFICES ASSUME NEW b \in Actor, NEW j \in 1 .. Context(topic, n, a, k)[b],
                          topic[b][j].kind = "Changes"
                   PROVE  j <= s.clock[b]
        BY Zenon DEF AppliedUpTo
      <4>1. topic[a][k].seen \in VectorClock /\ topic[a][k].observed \in VectorClock
            /\ RecordOK(topic, a, k)
        BY <1>1, <1>2, StateFacts, RecordTypes, Zenon DEF Record
      <4>2. /\ topic[a][k].seen[b] \in Nat /\ topic[a][k].observed[b] \in Nat /\ p.clock[b] \in Nat
            /\ topic[a][k].seen[b] <= topic[a][k].observed[b] /\ topic[a][k].observed[b] <= p.clock[b]
        BY <1>1, <1>3, <4>1, Zenon DEF VectorClock, RecordOK, Leq
      <4>3. Context(topic, n, a, k) \in {topic[a][k].seen, topic[a][k].observed}
        BY Zenon DEF Context
      <4>4. j \in 1 .. p.clock[b]
        BY <4>2, <4>3
      <4> QED
        BY <2>1, <3>1, <4>4, Zenon DEF Backed
    <3> QED
      BY <3>2, <3>3, Zenon
  <2> QED
    BY <1>1, <2>1, ApplyFollows, Zenon
<1>7. HoldOK(topic, n, t, hold[n])
  <2>1. RecordOf(dot) = topic[a][k]
    BY Zenon DEF RecordOf
  <2>2. CASE topic[a][k].kind = "Control"
    <3>1. t = s
      BY <2>2, ApplyCases
    <3> QED
      BY <1>2, <3>1, Zenon DEF NodeOK
  <2>3. CASE topic[a][k].kind # "Control"
    BY <2>1, <2>3, Zenon DEF ApplyNext, HoldOK
  <2> QED
    BY <2>2, <2>3, Zenon
<1>8. topic[a][k].kind # "Bad"
  BY Zenon DEF ApplyNext, RecordOf
<1>9. store' = [store EXCEPT ![n] = t] /\ pass' = [pass EXCEPT ![n] = r]
  BY <1>1, Zenon DEF ApplyNext
<1>10. /\ r \in Page /\ r.clock = [p.clock EXCEPT ![a] = k] /\ r.target = p.target
       /\ r.keep = p.keep /\ r.on /\ r.left = p.left - 1
  <2>1. k \in Nat
    <3>1. k \in 1 .. MaxRecords
      BY <1>1, Zenon
    <3> HIDE DEF k
    <3> QED
      BY <3>1
  <2>2. p \in Page /\ a \in Actor /\ k = p.clock[a] + 1 /\ p.left > 0
    BY <1>1, <1>2, <1>3, Zenon
  <2> HIDE DEF p
  <2>3. /\ r \in Page /\ r.clock = [p.clock EXCEPT ![a] = k] /\ r.target = p.target
        /\ r.keep = p.keep /\ r.on = p.on /\ r.left = p.left - 1
    BY <2>1, <2>2, ConsumeStep, Zenon
  <2> QED
    BY <1>1, <2>3, Zenon
<1> HIDE DEF t, r, s, p
<1>11. PageOK(topic, have[n], n, t, r)
  <2>1. Leq(t.cursor, r.clock)
    <3> SUFFICES ASSUME NEW b \in Actor PROVE t.cursor[b] <= r.clock[b]
      BY Zenon DEF Leq
    <3>1. t.cursor[b] <= p.clock[b]
      BY <1>5, Zenon DEF PageOK, Leq
    <3>2. t.cursor[b] \in Nat /\ p.clock[b] \in Nat
      BY <1>3, <1>5, Zenon DEF Store, VectorClock
    <3>3. r.clock[b] = IF b = a THEN k ELSE p.clock[b]
      BY <1>3, <1>10, Zenon DEF VectorClock
    <3> QED
      BY <1>1, <3>1, <3>2, <3>3
  <2>2. /\ Leq(p.target, Goal(have[n], t)) /\ Backed(topic, t, p.clock)
        /\ \A b \in Actor \ {n} : t.clock[b] <= p.target[b]
    BY <1>5, Zenon DEF PageOK
  <2> HIDE DEF a, k
  <2> QED
    BY <1>1, <1>2, <1>3, <1>5, <1>8, <1>10, <2>1, <2>2, ConsumePage, ZenonT(40)
<1>12. store'[n] = t /\ pass'[n] = r
  BY <1>9, ZenonT(30) DEF SyncInv, TypeOK
<1>13. TypeOK'
  <2>1. TypeOK /\ UNCHANGED <<topic, have, disk, hold, open, stalled, skipped, faults>>
    BY Zenon DEF ApplyNext, SyncInv
  <2>2. store' \in [Node -> Store] /\ pass' \in [Node -> Page]
    BY <1>5, <1>9, <1>10, <2>1, Zenon DEF TypeOK
  <2> QED
    BY <2>1, <2>2, Zenon DEF TypeOK
<1>14. OnlyNode(n)
  BY <1>9, Zenon DEF ApplyNext, OnlyNode, SyncInv, TypeOK
<1>15. NodeOK(n)'
  BY <1>2, <1>5, <1>6, <1>7, <1>10, <1>11, <1>12, Zenon DEF NodeOK, ApplyNext, s
<1> QED
  BY <1>13, <1>14, <1>15, OnlyNodeStep, Zenon

-----------------------------------------------------------------------------
(* The steps of a node that move its cursor.                               *)

\* The next record of a page is rejected: ledger entry and cursor are one batch.
LEMMA RejectNextStep ==
    ASSUME SyncInv, NEW n \in Node, NEW dot \in NextRecords(n), RejectNext(n, dot)
    PROVE  SyncInv'
<1> DEFINE a == dot.actor
           k == dot.counter
           s == store[n]
           p == pass[n]
           r == consume(p, dot)
           u == [s EXCEPT !.ledger = @ \cup {dot}, !.settled = @ \ {dot},
                          !.cursor = r.clock, !.target = p.keep]
<1>1. /\ p.on /\ PageOK(topic, have[n], n, s, p)
      /\ a \in Actor /\ k \in 1 .. MaxRecords /\ dot = At(a, k)
      /\ k = p.clock[a] + 1 /\ k <= p.target[a] /\ k <= have[n][a] /\ k \in 1 .. Len(topic[a])
  BY NextIsReady, Zenon DEF RejectNext
<1>2. /\ n \in Actor /\ topic \in Topics /\ have[n] \in VectorClock /\ Leq(have[n], Lengths(topic))
      /\ s \in Store /\ p \in Page /\ NodeOK(n) /\ MaxRecords \in Nat /\ Closed(topic, have[n])
  BY StateFacts, Zenon
<1>3. p.left > 0 /\ k \in Nat \ {0} /\ RecordOf(dot) = topic[a][k]
  BY <1>1, <1>2, SMTT(30) DEF RejectNext, RecordOf
<1>4. /\ r \in Page /\ r.clock = [p.clock EXCEPT ![a] = k] /\ r.target = p.target
      /\ r.keep = p.keep /\ r.on /\ r.left = p.left - 1
  <2>1. p \in Page /\ a \in Actor /\ k \in Nat /\ k = p.clock[a] + 1 /\ p.left > 0
    BY <1>1, <1>2, <1>3, Zenon
  <2> HIDE DEF p
  <2>2. /\ r \in Page /\ r.clock = [p.clock EXCEPT ![a] = k] /\ r.target = p.target
        /\ r.keep = p.keep /\ r.on = p.on /\ r.left = p.left - 1
    BY <2>1, ConsumeStep, Zenon
  <2> QED
    BY <1>1, <2>2, Zenon
<1>5. store' = [store EXCEPT ![n] = u] /\ pass' = [pass EXCEPT ![n] = r]
      /\ disk' = [disk EXCEPT ![n] = u]
  <2>1. pass' = [pass EXCEPT ![n] = r] /\ pass'[n] = r
    BY Zenon DEF RejectNext, SyncInv, TypeOK
  <2>2. store' = [store EXCEPT ![n] = u]
    BY <2>1, Zenon DEF RejectNext
  <2>3. store'[n] = u
    BY <2>2, Zenon DEF SyncInv, TypeOK
  <2> QED
    BY <2>1, <2>2, <2>3, Zenon DEF RejectNext
<1>6. dot \in Dot
  BY <1>1, <1>3, Zenon DEF At, Dot
<1>7. u \in Store /\ u.clock = s.clock /\ u.dots = s.dots /\ u.tomb = s.tomb
      /\ u.cursor = r.clock /\ u.target = p.keep
      /\ u.ledger = s.ledger \cup {dot} /\ u.settled = s.settled \ {dot}
  <2>1. r.clock \in VectorClock /\ p.keep \in VectorClock
    BY <1>2, <1>4, Zenon DEF Page
  <2> HIDE DEF r, p
  <2> QED
    BY <1>2, <1>6, <2>1, Zenon DEF Store
<1>8. /\ topic[a][k].kind = "Changes" => s.tomb
      /\ topic[a][k].kind \in {"Changes", "Policy", "Bad"}
  BY <1>3, Zenon DEF RejectNext, Rejected, Tombstoned
<1> HIDE DEF u, r, s, p
<1>9. PageOK(topic, have[n], n, u, r) /\ Backed(topic, u, r.clock)
  <2>1. Leq(u.cursor, r.clock)
    BY <1>4, <1>7, LeqReflexive, Zenon DEF Page
  <2>2. Leq(p.target, Goal(have[n], u))
    <3>1. p.target \in VectorClock /\ Leq(p.target, have[n]) /\ p.keep \in {NoEvents, p.target}
      BY <1>1, <1>2, Zenon DEF PageOK, Page
    <3> QED
      BY <1>7, <3>1, LeqReflexive, Zenon DEF Goal
  <2>3. Backed(topic, u, p.clock)
    BY <1>1, <1>7, Zenon DEF PageOK, Backed
  <2>4. \A b \in Actor \ {n} : u.clock[b] <= p.target[b]
    BY <1>1, <1>7, Zenon DEF PageOK
  <2>5. /\ topic[a][k].kind = "Changes" => u.tomb
        /\ topic[a][k].kind # "Delete"
        /\ At(a, k) \in u.ledger \cup u.settled
    BY <1>1, <1>7, <1>8, Zenon
  <2> HIDE DEF a, k
  <2> QED
    BY <1>1, <1>2, <1>3, <1>4, <1>7, <2>1, <2>2, <2>3, <2>4, <2>5, ConsumePage, ZenonT(30)
<1>10. StoreOK(topic, have[n], n, u)
  <2>1. LedgerOK(topic, have[n], u)
    <3> SUFFICES ASSUME NEW d \in u.ledger
                 PROVE  /\ d.counter <= have[n][d.actor]
                        /\ topic[d.actor][d.counter].kind \in {"Changes", "Policy", "Bad"}
                        /\ topic[d.actor][d.counter].kind = "Changes" => u.tomb
      BY Zenon DEF LedgerOK
    <3>1. CASE d = dot
      BY <1>1, <1>7, <1>8, <3>1, Zenon
    <3>2. CASE d \in s.ledger
      BY <1>2, <1>7, <3>2, Zenon DEF NodeOK, StoreOK, LedgerOK, s
    <3> QED
      BY <1>7, <3>1, <3>2, Zenon
  <2>2. Leq(r.clock, p.target) /\ r.clock \in VectorClock
    BY <1>4, <1>9, Zenon DEF PageOK, Page
  <2>3. StoreOK(topic, have[n], n, s)
    BY <1>2, Zenon DEF NodeOK, s
  <2> QED
    BY <1>1, <1>2, <1>7, <1>9, <2>1, <2>2, <2>3, CursorStore, Zenon
<1>11. /\ n \in skipped \/ DataOK(topic, n, u)
       /\ n \in open => OpenOK(topic, n, u)
       /\ HoldOK(topic, n, u, hold[n])
  BY <1>2, <1>7, SameData, Zenon DEF NodeOK, s
<1>12. DiskOK(u, u)
  BY <1>7, LeqReflexive, Zenon DEF DiskOK, Store
<1>13. store'[n] = u /\ pass'[n] = r /\ disk'[n] = u
  BY <1>5, Zenon DEF SyncInv, TypeOK
<1>14. TypeOK'
  BY <1>4, <1>5, <1>7 DEF RejectNext, SyncInv, TypeOK
<1>15. OnlyNode(n)
  BY <1>5, Zenon DEF RejectNext, OnlyNode, SyncInv, TypeOK
<1>16. NodeOK(n)'
  BY <1>4, <1>9, <1>10, <1>11, <1>12, <1>13, Zenon DEF NodeOK, RejectNext
<1> QED
  BY <1>14, <1>15, <1>16, OnlyNodeStep, Zenon

\* What the end of a page writes.
LEMMA SaveCursorFacts ==
    ASSUME SyncInv, NEW n \in Node, pass[n].on, SaveCursor(n)
    PROVE  /\ store' \in [Node -> Store] /\ disk' \in [Node -> Store]
           /\ \A m \in Node \ {n} : store'[m] = store[m] /\ disk'[m] = disk[m]
           /\ StoreOK(topic, have[n], n, store'[n]) /\ StoreOK(topic, have[n], n, disk'[n])
           /\ n \in skipped \/ (DataOK(topic, n, store'[n]) /\ DataOK(topic, n, disk'[n]))
           /\ DiskOK(store'[n], disk'[n])
           /\ HoldOK(topic, n, store'[n], hold[n])
           /\ OpenOK(topic, n, store[n]) => OpenOK(topic, n, store'[n])
<1> DEFINE s == store[n]
           p == pass[n]
           u == [s EXCEPT !.cursor = p.clock, !.target = p.keep]
<1>1. /\ n \in Actor /\ topic \in Topics /\ have[n] \in VectorClock /\ Closed(topic, have[n])
      /\ s \in Store /\ p \in Page /\ NodeOK(n) /\ PageOK(topic, have[n], n, s, p)
      /\ store \in [Node -> Store] /\ disk \in [Node -> Store]
  BY StateFacts, Zenon DEF NodeOK, SyncInv, TypeOK
<1>2. CASE ~p.consumed
  <2>1. store' = store /\ disk' = disk
    BY <1>2, Zenon DEF SaveCursor
  <2> QED
    BY <1>1, <2>1, Zenon DEF NodeOK
<1>3. CASE p.consumed
  <2>1. store' = [store EXCEPT ![n] = u]
    BY <1>3, Zenon DEF SaveCursor
  <2>2. store'[n] = u
    BY <1>1, <2>1, Zenon
  <2>3. disk' = [disk EXCEPT ![n] = u]
    BY <1>3, <2>2, Zenon DEF SaveCursor
  <2>4. /\ u \in Store /\ u.clock = s.clock /\ u.dots = s.dots /\ u.tomb = s.tomb
        /\ u.cursor = p.clock /\ u.target = p.keep /\ p.clock \in VectorClock
        /\ u.ledger = s.ledger /\ u.settled = s.settled
    <3>1. p.clock \in VectorClock /\ p.keep \in VectorClock
      BY <1>1, Zenon DEF Page
    <3> HIDE DEF p
    <3> QED
      BY <1>1, <3>1, Zenon DEF Store
  <2> HIDE DEF u, s, p
  <2>5. StoreOK(topic, have[n], n, u)
    <3>1. Backed(topic, u, p.clock) /\ Leq(p.clock, p.target)
      BY <1>1, <2>4, Zenon DEF PageOK, Backed
    <3>2. StoreOK(topic, have[n], n, s)
      BY <1>1, Zenon DEF NodeOK, s
    <3>3. LedgerOK(topic, have[n], u)
      BY <2>4, <3>2, Zenon DEF StoreOK, LedgerOK
    <3> QED
      BY <1>1, <2>4, <3>1, <3>2, <3>3, CursorStore, Zenon
  <2>6. /\ n \in skipped \/ DataOK(topic, n, u)
        /\ OpenOK(topic, n, s) => OpenOK(topic, n, u)
        /\ HoldOK(topic, n, u, hold[n])
    BY <1>1, <2>4, SameData, Zenon DEF NodeOK, s
  <2>7. DiskOK(u, u)
    BY <2>4, LeqReflexive, Zenon DEF DiskOK, Store
  <2>8. disk'[n] = u
    BY <1>1, <2>3, Zenon
  <2>9. /\ store' \in [Node -> Store] /\ disk' \in [Node -> Store]
        /\ \A m \in Node \ {n} : store'[m] = store[m] /\ disk'[m] = disk[m]
    BY <1>1, <2>1, <2>3, <2>4, Zenon
  <2> QED
    BY <2>2, <2>5, <2>6, <2>7, <2>8, <2>9, Zenon DEF s
<1> QED
  BY <1>2, <1>3, Zenon

LEMMA NoPageFacts == NoPage \in Page /\ ~NoPage.on /\ NoPage.left = 0
<1>1. NoEvents \in VectorClock
  BY Zenon DEF NoEvents, VectorClock
<1> QED
  BY <1>1, Zenon DEF NoPage, Page

\* The page ends.  At the end of a pass all that the own records saw is applied.
LEMMA EndPageStep ==
    ASSUME SyncInv, NEW n \in Node, EndPage(n)
    PROVE  SyncInv'
<1> DEFINE s == store[n]
           p == pass[n]
<1>1. p.on /\ p.left = 0 /\ SaveCursor(n)
  BY Zenon DEF EndPage
<1>2. /\ n \in Actor /\ topic \in Topics /\ have[n] \in VectorClock /\ Leq(have[n], Lengths(topic))
      /\ s \in Store /\ p \in Page /\ NodeOK(n) /\ PageOK(topic, have[n], n, s, p)
      /\ \A b \in Actor : Len(topic[b]) <= MaxRecords
  BY <1>1, StateFacts, Zenon DEF NodeOK
<1>3. p.keep = NoEvents => OpenOK(topic, n, s)
  <2> SUFFICES ASSUME p.keep = NoEvents, ~s.tomb,
                      NEW k \in 1 .. Len(topic[n]), NEW a \in Actor \ {n},
                      NEW j \in 1 .. topic[n][k].seen[a], topic[a][j].kind = "Changes"
               PROVE  j <= s.clock[a]
    BY Zenon DEF OpenOK
  <2>1. topic[n][k].seen[a] <= p.target[a]
    BY <1>2, Zenon DEF PageOK, SawWithin
  <2>2. p.target[a] <= p.clock[a]
    <3> HIDE DEF p, s
    <3> QED
      BY <1>1, <1>2, PageDone, Zenon
  <2>3. topic[n][k].seen[a] \in Nat
    BY <1>2, RecordTypes DEF Record, VectorClock
  <2>4. p.target[a] \in Nat /\ p.clock[a] \in Nat
    BY <1>2, Zenon DEF Page, VectorClock
  <2>5. j \in 1 .. p.clock[a]
    <3> HIDE DEF p
    <3> QED
      BY <2>1, <2>2, <2>3, <2>4, SMTT(30)
  <2> QED
    BY <1>2, <2>5, Zenon DEF PageOK, Backed
<1>4. pass' = [pass EXCEPT ![n] = NoPage] /\ pass'[n] = NoPage /\ NoPage \in Page
  BY NoPageFacts, Zenon DEF EndPage, SyncInv, TypeOK
<1>5. n \in open' => OpenOK(topic, n, store'[n])
  BY <1>1, <1>2, <1>3, SaveCursorFacts, Zenon DEF EndPage, NodeOK
<1>6. NodeOK(n)'
  BY <1>1, <1>4, <1>5, SaveCursorFacts, NoPageFacts, Zenon DEF NodeOK, EndPage
<1>7. TypeOK'
  <2>1. pass' \in [Node -> Page]
    BY <1>4, Zenon DEF SyncInv, TypeOK
  <2> QED
    BY <1>1, <2>1, SaveCursorFacts, Zenon DEF EndPage, SyncInv, TypeOK
<1>8. OnlyNode(n)
  <2>1. \A m \in Node \ {n} : pass'[m] = pass[m]
    BY <1>4, Zenon DEF SyncInv, TypeOK
  <2> QED
    BY <1>1, <2>1, SaveCursorFacts, Zenon DEF EndPage, OnlyNode
<1> QED
  BY <1>6, <1>7, <1>8, OnlyNodeStep, Zenon

\* A retryable failure ends the page.
LEMMA StallNextStep ==
    ASSUME SyncInv, NEW n \in Node, StallNext(n)
    PROVE  SyncInv'
<1>1. SaveCursor(n) /\ pass[n].left > 0
  BY ZenonT(30) DEF StallNext
<1>2. NodeOK(n) /\ pass[n].on
  BY <1>1, StateFacts DEF NodeOK
<1>3. pass' = [pass EXCEPT ![n] = NoPage] /\ pass'[n] = NoPage /\ NoPage \in Page
  BY NoPageFacts, Zenon DEF StallNext, SyncInv, TypeOK
<1>4. NodeOK(n)'
  BY <1>1, <1>2, <1>3, SaveCursorFacts, NoPageFacts, Zenon DEF NodeOK, StallNext
<1>5. TypeOK'
  <2>1. pass' \in [Node -> Page]
    BY <1>3, Zenon DEF SyncInv, TypeOK
  <2>2. faults' \in 0 .. MaxFaults
    BY LimitAssumption DEF StallNext, SyncInv, TypeOK
  <2> QED
    BY <1>1, <1>2, <2>1, <2>2, SaveCursorFacts, Zenon DEF StallNext, SyncInv, TypeOK
<1>6. OnlyNode(n)
  <2>1. \A m \in Node \ {n} : pass'[m] = pass[m]
    BY <1>3, Zenon DEF SyncInv, TypeOK
  <2> QED
    BY <1>1, <1>2, <2>1, SaveCursorFacts, Zenon DEF StallNext, OnlyNode
<1> QED
  BY <1>4, <1>5, <1>6, OnlyNodeStep, Zenon

-----------------------------------------------------------------------------
(* The other steps of a node.                                              *)

LEMMA FailPublishStep ==
    ASSUME SyncInv, NEW n \in Node, FailPublish(n)
    PROVE  SyncInv'
<1>1. TypeOK'
  <2>1. faults' \in 0 .. MaxFaults
    BY LimitAssumption DEF FailPublish, SyncInv, TypeOK
  <2> QED
    BY <2>1, Zenon DEF FailPublish, SyncInv, TypeOK
<1>2. OnlyNode(n) /\ hold'[n] = 0
  BY Zenon DEF FailPublish, OnlyNode, SyncInv, TypeOK
<1>3. NodeOK(n)'
  BY <1>2, StateFacts, Zenon DEF NodeOK, HoldOK, FailPublish
<1> QED
  BY <1>1, <1>2, <1>3, OnlyNodeStep, Zenon

LEMMA PersistStep ==
    ASSUME SyncInv, NEW n \in Node, Persist(n)
    PROVE  SyncInv'
<1>1. store[n] \in Store /\ NodeOK(n)
  BY StateFacts, Zenon
<1>2. TypeOK' /\ OnlyNode(n) /\ disk'[n] = store[n]
  BY <1>1, Zenon DEF Persist, OnlyNode, SyncInv, TypeOK
<1>3. DiskOK(store[n], store[n])
  BY <1>1, LeqReflexive, Zenon DEF DiskOK, Store
<1>4. NodeOK(n)'
  BY <1>1, <1>2, <1>3, Zenon DEF NodeOK, Persist
<1> QED
  BY <1>2, <1>4, OnlyNodeStep, Zenon

LEMMA CrashStep ==
    ASSUME SyncInv, NEW n \in Node, Crash(n)
    PROVE  SyncInv'
<1>1. disk[n] \in Store /\ NodeOK(n)
  BY StateFacts, Zenon
<1>2. store'[n] = disk[n] /\ pass'[n] = NoPage /\ hold'[n] = 0 /\ n \notin open'
  BY Zenon DEF Crash, SyncInv, TypeOK
<1>3. TypeOK'
  <2>1. faults' \in 0 .. MaxFaults
    BY LimitAssumption DEF Crash, SyncInv, TypeOK
  <2> QED
    BY <1>1, <2>1, NoPageFacts, Zenon DEF Crash, SyncInv, TypeOK
<1>4. OnlyNode(n)
  BY Zenon DEF Crash, OnlyNode, SyncInv, TypeOK
<1>5. DiskOK(disk[n], disk[n])
  BY <1>1, LeqReflexive, Zenon DEF DiskOK, Store
<1>6. NodeOK(n)'
  BY <1>1, <1>2, <1>5, NoPageFacts, Zenon DEF NodeOK, HoldOK, Crash
<1> QED
  BY <1>3, <1>4, <1>6, OnlyNodeStep, Zenon

LEMMA StartPageStep ==
    ASSUME SyncInv, NEW n \in Node, StartPage(n)
    PROVE  SyncInv'
<1> DEFINE s == store[n]
           g == Goal(have[n], s)
           todo == Cardinality(Between(s.cursor, g))
           p == topic_records_since(n)
<1>1. /\ n \in Actor /\ topic \in Topics /\ have[n] \in VectorClock /\ s \in Store
      /\ NodeOK(n) /\ StoreOK(topic, have[n], n, s) /\ PageRecords \in Nat \ {0}
      /\ NoEvents \in VectorClock
  BY StateFacts, Zenon DEF NodeOK
<1>2. g \in VectorClock /\ s.cursor \in VectorClock /\ todo \in Nat
  BY <1>1, BetweenFinite, Zenon DEF Goal, Store
<1>3. p = [on |-> TRUE, clock |-> s.cursor, target |-> g, consumed |-> FALSE,
           left |-> Min({todo, PageRecords}),
           keep |-> IF todo > PageRecords THEN g ELSE NoEvents]
  BY Zenon DEF topic_records_since, Goal
<1> HIDE DEF g, todo, s
<1>4. Min({todo, PageRecords}) \in Nat /\ (todo <= PageRecords => Min({todo, PageRecords}) = todo)
  <2>1. {todo, PageRecords} \subseteq Nat /\ {todo, PageRecords} # {}
    BY <1>1, <1>2, Zenon
  <2>2. Min({todo, PageRecords}) \in {todo, PageRecords}
        /\ \A y \in {todo, PageRecords} : Min({todo, PageRecords}) <= y
    BY <2>1, HasMin, Zenon
  <2> QED
    BY <1>1, <1>2, <2>2
<1>5. g = NoEvents => todo = 0
  <2> SUFFICES ASSUME g = NoEvents PROVE todo = 0
    BY Zenon
  <2>1. Between(s.cursor, g) = {}
    <3> SUFFICES ASSUME NEW d \in Between(s.cursor, g) PROVE FALSE
      BY Zenon
    <3>1. d.actor \in Actor /\ d.counter \in 1 .. MaxRecords /\ d.counter <= g[d.actor]
      BY Zenon DEF Between
    <3>2. g[d.actor] = 0
      BY <3>1, Zenon DEF NoEvents
    <3> QED
      BY <3>1, <3>2
  <2> QED
    BY <2>1, FS_EmptySet, Zenon DEF todo
<1>6. p \in Page /\ p.on /\ p.clock = s.cursor /\ p.target = g /\ p.left = Min({todo, PageRecords})
      /\ p.keep = IF todo > PageRecords THEN g ELSE NoEvents
  BY <1>1, <1>2, <1>3, <1>4 DEF Page
<1> HIDE DEF p
<1>7. PageOK(topic, have[n], n, s, p)
  <2>1. Leq(p.target, g) /\ Leq(s.cursor, p.clock)
    BY <1>2, <1>6, LeqReflexive, Zenon
  <2>2. Leq(p.clock, p.target) /\ Leq(p.target, have[n]) /\ Closed(topic, p.target)
        /\ Backed(topic, s, p.clock) /\ SawWithin(topic, n, p.target)
        /\ \A a \in Actor \ {n} : s.clock[a] <= p.target[a]
    BY <1>1, <1>6, Zenon DEF StoreOK, g
  <2>3. p.keep \in {NoEvents, p.target}
    BY <1>6, Zenon
  <2>4. p.keep = NoEvents => p.left = Cardinality(Between(p.clock, p.target))
    <3> SUFFICES ASSUME p.keep = NoEvents PROVE p.left = todo
      BY <1>6, Zenon DEF todo
    <3>1. todo <= PageRecords
      BY <1>1, <1>2, <1>5, <1>6
    <3> QED
      BY <1>4, <1>6, <3>1, Zenon
  <2> QED
    BY <2>1, <2>2, <2>3, <2>4, Zenon DEF PageOK, g
<1>8. pass' = [pass EXCEPT ![n] = p] /\ pass'[n] = p
  BY Zenon DEF StartPage, SyncInv, TypeOK, p
<1>9. TypeOK' /\ OnlyNode(n)
  BY <1>6, <1>8, Zenon DEF StartPage, OnlyNode, SyncInv, TypeOK
<1>10. NodeOK(n)'
  BY <1>1, <1>6, <1>7, <1>8, Zenon DEF NodeOK, StartPage, s
<1> QED
  BY <1>9, <1>10, OnlyNodeStep, Zenon

\* An entry leaves the ledger, or stays there.
LEMMA LedgerStep ==
    ASSUME SyncInv, NEW n \in Node, ~pass[n].on, NEW dot \in store[n].ledger, NEW gone \in {{}, {dot}},
           store' = [store EXCEPT ![n] = [store[n] EXCEPT !.ledger = @ \ gone, !.settled = @ \cup gone]],
           UNCHANGED <<topic, have, disk, pass, hold, open, stalled, skipped, faults>>
    PROVE  SyncInv'
<1> DEFINE s == store[n]
           t == [s EXCEPT !.ledger = @ \ gone, !.settled = @ \cup gone]
<1>1. /\ n \in Actor /\ topic \in Topics /\ have[n] \in VectorClock /\ s \in Store /\ disk[n] \in Store
      /\ NodeOK(n)
  BY StateFacts, Zenon
<1>2. dot \in Dot
  BY <1>1, Zenon DEF Store
<1>3. /\ t \in Store /\ t.clock = s.clock /\ t.dots = s.dots /\ t.tomb = s.tomb
      /\ t.cursor = s.cursor /\ t.target = s.target
      /\ t.ledger = s.ledger \ gone /\ t.settled = s.settled \cup gone
  BY <1>1, <1>2, Zenon DEF Store
<1>4. store'[n] = t /\ TypeOK' /\ OnlyNode(n)
  <2>1. store' = [store EXCEPT ![n] = t]
    BY Zenon
  <2> HIDE DEF t
  <2> QED
    BY <1>3, <2>1, Zenon DEF OnlyNode, SyncInv, TypeOK
<1> HIDE DEF t
<1>5. Advances(s, t)
  BY <1>1, <1>3, LeqReflexive, Zenon DEF Advances, Store
<1>6. StoreOK(topic, have[n], n, t)
  <2>1. StoreOK(topic, have[n], n, s)
    BY <1>1, Zenon DEF NodeOK
  <2> HIDE DEF s
  <2>2. Leq(t.clock, have[n]) /\ \A a \in Actor \ {n} : t.clock[a] <= Goal(have[n], s)[a]
    BY <1>3, <2>1, Zenon DEF StoreOK
  <2> QED
    BY <1>1, <1>3, <1>5, <2>1, <2>2, AdvanceStore, Zenon
<1>7. DiskOK(t, disk[n])
  BY <1>1, <1>3, <1>5, AdvanceDisk, Zenon DEF NodeOK
<1>8. /\ n \in skipped \/ DataOK(topic, n, t)
      /\ n \in open => OpenOK(topic, n, t)
      /\ HoldOK(topic, n, t, hold[n])
  BY <1>1, <1>3, SameData, Zenon DEF NodeOK
<1>9. NodeOK(n)'
  BY <1>1, <1>4, <1>6, <1>7, <1>8, Zenon DEF NodeOK
<1> QED
  BY <1>4, <1>9, OnlyNodeStep, Zenon

LEMMA RetryRejectedStep ==
    ASSUME SyncInv, NEW n \in Node, NEW dot \in store[n].ledger, RetryRejected(n, dot)
    PROVE  SyncInv'
<1>1. store[n] \in Store /\ LedgerOK(topic, have[n], store[n])
  BY StateFacts, Zenon DEF NodeOK, StoreOK
<1>2. dot = At(dot.actor, dot.counter) /\ RecordOf(dot) = topic[dot.actor][dot.counter]
  BY <1>1, Zenon DEF Store, Dot, At, RecordOf
\* Data is only rejected by a tombstone, which stays.
<1>3. RecordOf(dot).kind = "Policy"
  BY <1>1, <1>2, Zenon DEF LedgerOK, RetryRejected, Tombstoned
<1>4. apply_record_locked(store[n], dot) = store[n]
  BY <1>3, Zenon DEF apply_record_locked
<1> DEFINE t == apply_record_locked(store[n], dot)
<1>5. PICK gone \in {{}, {dot}} :
         store' = [store EXCEPT ![n] = [t EXCEPT !.ledger = @ \ gone, !.settled = @ \cup gone]]
  BY Zenon DEF RetryRejected
<1>6. t = store[n]
  BY <1>4, Zenon
<1> HIDE DEF t
<1>7. store' = [store EXCEPT ![n] = [store[n] EXCEPT !.ledger = @ \ gone, !.settled = @ \cup gone]]
  BY <1>5, <1>6, Zenon
<1>8. ~pass[n].on /\ UNCHANGED <<topic, have, disk, pass, hold, open, stalled, skipped, faults>>
  BY Zenon DEF RetryRejected
<1> QED
  BY <1>7, <1>8, LedgerStep, Zenon

LEMMA DeleteRejectedStep ==
    ASSUME SyncInv, NEW n \in Node, NEW dot \in store[n].ledger, DeleteRejected(n, dot)
    PROVE  SyncInv'
<1>1. store' = [store EXCEPT ![n] = [store[n] EXCEPT !.ledger = @ \ {dot}, !.settled = @ \cup {dot}]]
  BY Zenon DEF DeleteRejected
<1> QED
  BY <1>1, LedgerStep, Zenon DEF DeleteRejected
=============================================================================
