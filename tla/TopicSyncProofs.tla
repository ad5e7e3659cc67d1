-------------------------- MODULE TopicSyncProofs --------------------------
(***************************************************************************)
(* Topic replication, for any actors, quads, change sets and page size:    *)
(* the cursor of a node is backed by its store, the disk only advances,    *)
(* and the store follows the topic.                                        *)
(***************************************************************************)
EXTENDS TopicSyncSteps

-----------------------------------------------------------------------------
(* The steps of the topic.                                                 *)

\* The largest of a bounded set of naturals.
LEMMA MaxProperties ==
    ASSUME NEW S, S \subseteq Nat, S # {}, NEW m \in Nat, \A x \in S : x <= m
    PROVE  Max(S) \in S /\ \A x \in S : x <= Max(S)
<1> DEFINE U == {u \in Nat : \A x \in S : x <= u}
<1>1. PICK u \in U : \A v \in U : u <= v
  <2>1. m \in U
    BY Zenon
  <2>2. U \subseteq Nat /\ U # {}
    BY <2>1, Zenon
  <2> HIDE DEF U
  <2> QED
    BY <2>2, HasMin, Zenon
<1>2. u \in S
  <2> SUFFICES ASSUME u \notin S PROVE FALSE
    BY Zenon
  <2>1. \A x \in S : x < u
    OBVIOUS
  <2>2. u > 0
    <3>1. PICK x \in S : TRUE
      BY Zenon
    <3> QED
      BY <2>1, <3>1
  <2>3. u - 1 \in U
    BY <2>1, <2>2
  <2> QED
    BY <1>1, <2>3
<1> QED
  BY <1>1, <1>2, Zenon DEF Max

\* A generation is above those of all the records that the author's topic holds.
LEMMA GenerationFacts ==
    ASSUME SyncInv, NEW a \in Actor
    PROVE  /\ Generation(a) \in Nat
           /\ \A b \in Actor : \A j \in 1 .. have[a][b] : topic[b][j].gen < Generation(a)
<1> DEFINE B == Between(NoEvents, have[a])
           f == [d \in B |-> RecordOf(d).gen]
           I == {RecordOf(d).gen : d \in B}
           G == {0} \cup I
<1>1. /\ topic \in Topics /\ MaxRecords \in Nat
      /\ \A b \in Actor : /\ have[a][b] \in Nat /\ Len(topic[b]) \in Nat
                          /\ have[a][b] <= Len(topic[b]) /\ Len(topic[b]) <= MaxRecords
  BY StateFacts, Zenon DEF VectorClock, Leq, Lengths
<1>2. ASSUME NEW d \in B PROVE RecordOf(d).gen \in Nat
  <2>1. d.actor \in Actor /\ d.counter \in 1 .. Len(topic[d.actor])
    BY <1>1 DEF Between
  <2> QED
    BY <1>1, <2>1, RecordTypes, Zenon DEF RecordOf, Record
<1>3. ASSUME NEW b \in Actor, NEW j \in 1 .. have[a][b] PROVE topic[b][j].gen \in I
  <2>1. At(b, j) \in B /\ RecordOf(At(b, j)) = topic[b][j]
    BY <1>1 DEF Between, At, RecordOf, NoEvents
  <2> QED
    BY <2>1, Zenon
<1>4. IsFiniteSet(B)
  BY BetweenFinite, Zenon
<1>5. f \in Surjection(B, I)
  <2> HIDE DEF B
  <2> QED
    BY Zenon DEF Surjection
<1>6. IsFiniteSet(G) /\ G \subseteq Nat /\ G # {}
  <2>1. IsFiniteSet(I)
    <3> HIDE DEF B, I, f
    <3> QED
      BY <1>4, <1>5, FS_Surjection, Zenon
  <2>2. I \subseteq Nat
    BY <1>2, Zenon
  <2> HIDE DEF I
  <2>3. G = I \cup {0}
    BY Zenon
  <2>4. IsFiniteSet(I \cup {0})
    BY <2>1, FS_AddElement, Zenon
  <2> QED
    BY <2>2, <2>3, <2>4
<1> HIDE DEF I, B
<1>7. Max(G) \in Nat /\ \A x \in G : x <= Max(G)
  <2> HIDE DEF G
  <2>1. PICK m \in Nat : \A x \in G : x <= m
    BY <1>6, FiniteBounded, Zenon
  <2> QED
    BY <1>6, <2>1, MaxProperties, Zenon
<1>8. Generation(a) = 1 + Max(G)
  BY Zenon DEF Generation, I, B
<1>9. ASSUME NEW b \in Actor, NEW j \in 1 .. have[a][b] PROVE topic[b][j].gen < Generation(a)
  <2>1. topic[b][j].gen \in G
    BY <1>3, Zenon
  <2> HIDE DEF G
  <2>2. topic[b][j].gen \in Nat /\ topic[b][j].gen <= Max(G)
    BY <1>6, <1>7, <2>1, Zenon
  <2> QED
    BY <1>7, <1>8, <2>2
<1> QED
  BY <1>7, <1>8, <1>9

\* Below the bound on the topic there is room for a record of each actor.
LEMMA RoomFacts ==
    ASSUME SyncInv, NEW a \in Actor, TopicSize < MaxRecords
    PROVE  Len(topic[a]) + 1 <= MaxRecords
<1> DEFINE B == Between(NoEvents, [b \in Actor |-> Len(topic[b])])
           f == [k \in 1 .. MaxRecords |-> At(a, k)]
<1>1. Len(topic[a]) \in Nat /\ Len(topic[a]) <= MaxRecords /\ MaxRecords \in Nat
  BY StateFacts, Zenon
<1> SUFFICES ASSUME Len(topic[a]) = MaxRecords PROVE FALSE
  BY <1>1
<1>2. \A k \in 1 .. MaxRecords : At(a, k) \in B
  BY <1>1 DEF At, Between, NoEvents
<1>3. \A k, l \in 1 .. MaxRecords : At(a, k) = At(a, l) => k = l
  BY Zenon DEF At
<1>4. f \in Injection(1 .. MaxRecords, B)
  <2> HIDE DEF B
  <2> QED
    BY <1>2, <1>3, Zenon DEF Injection, IsInjective
<1>5. IsFiniteSet(B) /\ Cardinality(B) \in Nat /\ Cardinality(B) = TopicSize
  BY BetweenFinite, Zenon DEF TopicSize
<1>6. Cardinality(1 .. MaxRecords) <= Cardinality(B)
  <2> HIDE DEF B, f
  <2> QED
    BY <1>4, <1>5, FS_Injection, Zenon
<1>7. Cardinality(1 .. MaxRecords) = MaxRecords
  <2>1. 1 \in Int /\ MaxRecords \in Int
    BY <1>1
  <2>2. Cardinality(1 .. MaxRecords) = IF 1 > MaxRecords THEN 0 ELSE MaxRecords - 1 + 1
    BY <2>1, FS_Interval, Zenon
  <2> QED
    BY <1>1, <2>2
<1> HIDE DEF B
<1> QED
  BY <1>1, <1>5, <1>6, <1>7

\* The topic grows and the nodes stay as they are, but for what they hold.
LEMMA GrowStep ==
    ASSUME SyncInv, TypeOK', TopicOK(topic, have)', Extends(topic, topic'),
           \A m \in Actor : Leq(have[m], have'[m]),
           UNCHANGED <<store, disk, pass, open, skipped>>,
           \A m \in Node : /\ NewSaw(topic, topic', m, store[m])
                           /\ HoldOK(topic', m, store[m], hold'[m])
    PROVE  SyncInv'
<1> SUFFICES ASSUME NEW m \in Node PROVE NodeOK(m)'
  BY Zenon DEF SyncInv
<1> DEFINE s == store[m]
           h == have[m]
           i == have'[m]
<1>1. /\ m \in Actor /\ topic \in Topics /\ h \in VectorClock /\ Leq(h, Lengths(topic))
      /\ s \in Store /\ disk[m] \in Store /\ pass[m] \in Page /\ NodeOK(m)
      /\ \A a \in Actor : \A k \in 1 .. Len(topic[a]) : RecordOK(topic, a, k)
  BY StateFacts, Zenon
<1>2. topic' \in Topics /\ i \in VectorClock /\ Closed(topic', i) /\ Leq(h, i)
  BY <1>1, Zenon DEF TypeOK, Topics, TopicOK
<1> HIDE DEF h, i, s
<1>3. ASSUME NEW c \in VectorClock, \A a \in Actor \ {m} : s.clock[a] <= c[a]
      PROVE  NewSawWithin(topic, topic', m, c)
  <2> SUFFICES ASSUME NEW k \in Len(topic[m]) + 1 .. Len(topic'[m]), NEW a \in Actor \ {m}
               PROVE  topic'[m][k].seen[a] <= c[a]
    BY Zenon DEF NewSawWithin
  <2>1. k \in 1 .. Len(topic'[m])
    BY <1>1, <1>2 DEF Topics
  <2>2. topic'[m][k].seen \in VectorClock
    BY <1>1, <1>2, <2>1, RecordTypes, Zenon DEF Record
  <2>3. topic'[m][k].seen[a] <= s.clock[a]
    BY Zenon DEF NewSaw, Leq, s
  <2>4. topic'[m][k].seen[a] \in Nat /\ s.clock[a] \in Nat /\ c[a] \in Nat
    BY <1>1, <2>2, Zenon DEF VectorClock, Store
  <2>5. s.clock[a] <= c[a]
    BY <1>3, Zenon
  <2> QED
    BY <2>3, <2>4, <2>5
<1>4. StoreOK(topic', i, m, s) /\ StoreOK(topic', i, m, disk[m])
  <2>1. StoreOK(topic, h, m, s) /\ StoreOK(topic, h, m, disk[m]) /\ DiskOK(s, disk[m])
    BY <1>1, Zenon DEF NodeOK, s, h
  <2>2. Goal(h, disk[m]) = Goal(h, s) /\ Goal(h, s) \in VectorClock
    BY <1>1, <2>1, Zenon DEF DiskOK, Goal, Store
  <2>3. NewSawWithin(topic, topic', m, Goal(h, s))
    BY <1>3, <2>1, <2>2, Zenon DEF StoreOK
  <2>4. StoreOK(topic', i, m, s)
    BY <1>1, <1>2, <2>1, <2>3, GrowStore, Zenon
  <2>5. StoreOK(topic', i, m, disk[m])
    BY <1>1, <1>2, <2>1, <2>2, <2>3, GrowStore, Zenon
  <2> QED
    BY <2>4, <2>5, Zenon
<1>5. ASSUME NEW t \in Store, Leq(t.clock, h) PROVE Leq(t.clock, Lengths(topic))
  BY <1>1, <1>5, LengthsType, LeqTransitive, Zenon DEF Store
<1>6. Leq(s.clock, Lengths(topic)) /\ Leq(disk[m].clock, Lengths(topic))
  <2>1. Leq(s.clock, h) /\ Leq(disk[m].clock, h)
    BY <1>1, Zenon DEF NodeOK, StoreOK, s, h
  <2> QED
    BY <1>1, <1>5, <2>1, Zenon
<1>7. m \in skipped \/ (DataOK(topic', m, s) /\ DataOK(topic', m, disk[m]))
  <2> SUFFICES ASSUME m \notin skipped PROVE DataOK(topic', m, s) /\ DataOK(topic', m, disk[m])
    BY Zenon
  <2>1. DataOK(topic, m, s) /\ DataOK(topic, m, disk[m])
    BY <1>1, Zenon DEF NodeOK, s
  <2> QED
    BY <1>1, <1>2, <1>6, <2>1, GrowData, Zenon
<1>8. m \in open => OpenOK(topic', m, s)
  <2>1. NewSaw(topic, topic', m, s)
    BY Zenon DEF s
  <2>2. m \in open => OpenOK(topic, m, s)
    BY <1>1, Zenon DEF NodeOK, s
  <2> QED
    BY <1>1, <1>2, <1>6, <2>1, <2>2, GrowOpen, Zenon
<1>9. pass[m].on => PageOK(topic', i, m, s, pass[m])
  <2> SUFFICES ASSUME pass[m].on PROVE PageOK(topic', i, m, s, pass[m])
    BY Zenon
  <2>1. PageOK(topic, h, m, s, pass[m])
    BY <1>1, Zenon DEF NodeOK, s, h
  <2>2. NewSawWithin(topic, topic', m, pass[m].target)
    BY <1>1, <1>3, <2>1, Zenon DEF PageOK, Page
  <2> QED
    BY <1>1, <1>2, <2>1, <2>2, GrowPage, Zenon
<1> QED
  BY <1>1, <1>4, <1>7, <1>8, <1>9, Zenon DEF NodeOK, s, i

\* A record is appended to its author's part of the topic.
LEMMA AppendFacts ==
    ASSUME SyncInv, NEW a \in Actor, NEW kind \in {"Changes", "Policy", "Delete", "Control", "Bad"},
           NEW changes \in ChangeSets \cup {<<>>}, NEW seen \in VectorClock, Leq(seen, have[a]),
           Append1(a, kind, changes, seen)
    PROVE  /\ topic' \in Topics /\ have' \in [Actor -> VectorClock] /\ TopicOK(topic, have)'
           /\ Extends(topic, topic') /\ \A m \in Actor : Leq(have[m], have'[m])
           /\ \A m \in Actor \ {a} : topic'[m] = topic[m]
           /\ Len(topic'[a]) = Len(topic[a]) + 1 /\ topic'[a][Len(topic[a]) + 1].seen = seen
<1> DEFINE rec == [kind |-> kind, changes |-> changes, observed |-> have[a],
                   seen |-> seen, gen |-> Generation(a)]
           k == Len(topic[a]) + 1
<1>1. /\ topic \in Topics /\ have \in [Actor -> VectorClock] /\ have[a] \in VectorClock
      /\ Len(topic[a]) \in Nat /\ have[a][a] = Len(topic[a]) /\ k <= MaxRecords
      /\ \A b \in Actor : have[b] \in VectorClock /\ Leq(have[b], Lengths(topic)) /\ Closed(topic, have[b])
      /\ \A b \in Actor : Len(topic[b]) \in Nat /\ have[b][b] = Len(topic[b]) /\ Len(topic[b]) <= MaxRecords
      /\ \A b \in Actor : \A j \in 1 .. Len(topic[b]) : RecordOK(topic, b, j)
  BY StateFacts, RoomFacts, Zenon DEF Append1
<1>2. rec \in Record
  BY <1>1, GenerationFacts, Zenon DEF Record
<1>3. topic' = [topic EXCEPT ![a] = Append(topic[a], rec)]
  BY Zenon DEF Append1
<1>4. /\ rec.observed = have[a] /\ rec.seen = seen /\ rec.gen = Generation(a)
  BY Zenon
<1> HIDE DEF rec
<1>5. /\ topic' \in Topics /\ topic'[a] = Append(topic[a], rec)
      /\ \A m \in Actor \ {a} : topic'[m] = topic[m]
  <2>1. topic[a] \in Seq(Record)
    BY <1>1, Zenon DEF Topics
  <2>2. Append(topic[a], rec) \in Seq(Record)
    BY <1>2, <2>1
  <2> QED
    BY <1>1, <1>3, <2>2, Zenon DEF Topics
<1>6. /\ Len(topic'[a]) = k /\ topic'[a][k] = rec
      /\ \A j \in 1 .. Len(topic[a]) : topic'[a][j] = topic[a][j]
  <2>1. topic[a] \in Seq(Record)
    BY <1>1, Zenon DEF Topics
  <2> QED
    BY <1>2, <1>5, <2>1
<1>7. Extends(topic, topic')
  <2> SUFFICES ASSUME NEW b \in Actor
               PROVE  /\ Len(topic[b]) <= Len(topic'[b])
                      /\ \A j \in 1 .. Len(topic[b]) : topic'[b][j] = topic[b][j]
    BY Zenon DEF Extends
  <2> QED
    BY <1>1, <1>5, <1>6
<1>8. /\ have' \in [Actor -> VectorClock] /\ have'[a] = [have[a] EXCEPT ![a] = k]
      /\ \A m \in Actor \ {a} : have'[m] = have[m]
  <2>1. have' = [have EXCEPT ![a] = [have[a] EXCEPT ![a] = have[a][a] + 1]]
    BY Zenon DEF Append1
  <2>2. [have[a] EXCEPT ![a] = have[a][a] + 1] = [have[a] EXCEPT ![a] = k]
    BY <1>1, Zenon
  <2>3. [have[a] EXCEPT ![a] = k] \in VectorClock
    BY <1>1 DEF VectorClock
  <2> HIDE DEF k
  <2> QED
    BY <1>1, <2>1, <2>2, <2>3, Zenon
<1>9. \A m, b \in Actor : /\ have[m][b] \in Nat /\ have'[m][b] \in Nat /\ have[m][b] <= Len(topic[b])
                          /\ have'[m][b] = IF m = a /\ b = a THEN k ELSE have[m][b]
  <2> TAKE m, b \in Actor
  <2>1. have[m][b] \in Nat /\ have'[m][b] \in Nat /\ have[m][b] <= Len(topic[b])
    BY <1>1, <1>8 DEF VectorClock, Leq, Lengths
  <2>2. have'[m][b] = IF m = a /\ b = a THEN k ELSE have[m][b]
    <3> HIDE DEF k
    <3> QED
      BY <1>1, <1>8, ZenonT(30) DEF VectorClock
  <2> QED
    BY <2>1, <2>2, Zenon
<1>10. \A m \in Actor : Leq(have[m], have'[m])
  <2> SUFFICES ASSUME NEW m \in Actor, NEW b \in Actor PROVE have[m][b] <= have'[m][b]
    BY Zenon DEF Leq
  <2> QED
    BY <1>1, <1>9
<1>11. \A b \in Actor : /\ Len(topic'[b]) \in Nat /\ Len(topic[b]) <= Len(topic'[b])
                        /\ Len(topic'[b]) <= MaxRecords /\ have'[b][b] = Len(topic'[b])
  BY <1>1, <1>5, <1>6, <1>9
<1> HIDE DEF k
<1>12. \A m, b \in Actor : have'[m][b] <= Len(topic'[b])
  <2> TAKE m, b \in Actor
  <2>1. CASE m = a /\ b = a
    BY <1>6, <1>9, <1>11, <2>1
  <2>2. CASE ~ (m = a /\ b = a)
    BY <1>1, <1>9, <1>11, <2>2
  <2> QED
    BY <2>1, <2>2, Zenon
<1>13. ASSUME NEW m \in Actor PROVE Closed(topic', have'[m])
  <2> SUFFICES ASSUME NEW b \in Actor, NEW j \in 1 .. have'[m][b]
               PROVE  Leq(topic'[b][j].observed, have'[m])
    BY Zenon DEF Closed
  <2>1. have[m] \in VectorClock /\ have'[m] \in VectorClock /\ Leq(have[m], have'[m])
    BY <1>1, <1>8, <1>10, Zenon
  <2>2. CASE m = a /\ b = a /\ j = k
    BY <1>4, <1>6, <2>1, <2>2, Zenon
  <2>3. CASE j \in 1 .. have[m][b]
    <3>1. j \in 1 .. Len(topic[b]) /\ Leq(topic[b][j].observed, have[m])
      BY <1>1, <1>9, <2>3 DEF Closed
    <3>2. topic'[b][j] = topic[b][j] /\ topic[b][j].observed \in VectorClock
      BY <1>1, <1>7, <3>1, RecordTypes, Zenon DEF Extends, Record
    <3> QED
      BY <2>1, <3>1, <3>2, LeqTransitive, Zenon
  <2> QED
    BY <1>1, <1>9, <2>2, <2>3 DEF k
<1>14. ASSUME NEW b \in Actor, NEW j \in 1 .. Len(topic'[b]) PROVE RecordOK(topic', b, j)
  <2>1. CASE b = a /\ j = k
    <3>1. topic'[b][j] = rec /\ k \in Nat
      BY <1>1, <1>6, <2>1 DEF k
    <3>2. rec.observed[a] = k - 1
      BY <1>1, <1>4 DEF k
    <3>3. Leq(rec.seen, rec.observed)
      BY <1>4, Zenon
    <3>4. \A c \in Actor : rec.observed[c] <= Len(topic'[c])
      BY <1>1, <1>4, <1>9, <1>11
    <3>5. ASSUME NEW c \in Actor, NEW i \in 1 .. rec.observed[c] PROVE topic'[c][i].gen < rec.gen
      <4>1. i \in 1 .. have[a][c] /\ i \in 1 .. Len(topic[c])
        BY <1>1, <1>4, <1>9
      <4> QED
        BY <1>4, <1>7, <4>1, GenerationFacts, Zenon DEF Extends
    <3> QED
      BY <2>1, <3>1, <3>2, <3>3, <3>4, <3>5, Zenon DEF RecordOK
  <2>2. CASE j \in 1 .. Len(topic[b])
    <3>1. topic'[b][j] = topic[b][j] /\ RecordOK(topic, b, j) /\ topic[b][j].observed \in VectorClock
      BY <1>1, <1>7, <2>2, RecordTypes, Zenon DEF Extends, Record
    <3>2. \A c \in Actor : topic[b][j].observed[c] \in Nat /\ topic[b][j].observed[c] <= Len(topic[c])
      BY <3>1, Zenon DEF RecordOK, VectorClock
    <3>3. \A c \in Actor : topic[b][j].observed[c] <= Len(topic'[c])
      BY <1>1, <1>11, <3>2
    <3>4. ASSUME NEW c \in Actor, NEW i \in 1 .. topic[b][j].observed[c]
          PROVE  topic'[c][i].gen < topic[b][j].gen
      <4>1. i \in 1 .. Len(topic[c])
        BY <1>1, <3>2
      <4> QED
        BY <1>7, <3>1, <4>1, Zenon DEF Extends, RecordOK
    <3> QED
      BY <3>1, <3>3, <3>4, Zenon DEF RecordOK
  <2> QED
    BY <1>1, <1>5, <1>6, <2>1, <2>2 DEF k
<1>15. TopicOK(topic, have)'
  BY <1>11, <1>12, <1>13, <1>14, Zenon DEF TopicOK
<1> QED
  BY <1>4, <1>5, <1>6, <1>7, <1>8, <1>10, <1>15, Zenon DEF k

LEMMA PublishStep ==
    ASSUME SyncInv, NEW n \in Node, NEW kind \in LocalKinds \ {"Control"},
           NEW changes \in ChangeSets \cup {<<>>}, Publish(n, kind, changes)
    PROVE  SyncInv'
<1>1. /\ n \in Actor /\ topic \in Topics /\ have[n] \in VectorClock /\ have[n][n] = Len(topic[n])
      /\ Len(topic[n]) \in Nat /\ store[n] \in Store /\ NodeOK(n)
      /\ \A m \in Node : m \in Actor /\ store[m] \in Store /\ hold[m] \in Nat /\ NodeOK(m)
  BY StateFacts, Zenon
<1>2. store[n].clock \in VectorClock /\ Leq(store[n].clock, have[n])
  BY <1>1, Zenon DEF Store, NodeOK, StoreOK
<1>3. kind \in {"Changes", "Policy", "Delete", "Control", "Bad"}
  BY LimitAssumption, Zenon
<1>4. Append1(n, kind, changes, store[n].clock)
  BY Zenon DEF Publish
<1>5. /\ topic' \in Topics /\ have' \in [Actor -> VectorClock] /\ TopicOK(topic, have)'
      /\ Extends(topic, topic') /\ \A m \in Actor : Leq(have[m], have'[m])
      /\ \A m \in Actor \ {n} : topic'[m] = topic[m]
      /\ Len(topic'[n]) = Len(topic[n]) + 1
      /\ topic'[n][Len(topic[n]) + 1].seen = store[n].clock
  <2>1. PICK c \in VectorClock : c = store[n].clock
    BY <1>2, Zenon
  <2>2. /\ topic' \in Topics /\ have' \in [Actor -> VectorClock] /\ TopicOK(topic, have)'
        /\ Extends(topic, topic') /\ \A m \in Actor : Leq(have[m], have'[m])
        /\ \A m \in Actor \ {n} : topic'[m] = topic[m]
        /\ Len(topic'[n]) = Len(topic[n]) + 1 /\ topic'[n][Len(topic[n]) + 1].seen = c
    <3>1. Leq(c, have[n]) /\ Append1(n, kind, changes, c)
      BY <1>2, <1>4, <2>1, Zenon
    <3>2. n \in Actor
      BY <1>1, Zenon
    <3> QED
      BY <1>3, <3>1, <3>2, AppendFacts
  <2> QED
    BY <2>1, <2>2, Zenon
<1>6. UNCHANGED <<store, disk, pass, open, stalled, skipped, faults>>
  BY Zenon DEF Publish
<1>7. /\ hold' \in [Node -> Nat] /\ hold'[n] = Len(topic[n]) + 1
      /\ \A m \in Node \ {n} : hold'[m] = hold[m]
  BY <1>1 DEF Publish, SyncInv, TypeOK
<1>8. TypeOK'
  BY <1>5, <1>6, <1>7, Zenon DEF SyncInv, TypeOK, Topics
<1>9. ASSUME NEW m \in Node
      PROVE  NewSaw(topic, topic', m, store[m]) /\ HoldOK(topic', m, store[m], hold'[m])
  <2>1. CASE m = n
    <3>1. NewSaw(topic, topic', n, store[n])
      <4> SUFFICES ASSUME NEW k \in Len(topic[n]) + 1 .. Len(topic'[n])
                   PROVE  Leq(topic'[n][k].seen, store[n].clock)
        BY Zenon DEF NewSaw
      <4>1. k = Len(topic[n]) + 1
        BY <1>1, <1>5
      <4> QED
        BY <1>2, <1>5, <4>1, LeqReflexive, Zenon
    <3>2. HoldOK(topic', n, store[n], hold'[n])
      BY <1>1, <1>5, <1>7 DEF HoldOK
    <3> QED
      BY <2>1, <3>1, <3>2, Zenon
  <2>2. CASE m # n
    <3>1. topic'[m] = topic[m] /\ Len(topic[m]) \in Nat /\ hold'[m] = hold[m]
      BY <1>1, <1>5, <1>7, <2>2 DEF Topics
    <3>2. NewSaw(topic, topic', m, store[m])
      BY <3>1 DEF NewSaw
    <3>3. HoldOK(topic', m, store[m], hold[m])
      BY <1>1, <3>1, Zenon DEF NodeOK, HoldOK
    <3> QED
      BY <3>1, <3>2, <3>3, Zenon
  <2> QED
    BY <2>1, <2>2, Zenon
<1> QED
  BY <1>5, <1>6, <1>8, <1>9, GrowStep, Zenon

\* A record that saw nothing is appended, and no node holds it.
LEMMA UnseenStep ==
    ASSUME SyncInv, NEW a \in Actor, NEW kind \in {"Changes", "Policy", "Delete", "Control", "Bad"},
           NEW changes \in ChangeSets \cup {<<>>}, Append1(a, kind, changes, NoEvents),
           UNCHANGED <<store, disk, pass, hold, open, stalled, skipped, faults>>
    PROVE  SyncInv'
<1>1. /\ topic \in Topics /\ NoEvents \in VectorClock /\ have[a] \in VectorClock /\ Len(topic[a]) \in Nat
      /\ \A m \in Node : m \in Actor /\ store[m] \in Store /\ hold[m] \in Nat /\ NodeOK(m)
  BY StateFacts, Zenon
<1>2. \A c \in VectorClock : Leq(NoEvents, c)
  BY DEF Leq, NoEvents, VectorClock
<1>3. /\ topic' \in Topics /\ have' \in [Actor -> VectorClock] /\ TopicOK(topic, have)'
      /\ Extends(topic, topic') /\ \A m \in Actor : Leq(have[m], have'[m])
      /\ \A m \in Actor \ {a} : topic'[m] = topic[m]
      /\ Len(topic'[a]) = Len(topic[a]) + 1 /\ topic'[a][Len(topic[a]) + 1].seen = NoEvents
  BY <1>1, <1>2, AppendFacts, SMTT(30)
<1>4. TypeOK'
  BY <1>3, Zenon DEF SyncInv, TypeOK, Topics
<1>5. ASSUME NEW m \in Node
      PROVE  NewSaw(topic, topic', m, store[m]) /\ HoldOK(topic', m, store[m], hold[m])
  <2>1. NewSaw(topic, topic', m, store[m])
    <3> SUFFICES ASSUME NEW k \in Len(topic[m]) + 1 .. Len(topic'[m])
                 PROVE  Leq(topic'[m][k].seen, store[m].clock)
      BY Zenon DEF NewSaw
    <3>1. m \in Actor /\ Len(topic[m]) \in Nat
      BY <1>1 DEF Topics
    <3>2. m = a /\ k = Len(topic[a]) + 1
      BY <1>1, <1>3, <3>1
    <3> QED
      BY <1>1, <1>2, <1>3, <3>2, Zenon DEF Store
  <2>2. HoldOK(topic', m, store[m], hold[m])
    BY <1>1, <1>3, GrowHold, Zenon DEF NodeOK
  <2> QED
    BY <2>1, <2>2, Zenon
<1> QED
  BY <1>3, <1>4, <1>5, GrowStep, Zenon

LEMMA PublishControlStep ==
    ASSUME SyncInv, NEW n \in Node, PublishControl(n)
    PROVE  SyncInv'
BY UnseenStep, Zenon DEF PublishControl, Node

LEMMA PublishForeignStep ==
    ASSUME SyncInv, NEW a \in Foreign, NEW kind \in ForeignKinds,
           NEW changes \in ChangeSets \cup {<<>>}, PublishForeign(a, kind, changes)
    PROVE  SyncInv'
<1>1. a \in Actor /\ kind \in {"Changes", "Policy", "Delete", "Control", "Bad"}
  BY ForeignAssumption, LimitAssumption, Zenon
<1>2. /\ Append1(a, kind, changes, NoEvents)
      /\ UNCHANGED <<store, disk, pass, hold, open, stalled, skipped, faults>>
  BY Zenon DEF PublishForeign
<1> QED
  BY <1>1, <1>2, UnseenStep, Zenon

\* The record that arrives finds all it observes: what the node holds stays causally closed.
LEMMA ReceiveStep ==
    ASSUME SyncInv, NEW n \in Actor, NEW a \in Actor, Receive(n, a)
    PROVE  SyncInv'
<1> DEFINE h == have[n]
           k == h[a] + 1
           i == [h EXCEPT ![a] = k]
<1>1. /\ topic \in Topics /\ have \in [Actor -> VectorClock] /\ h \in VectorClock
      /\ \A b \in Actor : /\ have[b] \in VectorClock /\ Leq(have[b], Lengths(topic))
                          /\ Closed(topic, have[b]) /\ have[b][b] = Len(topic[b])
                          /\ Len(topic[b]) \in Nat /\ Len(topic[b]) <= MaxRecords
      /\ \A b \in Actor : \A j \in 1 .. Len(topic[b]) : RecordOK(topic, b, j)
      /\ \A m \in Node : m \in Actor /\ store[m] \in Store /\ hold[m] \in Nat /\ NodeOK(m)
  BY StateFacts, Zenon
<1>2. h[a] \in Nat /\ k \in 1 .. Len(topic[a]) /\ n # a
  BY <1>1 DEF Receive, VectorClock
<1>3. topic[a][k].observed \in VectorClock /\ Leq(topic[a][k].observed, h)
  <2>1. topic[a][k].observed \in VectorClock
    BY <1>1, <1>2, RecordTypes, Zenon DEF Record
  <2> QED
    BY <1>1, <2>1, MissingNone, Zenon DEF Receive
<1>4. UNCHANGED <<topic, store, disk, pass, hold, open, stalled, skipped, faults>>
  BY Zenon DEF Receive
<1>5. have' = [have EXCEPT ![n] = i] /\ i \in VectorClock
  <2>1. i \in VectorClock
    BY <1>1, <1>2 DEF VectorClock
  <2>2. have' = [have EXCEPT ![n] = i]
    BY Zenon DEF Receive
  <2> QED
    BY <2>1, <2>2, Zenon
<1>6. \A b \in Actor : h[b] \in Nat /\ i[b] \in Nat /\ i[b] = IF b = a THEN k ELSE h[b]
  <2>1. k \in Nat /\ h \in [Actor -> Nat]
    BY <1>1, <1>2 DEF VectorClock
  <2> HIDE DEF h, k
  <2> QED
    BY <2>1, Zenon
<1>7. Leq(h, i) /\ \A b \in Actor : i[b] <= Len(topic[b])
  BY <1>1, <1>2, <1>6 DEF Leq, Lengths
<1>8. i[n] = Len(topic[n])
  BY <1>1, <1>2, <1>6, Zenon
<1> HIDE DEF i
<1>9. Closed(topic, i)
  <2> SUFFICES ASSUME NEW b \in Actor, NEW j \in 1 .. i[b] PROVE Leq(topic[b][j].observed, i)
    BY Zenon DEF Closed
  <2>1. j \in 1 .. Len(topic[b]) /\ topic[b][j].observed \in VectorClock
    BY <1>1, <1>6, <1>7, RecordTypes DEF Record
  <2>2. Leq(topic[b][j].observed, h)
    <3>1. CASE b = a /\ j = k
      BY <1>3, <3>1, Zenon
    <3>2. CASE j \in 1 .. h[b]
      BY <1>1, <3>2, Zenon DEF Closed
    <3> QED
      BY <1>2, <1>6, <3>1, <3>2
  <2> QED
    BY <1>1, <1>5, <1>7, <2>1, <2>2, LeqTransitive, Zenon
<1> HIDE DEF h, k
<1>10. have'[n] = i /\ have' \in [Actor -> VectorClock] /\ \A m \in Actor \ {n} : have'[m] = have[m]
  BY <1>1, <1>5, Zenon
<1>11. \A m \in Actor : Leq(have[m], have'[m])
  BY <1>1, <1>7, <1>10, LeqReflexive, Zenon DEF h
<1>12. TopicOK(topic, have)'
  <2>1. \A m, b \in Actor : have'[m][b] <= Len(topic[b])
    BY <1>1, <1>7, <1>10, Zenon DEF Leq, Lengths
  <2>2. \A m \in Actor : Closed(topic, have'[m]) /\ have'[m][m] = Len(topic[m])
    BY <1>1, <1>8, <1>9, <1>10, Zenon
  <2> QED
    BY <1>1, <1>4, <2>1, <2>2, Zenon DEF TopicOK
<1>13. TypeOK'
  BY <1>4, <1>10, Zenon DEF SyncInv, TypeOK
<1>14. Extends(topic, topic') /\ \A m \in Node : NewSaw(topic, topic', m, store[m])
  BY <1>1, <1>4 DEF Extends, NewSaw
<1>15. \A m \in Node : HoldOK(topic', m, store[m], hold'[m])
  BY <1>1, <1>4, Zenon DEF NodeOK
<1> QED
  BY <1>4, <1>11, <1>12, <1>13, <1>14, <1>15, GrowStep, Zenon

-----------------------------------------------------------------------------
(* The invariant.                                                          *)

LEMMA InitOK == Init => SyncInv
<1> SUFFICES ASSUME Init PROVE SyncInv
  BY Zenon
<1>1. NoEvents \in VectorClock /\ \A a \in Actor : NoEvents[a] = 0
  BY Zenon DEF NoEvents, VectorClock
<1>2. EmptyStore \in Store
  BY <1>1, Zenon DEF EmptyStore, Store, Empty, QuadState
<1>3. TypeOK
  BY <1>1, <1>2, NoPageFacts, LimitAssumption DEF Init, TypeOK
<1>4. \A a \in Actor : topic[a] = <<>> /\ have[a] = NoEvents /\ Len(topic[a]) = 0
  BY Zenon DEF Init
<1>5. TopicOK(topic, have)
  BY <1>1, <1>4, LimitAssumption DEF TopicOK, Closed
<1>6. Leq(NoEvents, NoEvents)
  BY <1>1, LeqReflexive, Zenon
<1>7. ASSUME NEW n \in Node PROVE NodeOK(n)
  <2>1. n \in Actor /\ store[n] = EmptyStore /\ disk[n] = EmptyStore /\ pass[n] = NoPage /\ hold[n] = 0
    BY Zenon DEF Init, Node
  <2>2. StoreOK(topic, NoEvents, n, EmptyStore)
    <3>1. /\ EmptyStore.clock = NoEvents /\ EmptyStore.cursor = NoEvents /\ EmptyStore.ledger = {}
          /\ Goal(NoEvents, EmptyStore) = NoEvents
      BY Zenon DEF EmptyStore, Goal
    <3>2. /\ Closed(topic, Goal(NoEvents, EmptyStore)) /\ SawWithin(topic, n, Goal(NoEvents, EmptyStore))
          /\ Backed(topic, EmptyStore, EmptyStore.cursor)
      BY <1>1, <1>4, <2>1, <3>1 DEF Closed, SawWithin, Backed
    <3>3. LedgerOK(topic, NoEvents, EmptyStore)
      BY <3>1, Zenon DEF LedgerOK
    <3>4. \A a \in Actor \ {n} : EmptyStore.clock[a] <= Goal(NoEvents, EmptyStore)[a]
      BY DEF EmptyStore, Goal, NoEvents
    <3>5. /\ Leq(EmptyStore.clock, NoEvents) /\ Leq(EmptyStore.cursor, Goal(NoEvents, EmptyStore))
          /\ Leq(Goal(NoEvents, EmptyStore), NoEvents)
      BY <1>6, <3>1, Zenon
    <3> QED
      BY <3>2, <3>3, <3>4, <3>5, Zenon DEF StoreOK
  <2>3. DataOK(topic, n, EmptyStore)
    <3>1. EmptyStore.clock = NoEvents /\ \A q \in Quad : EmptyStore.dots[q] = {}
      BY Zenon DEF EmptyStore, Empty
    <3>2. OrderOK(topic, n, EmptyStore)
      BY <1>1, <3>1 DEF OrderOK
    <3>3. DotsOK(topic, n, EmptyStore)
      <4>1. \A a \in Actor : 1 .. EmptyStore.clock[a] = {}
        BY DEF EmptyStore, NoEvents
      <4> QED
        BY <3>1, <4>1, Zenon DEF DotsOK
    <3> QED
      BY <3>2, <3>3, Zenon DEF DataOK
  <2>4. DiskOK(EmptyStore, EmptyStore) /\ OpenOK(topic, n, EmptyStore)
    <3>1. EmptyStore.clock = NoEvents /\ (EmptyStore.tomb <=> FALSE)
      BY Zenon DEF EmptyStore
    <3>2. DiskOK(EmptyStore, EmptyStore)
      BY <1>6, <3>1, Zenon DEF DiskOK
    <3>3. 1 .. Len(topic[n]) = {}
      BY <1>4, <2>1
    <3> QED
      BY <3>2, <3>3, Zenon DEF OpenOK
  <2> QED
    BY <1>4, <2>1, <2>2, <2>3, <2>4, NoPageFacts, Zenon DEF NodeOK, HoldOK
<1> QED
  BY <1>3, <1>5, <1>7, Zenon DEF SyncInv

LEMMA NodeStepOK ==
    ASSUME SyncInv, NEW n \in Node, NodeStep(n)
    PROVE  SyncInv'
<1>1. CASE \E kind \in LocalKinds \ {"Control"}, changes \in ChangeSets \cup {<<>>} :
              Publish(n, kind, changes)
  BY <1>1, PublishStep, Zenon
<1>2. CASE PublishControl(n)
  BY <1>2, PublishControlStep, Zenon
<1>3. CASE FinishPublish(n)
  BY <1>3, FinishPublishStep, Zenon
<1>4. CASE FailPublish(n)
  BY <1>4, FailPublishStep, Zenon
<1>5. CASE \E k \in 1 .. MaxRecords : RetryMutation(n, k)
  BY <1>5, RetryMutationStep, Zenon
<1>6. CASE Persist(n)
  BY <1>6, PersistStep, Zenon
<1>7. CASE Crash(n)
  BY <1>7, CrashStep, Zenon
<1>8. CASE StartPage(n)
  BY <1>8, StartPageStep, Zenon
<1>9. CASE \E dot \in NextRecords(n) : ApplyNext(n, dot)
  BY <1>9, ApplyNextStep, Zenon
<1>10. CASE \E dot \in NextRecords(n) : RejectNext(n, dot)
  BY <1>10, RejectNextStep, Zenon
<1>11. CASE EndPage(n)
  BY <1>11, EndPageStep, Zenon
<1>12. CASE StallNext(n)
  BY <1>12, StallNextStep, Zenon
<1>13. CASE \E dot \in store[n].ledger : RetryRejected(n, dot)
  BY <1>13, RetryRejectedStep, Zenon
<1>14. CASE \E dot \in store[n].ledger : DeleteRejected(n, dot)
  BY <1>14, DeleteRejectedStep, Zenon
<1> QED
  BY <1>1, <1>2, <1>3, <1>4, <1>5, <1>6, <1>7, <1>8, <1>9, <1>10, <1>11, <1>12, <1>13, <1>14, Zenon
  DEF NodeStep

LEMMA NextOK == SyncInv /\ [Next]_vars => SyncInv'
<1> SUFFICES ASSUME SyncInv, [Next]_vars PROVE SyncInv'
  BY Zenon
<1>1. CASE \E n \in Node : NodeStep(n)
  BY <1>1, NodeStepOK, Zenon
<1>2. CASE \E n, a \in Actor : Receive(n, a)
  BY <1>2, ReceiveStep, Zenon
<1>3. CASE \E a \in Foreign, kind \in ForeignKinds, changes \in ChangeSets \cup {<<>>} :
              PublishForeign(a, kind, changes)
  BY <1>3, PublishForeignStep, Zenon
<1>4. CASE UNCHANGED vars
  BY <1>4, Zenon DEF vars, SyncInv, TypeOK, TopicOK, NodeOK
<1> QED
  BY <1>1, <1>2, <1>3, <1>4, Zenon DEF Next

\* In every state of every behaviour, what the actors hold of the topic is causally closed,
\* and each node's store, disk, page and held record stand in the relations that the
\* reconcile passes, the publish path and recovery rely on.
THEOREM TopicInvariance == Spec => []SyncInv
BY InitOK, NextOK, PTL DEF Spec

\* The disk f keeps what the disk e holds.
Kept(e, f) ==
    /\ Leq(e.cursor, f.cursor)
    /\ e.tomb => f.tomb
    /\ f.tomb \/ Leq(e.clock, f.clock)

\* The disk takes over the store, with the cursor moved on.
LEMMA KeptStep ==
    ASSUME NEW s \in Store, NEW e \in Store, NEW f \in Store, DiskOK(s, e),
           Leq(s.cursor, f.cursor), f.clock = s.clock, f.tomb <=> s.tomb
    PROVE  Kept(e, f)
BY Zenon DEF DiskOK, Kept

LEMMA KeptReflexive ==
    ASSUME NEW e \in Store
    PROVE  Kept(e, e)
BY LeqReflexive, Zenon DEF Kept, Store

LEMMA SaveCursorKeeps ==
    ASSUME SyncInv, NEW n \in Node, pass[n].on, SaveCursor(n)
    PROVE  \A m \in Node : Kept(disk[m], disk'[m])
<1> DEFINE s == store[n]
           p == pass[n]
           u == [s EXCEPT !.cursor = p.clock, !.target = p.keep]
<1>1. /\ s \in Store /\ p \in Page /\ NodeOK(n) /\ PageOK(topic, have[n], n, s, p)
      /\ store \in [Node -> Store] /\ disk \in [Node -> Store]
  BY StateFacts, Zenon DEF NodeOK, SyncInv, TypeOK
<1>2. CASE ~p.consumed
  BY <1>1, <1>2, KeptReflexive, Zenon DEF SaveCursor
<1>3. CASE p.consumed
  <2>1. store' = [store EXCEPT ![n] = u]
    BY <1>3, Zenon DEF SaveCursor
  <2>2. store'[n] = u
    BY <1>1, <2>1, Zenon
  <2>3. disk' = [disk EXCEPT ![n] = u]
    BY <1>3, <2>2, Zenon DEF SaveCursor
  <2>4. u \in Store /\ u.clock = s.clock /\ (u.tomb <=> s.tomb) /\ u.cursor = p.clock
    <3>1. p.clock \in VectorClock /\ p.keep \in VectorClock
      BY <1>1, Zenon DEF Page
    <3> HIDE DEF p
    <3> QED
      BY <1>1, <3>1, Zenon DEF Store
  <2>5. DiskOK(s, disk[n]) /\ Leq(s.cursor, u.cursor)
    BY <1>1, <2>4, Zenon DEF NodeOK, PageOK
  <2> HIDE DEF u, s
  <2>6. Kept(disk[n], u)
    BY <1>1, <2>4, <2>5, KeptStep, Zenon
  <2> QED
    BY <1>1, <2>3, <2>6, KeptReflexive, Zenon
<1> QED
  BY <1>2, <1>3, Zenon

LEMMA RejectNextKeeps ==
    ASSUME SyncInv, NEW n \in Node, NEW dot \in NextRecords(n), RejectNext(n, dot)
    PROVE  \A m \in Node : Kept(disk[m], disk'[m])
<1> DEFINE a == dot.actor
           k == dot.counter
           s == store[n]
           p == pass[n]
           r == consume(p, dot)
           u == [s EXCEPT !.ledger = @ \cup {dot}, !.settled = @ \ {dot},
                          !.cursor = r.clock, !.target = p.keep]
<1>1. /\ PageOK(topic, have[n], n, s, p) /\ a \in Actor /\ k \in 1 .. MaxRecords /\ dot = At(a, k)
      /\ k = p.clock[a] + 1 /\ p.left > 0
  BY NextIsReady, Zenon DEF RejectNext
<1>2. /\ s \in Store /\ p \in Page /\ NodeOK(n) /\ disk \in [Node -> Store] /\ MaxRecords \in Nat
      /\ store \in [Node -> Store]
  BY StateFacts, Zenon DEF SyncInv, TypeOK
<1>3. k \in Nat \ {0} /\ dot \in Dot
  BY <1>1, <1>2, SMTT(30) DEF At, Dot
<1>4. r \in Page /\ r.clock = [p.clock EXCEPT ![a] = k]
  <2>1. p \in Page /\ a \in Actor /\ k \in Nat /\ k = p.clock[a] + 1 /\ p.left > 0
    BY <1>1, <1>2, <1>3, Zenon
  <2> HIDE DEF p
  <2> QED
    BY <2>1, ConsumeStep, Zenon
<1>5. disk' = [disk EXCEPT ![n] = u]
  <2>1. pass' = [pass EXCEPT ![n] = r] /\ pass'[n] = r
    BY Zenon DEF RejectNext, SyncInv, TypeOK
  <2>2. store' = [store EXCEPT ![n] = u]
    BY <2>1, Zenon DEF RejectNext
  <2>3. store'[n] = u
    BY <1>2, <2>2, Zenon
  <2> QED
    BY <2>3, Zenon DEF RejectNext
<1>6. u \in Store /\ u.clock = s.clock /\ (u.tomb <=> s.tomb) /\ u.cursor = r.clock
  <2>1. r.clock \in VectorClock /\ p.keep \in VectorClock
    BY <1>2, <1>4, Zenon DEF Page
  <2> HIDE DEF r, p
  <2> QED
    BY <1>2, <1>3, <2>1, Zenon DEF Store
<1>7. Leq(s.cursor, u.cursor)
  <2>1. s.cursor \in VectorClock /\ p.clock \in VectorClock /\ Leq(s.cursor, p.clock)
    BY <1>1, <1>2, Zenon DEF Store, Page, PageOK
  <2> HIDE DEF p, s, u, r
  <2>2. r.clock \in VectorClock
    BY <1>4, Zenon DEF Page
  <2>3. \A b \in Actor : p.clock[b] \in Nat /\ r.clock[b] = IF b = a THEN p.clock[b] + 1 ELSE p.clock[b]
    BY <1>1, <1>4, <2>1, Zenon DEF VectorClock
  <2>4. Leq(p.clock, r.clock)
    BY <2>3 DEF Leq
  <2> QED
    BY <1>6, <2>1, <2>2, <2>4, LeqTransitive, Zenon
<1>8. DiskOK(s, disk[n])
  BY <1>2, Zenon DEF NodeOK
<1> HIDE DEF u, s
<1>9. Kept(disk[n], u)
  BY <1>2, <1>6, <1>7, <1>8, KeptStep, Zenon
<1> QED
  BY <1>2, <1>5, <1>9, KeptReflexive, Zenon

LEMMA DiskKeeps ==
    ASSUME SyncInv, [Next]_vars
    PROVE  \A m \in Node : Kept(disk[m], disk'[m])
<1>1. disk \in [Node -> Store] /\ \A m \in Node : store[m] \in Store /\ NodeOK(m)
  BY StateFacts, Zenon DEF SyncInv, TypeOK
<1>2. CASE disk' = disk
  BY <1>1, <1>2, KeptReflexive, Zenon
<1>3. ASSUME NEW n \in Node, Persist(n) PROVE \A m \in Node : Kept(disk[m], disk'[m])
  <2>1. DiskOK(store[n], disk[n]) /\ Leq(store[n].cursor, store[n].cursor)
    BY <1>1, LeqReflexive, Zenon DEF NodeOK, Store
  <2>2. Kept(disk[n], store[n])
    BY <1>1, <2>1, KeptStep, Zenon
  <2> QED
    BY <1>1, <1>3, <2>2, KeptReflexive, Zenon DEF Persist
<1>4. ASSUME NEW n \in Node, NEW dot \in NextRecords(n), RejectNext(n, dot)
      PROVE  \A m \in Node : Kept(disk[m], disk'[m])
  BY <1>4, RejectNextKeeps, Zenon
<1>5. ASSUME NEW n \in Node, EndPage(n) PROVE \A m \in Node : Kept(disk[m], disk'[m])
  BY <1>5, SaveCursorKeeps, Zenon DEF EndPage
<1>6. ASSUME NEW n \in Node, StallNext(n) PROVE \A m \in Node : Kept(disk[m], disk'[m])
  <2>1. pass[n].left > 0 /\ SaveCursor(n)
    BY <1>6, Zenon DEF StallNext
  <2>2. pass[n].left # 0
    BY <2>1
  <2>3. pass[n].on
    BY <1>1, <2>2, Zenon DEF NodeOK
  <2> QED
    BY <2>1, <2>3, SaveCursorKeeps, Zenon
<1>7. ASSUME NEW n \in Node, NodeStep(n)
      PROVE  \/ disk' = disk \/ Persist(n) \/ (\E dot \in NextRecords(n) : RejectNext(n, dot))
             \/ EndPage(n) \/ StallNext(n)
  BY <1>7, Zenon DEF NodeStep, Publish, PublishControl, FinishPublish, FailPublish, RetryMutation, Crash,
              StartPage, ApplyNext, RetryRejected, DeleteRejected
<1>8. CASE \E n \in Node : NodeStep(n)
  BY <1>2, <1>3, <1>4, <1>5, <1>6, <1>7, <1>8, Zenon
<1>9. CASE ~ \E n \in Node : NodeStep(n)
  BY <1>2, <1>9, Zenon DEF Next, Receive, PublishForeign, vars
<1> QED
  BY <1>8, <1>9, Zenon

\* What has reached the disk is not undone, whatever the number of crashes, passes and
\* persisted batches: the stored cursor, the tombstone and, short of a deletion, the clock of
\* reconcile_topic's store only advance there.
THEOREM DisksAreKept == Spec => DiskIsKept
<1>1. SyncInv /\ SyncInv' /\ [Next]_vars =>
        [\A n \in Node :
            /\ missing_dots(disk[n].cursor, disk'[n].cursor) = {}
            /\ disk[n].tomb => disk'[n].tomb
            /\ disk'[n].tomb \/ missing_dots(disk[n].clock, disk'[n].clock) = {}]_vars
  <2> SUFFICES ASSUME SyncInv, SyncInv', [Next]_vars, NEW n \in Node
               PROVE  /\ missing_dots(disk[n].cursor, disk'[n].cursor) = {}
                      /\ disk[n].tomb => disk'[n].tomb
                      /\ disk'[n].tomb \/ missing_dots(disk[n].clock, disk'[n].clock) = {}
    BY Zenon
  <2>1. disk[n] \in Store /\ disk'[n] \in Store
    BY Zenon DEF SyncInv, TypeOK
  <2>2. Kept(disk[n], disk'[n])
    BY DiskKeeps, Zenon
  <2>3. /\ disk[n].cursor \in VectorClock /\ disk'[n].cursor \in VectorClock
        /\ disk[n].clock \in VectorClock /\ disk'[n].clock \in VectorClock
    BY <2>1, Zenon DEF Store
  <2> QED
    BY <2>2, <2>3, MissingNone, Zenon DEF Kept
<1> QED
  BY <1>1, TopicInvariance, PTL DEF Spec, DiskIsKept

\* In memory and on disk, the cursor that reconcile_topic stores never passes a record
\* without a trace, and stays within its target or the topic.
THEOREM CursorsAreBacked == Spec => []CursorIsBacked
<1>1. SyncInv => CursorIsBacked
  <2> SUFFICES ASSUME SyncInv, NEW n \in Node, NEW s \in {store[n], disk[n]}
               PROVE  /\ missing_dots(s.cursor, IF s.target = NoEvents THEN have[n] ELSE s.target) = {}
                      /\ \A d \in Between(NoEvents, s.cursor) :
                            /\ RecordOf(d).kind = "Changes" => s.tomb \/ contains(s.clock, d)
                            /\ RecordOf(d).kind = "Delete" => s.tomb
                            /\ RecordOf(d).kind = "Bad" => d \in s.ledger \cup s.settled
    BY Zenon DEF CursorIsBacked
  <2>1. s \in Store /\ have[n] \in VectorClock /\ StoreOK(topic, have[n], n, s)
    BY StateFacts, Zenon DEF NodeOK
  <2>2. s.cursor \in VectorClock /\ s.clock \in VectorClock /\ Goal(have[n], s) \in VectorClock
    BY <2>1, Zenon DEF Store, Goal
  <2>3. missing_dots(s.cursor, Goal(have[n], s)) = {}
    BY <2>1, <2>2, MissingNone, Zenon DEF StoreOK
  <2>4. ASSUME NEW d \in Between(NoEvents, s.cursor)
        PROVE  /\ RecordOf(d).kind = "Changes" => s.tomb \/ contains(s.clock, d)
               /\ RecordOf(d).kind = "Delete" => s.tomb
               /\ RecordOf(d).kind = "Bad" => d \in s.ledger \cup s.settled
    <3>1. d.actor \in Actor /\ d.counter \in 1 .. s.cursor[d.actor] /\ d = At(d.actor, d.counter)
      BY <2>2, LimitAssumption DEF Between, NoEvents, VectorClock, At
    <3>2. d.counter \in Nat /\ s.clock[d.actor] \in Nat
      BY <2>2, <3>1 DEF VectorClock
    <3> QED
      BY <2>1, <3>1, <3>2, Zenon DEF StoreOK, Backed, RecordOf, contains
  <2> QED
    BY <2>3, <2>4, Zenon DEF Goal
<1> QED
  BY <1>1, TopicInvariance, PTL

\* The data records that a clock covers, spelled out.
LEMMA KnownFacts ==
    ASSUME SyncInv, NEW c \in VectorClock, Leq(c, Lengths(topic)), NEW d
    PROVE  d \in Known(c) <=> /\ d \in Dot /\ d.counter <= c[d.actor]
                              /\ topic[d.actor][d.counter].kind = "Changes"
<1>1. MaxRecords \in Nat /\ \A a \in Actor : Len(topic[a]) \in Nat /\ Len(topic[a]) <= MaxRecords
  BY StateFacts, Zenon
<1>2. \A a \in Actor : c[a] \in Nat /\ c[a] <= MaxRecords /\ NoEvents[a] = 0
  <2> TAKE a \in Actor
  <2>1. c[a] \in Nat /\ c[a] <= Len(topic[a]) /\ NoEvents[a] = 0
    BY Zenon DEF VectorClock, Leq, Lengths, NoEvents
  <2> QED
    BY <1>1, <2>1
<1>3. ASSUME d \in Known(c)
      PROVE  d \in Dot /\ d.counter <= c[d.actor] /\ topic[d.actor][d.counter].kind = "Changes"
  BY <1>1, <1>3 DEF Known, Between, RecordOf, Dot
<1>4. ASSUME d \in Dot, d.counter <= c[d.actor], topic[d.actor][d.counter].kind = "Changes"
      PROVE  d \in Known(c)
  <2>1. d \in [actor : Actor, counter : 1 .. MaxRecords] /\ NoEvents[d.actor] < d.counter
    BY <1>1, <1>2, <1>4 DEF Dot
  <2> QED
    BY <1>4, <2>1, Zenon DEF Known, Between, RecordOf
<1> QED
  BY <1>3, <1>4, Zenon

\* In memory and on disk, a node holds the OR-Set of the records its clock covers: the clock
\* marks no record as seen that apply_record_locked did not apply, and no dot outlives a
\* covered delete but one that an own delete could not see.
THEOREM StoresFollowTopic == Spec => []StoreFollowsTopic
<1>1. SyncInv => StoreFollowsTopic
  <2> SUFFICES ASSUME SyncInv, NEW n \in Node, NEW q \in Quad, NEW s \in {store[n], disk[n]},
                      ~s.tomb, n \notin skipped
               PROVE  LET Counts(r, d) == r.actor = n => contains(RecordOf(r).seen, d) IN
                      /\ TopicReduction(s.clock, q, AllCount) \subseteq s.dots[q]
                      /\ s.dots[q] \subseteq TopicReduction(s.clock, q, Counts)
    BY Zenon DEF StoreFollowsTopic
  <2> DEFINE c == s.clock
  <2>1. s \in Store /\ have[n] \in VectorClock /\ Leq(have[n], Lengths(topic))
        /\ StoreOK(topic, have[n], n, s) /\ DataOK(topic, n, s)
    BY StateFacts, Zenon DEF NodeOK
  <2>2. c \in VectorClock /\ s.dots \in QuadState /\ Leq(c, Lengths(topic))
    <3>1. c \in VectorClock /\ s.dots \in QuadState /\ Leq(c, have[n]) /\ Lengths(topic) \in VectorClock
      BY <2>1, LengthsType, StateFacts, Zenon DEF Store, StoreOK
    <3> QED
      BY <2>1, <3>1, LeqTransitive, Zenon
  <2>3. DotsOK(topic, n, s)
    BY <2>1, Zenon DEF DataOK
  <2> HIDE DEF c
  <2>4. ASSUME NEW d \in Known(c)
        PROVE  /\ d \in Dot /\ d.actor \in Actor /\ d.counter \in 1 .. c[d.actor] /\ d = At(d.actor, d.counter)
               /\ topic[d.actor][d.counter].kind = "Changes"
               /\ batch_from_changes(d).ops = OpsAt(topic, d.actor, d.counter)
    <3>1. d \in Dot /\ d.counter <= c[d.actor] /\ topic[d.actor][d.counter].kind = "Changes"
      BY <2>2, <2>4, KnownFacts, Zenon
    <3>2. d.actor \in Actor /\ d.counter \in 1 .. c[d.actor] /\ d = At(d.actor, d.counter)
      BY <2>2, <3>1 DEF Dot, At, VectorClock
    <3> QED
      BY <3>1, <3>2, Zenon DEF batch_from_changes, OpsAt, RecordOf
  <2>5. ASSUME NEW a \in Actor, NEW k \in 1 .. c[a], topic[a][k].kind = "Changes"
        PROVE  At(a, k) \in Known(c)
    <3>1. At(a, k) \in Dot /\ At(a, k).actor = a /\ At(a, k).counter = k /\ k <= c[a]
      BY <2>2 DEF At, Dot, VectorClock
    <3> QED
      BY <2>2, <2>5, <3>1, KnownFacts, Zenon
  <2>6. ASSUME NEW d \in Known(c), d \in NewDots(batch_from_changes(d).ops, q),
               \A r \in Known(c) : r = d \/ KeptAfter(batch_from_changes(r).ops, 0, q, d)
        PROVE  d \in s.dots[q]
    <3> DEFINE a == d.actor
               k == d.counter
    <3>1. /\ a \in Actor /\ k \in 1 .. c[a] /\ d = At(a, k) /\ topic[a][k].kind = "Changes"
          /\ At(a, k) \in NewDots(OpsAt(topic, a, k), q)
      BY <2>4, <2>6, Zenon
    <3> HIDE DEF a, k
    <3>2. \/ At(a, k) \in s.dots[q]
          \/ \E b \in Actor : \E j \in 1 .. c[b] :
                topic[b][j].kind = "Changes" /\ At(b, j) # At(a, k) /\ ~Spares(topic, b, j, q, At(a, k))
      BY <2>3, <3>1, Zenon DEF DotsOK, c
    <3>3. ASSUME NEW b \in Actor, NEW j \in 1 .. c[b], topic[b][j].kind = "Changes", At(b, j) # At(a, k)
          PROVE  Spares(topic, b, j, q, At(a, k))
      <4>1. At(b, j) \in Known(c) /\ At(b, j).actor = b /\ At(b, j).counter = j
        BY <2>5, <3>3, Zenon DEF At
      <4>2. batch_from_changes(At(b, j)).ops = OpsAt(topic, b, j)
        BY <2>4, <4>1, Zenon
      <4> QED
        BY <2>6, <3>1, <3>3, <4>1, <4>2, Zenon DEF Spares
    <3> QED
      BY <3>1, <3>2, <3>3, Zenon
  <2>7. ASSUME NEW d \in s.dots[q]
        PROVE  /\ d \in Known(c) /\ d \in NewDots(batch_from_changes(d).ops, q)
               /\ \A r \in Known(c) : \/ r = d
                                      \/ ~(r.actor = n => contains(RecordOf(r).seen, d))
                                      \/ KeptAfter(batch_from_changes(r).ops, 0, q, d)
    <3>1. d \in Dot
      BY <2>2, Zenon DEF QuadState
    <3>2. /\ d.counter <= c[d.actor] /\ topic[d.actor][d.counter].kind = "Changes"
          /\ d \in NewDots(OpsAt(topic, d.actor, d.counter), q)
          /\ \A b \in Actor : \A j \in 1 .. c[b] :
                \/ topic[b][j].kind # "Changes"
                \/ At(b, j) = d
                \/ b = n /\ ~contains(topic[b][j].seen, d)
                \/ Spares(topic, b, j, q, d)
      BY <2>3, Zenon DEF DotsOK, c
    <3>3. d \in Known(c)
      BY <2>2, <3>1, <3>2, KnownFacts, Zenon
    <3>4. ASSUME NEW r \in Known(c)
          PROVE  \/ r = d
                 \/ ~(r.actor = n => contains(RecordOf(r).seen, d))
                 \/ KeptAfter(batch_from_changes(r).ops, 0, q, d)
      <4>1. /\ r.actor \in Actor /\ r.counter \in 1 .. c[r.actor] /\ r = At(r.actor, r.counter)
            /\ topic[r.actor][r.counter].kind = "Changes"
            /\ batch_from_changes(r).ops = OpsAt(topic, r.actor, r.counter)
        BY <2>4, Zenon
      <4> QED
        BY <3>2, <4>1, Zenon DEF Spares, RecordOf
    <3> QED
      BY <2>4, <3>2, <3>3, <3>4, Zenon
  <2>8. TopicReduction(s.clock, q, AllCount) \subseteq s.dots[q]
    BY <2>6, Zenon DEF TopicReduction, AllCount, c
  <2> QED
    BY <2>7, <2>8, Zenon DEF TopicReduction, c
<1> QED
  BY <1>1, TopicInvariance, PTL

=============================================================================
