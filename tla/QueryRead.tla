------------------------------ MODULE QueryRead -----------------------------
(***************************************************************************)
(* Reading a quad pattern from a snapshot (rdf_read.rs, query/cursor.rs).  *)
(* The same question is answered by the source rows, by one of six index   *)
(* orders, by point reads, by merged per-graph ranges and by partitions of *)
(* a range; the paths differ in prefix, residual filter, order and in when *)
(* they drop duplicates and invisible rows.  A read is a function of an    *)
(* immutable snapshot, so each is one step: PickRead chooses the snapshot  *)
(* and the question, and the properties compare every path with the        *)
(* definition of the answer.                                               *)
(*                                                                         *)
(* A quad is <<graph, subject, predicate, object>>.  Query ids stand for   *)
(* the terms; the mapping between the two is part of QueryIndex.           *)
(***************************************************************************)
EXTENDS Integers, Sequences, SequencesExt, FiniteSets, FiniteSetsExt

CONSTANTS
    Universe,       \* rows the source may hold, live or without dots
    IdLimit,        \* query_id_limit: ids are below it
    OrphanChoice,   \* orphan sets to choose from: graph -> set of terms
    RangeLimit      \* GRAPH_RANGE_LIMIT

None == IdLimit
Column == 1 .. 4
Term == 0 .. IdLimit - 1

\* What the constants satisfy; a module that instantiates this one assumes it.
ReadAssumption ==
    /\ IdLimit \in Nat /\ RangeLimit \in Nat
    /\ \A q \in Universe : q \in [Column -> Term]

GraphOf == {q[1] : q \in Universe}

VARIABLES
    rdLive,         \* the live quads of the snapshot; the index holds these
    rdRead          \* the question, or NoRead

readVars == <<rdLive, rdRead>>

NoRead == [kind |-> "none"]

\* GraphVisibility: everything, an exact set, or a predicate.
Visibility == [kind : {"exact", "predicate"}, graphs : SUBSET GraphOf]

\* ReadContext::for_validation: one graph, with its orphans.
Validation == [kind : {"validation"}, graphs : {{g} : g \in GraphOf}]

Selector == [kind : {"named"}, graph : GraphOf]
              \cup [kind : {"union", "default"}, graph : {None}]

Pattern == {p \in [Column -> Term \cup {None}] :
              /\ p[1] = None
              /\ \A c \in 2 .. 4 :
                   p[c] = None \/ \E q \in Universe : q[c] = p[c]}

ReadInit == rdLive = {} /\ rdRead = NoRead

\* A snapshot and a question about it.  `trusted` is the admission of the
\* query index, decided once for a view (qv_admission).
PickRead ==
    /\ rdRead = NoRead
    /\ rdLive' \in SUBSET Universe
    /\ rdRead' \in [kind : {"read"}, selector : Selector, pattern : Pattern,
                    mode : {"auto", "source", "qv"}, trusted : BOOLEAN,
                    visibility : Visibility \cup Validation, orphans : OrphanChoice]
    /\ rdRead'.mode = "source" => rdRead'.trusted

\* A snapshot and a range of its index, for the callers that count over it.
PickRange ==
    /\ rdRead = NoRead
    /\ rdLive' \in SUBSET Universe
    /\ rdRead' \in [kind : {"range"}, pattern : Pattern]

ReadNext == PickRead \/ PickRange
ReadSpec == ReadInit /\ [][ReadNext]_readVars

-----------------------------------------------------------------------------
(* Visibility.                                                             *)

\* graph_is_visible: the snapshot knows the graph, unless it is the one that
\* is validated, and the scope admits it.
graph_is_visible(read, g) ==
    /\ read.visibility.kind # "validation" => \E q \in rdLive : q[1] = g
    /\ g \in read.visibility.graphs

\* terms_are_visible: neither end of the quad is an orphan of its graph, which
\* a validation does not ask.
terms_are_visible(read, q) ==
    /\ graph_is_visible(read, q[1])
    /\ read.visibility.kind # "validation" =>
         q[2] \notin read.orphans[q[1]] /\ q[4] \notin read.orphans[q[1]]

\* QuadPattern::matches.
matches(pattern, q) == \A c \in Column : pattern[c] \in {None, q[c]}

\* GraphSelector::apply.
Applied(read) ==
    IF read.selector.kind = "named"
    THEN [read.pattern EXCEPT ![1] = read.selector.graph] ELSE read.pattern

-----------------------------------------------------------------------------
(* Index orders, ranges and partitions.                                    *)

\* The columns of each order, as the key functions lay them out.
Columns == [gspo |-> <<1, 2, 3, 4>>, gpos |-> <<1, 3, 4, 2>>,
            gosp |-> <<1, 4, 2, 3>>, spog |-> <<2, 3, 4, 1>>,
            posg |-> <<3, 4, 2, 1>>, ospg |-> <<4, 2, 3, 1>>]
Order == DOMAIN Columns

IndexKey(order, q) == [i \in Column |-> q[Columns[order][i]]]

\* RawIndexKey::graph, subject, predicate and object.
Decoded(order, key) ==
    [c \in Column |-> key[CHOOSE i \in Column : Columns[order][i] = c]]

\* Byte order of big-endian keys.
KeyLess(a, b) ==
    \E i \in DOMAIN a : a[i] < b[i] /\ \A j \in 1 .. i - 1 : a[j] = b[j]

Keys(order, quads) ==
    SetToSortSeq({IndexKey(order, q) : q \in quads}, KeyLess)

\* narrow: the bound columns a key starts with.
narrow(order, pattern) ==
    Max({n \in 0 .. 4 : \A i \in 1 .. n : pattern[Columns[order][i]] # None})

\* query_index_range: the same, except that the orders that end in the graph,
\* and gpos, never take their last columns into the prefix.
query_index_range(order, pattern) ==
    LET longest == [gspo |-> 4, gpos |-> 3, gosp |-> 4,
                    spog |-> 3, posg |-> 2, ospg |-> 3]
    IN  Min({longest[order], narrow(order, pattern)})

\* RawIndexPattern::without_prefix: what is left to filter.
without_prefix(order, pattern, n) ==
    [c \in Column |->
       IF \E i \in 1 .. n : Columns[order][i] = c THEN None ELSE pattern[c]]

\* RawIndexCursor::next_key over one range; a full prefix is a point read.
PrefixRange(order, quads, pattern, n) ==
    SelectSeq(Keys(order, quads), LAMBDA key :
      \A i \in 1 .. n : key[i] = pattern[Columns[order][i]])

\* Faulty: the column is free, but not the first free one.
grouping_for_order_any(order, pattern) ==
    IF pattern[2] = None THEN 2 ELSE None
\* grouping_for_order: the first column that is not fixed decides by which
\* term equal rows are adjacent.
grouping_for_order(order, pattern) ==
    LET free == {i \in Column : pattern[Columns[order][i]] = None}
    IN  IF free = {} THEN None ELSE Columns[order][Min(free)]

\* Faulty: the last partition is dropped when the width rounds up.
Bounds_rounded(limit, count) ==
    LET width == limit \div count
    IN  [i \in 1 .. count |-> [from |-> (i - 1) * width, to |-> i * width]]
\* into_scalar_partitions: ranges of the id after the prefix, in order.
Bounds(limit, count) ==
    LET width == (limit + count - 1) \div count
    IN  SelectSeq([i \in 1 .. count |->
                     [from |-> (i - 1) * width,
                      to |-> Min({i * width, limit})]],
                  LAMBDA b : b.from < limit)

Partitions(order, quads, pattern, n, count) ==
    LET range == PrefixRange(order, quads, pattern, n)
        bounds == Bounds(IdLimit, Min({count, IdLimit}))
    IN  [i \in DOMAIN bounds |->
           SelectSeq(range, LAMBDA key :
             bounds[i].from <= key[n + 1] /\ key[n + 1] < bounds[i].to)]

\* Faulty: the copies of one triple may fall in different partitions.
Splits_graph(order, n, count) == count >= 2 /\ IdLimit >= 2 /\ n < 4
\* It refuses to split a point read and a range whose next column is the
\* graph.
Splits(order, n, count) ==
    count >= 2 /\ IdLimit >= 2 /\ n < 4 /\ Columns[order][n + 1] # 1

-----------------------------------------------------------------------------
(* Access paths.                                                           *)

\* auto_access_path and force_qv_path.
auto_access_path(selector, pattern) ==
    LET bound(c) == pattern[c] # None
    IN  IF selector.kind = "named"
        THEN IF bound(2) THEN "gspo" ELSE IF bound(3) THEN "gpos"
             ELSE IF bound(4) THEN "gosp" ELSE "gspo"
        ELSE IF bound(2) THEN "spog" ELSE IF bound(3) THEN "posg"
             ELSE IF bound(4) THEN "ospg" ELSE "spog"

\* The source rows under the longest prefix of graph, subject, predicate.
RawQuads(pattern) ==
    PrefixRange("gspo", Universe, pattern, Min({3, narrow("gspo", pattern)}))

\* QueryCursor over candidates in the quad layout: dead and foreign rows are
\* skipped, the rest tested for visibility.
Visible(read, pattern, candidates) ==
    SelectSeq(candidates, LAMBDA q :
      q \in rdLive /\ matches(pattern, q) /\ terms_are_visible(read, q))

\* Faulty: a copy that is not visible uses up its group.
UnionStep_spends(read, pattern, acc, q) ==
    LET group == Tail(q)
        emitted == acc.group = group /\ acc.emitted
    IN  IF q \notin rdLive \/ ~matches(pattern, q) THEN acc
        ELSE IF emitted THEN acc
        ELSE [group |-> group, emitted |-> TRUE,
              rows |-> IF terms_are_visible(read, q) THEN Append(acc.rows, q)
                       ELSE acc.rows]
\* next_default_union: one row per group of equal triples, spent only by a
\* row that is visible.
UnionStep(read, pattern, acc, q) ==
    LET group == Tail(q)
        emitted == acc.group = group /\ acc.emitted
        shown == terms_are_visible(read, q)
    IN  IF q \notin rdLive \/ ~matches(pattern, q) THEN acc
        ELSE IF emitted THEN acc
        ELSE [group |-> group, emitted |-> shown,
              rows |-> IF shown THEN Append(acc.rows, q) ELSE acc.rows]

next_default_union(read, pattern, candidates) ==
    FoldLeft(LAMBDA acc, q : UnionStep(read, pattern, acc, q),
             [group |-> <<>>, emitted |-> FALSE, rows |-> <<>>],
             candidates).rows

Candidates(order, pattern) ==
    LET keys == PrefixRange(order, rdLive, pattern,
                            query_index_range(order, pattern))
    IN  [i \in DOMAIN keys |-> Decoded(order, keys[i])]

Answer(rows) == [error |-> FALSE, rows |-> rows]
Unavailable == [error |-> TRUE, rows |-> <<>>]

\* The trusted index answers; without it a default union and ForceQv fail and
\* every other read falls back to the source.
FromIndex(read, pattern) ==
    LET order == auto_access_path(read.selector, pattern)
    IN  IF ~read.trusted
        THEN IF read.mode = "qv" \/ read.selector.kind = "default"
             THEN Unavailable
             ELSE Answer(Visible(read, pattern, RawQuads(pattern)))
        ELSE IF read.selector.kind = "default"
        THEN Answer(next_default_union(read, pattern,
                                       Candidates(order, pattern)))
        ELSE Answer(Visible(read, pattern, Candidates(order, pattern)))

\* StoreReadView::scan.
scan(read) ==
    LET pattern == Applied(read)
        named == read.selector.kind = "named"
    IN  IF named /\ ~graph_is_visible(read, read.selector.graph)
        THEN Answer(<<>>)
        ELSE IF \A c \in Column : pattern[c] # None
        THEN Answer(Visible(read, pattern,
                            SelectSeq(<<pattern>>, LAMBDA q : q \in Universe)))
        ELSE IF read.mode = "source"
        THEN IF read.selector.kind = "default" THEN Unavailable
             ELSE Answer(Visible(read, pattern, RawQuads(pattern)))
        ELSE FromIndex(read, pattern)

\* A full named pattern is a point read, everything else the first row.
exists(read) ==
    LET pattern == Applied(read)
    IN  IF \A c \in Column : pattern[c] # None
        THEN pattern \in rdLive /\ terms_are_visible(read, pattern)
        ELSE scan(read).rows # <<>>
count_up_to(read, cap) == Min({cap, Len(scan(read).rows)})

\* durable_cursor: the live candidates of a pattern, for a caller that filters
\* them.  A named pattern with an open subject goes by a trusted index.
durable_cursor(pattern, trusted) ==
    LET indexed == /\ pattern[2] = None /\ trusted /\ pattern[1] # None
                   /\ pattern[3] # None \/ pattern[4] # None
        selector == [kind |-> "named", graph |-> pattern[1]]
    IN  IF indexed
        THEN Candidates(auto_access_path(selector, pattern), pattern)
        ELSE SelectSeq(RawQuads(pattern), LAMBDA q : q \in rdLive)

-----------------------------------------------------------------------------
(* Dense keys: the same rows as query ids.                                 *)

\* A default union over few exact graphs reads one range per graph.
Merges(read) ==
    /\ read.selector.kind = "default" /\ read.visibility.kind = "exact"
    /\ Cardinality(read.visibility.graphs) <= RangeLimit

GraphFirst == [spog |-> "gspo", posg |-> "gpos", ospg |-> "gosp"]

\* Faulty: the ranges are concatenated instead of merged.
MergeLess_graph(a, b) == KeyLess(a, b)
\* next_key over merged ranges takes the head with the least key after the
\* graph column, so that copies of a triple are adjacent.
MergeLess(a, b) == KeyLess(Append(Tail(a), a[1]), Append(Tail(b), b[1]))

\* merge_graphs: one narrowed range per graph, merged.
merge_graphs(read, order, pattern) ==
    LET range(g) == PrefixRange(order, rdLive, [pattern EXCEPT ![1] = g],
                      narrow(order, [pattern EXCEPT ![1] = g]))
    IN  SetToSortSeq(UNION {Range(range(g)) : g \in read.visibility.graphs},
                     MergeLess)

\* DenseCursor::next: the residual filter and the exact graphs first, then
\* visibility and orphans, then the group of a default union.
DenseStep(read, residual, acc, q) ==
    LET group == Tail(q)
        shown == /\ matches(residual, q)
                 /\ read.visibility.kind = "exact" =>
                      q[1] \in read.visibility.graphs
                 /\ terms_are_visible(read, q)
        repeated == read.selector.kind = "default" /\ acc.group = group
    IN  IF ~shown \/ repeated THEN acc
        ELSE [group |-> group, rows |-> Append(acc.rows, q)]

\* dense_keys by the order the shape of the caller's pattern selects, which
\* need not be the order of the pattern itself.
dense_keys(read, path) ==
    LET pattern == Applied(read)
        order == IF Merges(read) THEN GraphFirst[path] ELSE path
        n == narrow(order, pattern)
        keys == IF Merges(read) THEN merge_graphs(read, order, pattern)
                ELSE PrefixRange(order, rdLive, pattern, n)
        residual == IF Merges(read) THEN pattern
                    ELSE without_prefix(order, pattern, n)
    IN  FoldLeft(LAMBDA acc, key :
                   DenseStep(read, residual, acc, Decoded(order, key)),
                 [group |-> <<>>, rows |-> <<>>], keys).rows

\* dense_keys has a cursor: never for a validation.
HasDense(read) ==
    /\ read.visibility.kind # "validation"
    /\ read.mode # "source" /\ read.trusted
    /\ read.selector.kind = "named" =>
         graph_is_visible(read, read.selector.graph)

-----------------------------------------------------------------------------
(* Properties *)

\* What a read means: the visible live quads that match.
Meaning(read) ==
    {q \in rdLive : matches(Applied(read), q) /\ terms_are_visible(read, q)}

\* The rows mean exactly that: no row twice, every copy of a named or union
\* read, and for a default union one row for each distinct triple.
Means(read, rows) ==
    /\ \A i, j \in DOMAIN rows : i # j => rows[i] # rows[j]
    /\ Range(rows) \subseteq Meaning(read)
    /\ IF read.selector.kind = "default"
       THEN /\ {Tail(q) : q \in Range(rows)} = {Tail(q) : q \in Meaning(read)}
            /\ \A i, j \in DOMAIN rows : i # j => Tail(rows[i]) # Tail(rows[j])
       ELSE Range(rows) = Meaning(read)

\* StoreReadView::scan answers every question with the rows that the
\* definition gives, by whichever path it takes, or refuses; `exists` agrees.
ScanIsExact ==
    rdRead.kind = "read" =>
      LET answer == scan(rdRead)
      IN  /\ ~answer.error => Means(rdRead, answer.rows)
          /\ ~answer.error => (exists(rdRead) <=> Meaning(rdRead) # {})

\* dense_keys, with its prefix, residual filter and merged ranges, yields the
\* rows scan would.
DenseIsExact ==
    rdRead.kind = "read" /\ HasDense(rdRead) =>
      \A path \in IF rdRead.selector.kind = "named"
                  THEN {"gspo", "gpos", "gosp"} ELSE {"spog", "posg", "ospg"} :
        Means(rdRead, dense_keys(rdRead, path))

\* into_scalar_partitions loses no key, repeats none and keeps their order,
\* and no group of the next column is split over two partitions.
PartitionsCover ==
    rdRead.kind = "range" =>
      \A order \in Order, count \in 2 .. 4 :
        LET n == query_index_range(order, rdRead.pattern)
            parts == Partitions(order, rdLive, rdRead.pattern, n, count)
        IN  Splits(order, n, count) =>
              FlattenSeq(parts) = PrefixRange(order, rdLive, rdRead.pattern, n)

\* count_grouping promises that rows equal in the grouping column are
\* adjacent, which is what lets a distinct count run without a set.
GroupingIsAdjacent ==
    rdRead.kind = "range" =>
      \A order \in Order :
        LET column == grouping_for_order(order, rdRead.pattern)
            rows == SelectSeq(Candidates(order, rdRead.pattern),
                              LAMBDA q : matches(rdRead.pattern, q))
        IN  column \in {2, 4} =>
              \A i, j, k \in DOMAIN rows :
                i < j /\ j < k /\ rows[i][column] = rows[k][column] =>
                  rows[j][column] = rows[i][column]

=============================================================================
