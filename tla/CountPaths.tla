------------------------------ MODULE CountPaths ----------------------------
(***************************************************************************)
(* The specialised evaluators for counts, property stars and triangle      *)
(* questions (sparql_fast_path.rs, count_plan.rs, count_exec.rs).  They    *)
(* answer from stored counters, adjacent index keys, multiplicity tables   *)
(* or plain scans, whichever the snapshot allows, in place of the generic  *)
(* SPARQL evaluator.  Each is a function of a snapshot: PickCount chooses   *)
(* the snapshot, what the caller may see and a query shape; the properties *)
(* compare the answer with the solutions of the query.                     *)
(*                                                                         *)
(* A triple is <<subject, predicate, object>>; negative numbers are        *)
(* variables.  The limits of the budget are those of QueryBudget.          *)
(***************************************************************************)
EXTENDS QueryRead

CONSTANT Queries        \* aggregate queries over one or two triple lists

VARIABLE ctQuery        \* the query and its context, or NoRead

countVars == <<readVars, ctQuery>>

CountInit == ReadInit /\ ctQuery = NoRead

PickCount ==
    /\ ctQuery = NoRead
    /\ rdLive' \in SUBSET Universe
    /\ ctQuery' \in [kind : {"query"}, query : Queries, pattern : {<<>>},
                     selector : {s \in Selector : s.kind # "union"},
                     mode : {"auto", "source", "qv"}, trusted : BOOLEAN,
                     visibility : Visibility, orphans : OrphanChoice]
    /\ ctQuery'.mode = "source" => ctQuery'.trusted
    /\ UNCHANGED rdRead

\* Edges for the triangle search on its own.
PickEdges ==
    /\ ctQuery = NoRead
    /\ ctQuery' \in [kind : {"edges"}, edges : SUBSET ((1 .. 3) \X (1 .. 3))]
    /\ UNCHANGED readVars

CountNext == PickCount \/ PickEdges
CountSpec == CountInit /\ [][CountNext]_countVars

-----------------------------------------------------------------------------
(* Recognising a query.  A query has a form (a basic graph pattern, or two  *)
(* of them under OPTIONAL, EXISTS, NOT EXISTS or MINUS), the triples left   *)
(* and right, and an aggregate of one variable or of all solutions.         *)

IsVar(t) == t < 0
VarsOf(triple) == {triple[i] : i \in {j \in 1 .. 3 : IsVar(triple[j])}}

\* triple_plan: no variable twice in one triple.
triple_plan(triple) ==
    \A i, j \in 1 .. 3 : IsVar(triple[i]) /\ triple[i] = triple[j] => i = j

\* Faulty: two triples may share their object variable.
ShareSubject_loose(triples) ==
    \A i \in DOMAIN triples :
      /\ triple_plan(triples[i])
      /\ triples[i][1] = triples[1][1]
      /\ ~IsVar(triples[i][2])
\* The loops of same_subject_triples and subject_relation_triples: one
\* subject, constant predicates, and object variables that occur nowhere
\* else.
ShareSubject(triples) ==
    \A i \in DOMAIN triples :
      /\ triple_plan(triples[i])
      /\ triples[i][1] = triples[1][1]
      /\ ~IsVar(triples[i][2])
      /\ \A j \in DOMAIN triples :
           IsVar(triples[i][3]) /\ triples[i][3] = triples[j][3] => i = j

same_subject_triples(triples) == Len(triples) >= 2 /\ ShareSubject(triples)

subject_relation_triples(left, right, variable) ==
    /\ left # <<>> /\ right # <<>>
    /\ variable => IsVar(left[1][1])
    /\ ShareSubject(left \o right)

two_joined_triples(triples) ==
    /\ Len(triples) = 2
    /\ \A i \in 1 .. 2 : ~IsVar(triples[i][2]) /\ triple_plan(triples[i])
    /\ VarsOf(triples[1]) \cap VarsOf(triples[2]) # {}

single_triple(triples) == Len(triples) = 1 /\ triple_plan(triples[1])

\* CountValueDomain of a single triple.
Domain(triple, aggregate, v) ==
    CASE aggregate = "all" \/ (aggregate = "count" /\ v \in VarsOf(triple)) ->
           "scalar"
      [] aggregate = "distinct" /\ triple[1] = v -> "subject"
      [] aggregate = "distinct" /\ triple[3] = v /\ ~IsVar(triple[2]) ->
           "object"
      [] OTHER -> "none"

\* subject_set_triples.
SetForm(q) == q.form \in {"exists", "not_exists", "minus"}
subject_set_triples(q) ==
    SetForm(q) /\ subject_relation_triples(q.left, q.right, q.form = "minus")

\* triangle_triple: three edges of one predicate that close a cycle of
\* three variables.
triangle_triple(triples) ==
    LET ends(i) == {t[i] : t \in Range(triples)}
    IN  /\ Len(triples) = 3
        /\ \A t \in Range(triples) :
             /\ t[2] = triples[1][2] /\ ~IsVar(t[2])
             /\ IsVar(t[1]) /\ IsVar(t[3]) /\ t[1] # t[3]
        /\ Cardinality(ends(1)) = 3 /\ ends(1) = ends(3)

\* count_plan::analyze: the plan of an aggregate, or none and the generic
\* evaluator answers.
count_plan(q) ==
    LET all == q.aggregate = "all"
    IN  CASE all /\ q.form = "optional"
             /\ subject_relation_triples(q.left, q.right, FALSE) -> "optional"
          [] all /\ subject_set_triples(q) ->
               IF q.form = "exists" THEN "include" ELSE "exclude"
          [] q.form # "bgp" -> "none"
          [] all /\ Len(q.left) > 2 /\ same_subject_triples(q.left) -> "star"
          [] all /\ two_joined_triples(q.left) -> "join"
          [] single_triple(q.left) -> Domain(q.left[1], q.aggregate, q.of)
          [] OTHER -> "none"

\* sparql_fast_path::analyze, for questions, rows and aggregates.
analyze(q) ==
    CASE q.aggregate \notin {"ask", "rows"} -> count_plan(q)
      [] q.form # "bgp" -> "none"
      [] single_triple(q.left) ->
           IF q.aggregate = "ask" THEN "ask" ELSE "projection"
      [] q.aggregate = "ask" /\ triangle_triple(q.left) -> "triangle"
      [] q.aggregate = "rows" /\ same_subject_triples(q.left) -> "property"
      [] OTHER -> "none"

-----------------------------------------------------------------------------
(* Resolving a triple of a plan.                                           *)

Known(t) == \E q \in Universe, c \in Column : q[c] = t

\* TriplePlan::resolve fails on a constant that the dictionary lacks.
Resolves(triples) ==
    \A i \in DOMAIN triples, j \in 1 .. 3 :
      IsVar(triples[i][j]) \/ Known(triples[i][j])

\* single_graph: one selected graph holds each triple once, so its range is
\* the distinct union.
Selected(ctx) ==
    IF /\ ctx.selector.kind = "default" /\ ctx.visibility.kind = "exact"
       /\ Cardinality(ctx.visibility.graphs) = 1
    THEN [kind |-> "named", graph |-> CHOOSE g \in ctx.visibility.graphs : TRUE]
    ELSE ctx.selector

resolve(ctx, triple) ==
    [ctx EXCEPT !.selector = Selected(ctx),
                !.pattern = [c \in Column |->
                  IF c = 1 THEN None
                  ELSE IF IsVar(triple[c - 1]) THEN None ELSE triple[c - 1]]]

-----------------------------------------------------------------------------
(* Rows of one triple.                                                     *)

\* raw_index_keys: the dense keys, no keys (scan instead) or an error.
raw_index_keys(read) ==
    IF \/ read.mode = "source"
       \/ /\ read.selector.kind = "named"
          /\ ~graph_is_visible(read, read.selector.graph)
    THEN "none"
    ELSE IF read.trusted THEN "keys"
    ELSE IF read.mode = "qv" \/ read.selector.kind = "default" THEN "error"
    ELSE "none"

\* for_each_key: the visible keys of a named graph, or one key per group.
for_each_key(read) ==
    LET pattern == Applied(read)
        keys == Candidates(auto_access_path(read.selector, pattern), pattern)
    IN  IF read.selector.kind = "named" THEN Visible(read, pattern, keys)
        ELSE next_default_union(read, pattern, keys)

\* The rows a plan works on, from the keys or from a scan.
RowsOf(read) ==
    CASE raw_index_keys(read) = "keys" -> Answer(for_each_key(read))
      [] raw_index_keys(read) = "error" -> Unavailable
      [] OTHER -> scan(read)

Failed == [error |-> TRUE, count |-> 0]
Counted(n) == [error |-> FALSE, count |-> n]

\* SubjectKeySet and ObjectKeySet: how often each term is in a column.
Table(rows, column) ==
    [t \in {q[column] : q \in Range(rows)} |->
       Cardinality({i \in DOMAIN rows : rows[i][column] = t})]
multiplicity(table, t) == IF t \in DOMAIN table THEN table[t] ELSE 0

\* SubjectCountStream and ObjectCountStream: changes of an adjacent value.
Stream(values) ==
    Cardinality({i \in DOMAIN values : i = 1 \/ values[i] # values[i - 1]})

-----------------------------------------------------------------------------
(* One triple.                                                             *)

\* The stored counter of a graph, with predicate and object where bound.
StoredCount(g, pattern) ==
    Cardinality({q \in rdLive : /\ q[1] = g /\ pattern[3] \in {None, q[3]}
                                /\ pattern[4] \in {None, q[4]}})
HasCounter(pattern) ==
    pattern[2] = None /\ ~(pattern[3] = None /\ pattern[4] # None)

\* Faulty: orphans are counted.
exact_named_count_all(read, pattern) ==
    LET g == read.selector.graph
    IN  IF ~graph_is_visible(read, g) THEN 0
        ELSE IF ~HasCounter(pattern) \/ ~read.trusted THEN -1
        ELSE StoredCount(g, pattern)
\* exact_named_count: a counter may stand for the rows of a graph when
\* nothing in it is hidden; -1 when the rows must be read.
exact_named_count(read, pattern) ==
    LET g == read.selector.graph
    IN  IF ~graph_is_visible(read, g) THEN 0
        ELSE IF \/ read.orphans[g] # {} \/ ~HasCounter(pattern)
                \/ ~read.trusted
        THEN -1 ELSE StoredCount(g, pattern)

\* The UnionDuplicateFree counter of the index.
UnionUnique == \A q, r \in rdLive : Tail(q) = Tail(r) => q = r

\* Faulty: the counter of one graph stands for a union with duplicates.
exact_union_count_any(read, pattern) ==
    LET graphs == {g \in GraphOf : graph_is_visible(read, g)}
    IN  IF ~HasCounter(pattern) \/ ~read.trusted THEN -1
        ELSE IF \E g \in graphs : read.orphans[g] # {} THEN -1
        ELSE MapThenSumSet(LAMBDA g : StoredCount(g, pattern), graphs)
\* exact_union_count: the sum over the visible graphs, when no triple is in
\* two graphs.
exact_union_count(read, pattern) ==
    LET graphs == {g \in GraphOf : graph_is_visible(read, g)}
    IN  IF ~HasCounter(pattern) \/ ~read.trusted \/ ~UnionUnique THEN -1
        ELSE IF \E g \in graphs : read.orphans[g] # {} THEN -1
        ELSE MapThenSumSet(LAMBDA g : StoredCount(g, pattern), graphs)

\* count_union_partition over the partitions of a range, each with its own
\* group.
parallel_union_count(read, pattern, order, count) ==
    LET n == query_index_range(order, pattern)
        parts == Partitions(order, rdLive, pattern, n, count)
        rows(keys) == next_default_union(read, pattern,
                        [i \in DOMAIN keys |-> Decoded(order, keys[i])])
    IN  FoldLeft(LAMBDA sum, keys : sum + Len(rows(keys)), 0, parts)

\* Distinct values of a column: a stream where the order groups by it, a
\* hash set where it does not.
DistinctCount(rows, column, grouping) ==
    IF grouping = column THEN Stream([i \in DOMAIN rows |-> rows[i][column]])
    ELSE Cardinality({q[column] : q \in Range(rows)})

\* default_union_count and the named case, from dense keys.
default_union_count(read, column) ==
    LET pattern == Applied(read)
        order == auto_access_path(read.selector, pattern)
        keys == Candidates(order, pattern)
        grouping == grouping_for_order(order, pattern)
    IN  IF column = None THEN Len(for_each_key(read))
        ELSE DistinctCount(Visible(read, pattern, keys), column, grouping)

\* source_distinct_count: a distinct count needs no deduplicated union.
source_distinct_count(read, column) ==
    LET union == [read EXCEPT !.selector = [kind |-> "union", graph |-> None]]
        answer == scan(union)
        order == IF read.mode = "source" \/ ~read.trusted THEN "gspo"
                 ELSE auto_access_path(union.selector, read.pattern)
    IN  IF answer.error THEN Failed
        ELSE Counted(DistinctCount(answer.rows, column,
                                   grouping_for_order(order, read.pattern)))

\* The counter that answers without reading, if any; -1 is none.
ExactCount(read, column) ==
    IF column # None THEN -1
    ELSE IF read.selector.kind = "named" THEN exact_named_count(read, Applied(read))
    ELSE exact_union_count(read, Applied(read))

\* The scan in execute.
ScanCount(read, column, answer) ==
    IF answer.error THEN Failed
    ELSE IF column = None THEN Counted(Len(answer.rows))
    ELSE Counted(DistinctCount(answer.rows, column,
                               grouping_for_order("gspo", Applied(read))))

\* The paths of a count, given the counter and the state of the keys.
PathCount(read, column, exact, keys) ==
    IF exact >= 0 THEN Counted(exact)
    ELSE IF keys = "keys" THEN Counted(default_union_count(read, column))
    ELSE IF read.selector.kind # "named" /\ column # None
    THEN source_distinct_count(read, column)
    ELSE IF keys = "error" THEN Failed
    ELSE ScanCount(read, column, scan(read))

\* single_pattern_count, and the scan in execute when it has no answer.
single_pattern_count(read, column) ==
    PathCount(read, column, ExactCount(read, column), raw_index_keys(read))

-----------------------------------------------------------------------------
(* Several triples.                                                        *)

Product(f, set) == FoldSet(LAMBDA i, acc : acc * f[i], 1, set)

\* The relation with the fewest subjects drives the count.
Base(relations) ==
    CHOOSE i \in DOMAIN relations :
      \A j \in DOMAIN relations :
        \/ Cardinality(DOMAIN relations[i]) < Cardinality(DOMAIN relations[j])
        \/ /\ Cardinality(DOMAIN relations[i])
                = Cardinality(DOMAIN relations[j])
           /\ i <= j

\* subject_star_count: per subject, the product of the multiplicities.
subject_star_count(relations) ==
    MapThenSumSet(LAMBDA s : Product([i \in DOMAIN relations |->
                                        multiplicity(relations[i], s)],
                                     DOMAIN relations),
                  DOMAIN relations[Base(relations)])

\* Faulty: each optional triple is optional on its own.
optional_star_count_each(mandatory, optional) ==
    LET rows(s) == Product([i \in DOMAIN mandatory |->
                              multiplicity(mandatory[i], s)], DOMAIN mandatory)
        more(s) == Product([i \in DOMAIN optional |->
                              Max({1, multiplicity(optional[i], s)})],
                           DOMAIN optional)
    IN  MapThenSumSet(LAMBDA s : rows(s) * more(s),
                      DOMAIN mandatory[Base(mandatory)])
\* optional_star_count: the optional triples extend a subject together or not
\* at all.
optional_star_count(mandatory, optional) ==
    LET rows(s) == Product([i \in DOMAIN mandatory |->
                              multiplicity(mandatory[i], s)], DOMAIN mandatory)
        more(s) == IF \A i \in DOMAIN optional :
                        multiplicity(optional[i], s) # 0
                   THEN Product([i \in DOMAIN optional |->
                                   multiplicity(optional[i], s)],
                                DOMAIN optional)
                   ELSE 1
    IN  MapThenSumSet(LAMBDA s : rows(s) * more(s),
                      DOMAIN mandatory[Base(mandatory)])

\* subject_set_count: subjects kept (EXISTS) or dropped (NOT EXISTS, MINUS).
subject_set_count(outer, inner, include) ==
    LET kept == {s \in DOMAIN outer[Base(outer)] :
                   (\A i \in DOMAIN inner : s \in DOMAIN inner[i]) <=> include}
    IN  MapThenSumSet(LAMBDA s : Product([i \in DOMAIN outer |->
                                            multiplicity(outer[i], s)],
                                         DOMAIN outer), kept)

\* Relations of a list of triples, or failure of one of them.
AnyError(ctx, triples) ==
    \E i \in DOMAIN triples : RowsOf(resolve(ctx, triples[i])).error
Relations(ctx, triples) ==
    [i \in DOMAIN triples |-> Table(RowsOf(resolve(ctx, triples[i])).rows, 2)]

StarCount(ctx, triples) ==
    IF ~Resolves(triples) THEN Counted(0)
    ELSE IF AnyError(ctx, triples) THEN Failed
    ELSE Counted(subject_star_count(Relations(ctx, triples)))

\* The optional triples are dropped when one has an unknown constant.
OptionalCount(ctx, left, right) ==
    IF ~Resolves(left) THEN Counted(0)
    ELSE IF ~Resolves(right) THEN StarCount(ctx, left)
    ELSE IF AnyError(ctx, left \o right) THEN Failed
    ELSE Counted(optional_star_count(Relations(ctx, left),
                                     Relations(ctx, right)))

SetCount(ctx, left, right, include) ==
    IF ~Resolves(left) THEN Counted(0)
    ELSE IF ~Resolves(right)
    THEN IF include THEN Counted(0) ELSE StarCount(ctx, left)
    ELSE IF AnyError(ctx, left \o right) THEN Failed
    ELSE Counted(subject_set_count(Relations(ctx, left),
                                   Relations(ctx, right), include))

\* join_key: the values of the shared variables, one or two, in a row.
hash_key(triple, q, shared) ==
    [v \in shared |-> q[1 + (CHOOSE i \in 1 .. 3 : triple[i] = v)]]

ProbeCount(build, table, probe, rows) ==
    LET shared == VarsOf(build) \cap VarsOf(probe)
        matching(q) == Cardinality({i \in DOMAIN table.rows :
                         hash_key(build, table.rows[i], shared)
                           = hash_key(probe, q, shared)})
    IN  IF table.error \/ rows.error THEN Failed
        ELSE Counted(FoldLeft(LAMBDA n, q : n + matching(q), 0, rows.rows))

\* hash_join_count: a table of the build side, probed by the other.  Which
\* side builds depends on estimates, so the answer may not.
hash_join_count(ctx, build, probe) ==
    IF ~Resolves(<<build, probe>>) THEN Counted(0)
    ELSE ProbeCount(build, RowsOf(resolve(ctx, build)), probe, RowsOf(resolve(ctx, probe)))

-----------------------------------------------------------------------------
(* Property stars and triangles.                                           *)

\* The bindings of one subject: the product of its values, given the rows of
\* each triple.
BindingsOf(triples, s, rows) ==
    LET vars == {triples[i][3] : i \in {j \in DOMAIN triples :
                                          IsVar(triples[j][3])}}
        of(v) == CHOOSE i \in DOMAIN triples : triples[i][3] = v
        lists == {m \in [vars -> {q[4] : q \in UNION {Range(rows[i]) : i \in DOMAIN rows}}] :
                    \A v \in vars : \E q \in Range(rows[of(v)]) : m[v] = q[4]}
    IN  IF \E i \in DOMAIN rows : rows[i] = <<>> THEN {}
        ELSE {IF IsVar(triples[1][1]) THEN m @@ (triples[1][1] :> s) ELSE m :
                m \in lists}

Cut(rows, limit) == SubSeq(rows, 1, Min({limit, Len(rows)}))

\* Each list of values is cut at the limit.
Bindings(ctx, triples, s, limit) ==
    BindingsOf(triples, s,
      [i \in DOMAIN triples |->
         Cut(scan(resolve(ctx, [triples[i] EXCEPT ![1] = s])).rows, limit)])

\* Faulty: a subject that the seed repeats is expanded again.
Subjects_repeated(seed) == [i \in DOMAIN seed |-> seed[i][2]]
\* The subjects of the seed rows, each once.
Subjects(seed) ==
    LET first == SelectSeq([i \in DOMAIN seed |-> i], LAMBDA i :
                   \A j \in 1 .. i - 1 : seed[j][2] # seed[i][2])
    IN  [k \in DOMAIN first |-> seed[first[k]][2]]

AppendUpTo(acc, new, limit) == acc \o SubSeq(new, 1, Min({Len(new), limit - Len(acc)}))

StarFrom(ctx, triples, limit, rows) ==
    IF rows.error THEN Unavailable
    ELSE Answer(FoldLeft(
           LAMBDA acc, s : AppendUpTo(acc, SetToSeq(Bindings(ctx, triples, s, limit)), limit),
           <<>>, IF IsVar(triples[1][1]) THEN Subjects(rows.rows) ELSE <<triples[1][1]>>))

\* execute_property_star, from any of its triples.
execute_property_star(ctx, triples, limit, seed) ==
    IF ~Resolves(triples) THEN Answer(<<>>)
    ELSE StarFrom(ctx, triples, limit, scan(resolve(ctx, triples[seed])))

\* Faulty: the closing edge is looked up the wrong way round.
edges_have_triangle_open(edges) ==
    \E e, f \in edges : e[2] = f[1] /\ <<e[1], f[2]>> \in edges
\* edges_have_triangle: an edge, an edge from its end, and the edge back.
edges_have_triangle(edges) ==
    \E e, f \in edges : e[2] = f[1] /\ <<f[2], e[1]>> \in edges

\* raw_triangle_edges: the edges of the visible keys, copies once.
raw_triangle_edges(rows) == {<<q[2], q[4]>> : q \in Range(rows)}

\* triangle_ask, and bounded_exists for one triple.
triangle_ask(ctx, triple) ==
    LET rows == RowsOf(resolve(ctx, triple))
    IN  IF ~Resolves(<<triple>>) THEN Answer(FALSE)
        ELSE IF rows.error THEN Unavailable
        ELSE Answer(edges_have_triangle(raw_triangle_edges(rows.rows)))
bounded_exists(ctx, triple) ==
    LET rows == scan(resolve(ctx, triple))
    IN  IF ~Resolves(<<triple>>) THEN Answer(FALSE)
        ELSE IF rows.error THEN Unavailable ELSE Answer(rows.rows # <<>>)

\* collect_row: the values of the variables of a triple.
collect_row(triple, q) ==
    [v \in VarsOf(triple) |-> q[1 + (CHOOSE i \in 1 .. 3 : triple[i] = v)]]

\* execute_projection: the first rows of the scan.
execute_projection(ctx, triple, limit) ==
    LET rows == scan(resolve(ctx, triple))
        n == Min({limit, Len(rows.rows)})
    IN  IF ~Resolves(<<triple>>) THEN Answer(<<>>)
        ELSE IF rows.error THEN Unavailable
        ELSE Answer([i \in 1 .. n |-> collect_row(triple, rows.rows[i])])

-----------------------------------------------------------------------------
(* Properties *)

\* The triples a query sees: the distinct visible triples of the selection.
Dataset(ctx) ==
    {Tail(q) : q \in {r \in rdLive :
       /\ ctx.selector.kind = "named" => r[1] = ctx.selector.graph
       /\ terms_are_visible(ctx, r)}}

\* The solutions of a basic graph pattern.
Solutions(data, triples) ==
    LET vars == UNION {VarsOf(t) : t \in Range(triples)}
        value(m, t) == IF IsVar(t) THEN m[t] ELSE t
    IN  {m \in [vars -> UNION {Range(d) : d \in data}] :
           \A t \in Range(triples) : [i \in 1 .. 3 |-> value(m, t[i])] \in data}

Extends(n, m) == \A v \in DOMAIN m : n[v] = m[v]

\* What SPARQL says the query counts.
Expected(data, q) ==
    LET left == Solutions(data, q.left)
        both == Solutions(data, q.left \o q.right)
        more(m) == Cardinality({n \in both : Extends(n, m)})
        vars(triples) == UNION {VarsOf(t) : t \in Range(triples)}
        disjoint == vars(q.left) \cap vars(q.right) = {}
    IN  CASE q.form = "bgp" /\ q.aggregate = "distinct" ->
               Cardinality({m[q.of] : m \in left})
          [] q.form = "bgp" -> Cardinality(left)
          [] q.form = "optional" ->
               MapThenSumSet(LAMBDA m : Max({1, more(m)}), left)
          [] q.form = "exists" -> Cardinality({m \in left : more(m) > 0})
          [] q.form = "not_exists" -> Cardinality({m \in left : more(m) = 0})
          [] OTHER -> Cardinality({m \in left : disjoint \/ more(m) = 0})

\* What the planned evaluator counts.
CountOf(ctx, q, plan) ==
    CASE plan \in {"scalar", "subject", "object"} ->
           IF ~Resolves(q.left) THEN Counted(0)
           ELSE single_pattern_count(resolve(ctx, q.left[1]),
                  [scalar |-> None, subject |-> 2, object |-> 4][plan])
      [] plan = "star" -> StarCount(ctx, q.left)
      [] plan = "optional" -> OptionalCount(ctx, q.left, q.right)
      [] plan = "include" -> SetCount(ctx, q.left, q.right, TRUE)
      [] plan = "exclude" -> SetCount(ctx, q.left, q.right, FALSE)
      [] OTHER -> hash_join_count(ctx, q.left[1], q.left[2])

CountPlans == {"scalar", "subject", "object", "star", "optional", "include",
               "exclude", "join"}

CountAgrees(answer) ==
    ~answer.error => answer.count = Expected(Dataset(ctQuery), ctQuery.query)

\* Every specialised count is the number of solutions that SPARQL defines for
\* its query, by every path: stored counters, grouped keys, hash tables or
\* scans, with orphans, invisible graphs and copies in several graphs.
CountIsExact ==
    ctQuery.kind = "query" /\ analyze(ctQuery.query) \in CountPlans =>
        CountAgrees(CountOf(ctQuery, ctQuery.query, analyze(ctQuery.query)))

\* A parallel count over the partitions of a union range is the sequential
\* count of it.
ParallelIsSequential ==
    ctQuery.kind = "query" /\ analyze(ctQuery.query) = "scalar" =>
      LET read == resolve(ctQuery, ctQuery.query.left[1])
          pattern == Applied(read)
          order == auto_access_path(read.selector, pattern)
      IN  \A count \in 2 .. 3 :
            /\ read.selector.kind = "default"
            /\ Splits(order, query_index_range(order, pattern), count)
            => parallel_union_count(read, pattern, order, count)
                 = Len(for_each_key(read))

RowsAgree(answer, found, limit) ==
    ~answer.error =>
      /\ Len(answer.rows) = Min({limit, Cardinality(found)})
      /\ Cardinality(Range(answer.rows)) = Len(answer.rows)
      /\ Range(answer.rows) \subseteq found

\* A property star, or the projection of one triple, gives distinct
\* solutions, and as many as the limit allows, whichever triple seeds it.
StarRowsAreExact ==
    LET q == ctQuery.query
        plan == analyze(q)
        rowsOf(seed, limit) ==
          IF plan = "projection"
          THEN execute_projection(ctQuery, q.left[1], limit)
          ELSE execute_property_star(ctQuery, q.left, limit, seed)
    IN  ctQuery.kind = "query" /\ plan \in {"projection", "property"} =>
          \A seed \in DOMAIN q.left, limit \in {1, 2, 6} :
            RowsAgree(rowsOf(seed, limit), Solutions(Dataset(ctQuery), q.left), limit)

\* A question is answered yes exactly when it has a solution; two variables
\* of a triangle may have one value.
AskIsExact ==
    LET q == ctQuery.query
        plan == analyze(q)
        answer == IF plan = "triangle" THEN triangle_ask(ctQuery, q.left[1])
                  ELSE bounded_exists(ctQuery, q.left[1])
    IN  /\ ctQuery.kind = "query" /\ plan \in {"ask", "triangle"} =>
             \/ answer.error
             \/ answer.rows <=> Solutions(Dataset(ctQuery), q.left) # {}
        /\ ctQuery.kind = "edges" =>
             (edges_have_triangle(ctQuery.edges)
                <=> \E a, b, c \in 1 .. 3 :
                      {<<a, b>>, <<b, c>>, <<c, a>>} \subseteq ctQuery.edges)

=============================================================================
