------------------------------- MODULE Planner -------------------------------
(***************************************************************************)
(* The query optimizer (src/internal/planner.rs): it folds equality        *)
(* filters into the patterns, orders the patterns of a basic graph pattern *)
(* by estimates, chooses a lateral or a hash join for each, and caps the   *)
(* branches of a sliced union.  The optimized query must answer what the   *)
(* written one answers.                                                    *)
(*                                                                         *)
(* A query is a tree of records.  A slot of a triple pattern is            *)
(* <<"var", v>>, <<"blank", b>> or <<"term", t>>; variables and blank nodes *)
(* are the keys of a row.  Evaluate is the evaluator that runs the plan (a  *)
(* library): Project hides the keys that it does not list, Extend sets its *)
(* variable, and inside GRAPH ?g every pattern binds ?g.                   *)
(***************************************************************************)
EXTENDS Integers, Sequences, FiniteSets, FiniteSetsExt, SequencesExt, BagsExt

CONSTANTS
    StoredQuads,     \* the quads that a store may hold, <<graph, s, p, o>>
    PlanQueries,     \* the queries
    Spelling,        \* spelling of a string value to its other, unusual spelling
    Alike,           \* the pairs of terms that `=` identifies beyond sameTerm
    HASH_OUTER_MIN   \* left rows from which a hash join is considered

VARIABLES
    plData,    \* the stored quads
    plQuery,   \* the query
    plMode     \* the join mode, and the one graph it reads or <<>>

planVars == <<plData, plQuery, plMode>>

INDEXED_LOOKUP_COST == 8
GRAPH_VISIT_COST == 16

IsKey(slot) == slot[1] \in {"var", "blank"}
Terms == UNION {{q[2], q[3], q[4]} : q \in plData}

\* term_var_key, predicate_var_key and triple_var_keys
triple_var_keys(t) == {t[i] : i \in {j \in 1..3 : IsKey(t[j])}}

-----------------------------------------------------------------------------
(* The evaluator of a plan *)

Value(row, slot) == IF IsKey(slot) THEN row[slot] ELSE slot[2]
Known(row, slot) == ~IsKey(slot) \/ slot \in DOMAIN row

Put(row, key, term) == [k \in DOMAIN row \cup {key} |-> IF k = key THEN term ELSE row[k]]

\* Rows of one pattern: the graph slot is <<"any", "">> for the union of the
\* graphs.
MatchSlot(rows, slot, term) ==
    {IF Known(r, slot) \/ slot[1] = "any" THEN r ELSE Put(r, slot, term) :
        r \in {q \in rows : slot[1] # "any" /\ Known(q, slot) => Value(q, slot) = term}}

MatchQuad(row, t, graph, q) ==
    MatchSlot(MatchSlot(MatchSlot(MatchSlot({row}, graph, q[1]), t[1], q[2]),
                        t[2], q[3]), t[3], q[4])

\* The quads that the query may read: all of them, or those of the one graph
\* that the caller selected.
Readable == {q \in plData : plMode.graph = <<>> \/ q[1] = plMode.graph[1]}

\* In the default graph an edge counts once, whatever graphs hold it.
Sources(graph) == IF graph[1] = "any"
                  THEN {<<"", q[2], q[3], q[4]>> : q \in Readable} ELSE Readable

Concat(rows, Of(_)) == FoldLeft(LAMBDA acc, r : acc \o Of(r), <<>>, rows)
Listed(set) == FoldSet(LAMBDA x, acc : Append(acc, x), <<>>, set)

EvalTriple(row, t, graph) ==
    Concat(Listed({q \in Sources(graph) : MatchQuad(row, t, graph, q) # {}}),
           LAMBDA q : Listed(MatchQuad(row, t, graph, q)))

Compatible(a, b) == \A k \in DOMAIN a \cap DOMAIN b : a[k] = b[k]
Merged(a, b) == [k \in DOMAIN a \cup DOMAIN b |-> IF k \in DOMAIN a THEN a[k] ELSE b[k]]
RestrictTo(row, keys) == [k \in DOMAIN row \cap keys |-> row[k]]
Part(rows, start, length) ==
    SubSeq(rows, start + 1, IF length = -1 THEN Len(rows) ELSE Min({Len(rows), start + length}))

RECURSIVE Evaluate(_, _, _), Truth(_, _, _)

\* An expression with an unbound variable is an error and keeps no row.
Truth(e, graph, row) ==
    CASE e.op \in {"equal", "same"} ->
            /\ e.var \in DOMAIN row
            /\ \/ row[e.var] = e.term
               \/ e.op = "equal" /\ <<row[e.var], e.term>> \in Alike
      [] e.op = "and" -> Truth(e.left, graph, row) /\ Truth(e.right, graph, row)
      [] e.op = "exists" -> Evaluate(e.inner, graph, row) # <<>>
      [] e.op = "absent" -> Evaluate(e.inner, graph, row) = <<>>

Evaluate(p, graph, row) ==
    CASE p.op = "bgp" ->
            FoldLeft(LAMBDA rows, t : Concat(rows, LAMBDA r : EvalTriple(r, t, graph)),
                     <<row>>, p.patterns)
      [] p.op = "lateral" ->
            Concat(Evaluate(p.left, graph, row), LAMBDA r : Evaluate(p.right, graph, r))
      [] p.op \in {"join", "leftjoin"} ->
            LET right == Evaluate(p.right, graph, row)
                Joined(l) == SelectSeq(
                    Concat(right, LAMBDA r : IF Compatible(l, r) THEN <<Merged(l, r)>> ELSE <<>>),
                    LAMBDA r : p.op = "join" \/ \A e \in p.exprs : Truth(e, graph, r))
            IN  Concat(Evaluate(p.left, graph, row),
                       LAMBDA l : IF p.op = "leftjoin" /\ Joined(l) = <<>>
                                  THEN <<l>> ELSE Joined(l))
      [] p.op = "minus" ->
            LET right == Range(Evaluate(p.right, graph, row))
            IN  SelectSeq(Evaluate(p.left, graph, row),
                    LAMBDA l : \A r \in right : ~Compatible(l, r)
                                    \/ (DOMAIN l \cap DOMAIN r) \ DOMAIN row = {})
      [] p.op = "union" -> Evaluate(p.left, graph, row) \o Evaluate(p.right, graph, row)
      [] p.op = "filter" -> SelectSeq(Evaluate(p.inner, graph, row),
                                      LAMBDA r : Truth(p.expr, graph, r))
      [] p.op = "extend" -> [i \in DOMAIN Evaluate(p.inner, graph, row) |->
                                Put(Evaluate(p.inner, graph, row)[i], p.var, p.term)]
      [] p.op = "graph" -> Evaluate(p.inner, p.name, row)
      [] p.op = "project" ->
            LET rows == Evaluate(p.inner, graph, RestrictTo(row, p.vars))
            IN  [i \in DOMAIN rows |-> Merged(RestrictTo(rows[i], p.vars), row)]
      [] p.op = "slice" -> Part(Evaluate(p.inner, graph, row), p.start, p.length)

-----------------------------------------------------------------------------
(* Estimates *)

\* The count of the quads with the given slots, one store-wide or, for the
\* statistics that have one, of the graph that the query reads (PlanCtx::stat).
Count(slots, graphs) ==
    Cardinality({q \in plData : /\ \A i \in DOMAIN slots : slots[i] = q[i + 1]
                                /\ graphs = <<>> \/ q[1] = graphs[1]})

stat(s, p, o) ==
    LET slots == [i \in {j \in 1..3 : <<s, p, o>>[j][1] = "term"} |-> <<s, p, o>>[i][2]]
        own == DOMAIN slots \in {{2}, {2, 3}, {}}
    IN  Count(slots, IF own THEN plMode.graph ELSE <<>>)

Free == <<"var", "">>
Min2(a, b) == IF a < b THEN a ELSE b
Max2(a, b) == IF a > b THEN a ELSE b

\* term_slot, predicate_slot and const_slot: what is known of a slot
SlotKind(slot, bound) ==
    CASE slot[1] = "term" -> IF slot[2] \in Terms THEN "const" ELSE "absent"
      [] slot[1] # "term" -> IF slot \in bound THEN "bound" ELSE "free"

\* estimate_pattern: corpus counts for free slots, fixed costs for bound ones
estimate_pattern(t, bound) ==
    LET s == SlotKind(t[1], bound)
        p == SlotKind(t[2], bound)
        o == SlotKind(t[3], bound)
        Const(k, slot) == IF k = "const" THEN slot ELSE Free
    IN  CASE "absent" \in {s, p, o} -> 0
          [] "absent" \notin {s, p, o} /\ s = "const" ->
                LET other == stat(Free, Const(p, t[2]), Const(o, t[3]))
                    rows == stat(t[1], Free, Free)
                IN  IF p = "const" /\ o = "const" THEN Min({rows, other, 1})
                    ELSE IF "const" \in {p, o} THEN Min2(rows, other) ELSE rows
          [] "absent" \notin {s, p, o} /\ s = "bound" ->
                IF p # "const" THEN 6 ELSE IF o \in {"const", "bound"} THEN 1 ELSE 3
          [] "absent" \notin {s, p, o} /\ s = "free" ->
                CASE p = "const" /\ o = "bound" -> 4
                  [] p # "const" /\ o = "bound" -> 8
                  [] o = "const" -> stat(Free, Const(p, t[2]), t[3])
                  [] o = "free" -> stat(Free, Const(p, t[2]), Free)

\* estimate_variable_distinct
estimate_variable_distinct(t, key, rows) ==
    LET at == {i \in {1, 3} : t[i] = key}
        quads == {q \in plData : t[2][1] = "term" => q[3] = t[2][2]}
        distinct == IF Cardinality(at) # 1 THEN rows
                    ELSE Cardinality({q[Min(at) + 1] : q \in quads})
    IN  Max2(Min2(distinct, rows), IF rows > 0 THEN 1 ELSE 0)

ceil_div(a, b) == IF a = 0 THEN 0 ELSE (a + b - 1) \div b

\* join_estimate
join_estimate(left, right, leftDistinct, rightDistinct) ==
    LET output == left * ceil_div(right, Max2(rightDistinct, 1))
    IN  [left |-> left, right |-> right, output |-> output,
         keys |-> Max2(Min2(leftDistinct, left), IF left > 0 THEN 1 ELSE 0),
         lateral |-> left + left * INDEXED_LOOKUP_COST + output,
         hash |-> left + right + output]

\* apply_demand: a slice needs only the first rows of the join.
apply_demand(e, rightDistinct, demand) ==
    LET perProbe == ceil_div(e.left, Max2(e.keys, 1))
        probes == Min2(ceil_div(demand, Max2(perProbe, 1)), e.right)
        perLeft == ceil_div(e.right, Max2(rightDistinct, 1))
        outer == Min2(ceil_div(demand, Max2(perLeft, 1)), e.left)
    IN  IF demand = -1 \/ demand >= e.output THEN e
        ELSE [e EXCEPT !.hash = e.left + probes + demand,
                       !.lateral = outer + outer * INDEXED_LOOKUP_COST + demand]

-----------------------------------------------------------------------------
(* Ordering and joining the patterns of one basic graph pattern *)

\* pattern_variables: none when a blank node occurs in the pattern
HasVariables(t) == t[1][1] # "blank" /\ t[3][1] # "blank"
pattern_variables(t) == {k \in triple_var_keys(t) : k[1] = "var"}

Bgp(patterns) == [op |-> "bgp", patterns |-> patterns]
Project(inner, vars) == [op |-> "project", inner |-> inner, vars |-> vars]

\* Faulty: the sides of a hash join keep only the variables of their patterns.
include_bound_variables_own(vars, projected) == vars

\* include_bound_variables: a projection also keeps what is bound outside and
\* the variable of the enclosing GRAPH.
include_bound_variables(vars, projected) == vars \cup {k \in projected : k[1] = "var"}

\* A hash join is costed at all.
Considers(rows) ==
    plMode.join = "hash" \/ (plMode.join = "auto" /\ rows >= HASH_OUTER_MIN)

DistinctOf(t, k, right, considers) ==
    IF considers THEN estimate_variable_distinct(t, k, right) ELSE right

\* The distinct values of the shared keys in the next pattern
RightKeys(acc, t, right, joins) ==
    IF Considers(acc.rows)
    THEN Min({estimate_variable_distinct(t, k, right) : k \in joins} \cup {right}) ELSE right

\* Graphs that the right side visits and the chain does not
GraphVisits(acc, t, right, graphVar) ==
    MapThenSumSet(LAMBDA g :
        Max2(0, estimate_variable_distinct(t, g, right) - acc.distinct[g]), graphVar)

Demanded(e, rightKeys, demand) ==
    IF plMode.join = "auto" THEN apply_demand(e, rightKeys, demand) ELSE e

JoinCost(acc, right, joins, rightKeys, visits, demand) ==
    LET leftKeys == Min({acc.distinct[k] : k \in joins} \cup {acc.rows})
        plain == join_estimate(acc.rows, right, leftKeys, rightKeys)
    IN  [Demanded(plain, rightKeys, demand) EXCEPT !.hash = @ + visits * GRAPH_VISIT_COST]

UsesHash(est, eligible, considers) ==
    /\ eligible
    /\ \/ plMode.join = "hash"
       \/ plMode.join = "auto" /\ considers /\ est.hash < est.lateral

\* The chain extended by its next pattern: the plan, the estimated rows, the distinct
\* values of each key, and the variables of the plan with whether they are known.
Extended(acc, t, right, keys, est, vars) ==
    LET joins == keys \cap DOMAIN acc.distinct
        considers == Considers(acc.rows)
        known == acc.known /\ HasVariables(t)
    IN  [node |-> IF UsesHash(est, joins # {} /\ known, considers)
                  THEN [op |-> "join", left |-> Project(acc.node, acc.vars),
                        right |-> Project(Bgp(<<t>>), vars)]
                  ELSE [op |-> "lateral", left |-> acc.node, right |-> Bgp(<<t>>)],
         rows |-> est.output,
         distinct |-> [k \in keys \cup DOMAIN acc.distinct |->
             CASE k \in joins ->
                     Min({acc.distinct[k], DistinctOf(t, k, right, considers), est.output})
               [] k \in keys \ joins -> Min2(DistinctOf(t, k, right, considers), est.output)
               [] k \notin keys -> acc.distinct[k]],
         known |-> acc.known,
         vars |-> IF known THEN acc.vars \cup vars ELSE acc.vars]

EstimatedJoin(acc, t, right, joins, cx) ==
    JoinCost(acc, right, joins, RightKeys(acc, t, right, joins),
             IF cx.graphVar \subseteq joins THEN GraphVisits(acc, t, right, cx.graphVar) ELSE 0,
             cx.demand)

\* The join of the chain so far with its next pattern
ChainStep(acc, t, bound, cx) ==
    LET right == estimate_pattern(t, bound)
        keys == triple_var_keys(t) \cup cx.graphVar
    IN  Extended(acc, t, right, keys,
                 EstimatedJoin(acc, t, right, keys \cap DOMAIN acc.distinct, cx),
                 include_bound_variables(pattern_variables(t), bound \cup cx.graphVar))

\* physical_chain
physical_chain(chain, bound, cx) ==
    LET t == chain[1]
        rows == estimate_pattern(t, bound)
        precise == plMode.join = "hash" \/ rows >= HASH_OUTER_MIN
        start == [node |-> Bgp(<<t>>), rows |-> rows,
                  distinct |-> [k \in triple_var_keys(t) \cup cx.graphVar |->
                      IF precise THEN estimate_variable_distinct(t, k, rows) ELSE rows],
                  known |-> HasVariables(t),
                  vars |-> include_bound_variables(pattern_variables(t),
                                                   bound \cup cx.graphVar)]
    IN  FoldLeft(LAMBDA acc, u : ChainStep(acc, u, bound, cx), start, Tail(chain)).node

\* The patterns connected with i over free variables, as a set of indexes
Component(free, i) ==
    LET grow[n \in 0..Cardinality(DOMAIN free)] ==
            IF n = 0 THEN {i}
            ELSE {j \in DOMAIN free : j \in grow[n - 1]
                     \/ \E k \in grow[n - 1] : free[j] \cap free[k] # {}}
    IN  grow[Cardinality(DOMAIN free)]

\* Greedy order: the cheapest pattern first, then the cheapest connected one.
GreedyChain(patterns, free, members, bound) ==
    LET Next(acc, n) ==
            LET left == members \ Range(acc)
                known == bound \cup UNION {free[i] : i \in Range(acc)}
                linked == {i \in left : acc = <<>> \/ free[i] \cap known # {}}
                among == IF linked = {} THEN left ELSE linked
                cost == [i \in among |-> estimate_pattern(patterns[i], known)]
                least == {i \in among : \A j \in among : cost[i] <= cost[j]}
            IN  Append(acc, Min(least))
    IN  FoldLeft(Next, <<>>, [n \in 1..Cardinality(members) |-> n])

\* Faulty: a pattern that shares no variable with the others is left out.
reorder_bgp_connected(patterns, bound, cx) ==
    IF Len(patterns) < 2 THEN Bgp(patterns)
    ELSE LET free == [i \in DOMAIN patterns |->
                 (triple_var_keys(patterns[i]) \cup cx.graphVar) \ bound]
             order == GreedyChain(patterns, free, Component(free, 1), bound)
         IN  physical_chain([n \in DOMAIN order |-> patterns[order[n]]], bound, cx)

\* reorder_bgp: one chain per connected component, joined in order of cost
reorder_bgp(patterns, bound, cx) ==
    IF Len(patterns) < 2 THEN Bgp(patterns)
    ELSE LET free == [i \in DOMAIN patterns |->
                 (triple_var_keys(patterns[i]) \cup cx.graphVar) \ bound]
             orders == {GreedyChain(patterns, free, Component(free, i), bound) :
                           i \in DOMAIN patterns}
             First(o) == <<estimate_pattern(patterns[o[1]], bound), o[1]>>
             Less(a, b) == First(a)[1] < First(b)[1]
                 \/ (First(a)[1] = First(b)[1] /\ First(a)[2] < First(b)[2])
             sorted == SetToSortSeq(orders, Less)
             Plan(o) == physical_chain([n \in DOMAIN o |-> patterns[o[n]]], bound, cx)
         IN  FoldLeft(LAMBDA acc, o : [op |-> "join", left |-> acc, right |-> Plan(o)],
                      Plan(sorted[1]), Tail(sorted))

-----------------------------------------------------------------------------
(* Folding equality filters *)

\* flatten_and
flatten_and(e) ==
    LET RECURSIVE flat(_)
        flat(f) == IF f.op = "and" THEN flat(f.left) \o flat(f.right) ELSE <<f>>
    IN  flat(e)

\* and_all, for a non-empty list
and_all(list) ==
    FoldRight(LAMBDA e, acc : [op |-> "and", left |-> e, right |-> acc],
              SubSeq(list, 1, Len(list) - 1), list[Len(list)])

\* Kinds of constants: IRIs, plain strings and the other, typed, literals
TermKind(term) ==
    CASE term \in {"s", "s2"} -> "string"
      [] term \in {"n", "n2"} -> "typed"
      [] term \notin {"s", "s2", "n", "n2"} -> "iri"

\* foldable_equality: `=` compares typed literals by value and is not folded.
foldable_equality(e) == /\ e.op \in {"equal", "same"}
                        /\ TermKind(e.term) = "typed" => e.op = "same"

\* Faulty: an unusual spelling of the same string in the store is overlooked.
has_noncanonical_spelling_never(term) == FALSE

\* has_noncanonical_spelling: the term table holds the other spelling.
has_noncanonical_spelling(term) == term \in DOMAIN Spelling /\ Spelling[term] \in Terms

\* fold_variable_patterns, its test: the variable occurs, and a literal only
\* where an object stands.
Folds(patterns, key, term) ==
    /\ \E i \in DOMAIN patterns : key \in triple_var_keys(patterns[i])
    /\ TermKind(term) = "iri" \/
         \A i \in DOMAIN patterns : key \notin {patterns[i][1], patterns[i][2]}

fold_variable_patterns(patterns, key, term) ==
    [i \in DOMAIN patterns |-> [j \in 1..3 |->
        IF patterns[i][j] = key THEN <<"term", term>> ELSE patterns[i][j]]]

\* Faulty: the variable that names the graph is folded like any other.
MayFold_graph(e, cx) ==
    /\ foldable_equality(e)
    /\ TermKind(e.term) = "string" => ~has_noncanonical_spelling(e.term)

MayFold(e, cx) ==
    /\ foldable_equality(e)
    /\ e.var \notin cx.graphNames
    /\ TermKind(e.term) = "string" => ~has_noncanonical_spelling(e.term)

\* rewrite_bgp_filter: conjuncts are folded one after the other, each into the
\* patterns that the earlier ones left.
rewrite_bgp_filter(expr, patterns, bound, cx) ==
    LET Step(acc, e) ==
            IF MayFold(e, cx) /\ Folds(acc.patterns, e.var, e.term)
            THEN [acc EXCEPT !.patterns = fold_variable_patterns(@, e.var, e.term),
                             !.bound = Append(@, e)]
            ELSE [acc EXCEPT !.rest = Append(@, e)]
        done == FoldLeft(Step, [patterns |-> patterns, bound |-> <<>>, rest |-> <<>>],
                         flatten_and(expr))
        node == FoldLeft(LAMBDA n, e : [op |-> "extend", inner |-> n, var |-> e.var,
                                        term |-> e.term],
                         reorder_bgp(done.patterns, bound, cx), done.bound)
    IN  IF done.rest = <<>> THEN node
        ELSE [op |-> "filter", inner |-> node, expr |-> and_all(done.rest)]

-----------------------------------------------------------------------------
(* The walk over the query *)

RECURSIVE collect_pattern_vars(_), supports_demand(_), push_slice_cap(_, _)

\* collect_pattern_vars
collect_pattern_vars(p) ==
    CASE p.op = "bgp" -> UNION {triple_var_keys(p.patterns[i]) : i \in DOMAIN p.patterns}
      [] p.op \in {"join", "leftjoin", "lateral", "union", "minus"} ->
            collect_pattern_vars(p.left) \cup collect_pattern_vars(p.right)
      [] p.op \in {"filter", "slice"} -> collect_pattern_vars(p.inner)
      [] p.op = "extend" -> collect_pattern_vars(p.inner) \cup {p.var}
      [] p.op = "graph" -> collect_pattern_vars(p.inner)
                               \cup (IF IsKey(p.name) THEN {p.name} ELSE {})
      [] p.op = "project" -> p.vars

\* supports_demand: a join of two patterns that share a variable
supports_demand(p) ==
    CASE p.op \in {"project", "graph"} -> supports_demand(p.inner)
      [] p.op = "bgp" -> /\ Len(p.patterns) = 2
                         /\ HasVariables(p.patterns[1]) /\ HasVariables(p.patterns[2])
                         /\ pattern_variables(p.patterns[1])
                                \cap pattern_variables(p.patterns[2]) # {}
      [] p.op \notin {"project", "graph", "bgp"} -> FALSE

Slice(inner, start, length) ==
    [op |-> "slice", inner |-> inner, start |-> start, length |-> length]

\* push_slice_cap: only through operators that keep every row
push_slice_cap(p, cap) ==
    LET Branch(b) == IF b.op = "slice" /\ b.start = 0 /\ b.length \in 0..cap
                     THEN b ELSE Slice(push_slice_cap(b, cap), 0, cap)
    IN  CASE p.op \in {"project", "extend"} ->
                [p EXCEPT !.inner = push_slice_cap(@, cap)]
          [] p.op = "union" -> [p EXCEPT !.left = Branch(@), !.right = Branch(@)]
          [] p.op \notin {"project", "extend", "union"} -> p

\* Faulty: the rows that the slice skips are not counted.
Cap_length(p) == p.length

\* The rows that a slice needs of its inner pattern
Cap(p) == p.start + p.length

RECURSIVE optimize_pattern(_, _, _), optimize_expression(_, _, _)

\* optimize_expression: only the bodies of EXISTS are plans.
optimize_expression(e, bound, cx) ==
    CASE e.op \in {"equal", "same"} -> e
      [] e.op = "and" -> [e EXCEPT !.left = optimize_expression(@, bound, cx),
                                   !.right = optimize_expression(@, bound, cx)]
      [] e.op \in {"exists", "absent"} ->
            [e EXCEPT !.inner = optimize_pattern(@, bound, cx)]

\* optimize_pattern
optimize_pattern(p, bound, cx) ==
    CASE p.op = "bgp" -> reorder_bgp(p.patterns, bound, cx)
      [] p.op \in {"join", "union", "minus"} ->
            [p EXCEPT !.left = optimize_pattern(@, bound, cx),
                      !.right = optimize_pattern(@, bound, cx)]
      [] p.op \in {"leftjoin", "lateral"} ->
            LET left == optimize_pattern(p.left, bound, cx)
                inside == bound \cup collect_pattern_vars(left)
                right == optimize_pattern(p.right, inside, cx)
                both == inside \cup collect_pattern_vars(right)
            IN  [p EXCEPT !.left = left, !.right = right,
                          !.exprs = {optimize_expression(e, both, cx) : e \in @}]
      [] p.op = "filter" ->
            LET inside == bound \cup collect_pattern_vars(p.inner)
                expr == optimize_expression(p.expr, inside, cx)
            IN  IF p.inner.op = "bgp"
                THEN rewrite_bgp_filter(expr, p.inner.patterns, bound, cx)
                ELSE [p EXCEPT !.inner = optimize_pattern(@, bound, cx), !.expr = expr]
      [] p.op = "graph" ->
            LET name == IF IsKey(p.name) THEN {p.name} ELSE {}
            IN  [p EXCEPT !.inner = optimize_pattern(@, bound,
                    [cx EXCEPT !.graphVar = name \ bound, !.graphNames = @ \cup name])]
      [] p.op = "slice" ->
            LET demand == IF p.length > 0 /\ supports_demand(p.inner)
                          THEN p.start + p.length ELSE cx.demand
                inner == optimize_pattern(p.inner, bound, [cx EXCEPT !.demand = demand])
            IN  [p EXCEPT !.inner = IF p.length = -1 THEN inner
                                    ELSE push_slice_cap(inner, Cap(p))]
      [] p.op \in {"extend", "project"} ->
            [p EXCEPT !.inner = optimize_pattern(@, bound, cx)]

RECURSIVE Laterals(_)

\* The plan has an edge that ForceHash could not turn into a hash join.
Laterals(p) ==
    CASE p.op = "lateral" -> TRUE
      [] p.op \in {"join", "leftjoin", "union", "minus"} ->
            Laterals(p.left) \/ Laterals(p.right)
      [] p.op \in {"filter", "extend", "graph", "project", "slice"} -> Laterals(p.inner)
      [] p.op = "bgp" -> FALSE

\* optimize_with_costs
optimize_with_costs(query) ==
    optimize_pattern(query, {}, [graphVar |-> {}, graphNames |-> {}, demand |-> -1])

\* ForcedModeUnavailable: the query is refused instead of run.
Refused(plan) == plMode.join = "hash" /\ Laterals(plan)

-----------------------------------------------------------------------------

PlanInit == plData = {} /\ plQuery = Bgp(<<>>) /\ plMode = [join |-> "auto", graph |-> <<>>]

\* plan_query: a query meets a store; single_graph is the graph that the caller
\* selected, when it selected one.
PickQuery ==
    /\ plData = {}
    /\ plData' \in SUBSET StoredQuads \ {{}}
    /\ plQuery' \in PlanQueries
    /\ plMode' \in [join : {"auto", "hash", "lateral"},
                    graph : {<<>>} \cup {<<q[1]>> : q \in StoredQuads}]

PlanSpec == PlanInit /\ [][PickQuery]_planVars

-----------------------------------------------------------------------------

Visible(rows) == [i \in DOMAIN rows |->
    [k \in {v \in DOMAIN rows[i] : v[1] = "var"} |-> rows[i][k]]]
Answer(p) == Visible(Evaluate(p, <<"any", "">>, <<>>))
Unsliced(p) == IF p.op = "slice" THEN p.inner ELSE p

SameAnswer(answer, query) ==
    IF query.op = "slice"
    THEN /\ Len(answer) = Len(Answer(query))
         /\ ToBag(answer) \sqsubseteq ToBag(Answer(Unsliced(query)))
    ELSE ToBag(answer) = ToBag(Answer(query))

PlanAnswers(plan) == ~Refused(plan) => SameAnswer(Answer(plan), plQuery)

\* The optimized plan has the rows of the written query, with the same
\* multiplicities, for every store, join mode and estimate: folded filters,
\* reordered patterns and hash joins change nothing.  Under a slice the plan may
\* keep other rows, but as many, and all of them rows of the unsliced query.
PlanIsEquivalent == PlanAnswers(optimize_with_costs(plQuery))
=============================================================================
