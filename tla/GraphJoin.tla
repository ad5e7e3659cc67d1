------------------------------ MODULE GraphJoin -----------------------------
(***************************************************************************)
(* Queries over GRAPH ?g { ... } that ask for distinct keys or for the      *)
(* number of graphs per key (graph_distinct.rs, graph_join.rs).  The       *)
(* patterns are joined one at a time; after each step a row keeps only the  *)
(* columns that are still needed, and equal rows collapse.  The planner     *)
(* picks the next pattern and how to read it from counters, which may be    *)
(* off, so here JoinStep takes any pattern and any method that is open.     *)
(*                                                                         *)
(* A pattern is <<graph, subject, predicate, object>>; negative numbers are *)
(* variables, and the graph is always the variable -1.                      *)
(***************************************************************************)
EXTENDS QueryRead

CONSTANT JoinPlans      \* patterns, keys and whether graphs are counted

VARIABLES gjPlan,       \* the plan, or NoRead
          gjPending,    \* patterns still to join
          gjColumns,    \* the variables that a row keeps
          gjRows        \* the rows: functions of gjColumns

joinVars == <<readVars, gjPlan, gjPending, gjColumns, gjRows>>

GraphVar == -1
SlotVars(pattern) == {pattern[c] : c \in {d \in Column : pattern[d] < 0}}

JoinInit ==
    /\ ReadInit /\ gjPlan = NoRead
    /\ gjPending = {} /\ gjColumns = {} /\ gjRows = {<<>>}

-----------------------------------------------------------------------------
(* One step.                                                               *)

\* Faulty: the graph is dropped as soon as no key needs it.
Needed_keys(plan, pending) ==
    plan.keys \cup UNION {SlotVars(plan.patterns[i]) \ {GraphVar} : i \in pending}
      \cup (IF plan.counts THEN {GraphVar} ELSE {})
\* Execution::step: the columns that keys, the count and the patterns still
\* pending need.
Needed(plan, pending) ==
    plan.keys \cup UNION {SlotVars(plan.patterns[i]) : i \in pending}
      \cup (IF plan.counts \/ pending # {} THEN {GraphVar} ELSE {})

step(plan, columns, i, pending) ==
    LET vars == SlotVars(plan.patterns[i])
        kept == (columns \cup vars) \cap Needed(plan, pending)
    IN  [pattern |-> plan.patterns[i], join |-> vars \cap columns,
         columns |-> kept, filter |-> kept \subseteq columns]

\* bind: the row of a quad, unless a repeated variable disagrees.
bind(pattern, q) ==
    IF \A c, d \in Column : /\ pattern[c] >= 0 => pattern[c] = q[c]
                            /\ pattern[c] = pattern[d] => q[c] = q[d]
    THEN {[v \in SlotVars(pattern) |->
             q[CHOOSE c \in Column : pattern[c] = v]]}
    ELSE {}

join_key(row, join) == [v \in join |-> row[v]]

\* project: the kept columns, of the row where it has them.
project(row, matched, s) ==
    [v \in s.columns |-> IF v \in DOMAIN row THEN row[v] ELSE matched[v]]

\* The visible quads of a range, in some order.
RangeOf(terms, graphs) ==
    SetToSeq({q \in rdLive : /\ q[1] \in graphs /\ matches(terms, q)
                             /\ terms_are_visible(gjPlan, q)})
constant(pattern) == [c \in Column |-> IF pattern[c] < 0 THEN None ELSE pattern[c]]

\* Join::absorb: the rows of the quad's group; a filter step needs one match
\* per group and retires it.
absorb(acc, q, s) ==
    LET bound == bind(s.pattern, q)
        matched == CHOOSE m \in bound : TRUE
        group == {r \in acc.open : join_key(r, s.join) = join_key(matched, s.join)}
    IN  IF bound = {} THEN acc
        ELSE [open |-> IF s.filter THEN acc.open \ group ELSE acc.open,
              out |-> acc.out \cup {project(r, matched, s) : r \in group}]

Absorbed(rows, quads, s) ==
    FoldLeft(LAMBDA acc, q : absorb(acc, q, s),
             [open |-> rows, out |-> {}], quads).out

GraphsOf(rows, columns) ==
    IF GraphVar \in columns THEN {r[GraphVar] : r \in rows} ELSE GraphOf

\* scan: one range over the store, limited to the graphs of the rows.
scan_join(rows, columns, s) ==
    Absorbed(rows, RangeOf([constant(s.pattern) EXCEPT ![1] = None],
                           GraphsOf(rows, columns)), s)

\* graph_scan: one range per graph of the rows.
graph_scan(rows, columns, s) ==
    Absorbed(rows, FlattenSeq([i \in 1 .. Cardinality(GraphsOf(rows, columns)) |->
      RangeOf([constant(s.pattern) EXCEPT ![1] = None],
              {SetToSeq(GraphsOf(rows, columns))[i]})]), s)

\* Faulty: a group is skipped when one of its rows is already there.
Covered_one(members, s, out) ==
    \E r \in members : project(r, <<>>, s) \in out
\* A filter step skips a group whose rows are all there already.
Covered(members, s, out) ==
    \A r \in members : project(r, <<>>, s) \in out

\* probe: one range per join key, stopping at a filter's first match.
ProbeGroup(rows, s, out, key) ==
    LET members == {r \in rows : join_key(r, s.join) = key}
        terms == [c \in Column |->
          IF s.pattern[c] >= 0 THEN s.pattern[c]
          ELSE IF s.pattern[c] \in s.join THEN key[s.pattern[c]] ELSE None]
        found == SelectSeq(RangeOf(terms, GraphOf),
                           LAMBDA q : bind(s.pattern, q) # {})
        used == IF s.filter THEN SubSeq(found, 1, Min({1, Len(found)}))
                ELSE found
    IN  IF s.filter /\ Covered(members, s, out) THEN out
        ELSE out \cup {project(r, m, s) :
               r \in members, m \in UNION {bind(s.pattern, q) : q \in Range(used)}}

probe(rows, s) ==
    FoldLeft(LAMBDA out, key : ProbeGroup(rows, s, out, key), {},
             SetToSeq({join_key(r, s.join) : r \in rows}))

-----------------------------------------------------------------------------
(* Evaluation.                                                             *)

PickJoin ==
    /\ gjPlan = NoRead
    /\ rdLive' \in SUBSET Universe
    /\ \E plan \in JoinPlans, visibility \in Visibility, orphans \in OrphanChoice :
         gjPlan' = [kind |-> "join", visibility |-> visibility,
                    orphans |-> orphans] @@ plan
    /\ gjPending' = DOMAIN gjPlan'.patterns
    /\ UNCHANGED <<rdRead, gjColumns, gjRows>>

\* choose: scanning is always open, the other methods once the graph is bound.
Methods == IF GraphVar \in gjColumns THEN {"scan", "graph_scan", "probe"}
           ELSE {"scan"}

\* evaluate: the next pattern, while patterns and rows are left.
JoinStep ==
    /\ gjPending # {} /\ gjRows # {}
    /\ \E i \in gjPending, method \in Methods :
         LET s == step(gjPlan, gjColumns, i, gjPending \ {i})
         IN  /\ gjRows' = CASE method = "scan" -> scan_join(gjRows, gjColumns, s)
                            [] method = "graph_scan" ->
                                 graph_scan(gjRows, gjColumns, s)
                            [] OTHER -> probe(gjRows, s)
             /\ gjColumns' = s.columns
             /\ gjPending' = gjPending \ {i}
    /\ UNCHANGED <<readVars, gjPlan>>

JoinNext == PickJoin \/ JoinStep
JoinSpec == JoinInit /\ [][JoinNext]_joinVars

\* values: a row per key, with the number of its rows when graphs are counted;
\* without keys an empty input still counts zero.
values(rows) ==
    LET key(r) == join_key(r, gjPlan.keys)
        count(k) == IF gjPlan.counts THEN Cardinality({r \in rows : key(r) = k})
                    ELSE 1
        out == {<<k, count(k)>> : k \in {key(r) : r \in rows}}
    IN  IF out = {} /\ gjPlan.keys = {} /\ gjPlan.counts THEN {<<<<>>, 0>>}
        ELSE out

-----------------------------------------------------------------------------
(* Properties *)

\* The solutions of all patterns, each in one visible graph.
JoinSolutions ==
    LET shown == {q \in rdLive : terms_are_visible(gjPlan, q)}
        vars == UNION {SlotVars(p) : p \in Range(gjPlan.patterns)}
        value(m, t) == IF t < 0 THEN m[t] ELSE t
    IN  {m \in [vars -> UNION {Range(q) : q \in shown}] :
           \A p \in Range(gjPlan.patterns) :
             [c \in Column |-> value(m, p[c])] \in shown}

\* The result is the distinct keys of the solutions, with the number of graphs
\* that hold a solution of the key, for every order of the patterns and every
\* choice of access method.
JoinIsExact ==
    gjPlan # NoRead /\ (gjPending = {} \/ gjRows = {}) =>
      LET found == JoinSolutions
          key(m) == join_key(m, gjPlan.keys)
          graphs(k) == {m[GraphVar] : m \in {n \in found : key(n) = k}}
          count(k) == IF gjPlan.counts THEN Cardinality(graphs(k)) ELSE 1
          expected == {<<k, count(k)>> : k \in {key(m) : m \in found}}
      IN  values(IF gjPending = {} THEN gjRows ELSE {})
            = IF gjPlan.counts /\ gjPlan.keys = {} /\ found = {}
              THEN {<<<<>>, 0>>} ELSE expected

=============================================================================
