---------------------------- MODULE SparqlUpdate ----------------------------
(***************************************************************************)
(* SPARQL Update: evaluate_update of internal/sparql.rs materializes the   *)
(* operations of one request into quad changes, without any graph lock and *)
(* on a read view pinned when it starts; apply_sparql_update_with_options  *)
(* of lib.rs then locks the one graph the changes name, asks the           *)
(* authorizer again and commits them.  Other callers write quads, change   *)
(* policies and delete graphs between any two of these steps.              *)
(*                                                                         *)
(* A triple is an element of UpTriple; a basic pattern is one triple       *)
(* pattern and binds ?x to a triple, ?g may be bound to the graph it was   *)
(* found in or by VALUES.  A solution is a pair <<g, x>>, 0 while unbound, *)
(* and the solutions of a pattern are a sequence, repeated ones included,  *)
(* in an order of the evaluator's choice.  A policy is the set of actions  *)
(* the request's authorizer grants under it.                               *)
(***************************************************************************)
EXTENDS Integers, Sequences, FiniteSets, SequencesExt

CONSTANTS
    UpGraph,          \* graph names, positive integers
    UpTriple,         \* triples
    UpPolicies,       \* the policies a graph may have
    DefaultPolicy,    \* the actions granted on a graph that has no policy
    Updates,          \* the requests: sequences of operations
    MaxChanges,       \* UpdateLimits::max_changes
    MaxGraphs,        \* UpdateLimits::max_graphs
    MaxBindings,      \* UpdateLimits::max_materialized_bindings
    MaxReads,         \* QueryLimits::max_intermediate_rows of update_read_limits
    MaxHash,          \* max_hash_entries; max_hash_bytes over HASH_ROW_ESTIMATE is the same bound
    MaxUpdateSteps    \* bound on the steps of other callers

\* What the constants satisfy; a module that instantiates this one assumes it.
UpdateAssumption ==
    /\ UpGraph \cup UpTriple \subseteq Nat \ {0}
    /\ UpPolicies \subseteq SUBSET {"read", "write"}
    /\ DefaultPolicy \subseteq {"read", "write"}
    /\ {MaxChanges, MaxGraphs, MaxBindings, MaxReads, MaxHash, MaxUpdateSteps} \subseteq Nat

VARIABLES
    upStore,    \* [quads, policies, deleted]: the live store
    upRequest,  \* the request and the view it pinned
    upSteps     \* steps of other callers so far

upVars == <<upStore, upRequest, upSteps>>

\* A policies function has exactly the registered graphs as its domain.
PolicyOf(policies, g) == IF g \in DOMAIN policies THEN policies[g] ELSE DefaultPolicy

-----------------------------------------------------------------------------
(* Evaluation of a pattern by the SPARQL library over the dataset it is given: the  *)
(* quads of the visible graphs, the default graph (0 stands for the union of the    *)
(* visible graphs) and the named graphs.                                            *)

Agree(a, b) == \A v \in {1, 2} : a[v] = b[v] \/ a[v] = 0 \/ b[v] = 0

Unified(a, b) == [v \in {1, 2} |-> IF a[v] = 0 THEN b[v] ELSE a[v]]

\* Every solution of `right' that agrees with a, put together with it.
Joined(a, right) ==
    LET matching == SelectSeq(right, LAMBDA b : Agree(a, b))
    IN  [i \in DOMAIN matching |-> Unified(a, matching[i])]

\* The rows of f(s[1]), f(s[2]), ... one after the other.
ForEach(s, f(_)) == FlattenSeq([i \in DOMAIN s |-> f(s[i])])

RECURSIVE Solutions(_, _, _), Satisfies(_, _, _, _)

Solutions(p, at, ds) ==
    CASE p.k = "bgp" ->
           SetToSeq({<<0, q[2]>> : q \in {r \in ds.quads : IF at = 0 THEN r[1] \in ds.default ELSE r[1] = at}})
      [] p.k = "values" -> [i \in DOMAIN p.rows |-> <<p.rows[i], 0>>]
      [] p.k = "graph" ->
           IF p.name # 0
           THEN IF p.name \in ds.named THEN Solutions(p.inner, p.name, ds) ELSE <<>>
           ELSE ForEach(SetToSeq(ds.named), LAMBDA g : Joined(<<g, 0>>, Solutions(p.inner, g, ds)))
      [] p.k = "join" ->
           LET right == Solutions(p.right, at, ds)
           IN  ForEach(Solutions(p.left, at, ds), LAMBDA a : Joined(a, right))
      [] p.k = "union" -> Solutions(p.left, at, ds) \o Solutions(p.right, at, ds)
      [] p.k = "minus" ->
           LET right == Range(Solutions(p.right, at, ds))
               Removes(a, b) == Agree(a, b) /\ \E v \in {1, 2} : a[v] # 0 /\ b[v] # 0
           IN  SelectSeq(Solutions(p.left, at, ds), LAMBDA a : ~ \E b \in right : Removes(a, b))
      [] p.k = "optional" ->
           LET right == Solutions(p.right, at, ds)
               Extended(a) == SelectSeq(Joined(a, right), LAMBDA s : Satisfies(p.expr, s, at, ds))
           IN  ForEach(Solutions(p.left, at, ds),
                       LAMBDA a : IF Extended(a) = <<>> THEN <<a>> ELSE Extended(a))
      [] p.k = "filter" ->
           SelectSeq(Solutions(p.inner, at, ds), LAMBDA s : Satisfies(p.expr, s, at, ds))
      [] OTHER -> Solutions(p.inner, at, ds)

Satisfies(e, s, at, ds) ==
    CASE e.k = "exists" -> \E b \in Range(Solutions(e.pattern, at, ds)) : Agree(s, b)
      [] e.k = "not" -> ~ Satisfies(e.inner, s, at, ds)
      [] e.k = "and" -> Satisfies(e.left, s, at, ds) /\ Satisfies(e.right, s, at, ds)
      [] OTHER -> TRUE

\* One quad per template and solution; a template with an unbound variable gives none.
Materialized(templates, solutions) ==
    LET Quad(t, s) == <<t.op, IF t.graph = 0 THEN s[1] ELSE t.graph, s[2]>>
        Of(s) == [i \in DOMAIN templates |-> Quad(templates[i], s)]
    IN  SelectSeq(ForEach(solutions, Of), LAMBDA c : c[2] # 0 /\ c[3] # 0)

Total(s) == FoldLeft(LAMBDA a, n : a + n, 0, s)

RECURSIVE FewestReads(_, _, _), MostReads(_, _, _)

\* The rows an evaluation of the whole pattern pulls from the dataset, at least: every row of a basic
\* pattern, but of the sides of a join perhaps only one, and of a condition or an optional side none.
FewestReads(p, at, ds) ==
    CASE p.k = "bgp" -> Len(Solutions(p, at, ds))
      [] p.k = "values" -> 0
      [] p.k = "graph" ->
           LET graphs == IF p.name = 0 THEN ds.named ELSE {p.name} \cap ds.named
           IN  Total([i \in 1..Cardinality(graphs) |-> FewestReads(p.inner, SetToSeq(graphs)[i], ds)])
      [] p.k = "union" -> FewestReads(p.left, at, ds) + FewestReads(p.right, at, ds)
      [] p.k = "join" ->
           LET left == FewestReads(p.left, at, ds)
               right == FewestReads(p.right, at, ds)
           IN  IF left < right THEN left ELSE right
      [] p.k \in {"minus", "optional"} -> FewestReads(p.left, at, ds)
      [] OTHER -> FewestReads(p.inner, at, ds)

\* And at most: a side is read again for every row of the other, a condition for every row.
MostReads(p, at, ds) ==
    LET Rows(q) == 1 + Len(Solutions(q, at, ds))
        Most(q) == MostReads(q, at, ds)
    IN  CASE p.k \in {"bgp", "values"} -> FewestReads(p, at, ds)
          [] p.k = "graph" ->
               LET graphs == IF p.name = 0 THEN ds.named ELSE {p.name} \cap ds.named
               IN  Total([i \in 1..Cardinality(graphs) |-> MostReads(p.inner, SetToSeq(graphs)[i], ds)])
          [] p.k = "true" -> 0
          [] p.k = "exists" -> Most(p.pattern)
          [] p.k \in {"union", "and"} -> Most(p.left) + Most(p.right)
          [] p.k \in {"join", "minus"} -> Most(p.left) * Rows(p.right) + Most(p.right) * Rows(p.left)
          [] p.k = "optional" ->
               Most(p.left) * Rows(p.right) + Most(p.right) * Rows(p.left)
                 + Most(p.expr) * Rows(p.left) * Rows(p.right)
          [] p.k \in {"filter", "extend"} -> Most(p.inner) + Most(p.expr) * Rows(p.inner)
          [] OTHER -> Most(p.inner)

-----------------------------------------------------------------------------
(* Authorization of what a request reads and writes, on the pinned view.            *)

\* authorize_update_graph.
authorize_update_graph(view, g, action, denyMissing) ==
    /\ denyMissing => g \in DOMAIN view.policies
    /\ action \in PolicyOf(view.policies, g)

\* Faulty: graphs the caller may not read stay in the set.
readable_update_graphs_listed(view, live) == DOMAIN live.policies \cap DOMAIN view.policies

\* readable_update_graphs: the listing is the live one, the policies are the view's.
readable_update_graphs(view, live) ==
    {g \in DOMAIN live.policies \cap DOMAIN view.policies : "read" \in view.policies[g]}

\* authorize_update_dataset: every graph of a USING clause must exist and be readable.
authorize_update_dataset(view, using) ==
    \A u \in using : \A g \in u.default \cup u.named : authorize_update_graph(view, g, "read", TRUE)

RECURSIVE authorize_update_pattern(_, _), authorize_update_expression(_, _)

\* authorize_update_pattern: "ok", "denied", or "unsupported" for a SERVICE, the
\* first one met.
authorize_update_pattern(view, p) ==
    LET First(a, b) == IF a = "ok" THEN b ELSE a IN
    CASE p.k \in {"bgp", "values"} -> "ok"
      [] p.k = "service" -> "unsupported"
      [] p.k = "graph" ->
           IF p.name # 0 /\ ~ authorize_update_graph(view, p.name, "read", TRUE)
           THEN "denied"
           ELSE authorize_update_pattern(view, p.inner)
      [] p.k \in {"join", "union", "minus"} ->
           First(authorize_update_pattern(view, p.left), authorize_update_pattern(view, p.right))
      [] p.k = "optional" ->
           First(First(authorize_update_pattern(view, p.left), authorize_update_pattern(view, p.right)),
                 authorize_update_expression(view, p.expr))
      [] OTHER ->
           First(authorize_update_pattern(view, p.inner), authorize_update_expression(view, p.expr))

\* Faulty: a negated condition is not looked into.
authorize_update_expression_flat(view, e) ==
    CASE e.k = "exists" -> authorize_update_pattern(view, e.pattern)
      [] OTHER -> "ok"

\* authorize_update_expression.
authorize_update_expression(view, e) ==
    CASE e.k = "exists" -> authorize_update_pattern(view, e.pattern)
      [] e.k = "not" -> authorize_update_expression(view, e.inner)
      [] e.k = "and" ->
           LET left == authorize_update_expression(view, e.left) IN
           IF left = "ok" THEN authorize_update_expression(view, e.right) ELSE left
      [] OTHER -> "ok"

\* authorize_template_graph: a variable (0) is decided on each materialized change,
\* the default graph (-1) is not supported.
authorize_template_graph(view, t) ==
    CASE t.graph = 0 -> "ok"
      [] t.graph = -1 -> "unsupported"
      [] OTHER -> IF authorize_update_graph(view, t.graph, "write", FALSE) THEN "ok" ELSE "denied"

\* normalize_dataset: equal names are one; more than one default graph is refused.
normalize_dataset(using) == \A u \in using : Cardinality(u.default) <= 1

-----------------------------------------------------------------------------
(* Materialization: every change is authorized for writing and pushed under the     *)
(* limits; the request stops at the first refusal.                                  *)

Evaluating(changes) == [changes |-> changes, outcome |-> "ok"]

Stopped(changes, why) == [changes |-> changes, outcome |-> why]

\* Faulty: one more change than the limit allows.
push_update_change_late(acc, c) ==
    LET next == Append(acc.changes, c) IN
    CASE Len(acc.changes) > MaxChanges -> Stopped(acc.changes, "changes")
      [] Cardinality({d[2] : d \in Range(next)}) > MaxGraphs -> Stopped(acc.changes, "graphs")
      [] OTHER -> Evaluating(next)

\* push_update_change.
push_update_change(acc, c) ==
    LET next == Append(acc.changes, c) IN
    CASE Len(acc.changes) >= MaxChanges -> Stopped(acc.changes, "changes")
      [] Cardinality({d[2] : d \in Range(next)}) > MaxGraphs -> Stopped(acc.changes, "graphs")
      [] OTHER -> Evaluating(next)

\* authorize_materialized_change, then push_update_change.
authorize_materialized_change(view, acc, c) ==
    CASE acc.outcome # "ok" -> acc
      [] ~ authorize_update_graph(view, c[2], "write", FALSE) -> Stopped(acc.changes, "denied")
      [] OTHER -> push_update_change(acc, c)

\* quad_to_insert, ground_quad_delete, update_quad_change: the default graph is refused.
quad_to_insert(view, acc, c) ==
    IF acc.outcome = "ok" /\ c[2] = 0
    THEN Stopped(acc.changes, "unsupported")
    ELSE authorize_materialized_change(view, acc, c)

PushAll(view, acc, cs) ==
    FoldLeft(LAMBDA a, c : quad_to_insert(view, a, c), acc, cs)

\* materialize_removals: the targets' live quads, without the check per change.
materialize_removals(acc, quads, targets) ==
    FoldLeft(LAMBDA a, c : IF a.outcome # "ok" THEN a ELSE push_update_change(a, c), acc,
             SetToSeq({<<"delete", q[1], q[2]>> : q \in {r \in quads : r[1] \in targets}}))

\* update_target_graphs: the graph named, or every registered graph of the live store.
update_target_graphs(live, target) == IF target = 0 THEN DOMAIN live.policies ELSE {target}

\* The dataset of a DELETE/INSERT: the USING clause, or the union of the readable
\* graphs as the default graph; nothing but readable graphs is visible.
DatasetOf(view, readable, using) ==
    [quads   |-> {q \in view.quads : q[1] \in readable},
     default |-> IF using = {} THEN readable ELSE UNION {u.default : u \in using},
     named   |-> IF using = {} THEN readable ELSE UNION {u.named : u \in using} \cap readable]

RECURSIVE InScope(_), pattern_features(_), expression_features(_)

\* on_in_scope_variable: the variables a pattern may bind.
InScope(p) ==
    CASE p.k = "bgp" -> {"x"}
      [] p.k = "values" -> {"g"}
      [] p.k = "graph" -> InScope(p.inner) \cup (IF p.name = 0 THEN {"g"} ELSE {})
      [] p.k \in {"join", "union", "optional"} -> InScope(p.left) \cup InScope(p.right)
      [] p.k = "minus" -> InScope(p.left)
      [] OTHER -> InScope(p.inner)

\* shares_variable.
shares_variable(left, right) == InScope(left) \cap InScope(right) # {}

\* merge_features.
merge_features(a, b) == [rows |-> a.rows + b.rows, hash |-> a.hash \/ b.hash]

\* pattern_features: the rows of a pattern estimated from its text, and whether a hash table may be built.
pattern_features(p) ==
    CASE p.k = "bgp" -> [rows |-> 1, hash |-> FALSE]
      [] p.k = "values" -> [rows |-> Len(p.rows), hash |-> FALSE]
      [] p.k \in {"join", "optional", "minus"} ->
           LET left == pattern_features(p.left).rows
               right == pattern_features(p.right).rows
               larger == IF left > right THEN left ELSE right
               sides == [rows |-> IF shares_variable(p.left, p.right) THEN larger ELSE left * right,
                         hash |-> TRUE]
           IN  IF p.k = "optional" THEN merge_features(sides, expression_features(p.expr)) ELSE sides
      [] p.k = "union" -> merge_features(pattern_features(p.left), pattern_features(p.right))
      [] p.k \in {"filter", "extend"} ->
           merge_features(pattern_features(p.inner), expression_features(p.expr))
      [] OTHER -> pattern_features(p.inner)

\* expression_features.
expression_features(e) ==
    CASE e.k = "exists" -> [pattern_features(e.pattern) EXCEPT !.hash = TRUE]
      [] e.k = "not" -> expression_features(e.inner)
      [] e.k = "and" -> merge_features(expression_features(e.left), expression_features(e.right))
      [] OTHER -> [rows |-> 0, hash |-> FALSE]

\* update_read_limits, as QueryBudget::new and observe_intermediate apply them.
ReadLimit(features) == IF features.hash /\ MaxHash < MaxReads THEN MaxHash ELSE MaxReads

\* max_materialized_quads, for a template of this width.
MaterializedLimit(templates) == MaxBindings * (IF templates = <<>> THEN 1 ELSE Len(templates))

\* Faulty: a quad that was met before is not counted.
MaterializeQuads_distinct(view, acc, templates, found) ==
    LET limit == MaterializedLimit(templates)
        pushed == PushAll(view, acc, SubSeq(found, 1, IF Len(found) < limit THEN Len(found) ELSE limit))
    IN  IF pushed.outcome = "ok" /\ Cardinality(Range(found)) > limit
        THEN Stopped(pushed.changes, "bindings") ELSE pushed

\* The loop over the quads of the evaluation: each one counts, then it is authorized and pushed.
MaterializeQuads(view, acc, templates, found) ==
    LET limit == MaterializedLimit(templates)
        pushed == PushAll(view, acc, SubSeq(found, 1, IF Len(found) < limit THEN Len(found) ELSE limit))
    IN  IF pushed.outcome = "ok" /\ Len(found) > limit THEN Stopped(pushed.changes, "bindings") ELSE pushed

\* The DeleteInsert operation of evaluate_update: what it may end with.  The evaluator is lazy, so that
\* a quad may be refused before the rows read exceed their limit, which ends the evaluation too.
DeleteInsert(view, readable, acc, op) ==
    LET pattern == authorize_update_pattern(view, op.pattern)
        templates == SelectSeq([i \in DOMAIN op.templates |-> authorize_template_graph(view, op.templates[i])],
                               LAMBDA verdict : verdict # "ok")
        features == pattern_features(op.pattern)
        ds == DatasetOf(view, readable, op.using)
        result == MaterializeQuads(view, acc, op.templates, Materialized(op.templates, Solutions(op.pattern, 0, ds)))
        Stop(why) == {Stopped(acc.changes, why)}
    IN  CASE ~ authorize_update_dataset(view, op.using) -> Stop("denied")
          [] ~ normalize_dataset(op.using) -> Stop("unsupported")
          [] pattern # "ok" -> Stop(pattern)
          [] templates # <<>> -> Stop(templates[1])
          [] features.rows > MaterializedLimit(op.templates) -> Stop("bindings")
          [] features.rows > ReadLimit(features) -> Stop("estimate")
          [] OTHER ->
               (IF MostReads(op.pattern, 0, ds) > ReadLimit(features) THEN Stop("reads") ELSE {})
                 \cup (IF result.outcome # "ok" \/ FewestReads(op.pattern, 0, ds) <= ReadLimit(features)
                       THEN {result} ELSE {})

\* One operation of the request's loop: what it may end with.
Operation(view, live, readable, acc, op) ==
    CASE op.k = "data" -> {PushAll(view, acc, op.changes)}
      [] op.k = "modify" -> DeleteInsert(view, readable, acc, op)
      [] op.k = "clear" ->
           LET targets == update_target_graphs(live, op.target) IN
           CASE op.target = 0 /\ Cardinality(targets) > MaxGraphs -> {Stopped(acc.changes, "graphs")}
             [] \E g \in targets : ~ authorize_update_graph(view, g, "write", FALSE) ->
                  {Stopped(acc.changes, "denied")}
             [] OTHER -> {materialize_removals(acc, live.quads, targets)}
      [] op.k = "create" ->
           CASE ~ authorize_update_graph(view, op.target, "write", FALSE) -> {Stopped(acc.changes, "denied")}
             [] op.target \in DOMAIN live.policies -> {acc}
             [] OTHER -> {Stopped(acc.changes, "unsupported")}
      [] OTHER -> {Stopped(acc.changes, "unsupported")}

-----------------------------------------------------------------------------
NoRequest == [at |-> "idle"]

\* parse_update succeeded: the read view is pinned.
StartUpdate ==
    /\ upRequest.at = "idle"
    /\ \E ops \in Updates :
         upRequest' = [at |-> "pinned", ops |-> ops, next |-> 1, view |-> upStore,
                       readable |-> {}, lost |-> FALSE, acc |-> Evaluating(<<>>)]
    /\ UNCHANGED <<upStore, upSteps>>

\* readable_update_graphs lists the graphs of the store as they are now.
ListReadable ==
    /\ upRequest.at = "pinned"
    /\ upRequest' = [upRequest EXCEPT
                       !.at = "evaluating",
                       !.readable = readable_update_graphs(upRequest.view, upStore),
                       !.lost = ~ (DOMAIN upRequest.view.policies \subseteq DOMAIN upStore.policies)]
    /\ UNCHANGED <<upStore, upSteps>>

\* One operation; the request fails as a whole with the first one that does.
evaluate_update ==
    /\ upRequest.at = "evaluating" /\ upRequest.next <= Len(upRequest.ops)
    /\ \E acc \in Operation(upRequest.view, upStore, upRequest.readable, upRequest.acc,
                            upRequest.ops[upRequest.next]) :
         upRequest' = [upRequest EXCEPT !.acc = acc, !.next = @ + 1,
                                        !.at = IF acc.outcome = "ok" THEN @ ELSE "refused"]
    /\ UNCHANGED <<upStore, upSteps>>

\* check_update_deadline, or a cancelled clock, between two operations.
check_update_deadline ==
    /\ upRequest.at = "evaluating"
    /\ upRequest' = [upRequest EXCEPT !.at = "refused", !.acc.outcome = "deadline"]
    /\ UNCHANGED <<upStore, upSteps>>

\* single_change_graph.
single_change_graph(changes) == Cardinality({c[2] : c \in Range(changes)}) = 1

\* Faulty: the decision of the evaluation is taken to stand.
ensure_graph_action_evaluated(g, action) == action \in PolicyOf(upRequest.view.policies, g)

\* ensure_graph_action, under the graph lock.
ensure_graph_action(g, action) == action \in PolicyOf(upStore.policies, g)

ApplyChange(quads, c) ==
    IF c[1] = "insert" THEN quads \cup {<<c[2], c[3]>>} ELSE quads \ {<<c[2], c[3]>>}

\* apply_sparql_update_with_options after the evaluation: nothing to do, refused,
\* or committed in order under the lock; a write registers its graph.
apply_sparql_update_with_options ==
    LET changes == upRequest.acc.changes
        graphs == {c[2] : c \in Range(changes)}
        g == changes[1][2]
        Refuse(why) == /\ upRequest' = [upRequest EXCEPT !.at = "refused", !.acc.outcome = why]
                       /\ UNCHANGED upStore
    IN  /\ upRequest.at = "evaluating" /\ upRequest.next > Len(upRequest.ops)
        /\ UNCHANGED upSteps
        /\ CASE changes = <<>> -> upRequest' = [upRequest EXCEPT !.at = "done"] /\ UNCHANGED upStore
             [] changes # <<>> /\ \E h \in graphs : ~ ensure_graph_action(h, "write") -> Refuse("denied")
             [] changes # <<>> /\ ~ single_change_graph(changes) -> Refuse("multi")
             [] changes # <<>> /\ g \in upStore.deleted -> Refuse("deleted")
             [] OTHER ->
                  /\ upRequest' = [upRequest EXCEPT !.at = "done"]
                  /\ upStore' = [upStore EXCEPT
                                   !.quads = FoldLeft(ApplyChange, @, changes),
                                   !.policies = [h \in DOMAIN @ \cup {g} |-> PolicyOf(@, h)]]

-----------------------------------------------------------------------------
(* Other callers.                                                                   *)

Disturbed == upSteps < MaxUpdateSteps /\ upSteps' = upSteps + 1 /\ UNCHANGED upRequest

OtherWrite ==
    /\ Disturbed
    /\ \E g \in UpGraph \ upStore.deleted, x \in UpTriple, op \in {"insert", "delete"} :
         upStore' = [upStore EXCEPT
                       !.quads = ApplyChange(@, <<op, g, x>>),
                       !.policies = [h \in DOMAIN @ \cup {g} |-> PolicyOf(@, h)]]

OtherPolicy ==
    /\ Disturbed
    /\ \E g \in DOMAIN upStore.policies, p \in UpPolicies :
         upStore' = [upStore EXCEPT !.policies[g] = p]

OtherDelete ==
    /\ Disturbed
    /\ \E g \in DOMAIN upStore.policies :
         upStore' = [quads    |-> {q \in upStore.quads : q[1] # g},
                     policies |-> [h \in DOMAIN upStore.policies \ {g} |-> upStore.policies[h]],
                     deleted  |-> upStore.deleted \cup {g}]

UpdateInit ==
    /\ \E registered \in SUBSET UpGraph :
         \E policies \in [registered -> UpPolicies], quads \in SUBSET (registered \X UpTriple) :
           upStore = [quads |-> quads, policies |-> policies, deleted |-> {}]
    /\ upRequest = NoRequest
    /\ upSteps = 0

UpdateNext ==
    \/ StartUpdate \/ ListReadable \/ evaluate_update \/ check_update_deadline
    \/ apply_sparql_update_with_options
    \/ OtherWrite \/ OtherPolicy \/ OtherDelete

UpdateSpec == UpdateInit /\ [][UpdateNext]_upVars

-----------------------------------------------------------------------------
(* What a request names, read off its text.                                         *)

RECURSIVE NamedIn(_)

\* Every graph a pattern or a condition in it names, at any depth.
NamedIn(p) ==
    (IF p.k = "graph" /\ p.name # 0 THEN {p.name} ELSE {})
      \cup UNION {NamedIn(p[f]) :
                    f \in DOMAIN p \cap {"inner", "left", "right", "expr", "pattern"}}

Modifies(request) == {i \in DOMAIN request.ops : request.ops[i].k = "modify"}

\* An update whose evaluation came to its end read no graph by name that its caller may not read:
\* every graph a USING clause or a GRAPH pattern names, at any depth and inside conditions,
\* existed in the pinned view and was readable there.
NamedReadsAuthorized ==
    upRequest.at = "done" =>
      \A i \in Modifies(upRequest) :
        \A g \in NamedIn(upRequest.ops[i].pattern)
                   \cup UNION {u.default \cup u.named : u \in upRequest.ops[i].using} :
          g \in DOMAIN upRequest.view.policies /\ "read" \in upRequest.view.policies[g]

\* The dataset a caller sees that may read some graphs of one state of the store and nothing else.
SeenIn(view, using) ==
    LET mine == {g \in DOMAIN view.policies : "read" \in view.policies[g]}
        u == CHOOSE x \in using : TRUE
    IN  [quads   |-> {q \in view.quads : q[1] \in mine},
         default |-> IF using = {} THEN mine ELSE u.default,
         named   |-> IF using = {} THEN mine ELSE u.named \cap mine]

\* What an operation means on one state of the store: the quads, as often as they are found.
Meaning(view, op) == Materialized(op.templates, Solutions(op.pattern, 0, SeenIn(view, op.using)))

\* A request of one DELETE/INSERT, for which no graph was deleted before the graphs were listed.
OneModify ==
    upRequest.at # "idle" /\ Len(upRequest.ops) = 1 /\ Modifies(upRequest) = {1} /\ ~ upRequest.lost

Occurrences(s, c) == Cardinality({i \in DOMAIN s : s[i] = c})

\* The changes of a request of one DELETE/INSERT are what its pattern means on the view pinned at
\* its start, each as often as it is found, whatever was written meanwhile: no quad of an unreadable
\* graph takes part, and none of a later state (unless a graph was deleted before the graphs were listed).
EvaluatedIsPinned ==
    OneModify /\ upRequest.at = "done" =>
      LET changes == upRequest.acc.changes
          meant == Meaning(upRequest.view, upRequest.ops[1])
      IN  \A c \in Range(changes) \cup Range(meant) : Occurrences(changes, c) = Occurrences(meant, c)

\* The resources that what a DELETE/INSERT means on the pinned view may be refused for: the changes and
\* the graphs they name, the materialized quads or their estimate, the estimate against the limits of
\* reading, and the rows the evaluator may read.
Exceeded(view, op) ==
    LET all == Meaning(view, op)
        seen == SeenIn(view, op.using)
        features == pattern_features(op.pattern)
        Over(resource, condition) == IF condition THEN {resource} ELSE {}
    IN  Over("changes", Len(all) > MaxChanges)
          \cup Over("graphs", Cardinality({c[2] : c \in Range(all)}) > MaxGraphs)
          \cup Over("bindings", Len(all) > MaterializedLimit(op.templates)
                                  \/ features.rows > MaterializedLimit(op.templates))
          \cup Over("estimate", features.rows > ReadLimit(features))
          \cup Over("reads", MostReads(op.pattern, 0, seen) > ReadLimit(features))

\* The limits are exact.  No request keeps more changes or graphs than allowed.  One of a single
\* DELETE/INSERT is refused for a resource only if what it means on the pinned view exceeds that
\* resource, and it is never done when it exceeds one, up to rows the evaluator need not read.
LimitsAreExact ==
    upRequest.at # "idle" =>
      LET changes == upRequest.acc.changes
          outcome == upRequest.acc.outcome
          exceeded == Exceeded(upRequest.view, upRequest.ops[1])
          features == pattern_features(upRequest.ops[1].pattern)
      IN  /\ Len(changes) <= MaxChanges
          /\ Cardinality({c[2] : c \in Range(changes)}) <= MaxGraphs
          /\ OneModify /\ outcome \in {"changes", "graphs", "bindings", "estimate", "reads"} =>
               outcome \in exceeded
          /\ OneModify /\ upRequest.at = "done" =>
               /\ exceeded \subseteq {"reads"}
               /\ FewestReads(upRequest.ops[1].pattern, 0, SeenIn(upRequest.view, upRequest.ops[1].using))
                    <= ReadLimit(features)

\* A request changes at most one graph, whose policy grants the write at that
\* moment, also when it was revoked after the evaluation.
CommitStep ==
    upRequest.at = "evaluating" /\ upRequest'.at = "done" =>
         LET touched == {q[1] : q \in (upStore.quads \ upStore'.quads) \cup (upStore'.quads \ upStore.quads)} IN
         /\ Cardinality(touched) <= 1
         /\ \A g \in touched : g \notin upStore.deleted /\ "write" \in PolicyOf(upStore.policies, g)
CommitIsAuthorized == [][CommitStep]_upVars

=============================================================================
