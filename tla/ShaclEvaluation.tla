--------------------------- MODULE ShaclEvaluation --------------------------
(***************************************************************************)
(* Validating a data graph against compiled shapes, and validating a       *)
(* change set without visiting every focus node again (shacl/eval.rs,      *)
(* targets.rs, paths.rs, dependencies.rs and the incremental half of       *)
(* compile.rs).  The incremental report re-evaluates the focus nodes that  *)
(* the predicates of a change can reach and takes every other result from  *)
(* the report of the base state.                                           *)
(*                                                                         *)
(* A validation reads one snapshot, so it is a function of its input:      *)
(* the actions pick the schema, the base graph and the changes, and the    *)
(* properties compare the routes to a report.  A triple is <<subject,      *)
(* predicate, object>>.  A shape is a record; its index is its label.      *)
(* Constraints that only look at the value term (datatype, nodeKind,       *)
(* bounds, lengths, pattern, languageIn, in) are one constraint "term"     *)
(* with the set of terms that satisfy it.  The path budgets                *)
(* max_path_edges and max_path_depth are never exhausted here.             *)
(***************************************************************************)
EXTENDS Integers, Sequences, SequencesExt, FiniteSets, FiniteSetsExt

CONSTANTS
    Schemas,        \* compiled schemas: sequences of shapes
    Triples,        \* triples a graph may hold
    Language,       \* language tag of some terms
    Comparable,     \* terms that partial_cmp orders
    MaxResults,     \* ShaclValidationOptions::max_results
    MaxChanges      \* changes of one candidate

VARIABLES
    svSchema,       \* the schema, or NoSchema
    svBase,         \* the triples of the base state
    svChanges,      \* the changes, in order
    svStage         \* "schema", "base", "changes"

evaluationVars == <<svSchema, svBase, svChanges, svStage>>

RdfType == 0
NoCap == -1

-----------------------------------------------------------------------------
(* Paths (paths.rs).  A path is [k, n] for a predicate and [k, of] for a   *)
(* combination of paths.                                                   *)

\* The cap elements that a cursor yields first.
FirstOf(terms, cap) ==
    IF cap = NoCap THEN terms
    ELSE {t \in terms : Cardinality({u \in terms : u < t}) < cap}
Rest(cap, found) == IF cap = NoCap THEN NoCap ELSE Max({cap - found, 0})
Filled(terms, cap) == cap # NoCap /\ Cardinality(terms) >= cap

predicate_values(view, x, predicate, inverted, cap) ==
    FirstOf(IF inverted
            THEN {t[1] : t \in {u \in view : u[2] = predicate /\ u[3] = x}}
            ELSE {t[3] : t \in {u \in view : u[2] = predicate /\ u[1] = x}}, cap)

RECURSIVE walk(_, _, _, _, _), repeat(_, _, _, _, _, _, _)

\* Sequence: only the last step is capped.
WalkSequence(view, x, paths, inverted, cap) ==
    LET n == Len(paths)
        at(i) == paths[IF inverted THEN n + 1 - i ELSE i]
        step(frontier, i) ==
          FoldLeft(LAMBDA next, node :
                     IF i = n /\ Filled(next, cap) THEN next
                     ELSE next \cup walk(view, node, at(i), inverted,
                            IF i = n THEN Rest(cap, Cardinality(next)) ELSE NoCap),
                   {}, SetToSortSeq(frontier, <))
    IN  FoldLeft(step, {x}, [i \in 1 .. n |-> i])

WalkAlternative(view, x, paths, inverted, cap) ==
    FoldLeft(LAMBDA output, path :
               IF Filled(output, cap) THEN output
               ELSE output \cup walk(view, x, path, inverted,
                                     Rest(cap, Cardinality(output))),
             {}, paths)

walk(view, x, path, inverted, cap) ==
    IF cap = 0 THEN {}
    ELSE CASE path.k = "predicate" ->
                predicate_values(view, x, path.n, inverted, cap)
           [] path.k = "alternative" ->
                WalkAlternative(view, x, path.of, inverted, cap)
           [] path.k = "sequence" ->
                WalkSequence(view, x, path.of, inverted, cap)
           [] path.k = "inverse" -> walk(view, x, path.of[1], ~inverted, cap)
           [] path.k = "zero_or_one" ->
                {x} \cup IF cap = 1 THEN {}
                         ELSE walk(view, x, path.of[1], inverted, Rest(cap, 1))
           [] path.k = "zero_or_more" ->
                repeat(view, path.of[1], inverted, cap, {x}, {x}, {x})
           [] path.k = "one_or_more" ->
                repeat(view, path.of[1], inverted, cap, {x}, {x}, {})

\* repeat: one round of the frontier; a full output ends the walk.
repeat(view, path, inverted, cap, frontier, visited, output) ==
    LET found == UNION {walk(view, n, path, inverted, NoCap) : n \in frontier}
                   \ visited
    IN  IF frontier = {} \/ Filled(output, cap) THEN FirstOf(output, cap)
        ELSE repeat(view, path, inverted, cap, found, visited \cup found,
                    output \cup found)

\* Validator::shape_values: without a path the focus is its own value.
shape_values(view, shape, x, cap) ==
    IF shape.path.k = "none" THEN {x} ELSE walk(view, x, shape.path, FALSE, cap)

-----------------------------------------------------------------------------
(* Targets (targets.rs).  A target is <<kind, term>>.                      *)

TargetNodes(view, target) ==
    CASE target[1] = "node" -> {target[2]}
      [] target[1] = "class" ->
           {t[1] : t \in {u \in view : u[2] = RdfType /\ u[3] = target[2]}}
      [] target[1] = "subjects_of" ->
           {t[1] : t \in {u \in view : u[2] = target[2]}}
      [] target[1] = "objects_of" ->
           {t[3] : t \in {u \in view : u[2] = target[2]}}

OwnTargets(view, shape) == UNION {TargetNodes(view, t) : t \in shape.targets}

\* Repeating a monotone step on a function of the shapes until it is stable.
RECURSIVE Stable(_, _)
Stable(step(_), marks) ==
    LET next == step(marks) IN IF next = marks THEN marks ELSE Stable(step, next)

Parents(schema, p) == {s \in DOMAIN schema : p \in schema[s].props}

\* Faulty: a property shape hands its targets on to its property shapes.
Inherit_any(schema, targets) ==
    [p \in DOMAIN schema |-> targets[p] \cup
       UNION {targets[s] : s \in {q \in Parents(schema, p) : ~schema[q].off}}]
\* One round of resolve_targets: active node shapes pass targets on.
Inherit(schema, targets) ==
    [p \in DOMAIN schema |-> targets[p] \cup
       UNION {targets[s] : s \in {q \in Parents(schema, p) :
                                    ~schema[q].off /\ schema[q].kind = "node"}}]

resolve_targets(view, schema) ==
    Stable(LAMBDA targets : Inherit(schema, targets),
           [s \in DOMAIN schema |-> OwnTargets(view, schema[s])])

-----------------------------------------------------------------------------
(* Constraints (eval.rs).  Evaluation yields a set of results; the trail   *)
(* tells apart equal results that a report lists several times.            *)

Result(s, x, i, value, what, trail) ==
    [shape |-> s, focus |-> x, part |-> i, value |-> value, what |-> what,
     trail |-> trail]
\* CyclicShapeEvaluation.
Cyclic == Result(0, 0, 0, <<>>, "cyclic", <<>>)
Conforms(results) == results \ {Cyclic} = {}

RECURSIVE evaluate_shape(_, _, _, _, _, _, _)

\* The checks of shapes on a value that a constraint of shape s makes.
Nested(view, schema, t, v, active) ==
    evaluate_shape(view, schema, t, v, FALSE, active, <<>>)
Holds(view, schema, t, v, active) == Conforms(Nested(view, schema, t, v, active))

\* The terms that break a constraint on value terms.
TermViolations(view, c, values) ==
    CASE c.c = "class" -> {v \in values : <<v, RdfType, c.n>> \notin view}
      [] c.c = "term" -> {v \in values : v \notin c.allowed}

\* UniqueLang: each language that two values share is reported once.
LanguageViolations(values) ==
    {l \in {Language[v] : v \in values \cap DOMAIN Language} :
       Cardinality({v \in values \cap DOMAIN Language : Language[v] = l}) > 1}

\* Equals, Disjoint, LessThan and LessOrEqual compare with the focus node's
\* values of another predicate.
PairViolations(view, x, c, values) ==
    LET other == predicate_values(view, x, c.n, FALSE, NoCap)
    IN  CASE c.c = "equals" -> (values \ other) \cup (other \ values)
          [] c.c = "disjoint" -> values \cap other
          [] c.c = "less_than" ->
               {v \in values : \E w \in other :
                  ~(v \in Comparable /\ w \in Comparable /\ v < w)}
          [] c.c = "less_or_equal" ->
               {v \in values : \E w \in other :
                  ~(v \in Comparable /\ w \in Comparable /\ v <= w)}

\* Node, Not, And, Or and Xone: how many of the shapes hold.
ShapeViolations(view, schema, c, values, active) ==
    LET count(v) == Cardinality({t \in c.shapes : Holds(view, schema, t, v, active)})
    IN  {v \in values :
           ~ CASE c.c = "and" -> count(v) = Cardinality(c.shapes)
               [] c.c = "or" -> count(v) > 0
               [] c.c = "not" -> count(v) = 0
               [] c.c = "xone" -> count(v) = 1}

\* QualifiedValueShape: the values that hold the shape and, when disjoint,
\* none of the siblings.
Qualified(view, schema, c, values, active) ==
    {v \in values : /\ \A t \in c.shapes : Holds(view, schema, t, v, active)
                    /\ \A t \in c.siblings : ~Holds(view, schema, t, v, active)}

\* evaluate_closed reads the outgoing triples of the focus node.
evaluate_closed(view, schema, s, x, c) ==
    LET allowed == c.ignored \cup
          {schema[p].path.n : p \in {q \in schema[s].props :
                                       schema[q].path.k = "predicate"}}
    IN  {t \in view : t[1] = x /\ t[2] \notin allowed}

has_value(view, shape, x, expected) ==
    IF shape.path.k = "predicate" THEN <<x, shape.path.n, expected>> \in view
    ELSE IF shape.path.k = "inverse" /\ shape.path.of[1].k = "predicate"
    THEN <<expected, shape.path.of[1].n, x>> \in view
    ELSE expected \in shape_values(view, shape, x, NoCap)

ShapesOf(c) == CASE c.c \in {"and", "or", "not", "xone"} -> c.shapes
                 [] c.c = "qualified" -> c.shapes \cup c.siblings
                 [] OTHER -> {}

\* evaluate_constraint and evaluate_value_constraint: the results of the i-th
\* constraint on x, and Cyclic when a nested check met itself.
ConstraintResults(view, schema, s, x, i, c, values, active, trail) ==
    LET each(terms) == {Result(s, x, i, <<v>>, c.c, trail) : v \in terms}
        once(ok, what) == IF ok THEN {} ELSE {Result(s, x, i, <<>>, what, trail)}
        capped(cap) == Cardinality(shape_values(view, schema[s], x, cap))
        cyclic == {Cyclic} \cap UNION {Nested(view, schema, t, v, active) :
                                         t \in ShapesOf(c), v \in values}
    IN  CASE c.c = "min_count" -> once(capped(c.n) >= c.n, c.c)
          [] c.c = "max_count" -> once(capped(c.n + 1) <= c.n, c.c)
          [] c.c = "has_value" -> once(has_value(view, schema[s], x, c.n), c.c)
          [] c.c = "closed" ->
               {Result(s, x, i, <<t[2], t[3]>>, c.c, trail) :
                  t \in evaluate_closed(view, schema, s, x, c)}
          [] c.c = "qualified" ->
               LET n == Cardinality(Qualified(view, schema, c, values, active))
               IN  once(n >= c.min, "qualified_min")
                     \cup once(n <= c.max, "qualified_max") \cup cyclic
          [] c.c \in {"class", "term"} -> each(TermViolations(view, c, values))
          [] c.c = "unique_lang" -> each(LanguageViolations(values))
          [] c.c \in {"equals", "disjoint", "less_than", "less_or_equal"} ->
               each(PairViolations(view, x, c, values))
          [] OTHER -> each(ShapeViolations(view, schema, c, values, active))
                        \cup cyclic
evaluate_constraint(view, schema, s, x, i, active, trail) ==
    ConstraintResults(view, schema, s, x, i, schema[s].constraints[i],
                      shape_values(view, schema[s], x, NoCap), active, trail)

\* Validator::evaluate_shape.  A check that does not emit is entered in the
\* conformance cache as InProgress while it runs: active.
evaluate_shape(view, schema, s, x, emit, active, trail) ==
    LET shape == schema[s]
        open == IF emit THEN active ELSE active \cup {<<s, x>>}
        own == UNION {evaluate_constraint(view, schema, s, x, i, open, trail) :
                        i \in DOMAIN shape.constraints}
        focus == IF shape.kind = "node" THEN {x}
                 ELSE shape_values(view, shape, x, NoCap)
    IN  IF shape.off THEN {}
        ELSE IF ~emit /\ <<s, x>> \in active THEN {Cyclic}
        ELSE own \cup IF emit /\ shape.kind = "node" THEN {}
                      ELSE UNION {evaluate_shape(view, schema, p, v, emit, open,
                                                 Append(trail, <<s, x>>)) :
                                    p \in shape.props, v \in focus}

-----------------------------------------------------------------------------
(* Reports.                                                                *)

\* A validation that ends with an error.
Failed == {Cyclic}
\* ReportBuilder::emit and enforce_result_limit: more than max_results results
\* are an error.
enforce_result_limit(results) ==
    IF Cyclic \in results \/ Cardinality(results) > MaxResults THEN Failed
    ELSE results

Evaluated(view, schema, targets) ==
    UNION {evaluate_shape(view, schema, s, x, TRUE, {}, <<>>) :
             <<s, x>> \in UNION {{s} \X targets[s] : s \in DOMAIN schema}}
validate_view(view, schema, targets) ==
    enforce_result_limit(Evaluated(view, schema, targets))

-----------------------------------------------------------------------------
(* What a shape reads (dependencies.rs).                                   *)

IsPredicate(path) == path.k = "predicate"
is_local_path(path) ==
    IsPredicate(path) \/ (path.k = "inverse" /\ IsPredicate(path.of[1]))

\* collect_path: the predicates that a path follows, with their direction.
RECURSIVE collect_path(_, _)
collect_path(path, inverted) ==
    CASE path.k = "none" -> {}
      [] path.k = "predicate" -> {<<path.n, inverted>>}
      [] path.k = "inverse" -> collect_path(path.of[1], ~inverted)
      [] OTHER -> UNION {collect_path(p, inverted) : p \in Range(path.of)}
RECURSIVE Transitive(_)
Transitive(path) ==
    \/ path.k \in {"zero_or_more", "one_or_more"}
    \/ path.k \notin {"none", "predicate"} /\ \E p \in Range(path.of) : Transitive(p)

PairPredicates(cs) ==
    {c.n : c \in {d \in cs : d.c \in {"equals", "disjoint", "less_than",
                                     "less_or_equal"}}}
analyze(shape) ==
    LET steps == collect_path(shape.path, FALSE)
        cs == Range(shape.constraints)
        nested == UNION {ShapesOf(c) : c \in cs}
    IN  [forward |-> {p[1] : p \in {q \in steps : ~q[2]}}
           \cup {t[2] : t \in {u \in shape.targets : u[1] = "subjects_of"}}
           \cup PairPredicates(cs),
         inverse |-> {p[1] : p \in {q \in steps : q[2]}}
           \cup {t[2] : t \in {u \in shape.targets : u[1] = "objects_of"}},
         nested |-> nested,
         reads_type |-> (\E t \in shape.targets : t[1] = "class")
                          \/ \E c \in cs : c.c = "class",
         reads_all |-> \E c \in cs : c.c = "closed",
         global |-> \/ Transitive(shape.path) \/ nested # {}
                    \/ shape.path.k # "none" /\ ~is_local_path(shape.path)]

\* nested_changed: the shape or a property shape below it changed.
RECURSIVE nested_changed(_, _, _)
nested_changed(schema, s, changed) ==
    changed[s] \/ \E p \in schema[s].props : nested_changed(schema, p, changed)

nested_parent(schema, s, changed) ==
    \/ \E t \in analyze(schema[s]).nested : nested_changed(schema, t, changed)
    \/ /\ schema[s].kind = "property" /\ schema[s].props # {}
       /\ nested_changed(schema, s, changed)

-----------------------------------------------------------------------------
(* The change set.  A change is [graph, triple, present]; graph 0 is the   *)
(* data graph, graph 1 a graph of the schema.                              *)

changed_schema(changes) == \E i \in DOMAIN changes : changes[i].graph = 1

\* changed_quad_ids: the last change of a triple counts.
changed_quad_ids(changes) ==
    {[triple |-> changes[i].triple, present |-> changes[i].present] :
       i \in {j \in DOMAIN changes :
               /\ changes[j].graph = 0
               /\ \A k \in j + 1 .. Len(changes) :
                    changes[k].graph = 0 => changes[k].triple # changes[j].triple}}
effective_changes(base, changes) ==
    {c \in changed_quad_ids(changes) : (c.triple \in base) # c.present}

\* The candidate that DeltaReadView shows.
Candidate(base, changes) ==
    (base \ {c.triple : c \in changed_quad_ids(changes)})
      \cup {c.triple : c \in {d \in changed_quad_ids(changes) : d.present}}

-----------------------------------------------------------------------------
(* Selecting the focus nodes to evaluate again.                            *)

\* The focus nodes of a shape that one change reaches directly.
Touched(deps, change) ==
    LET t == change.triple
    IN  (IF t[2] \in deps.forward \/ deps.reads_all THEN {t[1]} ELSE {})
          \cup (IF t[2] \in deps.inverse THEN {t[3]} ELSE {})
          \cup (IF deps.reads_type /\ t[2] = RdfType THEN {t[1]} ELSE {})
\* Whether it makes the shape re-check all its targets.
Globally(shape, deps, change) ==
    \/ Touched(deps, change) # {} /\ deps.global
    \/ deps.reads_type /\ change.triple[2] = RdfType /\ shape.path.k # "none"

\* The first pass: candidates and global shapes before they spread.
Marked(schema, changes) ==
    [s \in DOMAIN schema |->
       LET deps == analyze(schema[s])
       IN  [focus |-> UNION {Touched(deps, c) : c \in changes},
            global |-> \E c \in changes : Globally(schema[s], deps, c)]]

\* Faulty: a shape that another shape evaluates does not spread.
Spread_down(schema, marks) ==
    [s \in DOMAIN schema |->
       [focus |-> marks[s].focus \cup
          UNION {marks[q].focus : q \in {r \in Parents(schema, s) :
                                            schema[r].kind = "node"}},
        global |-> marks[s].global \/ \E q \in Parents(schema, s) : marks[q].global]]
\* One round of the loop: down to property shapes, up from nested shapes.
Spread(schema, marks) ==
    LET changed == [s \in DOMAIN schema |->
                      marks[s].global \/ marks[s].focus # {}]
    IN  [s \in DOMAIN schema |->
           [focus |-> marks[s].focus \cup
              UNION {marks[q].focus : q \in {r \in Parents(schema, s) :
                                                schema[r].kind = "node"}},
            global |-> \/ marks[s].global
                       \/ \E q \in Parents(schema, s) : marks[q].global
                       \/ nested_parent(schema, s, changed)]]

property_shape_parents(schema, p) ==
    {s \in Parents(schema, p) : schema[s].kind = "node"}

\* focus_is_target: by its own targets or those of a node shape above it.
RECURSIVE focus_is_target(_, _, _, _)
focus_is_target(view, schema, s, x) ==
    \/ \E t \in schema[s].targets : x \in TargetNodes(view, t)
    \/ \E p \in property_shape_parents(schema, s) : focus_is_target(view, schema, p, x)

\* The checks on value nodes of a property shape are run again in full.
ReplacedShapes(schema, marks) ==
    {p \in DOMAIN schema :
       marks[p].global /\ \E s \in Parents(schema, p) : schema[s].kind = "property"}

select_incremental_targets(view, schema, changes) ==
    LET marks == Stable(LAMBDA m : Spread(schema, m), Marked(schema, changes))
        all == resolve_targets(view, schema)
        targets == [s \in DOMAIN schema |->
                      IF marks[s].global THEN all[s]
                      ELSE {x \in marks[s].focus : focus_is_target(view, schema, s, x)}]
    IN  [targets |-> targets,
         pairs |-> UNION {{s} \X (marks[s].focus \cup
                                    IF marks[s].global THEN targets[s] ELSE {}) :
                            s \in DOMAIN schema},
         replaced |-> ReplacedShapes(schema, marks),
         fallbacks |-> Cardinality({s \in DOMAIN schema : marks[s].global})]

\* The results of the base report that stay.
KeptResults(report, selection) ==
    {r \in report : /\ r.shape \notin selection.replaced
                    /\ <<r.shape, r.focus>> \notin selection.pairs}

-----------------------------------------------------------------------------
(* The two executions of a candidate.                                      *)

validate_full(view, schema) == validate_view(view, schema, resolve_targets(view, schema))

validate_candidate_full(base, schema, changes) ==
    validate_full(Candidate(base, changes), schema)

\* The base report: computed now, or cached under another result limit.
BaseReport(base, schema, cached) ==
    IF cached THEN Evaluated(base, schema, resolve_targets(base, schema))
    ELSE validate_full(base, schema)

\* validate_incremental: without a base report there is no delta.
MergedReport(report, selection, fresh) ==
    IF Cyclic \in report THEN Failed
    ELSE IF selection.pairs = {} /\ selection.replaced = {}
    THEN enforce_result_limit(report)
    ELSE IF fresh = Failed THEN Failed
    ELSE enforce_result_limit(fresh \cup KeptResults(report, selection))
Revalidated(view, schema, report, selection) ==
    MergedReport(report, selection, validate_view(view, schema, selection.targets))
validate_incremental(base, schema, changes, cached) ==
    Revalidated(Candidate(base, changes), schema, BaseReport(base, schema, cached),
                select_incremental_targets(Candidate(base, changes), schema,
                                           effective_changes(base, changes)))

-----------------------------------------------------------------------------
(* The estimate that chooses between them (execution_estimate).            *)

FULL_SHAPE_WORK == 20
SCAN_DIV == 20

\* Faulty: shapes that evaluate a changed shape are not marked.
EstimateSpread_down(schema, marks) ==
    [s \in DOMAIN schema |->
       [affected |-> marks[s].affected
                       \/ \E q \in Parents(schema, s) : marks[q].affected,
        global |-> marks[s].global \/ \E q \in Parents(schema, s) : marks[q].global]]
\* One round over the shapes.
EstimateSpread(schema, marks) ==
    LET changed == [s \in DOMAIN schema |-> marks[s].global \/ marks[s].affected]
        parent(s) == nested_parent(schema, s, changed)
    IN  [s \in DOMAIN schema |->
           [affected |-> \/ marks[s].affected \/ parent(s)
                         \/ \E q \in Parents(schema, s) : marks[q].affected,
            global |-> \/ marks[s].global \/ parent(s)
                       \/ \E q \in Parents(schema, s) : marks[q].global]]

EstimateMarks(schema, changes) ==
    Stable(LAMBDA m : EstimateSpread(schema, m),
           [s \in DOMAIN schema |->
              LET deps == analyze(schema[s])
              IN  [affected |-> \E c \in changes : Touched(deps, c) # {},
                   global |-> \E c \in changes : Globally(schema[s], deps, c)]])

\* A counter of the base, moved by the changes that match.  An optional predicate or
\* object is a set of at most one term.
candidate_count(base, changes, predicate, object) ==
    LET matches(t) == predicate \subseteq {t[2]} /\ object \subseteq {t[3]}
    IN  Max({0, Cardinality({t \in base : matches(t)})
                  + Cardinality({c \in changes : c.present /\ matches(c.triple)})
                  - Cardinality({c \in changes : ~c.present /\ matches(c.triple)})})

target_count(base, target, changes, cap) ==
    CASE target[1] = "node" -> 1
      [] target[1] = "class" ->
           Min({cap, candidate_count(base, changes, {RdfType}, {target[2]})})
      [] OTHER -> Min({cap, candidate_count(base, changes, {target[2]}, {})})

FullTargets(base, schema, changes) ==
    LET cap == candidate_count(base, changes, {}, {})
    IN  Stable(LAMBDA n : [p \in DOMAIN schema |->
                 Max({n[p]} \cup {n[s] : s \in property_shape_parents(schema, p)})],
               [s \in DOMAIN schema |->
                 MapThenSumSet(LAMBDA t : target_count(base, t, changes, cap),
                               schema[s].targets)])

shape_work(shape) ==
    1 + Len(shape.constraints) + (IF shape.path.k # "none" THEN 1 ELSE 0)
      + Cardinality(analyze(shape).nested)

FullWork(base, schema, changes) ==
    LET broad == MapThenSumSet(LAMBDA s :
                   Cardinality({t \in schema[s].targets : t[1] # "node"}),
                   DOMAIN schema)
        targets == FullTargets(base, schema, changes)
    IN  2 * FULL_SHAPE_WORK * Len(schema)
          + (Cardinality(base) * broad + SCAN_DIV - 1) \div SCAN_DIV
          + MapThenSumSet(LAMBDA s : targets[s] * shape_work(schema[s]),
                          {s \in DOMAIN schema : ~schema[s].off})

DeltaWork(schema, changes, marks) ==
    LET focus == Cardinality({c.triple[1] : c \in changes})
                   + Cardinality({c.triple[3] : c \in changes})
        reads(s) == LET deps == analyze(schema[s])
                    IN  Cardinality(deps.forward) + Cardinality(deps.inverse)
                          + IF deps.reads_type THEN 1 ELSE 0
    IN  Max({1, 2 * Cardinality(changes)})
          + MapThenSumSet(LAMBDA s : Max({1, focus})
                                       * (1 + Len(schema[s].constraints) + reads(s)),
              {s \in DOMAIN schema : marks[s].affected /\ ~schema[s].off})

\* execution_estimate; without index counters nothing is known.
Estimate(required, full, delta) ==
    [required |-> required, full |-> full,
     delta |-> IF required THEN Max({delta, full + 1}) ELSE delta]
execution_estimate(base, schema, changes, counted) ==
    LET marks == EstimateMarks(schema, changes)
    IN  Estimate(~counted \/ \E s \in DOMAIN schema : marks[s].global,
                 FullWork(base, schema, changes), DeltaWork(schema, changes, marks))

auto_delta(available, estimate) ==
    available /\ ~estimate.required /\ estimate.delta <= estimate.full

\* validate_delta_from: the report of a candidate and how it was found.
Executed(base, schema, changes, cached, delta) ==
    [delta |-> delta,
     report |-> IF changed_schema(changes) THEN Failed
                ELSE IF delta THEN validate_incremental(base, schema, changes, cached)
                ELSE validate_candidate_full(base, schema, changes)]
validate_delta_from(base, schema, changes, mode, cached, counted) ==
    Executed(base, schema, changes, cached,
      \/ mode = "delta"
      \/ /\ mode = "auto"
         /\ auto_delta(cached, execution_estimate(base, schema,
                                 effective_changes(base, changes), counted)))

-----------------------------------------------------------------------------
(* Recursion of shapes (reject_recursive_shapes).                          *)

\* Faulty: the members of sh:and, sh:or and sh:xone lists are not followed.
ShapeEdges_direct(schema) ==
    [s \in DOMAIN schema |-> schema[s].props \cup
       UNION {IF c.c \in {"not", "qualified"} THEN c.shapes ELSE {} :
                c \in Range(schema[s].constraints)}]
ShapeEdges(schema) ==
    [s \in DOMAIN schema |-> schema[s].props \cup
       UNION {IF c.c \in {"and", "or", "not", "xone", "qualified"}
              THEN c.shapes ELSE {} : c \in Range(schema[s].constraints)}]

\* recursive_shape: a depth-first search; [found, complete].
RECURSIVE recursive_shape(_, _, _, _)
recursive_shape(s, edges, active, complete) ==
    IF s \in active THEN [found |-> TRUE, complete |-> complete]
    ELSE IF s \in complete THEN [found |-> FALSE, complete |-> complete]
    ELSE LET below == FoldLeft(LAMBDA acc, t :
                        IF acc.found THEN acc
                        ELSE recursive_shape(t, edges, active \cup {s}, acc.complete),
                        [found |-> FALSE, complete |-> complete],
                        SetToSortSeq(edges[s], <))
         IN  [found |-> below.found, complete |-> below.complete \cup {s}]

reject_recursive_shapes(schema) ==
    LET edges == ShapeEdges(schema)
    IN  FoldLeft(LAMBDA acc, s :
                   IF acc.found THEN acc
                   ELSE recursive_shape(s, edges, {}, acc.complete),
                 [found |-> FALSE, complete |-> {}],
                 [s \in DOMAIN schema |-> s]).found

-----------------------------------------------------------------------------
(* The inputs.                                                             *)

NoSchema == <<>>

EvaluationInit ==
    svSchema = NoSchema /\ svBase = {} /\ svChanges = <<>> /\ svStage = "schema"

\* compile: a recursive schema is refused.
PickSchema ==
    /\ svStage = "schema"
    /\ \E schema \in Schemas : /\ ~reject_recursive_shapes(schema)
                               /\ svSchema' = schema
    /\ svStage' = "base" /\ UNCHANGED <<svBase, svChanges>>

PickBase ==
    /\ svStage = "base"
    /\ \E base \in SUBSET Triples : svBase' = base
    /\ svStage' = "changes" /\ UNCHANGED <<svSchema, svChanges>>

Change == [graph : {0}, triple : Triples, present : BOOLEAN]
            \cup [graph : {1}, triple : {CHOOSE t \in Triples : TRUE}, present : {TRUE}]
PickChange ==
    /\ svStage = "changes" /\ Len(svChanges) < MaxChanges
    /\ \E change \in Change : svChanges' = Append(svChanges, change)
    /\ UNCHANGED <<svSchema, svBase, svStage>>

EvaluationNext == PickSchema \/ PickBase \/ PickChange
EvaluationSpec == EvaluationInit /\ [][EvaluationNext]_evaluationVars

Chosen == svStage = "changes"

-----------------------------------------------------------------------------
(* Properties.                                                             *)

\* Whatever was inserted and deleted, the incremental report is the report of
\* a full validation of the candidate; it fails only where the full one or
\* the base validation fails (compile.rs validate_incremental).
AgreesWithFull(full, cached, fresh) ==
    /\ cached = full
    /\ fresh # full => fresh = Failed /\ validate_full(svBase, svSchema) = Failed
IncrementalIsFull ==
    Chosen /\ ~changed_schema(svChanges) =>
      AgreesWithFull(validate_candidate_full(svBase, svSchema, svChanges),
                     validate_incremental(svBase, svSchema, svChanges, TRUE),
                     validate_incremental(svBase, svSchema, svChanges, FALSE))

\* In automatic mode a delta is only chosen when it re-checks no shape on all
\* of its targets (execution_estimate against select_incremental_targets).
AutoStaysLocal ==
    Chosen /\ ~changed_schema(svChanges) =>
      \A counted \in BOOLEAN :
        validate_delta_from(svBase, svSchema, svChanges, "auto", TRUE, counted).delta
          => select_incremental_targets(Candidate(svBase, svChanges), svSchema,
               effective_changes(svBase, svChanges)).fallbacks = 0

\* A report is empty exactly when every target of every active shape passes
\* the nested check of that shape: reporting reaches property shapes through
\* inherited targets, a nested check walks down to them (targets.rs, eval.rs).
TargetsReachNested ==
    Chosen /\ svChanges = <<>> =>
      LET results == Evaluated(svBase, svSchema, resolve_targets(svBase, svSchema))
      IN  Conforms(results) <=>
            \A s \in DOMAIN svSchema : \A x \in OwnTargets(svBase, svSchema[s]) :
              Holds(svBase, svSchema, s, x, {})

\* A schema that compiles never meets itself during evaluation, however the
\* data are linked; disjoint qualified siblings are not followed by the
\* compiler (reject_recursive_shapes against evaluate_shape).
AcceptedIsAcyclic ==
    Chosen /\ svChanges = <<>> =>
      Cyclic \notin Evaluated(svBase, svSchema, resolve_targets(svBase, svSchema))

\* Counting stops at a cap that still decides sh:minCount and sh:maxCount:
\* the capped walk of a path yields as many values as the path has, up to
\* the cap (paths.rs walk).
CapsDecideCounts ==
    Chosen /\ svChanges = <<>> =>
      \A s \in DOMAIN svSchema : \A x \in {t[1] : t \in svBase} : \A cap \in 1 .. 2 :
        Cardinality(shape_values(svBase, svSchema[s], x, cap))
          = Min({cap, Cardinality(shape_values(svBase, svSchema[s], x, NoCap))})

====
