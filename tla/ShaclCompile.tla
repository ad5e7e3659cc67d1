---------------------------- MODULE ShaclCompile ----------------------------
(***************************************************************************)
(* Compiling a shapes graph with its imports, validating against the       *)
(* compiled schema and committing a prepared RO-Crate document under it    *)
(* (src/internal/shacl/compile.rs and the policy calls of src/lib.rs).     *)
(*                                                                         *)
(* Nothing locks the shapes graphs while they are compiled: each graph's   *)
(* triples, its imports and its policy are separate reads, and graphs and  *)
(* policies change between them.  A caller compiles once and then uses the *)
(* schema for any number of validations and commits.  The versions of the  *)
(* graphs that were read travel with the schema and are compared with the  *)
(* stored ones around every use.                                           *)
(***************************************************************************)
EXTENDS Naturals, Sequences, FiniteSets, FiniteSetsExt, TLC

CONSTANTS
    ShapeGraph,      \* the shapes graphs, numbered; 1 is compiled
    ImportChoices,   \* the owl:imports that a write of a shapes graph may leave
    MaxShapeWrites,  \* writes and deletions of graphs, the data graph included
    MaxPolicyWrites, \* changes of a shapes graph's policy
    MaxPrepared      \* documents that the caller prepares

\* What the constants satisfy; a module that instantiates this one assumes it.
ShapeAssumption ==
    /\ ShapeGraph \subseteq Nat /\ 1 \in ShapeGraph
    /\ ImportChoices \subseteq SUBSET ShapeGraph
    /\ {MaxShapeWrites, MaxPolicyWrites, MaxPrepared} \subseteq Nat

VARIABLES
    scGraphs,    \* the stored shapes graphs: existence, version and content
    scReadable,  \* the shapes graphs whose policy lets the caller read
    scData,      \* the version of the data graph
    scWrites,    \* graph writes, policy writes and prepared documents so far
    scCall,      \* the caller: where it is, and what it has read
    scSchema,    \* the compiled schema it holds, a snapshot per shapes graph
    scDocument,  \* the data version that its prepared document replaces, 0 for none
    scReports,   \* the validation cache, key to report
    scPast       \* every state the call in progress has overlapped

shapeVars == <<scGraphs, scReadable, scData, scWrites, scCall, scSchema,
               scDocument, scReports, scPast>>

-----------------------------------------------------------------------------
(* What an uninterrupted compilation yields *)

Imports(graphs, set) == set \cup UNION {graphs[g].imports : g \in set}

\* The graphs a compilation of graph 1 reaches.
Reach(graphs) ==
    LET grow[n \in 0..Cardinality(ShapeGraph)] ==
            IF n = 0 THEN {1} ELSE Imports(graphs, grow[n - 1])
    IN  grow[Cardinality(ShapeGraph)]

\* g imports itself, through others or directly
OnCycle(graphs, g) ==
    LET grow[n \in 0..Cardinality(ShapeGraph)] ==
            IF n = 0 THEN graphs[g].imports ELSE Imports(graphs, grow[n - 1])
    IN  g \in grow[Cardinality(ShapeGraph)]

\* The property shape that the graphs share has exactly one sh:path in the
\* union of the graphs (materialize_shapes).
OnePath(schema) == Cardinality({g \in DOMAIN schema : schema[g].path}) = 1

Closure(graphs) == [g \in Reach(graphs) |-> graphs[g]]

Compiles(graphs, allow) ==
    /\ \A g \in Reach(graphs) : /\ graphs[g].there /\ ~graphs[g].unsupported
                                /\ ~OnCycle(graphs, g)
    /\ allow \/ graphs[1].imports = {}
    /\ OnePath(Closure(graphs))

-----------------------------------------------------------------------------
(* The caller *)

NoSchema == <<>>
Idle == [pc |-> "idle", quiet |-> TRUE, outcome |-> "none"]

\* A call of another kind begins: it has overlapped nothing but this state.
Enter(call) ==
    /\ scCall' = call @@ [quiet |-> TRUE, outcome |-> "none"]
    /\ scPast' = {<<scGraphs, scData, scReadable>>}

Goto(pc) == scCall' = [scCall EXCEPT !.pc = pc]

\* The call fails; the caller keeps the schema it had.
Refuse(outcome) == scCall' = [pc |-> "idle", quiet |-> scCall.quiet,
                              outcome |-> outcome]

stored == <<scGraphs, scReadable, scData, scWrites>>

\* authorize_shape_graphs, first half: the view whose imports it follows
compile_shacl(allow) ==
    /\ scCall.pc = "idle"
    /\ Enter([pc |-> "walk", allow |-> allow, view |-> scGraphs,
              todo |-> {1}, visited |-> {}])
    /\ UNCHANGED <<stored, scSchema, scDocument, scReports>>

\* authorize_shape_graphs: one graph of the walk; its policy is the current one.
authorize_shape_graphs ==
    /\ scCall.pc = "walk" /\ scCall.todo # {}
    /\ LET g == Min(scCall.todo)
           seen == scCall.visited \cup {g}
           next == IF scCall.view[g].there
                   THEN {i \in scCall.view[g].imports : scCall.view[i].there}
                   ELSE {}
       IN  IF g \notin scReadable
           THEN Refuse("denied")
           ELSE scCall' = [scCall EXCEPT !.visited = seen,
                                         !.todo = (@ \cup next) \ seen]
    /\ UNCHANGED <<stored, scSchema, scDocument, scReports, scPast>>

\* The walk is over and materialize_shapes starts its own.
Walked ==
    /\ scCall.pc = "walk" /\ scCall.todo = {}
    /\ scCall' = [pc |-> "visit", allow |-> scCall.allow, stack |-> <<>>,
                  graphs |-> NoSchema, quiet |-> scCall.quiet, outcome |-> "none"]
    /\ UNCHANGED <<stored, scSchema, scDocument, scReports, scPast>>

Top == scCall.stack[Len(scCall.stack)]

\* Faulty: a graph that two others import counts as a cycle.
OnStack_or_done(g) ==
    \/ g \in DOMAIN scCall.graphs
    \/ \E i \in DOMAIN scCall.stack : scCall.stack[i].graph = g

OnStack(g) == \E i \in DOMAIN scCall.stack : scCall.stack[i].graph = g

\* The graph that visit_shape_graph is called for: the root, or the next
\* import of the graph on top of the stack.
Target == IF scCall.stack = <<>> THEN 1 ELSE Min(Top.todo)

\* Faulty: the version is taken when the graph is done, not with its triples.
Snapshot_late(frame) == [frame.snapshot EXCEPT !.version = scGraphs[frame.graph].version]

\* What the schema keeps of a visited graph: the triples and the version of
\* one snapshot.
Snapshot(frame) == frame.snapshot

\* visit_shape_graph up to the snapshot: the cycle test, the graphs already
\* visited, the graph's existence, and reject_unsupported_raw.
visit_shape_graph ==
    /\ scCall.pc = "visit"
    /\ \/ scCall.stack = <<>> /\ scCall.graphs = NoSchema
       \/ scCall.stack # <<>> /\ Top.read /\ Top.todo # {}
    /\ LET g == Target
           rest == [scCall.stack EXCEPT ![Len(scCall.stack)].todo = @ \ {g}]
           frame == [graph |-> g, snapshot |-> scGraphs[g], read |-> FALSE,
                     todo |-> {}]
       IN  CASE ~scGraphs[g].there -> Refuse("missing")
             [] scGraphs[g].there /\ OnStack(g) -> Refuse("cycle")
             [] scGraphs[g].there /\ ~OnStack(g) /\ g \in DOMAIN scCall.graphs ->
                    scCall' = [scCall EXCEPT !.stack = rest]
             [] scGraphs[g].there /\ ~OnStack(g) /\ g \notin DOMAIN scCall.graphs ->
                    IF scGraphs[g].unsupported THEN Refuse("unsupported")
                    ELSE scCall' = [scCall EXCEPT !.stack =
                             Append(IF scCall.stack = <<>> THEN <<>> ELSE rest, frame)]
    /\ UNCHANGED <<stored, scSchema, scDocument, scReports, scPast>>

\* imports: a second read of the graph, from a view of its own.
imports ==
    /\ scCall.pc = "visit" /\ scCall.stack # <<>> /\ ~Top.read
    /\ LET now == scGraphs[Top.graph].imports
       IN  IF now # {} /\ ~scCall.allow
           THEN Refuse("disabled")
           ELSE scCall' = [scCall EXCEPT
                    !.stack[Len(scCall.stack)].read = TRUE,
                    !.stack[Len(scCall.stack)].todo = now]
    /\ UNCHANGED <<stored, scSchema, scDocument, scReports, scPast>>

\* compile: the parsed union with the versions of the graphs it came from; an
\* equal union is taken from the cache of compiled schemas.
compile(graphs) ==
    scCall' = [pc |-> "confirm", graphs |-> graphs, todo |-> DOMAIN graphs,
               quiet |-> scCall.quiet, outcome |-> "none"]

\* visit_shape_graph returns; after the root, materialize_shapes checks the
\* union and the schema is compiled.
Visited ==
    /\ scCall.pc = "visit" /\ scCall.stack # <<>> /\ Top.read /\ Top.todo = {}
    /\ LET graphs == scCall.graphs @@ (Top.graph :> Snapshot(Top))
           below == SubSeq(scCall.stack, 1, Len(scCall.stack) - 1)
       IN  CASE below # <<>> ->
                    scCall' = [scCall EXCEPT !.graphs = graphs, !.stack = below]
             [] below = <<>> /\ ~OnePath(graphs) -> Refuse("path")
             [] below = <<>> /\ OnePath(graphs) -> compile(graphs)
    /\ UNCHANGED <<stored, scSchema, scDocument, scReports, scPast>>

\* Faulty: only the graphs that were authorized before are asked again.
Confirmed_root(todo) == todo \cap {1}

\* authorize_shape_versions asks for every graph of the schema.
Confirmed(todo) == todo

\* authorize_shape_versions: the policies of the graphs that were compiled.
authorize_shape_versions ==
    /\ scCall.pc = "confirm"
    /\ LET todo == Confirmed(scCall.todo)
       IN  IF todo = {}
           THEN /\ scSchema' = scCall.graphs
                /\ Refuse("compiled")
           ELSE /\ IF Min(todo) \in scReadable
                   THEN scCall' = [scCall EXCEPT !.todo = @ \ {Min(todo)}]
                   ELSE Refuse("denied")
                /\ UNCHANGED scSchema
    /\ UNCHANGED <<stored, scDocument, scReports, scPast>>

-----------------------------------------------------------------------------
(* Using a schema *)

Current(g, snapshot) == /\ scGraphs[g].there
                        /\ scGraphs[g].version = snapshot.version

\* Faulty: only the compiled graph is compared, not its imports.
versions_are_current_root(schema) == Current(1, schema[1])

\* versions_are_current: every graph of the schema, in one snapshot
versions_are_current(schema) == \A g \in DOMAIN schema : Current(g, schema[g])

\* validate_shacl: the view is taken first and authorize_view_schema asks it.
validate_shacl ==
    /\ scCall.pc = "idle" /\ scSchema # NoSchema
    /\ IF DOMAIN scSchema \subseteq scReadable
       THEN Enter([pc |-> "before", kind |-> "full", data |-> scData])
       ELSE Enter([pc |-> "idle", outcome |-> "denied"])
    /\ UNCHANGED <<stored, scSchema, scDocument, scReports>>

\* validate_from and validate_delta_from: ensure_schema_current before ...
ensure_schema_current ==
    /\ scCall.pc = "before"
    /\ IF versions_are_current(scSchema) THEN Goto("evaluate")
                                         ELSE Refuse("stale")
    /\ UNCHANGED <<stored, scSchema, scDocument, scReports, scPast>>

\* Faulty: the key names the data graph's version when the report is done.
validation_cache_key_now == <<scSchema, scData>>

\* validation_cache_key: the view's version of the data graph
validation_cache_key == <<scSchema, scCall.data>>

Report == [schema |-> scSchema, data |-> scCall.data]

cache_validation == scReports' = (validation_cache_key :> Report) @@ scReports

\* ... and after the evaluation.  A full validation is cached when it is
\* current, unless it stopped after the first result.
validate_from ==
    /\ scCall.pc = "evaluate" /\ scCall.kind = "full"
    /\ IF versions_are_current(scSchema)
       THEN /\ cache_validation \/ UNCHANGED scReports
            /\ scCall' = [pc |-> "idle", quiet |-> scCall.quiet,
                          outcome |-> "validated", report |-> Report]
       ELSE Refuse("stale") /\ UNCHANGED scReports
    /\ UNCHANGED <<stored, scSchema, scDocument, scPast>>

\* An incremental validation caches the report of its base state, before the
\* shapes are checked again; one that evaluates the candidate caches nothing.
validate_delta_from ==
    /\ scCall.pc = "evaluate" /\ scCall.kind = "delta"
    /\ cache_validation \/ UNCHANGED scReports
    /\ IF versions_are_current(scSchema) THEN Goto("again") ELSE Refuse("stale")
    /\ UNCHANGED <<stored, scSchema, scDocument, scPast>>

\* prepare_rocrate_document: the version that the changes were computed from
prepare_rocrate_document ==
    /\ scCall.pc = "idle" /\ scDocument = 0 /\ scSchema # NoSchema
    /\ scWrites[3] < MaxPrepared
    /\ scDocument' = scData
    /\ scWrites' = [scWrites EXCEPT ![3] = @ + 1]
    /\ UNCHANGED <<scGraphs, scReadable, scData, scCall, scSchema, scReports, scPast>>

ensure_prepared_current == scData = scCall.base

\* ensure_prepared_current, then one graph per step of ensure_policy_current
Fence(next) ==
    /\ CASE ~ensure_prepared_current -> Refuse("stale")
         [] ensure_prepared_current /\ scCall.todo = {} -> next
         [] ensure_prepared_current /\ scCall.todo # {} ->
                LET g == Min(scCall.todo)
                IN  IF Current(g, scSchema[g])
                    THEN scCall' = [scCall EXCEPT !.todo = @ \ {g}]
                    ELSE Refuse("stale")
    /\ UNCHANGED <<stored, scSchema, scDocument, scReports, scPast>>

\* evaluate_rocrate_policy called on its own: the document stays prepared.
\* authorize_prepared_document and authorize_shape_versions come first.
evaluate_rocrate_policy ==
    /\ scCall.pc = "idle" /\ scDocument # 0
    /\ IF DOMAIN scSchema \subseteq scReadable
       THEN Enter([pc |-> "fence", mode |-> "evaluate", base |-> scDocument,
                   todo |-> DOMAIN scSchema])
       ELSE Enter([pc |-> "idle", outcome |-> "denied"])
    /\ UNCHANGED <<stored, scSchema, scDocument, scReports>>

\* commit_prepared_rocrate_document consumes the document; in the structural
\* mode nothing is evaluated and only the fence of the commit remains.
commit_prepared(mode) ==
    /\ scCall.pc = "idle" /\ scDocument # 0
    /\ CASE mode = "structural" ->
                Enter([pc |-> "commit", mode |-> mode, base |-> scDocument])
         [] mode = "enforce" /\ ~(DOMAIN scSchema \subseteq scReadable) ->
                Enter([pc |-> "idle", outcome |-> "denied"])
         [] mode = "enforce" /\ DOMAIN scSchema \subseteq scReadable ->
                Enter([pc |-> "fence", mode |-> mode, base |-> scDocument,
                       todo |-> DOMAIN scSchema])
    /\ scDocument' = 0
    /\ UNCHANGED <<stored, scSchema, scReports>>

\* The fences before validate_delta, whose view is the state they leave.
CheckPolicy ==
    /\ scCall.pc = "fence"
    /\ Fence(scCall' = [pc |-> "before", kind |-> "delta", mode |-> scCall.mode,
                        base |-> scCall.base, data |-> scData,
                        quiet |-> scCall.quiet, outcome |-> "none"])

\* validate_delta returned: the fences are checked again.
RecheckPolicy ==
    /\ scCall.pc = "again"
    /\ scCall' = [pc |-> "refence", mode |-> scCall.mode, base |-> scCall.base,
                  report |-> Report, todo |-> DOMAIN scSchema,
                  quiet |-> scCall.quiet, outcome |-> "none"]
    /\ UNCHANGED <<stored, scSchema, scDocument, scReports, scPast>>

\* The report is returned, or handed to the commit that asked for it.
Evaluated ==
    /\ scCall.pc = "refence"
    /\ Fence(IF scCall.mode = "enforce"
             THEN Goto("commit")
             ELSE scCall' = [pc |-> "idle", quiet |-> scCall.quiet,
                             outcome |-> "validated", report |-> scCall.report])

\* Faulty: the shapes that the policy was evaluated with may have moved.
ensure_shapes_current_data == scData = scCall.base

\* The fence of apply_bulk_prepared: ensure_data_current and
\* ensure_shapes_current, under the guards that the commit holds.
ensure_shapes_current == scData = scCall.base /\ versions_are_current(scSchema)

apply_bulk_prepared ==
    /\ scCall.pc = "commit"
    /\ IF ensure_shapes_current
       THEN /\ scData' = scData + 1
            /\ Refuse("committed")
       ELSE Refuse("stale") /\ UNCHANGED scData
    /\ UNCHANGED <<scGraphs, scReadable, scWrites, scSchema, scDocument, scReports,
                   scPast>>

-----------------------------------------------------------------------------
(* Other writers *)

Disturb == scCall' = [scCall EXCEPT !.quiet = FALSE]

Remember == scPast' = scPast \cup {<<scGraphs', scData', scReadable'>>}

\* A commit of a shapes graph gives it a new version.
WriteShapes(g) ==
    /\ scWrites[1] < MaxShapeWrites /\ scGraphs[g].there
    /\ \E i \in ImportChoices, u, p \in BOOLEAN :
           scGraphs' = [scGraphs EXCEPT ![g] =
               [there |-> TRUE, version |-> @.version + 1, imports |-> i,
                unsupported |-> u, path |-> p]]
    /\ scWrites' = [scWrites EXCEPT ![1] = @ + 1]
    /\ UNCHANGED <<scReadable, scData, scSchema, scDocument, scReports>>
    /\ Disturb /\ Remember

\* delete_graph is permanent.
DeleteShapes(g) ==
    /\ scWrites[1] < MaxShapeWrites /\ scGraphs[g].there
    /\ scGraphs' = [scGraphs EXCEPT ![g] = [@ EXCEPT !.there = FALSE,
                                                     !.imports = {}]]
    /\ scWrites' = [scWrites EXCEPT ![1] = @ + 1]
    /\ UNCHANGED <<scReadable, scData, scSchema, scDocument, scReports>>
    /\ Disturb /\ Remember

WriteData ==
    /\ scWrites[1] < MaxShapeWrites
    /\ scData' = scData + 1
    /\ scWrites' = [scWrites EXCEPT ![1] = @ + 1]
    /\ UNCHANGED <<scGraphs, scReadable, scSchema, scDocument, scReports>>
    /\ Disturb /\ Remember

WritePolicy(g) ==
    /\ scWrites[2] < MaxPolicyWrites
    /\ scReadable' = IF g \in scReadable THEN scReadable \ {g}
                                         ELSE scReadable \cup {g}
    /\ scWrites' = [scWrites EXCEPT ![2] = @ + 1]
    /\ UNCHANGED <<scGraphs, scData, scSchema, scDocument, scReports>>
    /\ Disturb /\ Remember

-----------------------------------------------------------------------------

\* Graphs 1 and 3 import graph 2; graph 3 may be private.
ShapeInit ==
    /\ scGraphs = [g \in ShapeGraph |->
           [there |-> TRUE, version |-> 1, unsupported |-> FALSE, path |-> g = 1,
            imports |-> IF g = 2 THEN {} ELSE {2} \cap ShapeGraph]]
    /\ scReadable \in {ShapeGraph, ShapeGraph \ {Max(ShapeGraph)}}
    /\ scData = 1 /\ scWrites = <<0, 0, 0>>
    /\ scCall = Idle /\ scSchema = NoSchema /\ scDocument = 0
    /\ scReports = <<>> /\ scPast = {<<scGraphs, 1, scReadable>>}

Caller ==
    \/ \E allow \in BOOLEAN : compile_shacl(allow)
    \/ authorize_shape_graphs
    \/ Walked
    \/ visit_shape_graph
    \/ imports
    \/ Visited
    \/ authorize_shape_versions
    \/ validate_shacl
    \/ ensure_schema_current
    \/ validate_from
    \/ validate_delta_from
    \/ prepare_rocrate_document
    \/ \E mode \in {"enforce", "structural"} : commit_prepared(mode)
    \/ evaluate_rocrate_policy
    \/ CheckPolicy
    \/ RecheckPolicy
    \/ Evaluated
    \/ apply_bulk_prepared

Others ==
    \/ \E g \in ShapeGraph : \/ WriteShapes(g)
                             \/ DeleteShapes(g)
                             \/ WritePolicy(g)
    \/ WriteData

ShapeNext == Caller \/ Others
ShapeSpec == ShapeInit /\ [][ShapeNext]_shapeVars

-----------------------------------------------------------------------------
(* Properties *)

\* A report that a validation returns is about one state of the store: at one
\* moment of the call the data graph had the version the report was computed
\* from and the shapes graph with all its imports had exactly the triples of
\* the compiled schema, although they were read one by one and at other times.
ReportIsOneState ==
    scCall.outcome = "validated" =>
        \E s \in scPast : /\ scCall.report.data = s[2]
                          /\ scCall.report.schema = Closure(s[1])

\* A cached report belongs to its key, whatever was written while it was
\* computed: validate_delta takes it for the report of that data version.
CachedReportIsTrue ==
    \A key \in DOMAIN scReports :
        scReports[key] = [schema |-> key[1], data |-> key[2]]

\* A prepared document that commit_prepared_rocrate_document enforces a policy
\* on replaces the data version that it was prepared from and evaluated on, and
\* the policy is the one the shapes graphs state at the commit.
EnforcedCommitStep ==
    (scCall.pc = "commit" /\ scCall.mode = "enforce" /\ scCall'.outcome = "committed")
      => /\ scCall.report = [schema |-> Closure(scGraphs), data |-> scData]
         /\ scCall.base = scData
EnforcedCommitIsCurrent == [][EnforcedCommitStep]_shapeVars

\* Every graph of a schema that compile_shacl returns was readable for the
\* caller at some moment of the call, also one that became an import after
\* authorize_shape_graphs had walked the imports.
SchemaWasReadable ==
    scCall.outcome = "compiled" =>
        \A g \in DOMAIN scSchema : \E s \in scPast : g \in s[3]

\* compile_shacl is exact when nothing changes under it: it yields a schema if
\* and only if the graphs compile and the caller may read each of them.
QuietCompileIsExact ==
    scCall.quiet =>
        /\ (scCall.outcome = "compiled" =>
                /\ scSchema = Closure(scGraphs)
                /\ Reach(scGraphs) \subseteq scReadable)
        /\ (scCall.outcome \in {"missing", "cycle", "unsupported", "path"} =>
                ~Compiles(scGraphs, TRUE))
        /\ (scCall.outcome = "disabled" => ~Compiles(scGraphs, FALSE))
=============================================================================
