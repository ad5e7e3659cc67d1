------------------------------ MODULE MCCrates ------------------------------
(***************************************************************************)
(* RO-Crate documents and SHACL validation on small instances: evaluating  *)
(* and compiling shapes, the cache that keeps schemas and reports, the     *)
(* bindings of graphs to shapes, the crate rules, and crate edits, imports *)
(* and exports.  One behaviour exercises the component that `part' names;  *)
(* the variables of the others stay Off.                                   *)
(***************************************************************************)
EXTENDS Integers, Sequences, TLC

CONSTANT Parts      \* the components to run

VARIABLES
    part,
    svSchema, svBase, svChanges, svStage,
    scGraphs, scReadable, scData, scWrites, scCall, scSchema, scDocument, scReports, scPast,
    bcCache,
    shGraph, shStatus, shReverse, shQueue, shLock, shGuard, shThread, shOpen, shDeferred, shBare,
    shSpent,
    crGraph, crMerges, crWrite, ceVersion, ceEdits, cePrepared, ceExport, ceImported

Off == 0

-----------------------------------------------------------------------------
(* Shapes over the predicates 5 and 6, rdf:type (0) and the class 8; 2 and 3 are    *)
(* literals of one language.                                                        *)

Predicate(n) == [k |-> "predicate", n |-> n]
PathOf(k, paths) == [k |-> k, of |-> paths]
With(c, n) == [c |-> c, n |-> n]
Over(c, shapes) == [c |-> c, shapes |-> shapes]
NodeShape(targets, constraints, props) ==
    [kind |-> "node", targets |-> targets, path |-> [k |-> "none"], constraints |-> constraints,
     props |-> props, off |-> FALSE]
PropertyShape(targets, path, constraints, props) ==
    [kind |-> "property", targets |-> targets, path |-> path, constraints |-> constraints,
     props |-> props, off |-> FALSE]

SchemaChoice == {
    \* a class whose members are closed, with a counted property in a pair of constraints
    <<NodeShape({<<"class", 8>>}, <<[c |-> "closed", ignored |-> {0}]>>, {2}),
      PropertyShape({}, Predicate(5), <<With("max_count", 0), With("disjoint", 6), With("less_than", 6)>>, {})>>,
    \* values of a class, an inverse path, a language tag that occurs once
    <<NodeShape({<<"objects_of", 5>>}, <<With("class", 8)>>, {2, 3}),
      PropertyShape({}, PathOf("inverse", <<Predicate(5)>>), <<With("min_count", 1), With("class", 8)>>, {}),
      PropertyShape({}, Predicate(6),
                    <<With("has_value", 2), With("unique_lang", 0), [c |-> "term", allowed |-> {2}]>>, {})>>,
    \* a chain of property shapes that ends in a deactivated one
    <<NodeShape({<<"node", 1>>, <<"subjects_of", 6>>}, <<>>, {2}),
      PropertyShape({}, Predicate(5), <<>>, {3}),
      PropertyShape({}, Predicate(6), <<With("min_count", 1), With("equals", 5)>>, {4}),
      [PropertyShape({}, Predicate(5), <<With("min_count", 1)>>, {}) EXCEPT !.off = TRUE]>>,
    \* shapes nested in logical constraints
    <<NodeShape({<<"class", 8>>}, <<Over("or", {2, 3})>>, {4}),
      NodeShape({}, <<>>, {5}),
      NodeShape({<<"node", 2>>}, <<With("class", 8)>>, {}),
      PropertyShape({}, Predicate(5), <<Over("not", {2})>>, {}),
      PropertyShape({}, Predicate(6), <<With("min_count", 1)>>, {})>>,
    \* transitive and sequence paths, qualified values
    <<PropertyShape({<<"subjects_of", 6>>}, PathOf("one_or_more", <<Predicate(5)>>),
                    <<With("max_count", 1), Over("and", {3})>>, {}),
      PropertyShape({<<"node", 1>>}, PathOf("sequence", <<Predicate(5), PathOf("inverse", <<Predicate(6)>>)>>),
                    <<Over("xone", {3})>>, {}),
      NodeShape({}, <<>>, {4}),
      PropertyShape({}, Predicate(6), <<With("min_count", 1)>>, {}),
      PropertyShape({<<"class", 8>>}, Predicate(5),
                    <<[c |-> "qualified", shapes |-> {3}, siblings |-> {}, min |-> 1, max |-> 1]>>, {})>>,
    \* shapes that refer to each other
    <<NodeShape({<<"class", 8>>}, <<Over("and", {2})>>, {}), NodeShape({}, <<Over("not", {1})>>, {})>>}

Evaluate == INSTANCE ShaclEvaluation WITH
    Schemas <- SchemaChoice, Language <- (2 :> 7 @@ 3 :> 7), Comparable <- {1, 2, 3},
    Triples <- {<<1, 0, 8>>, <<2, 0, 8>>, <<1, 5, 2>>, <<2, 5, 1>>, <<1, 6, 2>>},
    MaxResults <- 3, MaxChanges <- 2

Compile == INSTANCE ShaclCompile WITH
    ShapeGraph <- {1, 2, 3}, ImportChoices <- {{}, {2}, {3}, {2, 3}}, MaxShapeWrites <- 1,
    MaxPolicyWrites <- 1, MaxPrepared <- 1

\* Payloads of which four, three or one entry fit, with what an entry itself takes.
Cache == INSTANCE BoundedCache WITH
    CacheKey <- 1 .. 5, Payload <- {0, 3, 42}, MaxEntries <- 4, MaxBytes <- 140,
    EvictShare <- 4

\* Graph 2 holds the shapes of graph 1 and may import graph 3, which is not there at first.
Shacl == INSTANCE ShaclBindings WITH
    Thread <- {1, 2}, Graph <- {1, 2, 3}, Pairs <- {<<1, 2>>},
    Contents <- (1 :> {1, 2} @@ 2 :> {1, 2} @@ 3 :> {1}),
    Import <- (0 :> {} @@ 1 :> {} @@ 2 :> {3} @@ 3 :> {}),
    Start <- (1 :> 1 @@ 2 :> 1 @@ 3 :> 9), Absent <- 9, Broken <- {3}, Retries <- 2,
    MaxWrites <- 2, MaxBinds <- 1, MaxBare <- 1, MaxFaults <- 1

-----------------------------------------------------------------------------
(* Crates: 0 is the root, 9 the metadata descriptor, 1 to 3 are entities.           *)

Required ==
    {<<0, "type", 10>>, <<9, "type", 12>>, <<9, "about", 0>>, <<9, "conformsTo", 21>>,
     <<0, "name", 41>>, <<0, "description", 41>>, <<0, "datePublished", 31>>}

Rules == INSTANCE CrateRules WITH
    Entity <- {1, 2, 3}, MaxMerges <- 2, MaxDelta <- 2,
    Scaffold <- Required \cup {<<0, "hasPart", 3>>, <<3, "type", 11>>},
    Loose <- {<<1, "hasPart", 2>>, <<2, "hasPart", 1>>, <<3, "hasPart", 1>>, <<1, "type", 11>>,
              <<1, "name", 41>>, <<0, "datePublished", 32>>}

Described(id, class, more) == [id |-> id, class |-> class, name |-> 42, more |-> more]

EditChoice == [
    add |-> {Described(1, 11, {})},
    patch |-> {[id |-> 1, class |-> 11, name |-> 42, more |-> {}, replaced |-> {"mentions"}]},
    context |-> {Described(3, 12, {})},
    patch_context |-> {[id |-> 3, class |-> 12, name |-> 42, more |-> {<<3, "mentions", 1>>}, replaced |-> {}]},
    property |-> {[id |-> 1, predicate |-> "name", old |-> {}, value |-> 42]},
    append |-> {[parent |-> 2, entities |-> {Described(3, 11, {})}]}]

Crate == INSTANCE CrateEdits WITH
    Entity <- {1, 2, 3}, MaxMerges <- 2, MaxDelta <- 2, Loose <- {},
    Scaffold <- Required \cup {<<0, "hasPart", 1>>, <<0, "hasPart", 2>>, <<1, "type", 11>>, <<1, "name", 41>>,
                               <<2, "type", 10>>, <<2, "hasPart", 3>>, <<3, "type", 12>>},
    Edits <- EditChoice,
    Remote <- {<<0, "hasPart", 1>>, <<2, "hasPart", 3>>, <<1, "name", 41>>},
    Documents <- {Required \cup {<<0, "hasPart", 2>>, <<2, "type", 10>>},
                  Required \cup {<<0, "hasPart", 1>>, <<1, "type", 11>>, <<1, "name", 42>>}},
    PageLimit <- 1, MaxEdits <- 1

ASSUME Constants ==
    /\ Compile!ShapeAssumption /\ Cache!CacheAssumption /\ Shacl!ShaclAssumption
    /\ Rules!RulesAssumption /\ Crate!RulesAssumption

-----------------------------------------------------------------------------
evaluateOnly == <<svSchema, svBase, svChanges, svStage>>
compileOnly == <<scGraphs, scReadable, scData, scWrites, scCall, scSchema, scDocument, scReports, scPast>>
shaclOnly ==
    <<shGraph, shStatus, shReverse, shQueue, shLock, shGuard, shThread, shOpen, shDeferred, shBare,
      shSpent>>
crateOnly == <<crGraph, crMerges, crWrite>>
editOnly == <<ceVersion, ceEdits, cePrepared, ceExport, ceImported>>

Init ==
    /\ part \in Parts
    /\ IF part = "evaluate" THEN Evaluate!EvaluationInit
       ELSE svSchema = Off /\ svBase = Off /\ svChanges = Off /\ svStage = Off
    /\ IF part = "compile" THEN Compile!ShapeInit
       ELSE /\ scGraphs = Off /\ scReadable = Off /\ scData = Off /\ scWrites = Off /\ scCall = Off
            /\ scSchema = Off /\ scDocument = Off /\ scReports = Off /\ scPast = Off
    /\ IF part = "cache" THEN Cache!CacheInit ELSE bcCache = Off
    /\ IF part = "shacl" THEN Shacl!ShaclInit
       ELSE /\ shGraph = Off /\ shStatus = Off /\ shReverse = Off /\ shQueue = Off /\ shLock = Off
            /\ shGuard = Off /\ shThread = Off /\ shOpen = Off /\ shDeferred = Off /\ shBare = Off
            /\ shSpent = Off
    /\ IF part = "rules" THEN Rules!CrateRulesInit ELSE TRUE
    /\ IF part \notin {"rules", "crate"} THEN crGraph = Off /\ crMerges = Off /\ crWrite = Off ELSE TRUE
    /\ IF part = "crate" THEN Crate!CrateEditsInit
       ELSE ceVersion = Off /\ ceEdits = Off /\ cePrepared = Off /\ ceExport = Off /\ ceImported = Off

Next ==
    /\ UNCHANGED part
    /\ IF part = "evaluate" THEN Evaluate!EvaluationNext ELSE UNCHANGED evaluateOnly
    /\ IF part = "compile" THEN Compile!ShapeNext ELSE UNCHANGED compileOnly
    /\ IF part = "cache" THEN Cache!CacheNext ELSE UNCHANGED bcCache
    /\ IF part = "shacl" THEN Shacl!ShaclNext ELSE UNCHANGED shaclOnly
    /\ IF part = "rules" THEN Rules!CrateRulesNext ELSE TRUE
    /\ IF part \notin {"rules", "crate"} THEN UNCHANGED crateOnly ELSE TRUE
    /\ IF part = "crate" THEN Crate!CrateEditsNext ELSE UNCHANGED editOnly

crateVars == <<part, evaluateOnly, compileOnly, bcCache, shaclOnly, crateOnly, editOnly>>

CrateSpec == Init /\ [][Next]_crateVars

-----------------------------------------------------------------------------
(* Properties.                                                                      *)

\* Validating only what a change can affect gives the report of validating everything, looks only near
\* the change, reaches shapes nested in other shapes, and never meets shapes that refer to themselves.
IncrementalIsFull ==
    part = "evaluate" => /\ Evaluate!IncrementalIsFull /\ Evaluate!AutoStaysLocal
                         /\ Evaluate!TargetsReachNested /\ Evaluate!AcceptedIsAcyclic

\* A report belongs to one state of the shapes graphs and the data although they change while they are
\* read; a cached one is what an evaluation would give; a caller who may not read a shapes graph gets
\* no schema; and a write that must conform commits only over the state that was evaluated.
ReportsAreCurrent ==
    /\ [](part = "compile" => /\ Compile!ReportIsOneState /\ Compile!CachedReportIsTrue
                              /\ Compile!QuietCompileIsExact /\ Compile!SchemaWasReadable)
    /\ [][part = "compile" => Compile!EnforcedCommitStep]_compileOnly

\* A verdict the node reports is the verdict on the store's contents, a pending one is queued durably,
\* the reverse keys are exact, and an enforced write commits only when its result conforms.
VerdictsAreCurrent ==
    /\ [](part = "shacl" => Shacl!VerdictIsCurrent /\ Shacl!PendingIsQueued /\ Shacl!ReverseIsExact)
    /\ [][part = "shacl" => Shacl!EnforcedWriteStep]_shaclOnly

\* The cache never holds more entries or bytes than it may, and evicts in the order of insertion.
CacheHolds ==
    /\ [](part = "cache" => Cache!CacheFits /\ Cache!QueueIsExact)
    /\ [][part = "cache" => Cache!EvictionStep]_bcCache

\* Checking only what a write touches misses no crate rule the write breaks and refuses none that it
\* does not break, whatever earlier merges left behind; imports apply the same rules.
RulesAreExact ==
    part = "rules" => /\ Rules!AcceptedAddsNoViolation /\ Rules!RefusalIsTrue
                      /\ Rules!ImportAgreesWithRules

\* Pages of an export list what the root links once and in order although the crate changes, a prepared
\* document commits what an import would change then, and what a document describes is replaced.
DocumentsAreExact ==
    part = "crate" => Crate!PageWalkIsExact /\ Crate!PreparedIsCurrent /\ Crate!DescribedIsReplaced

=============================================================================
