------------------------------ MODULE MCQuery -------------------------------
(***************************************************************************)
(* The read side and the update evaluator on small instances.  The         *)
(* components do not share state, so one behaviour exercises one of them:  *)
(* `part' names it and the variables of the others stay Off.  Each         *)
(* component is instantiated with constants of its own.                    *)
(***************************************************************************)
EXTENDS Integers, Sequences, TLC

CONSTANT Parts      \* the components to run

VARIABLES
    part,
    rdLive, rdRead, rdDelta, ctQuery, gjPlan, gjPending, gjColumns, gjRows,
    dsView, dsResolver, dsTerms, dsReads, dsAnswer, ivIndex, ivDamage, ivReport,
    plData, plQuery, plMode, upStore, upRequest, upSteps,
    sqIndex, sqReadable, sqCall, ftIndex, ftTriples, ftVisible, ftCall,
    budCount, budShape, budPhase, budCall, budAccepted, budOver, budCharges,
    poolProcess, poolReserved, poolLease, poolRefused

Off == 0

-----------------------------------------------------------------------------
(* Reads: four triples, two of which are in both graphs once; 1 may be an orphan.   *)

ReadUniverse == {<<0, 1, 3, 2>>, <<4, 1, 3, 2>>, <<0, 2, 3, 1>>, <<4, 2, 3, 2>>}
NoOrphans == {[g \in {0, 4} |-> {}]}
OneOrphan == NoOrphans \cup {[g \in {0, 4} |-> IF g = 0 THEN {1} ELSE {}]}

Read == INSTANCE QueryRead WITH
    Universe <- ReadUniverse, IdLimit <- 5, OrphanChoice <- OneOrphan, RangeLimit <- 2
Delta == INSTANCE DeltaRead WITH
    Universe <- ReadUniverse, IdLimit <- 5, OrphanChoice <- OneOrphan, RangeLimit <- 2, MaxDelta <- 2

\* Variables are negative, the id 5 is beyond the limit of no dictionary and names no row.
CountQuery(form, left, right, aggregate, of) ==
    [form |-> form, left |-> left, right |-> right, aggregate |-> aggregate, of |-> of]
SpO == <<-1, 3, -2>>
CountQueries ==
    {CountQuery("bgp", <<t>>, <<>>, "all", 0) :
        t \in {SpO, <<-1, 3, 2>>, <<-1, -3, 2>>, <<1, 3, 2>>, <<-1, 3, -1>>}}
      \cup {CountQuery("bgp", <<t>>, <<>>, "distinct", v) : t \in {SpO, <<-1, -3, -2>>}, v \in {-1, -2}}
      \cup {CountQuery("bgp", <<SpO, t>>, <<>>, "all", 0) :
              t \in {<<-2, 3, -3>>, <<-2, 3, -1>>, <<-1, 3, -3>>, <<-3, 3, -1>>}}
      \cup {CountQuery("bgp", <<SpO, <<-1, 3, -3>>, t>>, <<>>, "all", 0) : t \in {<<-1, 3, 2>>, SpO}}
      \cup {CountQuery(f, <<SpO>>, r, "all", 0) :
              f \in {"optional", "exists", "not_exists", "minus"},
              r \in {<<<<-1, 3, 3>>, <<-1, 3, -3>>>>, <<<<-1, 3, 5>>>>, <<<<-1, 3, 1>>>>}}
      \cup {CountQuery("minus", <<<<2, 3, -2>>>>, <<<<2, 3, 1>>>>, "all", 0),
            CountQuery("bgp", <<SpO, <<-2, 3, -3>>, <<-3, 3, -1>>>>, <<>>, "ask", 0),
            CountQuery("bgp", <<<<-1, -3, 1>>>>, <<>>, "ask", 0)}
      \cup {CountQuery("bgp", left, <<>>, "rows", 0) :
              left \in {<<SpO>>, <<SpO, <<-1, 3, -3>>>>, <<<<2, 3, -1>>, <<2, 3, -2>>>>}}

Count == INSTANCE CountPaths WITH
    Universe <- ReadUniverse, IdLimit <- 6, OrphanChoice <- OneOrphan, RangeLimit <- 2,
    Queries <- CountQueries

InGraph(s, o) == <<-1, s, 3, o>>
JoinPatterns ==
    {<<InGraph(-2, -3), InGraph(-3, -4)>>, <<InGraph(-2, -3), InGraph(-3, -2), InGraph(-2, 2)>>,
     <<InGraph(-2, -2), InGraph(-4, -2)>>, <<InGraph(-1, -2), InGraph(-2, -3)>>,
     <<InGraph(-2, -3), InGraph(1, 2)>>}
JoinPlanChoice ==
    [patterns : JoinPatterns, keys : {{}, {-2}, {-1, -2}}, counts : BOOLEAN]

Join == INSTANCE GraphJoin WITH
    Universe <- ReadUniverse \cup {<<4, 4, 3, 1>>}, IdLimit <- 6, OrphanChoice <- OneOrphan,
    RangeLimit <- 2, JoinPlans <- JoinPlanChoice

\* One triple in two graphs; graph 7 is unknown to the store, graph 4 may be empty.
Scope(kind, graphs, long, named) == [kind |-> kind, graphs |-> graphs, long |-> long, named |-> named]
Scopes ==
    {Scope("list", {}, FALSE, <<>>), Scope("list", {0}, FALSE, <<>>), Scope("list", {0, 4}, TRUE, <<>>),
     Scope("list", {0, 4}, FALSE, <<{4, 7}>>), Scope("predicate", {}, FALSE, <<>>)}

Dataset == INSTANCE QueryDataset WITH
    Universe <- {<<0, 1, 3, 2>>, <<4, 1, 3, 2>>}, IdLimit <- 5, OrphanChoice <- NoOrphans,
    RangeLimit <- 1, DsScopes <- Scopes, DsEmptyGraphs <- {4}, DsReadable <- {0, 4},
    DsUnknown <- {7}, MaxDsReads <- 2

Verify == INSTANCE IndexVerify WITH
    Universe <- {<<0, 1, 3, 2>>, <<4, 1, 3, 2>>}, IdLimit <- 5, OrphanChoice <- NoOrphans,
    RangeLimit <- 1, SampleRows <- 1, MaxDamage <- 2

-----------------------------------------------------------------------------
(* Plans: s and s2, n and n2 are spellings of one value; HASH_OUTER_MIN is two rows. *)

Var(x) == <<"var", x>>
Const(x) == <<"term", x>>
Blank(x) == <<"blank", x>>
Bgp(patterns) == [op |-> "bgp", patterns |-> patterns]
First(i, start, length) == [op |-> "slice", inner |-> i, start |-> start, length |-> length]
Filter(e, i) == [op |-> "filter", expr |-> e, inner |-> i]
Equal(v, t) == [op |-> "equal", var |-> Var(v), term |-> t]
Same(v, t) == [op |-> "same", var |-> Var(v), term |-> t]
Both(a, b) == [op |-> "and", left |-> a, right |-> b]
Nested(k, i) == [op |-> k, inner |-> i]
Named(n, i) == [op |-> "graph", name |-> n, inner |-> i]
Binary(op, a, b) == [op |-> op, left |-> a, right |-> b]
Optional(a, b, e) == [op |-> "leftjoin", left |-> a, right |-> b, exprs |-> e]
XP == <<Var("x"), Const("p"), Var("y")>>
XQ == <<Var("x"), Const("q"), Var("z")>>
YQ == <<Var("y"), Const("q"), Var("z")>>
WP == <<Var("w"), Const("p"), Var("v")>>
XR == <<Var("x"), Var("r"), Var("y")>>

PlannedQueries == {
    Bgp(<<XP, XQ>>), Bgp(<<XP, YQ, WP>>), Bgp(<<XP, XQ, XR>>),
    Bgp(<<<<Blank("b"), Const("p"), Var("y")>>, <<Blank("b"), Const("q"), Var("z")>>, XP>>),
    Filter(Equal("y", "s"), Bgp(<<XP, XQ>>)),
    Filter(Both(Equal("y", "s"), Same("y", "n")), Bgp(<<XP>>)),
    Filter(Both(Same("z", "n"), Equal("x", "a")), Bgp(<<XP, XQ>>)),
    Filter(Equal("z", "n"), Bgp(<<XQ>>)),
    Filter(Equal("y", "b"), Bgp(<<XP, YQ>>)),
    Filter(Nested("exists", Bgp(<<XQ, <<Var("x"), Const("p"), Var("u")>>>>)), Bgp(<<XP>>)),
    Filter(Nested("absent", Bgp(<<YQ, WP>>)), Bgp(<<XP>>)),
    Named(Var("g"), Bgp(<<XP, XQ>>)), Named(Var("g"), Bgp(<<XP, YQ, WP>>)),
    Named(Var("g"), Filter(Equal("g", "g1"), Bgp(<<XP, <<Var("x"), Const("q"), Var("g")>>>>))),
    Named(Const("g1"), Bgp(<<XP, XQ>>)),
    Optional(Bgp(<<XP>>), Filter(Equal("z", "s"), Bgp(<<XQ>>)), {}),
    Optional(Bgp(<<XP>>), Bgp(<<YQ, XQ>>), {Equal("z", "s")}),
    Binary("minus", Bgp(<<XP>>), Bgp(<<XQ, XP>>)),
    First(Bgp(<<XP, XQ>>), 1, 1),
    First(Binary("union", Bgp(<<XP>>), First(Bgp(<<XQ>>), 1, 2)), 1, 2),
    First([op |-> "extend", var |-> Var("e"), term |-> "a",
           inner |-> Binary("union", First(Bgp(<<XP>>), 0, 1), Bgp(<<XP, XQ>>))], 1, 1),
    First(Named(Var("g"), Bgp(<<XP, XQ>>)), 0, 2)}

PlannedQuads ==
    {<<"g1", "a", "p", "s">>, <<"g1", "b", "p", "b">>, <<"g2", "a", "p", "b">>, <<"g2", "b", "p", "s2">>,
     <<"g2", "b", "q", "n2">>, <<"g2", "a", "q", "g1">>, <<"g2", "a", "q", "s">>}

Plan == INSTANCE Planner WITH
    StoredQuads <- PlannedQuads, PlanQueries <- PlannedQueries, Spelling <- [x \in {"s"} |-> "s2"],
    Alike <- {<<"s2", "s">>, <<"n2", "n">>, <<"s", "s2">>, <<"n", "n2">>}, HASH_OUTER_MIN <- 2

-----------------------------------------------------------------------------
(* Updates over two graphs; graph 0 in a template or pattern is a variable, -1 none, *)
(* 3 a graph that is never there.                                                    *)

Pattern == [k |-> "bgp"]
GraphPattern(n) == [k |-> "graph", name |-> n, inner |-> Pattern]
Combined(k, a, b) == [k |-> k, left |-> a, right |-> b]
Filtered(p, e) == [k |-> "filter", inner |-> p, expr |-> e]
Exists(n) == [k |-> "exists", pattern |-> GraphPattern(n)]
Insert(g) == [op |-> "insert", graph |-> g]
Delete(g) == [op |-> "delete", graph |-> g]
Modify(templates, using, p) == [k |-> "modify", templates |-> templates, using |-> using, pattern |-> p]
Values(rows) == [k |-> "values", rows |-> rows]
Using(default, named) == {[default |-> default, named |-> named]}
Target(k, g) == [k |-> k, target |-> g]
Data(changes) == [k |-> "data", changes |-> changes]

UpdateChoice == {
    <<Data(<<<<"insert", 1, 1>>, <<"delete", 1, 2>>>>)>>, <<Data(<<<<"insert", 1, 1>>, <<"insert", 2, 1>>>>)>>,
    <<Data(<<<<"insert", 0, 1>>>>)>>, <<[k |-> "load"]>>,
    <<Modify(<<Insert(1)>>, {}, Pattern)>>, <<Modify(<<Insert(1)>>, {}, GraphPattern(2))>>,
    <<Modify(<<Delete(0)>>, {}, GraphPattern(0))>>, <<Modify(<<Delete(2), Insert(0)>>, {}, GraphPattern(0))>>,
    <<Modify(<<Insert(-1)>>, {}, GraphPattern(1))>>,
    <<Modify(<<Insert(1)>>, {}, Filtered(Pattern, [k |-> "not", inner |-> Exists(2)]))>>,
    <<Modify(<<Insert(1)>>, {}, Filtered(GraphPattern(1), Combined("and", [k |-> "true"], Exists(0))))>>,
    <<Modify(<<Insert(1)>>, {}, Combined("minus", GraphPattern(0), GraphPattern(2)))>>,
    <<Modify(<<Delete(1)>>, {}, Combined("join", GraphPattern(1), GraphPattern(0)))>>,
    <<Modify(<<Insert(1)>>, {}, Combined("union", GraphPattern(1), GraphPattern(2)))>>,
    <<Modify(<<Delete(2), Insert(1)>>, {},
             [k |-> "optional", left |-> Pattern, right |-> GraphPattern(2), expr |-> Exists(1)])>>,
    <<Modify(<<Insert(1)>>, Using({2}, {}), Pattern)>>, <<Modify(<<Insert(1)>>, Using({1, 2}, {}), Pattern)>>,
    <<Modify(<<Delete(1)>>, Using({}, {2}), GraphPattern(0))>>,
    <<Modify(<<Delete(1)>>, {}, [k |-> "extend", inner |-> Pattern, expr |-> Exists(2)])>>,
    <<Modify(<<Insert(1)>>, {}, [k |-> "service", inner |-> Pattern])>>,
    <<Modify(<<Insert(1), Insert(2), Insert(3)>>, {}, Pattern)>>,
    <<Modify(<<Insert(0)>>, {}, Combined("join", Combined("union", Pattern, Pattern), Values(<<1>>)))>>,
    <<Modify(<<Insert(0)>>, {}, Combined("join", GraphPattern(0), Values(<<1, 2>>)))>>,
    <<Modify(<<Insert(0)>>, {}, Combined("join", Combined("union", Pattern, Pattern), Values(<<1, 2>>)))>>,
    <<Modify(<<Delete(1), Insert(2)>>, {}, Combined("minus", Combined("union", Pattern, Pattern), Values(<<2, 2>>)))>>,
    <<Modify(<<Delete(2), Delete(0)>>, {}, Combined("union", Combined("union", Pattern, Pattern),
                                                   Combined("union", GraphPattern(2), Pattern)))>>,
    <<Target("clear", 1)>>, <<Target("clear", 0)>>,
    <<Target("clear", 2), Modify(<<Insert(2)>>, {}, GraphPattern(1))>>,
    <<Target("create", 2), Modify(<<Delete(2)>>, {}, GraphPattern(2))>>}

Update == INSTANCE SparqlUpdate WITH
    UpGraph <- {1, 2}, UpTriple <- {1, 2}, UpPolicies <- {{}, {"write"}, {"read", "write"}},
    DefaultPolicy <- {"write"}, Updates <- UpdateChoice, MaxChanges <- 3, MaxGraphs <- 2,
    MaxBindings <- 2, MaxReads <- 3, MaxHash <- 2, MaxUpdateSteps <- 1

-----------------------------------------------------------------------------
(* Full-text search: documents of six kinds in blocks of two and up to two segments. *)

Document(g, s, live, active, score, long) ==
    [graph |-> g, subject |-> s, live |-> live, active |-> active, score |-> score, long |-> long]
Search(words, prefix, subject, complete, candidates) ==
    [words |-> words, prefix |-> prefix, subject |-> subject, complete |-> complete, candidates |-> candidates]

Find == INSTANCE SearchQuery WITH
    DocKinds <- {Document(1, 1, TRUE, TRUE, 1, 0), Document(1, 2, TRUE, TRUE, 4, 1),
                 Document(2, 1, TRUE, TRUE, 4, 2), Document(2, 2, TRUE, TRUE, 0, 1),
                 Document(1, 2, FALSE, TRUE, 2, 0), Document(2, 1, TRUE, FALSE, 1, 2)},
    DocCount <- 3, BlockSize <- 2, StableKey <- [gs \in {1, 2} \X {1, 2} |-> 5 - 2 * gs[1] + gs[2]],
    SearchQueries <- {Search(1, FALSE, 0, FALSE, <<>>), Search(2, FALSE, 0, FALSE, <<>>),
                      Search(1, TRUE, 0, FALSE, <<>>), Search(1, FALSE, 1, FALSE, <<>>),
                      Search(1, FALSE, 0, TRUE, <<>>), Search(1, FALSE, 0, TRUE, <<{1}>>),
                      Search(1, FALSE, 0, TRUE, <<{1, 2}>>), Search(1, FALSE, 2, TRUE, <<>>)},
    SearchLimits <- {1, 2, 3}, SearchLimit <- 2, PrefixBudget <- 2, SegmentScale <- 2

Clause(s, p, o) == [subject |-> s, pred |-> p, obj |-> o]
OfS(p, o) == Clause(Var("s"), p, o)
Text == OfS("query", <<"lit", 0>>)
Complete(b) == OfS("complete", <<"bool", b>>)
LimitTo(n) == OfS("limit", <<"lit", n>>)
InG(g) == OfS("graph", g)
Around(g, s, bgp) == [graph |-> g, subject |-> s, bgp |-> bgp, constant |-> bgp]

Fts == INSTANCE FtsService WITH
    FtsGraph <- {1, 2}, FtsSubject <- {1, 2}, FtsLimit <- 2, DefaultLimit <- 2, RowLimits <- {1, 3},
    FtsArguments <- {
        <<Text>>, <<Text, LimitTo(1)>>, <<Text, LimitTo(9), InG(Var("g"))>>, <<Text, LimitTo(0)>>,
        <<Text, Complete(TRUE), InG(Var("g"))>>, <<Text, Complete(TRUE), InG(Var("s"))>>,
        <<Text, Complete(TRUE), LimitTo(1)>>, <<LimitTo(1), Complete(TRUE), Text>>,
        <<Text, OfS("score", Var("x")), InG(<<"iri", 1>>)>>, <<Text, Complete(TRUE)>>,
        <<Clause(<<"iri", 1>>, "query", <<"lit", 0>>), Clause(<<"iri", 1>>, "graph", Var("g"))>>,
        <<Clause(<<"iri", 1>>, "query", <<"lit", 0>>)>>, <<Text, Clause(Var("t"), "graph", Var("g"))>>,
        <<InG(Var("g"))>>, <<Text, OfS("other", Var("g"))>>, <<Clause(<<"blank">>, "query", <<"lit", 0>>)>>,
        <<Text, Complete(FALSE), OfS("score", <<"lit", 1>>)>>},
    FtsPatterns <- {Around(Var("g"), Var("s"), TRUE), Around(Var("h"), Var("s"), TRUE),
                    Around(Var("g"), Var("s"), FALSE), Around(Var("g"), Var("t"), TRUE),
                    Around(<<"iri", 1>>, Var("s"), TRUE)},
    FtsIndexes <- {<<>>, <<<<1, 1>>, <<2, 2>>>>, <<<<2, 1>>, <<1, 2>>, <<1, 1>>>>,
                   <<<<1, 2>>, <<1, 1>>, <<2, 2>>, <<2, 1>>>>}

-----------------------------------------------------------------------------
(* Limits: two threads charging one budget, three stores sharing one process.       *)

BudgetLimits ==
    [intermediate |-> 3, edges |-> 2, rows |-> 2, bytes |-> 3, triples |-> 1, cells |-> 4]

Budget == INSTANCE QueryBudget WITH
    Thread <- {1, 2}, Amounts <- {1, 2}, Limits <- BudgetLimits, HashLimit <- 2, MaxCharges <- 4

Pool == INSTANCE MemoryPool WITH
    Store <- {1, 2, 3}, ProcessBytes <- {100, 160}, StoreBytes <- {26, 28, 75}, StoreShare <- 2

ASSUME Constants ==
    /\ Read!ReadAssumption /\ Delta!ReadAssumption /\ Count!ReadAssumption /\ Join!ReadAssumption
    /\ Dataset!ReadAssumption /\ Verify!ReadAssumption /\ Verify!VerifyAssumption
    /\ Update!UpdateAssumption /\ Find!SearchQueryAssumption /\ Fts!FtsAssumption
    /\ Budget!BudgetAssumption /\ Pool!PoolAssumption

-----------------------------------------------------------------------------
Reading == {"read", "delta", "count", "join", "dataset", "verify"}

joinOnly == <<gjPlan, gjPending, gjColumns, gjRows>>
datasetOnly == <<dsView, dsResolver, dsTerms, dsReads, dsAnswer>>
verifyOnly == <<ivIndex, ivDamage, ivReport>>
planOnly == <<plData, plQuery, plMode>>
updateOnly == <<upStore, upRequest, upSteps>>
findOnly == <<sqIndex, sqReadable, sqCall>>
ftsOnly == <<ftIndex, ftTriples, ftVisible, ftCall>>
budgetOnly == <<budCount, budShape, budPhase, budCall, budAccepted, budOver, budCharges>>
poolOnly == <<poolProcess, poolReserved, poolLease, poolRefused>>

Init ==
    /\ part \in Parts
    /\ IF part = "read" THEN Read!ReadInit ELSE TRUE
    /\ IF part \notin Reading THEN rdLive = Off /\ rdRead = Off ELSE TRUE
    /\ IF part = "delta" THEN Delta!DeltaInit ELSE rdDelta = Off
    /\ IF part = "count" THEN Count!CountInit ELSE ctQuery = Off
    /\ IF part = "join" THEN Join!JoinInit
       ELSE gjPlan = Off /\ gjPending = Off /\ gjColumns = Off /\ gjRows = Off
    /\ IF part = "dataset" THEN Dataset!DatasetInit
       ELSE dsView = Off /\ dsResolver = Off /\ dsTerms = Off /\ dsReads = Off /\ dsAnswer = Off
    /\ IF part = "verify" THEN Verify!VerifyInit ELSE ivIndex = Off /\ ivDamage = Off /\ ivReport = Off
    /\ IF part = "plan" THEN Plan!PlanInit ELSE plData = Off /\ plQuery = Off /\ plMode = Off
    /\ IF part = "update" THEN Update!UpdateInit ELSE upStore = Off /\ upRequest = Off /\ upSteps = Off
    /\ IF part = "find" THEN Find!SqInit ELSE sqIndex = Off /\ sqReadable = Off /\ sqCall = Off
    /\ IF part = "fts" THEN Fts!FtsInit
       ELSE ftIndex = Off /\ ftTriples = Off /\ ftVisible = Off /\ ftCall = Off
    /\ IF part = "budget" THEN Budget!BudgetInit
       ELSE /\ budCount = Off /\ budShape = Off /\ budPhase = Off /\ budCall = Off
            /\ budAccepted = Off /\ budOver = Off /\ budCharges = Off
    /\ IF part = "pool" THEN Pool!PoolInit
       ELSE poolProcess = Off /\ poolReserved = Off /\ poolLease = Off /\ poolRefused = Off

Next ==
    /\ UNCHANGED part
    /\ IF part = "read" THEN Read!ReadNext ELSE TRUE
    /\ IF part \notin Reading THEN UNCHANGED <<rdLive, rdRead>> ELSE TRUE
    /\ IF part = "delta" THEN Delta!DeltaNext ELSE UNCHANGED rdDelta
    /\ IF part = "count" THEN Count!CountNext ELSE UNCHANGED ctQuery
    /\ IF part = "join" THEN Join!JoinNext ELSE UNCHANGED joinOnly
    /\ IF part = "dataset" THEN Dataset!DatasetNext ELSE UNCHANGED datasetOnly
    /\ IF part = "verify" THEN Verify!VerifyNext ELSE UNCHANGED verifyOnly
    /\ IF part = "plan" THEN Plan!PickQuery ELSE UNCHANGED planOnly
    /\ IF part = "update" THEN Update!UpdateNext ELSE UNCHANGED updateOnly
    /\ IF part = "find" THEN Find!SqNext ELSE UNCHANGED findOnly
    /\ IF part = "fts" THEN Fts!FtsNext ELSE UNCHANGED ftsOnly
    /\ IF part = "budget" THEN Budget!BudgetNext ELSE UNCHANGED budgetOnly
    /\ IF part = "pool" THEN Pool!PoolNext ELSE UNCHANGED poolOnly

queryVars == <<part, rdLive, rdRead, rdDelta, ctQuery, joinOnly, datasetOnly, verifyOnly, planOnly,
               updateOnly, findOnly, ftsOnly, budgetOnly, poolOnly>>

QuerySpec == Init /\ [][Next]_queryVars

-----------------------------------------------------------------------------
(* Properties.                                                                      *)

\* A read answers what the live quads the caller may see say: a scan over several graphs, a union that
\* returns each triple once, dense ids merged from several ranges, ranges split for parallel workers;
\* and a read over a delta that is not committed answers like one after the commit.
ReadsAreExact ==
    /\ part = "read" => /\ Read!ScanIsExact /\ Read!DenseIsExact
                        /\ Read!PartitionsCover /\ Read!GroupingIsAdjacent
    /\ part = "delta" => Delta!DeltaIsCommit /\ Delta!ImpactCovers

\* The shortcuts that count, test or list without evaluating the query give what evaluating it gives,
\* with one worker or several, orphans and duplicates over graphs included; a join that drops columns
\* as it goes returns the rows, or the number of rows, of the full join.
ShortcutsAreExact ==
    /\ part = "count" => /\ Count!CountIsExact /\ Count!ParallelIsSequential
                         /\ Count!StarRowsAreExact /\ Count!AskIsExact
    /\ part = "join" => Join!JoinIsExact

\* The evaluator's view: terms with several encodings are one term, patterns return each visible quad
\* once, and the graphs listed are the graphs that contain something or were named.
DatasetIsExact ==
    part = "dataset" => Dataset!IdentityIsTerm /\ Dataset!QuadsAreExact /\ Dataset!GraphsAgree

\* Diagnosing the index: a full verification accepts exactly what a rebuild would produce whatever two
\* damages hide each other; opening trusts nothing less, and nothing without a query id generation,
\* which the verification does not look at; a fast status that says ready differs from what queries are
\* admitted to by a pending debt and nothing else.
DiagnosisIsExact ==
    part = "verify" => Verify!VerdictIsExact /\ Verify!OpenedIsExact /\ Verify!StatusesAgree

\* The planned query returns the rows of the query as written, in every join mode.
PlanIsEquivalent == part = "plan" => Plan!PlanIsEquivalent

\* An update reads only graphs its caller may read, all of them as they were when it was evaluated, and
\* materializes each quad as often as the pattern gives it. It is refused for a limit exactly when its
\* estimate, the rows it reads, the quads it makes, its changes or their graphs exceed it, and changes
\* only graphs its caller may change when it commits.
UpdateIsAuthorized ==
    /\ [](part = "update" => /\ Update!NamedReadsAuthorized /\ Update!EvaluatedIsPinned
                             /\ Update!LimitsAreExact)
    /\ [][part = "update" => Update!CommitStep]_updateOnly

\* Search returns the best matches there are, page by page, says so when it left any out, and drops the
\* hits of graphs that became unreadable and no others; joined with a pattern nothing is lost or cut off.
SearchIsExact ==
    /\ part = "find" => Find!RankedPageIsExact /\ Find!CompleteIsExact /\ Find!HitsAreReadable
    /\ part = "fts" => /\ Fts!NarrowedJoinIsExact /\ Fts!NothingIsCutOff
                       /\ Fts!ArgumentsAreUnordered /\ Fts!RowsAreReadable

\* Threads that charge one query budget never get past a limit and a refused query stays refused;
\* the stores of one process never reserve more than it has, and a default configuration fits.
LimitsHold ==
    /\ [](part = "budget" => Budget!AcceptedFits)
    /\ [][part = "budget" => Budget!RefusalStep]_budgetOnly
    /\ [](part = "pool" => Pool!ReservationIsExact /\ Pool!HeadroomHolds /\ Pool!DefaultFits)

=============================================================================
