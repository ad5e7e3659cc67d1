----------------------------- MODULE FtsService -----------------------------
(***************************************************************************)
(* The full-text SERVICE of internal/sparql.rs: rewrite_fts_service reads  *)
(* the arguments of the clause, searches the index and puts a VALUES block *)
(* in its place; candidate_join first computes the subjects of the RDF     *)
(* pattern the clause is joined with and lets the index look only at them. *)
(*                                                                         *)
(* The index is a sequence of hits <<graph, subject>>, best first; what    *)
(* its collectors return is the subject of module SearchQuery.  The policy *)
(* of a graph may change between the pinned view and the last check.       *)
(***************************************************************************)
EXTENDS Integers, Sequences, FiniteSets, SequencesExt

CONSTANTS
    FtsGraph, FtsSubject,
    FtsArguments,    \* the statements of a clause: sequences of [subject, pred, obj]
    FtsPatterns,     \* the pattern joined with it: [graph, subject, bgp, constant]
    FtsIndexes,      \* the indexes: sequences of hits without repetition
    FtsLimit,        \* MAX_SEARCH_LIMIT
    DefaultLimit,    \* hits when no limit is given
    RowLimits        \* the values of max_intermediate_rows

\* What the constants satisfy; a module that instantiates this one assumes it.
FtsAssumption == {FtsLimit, DefaultLimit} \cup RowLimits \subseteq Nat

VARIABLES
    ftIndex,     \* the hits for the clause's text
    ftTriples,   \* the pairs <<graph, subject>> the RDF pattern matches
    ftVisible,   \* the graphs the caller may read now
    ftCall

ftVars == <<ftIndex, ftTriples, ftVisible, ftCall>>

-----------------------------------------------------------------------------
(* The arguments.  A term is <<"var", name>>, <<"iri", value>>, <<"blank">> or a     *)
(* literal: <<"lit", integer>> or <<"bool", value>>.  An absent argument is <<>>.    *)

IsLiteral(term) == term[1] \in {"lit", "bool"}

EmptySpec ==
    [subject |-> <<>>, query |-> <<>>, limit |-> DefaultLimit, clamped |-> FALSE, score |-> <<>>,
     graph |-> <<>>, complete |-> FALSE, limitSet |-> FALSE, error |-> FALSE]

Unsupported(spec) == [spec EXCEPT !.error = TRUE]

\* set_fts_subject: all statements share one subject, a variable or a name.
set_fts_subject(spec, subject) ==
    CASE subject[1] \notin {"var", "iri"} -> Unsupported(spec)
      [] spec.subject = <<>> -> [spec EXCEPT !.subject = subject]
      [] spec.subject = subject -> spec
      [] OTHER -> Unsupported(spec)

\* Faulty: a complete match is refused only when the limit came before it.
set_argument_early(spec, pred, obj) ==
    CASE pred = "query" -> IF IsLiteral(obj) THEN [spec EXCEPT !.query = obj] ELSE Unsupported(spec)
      [] pred = "limit" ->
           IF obj[1] # "lit" THEN Unsupported(spec)
           ELSE [spec EXCEPT !.limit = IF obj[2] < FtsLimit THEN obj[2] ELSE FtsLimit,
                             !.clamped = obj[2] > FtsLimit]
      [] pred = "complete" ->
           IF obj[1] # "bool" \/ spec.limit # DefaultLimit THEN Unsupported(spec)
           ELSE [spec EXCEPT !.complete = obj[2]]
      [] pred = "score" -> IF obj[1] = "var" THEN [spec EXCEPT !.score = obj] ELSE Unsupported(spec)
      [] pred = "graph" -> IF obj[1] \in {"var", "iri"} THEN [spec EXCEPT !.graph = obj] ELSE Unsupported(spec)
      [] OTHER -> Unsupported(spec)

\* One statement's predicate and object; the limit is clamped, and that is remembered.
set_argument(spec, pred, obj) ==
    CASE pred = "query" -> IF IsLiteral(obj) THEN [spec EXCEPT !.query = obj] ELSE Unsupported(spec)
      [] pred = "limit" ->
           IF obj[1] # "lit" THEN Unsupported(spec)
           ELSE [spec EXCEPT !.limit = IF obj[2] < FtsLimit THEN obj[2] ELSE FtsLimit,
                             !.clamped = obj[2] > FtsLimit, !.limitSet = TRUE]
      [] pred = "complete" -> IF obj[1] = "bool" THEN [spec EXCEPT !.complete = obj[2]] ELSE Unsupported(spec)
      [] pred = "score" -> IF obj[1] = "var" THEN [spec EXCEPT !.score = obj] ELSE Unsupported(spec)
      [] pred = "graph" -> IF obj[1] \in {"var", "iri"} THEN [spec EXCEPT !.graph = obj] ELSE Unsupported(spec)
      [] OTHER -> Unsupported(spec)

ReadStatement(spec, st) ==
    LET named == set_fts_subject(spec, st.subject) IN
    IF spec.error THEN spec ELSE IF named.error THEN named ELSE set_argument(named, st.pred, st.obj)

\* parse_fts_spec.
parse_fts_spec(statements) ==
    LET spec == FoldLeft(ReadStatement, EmptySpec, statements) IN
    IF \/ spec.subject = <<>> \/ spec.query = <<>>
       \/ spec.complete /\ (spec.limitSet \/ spec.score # <<>>)
    THEN Unsupported(spec)
    ELSE spec

\* requested_fts_variables.
requested_fts_variables(spec) ==
    {t[2] : t \in {u \in {spec.subject, spec.graph, spec.score} : u # <<>> /\ u[1] = "var"}}

\* fts_binding_row: a variable is bound to the subject, the graph or the score, in
\* that order of preference.
fts_binding_row(spec, hit) ==
    [v \in requested_fts_variables(spec) |->
       CASE spec.subject = <<"var", v>> -> <<"subject", hit[2]>>
         [] spec.subject # <<"var", v>> /\ spec.graph = <<"var", v>> -> <<"graph", hit[1]>>
         [] OTHER -> <<"score", 0>>]

-----------------------------------------------------------------------------
(* The search.                                                                      *)

Prefix(s, n) == SubSeq(s, 1, IF n < Len(s) THEN n ELSE Len(s))

\* allows, of the scope and of the one graph selected: what the index asks per document.
FtsEligible(spec, index, visible) ==
    SelectSeq(index, LAMBDA h : /\ h[1] \in visible
                                /\ spec.graph # <<>> /\ spec.graph[1] = "iri" => h[1] = spec.graph[2]
                                /\ spec.subject[1] = "iri" => h[2] = spec.subject[2])

\* The collectors' contract: the best hits, or for a complete match one more than the
\* limit; a frequent word is looked up only for the candidates when they are few.
Collected(spec, index, visible, limit, candidates) ==
    LET all == FtsEligible(spec, index, visible)
        few == /\ spec.complete /\ candidates # <<>> /\ Len(index) > FtsLimit
               /\ Cardinality(candidates[1]) <= (IF limit < FtsLimit THEN limit ELSE FtsLimit)
        seen == IF few THEN SelectSeq(all, LAMBDA h : h[2] \in candidates[1]) ELSE all
    IN  Prefix(seen, IF spec.complete THEN limit + 1 ELSE limit)

NoRows == [error |-> FALSE, hits |-> <<>>]
Refused == [error |-> TRUE, hits |-> <<>>]

\* Faulty: a full page under a clamped limit is taken as the whole answer.
search_visible_hits_clamped(spec, index, visible, limit, candidates) ==
    LET raw == Collected(spec, index, visible, limit, candidates) IN
    IF spec.complete /\ Len(raw) > limit THEN Refused
    ELSE [error |-> FALSE, hits |-> raw]

\* search_visible_hits before its last check: more than a complete match accepts, or a
\* full page under a clamped limit, is refused.
search_visible_hits(spec, index, visible, limit, candidates) ==
    LET raw == Collected(spec, index, visible, limit, candidates) IN
    IF \/ spec.complete /\ Len(raw) > limit
       \/ spec.clamped /\ Len(raw) = limit
    THEN Refused
    ELSE [error |-> FALSE, hits |-> raw]

\* rewrite_fts_service.
rewrite_fts_service(statements, index, visible, rows, candidates) ==
    LET spec == parse_fts_spec(statements)
        limit == IF spec.complete THEN rows ELSE spec.limit
    IN  CASE spec.error -> Refused
          [] limit = 0 -> IF spec.complete THEN Refused ELSE NoRows
          [] requested_fts_variables(spec) = {} -> Refused
          [] limit > rows -> Refused
          [] spec.graph # <<>> /\ spec.graph[1] = "iri" /\ spec.graph[2] \notin visible -> NoRows
          [] OTHER -> search_visible_hits(spec, index, visible, limit, candidates)

\* Faulty: the subjects beyond the budget are left out instead of declining.
candidate_subjects_partial(triples, visible) ==
    LET all == {t[2] : t \in {u \in triples : u[1] \in visible}} IN
    {x \in all : \A y \in all : x <= y}

\* candidate_subjects: the subjects of the RDF pattern in the graphs the caller sees.
candidate_subjects(triples, visible) == {t[2] : t \in {u \in triples : u[1] \in visible}}

\* candidate_join's conditions: a complete match that binds subject and graph, joined
\* with a pattern over that graph variable which has a constant object.
Narrows(spec, pattern, rows) ==
    /\ rows # 0 /\ ~ spec.error /\ spec.complete
    /\ spec.subject[1] = "var" /\ spec.graph # <<>> /\ spec.graph[1] = "var"
    /\ spec.subject # spec.graph /\ pattern.graph = spec.graph
    /\ pattern.bgp /\ pattern.constant

\* candidate_join: the candidates to look at, or none; the computation declines when the
\* pattern does not bind the subject, and may when its own budget is spent.
candidate_join(spec, pattern, rows, triples, visible, declines) ==
    IF Narrows(spec, pattern, rows) /\ pattern.subject = spec.subject /\ ~ declines
    THEN <<candidate_subjects(triples, visible)>>
    ELSE <<>>

-----------------------------------------------------------------------------
NoService == [at |-> "idle"]

\* rewrite_graph_pattern reaches the clause: the index is searched under the view.
rewrite_graph_pattern ==
    /\ ftCall.at = "idle"
    /\ \E statements \in FtsArguments, pattern \in FtsPatterns, rows \in RowLimits, declines \in BOOLEAN :
         LET spec == parse_fts_spec(statements)
             candidates == candidate_join(spec, pattern, rows, ftTriples, ftVisible, declines)
         IN  ftCall' = [at |-> "searched", statements |-> statements, spec |-> spec,
                        pattern |-> pattern, rows |-> rows, pinned |-> ftVisible,
                        out |-> rewrite_fts_service(statements, ftIndex, ftVisible, rows, candidates)]
    /\ UNCHANGED <<ftIndex, ftTriples, ftVisible>>

\* Faulty: the policies are not read again.
RecheckRows_never ==
    /\ ftCall.at = "searched"
    /\ ftCall' = [ftCall EXCEPT !.at = "done"]
    /\ UNCHANGED <<ftIndex, ftTriples, ftVisible>>

\* The last loop of search_visible_hits: the current policies are read again.
RecheckRows ==
    /\ ftCall.at = "searched"
    /\ ftCall' = [ftCall EXCEPT !.at = "done",
                    !.out.hits = SelectSeq(@, LAMBDA h : h[1] \in ftVisible)]
    /\ UNCHANGED <<ftIndex, ftTriples, ftVisible>>

ChangeVisible ==
    /\ ftCall.at = "searched" /\ ftVisible = ftCall.pinned
    /\ \E g \in FtsGraph : ftVisible' = (ftVisible \ {g}) \cup ({g} \ ftVisible)
    /\ UNCHANGED <<ftIndex, ftTriples, ftCall>>

FtsInit ==
    /\ ftIndex \in FtsIndexes
    /\ ftTriples \in SUBSET (FtsGraph \X FtsSubject)
    /\ ftVisible \in SUBSET FtsGraph
    /\ ftCall = NoService

FtsNext == rewrite_graph_pattern \/ RecheckRows \/ ChangeVisible

FtsSpec == FtsInit /\ [][FtsNext]_ftVars

-----------------------------------------------------------------------------
\* The answer without narrowing, and the rows of the join with the RDF pattern.
Plain == rewrite_fts_service(ftCall.statements, ftIndex, ftCall.pinned, ftCall.rows, <<>>)

\* A row binds a variable to a value; the RDF pattern binds its subject variable and,
\* when its graph is a variable, that one too.
JoinedRows(hits) ==
    {<<h, t>> \in Range(hits) \X {u \in ftTriples : u[1] \in ftCall.pinned} :
       LET row == fts_binding_row(ftCall.spec, h)
           Fits(term, value) ==
               term[1] = "var" /\ term[2] \in DOMAIN row => row[term[2]] = value
       IN  /\ Fits(ftCall.pattern.subject, <<"subject", t[2]>>)
           /\ IF ftCall.pattern.graph[1] = "var"
              THEN Fits(ftCall.pattern.graph, <<"graph", t[1]>>)
              ELSE t[1] = ftCall.pattern.graph[2]}

\* Narrowing the index to the subjects of the joined pattern changes no row of the join: it may
\* only save a request from a refusal, never cause one or lose a match.
NarrowedJoinIsExact ==
    ftCall.at = "searched" /\ ~ Plain.error =>
      ~ ftCall.out.error /\ JoinedRows(ftCall.out.hits) = JoinedRows(Plain.hits)

\* A truncated answer is never passed off as a whole one: a complete match, or one whose limit was
\* clamped, that answers has every match of the graphs the caller sees.
NothingIsCutOff ==
    ftCall.at = "searched" /\ ~ ftCall.out.error /\ ~ Narrows(ftCall.spec, ftCall.pattern, ftCall.rows)
      /\ (ftCall.spec.complete \/ ftCall.spec.clamped)
      /\ (ftCall.spec.graph # <<>> /\ ftCall.spec.graph[1] = "iri" => ftCall.spec.graph[2] \in ftCall.pinned) =>
      (ftCall.spec.limit = 0 \/ ftCall.out.hits = FtsEligible(ftCall.spec, ftIndex, ftCall.pinned))

\* A basic graph pattern has no order: the arguments mean the same in reverse, unless one is given
\* twice.
ArgumentsAreUnordered ==
    ftCall.at = "searched" /\ Cardinality({st.pred : st \in Range(ftCall.statements)}) = Len(ftCall.statements) =>
      LET back == parse_fts_spec(Reverse(ftCall.statements)) IN
      back.error = ftCall.spec.error /\ (~ back.error => back = ftCall.spec)

\* The rows given out are of graphs readable in the pinned view and at the end.
RowsAreReadable ==
    ftCall.at = "done" => \A h \in Range(ftCall.out.hits) : h[1] \in ftCall.pinned \cap ftVisible

=============================================================================
