----------------------------- MODULE QueryDataset ---------------------------
(***************************************************************************)
(* The dataset the SPARQL evaluator reads (StoreDataset of sparql.rs) over *)
(* one pinned view.  The evaluator only compares the terms it is given:    *)
(* one term comes as a source id, as a query id, as both, or as a term the *)
(* store does not know, from scans along different paths, from the query   *)
(* text and from the list of graphs.  A join keeps its rows only if equal  *)
(* terms always come out equal.                                            *)
(*                                                                         *)
(* An internal term is <<kind, term>> with kind "source", "mapped",        *)
(* "dense" or "missing"; <<"union", None>> is the default graph's marker.  *)
(* A pattern's free column is <<>>.  Dense scopes are never exhausted.     *)
(***************************************************************************)
EXTENDS QueryRead

CONSTANTS
    DsScopes,        \* the requests' scopes: [kind, graphs, limit, named]
    DsEmptyGraphs,   \* graphs that may exist without a quad
    DsReadable,      \* graphs whose policy lets the caller read
    DsUnknown,       \* terms the store does not have
    MaxDsReads       \* bound: calls of the evaluator on one dataset

VARIABLES
    dsView,      \* what the dataset was opened over, or <<>>
    dsResolver,  \* dense_resolver is set
    dsTerms,     \* the internal terms handed out
    dsReads,
    dsAnswer     \* the last call and its answer

dsVars == <<readVars, dsView, dsResolver, dsTerms, dsReads, dsAnswer>>

NoAnswer == [call |-> "none"]

-----------------------------------------------------------------------------
(* The scope of a request.                                                          *)

\* The graphs with a metadata record.
Existing == {q[1] : q \in rdLive} \cup dsView.empty

\* contains_graph_id and graph_is_visible.
Sees(g) == g \in Existing /\ g \in dsView.read.visibility.graphs

\* authorize_graph_scope: every graph of an explicit list has a policy that lets the
\* caller read it.
authorize_graph_scope(scope, existing) ==
    scope.kind = "list" => scope.graphs \subseteq (existing \cap DsReadable)

\* scope_read_context: an explicit list is an exact set, a caller's policies a predicate.
Scoped(scope) ==
    IF scope.kind = "list" THEN [kind |-> "exact", graphs |-> scope.graphs]
    ELSE [kind |-> "predicate", graphs |-> DsReadable]

\* A default union is read from the source rows when the index may not answer.
SourceUnion(scope, mode, trusted) == scope.kind = "list" /\ (mode = "source" \/ ~ trusted)

\* internal_named_graphs: the graphs of the view, each tested.
internal_named_graphs == {g \in Existing : Sees(g)}

\* execute_query: FROM NAMED's graphs that are visible, the names of a short list that
\* exist, and otherwise what the dataset enumerates.
AvailableGraphs(scope) ==
    CASE scope.named # <<>> -> {g \in scope.named[1] : g \notin DsUnknown /\ Sees(g)}
      [] scope.named = <<>> /\ scope.kind = "list" /\ ~ scope.long -> scope.graphs \cap Existing
      [] OTHER -> internal_named_graphs

-----------------------------------------------------------------------------
(* Terms.                                                                           *)

\* PartialEq and Hash of StoreTerm.
SameTerm(a, b) ==
    \/ a = b
    \/ {a[1], b[1]} \subseteq {"mapped", "dense"} /\ a[2] = b[2]

\* Faulty: the rows of a source scan keep their source ids.
stored_term_source(t) == <<"source", t>>
\* TermWriter::stored_term.
stored_term(t) ==
    IF dsView.read.trusted /\ t \notin dsView.unmapped THEN <<"mapped", t>>
    ELSE <<"source", t>>

\* internalize_term, of a term of the query.
internalize_term(t) ==
    CASE t \in DsUnknown -> <<"missing", t>>
      [] t \notin DsUnknown /\ t \in dsView.known -> <<"mapped", t>>
      [] OTHER -> stored_term(t)

\* term_identity and resolve_pattern_term.
HasSource(term) == term[1] \in {"source", "mapped"}
HasDenseId(term) == term[1] \in {"mapped", "dense"}
Stored(term) == HasSource(term) \/ HasDenseId(term)

\* source_term: a query id alone needs the resolver of an earlier dense scan.
source_term(term) ==
    IF HasSource(term) \/ dsResolver THEN [ok |-> TRUE, term |-> term[2]]
    ELSE [ok |-> FALSE, term |-> None]

-----------------------------------------------------------------------------
(* Quads for a pattern.                                                             *)

\* scoped_graph: the only graph of an exact scope.
SingleGraph ==
    dsView.read.visibility.kind = "exact" /\ Cardinality(dsView.read.visibility.graphs) = 1

\* The selector for the graph position: "all", "default", or an internal term.
GraphSelector(graph) ==
    CASE graph = <<"all", None>> -> [kind |-> "union", graph |-> None]
      [] graph \in {<<"default", None>>, <<"union", None>>} ->
           IF SingleGraph
           THEN [kind |-> "named", graph |-> CHOOSE g \in dsView.read.visibility.graphs : TRUE]
           ELSE [kind |-> "default", graph |-> None]
      [] OTHER -> [kind |-> "named", graph |-> graph[2]]

\* The graph position has a query id: its term's, or the single graph's.
GraphIsDense(graph) ==
    CASE graph = <<"all", None>> -> TRUE
      [] graph \in {<<"default", None>>, <<"union", None>>} ->
           SingleGraph => LET g == CHOOSE g \in dsView.read.visibility.graphs : TRUE
                          IN  dsView.read.trusted /\ g \notin dsView.unmapped
      [] OTHER -> HasDenseId(graph)

\* The store read for a pattern.
ReadOf(graph, spo) ==
    [dsView.read EXCEPT
       !.selector = GraphSelector(graph),
       !.pattern = [c \in Column |-> IF c = 1 \/ spo[c] = <<>> THEN None ELSE spo[c][2]]]

\* The condition for a scan by query ids.
TriesDense(graph, spo) ==
    /\ \A c \in 2 .. 4 : spo[c] = <<>> \/ HasDenseId(spo[c])
    /\ GraphIsDense(graph)
    /\ ~ dsView.sourceUnion

NoGraph(graph) == graph \in {<<"default", None>>, <<"union", None>>}

\* dense_store_term: predicates come without a source, the graph always with one, the
\* other two when the cursor happens to know it.
DenseRow(graph, hinted, q) ==
    [c \in Column |->
       CASE c = 1 -> IF NoGraph(graph) THEN <<>> ELSE <<"mapped", q[1]>>
         [] c = 3 -> <<"dense", q[3]>>
         [] OTHER -> IF hinted THEN <<"mapped", q[c]>> ELSE <<"dense", q[c]>>]

StoredRow(graph, q) ==
    [c \in Column |-> IF c = 1 /\ NoGraph(graph) THEN <<>> ELSE stored_term(q[c])]

\* Faulty: the copies of a triple in several graphs all come out.
Distinct_none(rows) == rows
\* The set of triples seen, for a default union over source rows.
Distinct(rows) ==
    FoldLeft(LAMBDA acc, q : IF \E i \in DOMAIN acc : Tail(acc[i]) = Tail(q) THEN acc ELSE Append(acc, q),
             <<>>, rows)

Rows(rows) == [error |-> "", rows |-> rows]
Failure(what) == [error |-> what, rows |-> <<>>]

\* The scan along source ids.
SourceRows(graph, spo) ==
    LET read == ReadOf(graph, spo)
        spread == dsView.sourceUnion /\ read.selector.kind = "default"
        found == scan(IF spread THEN [read EXCEPT !.selector.kind = "union"] ELSE read)
        rows == IF spread THEN Distinct(found.rows) ELSE found.rows
    IN  CASE \E c \in 2 .. 4 : spo[c] # <<>> /\ ~ source_term(spo[c]).ok -> Failure("identity")
          [] found.error -> Failure("unavailable")
          [] OTHER -> Rows([i \in DOMAIN rows |-> StoredRow(graph, rows[i])])

\* The scan along query ids.
DenseRows(graph, spo, hinted) ==
    LET read == ReadOf(graph, spo)
        rows == dense_keys(read, auto_access_path(read.selector, read.pattern))
    IN  Rows([i \in DOMAIN rows |-> DenseRow(graph, hinted, rows[i])])

\* dense_keys answers, declines or fails.
DenseFails(graph, spo) ==
    LET read == ReadOf(graph, spo) IN
    /\ read.mode # "source" /\ ~ read.trusted
    /\ read.selector.kind = "named" => graph_is_visible(read, read.selector.graph)
    /\ read.mode = "qv" \/ read.selector.kind = "default"

\* internal_quads_for_pattern.
internal_quads_for_pattern(graph, spo, hinted) ==
    CASE dsView.read.visibility.kind = "exact" /\ dsView.read.visibility.graphs = {} -> Rows(<<>>)
      [] dsView.read.visibility.graphs # {} \/ dsView.read.visibility.kind # "exact" ->
           IF \/ \E c \in 2 .. 4 : spo[c] # <<>> /\ ~ Stored(spo[c])
              \/ graph[1] = "missing"
           THEN Rows(<<>>)
           ELSE IF Stored(graph) /\ ~ source_term(graph).ok THEN Failure("identity")
           ELSE IF TriesDense(graph, spo) /\ DenseFails(graph, spo) THEN Failure("unavailable")
           ELSE IF TriesDense(graph, spo) /\ HasDense(ReadOf(graph, spo))
           THEN DenseRows(graph, spo, hinted)
           ELSE SourceRows(graph, spo)

\* accept_resolver: the first scan by query ids leaves its resolver.
accept_resolver(graph, spo, answer) ==
    dsResolver \/ (answer.error = "" /\ TriesDense(graph, spo) /\ HasDense(ReadOf(graph, spo)))

\* Faulty: a graph exists when it has a visible quad.
contains_internal_graph_name_probed(term) ==
    Stored(term) /\ \E q \in rdLive : q[1] = term[2] /\ Sees(q[1])
\* contains_internal_graph_name: visible metadata, of empty graphs too.
contains_internal_graph_name(term) == Stored(term) /\ Sees(term[2])

-----------------------------------------------------------------------------
\* execute_query opens the dataset over a view.  Without a dataset clause the evaluator
\* first encodes the default graph's marker, and claims it.
OpenDataset ==
    /\ dsView = <<>>
    /\ rdLive' \in SUBSET Universe
    /\ \E scope \in DsScopes, mode \in {"auto", "source", "qv"}, trusted \in BOOLEAN,
          orphans \in OrphanChoice, empty \in SUBSET DsEmptyGraphs :
         LET existing == {q[1] : q \in rdLive'} \cup empty
             used == UNION {{q[c] : c \in Column} : q \in rdLive'}
         IN  /\ authorize_graph_scope(scope, existing)
             /\ \E known \in {{}, used}, unmapped \in {{}, Term \ used} :
                  /\ ~ trusted => known = {}
                  /\ dsView' = [scope |-> scope, empty |-> empty,
                                unmapped |-> unmapped, known |-> known,
                                sourceUnion |-> SourceUnion(scope, mode, trusted),
                                read |-> [kind |-> "read", mode |-> mode, trusted |-> trusted,
                                          visibility |-> Scoped(scope), orphans |-> orphans,
                                          selector |-> [kind |-> "union", graph |-> None],
                                          pattern |-> [c \in Column |-> None]]]
             /\ dsTerms' = IF scope.named = <<>> THEN {<<"union", None>>} ELSE {}
    /\ UNCHANGED <<rdRead, dsResolver, dsReads, dsAnswer>>

Call == dsView # <<>> /\ dsReads < MaxDsReads /\ dsReads' = dsReads + 1

\* A term of the query's text.
InternalizeTerm ==
    /\ Call
    /\ \E t \in Term \cup DsUnknown : dsTerms' = dsTerms \cup {internalize_term(t)}
    /\ dsAnswer' = NoAnswer
    /\ UNCHANGED <<readVars, dsView, dsResolver>>

\* GRAPH ?g over the available graphs.
NamedGraphs ==
    /\ Call
    /\ dsTerms' = dsTerms \cup {internalize_term(g) : g \in AvailableGraphs(dsView.scope)}
    /\ dsAnswer' = [call |-> "graphs", graphs |-> AvailableGraphs(dsView.scope)]
    /\ UNCHANGED <<readVars, dsView, dsResolver>>

ContainsGraph ==
    /\ Call
    /\ \E term \in dsTerms :
         dsAnswer' = [call |-> "contains", term |-> term, found |-> contains_internal_graph_name(term)]
    /\ UNCHANGED <<readVars, dsView, dsResolver, dsTerms>>

\* A triple pattern: at most two adjacent columns bound to terms handed out before.
QuadsForPattern ==
    /\ Call
    /\ \E graph \in {<<"all", None>>, <<"default", None>>} \cup dsTerms,
          a \in 2 .. 3, t, u \in dsTerms \cup {<<>>}, hinted \in BOOLEAN :
         LET spo == [c \in Column |-> IF c = a THEN t ELSE IF c = a + 1 THEN u ELSE <<>>]
             answer == internal_quads_for_pattern(graph, spo, hinted)
         IN  /\ dsAnswer' = [call |-> "quads", graph |-> graph, spo |-> spo, out |-> answer]
             /\ dsResolver' = accept_resolver(graph, spo, answer)
             /\ dsTerms' = dsTerms \cup (UNION {Range(answer.rows[i]) : i \in DOMAIN answer.rows} \ {<<>>})
    /\ UNCHANGED <<readVars, dsView>>

DatasetInit ==
    /\ ReadInit /\ dsView = <<>> /\ dsResolver = FALSE /\ dsTerms = {} /\ dsReads = 0 /\ dsAnswer = NoAnswer

DatasetNext == OpenDataset \/ InternalizeTerm \/ NamedGraphs \/ ContainsGraph \/ QuadsForPattern

DatasetSpec == DatasetInit /\ [][DatasetNext]_dsVars

-----------------------------------------------------------------------------
\* Two terms handed out by one dataset compare equal exactly when they are one term, whichever
\* scan, list or text they came from: otherwise a join between two patterns loses rows.
IdentityIsTerm == \A a, b \in dsTerms : SameTerm(a, b) <=> a[2] = b[2]

\* Every answer has exactly the visible quads of the pattern, each once (a default graph has
\* triples, not quads); a term handed out can always be used again; and only an index that may not
\* be trusted makes a scan fail.
QuadsAreExact ==
    dsAnswer.call = "quads" =>
      LET out == dsAnswer.out
          Fits(c, q) == dsAnswer.spo[c] = <<>> \/ dsAnswer.spo[c][2] = q[c]
          named == dsAnswer.graph[1] \notin {"all", "default", "union"}
          quads == {q \in rdLive : /\ \A c \in 2 .. 4 : Fits(c, q)
                                   /\ named => dsAnswer.graph[2] = q[1]
                                   /\ terms_are_visible(dsView.read, q)}
          meant == IF NoGraph(dsAnswer.graph) THEN {<<None>> \o Tail(q) : q \in quads} ELSE quads
          got == [i \in DOMAIN out.rows |->
                    [c \in Column |-> IF out.rows[i][c] = <<>> THEN None ELSE out.rows[i][c][2]]]
      IN  /\ out.error = "" => Range(got) = meant /\ Cardinality(meant) = Len(got)
          /\ out.error # "identity"
          /\ out.error = "unavailable" =>
               \/ ~ dsView.read.trusted /\ (dsView.read.mode = "qv" \/ NoGraph(dsAnswer.graph))
               \/ dsView.read.mode = "source" /\ NoGraph(dsAnswer.graph) /\ dsView.scope.kind # "list"

\* The list of graphs and the test for one graph agree with the scope of the request: existing
\* graphs the caller may see, empty ones included, and of those the ones FROM NAMED declares.
GraphsAgree ==
    /\ dsAnswer.call = "graphs" =>
         dsAnswer.graphs = {g \in Existing : /\ g \in dsView.read.visibility.graphs
                                             /\ dsView.scope.named # <<>> => g \in dsView.scope.named[1]}
    /\ dsAnswer.call = "contains" =>
         (dsAnswer.found <=> Stored(dsAnswer.term) /\ dsAnswer.term[2] \in Existing \cap dsView.read.visibility.graphs)

=============================================================================
