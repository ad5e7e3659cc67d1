------------------------------ MODULE DeltaRead -----------------------------
(***************************************************************************)
(* The view a validation reads before a write commits                     *)
(* (validation_delta.rs): the pending changes of one graph laid over the   *)
(* durable rows.  A row may be in both, be changed twice, or belong to     *)
(* another graph; the view must read as the store will after the commit.   *)
(***************************************************************************)
EXTENDS QueryRead

CONSTANT MaxDelta        \* pending changes

VARIABLE rdDelta         \* the pending changes and what is asked, or NoRead

deltaVars == <<readVars, rdDelta>>

Changes == [quad : Universe, present : BOOLEAN]

DeltaInit == ReadInit /\ rdDelta = NoRead

PickDelta ==
    /\ rdDelta = NoRead
    /\ rdLive' \in SUBSET Universe
    /\ rdDelta' \in [kind : {"delta"}, graph : GraphOf, pattern : Pattern,
                     trusted : BOOLEAN,
                     changes : UNION {[1 .. n -> Changes] : n \in 0 .. MaxDelta}]
    /\ UNCHANGED rdRead

DeltaNext == PickDelta
DeltaSpec == DeltaInit /\ [][DeltaNext]_deltaVars

-----------------------------------------------------------------------------

\* The changes build keeps.
Kept(d, change) == change.quad[1] = d.graph

\* Faulty: the first change of a quad wins.
build_first(d) ==
    LET kept == SelectSeq(d.changes, LAMBDA c : Kept(d, c))
    IN  [q \in {c.quad : c \in Range(kept)} |->
           kept[Min({i \in DOMAIN kept : kept[i].quad = q})].present]
\* DeltaIndex::build: the last change of a quad wins.
build(d) ==
    LET kept == SelectSeq(d.changes, LAMBDA c : Kept(d, c))
    IN  [q \in {c.quad : c \in Range(kept)} |->
           kept[Max({i \in DOMAIN kept : kept[i].quad = q})].present]

\* Faulty: a deletion records nothing.
Impact_inserts(d) ==
    LET kept == {d.changes[i] : i \in {j \in DOMAIN d.changes :
                       Kept(d, d.changes[j]) /\ d.changes[j].present}}
    IN  [subjects |-> {c.quad[2] : c \in kept},
         predicates |-> {c.quad[3] : c \in kept},
         objects |-> {c.quad[4] : c \in kept}, has_deletions |-> TRUE]
\* DeltaImpact::record over the kept changes.
Impact(d) ==
    LET kept == {d.changes[i] : i \in {j \in DOMAIN d.changes :
                                         Kept(d, d.changes[j])}}
    IN  [subjects |-> {c.quad[2] : c \in kept},
         predicates |-> {c.quad[3] : c \in kept},
         objects |-> {c.quad[4] : c \in kept},
         has_deletions |-> \E c \in kept : ~c.present]

\* DeltaIndex::overlay: the range of the subject order, of the predicate and
\* object order, or all of it; an object under an open predicate is left to
\* the caller's filter.
overlay(index, pattern) ==
    {q \in DOMAIN index :
       IF pattern[2] # None
       THEN /\ q[2] = pattern[2] /\ pattern[3] \in {None, q[3]}
            /\ pattern[3] # None => pattern[4] \in {None, q[4]}
       ELSE pattern[3] # None =>
              q[3] = pattern[3] /\ pattern[4] \in {None, q[4]}}

\* Faulty: a row that the base already gave is given again.
DeltaRows_twice(index, base, pattern) ==
    SelectSeq(base, LAMBDA q : q \in DOMAIN index => index[q])
      \o SetToSeq({q \in overlay(index, pattern) : index[q]})
\* DeltaQuadCursor::next_candidate: base rows that are not deleted, then the
\* inserted rows that the base did not give.
DeltaRows(index, base, pattern) ==
    SelectSeq(base, LAMBDA q : q \in DOMAIN index => index[q])
      \o SetToSeq({q \in overlay(index, pattern) :
                     index[q] /\ q \notin Range(base)})

\* selected_pattern: the view has one graph.
selected_pattern(d) == [d.pattern EXCEPT ![1] = d.graph]

\* DeltaReadView::scan; QueryCursor filters the candidates.
delta_scan(d) ==
    LET pattern == selected_pattern(d)
    IN  SelectSeq(DeltaRows(build(d), durable_cursor(pattern, d.trusted),
                            pattern),
                  LAMBDA q : matches(pattern, q))

\* DeltaReadView::exists: a point read asks the overlay first, then the base.
delta_exists(d) ==
    LET pattern == selected_pattern(d)
        index == build(d)
    IN  IF \A c \in Column : pattern[c] # None
        THEN IF pattern \in DOMAIN index THEN index[pattern]
             ELSE pattern \in rdLive
        ELSE delta_scan(d) # <<>>

-----------------------------------------------------------------------------
(* Properties *)

\* The store after the changes, applied one by one as the commit does.
After(d) ==
    FoldLeft(LAMBDA live, c : IF c.present THEN live \cup {c.quad}
                              ELSE live \ {c.quad},
             rdLive, d.changes)

\* The validation view gives each row of the graph as it will be after the
\* commit, once, by every access path; point reads agree with scans.
DeltaIsCommit ==
    rdDelta # NoRead =>
      LET rows == delta_scan(rdDelta)
          after == {q \in After(rdDelta) :
                      matches(selected_pattern(rdDelta), q)}
      IN  /\ Range(rows) = after /\ Len(rows) = Cardinality(after)
          /\ delta_exists(rdDelta) <=> after # {}

\* The recorded impact covers the change: a row that appears or disappears in
\* the graph has its subject, predicate and object recorded, and none
\* disappears unless a deletion is recorded.
ImpactCovers ==
    rdDelta # NoRead =>
      LET impact == Impact(rdDelta)
          ofGraph(set) == {q \in set : q[1] = rdDelta.graph}
          lost == ofGraph(rdLive) \ ofGraph(After(rdDelta))
          won == ofGraph(After(rdDelta)) \ ofGraph(rdLive)
      IN  /\ \A q \in lost \cup won :
               /\ q[2] \in impact.subjects /\ q[3] \in impact.predicates
               /\ q[4] \in impact.objects
          /\ lost # {} => impact.has_deletions

=============================================================================
