----------------------------- MODULE CrateRules -----------------------------
(***************************************************************************)
(* The structural rules of an RO-Crate graph (src/internal/rules.rs).      *)
(*                                                                         *)
(* A local write is checked from its changes: a rule looks only at the     *)
(* subjects, properties and hasPart subtrees that the changes can have     *)
(* disturbed, over the store with the changes laid on top.  A merged batch *)
(* is not checked at all, so the graph under a local write may already     *)
(* break rules.  The full check over a whole snapshot                      *)
(* (post_merge_violations) and the check of an imported document           *)
(* (complete_import_violations of rocrate.rs) are the same rules written   *)
(* again.  The module relates the three.                                   *)
(*                                                                         *)
(* A triple is <<subject, predicate, object>>; subjects and objects are    *)
(* numbers, in term order, predicates are named by their local name.       *)
(***************************************************************************)
EXTENDS Integers, Sequences, FiniteSets, TLC, SequencesExt, FiniteSetsExt

CONSTANTS
    Entity,      \* data and contextual entities
    Scaffold,    \* the triples of the crate before the first write
    Loose,       \* the further triples that a write may add or remove
    MaxMerges,   \* merged, unchecked changes
    MaxDelta     \* changes of one local write

Root == 0
Metadata == 9
Dataset == 10
MediaObject == 11
CreativeWork == 12
Versions == {21, 22}
Published == 31       \* a date that parses
Unpublished == 32     \* a datePublished value that is not a date

\* What the constants satisfy; a module that instantiates this one assumes it.
RulesAssumption ==
    /\ Entity \subseteq 1..8
    /\ MaxMerges \in Nat /\ MaxDelta \in Nat

VARIABLES
    crGraph,     \* the live triples of the graph
    crMerges,    \* merged changes so far
    crWrite      \* <<>>, or the last local write: base, delta and verdict

crateRulesVars == <<crGraph, crMerges, crWrite>>

Changes == [triple : Scaffold \cup Loose, present : BOOLEAN]

-----------------------------------------------------------------------------
(* Reading a graph: the lookups of GraphSnapshot and of RuleContext *)

\* count_sp
count_sp(graph, s, p) == Cardinality({t \in graph : t[1] = s /\ t[2] = p})

\* has_subject_predicate
has_subject_predicate(graph, s, p) == \E t \in graph : t[1] = s /\ t[2] = p

\* subject_has_triples, and subject_existed_before on the base
subject_has_triples(graph, s) == \E t \in graph : t[1] = s

\* RuleContext::children
children(graph, s) == {t[3] : t \in {u \in graph : u[1] = s /\ u[2] = "hasPart"}}

\* RuleContext::parents
parents(graph, o) == {t[1] : t \in {u \in graph : u[3] = o /\ u[2] = "hasPart"}}

\* profile_from_view: the one specification version that the descriptor or
\* the root names; none when there is no marker, or more than one version.
profile_from_view(graph) ==
    LET named == {v \in Versions : \E s \in {Metadata, Root} :
                                     <<s, "conformsTo", v>> \in graph}
    IN  IF Cardinality(named) = 1 THEN named ELSE {}

-----------------------------------------------------------------------------
(* What a change set touches *)

After(graph, delta) ==
    FoldLeft(LAMBDA g, c : IF c.present THEN g \cup {c.triple}
                           ELSE g \ {c.triple}, graph, delta)

\* One pass over the changes.
summarize(delta) ==
    LET touched == {c.triple : c \in Range(delta)}
        typed == {t \in touched : t[2] = "type" /\ t[3] \in {Dataset, MediaObject}}
        parts == {t \in touched : t[2] = "hasPart"}
    IN  [inserted |-> {c.triple[1] : c \in {d \in Range(delta) : d.present}},
         types |-> {t[1] : t \in {u \in touched : u[2] = "type"}},
         seeds |-> {t[3] : t \in parts} \cup {t[1] : t \in typed},
         probes |-> {t[1] : t \in parts},
         root |-> <<Root, "type", Dataset>> \in touched,
         descriptor |-> touched \cap {<<Metadata, "type", CreativeWork>>,
                                      <<Metadata, "about", Root>>} # {},
         required |-> {t[2] : t \in {u \in touched : u[1] = Root}}
                        \cap {"name", "description", "datePublished"},
         reachability |-> typed \cup parts # {}]

-----------------------------------------------------------------------------
(* ReachabilityWalk: a depth-first walk over parents with a memo *)

\* collect_descendants: the seed and everything below it.
RECURSIVE collect_descendants(_, _, _)
collect_descendants(graph, queue, out) ==
    IF queue = {} THEN out
    ELSE LET found == queue \ out
         IN  collect_descendants(graph, UNION {children(graph, s) : s \in found},
                                 out \cup found)

\* is_data_entity
is_data_entity(graph, e) ==
    \/ \E class \in {Dataset, MediaObject} : <<e, "type", class>> \in graph
    \/ children(graph, e) # {} \/ parents(graph, e) # {}

Sorted(set) == SetToSortSeq(set, <)

\* Faulty: a verdict that a broken cycle produced is remembered.
LeaveFrame_memo(e, broke, memo) == [found |-> FALSE, broke |-> broke,
                                    memo |-> (e :> FALSE) @@ memo]
\* A frame without further parents: FALSE is remembered unless it came from
\* breaking a cycle on the current path.
LeaveFrame(e, broke, memo) ==
    [found |-> FALSE, broke |-> broke,
     memo |-> IF broke THEN memo ELSE (e :> FALSE) @@ memo]

\* settle: a witnessed path to the root is always remembered.
settle(e, memo) == [found |-> TRUE, broke |-> FALSE, memo |-> (e :> TRUE) @@ memo]

\* The loop of is_reachable over the frame of e: its remaining parents, in
\* term order, with the path of entities being visited.
RECURSIVE Visit(_, _, _, _, _, _)
Visit(graph, e, rest, visiting, memo, broke) ==
    IF rest = <<>> THEN LeaveFrame(e, broke, memo)
    ELSE LET c == Head(rest)
         IN  IF c = Root THEN settle(e, memo)
             ELSE IF c \in DOMAIN memo
             THEN IF memo[c] THEN settle(e, memo)
                  ELSE Visit(graph, e, Tail(rest), visiting, memo, broke)
             ELSE IF c \in visiting
             THEN Visit(graph, e, Tail(rest), visiting, memo, TRUE)
             ELSE LET r == Visit(graph, c, Sorted(parents(graph, c)),
                                 visiting \cup {c}, memo, FALSE)
                  IN  IF r.found THEN settle(e, r.memo)
                      ELSE Visit(graph, e, Tail(rest), visiting, r.memo,
                                 broke \/ r.broke)

\* is_reachable
is_reachable(graph, e, memo) ==
    IF e \in DOMAIN memo
    THEN [found |-> memo[e], broke |-> FALSE, memo |-> memo]
    ELSE Visit(graph, e, Sorted(parents(graph, e)), {e}, memo, FALSE)

\* first_orphan: the first candidate, in term order, that is a data entity
\* and has no path from the root; <<>> when there is none.
first_orphan(graph, summary) ==
    LET candidates == (collect_descendants(graph, summary.seeds, {})
                         \cup summary.probes) \ {Root}
        Step(acc, e) ==
            IF acc.orphan # <<>> \/ ~is_data_entity(graph, e) THEN acc
            ELSE LET r == is_reachable(graph, e, acc.memo)
                 IN  [orphan |-> IF r.found THEN <<>> ELSE <<e>>, memo |-> r.memo]
    IN  FoldLeft(Step, [orphan |-> <<>>, memo |-> <<>>],
                 Sorted(candidates)).orphan

-----------------------------------------------------------------------------
(* The rules on a change set: what each one reports *)

\* RootEntityRule::check_candidate
root_candidate(post, summary) ==
    IF summary.root /\ <<Root, "type", Dataset>> \notin post
    THEN {<<"root", Root>>} ELSE {}

\* MetadataDescriptorRule::check_candidate
descriptor_candidate(post, summary) ==
    IF summary.descriptor
         /\ ~({<<Metadata, "type", CreativeWork>>, <<Metadata, "about", Root>>}
                \subseteq post)
    THEN {<<"descriptor", Root>>} ELSE {}

\* RequiredRootRule::check_candidate reports the first missing property.
Required == <<"name", "description", "datePublished">>

required_candidate(post, summary) ==
    IF \E p \in summary.required : ~has_subject_predicate(post, Root, p)
    THEN {<<"property", Root>>} ELSE {}

\* PublishedCardinalityRule::check_candidate
date_candidate(post, summary) ==
    IF "datePublished" \in summary.required
         /\ count_sp(post, Root, "datePublished") # 1
    THEN {<<"date", Root>>} ELSE {}

\* Faulty: a subject that the write creates is not looked at.
TypeCandidates_changed(base, summary) == summary.types
\* Only a subject whose types changed, or that is new, can newly be untyped.
TypeCandidates(base, summary) ==
    summary.types \cup {s \in summary.inserted : ~subject_has_triples(base, s)}

\* EntityTypeRule::check_candidate
type_candidate(base, post, summary) ==
    LET untyped == {s \in TypeCandidates(base, summary) :
                      /\ subject_has_triples(post, s)
                      /\ ~has_subject_predicate(post, s, "type")}
    IN  IF untyped = {} THEN {} ELSE {<<"type", Min(untyped)>>}

\* ReachabilityRule::check_candidate
reachability_candidate(post, summary) ==
    IF ~summary.reachability THEN {}
    ELSE LET orphan == first_orphan(post, summary)
         IN  IF orphan = <<>> THEN {} ELSE {<<"orphan", orphan[1]>>}

\* validate_change_set: no rule runs on a graph without one crate profile.
validate_change_set(base, delta) ==
    LET post == After(base, delta)
        summary == summarize(delta)
    IN  IF profile_from_view(post) = {} THEN {}
        ELSE root_candidate(post, summary)
               \cup descriptor_candidate(post, summary)
               \cup required_candidate(post, summary)
               \cup date_candidate(post, summary)
               \cup type_candidate(base, post, summary)
               \cup reachability_candidate(post, summary)

-----------------------------------------------------------------------------
(* The rules on a whole graph *)

RECURSIVE Reached(_, _)
Reached(graph, seen) ==
    LET next == seen \cup UNION {children(graph, s) : s \in seen}
    IN  IF next = seen THEN seen ELSE Reached(graph, next)

\* orphaned_data_entities: a breadth-first walk from the root.
orphaned_data_entities(graph) ==
    LET typed == {t[1] : t \in {u \in graph : u[2] = "type"
                                  /\ u[3] \in {Dataset, MediaObject}}}
        ends == UNION {{t[1], t[3]} : t \in {u \in graph : u[2] = "hasPart"}}
    IN  ((typed \cup ends) \ {Root}) \ Reached(graph, {Root})

\* EntityTypeRule::check_post_state
untyped_subjects(graph) ==
    {t[1] : t \in graph} \ {t[1] : t \in {u \in graph : u[2] = "type"}}

\* The check_post_state functions, each with everything it can report.
check_post_state(graph) ==
    (IF <<Root, "type", Dataset>> \in graph THEN {} ELSE {<<"root", Root>>})
    \cup (IF {<<Metadata, "type", CreativeWork>>, <<Metadata, "about", Root>>}
               \subseteq graph THEN {} ELSE {<<"descriptor", Root>>})
    \cup (IF \A p \in Range(Required) : count_sp(graph, Root, p) >= 1
          THEN {} ELSE {<<"property", Root>>})
    \cup (IF count_sp(graph, Root, "datePublished") = 1 THEN {}
          ELSE {<<"date", Root>>})
    \cup {<<"type", s>> : s \in untyped_subjects(graph)}
    \cup {<<"orphan", e>> : e \in orphaned_data_entities(graph)}

\* Each rule reports the first violation it finds.
First(found) == {v \in found : \A w \in found : w[1] = v[1] => v[2] <= w[2]}

\* post_merge_violations: the same rules with no change set; the candidate
\* checks read the whole state, two of them ask for a snapshot.
post_merge_violations(graph) ==
    IF profile_from_view(graph) = {} THEN {} ELSE First(check_post_state(graph))

\* Faulty: parts of a part are not followed.
complete_import_violations_flat(triples) ==
    LET data == {t[1] : t \in {u \in triples : u[2] = "type"
                                 /\ u[3] \in {Dataset, MediaObject}}} \ {Root}
    IN  First(check_post_state(triples)
                \cup {<<"orphan", e>> : e \in data \ children(triples, Root)})
\* complete_import_violations of rocrate.rs: the check of a document that is
\* to replace the crate, written without the rules.
complete_import_violations(triples) ==
    LET dates == {t[3] : t \in {u \in triples : u[1] = Root /\ u[2] = "datePublished"}}
        subjects == {t[1] : t \in triples}
        data == ({t[1] : t \in {u \in triples : u[2] = "type"
                                  /\ u[3] \in {Dataset, MediaObject}}}
                   \cup UNION {{t[1], t[3]} : t \in {u \in triples : u[2] = "hasPart"}})
                  \ {Root}
        reachable == collect_descendants(triples, {Root}, {})
    IN  (IF <<Root, "type", Dataset>> \in triples THEN {} ELSE {<<"root", Root>>})
        \cup (IF /\ <<Metadata, "type", CreativeWork>> \in triples
                 /\ <<Metadata, "about", Root>> \in triples
              THEN {} ELSE {<<"descriptor", Root>>})
        \cup {<<"property", Root>> : p \in {q \in Range(Required) :
                                       ~has_subject_predicate(triples, Root, q)}}
        \cup (IF Cardinality(dates) # 1 THEN {<<"date", Root>>}
              ELSE IF dates = {Published} THEN {} ELSE {<<"lexical", Root>>})
        \cup First({<<"type", s>> : s \in {t \in subjects :
                                ~has_subject_predicate(triples, t, "type")}})
        \cup First({<<"orphan", e>> : e \in data \ reachable})

-----------------------------------------------------------------------------
(* Writes *)

CrateRulesInit ==
    /\ crGraph = Scaffold
    /\ crMerges = 0
    /\ crWrite = <<>>

\* A merged batch is applied without structural checks; what it does to the
\* tags is the subject of MergeReplicas, here it adds or removes a triple.
merge_batch(change) ==
    /\ crMerges < MaxMerges /\ crWrite = <<>>
    /\ crGraph' = After(crGraph, <<change>>)
    /\ crGraph' # crGraph
    /\ crMerges' = crMerges + 1
    /\ UNCHANGED crWrite

\* local_apply_changes: checked, then committed or refused.
local_apply_changes(delta) ==
    LET found == validate_change_set(crGraph, delta)
    IN  /\ crWrite = <<>>
        /\ crWrite' = <<[base |-> crGraph, delta |-> delta, found |-> found]>>
        /\ crGraph' = IF found = {} THEN After(crGraph, delta) ELSE crGraph
        /\ UNCHANGED crMerges

CrateRulesNext ==
    \/ \E change \in Changes : merge_batch(change)
    \/ \E n \in 1..MaxDelta : \E delta \in [1..n -> Changes] :
         local_apply_changes(delta)

CrateRulesSpec == CrateRulesInit /\ [][CrateRulesNext]_crateRulesVars

-----------------------------------------------------------------------------
(* Properties *)

\* A local write that is accepted leaves no rule broken that was not broken
\* before it, whatever earlier merges left behind: the rules that look only
\* at the changed subjects and subtrees (check_candidate) miss nothing that
\* the check of the whole graph (check_post_state) would find newly wrong.
AcceptedAddsNoViolation ==
    \A w \in Range(crWrite) :
      (w.found = {} /\ profile_from_view(crGraph) # {}) =>
        check_post_state(crGraph) \subseteq check_post_state(w.base)

\* A local write is refused only for what it really would leave behind: each
\* violation that validate_change_set reports is one of the whole graph after
\* the write.  The walk over parents with its memo agrees here with the walk
\* from the root.
RefusalIsTrue ==
    \A w \in Range(crWrite) :
      w.found \subseteq check_post_state(After(w.base, w.delta))

\* The check of an imported document and the rules agree on every graph, so a
\* prepared import may bypass the rules when it commits: the import accepts
\* no more than post_merge_violations, and less only for a datePublished that is no date.
ImportAgreesWithRules ==
    profile_from_view(crGraph) # {} =>
      complete_import_violations(crGraph) \ {<<"lexical", Root>>}
        = post_merge_violations(crGraph)
=============================================================================
