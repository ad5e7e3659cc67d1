----------------------------- MODULE CrateEdits -----------------------------
(***************************************************************************)
(* Editing, importing and exporting one RO-Crate graph                     *)
(* (src/internal/rocrate.rs with its callers in src/lib.rs).               *)
(*                                                                         *)
(* An entity without a path of hasPart links from the root is an orphan:   *)
(* it stays stored and every read hides it.  Writers hold the graph's      *)
(* write lock, so an edit is one step.  A document that is prepared        *)
(* (prepare_jsonld) and an export hold no lock: they read the version, the *)
(* orphans and the triples in separate steps, and other writers move in    *)
(* between.  The rules that a local write must satisfy are those of        *)
(* CrateRules; crGraph is the stored graph and merge_batch a write that    *)
(* arrives from another node.                                              *)
(***************************************************************************)
EXTENDS CrateRules

CONSTANTS
    Edits,       \* the requests that callers make, by kind of edit
    Remote,      \* the triples that other nodes add or remove
    Documents,   \* the triple sets of the documents that callers import
    PageLimit,   \* entities per exported page
    MaxEdits     \* local writes, imports included

VARIABLES
    ceVersion,   \* the graph version, graph_version_digest
    ceEdits,     \* local writes so far
    cePrepared,  \* a document being prepared or prepared
    ceExport,    \* an export in progress, or the last one
    ceImported   \* the last document committed, with the state it replaced

crateEditVars == <<crGraph, crMerges, crWrite, ceVersion, ceEdits, cePrepared,
                   ceExport, ceImported>>

NoDocument == [stage |-> "none"]
NoExport == [stage |-> "none"]

-----------------------------------------------------------------------------
(* Reads of one operation: CrateCtx and what it hides *)

\* crate_ctx: the orphans that this operation hides throughout.
crate_ctx(graph) == orphaned_data_entities(graph)

\* CrateCtx::hides, for the two ends of a triple
Hides(orphans, t) == t[1] \in orphans \/ (t[2] \in {"hasPart", "mentions"}
                                            /\ t[3] \in orphans)

\* current_triples: what readers see of the graph.
current_triples(graph, orphans) == {t \in graph : ~Hides(orphans, t)}

\* stored_subject_triples
stored_subject_triples(graph, s) == {t \in graph : t[1] = s}

\* subject_triples
subject_triples(graph, orphans, s) ==
    {t \in current_triples(graph, orphans) : t[1] = s}

\* visible_subject_exists
visible_subject_exists(graph, orphans, s) ==
    s \notin orphans /\ subject_has_triples(graph, s)

\* has_part_link: a link is invisible when either end is an orphan.
has_part_link(graph, orphans, parent, child) ==
    {parent, child} \cap orphans = {} /\ <<parent, "hasPart", child>> \in graph

\* root_is_dataset, required by require_rocrate_initialized
root_is_dataset(graph, orphans) ==
    {Root, Dataset} \cap orphans = {} /\ <<Root, "type", Dataset>> \in graph

\* live_specification_versions and resolve_version_evidence: the one version
\* that the descriptor and the root name; an export without one is refused.
crate_version(graph) ==
    LET named == {t[3] : t \in {u \in graph : u[1] \in {Metadata, Root}
                                   /\ u[2] = "conformsTo" /\ u[3] \in Versions}}
    IN  IF Cardinality(named) = 1 THEN named ELSE {}

-----------------------------------------------------------------------------
(* Planning the changes of an edit *)

Delta(deleted, inserted) ==
    LET Drop(t, seq) == Append(seq, [triple |-> t, present |-> FALSE])
        Put(t, seq) == Append(seq, [triple |-> t, present |-> TRUE])
    IN  FoldSet(Put, FoldSet(Drop, <<>>, deleted), inserted)

\* entity_subject_triples: type, name and the additional triples.
entity_subject_triples(spec) ==
    {<<spec.id, "type", spec.class>>, <<spec.id, "name", spec.name>>}
      \cup spec.more

\* replace_subject_changes: exactly the triples the request describes, the
\* orphan-hidden ones included in what is replaced.
replace_subject_changes(graph, spec) ==
    LET current == stored_subject_triples(graph, spec.id)
        desired == entity_subject_triples(spec)
    IN  [deleted |-> current \ desired, inserted |-> desired \ current]

\* patch_subject_changes: only the predicates that the patch names.
patch_subject_changes(graph, spec) ==
    LET current == stored_subject_triples(graph, spec.id)
        desired == entity_subject_triples(spec)
        replaced == {t[2] : t \in desired} \cup spec.replaced
    IN  [deleted |-> {t \in current \ desired : t[2] \in replaced},
         inserted |-> desired \ current]

\* The hasPart link that upsert_entity_delta and plan_patch_data add.
LinkFromRoot(graph, orphans, e) ==
    IF has_part_link(graph, orphans, Root, e) THEN {} ELSE {<<Root, "hasPart", e>>}

\* upsert_entity_delta
upsert_entity_delta(graph, orphans, spec) ==
    LET plan == replace_subject_changes(graph, spec)
    IN  Delta(plan.deleted, plan.inserted \cup LinkFromRoot(graph, orphans, spec.id))

\* plan_patch_data
plan_patch_data(graph, orphans, spec) ==
    LET plan == patch_subject_changes(graph, spec)
    IN  Delta(plan.deleted, plan.inserted \cup LinkFromRoot(graph, orphans, spec.id))

\* The changes of append_entities_under: inserts only.
AppendChanges(edit) ==
    Delta({}, {<<edit.parent, "hasPart", spec.id>> : spec \in edit.entities}
                \cup UNION {entity_subject_triples(spec) : spec \in edit.entities})

\* The changes of update_property: replaces one visible value, or all of them.
PropertyChanges(graph, orphans, edit) ==
    LET current == subject_triples(graph, orphans, edit.id)
        old == {t \in current : t[2] = edit.predicate
                                  /\ (edit.old = {} \/ t[3] \in edit.old)}
        new == <<edit.id, edit.predicate, edit.value>>
    IN  Delta(old \ {new}, {new})

-----------------------------------------------------------------------------
(* Replacing a crate by a document *)

\* ReplacementBase::covers
Covers(orphans, target, t) ==
    (\E u \in target : u[1] = t[1]) \/ ~Hides(orphans, t)

\* replacement_base
replacement_base(graph, orphans, target) ==
    {t \in graph : Covers(orphans, target, t)}

\* diff_triples
diff_triples(current, target) == Delta(current \ target, target \ current)

\* Faulty: a subject that the document describes keeps its hidden triples.
replacement_changes_visible(graph, orphans, target) ==
    diff_triples(current_triples(graph, orphans), target)
\* replacement_changes_bounded: one pass over the stored triples, in which a
\* triple of the target is struck off the ones that remain to be inserted.
replacement_changes_bounded(graph, orphans, target) ==
    LET rewritten == {t[1] : t \in target}
        Step(t, acc) ==
            IF t[1] \notin rewritten /\ Hides(orphans, t) THEN acc
            ELSE IF t \in acc.remaining
            THEN [acc EXCEPT !.remaining = @ \ {t}]
            ELSE [acc EXCEPT !.deleted = @ \cup {t}]
        done == FoldSet(Step, [remaining |-> target, deleted |-> {}], graph)
    IN  Delta(done.deleted, done.remaining)

-----------------------------------------------------------------------------
(* Local writes, each under the write lock of the graph *)

CrateEditsInit ==
    /\ CrateRulesInit
    /\ ceVersion = 0 /\ ceEdits = 0
    /\ cePrepared = NoDocument
    /\ ceExport = NoExport
    /\ ceImported = NoDocument

\* commit_with_plan: the version moves with every batch that is committed.
Commit(delta) ==
    /\ crGraph' = After(crGraph, delta)
    /\ ceVersion' = IF delta = <<>> THEN ceVersion ELSE ceVersion + 1
    /\ ceEdits' = ceEdits + 1
    /\ UNCHANGED <<crMerges, crWrite>>

\* local_apply_changes as the edits use it: nothing is written when a rule
\* refuses the change set.
Checked(delta) == /\ delta # <<>> => validate_change_set(crGraph, delta) = {}
                  /\ Commit(delta)

\* require_rocrate_initialized, and the operations' own frame.
Initialized(orphans) ==
    /\ ceEdits < MaxEdits
    /\ root_is_dataset(crGraph, orphans)
    /\ UNCHANGED <<cePrepared, ceExport, ceImported>>

\* add_data_entity
add_data_entity(spec) ==
    LET orphans == crate_ctx(crGraph)
    IN  /\ Initialized(orphans)
        /\ visible_subject_exists(crGraph, orphans, Root)
        /\ Checked(upsert_entity_delta(crGraph, orphans, spec))

\* patch_data_entity
patch_data_entity(spec) ==
    LET orphans == crate_ctx(crGraph)
    IN  /\ Initialized(orphans)
        /\ visible_subject_exists(crGraph, orphans, Root)
        /\ Checked(plan_patch_data(crGraph, orphans, spec))

\* add_contextual_entity
add_contextual_entity(spec) ==
    LET plan == replace_subject_changes(crGraph, spec)
    IN  /\ Initialized(crate_ctx(crGraph))
        /\ Checked(Delta(plan.deleted, plan.inserted))

\* patch_contextual_entity, planned by plan_patch_contextual
patch_contextual_entity(spec) ==
    LET plan == patch_subject_changes(crGraph, spec)
    IN  /\ Initialized(crate_ctx(crGraph))
        /\ Checked(Delta(plan.deleted, plan.inserted))

\* update_property: the entity must have visible triples.
update_property(edit) ==
    LET orphans == crate_ctx(crGraph)
    IN  /\ Initialized(orphans)
        /\ subject_triples(crGraph, orphans, edit.id) # {}
        /\ Checked(PropertyChanges(crGraph, orphans, edit))

\* append_root_entities and append_entities_under: a bulk write, which the
\* rules do not check.
append_entities_under(edit) ==
    LET orphans == crate_ctx(crGraph)
    IN  /\ Initialized(orphans)
        /\ visible_subject_exists(crGraph, orphans, edit.parent)
        /\ Commit(AppendChanges(edit))

\* create_crate_version on a graph that is not empty: the scaffold replaces
\* what is visible.
create_crate_version ==
    LET orphans == crate_ctx(crGraph)
        target == {t \in Scaffold : t[1] \in {Root, Metadata} /\ t[2] # "hasPart"}
    IN  /\ ceEdits < MaxEdits
        /\ current_triples(crGraph, orphans) # {}
        /\ complete_import_violations(target) = {}
        /\ Checked(diff_triples(replacement_base(crGraph, orphans, target), target))
        /\ UNCHANGED <<cePrepared, ceExport, ceImported>>

\* A batch that another node wrote.
RemoteBatch(change) ==
    /\ merge_batch(change)
    /\ ceVersion' = ceVersion + 1
    /\ UNCHANGED <<ceEdits, cePrepared, ceExport, ceImported>>

-----------------------------------------------------------------------------
(* prepare_jsonld and commit_prepared *)

\* The version the document is prepared against, and the structural findings
\* of the document, which a document must not have; the document names one
\* specification version (validate_crate_version).
PrepareBegin(target) ==
    /\ cePrepared = NoDocument /\ ceEdits < MaxEdits
    /\ crate_version(target) # {} /\ complete_import_violations(target) = {}
    /\ cePrepared' = [stage |-> "base", target |-> target, version |-> ceVersion]
    /\ UNCHANGED <<crGraph, crMerges, crWrite, ceVersion, ceEdits, ceExport,
                   ceImported>>

\* crate_ctx
PrepareContext ==
    /\ cePrepared.stage = "base"
    /\ cePrepared' = [stage |-> "context", target |-> cePrepared.target,
                      version |-> cePrepared.version,
                      orphans |-> crate_ctx(crGraph)]
    /\ UNCHANGED <<crGraph, crMerges, crWrite, ceVersion, ceEdits, ceExport,
                   ceImported>>

\* The pass over the stored triples.
PrepareDiff ==
    /\ cePrepared.stage = "context"
    /\ cePrepared' = [stage |-> "diff", target |-> cePrepared.target,
                      version |-> cePrepared.version,
                      delta |-> replacement_changes_bounded(crGraph,
                                    cePrepared.orphans, cePrepared.target)]
    /\ UNCHANGED <<crGraph, crMerges, crWrite, ceVersion, ceEdits, ceExport,
                   ceImported>>

\* base_is_current
base_is_current == cePrepared.version = ceVersion

\* The preparation is refused when the data moved meanwhile.
PrepareEnd ==
    /\ cePrepared.stage = "diff"
    /\ cePrepared' = IF base_is_current THEN [cePrepared EXCEPT !.stage = "ready"]
                     ELSE NoDocument
    /\ UNCHANGED <<crGraph, crMerges, crWrite, ceVersion, ceEdits, ceExport,
                   ceImported>>

\* Faulty: the version that was prepared against is not compared again.
FenceHolds_prepared == cePrepared.stage = "ready"
\* The data fence of apply_bulk_prepared.
FenceHolds == cePrepared.stage = "ready" /\ cePrepared.version = ceVersion

\* commit_prepared: bypasses the rules, and rebuilds the diagnostics, which
\* crate_ctx stands for here.
commit_prepared ==
    /\ cePrepared.stage = "ready" /\ ceEdits < MaxEdits
    /\ cePrepared' = NoDocument
    /\ IF FenceHolds
       THEN /\ Commit(cePrepared.delta)
            /\ ceImported' = [stage |-> "done", target |-> cePrepared.target,
                              before |-> crGraph, after |-> crGraph']
       ELSE UNCHANGED <<crGraph, crMerges, crWrite, ceVersion, ceEdits, ceImported>>
    /\ UNCHANGED ceExport

-----------------------------------------------------------------------------
(* Exporting *)

\* An export that keeps restarting is followed only so far.
MaxListed == 2 * Cardinality(Entity)

LinkedObjects(graph) == Sorted(children(graph, Root))

\* objects_page after a term: an unknown term restarts from the beginning.
objects_page(graph, after, limit) ==
    LET all == LinkedObjects(graph)
        start == IF after = <<>> \/ after[1] \notin Range(all) THEN 0
                 ELSE CHOOSE i \in DOMAIN all : all[i] = after[1]
    IN  SubSeq(all, start + 1, IF start + limit < Len(all) THEN start + limit
                               ELSE Len(all))

\* The visible root-linked entities of a graph, in term order.
VisibleLinked(graph) ==
    SelectSeq(LinkedObjects(graph), LAMBDA e : e \notin crate_ctx(graph))

\* export_page_after and export_jsonld begin; a page reads the version first.
ExportBegin(kind) ==
    /\ ceExport.stage = "none"
    /\ ceExport' = [stage |-> "version", kind |-> kind, version |-> ceVersion,
                    cursor |-> <<>>, base |-> crGraph, listed |-> <<>>]
    /\ UNCHANGED <<crGraph, crMerges, crWrite, ceVersion, ceEdits, cePrepared,
                   ceImported>>

\* The next page, from the cursor of the page before it.  decode_export_cursor
\* refuses a cursor of another version.
export_page_after ==
    /\ ceExport.stage = "page" /\ ceExport.cursor # <<>>
    /\ ceExport' = IF ceExport.version # ceVersion THEN NoExport
                   ELSE [stage |-> "version", kind |-> "page",
                         version |-> ceVersion, cursor |-> ceExport.cursor,
                         base |-> crGraph, listed |-> ceExport.listed]
    /\ UNCHANGED <<crGraph, crMerges, crWrite, ceVersion, ceEdits, cePrepared,
                   ceImported>>

\* Entities asked for: one more than the page holds shows whether more follow.
PageSize(export) == IF export.kind = "full" THEN Cardinality(Entity) + 1
                    ELSE PageLimit + 1

\* crate_ctx; the cursor's entity must be visible and linked.  The orphans
\* that the root links are counted here as well.
ExportContext ==
    LET orphans == crate_ctx(crGraph)
    IN  /\ ceExport.stage = "version"
        /\ ceExport' =
             IF \E e \in Range(ceExport.cursor) :
                  ~has_part_link(crGraph, orphans, Root, e)
             THEN NoExport
             ELSE [stage |-> "window", kind |-> ceExport.kind,
                   version |-> ceExport.version, cursor |-> ceExport.cursor,
                   base |-> ceExport.base, listed |-> ceExport.listed,
                   orphans |-> orphans, anchor |-> ceExport.cursor, page |-> <<>>,
                   hidden |-> Cardinality(children(crGraph, Root) \cap orphans)]
        /\ UNCHANGED <<crGraph, crMerges, crWrite, ceVersion, ceEdits, cePrepared,
                       ceImported>>

\* linked_entity_page: one window, without the hidden entries; a graph without
\* orphans is read in one page.
linked_entity_page ==
    LET export == ceExport
        limit == PageSize(export)
        window == objects_page(crGraph, export.anchor, limit + export.hidden)
        visible == SelectSeq(window, LAMBDA e : e \notin export.orphans)
        taken == export.page \o visible
        full == Len(taken) >= limit
    IN  /\ export.stage = "window"
        /\ Len(export.page) <= MaxListed
        /\ ceExport' =
             [export EXCEPT
                !.page = IF full /\ export.kind = "page"
                         THEN SubSeq(taken, 1, limit) ELSE taken,
                !.stage = IF \/ export.orphans = {} \/ window = <<>>
                             \/ (full /\ export.kind = "page")
                          THEN "render" ELSE "window",
                !.anchor = IF window = <<>> THEN @ ELSE <<Last(window)>>]
        /\ UNCHANGED <<crGraph, crMerges, crWrite, ceVersion, ceEdits, cePrepared,
                       ceImported>>

\* Faulty: the version is not compared again after the page was read.
ensure_export_version_never == TRUE
\* ensure_export_version
ensure_export_version == ceExport.version = ceVersion

\* The rendering, the cursor, and the version check at the end of both paged
\* exports; the full export has none.
ExportEnd ==
    LET more == ceExport.kind = "page" /\ Len(ceExport.page) > PageLimit
        page == IF more THEN SubSeq(ceExport.page, 1, PageLimit) ELSE ceExport.page
    IN  /\ ceExport.stage = "render"
        /\ ceExport' =
             IF \/ crate_version(crGraph) = {}
                \/ ceExport.kind = "page" /\ ~ensure_export_version
             THEN NoExport
             ELSE [stage |-> "page", kind |-> ceExport.kind,
                   version |-> ceExport.version, base |-> ceExport.base,
                   cursor |-> IF more THEN <<Last(page)>> ELSE <<>>,
                   listed |-> ceExport.listed \o page]
        /\ UNCHANGED <<crGraph, crMerges, crWrite, ceVersion, ceEdits, cePrepared,
                       ceImported>>

CrateEditsNext ==
    \/ \E spec \in Edits.add : add_data_entity(spec)
    \/ \E spec \in Edits.patch : patch_data_entity(spec)
    \/ \E spec \in Edits.context : add_contextual_entity(spec)
    \/ \E spec \in Edits.patch_context : patch_contextual_entity(spec)
    \/ \E edit \in Edits.property : update_property(edit)
    \/ \E edit \in Edits.append : append_entities_under(edit)
    \/ create_crate_version
    \/ \E change \in [triple : Remote, present : BOOLEAN] : RemoteBatch(change)
    \/ \E target \in Documents : PrepareBegin(target)
    \/ PrepareContext \/ PrepareDiff \/ PrepareEnd \/ commit_prepared
    \/ \E kind \in {"page", "full"} : ExportBegin(kind)
    \/ export_page_after \/ ExportContext \/ linked_entity_page \/ ExportEnd

CrateEditsSpec == CrateEditsInit /\ [][CrateEditsNext]_crateEditVars

-----------------------------------------------------------------------------
(* What an export describes: build_export_view and collect_view_entities *)

\* describes_context_entity
describes_context_entity(triples) ==
    \A t \in triples : t[2] = "type" => t[3] \notin {Dataset, MediaObject}

References(graph, orphans, s) ==
    {t[3] : t \in {u \in subject_triples(graph, orphans, s) :
                     u[2] \in {"hasPart", "mentions"}
                       /\ ~(s = Root /\ u[2] = "hasPart")}}

\* collect_view_entities: the contextual entities that the root, the entities
\* of the page, and those entities in turn refer to.
RECURSIVE collect_view_entities(_, _, _, _)
collect_view_entities(graph, orphans, page, expanded) ==
    LET found == {e \in UNION {References(graph, orphans, s) : s \in expanded} \ page :
                    /\ e # Root
                    /\ subject_triples(graph, orphans, e) # {}
                    /\ describes_context_entity(subject_triples(graph, orphans, e))}
    IN  IF found \subseteq expanded THEN expanded \ (page \cup {Root, Metadata})
        ELSE collect_view_entities(graph, orphans, page, expanded \cup found)

\* build_export_view: the subjects that the full export describes.
build_export_view(graph) ==
    LET orphans == crate_ctx(graph)
        page == Range(VisibleLinked(graph))
    IN  {Root, Metadata} \cup page
          \cup collect_view_entities(graph, orphans, page, {Root, Metadata} \cup page)

-----------------------------------------------------------------------------
(* Properties *)

\* The pages of a walk with the export cursor list every visible entity that
\* the root links exactly once, in term order, whatever is written between
\* and during the page reads: a page that would not fit is refused by the
\* cursor's version or by ensure_export_version.
PageWalkIsExact ==
    (ceExport.stage = "page" /\ ceExport.kind = "page") =>
      LET all == VisibleLinked(ceExport.base)
      IN  /\ ceExport.listed = SubSeq(all, 1, Len(ceExport.listed))
          /\ ceExport.cursor = <<>> => ceExport.listed = all

\* A prepared document that commits changes exactly what an import of the same
\* document would change at that moment, computed as create_crate_version
\* does: the orphans, the triples and the version that prepare_jsonld reads
\* one after the other belong to the state that it is applied to.
PreparedIsCurrent ==
    ceImported.stage = "done" =>
      LET before == ceImported.before
          base == replacement_base(before, crate_ctx(before), ceImported.target)
      IN  ceImported.after = (before \ base) \cup ceImported.target

\* A crate edit that names an entity replaces what is stored for it: after an
\* import, whatever the document says of a subject is all that is stored of
\* that subject, hidden or not.
DescribedIsReplaced ==
    ceImported.stage = "done" =>
      \A t \in ceImported.after :
        (\E u \in ceImported.target : u[1] = t[1]) => t \in ceImported.target

\* "Replace the current visible RO-Crate state from a JSON-LD document": after
\* an import readers see the document, and nothing besides it.
ImportReplacesVisible ==
    ceImported.stage = "done" =>
      current_triples(ceImported.after, crate_ctx(ceImported.after))
        = ceImported.target

\* "Export the full visible RO-Crate as JSON-LD": every subject that readers
\* see below the root is described by the full export.
FullExportIsComplete ==
    LET orphans == crate_ctx(crGraph)
        below == collect_descendants(crGraph, {Root}, {})
    IN  \A e \in below : subject_triples(crGraph, orphans, e) # {} =>
          e \in build_export_view(crGraph)

\* The full export lists every entity once, in term order.
FullExportListsOnce ==
    (ceExport.stage = "page" /\ ceExport.kind = "full") =>
      \A i, j \in DOMAIN ceExport.listed :
        i < j => ceExport.listed[i] < ceExport.listed[j]
=============================================================================
