----------------------------- MODULE IndexVerify ----------------------------
(***************************************************************************)
(* Diagnosing the query index (store.rs): verification compares the source *)
(* rows, six orders of index rows, five kinds of counters, the two id      *)
(* mappings and the header with each other, never with a second index.     *)
(* Opening a store decides from the header alone, except that a header of  *)
(* the legacy format is only taken over after a full verification.         *)
(*                                                                         *)
(* The index starts exact and is damaged in up to MaxDamage places, which  *)
(* may hide one another.  A row is a quad of query ids, or <<>> for a key  *)
(* that does not decode; a counter that is absent is -1.                   *)
(***************************************************************************)
EXTENDS QueryRead

CONSTANTS
    SampleRows,     \* QV_SAMPLE_ROWS
    MaxDamage       \* bound: places damaged

\* What the constants satisfy; a module that instantiates this one assumes it.
VerifyAssumption == SampleRows \in Nat /\ MaxDamage \in Nat

VARIABLES
    ivIndex,
    ivDamage,
    ivReport        \* the last diagnosis

ivVars == <<readVars, ivIndex, ivDamage, ivReport>>

Absent == -1

\* The query ids of the terms: dense, and in another order than the terms.
Assigned(t) == IdLimit - 1 - t
IdQuad(q) == [c \in Column |-> Assigned(q[c])]
IdQuads == {IdQuad(q) : q \in Universe}

\* IndexCounterKey, without the total and the union proof.
GroupKey(kind, q) ==
    CASE kind = "g" -> <<kind, q[1]>>
      [] kind = "p" -> <<kind, q[3]>>
      [] kind = "gp" -> <<kind, q[1], q[3]>>
      [] kind = "po" -> <<kind, q[3], q[4]>>
      [] kind = "gpo" -> <<kind, q[1], q[3], q[4]>>
GroupKind == {"g", "p", "gp", "po", "gpo"}
CounterKey == {GroupKey(k, q) : k \in GroupKind, q \in IdQuads}

\* The index a build leaves for a set of live quads.
Exact(live) ==
    LET rows == {IdQuad(q) : q \in live}
        Count(k) == Cardinality({r \in rows : k \in {GroupKey(kind, r) : kind \in GroupKind}})
    IN  [rows |-> [o \in Order |-> rows], soiled |-> [o \in Order |-> {}],
         counters |-> [k \in CounterKey |-> IF Count(k) = 0 THEN Absent ELSE Count(k)],
         total |-> Cardinality(rows),
         union |-> IF \A r, s \in rows : r = s \/ Tail(r) # Tail(s) THEN 1 ELSE 0,
         revised |-> {r[3] : r \in rows},
         forward |-> [t \in Term |-> Assigned(t)], reverse |-> [i \in Term |-> IdLimit - 1 - i],
         debt |-> FALSE,
         header |-> [kind |-> "valid", state |-> "ready", epochs |-> TRUE, generation |-> 1,
                     source |-> Cardinality(rows), indexed |-> Cardinality(rows), next |-> IdLimit]]

-----------------------------------------------------------------------------
(* Verification.                                                                    *)

NoIds == <<>>

\* spaces_query_quad and spaces_source_quad.
Mapped(mapping, q) ==
    IF \E c \in Column : mapping[q[c]] = Absent THEN NoIds ELSE [c \in Column |-> mapping[q[c]]]

\* index_row_sampled: a full verification looks at every row, a quick one at the first.
Sampled(full, keys) == IF full \/ Len(keys) <= SampleRows THEN keys ELSE SubSeq(keys, 1, SampleRows)

\* qv_row_empty.
qv_row_empty(x, o, r) == r \in x.rows[o] \ x.soiled[o]

\* verify_source_rows: every live row has its ids and a row in each order.
verify_source_rows(x, full) ==
    \A q \in Range(Sampled(full, Keys("gspo", rdLive))) :
      LET ids == Mapped(x.forward, q) IN
      ids # NoIds /\ \A o \in Order : qv_row_empty(x, o, ids)

\* verify_qv_rows: every row of an order decodes, is empty and has a live source row; the key that
\* does not decode is the last.
verify_qv_rows(x, o, full) ==
    LET good == Keys(o, x.rows[o] \ {NoIds}) IN
    /\ NoIds \in x.rows[o] => ~ full /\ Len(good) >= SampleRows
    /\ \A key \in Range(Sampled(full, good)) :
         LET r == Decoded(o, key) IN
         r \notin x.soiled[o] /\ Mapped(x.reverse, r) \in rdLive

\* verify_index_counter, verify_gpos_group and verify_posg_group.
verify_index_counter(x, key, expected) == key \in CounterKey /\ x.counters[key] = expected

\* verify_gpos_dimension and verify_posg_dimension: rows in key order, counted until the
\* group changes.
GroupsAgree(x, o, kind) ==
    LET keys == Keys(o, x.rows[o] \ {NoIds})
        Step(acc, key) ==
            LET group == GroupKey(kind, Decoded(o, key)) IN
            IF acc.group = <<>> \/ acc.group = group
            THEN [acc EXCEPT !.group = group, !.count = @ + 1]
            ELSE [group |-> group, count |-> 1,
                  good |-> acc.good /\ verify_index_counter(x, acc.group, acc.count)]
        last == FoldLeft(Step, [group |-> <<>>, count |-> 0, good |-> TRUE], keys)
    IN  last.good /\ (last.group # <<>> => verify_index_counter(x, last.group, last.count))

verify_gpos_dimension(x) == \A kind \in {"g", "gp", "gpo"} : GroupsAgree(x, "gpos", kind)
verify_posg_dimension(x) == \A kind \in {"p", "po"} : GroupsAgree(x, "posg", kind)

\* counter_has_rows: a prefix of gpos, or of posg for the two kinds without a graph.
counter_has_rows(x, key) ==
    LET o == IF key[1] \in {"p", "po"} THEN "posg" ELSE "gpos" IN
    \E r \in x.rows[o] \ {NoIds} : GroupKey(key[1], r) = key

\* index_union_unique: no triple twice in the order that ends in the graph.
index_union_unique(x) == \A r, s \in x.rows["spog"] \ {NoIds} : r = s \/ Tail(r) # Tail(s)

\* Faulty: counters without rows are not looked for.
verify_index_meta_groups(x) ==
    /\ x.total = x.header.indexed
    /\ x.union \in {0, 1} /\ (x.union = 1 => index_union_unique(x))
    /\ \A k \in CounterKey : k[1] = "p" /\ x.counters[k] # Absent => k[2] \in x.revised
    /\ ~ x.debt
\* verify_index_meta: the stored counters, each with its rows, a predicate's with a revision.
verify_index_meta(x) ==
    /\ x.total = x.header.indexed
    /\ x.union \in {0, 1} /\ (x.union = 1 => index_union_unique(x))
    /\ \A k \in CounterKey : x.counters[k] # Absent =>
         /\ x.counters[k] # 0 /\ counter_has_rows(x, k)
         /\ k[1] = "p" => k[2] \in x.revised
    /\ ~ x.debt

\* verify_id_mappings: each other's inverse, as many as the header says.
verify_id_mappings(x) ==
    LET Undone(f, g) == \A a \in Term : f[a] # Absent => g[f[a]] = a
        Size(f) == Cardinality({a \in Term : f[a] # Absent})
    IN  /\ Undone(x.forward, x.reverse) /\ Undone(x.reverse, x.forward)
        /\ \A t \in Term : x.forward[t] < x.header.next
        /\ Size(x.forward) = Size(x.reverse) /\ x.header.next = Size(x.forward)

\* A union proof over a row that does not decode ends the verification with an error, unless a triple
\* that is there twice was met first.
VerifyFails(x, full) == full /\ x.union = 1 /\ NoIds \in x.rows["spog"] /\ index_union_unique(x)

\* The header's part of verify_index_snapshot: `epochs' says that the two epochs are equal and that
\* they and the build are not ahead of the snapshot.  The generation of the ids is not looked at.
HeaderAgrees(x, rows) ==
    /\ x.header.kind \in {"valid", "legacy"} /\ x.header.state = "ready" /\ x.header.epochs
    /\ x.header.source = Cardinality(rdLive) /\ x.header.indexed = rows
    /\ x.header.source = x.header.indexed

\* verify_index_snapshot.
verify_index_snapshot(x, full) ==
    LET rows == Cardinality(x.rows["gpos"]) IN
    /\ verify_source_rows(x, full)
    /\ \A o \in Order : verify_qv_rows(x, o, full) /\ Cardinality(x.rows[o]) = rows
    /\ HeaderAgrees(x, rows)
    /\ full => /\ verify_gpos_dimension(x) /\ verify_posg_dimension(x)
               /\ verify_index_meta(x) /\ verify_id_mappings(x)

-----------------------------------------------------------------------------
(* Status and opening.                                                              *)

\* header_admission with ready_is_coherent and fits_snapshot: from the header and the total alone.
header_admission(x) ==
    /\ x.header.kind = "valid" /\ x.header.state = "ready"
    /\ x.header.epochs /\ x.header.generation # 0
    /\ x.header.source = x.header.indexed /\ x.total = x.header.indexed

\* snapshot_admission.
snapshot_admission(x) == ~ x.debt /\ header_admission(x)

\* index_status_fast.
index_status_fast(x) ==
    CASE x.header.kind = "absent" -> "missing"
      [] x.header.kind \in {"malformed", "legacy"} -> "failed"
      [] OTHER -> IF x.header.state = "ready" /\ ~ header_admission(x) THEN "failed" ELSE x.header.state

\* Faulty: only the rows are counted.
query_index_status_rows(x) ==
    CASE x.header.kind = "absent" -> "missing"
      [] x.header.kind \in {"malformed", "legacy"} -> "failed"
      [] OTHER -> IF x.header.state = "ready" /\ \E o \in Order : Cardinality(x.rows[o]) # x.header.indexed
                  THEN "failed" ELSE x.header.state
\* query_index_status: it also counts the rows.
query_index_status(x) ==
    LET matches_rows ==
            /\ header_admission(x) /\ x.header.source = Cardinality(rdLive)
            /\ \A o \in Order : /\ Cardinality(x.rows[o]) = x.header.indexed
                                /\ NoIds \notin x.rows[o] /\ x.soiled[o] \cap x.rows[o] = {}
    IN  CASE x.header.kind = "absent" -> "missing"
          [] x.header.kind \in {"malformed", "legacy"} -> "failed"
          [] OTHER -> IF x.header.state = "ready" /\ ~ matches_rows THEN "failed" ELSE x.header.state

EmptyHeader ==
    [kind |-> "valid", state |-> "ready", epochs |-> TRUE, generation |-> 1,
     source |-> 0, indexed |-> 0, next |-> 0]

\* stage_index_failure: the header that could be read, or an empty one, marked as failed.
Fail(x) ==
    LET previous == IF x.header.kind \in {"valid", "legacy"} THEN x.header ELSE EmptyHeader
    IN  [x EXCEPT !.header = [previous EXCEPT !.kind = "valid", !.state = "failed"]]

\* Faulty: a quick verification will do.
certify_legacy_header_quick(x) ==
    IF x.header.state # "ready" \/ (~ VerifyFails(x, FALSE) /\ verify_index_snapshot(x, FALSE))
    THEN [x EXCEPT !.header.kind = "valid"]
    ELSE Fail(x)
\* certify_legacy_header; an error leaves the header as it is.
certify_legacy_header(x) ==
    IF x.header.state # "ready" THEN [x EXCEPT !.header.kind = "valid"]
    ELSE IF VerifyFails(x, TRUE) THEN x
    ELSE IF verify_index_snapshot(x, TRUE) THEN [x EXCEPT !.header.kind = "valid"]
    ELSE Fail(x)

\* index_spaces_empty.
index_spaces_empty(x) ==
    /\ \A o \in Order : x.rows[o] = {}
    /\ \A k \in CounterKey : x.counters[k] = Absent
    /\ x.total = Absent /\ x.union = Absent /\ x.revised = {}
    /\ \A t \in Term : x.forward[t] = Absent /\ x.reverse[t] = Absent

EmptyReady(x) == [x EXCEPT !.header = EmptyHeader, !.total = 0, !.union = 1]

\* A store that was never opened has none of it.
New == [Exact({}) EXCEPT !.total = Absent, !.union = Absent, !.header.kind = "absent",
                         !.forward = [t \in Term |-> Absent], !.reverse = [t \in Term |-> Absent]]

\* initialize_indexes.
initialize_indexes(x) ==
    IF x.debt THEN [Fail(x) EXCEPT !.debt = FALSE]
    ELSE CASE x.header.kind = "absent" ->
                IF rdLive # {} THEN x
                ELSE IF ~ index_spaces_empty(x) THEN Fail(x) ELSE EmptyReady(x)
           [] x.header.kind = "malformed" -> Fail(x)
           [] x.header.kind = "legacy" -> certify_legacy_header(x)
           [] OTHER -> IF x.header.state = "ready" /\ ~ snapshot_admission(x) THEN Fail(x) ELSE x

-----------------------------------------------------------------------------
NoReport == [call |-> "none"]

\* Damage: a row, a value, a counter, a mapping, or the metadata.
DamagedRow(x) ==
    {[x EXCEPT !.rows[o] = SymDiff(@, {r}), !.soiled[o] = @ \ {r}] : o \in Order, r \in IdQuads \cup {NoIds}}
      \cup {[x EXCEPT !.soiled[o] = x.rows[o] \ {NoIds}] : o \in Order}

DamagedIds(x) ==
    {[x EXCEPT !.forward[t] = v] : t \in {0, 3}, v \in {Absent, 0, 1, 3}}
      \cup {[x EXCEPT !.reverse[t] = v] : t \in {0, 1}, v \in {Absent, 0, 3}}
      \cup {[x EXCEPT !.header.next = v] : v \in {IdLimit - 1, IdLimit + 1}}

DamagedMeta(x) ==
    {[x EXCEPT !.counters[k] = v] : k \in CounterKey, v \in {Absent, 0, 1, 2}}
      \cup {[x EXCEPT !.total = v] : v \in {Absent, 0, 1, 2}}
      \cup {[x EXCEPT !.union = v] : v \in {Absent, 0, 1, 2}}
      \cup {[x EXCEPT !.revised = {}], [x EXCEPT !.debt = TRUE]}
      \cup {[x EXCEPT !.header.kind = v] : v \in {"legacy", "absent", "malformed"}}
      \cup {[x EXCEPT !.header.state = v] : v \in {"building", "failed"}}
      \cup {[x EXCEPT !.header.epochs = FALSE], [x EXCEPT !.header.generation = 0]}
      \cup {[x EXCEPT !.header.source = v] : v \in {0, 1, 2}}
      \cup {[x EXCEPT !.header.indexed = v] : v \in {0, 1, 2}}

Damage ==
    /\ ivDamage < MaxDamage /\ ivReport = NoReport
    /\ ivIndex' \in DamagedRow(ivIndex) \cup DamagedIds(ivIndex) \cup DamagedMeta(ivIndex)
    /\ ivDamage' = ivDamage + 1
    /\ UNCHANGED <<readVars, ivReport>>

\* verify_query_indexes; the index is not changed.
verify_query_indexes ==
    /\ ivReport = NoReport
    /\ \E full \in BOOLEAN :
         ivReport' = [call |-> "verify", full |-> full,
                      error |-> VerifyFails(ivIndex, full),
                      valid |-> verify_index_snapshot(ivIndex, full)]
    /\ UNCHANGED <<readVars, ivIndex, ivDamage>>

\* Both ways of asking for the status.
ReportStatus ==
    /\ ivReport = NoReport
    /\ ivReport' = [call |-> "status", fast |-> index_status_fast(ivIndex), counted |-> query_index_status(ivIndex)]
    /\ UNCHANGED <<readVars, ivIndex, ivDamage>>

OpenIndexes ==
    /\ ivReport = NoReport
    /\ ivIndex' = initialize_indexes(ivIndex)
    /\ ivReport' = [call |-> "open", was |-> ivIndex.header.kind]
    /\ UNCHANGED <<readVars, ivDamage>>

\* A store with an exact index, or a new one.
VerifyInit ==
    /\ rdRead = NoRead /\ rdLive \in SUBSET Universe
    /\ ivDamage = 0 /\ ivReport = NoReport
    /\ ivIndex \in {Exact(rdLive)} \cup (IF rdLive = {} THEN {New} ELSE {})

VerifyNext == Damage \/ verify_query_indexes \/ ReportStatus \/ OpenIndexes

VerifySpec == VerifyInit /\ [][VerifyNext]_ivVars

-----------------------------------------------------------------------------
\* What a build would have left, up to a union proof that was given up, a revision that was kept, and
\* the format and the generation of the header.
IsExact(x) ==
    LET e == Exact(rdLive) IN
    /\ \A o \in Order : x.rows[o] = e.rows[o] /\ x.soiled[o] \cap x.rows[o] = {}
    /\ x.counters = e.counters /\ x.total = e.total /\ x.union \in {0, e.union}
    /\ e.revised \subseteq x.revised /\ ~ x.debt
    /\ x.forward = e.forward /\ x.reverse = e.reverse
    /\ x.header = [e.header EXCEPT !.kind = x.header.kind, !.generation = x.header.generation]
    /\ x.header.kind \in {"valid", "legacy"}

\* A full verification accepts exactly the indexes a rebuild would produce, although it only compares
\* the parts with each other: no damage hides another.  A quick one never accuses such an index.  Queries
\* use an index that a full verification accepts, unless its header is of the legacy format or has lost
\* its generation, which the verification does not look at.
VerdictIsExact ==
    ivReport.call = "verify" =>
      /\ ivReport.full /\ ~ ivReport.error => (ivReport.valid <=> IsExact(ivIndex))
      /\ IsExact(ivIndex) => ~ ivReport.error /\ ivReport.valid
      /\ ivReport.full /\ ~ ivReport.error /\ ivReport.valid =>
           (snapshot_admission(ivIndex) <=> ivIndex.header.kind = "valid" /\ ivIndex.header.generation # 0)

\* After opening the fast status tells the truth, for no debt survives: it says ready exactly when
\* queries use the index.  A header left ready is used, unless it was of the legacy format and had lost
\* its generation; over a legacy header it stands for an exact index, and over none for a new store.
OpenedIsExact ==
    ivReport.call = "open" =>
      /\ index_status_fast(ivIndex) = "ready" <=> snapshot_admission(ivIndex)
      /\ ivIndex.header.kind = "valid" /\ ivIndex.header.state = "ready" =>
           /\ snapshot_admission(ivIndex) \/ (ivReport.was = "legacy" /\ ivIndex.header.generation = 0)
           /\ ivReport.was = "legacy" => IsExact(ivIndex)
           /\ ivReport.was = "absent" => rdLive = {} /\ ivIndex = EmptyReady(New)

\* The status that counts the rows is never better than the one taken from the metadata, and neither
\* reports an exact index that is in use as anything but ready.  A ready status means that queries use
\* the index except while a debt is pending, at which neither status looks.
StatusesAgree ==
    ivReport.call = "status" =>
      /\ ivReport.counted = "ready" => ivReport.fast = "ready"
      /\ ivReport.fast = "ready" => (snapshot_admission(ivIndex) <=> ~ ivIndex.debt)
      /\ snapshot_admission(ivIndex) => ivReport.fast = "ready"
      /\ IsExact(ivIndex) /\ snapshot_admission(ivIndex) => ivReport.counted = "ready"

=============================================================================
