-------------------------- MODULE QueryIndexProofs --------------------------
(***************************************************************************)
(* Any writers, commits, delta limits and faults: IndexInv is invariant.   *)
(* So a trusted index lists exactly the live quads unless a failure was    *)
(* written over, and a rebuild publishes exactly the live quads.           *)
(*                                                                         *)
(* One lemma per action, with one step for each part of the invariant.     *)
(***************************************************************************)
EXTENDS QueryIndex, SequenceTheorems, TLAPS

-----------------------------------------------------------------------------
(* The writers.                                                            *)

LEMMA SlotFacts ==
    \A s \in Slot : other(s) \in Slot /\ other(s) # s /\ other(other(s)) = s
  BY DEF Slot, other

LEMMA NoBuildFacts == NoBuild \in QueryBuildRecord /\ ~NoBuild.on
  BY DEF NoBuild, QueryBuildRecord, IndexHeader, empty_ready, Slot

\* A transition changes the listing of its own quad only.
LEMMA RowFacts ==
    ASSUME NEW listed \in SUBSET Writer, NEW t \in NetQuadTransition
    PROVE  /\ apply_row(listed, t) \in SUBSET Writer
           /\ \A q \in Writer : q \in apply_row(listed, t) <=>
                 IF q = t.quad THEN t.is_live ELSE q \in listed
  BY Zenon DEF apply_row, NetQuadTransition

LEMMA ChangeFacts ==
    ASSUME NEW w \in Writer
    PROVE  /\ Change(w) \in NetQuadTransition
           /\ Change(w).quad = w
           /\ Change(w).is_live <=> w \notin live
  BY Zenon DEF Change, NetQuadTransition

\* The update planned on a header of the active slot: it changes one row of that slot
\* and makes a failed header ready only by setting revived.
LEMMA PlanKeeps ==
    ASSUME TypeOK, NEW h \in IndexHeader, h.slot = header.slot,
           NEW t \in NetQuadTransition, stage_index_update(h, t)
    PROVE  /\ header' \in IndexHeader /\ header'.slot = header.slot
           /\ rows' \in [Slot -> SUBSET Writer]
           /\ revived' \in BOOLEAN
           /\ \A s \in Slot : s # header.slot => rows'[s] = rows[s]
           /\ h.state = "Ready" => \A q \in Writer : q \in rows'[header.slot] <=>
                 IF q = t.quad THEN t.is_live ELSE q \in rows[header.slot]
           /\ header'.state = "Ready" /\ ~revived' => header.state = "Ready" /\ ~revived
           /\ header.state = "Failed" /\ ~revived' => header'.state = "Failed"
  <1> USE DEF IndexHeader
  <1>1. header \in IndexHeader /\ header.slot \in Slot /\ rows[header.slot] \in SUBSET Writer
    BY Zenon DEF TypeOK
  <1>2. CASE h.state # "Ready"
    <2>1. UNCHANGED <<rows, header, revived>>
      BY <1>2, Zenon DEF stage_index_update
    <2> QED  BY <1>2, <2>1, <1>1, Zenon DEF TypeOK
  <1>3. CASE h.state = "Ready"
    <2>1. rows' = [rows EXCEPT ![header.slot] = apply_row(rows[header.slot], t)]
      BY <1>3, Zenon DEF stage_index_update
    <2>2. /\ rows' \in [Slot -> SUBSET Writer]
          /\ \A s \in Slot : s # header.slot => rows'[s] = rows[s]
          /\ rows'[header.slot] = apply_row(rows[header.slot], t)
      BY <1>1, <2>1, RowFacts, ZenonT(30) DEF TypeOK
    <2>3. \A q \in Writer : q \in rows'[header.slot] <=>
             IF q = t.quad THEN t.is_live ELSE q \in rows[header.slot]
      BY <1>1, <2>2, RowFacts
    <2>4. CASE Covered(h.slot, t)
      <3>1. UNCHANGED <<header, revived>>
        BY <1>3, <2>4, Zenon DEF stage_index_update
      <3> QED  BY <1>1, <2>2, <2>3, <3>1, Zenon DEF TypeOK
    <2>5. CASE ~Covered(h.slot, t)
      <3>1. header' = [h EXCEPT !.epoch = @ + 1] /\ revived' = (revived \/ header.state = "Failed")
        BY <1>3, <2>5, Zenon DEF stage_index_update
      <3>2. header' \in IndexHeader /\ header'.slot = header.slot
        BY <3>1
      <3>3. revived' \in BOOLEAN /\ (~revived' => ~revived /\ header.state # "Failed")
        BY <3>1, Zenon DEF TypeOK
      <3> QED  BY <1>1, <1>3, <2>2, <2>3, <3>2, <3>3, Zenon
    <2> QED  BY <2>4, <2>5, Zenon
  <1> QED  BY <1>2, <1>3, Zenon

\* The delta of a commit: a build keeps its slot, its phase and its cursor, or goes away
\* and leaves a cleanup record for its slot.
LEMMA DeltaKeeps ==
    ASSUME TypeOK, TargetsInactive, NEW t \in NetQuadTransition, stage_query_delta(t)
    PROVE  /\ build' \in QueryBuildRecord
           /\ deltas' \in Seq(NetQuadTransition)
           /\ cleanup' \subseteq Slot
           /\ header.slot \notin cleanup'
           /\ build'.on => build.on /\ build'.slot = build.slot /\ build'.phase = build.phase
                            /\ build'.replay_cursor = build.replay_cursor
           /\ ~build.on \/ build.phase = "Clear" => UNCHANGED <<build, deltas>>
           /\ build'.on /\ build.phase # "Clear" => build'.next_delta = build.next_delta + 1
  <1>1. CASE ~build.on \/ build.phase = "Clear"
    BY <1>1, Zenon DEF stage_query_delta, TypeOK, TargetsInactive
  <1>2. CASE build.on /\ build.phase # "Clear" /\ build.next_delta > DeltaLimit
    <2>1. build' = NoBuild /\ cleanup' = {build.slot} /\ UNCHANGED deltas
      BY <1>2, Zenon DEF stage_query_delta
    <2>2. build.slot \in Slot /\ header.slot \in Slot
      BY Zenon DEF TypeOK, QueryBuildRecord, IndexHeader
    <2> QED  BY <1>2, <2>1, <2>2, NoBuildFacts, SlotFacts, Zenon DEF TypeOK, TargetsInactive
  <1>3. CASE build.on /\ build.phase # "Clear" /\ ~(build.next_delta > DeltaLimit)
    <2>1. /\ build' = [build EXCEPT !.next_delta = @ + 1]
          /\ deltas' = IF build.next_delta <= Len(deltas)
                       THEN [deltas EXCEPT ![build.next_delta] = t] ELSE Append(deltas, t)
          /\ UNCHANGED cleanup
      BY <1>3, Zenon DEF stage_query_delta
    <2>a. build \in QueryBuildRecord /\ build.next_delta \in Nat \ {0}
          /\ deltas \in Seq(NetQuadTransition)
      BY Zenon DEF TypeOK, QueryBuildRecord
    <2>2. build' \in QueryBuildRecord
      BY <2>1, <2>a DEF QueryBuildRecord
    <2>3. deltas' \in Seq(NetQuadTransition)
      <3>1. CASE build.next_delta <= Len(deltas)
        BY <2>1, <2>a, <3>1, ExceptSeq
      <3>2. CASE ~(build.next_delta <= Len(deltas))
        BY <2>1, <2>a, <3>2
      <3> QED  BY <3>1, <3>2, Zenon
    <2> QED  BY <1>3, <2>1, <2>2, <2>3, Zenon DEF TypeOK, QueryBuildRecord, TargetsInactive
  <1> QED  BY <1>1, <1>2, <1>3, Zenon

\* A queued delta is the last one, and leaves the earlier ones as they are.
LEMMA DeltaQueued ==
    ASSUME TypeOK, NEW t \in NetQuadTransition, stage_query_delta(t),
           build.on, build.phase # "Clear", build'.on,
           build.replay_cursor < build.next_delta, build.next_delta <= Len(deltas) + 1
    PROVE  /\ build.next_delta <= Len(deltas')
           /\ deltas'[build.next_delta] = t
           /\ \A i \in 1 .. build.next_delta - 1 : deltas'[i] = deltas[i]
  <1>1. ~(build.next_delta > DeltaLimit)
    BY NoBuildFacts, Zenon DEF stage_query_delta
  <1>2. deltas' = IF build.next_delta <= Len(deltas)
                  THEN [deltas EXCEPT ![build.next_delta] = t] ELSE Append(deltas, t)
    BY <1>1, Zenon DEF stage_query_delta
  <1>3. build.next_delta \in Nat /\ build.replay_cursor \in Nat /\ deltas \in Seq(NetQuadTransition)
    BY Zenon DEF TypeOK, QueryBuildRecord
  <1>4. CASE build.next_delta <= Len(deltas)
    BY <1>2, <1>3, <1>4
  <1>5. CASE build.next_delta = Len(deltas) + 1
    BY <1>2, <1>3, <1>5
  <1> QED  BY <1>3, <1>4, <1>5

\* What the parts of the invariant depend on.
LEMMA DebtsFrame ==
    ASSUME DebtsOK, UNCHANGED <<debts, seq, pc, owed>>
    PROVE  DebtsOK'
  BY Zenon DEF DebtsOK, Owing

LEMMA ReadyFrame ==
    ASSUME ReadyOK, UNCHANGED <<live, header, debts, pc, owed, revived>>,
           rows'[header.slot] = rows[header.slot]
    PROVE  ReadyOK'
  <1>1. Owing' = Owing /\ Stranded' = Stranded
    BY Zenon DEF Owing, Stranded
  <1> QED  BY <1>1, Zenon DEF ReadyOK

LEMMA LocksFrame ==
    ASSUME LocksOK, UNCHANGED <<header, pc, seen, gate>>, build'.on => build.on,
           wpc' \notin {"verify", "switch"}
    PROVE  LocksOK'
  BY Zenon DEF LocksOK, Owing

LEMMA CandidateFrame ==
    ASSUME CandidateOK, UNCHANGED <<live, header, rows, build, deltas, wpc, todo, target>>
    PROVE  CandidateOK'
  BY DEF CandidateOK, Queued


\* At the switch all deltas are replayed, and the candidate lists the live quads.
LEMMA CandidateIsLive ==
    ASSUME IndexInv, SwitchSlot
    PROVE  rows[other(header.slot)] = live
  <1>0. TypeOK /\ LocksOK /\ CandidateOK
    BY Zenon DEF IndexInv
  <1>1. /\ build.on /\ target = build.next_delta - 1 /\ build.replay_cursor >= target
        /\ build.next_delta \in Nat /\ build.replay_cursor \in Nat /\ other(header.slot) \in Slot
    BY <1>0, SlotFacts, Zenon DEF SwitchSlot, LocksOK, TypeOK, IndexHeader, QueryBuildRecord
  <1>2. \A quad \in Writer : Queued(quad) = {}
    BY <1>1 DEF Queued
  <1>3. \A quad \in Writer : quad \in live <=> quad \in rows[other(header.slot)]
    BY <1>0, <1>1, <1>2, Zenon DEF SwitchSlot, CandidateOK
  <1>4. live \subseteq Writer /\ rows[other(header.slot)] \subseteq Writer
    BY <1>0, <1>1, Zenon DEF TypeOK
  <1> QED  BY <1>3, <1>4, Zenon

\* Replaying a delta corrects its quad in the candidate, or leaves that to a later one.
LEMMA ReplayKeeps ==
    ASSUME IndexInv, build.on, wpc \in {"replay", "verify", "switch"},
           build.replay_cursor < target, replay_query_delta,
           UNCHANGED <<live, header, deltas, todo, target, wpc>>
    PROVE  /\ rows' \in [Slot -> SUBSET Writer] /\ build' \in QueryBuildRecord /\ cand' \in Nat
           /\ rows'[header.slot] = rows[header.slot]
           /\ build'.on /\ build'.slot = build.slot /\ build'.next_delta = build.next_delta
           /\ CandidateOK'
  <1> DEFINE t == deltas[build.replay_cursor + 1]
             slot == other(header.slot)
  <1>0. TypeOK /\ TargetsInactive /\ CandidateOK
    BY Zenon DEF IndexInv
  <1>1. /\ build \in QueryBuildRecord /\ deltas \in Seq(NetQuadTransition) /\ cand \in Nat
        /\ header.slot \in Slot /\ slot \in Slot /\ slot # header.slot
        /\ rows \in [Slot -> SUBSET Writer] /\ target \in Nat
    BY <1>0, SlotFacts, Zenon DEF TypeOK, IndexHeader
  <1>2. /\ build.phase # "Clear" /\ build.replay_cursor < build.next_delta
        /\ build.next_delta <= Len(deltas) + 1 /\ todo = {} /\ target <= build.next_delta - 1
    BY <1>0, Zenon DEF CandidateOK
  <1>3. /\ build.replay_cursor \in Nat /\ build.next_delta \in Nat
        /\ build.replay_cursor + 1 \in 1 .. Len(deltas)
        /\ build.replay_cursor + 1 <= build.next_delta - 1
    BY <1>1, <1>2 DEF QueryBuildRecord
  <1>4. t \in NetQuadTransition
    BY <1>1, <1>3
  <1>5. /\ rows' = [rows EXCEPT ![slot] = apply_row(rows[slot], t)]
        /\ cand' \in Nat
        /\ build' = [build EXCEPT !.replay_cursor = @ + 1, !.phase = "Replay"]
    BY <1>1 DEF replay_query_delta
  <1>6. /\ rows' \in [Slot -> SUBSET Writer] /\ rows'[header.slot] = rows[header.slot]
        /\ rows'[slot] = apply_row(rows[slot], t)
    BY <1>1, <1>4, <1>5, RowFacts
  <1>7. /\ build' \in QueryBuildRecord /\ build'.on /\ build'.slot = build.slot
        /\ build'.next_delta = build.next_delta /\ build'.phase = "Replay"
        /\ build'.replay_cursor = build.replay_cursor + 1
    <2>1. build.replay_cursor + 1 \in Nat
      BY <1>3
    <2>2. build' = [on |-> build.on, phase |-> "Replay", slot |-> build.slot,
                    next_delta |-> build.next_delta, replay_cursor |-> build.replay_cursor + 1,
                    trusted |-> build.trusted, digest |-> build.digest]
      BY <1>1, <1>5, Zenon DEF QueryBuildRecord
    <2> QED  BY <1>1, <2>1, <2>2, Zenon DEF QueryBuildRecord
  <1>8. \A quad \in Writer : Queued(quad)' = Queued(quad) \ {build.replay_cursor + 1}
    BY <1>3, <1>7 DEF Queued
  <1>9. ASSUME NEW quad \in Writer
        PROVE  /\ Queued(quad)' = {} => (quad \in live' <=> quad \in rows'[slot] \cup todo')
               /\ \A i \in Queued(quad)' : (\A j \in Queued(quad)' : j <= i) =>
                     (deltas'[i].is_live <=> quad \in live')
    <2>1. /\ Queued(quad) = {} => (quad \in live <=> quad \in rows[slot])
          /\ \A i \in Queued(quad) : (\A j \in Queued(quad) : j <= i) =>
                (deltas[i].is_live <=> quad \in live)
      BY <1>0, <1>2, Zenon DEF CandidateOK
    <2>2. quad \in rows'[slot] <=> IF quad = t.quad THEN t.is_live ELSE quad \in rows[slot]
      BY <1>1, <1>4, <1>6, RowFacts
    <2>3. CASE quad # t.quad
      <3>1. Queued(quad)' = Queued(quad)
        BY <1>8, <2>3, Zenon DEF Queued
      <3> QED  BY <1>2, <2>1, <2>2, <2>3, <3>1, Zenon
    <2>4. CASE quad = t.quad
      <3>1. build.replay_cursor + 1 \in Queued(quad)
        BY <1>3, <2>4 DEF Queued
      <3>2. \A i \in Queued(quad) : i \in Int /\ build.replay_cursor + 1 <= i
        BY <1>3 DEF Queued
      <3>3. CASE Queued(quad)' = {}
        <4>1. \A j \in Queued(quad) : j <= build.replay_cursor + 1
          BY <1>3, <1>8, <3>3
        <4> QED  BY <1>2, <2>1, <2>2, <2>4, <3>1, <3>3, <4>1, Zenon
      <3>4. CASE Queued(quad)' # {}
        <4>1. ASSUME NEW i \in Queued(quad)', \A j \in Queued(quad)' : j <= i
              PROVE  deltas'[i].is_live <=> quad \in live'
          <5>1. i \in Queued(quad) /\ \A j \in Queued(quad) : j <= i
            BY <1>8, <3>2, <4>1, Zenon
          <5> QED  BY <2>1, <5>1, Zenon
        <4> QED  BY <3>4, <4>1, Zenon
      <3> QED  BY <3>3, <3>4, Zenon
    <2> QED  BY <2>3, <2>4, Zenon
  <1>10. CandidateOK'
    <2>1. build'.replay_cursor < build'.next_delta
      BY <1>2, <1>3, <1>7
    <2> QED  BY <1>2, <1>7, <1>9, <2>1, Zenon DEF CandidateOK
  <1> QED  BY <1>5, <1>6, <1>7, <1>10, Zenon

-----------------------------------------------------------------------------
(* Writers.                                                                *)

LEMMA Enter_preserves ==
    ASSUME IndexInv, NEW w \in Writer, Enter(w)
    PROVE  IndexInv'
  <1>0. TypeOK /\ TargetsInactive /\ DebtsOK /\ LocksOK /\ ReadyOK /\ CandidateOK
    BY Zenon DEF IndexInv
  <1>1. TypeOK'
    <2>1. pc' \in [Writer -> {"idle", "wait", "owner", "debtor", "owes", "repair", "lost", "fail"}]
      BY <1>0, Zenon DEF Enter, TypeOK
    <2>2. gate' \subseteq Writer \cup {Worker} /\ seen' \in [Writer -> IndexHeader]
      BY <1>0, Zenon DEF Enter, TypeOK
    <2> QED  BY <1>0, <2>1, <2>2, Zenon DEF durable, WorkerLocals, WriterLocals, Enter, TypeOK
  <1>2. TargetsInactive'
    BY <1>0, Zenon DEF durable, Enter, TargetsInactive
  <1>3. DebtsOK'
    BY <1>0 DEF durable, Enter, DebtsOK, Owing
  <1>4. LocksOK'
    <2>1. CASE gate = {}
      BY <1>0, <2>1, WorkerAssumption, ZenonT(30) DEF durable, WorkerLocals, Enter, TypeOK, LocksOK, Owing
    <2>2. CASE gate # {}
      BY <1>0, <2>2 DEF durable, WorkerLocals, Enter, TypeOK, LocksOK, Owing
    <2> QED  BY <2>1, <2>2, Zenon
  <1>5. ReadyOK'
    BY <1>0 DEF durable, Enter, ReadyOK, Owing, Stranded
  <1>6. CandidateOK'
    BY <1>0, WorkerAssumption, BoundAssumption DEF durable, WorkerLocals, Enter, CandidateOK,
        Queued
  <1> QED  BY <1>1, <1>2, <1>3, <1>4, <1>5, <1>6, Zenon DEF IndexInv

LEMMA Granted_preserves ==
    ASSUME IndexInv, NEW w \in Writer, Granted(w)
    PROVE  IndexInv'
  <1>0. TypeOK /\ TargetsInactive /\ DebtsOK /\ LocksOK /\ ReadyOK /\ CandidateOK
    BY Zenon DEF IndexInv
  <1>1. TypeOK'
    BY <1>0, Zenon DEF durable, WorkerLocals, Granted, TypeOK
  <1>2. TargetsInactive'
    BY <1>0, Zenon DEF durable, Granted, TargetsInactive
  <1>3. DebtsOK'
    BY <1>0 DEF durable, Granted, DebtsOK, Owing
  <1>4. LocksOK'
    BY <1>0, Zenon DEF durable, WorkerLocals, Granted, TypeOK, LocksOK, Owing
  <1>5. ReadyOK'
    BY <1>0 DEF durable, Granted, ReadyOK, Owing, Stranded
  <1>6. CandidateOK'
    BY <1>0 DEF durable, WorkerLocals, Granted, CandidateOK, Queued
  <1> QED  BY <1>1, <1>2, <1>3, <1>4, <1>5, <1>6, Zenon DEF IndexInv

LEMMA TimesOut_preserves ==
    ASSUME IndexInv, NEW w \in Writer, TimesOut(w)
    PROVE  IndexInv'
  <1>0. TypeOK /\ TargetsInactive /\ DebtsOK /\ LocksOK /\ ReadyOK /\ CandidateOK
    BY Zenon DEF IndexInv
  <1>1. TypeOK'
    BY <1>0, Zenon DEF durable, WorkerLocals, TimesOut, TypeOK
  <1>2. TargetsInactive'
    BY <1>0, Zenon DEF durable, TimesOut, TargetsInactive
  <1>3. DebtsOK'
    BY <1>0 DEF durable, TimesOut, DebtsOK, Owing
  <1>4. LocksOK'
    BY <1>0 DEF durable, WorkerLocals, TimesOut, LocksOK, Owing
  <1>5. ReadyOK'
    BY <1>0 DEF durable, TimesOut, ReadyOK, Owing, Stranded
  <1>6. CandidateOK'
    BY <1>0 DEF durable, WorkerLocals, TimesOut, CandidateOK, Queued
  <1> QED  BY <1>1, <1>2, <1>3, <1>4, <1>5, <1>6, Zenon DEF IndexInv

\* The owner of the gate has staged on the current header, but for a failure recorded
\* since; its quad is right afterwards in the active slot, and by the delta it queues.
LEMMA CommitOwned_preserves ==
    ASSUME IndexInv, NEW w \in Writer, CommitOwned(w)
    PROVE  IndexInv'
  <1>0. TypeOK /\ TargetsInactive /\ DebtsOK /\ LocksOK /\ ReadyOK /\ CandidateOK
    BY Zenon DEF IndexInv
  <1>a. /\ seen[w] \in IndexHeader /\ seen[w].slot = header.slot /\ Change(w) \in NetQuadTransition
        /\ header.slot \in Slot /\ gate = {w}
        /\ seen[w].state = "Failed" => header.state = "Failed"
    BY <1>0, ChangeFacts, Zenon DEF CommitOwned, TypeOK, LocksOK, IndexHeader, NetQuadTransition
  <1>b. stage_index_update(seen[w], Change(w)) /\ stage_query_delta(Change(w))
    BY Zenon DEF CommitOwned, stage_index_update
  <1>1. TypeOK'
    <2>1. header' \in IndexHeader /\ rows' \in [Slot -> SUBSET Writer] /\ revived' \in BOOLEAN
      BY <1>0, <1>a, <1>b, PlanKeeps, Zenon
    <2>2. /\ build' \in QueryBuildRecord /\ deltas' \in Seq(NetQuadTransition)
          /\ cleanup' \subseteq Slot
      BY <1>0, <1>a, <1>b, DeltaKeeps, Zenon
    <2>3. live' \subseteq Writer
      BY <1>0, <1>a, RowFacts, Zenon DEF CommitOwned, TypeOK
    <2> QED  BY <1>0, <2>1, <2>2, <2>3 DEF durable, WorkerLocals, WriterLocals, CommitOwned, TypeOK
  <1>2. TargetsInactive'
    BY <1>0, <1>a, <1>b, PlanKeeps, DeltaKeeps, Zenon DEF TargetsInactive
  <1>3. DebtsOK'
    BY <1>0 DEF CommitOwned, TypeOK, DebtsOK, Owing
  <1>4. LocksOK'
    <2>1. header'.slot = header.slot
      BY <1>0, <1>a, <1>b, PlanKeeps, Zenon
    <2>2. build'.on => build.on
      BY <1>0, <1>a, <1>b, DeltaKeeps, Zenon
    <2>3. \A v \in Writer : v # w => pc'[v] = pc[v] /\ pc[v] \notin {"owner", "repair"}
      BY <1>0, <1>a, Zenon DEF CommitOwned, TypeOK, LocksOK
    <2>4. pc'[w] = "idle" /\ wpc \notin {"verify", "switch"}
      BY <1>0, <1>a, WorkerAssumption, Zenon DEF CommitOwned, TypeOK, LocksOK
    <2> QED  BY <1>0, <2>1, <2>2, <2>3, <2>4, Zenon DEF CommitOwned, WorkerLocals, LocksOK, Owing
  <1>5. ReadyOK'
    <2> SUFFICES ASSUME header'.state = "Ready", ~revived', NEW q \in Writer
                 PROVE  \/ (q \in rows'[header'.slot] <=> q \in live')
                        \/ q \in Owing' \/ Stranded' # {}
      BY Zenon DEF ReadyOK
    <2>1. header.state = "Ready" /\ ~revived /\ header'.slot = header.slot
      BY <1>0, <1>a, <1>b, PlanKeeps, Zenon
    <2>2. seen[w].state = "Ready"
      BY <1>a, <2>1, Zenon DEF IndexHeader
    <2>3. q \in rows'[header.slot] <=> IF q = w THEN w \notin live ELSE q \in rows[header.slot]
      BY <1>0, <1>a, <1>b, <2>2, PlanKeeps, ChangeFacts
    <2>4. q \in live' <=> IF q = w THEN w \notin live ELSE q \in live
      BY <1>0, <1>a, RowFacts, ChangeFacts DEF CommitOwned, TypeOK
    <2>5. Owing' = Owing /\ Stranded' = Stranded
      BY <1>0, Zenon DEF CommitOwned, TypeOK, Owing, Stranded
    <2> QED  BY <1>0, <2>1, <2>3, <2>4, <2>5, Zenon DEF ReadyOK
  <1>6. CandidateOK'
    <2>1. header'.slot = header.slot /\ rows'[other(header.slot)] = rows[other(header.slot)]
      BY <1>0, <1>a, <1>b, PlanKeeps, SlotFacts, Zenon
    <2>2. UNCHANGED <<wpc, todo, target>>
      BY Zenon DEF CommitOwned, WorkerLocals
    <2>3. /\ build'.on /\ build'.phase = "Clear" =>
                build'.next_delta = 1 /\ build'.replay_cursor = 0
          /\ wpc' = "capture" => rows'[other(header'.slot)] = {}
          /\ wpc' \in {"sweep", "cleanup"} => ~build'.on
      BY <1>0, <1>a, <1>b, <2>1, <2>2, DeltaKeeps, Zenon DEF CandidateOK
    <2>4. ASSUME build'.on, wpc \in {"scan", "replay", "verify", "verified", "switch"}
          PROVE  /\ build'.phase # "Clear"
                 /\ build'.replay_cursor < build'.next_delta /\ build'.next_delta <= Len(deltas') + 1
                 /\ wpc' # "scan" => todo' = {} /\ target' <= build'.next_delta - 1
                 /\ \A quad \in Writer :
                       /\ Queued(quad)' = {} =>
                             (quad \in live' <=> quad \in rows'[other(header'.slot)] \cup todo')
                       /\ \A i \in Queued(quad)' : (\A j \in Queued(quad)' : j <= i) =>
                             (deltas'[i].is_live <=> quad \in live')
      <3>1. /\ build.on /\ build.phase # "Clear" /\ build.next_delta \in Nat
            /\ build.replay_cursor \in Nat /\ build.replay_cursor < build.next_delta
            /\ build.next_delta <= Len(deltas) + 1 /\ target \in Nat
            /\ wpc # "scan" => todo = {} /\ target <= build.next_delta - 1
        BY <1>0, <1>a, <1>b, <2>4, DeltaKeeps, Zenon DEF CandidateOK, TypeOK, QueryBuildRecord
      <3>2. /\ build'.phase = build.phase /\ build'.replay_cursor = build.replay_cursor
            /\ build'.next_delta = build.next_delta + 1
        BY <1>0, <1>a, <1>b, <2>4, <3>1, DeltaKeeps, Zenon
      <3>3. /\ build.next_delta <= Len(deltas')
            /\ deltas'[build.next_delta] = Change(w)
            /\ \A i \in 1 .. build.next_delta - 1 : deltas'[i] = deltas[i]
        BY <1>0, <1>a, <1>b, <2>4, <3>1, DeltaQueued, Zenon
      <3>4. \A q \in Writer : q \in live' <=> IF q = w THEN w \notin live ELSE q \in live
        BY <1>0, <1>a, RowFacts, ChangeFacts, Zenon DEF CommitOwned, TypeOK
      <3>5. ASSUME NEW quad \in Writer, quad # w
            PROVE  Queued(quad)' = Queued(quad)
        <4> DEFINE lo == build.replay_cursor
                   n == build.next_delta
        <4>1. lo \in Nat /\ n \in Nat /\ lo < n
          BY <3>1, Zenon
        <4>2. build'.replay_cursor = lo /\ build'.next_delta = n + 1
          BY <3>2, Zenon
        <4>3. deltas'[n].quad # quad
          BY <3>3, <3>5, ChangeFacts, Zenon
        <4>4. \A i \in 1 .. n - 1 : deltas'[i] = deltas[i]
          BY <3>3, Zenon
        <4>5. Queued(quad) = {i \in lo + 1 .. n - 1 : deltas[i].quad = quad}
          BY Zenon DEF Queued
        <4>6. Queued(quad)' = {i \in lo + 1 .. (n + 1) - 1 : deltas'[i].quad = quad}
          BY <4>2, Zenon DEF Queued
        <4> HIDE DEF lo, n
        <4>7. /\ \A i \in lo + 1 .. (n + 1) - 1 : i = n \/ i \in lo + 1 .. n - 1
              /\ \A i \in lo + 1 .. n - 1 : i \in lo + 1 .. (n + 1) - 1 /\ i \in 1 .. n - 1
          BY <4>1, SMT
        <4> QED
          BY <4>3, <4>4, <4>5, <4>6, <4>7, Zenon
      <3>6. /\ build.next_delta \in Queued(w)'
            /\ \A i \in Queued(w)' : i \in Int /\ i <= build.next_delta
        BY <3>1, <3>2, <3>3, ChangeFacts DEF Queued
      <3>7. ASSUME NEW i \in Queued(w)', \A j \in Queued(w)' : j <= i
            PROVE  deltas'[i].is_live <=> w \in live'
        <4>1. i = build.next_delta
          BY <3>1, <3>6, <3>7
        <4> QED  BY <3>3, <3>4, <4>1, ChangeFacts, Zenon
      <3>8. ASSUME NEW quad \in Writer, quad # w
            PROVE  /\ Queued(quad)' = {} =>
                         (quad \in live' <=> quad \in rows'[other(header'.slot)] \cup todo')
                   /\ \A i \in Queued(quad)' : (\A j \in Queued(quad)' : j <= i) =>
                         (deltas'[i].is_live <=> quad \in live')
        <4>1. \A i \in Queued(quad) : deltas'[i] = deltas[i]
          BY <3>1, <3>3 DEF Queued
        <4>2. /\ Queued(quad) = {} => (quad \in live <=> quad \in rows[other(header.slot)] \cup todo)
              /\ \A i \in Queued(quad) : (\A j \in Queued(quad) : j <= i) =>
                    (deltas[i].is_live <=> quad \in live)
          BY <1>0, <2>4, <3>1, Zenon DEF CandidateOK
        <4>3. (quad \in live' <=> quad \in live) /\ Queued(quad)' = Queued(quad)
          BY <3>4, <3>5, <3>8, Zenon
        <4> QED  BY <2>1, <2>2, <4>1, <4>2, <4>3, Zenon
      <3>9. \A quad \in Writer :
               /\ Queued(quad)' = {} =>
                     (quad \in live' <=> quad \in rows'[other(header'.slot)] \cup todo')
               /\ \A i \in Queued(quad)' : (\A j \in Queued(quad)' : j <= i) =>
                     (deltas'[i].is_live <=> quad \in live')
        BY <3>6, <3>7, <3>8, Zenon
      <3> QED  BY <2>2, <3>1, <3>2, <3>3, <3>9
    <2> QED  BY <2>2, <2>3, <2>4, Zenon DEF CandidateOK
  <1> QED  BY <1>1, <1>2, <1>3, <1>4, <1>5, <1>6, Zenon DEF IndexInv

LEMMA CommitDebt_preserves ==
    ASSUME IndexInv, NEW w \in Writer, CommitDebt(w)
    PROVE  IndexInv'
  <1>0. TypeOK /\ TargetsInactive /\ DebtsOK /\ LocksOK /\ ReadyOK /\ CandidateOK
    BY Zenon DEF IndexInv
  <1>1. TypeOK'
    BY <1>0 DEF WorkerLocals, CommitDebt, apply_row, Change, TypeOK
  <1>2. TargetsInactive'
    BY <1>0, Zenon DEF CommitDebt, TargetsInactive
  <1>3. DebtsOK'
    BY <1>0 DEF CommitDebt, TypeOK, DebtsOK, Owing
  <1>4. LocksOK'
    BY <1>0 DEF WorkerLocals, CommitDebt, LocksOK
  <1>5. ReadyOK'
    <2> SUFFICES ASSUME header'.state = "Ready", ~revived', NEW q \in Writer
                 PROVE  \/ (q \in rows'[header'.slot] <=> q \in live')
                        \/ q \in Owing' \/ Stranded' # {}
      BY Zenon DEF ReadyOK
    <2>1. UNCHANGED <<header, rows, revived>> /\ pc[w] = "debtor"
      BY Zenon DEF CommitDebt
    <2>2. Owing' = Owing \cup {w} /\ w \notin Owing
      BY <1>0, Zenon DEF CommitDebt, TypeOK, Owing
    <2>3. q # w => (q \in live' <=> q \in live)
      BY Zenon DEF CommitDebt, apply_row, Change
    <2>4. Stranded \subseteq Stranded'
      BY <1>0, <2>2 DEF CommitDebt, TypeOK, DebtsOK, Stranded, Owing
    <2> QED  BY <1>0, <2>1, <2>2, <2>3, <2>4, Zenon DEF ReadyOK
  <1>6. CandidateOK'
    BY <1>0, Zenon DEF WorkerLocals, CommitDebt, LocksOK, CandidateOK, IndexHeader, QueryBuildRecord
  <1> QED  BY <1>1, <1>2, <1>3, <1>4, <1>5, <1>6, Zenon DEF IndexInv

LEMMA CommitFails_preserves ==
    ASSUME IndexInv, NEW w \in Writer, CommitFails(w)
    PROVE  IndexInv'
  <1>0. TypeOK /\ TargetsInactive /\ DebtsOK /\ LocksOK /\ ReadyOK /\ CandidateOK
    BY Zenon DEF IndexInv
  <1>1. TypeOK'
    BY <1>0, BoundAssumption DEF durable, WorkerLocals, CommitFails, TypeOK, Slot
  <1>2. TargetsInactive'
    BY <1>0, Zenon DEF durable, CommitFails, TargetsInactive
  <1>3. DebtsOK'
    BY <1>0 DEF durable, CommitFails, DebtsOK, Owing
  <1>4. LocksOK'
    BY <1>0, WorkerAssumption DEF durable, WorkerLocals, CommitFails, TypeOK, LocksOK, Owing
  <1>5. ReadyOK'
    BY <1>0 DEF durable, CommitFails, ReadyOK, Owing, Stranded
  <1>6. CandidateOK'
    BY <1>0 DEF durable, WorkerLocals, CommitFails, CandidateOK, Queued
  <1> QED  BY <1>1, <1>2, <1>3, <1>4, <1>5, <1>6, Zenon DEF IndexInv

LEMMA repair_projection_debt_preserves ==
    ASSUME IndexInv, NEW w \in Writer, repair_projection_debt(w)
    PROVE  IndexInv'
  <1>0. TypeOK /\ TargetsInactive /\ DebtsOK /\ LocksOK /\ ReadyOK /\ CandidateOK
    BY Zenon DEF IndexInv
  <1>1. TypeOK'
    BY <1>0, Zenon DEF durable, WorkerLocals, repair_projection_debt, TypeOK, Slot
  <1>2. TargetsInactive'
    BY <1>0, Zenon DEF durable, repair_projection_debt, TargetsInactive
  <1>3. DebtsOK'
    BY <1>0 DEF durable, repair_projection_debt, DebtsOK, Owing
  <1>4. LocksOK'
    BY <1>0, Zenon DEF durable, WorkerLocals, repair_projection_debt, TypeOK, LocksOK, Owing
  <1>5. ReadyOK'
    BY <1>0 DEF durable, repair_projection_debt, ReadyOK, Owing, Stranded
  <1>6. CandidateOK'
    BY <1>0 DEF durable, WorkerLocals, repair_projection_debt, CandidateOK, Queued
  <1> QED  BY <1>1, <1>2, <1>3, <1>4, <1>5, <1>6, Zenon DEF IndexInv

\* The catch-up pays for its own quad and removes no debt but its own.
LEMMA CommitRepair_preserves ==
    ASSUME IndexInv, NEW w \in Writer, CommitRepair(w)
    PROVE  IndexInv'
  <1>0. TypeOK /\ TargetsInactive /\ DebtsOK /\ LocksOK /\ ReadyOK /\ CandidateOK
    BY Zenon DEF IndexInv
  <1> DEFINE t == [quad |-> w, is_live |-> w \in live]
  <1>a. /\ seen[w] \in IndexHeader /\ seen[w].slot = header.slot /\ t \in NetQuadTransition
        /\ header.slot \in Slot /\ gate = {w}
        /\ seen[w].state = "Failed" => header.state = "Failed"
    BY <1>0, ChangeFacts DEF CommitRepair, TypeOK, LocksOK, IndexHeader, NetQuadTransition
  <1>b. stage_index_update(seen[w], t) /\ stage_query_delta(t)
    BY Zenon DEF CommitRepair, stage_index_update
  <1>c. ~build.on /\ UNCHANGED <<build, deltas>>
    BY <1>0, <1>a, <1>b, DeltaKeeps, Zenon DEF CommitRepair, LocksOK, Owing
  <1>1. TypeOK'
    <2>1. header' \in IndexHeader /\ rows' \in [Slot -> SUBSET Writer] /\ revived' \in BOOLEAN
      BY <1>0, <1>a, <1>b, PlanKeeps, Zenon
    <2>2. /\ build' \in QueryBuildRecord /\ deltas' \in Seq(NetQuadTransition)
          /\ cleanup' \subseteq Slot
      BY <1>0, <1>a, <1>b, DeltaKeeps, Zenon
    <2> QED  BY <1>0, <2>1, <2>2, Zenon DEF durable, WorkerLocals, WriterLocals, CommitRepair, TypeOK
  <1>2. TargetsInactive'
    BY <1>0, <1>a, <1>b, PlanKeeps, DeltaKeeps, Zenon DEF TargetsInactive
  <1>3. DebtsOK'
    BY <1>0, Zenon DEF CommitRepair, TypeOK, DebtsOK, Owing
  <1>4. LocksOK'
    <2>1. header'.slot = header.slot
      BY <1>0, <1>a, <1>b, PlanKeeps, Zenon
    <2>2. build'.on => build.on
      BY <1>0, <1>a, <1>b, DeltaKeeps, Zenon
    <2>3. \A v \in Writer : v # w => pc'[v] = pc[v] /\ pc[v] \notin {"owner", "repair"}
      BY <1>0, <1>a, Zenon DEF CommitRepair, TypeOK, LocksOK
    <2>4. pc'[w] = "idle" /\ wpc \notin {"verify", "switch"}
      BY <1>0, <1>a, WorkerAssumption, Zenon DEF CommitRepair, TypeOK, LocksOK
    <2> QED  BY <1>0, <2>1, <2>2, <2>3, <2>4, Zenon DEF CommitRepair, WorkerLocals, LocksOK, Owing
  <1>5. ReadyOK'
    <2> SUFFICES ASSUME header'.state = "Ready", ~revived', NEW q \in Writer
                 PROVE  \/ (q \in rows'[header'.slot] <=> q \in live')
                        \/ q \in Owing' \/ Stranded' # {}
      BY Zenon DEF ReadyOK
    <2>1. header.state = "Ready" /\ ~revived /\ header'.slot = header.slot
      BY <1>0, <1>a, <1>b, PlanKeeps, Zenon
    <2>2. seen[w].state = "Ready"
      BY <1>a, <2>1, Zenon DEF IndexHeader
    <2>3. q \in rows'[header.slot] <=> IF q = w THEN w \in live ELSE q \in rows[header.slot]
      BY <1>0, <1>a, <1>b, <2>2, PlanKeeps, Zenon
    <2>4. live' = live /\ Owing' = Owing \ {w} /\ w \in Owing
      BY <1>0, Zenon DEF CommitRepair, TypeOK, Owing
    <2>5. Stranded \subseteq Stranded'
      BY <1>0, <2>4, Zenon DEF CommitRepair, Stranded
    <2> QED  BY <1>0, <2>1, <2>3, <2>4, <2>5, Zenon DEF ReadyOK
  <1>6. CandidateOK'
    <2>1. header'.slot = header.slot /\ rows'[other(header.slot)] = rows[other(header.slot)]
      BY <1>0, <1>a, <1>b, PlanKeeps, SlotFacts, Zenon
    <2> QED  BY <1>0, <1>c, <2>1, Zenon DEF CommitRepair, WorkerLocals, CandidateOK
  <1> QED  BY <1>1, <1>2, <1>3, <1>4, <1>5, <1>6, Zenon DEF IndexInv

LEMMA RepairFails_preserves ==
    ASSUME IndexInv, NEW w \in Writer, RepairFails(w)
    PROVE  IndexInv'
  <1>0. TypeOK /\ TargetsInactive /\ DebtsOK /\ LocksOK /\ ReadyOK /\ CandidateOK
    BY Zenon DEF IndexInv
  <1>1. TypeOK'
    BY <1>0, BoundAssumption DEF durable, WorkerLocals, RepairFails, TypeOK, Slot
  <1>2. TargetsInactive'
    BY <1>0, Zenon DEF durable, RepairFails, TargetsInactive
  <1>3. DebtsOK'
    BY <1>0 DEF durable, RepairFails, DebtsOK, Owing
  <1>4. LocksOK'
    BY <1>0, Zenon DEF durable, WorkerLocals, RepairFails, TypeOK, LocksOK, Owing
  <1>5. ReadyOK'
    BY <1>0 DEF durable, RepairFails, ReadyOK, Owing, Stranded
  <1>6. CandidateOK'
    BY <1>0 DEF durable, WorkerLocals, RepairFails, CandidateOK, Queued
  <1> QED  BY <1>1, <1>2, <1>3, <1>4, <1>5, <1>6, Zenon DEF IndexInv

LEMMA ReadFailed_preserves ==
    ASSUME IndexInv, NEW w \in Writer, ReadFailed(w)
    PROVE  IndexInv'
  <1>0. TypeOK /\ TargetsInactive /\ DebtsOK /\ LocksOK /\ ReadyOK /\ CandidateOK
    BY Zenon DEF IndexInv
  <1>1. TypeOK'
    BY <1>0, Zenon DEF durable, WorkerLocals, ReadFailed, TypeOK
  <1>2. TargetsInactive'
    BY <1>0, Zenon DEF durable, ReadFailed, TargetsInactive
  <1>3. DebtsOK'
    BY <1>0 DEF durable, ReadFailed, DebtsOK, Owing
  <1>4. LocksOK'
    BY <1>0, Zenon DEF durable, WorkerLocals, ReadFailed, TypeOK, LocksOK, Owing
  <1>5. ReadyOK'
    BY <1>0 DEF durable, ReadFailed, ReadyOK, Owing, Stranded
  <1>6. CandidateOK'
    BY <1>0 DEF durable, WorkerLocals, ReadFailed, CandidateOK, Queued
  <1> QED  BY <1>1, <1>2, <1>3, <1>4, <1>5, <1>6, Zenon DEF IndexInv

LEMMA fail_projection_debt_preserves ==
    ASSUME IndexInv, NEW w \in Writer, fail_projection_debt(w)
    PROVE  IndexInv'
  <1>0. TypeOK /\ TargetsInactive /\ DebtsOK /\ LocksOK /\ ReadyOK /\ CandidateOK
    BY Zenon DEF IndexInv
  <1>1. TypeOK'
    <2>1. header' \in IndexHeader
      BY <1>0, Zenon DEF fail_projection_debt, TypeOK, IndexHeader
    <2> QED  BY <1>0, <2>1, Zenon DEF durable, WorkerLocals, WriterLocals, fail_projection_debt, TypeOK
  <1>2. TargetsInactive'
    BY <1>0 DEF fail_projection_debt, TargetsInactive, LocksOK
  <1>3. DebtsOK'
    BY <1>0, Zenon DEF fail_projection_debt, TypeOK, DebtsOK, Owing
  <1>4. LocksOK'
    BY <1>0 DEF WorkerLocals, fail_projection_debt, LocksOK, Owing
  <1>5. ReadyOK'
    BY <1>0 DEF fail_projection_debt, ReadyOK
  <1>6. CandidateOK'
    BY <1>0 DEF WorkerLocals, fail_projection_debt, LocksOK, CandidateOK, Owing
  <1> QED  BY <1>1, <1>2, <1>3, <1>4, <1>5, <1>6, Zenon DEF IndexInv

\* A debt that nobody settles keeps the index untrusted.
LEMMA StrandDebt_preserves ==
    ASSUME IndexInv, NEW w \in Writer, StrandDebt(w)
    PROVE  IndexInv'
  <1>0. TypeOK /\ TargetsInactive /\ DebtsOK /\ LocksOK /\ ReadyOK /\ CandidateOK
    BY Zenon DEF IndexInv
  <1>1. TypeOK'
    BY <1>0, BoundAssumption DEF durable, WorkerLocals, StrandDebt, TypeOK
  <1>2. TargetsInactive'
    BY <1>0, Zenon DEF durable, StrandDebt, TargetsInactive
  <1>3. DebtsOK'
    BY <1>0 DEF durable, StrandDebt, DebtsOK, Owing
  <1>4. LocksOK'
    BY <1>0 DEF durable, WorkerLocals, StrandDebt, LocksOK, Owing
  <1>5. ReadyOK'
    BY <1>0 DEF durable, StrandDebt, DebtsOK, ReadyOK, Owing, Stranded
  <1>6. CandidateOK'
    BY <1>0 DEF durable, WorkerLocals, StrandDebt, CandidateOK, Queued
  <1> QED  BY <1>1, <1>2, <1>3, <1>4, <1>5, <1>6, Zenon DEF IndexInv

-----------------------------------------------------------------------------
(* The worker.                                                             *)

LEMMA ClearBuild_preserves ==
    ASSUME IndexInv, ClearBuild
    PROVE  IndexInv'
  <1>0. TypeOK /\ TargetsInactive /\ DebtsOK /\ LocksOK /\ ReadyOK /\ CandidateOK
    BY Zenon DEF IndexInv
  <1>1. TypeOK'
    BY <1>0, Zenon DEF WriterLocals, ClearBuild, GiveUp, Done, TypeOK, Slot
  <1>2. TargetsInactive'
    BY <1>0, Zenon DEF ClearBuild, TargetsInactive
  <1>3. DebtsOK'
    BY <1>0, DebtsFrame, Zenon DEF WriterLocals, ClearBuild
  <1>4. LocksOK'
    BY <1>0, LocksFrame, Zenon DEF WriterLocals, ClearBuild, GiveUp, Done
  <1>5. ReadyOK'
    BY <1>0 DEF WriterLocals, ClearBuild, TypeOK, ReadyOK, Owing, Stranded, IndexHeader
  <1>6. CandidateOK'
    BY <1>0 DEF ClearBuild, TypeOK, TargetsInactive, CandidateOK, other, Slot, IndexHeader,
        QueryBuildRecord
  <1> QED  BY <1>1, <1>2, <1>3, <1>4, <1>5, <1>6, Zenon DEF IndexInv

LEMMA RetireBuild_preserves ==
    ASSUME IndexInv, RetireBuild
    PROVE  IndexInv'
  <1>0. TypeOK /\ TargetsInactive /\ DebtsOK /\ LocksOK /\ ReadyOK /\ CandidateOK
    BY Zenon DEF IndexInv
  <1>1. TypeOK'
    <2>1. build' \in QueryBuildRecord
      BY <1>0, NoBuildFacts, Zenon DEF RetireBuild, TypeOK
    <2> QED  BY <1>0, <2>1, Zenon DEF durable, WorkerLocals, WriterLocals, RetireBuild, Done, TypeOK
  <1>2. TargetsInactive'
    BY <1>0 DEF RetireBuild, TargetsInactive, NoBuild
  <1>3. DebtsOK'
    BY <1>0, DebtsFrame, Zenon DEF WriterLocals, RetireBuild
  <1>4. LocksOK'
    BY <1>0 DEF WriterLocals, RetireBuild, Done, LocksOK, NoBuild
  <1>5. ReadyOK'
    BY <1>0, ReadyFrame, Zenon DEF WriterLocals, RetireBuild
  <1>6. CandidateOK'
    BY <1>0 DEF RetireBuild, Done, CandidateOK, NoBuild, IndexHeader, QueryBuildRecord
  <1> QED  BY <1>1, <1>2, <1>3, <1>4, <1>5, <1>6, Zenon DEF IndexInv

LEMMA clear_query_deltas_preserves ==
    ASSUME IndexInv, clear_query_deltas
    PROVE  IndexInv'
  <1>0. TypeOK /\ TargetsInactive /\ DebtsOK /\ LocksOK /\ ReadyOK /\ CandidateOK
    BY Zenon DEF IndexInv
  <1>1. TypeOK'
    BY <1>0 DEF WriterLocals, clear_query_deltas, TypeOK
  <1>2. TargetsInactive'
    BY <1>0, Zenon DEF clear_query_deltas, TargetsInactive
  <1>3. DebtsOK'
    BY <1>0, DebtsFrame, Zenon DEF WriterLocals, clear_query_deltas
  <1>4. LocksOK'
    BY <1>0, LocksFrame, Zenon DEF WriterLocals, clear_query_deltas
  <1>5. ReadyOK'
    BY <1>0, ReadyFrame, Zenon DEF WriterLocals, clear_query_deltas
  <1>6. CandidateOK'
    BY <1>0, Zenon DEF clear_query_deltas, CandidateOK
  <1> QED  BY <1>1, <1>2, <1>3, <1>4, <1>5, <1>6, Zenon DEF IndexInv

LEMMA CleanSlot_preserves ==
    ASSUME IndexInv, CleanSlot
    PROVE  IndexInv'
  <1>0. TypeOK /\ TargetsInactive /\ DebtsOK /\ LocksOK /\ ReadyOK /\ CandidateOK
    BY Zenon DEF IndexInv
  <1>1. TypeOK'
    <2>1. rows' \in [Slot -> SUBSET Writer]
      BY <1>0, Zenon DEF CleanSlot, TypeOK
    <2>2. deltas' \in {deltas, <<>>} /\ <<>> \in Seq(NetQuadTransition)
      BY DEF CleanSlot
    <2>3. cleanup' \subseteq Slot
      BY <1>0, Zenon DEF CleanSlot, TypeOK
    <2>4. wpc' \in {"recover", "idle", "debts"} /\ job' \in {"repair", job}
      BY Zenon DEF CleanSlot, GiveUp, Done
    <2> QED  BY <1>0, <2>1, <2>2, <2>3, <2>4, Zenon DEF durable, WorkerLocals, WriterLocals, CleanSlot,
                 TypeOK
  <1>2. TargetsInactive'
    BY <1>0, Zenon DEF CleanSlot, TargetsInactive
  <1>3. DebtsOK'
    BY <1>0, DebtsFrame, Zenon DEF WriterLocals, CleanSlot
  <1>4. LocksOK'
    BY <1>0, LocksFrame, Zenon DEF WriterLocals, CleanSlot, GiveUp, Done
  <1>5. ReadyOK'
    BY <1>0 DEF WriterLocals, CleanSlot, TargetsInactive, DebtsOK, LocksOK, ReadyOK, Owing,
        Stranded, Slot, IndexHeader
  <1>6. CandidateOK'
    BY <1>0, Zenon DEF CleanSlot, Done, TargetsInactive, CandidateOK, IndexHeader, QueryBuildRecord
  <1> QED  BY <1>1, <1>2, <1>3, <1>4, <1>5, <1>6, Zenon DEF IndexInv

LEMMA fail_unrepaired_debt_preserves ==
    ASSUME IndexInv, fail_unrepaired_debt
    PROVE  IndexInv'
  <1>0. TypeOK /\ TargetsInactive /\ DebtsOK /\ LocksOK /\ ReadyOK /\ CandidateOK
    BY Zenon DEF IndexInv
  <1>1. TypeOK'
    <2>1. header' \in IndexHeader
      BY <1>0, Zenon DEF fail_unrepaired_debt, TypeOK, IndexHeader
    <2> QED  BY <1>0, <2>1, Zenon DEF durable, WorkerLocals, WriterLocals, fail_unrepaired_debt, Done,
                 TypeOK
  <1>2. TargetsInactive'
    BY <1>0 DEF fail_unrepaired_debt, TargetsInactive
  <1>3. DebtsOK'
    BY <1>0, Zenon DEF WriterLocals, fail_unrepaired_debt, InCommit, DebtsOK, Owing
  <1>4. LocksOK'
    BY <1>0 DEF WriterLocals, fail_unrepaired_debt, Done, LocksOK, Owing
  <1>5. ReadyOK'
    BY <1>0 DEF fail_unrepaired_debt, DebtsOK, ReadyOK, Stranded, IndexHeader
  <1>6. CandidateOK'
    BY <1>0, Zenon DEF WriterLocals, fail_unrepaired_debt, Done, CandidateOK, IndexHeader,
        QueryBuildRecord
  <1> QED  BY <1>1, <1>2, <1>3, <1>4, <1>5, <1>6, Zenon DEF IndexInv

LEMMA Admit_preserves ==
    ASSUME IndexInv, Admit
    PROVE  IndexInv'
  <1>0. TypeOK /\ TargetsInactive /\ DebtsOK /\ LocksOK /\ ReadyOK /\ CandidateOK
    BY Zenon DEF IndexInv
  <1>1. TypeOK'
    BY <1>0, Zenon DEF durable, WriterLocals, Admit, Done, TypeOK
  <1>2. TargetsInactive'
    BY <1>0, Zenon DEF durable, WriterLocals, Admit, TargetsInactive
  <1>3. DebtsOK'
    BY <1>0, DebtsFrame, Zenon DEF durable, WriterLocals, Admit
  <1>4. LocksOK'
    BY <1>0, LocksFrame, Zenon DEF durable, WriterLocals, Admit, Done
  <1>5. ReadyOK'
    BY <1>0, ReadyFrame, Zenon DEF durable, WriterLocals, Admit
  <1>6. CandidateOK'
    BY <1>0, Zenon DEF durable, Admit, Done, CandidateOK, QueryBuildRecord
  <1> QED  BY <1>1, <1>2, <1>3, <1>4, <1>5, <1>6, Zenon DEF IndexInv

LEMMA CreateBuild_preserves ==
    ASSUME IndexInv, CreateBuild
    PROVE  IndexInv'
  <1>0. TypeOK /\ TargetsInactive /\ DebtsOK /\ LocksOK /\ ReadyOK /\ CandidateOK
    BY Zenon DEF IndexInv
  <1>a. header \in IndexHeader /\ header.slot \in Slot /\ other(header.slot) \in Slot
    BY <1>0, SlotFacts, Zenon DEF TypeOK, IndexHeader
  <1>b. \/ UNCHANGED build /\ wpc' = "idle"
        \/ /\ build' = [NoBuild EXCEPT !.on = TRUE, !.slot = other(header.slot), !.digest = header]
           /\ wpc' = "clear"
    BY Zenon DEF CreateBuild, Done
  <1>1. TypeOK'
    <2>1. build' \in QueryBuildRecord
      BY <1>0, <1>a, <1>b, NoBuildFacts, Zenon DEF TypeOK, QueryBuildRecord
    <2> QED  BY <1>0, <2>1, Zenon DEF durable, WorkerLocals, WriterLocals, CreateBuild, Done, TypeOK
  <1>2. TargetsInactive'
    BY <1>0, <1>b, NoBuildFacts, Zenon DEF CreateBuild, TargetsInactive, QueryBuildRecord
  <1>3. DebtsOK'
    BY <1>0, DebtsFrame, Zenon DEF WriterLocals, CreateBuild
  <1>4. LocksOK'
    BY <1>0, Zenon DEF WriterLocals, CreateBuild, Done, InCommit, LocksOK, Owing
  <1>5. ReadyOK'
    BY <1>0, ReadyFrame, Zenon DEF WriterLocals, CreateBuild
  <1>6. CandidateOK'
    BY <1>0, <1>b, Zenon DEF CreateBuild, CandidateOK, NoBuild
  <1> QED  BY <1>1, <1>2, <1>3, <1>4, <1>5, <1>6, Zenon DEF IndexInv

LEMMA clear_query_slot_preserves ==
    ASSUME IndexInv, clear_query_slot
    PROVE  IndexInv'
  <1>0. TypeOK /\ TargetsInactive /\ DebtsOK /\ LocksOK /\ ReadyOK /\ CandidateOK
    BY Zenon DEF IndexInv
  <1>1. TypeOK'
    BY <1>0, Zenon DEF WriterLocals, clear_query_slot, TypeOK, Slot, IndexHeader, other
  <1>2. TargetsInactive'
    BY <1>0, Zenon DEF clear_query_slot, TargetsInactive
  <1>3. DebtsOK'
    BY <1>0, DebtsFrame, Zenon DEF WriterLocals, clear_query_slot
  <1>4. LocksOK'
    BY <1>0, LocksFrame, Zenon DEF WriterLocals, clear_query_slot
  <1>5. ReadyOK'
    BY <1>0 DEF WriterLocals, clear_query_slot, TypeOK, ReadyOK, Owing, Stranded, other, Slot
  <1>6. CandidateOK'
    BY <1>0 DEF clear_query_slot, TypeOK, CandidateOK, other, Slot, IndexHeader
  <1> QED  BY <1>1, <1>2, <1>3, <1>4, <1>5, <1>6, Zenon DEF IndexInv

\* The candidate starts empty and everything live is still to be scanned.
LEMMA Capture_preserves ==
    ASSUME IndexInv, Capture
    PROVE  IndexInv'
  <1>0. TypeOK /\ TargetsInactive /\ DebtsOK /\ LocksOK /\ ReadyOK /\ CandidateOK
    BY Zenon DEF IndexInv
  <1>a. header \in IndexHeader /\ build \in QueryBuildRecord /\ trusted \in BOOLEAN
    BY <1>0, Zenon DEF TypeOK, trusted
  <1>b. \/ UNCHANGED <<build, todo, cand>> /\ wpc' = "idle"
        \/ /\ build' = [build EXCEPT !.phase = "Scan", !.digest = header, !.trusted = trusted]
           /\ todo' = live /\ wpc' = "scan"
           /\ build.on /\ build.phase = "Clear" /\ wpc = "capture"
    BY Zenon DEF Capture, Done
  <1>1. TypeOK'
    <2>1. build' \in QueryBuildRecord
      BY <1>a, <1>b, Zenon DEF QueryBuildRecord
    <2>2. todo' \subseteq Writer /\ cand' \in Nat
      BY <1>0, Zenon DEF Capture, TypeOK, IndexHeader
    <2> QED  BY <1>0, <2>1, <2>2, Zenon DEF durable, WorkerLocals, WriterLocals, Capture, Done, TypeOK
  <1>2. TargetsInactive'
    BY <1>0, <1>a, <1>b, Zenon DEF Capture, TargetsInactive, QueryBuildRecord
  <1>3. DebtsOK'
    BY <1>0, DebtsFrame, Zenon DEF WriterLocals, Capture
  <1>4. LocksOK'
    BY <1>0, Zenon DEF WriterLocals, Capture, Done, LocksOK, Owing
  <1>5. ReadyOK'
    BY <1>0, ReadyFrame, Zenon DEF WriterLocals, Capture
  <1>6. CandidateOK'
    <2>1. CASE wpc' = "idle" /\ UNCHANGED build
      BY <1>0, <2>1, Zenon DEF CandidateOK
    <2>2. CASE wpc' = "scan"
      <3>1. /\ build'.phase = "Scan" /\ build'.next_delta = 1 /\ build'.replay_cursor = 0
            /\ todo' = live /\ rows[other(header.slot)] = {}
        BY <1>0, <1>a, <1>b, <2>2, Zenon DEF CandidateOK, QueryBuildRecord
      <3>2. \A quad \in Writer : Queued(quad)' = {}
        BY <3>1 DEF Queued
      <3>3. UNCHANGED <<live, header, rows, deltas>> /\ Len(deltas) \in Nat
        BY <1>0 DEF Capture, TypeOK
      <3> QED  BY <2>2, <3>1, <3>2, <3>3 DEF CandidateOK
    <2> QED  BY <1>b, <2>1, <2>2, Zenon
  <1> QED  BY <1>1, <1>2, <1>3, <1>4, <1>5, <1>6, Zenon DEF IndexInv

LEMMA ScanChunk_preserves ==
    ASSUME IndexInv, ScanChunk
    PROVE  IndexInv'
  <1>0. TypeOK /\ TargetsInactive /\ DebtsOK /\ LocksOK /\ ReadyOK /\ CandidateOK
    BY Zenon DEF IndexInv
  <1>1. TypeOK'
    BY <1>0 DEF WriterLocals, ScanChunk, update_build_cursor, Done, TypeOK, Slot, IndexHeader,
        other
  <1>2. TargetsInactive'
    BY <1>0, Zenon DEF ScanChunk, TargetsInactive
  <1>3. DebtsOK'
    BY <1>0, DebtsFrame, Zenon DEF WriterLocals, ScanChunk
  <1>4. LocksOK'
    BY <1>0, Zenon DEF WriterLocals, ScanChunk, update_build_cursor, Done, LocksOK, Owing
  <1>5. ReadyOK'
    BY <1>0 DEF WriterLocals, ScanChunk, TypeOK, ReadyOK, Owing, Stranded, other, Slot,
        IndexHeader
  <1>6. CandidateOK'
    BY <1>0 DEF WriterLocals, ScanChunk, update_build_cursor, Done, TypeOK, LocksOK,
        CandidateOK, Queued, other, Slot, IndexHeader, QueryBuildRecord
  <1> QED  BY <1>1, <1>2, <1>3, <1>4, <1>5, <1>6, Zenon DEF IndexInv

LEMMA ScanDone_preserves ==
    ASSUME IndexInv, ScanDone
    PROVE  IndexInv'
  <1>0. TypeOK /\ TargetsInactive /\ DebtsOK /\ LocksOK /\ ReadyOK /\ CandidateOK
    BY Zenon DEF IndexInv
  <1>1. TypeOK'
    BY <1>0 DEF durable, WriterLocals, ScanDone, Done, TypeOK, QueryBuildRecord
  <1>2. TargetsInactive'
    BY <1>0, Zenon DEF durable, ScanDone, TargetsInactive
  <1>3. DebtsOK'
    BY <1>0, DebtsFrame, Zenon DEF durable, WriterLocals, ScanDone
  <1>4. LocksOK'
    BY <1>0, LocksFrame, Zenon DEF durable, WriterLocals, ScanDone, Done
  <1>5. ReadyOK'
    BY <1>0, ReadyFrame, Zenon DEF durable, WriterLocals, ScanDone
  <1>6. CandidateOK'
    BY <1>0 DEF durable, ScanDone, Done, TypeOK, CandidateOK, Queued, QueryBuildRecord
  <1> QED  BY <1>1, <1>2, <1>3, <1>4, <1>5, <1>6, Zenon DEF IndexInv

\* A replayed delta disturbs the candidate only.
LEMMA ReplayPreserves ==
    ASSUME IndexInv, build.on, build.replay_cursor < target, replay_query_delta,
           wpc \in {"replay", "verify", "switch"},
           UNCHANGED <<live, header, debts, deltas, cleanup, seq, WriterLocals, gate, job, wpc,
                       todo, target, faults, revived>>
    PROVE  IndexInv'
  <1>0. TypeOK /\ TargetsInactive /\ DebtsOK /\ LocksOK /\ ReadyOK /\ CandidateOK
    BY Zenon DEF IndexInv
  <1>1. /\ rows' \in [Slot -> SUBSET Writer] /\ build' \in QueryBuildRecord /\ cand' \in Nat
        /\ rows'[header.slot] = rows[header.slot]
        /\ build'.on /\ build'.slot = build.slot /\ build'.next_delta = build.next_delta
        /\ CandidateOK'
    BY ReplayKeeps, Zenon
  <1>2. TypeOK'
    BY <1>0, <1>1, Zenon DEF WriterLocals, TypeOK
  <1>3. TargetsInactive'
    BY <1>0, <1>1, Zenon DEF TargetsInactive
  <1>4. DebtsOK' /\ ReadyOK'
    BY <1>0, <1>1, DebtsFrame, ReadyFrame, Zenon DEF WriterLocals
  <1>5. LocksOK'
    BY <1>0, <1>1, Zenon DEF WriterLocals, LocksOK, Owing
  <1> QED  BY <1>1, <1>2, <1>3, <1>4, <1>5, Zenon DEF IndexInv

\* A worker that finds its build gone stops.
LEMMA DonePreserves ==
    ASSUME IndexInv, ~build.on, Done,
           UNCHANGED <<durable, WriterLocals, gate, todo, target, cand, faults, revived>>
    PROVE  IndexInv'
  <1>0. TypeOK /\ TargetsInactive /\ DebtsOK /\ LocksOK /\ ReadyOK /\ CandidateOK
    BY Zenon DEF IndexInv
  <1>1. TypeOK'
    BY <1>0, Zenon DEF Done, durable, WriterLocals, TypeOK
  <1>2. TargetsInactive'
    BY <1>0, Zenon DEF durable, TargetsInactive
  <1>3. DebtsOK' /\ ReadyOK'
    BY <1>0, DebtsFrame, ReadyFrame, Zenon DEF durable, WriterLocals
  <1>4. LocksOK'
    BY <1>0, LocksFrame, Zenon DEF Done, durable, WriterLocals
  <1>5. CandidateOK'
    BY <1>0, Zenon DEF Done, durable, CandidateOK
  <1> QED  BY <1>1, <1>2, <1>3, <1>4, <1>5, Zenon DEF IndexInv

LEMMA replay_query_deltas_preserves ==
    ASSUME IndexInv, replay_query_deltas
    PROVE  IndexInv'
  <1>1. CASE build.on
    BY <1>1, ReplayPreserves, Zenon DEF replay_query_deltas
  <1>2. CASE ~build.on
    BY <1>2, DonePreserves, Zenon DEF replay_query_deltas, durable
  <1> QED  BY <1>1, <1>2, Zenon

\* The gate is free when it is taken, so no writer has staged an update.
LEMMA TakeGatePreserves ==
    ASSUME IndexInv, NEW from \in {"replay", "verified"}, NEW to \in {"verify", "switch"},
           TakeGate(from, to)
    PROVE  IndexInv'
  <1>0. TypeOK /\ TargetsInactive /\ DebtsOK /\ LocksOK /\ ReadyOK /\ CandidateOK
    BY Zenon DEF IndexInv
  <1>1. CASE build.on
    <2>1. /\ wpc = from /\ gate = {} /\ gate' = {Worker} /\ wpc' = to /\ UNCHANGED job
          /\ target' = build.next_delta - 1
          /\ UNCHANGED <<durable, WriterLocals, todo, cand, faults, revived>>
      BY <1>1, Zenon DEF TakeGate
    <2>2. target' \in Nat /\ build.next_delta \in Nat
      BY <1>0, <2>1 DEF TypeOK, QueryBuildRecord
    <2>3. TypeOK'
      BY <1>0, <2>1, <2>2, Zenon DEF durable, WriterLocals, TypeOK
    <2>4. TargetsInactive'
      BY <1>0, <2>1, Zenon DEF durable, TargetsInactive
    <2>5. DebtsOK' /\ ReadyOK'
      BY <1>0, <2>1, DebtsFrame, ReadyFrame, Zenon DEF durable, WriterLocals
    <2>6. LocksOK'
      <3>1. \A w \in Writer : pc[w] \notin {"owner", "repair"}
        BY <1>0, <2>1, Zenon DEF LocksOK
      <3> QED  BY <1>0, <1>1, <2>1, <3>1, Zenon DEF durable, WriterLocals, LocksOK, Owing
    <2>7. CandidateOK'
      <3>1. UNCHANGED <<live, header, rows, build, deltas, todo>> /\ wpc' \in {"verify", "switch"}
        BY <2>1, Zenon DEF durable
      <3>2. \A quad \in Writer : Queued(quad)' = Queued(quad)
        BY <3>1, Zenon DEF Queued
      <3> QED  BY <1>0, <1>1, <2>1, <2>2, <3>1, <3>2 DEF CandidateOK
    <2> QED  BY <2>3, <2>4, <2>5, <2>6, <2>7, Zenon DEF IndexInv
  <1>2. CASE ~build.on
    BY <1>2, DonePreserves, Zenon DEF TakeGate
  <1> QED  BY <1>1, <1>2, Zenon

LEMMA StartVerify_preserves == IndexInv /\ StartVerify => IndexInv'
  BY TakeGatePreserves, Zenon DEF StartVerify

LEMMA StartSwitch_preserves == IndexInv /\ StartSwitch => IndexInv'
  BY TakeGatePreserves, Zenon DEF StartSwitch

LEMMA replay_owned_deltas_preserves ==
    ASSUME IndexInv, replay_owned_deltas
    PROVE  IndexInv'
  <1>1. build.on
    BY Zenon DEF replay_owned_deltas, IndexInv, LocksOK
  <1> QED  BY <1>1, ReplayPreserves, Zenon DEF replay_owned_deltas

LEMMA Verify_preserves ==
    ASSUME IndexInv, Verify
    PROVE  IndexInv'
  <1>0. TypeOK /\ TargetsInactive /\ DebtsOK /\ LocksOK /\ ReadyOK /\ CandidateOK
    BY Zenon DEF IndexInv
  <1>a. /\ build' = [build EXCEPT !.phase = "Verify"] /\ build \in QueryBuildRecord
        /\ gate = {Worker} /\ wpc = "verify"
    BY <1>0, Zenon DEF Verify, TypeOK, LocksOK
  <1>b. /\ build' \in QueryBuildRecord /\ build'.phase = "Verify" /\ build'.on = build.on
        /\ build'.slot = build.slot /\ build'.next_delta = build.next_delta
        /\ build'.replay_cursor = build.replay_cursor
    BY <1>a, Zenon DEF QueryBuildRecord
  <1>1. TypeOK'
    BY <1>0, <1>b, Zenon DEF Verify, Done, WriterLocals, TypeOK
  <1>2. TargetsInactive'
    BY <1>0 DEF Verify, TargetsInactive
  <1>3. DebtsOK'
    BY <1>0, DebtsFrame, Zenon DEF WriterLocals, Verify
  <1>4. LocksOK'
    BY <1>0, <1>a, <1>b, WorkerAssumption, ZenonT(30) DEF Verify, Done, WriterLocals, LocksOK, Owing
  <1>5. ReadyOK'
    BY <1>0, ReadyFrame, Zenon DEF WriterLocals, Verify
  <1>6. CandidateOK'
    BY <1>0 DEF Verify, Done, CandidateOK, Queued, QueryBuildRecord
  <1> QED  BY <1>1, <1>2, <1>3, <1>4, <1>5, <1>6, Zenon DEF IndexInv

\* With the gate held and all deltas replayed, the candidate lists the live quads.
LEMMA SwitchSlot_preserves ==
    ASSUME IndexInv, SwitchSlot
    PROVE  IndexInv'
  <1>0. TypeOK /\ TargetsInactive /\ DebtsOK /\ LocksOK /\ ReadyOK /\ CandidateOK
    BY Zenon DEF IndexInv
  <1>a. /\ build.on /\ gate = {Worker} /\ header.slot \in Slot /\ other(header.slot) \in Slot
        /\ target = build.next_delta - 1 /\ build.replay_cursor >= target /\ cand \in Nat
        /\ build.next_delta \in Nat /\ build.replay_cursor \in Nat
    BY <1>0, SlotFacts, Zenon DEF SwitchSlot, LocksOK, TypeOK, IndexHeader, QueryBuildRecord
  <1>b. rows[other(header.slot)] = live
    BY CandidateIsLive, Zenon
  <1>c. \/ UNCHANGED <<header, build, cleanup>> /\ wpc' = "idle"
        \/ /\ header' = [state |-> "Ready", slot |-> other(header.slot), epoch |-> cand]
           /\ build' = NoBuild /\ cleanup' = {header.slot} /\ wpc' = "recover"
    BY Zenon DEF SwitchSlot, Done
  <1>1. TypeOK'
    <2>1. header' \in IndexHeader /\ build' \in QueryBuildRecord /\ cleanup' \subseteq Slot
      BY <1>0, <1>a, <1>c, NoBuildFacts DEF TypeOK, IndexHeader
    <2>2. wpc' \in {"idle", "recover"} /\ job' \in {"repair", "publish"}
      BY Zenon DEF SwitchSlot, Done
    <2> QED  BY <1>0, <2>1, <2>2, Zenon DEF durable, WorkerLocals, WriterLocals, SwitchSlot, TypeOK
  <1>2. TargetsInactive'
    BY <1>0 DEF SwitchSlot, TypeOK, TargetsInactive, Slot, IndexHeader, NoBuild, other
  <1>3. DebtsOK'
    BY <1>0, DebtsFrame, Zenon DEF WriterLocals, SwitchSlot
  <1>4. LocksOK'
    <2>1. \A w \in Writer : pc[w] \notin {"owner", "repair", "fail"}
      BY <1>0, <1>a, WorkerAssumption, Zenon DEF LocksOK, Owing
    <2> QED  BY <1>0, <1>a, <1>c, <2>1, NoBuildFacts, Zenon DEF SwitchSlot, WriterLocals, LocksOK, Owing
  <1>5. ReadyOK'
    <2>1. UNCHANGED <<live, rows, debts, pc, owed, revived>>
      BY Zenon DEF SwitchSlot, WriterLocals
    <2> QED  BY <1>0, <1>b, <1>c, <2>1 DEF ReadyOK, Owing, Stranded
  <1>6. CandidateOK'
    BY <1>0, <1>c, NoBuildFacts, Zenon DEF CandidateOK
  <1> QED  BY <1>1, <1>2, <1>3, <1>4, <1>5, <1>6, Zenon DEF IndexInv

LEMMA StartRepair_preserves ==
    ASSUME IndexInv, StartRepair
    PROVE  IndexInv'
  <1>0. TypeOK /\ TargetsInactive /\ DebtsOK /\ LocksOK /\ ReadyOK /\ CandidateOK
    BY Zenon DEF IndexInv
  <1>1. TypeOK'
    BY <1>0, Zenon DEF durable, WriterLocals, StartRepair, TypeOK
  <1>2. TargetsInactive'
    BY <1>0, Zenon DEF durable, StartRepair, TargetsInactive
  <1>3. DebtsOK'
    BY <1>0, DebtsFrame, Zenon DEF durable, WriterLocals, StartRepair
  <1>4. LocksOK'
    BY <1>0, LocksFrame, Zenon DEF durable, WriterLocals, StartRepair
  <1>5. ReadyOK'
    BY <1>0, ReadyFrame, Zenon DEF durable, WriterLocals, StartRepair
  <1>6. CandidateOK'
    BY <1>0, Zenon DEF durable, StartRepair, CandidateOK
  <1> QED  BY <1>1, <1>2, <1>3, <1>4, <1>5, <1>6, Zenon DEF IndexInv

LEMMA StartRebuild_preserves ==
    ASSUME IndexInv, StartRebuild
    PROVE  IndexInv'
  <1>0. TypeOK /\ TargetsInactive /\ DebtsOK /\ LocksOK /\ ReadyOK /\ CandidateOK
    BY Zenon DEF IndexInv
  <1>1. TypeOK'
    BY <1>0, Zenon DEF durable, WriterLocals, StartRebuild, TypeOK
  <1>2. TargetsInactive'
    BY <1>0, Zenon DEF durable, StartRebuild, TargetsInactive
  <1>3. DebtsOK'
    BY <1>0, DebtsFrame, Zenon DEF durable, WriterLocals, StartRebuild
  <1>4. LocksOK'
    BY <1>0, LocksFrame, Zenon DEF durable, WriterLocals, StartRebuild
  <1>5. ReadyOK'
    BY <1>0, ReadyFrame, Zenon DEF durable, WriterLocals, StartRebuild
  <1>6. CandidateOK'
    BY <1>0, Zenon DEF durable, StartRebuild, CandidateOK
  <1> QED  BY <1>1, <1>2, <1>3, <1>4, <1>5, <1>6, Zenon DEF IndexInv

LEMMA WorkerFails_preserves ==
    ASSUME IndexInv, WorkerFails
    PROVE  IndexInv'
  <1>0. TypeOK /\ TargetsInactive /\ DebtsOK /\ LocksOK /\ ReadyOK /\ CandidateOK
    BY Zenon DEF IndexInv
  <1>1. TypeOK'
    BY <1>0, BoundAssumption DEF durable, WriterLocals, WorkerFails, Done, TypeOK
  <1>2. TargetsInactive'
    BY <1>0, Zenon DEF durable, WorkerFails, TargetsInactive
  <1>3. DebtsOK'
    BY <1>0, DebtsFrame, Zenon DEF durable, WriterLocals, WorkerFails
  <1>4. LocksOK'
    BY <1>0, WorkerAssumption, Zenon DEF durable, WriterLocals, WorkerFails, Done, LocksOK, Owing
  <1>5. ReadyOK'
    BY <1>0, ReadyFrame, Zenon DEF durable, WriterLocals, WorkerFails
  <1>6. CandidateOK'
    BY <1>0, Zenon DEF durable, WorkerFails, Done, CandidateOK, QueryBuildRecord
  <1> QED  BY <1>1, <1>2, <1>3, <1>4, <1>5, <1>6, Zenon DEF IndexInv

\* The debts of the writers that died are stranded.
LEMMA Crash_preserves ==
    ASSUME IndexInv, Crash
    PROVE  IndexInv'
  <1>0. TypeOK /\ TargetsInactive /\ DebtsOK /\ LocksOK /\ ReadyOK /\ CandidateOK
    BY Zenon DEF IndexInv
  <1>1. TypeOK'
    BY <1>0, BoundAssumption DEF durable, Crash, TypeOK
  <1>2. TargetsInactive'
    BY <1>0, Zenon DEF durable, Crash, TargetsInactive
  <1>3. DebtsOK'
    BY <1>0, Zenon DEF durable, Crash, DebtsOK, Owing
  <1>4. LocksOK'
    BY <1>0, Zenon DEF Crash, LocksOK, Owing
  <1>5. ReadyOK'
    <2>1. Owing' = {} /\ UNCHANGED <<live, header, rows, debts, revived>>
      BY Zenon DEF Crash, durable, Owing
    <2>2. Stranded' = debts
      BY <2>1, Zenon DEF Stranded
    <2>3. Owing # {} => debts # {}
      BY <1>0, Zenon DEF DebtsOK
    <2>4. Stranded \subseteq debts
      BY Zenon DEF Stranded
    <2> QED  BY <1>0, <2>1, <2>2, <2>3, <2>4, Zenon DEF ReadyOK
  <1>6. CandidateOK'
    BY <1>0, Zenon DEF durable, Crash, CandidateOK
  <1> QED  BY <1>1, <1>2, <1>3, <1>4, <1>5, <1>6, Zenon DEF IndexInv

-----------------------------------------------------------------------------

LEMMA InitOK == Init => IndexInv
  <1> SUFFICES ASSUME Init PROVE IndexInv
    BY Zenon
  <1>1. TypeOK
    <2>1. header \in IndexHeader /\ build \in QueryBuildRecord /\ empty_ready \in IndexHeader
      BY NoBuildFacts, Zenon DEF Init, empty_ready, IndexHeader, Slot
    <2>2. deltas \in Seq(NetQuadTransition) /\ rows \in [Slot -> SUBSET Writer]
      BY DEF Init
    <2>3. /\ pc \in [Writer -> {"idle", "wait", "owner", "debtor", "owes", "repair", "lost", "fail"}]
          /\ seen \in [Writer -> IndexHeader] /\ owed \in [Writer -> Nat]
      BY <2>1, Zenon DEF Init
    <2>4. faults \in 0 .. MaxFaults
      BY BoundAssumption DEF Init
    <2> QED  BY <2>1, <2>2, <2>3, <2>4, Zenon DEF Init, TypeOK
  <1>2. TargetsInactive /\ DebtsOK /\ LocksOK /\ CandidateOK
    BY NoBuildFacts, Zenon DEF Init, TargetsInactive, DebtsOK, LocksOK, CandidateOK, Owing
  <1>3. ReadyOK
    BY Zenon DEF Init, ReadyOK, empty_ready, Slot
  <1> QED  BY <1>1, <1>2, <1>3, Zenon DEF IndexInv

LEMMA StutterOK ==
    ASSUME IndexInv, UNCHANGED vars
    PROVE  IndexInv'
  <1>1. TypeOK' /\ TargetsInactive'
    BY Zenon DEF vars, durable, IndexInv, TypeOK, TargetsInactive
  <1>2. DebtsOK' /\ ReadyOK'
    BY DebtsFrame, ReadyFrame, Zenon DEF vars, durable, IndexInv
  <1>3. LocksOK'
    BY Zenon DEF vars, durable, IndexInv, LocksOK, Owing
  <1>4. CandidateOK'
    BY CandidateFrame, Zenon DEF vars, durable, IndexInv
  <1> QED  BY <1>1, <1>2, <1>3, <1>4, Zenon DEF IndexInv

LEMMA StepOK == IndexInv /\ [Next]_vars => IndexInv'
  <1> SUFFICES ASSUME IndexInv, [Next]_vars PROVE IndexInv'
    BY Zenon
  <1>1. ASSUME NEW w \in Writer, WriterStep(w) PROVE IndexInv'
    BY <1>1, Enter_preserves, Granted_preserves, TimesOut_preserves, CommitOwned_preserves,
        CommitDebt_preserves, CommitFails_preserves, repair_projection_debt_preserves,
        CommitRepair_preserves, RepairFails_preserves, ReadFailed_preserves,
        fail_projection_debt_preserves, StrandDebt_preserves, Zenon DEF WriterStep
  <1>2. ASSUME WorkerStep PROVE IndexInv'
    BY <1>2, ClearBuild_preserves, RetireBuild_preserves, clear_query_deltas_preserves,
        CleanSlot_preserves, fail_unrepaired_debt_preserves, Admit_preserves, CreateBuild_preserves,
        clear_query_slot_preserves, Capture_preserves, ScanChunk_preserves, ScanDone_preserves,
        replay_query_deltas_preserves, StartVerify_preserves, replay_owned_deltas_preserves,
        Verify_preserves, StartSwitch_preserves, SwitchSlot_preserves, Zenon DEF WorkerStep
  <1>3. ASSUME StartRepair \/ StartRebuild \/ WorkerFails \/ Crash PROVE IndexInv'
    BY <1>3, StartRepair_preserves, StartRebuild_preserves, WorkerFails_preserves, Crash_preserves, Zenon
  <1> QED  BY <1>1, <1>2, <1>3, StutterOK, Zenon DEF Next

\* The query index, its debts, builds and records stay consistent with the source,
\* whatever the interleaving of commits, maintenance, failures and crashes.
THEOREM Invariance == Spec => []IndexInv
  BY InitOK, StepOK, PTL DEF Spec

\* The state of the index and of its users keeps its types.
THEOREM TypeCorrect == Spec => []TypeOK
  <1>1. IndexInv => TypeOK
    BY Zenon DEF IndexInv
  <1> QED  BY <1>1, Invariance, PTL

\* Recovery is never told to clear the active slot, and so never refuses to go on.
THEOREM RecordsSpareActive == Spec => []TargetsInactive
  <1>1. IndexInv => TargetsInactive
    BY Zenon DEF IndexInv
  <1> QED  BY <1>1, Invariance, PTL

\* Unless an update wrote a ready header over a failed one, queries that use the index
\* see exactly the live quads.
THEOREM TrustedUnlessRevived == Spec => []ExactUnlessRevived
  <1>1. IndexInv => ExactUnlessRevived
    <2> SUFFICES ASSUME IndexInv, ~revived, trusted PROVE rows[header.slot] = live
      BY Zenon DEF ExactUnlessRevived, TrustedIsExact
    <2>1. Owing = {} /\ Stranded = {}
      BY Zenon DEF IndexInv, DebtsOK, trusted, Stranded
    <2>2. \A w \in Writer : w \in rows[header.slot] <=> w \in live
      BY <2>1, Zenon DEF IndexInv, ReadyOK, trusted
    <2>3. rows[header.slot] \subseteq Writer /\ live \subseteq Writer
      BY Zenon DEF IndexInv, TypeOK, IndexHeader
    <2> QED  BY <2>2, <2>3, Zenon
  <1> QED  BY <1>1, Invariance, PTL

\* Whatever commits beside it, a rebuild publishes exactly the live quads.
THEOREM RebuildPublishesLive == Spec => SwitchIsExact
  <1> DEFINE Exact == header'.slot # header.slot => rows'[header'.slot] = live'
  <1>1. ASSUME IndexInv, [Next]_vars
        PROVE  Exact
    <2>0. TypeOK /\ LocksOK
      BY <1>1, Zenon DEF IndexInv
    <2>1. CASE SwitchSlot
      <3>1. rows[other(header.slot)] = live
        BY <1>1, <2>1, CandidateIsLive, Zenon
      <3> QED  BY <2>1, <3>1 DEF SwitchSlot
    <2>2. ASSUME NEW w \in Writer, WriterStep(w)
          PROVE  header'.slot = header.slot
      <3>1. CASE CommitOwned(w)
        <4>1. seen[w] \in IndexHeader /\ seen[w].slot = header.slot
          BY <2>0, <3>1, Zenon DEF CommitOwned, TypeOK, LocksOK
        <4> QED  BY <2>0, <3>1, <4>1, PlanKeeps, ChangeFacts, Zenon DEF CommitOwned
      <3>2. CASE CommitRepair(w)
        <4>1. seen[w] \in IndexHeader /\ seen[w].slot = header.slot
          BY <2>0, <3>2, Zenon DEF CommitRepair, TypeOK, LocksOK
        <4>2. [quad |-> w, is_live |-> w \in live] \in NetQuadTransition
          BY DEF NetQuadTransition
        <4> QED  BY <2>0, <3>2, <4>1, <4>2, PlanKeeps, Zenon DEF CommitRepair
      <3>3. CASE fail_projection_debt(w)
        BY <2>0, <3>3, Zenon DEF fail_projection_debt, TypeOK, LocksOK, IndexHeader
      <3>4. CASE UNCHANGED header
        BY <3>4, Zenon
      <3> QED
        BY <2>2, <3>1, <3>2, <3>3, <3>4, Zenon
           DEF WriterStep, Enter, Granted, TimesOut, CommitDebt, CommitFails,
               repair_projection_debt, RepairFails, ReadFailed, StrandDebt, durable
    <2>3. CASE fail_unrepaired_debt
      BY <2>0, <2>3, Zenon DEF fail_unrepaired_debt, TypeOK, IndexHeader
    <2>4. CASE UNCHANGED header
      BY <2>4, Zenon
    <2>5. ASSUME WorkerStep \/ StartRepair \/ StartRebuild \/ WorkerFails \/ Crash
          PROVE  SwitchSlot \/ fail_unrepaired_debt \/ UNCHANGED header
      BY <2>5, Zenon DEF WorkerStep, ClearBuild, RetireBuild, clear_query_deltas, CleanSlot, Admit,
                  CreateBuild, clear_query_slot, Capture, ScanChunk, ScanDone,
                  replay_query_deltas, StartVerify, replay_owned_deltas, Verify, StartSwitch,
                  TakeGate, StartRepair, StartRebuild, WorkerFails, Crash, durable
    <2>6. CASE UNCHANGED vars
      BY <2>6, Zenon DEF vars, durable
    <2>7. CASE Next
      BY <2>1, <2>2, <2>3, <2>4, <2>5, <2>7, Zenon DEF Next
    <2> QED  BY <1>1, <2>6, <2>7, Zenon
  <1>2. IndexInv /\ [Next]_vars => [Exact]_vars
    BY <1>1, Zenon
  <1> QED  BY <1>2, Invariance, PTL DEF Spec, SwitchIsExact

=============================================================================
