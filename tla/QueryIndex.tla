---------------------------- MODULE QueryIndex ----------------------------
(***************************************************************************)
(* The query index and its maintenance beside running writers.  The index  *)
(* has two slots of rows; a header names the active slot and says whether  *)
(* it may be trusted.  A commit updates the active slot when it gets the   *)
(* commit gate at once.  When it does not, it commits the source rows with *)
(* a durable debt and catches up later.  A worker rebuilds the inactive    *)
(* slot from a snapshot while commits go on: they queue deltas, which the  *)
(* worker replays before it switches the slots.                            *)
(*                                                                         *)
(* The locks: commits share the projection lock from start to end, so the  *)
(* writers inside a commit are its readers.  The worker holds it alone     *)
(* only in sections in which no writer is inside and nothing can           *)
(* intervene: such a section is one step.  The gate is a plain lock here   *)
(* (QvGate shows that it is one).  Every store batch is atomic, and a      *)
(* crash keeps what was committed.                                         *)
(***************************************************************************)
EXTENDS Naturals, Sequences, FiniteSets

CONSTANTS Writer,      \* writers of different graphs; each changes one quad
          Worker,      \* the maintenance worker
          MaxCommits,  \* bound on the commits
          DeltaLimit,  \* the delta rows a build may queue
          MaxFaults    \* bound on crashes and failed store calls

ASSUME WorkerAssumption == Worker \notin Writer

ASSUME BoundAssumption == MaxCommits \in Nat /\ DeltaLimit \in Nat /\ MaxFaults \in Nat

\* The source holds the quad of a writer or not; a quad is named by its writer.
VARIABLES live,     \* the quads of the source that have dots
          header,   \* the index header
          rows,     \* per slot, the quads it lists
          debts,    \* the durable projection debts
          build,    \* the durable build record
          deltas,   \* the queued delta rows, by delta id
          cleanup,  \* the slot that a cleanup record names, if any
          seq       \* the source commits so far

durable == <<live, header, rows, debts, build, deltas, cleanup, seq>>

VARIABLES pc,       \* per writer, its place in commit_with_index
          seen,     \* per writer, the header that its staged update builds on
          owed,     \* per writer, the id of its debt
          gate,     \* the owner of the commit gate, if any
          job,      \* what the worker was called for
          wpc,      \* the worker's place in it
          todo,     \* the snapshot rows that the worker's scan has still to copy
          target,   \* the delta up to which the worker replays
          cand,     \* the source epoch of the worker's candidate header
          faults,   \* the faults so far
          revived   \* an update has written a ready header over a failed one

vars == <<durable, pc, seen, owed, gate, job, wpc, todo, target, cand, faults, revived>>

Slot == {0, 1}

\* Faulty: the slots are counted on.
other_next(slot) == slot + 1

other(slot) == 1 - slot

IndexHeader == [state : {"Ready", "Failed"}, slot : Slot, epoch : Nat]

NetQuadTransition == [quad : Writer, is_live : BOOLEAN]

QueryBuildRecord ==
    [on : BOOLEAN, phase : {"Clear", "Scan", "Replay", "Verify"}, slot : Slot,
     next_delta : Nat \ {0}, replay_cursor : Nat, trusted : BOOLEAN, digest : IndexHeader]

empty_ready == [state |-> "Ready", slot |-> 0, epoch |-> 0]

NoBuild == [on |-> FALSE, phase |-> "Clear", slot |-> 1, next_delta |-> 1,
            replay_cursor |-> 0, trusted |-> FALSE, digest |-> empty_ready]

TypeOK ==
    /\ live \subseteq Writer
    /\ header \in IndexHeader
    /\ rows \in [Slot -> SUBSET Writer]
    /\ debts \subseteq Nat
    /\ build \in QueryBuildRecord
    /\ deltas \in Seq(NetQuadTransition)
    /\ cleanup \subseteq Slot
    /\ seq \in Nat
    /\ pc \in [Writer -> {"idle", "wait", "owner", "debtor", "owes", "repair", "lost", "fail"}]
    /\ seen \in [Writer -> IndexHeader]
    /\ owed \in [Writer -> Nat]
    /\ gate \subseteq Writer \cup {Worker}
    /\ job \in {"open", "repair", "rebuild", "publish"}
    /\ wpc \in {"idle", "recover", "retire", "sweep", "cleanup", "debts", "admit", "create",
                "clear", "capture", "scan", "replay", "verify", "verified", "switch"}
    /\ todo \subseteq Writer
    /\ target \in Nat
    /\ cand \in Nat
    /\ faults \in 0 .. MaxFaults
    /\ revived \in BOOLEAN

Init ==
    /\ live = {} /\ header = empty_ready /\ rows = [s \in Slot |-> {}]
    /\ debts = {} /\ build = NoBuild /\ deltas = <<>> /\ cleanup = {} /\ seq = 0
    /\ pc = [w \in Writer |-> "idle"]
    /\ seen = [w \in Writer |-> empty_ready]
    /\ owed = [w \in Writer |-> 0]
    /\ gate = {} /\ job = "repair" /\ wpc = "idle"
    /\ todo = {} /\ target = 0 /\ cand = 0
    /\ faults = 0 /\ revived = FALSE

-----------------------------------------------------------------------------

\* Queries use the index when the header is ready and no debt is recorded.
trusted == header.state = "Ready" /\ debts = {}

InCommit == {w \in Writer : pc[w] # "idle"}

\* The writers whose commit is still to come.
Uncommitted == {w \in Writer : pc[w] \in {"wait", "owner", "debtor"}}

WorkerLocals == <<job, wpc, todo, target, cand>>

apply_row(listed, t) ==
    IF t.is_live THEN listed \cup {t.quad} ELSE listed \ {t.quad}

\* The writer's change: its quad comes or goes.
Change(w) == [quad |-> w, is_live |-> w \notin live]

\* A transition that a slot already reflects leaves the header out of the plan.
Covered(slot, t) == (t.quad \in rows[slot]) = t.is_live

\* Faulty: a build that has begun its replay gets no more deltas.
stage_query_delta_until_replay(t) ==
    IF ~build.on \/ build.phase \in {"Clear", "Replay"}
    THEN UNCHANGED <<build, deltas, cleanup>>
    ELSE IF build.next_delta > DeltaLimit
    THEN /\ build' = NoBuild
         /\ cleanup' = {build.slot}
         /\ UNCHANGED deltas
    ELSE /\ build' = [build EXCEPT !.next_delta = @ + 1]
         /\ deltas' = IF build.next_delta <= Len(deltas)
                      THEN [deltas EXCEPT ![build.next_delta] = t]
                      ELSE Append(deltas, t)
         /\ UNCHANGED cleanup

\* The deltas of a running build.  Past the limit the build is given up.
stage_query_delta(t) ==
    IF ~build.on \/ build.phase = "Clear"
    THEN UNCHANGED <<build, deltas, cleanup>>
    ELSE IF build.next_delta > DeltaLimit
    THEN /\ build' = NoBuild
         /\ cleanup' = {build.slot}
         /\ UNCHANGED deltas
    ELSE /\ build' = [build EXCEPT !.next_delta = @ + 1]
         /\ deltas' = IF build.next_delta <= Len(deltas)
                      THEN [deltas EXCEPT ![build.next_delta] = t]
                      ELSE Append(deltas, t)
         /\ UNCHANGED cleanup

\* The update of the active slot, planned on the header h that was read when the
\* batch was staged, and the delta of a running build.
stage_index_update(h, t) ==
    /\ IF h.state = "Ready"
       THEN /\ rows' = [rows EXCEPT ![h.slot] = apply_row(@, t)]
            /\ IF Covered(h.slot, t)
               THEN UNCHANGED <<header, revived>>
               ELSE /\ header' = [h EXCEPT !.epoch = @ + 1]
                    /\ revived' = (revived \/ header.state = "Failed")
       ELSE UNCHANGED <<rows, header, revived>>
    /\ stage_query_delta(t)

-----------------------------------------------------------------------------
(* Writers: commit_with_index.                                             *)

\* The commit takes its share of the projection lock and tries the gate.  With the
\* gate it stages its update at once; without it, it waits for the gate when a build
\* is running, and goes into debt otherwise.
Enter(w) ==
    /\ pc[w] = "idle" /\ job # "open"
    /\ seq + Cardinality(Uncommitted) < MaxCommits
    /\ pc' = [pc EXCEPT ![w] = IF gate = {} THEN "owner"
                               ELSE IF build.on THEN "wait" ELSE "debtor"]
    /\ IF gate = {} THEN gate' = {w} /\ seen' = [seen EXCEPT ![w] = header]
                    ELSE UNCHANGED <<gate, seen>>
    /\ UNCHANGED <<durable, owed, WorkerLocals, faults, revived>>

\* The gate is handed to a waiter.
Granted(w) ==
    /\ pc[w] = "wait" /\ gate = {}
    /\ pc' = [pc EXCEPT ![w] = "owner"]
    /\ gate' = {w}
    /\ seen' = [seen EXCEPT ![w] = header]
    /\ UNCHANGED <<durable, owed, WorkerLocals, faults, revived>>

\* A waiter gives up: QueryIndexBusy, nothing is written.
TimesOut(w) ==
    /\ pc[w] = "wait" /\ gate # {}
    /\ pc' = [pc EXCEPT ![w] = "idle"]
    /\ UNCHANGED <<durable, seen, owed, gate, WorkerLocals, faults, revived>>

\* Source rows, index rows, header and delta in one batch.
CommitOwned(w) ==
    /\ pc[w] = "owner"
    /\ live' = apply_row(live, Change(w))
    /\ stage_index_update(seen[w], Change(w))
    /\ seq' = seq + 1
    /\ gate' = {}
    /\ pc' = [pc EXCEPT ![w] = "idle"]
    /\ UNCHANGED <<debts, seen, owed, WorkerLocals, faults>>

\* Faulty: the debt is not written with the source rows.
CommitDebt_unmarked(w) ==
    /\ pc[w] = "debtor"
    /\ live' = apply_row(live, Change(w))
    /\ seq' = seq + 1
    /\ owed' = [owed EXCEPT ![w] = seq']
    /\ pc' = [pc EXCEPT ![w] = "owes"]
    /\ UNCHANGED <<header, rows, debts, build, deltas, cleanup, seen, gate, WorkerLocals,
                   faults, revived>>

\* Source rows and a debt in one batch.
CommitDebt(w) ==
    /\ pc[w] = "debtor"
    /\ live' = apply_row(live, Change(w))
    /\ seq' = seq + 1
    /\ debts' = debts \cup {seq'}
    /\ owed' = [owed EXCEPT ![w] = seq']
    /\ pc' = [pc EXCEPT ![w] = "owes"]
    /\ UNCHANGED <<header, rows, build, deltas, cleanup, seen, gate, WorkerLocals, faults, revived>>

\* The commit fails: nothing is written, the gate is released.
CommitFails(w) ==
    /\ pc[w] \in {"owner", "debtor"}
    /\ faults < MaxFaults
    /\ faults' = faults + 1
    /\ gate' = gate \ {w}
    /\ pc' = [pc EXCEPT ![w] = "idle"]
    /\ UNCHANGED <<durable, seen, owed, WorkerLocals, revived>>

\* The catch-up gets the gate and stages the update.
repair_projection_debt(w) ==
    /\ pc[w] = "owes" /\ gate = {}
    /\ gate' = {w}
    /\ seen' = [seen EXCEPT ![w] = header]
    /\ pc' = [pc EXCEPT ![w] = "repair"]
    /\ UNCHANGED <<durable, owed, WorkerLocals, faults, revived>>

\* Index rows, header and the removal of the debt in one batch.  The quad has not
\* changed since: the graph's write guard is still held.
CommitRepair(w) ==
    /\ pc[w] = "repair"
    /\ stage_index_update(seen[w], [quad |-> w, is_live |-> w \in live])
    /\ debts' = debts \ {owed[w]}
    /\ gate' = {}
    /\ pc' = [pc EXCEPT ![w] = "idle"]
    /\ UNCHANGED <<live, seq, seen, owed, WorkerLocals, faults>>

\* The catch-up fails, at the gate or in the store.
RepairFails(w) ==
    /\ \/ pc[w] = "owes" /\ gate # {} /\ UNCHANGED faults
       \/ pc[w] = "repair" /\ faults < MaxFaults /\ faults' = faults + 1
    /\ gate' = gate \ {w}
    /\ pc' = [pc EXCEPT ![w] = "lost"]
    /\ UNCHANGED <<durable, seen, owed, WorkerLocals, revived>>

\* The header is read, without the gate ...
ReadFailed(w) ==
    /\ pc[w] = "lost"
    /\ seen' = [seen EXCEPT ![w] = header]
    /\ pc' = [pc EXCEPT ![w] = "fail"]
    /\ UNCHANGED <<durable, owed, gate, WorkerLocals, faults, revived>>

\* ... and written back as failed, with the removal of the debt.
fail_projection_debt(w) ==
    /\ pc[w] = "fail"
    /\ header' = [seen[w] EXCEPT !.state = "Failed"]
    /\ debts' = debts \ {owed[w]}
    /\ pc' = [pc EXCEPT ![w] = "idle"]
    /\ UNCHANGED <<live, rows, build, deltas, cleanup, seq, seen, owed, gate, WorkerLocals,
                   faults, revived>>

\* That batch fails as well: the debt stays.
StrandDebt(w) ==
    /\ pc[w] = "fail"
    /\ faults < MaxFaults
    /\ faults' = faults + 1
    /\ pc' = [pc EXCEPT ![w] = "idle"]
    /\ UNCHANGED <<durable, seen, owed, gate, WorkerLocals, revived>>

-----------------------------------------------------------------------------
(* The worker: repair_query_with, rebuild_query_with, and the open.  The    *)
(* maintenance lock lets one call in at a time.                             *)

WriterLocals == <<pc, seen, owed>>

Done == wpc' = "idle" /\ job' = "repair"

\* An open that fails is tried again.
GiveUp == IF job = "open" THEN wpc' = "recover" /\ UNCHANGED job ELSE Done

StartRepair ==
    /\ wpc = "idle"
    /\ wpc' = "recover" /\ job' = "repair"
    /\ UNCHANGED <<durable, WriterLocals, gate, todo, target, cand, faults, revived>>

StartRebuild ==
    /\ wpc = "idle"
    /\ wpc' = "create" /\ job' = "rebuild"
    /\ UNCHANGED <<durable, WriterLocals, gate, todo, target, cand, faults, revived>>

\* What an earlier build has left is cleared, in its slot first.
ClearBuild ==
    /\ wpc = "recover"
    /\ IF ~build.on THEN wpc' = "cleanup" /\ UNCHANGED <<rows, job>>
       ELSE IF build.slot = header.slot THEN GiveUp /\ UNCHANGED rows
       ELSE /\ rows' = [rows EXCEPT ![build.slot] = {}]
            /\ wpc' = "retire" /\ UNCHANGED job
    /\ UNCHANGED <<live, header, debts, build, deltas, cleanup, seq, WriterLocals, gate,
                   todo, target, cand, faults, revived>>

\* Faulty: the build record stays.
RetireBuild_keeps ==
    /\ wpc = "retire" /\ InCommit = {}
    /\ wpc' = "sweep"
    /\ UNCHANGED <<durable, WriterLocals, gate, job, todo, target, cand, faults, revived>>

\* The record goes away while no commit is under way.
RetireBuild ==
    /\ wpc = "retire" /\ InCommit = {}
    /\ IF build.on THEN build' = NoBuild /\ wpc' = "sweep" /\ UNCHANGED job
                   ELSE Done /\ UNCHANGED build
    /\ UNCHANGED <<live, header, rows, debts, deltas, cleanup, seq, WriterLocals, gate,
                   todo, target, cand, faults, revived>>

clear_query_deltas ==
    /\ wpc = "sweep"
    /\ deltas' = <<>>
    /\ wpc' = "cleanup"
    /\ UNCHANGED <<live, header, rows, debts, build, cleanup, seq, WriterLocals, gate,
                   job, todo, target, cand, faults, revived>>

\* The slot of a cleanup record is cleared and the record removed.
CleanSlot ==
    /\ wpc = "cleanup"
    /\ IF cleanup = {} THEN UNCHANGED <<rows, deltas, cleanup>>
       ELSE /\ rows' = [s \in Slot |-> IF s \in cleanup \ {header.slot} THEN {} ELSE rows[s]]
            /\ deltas' = IF header.slot \in cleanup THEN deltas ELSE <<>>
            /\ cleanup' = cleanup \cap {header.slot}
    /\ IF header.slot \in cleanup THEN GiveUp
       ELSE IF job = "publish" THEN Done
       ELSE wpc' = "debts" /\ UNCHANGED job
    /\ UNCHANGED <<live, header, debts, build, seq, WriterLocals, gate,
                   todo, target, cand, faults, revived>>

\* No commit is under way, so the debts that are left are stranded.
fail_unrepaired_debt ==
    /\ wpc = "debts" /\ InCommit = {}
    /\ header' = IF debts = {} THEN header ELSE [header EXCEPT !.state = "Failed"]
    /\ debts' = {}
    /\ IF job = "open" THEN Done ELSE wpc' = "admit" /\ UNCHANGED job
    /\ UNCHANGED <<live, rows, build, deltas, cleanup, seq, WriterLocals, gate,
                   todo, target, cand, faults, revived>>

\* A trusted index is left alone.
Admit ==
    /\ wpc = "admit"
    /\ IF trusted THEN Done ELSE wpc' = "create" /\ UNCHANGED job
    /\ UNCHANGED <<durable, WriterLocals, gate, todo, target, cand, faults, revived>>

\* The build record is created, or the rebuild is given up because it overlaps a
\* commit or finds a debt or a build.
CreateBuild ==
    /\ wpc = "create"
    /\ IF InCommit # {} \/ gate # {} \/ debts # {} \/ build.on
       THEN Done /\ UNCHANGED build
       ELSE /\ build' = [NoBuild EXCEPT !.on = TRUE, !.slot = other(header.slot),
                                        !.digest = header]
            /\ wpc' = "clear" /\ UNCHANGED job
    /\ UNCHANGED <<live, header, rows, debts, deltas, cleanup, seq, WriterLocals, gate,
                   todo, target, cand, faults, revived>>

clear_query_slot ==
    /\ wpc = "clear"
    /\ rows' = [rows EXCEPT ![other(header.slot)] = {}]
    /\ wpc' = "capture"
    /\ UNCHANGED <<live, header, debts, build, deltas, cleanup, seq, WriterLocals, gate,
                   job, todo, target, cand, faults, revived>>

\* The snapshot to copy is taken while no commit is under way; from here on the
\* commits queue deltas.
Capture ==
    /\ wpc = "capture"
    /\ IF \/ InCommit # {} \/ gate # {} \/ debts # {}
          \/ ~build.on \/ build.phase # "Clear" \/ build.slot # other(header.slot)
       THEN Done /\ UNCHANGED <<build, todo, cand>>
       ELSE /\ build' = [build EXCEPT !.phase = "Scan", !.digest = header, !.trusted = trusted]
            /\ todo' = live
            /\ cand' = IF trusted THEN header.epoch ELSE seq
            /\ wpc' = "scan" /\ UNCHANGED job
    /\ UNCHANGED <<live, header, rows, debts, deltas, cleanup, seq, WriterLocals, gate,
                   target, faults, revived>>

\* The cursor is written into the build record, which may be gone by then.
update_build_cursor == IF build.on THEN UNCHANGED <<wpc, job>> ELSE Done

\* A chunk of rows is copied and the build's cursor updated under the gate.
ScanChunk ==
    /\ wpc = "scan" /\ gate = {}
    /\ \E quad \in todo :
          /\ rows' = [rows EXCEPT ![other(header.slot)] = @ \cup {quad}]
          /\ todo' = todo \ {quad}
    /\ update_build_cursor
    /\ UNCHANGED <<live, header, debts, build, deltas, cleanup, seq, WriterLocals, gate,
                   target, cand, faults, revived>>

ScanDone ==
    /\ wpc = "scan" /\ todo = {}
    /\ IF build.on THEN wpc' = "replay" /\ target' = build.next_delta - 1 /\ UNCHANGED job
                   ELSE Done /\ UNCHANGED target
    /\ UNCHANGED <<durable, WriterLocals, gate, todo, cand, faults, revived>>

\* One delta is replayed into the candidate slot.
replay_query_delta ==
    LET t    == deltas[build.replay_cursor + 1]
        slot == other(header.slot)
    IN  /\ rows' = [rows EXCEPT ![slot] = apply_row(@, t)]
        /\ cand' = IF Covered(slot, t) THEN cand ELSE cand + 1
        /\ build' = [build EXCEPT !.replay_cursor = @ + 1, !.phase = "Replay"]

\* The deltas known when the scan ended, each with the gate taken for it alone.
replay_query_deltas ==
    /\ wpc = "replay" /\ gate = {}
    /\ build.on => build.replay_cursor < target
    /\ IF build.on THEN replay_query_delta /\ UNCHANGED <<wpc, job>>
                   ELSE Done /\ UNCHANGED <<rows, cand, build>>
    /\ UNCHANGED <<live, header, debts, deltas, cleanup, seq, WriterLocals, gate,
                   todo, target, faults, revived>>

\* The gate is taken for the deltas that have come since.
TakeGate(from, to) ==
    /\ wpc = from /\ gate = {}
    /\ IF build.on THEN /\ gate' = {Worker}
                        /\ target' = build.next_delta - 1
                        /\ wpc' = to /\ UNCHANGED job
                   ELSE Done /\ UNCHANGED <<gate, target>>
    /\ UNCHANGED <<durable, WriterLocals, todo, cand, faults, revived>>

StartVerify == (build.on => build.replay_cursor >= target) /\ TakeGate("replay", "verify")

StartSwitch == TakeGate("verified", "switch")

replay_owned_deltas ==
    /\ wpc \in {"verify", "switch"}
    /\ build.replay_cursor < target
    /\ replay_query_delta
    /\ UNCHANGED <<live, header, debts, deltas, cleanup, seq, WriterLocals, gate,
                   job, wpc, todo, target, faults, revived>>

verify_index_snapshot == rows[other(header.slot)] = live

\* The candidate is compared with the source, on a snapshot taken with the gate.
Verify ==
    /\ wpc = "verify" /\ build.replay_cursor >= target
    /\ build' = [build EXCEPT !.phase = "Verify"]
    /\ gate' = {}
    /\ IF verify_index_snapshot THEN wpc' = "verified" /\ UNCHANGED job ELSE Done
    /\ UNCHANGED <<live, header, rows, debts, deltas, cleanup, seq, WriterLocals,
                   todo, target, cand, faults, revived>>

\* The active slot is still the one the build was captured against.
active_matches ==
    IF build.trusted
    THEN /\ cand = header.epoch
         /\ Cardinality(rows[0]) = Cardinality(rows[1])
    ELSE header = build.digest

\* Faulty: the cleanup record of a given-up build is kept.
SwitchSlot_keeps_cleanup ==
    /\ wpc = "switch" /\ build.replay_cursor >= target
    /\ IF active_matches
       THEN /\ header' = [state |-> "Ready", slot |-> other(header.slot), epoch |-> cand]
            /\ build' = NoBuild
            /\ cleanup' = IF cleanup = {} THEN {header.slot} ELSE cleanup
            /\ wpc' = "recover" /\ job' = "publish"
       ELSE Done /\ UNCHANGED <<header, build, cleanup>>
    /\ gate' = {}
    /\ UNCHANGED <<live, rows, debts, deltas, seq, WriterLocals,
                   todo, target, cand, faults, revived>>

\* Faulty: the deltas queued since the verification are not waited for.
SwitchSlot_early ==
    /\ wpc = "switch"
    /\ IF active_matches
       THEN /\ header' = [state |-> "Ready", slot |-> other(header.slot), epoch |-> cand]
            /\ build' = NoBuild
            /\ cleanup' = {header.slot}
            /\ wpc' = "recover" /\ job' = "publish"
       ELSE Done /\ UNCHANGED <<header, build, cleanup>>
    /\ gate' = {}
    /\ UNCHANGED <<live, rows, debts, deltas, seq, WriterLocals,
                   todo, target, cand, faults, revived>>

\* The candidate becomes the active slot; the other one is to be cleared.
SwitchSlot ==
    /\ wpc = "switch" /\ build.replay_cursor >= target
    /\ IF active_matches
       THEN /\ header' = [state |-> "Ready", slot |-> other(header.slot), epoch |-> cand]
            /\ build' = NoBuild
            /\ cleanup' = {header.slot}
            /\ wpc' = "recover" /\ job' = "publish"
       ELSE Done /\ UNCHANGED <<header, build, cleanup>>
    /\ gate' = {}
    /\ UNCHANGED <<live, rows, debts, deltas, seq, WriterLocals,
                   todo, target, cand, faults, revived>>

\* A timeout at the gate, a store error or a request to stop ends the call.
WorkerFails ==
    /\ wpc # "idle" /\ job # "open"
    /\ faults < MaxFaults
    /\ faults' = faults + 1
    /\ gate' = gate \ {Worker}
    /\ Done
    /\ UNCHANGED <<durable, WriterLocals, todo, target, cand, revived>>

\* The process dies and the store is opened again, with a recovery before all else.
Crash ==
    /\ faults < MaxFaults
    /\ faults' = faults + 1
    /\ pc' = [w \in Writer |-> "idle"]
    /\ gate' = {}
    /\ wpc' = "recover" /\ job' = "open"
    /\ UNCHANGED <<durable, seen, owed, todo, target, cand, revived>>

WriterStep(w) ==
    \/ Enter(w) \/ Granted(w) \/ TimesOut(w)
    \/ CommitOwned(w) \/ CommitDebt(w) \/ CommitFails(w)
    \/ repair_projection_debt(w) \/ CommitRepair(w) \/ RepairFails(w)
    \/ ReadFailed(w) \/ fail_projection_debt(w) \/ StrandDebt(w)

WorkerStep ==
    \/ ClearBuild \/ RetireBuild \/ clear_query_deltas \/ CleanSlot
    \/ fail_unrepaired_debt \/ Admit
    \/ CreateBuild \/ clear_query_slot \/ Capture \/ ScanChunk \/ ScanDone
    \/ replay_query_deltas \/ StartVerify \/ replay_owned_deltas \/ Verify
    \/ StartSwitch \/ SwitchSlot

Next ==
    \/ \E w \in Writer : WriterStep(w)
    \/ WorkerStep
    \/ StartRepair \/ StartRebuild
    \/ WorkerFails \/ Crash

Spec == Init /\ [][Next]_vars

\* What a commit that has started does next.  It fails only by a fault, and a wait
\* at the gate ends by the handoff or by its timeout.
CommitGoesOn(w) ==
    \/ Granted(w) \/ TimesOut(w) \/ CommitOwned(w) \/ CommitDebt(w)
    \/ repair_projection_debt(w) \/ CommitRepair(w) \/ RepairFails(w)
    \/ ReadFailed(w) \/ fail_projection_debt(w)

\* The search worker calls repair_query_with in every round, at least once a second,
\* however often operators ask for a rebuild; calls run on unless a fault ends them.
FairSpec ==
    /\ Spec
    /\ \A w \in Writer : WF_vars(CommitGoesOn(w))
    /\ WF_vars(WorkerStep)
    /\ SF_vars(StartRepair)

-----------------------------------------------------------------------------
(* Properties.                                                             *)

\* A trusted index lists exactly the live quads: a failed catch-up "closes QV
\* admission".  It does so outside the gate, and the owner of the gate may then write
\* back the ready header that it read before.
TrustedIsExact == trusted => rows[header.slot] = live

\* Unless that has happened, a trusted index is exact over debts, rebuilds, given-up
\* builds and crashes.
ExactUnlessRevived == ~revived => TrustedIsExact

\* A rebuild only ever publishes a slot that lists exactly the live quads: no commit
\* beside it is lost between the scan, the deltas and the switch.
SwitchIsExact ==
    [][header'.slot # header.slot => rows'[header'.slot] = live']_vars

\* Neither a build nor a cleanup record ever names the active slot: recovery clears
\* the slot that they name, and would otherwise refuse to go on, for good.
TargetsInactive ==
    /\ build.on => build.slot = other(header.slot)
    /\ header.slot \notin cleanup

\* An index that lost its trust, over a failed or stranded debt, gets it back once
\* the commits pause, whatever is left of earlier builds.
Recovers == ~trusted ~> trusted

-----------------------------------------------------------------------------
(* The inductive invariant behind them.                                    *)

\* The writers that committed in debt and have not settled it.
Owing == {w \in Writer : pc[w] \in {"owes", "repair", "lost", "fail"}}

\* The debts that no writer is going to settle.
Stranded == {d \in debts : \A w \in Owing : owed[w] # d}

\* Each unsettled commit has a debt of its own, and none was given out ahead.
DebtsOK ==
    /\ \A d \in debts : d <= seq
    /\ \A w \in Owing : owed[w] \in debts
    /\ \A v, w \in Owing : owed[v] = owed[w] => v = w

\* The gate has one owner, whose staged header is current but for a failure
\* recorded since; nobody goes into debt while a build is on record.
LocksOK ==
    /\ \A w \in Writer : pc[w] \in {"owner", "repair"} =>
          /\ gate = {w}
          /\ seen[w].slot = header.slot
          /\ seen[w].state = "Failed" => header.state = "Failed"
    /\ \A w \in Writer : pc[w] = "fail" => seen[w].slot = header.slot
    /\ wpc \in {"verify", "switch"} => gate = {Worker} /\ build.on /\ target = build.next_delta - 1
    /\ build.on => Owing = {} /\ \A w \in Writer : pc[w] # "debtor"

\* What a ready index does not list rightly is owed or stranded.
ReadyOK ==
    header.state = "Ready" /\ ~revived =>
        \A w \in Writer : \/ w \in rows[header.slot] <=> w \in live
                          \/ w \in Owing
                          \/ Stranded # {}

\* The queued deltas of a quad that are still to be replayed.
Queued(quad) ==
    {i \in build.replay_cursor + 1 .. build.next_delta - 1 : deltas[i].quad = quad}

\* Every quad is right in the slot under construction, in the rows and the scan if no
\* delta of it is queued, and by its last queued delta otherwise.
CandidateOK ==
    /\ build.on /\ build.phase = "Clear" => build.next_delta = 1 /\ build.replay_cursor = 0
    /\ wpc = "capture" => rows[other(header.slot)] = {}
    /\ wpc \in {"sweep", "cleanup"} => ~build.on
    /\ build.on /\ wpc \in {"scan", "replay", "verify", "verified", "switch"} =>
          /\ build.phase # "Clear"
          /\ build.replay_cursor < build.next_delta /\ build.next_delta <= Len(deltas) + 1
          /\ wpc # "scan" => todo = {} /\ target <= build.next_delta - 1
          /\ \A quad \in Writer :
                /\ Queued(quad) = {} =>
                      (quad \in live <=> quad \in rows[other(header.slot)] \cup todo)
                /\ \A i \in Queued(quad) : (\A j \in Queued(quad) : j <= i) =>
                      (deltas[i].is_live <=> quad \in live)

\* Between the steps of commits, repairs and the rebuild: the records spare the active
\* slot, each commit in debt has its debt, a staged update is planned on a current header,
\* a ready slot is wrong only where something is owed, and the slot under construction
\* with its queued deltas describes the live quads.
IndexInv == TypeOK /\ TargetsInactive /\ DebtsOK /\ LocksOK /\ ReadyOK /\ CandidateOK

=============================================================================
