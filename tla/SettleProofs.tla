---------------------------- MODULE SettleProofs ----------------------------
(***************************************************************************)
(* Proofs about what runs after a write: the orphan diagnostics            *)
(* (OrphanDiagnostics) and the search maintenance thread with the calls    *)
(* that wait for it (SearchWorker), for every number of callers, entities, *)
(* writes, crashes and failures.                                           *)
(***************************************************************************)
EXTENDS OrphanDiagnostics, SearchWorker, FiniteSetTheorems, SequenceTheorems,
        WellFoundedInduction, TLAPS

-----------------------------------------------------------------------------
(* The orphan diagnostics.                                                 *)

CallShape ==
    [at : {"idle", "settle", "rebuild", "publish", "record"},
     guarded : BOOLEAN, touches : BOOLEAN, orphans : SUBSET Entity]

OrphanShape ==
    /\ odParts \subseteq (Entity \cup {Root}) \X Entity
    /\ odTyped \subseteq Entity
    /\ odClock \in Nat /\ odFailures \in Nat
    /\ odRecord \in [clock : Nat, orphans : SUBSET Entity]
    /\ odRecord.clock <= odClock
    /\ odQueue \subseteq Entity /\ odHidden \subseteq Entity
    /\ odWrite \in Caller \cup {Free} /\ odCommit \in Caller \cup {Free}
    /\ odCall \in [Caller -> CallShape]
    /\ odUp \in BOOLEAN

\* Who is in a call holds a lock, so that a source commit, which needs both
\* locks free, meets nobody who carries a set computed before it.
LocksOK ==
    /\ odUp \/ \A c \in Caller : odCall[c] = Idle
    /\ \A c \in Caller :
         /\ odCall[c].at = "idle" => odCall[c] = Idle
         /\ odCall[c].at # "idle" => (odWrite = c \/ odCommit = c)
         /\ (odWrite = c \/ odCommit = c) => odCall[c].at # "idle"
         /\ odCall[c].at \in {"settle", "rebuild"} => odWrite = c

\* The set a call is about to publish is the orphan set of the graph.
CarriedOK ==
    \A c \in Caller :
      /\ odCall[c].at \in {"publish", "record"} => odCall[c].orphans = orphaned_entity_ids
      /\ odCall[c].at = "settle" /\ ~odCall[c].touches => odCall[c].orphans = orphaned_entity_ids

\* Between its two commits a publication has queued everything shown wrongly.
QueuedOK ==
    odFailures = 0 =>
      \A c \in Caller : odCall[c].at = "record" => SymDiff(odHidden, orphaned_entity_ids) \subseteq odQueue

\* Whenever nobody holds the write lock, the record is current.
CurrentOK == odFailures = 0 /\ odUp /\ odWrite = Free => odRecord.clock = odClock

OrphanInv == OrphanShape /\ LocksOK /\ CarriedOK /\ QueuedOK /\ CurrentOK /\ RecordIsExact /\ VisibilityIsOwed

-----------------------------------------------------------------------------
\* The orphan set depends on the hasPart edges and the types alone.
LEMMA OrphansKept ==
    ASSUME UNCHANGED <<odParts, odTyped>>
    PROVE orphaned_entity_ids' = orphaned_entity_ids
  <1>1. odParts' = odParts /\ odTyped' = odTyped OBVIOUS
  <1>2. Reached' = Reached BY <1>1, Zenon DEF Reached
  <1> QED BY <1>1, <1>2, Zenon DEF orphaned_entity_ids, data_entities

\* Orphans are entities: the root is no data entity.
LEMMA OrphansAreEntities ==
    ASSUME odParts \subseteq (Entity \cup {Root}) \X Entity, odTyped \subseteq Entity
    PROVE orphaned_entity_ids \subseteq Entity
  <1>1. \A q \in odParts : q[1] \in Entity \cup {Root} /\ q[2] \in Entity OBVIOUS
  <1>2. data_entities \subseteq Entity BY <1>1, Zenon DEF data_entities
  <1> QED BY <1>2, Zenon DEF orphaned_entity_ids

\* Who differs from C and agrees with B differs between B and C.
LEMMA SymDiffTriangle ==
    ASSUME NEW A, NEW B, NEW C
    PROVE SymDiff(A, C) \subseteq SymDiff(A, B) \cup SymDiff(B, C)
  BY Zenon DEF SymDiff

LEMMA SymDiffInside ==
    ASSUME NEW S, NEW A \in SUBSET S, NEW B \in SUBSET S
    PROVE SymDiff(A, B) \subseteq S
  BY Zenon DEF SymDiff

\* What readers and the worker use is the orphan set, from the record or computed.
LEMMA ReadersAreExact ==
    ASSUME RecordIsExact
    PROVE graph_diagnostics = orphaned_entity_ids /\ search_orphan_ids = orphaned_entity_ids
  BY Zenon DEF RecordIsExact, graph_diagnostics, search_orphan_ids

-----------------------------------------------------------------------------
LEMMA OrphanInitOK == OrphanInit => OrphanInv
  <1> SUFFICES ASSUME OrphanInit PROVE OrphanInv OBVIOUS
  <1> USE OrphanAssumption
  <1>1. Idle \in CallShape BY DEF Idle, CallShape
  <1>2. OrphanShape BY <1>1 DEF OrphanInit, OrphanShape
  <1>3. \A c \in Caller : odCall[c] = Idle /\ odCall[c].at = "idle" BY DEF OrphanInit, Idle
  <1>4. \A c \in Caller : odWrite # c /\ odCommit # c BY DEF OrphanInit, Free, Root
  <1>5. LocksOK BY <1>3, <1>4 DEF LocksOK
  <1>6. CarriedOK /\ QueuedOK BY <1>3 DEF CarriedOK, QueuedOK
  <1>7. CurrentOK BY DEF OrphanInit, CurrentOK
  <1>8. data_entities = {} BY Zenon DEF OrphanInit, data_entities
  <1>9. orphaned_entity_ids = {} BY <1>8, Zenon DEF orphaned_entity_ids
  <1>10. RecordIsExact BY <1>9 DEF OrphanInit, RecordIsExact
  <1>11. VisibilityIsOwed BY <1>9 DEF OrphanInit, VisibilityIsOwed, SymDiff
  <1> QED BY <1>2, <1>5, <1>6, <1>7, <1>10, <1>11 DEF OrphanInv

\* The two source commits in one form: both locks are free, the caller carries
\* the set of the graph before the commit.
SourceStep(c, change, mode, guarded) ==
    /\ odUp /\ odCall[c] = Idle /\ odWrite = Free /\ odCommit = Free
    /\ Apply(change)
    /\ odCall' = [odCall EXCEPT ![c] =
         [at |-> mode, guarded |-> guarded, touches |-> touches_reachability(change),
          orphans |-> graph_diagnostics]]
    /\ odWrite' = c /\ odCommit' = IF guarded THEN c ELSE odCommit
    /\ UNCHANGED <<odRecord, odHidden, odUp, odCrashes, odFailures>>

LEMMA SourceStepOK ==
    ASSUME OrphanInv, NEW c \in Caller, NEW change \in Change, NEW mode \in {"settle", "rebuild"},
           NEW guarded \in BOOLEAN, SourceStep(c, change, mode, guarded)
    PROVE OrphanInv'
  <1> USE OrphanAssumption
  <1> DEFINE call == [at |-> mode, guarded |-> guarded, touches |-> touches_reachability(change),
                      orphans |-> graph_diagnostics]
  <1>1. OrphanShape /\ LocksOK /\ CarriedOK /\ QueuedOK /\ CurrentOK /\ RecordIsExact /\ VisibilityIsOwed
    BY Zenon DEF OrphanInv
  <1>2. graph_diagnostics = orphaned_entity_ids BY <1>1, ReadersAreExact, Zenon
  <1>3. orphaned_entity_ids \subseteq Entity BY <1>1, OrphansAreEntities, Zenon DEF OrphanShape
  <1>4. Apply(change) /\ odUp /\ odWrite = Free /\ odCommit = Free /\ odWrite' = c
    BY Zenon DEF SourceStep
  <1>5. odCommit' = c \/ odCommit' = odCommit BY Zenon DEF SourceStep
  <1>6. odRecord' = odRecord /\ odHidden' = odHidden /\ odUp' = odUp /\ odFailures' = odFailures
    BY Zenon DEF SourceStep
  <1>7. odCall' = [odCall EXCEPT ![c] = call] BY Zenon DEF SourceStep
  <1>8. touches_reachability(change) \in BOOLEAN BY DEF touches_reachability
  <1>9. call \in CallShape BY <1>2, <1>3, <1>8 DEF CallShape
  <1>10. odCall \in [Caller -> CallShape] BY <1>1, Zenon DEF OrphanShape
  <1> HIDE DEF call
  <1>11. odCall' \in [Caller -> CallShape] BY <1>7, <1>9, <1>10
  <1>12. odCall'[c] = call BY <1>7, <1>10, Zenon
  <1>13. \A d \in Caller \ {c} : odCall'[d] = odCall[d] BY <1>7, <1>10, Zenon
  <1>14. \A d \in Caller : odWrite # d /\ odCommit # d BY <1>4, Zenon DEF Free, Root, OrphanAssumption
  <1>15. \A d \in Caller \ {c} : odCall'[d] = Idle /\ odCall'[d].at = "idle"
    BY <1>1, <1>13, <1>14, Zenon DEF LocksOK
  <1>16. call.at = mode /\ call.touches = touches_reachability(change) /\ call.orphans = orphaned_entity_ids
    BY <1>2 DEF call
  <1>17. OrphanShape'
    <2>1. odClock' \in Nat /\ odRecord'.clock <= odClock'
      BY <1>1, <1>4, <1>6 DEF OrphanShape, Apply
    <2>2. odTyped' \subseteq Entity
      <3>1. change.kind = "type" => change.subject \in Entity BY DEF Change
      <3> QED BY <1>1, <1>4, <3>1 DEF OrphanShape, Apply, SymDiff
    <2>3. odParts' \subseteq (Entity \cup {Root}) \X Entity
      <3>1. change.kind = "part" => <<change.subject, change.object>> \in (Entity \cup {Root}) \X Entity
        BY DEF Change
      <3> QED BY <1>1, <1>4, <3>1, Zenon DEF OrphanShape, Apply, SymDiff
    <2>4. odQueue' \subseteq Entity
      <3>1. change.subject \in Entity \cup {Root} BY DEF Change
      <3> QED BY <1>1, <1>4, <3>1 DEF OrphanShape, Apply
    <2> QED BY <1>1, <1>4, <1>5, <1>6, <1>11, <2>1, <2>2, <2>3, <2>4, Zenon DEF OrphanShape
  <1>18. LocksOK'
    <2>1. \A d \in Caller \ {c} : odWrite' # d /\ odCommit' # d BY <1>4, <1>5, <1>14, Zenon
    <2>2. mode # "idle" OBVIOUS
    <2>3. \A d \in Caller \ {c} : odCall'[d].at \notin {"settle", "rebuild"} BY <1>15
    <2> QED BY <1>4, <1>6, <1>12, <1>15, <1>16, <2>1, <2>2, <2>3, Zenon DEF LocksOK
  <1>19. CarriedOK'
    <2>1. mode \notin {"publish", "record"} OBVIOUS
    <2>2. ASSUME ~touches_reachability(change) PROVE orphaned_entity_ids' = orphaned_entity_ids
      <3>1. odParts' = odParts /\ odTyped' = odTyped
        BY <1>4, <2>2 DEF Apply, touches_reachability
      <3> QED BY <3>1, OrphansKept, Zenon
    <2>3. \A d \in Caller \ {c} : odCall'[d].at \notin {"settle", "publish", "record"} BY <1>15
    <2> QED BY <1>12, <1>16, <2>1, <2>2, <2>3, Zenon DEF CarriedOK
  <1>20. QueuedOK'
    <2>1. mode # "record" OBVIOUS
    <2>2. \A d \in Caller \ {c} : odCall'[d].at # "record" BY <1>15
    <2> QED BY <1>12, <1>16, <2>1, <2>2, Zenon DEF QueuedOK
  <1>21. CurrentOK' BY <1>4, <1>14, Zenon DEF CurrentOK, Free, Root, OrphanAssumption
  <1>22. RecordIsExact'
    <2>1. odClock' = odClock + 1 BY <1>4, Zenon DEF Apply
    <2>2. odRecord'.clock # odClock' BY <1>1, <1>6, <2>1 DEF OrphanShape
    <2> QED BY <2>2, Zenon DEF RecordIsExact
  <1>23. VisibilityIsOwed'
    <2> SUFFICES ASSUME odFailures' = 0
          PROVE SymDiff(odHidden, orphaned_entity_ids')
                  \subseteq odQueue' \cup SymDiff(odRecord.orphans, orphaned_entity_ids')
      BY <1>6, Zenon DEF VisibilityIsOwed
    <2>1. odRecord.orphans = orphaned_entity_ids
      BY <1>1, <1>4, <1>6, Zenon DEF CurrentOK, RecordIsExact
    <2>2. SymDiff(odHidden, orphaned_entity_ids)
            \subseteq odQueue \cup SymDiff(orphaned_entity_ids, orphaned_entity_ids)
      BY <1>1, <1>6, <2>1, Zenon DEF VisibilityIsOwed
    <2>3. SymDiff(orphaned_entity_ids, orphaned_entity_ids) = {} BY Zenon DEF SymDiff
    <2>4. odQueue \subseteq odQueue' BY <1>4, Zenon DEF Apply
    <2>5. SymDiff(odHidden, orphaned_entity_ids')
            \subseteq SymDiff(odHidden, orphaned_entity_ids)
                        \cup SymDiff(orphaned_entity_ids, orphaned_entity_ids')
      BY SymDiffTriangle, Zenon
    <2> QED BY <2>1, <2>2, <2>3, <2>4, <2>5, Zenon
  <1> QED BY <1>17, <1>18, <1>19, <1>20, <1>21, <1>22, <1>23, Zenon DEF OrphanInv

\* A call moves on to publishing the orphan set: the source stays, the queue
\* only grows, and once the first commit is done it holds all that is owed.
CallStep(c, call) ==
    /\ UNCHANGED <<sourceVars, odRecord, odHidden, odWrite, odUp, odFailures>>
    /\ odUp
    /\ odCall' = [odCall EXCEPT ![c] = call]
    /\ odCommit' = odCommit \/ (odCommit = Free /\ odCommit' = c)
    /\ odWrite = c \/ odCommit' = c
    /\ odQueue \subseteq odQueue' /\ odQueue' \subseteq Entity

LEMMA CallStepOK ==
    ASSUME OrphanInv, NEW c \in Caller, NEW call \in CallShape, CallStep(c, call),
           call.at \in {"publish", "record"}, call.orphans = orphaned_entity_ids,
           call.at = "record" /\ odFailures = 0
             => SymDiff(odHidden, orphaned_entity_ids) \subseteq odQueue'
    PROVE OrphanInv'
  <1> USE OrphanAssumption
  <1>1. OrphanShape /\ LocksOK /\ CarriedOK /\ QueuedOK /\ CurrentOK /\ RecordIsExact /\ VisibilityIsOwed
    BY Zenon DEF OrphanInv
  <1>2. /\ odParts' = odParts /\ odTyped' = odTyped /\ odClock' = odClock /\ odRecord' = odRecord
        /\ odHidden' = odHidden /\ odWrite' = odWrite /\ odUp' = odUp /\ odFailures' = odFailures
        /\ odUp /\ odQueue \subseteq odQueue' /\ odQueue' \subseteq Entity
        /\ odCall' = [odCall EXCEPT ![c] = call]
    BY Zenon DEF CallStep, sourceVars
  <1>3. orphaned_entity_ids' = orphaned_entity_ids BY <1>2, OrphansKept, Zenon
  <1>4. odCall \in [Caller -> CallShape] BY <1>1, Zenon DEF OrphanShape
  <1>5. odCall' \in [Caller -> CallShape] BY <1>2, <1>4
  <1>6. odCall'[c] = call BY <1>2, <1>4, Zenon
  <1>7. \A d \in Caller \ {c} : odCall'[d] = odCall[d] BY <1>2, <1>4, Zenon
  <1>8. call.at # "idle" /\ call.at # "settle" /\ call.at # "rebuild" OBVIOUS
  <1>9. odCommit' = odCommit \/ (odCommit = Free /\ odCommit' = c) BY Zenon DEF CallStep
  <1>10. odWrite = c \/ odCommit' = c BY Zenon DEF CallStep
  <1>11. OrphanShape' BY <1>1, <1>2, <1>5, <1>9, Zenon DEF OrphanShape
  <1>12. LocksOK'
    <2>1. \A d \in Caller \ {c} : (odCommit' = d) <=> (odCommit = d)
      BY <1>9, Zenon DEF Free, Root, OrphanAssumption
    <2>2. ASSUME NEW d \in Caller \ {c}
          PROVE /\ odCall'[d].at = "idle" => odCall'[d] = Idle
                /\ odCall'[d].at # "idle" => (odWrite' = d \/ odCommit' = d)
                /\ (odWrite' = d \/ odCommit' = d) => odCall'[d].at # "idle"
                /\ odCall'[d].at \in {"settle", "rebuild"} => odWrite' = d
      <3>1. /\ odCall[d].at = "idle" => odCall[d] = Idle
            /\ odCall[d].at # "idle" => (odWrite = d \/ odCommit = d)
            /\ (odWrite = d \/ odCommit = d) => odCall[d].at # "idle"
            /\ odCall[d].at \in {"settle", "rebuild"} => odWrite = d
        BY <1>1, Zenon DEF LocksOK
      <3>2. odCall'[d] = odCall[d] BY <1>7, Zenon
      <3> QED BY <1>2, <2>1, <3>1, <3>2, Zenon
    <2>3. /\ odCall'[c].at # "idle" /\ (odWrite' = c \/ odCommit' = c)
          /\ odCall'[c].at \notin {"settle", "rebuild"}
      BY <1>2, <1>6, <1>8, <1>10, Zenon
    <2> QED BY <1>2, <2>2, <2>3, Zenon DEF LocksOK
  <1>13. CarriedOK'
    <2>1. ASSUME NEW d \in Caller \ {c}
          PROVE /\ odCall'[d].at \in {"publish", "record"} => odCall'[d].orphans = orphaned_entity_ids
                /\ odCall'[d].at = "settle" /\ ~odCall'[d].touches
                     => odCall'[d].orphans = orphaned_entity_ids
      BY <1>1, <1>7, Zenon DEF CarriedOK
    <2> QED BY <1>3, <1>6, <1>8, <2>1, Zenon DEF CarriedOK
  <1>14. QueuedOK'
    <2>1. ASSUME odFailures = 0, NEW d \in Caller, odCall'[d].at = "record"
          PROVE SymDiff(odHidden, orphaned_entity_ids) \subseteq odQueue'
      <3>1. CASE d = c BY <1>6, <2>1, <3>1, Zenon
      <3>2. CASE d # c
        <4>1. SymDiff(odHidden, orphaned_entity_ids) \subseteq odQueue
          BY <1>1, <1>7, <2>1, <3>2, Zenon DEF QueuedOK
        <4> QED BY <1>2, <4>1, Zenon
      <3> QED BY <3>1, <3>2, Zenon
    <2> QED BY <1>2, <1>3, <2>1, Zenon DEF QueuedOK
  <1>15. CurrentOK' BY <1>1, <1>2, Zenon DEF CurrentOK
  <1>16. RecordIsExact' BY <1>1, <1>2, <1>3, Zenon DEF RecordIsExact
  <1>17. VisibilityIsOwed' BY <1>1, <1>2, <1>3, Zenon DEF VisibilityIsOwed
  <1> QED BY <1>11, <1>12, <1>13, <1>14, <1>15, <1>16, <1>17, Zenon DEF OrphanInv

\* The call returns: it leaves the locks it held, and its record is unchanged
\* or the exact one; a failure is counted.
ReturnStep(c) ==
    /\ UNCHANGED <<sourceVars, odQueue, odHidden, odUp>>
    /\ odCall[c].at # "idle"
    /\ Return(c)
    /\ \/ /\ odRecord' = [clock |-> odClock, orphans |-> orphaned_entity_ids]
          /\ odFailures' = odFailures /\ odCall[c].at = "record"
       \/ odRecord' = odRecord /\ odFailures' = odFailures + 1

LEMMA ReturnStepOK ==
    ASSUME OrphanInv, NEW c \in Caller, ReturnStep(c)
    PROVE OrphanInv'
  <1> USE OrphanAssumption
  <1>1. OrphanShape /\ LocksOK /\ CarriedOK /\ QueuedOK /\ CurrentOK /\ RecordIsExact /\ VisibilityIsOwed
    BY Zenon DEF OrphanInv
  <1>2. /\ odParts' = odParts /\ odTyped' = odTyped /\ odClock' = odClock
        /\ odHidden' = odHidden /\ odUp' = odUp /\ odQueue' = odQueue
        /\ odCall[c].at # "idle"
    BY Zenon DEF ReturnStep, sourceVars
  <1>3. /\ odCall' = [odCall EXCEPT ![c] = Idle]
        /\ odWrite' = IF odWrite = c THEN Free ELSE odWrite
        /\ odCommit' = IF odCommit = c THEN Free ELSE odCommit
    BY Zenon DEF ReturnStep, Return
  <1>4. orphaned_entity_ids' = orphaned_entity_ids BY <1>2, OrphansKept, Zenon
  <1>5. orphaned_entity_ids \subseteq Entity BY <1>1, OrphansAreEntities, Zenon DEF OrphanShape
  <1>6. odCall \in [Caller -> CallShape] BY <1>1, Zenon DEF OrphanShape
  <1>7. Idle \in CallShape /\ Idle.at = "idle" BY DEF Idle, CallShape
  <1>8. odCall' \in [Caller -> CallShape] BY <1>3, <1>6, <1>7
  <1>9. odCall'[c] = Idle BY <1>3, <1>6, Zenon
  <1>10. \A d \in Caller \ {c} : odCall'[d] = odCall[d] BY <1>3, <1>6, Zenon
  <1>11. /\ odFailures \in Nat
         /\ odFailures' \in Nat
         /\ odFailures' = 0 =>
              /\ odFailures = 0 /\ odCall[c].at = "record"
              /\ odRecord' = [clock |-> odClock, orphans |-> orphaned_entity_ids]
    <2>1. odFailures \in Nat BY <1>1, Zenon DEF OrphanShape
    <2>2. CASE odFailures' = odFailures + 1 BY <2>1, <2>2
    <2>3. CASE odFailures' # odFailures + 1
      <3>1. /\ odRecord' = [clock |-> odClock, orphans |-> orphaned_entity_ids]
            /\ odFailures' = odFailures /\ odCall[c].at = "record"
        BY <2>3, Zenon DEF ReturnStep
      <3> QED BY <2>1, <3>1, Zenon
    <2> QED BY <2>2, <2>3, Zenon
  <1>12. odRecord' = odRecord \/ odRecord' = [clock |-> odClock, orphans |-> orphaned_entity_ids]
    BY Zenon DEF ReturnStep
  <1>13. OrphanShape'
    <2>1. odRecord' \in [clock : Nat, orphans : SUBSET Entity] /\ odRecord'.clock <= odClock'
      BY <1>1, <1>2, <1>5, <1>12 DEF OrphanShape
    <2>2. odWrite' \in Caller \cup {Free} /\ odCommit' \in Caller \cup {Free}
      BY <1>1, <1>3, Zenon DEF OrphanShape
    <2> QED BY <1>1, <1>2, <1>8, <1>11, <2>1, <2>2, Zenon DEF OrphanShape
  <1>14. LocksOK'
    <2>1. \A d \in Caller \ {c} : ((odCommit' = d) <=> (odCommit = d)) /\ ((odWrite' = d) <=> (odWrite = d))
      BY <1>3 DEF Free, Root
    <2>2. odWrite' # c /\ odCommit' # c BY <1>3, Zenon DEF Free, Root, OrphanAssumption
    <2>3. \A d \in Caller \ {c} :
            /\ odCall'[d].at = "idle" => odCall'[d] = Idle
            /\ odCall'[d].at # "idle" => (odWrite' = d \/ odCommit' = d)
            /\ (odWrite' = d \/ odCommit' = d) => odCall'[d].at # "idle"
            /\ odCall'[d].at \in {"settle", "rebuild"} => odWrite' = d
      <3> TAKE d \in Caller \ {c}
      <3>1. /\ odCall[d].at = "idle" => odCall[d] = Idle
            /\ odCall[d].at # "idle" => (odWrite = d \/ odCommit = d)
            /\ (odWrite = d \/ odCommit = d) => odCall[d].at # "idle"
            /\ odCall[d].at \in {"settle", "rebuild"} => odWrite = d
        BY <1>1, Zenon DEF LocksOK
      <3>2. odCall'[d] = odCall[d] BY <1>10, Zenon
      <3> QED BY <2>1, <3>1, <3>2, Zenon
    <2>4. "idle" \notin {"settle", "rebuild"} OBVIOUS
    <2>5. odUp' \/ \A d \in Caller : odCall'[d] = Idle BY <1>1, <1>2, <1>9, <1>10, Zenon DEF LocksOK
    <2> QED BY <1>7, <1>9, <2>2, <2>3, <2>4, <2>5, Zenon DEF LocksOK
  <1>15. "idle" \notin {"publish", "record"} /\ "idle" # "settle" /\ "idle" # "record" OBVIOUS
  <1>16. CarriedOK'
    <2>1. \A d \in Caller \ {c} :
            /\ odCall'[d].at \in {"publish", "record"} => odCall'[d].orphans = orphaned_entity_ids
            /\ odCall'[d].at = "settle" /\ ~odCall'[d].touches
                 => odCall'[d].orphans = orphaned_entity_ids
      BY <1>1, <1>10, Zenon DEF CarriedOK
    <2> QED BY <1>4, <1>7, <1>9, <1>15, <2>1, Zenon DEF CarriedOK
  <1>17. QueuedOK'
    BY <1>1, <1>2, <1>4, <1>7, <1>9, <1>10, <1>11, <1>15, Zenon DEF QueuedOK
  <1>18. odFailures' = 0 => odRecord'.clock = odClock' /\ odRecord'.orphans = orphaned_entity_ids
    BY <1>2, <1>11
  <1>19. CurrentOK' BY <1>18, Zenon DEF CurrentOK
  <1>20. RecordIsExact'
    <2>1. [clock |-> odClock, orphans |-> orphaned_entity_ids].orphans = orphaned_entity_ids OBVIOUS
    <2> QED BY <1>1, <1>2, <1>4, <1>12, <2>1, Zenon DEF RecordIsExact
  <1>21. VisibilityIsOwed'
    <2>1. odFailures' = 0 => SymDiff(odHidden, orphaned_entity_ids) \subseteq odQueue
      BY <1>1, <1>11, Zenon DEF QueuedOK
    <2> QED BY <1>2, <1>4, <2>1, Zenon DEF VisibilityIsOwed
  <1> QED BY <1>13, <1>14, <1>16, <1>17, <1>19, <1>20, <1>21, Zenon DEF OrphanInv

\* The worker visits an entity: it leaves the queue and is shown as it should be.
LEMMA IndexEntityOK ==
    ASSUME OrphanInv, NEW e \in Entity, IndexEntity(e)
    PROVE OrphanInv'
  <1>1. OrphanShape /\ LocksOK /\ CarriedOK /\ QueuedOK /\ CurrentOK /\ RecordIsExact /\ VisibilityIsOwed
    BY Zenon DEF OrphanInv
  <1>2. /\ odParts' = odParts /\ odTyped' = odTyped /\ odClock' = odClock /\ odRecord' = odRecord
        /\ odWrite' = odWrite /\ odCommit' = odCommit /\ odCall' = odCall
        /\ odUp' = odUp /\ odFailures' = odFailures
        /\ odQueue' = odQueue \ {e}
    BY Zenon DEF IndexEntity, sourceVars
  <1>3. orphaned_entity_ids' = orphaned_entity_ids BY <1>2, OrphansKept, Zenon
  <1>4. odHidden' = IF e \in orphaned_entity_ids THEN odHidden \cup {e} ELSE odHidden \ {e}
    BY <1>1, ReadersAreExact, Zenon DEF IndexEntity
  <1>5. odHidden' \subseteq Entity BY <1>1, <1>4, Zenon DEF OrphanShape
  <1>6. odQueue' \subseteq Entity BY <1>1, <1>2, Zenon DEF OrphanShape
  <1>7. OrphanShape' BY <1>1, <1>2, <1>5, <1>6, Zenon DEF OrphanShape
  <1>8. LocksOK' BY <1>1, <1>2, Zenon DEF LocksOK
  <1>9. CarriedOK' BY <1>1, <1>2, <1>3, Zenon DEF CarriedOK
  <1>10. SymDiff(odHidden', orphaned_entity_ids) \subseteq SymDiff(odHidden, orphaned_entity_ids) \ {e}
    BY <1>4 DEF SymDiff
  <1>11. QueuedOK'
    <2>1. ASSUME odFailures = 0, NEW c \in Caller, odCall[c].at = "record"
          PROVE SymDiff(odHidden', orphaned_entity_ids) \subseteq odQueue'
      <3>1. SymDiff(odHidden, orphaned_entity_ids) \subseteq odQueue
        BY <1>1, <2>1, Zenon DEF QueuedOK
      <3> QED BY <1>2, <1>10, <3>1, Zenon
    <2> QED BY <1>2, <1>3, <2>1, Zenon DEF QueuedOK
  <1>12. CurrentOK' BY <1>1, <1>2, Zenon DEF CurrentOK
  <1>13. RecordIsExact' BY <1>1, <1>2, <1>3, Zenon DEF RecordIsExact
  <1>14. VisibilityIsOwed'
    <2>1. ASSUME odFailures = 0
          PROVE SymDiff(odHidden', orphaned_entity_ids)
                  \subseteq odQueue' \cup SymDiff(odRecord.orphans, orphaned_entity_ids)
      <3>1. SymDiff(odHidden, orphaned_entity_ids)
              \subseteq odQueue \cup SymDiff(odRecord.orphans, orphaned_entity_ids)
        BY <1>1, <2>1, Zenon DEF VisibilityIsOwed
      <3> QED BY <1>2, <1>10, <3>1, Zenon
    <2> QED BY <1>2, <1>3, <2>1, Zenon DEF VisibilityIsOwed
  <1> QED BY <1>7, <1>8, <1>9, <1>11, <1>12, <1>13, <1>14, Zenon DEF OrphanInv

\* With nobody in a call the claims about calls hold of themselves.
LEMMA NobodyCalls ==
    ASSUME \A c \in Caller : odCall[c] = Idle, odWrite = Free, odCommit = Free
    PROVE LocksOK /\ CarriedOK /\ QueuedOK
  <1>1. Idle.at = "idle" BY DEF Idle
  <1>2. \A c \in Caller : odWrite # c /\ odCommit # c BY Zenon, OrphanAssumption DEF Free, Root
  <1>3. "idle" \notin {"settle", "rebuild"} /\ "idle" \notin {"publish", "record"}
        /\ "idle" # "settle" /\ "idle" # "record"
    OBVIOUS
  <1>4. LocksOK BY <1>1, <1>2, <1>3, Zenon DEF LocksOK
  <1>5. CarriedOK BY <1>1, <1>3, Zenon DEF CarriedOK
  <1>6. QueuedOK BY <1>1, <1>3, Zenon DEF QueuedOK
  <1> QED BY <1>4, <1>5, <1>6

LEMMA CrashOK ==
    ASSUME OrphanInv, Crash
    PROVE OrphanInv'
  <1>1. OrphanShape /\ RecordIsExact /\ VisibilityIsOwed BY Zenon DEF OrphanInv
  <1>2. /\ odParts' = odParts /\ odTyped' = odTyped /\ odClock' = odClock /\ odRecord' = odRecord
        /\ odQueue' = odQueue /\ odHidden' = odHidden /\ odFailures' = odFailures
        /\ odUp' = FALSE /\ odWrite' = Free /\ odCommit' = Free
        /\ odCall' = [c \in Caller |-> Idle]
    BY Zenon DEF Crash, sourceVars
  <1>3. orphaned_entity_ids' = orphaned_entity_ids BY <1>2, OrphansKept, Zenon
  <1>4. Idle \in CallShape BY DEF Idle, CallShape
  <1>5. odCall' \in [Caller -> CallShape] BY <1>2, <1>4, Zenon
  <1>6. \A c \in Caller : odCall'[c] = Idle BY <1>2, Zenon
  <1>7. OrphanShape' BY <1>1, <1>2, <1>5, Zenon DEF OrphanShape
  <1>8. (LocksOK /\ CarriedOK /\ QueuedOK)'
    <2>1. (\A c \in Caller : odCall[c] = Idle)' /\ (odWrite = Free)' /\ (odCommit = Free)'
      BY <1>2, <1>6, Zenon DEF Free, Root
    <2> QED BY <2>1, NobodyCalls, PTL
  <1>9. CurrentOK' BY <1>2, Zenon DEF CurrentOK
  <1>10. RecordIsExact' BY <1>1, <1>2, <1>3, Zenon DEF RecordIsExact
  <1>11. VisibilityIsOwed' BY <1>1, <1>2, <1>3, Zenon DEF VisibilityIsOwed
  <1> QED BY <1>7, <1>8, <1>9, <1>10, <1>11, Zenon DEF OrphanInv

\* Opening the store queues what the stale record showed wrongly before it
\* replaces that record, in one commit or, after a crash, in two.
LEMMA RepairOK ==
    ASSUME OrphanInv, RepairQueue \/ repair_diagnostics
    PROVE OrphanInv'
  <1>1. OrphanShape /\ LocksOK /\ CurrentOK /\ RecordIsExact /\ VisibilityIsOwed BY Zenon DEF OrphanInv
  <1>2. /\ odParts' = odParts /\ odTyped' = odTyped /\ odClock' = odClock /\ odHidden' = odHidden
        /\ odWrite' = odWrite /\ odCommit' = odCommit /\ odCall' = odCall /\ odFailures' = odFailures
        /\ ~odUp
    BY Zenon DEF RepairQueue, repair_diagnostics, sourceVars
  <1>3. orphaned_entity_ids' = orphaned_entity_ids BY <1>2, OrphansKept, Zenon
  <1>4. orphaned_entity_ids \subseteq Entity BY <1>1, OrphansAreEntities, Zenon DEF OrphanShape
  <1>5. odRecord \in [clock : Nat, orphans : SUBSET Entity] /\ odClock \in Nat BY <1>1, Zenon DEF OrphanShape
  <1>6. \A c \in Caller : odCall[c] = Idle BY <1>1, <1>2, Zenon DEF LocksOK
  <1>7. odWrite = Free /\ odCommit = Free
    <2>1. \A c \in Caller : odCall[c].at = "idle" BY <1>6 DEF Idle
    <2> QED BY <1>1, <2>1, Zenon DEF LocksOK, OrphanShape
  <1>8. (LocksOK /\ CarriedOK /\ QueuedOK)'
    <2>1. (\A c \in Caller : odCall[c] = Idle)' /\ (odWrite = Free)' /\ (odCommit = Free)'
      BY <1>2, <1>6, <1>7, Zenon DEF Free, Root
    <2> QED BY <2>1, NobodyCalls, PTL
  <1>9. \/ odRecord' = odRecord /\ odQueue' = odQueue /\ odUp' = TRUE /\ odRecord.clock = odClock
        \/ /\ odQueue' = odQueue \cup SymDiff(odRecord.orphans, orphaned_entity_ids)
           /\ \/ odRecord' = odRecord /\ odUp' = FALSE
              \/ odRecord' = [clock |-> odClock, orphans |-> orphaned_entity_ids] /\ odUp' = TRUE
    <2>1. CASE RepairQueue BY <2>1, <1>1 DEF RepairQueue, requeue_orphan_changes, OrphanShape
    <2>2. CASE repair_diagnostics BY <2>2, Zenon DEF repair_diagnostics, requeue_orphan_changes
    <2> QED BY <2>1, <2>2, Zenon
  <1>10. odQueue \subseteq odQueue' /\ odUp' \in BOOLEAN BY <1>9, Zenon
  <1>11. odQueue' \subseteq Entity
    <2>1. SymDiff(odRecord.orphans, orphaned_entity_ids) \subseteq Entity BY <1>4, <1>5 DEF SymDiff
    <2>2. odQueue \subseteq Entity BY <1>1, Zenon DEF OrphanShape
    <2> QED BY <1>9, <2>1, <2>2, Zenon
  <1>12. /\ odRecord' \in [clock : Nat, orphans : SUBSET Entity] /\ odRecord'.clock <= odClock
         /\ odRecord' = odRecord \/ (odRecord'.clock = odClock /\ odRecord'.orphans = orphaned_entity_ids)
         /\ odUp' => odRecord'.clock = odClock
    <2>1. odRecord.clock <= odClock BY <1>1, Zenon DEF OrphanShape
    <2> QED BY <1>4, <1>5, <1>9, <2>1
  <1>13. OrphanShape' BY <1>1, <1>2, <1>10, <1>11, <1>12, Zenon DEF OrphanShape
  <1>14. CurrentOK' BY <1>2, <1>12, Zenon DEF CurrentOK
  <1>15. RecordIsExact' BY <1>1, <1>2, <1>3, <1>12, Zenon DEF RecordIsExact
  <1>16. VisibilityIsOwed'
    <2>1. odRecord' = odRecord \/ odQueue' = odQueue \cup SymDiff(odRecord.orphans, orphaned_entity_ids)
      BY <1>9, Zenon
    <2>2. ASSUME odFailures = 0
          PROVE SymDiff(odHidden, orphaned_entity_ids)
                  \subseteq odQueue' \cup SymDiff(odRecord'.orphans, orphaned_entity_ids)
      <3>1. SymDiff(odHidden, orphaned_entity_ids)
              \subseteq odQueue \cup SymDiff(odRecord.orphans, orphaned_entity_ids)
        BY <1>1, <2>2, Zenon DEF VisibilityIsOwed
      <3> QED BY <1>10, <2>1, <3>1, Zenon
    <2> QED BY <1>2, <1>3, <2>2, Zenon DEF VisibilityIsOwed
  <1> QED BY <1>8, <1>13, <1>14, <1>15, <1>16, Zenon DEF OrphanInv

\* A step of a caller: a source commit, a move towards the record, or the return.
LEMMA CallerStepOK ==
    ASSUME OrphanInv, NEW c \in Caller,
           \/ commit_with_plan(c) \/ apply_irokle_guarded(c)
           \/ settle_diagnostics(c) \/ rebuild_graph_diagnostics(c)
           \/ publish_graph_diagnostics(c) \/ set_graph_diagnostics(c)
           \/ accepted_store(c)
    PROVE OrphanInv'
  <1>1. OrphanShape /\ LocksOK /\ CarriedOK /\ QueuedOK /\ CurrentOK /\ RecordIsExact /\ VisibilityIsOwed
    BY Zenon DEF OrphanInv
  <1>2. graph_diagnostics = orphaned_entity_ids BY <1>1, ReadersAreExact, Zenon
  <1>3. orphaned_entity_ids \subseteq Entity BY <1>1, OrphansAreEntities, Zenon DEF OrphanShape
  <1>4. odCall \in [Caller -> CallShape] /\ odCall[c] \in CallShape BY <1>1, Zenon DEF OrphanShape
  <1>5. Idle.at = "idle" BY DEF Idle
  <1>6. odCall[c].at # "idle" => odUp BY <1>1, <1>5, Zenon DEF LocksOK
  <1>7. odQueue \subseteq Entity BY <1>1, Zenon DEF OrphanShape
  <1>8. CASE commit_with_plan(c)
    <2>1. PICK change \in Change, mode \in {"settle", "rebuild"} : SourceStep(c, change, mode, FALSE)
      BY <1>8, Zenon DEF commit_with_plan, SourceStep, Serialized
    <2> QED BY <2>1, SourceStepOK, Zenon
  <1>9. CASE apply_irokle_guarded(c)
    <2>1. PICK change \in Change : SourceStep(c, change, "settle", TRUE)
      BY <1>9, Zenon DEF apply_irokle_guarded, SourceStep, Serialized
    <2> QED BY <2>1, SourceStepOK, Zenon
  <1>10. CASE settle_diagnostics(c)
    <2> DEFINE call == [odCall[c] EXCEPT !.at = "publish",
                          !.orphans = IF odCall[c].touches THEN graph_diagnostics ELSE @]
    <2>1. odCall[c].at = "settle" /\ odUp BY <1>6, <1>10 DEF settle_diagnostics
    <2>2. odCall[c].orphans \in SUBSET Entity BY <1>4 DEF CallShape
    <2>3. call.at = "publish" /\ call.orphans = orphaned_entity_ids
      <3>1. ~odCall[c].touches => odCall[c].orphans = orphaned_entity_ids
        BY <1>1, <2>1, Zenon DEF CarriedOK
      <3> QED BY <1>2, <1>4, <3>1 DEF CallShape
    <2>4. call \in CallShape BY <1>2, <1>3, <1>4, <2>2, Zenon DEF CallShape
    <2>5. odCall' = [odCall EXCEPT ![c] = call] BY <1>10, <1>4, Zenon DEF settle_diagnostics
    <2>6. odWrite = c BY <1>1, <2>1 DEF LocksOK
    <2> HIDE DEF call
    <2>7. CallStep(c, call) BY <1>7, <1>10, <2>1, <2>5, <2>6, Zenon DEF settle_diagnostics, CallStep
    <2>8. call.at \in {"publish", "record"} /\ call.at # "record" BY <2>3
    <2> QED BY <2>3, <2>4, <2>7, <2>8, CallStepOK, Zenon
  <1>11. CASE rebuild_graph_diagnostics(c)
    <2> DEFINE call == [odCall[c] EXCEPT !.at = "publish", !.guarded = TRUE, !.orphans = graph_diagnostics]
    <2>1. call \in CallShape /\ call.at = "publish" /\ call.orphans = orphaned_entity_ids
      BY <1>2, <1>3, <1>4, Zenon DEF CallShape
    <2>2. odCall' = [odCall EXCEPT ![c] = call] BY <1>11, <1>4, Zenon DEF rebuild_graph_diagnostics
    <2> HIDE DEF call
    <2>3. CallStep(c, call) BY <1>7, <1>11, <2>2, Zenon DEF rebuild_graph_diagnostics, CallStep
    <2>4. call.at \in {"publish", "record"} /\ call.at # "record" BY <2>1
    <2> QED BY <2>1, <2>3, <2>4, CallStepOK, Zenon
  <1>12. CASE publish_graph_diagnostics(c)
    <2> DEFINE call == [odCall[c] EXCEPT !.at = "record"]
    <2>1. odCall[c].at = "publish" /\ odUp BY <1>6, <1>12 DEF publish_graph_diagnostics
    <2>2. odCall[c].orphans = orphaned_entity_ids BY <1>1, <2>1 DEF CarriedOK
    <2>3. call \in CallShape /\ call.at = "record" /\ call.orphans = orphaned_entity_ids
      BY <1>4, <2>2 DEF CallShape
    <2>4. odCall' = [odCall EXCEPT ![c] = call] BY <1>12, <1>4 DEF publish_graph_diagnostics
    <2>5. odQueue' = odQueue \cup SymDiff(odRecord.orphans, orphaned_entity_ids)
      BY <1>12, <2>2, Zenon DEF publish_graph_diagnostics, queue_orphan_updates
    <2>6. odQueue' \subseteq Entity
      <3>1. odRecord.orphans \subseteq Entity BY <1>1 DEF OrphanShape
      <3>2. SymDiff(odRecord.orphans, orphaned_entity_ids) \subseteq Entity BY <1>3, <3>1 DEF SymDiff
      <3> QED BY <1>7, <2>5, <3>2, Zenon
    <2>7. odWrite = c \/ odCommit = c BY <1>1, <2>1 DEF LocksOK
    <2> HIDE DEF call
    <2>8. CallStep(c, call)
      <3>1. odQueue \subseteq odQueue' BY <2>5, Zenon
      <3> QED BY <1>12, <2>1, <2>4, <2>6, <2>7, <3>1, Zenon DEF publish_graph_diagnostics, CallStep
    <2>9. odFailures = 0 => SymDiff(odHidden, orphaned_entity_ids) \subseteq odQueue'
      BY <1>1, <2>5, Zenon DEF VisibilityIsOwed
    <2>10. call.at \in {"publish", "record"} BY <2>3
    <2> QED BY <2>3, <2>8, <2>9, <2>10, CallStepOK, Zenon
  <1>13. CASE set_graph_diagnostics(c)
    <2>1. odCall[c].at = "record" BY <1>13, Zenon DEF set_graph_diagnostics
    <2>2. odCall[c].orphans = orphaned_entity_ids /\ odCall[c].at # "idle" BY <1>1, <2>1 DEF CarriedOK
    <2>3. ReturnStep(c) BY <1>13, <2>1, <2>2, Zenon DEF set_graph_diagnostics, ReturnStep
    <2> QED BY <2>3, ReturnStepOK, Zenon
  <1>14. CASE accepted_store(c)
    <2>1. odCall[c].at # "idle" BY <1>14 DEF accepted_store
    <2>2. ReturnStep(c) BY <1>14, <2>1, Zenon DEF accepted_store, ReturnStep
    <2> QED BY <2>2, ReturnStepOK, Zenon
  <1> QED BY <1>8, <1>9, <1>10, <1>11, <1>12, <1>13, <1>14, Zenon

LEMMA OrphanStepOK == OrphanInv /\ [OrphanNext]_odVars => OrphanInv'
  <1> SUFFICES ASSUME OrphanInv, [OrphanNext]_odVars PROVE OrphanInv' OBVIOUS
  <1>1. ASSUME NEW c \in Caller,
               \/ commit_with_plan(c) \/ apply_irokle_guarded(c)
               \/ settle_diagnostics(c) \/ rebuild_graph_diagnostics(c)
               \/ publish_graph_diagnostics(c) \/ set_graph_diagnostics(c)
               \/ accepted_store(c)
        PROVE OrphanInv'
    BY <1>1, CallerStepOK, Zenon
  <1>2. ASSUME NEW e \in Entity, IndexEntity(e) PROVE OrphanInv' BY <1>2, IndexEntityOK, Zenon
  <1>3. ASSUME Crash PROVE OrphanInv' BY <1>3, CrashOK, Zenon
  <1>4. ASSUME RepairQueue \/ repair_diagnostics PROVE OrphanInv' BY <1>4, RepairOK, Zenon
  <1>5. ASSUME UNCHANGED odVars PROVE OrphanInv'
    <2>1. /\ odParts' = odParts /\ odTyped' = odTyped /\ odClock' = odClock /\ odRecord' = odRecord
          /\ odQueue' = odQueue /\ odHidden' = odHidden /\ odWrite' = odWrite /\ odCommit' = odCommit
          /\ odCall' = odCall /\ odUp' = odUp /\ odFailures' = odFailures
      BY <1>5, Zenon DEF odVars
    <2>2. orphaned_entity_ids' = orphaned_entity_ids BY <2>1, OrphansKept, Zenon
    <2>3. OrphanShape' /\ LocksOK' BY <2>1, Zenon DEF OrphanInv, OrphanShape, LocksOK
    <2>4. CarriedOK' /\ QueuedOK' BY <2>1, <2>2, Zenon DEF OrphanInv, CarriedOK, QueuedOK
    <2>5. CurrentOK' /\ RecordIsExact' /\ VisibilityIsOwed'
      BY <2>1, <2>2, Zenon DEF OrphanInv, CurrentOK, RecordIsExact, VisibilityIsOwed
    <2> QED BY <2>3, <2>4, <2>5, Zenon DEF OrphanInv
  <1> QED BY <1>1, <1>2, <1>3, <1>4, <1>5, Zenon DEF OrphanNext

\* The orphan diagnostics keep their inductive invariant.
THEOREM OrphanInvariance == OrphanSpec => []OrphanInv
  BY OrphanInitOK, OrphanStepOK, PTL DEF OrphanSpec

\* The locks of a graph are held by callers that are in a call, and what the
\* record, the queue and the index name are entities (store.rs, replication.rs).
THEOREM OrphanTypes == OrphanSpec => []OrphanTypeOK
  <1>1. OrphanInv => OrphanTypeOK
    <2> SUFFICES ASSUME OrphanInv PROVE OrphanTypeOK OBVIOUS
    <2>1. OrphanShape /\ LocksOK BY Zenon DEF OrphanInv
    <2>2. \A c \in Caller : c \in {odWrite, odCommit} => odCall[c] # Idle
      <3>1. Idle.at = "idle" BY DEF Idle
      <3> QED BY <2>1, <3>1, Zenon DEF LocksOK
    <2>3. odRecord.orphans \subseteq Entity BY <2>1 DEF OrphanShape
    <2> QED BY <2>1, <2>2, <2>3, Zenon DEF OrphanShape, OrphanTypeOK
  <1> QED BY <1>1, OrphanInvariance, PTL

\* A record that readers accept is the orphan set of the graph, and an entity
\* that search shows or hides wrongly is queued or will be, whatever order
\* settling calls, rebuilds, crashes and repairs run in
\* (publish_graph_diagnostics, set_graph_diagnostics, repair_diagnostics).
THEOREM DiagnosticsExact == OrphanSpec => []DiagnosticsAreExact
  <1>1. OrphanInv => DiagnosticsAreExact BY Zenon DEF OrphanInv, DiagnosticsAreExact
  <1> QED BY <1>1, OrphanInvariance, PTL

-----------------------------------------------------------------------------
(* The search maintenance thread.                                          *)

FlushShape ==
    [phase : {"new", "permitted", "waiting", "returned"}, requested : Nat, target : Nat,
     cancelled : BOOLEAN, released : BOOLEAN, reply : {"none", "ok", "error"},
     covered : Nat, result : {"none", "ok", "error"}]

ThreadShape ==
    [at : {"collect", "target", "drain", "certify", "gone"}, pending : SUBSET Call,
     certified : Nat \cup {NoCertificate}, target : Nat, failed : Nat]

WorkerShape ==
    /\ token \in Nat /\ token <= MaxDirty
    /\ cover \in Nat /\ cover <= token
    /\ channel \in Seq(Call \cup {Wake, Stop}) /\ Len(channel) <= Capacity
    /\ permits \in Nat /\ permits <= MaxPending
    /\ flushes \in [Call -> FlushShape]
    /\ worker \in ThreadShape /\ worker.target <= token /\ worker.certified <= token
    /\ closing \in {"open", "closing", "closed"}

Queued(c) == \E i \in DOMAIN channel : channel[i] = c

\* What holds of one call: its target only rises and is a token there is, its
\* permit is out exactly while it is inside, an unanswered request is in one
\* place, and an answer Ok is covered.
FlushOK(c) ==
    /\ flushes[c].requested <= flushes[c].target
    /\ flushes[c].target <= token
    /\ flushes[c].phase \in {"permitted", "waiting"} => ~flushes[c].released
    /\ flushes[c].phase \notin {"permitted", "waiting"} => flushes[c].released
    /\ (c \in worker.pending \/ Queued(c)) =>
         /\ flushes[c].phase \in {"waiting", "returned"}
         /\ flushes[c].reply = "none" /\ flushes[c].result # "ok"
    /\ ~ (c \in worker.pending /\ Queued(c))
    /\ flushes[c].phase = "permitted" => flushes[c].reply = "none" /\ flushes[c].result # "ok"
    /\ (flushes[c].reply = "ok" \/ flushes[c].result = "ok") =>
         /\ flushes[c].target <= flushes[c].covered
         /\ flushes[c].covered <= cover

WorkerInv == WorkerShape /\ (\A c \in Call : FlushOK(c)) /\ PermitsAreExact

Inside == {c \in Call : flushes[c].phase \in {"permitted", "waiting"}}

-----------------------------------------------------------------------------
\* The larger of two integers.
LEMMA MaxOfTwo ==
    ASSUME NEW a \in Int, NEW b \in Int
    PROVE Max({a, b}) \in {a, b} /\ a <= Max({a, b}) /\ b <= Max({a, b})
  <1>1. \E x \in {a, b} : \A y \in {a, b} : x >= y
    <2>1. CASE a >= b BY <2>1
    <2>2. CASE b >= a BY <2>2
    <2> QED BY <2>1, <2>2
  <1>2. Max({a, b}) \in {a, b} /\ \A y \in {a, b} : Max({a, b}) >= y
    BY <1>1, Zenon DEF Max
  <1> HIDE DEF Max
  <1> QED BY <1>2

\* A set of naturals that is not empty has its least element.
LEMMA MinIsMember ==
    ASSUME NEW S \in SUBSET Nat, S # {}
    PROVE Min(S) \in S
  <1> DEFINE R == {ss \in Nat \X Nat : ss[1] < ss[2]}
  <1>1. IsWellFoundedOn(R, Nat) BY NatLessThanWellFounded, Zenon DEF OpToRel
  <1>2. \E x \in S : \A y \in S : ~ (<<y, x>> \in R)
    <2> HIDE DEF R
    <2> QED BY <1>1, WFMin, Zenon
  <1>3. PICK x \in S : \A y \in S : ~ (<<y, x>> \in R) BY <1>2, Zenon
  <1>4. \A y \in S : x <= y
    <2> TAKE y \in S
    <2>1. x \in Nat /\ y \in Nat OBVIOUS
    <2>2. <<y, x>> \in Nat \X Nat /\ <<y, x>>[1] = y /\ <<y, x>>[2] = x BY <2>1, Zenon
    <2>3. ~ (y < x) BY <1>3, <2>2, Zenon
    <2> QED BY <2>1, <2>3
  <1>5. \E z \in S : \A y \in S : z =< y BY <1>4, Zenon
  <1> QED BY <1>5, Zenon DEF Min

\* The calls inside flush_with are finitely many, and the count is theirs.
LEMMA InsideCounted ==
    ASSUME WorkerInv
    PROVE IsFiniteSet(Inside) /\ permits = Cardinality(Inside)
  <1>1. Inside \in SUBSET Call BY Zenon DEF Inside
  <1>2. IsFiniteSet(Inside) BY <1>1, FS_Subset, SearchWorkerAssumption, Zenon
  <1> QED BY <1>2, Zenon DEF WorkerInv, PermitsAreExact, Inside

-----------------------------------------------------------------------------
LEMMA WorkerInitOK == WorkerInit => WorkerInv
  <1> SUFFICES ASSUME WorkerInit PROVE WorkerInv OBVIOUS
  <1> USE SearchWorkerAssumption
  <1>1. NewFlush \in FlushShape BY DEF NewFlush, FlushShape
  <1>2. worker \in ThreadShape /\ worker.pending = {} /\ worker.target = 0 /\ worker.certified = NoCertificate
    BY DEF WorkerInit, ThreadShape, NoCertificate
  <1>3. channel \in Seq(Call \cup {Wake, Stop}) /\ Len(channel) = 0 /\ DOMAIN channel = {}
    BY DEF WorkerInit
  <1>4. WorkerShape
    BY <1>1, <1>2, <1>3 DEF WorkerInit, WorkerShape, NoCertificate, Capacity
  <1>5. \A c \in Call : flushes[c] = NewFlush BY Zenon DEF WorkerInit
  <1>6. \A c \in Call : FlushOK(c)
    <2> TAKE c \in Call
    <2>1. ~ (c \in worker.pending) /\ ~ Queued(c) BY <1>2, <1>3, Zenon DEF Queued
    <2>2. flushes[c] = NewFlush BY <1>5
    <2>3. /\ NewFlush.phase = "new" /\ NewFlush.requested = 0 /\ NewFlush.target = 0
          /\ NewFlush.released = TRUE /\ NewFlush.reply = "none" /\ NewFlush.result = "none"
      BY DEF NewFlush
    <2>4. token = 0 BY DEF WorkerInit
    <2> QED BY <2>1, <2>2, <2>3, <2>4 DEF FlushOK
  <1>7. PermitsAreExact
    <2>1. \A c \in Call : flushes[c].phase \notin {"permitted", "waiting"} BY <1>5 DEF NewFlush
    <2>2. {c \in Call : flushes[c].phase \in {"permitted", "waiting"}} = {} BY <2>1, Zenon
    <2> QED BY <2>2, FS_EmptySet, Zenon DEF WorkerInit, PermitsAreExact
  <1> QED BY <1>4, <1>6, <1>7, Zenon DEF WorkerInv

\* What the thread may do to a call: raise its target, or answer a request it lets go of.
FlushMoves(c) ==
    /\ flushes'[c].phase = flushes[c].phase
    /\ flushes'[c].requested = flushes[c].requested
    /\ flushes'[c].released = flushes[c].released
    /\ flushes'[c].result = flushes[c].result
    /\ flushes[c].target <= flushes'[c].target /\ flushes'[c].target <= token
    /\ (c \in worker'.pending \/ Queued(c)') => flushes'[c].reply = flushes[c].reply
    /\ flushes[c].phase = "permitted" => flushes'[c].reply = flushes[c].reply
    /\ (flushes'[c].reply = "ok" \/ flushes'[c].result = "ok") =>
         /\ flushes'[c].target <= flushes'[c].covered
         /\ flushes'[c].covered <= cover'

\* A step of the thread: requests move from the channel to the pending list or
\* are dropped, and a call is only touched while its request is held.
ThreadStep ==
    /\ token' = token /\ permits' = permits /\ closing' = closing
    /\ cover' \in Nat /\ cover <= cover' /\ cover' <= token
    /\ channel' = channel \/ channel' = <<>>
    /\ worker' \in ThreadShape /\ worker'.target <= token /\ worker'.certified <= token
    /\ \A c \in worker'.pending : c \in worker.pending \/ (channel' = <<>> /\ Queued(c))
    /\ flushes' \in [Call -> FlushShape]
    /\ \A c \in Call : FlushMoves(c)

LEMMA ThreadStepOK ==
    ASSUME WorkerInv, ThreadStep
    PROVE WorkerInv'
  <1> USE SearchWorkerAssumption
  <1>1. WorkerShape /\ (\A c \in Call : FlushOK(c)) /\ PermitsAreExact BY Zenon DEF WorkerInv
  <1>2. channel' \in Seq(Call \cup {Wake, Stop}) /\ Len(channel') <= Capacity
    <2>1. CASE channel' = channel BY <1>1, <2>1, Zenon DEF WorkerShape
    <2>2. CASE channel' = <<>> BY <2>2 DEF Capacity
    <2> QED BY <2>1, <2>2, Zenon DEF ThreadStep
  <1>3. WorkerShape' BY <1>1, <1>2, Zenon DEF WorkerShape, ThreadStep
  <1>4. ASSUME NEW c \in Call PROVE FlushOK(c)'
    <2>1. FlushOK(c) BY <1>1, Zenon
    <2>2. flushes[c] \in FlushShape /\ flushes'[c] \in FlushShape
      BY <1>1, <1>3, Zenon DEF WorkerShape
    <2>3. /\ flushes'[c].phase = flushes[c].phase
          /\ flushes'[c].requested = flushes[c].requested
          /\ flushes'[c].released = flushes[c].released
          /\ flushes'[c].result = flushes[c].result
          /\ flushes[c].target <= flushes'[c].target /\ flushes'[c].target <= token
          /\ (c \in worker'.pending \/ Queued(c)') => flushes'[c].reply = flushes[c].reply
          /\ flushes[c].phase = "permitted" => flushes'[c].reply = flushes[c].reply
          /\ (flushes'[c].reply = "ok" \/ flushes'[c].result = "ok") =>
               /\ flushes'[c].target <= flushes'[c].covered
               /\ flushes'[c].covered <= cover'
      BY Zenon DEF ThreadStep, FlushMoves
    <2>4. flushes'[c].requested <= flushes'[c].target
      <3>1. flushes[c].requested \in Nat /\ flushes[c].target \in Nat /\ flushes'[c].target \in Nat
        BY <2>2 DEF FlushShape
      <3>2. flushes[c].requested <= flushes[c].target BY <2>1, Zenon DEF FlushOK
      <3> QED BY <2>3, <3>1, <3>2
    <2>5. Queued(c)' => channel' = channel /\ Queued(c)
      <3>1. CASE channel' = channel BY <3>1, Zenon DEF Queued
      <3>2. CASE channel' = <<>>
        <4>1. DOMAIN channel' = {} BY <3>2
        <4> QED BY <4>1, Zenon DEF Queued
      <3> QED BY <3>1, <3>2, Zenon DEF ThreadStep
    <2>6. (c \in worker'.pending) => (c \in worker.pending \/ (channel' = <<>> /\ Queued(c)))
      BY Zenon DEF ThreadStep
    <2>7. (c \in worker'.pending \/ Queued(c)') => (c \in worker.pending \/ Queued(c))
      BY <2>5, <2>6, Zenon
    <2>8. ~ (c \in worker'.pending /\ Queued(c)')
      <3> SUFFICES ASSUME c \in worker'.pending, Queued(c)' PROVE FALSE BY Zenon
      <3>1. channel' = channel /\ Queued(c) BY <2>5, Zenon
      <3>2. channel # <<>>
        <4>1. PICK i \in DOMAIN channel : channel[i] = c BY <3>1, Zenon DEF Queued
        <4> QED BY <4>1
      <3>3. c \in worker.pending BY <2>6, <3>1, <3>2, Zenon
      <3> QED BY <2>1, <3>1, <3>3, Zenon DEF FlushOK
    <2>9. token' = token BY Zenon DEF ThreadStep
    <2>10. flushes'[c].phase \in {"permitted", "waiting"} => ~flushes'[c].released
      BY <2>1, <2>3, Zenon DEF FlushOK
    <2>11. flushes'[c].phase \notin {"permitted", "waiting"} => flushes'[c].released
      BY <2>1, <2>3, Zenon DEF FlushOK
    <2>12. (c \in worker'.pending \/ Queued(c)') =>
             /\ flushes'[c].phase \in {"waiting", "returned"}
             /\ flushes'[c].reply = "none" /\ flushes'[c].result # "ok"
      BY <2>1, <2>3, <2>7, Zenon DEF FlushOK
    <2>13. flushes'[c].phase = "permitted" => flushes'[c].reply = "none" /\ flushes'[c].result # "ok"
      BY <2>1, <2>3, Zenon DEF FlushOK
    <2> QED BY <2>3, <2>4, <2>8, <2>9, <2>10, <2>11, <2>12, <2>13, Zenon DEF FlushOK
  <1>5. PermitsAreExact'
    <2>1. permits' = permits BY Zenon DEF ThreadStep
    <2>2. {c \in Call : flushes'[c].phase \in {"permitted", "waiting"}}
            = {c \in Call : flushes[c].phase \in {"permitted", "waiting"}}
      BY Zenon DEF ThreadStep, FlushMoves
    <2> QED BY <1>1, <2>1, <2>2, Zenon DEF PermitsAreExact
  <1> QED BY <1>3, <1>4, <1>5, Zenon DEF WorkerInv

\* Calls left alone move as the thread allows.
LEMMA SameFlushes ==
    ASSUME WorkerInv, UNCHANGED flushes, cover' \in Nat, cover <= cover'
    PROVE flushes' \in [Call -> FlushShape] /\ \A c \in Call : FlushMoves(c)
  <1>1. WorkerShape /\ \A c \in Call : FlushOK(c) BY Zenon DEF WorkerInv
  <1>2. ASSUME NEW c \in Call PROVE FlushMoves(c)
    <2>1. flushes[c] \in FlushShape /\ cover \in Nat BY <1>1, Zenon DEF WorkerShape
    <2>2. flushes[c].target \in Nat /\ flushes[c].covered \in Nat BY <2>1 DEF FlushShape
    <2>3. flushes[c].target <= flushes[c].target BY <2>2
    <2>4. flushes[c].covered <= cover => flushes[c].covered <= cover' BY <2>1, <2>2
    <2>5. FlushOK(c) BY <1>1, Zenon
    <2> QED BY <2>3, <2>4, <2>5, Zenon DEF FlushMoves, FlushOK
  <1> QED BY <1>1, <1>2, Zenon DEF WorkerShape

\* Answers to requests that the thread held and lets go of; Ok only to those covered.
LEMMA ReplyMoves ==
    ASSUME WorkerInv, NEW requests \in SUBSET Call, NEW reply \in {"ok", "error"}, NEW covered \in Nat,
           flushes' = Reply(requests, reply, covered),
           \A c \in requests : c \in worker.pending \/ Queued(c),
           \A c \in requests : ~ (c \in worker'.pending) /\ ~ Queued(c)',
           cover' \in Nat, cover <= cover',
           reply = "ok" => covered <= cover' /\ \A c \in requests : flushes[c].target <= covered
    PROVE flushes' \in [Call -> FlushShape] /\ \A c \in Call : FlushMoves(c)
  <1>1. WorkerShape /\ \A c \in Call : FlushOK(c) BY Zenon DEF WorkerInv
  <1>2. \A c \in Call : flushes'[c] = IF c \in requests
          THEN [flushes[c] EXCEPT !.reply = reply, !.covered = covered] ELSE flushes[c]
    BY Zenon DEF Reply
  <1>3. \A c \in Call : flushes[c] \in FlushShape BY <1>1, Zenon DEF WorkerShape
  <1>4. \A f \in FlushShape :
          LET g == [f EXCEPT !.reply = reply, !.covered = covered] IN
          /\ g \in FlushShape
          /\ g.phase = f.phase /\ g.requested = f.requested /\ g.released = f.released
          /\ g.result = f.result /\ g.target = f.target /\ g.reply = reply /\ g.covered = covered
    BY Zenon DEF FlushShape
  <1>5. \A c \in Call : flushes'[c] \in FlushShape BY <1>2, <1>3, <1>4, Zenon
  <1>6. flushes' \in [Call -> FlushShape]
    <2>1. flushes' = [c \in Call |-> flushes'[c]] BY <1>2, Zenon DEF Reply
    <2> QED BY <1>5, <2>1, Zenon
  <1>7. ASSUME NEW c \in Call PROVE FlushMoves(c)
    <2>1. cover \in Nat /\ flushes[c].target \in Nat /\ flushes[c].covered \in Nat
      <3>1. flushes[c] \in FlushShape /\ cover \in Nat BY <1>1, Zenon DEF WorkerShape
      <3> QED BY <3>1 DEF FlushShape
    <2>2. flushes[c].target <= flushes[c].target /\ (flushes[c].covered <= cover => flushes[c].covered <= cover')
      BY <2>1
    <2>3. FlushOK(c) BY <1>1, Zenon
    <2>4. CASE c \notin requests
      <3>1. flushes'[c] = flushes[c] BY <1>2, <2>4, Zenon
      <3> QED BY <2>2, <2>3, <3>1, Zenon DEF FlushMoves, FlushOK
    <2>5. CASE c \in requests
      <3>1. /\ flushes'[c].phase = flushes[c].phase /\ flushes'[c].requested = flushes[c].requested
            /\ flushes'[c].released = flushes[c].released /\ flushes'[c].result = flushes[c].result
            /\ flushes'[c].target = flushes[c].target /\ flushes'[c].reply = reply
            /\ flushes'[c].covered = covered
        <4>1. flushes'[c] = [flushes[c] EXCEPT !.reply = reply, !.covered = covered]
          BY <1>2, <2>5, Zenon
        <4>2. flushes[c] \in FlushShape BY <1>3, Zenon
        <4> QED BY <4>1, <4>2 DEF FlushShape
      <3>2. flushes[c].result # "ok" /\ flushes[c].target <= token BY <2>3, <2>5, Zenon DEF FlushOK
      <3>3. ~ (c \in worker'.pending \/ Queued(c)') BY <2>5, Zenon
      <3>4. reply = "ok" => covered <= cover' /\ flushes[c].target <= covered BY <2>5, Zenon
      <3>5. flushes[c].target <= flushes'[c].target /\ flushes'[c].target <= token
        BY <2>2, <3>1, <3>2, Zenon
      <3>6. (flushes'[c].reply = "ok" \/ flushes'[c].result = "ok") =>
               /\ flushes'[c].target <= flushes'[c].covered
               /\ flushes'[c].covered <= cover'
        BY <3>1, <3>2, <3>4, Zenon
      <3>7. flushes[c].phase # "permitted"
        <4>1. flushes[c].phase \in {"waiting", "returned"} BY <2>3, <2>5, Zenon DEF FlushOK
        <4> QED BY <4>1
      <3> QED BY <3>1, <3>3, <3>5, <3>6, <3>7, Zenon DEF FlushMoves
    <2> QED BY <2>4, <2>5, Zenon
  <1> QED BY <1>6, <1>7, Zenon

\* A request in the pending list has left the channel.
LEMMA PendingNotQueued ==
    ASSUME WorkerInv, NEW c \in worker.pending
    PROVE c \in Call /\ ~ Queued(c)
  <1>1. worker \in ThreadShape BY Zenon DEF WorkerInv, WorkerShape
  <1>2. c \in Call BY <1>1 DEF ThreadShape
  <1> QED BY <1>2, Zenon DEF WorkerInv, FlushOK

\* An abandoned request has no permit to give back any more.
LEMMA DiscardsNothing ==
    ASSUME WorkerInv, NEW kept, Discard(kept)
    PROVE permits' = permits
  <1> DEFINE gone == {c \in (worker.pending \cup Incoming) \ kept : InPhase(c, "returned")}
  <1>1. \A c \in gone : c \in Call
    <2>1. worker \in ThreadShape BY Zenon DEF WorkerInv, WorkerShape
    <2>2. worker.pending \subseteq Call BY <2>1 DEF ThreadShape
    <2> QED BY <2>2, Zenon DEF Incoming
  <1>2. "returned" \notin {"permitted", "waiting"} OBVIOUS
  <1>3. \A c \in gone : flushes[c].released
    BY <1>1, <1>2, Zenon DEF WorkerInv, FlushOK, InPhase
  <1>4. {c \in gone : ~flushes[c].released} = {} BY <1>3, Zenon
  <1>5. permits' = permits - Cardinality({c \in gone : ~flushes[c].released})
    BY Zenon DEF Discard, releases
  <1> HIDE DEF gone
  <1>6. permits' = permits - 0 BY <1>4, <1>5, FS_EmptySet, Zenon
  <1>7. permits \in Nat BY Zenon DEF WorkerInv, WorkerShape
  <1> QED BY <1>6, <1>7

-----------------------------------------------------------------------------
(* The steps of the thread.                                                *)

LEMMA CollectOK ==
    ASSUME WorkerInv, collect_search_messages
    PROVE WorkerInv'
  <1> DEFINE kept == Uncancelled \cup {c \in Incoming : ~Cancelled(c)}
             stops == stopping \/ \E i \in DOMAIN channel : channel[i] = Stop
  <1>1. WorkerShape BY Zenon DEF WorkerInv
  <1>2. token \in Nat /\ cover \in Nat /\ cover <= token /\ worker \in ThreadShape
        /\ worker.target <= token /\ worker.certified <= token
    BY <1>1, Zenon DEF WorkerShape
  <1>3. kept \subseteq Call
    <2>1. worker.pending \subseteq Call BY <1>2 DEF ThreadShape
    <2> QED BY <2>1, Zenon DEF Uncancelled, Incoming
  <1>4. \A c \in kept : c \in worker.pending \/ Queued(c) BY Zenon DEF Uncancelled, Incoming, Queued
  <1>5. /\ channel' = <<>> /\ cover' = cover /\ token' = token /\ closing' = closing
        /\ \E k : Discard(k)
        /\ stops => /\ flushes' = Reply(kept, "error", 0)
                    /\ worker' = [worker EXCEPT !.at = "gone", !.pending = {}]
        /\ ~stops => /\ worker' = [worker EXCEPT !.at = "target", !.pending = kept]
                     /\ flushes' = flushes
    BY Zenon DEF collect_search_messages, Unattended
  <1>6. permits' = permits BY <1>5, DiscardsNothing, Zenon
  <1>7. \A c : ~ Queued(c)'
    <2>1. DOMAIN channel' = {} BY <1>5
    <2> QED BY <2>1, Zenon DEF Queued
  <1>8. cover' \in Nat /\ cover <= cover' /\ cover' <= token BY <1>2, <1>5
  <1> HIDE DEF kept, stops
  <1>9. CASE stops
    <2>1. worker' \in ThreadShape /\ worker'.target <= token /\ worker'.certified <= token
          /\ worker'.pending = {}
      BY <1>2, <1>5, <1>9, Zenon DEF ThreadShape
    <2>2. flushes' = Reply(kept, "error", 0) /\ "error" # "ok" BY <1>5, <1>9
    <2>3. flushes' \in [Call -> FlushShape] /\ \A c \in Call : FlushMoves(c)
      <3>1. 0 \in Nat /\ "error" \in {"ok", "error"} OBVIOUS
      <3>2. \A c \in kept : ~ (c \in worker'.pending) /\ ~ Queued(c)' BY <1>7, <2>1, Zenon
      <3> QED BY <1>3, <1>4, <1>8, <2>2, <3>1, <3>2, ReplyMoves, Zenon
    <2>4. ThreadStep BY <1>5, <1>6, <1>8, <2>1, <2>3, Zenon DEF ThreadStep
    <2> QED BY <2>4, ThreadStepOK, Zenon
  <1>10. CASE ~stops
    <2>1. worker' \in ThreadShape /\ worker'.target <= token /\ worker'.certified <= token
          /\ worker'.pending = kept
      BY <1>2, <1>3, <1>5, <1>10, Zenon DEF ThreadShape
    <2>2. flushes' = flushes BY <1>5, <1>10
    <2>3. flushes' \in [Call -> FlushShape] /\ \A c \in Call : FlushMoves(c)
      BY <1>8, <2>2, SameFlushes, Zenon
    <2>4. ThreadStep BY <1>4, <1>5, <1>6, <1>8, <2>1, <2>3, Zenon DEF ThreadStep
    <2> QED BY <2>4, ThreadStepOK, Zenon
  <1> QED BY <1>9, <1>10, Zenon

\* A step that only moves the thread: nobody is answered and the channel stays.
LEMMA ThreadMovesOK ==
    ASSUME WorkerInv, NEW w \in ThreadShape, worker' = w, w.target <= token, w.certified <= token,
           w.pending = worker.pending, channel' = channel,
           UNCHANGED <<token, cover, permits, flushes, closing>>
    PROVE WorkerInv'
  <1>1. cover' \in Nat /\ cover <= cover' /\ cover' <= token
    BY DEF WorkerInv, WorkerShape
  <1>2. flushes' \in [Call -> FlushShape] /\ \A c \in Call : FlushMoves(c)
    BY <1>1, SameFlushes, Zenon
  <1>3. ThreadStep BY <1>1, <1>2, Zenon DEF ThreadStep
  <1> QED BY <1>3, ThreadStepOK, Zenon

\* The thread answers some of its pending requests and keeps the others.
LEMMA ThreadAnswersOK ==
    ASSUME WorkerInv, NEW w \in ThreadShape, worker' = w, w.target <= token, w.certified <= token,
           NEW told \in SUBSET worker.pending, w.pending = worker.pending \ told,
           UNCHANGED <<token, channel, permits, closing>>,
           cover' \in Nat, cover <= cover', cover' <= token,
           NEW reply \in {"ok", "error"}, NEW covered \in Nat, flushes' = Reply(told, reply, covered),
           reply = "ok" => covered <= cover' /\ \A c \in told : flushes[c].target <= covered
    PROVE WorkerInv'
  <1>1. told \in SUBSET Call BY PendingNotQueued, Zenon
  <1>2. \A c \in told : ~ (c \in worker'.pending) /\ ~ Queued(c)'
    <2> TAKE c \in told
    <2>1. ~ Queued(c) BY PendingNotQueued, Zenon
    <2>2. ~ Queued(c)' BY <2>1, Zenon DEF Queued
    <2> QED BY <2>2, Zenon
  <1>3. flushes' \in [Call -> FlushShape] /\ \A c \in Call : FlushMoves(c)
    BY <1>1, <1>2, ReplyMoves, Zenon
  <1>4. ThreadStep BY <1>3, Zenon DEF ThreadStep
  <1> QED BY <1>4, ThreadStepOK, Zenon

LEMMA SelectTargetOK ==
    ASSUME WorkerInv, select_target
    PROVE WorkerInv'
  <1> DEFINE targets == {flushes[c].target : c \in worker.pending}
             wanted == IF worker.pending = {} THEN token ELSE Min(targets)
  <1>1. WorkerShape /\ \A c \in Call : FlushOK(c) BY Zenon DEF WorkerInv
  <1>2. token \in Nat /\ worker \in ThreadShape /\ worker.certified <= token
        /\ flushes \in [Call -> FlushShape]
    BY <1>1, Zenon DEF WorkerShape
  <1>3. worker.pending \subseteq Call /\ worker.certified \in Int BY <1>2 DEF ThreadShape, NoCertificate
  <1>4. \A c \in Call : flushes[c].target \in Nat /\ flushes[c].target <= token
    <2> TAKE c \in Call
    <2>1. flushes[c] \in FlushShape BY <1>2, Zenon
    <2>2. flushes[c].target <= token BY <1>1, Zenon DEF FlushOK
    <2> QED BY <2>1, <2>2 DEF FlushShape
  <1>5. wanted \in Nat /\ wanted <= token
    <2>1. CASE worker.pending = {} BY <1>2, <2>1
    <2>2. CASE worker.pending # {}
      <3>1. targets \in SUBSET Nat /\ targets # {} BY <1>3, <1>4, <2>2, Zenon
      <3>2. Min(targets) \in targets
        <4> HIDE DEF targets
        <4> QED BY <3>1, MinIsMember, Zenon
      <3>3. \A t \in targets : t \in Nat /\ t <= token BY <1>3, <1>4, Zenon
      <3> QED BY <2>2, <3>2, <3>3, Zenon
    <2> QED BY <2>1, <2>2, Zenon
  <1>6. worker' = [worker EXCEPT !.at = "drain", !.target = Max({wanted, worker.certified})]
    BY Zenon DEF select_target
  <1>7. UNCHANGED <<token, cover, permits, flushes, closing, channel>>
    BY Zenon DEF select_target, WorkerKeeps, Unattended
  <1> HIDE DEF wanted, targets
  <1>8. Max({wanted, worker.certified}) \in Nat /\ Max({wanted, worker.certified}) <= token
    <2>1. /\ Max({wanted, worker.certified}) \in {wanted, worker.certified}
          /\ wanted <= Max({wanted, worker.certified})
      <3>1. wanted \in Int BY <1>5
      <3> QED BY <1>3, <3>1, MaxOfTwo, Zenon
    <2> HIDE DEF Max
    <2> QED BY <1>2, <1>3, <1>5, <2>1
  <1>9. worker' \in ThreadShape /\ worker'.target <= token /\ worker'.certified <= token
        /\ worker'.pending = worker.pending
    BY <1>2, <1>6, <1>8, Zenon DEF ThreadShape
  <1> QED BY <1>7, <1>9, ThreadMovesOK, Zenon

\* The drains that answer nobody or raise targets.
LEMMA DrainMovesOK ==
    ASSUME WorkerInv, drain_remains \/ drain_queues
    PROVE WorkerInv'
  <1>1. WorkerShape BY Zenon DEF WorkerInv
  <1>2. worker \in ThreadShape /\ worker.target <= token /\ worker.certified <= token
    BY <1>1, Zenon DEF WorkerShape
  <1>3. \E at \in {"collect", "certify"} : worker' = [worker EXCEPT !.at = at]
    BY Zenon DEF drain_remains, drain_queues, Loop
  <1>4. worker' \in ThreadShape /\ worker'.target <= token /\ worker'.certified <= token
        /\ worker'.pending = worker.pending
    BY <1>2, <1>3 DEF ThreadShape
  <1>5. UNCHANGED <<token, cover, permits, flushes, closing, channel>>
    BY Zenon DEF drain_remains, drain_queues, DrainEnds, WorkerKeeps, Unattended
  <1> QED BY <1>4, <1>5, ThreadMovesOK, Zenon

LEMMA DrainRecoversOK ==
    ASSUME WorkerInv, drain_recovers
    PROVE WorkerInv'
  <1>1. WorkerShape /\ \A c \in Call : FlushOK(c) BY Zenon DEF WorkerInv
  <1>2. worker \in ThreadShape /\ worker.target <= token /\ worker.certified <= token
        /\ token \in Nat /\ cover \in Nat /\ cover <= token
    BY <1>1, Zenon DEF WorkerShape
  <1>3. worker.target \in Nat /\ worker.pending \subseteq Call BY <1>2 DEF ThreadShape
  <1>4. PICK recovery \in {worker.target, worker.target + 1} :
          /\ recovery <= token
          /\ flushes' = [c \in Call |-> IF c \in worker.pending
               THEN [flushes[c] EXCEPT !.target = Max({@, recovery})] ELSE flushes[c]]
          /\ worker' = IF recovery > worker.target
                       THEN Loop([worker EXCEPT !.certified = NoCertificate])
                       ELSE [worker EXCEPT !.certified = NoCertificate, !.at = "certify"]
    BY Zenon DEF drain_recovers
  <1>5. recovery \in Nat BY <1>3, <1>4
  <1>6. worker' \in ThreadShape /\ worker'.target <= token /\ worker'.certified <= token
        /\ worker'.pending = worker.pending
    <2>1. NoCertificate <= token BY <1>2 DEF NoCertificate
    <2>2. PICK at \in {"collect", "certify"} : worker' = [worker EXCEPT !.certified = NoCertificate, !.at = at]
      BY <1>4, Zenon DEF Loop
    <2>3. worker' \in ThreadShape BY <1>2, <2>2, Zenon DEF ThreadShape
    <2>4. worker'.target = worker.target /\ worker'.certified = NoCertificate /\ worker'.pending = worker.pending
      BY <1>2, <2>2 DEF ThreadShape
    <2> QED BY <1>2, <2>1, <2>3, <2>4, Zenon
  <1>7. UNCHANGED <<token, cover, permits, closing, channel>>
    BY Zenon DEF drain_recovers, DrainEnds, WorkerKeeps, Unattended
  <1>8. ASSUME NEW c \in Call PROVE flushes'[c] \in FlushShape /\ FlushMoves(c)
    <2>1. flushes[c] \in FlushShape BY <1>1, Zenon DEF WorkerShape
    <2>2. flushes[c].target \in Nat /\ flushes[c].covered \in Nat BY <2>1 DEF FlushShape
    <2>3. FlushOK(c) BY <1>1, Zenon
    <2>4. flushes[c].target <= flushes[c].target BY <2>2
    <2>5. CASE c \notin worker.pending
      <3>1. flushes'[c] = flushes[c] BY <1>4, <2>5, Zenon
      <3> QED BY <1>7, <2>1, <2>3, <2>4, <3>1, Zenon DEF FlushMoves, FlushOK
    <2>6. CASE c \in worker.pending
      <3> DEFINE t == Max({flushes[c].target, recovery})
      <3>1. flushes'[c] = [flushes[c] EXCEPT !.target = t] BY <1>4, <2>6, Zenon
      <3>2. t \in {flushes[c].target, recovery} /\ flushes[c].target <= t
        <4>1. flushes[c].target \in Int /\ recovery \in Int BY <1>5, <2>2
        <4> QED BY <4>1, MaxOfTwo, Zenon
      <3> HIDE DEF t
      <3>3. flushes[c].target <= token /\ flushes[c].reply = "none" /\ flushes[c].result # "ok"
        BY <2>3, <2>6, Zenon DEF FlushOK
      <3>4. t \in Nat /\ t <= token BY <1>4, <1>5, <2>2, <3>2, <3>3, Zenon
      <3>5. /\ flushes'[c] \in FlushShape
            /\ flushes'[c].phase = flushes[c].phase /\ flushes'[c].requested = flushes[c].requested
            /\ flushes'[c].released = flushes[c].released /\ flushes'[c].result = flushes[c].result
            /\ flushes'[c].target = t /\ flushes'[c].reply = flushes[c].reply
        BY <2>1, <3>1, <3>4 DEF FlushShape
      <3>6. ~ (flushes'[c].reply = "ok" \/ flushes'[c].result = "ok") BY <3>3, <3>5
      <3> QED BY <3>2, <3>4, <3>5, <3>6, Zenon DEF FlushMoves
    <2> QED BY <2>5, <2>6, Zenon
  <1>9. flushes' \in [Call -> FlushShape]
    <2>1. flushes' = [c \in Call |-> flushes'[c]] BY <1>4, Zenon
    <2> QED BY <1>8, <2>1, Zenon
  <1>10. cover' \in Nat /\ cover <= cover' /\ cover' <= token BY <1>2, <1>7
  <1>11. ThreadStep BY <1>6, <1>7, <1>8, <1>9, <1>10, Zenon DEF ThreadStep
  <1> QED BY <1>11, ThreadStepOK, Zenon

\* The drains and the certification that answer with an error.
LEMMA FailuresOK ==
    ASSUME WorkerInv, drain_fails \/ drain_reports_failures \/ AnswerFails
    PROVE WorkerInv'
  <1>1. WorkerShape BY Zenon DEF WorkerInv
  <1>2. worker \in ThreadShape /\ worker.target <= token /\ worker.certified <= token
        /\ token \in Nat /\ cover \in Nat /\ cover <= token
    BY <1>1, Zenon DEF WorkerShape
  <1>3. worker.target \in Nat /\ worker.pending \subseteq Call /\ worker.failed \in Nat
    BY <1>2 DEF ThreadShape
  <1>4. /\ UNCHANGED <<token, permits, closing, channel>> /\ cover' = cover
    BY Zenon DEF drain_fails, drain_reports_failures, AnswerFails, DrainEnds, WorkerKeeps, Unattended
  <1>5. \E told \in SUBSET worker.pending, failed \in Nat :
          /\ flushes' = Reply(told, "error", 0)
          /\ worker' = [worker EXCEPT !.at = "collect", !.pending = worker.pending \ told,
                                      !.failed = failed]
    <2>1. CASE drain_fails
      <3>1. worker' = [worker EXCEPT !.pending = {}, !.at = "collect"] BY <2>1, <1>2 DEF drain_fails, Loop, ThreadShape
      <3>2. worker' = [worker EXCEPT !.at = "collect", !.pending = worker.pending \ worker.pending,
                                     !.failed = worker.failed]
        BY <1>2, <3>1, Zenon DEF ThreadShape
      <3> QED BY <1>3, <2>1, <3>2, Zenon DEF drain_fails
    <2>2. CASE drain_reports_failures
      <3>1. PICK owedFrom \in IF worker.failed # 0 THEN {worker.failed} ELSE cover + 1..worker.target :
              /\ flushes' = Reply(settle_search_failures(owedFrom), "error", 0)
              /\ worker' = Loop([worker EXCEPT !.pending = @ \ settle_search_failures(owedFrom),
                                               !.failed = owedFrom])
        BY <2>2, Zenon DEF drain_reports_failures
      <3>2. owedFrom \in Nat BY <1>2, <1>3, <3>1
      <3>3. settle_search_failures(owedFrom) \in SUBSET worker.pending BY Zenon DEF settle_search_failures
      <3> HIDE DEF settle_search_failures
      <3>4. worker' = [worker EXCEPT !.at = "collect",
                         !.pending = worker.pending \ settle_search_failures(owedFrom), !.failed = owedFrom]
        BY <1>2, <3>1, Zenon DEF ThreadShape, Loop
      <3> QED BY <3>1, <3>2, <3>3, <3>4, Zenon
    <2>3. CASE AnswerFails
      <3> DEFINE due == {c \in worker.pending : flushes[c].target <= worker.target}
      <3>1. /\ flushes' = Reply(due, "error", 0)
            /\ worker' = Loop([worker EXCEPT !.pending = @ \ due])
        BY <2>3, Zenon DEF AnswerFails
      <3>2. due \in SUBSET worker.pending BY Zenon
      <3> HIDE DEF due
      <3>3. worker' = [worker EXCEPT !.at = "collect", !.pending = worker.pending \ due,
                                     !.failed = worker.failed]
        BY <1>2, <3>1, Zenon DEF ThreadShape, Loop
      <3> QED BY <1>3, <3>1, <3>2, <3>3, Zenon
    <2> QED BY <2>1, <2>2, <2>3, Zenon
  <1>6. PICK told \in SUBSET worker.pending, failed \in Nat :
          /\ flushes' = Reply(told, "error", 0)
          /\ worker' = [worker EXCEPT !.at = "collect", !.pending = worker.pending \ told,
                                      !.failed = failed]
    BY <1>5, Zenon
  <1>7. /\ worker' \in ThreadShape /\ worker'.target <= token /\ worker'.certified <= token
        /\ worker'.pending = worker.pending \ told
    BY <1>2, <1>3, <1>6, Zenon DEF ThreadShape
  <1>8. cover' \in Nat /\ cover <= cover' /\ cover' <= token BY <1>2, <1>4
  <1>9. 0 \in Nat /\ "error" \in {"ok", "error"} /\ "error" # "ok" OBVIOUS
  <1> QED BY <1>4, <1>6, <1>7, <1>8, <1>9, ThreadAnswersOK, Zenon

LEMMA AnswerOK ==
    ASSUME WorkerInv, Answer
    PROVE WorkerInv'
  <1> DEFINE due == {c \in worker.pending : flushes[c].target <= worker.target}
  <1>1. WorkerShape BY Zenon DEF WorkerInv
  <1>2. worker \in ThreadShape /\ worker.target <= token /\ worker.certified <= token
        /\ token \in Nat /\ cover \in Nat /\ cover <= token
    BY <1>1, Zenon DEF WorkerShape
  <1>3. worker.target \in Nat BY <1>2 DEF ThreadShape
  <1>4. /\ cover' = Max({cover, worker.target})
        /\ flushes' = Reply(due, "ok", worker.target)
        /\ worker' = Loop([worker EXCEPT !.pending = @ \ due, !.certified = worker.target])
        /\ UNCHANGED <<token, permits, closing, channel>>
    BY Zenon DEF Answer, WorkerKeeps, Unattended
  <1>5. due \in SUBSET worker.pending /\ \A c \in due : flushes[c].target <= worker.target BY Zenon
  <1> HIDE DEF due
  <1>6. /\ worker' \in ThreadShape /\ worker'.target <= token /\ worker'.certified <= token
        /\ worker'.pending = worker.pending \ due
    BY <1>2, <1>3, <1>4, Zenon DEF ThreadShape, Loop
  <1>7. cover' \in {cover, worker.target} /\ cover <= cover' /\ worker.target <= cover'
    <2>1. cover \in Int /\ worker.target \in Int BY <1>2, <1>3
    <2> QED BY <1>4, <2>1, MaxOfTwo, Zenon
  <1>8. cover' \in Nat /\ cover' <= token BY <1>2, <1>3, <1>7, Zenon
  <1>9. "ok" \in {"ok", "error"} OBVIOUS
  <1> QED BY <1>3, <1>4, <1>5, <1>6, <1>7, <1>8, <1>9, ThreadAnswersOK, Zenon

LEMMA PanicOK ==
    ASSUME WorkerInv, WorkerPanics
    PROVE WorkerInv'
  <1>1. WorkerShape BY Zenon DEF WorkerInv
  <1>2. worker \in ThreadShape /\ worker.target <= token /\ worker.certified <= token
        /\ token \in Nat /\ cover \in Nat /\ cover <= token
    BY <1>1, Zenon DEF WorkerShape
  <1>3. /\ channel' = <<>> /\ cover' = cover /\ flushes' = flushes /\ token' = token
        /\ permits' = permits /\ closing' = closing
        /\ worker' = [worker EXCEPT !.at = "gone", !.pending = {}]
    BY Zenon DEF WorkerPanics, WorkerKeeps, Unattended
  <1>4. worker' \in ThreadShape /\ worker'.target <= token /\ worker'.certified <= token
        /\ worker'.pending = {}
    BY <1>2, <1>3, Zenon DEF ThreadShape
  <1>5. cover' \in Nat /\ cover <= cover' /\ cover' <= token BY <1>2, <1>3
  <1>6. flushes' \in [Call -> FlushShape] /\ \A c \in Call : FlushMoves(c) BY <1>3, <1>5, SameFlushes, Zenon
  <1>7. ThreadStep BY <1>3, <1>4, <1>5, <1>6, Zenon DEF ThreadStep
  <1> QED BY <1>7, ThreadStepOK, Zenon

-----------------------------------------------------------------------------
(* The steps of the callers.                                               *)

\* A step of a call leaves the thread alone; its request may enter the channel.
CallerMoves(c, f) ==
    /\ token' = token /\ cover' = cover /\ worker' = worker /\ closing' = closing
    /\ flushes' = [flushes EXCEPT ![c] = f]
    /\ channel' \in Seq(Call \cup {Wake, Stop}) /\ Len(channel') <= Capacity
    /\ \A d \in Call \ {c} : Queued(d)' => Queued(d)
    /\ permits' \in Nat /\ permits' <= MaxPending

LEMMA CallerMovesOK ==
    ASSUME WorkerInv, NEW c \in Call, NEW f \in FlushShape, CallerMoves(c, f),
           f.requested <= f.target, f.target <= token,
           f.phase \in {"permitted", "waiting"} => ~f.released,
           f.phase \notin {"permitted", "waiting"} => f.released,
           (c \in worker.pending \/ Queued(c)') =>
             f.phase \in {"waiting", "returned"} /\ f.reply = "none" /\ f.result # "ok",
           ~ (c \in worker.pending /\ Queued(c)'),
           f.phase = "permitted" => f.reply = "none" /\ f.result # "ok",
           (f.reply = "ok" \/ f.result = "ok") => f.target <= f.covered /\ f.covered <= cover,
           permits' = Cardinality(IF f.phase \in {"permitted", "waiting"}
                                  THEN Inside \cup {c} ELSE Inside \ {c})
    PROVE WorkerInv'
  <1>1. WorkerShape /\ \A d \in Call : FlushOK(d) BY Zenon DEF WorkerInv
  <1>2. flushes \in [Call -> FlushShape] BY <1>1, Zenon DEF WorkerShape
  <1>3. flushes' = [flushes EXCEPT ![c] = f] BY Zenon DEF CallerMoves
  <1>4. flushes' \in [Call -> FlushShape] BY <1>2, <1>3
  <1>5. flushes'[c] = f BY <1>2, <1>3, Zenon
  <1>6. \A d \in Call \ {c} : flushes'[d] = flushes[d] BY <1>2, <1>3, Zenon
  <1>7. WorkerShape' BY <1>1, <1>4, Zenon DEF WorkerShape, CallerMoves
  <1>8. token' = token /\ cover' = cover /\ worker' = worker BY Zenon DEF CallerMoves
  <1>9. FlushOK(c)' BY <1>5, <1>8, Zenon DEF FlushOK
  <1>10. ASSUME NEW d \in Call \ {c} PROVE FlushOK(d)'
    <2>1. FlushOK(d) BY <1>1, Zenon
    <2>2. flushes'[d] = flushes[d] BY <1>6, Zenon
    <2>3. Queued(d)' => Queued(d) BY Zenon DEF CallerMoves
    <2> HIDE DEF Queued
    <2> QED BY <1>8, <2>1, <2>2, <2>3, Zenon DEF FlushOK
  <1>11. PermitsAreExact'
    <2>1. {d \in Call : flushes'[d].phase \in {"permitted", "waiting"}}
            = IF f.phase \in {"permitted", "waiting"} THEN Inside \cup {c} ELSE Inside \ {c}
      <3> DEFINE now == {d \in Call : flushes'[d].phase \in {"permitted", "waiting"}}
      <3>1. \A d \in Call \ {c} : d \in now <=> d \in Inside BY <1>6 DEF Inside
      <3>2. c \in now <=> f.phase \in {"permitted", "waiting"} BY <1>5
      <3>3. now \subseteq Call /\ Inside \subseteq Call BY Zenon DEF Inside
      <3> HIDE DEF now
      <3>4. CASE f.phase \in {"permitted", "waiting"}
        <4>1. now = Inside \cup {c} BY <3>1, <3>2, <3>3, <3>4
        <4> QED BY <3>4, <4>1, Zenon DEF now
      <3>5. CASE f.phase \notin {"permitted", "waiting"}
        <4>1. now = Inside \ {c} BY <3>1, <3>2, <3>3, <3>5
        <4> QED BY <3>5, <4>1, Zenon DEF now
      <3> QED BY <3>4, <3>5, Zenon
    <2> QED BY <2>1, Zenon DEF PermitsAreExact
  <1> QED BY <1>7, <1>9, <1>10, <1>11, Zenon DEF WorkerInv

\* A message that is queued adds itself and nothing else.
LEMMA SendOK ==
    ASSUME WorkerInv, NEW m \in Call \cup {Wake, Stop}, try_send(m)
    PROVE /\ channel' \in Seq(Call \cup {Wake, Stop}) /\ Len(channel') <= Capacity
          /\ \A d \in Call \ {m} : Queued(d)' => Queued(d)
          /\ ~Sent => channel' = channel
  <1> USE SearchWorkerAssumption
  <1>1. channel \in Seq(Call \cup {Wake, Stop}) /\ Len(channel) <= Capacity BY Zenon DEF WorkerInv, WorkerShape
  <1>2. CASE channel' = channel
    <2>1. \A d : Queued(d)' => Queued(d) BY <1>2, Zenon DEF Queued
    <2> QED BY <1>1, <1>2, <2>1, Zenon
  <1>3. CASE channel' = Append(channel, m) /\ Len(channel) < Capacity
    <2> DEFINE M == Call \cup {Wake, Stop}
    <2>1. channel \in Seq(M) /\ m \in M BY <1>1, Zenon
    <2> HIDE DEF M
    <2>2. /\ channel' \in Seq(M) /\ Len(channel') = Len(channel) + 1
          /\ \A i \in 1 .. Len(channel) : channel'[i] = channel[i]
          /\ channel'[Len(channel) + 1] = m
      BY <1>3, <2>1, AppendProperties
    <2>3. Len(channel) \in Nat /\ DOMAIN channel = 1 .. Len(channel)
          /\ DOMAIN channel' = 1 .. Len(channel) + 1
      BY <2>1, <2>2, LenProperties
    <2>4. ASSUME NEW d \in Call \ {m}, Queued(d)' PROVE Queued(d)
      <3>1. PICK i \in DOMAIN channel' : channel'[i] = d BY <2>4, Zenon DEF Queued
      <3>2. i # Len(channel) + 1 BY <2>2, <3>1, Zenon
      <3>3. i \in 1 .. Len(channel) BY <2>3, <3>1, <3>2
      <3> QED BY <2>2, <2>3, <3>1, <3>3, Zenon DEF Queued
    <2>5. Len(channel') <= Capacity
      <3>1. Capacity \in Nat BY DEF Capacity
      <3> HIDE DEF Capacity
      <3> QED BY <1>3, <2>2, <2>3, <3>1
    <2>6. Sent BY <2>2, <2>3 DEF Sent
    <2> QED BY <2>2, <2>4, <2>5, <2>6, Zenon DEF M
  <1> QED BY <1>2, <1>3, Zenon DEF try_send

\* Steps that leave every call and the thread alone.
LEMMA QuietOK ==
    ASSUME WorkerInv, token' \in Nat, token <= token', token' <= MaxDirty,
           UNCHANGED <<cover, permits, flushes, worker>>, closing' \in {"open", "closing", "closed"},
           channel' \in Seq(Call \cup {Wake, Stop}), Len(channel') <= Capacity,
           \A d \in Call : Queued(d)' => Queued(d)
    PROVE WorkerInv'
  <1>1. WorkerShape /\ \A d \in Call : FlushOK(d) BY Zenon DEF WorkerInv
  <1>2. token \in Nat /\ cover \in Nat /\ cover <= token /\ worker \in ThreadShape
        /\ worker.target <= token /\ worker.certified <= token /\ flushes \in [Call -> FlushShape]
    BY <1>1, Zenon DEF WorkerShape
  <1>3. cover <= token' /\ worker.target <= token' /\ worker.certified <= token'
    BY <1>2 DEF ThreadShape, NoCertificate
  <1>4. WorkerShape' BY <1>1, <1>3, Zenon DEF WorkerShape
  <1>5. ASSUME NEW d \in Call PROVE FlushOK(d)'
    <2>1. FlushOK(d) BY <1>1, Zenon
    <2>2. flushes[d].target <= token'
      <3>1. flushes[d] \in FlushShape /\ flushes[d].target <= token BY <1>2, <2>1, Zenon DEF FlushOK
      <3>2. flushes[d].target \in Nat BY <3>1 DEF FlushShape
      <3> QED BY <1>2, <3>1, <3>2
    <2>3. Queued(d)' => Queued(d) BY Zenon
    <2> HIDE DEF Queued
    <2> QED BY <2>1, <2>2, <2>3, Zenon DEF FlushOK
  <1>6. PermitsAreExact' BY Zenon DEF WorkerInv, PermitsAreExact
  <1> QED BY <1>4, <1>5, <1>6, Zenon DEF WorkerInv

\* A call leaves flush_with, answered or not: its permit comes back once.
LEMMA LeaveOK ==
    ASSUME WorkerInv, NEW c \in Call, flushes[c].phase \in {"permitted", "waiting"},
           NEW result \in {"ok", "error"}, Leave(c, result),
           result = "ok" => flushes[c].reply = "ok",
           UNCHANGED <<token, cover, channel, worker, closing>>
    PROVE WorkerInv'
  <1>1. WorkerShape /\ FlushOK(c) BY Zenon DEF WorkerInv
  <1>2. flushes \in [Call -> FlushShape] /\ flushes[c] \in FlushShape /\ token \in Nat
        /\ channel \in Seq(Call \cup {Wake, Stop}) /\ Len(channel) <= Capacity
        /\ permits \in Nat /\ permits <= MaxPending
    BY <1>1, Zenon DEF WorkerShape
  <1>3. c \in Inside BY Zenon DEF Inside
  <1>4. IsFiniteSet(Inside) /\ permits = Cardinality(Inside) BY InsideCounted, Zenon
  <1>5. permits' = Cardinality(Inside \ {c}) /\ permits' \in Nat /\ permits' <= MaxPending
    <2>1. ~flushes[c].released BY <1>1, Zenon DEF FlushOK
    <2>2. {d \in {c} : ~flushes[d].released} = {c} BY <2>1, Zenon
    <2>3. permits' = permits - 1 BY <2>2, FS_Singleton, Zenon DEF Leave, releases
    <2>4. IsFiniteSet(Inside \ {c}) /\ Cardinality(Inside \ {c}) = Cardinality(Inside) - 1
      BY <1>3, <1>4, FS_RemoveElement, Zenon
    <2>5. Cardinality(Inside \ {c}) \in Nat BY <2>4, FS_CardinalityType, Zenon
    <2>6. permits' = Cardinality(Inside \ {c}) BY <1>4, <2>3, <2>4, Zenon
    <2>7. MaxPending \in Nat BY SearchWorkerAssumption
    <2> QED BY <1>2, <2>3, <2>5, <2>6, <2>7
  <1>6. \A d : Queued(d)' = Queued(d) BY Zenon DEF Queued
  <1>7. "returned" \notin {"permitted", "waiting"} /\ "returned" # "permitted"
        /\ "returned" \in {"waiting", "returned"}
    OBVIOUS
  <1>8. CASE result = "ok"
    <2> DEFINE f == [flushes[c] EXCEPT !.phase = "returned", !.cancelled = TRUE, !.released = TRUE,
                                       !.reply = "none", !.result = "ok"]
    <2>1. flushes' = [flushes EXCEPT ![c] = f] BY <1>8, Zenon DEF Leave, Returned
    <2>2. /\ f \in FlushShape /\ f.phase = "returned" /\ f.released = TRUE /\ f.reply = "none"
          /\ f.result = "ok" /\ f.requested = flushes[c].requested /\ f.target = flushes[c].target
          /\ f.covered = flushes[c].covered
      BY <1>2, Zenon DEF FlushShape
    <2> HIDE DEF f
    <2>3. CallerMoves(c, f) BY <1>2, <1>5, <1>6, <2>1, Zenon DEF CallerMoves
    <2>4. flushes[c].reply = "ok" /\ "ok" # "none" BY <1>8
    <2>5. ~ (c \in worker.pending \/ Queued(c)) BY <1>1, <2>4, Zenon DEF FlushOK
    <2>6. /\ flushes[c].requested <= flushes[c].target /\ flushes[c].target <= token
          /\ flushes[c].target <= flushes[c].covered /\ flushes[c].covered <= cover
      BY <1>1, <2>4, Zenon DEF FlushOK
    <2>7. f.requested <= f.target /\ f.target <= token /\ f.target <= f.covered /\ f.covered <= cover
      BY <2>2, <2>6, Zenon
    <2>8. ~ (c \in worker.pending) /\ ~ Queued(c)' BY <1>6, <2>5, Zenon
    <2>9. f.released /\ f.phase \notin {"permitted", "waiting"} /\ f.phase # "permitted"
      BY <1>7, <2>2, Zenon
    <2>10. permits' = Cardinality(IF f.phase \in {"permitted", "waiting"}
                                  THEN Inside \cup {c} ELSE Inside \ {c})
      BY <1>5, <2>9, Zenon
    <2> QED BY <2>2, <2>3, <2>7, <2>8, <2>9, <2>10, CallerMovesOK, Zenon
  <1>9. CASE result = "error"
    <2> DEFINE f == [NewFlush EXCEPT !.phase = "returned", !.cancelled = TRUE, !.result = "error"]
    <2>1. flushes' = [flushes EXCEPT ![c] = f]
      <3>1. result # "ok" BY <1>9
      <3> QED BY <3>1, Zenon DEF Leave, Returned
    <2>2. /\ f \in FlushShape /\ f.phase = "returned" /\ f.released = TRUE /\ f.reply = "none"
          /\ f.result = "error" /\ f.requested = 0 /\ f.target = 0
      BY Zenon DEF FlushShape, NewFlush
    <2> HIDE DEF f
    <2>3. CallerMoves(c, f) BY <1>2, <1>5, <1>6, <2>1, Zenon DEF CallerMoves
    <2>4. f.requested <= f.target /\ f.target <= token BY <1>2, <2>2
    <2>5. ~ (c \in worker.pending /\ Queued(c)') BY <1>1, <1>6, Zenon DEF FlushOK
    <2>6. f.released /\ f.phase \notin {"permitted", "waiting"} /\ f.phase # "permitted"
          /\ f.phase \in {"waiting", "returned"}
      BY <1>7, <2>2, Zenon
    <2>7. f.reply = "none" /\ f.reply # "ok" /\ f.result # "ok" BY <2>2
    <2>8. permits' = Cardinality(IF f.phase \in {"permitted", "waiting"}
                                 THEN Inside \cup {c} ELSE Inside \ {c})
      BY <1>5, <2>6, Zenon
    <2> QED BY <2>2, <2>3, <2>4, <2>5, <2>6, <2>7, <2>8, CallerMovesOK, Zenon
  <1> QED BY <1>8, <1>9, Zenon

LEMMA FlushWithOK ==
    ASSUME WorkerInv, NEW c \in Call, flush_with(c)
    PROVE WorkerInv'
  <1>1. WorkerShape /\ FlushOK(c) BY Zenon DEF WorkerInv
  <1>2. token \in Nat /\ channel \in Seq(Call \cup {Wake, Stop}) /\ Len(channel) <= Capacity
        /\ permits \in Nat /\ permits <= MaxPending
    BY <1>1, Zenon DEF WorkerShape
  <1>3. /\ flushes[c].phase = "new" /\ UNCHANGED <<token, cover, channel, worker, closing>>
    BY Zenon DEF flush_with, InPhase
  <1>4. flushes[c].phase \notin {"waiting", "returned"} /\ flushes[c].phase \notin {"permitted", "waiting"}
    BY <1>3
  <1>5. c \notin Inside BY <1>4, Zenon DEF Inside
  <1>6. IsFiniteSet(Inside) /\ permits = Cardinality(Inside) BY InsideCounted, Zenon
  <1>7. \A d : Queued(d)' = Queued(d) BY <1>3, Zenon DEF Queued
  <1>8. ~ (c \in worker.pending) /\ ~ Queued(c)' BY <1>1, <1>4, <1>7, Zenon DEF FlushOK
  <1>9. CASE stopping \/ permits >= MaxPending
    <2> DEFINE f == [NewFlush EXCEPT !.phase = "returned", !.cancelled = FALSE, !.result = "error"]
    <2>1. flushes' = [flushes EXCEPT ![c] = f] /\ permits' = permits
      <3>1. flushes' = Returned(c, FALSE, "error") /\ permits' = permits BY <1>9, Zenon DEF flush_with
      <3>2. "error" # "ok" OBVIOUS
      <3> QED BY <3>1, <3>2, Zenon DEF Returned
    <2>2. /\ f \in FlushShape /\ f.phase = "returned" /\ f.released = TRUE /\ f.reply = "none"
          /\ f.result = "error" /\ f.requested = 0 /\ f.target = 0
      BY Zenon DEF FlushShape, NewFlush
    <2> HIDE DEF f
    <2>3. CallerMoves(c, f) BY <1>2, <1>3, <1>7, <2>1, Zenon DEF CallerMoves
    <2>4. f.requested <= f.target /\ f.target <= token BY <1>2, <2>2
    <2>5. f.released /\ f.phase \notin {"permitted", "waiting"} /\ f.phase # "permitted"
          /\ f.reply # "ok" /\ f.result # "ok"
      BY <2>2
    <2>6. Inside \ {c} = Inside BY <1>5, Zenon
    <2>7. permits' = Cardinality(IF f.phase \in {"permitted", "waiting"}
                                 THEN Inside \cup {c} ELSE Inside \ {c})
      BY <1>6, <2>1, <2>5, <2>6, Zenon
    <2> QED BY <1>8, <2>2, <2>3, <2>4, <2>5, <2>7, CallerMovesOK, Zenon
  <1>10. CASE ~ (stopping \/ permits >= MaxPending)
    <2> DEFINE f == [NewFlush EXCEPT !.phase = "permitted", !.requested = token, !.target = token,
                                     !.released = FALSE]
    <2>1. flushes' = [flushes EXCEPT ![c] = f] /\ permits' = permits + 1
      BY <1>10, Zenon DEF flush_with
    <2>2. /\ f \in FlushShape /\ f.phase = "permitted" /\ f.released = FALSE /\ f.reply = "none"
          /\ f.result = "none" /\ f.requested = token /\ f.target = token
      BY <1>2, Zenon DEF FlushShape, NewFlush
    <2> HIDE DEF f
    <2>3. permits' \in Nat /\ permits' <= MaxPending
      <3>1. MaxPending \in Nat BY SearchWorkerAssumption
      <3> QED BY <1>2, <1>10, <2>1, <3>1
    <2>4. CallerMoves(c, f) BY <1>2, <1>3, <1>7, <2>1, <2>3, Zenon DEF CallerMoves
    <2>5. f.requested <= f.target /\ f.target <= token BY <1>2, <2>2
    <2>6. ~f.released /\ f.phase \in {"permitted", "waiting"} /\ f.reply = "none"
          /\ f.reply # "ok" /\ f.result # "ok"
      BY <2>2
    <2>7. Cardinality(Inside \cup {c}) = Cardinality(Inside) + 1 BY <1>5, <1>6, FS_AddElement, Zenon
    <2>8. permits' = Cardinality(IF f.phase \in {"permitted", "waiting"}
                                 THEN Inside \cup {c} ELSE Inside \ {c})
      BY <1>6, <2>1, <2>6, <2>7, Zenon
    <2> QED BY <1>8, <2>2, <2>4, <2>5, <2>6, <2>8, CallerMovesOK, Zenon
  <1> QED BY <1>9, <1>10, Zenon

LEMMA FlushSendOK ==
    ASSUME WorkerInv, NEW c \in Call, FlushSend(c)
    PROVE WorkerInv'
  <1>1. WorkerShape /\ FlushOK(c) BY Zenon DEF WorkerInv
  <1>2. flushes \in [Call -> FlushShape] /\ flushes[c] \in FlushShape
        /\ permits \in Nat /\ permits <= MaxPending
    BY <1>1, Zenon DEF WorkerShape
  <1>3. /\ flushes[c].phase = "permitted" /\ try_send(c)
        /\ UNCHANGED <<token, cover, worker, closing>>
    BY Zenon DEF FlushSend, InPhase
  <1>4. /\ channel' \in Seq(Call \cup {Wake, Stop}) /\ Len(channel') <= Capacity
        /\ \A d \in Call \ {c} : Queued(d)' => Queued(d)
        /\ ~Sent => channel' = channel
    BY <1>3, SendOK, Zenon
  <1>5. flushes[c].phase \in {"permitted", "waiting"} /\ flushes[c].phase \notin {"waiting", "returned"}
    BY <1>3
  <1>6. CASE Sent
    <2> DEFINE f == [flushes[c] EXCEPT !.phase = "waiting"]
    <2>1. flushes' = Set(c, "phase", "waiting") /\ permits' = permits BY <1>6, Zenon DEF FlushSend
    <2>2. flushes' = [flushes EXCEPT ![c] = f] BY <1>2, <2>1, Zenon DEF Set
    <2>3. /\ f \in FlushShape /\ f.phase = "waiting" /\ f.released = flushes[c].released
          /\ f.reply = flushes[c].reply /\ f.result = flushes[c].result
          /\ f.requested = flushes[c].requested /\ f.target = flushes[c].target
      BY <1>2 DEF FlushShape
    <2> HIDE DEF f
    <2>4. CallerMoves(c, f) BY <1>2, <1>3, <1>4, <2>1, <2>2, Zenon DEF CallerMoves
    <2>5. /\ flushes[c].requested <= flushes[c].target /\ flushes[c].target <= token
          /\ ~flushes[c].released /\ ~ (c \in worker.pending)
          /\ flushes[c].reply = "none" /\ flushes[c].result # "ok"
      BY <1>1, <1>3, <1>5, Zenon DEF FlushOK
    <2>6. f.requested <= f.target /\ f.target <= token /\ ~f.released BY <2>3, <2>5, Zenon
    <2>7. f.reply = "none" /\ f.reply # "ok" /\ f.result # "ok" BY <2>3, <2>5
    <2>8. f.phase \in {"permitted", "waiting"} /\ f.phase \in {"waiting", "returned"} BY <2>3
    <2>9. Inside \cup {c} = Inside BY <1>5, Zenon DEF Inside
    <2>10. permits' = Cardinality(Inside) BY <2>1, InsideCounted, Zenon
    <2>11. permits' = Cardinality(IF f.phase \in {"permitted", "waiting"}
                                  THEN Inside \cup {c} ELSE Inside \ {c})
      BY <2>8, <2>9, <2>10, Zenon
    <2> QED BY <2>3, <2>4, <2>5, <2>6, <2>7, <2>8, <2>11, CallerMovesOK, Zenon
  <1>7. CASE ~Sent
    <2>1. Leave(c, "error") /\ channel' = channel BY <1>4, <1>7, Zenon DEF FlushSend
    <2>2. "error" \in {"ok", "error"} /\ "error" # "ok" OBVIOUS
    <2> QED BY <1>3, <1>5, <2>1, <2>2, LeaveOK, Zenon
  <1> QED BY <1>6, <1>7, Zenon

LEMMA FlushEndsOK ==
    ASSUME WorkerInv, NEW c \in Call, FlushReceives(c) \/ FlushAbandons(c)
    PROVE WorkerInv'
  <1>1. WorkerShape /\ FlushOK(c) BY Zenon DEF WorkerInv
  <1>2. flushes[c] \in FlushShape BY <1>1, Zenon DEF WorkerShape
  <1>3. flushes[c].reply \in {"none", "ok", "error"} BY <1>2 DEF FlushShape
  <1>4. flushes[c].phase = "waiting" /\ UNCHANGED <<token, cover, channel, worker, closing>>
    BY Zenon DEF FlushReceives, FlushAbandons, InPhase
  <1>5. flushes[c].phase \in {"permitted", "waiting"} BY <1>4
  <1>6. PICK result \in {"ok", "error"} : Leave(c, result) /\ (result = "ok" => flushes[c].reply = "ok")
    <2>1. CASE Leave(c, "error")
      <3>1. "error" \in {"ok", "error"} /\ "error" # "ok" OBVIOUS
      <3> QED BY <2>1, <3>1, Zenon
    <2>2. CASE flushes[c].reply # "none" /\ Leave(c, flushes[c].reply)
      <3>1. flushes[c].reply \in {"ok", "error"} BY <1>3, <2>2
      <3> QED BY <2>2, <3>1, Zenon
    <2> QED BY <2>1, <2>2, Zenon DEF FlushReceives, FlushAbandons
  <1> QED BY <1>4, <1>5, <1>6, LeaveOK, Zenon

\* Writers, wake-ups and the shutdown touch no call.
LEMMA OutsideOK ==
    ASSUME WorkerInv, Commit \/ wake \/ stop \/ shutdown_within \/ UNCHANGED workerVars
    PROVE WorkerInv'
  <1> USE SearchWorkerAssumption
  <1>1. WorkerShape BY Zenon DEF WorkerInv
  <1>2. token \in Nat /\ token <= MaxDirty /\ MaxDirty \in Nat
        /\ channel \in Seq(Call \cup {Wake, Stop}) /\ Len(channel) <= Capacity
        /\ closing \in {"open", "closing", "closed"}
    <2>1. MaxDirty \in Nat OBVIOUS
    <2> QED BY <1>1, <2>1, Zenon DEF WorkerShape
  <1>3. UNCHANGED <<cover, permits, flushes, worker>>
    BY Zenon DEF Commit, wake, stop, shutdown_within, workerVars
  <1>4. token' \in Nat /\ token <= token' /\ token' <= MaxDirty
    <2>1. CASE Commit
      <3>1. token' = token + 1 /\ token < MaxDirty BY <2>1, Zenon DEF Commit
      <3> QED BY <1>2, <3>1
    <2>2. CASE wake \/ stop \/ shutdown_within \/ UNCHANGED workerVars
      <3>1. token' = token BY <2>2, Zenon DEF wake, stop, shutdown_within, workerVars
      <3> QED BY <1>2, <3>1
    <2> QED BY <2>1, <2>2, Zenon
  <1>5. closing' \in {"open", "closing", "closed"}
    <2>1. CASE stop
      <3>1. closing' = "closing" BY <2>1, Zenon DEF stop
      <3> QED BY <3>1
    <2>2. CASE shutdown_within BY <2>2 DEF shutdown_within
    <2>3. CASE Commit \/ wake \/ UNCHANGED workerVars
      <3>1. closing' = closing BY <2>3, Zenon DEF Commit, wake, workerVars
      <3> QED BY <1>2, <3>1, Zenon
    <2> QED BY <2>1, <2>2, <2>3, Zenon
  <1>6. channel' = channel \/ try_send(Wake) \/ try_send(Stop)
    BY Zenon DEF Commit, wake, stop, shutdown_within, workerVars
  <1>7. /\ channel' \in Seq(Call \cup {Wake, Stop}) /\ Len(channel') <= Capacity
        /\ \A d \in Call : Queued(d)' => Queued(d)
    <2>1. CASE channel' = channel
      <3>1. \A d : Queued(d)' => Queued(d) BY <2>1, Zenon DEF Queued
      <3> QED BY <1>2, <2>1, <3>1, Zenon
    <2>2. ASSUME NEW m \in {Wake, Stop}, try_send(m)
          PROVE /\ channel' \in Seq(Call \cup {Wake, Stop}) /\ Len(channel') <= Capacity
                /\ \A d \in Call : Queued(d)' => Queued(d)
      <3>1. m \notin Call BY <2>2 DEF Wake, Stop
      <3>2. m \in Call \cup {Wake, Stop} BY <2>2, Zenon
      <3>3. \A d \in Call : d \in Call \ {m} BY <3>1, Zenon
      <3> QED BY <2>2, <3>2, <3>3, SendOK, Zenon
    <2> QED BY <1>6, <2>1, <2>2, Zenon
  <1> QED BY <1>3, <1>4, <1>5, <1>7, QuietOK, Zenon

LEMMA WorkerStepOK == WorkerInv /\ [WorkerNext]_workerVars => WorkerInv'
  <1> SUFFICES ASSUME WorkerInv, [WorkerNext]_workerVars PROVE WorkerInv' OBVIOUS
  <1>1. ASSUME Commit \/ wake \/ stop \/ shutdown_within \/ UNCHANGED workerVars PROVE WorkerInv'
    BY <1>1, OutsideOK, Zenon
  <1>2. ASSUME Closed PROVE WorkerInv' BY <1>1, <1>2, Zenon DEF Closed
  <1>3. ASSUME NEW c \in Call, flush_with(c) PROVE WorkerInv' BY <1>3, FlushWithOK, Zenon
  <1>4. ASSUME NEW c \in Call, Flusher(c) \/ FlushAbandons(c) PROVE WorkerInv'
    BY <1>4, FlushSendOK, FlushEndsOK, Zenon DEF Flusher
  <1>5. ASSUME run_search_worker PROVE WorkerInv'
    BY <1>5, CollectOK, SelectTargetOK, DrainMovesOK, FailuresOK, AnswerOK, Zenon DEF run_search_worker
  <1>6. ASSUME Trouble PROVE WorkerInv'
    BY <1>6, FailuresOK, DrainRecoversOK, DrainMovesOK, PanicOK, Zenon DEF Trouble
  <1> QED BY <1>1, <1>2, <1>3, <1>4, <1>5, <1>6, Zenon DEF WorkerNext

\* The search thread and its callers keep their inductive invariant.
THEOREM WorkerInvariance == WorkerSpec => []WorkerInv
  BY WorkerInitOK, WorkerStepOK, PTL DEF WorkerSpec

\* The control channel never exceeds its capacity and the permits never exceed
\* MAX_PENDING_FLUSHES (flush_with, try_send).
THEOREM WorkerTypes == WorkerSpec => []WorkerTypeOK
  <1>1. WorkerInv => WorkerTypeOK
    <2> SUFFICES ASSUME WorkerInv PROVE WorkerTypeOK OBVIOUS
    <2>1. WorkerShape BY Zenon DEF WorkerInv
    <2>2. worker \in ThreadShape BY <2>1, Zenon DEF WorkerShape
    <2>3. worker.pending \subseteq Call /\ worker.at \in {"collect", "target", "drain", "certify", "gone"}
      BY <2>2 DEF ThreadShape
    <2>4. token \in 0..MaxDirty /\ cover \in 0..MaxDirty /\ permits \in 0..MaxPending
      BY <2>1, SearchWorkerAssumption DEF WorkerShape
    <2> QED BY <2>1, <2>3, <2>4, Zenon DEF WorkerShape, WorkerTypeOK
  <1> QED BY <1>1, WorkerInvariance, PTL

\* A flush that returns Ok is covered up to the token that was current when it
\* began and the recovery work attached since, and the permits out are those of
\* the calls inside, whatever smaller targets, abandoned requests, failed
\* drains, panics and a shutdown came in between (flush_with, FlushPermit,
\* run_search_worker).
THEOREM FlushesCovered == WorkerSpec => []FlushesAreCovered
  <1>1. WorkerInv => FlushesAreCovered
    <2> SUFFICES ASSUME WorkerInv PROVE FlushesAreCovered OBVIOUS
    <2>1. FlushIsCovered BY Zenon DEF WorkerInv, FlushOK, FlushIsCovered
    <2> QED BY <2>1, Zenon DEF WorkerInv, FlushesAreCovered
  <1> QED BY <1>1, WorkerInvariance, PTL

=============================================================================
