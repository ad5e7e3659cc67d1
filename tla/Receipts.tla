------------------------------ MODULE Receipts ------------------------------
(***************************************************************************)
(* Mutation receipts of store.rs: the durable evidence that a mutation was  *)
(* admitted and applied, its order by update time, the batch mappings, and  *)
(* the retention that trims the oldest of both.  A commit stages what it    *)
(* writes under the receipt's own lock and trims later, under the retention *)
(* lock; commits of other receipts come in between.                         *)
(*                                                                          *)
(* Update times are wall-clock readings and may repeat or go back.          *)
(***************************************************************************)
EXTENDS Integers, FiniteSets, FiniteSetsExt

CONSTANTS MutationId,    \* ids of mutations, ordered as the keys are
          Instant,       \* readings of the clock
          Retention,     \* RECEIPT_RETENTION
          TrimRows,      \* QV_BUILD_ROWS, the most rows a commit removes
          MaxAdmissions  \* bound on admission sequences

ASSUME ReceiptsAssumption ==
  /\ MutationId \subseteq Nat /\ Instant \subseteq Nat
  /\ {Retention, TrimRows, MaxAdmissions} \subseteq Nat \ {0}

VARIABLES
  receipts,      \* [id -> receipt], NoReceipt where there is none
  receiptOrder,  \* keys <<update time, id>> of receipt_order
  expired,       \* RECEIPT_EXPIRED_KEY
  mappings,      \* batch receipts: [sequence, id]
  receiptNext,   \* receipt_next
  retention,     \* RetentionState
  staging,       \* [id -> the batch staged under its receipt_guard]
  settling,      \* [id -> the receipt a settlement has read]
  admitted,      \* history: <<id, sequence>> of every committed receipt
  applications   \* history: [sequence -> source commits that applied it]

receiptVars == <<receipts, receiptOrder, expired, mappings, receiptNext, retention,
                 staging, settling, admitted, applications>>

\* A receipt, as far as its admission, its source state and its place in the order go.
Receipt == [sequence : 0..MaxAdmissions, source : {"none", "Prepared", "Applied"}, event : {0, 1},
            time : Instant \cup {0}]

NoReceipt == [sequence |-> 0, source |-> "none", event |-> 0, time |-> 0]
NoBatch == [receipt |-> NoReceipt, mapping |-> FALSE]
NoFloor == <<0, 0>>
Stored(id) == receipts[id] # NoReceipt
receipt_order_key(id, receipt) == <<receipt.time, id>>
Before(k, l) == k[1] < l[1] \/ (k[1] = l[1] /\ k[2] < l[2])

\* A floor of None scans from the start and stays.
lower_floor(floor, key) == IF Before(key, floor) THEN key ELSE floor

-----------------------------------------------------------------------------
(* Staging.  The receipt's lock is held until the batch is committed.      *)

stage_receipt(id, source, time, mapped) ==
  /\ staging[id] = NoBatch /\ ~Stored(id)
  /\ receiptNext <= MaxAdmissions
  /\ receiptNext' = receiptNext + 1
  /\ staging' = [staging EXCEPT ![id] =
       [receipt |-> [sequence |-> receiptNext, source |-> source, event |-> 0, time |-> time],
        mapping |-> mapped]]
  /\ UNCHANGED <<receipts, receiptOrder, expired, mappings, retention, settling, admitted,
                 applications>>

\* A mutation is admitted before it is applied.
prepare_mutation(id) == \E time \in Instant : stage_receipt(id, "Prepared", time, FALSE)

\* stage_batch_receipt refuses a second batch for an id whose first is retained.
Mapped(id) == \E m \in mappings : m.id = id

\* A source commit with no admission of its own: a policy, a delete, a batch.
apply_changes_locked(id) ==
  \E time \in Instant, mapped \in BOOLEAN :
    /\ ~(mapped /\ Mapped(id))
    /\ stage_receipt(id, "Applied", time, mapped)

bind_receipt_event(id) ==
  /\ staging[id] = NoBatch /\ receipts[id].source = "Prepared"
  /\ receipts' = [receipts EXCEPT ![id].event = 1]
  /\ UNCHANGED <<receiptOrder, expired, mappings, receiptNext, retention, staging, settling,
                 admitted, applications>>

\* Faulty: whatever the state of the stored receipt.
stage_receipt_again(id, event, time) ==
  /\ staging[id] = NoBatch /\ Stored(id)
  /\ receipts[id].event = event
  /\ ~Mapped(id)
  /\ staging' = [staging EXCEPT ![id] =
       [receipt |-> [receipts[id] EXCEPT !.source = "Applied", !.time = time],
        mapping |-> TRUE]]

\* Prepared to Applied, in the batch of the source mutation.
stage_receipt_update(id, event, time) ==
  /\ staging[id] = NoBatch /\ receipts[id].source = "Prepared"
  /\ receipts[id].event = event
  /\ ~Mapped(id)
  /\ staging' = [staging EXCEPT ![id] =
       [receipt |-> [receipts[id] EXCEPT !.source = "Applied", !.time = time],
        mapping |-> TRUE]]

\* A client applies the admission it was given; any other one is refused.
apply_mutation(id, sequence) ==
  /\ receipts[id].sequence = sequence
  /\ \E event \in {0, 1}, time \in Instant : stage_receipt_update(id, event, time)
  /\ UNCHANGED <<receipts, receiptOrder, expired, mappings, receiptNext, retention, settling,
                 admitted, applications>>

-----------------------------------------------------------------------------
(* Retention.  A trim looks at the committed rows only.                    *)

\* Faulty: one row late.
Excess_late(live) == Min({TrimRows, Max({live - Retention - 1, 0})})

Excess(live) == Min({TrimRows, Max({live - Retention, 0})})

\* The oldest n of some keys.
Oldest(keys, n) ==
  {k \in keys : Cardinality({l \in keys : Before(l, k)}) < n}

\* Faulty: the floor ignores what this batch writes.
trim_receipt_forgets(id, key) ==
  LET live == retention.receipts + (IF Stored(id) THEN 0 ELSE 1)
      scanned == {k \in receiptOrder : ~Before(k, retention.receiptFloor) /\ k[2] # id}
      removed == Oldest(scanned, Excess(live))
  IN  [removed |-> removed,
       count |-> live - Cardinality(removed),
       floor |-> IF removed = {} THEN retention.receiptFloor
                 ELSE CHOOSE k \in removed : \A l \in removed : k = l \/ Before(l, k)]

\* The oldest receipts past retention go, never the one this batch writes; the
\* floor advances over removed keys only up to a row the batch rewrites.
trim_receipt_order(id, key) ==
  LET floor == lower_floor(retention.receiptFloor, key)
      live == retention.receipts + (IF Stored(id) THEN 0 ELSE 1)
      scanned == {k \in receiptOrder : ~Before(k, floor)}
      mine == {k \in scanned : k[2] = id}
      removed == Oldest(scanned \ mine, Excess(live))
      passed == {k \in removed : \A m \in mine : Before(k, m)}
      next == IF passed = {} THEN floor
              ELSE CHOOSE k \in passed : \A l \in passed : k = l \/ Before(l, k)
  IN  [removed |-> removed,
       count |-> live - Cardinality(removed),
       floor |-> lower_floor(next, key)]

\* The same for batch mappings, by sequence.
trim_batch_mappings(mapping, sequence) ==
  LET live == retention.batches + (IF mapping THEN 1 ELSE 0)
      floor == IF mapping THEN Min({retention.batchFloor, sequence}) ELSE retention.batchFloor
      scanned == {m \in mappings : m.sequence >= floor}
      removed == {m \in scanned : Cardinality({l \in scanned : l.sequence < m.sequence}) < Excess(live)}
      next == Max({floor} \cup {m.sequence : m \in removed})
  IN  [removed |-> removed,
       count |-> live - Cardinality(removed),
       floor |-> IF mapping THEN Min({next, sequence}) ELSE next]

\* Faulty: the first sequence that is not expired, read as the last that is.
mark_expired_below(removed) == Max({expired} \cup {receipts[k[2]].sequence - 1 : k \in removed})

\* What a trim reports of the receipts it removes.
mark_expired(removed) == Max({expired} \cup {receipts[k[2]].sequence : k \in removed})

stage_retention(id) ==
  LET staged == staging[id]
      stored == staged.receipt
      key == receipt_order_key(id, stored)
      trimmed == trim_receipt_order(id, key)
      trimmedBatches == trim_batch_mappings(staged.mapping, stored.sequence)
  IN
  /\ receipts' = [i \in MutationId |->
       IF i = id THEN stored
       ELSE IF \E k \in trimmed.removed : k[2] = i THEN NoReceipt ELSE receipts[i]]
  /\ receiptOrder' = (receiptOrder \ (trimmed.removed \cup {k \in receiptOrder : k[2] = id}))
                       \cup {key}
  /\ expired' = mark_expired(trimmed.removed)
  /\ mappings' = (mappings \ trimmedBatches.removed)
                   \cup (IF staged.mapping THEN {[sequence |-> stored.sequence, id |-> id]} ELSE {})
  /\ retention' = [receipts |-> trimmed.count, receiptFloor |-> trimmed.floor,
                   batches |-> trimmedBatches.count, batchFloor |-> trimmedBatches.floor]

commit_durable_receipt(id) ==
  /\ staging[id] # NoBatch
  /\ stage_retention(id)
  /\ staging' = [staging EXCEPT ![id] = NoBatch]
  /\ admitted' = admitted \cup {<<id, staging[id].receipt.sequence>>}
  /\ applications' = [applications EXCEPT ![staging[id].receipt.sequence] =
                        @ + (IF staging[id].receipt.source = "Applied" THEN 1 ELSE 0)]
  /\ UNCHANGED <<receiptNext, settling>>

\* The batch is refused: nothing is stored, the sequence is spent.
commit_receipt_fails(id) ==
  /\ staging[id] # NoBatch
  /\ staging' = [staging EXCEPT ![id] = NoBatch]
  /\ UNCHANGED <<receipts, receiptOrder, expired, mappings, receiptNext, retention, settling,
                 admitted, applications>>

-----------------------------------------------------------------------------
(* Settlement of persistence and repairs, after the source commit.         *)

\* Faulty: a prepared receipt is settled too.
refresh_state_early(id) ==
  /\ settling[id] = NoReceipt /\ Stored(id)
  /\ settling' = [settling EXCEPT ![id] = receipts[id]]
  /\ UNCHANGED <<receipts, receiptOrder, expired, mappings, receiptNext, retention, staging,
                 admitted, applications>>

\* refresh_state leaves a prepared receipt alone.
refresh_state(id) ==
  /\ settling[id] = NoReceipt /\ receipts[id].source = "Applied"
  /\ settling' = [settling EXCEPT ![id] = receipts[id]]
  /\ UNCHANGED <<receipts, receiptOrder, expired, mappings, receiptNext, retention, staging,
                 admitted, applications>>

\* Faulty: the order row of the earlier update stays.
update_receipt_twice(id, time) ==
  LET stored == [settling[id] EXCEPT !.time = time] IN
  IF settling[id].sequence = receipts[id].sequence /\ settling[id].event = receipts[id].event
  THEN /\ receipts' = [receipts EXCEPT ![id] = stored]
       /\ receiptOrder' = receiptOrder \cup {receipt_order_key(id, stored)}
       /\ retention' = [retention EXCEPT !.receiptFloor =
                          lower_floor(@, receipt_order_key(id, stored))]
  ELSE UNCHANGED <<receipts, receiptOrder, retention>>

\* Fenced by the identity of the receipt and its admission sequence.
update_receipt(id, time) ==
  LET stored == [settling[id] EXCEPT !.time = time] IN
  IF settling[id].sequence = receipts[id].sequence /\ settling[id].event = receipts[id].event
  THEN /\ receipts' = [receipts EXCEPT ![id] = stored]
       /\ receiptOrder' = (receiptOrder \ {receipt_order_key(id, receipts[id])})
                            \cup {receipt_order_key(id, stored)}
       /\ retention' = [retention EXCEPT !.receiptFloor =
                          lower_floor(@, receipt_order_key(id, stored))]
  ELSE UNCHANGED <<receipts, receiptOrder, retention>>

mark_persisted(id) ==
  /\ settling[id] # NoReceipt /\ staging[id] = NoBatch
  /\ \E time \in Instant : update_receipt(id, time)
  /\ settling' = [settling EXCEPT ![id] = NoReceipt]
  /\ UNCHANGED <<expired, mappings, receiptNext, staging, admitted, applications>>

-----------------------------------------------------------------------------
(* Lookups.                                                                *)

receipt_status(id, sequence) ==
  IF Stored(id) THEN IF receipts[id].sequence = sequence THEN "Known" ELSE "Unknown"
  ELSE IF sequence <= expired THEN "Expired" ELSE "Unknown"

receipt_for_batch(m) ==
  IF Stored(m.id) THEN "Known" ELSE IF m.sequence <= expired THEN "Expired" ELSE "Unknown"

-----------------------------------------------------------------------------
(* Opening the store again: counters are restored from the rows.           *)

\* Faulty: trimmed receipts are forgotten.
restore_receipt_live ==
  receiptNext' = Max({0} \cup {receipts[id].sequence : id \in MutationId}) + 1

restore_receipt_next ==
  receiptNext' = Max({expired} \cup {receipts[id].sequence : id \in MutationId}) + 1

reopen_receipts ==
  /\ restore_receipt_next
  /\ retention' = [receipts |-> Cardinality({id \in MutationId : Stored(id)}),
                   batches |-> Cardinality(mappings),
                   receiptFloor |-> NoFloor, batchFloor |-> 0]
  /\ staging' = [id \in MutationId |-> NoBatch]
  /\ settling' = [id \in MutationId |-> NoReceipt]
  /\ UNCHANGED <<receipts, receiptOrder, expired, mappings, admitted, applications>>

ReceiptInit ==
  /\ receipts = [id \in MutationId |-> NoReceipt]
  /\ receiptOrder = {} /\ expired = 0 /\ mappings = {} /\ receiptNext = 1
  /\ retention = [receipts |-> 0, batches |-> 0, receiptFloor |-> NoFloor, batchFloor |-> 0]
  /\ staging = [id \in MutationId |-> NoBatch]
  /\ settling = [id \in MutationId |-> NoReceipt]
  /\ admitted = {}
  /\ applications = [s \in 1..MaxAdmissions |-> 0]

ReceiptNext ==
  \/ \E id \in MutationId :
       \/ prepare_mutation(id) \/ apply_changes_locked(id) \/ bind_receipt_event(id)
       \/ \E a \in admitted : a[1] = id /\ apply_mutation(id, a[2])
       \/ commit_durable_receipt(id) \/ commit_receipt_fails(id)
       \/ refresh_state(id) \/ mark_persisted(id)
  \/ reopen_receipts

ReceiptSpec == ReceiptInit /\ [][ReceiptNext]_receiptVars

-----------------------------------------------------------------------------
ReceiptTypeOK ==
  /\ receipts \in [MutationId -> Receipt] /\ settling \in [MutationId -> Receipt]
  /\ staging \in [MutationId -> [receipt : Receipt, mapping : BOOLEAN]]
  /\ receiptOrder \subseteq Instant \X MutationId
  /\ mappings \subseteq [sequence : 1..MaxAdmissions, id : MutationId]
  /\ expired \in 0..MaxAdmissions /\ receiptNext \in 1..MaxAdmissions + 1
  /\ admitted \subseteq MutationId \X (1..MaxAdmissions)
  /\ applications \in [1..MaxAdmissions -> Nat]

\* The counts that decide a trim are the numbers of committed receipts and batch
\* mappings, and no committed order key lies below a floor a trim starts from,
\* whatever commits, settlements and clock readings came in between
\* (RetentionState, stage_retention, update_receipt).
RetentionIsExact ==
  /\ retention.receipts = Cardinality({id \in MutationId : Stored(id)})
  /\ retention.batches = Cardinality(mappings)
  /\ \A k \in receiptOrder : ~Before(k, retention.receiptFloor)
  /\ \A m \in mappings : m.sequence >= retention.batchFloor

\* Every stored receipt has exactly one order row, under its own update time, so
\* that a trim removes what is oldest and no receipt escapes it
\* (receipt_order_key, stage_receipt_update, update_receipt).
OrderIsExact ==
  receiptOrder = {receipt_order_key(id, receipts[id]) : id \in {i \in MutationId : Stored(i)}}

\* No more than RECEIPT_RETENTION receipts and batch mappings are retained
\* (trim_receipt_order, trim_batch_mappings).
RetentionIsBounded ==
  Cardinality(receiptOrder) <= Retention /\ Cardinality(mappings) <= Retention

\* A client that names the admission of a committed receipt is told Known or
\* Expired, never Unknown, unless the id was admitted anew since; the same holds
\* for a retained batch (receipt_status, receipt_for_batch).
AdmissionIsRemembered ==
  /\ \A a \in admitted :
       receipt_status(a[1], a[2]) = "Unknown" => Stored(a[1]) /\ receipts[a[1]].sequence > a[2]
  /\ \A m \in mappings : receipt_for_batch(m) # "Unknown"

\* No admission is applied twice, and no two receipts ever share a sequence, also
\* across a restart and when an update lost its race against a trim
\* (stage_receipt_update, restore_receipt_next).
AppliedOnce ==
  /\ \A s \in DOMAIN applications : applications[s] <= 1
  /\ \A a, b \in admitted : a[2] = b[2] => a = b

\* The stored outcome of an admission never goes back from applied to prepared
\* (refresh_state, update_receipt).
AppliedStays ==
  [][\A id \in MutationId :
       receipts[id].source = "Applied" =>
         receipts'[id].source = "Applied" \/ receipts'[id].sequence # receipts[id].sequence]_receiptVars
=============================================================================
