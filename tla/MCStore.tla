------------------------------ MODULE MCStore ------------------------------
(***************************************************************************)
(* The store on small instances: the policy register, the staging of a     *)
(* batch, the query index and its gate, the mutation receipts, the         *)
(* requests that read, and the catch-up with a topic.  One behaviour       *)
(* exercises the component that `part' names; the others rest in their     *)
(* initial states, in which their properties hold.                         *)
(***************************************************************************)
EXTENDS PolicyRegister, StagedBatch, QueryIndex, QvGate, Receipts, QueryRequest, SequencesExt

CONSTANTS Parts,    \* the components to run
          private, open, shared, p, r, w1, w2

VARIABLES part, tsTopic, tsHave, tsStore, tsDisk, tsPass, tsHold, tsOpen, tsStalled, tsSkipped, tsFaults

-----------------------------------------------------------------------------
(* The constants of the components.                                        *)

\* Two callers write the policy on the first node, one on the second.
MCPeer == {1, 2}
MCCaller == {1, 2, 3}
MCHome == <<1, 1, 2>>
MCPolicy == {private, open, shared}

\* Every sequence of up to three operations on two quads, with the dots of two actors.
MCActor == {1, 2}
MCQuad == {p, r}
MCOp ==
    [op : {"Add"}, quad : MCQuad, dot : [actor : MCActor, counter : {1}]]
      \cup [op : {"Remove"}, quad : {p}, witnessed : {c \in [MCActor -> {0, 1}] : c[1] = 1}]
MCBatches == BoundedSeq(MCOp, 3)

MCWriter == {w1, w2}

\* Actor 1 is the node, 2 a foreign publisher.
Sync == INSTANCE TopicSync WITH
    Foreign <- {2}, ChangeSets <- {<<[kind |-> "Insert", quad |-> p]>>},
    LocalKinds <- {"Changes", "Delete"}, ForeignKinds <- {"Changes"},
    MaxRecords <- 3, PageRecords <- 1, MaxFaults <- 1,
    topic <- tsTopic, have <- tsHave, store <- tsStore, disk <- tsDisk, pass <- tsPass,
    hold <- tsHold, open <- tsOpen, stalled <- tsStalled, skipped <- tsSkipped, faults <- tsFaults

-----------------------------------------------------------------------------
syncVars == <<tsTopic, tsHave, tsStore, tsDisk, tsPass, tsHold, tsOpen, tsStalled, tsSkipped, tsFaults>>

StoreInit ==
    /\ part \in Parts
    /\ PolicyInit /\ BatchInit /\ Init /\ GateInit /\ ReceiptInit /\ RequestInit /\ Sync!Init

StoreNext ==
    /\ UNCHANGED part
    /\ IF part = "policy" THEN PolicyNext ELSE UNCHANGED policyVars
    /\ IF part = "batch" THEN BatchNext ELSE UNCHANGED batchVars
    /\ IF part = "index" THEN Next ELSE UNCHANGED vars
    /\ IF part = "gate" THEN GateNext ELSE UNCHANGED gateVars
    /\ IF part = "receipts" THEN ReceiptNext ELSE UNCHANGED receiptVars
    /\ IF part = "request" THEN RequestNext ELSE UNCHANGED reqVars
    /\ IF part = "topic" THEN Sync!Next ELSE UNCHANGED syncVars

storeVars ==
    <<part, policyVars, batchVars, vars, gateVars, receiptVars, reqVars, syncVars>>

\* The fairness of each component, asked of the part that runs.
IndexFairness ==
    /\ \A w \in Writer : WF_vars(part = "index" /\ CommitGoesOn(w))
    /\ WF_vars(part = "index" /\ WorkerStep)
    /\ SF_vars(part = "index" /\ StartRepair)

SyncFairness ==
    /\ \A n, a \in Actor : WF_syncVars(part = "topic" /\ Sync!Receive(n, a))
    /\ WF_syncVars(part = "topic" /\ Sync!FinishPublish(1))
    /\ WF_syncVars(part = "topic" /\ Sync!StartPage(1))
    /\ WF_syncVars(part = "topic" /\ Sync!EndPage(1))
    /\ WF_syncVars(part = "topic" /\ Sync!ApplyOrReject(1))

StoreSpec ==
    /\ StoreInit /\ [][StoreNext]_storeVars
    /\ IndexFairness /\ SyncFairness

-----------------------------------------------------------------------------
\* Every record of the topic takes effect on the node in the end (lib.rs,
\* reconcile_irokle), whatever faults come in between.
TopicReconciled == Sync!Reconciled

=============================================================================
