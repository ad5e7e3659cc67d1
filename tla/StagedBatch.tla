---------------------------- MODULE StagedBatch ----------------------------
(***************************************************************************)
(* How one batch of operations becomes one store commit.  The operations   *)
(* are staged one after the other in a write batch, where each sees what   *)
(* the earlier ones staged; the commit writes the quads, and the query     *)
(* index from the net change of each quad, in one step or not at all.      *)
(*                                                                         *)
(* The graph write guard is held throughout, so that nothing else writes   *)
(* the quads, and the commit owns the index gate.                          *)
(***************************************************************************)
EXTENDS ORSet

CONSTANTS Batches   \* the operation sequences to apply

ASSUME BatchesAssumption == Batches \subseteq Seq(QuadOp)

VARIABLES quads,      \* the committed dots of each quad
          index,      \* the quads that the query index lists
          running,    \* whether a batch is being staged
          ops,        \* its operations
          pos,        \* how many of them are staged
          staged,     \* the quads that the batch has written
          pending,    \* their staged dots
          mutations   \* the liveness changes so far, in order

batchVars == <<quads, index, running, ops, pos, staged, pending, mutations>>

QuadMutation == [quad : Quad, live : BOOLEAN]

BatchTypeOK ==
    /\ quads \in QuadState
    /\ index \subseteq Quad
    /\ running \in BOOLEAN
    /\ ops \in Seq(QuadOp)
    /\ pos \in 0 .. Len(ops)
    /\ staged \subseteq Quad
    /\ pending \in QuadState
    /\ mutations \in Seq(QuadMutation)

BatchInit ==
    /\ quads = Empty
    /\ index = {}
    /\ running = FALSE
    /\ ops = <<>>
    /\ pos = 0
    /\ staged = {}
    /\ pending = Empty
    /\ mutations = <<>>

-----------------------------------------------------------------------------

\* Faulty: the read does not see what the batch has staged.
current_quad_dots_committed(quad) == quads[quad]

current_quad_dots(quad) == IF quad \in staged THEN pending[quad] ELSE quads[quad]

\* The dots are staged; a quad that comes to life or dies is noted.
write_quad_state(quad, dots) ==
    LET was_live == current_quad_dots(quad) # {}
        is_live  == dots # {}
    IN  /\ staged' = staged \cup {quad}
        /\ pending' = [pending EXCEPT ![quad] = dots]
        /\ mutations' = IF was_live = is_live THEN mutations
                        ELSE Append(mutations, [quad |-> quad, live |-> is_live])

\* A write that would change nothing stages nothing.
StageDots(quad, dots) ==
    IF dots = current_quad_dots(quad)
    THEN UNCHANGED <<staged, pending, mutations>>
    ELSE write_quad_state(quad, dots)

new_batch(batch) ==
    /\ ~running
    /\ running' = TRUE
    /\ ops' = batch
    /\ pos' = 0
    /\ staged' = {}
    /\ pending' = Empty
    /\ mutations' = <<>>
    /\ UNCHANGED <<quads, index>>

insert_quad ==
    /\ running /\ pos < Len(ops)
    /\ LET op == ops[pos + 1] IN
       /\ op.op = "Add"
       /\ StageDots(op.quad, current_quad_dots(op.quad) \cup {op.dot})
    /\ pos' = pos + 1
    /\ UNCHANGED <<quads, index, running, ops>>

\* Faulty: a remove of a quad that is not there skips the operation behind it.
remove_quad_skips ==
    /\ running /\ pos < Len(ops)
    /\ LET op == ops[pos + 1] IN
       /\ op.op = "Remove"
       /\ StageDots(op.quad, {d \in current_quad_dots(op.quad) : ~contains(op.witnessed, d)})
       /\ pos' = IF current_quad_dots(op.quad) = {} THEN pos + 2 ELSE pos + 1
    /\ UNCHANGED <<quads, index, running, ops>>

remove_quad ==
    /\ running /\ pos < Len(ops)
    /\ LET op == ops[pos + 1] IN
       /\ op.op = "Remove"
       /\ StageDots(op.quad, {d \in current_quad_dots(op.quad) : ~contains(op.witnessed, d)})
    /\ pos' = pos + 1
    /\ UNCHANGED <<quads, index, running, ops>>

\* Faulty: every mutation counts, as long as no later one has its direction.
coalesced_transitions_all(log) ==
    {log[k] : k \in {j \in DOMAIN log :
        \A l \in DOMAIN log : l > j => log[l] # log[j]}}

\* The last mutation of each quad, unless the first was an opposite one: then the
\* quad is as live as it was before.
coalesced_transitions(log) ==
    {log[k] : k \in {j \in DOMAIN log :
        /\ \A l \in DOMAIN log : l > j => log[l].quad # log[j].quad
        /\ \E i \in DOMAIN log :
              /\ log[i] = log[j]
              /\ \A l \in DOMAIN log : l < i => log[l].quad # log[j].quad}}

\* The index after the transitions of a batch.
IndexAfter(transitions) ==
    {q \in Quad :
        \/ [quad |-> q, live |-> TRUE] \in transitions
        \/ q \in index /\ [quad |-> q, live |-> FALSE] \notin transitions}

\* The write batch is dropped with all it has staged.
Dropped ==
    /\ running' = FALSE
    /\ ops' = <<>> /\ pos' = 0
    /\ staged' = {} /\ pending' = Empty
    /\ mutations' = <<>>

commit ==
    /\ running /\ pos = Len(ops)
    /\ quads' = [q \in Quad |-> current_quad_dots(q)]
    /\ index' = IndexAfter(coalesced_transitions(mutations))
    /\ Dropped

\* An operation or the commit fails.
DropBatch ==
    /\ running
    /\ Dropped
    /\ UNCHANGED <<quads, index>>

BatchNext ==
    \/ \E batch \in Batches : new_batch(batch)
    \/ insert_quad
    \/ remove_quad
    \/ commit
    \/ DropBatch

BatchSpec == BatchInit /\ [][BatchNext]_batchVars

-----------------------------------------------------------------------------
(* Properties.                                                             *)

\* A batch whose operations are all staged is about to commit their effect in
\* order: the loop over insert_quad and remove_quad computes ApplyOps, on which
\* the replication models rest.
StagedIsApplyOps ==
    running /\ pos = Len(ops) =>
        [q \in Quad |-> current_quad_dots(q)] = ApplyOps(quads, ops)

\* The query index lists exactly the quads that hold a dot, whatever inserts and
\* removes of the same quad a batch combines and whichever batches fail.
IndexIsLive == index = {q \in Quad : quads[q] # {}}

=============================================================================
