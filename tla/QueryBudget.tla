---------------------------- MODULE QueryBudget ----------------------------
(***************************************************************************)
(* The work budget of a query (query/budget.rs), charged by the threads    *)
(* that evaluate it (query/worker.rs: map_ordered runs on a bounded pool). *)
(* A charge adds to one shared counter after another and fails at the      *)
(* first limit it passes.  The planner charges the budget before the final *)
(* shape of the query is known; `resume` then applies that shape to a new  *)
(* budget that keeps what was charged.                                     *)
(*                                                                         *)
(* A step is one atomic access.  The counters are unbounded here; a usize  *)
(* would have to wrap for that to matter.                                  *)
(***************************************************************************)
EXTENDS Naturals, Sequences, FiniteSets

CONSTANTS
    Thread,         \* MAX_QUERY_WORKERS threads of the pool
    Amounts,        \* rows or bytes one charge may carry
    Limits,         \* QueryLimits: counter -> limit
    HashLimit,      \* max_hash_entries; max_hash_bytes is the same bound
                    \* divided by HASH_ROW_ESTIMATE
    MaxCharges      \* bound on the charges of a behaviour

Counter == {"intermediate", "edges", "rows", "cells", "bytes", "triples"}

\* What the constants satisfy; a module that instantiates this one assumes it.
BudgetAssumption ==
    /\ IsFiniteSet(Thread) /\ Amounts \subseteq Nat
    /\ Limits \in [Counter -> Nat] /\ HashLimit \in Nat /\ MaxCharges \in Nat

VARIABLES
    budCount,       \* the counters
    budShape,       \* BudgetShape: guarded_hash and property_path
    budPhase,       \* "new", "plan", "eval", "refused"
    budCall,        \* what each thread is charging: the counters still to
                    \* be charged, and the amount
    budAccepted,    \* history: what returned Ok, per counter
    budOver,        \* history: the counters that refused a charge
    budCharges      \* charges made

budVars == <<budCount, budShape, budPhase, budCall, budAccepted, budOver,
             budCharges>>

Idle == [left |-> <<>>, amount |-> 0]
Shapes == [hash : BOOLEAN, path : BOOLEAN]

BudgetInit ==
    /\ budCount = [c \in Counter |-> 0]
    /\ budShape = [hash |-> FALSE, path |-> FALSE]
    /\ budPhase = "new"
    /\ budCall = [t \in Thread |-> Idle]
    /\ budAccepted = [c \in Counter |-> 0]
    /\ budOver = {}
    /\ budCharges = 0

-----------------------------------------------------------------------------
\* QueryBudget::new: the estimate of the shape must fit before anything runs.
Admissible(shape, estimate) ==
    /\ estimate <= Limits["intermediate"]
    /\ shape.hash => estimate <= HashLimit

new_budget ==
    /\ budPhase = "new"
    /\ \E estimate \in Amounts :
         budPhase' = IF Admissible(budShape, estimate) THEN "plan"
                     ELSE "refused"
    /\ UNCHANGED <<budCount, budShape, budCall, budAccepted, budOver,
                   budCharges>>

\* Faulty: the final budget starts from zero.
Resumed_empty(counters) == [c \in Counter |-> 0]
\* `resume` copies every counter into the budget of the final shape.
Resumed(counters) == counters

\* The final shape is applied by the thread that planned, before the pool
\* starts.
resume ==
    /\ budPhase = "plan" /\ budOver = {}
    /\ \A t \in Thread : budCall[t] = Idle
    /\ \E shape \in Shapes, estimate \in Amounts :
         IF Admissible(shape, estimate)
         THEN /\ budPhase' = "eval" /\ budShape' = shape
              /\ budCount' = Resumed(budCount)
         ELSE budPhase' = "refused" /\ UNCHANGED <<budShape, budCount>>
    /\ UNCHANGED <<budCall, budAccepted, budOver, budCharges>>

\* Planning runs on one thread, evaluation on all of them.
Runs(t) ==
    \/ budPhase = "eval"
    \/ budPhase = "plan" /\ \A s \in Thread \ {t} : budCall[s] = Idle

Begin(t, counters, amount) ==
    /\ Runs(t) /\ budCall[t] = Idle
    /\ budCharges < MaxCharges
    /\ budCharges' = budCharges + 1
    /\ budCall' = [budCall EXCEPT ![t] = [left |-> counters,
                                            amount |-> amount]]
    /\ UNCHANGED <<budCount, budShape, budPhase, budAccepted, budOver>>

\* observe_intermediate charges the rows and, for a property path, the edges.
observe_intermediate(t) ==
    \E amount \in Amounts :
      Begin(t, IF budShape.path THEN <<"intermediate", "edges">>
               ELSE <<"intermediate">>, amount)

\* observe_result charges a row, its cells and its bytes.
observe_result(t) ==
    \E amount \in Amounts : Begin(t, <<"rows", "cells", "bytes">>, amount)

\* observe_graph charges the triple first and then its result.
observe_graph(t) ==
    \E amount \in Amounts : Begin(t, <<"triples", "rows", "cells", "bytes">>, amount)

\* observe_capacity charges bytes only.
observe_capacity(t) == \E amount \in Amounts : Begin(t, <<"bytes">>, amount)

\* Rows and triples count one per result; the others carry the amount.
Weight(counter, amount) ==
    IF counter \in {"rows", "triples"} THEN 1 ELSE amount

\* Faulty: the counter is compared before the charge, so one may pass it.
Fits_before(counter, previous, amount) == previous <= Limits[counter]
\* add_limited compares the total after the charge; rows of a guarded hash
\* join are also held to the hash limits.
Fits(counter, previous, amount) ==
    /\ previous + amount <= Limits[counter]
    /\ counter = "intermediate" /\ budShape.hash =>
         previous + amount <= HashLimit

\* Faulty: a charge that does not fit is taken back.
Charged_refunded(counter, amount) ==
    IF Fits(counter, budCount[counter], amount)
    THEN [budCount EXCEPT ![counter] = @ + amount] ELSE budCount
\* counter.fetch_add: the charge stands whether or not it fits.
Charged(counter, amount) == [budCount EXCEPT ![counter] = @ + amount]

\* One add_limited: an error ends the call.
add_limited(t) ==
    LET call == budCall[t]
        counter == call.left[1]
        amount == Weight(counter, call.amount)
        rest == [call EXCEPT !.left = SubSeq(call.left, 2, Len(call.left))]
    IN  /\ call # Idle
        /\ budCount' = Charged(counter, amount)
        /\ IF Fits(counter, budCount[counter], amount)
           THEN /\ budAccepted' = [budAccepted EXCEPT ![counter] = @ + amount]
                /\ budCall' = [budCall EXCEPT ![t] =
                                 IF rest.left = <<>> THEN Idle ELSE rest]
                /\ UNCHANGED budOver
           ELSE /\ budOver' = budOver \cup {counter}
                /\ budCall' = [budCall EXCEPT ![t] = Idle]
                /\ UNCHANGED budAccepted
        /\ UNCHANGED <<budShape, budPhase, budCharges>>

BudgetNext ==
    \/ new_budget \/ resume
    \/ \E t \in Thread :
         \/ observe_intermediate(t) \/ observe_result(t) \/ observe_graph(t)
         \/ observe_capacity(t) \/ add_limited(t)

BudgetSpec == BudgetInit /\ [][BudgetNext]_budVars

-----------------------------------------------------------------------------
(* Properties *)

\* What the threads were allowed to produce never passes a limit, however
\* their charges interleave and across `resume`.
AcceptedFits == \A c \in Counter : budAccepted[c] <= Limits[c]

\* A query that has passed a limit cannot go on charging it: after a refusal
\* no later charge of the same counter is accepted, so no thread of the pool
\* finishes a query another thread has failed.
RefusalStep == \A c \in budOver : budAccepted'[c] = budAccepted[c]
RefusalIsFinal == [][RefusalStep]_budVars
=============================================================================
