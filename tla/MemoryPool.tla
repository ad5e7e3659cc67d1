----------------------------- MODULE MemoryPool -----------------------------
(***************************************************************************)
(* The memory budget the live stores of a process share (memory.rs).       *)
(* Opening a store validates its MemoryBudget, shrinks a default one to    *)
(* what is left, and reserves its bytes in PROCESS_BUDGET; dropping the    *)
(* store's MemoryLease gives them back.  All of it happens under one lock. *)
(*                                                                         *)
(* Bytes are counted in MiB, with the constants of the source.             *)
(***************************************************************************)
EXTENDS Integers, FiniteSets, FiniteSetsExt, Functions

CONSTANTS
    Store,          \* stores that may be open at once
    ProcessBytes,   \* observations of the process limit
    StoreBytes,     \* explicit per-store budgets
    StoreShare      \* DEFAULT_STORE_SHARE

\* What the constants satisfy; a module that instantiates this one assumes it.
PoolAssumption ==
    /\ IsFiniteSet(Store)
    /\ ProcessBytes \subseteq Nat \ {0} /\ StoreBytes \subseteq Nat \ {0}
    /\ StoreShare \in Nat \ {0}

MinComponent == 4
MinSearch == 15
MinStore == 3 * MinComponent + MinSearch
Preferred == [storage |-> 128, application |-> 128, search |-> 256,
              prepared |-> 64]
Smallest == [storage |-> MinComponent, application |-> MinComponent,
             search |-> MinSearch, prepared |-> MinComponent]
Part == DOMAIN Preferred

NoLease == [process |-> 0, store |-> 0, parts |-> [c \in Part |-> 0],
            adaptive |-> FALSE]

VARIABLES
    poolProcess,    \* ProcessBudget.process_bytes, 0 for None
    poolReserved,   \* ProcessBudget.reserved_bytes
    poolLease,      \* the MemoryLease of each open store
    poolRefused     \* the last reservation refused: what it saw

poolVars == <<poolProcess, poolReserved, poolLease, poolRefused>>

NoRefusal == [adaptive |-> FALSE, process |-> 0, reserved |-> 0]

PoolInit ==
    /\ poolProcess = 0 /\ poolReserved = 0
    /\ poolLease = [s \in Store |-> NoLease]
    /\ poolRefused = NoRefusal

-----------------------------------------------------------------------------
AtLeast(a, b) == IF a >= b THEN a ELSE b
AtMost(a, b) == IF a <= b THEN a ELSE b
Monus(a, b) == AtLeast(a - b, 0)                    \* saturating_sub
available(process) == (process * 3) \div 4

\* The closure `scale` of MemoryBudget::new: the minimum and a share of what
\* the store has beyond all minima, in proportion to the preferred sizes.
scale(part, remaining) ==
    Smallest[part]
      + ((Preferred[part] - Smallest[part]) * remaining)
         \div (SumFunction(Preferred) - MinStore)

\* MemoryBudget::new.
NewBudget(process, store) ==
    [process |-> process, store |-> store, adaptive |-> FALSE,
     parts |-> [c \in Part |-> scale(c, Monus(store, MinStore))]]

\* MemoryBudget::default: a fixed share of what the process may use.
DefaultBudget(process) ==
    LET share == (available(process) + StoreShare - 1) \div StoreShare
    IN  [NewBudget(process, AtLeast(share, MinStore)) EXCEPT !.adaptive = TRUE]

\* Faulty: the parts are not compared with the store they belong to.
validate_store(budget) == budget.store <= available(budget.process)
\* MemoryBudget::validate.
validate(budget) ==
    /\ SumFunction(budget.parts) <= budget.store
    /\ budget.store <= budget.process
    /\ budget.store <= available(budget.process)

\* The smallest process limit observed while leases live.
Observed(process) ==
    IF poolProcess = 0 THEN process ELSE AtMost(poolProcess, process)

\* Faulty: a default store takes its share of the whole budget, however
\* little of it is free.
fit_blind(budget) == budget
\* ProcessBudget::fit.
fit(budget) ==
    LET free == Monus(available(Observed(budget.process)), poolReserved)
        store == AtLeast(free \div StoreShare, MinStore)
    IN  IF store >= budget.store THEN budget
        ELSE [NewBudget(budget.process, store) EXCEPT !.adaptive = TRUE]

\* Faulty: a later, larger observation widens the budget of the live stores.
Limit_latest(process) == process
\* ProcessBudget::reserve never expands admission from a later rise.
Limit(process) == Observed(process)

\* ProcessBudget::reserve for store s: the observation is kept even when the
\* reservation is refused.
reserve_store(s, budget) ==
    LET process == Limit(budget.process)
    IN  /\ poolProcess' = process
        /\ IF poolReserved + budget.store > available(process)
           THEN /\ poolRefused' = [adaptive |-> budget.adaptive,
                                   process |-> process,
                                   reserved |-> poolReserved]
                /\ UNCHANGED <<poolReserved, poolLease>>
           ELSE /\ poolReserved' = poolReserved + budget.store
                /\ poolLease' = [poolLease EXCEPT ![s] = budget]
                /\ poolRefused' = NoRefusal

\* MemoryBudget::reserve: only a default budget is fitted.
reserve(s, budget) ==
    /\ poolLease[s] = NoLease /\ validate(budget)
    /\ reserve_store(s, IF budget.adaptive THEN fit(budget) ELSE budget)

OpenExplicit(s) ==
    \E process \in ProcessBytes, store \in StoreBytes :
      reserve(s, NewBudget(process, store))

OpenDefault(s) ==
    \E process \in ProcessBytes : reserve(s, DefaultBudget(process))

\* Faulty: the observation outlives the leases it was kept for.
Forgotten_never(reserved) == poolProcess
\* ProcessBudget::release forgets the process limit with the last lease.
Forgotten(reserved) == IF reserved = 0 THEN 0 ELSE poolProcess

\* MemoryLease::drop through ProcessBudget::release.
release(s) ==
    /\ poolLease[s] # NoLease
    /\ LET reserved == Monus(poolReserved, poolLease[s].store)
       IN  poolReserved' = reserved /\ poolProcess' = Forgotten(reserved)
    /\ poolLease' = [poolLease EXCEPT ![s] = NoLease]
    /\ poolRefused' = NoRefusal

PoolNext == \E s \in Store : OpenExplicit(s) \/ OpenDefault(s) \/ release(s)

PoolSpec == PoolInit /\ [][PoolNext]_poolVars

-----------------------------------------------------------------------------
(* Properties *)

Leased == {s \in Store : poolLease[s] # NoLease}

\* Type invariant; the parts of a lease never exceed its store, whatever
\* MemoryBudget::new rounded.
PoolTypeOK ==
    /\ poolProcess \in Nat /\ poolReserved \in Nat
    /\ \A s \in Leased :
         /\ SumFunction(poolLease[s].parts) <= poolLease[s].store
         /\ \A c \in Part : poolLease[s].parts[c] >= Smallest[c]

\* The reservation is the sum of the live leases, and without a lease the
\* process limit is forgotten, so stores opened and dropped in any order,
\* refused opens among them, leave the budget as they found it.
ReservationIsExact ==
    /\ poolReserved = SumFunction([s \in Store |-> poolLease[s].store])
    /\ poolReserved = 0 <=> poolProcess = 0

\* All live stores together stay within three quarters of the process limit
\* every one of them was opened under, also when later opens observe a
\* larger limit ("never expand admission from a later rise").
HeadroomHolds ==
    \A s \in Leased : poolReserved <= available(poolLease[s].process)

\* A default store is refused only when less than the smallest store is
\* free: `fit` shrinks it "toward the minimum as live stores fill the
\* budget".
DefaultFits ==
    poolRefused.adaptive =>
      available(poolRefused.process) - poolRefused.reserved < MinStore
=============================================================================
