------------------------------- MODULE QvGate -------------------------------
(***************************************************************************)
(* The gate that serialises the maintenance of the query index.  A caller  *)
(* takes a free gate at once; otherwise it queues a wait slot of its own   *)
(* and sleeps on it until the releasing owner stores a generation there or *)
(* its deadline passes.  The deadline and the handoff race: a waiter that  *)
(* gives up must first find out whether it already owns the gate.          *)
(*                                                                         *)
(* The state mutex and a slot's mutex are two locks.  A section under the  *)
(* state mutex is one step, but for release, which also takes the slot's   *)
(* mutex: there the waiter's own look at its slot can come in between.     *)
(***************************************************************************)
EXTENDS Naturals, Sequences

CONSTANTS Client,         \* the threads that use the gate
          MaxGenerations  \* bound on the generations handed out

VARIABLES gateOwner,       \* the generation of the current owner; 0 is none
          nextGeneration,
          waiters,         \* the clients whose wait slots are queued
          granted,         \* per client, the generation in its wait slot; 0 is none
          place,           \* per client, where it is in its call
          generation,      \* per client, the generation of its QvCommitOwner
          released,        \* per client, the released flag of its QvCommitOwner
          heir,            \* per client, the waiter to which it hands the gate
          latch            \* the client that holds the state mutex across steps, if any

gateVars == <<gateOwner, nextGeneration, waiters, granted, place, generation, released, heir,
              latch>>

GateTypeOK ==
    /\ gateOwner \in Nat
    /\ nextGeneration \in Nat \ {0}
    /\ waiters \in Seq(Client)
    /\ granted \in [Client -> Nat]
    /\ place \in [Client -> {"idle", "parked", "leaving", "claiming", "owner", "handing",
                             "dropping"}]
    /\ generation \in [Client -> Nat]
    /\ released \in [Client -> BOOLEAN]
    /\ heir \in [Client -> Client]
    /\ latch \subseteq Client

GateInit ==
    /\ gateOwner = 0 /\ nextGeneration = 1 /\ waiters = <<>>
    /\ granted = [c \in Client |-> 0]
    /\ place = [c \in Client |-> "idle"]
    /\ generation = [c \in Client |-> 0]
    /\ released = [c \in Client |-> TRUE]
    /\ heir = [c \in Client |-> c]
    /\ latch = {}

-----------------------------------------------------------------------------

\* The client returns from its call as the owner of a generation.
owner_for(c, g) ==
    /\ place' = [place EXCEPT ![c] = "owner"]
    /\ generation' = [generation EXCEPT ![c] = g]
    /\ released' = [released EXCEPT ![c] = FALSE]

\* Every caller that may still be granted a generation has one left.
Bounded == nextGeneration + Len(waiters) <= MaxGenerations

\* The free gate is taken.
own(c) ==
    /\ place[c] = "idle" /\ latch = {} /\ Bounded
    /\ gateOwner = 0 /\ waiters = <<>>
    /\ nextGeneration' = nextGeneration + 1
    /\ gateOwner' = nextGeneration
    /\ owner_for(c, nextGeneration)
    /\ UNCHANGED <<waiters, granted, heir, latch>>

\* The gate is not free: a wait slot is queued.  try_acquire returns None instead,
\* which changes nothing.
acquire_timeout(c) ==
    /\ place[c] = "idle" /\ latch = {} /\ Bounded
    /\ gateOwner # 0 \/ waiters # <<>>
    /\ waiters' = Append(waiters, c)
    /\ granted' = [granted EXCEPT ![c] = 0]
    /\ place' = [place EXCEPT ![c] = "parked"]
    /\ UNCHANGED <<gateOwner, nextGeneration, generation, released, heir, latch>>

\* The condition variable wakes the waiter, which finds its generation.
WakeGranted(c) ==
    /\ place[c] = "parked" /\ granted[c] # 0
    /\ owner_for(c, granted[c])
    /\ UNCHANGED <<gateOwner, nextGeneration, waiters, granted, heir, latch>>

\* The deadline passes and the slot is empty; its mutex is given up.
WaitTimesOut(c) ==
    /\ place[c] = "parked" /\ granted[c] = 0
    /\ place' = [place EXCEPT ![c] = "leaving"]
    /\ UNCHANGED <<gateOwner, nextGeneration, waiters, granted, generation, released, heir, latch>>

\* Faulty: a waiter that is no longer queued is not asked for its grant.
remove_waiter_discards(c) ==
    /\ place[c] = "leaving" /\ latch = {}
    /\ waiters' = SelectSeq(waiters, LAMBDA d : d # c)
    /\ place' = [place EXCEPT ![c] = "idle"]
    /\ UNCHANGED <<gateOwner, nextGeneration, granted, generation, released, heir, latch>>

\* A waiter that is still queued leaves the queue and its call without ownership.
\* Otherwise the releasing owner has taken it from the queue.
remove_waiter(c) ==
    /\ place[c] = "leaving" /\ latch = {}
    /\ IF \E i \in DOMAIN waiters : waiters[i] = c
       THEN /\ \E i \in DOMAIN waiters :
                 /\ waiters[i] = c
                 /\ waiters' = SubSeq(waiters, 1, i - 1) \o SubSeq(waiters, i + 1, Len(waiters))
            /\ place' = [place EXCEPT ![c] = "idle"]
       ELSE /\ place' = [place EXCEPT ![c] = "claiming"]
            /\ UNCHANGED waiters
    /\ UNCHANGED <<gateOwner, nextGeneration, granted, generation, released, heir, latch>>

\* The state mutex is released and the slot read again: what it holds is returned.
ClaimGrant(c) ==
    /\ place[c] = "claiming"
    /\ IF granted[c] # 0
       THEN owner_for(c, granted[c])
       ELSE /\ place' = [place EXCEPT ![c] = "idle"]
            /\ UNCHANGED <<generation, released>>
    /\ UNCHANGED <<gateOwner, nextGeneration, waiters, granted, heir, latch>>

\* The owner's generation is cleared.  With a waiter in the queue the next generation
\* is set for it at once, and the state mutex kept until it is in the waiter's slot.
release(c) ==
    IF gateOwner # generation[c]
    THEN /\ place' = [place EXCEPT ![c] = "dropping"]
         /\ UNCHANGED <<gateOwner, nextGeneration, waiters, heir, latch>>
    ELSE IF waiters = <<>>
    THEN /\ gateOwner' = 0
         /\ place' = [place EXCEPT ![c] = "dropping"]
         /\ UNCHANGED <<nextGeneration, waiters, heir, latch>>
    ELSE /\ gateOwner' = nextGeneration
         /\ nextGeneration' = nextGeneration + 1
         /\ heir' = [heir EXCEPT ![c] = Head(waiters)]
         /\ waiters' = Tail(waiters)
         /\ place' = [place EXCEPT ![c] = "handing"]
         /\ latch' = {c}

\* Faulty: the state mutex is dropped before the generation is in the slot.
release_once_unlatched(c) ==
    /\ place[c] = "owner" /\ ~released[c] /\ latch = {}
    /\ released' = [released EXCEPT ![c] = TRUE]
    /\ gateOwner' = IF waiters = <<>> THEN 0 ELSE nextGeneration
    /\ nextGeneration' = IF waiters = <<>> THEN nextGeneration ELSE nextGeneration + 1
    /\ heir' = IF waiters = <<>> THEN heir ELSE [heir EXCEPT ![c] = Head(waiters)]
    /\ waiters' = IF waiters = <<>> THEN waiters ELSE Tail(waiters)
    /\ place' = [place EXCEPT ![c] = IF waiters = <<>> THEN "dropping" ELSE "handing"]
    /\ UNCHANGED <<granted, generation, latch>>

\* Faulty: the youngest waiter is served.
release_once_lifo(c) ==
    /\ place[c] = "owner" /\ ~released[c] /\ latch = {}
    /\ released' = [released EXCEPT ![c] = TRUE]
    /\ IF waiters = <<>>
       THEN release(c)
       ELSE /\ gateOwner' = nextGeneration
            /\ nextGeneration' = nextGeneration + 1
            /\ heir' = [heir EXCEPT ![c] = waiters[Len(waiters)]]
            /\ waiters' = SubSeq(waiters, 1, Len(waiters) - 1)
            /\ place' = [place EXCEPT ![c] = "handing"]
            /\ latch' = {c}
    /\ UNCHANGED <<granted, generation>>

\* finish, an early return or an unwind: the owner releases, once.
release_once(c) ==
    /\ place[c] = "owner" /\ ~released[c] /\ latch = {}
    /\ released' = [released EXCEPT ![c] = TRUE]
    /\ release(c)
    /\ UNCHANGED <<granted, generation>>

\* The generation is stored in the slot of the waiter, which is notified.
HandOver(c) ==
    /\ place[c] = "handing"
    /\ granted' = [granted EXCEPT ![heir[c]] = gateOwner]
    /\ latch' = {}
    /\ place' = [place EXCEPT ![c] = "dropping"]
    /\ UNCHANGED <<gateOwner, nextGeneration, waiters, generation, released, heir>>

\* The released owner is dropped, which releases nothing more.
DropReleased(c) ==
    /\ place[c] = "dropping" /\ released[c]
    /\ place' = [place EXCEPT ![c] = "idle"]
    /\ UNCHANGED <<gateOwner, nextGeneration, waiters, granted, generation, released, heir, latch>>

GateStep(c) ==
    \/ own(c) \/ acquire_timeout(c) \/ WakeGranted(c) \/ WaitTimesOut(c) \/ remove_waiter(c)
    \/ ClaimGrant(c) \/ release_once(c) \/ HandOver(c) \/ DropReleased(c)

GateNext == \E c \in Client : GateStep(c)

GateSpec == GateInit /\ [][GateNext]_gateVars

-----------------------------------------------------------------------------
(* Properties.                                                             *)

\* A client that has the gate, whether it knows already or not.
Holds(c) ==
    \/ place[c] = "owner"
    \/ place[c] \in {"parked", "leaving", "claiming"} /\ granted[c] # 0
    \/ \E d \in Client : place[d] = "handing" /\ heir[d] = c

Lock == INSTANCE FifoLock WITH holder <- {c \in Client : Holds(c)}, line <- waiters

\* The gate is a lock that passes in order of arrival ("Waits in arrival order",
\* "no later caller can overtake it"), and every waiter gives up its place at most.
GateIsFifoLock == Lock!LockSpec

\* The owner's generation is that of a client which will release it: a handoff that
\* races a deadline is never lost, or the gate would stay shut for good ("A handoff
\* that already arrived is honoured, not discarded").
GateIsAnswered ==
    gateOwner # 0 =>
        \E c \in Client :
            /\ Holds(c)
            /\ place[c] = "owner" => generation[c] = gateOwner /\ ~released[c]
            /\ place[c] = "claiming" => granted[c] = gateOwner

=============================================================================
