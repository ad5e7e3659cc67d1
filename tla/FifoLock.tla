------------------------------ MODULE FifoLock ------------------------------
(***************************************************************************)
(* What the commit gate promises its callers: a lock with at most one      *)
(* holder that passes to those in line in the order in which they came.  A *)
(* caller in line may give up its place; nobody else can take it.          *)
(***************************************************************************)
EXTENDS Naturals, Sequences

CONSTANT Client

VARIABLES holder,  \* the clients that hold the lock: none or one
          line     \* the clients that wait for it, in order of arrival

lockVars == <<holder, line>>

LockInit == holder = {} /\ line = <<>>

\* A free lock is taken at once.
Take(c) ==
    /\ holder = {} /\ line = <<>>
    /\ holder' = {c}
    /\ UNCHANGED line

Join(c) ==
    /\ holder # {}
    /\ line' = Append(line, c)
    /\ UNCHANGED holder

\* A client leaves the line from whatever place it has.
Quit(c) ==
    /\ \E i \in DOMAIN line :
         /\ line[i] = c
         /\ line' = SubSeq(line, 1, i - 1) \o SubSeq(line, i + 1, Len(line))
    /\ UNCHANGED holder

\* The holder passes the lock to the head of the line, or leaves it free.
Pass(c) ==
    /\ holder = {c}
    /\ IF line = <<>>
       THEN holder' = {} /\ UNCHANGED line
       ELSE holder' = {Head(line)} /\ line' = Tail(line)

LockNext == \E c \in Client : Take(c) \/ Join(c) \/ Quit(c) \/ Pass(c)

LockSpec == LockInit /\ [][LockNext]_lockVars

=============================================================================
