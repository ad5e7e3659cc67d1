----------------------------- MODULE WriteProofs -----------------------------
(***************************************************************************)
(* The write path.                                                         *)
(*                                                                         *)
(* The commit gate is a first-come lock, whatever deadlines race its       *)
(* handoffs: for any clients and any number of generations QvGate          *)
(* implements FifoLock, and the current generation always belongs to a     *)
(* client that will release it.                                            *)
(*                                                                         *)
(* Mutation receipts, for any ids, clock readings and retention: no        *)
(* admission is applied twice, no sequence is given out twice, a committed *)
(* admission is never forgotten, and an applied receipt stays applied.     *)
(***************************************************************************)
EXTENDS QvGate, Receipts, SequenceTheorems, WellFoundedInduction, TLAPS

-----------------------------------------------------------------------------
(* The commit gate.                                                        *)

Queued(c) == \E i \in DOMAIN waiters : waiters[i] = c

\* The client is chosen, and its generation is on the way to its slot.
Heir(c) == \E d \in Client : place[d] = "handing" /\ heir[d] = c

Waits(c) == place[c] \in {"parked", "leaving"}

\* A client is queued at most once, and only while it waits with an empty slot.
LineOK ==
    /\ \A i, j \in DOMAIN waiters : waiters[i] = waiters[j] => i = j
    /\ \A c \in Client : Queued(c) => Waits(c) /\ granted[c] = 0 /\ ~Heir(c)

\* The state mutex is held exactly by a client that hands over, and its heir is still
\* waiting with an empty slot.
LatchOK ==
    /\ latch = {c \in Client : place[c] = "handing"}
    /\ \A c, d \in latch : c = d
    /\ \A c \in Client : Heir(c) => Waits(c) /\ granted[c] = 0

\* A waiter is queued, chosen or granted; one that found itself taken from the queue has
\* its grant.
SlotOK ==
    /\ \A c \in Client : Waits(c) => Queued(c) \/ Heir(c) \/ granted[c] # 0
    /\ \A c \in Client : place[c] = "claiming" => granted[c] # 0

\* The gate has a generation exactly when a client holds it, that client is the only one,
\* and it knows or will find the current generation.  Nobody queues for a free gate.
OwnerOK ==
    /\ \A c, d \in Client : Holds(c) /\ Holds(d) => c = d
    /\ gateOwner # 0 <=> \E c \in Client : Holds(c)
    /\ gateOwner = 0 => waiters = <<>>
    /\ \A c \in Client : place[c] = "owner" => generation[c] = gateOwner /\ ~released[c]
    /\ \A c \in Client :
         place[c] \in {"parked", "leaving", "claiming"} /\ granted[c] # 0 => granted[c] = gateOwner

GateInv == GateTypeOK /\ LineOK /\ LatchOK /\ SlotOK /\ OwnerOK

-----------------------------------------------------------------------------
(* Sequences.                                                              *)

\* A sequence without its i-th element.
Without(s, i) == SubSeq(s, 1, i - 1) \o SubSeq(s, i + 1, Len(s))

\* Taking an element out of a sequence leaves the others, in their order.
LEMMA WithoutProperties ==
    ASSUME NEW S, NEW s \in Seq(S), NEW i \in DOMAIN s
    PROVE  /\ Without(s, i) \in Seq(S)
           /\ Len(Without(s, i)) = Len(s) - 1
           /\ \A j \in 1 .. Len(s) - 1 :
                Without(s, i)[j] = IF j < i THEN s[j] ELSE s[j + 1]
<1> DEFINE a == SubSeq(s, 1, i - 1)
           b == SubSeq(s, i + 1, Len(s))
<1>1. Len(s) \in Nat /\ i \in 1 .. Len(s) /\ DOMAIN s = 1 .. Len(s)
  BY LenProperties, Zenon
<1>2. /\ a \in Seq(S) /\ Len(a) = i - 1
      /\ \A j \in 1 .. i - 1 : a[j] = s[j]
  <2>1. \A j \in 1 .. i - 1 : s[j] \in S
    BY <1>1, LenProperties
  <2> QED
    BY <2>1, <1>1, SubSeqProperties
<1>3. /\ b \in Seq(S) /\ Len(b) = Len(s) - i
      /\ \A j \in 1 .. Len(s) - i : b[j] = s[j + i]
  <2>1. \A j \in i + 1 .. Len(s) : s[j] \in S
    BY <1>1, LenProperties
  <2> QED
    BY <2>1, <1>1, SubSeqProperties
<1>4. /\ a \o b \in Seq(S) /\ Len(a \o b) = Len(a) + Len(b)
      /\ \A j \in 1 .. Len(a) + Len(b) :
           (a \o b)[j] = IF j <= Len(a) THEN a[j] ELSE b[j - Len(a)]
  BY <1>2, <1>3, ConcatProperties, Zenon
<1>5. Without(s, i) = a \o b
  BY Zenon DEF Without
<1> HIDE DEF a, b
<1>6. \A j \in 1 .. Len(s) - 1 : (a \o b)[j] = IF j < i THEN s[j] ELSE s[j + 1]
  <2> TAKE j \in 1 .. Len(s) - 1
  <2>1. CASE j < i
    BY <2>1, <1>1, <1>2, <1>3, <1>4
  <2>2. CASE ~(j < i)
    <3>1. j - Len(a) \in 1 .. Len(s) - i
      BY <2>2, <1>1, <1>2
    <3>2. b[j - Len(a)] = s[(j - Len(a)) + i]
      BY <3>1, <1>3, Zenon
    <3>3. (j - Len(a)) + i = j + 1
      BY <1>1, <1>2
    <3> QED
      BY <2>2, <3>2, <3>3, <1>1, <1>2, <1>3, <1>4, SMTT(60)
  <2> QED
    BY <2>1, <2>2, Zenon
<1>7. Len(a \o b) = Len(s) - 1
  BY <1>1, <1>2, <1>3, <1>4
<1> QED
  BY <1>4, <1>5, <1>6, <1>7, Zenon

-----------------------------------------------------------------------------
(* The initial state and the steps, one lemma for each action: it keeps    *)
(* the invariant, and is a step of the lock or leaves it alone.            *)

LEMMA GateInitOK == GateInit => GateInv /\ Lock!LockInit
<1> SUFFICES ASSUME GateInit
             PROVE  GateInv /\ Lock!LockInit
  BY Zenon
<1> USE DEF GateInit
<1>1. GateTypeOK
  BY DEF GateTypeOK
<1>2. \A c \in Client : ~Queued(c) /\ ~Heir(c) /\ ~Waits(c) /\ ~Holds(c)
  <2>1. DOMAIN <<>> = {}
    OBVIOUS
  <2> QED
    BY <2>1, Zenon DEF Queued, Heir, Waits, Holds
<1>3. LineOK /\ LatchOK /\ SlotOK /\ OwnerOK
  BY <1>2 DEF LineOK, LatchOK, SlotOK, OwnerOK
<1>4. Lock!LockInit
  BY <1>2, Zenon DEF Lock!LockInit
<1> QED
  BY <1>1, <1>3, <1>4, Zenon DEF GateInv

LEMMA OwnStep ==
    ASSUME GateInv, NEW c \in Client, own(c)
    PROVE  GateInv' /\ Lock!Take(c)
<1> USE DEF GateInv
<1>1. GateTypeOK'
  BY DEF GateTypeOK, own, owner_for
<1>2. /\ \A d \in Client : place'[d] = IF d = c THEN "owner" ELSE place[d]
      /\ generation'[c] = nextGeneration /\ ~released'[c] /\ nextGeneration \in Nat \ {0}
      /\ place[c] = "idle"
  BY Zenon DEF GateTypeOK, own, owner_for
<1>3. \A d \in Client : ~Holds(d)
  BY Zenon DEF OwnerOK, own
<1>4. \A d \in Client : ~Queued(d)' /\ ~Heir(d)' /\ ~Waits(d)'
  <2>1. \A d \in Client : ~Queued(d) /\ ~Heir(d)
    BY <1>3 DEF Queued, Heir, Holds, own
  <2>2. \A d \in Client : ~Waits(d)
    BY <1>3, <2>1, Zenon DEF SlotOK, Waits, Holds
  <2> QED
    BY <1>2, <2>1, <2>2, Zenon DEF Queued, Heir, Waits, own
<1>5. \A d \in Client : Holds(d)' <=> d = c
  BY <1>2, <1>3, <1>4, Zenon DEF Holds, Heir, own
<1>6. LineOK'
  BY <1>4, Zenon DEF LineOK, own
<1>7. LatchOK'
  BY <1>2, <1>4, Zenon DEF LatchOK, own
<1>8. SlotOK'
  BY <1>2, <1>4, Zenon DEF SlotOK, own
<1>9. OwnerOK'
  BY <1>2, <1>3, <1>5 DEF OwnerOK, Holds, own
<1>10. Lock!Take(c)
  BY <1>3, <1>5, Zenon DEF Lock!Take, own
<1> QED
  BY <1>1, <1>6, <1>7, <1>8, <1>9, <1>10, Zenon

LEMMA AcquireStep ==
    ASSUME GateInv, NEW c \in Client, acquire_timeout(c)
    PROVE  GateInv' /\ Lock!Join(c)
<1> USE DEF GateInv
<1>1. GateTypeOK'
  BY AppendProperties, Zenon DEF GateTypeOK, acquire_timeout
<1>2. /\ \A d \in Client : place'[d] = IF d = c THEN "parked" ELSE place[d]
      /\ \A d \in Client : granted'[d] = IF d = c THEN 0 ELSE granted[d]
      /\ place[c] = "idle" /\ gateOwner # 0
  BY Zenon DEF GateTypeOK, OwnerOK, acquire_timeout
<1>3. /\ waiters' = Append(waiters, c) /\ Len(waiters) \in Nat
      /\ DOMAIN waiters = 1 .. Len(waiters) /\ DOMAIN waiters' = 1 .. Len(waiters) + 1
      /\ \A i \in DOMAIN waiters : waiters'[i] = waiters[i]
      /\ waiters'[Len(waiters) + 1] = c
  BY <1>1, AppendProperties, LenProperties DEF GateTypeOK, acquire_timeout
<1>4. ~Queued(c) /\ ~Heir(c)
  BY <1>2, Zenon DEF LineOK, LatchOK, Waits
<1>5. \A d \in Client : /\ Queued(d)' <=> Queued(d) \/ d = c
                        /\ Heir(d)' <=> Heir(d)
                        /\ Waits(d)' <=> Waits(d) \/ d = c
  <2>1. \A d \in Client : Queued(d)' <=> Queued(d) \/ d = c
    BY <1>3 DEF Queued
  <2>2. \A d \in Client : Heir(d)' <=> Heir(d)
    BY <1>2 DEF Heir, acquire_timeout
  <2> QED
    BY <1>2, <2>1, <2>2, Zenon DEF Waits
<1>6. \A d \in Client : Holds(d)' <=> Holds(d)
  BY <1>2, <1>4, <1>5, Zenon DEF Holds, Heir
<1>7. LineOK'
  <2>1. \A i, j \in DOMAIN waiters' : waiters'[i] = waiters'[j] => i = j
    BY <1>3, <1>4 DEF LineOK, Queued
  <2>2. \A d \in Client : Queued(d)' => Waits(d)' /\ granted'[d] = 0 /\ ~Heir(d)'
    BY <1>2, <1>4, <1>5, Zenon DEF LineOK
  <2> QED
    BY <2>1, <2>2, Zenon DEF LineOK
<1>8. LatchOK'
  BY <1>2, <1>4, <1>5 DEF LatchOK, acquire_timeout
<1>9. SlotOK'
  BY <1>2, <1>5, Zenon DEF SlotOK
<1>10. OwnerOK'
  BY <1>2, <1>6 DEF OwnerOK, acquire_timeout
<1>11. Lock!Join(c)
  BY <1>2, <1>6, Zenon DEF Lock!Join, OwnerOK, acquire_timeout
<1> QED
  BY <1>1, <1>7, <1>8, <1>9, <1>10, <1>11, Zenon

\* A waiter that finds its generation, when it wakes or after its deadline, becomes the
\* owner that it already was to the lock.
LEMMA GrantStep ==
    ASSUME GateInv, NEW c \in Client, WakeGranted(c) \/ ClaimGrant(c)
    PROVE  GateInv' /\ UNCHANGED Lock!lockVars
<1> USE DEF GateInv
<1>1. /\ place[c] \in {"parked", "claiming"} /\ granted[c] # 0 /\ owner_for(c, granted[c])
      /\ UNCHANGED <<gateOwner, nextGeneration, waiters, granted, heir, latch>>
  BY Zenon DEF WakeGranted, ClaimGrant, SlotOK
<1>2. GateTypeOK'
  BY <1>1, Zenon DEF GateTypeOK, owner_for
<1>3. /\ \A d \in Client : place'[d] = IF d = c THEN "owner" ELSE place[d]
      /\ \A d \in Client : generation'[d] = IF d = c THEN granted[c] ELSE generation[d]
      /\ \A d \in Client : released'[d] <=> IF d = c THEN FALSE ELSE released[d]
      /\ granted[c] = gateOwner
  BY <1>1, Zenon DEF GateTypeOK, OwnerOK, owner_for
<1>4. ~Queued(c) /\ ~Heir(c)
  BY <1>1, Zenon DEF LineOK, LatchOK
<1>5. \A d \in Client : /\ Queued(d)' <=> Queued(d)
                        /\ Heir(d)' <=> Heir(d)
                        /\ Waits(d)' <=> Waits(d) /\ d # c
  BY <1>1, <1>3, Zenon DEF Queued, Heir, Waits
<1>6. \A d \in Client : Holds(d)' <=> Holds(d)
  BY <1>1, <1>3, <1>5 DEF Holds, Heir
<1>7. LineOK'
  BY <1>1, <1>4, <1>5, Zenon DEF LineOK
<1>8. LatchOK'
  BY <1>1, <1>3, <1>4, <1>5 DEF LatchOK
<1>9. SlotOK'
  BY <1>1, <1>3, <1>5, Zenon DEF SlotOK
<1>10. OwnerOK'
  BY <1>1, <1>3, <1>6, Zenon DEF OwnerOK
<1>11. UNCHANGED Lock!lockVars
  BY <1>1, <1>6, Zenon DEF Lock!lockVars
<1> QED
  BY <1>2, <1>7, <1>8, <1>9, <1>10, <1>11, Zenon

LEMMA TimeoutStep ==
    ASSUME GateInv, NEW c \in Client, WaitTimesOut(c)
    PROVE  GateInv' /\ UNCHANGED Lock!lockVars
<1> USE DEF GateInv
<1>1. GateTypeOK'
  BY Zenon DEF GateTypeOK, WaitTimesOut
<1>2. /\ \A d \in Client : place'[d] = IF d = c THEN "leaving" ELSE place[d]
      /\ place[c] = "parked" /\ granted[c] = 0
  BY Zenon DEF GateTypeOK, WaitTimesOut
<1>3. \A d \in Client : /\ Queued(d)' <=> Queued(d)
                        /\ Heir(d)' <=> Heir(d)
                        /\ Waits(d)' <=> Waits(d)
  BY <1>2 DEF Queued, Heir, Waits, WaitTimesOut
<1>4. \A d \in Client : Holds(d)' <=> Holds(d)
  BY <1>2, <1>3 DEF Holds, Heir, WaitTimesOut
<1>5. LineOK'
  BY <1>3, Zenon DEF LineOK, WaitTimesOut
<1>6. LatchOK'
  BY <1>2, <1>3 DEF LatchOK, WaitTimesOut
<1>7. SlotOK'
  BY <1>2, <1>3 DEF SlotOK, WaitTimesOut
<1>8. OwnerOK'
  BY <1>2, <1>4 DEF OwnerOK, WaitTimesOut
<1>9. UNCHANGED Lock!lockVars
  BY <1>4, Zenon DEF Lock!lockVars, WaitTimesOut
<1> QED
  BY <1>1, <1>5, <1>6, <1>7, <1>8, <1>9, Zenon

\* A waiter whose deadline passed leaves the line, unless it was taken from it: then its
\* generation is in its slot, since no handover is under way.
LEMMA RemoveStep ==
    ASSUME GateInv, NEW c \in Client, remove_waiter(c)
    PROVE  GateInv' /\ (Lock!Quit(c) \/ UNCHANGED Lock!lockVars)
<1> USE DEF GateInv
<1>1. /\ place[c] = "leaving" /\ latch = {}
      /\ UNCHANGED <<gateOwner, nextGeneration, granted, generation, released, heir, latch>>
  BY Zenon DEF remove_waiter
<1>2. \A d \in Client : ~Heir(d) /\ place[d] # "handing"
  BY <1>1, Zenon DEF LatchOK, Heir
<1>3. CASE Queued(c)
  <2>1. PICK i \in DOMAIN waiters : waiters[i] = c /\ waiters' = Without(waiters, i)
    BY <1>3, Zenon DEF remove_waiter, Queued, Without
  <2>2. /\ \A d \in Client : place'[d] = IF d = c THEN "idle" ELSE place[d]
        /\ place' = [place EXCEPT ![c] = "idle"] /\ granted[c] = 0
    BY <1>3, Zenon DEF remove_waiter, Queued, GateTypeOK, LineOK
  <2>3. /\ waiters' \in Seq(Client) /\ Len(waiters) \in Nat /\ i \in 1 .. Len(waiters)
        /\ DOMAIN waiters = 1 .. Len(waiters) /\ DOMAIN waiters' = 1 .. Len(waiters) - 1
        /\ \A j \in 1 .. Len(waiters) - 1 :
             waiters'[j] = IF j < i THEN waiters[j] ELSE waiters[j + 1]
    <3>1. waiters \in Seq(Client)
      BY Zenon DEF GateTypeOK
    <3>2. /\ waiters' \in Seq(Client) /\ Len(waiters') = Len(waiters) - 1
          /\ \A j \in 1 .. Len(waiters) - 1 :
               waiters'[j] = IF j < i THEN waiters[j] ELSE waiters[j + 1]
      BY <2>1, <3>1, WithoutProperties, Zenon
    <3> QED
      BY <3>1, <3>2, LenProperties, Zenon
  <2>4. GateTypeOK'
    BY <1>1, <2>2, <2>3, Zenon DEF GateTypeOK
  <2>5. \A d \in Client : Queued(d)' <=> Queued(d) /\ d # c
    <3> TAKE d \in Client
    <3>1. ASSUME Queued(d)' PROVE Queued(d) /\ d # c
      <4>1. PICK j \in 1 .. Len(waiters) - 1 : waiters'[j] = d
        BY <3>1, <2>3, Zenon DEF Queued
      <4>2. CASE j < i
        BY <4>1, <4>2, <2>1, <2>3 DEF Queued, LineOK
      <4>3. CASE ~(j < i)
        <5>1. waiters[j + 1] = d /\ j + 1 \in DOMAIN waiters /\ j + 1 # i
          BY <4>1, <4>3, <2>3
        <5> QED
          BY <5>1, <2>1, Zenon DEF Queued, LineOK
      <4> QED
        BY <4>2, <4>3, Zenon
    <3>2. ASSUME Queued(d), d # c PROVE Queued(d)'
      <4>1. PICK j \in DOMAIN waiters : waiters[j] = d
        BY <3>2, Zenon DEF Queued
      <4>2. CASE j < i
        <5>1. j \in DOMAIN waiters' /\ waiters'[j] = d
          BY <4>1, <4>2, <2>3
        <5> QED
          BY <5>1, Zenon DEF Queued
      <4>3. CASE j > i
        <5>1. j - 1 \in DOMAIN waiters' /\ ~(j - 1 < i) /\ (j - 1) + 1 = j
          BY <4>1, <4>3, <2>3
        <5>2. waiters'[j - 1] = d
          BY <5>1, <4>1, <2>3, Zenon
        <5> QED
          BY <5>1, <5>2, Zenon DEF Queued
      <4>4. j # i
        BY <3>2, <4>1, <2>1, Zenon
      <4> QED
        BY <4>2, <4>3, <4>4, <2>3
    <3> QED
      BY <3>1, <3>2, Zenon
  <2>6. \A d \in Client : ~Heir(d)' /\ (Waits(d)' <=> Waits(d) /\ d # c)
    BY <1>1, <1>2, <2>2 DEF Heir, Waits
  <2>7. \A d \in Client : Holds(d)' <=> Holds(d)
    BY <1>1, <1>2, <2>2, <2>6 DEF Holds, Heir
  <2>8. LineOK'
    <3>1. \A j, k \in DOMAIN waiters' : waiters'[j] = waiters'[k] => j = k
      <4> SUFFICES ASSUME NEW j \in DOMAIN waiters', NEW k \in DOMAIN waiters',
                          waiters'[j] = waiters'[k]
                   PROVE  j = k
        BY Zenon
      <4> DEFINE at(m) == IF m < i THEN m ELSE m + 1
      <4>1. at(j) \in DOMAIN waiters /\ at(k) \in DOMAIN waiters
        BY <2>3
      <4>2. waiters[at(j)] = waiters[at(k)]
        BY <2>3, Zenon
      <4>3. at(j) = at(k)
        BY <4>1, <4>2, Zenon DEF LineOK
      <4> QED
        BY <4>3, <2>3
    <3>2. \A d \in Client : Queued(d)' => Waits(d)' /\ granted'[d] = 0 /\ ~Heir(d)'
      BY <1>1, <2>5, <2>6, Zenon DEF LineOK
    <3> QED
      BY <3>1, <3>2, Zenon DEF LineOK
  <2>9. LatchOK'
    BY <1>1, <1>2, <2>2, <2>6 DEF LatchOK
  <2>10. SlotOK'
    BY <1>1, <1>2, <2>2, <2>5, <2>6 DEF SlotOK
  <2>11. OwnerOK'
    <3>1. waiters # <<>>
      BY <2>1, <2>3
    <3> QED
      BY <1>1, <2>2, <2>7, <3>1 DEF OwnerOK
  <2>12. Lock!Quit(c)
    <3>1. UNCHANGED {d \in Client : Holds(d)}
      BY <2>7, Zenon
    <3> QED
      BY <2>1, <3>1, Zenon DEF Lock!Quit, Without
  <2> QED
    BY <2>4, <2>8, <2>9, <2>10, <2>11, <2>12, Zenon
<1>4. CASE ~Queued(c)
  <2>1. /\ \A d \in Client : place'[d] = IF d = c THEN "claiming" ELSE place[d]
        /\ place' = [place EXCEPT ![c] = "claiming"] /\ waiters' = waiters
    BY <1>4, Zenon DEF remove_waiter, Queued, GateTypeOK
  <2>2. granted[c] # 0
    BY <1>1, <1>2, <1>4, Zenon DEF SlotOK, Waits
  <2>3. GateTypeOK'
    BY <1>1, <2>1, Zenon DEF GateTypeOK
  <2>4. \A d \in Client : ~Heir(d)' /\ (Waits(d)' <=> Waits(d) /\ d # c) /\ (Queued(d)' <=> Queued(d))
    BY <1>1, <1>2, <2>1 DEF Heir, Waits, Queued
  <2>5. \A d \in Client : Holds(d)' <=> Holds(d)
    BY <1>1, <1>2, <2>1, <2>4 DEF Holds, Heir
  <2>6. LineOK'
    BY <1>1, <1>4, <2>1, <2>4, Zenon DEF LineOK
  <2>7. LatchOK'
    BY <1>1, <1>2, <2>1, <2>4 DEF LatchOK
  <2>8. SlotOK'
    BY <1>1, <1>2, <2>1, <2>2, <2>4, Zenon DEF SlotOK
  <2>9. OwnerOK'
    BY <1>1, <2>1, <2>5 DEF OwnerOK
  <2>10. UNCHANGED Lock!lockVars
    BY <2>1, <2>5, Zenon DEF Lock!lockVars
  <2> QED
    BY <2>3, <2>6, <2>7, <2>8, <2>9, <2>10, Zenon
<1> QED
  BY <1>3, <1>4, Zenon

\* The owner passes the gate to the head of the line, or leaves it free.
LEMMA ReleaseStep ==
    ASSUME GateInv, NEW c \in Client, release_once(c)
    PROVE  GateInv' /\ Lock!Pass(c)
<1> USE DEF GateInv
<1>1. /\ place[c] = "owner" /\ latch = {} /\ release(c) /\ gateOwner = generation[c]
      /\ UNCHANGED <<granted, generation>>
      /\ released' = [released EXCEPT ![c] = TRUE]
  BY Zenon DEF release_once, OwnerOK
<1>2. \A d \in Client : ~Heir(d) /\ place[d] # "handing"
  BY <1>1, Zenon DEF LatchOK, Heir
<1>3. /\ Holds(c) /\ gateOwner # 0 /\ ~Queued(c)
      /\ \A d \in Client : Holds(d) <=> d = c
  BY <1>1, Zenon DEF Holds, OwnerOK, LineOK, Waits
<1>4. \A d \in Client : place[d] \in {"parked", "leaving", "claiming"} => granted[d] = 0
  BY <1>1, <1>3, Zenon DEF Holds
<1>5. CASE waiters = <<>>
  <2>1. /\ gateOwner' = 0 /\ place' = [place EXCEPT ![c] = "dropping"]
        /\ \A d \in Client : place'[d] = IF d = c THEN "dropping" ELSE place[d]
        /\ UNCHANGED <<nextGeneration, waiters, heir, latch>>
    BY <1>1, <1>5, Zenon DEF release, GateTypeOK
  <2>2. GateTypeOK'
    BY <1>1, <2>1, Zenon DEF GateTypeOK
  <2>3. \A d \in Client : ~Heir(d)' /\ (Waits(d)' <=> Waits(d)) /\ ~Queued(d)'
    BY <1>1, <1>2, <1>5, <2>1 DEF Heir, Waits, Queued
  <2>4. \A d \in Client : ~Holds(d)'
    BY <1>1, <1>3, <1>4, <2>1, <2>3 DEF Holds, Heir
  <2>5. LineOK'
    BY <1>5, <2>1, <2>3, Zenon DEF LineOK
  <2>6. LatchOK'
    BY <1>1, <1>2, <2>1, <2>3 DEF LatchOK
  <2>7. SlotOK'
    <3>1. \A d \in Client : ~Queued(d)
      <4>1. DOMAIN <<>> = {}
        OBVIOUS
      <4> QED
        BY <1>5, <4>1, Zenon DEF Queued
    <3>2. \A d \in Client : ~Waits(d)
      BY <1>2, <1>4, <3>1, Zenon DEF SlotOK, Waits
    <3> QED
      BY <1>1, <2>1, <2>3, <3>2 DEF SlotOK
  <2>8. OwnerOK'
    BY <1>1, <1>3, <1>4, <1>5, <2>1, <2>4, Zenon DEF OwnerOK, Holds
  <2>9. Lock!Pass(c)
    <3>1. {d \in Client : Holds(d)} = {c} /\ {d \in Client : Holds(d)}' = {}
      BY <1>3, <2>4, Zenon
    <3> QED
      BY <1>5, <2>1, <3>1, Zenon DEF Lock!Pass
  <2> QED
    BY <2>2, <2>5, <2>6, <2>7, <2>8, <2>9, Zenon
<1>6. CASE waiters # <<>>
  <2> DEFINE h == Head(waiters)
  <2>1. /\ gateOwner' = nextGeneration /\ nextGeneration' = nextGeneration + 1
        /\ heir' = [heir EXCEPT ![c] = h] /\ waiters' = Tail(waiters)
        /\ place' = [place EXCEPT ![c] = "handing"] /\ latch' = {c}
    BY <1>1, <1>6, Zenon DEF release
  <2>2. /\ \A d \in Client : place'[d] = IF d = c THEN "handing" ELSE place[d]
        /\ heir'[c] = h /\ nextGeneration \in Nat \ {0}
    BY <2>1, Zenon DEF GateTypeOK
  <2>3. /\ h \in Client /\ h = waiters[1] /\ waiters' \in Seq(Client) /\ Len(waiters) \in Nat \ {0}
        /\ DOMAIN waiters = 1 .. Len(waiters) /\ DOMAIN waiters' = 1 .. Len(waiters) - 1
        /\ \A i \in 1 .. Len(waiters) - 1 : waiters'[i] = waiters[i + 1]
    <3>1. waiters \in Seq(Client)
      BY Zenon DEF GateTypeOK
    <3>2. /\ h \in Client /\ waiters' \in Seq(Client) /\ Len(waiters') = Len(waiters) - 1
          /\ \A i \in 1 .. Len(waiters') : waiters'[i] = waiters[i + 1]
      BY <2>1, <3>1, <1>6, HeadTailProperties, Zenon
    <3>3. h = waiters[1] /\ Len(waiters) # 0
      BY <3>1, <1>6
    <3> QED
      BY <3>1, <3>2, <3>3, LenProperties, Zenon
  <2> HIDE DEF h
  <2>4. GateTypeOK'
    BY <1>1, <2>1, <2>3, SMTT(30) DEF GateTypeOK
  <2>5. Queued(h) /\ Waits(h) /\ granted[h] = 0 /\ h # c
    <3>1. Queued(h)
      BY <2>3 DEF Queued
    <3> QED
      BY <1>3, <2>3, <3>1, Zenon DEF LineOK
  <2>6. \A d \in Client : Queued(d)' <=> Queued(d) /\ d # h
    <3> TAKE d \in Client
    <3>1. ASSUME Queued(d)' PROVE Queued(d) /\ d # h
      <4>1. PICK j \in 1 .. Len(waiters) - 1 : waiters'[j] = d
        BY <3>1, <2>3, Zenon DEF Queued
      <4>2. waiters[j + 1] = d /\ j + 1 \in DOMAIN waiters /\ j + 1 # 1 /\ 1 \in DOMAIN waiters
        BY <4>1, <2>3
      <4> QED
        BY <4>2, <2>3, Zenon DEF Queued, LineOK
    <3>2. ASSUME Queued(d), d # h PROVE Queued(d)'
      <4>1. PICK j \in DOMAIN waiters : waiters[j] = d
        BY <3>2, Zenon DEF Queued
      <4>2. j - 1 \in DOMAIN waiters' /\ (j - 1) + 1 = j
        BY <3>2, <4>1, <2>3
      <4>3. waiters'[j - 1] = d
        BY <4>1, <4>2, <2>3, Zenon
      <4> QED
        BY <4>2, <4>3, Zenon DEF Queued
    <3> QED
      BY <3>1, <3>2, Zenon
  <2>7. \A d \in Client : (Heir(d)' <=> d = h) /\ (Waits(d)' <=> Waits(d))
    BY <1>1, <1>2, <2>2, <2>3 DEF Heir, Waits
  <2>8. \A d \in Client : Holds(d)' <=> d = h
    BY <1>1, <1>3, <1>4, <2>2, <2>7, Zenon DEF Holds, Heir
  <2>9. LineOK'
    <3>1. \A j, k \in DOMAIN waiters' : waiters'[j] = waiters'[k] => j = k
      <4> SUFFICES ASSUME NEW j \in DOMAIN waiters', NEW k \in DOMAIN waiters',
                          waiters'[j] = waiters'[k]
                   PROVE  j = k
        BY Zenon
      <4>1. j + 1 \in DOMAIN waiters /\ k + 1 \in DOMAIN waiters
        BY <2>3
      <4>2. waiters[j + 1] = waiters[k + 1]
        BY <2>3, Zenon
      <4>3. j + 1 = k + 1
        BY <4>1, <4>2, Zenon DEF LineOK
      <4> QED
        BY <4>3, <2>3
    <3>2. \A d \in Client : Queued(d)' => Waits(d)' /\ granted'[d] = 0 /\ ~Heir(d)'
      BY <1>1, <2>6, <2>7, Zenon DEF LineOK
    <3> QED
      BY <3>1, <3>2, Zenon DEF LineOK
  <2>10. LatchOK'
    BY <1>1, <1>2, <2>1, <2>2, <2>5, <2>7 DEF LatchOK
  <2>11. SlotOK'
    BY <1>1, <1>2, <2>2, <2>6, <2>7, Zenon DEF SlotOK
  <2>12. OwnerOK'
    BY <1>1, <1>3, <1>4, <2>1, <2>2, <2>3, <2>8 DEF OwnerOK, Holds
  <2>13. Lock!Pass(c)
    <3>1. {d \in Client : Holds(d)} = {c} /\ {d \in Client : Holds(d)}' = {h}
      BY <1>3, <2>3, <2>8, Zenon
    <3> QED
      BY <1>6, <2>1, <3>1, Zenon DEF Lock!Pass, h
  <2> QED
    BY <2>4, <2>9, <2>10, <2>11, <2>12, <2>13, Zenon
<1> QED
  BY <1>5, <1>6, Zenon

\* The heir's slot gets the generation that was set for it.
LEMMA HandOverStep ==
    ASSUME GateInv, NEW c \in Client, HandOver(c)
    PROVE  GateInv' /\ UNCHANGED Lock!lockVars
<1> USE DEF GateInv
<1> DEFINE h == heir[c]
<1>1. /\ place[c] = "handing" /\ latch' = {} /\ h \in Client
      /\ \A d \in Client : granted'[d] = IF d = h THEN gateOwner ELSE granted[d]
      /\ \A d \in Client : place'[d] = IF d = c THEN "dropping" ELSE place[d]
      /\ UNCHANGED <<gateOwner, nextGeneration, waiters, generation, released, heir>>
  BY Zenon DEF HandOver, GateTypeOK
<1>2. /\ \A d \in Client : place[d] = "handing" <=> d = c
      /\ \A d \in Client : Heir(d) <=> d = h
      /\ Waits(h) /\ granted[h] = 0 /\ ~Queued(h)
  BY <1>1 DEF LatchOK, LineOK, Heir
<1>3. gateOwner # 0 /\ gateOwner \in Nat
  BY <1>1, <1>2, Zenon DEF OwnerOK, Holds, Heir, GateTypeOK
<1>4. GateTypeOK'
  BY <1>1, Zenon DEF GateTypeOK, HandOver
<1> HIDE DEF h
<1>5. \A d \in Client : ~Heir(d)' /\ (Waits(d)' <=> Waits(d)) /\ (Queued(d)' <=> Queued(d))
  BY <1>1, <1>2, Zenon DEF Heir, Waits, Queued
<1>6. \A d \in Client : Holds(d)' <=> Holds(d)
  BY <1>1, <1>2, <1>3, <1>5 DEF Holds, Heir, Waits
<1>7. LineOK'
  BY <1>1, <1>2, <1>5, Zenon DEF LineOK
<1>8. LatchOK'
  BY <1>1, <1>2, <1>5, ZenonT(30) DEF LatchOK
<1>9. SlotOK'
  BY <1>1, <1>2, <1>3, <1>5, Zenon DEF SlotOK
<1>10. OwnerOK'
  BY <1>1, <1>3, <1>6, Zenon DEF OwnerOK
<1>11. UNCHANGED Lock!lockVars
  BY <1>1, <1>6, Zenon DEF Lock!lockVars
<1> QED
  BY <1>4, <1>7, <1>8, <1>9, <1>10, <1>11, Zenon

\* A released owner that is dropped leaves the gate as it is.
LEMMA DropStep ==
    ASSUME GateInv, NEW c \in Client, DropReleased(c)
    PROVE  GateInv' /\ UNCHANGED Lock!lockVars
<1> USE DEF GateInv
<1>1. /\ place[c] = "dropping"
      /\ \A d \in Client : place'[d] = IF d = c THEN "idle" ELSE place[d]
      /\ UNCHANGED <<gateOwner, nextGeneration, waiters, granted, generation, released, heir, latch>>
  BY Zenon DEF DropReleased, GateTypeOK
<1>2. GateTypeOK'
  BY <1>1, Zenon DEF GateTypeOK, DropReleased
<1>3. \A d \in Client : /\ Heir(d)' <=> Heir(d)
                        /\ Waits(d)' <=> Waits(d)
                        /\ Queued(d)' <=> Queued(d)
  BY <1>1, Zenon DEF Heir, Waits, Queued
<1>4. \A d \in Client : Holds(d)' <=> Holds(d)
  BY <1>1, <1>3, Zenon DEF Holds, Heir
<1>5. LineOK' /\ LatchOK' /\ SlotOK' /\ OwnerOK'
  BY <1>1, <1>3, <1>4 DEF LineOK, LatchOK, SlotOK, OwnerOK
<1>6. UNCHANGED Lock!lockVars
  BY <1>1, <1>4, Zenon DEF Lock!lockVars
<1> QED
  BY <1>2, <1>5, <1>6, Zenon

-----------------------------------------------------------------------------
(* The gate.                                                               *)

\* A step that changes nothing keeps the invariant and the lock.
LEMMA StutterStep ==
    ASSUME GateInv, UNCHANGED gateVars
    PROVE  GateInv' /\ UNCHANGED Lock!lockVars
<1>1. UNCHANGED <<gateOwner, nextGeneration, waiters, granted, place, generation, released, heir,
                  latch>>
  BY Zenon DEF gateVars
<1>2. \A d \in Client : /\ Heir(d)' <=> Heir(d)
                        /\ Waits(d)' <=> Waits(d)
                        /\ Queued(d)' <=> Queued(d)
                        /\ Holds(d)' <=> Holds(d)
  BY <1>1, Zenon DEF Heir, Waits, Queued, Holds
<1> QED
  BY <1>1, <1>2, Zenon DEF GateInv, GateTypeOK, LineOK, LatchOK, SlotOK, OwnerOK, Lock!lockVars

\* Every step of the gate keeps the invariant, and is a step of the lock or none of it.
LEMMA GateSteps ==
    ASSUME GateInv, [GateNext]_gateVars
    PROVE  GateInv' /\ [Lock!LockNext]_(Lock!lockVars)
<1>1. CASE UNCHANGED gateVars
  BY <1>1, StutterStep, Zenon
<1>2. ASSUME NEW c \in Client, GateStep(c)
      PROVE  GateInv' /\ [Lock!LockNext]_(Lock!lockVars)
  <2>1. CASE own(c)
    BY <2>1, OwnStep, Zenon DEF Lock!LockNext
  <2>2. CASE acquire_timeout(c)
    BY <2>2, AcquireStep, Zenon DEF Lock!LockNext
  <2>3. CASE WakeGranted(c) \/ ClaimGrant(c)
    BY <2>3, GrantStep, Zenon
  <2>4. CASE WaitTimesOut(c)
    BY <2>4, TimeoutStep, Zenon
  <2>5. CASE remove_waiter(c)
    BY <2>5, RemoveStep, Zenon DEF Lock!LockNext
  <2>6. CASE release_once(c)
    BY <2>6, ReleaseStep, Zenon DEF Lock!LockNext
  <2>7. CASE HandOver(c)
    BY <2>7, HandOverStep, Zenon
  <2>8. CASE DropReleased(c)
    BY <2>8, DropStep, Zenon
  <2> QED
    BY <1>2, <2>1, <2>2, <2>3, <2>4, <2>5, <2>6, <2>7, <2>8, Zenon DEF GateStep
<1> QED
  BY <1>1, <1>2, Zenon DEF GateNext

\* The shared state of the gate and what its callers believe stay in step: at most one
\* client has the gate, whether it knows already or not, and no client is left behind
\* without a place in the queue, a handoff on the way or a grant.
THEOREM GateInvariance == GateSpec => []GateInv
<1>1. GateInit => GateInv
  BY GateInitOK, Zenon
<1>2. GateInv /\ [GateNext]_gateVars => GateInv'
  BY GateSteps, Zenon
<1> QED
  BY <1>1, <1>2, PTL DEF GateSpec

\* A generation of the gate belongs to a client that will release it: no handoff that
\* races a deadline is lost.
THEOREM GateAnswered == GateSpec => []GateIsAnswered
<1>1. GateInv => GateIsAnswered
  <2> SUFFICES ASSUME GateInv, gateOwner # 0
               PROVE  \E c \in Client :
                        /\ Holds(c)
                        /\ place[c] = "owner" => generation[c] = gateOwner /\ ~released[c]
                        /\ place[c] = "claiming" => granted[c] = gateOwner
    BY Zenon DEF GateIsAnswered
  <2>1. PICK c \in Client : Holds(c)
    BY Zenon DEF GateInv, OwnerOK
  <2> QED
    BY <2>1, Zenon DEF GateInv, OwnerOK, SlotOK
<1> QED
  BY <1>1, GateInvariance, PTL

\* The gate is a lock that passes in order of arrival, for any clients: every step of the
\* gate is a step of FifoLock or leaves the holder and the line alone.
THEOREM GateRefinesLock == GateSpec => GateIsFifoLock
<1>1. GateInit => Lock!LockInit
  BY Zenon DEF GateInit, Lock!LockInit, Holds
<1>2. GateInv /\ [GateNext]_gateVars => [Lock!LockNext]_(Lock!lockVars)
  BY GateSteps, Zenon
<1> QED
  BY <1>1, <1>2, GateInvariance, PTL DEF GateSpec, GateIsFifoLock, Lock!LockSpec

-----------------------------------------------------------------------------
(* The receipts.                                                           *)

Staged(id) == staging[id] # NoBatch

\* The sequence that the staged batch of an id writes.
StagedSeq(id) == staging[id].receipt.sequence

\* What is stored, staged or read for a settlement has a sequence that was given out, and
\* only an applied receipt is settled.
RowsOK ==
  /\ expired < receiptNext
  /\ \A id \in MutationId :
       /\ Stored(id) => receipts[id].source # "none" /\ receipts[id].sequence \in 1..receiptNext - 1
                        /\ receipts[id].time \in Instant
       /\ Staged(id) => /\ staging[id].receipt.source # "none"
                        /\ staging[id].receipt.time \in Instant
                        /\ StagedSeq(id) \in 1..receiptNext - 1
       /\ settling[id] # NoReceipt => settling[id].source = "Applied" /\ settling[id].sequence # 0

\* The admissions are known: a sequence belongs to one id, a stored receipt is the latest
\* admission of its id, and the sequence of an admission without receipt has expired.
AdmitOK ==
  /\ \A id \in MutationId : Stored(id) => <<id, receipts[id].sequence>> \in admitted
  /\ \A a \in admitted : /\ a[2] < receiptNext
                         /\ a[2] <= expired \/ receipts[a[1]].sequence = a[2]
                         /\ Stored(a[1]) => a[2] <= receipts[a[1]].sequence
  /\ \A a, b \in admitted : a[2] = b[2] => a = b
  /\ \A m \in mappings : <<m.id, m.sequence>> \in admitted

\* A staged batch writes a sequence of its own that was never applied; the receipt it
\* replaces, if it is still there, is the same admission, prepared.
StageOK ==
  \A id \in MutationId : Staged(id) =>
    /\ Stored(id) => receipts[id].sequence = StagedSeq(id) /\ receipts[id].source = "Prepared"
    /\ \A a \in admitted : /\ a[2] = StagedSeq(id) => a[1] = id
                           /\ a[1] = id => a[2] <= StagedSeq(id)
    /\ \A i \in MutationId : Staged(i) /\ StagedSeq(i) = StagedSeq(id) => i = id
    /\ applications[StagedSeq(id)] = 0

\* A prepared receipt was not applied, and nothing is applied that was not admitted.
OnceOK ==
  /\ \A id \in MutationId :
       receipts[id].source = "Prepared" => applications[receipts[id].sequence] = 0
  /\ \A s \in 1..MaxAdmissions :
       applications[s] <= 1 /\ (applications[s] # 0 => \E a \in admitted : a[2] = s)

ReceiptInv == ReceiptTypeOK /\ RowsOK /\ AdmitOK /\ StageOK /\ OnceOK /\ OrderIsExact

-----------------------------------------------------------------------------
(* Naturals.                                                               *)

\* A nonempty set of naturals has a least element.
LEMMA HasMin ==
    ASSUME NEW T, T \subseteq Nat, T # {}
    PROVE  \E x \in T : \A y \in T : x <= y
<1> DEFINE R == {ss \in Nat \X Nat : ss[1] < ss[2]}
<1>1. IsWellFoundedOn(R, Nat)
  BY NatLessThanWellFounded, Zenon DEF OpToRel
<1>2. \E x \in T : \A y \in T : ~ (<<y, x>> \in R)
  <2> HIDE DEF R
  <2> QED BY <1>1, WFMin, Zenon
<1>3. PICK x \in T : \A y \in T : ~ (<<y, x>> \in R)
  BY <1>2, Zenon
<1>4. \A y \in T : ~ (y < x)
  <2> TAKE y \in T
  <2>1. <<y, x>> \in Nat \X Nat /\ <<y, x>>[1] = y /\ <<y, x>>[2] = x
    BY Zenon
  <2> QED
    BY <1>3, <2>1, Zenon
<1> QED
  BY <1>3, <1>4

\* The largest of a bounded set of naturals.
LEMMA MaxProperties ==
    ASSUME NEW S, S \subseteq Nat, S # {}, NEW n \in Nat, \A x \in S : x <= n
    PROVE  Max(S) \in S /\ \A x \in S : x <= Max(S)
<1> DEFINE U == {u \in Nat : \A x \in S : x <= u}
<1>1. PICK u \in U : \A v \in U : u <= v
  <2>1. n \in U
    BY Zenon
  <2>2. U \subseteq Nat /\ U # {}
    BY <2>1, Zenon
  <2> HIDE DEF U
  <2> QED
    BY <2>2, HasMin, Zenon
<1>2. u \in S
  <2> SUFFICES ASSUME u \notin S PROVE FALSE
    BY Zenon
  <2>1. \A x \in S : x < u
    OBVIOUS
  <2>2. u > 0
    <3>1. PICK x \in S : TRUE
      BY Zenon
    <3> QED
      BY <2>1, <3>1
  <2>3. u - 1 \in U
    BY <2>1, <2>2
  <2> QED
    BY <1>1, <2>3
<1> QED
  BY <1>1, <1>2, Zenon DEF Max

\* The constants, one by one.
LEMMA Bounds == /\ MaxAdmissions \in Nat \ {0} /\ Retention \in Nat \ {0} /\ TrimRows \in Nat \ {0}
                /\ MutationId \subseteq Nat /\ Instant \subseteq Nat
BY ReceiptsAssumption, Zenon

-----------------------------------------------------------------------------
(* The steps.                                                              *)

LEMMA InitOK == ReceiptInit => ReceiptInv
<1> SUFFICES ASSUME ReceiptInit PROVE ReceiptInv
  BY Zenon
<1> USE Bounds DEF ReceiptInit
<1>1. NoReceipt \in Receipt /\ NoBatch \in [receipt : Receipt, mapping : BOOLEAN]
  BY DEF NoReceipt, NoBatch, Receipt
<1>2. ReceiptTypeOK
  BY <1>1 DEF ReceiptTypeOK
<1>3. \A id \in MutationId : ~Stored(id) /\ ~Staged(id) /\ receipts[id].source = "none"
  BY Zenon DEF Stored, Staged, NoReceipt
<1>4. RowsOK /\ AdmitOK /\ StageOK /\ OnceOK
  <2>1. expired < receiptNext /\ \A s \in 1..MaxAdmissions : applications[s] = 0
    BY SMT
  <2>2. \A id \in MutationId : settling[id] = NoReceipt
    BY Zenon
  <2>3. RowsOK
    BY <1>3, <2>1, <2>2, Zenon DEF RowsOK
  <2>4. AdmitOK
    BY <1>3, Zenon DEF AdmitOK
  <2>5. StageOK
    BY <1>3, Zenon DEF StageOK
  <2>6. \A id \in MutationId : receipts[id].source # "Prepared"
    BY <1>3, SMT
  <2>7. \A s \in 1..MaxAdmissions : applications[s] <= 1 /\ ~(applications[s] # 0)
    <3> HIDE DEF ReceiptInit
    <3> QED BY <2>1, SMT
  <2>8. OnceOK
    BY <2>6, <2>7, Zenon DEF OnceOK
  <2> QED
    BY <2>3, <2>4, <2>5, <2>8, Zenon
<1>5. OrderIsExact
  BY <1>3, Zenon DEF OrderIsExact
<1> QED
  BY <1>2, <1>4, <1>5, Zenon DEF ReceiptInv

\* The receipt of a batch is the one it was built with.
LEMMA BatchReceipt ==
    ASSUME NEW receipt, NEW mapping
    PROVE  [receipt |-> receipt, mapping |-> mapping].receipt = receipt
  BY SMT

\* A fresh sequence is staged: nothing that is stored, staged or admitted has it.
LEMMA StageStep ==
    ASSUME ReceiptInv, NEW id \in MutationId, NEW source \in {"Prepared", "Applied"},
           NEW time \in Instant, NEW mapped \in BOOLEAN,
           stage_receipt(id, source, time, mapped)
    PROVE  ReceiptInv'
<1> USE Bounds DEF ReceiptInv
<1> DEFINE fresh == [sequence |-> receiptNext, source |-> source, event |-> 0, time |-> time]
<1>1. /\ ~Staged(id) /\ ~Stored(id) /\ receiptNext \in 1..MaxAdmissions
      /\ receiptNext' = receiptNext + 1
      /\ staging' = [staging EXCEPT ![id] = [receipt |-> fresh, mapping |-> mapped]]
      /\ UNCHANGED <<receipts, receiptOrder, expired, mappings, settling, admitted, applications>>
  BY DEF stage_receipt, Staged, ReceiptTypeOK
<1>2. fresh \in Receipt /\ fresh.sequence = receiptNext /\ fresh.source = source /\ fresh.time = time
  BY <1>1 DEF Receipt
<1> HIDE DEF fresh
<1>3. /\ \A i \in MutationId : staging'[i] = IF i = id THEN [receipt |-> fresh, mapping |-> mapped]
                                            ELSE staging[i]
      /\ \A i \in MutationId : Stored(i)' <=> Stored(i)
  BY <1>1, Zenon DEF ReceiptTypeOK, Stored
<1>4. /\ \A i \in MutationId : i # id => (Staged(i)' <=> Staged(i)) /\ StagedSeq(i)' = StagedSeq(i)
      /\ StagedSeq(id)' = receiptNext
      /\ staging'[id].receipt = fresh
  <2>1. staging'[id] = [receipt |-> fresh, mapping |-> mapped]
    BY <1>3, Zenon
  <2>2. staging'[id].receipt = fresh
    BY <2>1, BatchReceipt, Zenon
  <2>3. StagedSeq(id)' = receiptNext
    BY <1>2, <2>2, Zenon DEF StagedSeq
  <2>4. ASSUME NEW i \in MutationId, i # id
        PROVE  (Staged(i)' <=> Staged(i)) /\ StagedSeq(i)' = StagedSeq(i)
    <3>1. staging'[i] = staging[i]
      BY <1>3, <2>4, Zenon
    <3> QED
      BY <3>1, Zenon DEF Staged, StagedSeq
  <2> QED
    BY <2>2, <2>3, <2>4, Zenon
<1>5. ReceiptTypeOK'
  BY <1>1, <1>2 DEF ReceiptTypeOK
<1>6. RowsOK'
  <2>1. receiptNext \in Nat \ {0} /\ receiptNext' - 1 = receiptNext
    BY <1>1
  <2>2. expired < receiptNext'
    BY <1>1, <2>1 DEF RowsOK, ReceiptTypeOK
  <2>3. \A n \in 1..receiptNext - 1 : n \in 1..receiptNext' - 1
    BY <2>1
  <2>4. receiptNext \in 1..receiptNext' - 1
    BY <2>1
  <2> QED
    BY <1>1, <1>2, <1>3, <1>4, <2>2, <2>3, <2>4, Zenon DEF RowsOK
<1>7. AdmitOK'
  <2>1. \A a \in admitted : a[1] \in MutationId /\ a[2] \in Nat
    BY DEF ReceiptTypeOK
  <2>2. \A a \in admitted : a[2] < receiptNext'
    BY <1>1, <2>1 DEF AdmitOK
  <2> QED
    BY <1>1, <1>3, <2>1, <2>2, Zenon DEF AdmitOK
<1>8. applications[receiptNext] = 0 /\ \A a \in admitted : a[2] # receiptNext /\ a[2] <= receiptNext
  BY <1>1 DEF OnceOK, AdmitOK, ReceiptTypeOK
<1>9. StageOK'
  BY <1>1, <1>3, <1>4, <1>8 DEF StageOK, RowsOK
<1>10. OnceOK'
  BY <1>1, Zenon DEF OnceOK
<1>11. OrderIsExact'
  BY <1>1, <1>3, Zenon DEF OrderIsExact, receipt_order_key
<1> QED
  BY <1>5, <1>6, <1>7, <1>9, <1>10, <1>11, Zenon

\* A prepared receipt learns its event.
LEMMA BindStep ==
    ASSUME ReceiptInv, NEW id \in MutationId, bind_receipt_event(id)
    PROVE  ReceiptInv'
<1> USE DEF ReceiptInv
<1> DEFINE bound == [receipts[id] EXCEPT !.event = 1]
<1>1. /\ receipts[id].source = "Prepared" /\ receipts' = [receipts EXCEPT ![id] = bound]
      /\ UNCHANGED <<receiptOrder, expired, mappings, receiptNext, staging, settling, admitted,
                     applications>>
  BY Zenon DEF bind_receipt_event, ReceiptTypeOK
<1>2. /\ bound \in Receipt /\ bound.sequence = receipts[id].sequence
      /\ bound.source = "Prepared" /\ bound.time = receipts[id].time
  BY <1>1, Zenon DEF Receipt, ReceiptTypeOK
<1> HIDE DEF bound
<1>3. /\ \A i \in MutationId : /\ receipts'[i].sequence = receipts[i].sequence
                               /\ receipts'[i].source = receipts[i].source
                               /\ receipts'[i].time = receipts[i].time
      /\ \A i \in MutationId : i # id => receipts'[i] = receipts[i]
      /\ receipts'[id] = bound
  BY <1>1, <1>2, Zenon DEF ReceiptTypeOK
<1>4. \A i \in MutationId : Stored(i)' <=> Stored(i)
  <2>1. NoReceipt.source = "none"
    BY Zenon DEF NoReceipt
  <2> QED
    BY <1>1, <1>2, <1>3, <2>1, Zenon DEF Stored
<1>5. \A i \in MutationId : (Staged(i)' <=> Staged(i)) /\ StagedSeq(i)' = StagedSeq(i)
  BY <1>1, Zenon DEF Staged, StagedSeq
<1>6. ReceiptTypeOK'
  BY <1>1, <1>2, Zenon DEF ReceiptTypeOK
<1>7. RowsOK'
  BY <1>1, <1>3, <1>4, <1>5, Zenon DEF RowsOK
<1>8. AdmitOK'
  BY <1>1, <1>3, <1>4, Zenon DEF AdmitOK, ReceiptTypeOK
<1>9. StageOK'
  BY <1>1, <1>3, <1>4, <1>5 DEF StageOK
<1>10. OnceOK'
  BY <1>1, <1>3, Zenon DEF OnceOK
<1>11. OrderIsExact'
  BY <1>1, <1>3, <1>4, Zenon DEF OrderIsExact, receipt_order_key
<1> QED
  BY <1>6, <1>7, <1>8, <1>9, <1>10, <1>11, Zenon

\* The admission of a prepared receipt is staged to be applied: no other batch has it.
LEMMA UpdateStep ==
    ASSUME ReceiptInv, NEW id \in MutationId, NEW sequence, apply_mutation(id, sequence)
    PROVE  ReceiptInv'
<1> USE Bounds DEF ReceiptInv
<1>1. PICK event \in {0, 1}, time \in Instant : stage_receipt_update(id, event, time)
  BY Zenon DEF apply_mutation
<1> DEFINE applied == [receipts[id] EXCEPT !.source = "Applied", !.time = time]
<1>2. /\ ~Staged(id) /\ receipts[id].source = "Prepared"
      /\ staging' = [staging EXCEPT ![id] = [receipt |-> applied, mapping |-> TRUE]]
      /\ UNCHANGED <<receipts, receiptOrder, expired, mappings, receiptNext, settling, admitted,
                     applications>>
  BY <1>1, Zenon DEF apply_mutation, stage_receipt_update, Staged
<1>3. /\ applied \in Receipt /\ applied.sequence = receipts[id].sequence
      /\ applied.source = "Applied" /\ applied.time = time
  <2>1. receipts[id] \in Receipt
    BY Zenon DEF ReceiptTypeOK
  <2> QED
    BY <2>1, Zenon DEF Receipt
<1> HIDE DEF applied
<1>4. Stored(id) /\ <<id, receipts[id].sequence>> \in admitted /\ receipts[id].sequence \in 1..receiptNext - 1
  <2>1. NoReceipt.source = "none"
    BY Zenon DEF NoReceipt
  <2>2. Stored(id)
    BY <1>2, <2>1, Zenon DEF Stored
  <2> QED
    BY <2>2, Zenon DEF AdmitOK, RowsOK
<1>5. /\ \A i \in MutationId : staging'[i] = IF i = id THEN [receipt |-> applied, mapping |-> TRUE]
                                            ELSE staging[i]
      /\ \A i \in MutationId : Stored(i)' <=> Stored(i)
  BY <1>2, Zenon DEF ReceiptTypeOK, Stored
<1>6. /\ \A i \in MutationId : i # id => (Staged(i)' <=> Staged(i)) /\ StagedSeq(i)' = StagedSeq(i)
      /\ StagedSeq(id)' = receipts[id].sequence
      /\ staging'[id].receipt = applied
  BY <1>3, <1>5 DEF Staged, StagedSeq
<1>7. ReceiptTypeOK'
  BY <1>2, <1>3, Zenon DEF ReceiptTypeOK
<1>8. RowsOK'
  BY <1>2, <1>3, <1>4, <1>5, <1>6, Zenon DEF RowsOK
<1>9. AdmitOK'
  BY <1>2, <1>5, Zenon DEF AdmitOK, ReceiptTypeOK
<1>10. \A i \in MutationId : Staged(i) => StagedSeq(i) # receipts[id].sequence
  <2> SUFFICES ASSUME NEW i \in MutationId, Staged(i), StagedSeq(i) = receipts[id].sequence
               PROVE  FALSE
    BY Zenon
  <2>1. <<id, receipts[id].sequence>>[2] = StagedSeq(i) /\ <<id, receipts[id].sequence>>[1] = id
    BY Zenon
  <2>2. id = i
    BY <1>4, <2>1, Zenon DEF StageOK
  <2> QED
    BY <1>2, <2>2, Zenon
<1>11. /\ \A a \in admitted : /\ a[2] = receipts[id].sequence => a[1] = id
                              /\ a[1] = id => a[2] <= receipts[id].sequence
       /\ applications[receipts[id].sequence] = 0
  <2>1. \A a \in admitted : a[2] = receipts[id].sequence => a = <<id, receipts[id].sequence>>
    BY <1>4, Zenon DEF AdmitOK
  <2>2. <<id, receipts[id].sequence>>[1] = id
    BY Zenon
  <2> QED
    BY <1>2, <1>4, <2>1, <2>2, Zenon DEF AdmitOK, OnceOK
<1>12. StageOK'
  <2> SUFFICES ASSUME NEW i \in MutationId, Staged(i)'
               PROVE  /\ Stored(i) => receipts[i].sequence = StagedSeq(i)' /\ receipts[i].source = "Prepared"
                      /\ \A a \in admitted : /\ a[2] = StagedSeq(i)' => a[1] = i
                                             /\ a[1] = i => a[2] <= StagedSeq(i)'
                      /\ \A j \in MutationId : Staged(j)' /\ StagedSeq(j)' = StagedSeq(i)' => j = i
                      /\ applications[StagedSeq(i)'] = 0
    BY <1>2, <1>5, Zenon DEF StageOK
  <2>1. CASE i = id
    BY <2>1, <1>2, <1>6, <1>10, <1>11, Zenon
  <2>2. CASE i # id
    <3>1. Staged(i) /\ StagedSeq(i)' = StagedSeq(i)
      BY <2>2, <1>6, Zenon
    <3>2. /\ Stored(i) => receipts[i].sequence = StagedSeq(i) /\ receipts[i].source = "Prepared"
          /\ \A a \in admitted : /\ a[2] = StagedSeq(i) => a[1] = i
                                 /\ a[1] = i => a[2] <= StagedSeq(i)
          /\ \A j \in MutationId : Staged(j) /\ StagedSeq(j) = StagedSeq(i) => j = i
          /\ applications[StagedSeq(i)] = 0
      BY <3>1, Zenon DEF StageOK
    <3>3. ASSUME NEW j \in MutationId, Staged(j)', StagedSeq(j)' = StagedSeq(i)'
          PROVE  j = i
      <4>1. j # id
        BY <3>1, <3>3, <1>6, <1>10, Zenon
      <4>2. Staged(j) /\ StagedSeq(j)' = StagedSeq(j)
        BY <3>3, <4>1, <1>6, Zenon
      <4> QED
        BY <3>1, <3>2, <3>3, <4>2, Zenon
    <3> QED
      BY <3>1, <3>2, <3>3, Zenon
  <2> QED
    BY <2>1, <2>2, Zenon
<1>13. OnceOK'
  BY <1>2, Zenon DEF OnceOK
<1>14. OrderIsExact'
  BY <1>2, <1>5, Zenon DEF OrderIsExact, receipt_order_key
<1> QED
  BY <1>7, <1>8, <1>9, <1>12, <1>13, <1>14, Zenon

\* A refused batch leaves nothing behind.
LEMMA FailStep ==
    ASSUME ReceiptInv, NEW id \in MutationId, commit_receipt_fails(id)
    PROVE  ReceiptInv'
<1> USE DEF ReceiptInv
<1>1. /\ staging' = [staging EXCEPT ![id] = NoBatch]
      /\ UNCHANGED <<receipts, receiptOrder, expired, mappings, receiptNext, settling, admitted,
                     applications>>
  BY Zenon DEF commit_receipt_fails
<1>2. /\ \A i \in MutationId : staging'[i] = IF i = id THEN NoBatch ELSE staging[i]
      /\ \A i \in MutationId : Stored(i)' <=> Stored(i)
      /\ NoBatch \in [receipt : Receipt, mapping : BOOLEAN]
  <2>1. NoBatch \in [receipt : Receipt, mapping : BOOLEAN]
    BY Bounds DEF NoBatch, NoReceipt, Receipt
  <2> QED
    BY <1>1, <2>1, Zenon DEF ReceiptTypeOK, Stored
<1>3. /\ \A i \in MutationId : Staged(i)' <=> Staged(i) /\ i # id
      /\ \A i \in MutationId : i # id => StagedSeq(i)' = StagedSeq(i) /\ staging'[i] = staging[i]
  BY <1>2, Zenon DEF Staged, StagedSeq
<1>4. ReceiptTypeOK'
  BY <1>1, <1>2, Zenon DEF ReceiptTypeOK
<1>5. RowsOK'
  BY <1>1, <1>2, <1>3, Zenon DEF RowsOK
<1>6. AdmitOK'
  BY <1>1, <1>2, Zenon DEF AdmitOK, ReceiptTypeOK
<1>7. StageOK'
  <2> SUFFICES ASSUME NEW i \in MutationId, Staged(i)'
               PROVE  /\ Stored(i) => receipts[i].sequence = StagedSeq(i)' /\ receipts[i].source = "Prepared"
                      /\ \A a \in admitted : /\ a[2] = StagedSeq(i)' => a[1] = i
                                             /\ a[1] = i => a[2] <= StagedSeq(i)'
                      /\ \A j \in MutationId : Staged(j)' /\ StagedSeq(j)' = StagedSeq(i)' => j = i
                      /\ applications[StagedSeq(i)'] = 0
    BY <1>1, <1>2, Zenon DEF StageOK
  <2>1. Staged(i) /\ StagedSeq(i)' = StagedSeq(i)
    BY <1>3, Zenon
  <2>2. /\ Stored(i) => receipts[i].sequence = StagedSeq(i) /\ receipts[i].source = "Prepared"
        /\ \A a \in admitted : /\ a[2] = StagedSeq(i) => a[1] = i
                               /\ a[1] = i => a[2] <= StagedSeq(i)
        /\ \A j \in MutationId : Staged(j) /\ StagedSeq(j) = StagedSeq(i) => j = i
        /\ applications[StagedSeq(i)] = 0
    BY <2>1, Zenon DEF StageOK
  <2>3. ASSUME NEW j \in MutationId, Staged(j)', StagedSeq(j)' = StagedSeq(i)'
        PROVE  j = i
    <3>1. Staged(j) /\ StagedSeq(j)' = StagedSeq(j)
      BY <1>3, <2>3, ZenonT(30)
    <3> QED
      BY <2>1, <2>2, <2>3, <3>1, Zenon
  <2> QED
    BY <2>1, <2>2, <2>3, Zenon
<1>8. OnceOK' /\ OrderIsExact'
  BY <1>1, <1>2 DEF OnceOK, OrderIsExact, receipt_order_key
<1> QED
  BY <1>4, <1>5, <1>6, <1>7, <1>8, Zenon

\* A settlement reads a receipt that is applied.
LEMMA RefreshStep ==
    ASSUME ReceiptInv, NEW id \in MutationId, refresh_state(id)
    PROVE  ReceiptInv'
<1> USE DEF ReceiptInv
<1>1. /\ receipts[id].source = "Applied" /\ settling' = [settling EXCEPT ![id] = receipts[id]]
      /\ UNCHANGED <<receipts, receiptOrder, expired, mappings, receiptNext, staging, admitted,
                     applications>>
  BY Zenon DEF refresh_state
<1>2. /\ \A i \in MutationId : settling'[i] = IF i = id THEN receipts[id] ELSE settling[i]
      /\ \A i \in MutationId : Stored(i)' <=> Stored(i)
      /\ \A i \in MutationId : (Staged(i)' <=> Staged(i)) /\ StagedSeq(i)' = StagedSeq(i)
  BY <1>1, Zenon DEF ReceiptTypeOK, Stored, Staged, StagedSeq
<1>3. receipts[id].sequence # 0
  <2>1. NoReceipt.source = "none"
    BY Zenon DEF NoReceipt
  <2> QED
    BY <1>1, <2>1 DEF RowsOK, Stored
<1>4. ReceiptTypeOK'
  BY <1>1, Zenon DEF ReceiptTypeOK
<1>5. RowsOK'
  BY <1>1, <1>2, <1>3, Zenon DEF RowsOK
<1>6. AdmitOK'
  BY <1>1, <1>2, ZenonT(30) DEF AdmitOK, ReceiptTypeOK
<1>7. StageOK'
  BY <1>1, <1>2 DEF StageOK
<1>8. OnceOK' /\ OrderIsExact'
  BY <1>1, <1>2, Zenon DEF OnceOK, OrderIsExact, receipt_order_key
<1> QED
  BY <1>4, <1>5, <1>6, <1>7, <1>8, Zenon

\* The settlement rewrites the receipt it has read, unless that was replaced or trimmed.
LEMMA SettleStep ==
    ASSUME ReceiptInv, NEW id \in MutationId, mark_persisted(id)
    PROVE  ReceiptInv'
<1> USE Bounds DEF ReceiptInv
<1>1. PICK time \in Instant : update_receipt(id, time)
  BY Zenon DEF mark_persisted
<1> DEFINE settled == [settling[id] EXCEPT !.time = time]
<1>2. /\ settling[id] # NoReceipt /\ ~Staged(id)
      /\ settling' = [settling EXCEPT ![id] = NoReceipt]
      /\ UNCHANGED <<expired, mappings, receiptNext, staging, admitted, applications>>
  BY Zenon DEF mark_persisted, Staged
<1>3. /\ settled \in Receipt /\ settled.sequence = settling[id].sequence
      /\ settled.source = "Applied" /\ settled.time = time
  <2>1. settling[id] \in Receipt /\ settling[id].source = "Applied"
    BY <1>2, Zenon DEF ReceiptTypeOK, RowsOK
  <2> QED
    BY <2>1, Zenon DEF Receipt
<1>4. /\ \A i \in MutationId : settling'[i] = IF i = id THEN NoReceipt ELSE settling[i]
      /\ \A i \in MutationId : (Staged(i)' <=> Staged(i)) /\ StagedSeq(i)' = StagedSeq(i)
      /\ settling' \in [MutationId -> Receipt]
  <2>1. NoReceipt \in Receipt
    BY DEF NoReceipt, Receipt
  <2> QED
    BY <1>2, <2>1, Zenon DEF ReceiptTypeOK, Staged, StagedSeq
<1>5. CASE ~(settling[id].sequence = receipts[id].sequence /\ settling[id].event = receipts[id].event)
  <2>1. UNCHANGED <<receipts, receiptOrder>>
    BY <1>1, <1>5, Zenon DEF update_receipt
  <2>2. \A i \in MutationId : Stored(i)' <=> Stored(i)
    BY <2>1, Zenon DEF Stored
  <2>3. ReceiptTypeOK'
    BY <1>2, <1>4, <2>1, Zenon DEF ReceiptTypeOK
  <2>4. RowsOK'
    BY <1>2, <1>4, <2>1, <2>2, Zenon DEF RowsOK
  <2>5. AdmitOK'
    BY <1>2, <2>1, <2>2, Zenon DEF AdmitOK, ReceiptTypeOK
  <2>6. StageOK'
    BY <1>2, <1>4, <2>1, <2>2 DEF StageOK
  <2>7. OnceOK' /\ OrderIsExact'
    BY <1>2, <2>1, <2>2, Zenon DEF OnceOK, OrderIsExact, receipt_order_key
  <2> QED
    BY <2>3, <2>4, <2>5, <2>6, <2>7, Zenon
<1>6. CASE settling[id].sequence = receipts[id].sequence /\ settling[id].event = receipts[id].event
  <2>1. /\ receipts' = [receipts EXCEPT ![id] = settled]
        /\ receiptOrder' = (receiptOrder \ {receipt_order_key(id, receipts[id])})
                             \cup {receipt_order_key(id, settled)}
    BY <1>1, <1>6, Zenon DEF update_receipt
  <2> HIDE DEF settled
  <2>2. /\ \A i \in MutationId : receipts'[i] = IF i = id THEN settled ELSE receipts[i]
        /\ receiptOrder' = (receiptOrder \ {<<receipts[id].time, id>>}) \cup {<<time, id>>}
    BY <1>3, <2>1, Zenon DEF ReceiptTypeOK, receipt_order_key
  <2>3. /\ Stored(id) /\ settled # NoReceipt
        /\ \A i \in MutationId : Stored(i)' <=> Stored(i)
        /\ \A i \in MutationId : receipts'[i].sequence = receipts[i].sequence
    <3>1. NoReceipt.source = "none" /\ NoReceipt.sequence = 0
      BY Zenon DEF NoReceipt
    <3> QED
      BY <1>2, <1>3, <1>6, <2>2, <3>1, Zenon DEF RowsOK, Stored
  <2>4. ReceiptTypeOK'
    BY <1>2, <1>3, <1>4, <2>1, <2>2, SMTT(30) DEF ReceiptTypeOK
  <2>5. RowsOK'
    BY <1>2, <1>3, <1>4, <2>2, <2>3, Zenon DEF RowsOK
  <2>6. AdmitOK'
    BY <1>2, <2>3, Zenon DEF AdmitOK, ReceiptTypeOK
  <2>7. StageOK'
    BY <1>2, <1>4, <2>2, <2>3 DEF StageOK
  <2>8. OnceOK'
    BY <1>2, <1>3, <2>2, Zenon DEF OnceOK
  <2>9. OrderIsExact'
    BY <1>3, <2>2, <2>3 DEF OrderIsExact, receipt_order_key
  <2> QED
    BY <2>4, <2>5, <2>6, <2>7, <2>8, <2>9, Zenon
<1> QED
  BY <1>5, <1>6, Zenon

\* Opening the store again drops what was staged and read, and counts on from the largest
\* sequence that the rows and the expiry mark name.
LEMMA ReopenStep ==
    ASSUME ReceiptInv, reopen_receipts
    PROVE  ReceiptInv'
<1> USE Bounds DEF ReceiptInv
<1> DEFINE known == {expired} \cup {receipts[id].sequence : id \in MutationId}
<1>1. /\ receiptNext' = Max(known) + 1
      /\ staging' = [id \in MutationId |-> NoBatch]
      /\ settling' = [id \in MutationId |-> NoReceipt]
      /\ UNCHANGED <<receipts, receiptOrder, expired, mappings, admitted, applications>>
  BY Zenon DEF reopen_receipts, restore_receipt_next
<1>2. \A x \in known : x \in Nat /\ x <= receiptNext - 1
  <2>1. \A id \in MutationId : receipts[id].sequence \in Nat /\ receipts[id].sequence <= receiptNext - 1
    <3> TAKE id \in MutationId
    <3>1. NoReceipt.sequence = 0
      BY Zenon DEF NoReceipt
    <3> QED
      BY <3>1 DEF RowsOK, Stored, ReceiptTypeOK
  <2> QED
    BY <2>1 DEF RowsOK, ReceiptTypeOK
<1>3. Max(known) \in known /\ \A x \in known : x <= Max(known)
  <2>1. receiptNext - 1 \in Nat
    BY DEF ReceiptTypeOK
  <2>2. known # {}
    BY Zenon
  <2> HIDE DEF known
  <2>3. known \subseteq Nat
    BY <1>2, Zenon
  <2> QED
    BY <1>2, <2>1, <2>2, <2>3, MaxProperties, Zenon
<1>4. /\ receiptNext' \in 1..receiptNext /\ expired < receiptNext'
      /\ \A id \in MutationId : receipts[id].sequence < receiptNext'
  <2>1. expired \in known /\ \A id \in MutationId : receipts[id].sequence \in known
    BY Zenon
  <2> DEFINE largest == Max(known)
  <2> HIDE DEF known, largest
  <2>2. /\ receiptNext' = largest + 1 /\ largest \in Nat /\ largest <= receiptNext - 1
        /\ \A x \in known : x \in Nat /\ x <= largest
    BY <1>1, <1>2, <1>3, Zenon DEF largest
  <2>3. receiptNext \in Nat
    BY DEF ReceiptTypeOK
  <2> QED
    BY <2>1, <2>2, <2>3
<1> HIDE DEF known
<1>5. /\ \A i \in MutationId : Stored(i)' <=> Stored(i)
      /\ \A i \in MutationId : ~Staged(i)' /\ settling'[i] = NoReceipt
  BY <1>1, Zenon DEF Stored, Staged
<1>6. ReceiptTypeOK'
  <2>1. NoReceipt \in Receipt /\ NoBatch \in [receipt : Receipt, mapping : BOOLEAN]
    BY DEF NoReceipt, NoBatch, Receipt
  <2> QED
    BY <1>1, <1>4, <2>1 DEF ReceiptTypeOK
<1>7. RowsOK'
  BY <1>1, <1>4, <1>5 DEF RowsOK, ReceiptTypeOK
<1>8. AdmitOK'
  <2>1. \A a \in admitted : a[2] < receiptNext'
    <3> TAKE a \in admitted
    <3>1. a[1] \in MutationId /\ a[2] \in 1..MaxAdmissions /\ expired \in Nat /\ receiptNext \in Nat
      <4>1. admitted \subseteq MutationId \X (1..MaxAdmissions)
        BY Zenon DEF ReceiptTypeOK
      <4>2. expired \in Nat /\ receiptNext \in Nat
        BY DEF ReceiptTypeOK
      <4> QED
        BY <4>1, <4>2, Zenon
    <3>2. a[2] <= expired \/ receipts[a[1]].sequence = a[2]
      BY Zenon DEF AdmitOK
    <3>3. a[2] \in Nat /\ receiptNext' \in Nat
      BY <1>4, <3>1
    <3>4. CASE a[2] <= expired
      BY <1>4, <3>1, <3>3, <3>4
    <3>5. CASE receipts[a[1]].sequence = a[2]
      BY <1>4, <3>1, <3>5, Zenon
    <3> QED
      BY <3>2, <3>4, <3>5, Zenon
  <2> QED
    BY <1>1, <1>5, <2>1, Zenon DEF AdmitOK, ReceiptTypeOK
<1>9. StageOK'
  BY <1>5, Zenon DEF StageOK
<1>10. OnceOK' /\ OrderIsExact'
  BY <1>1, <1>5 DEF OnceOK, OrderIsExact, receipt_order_key
<1> QED
  BY <1>6, <1>7, <1>8, <1>9, <1>10, Zenon

\* What a commit does to the rows, whatever the trim removes: rows of other receipts go
\* together with the receipts, and the expiry mark covers their sequences.
LEMMA CommitEffect ==
    ASSUME ReceiptInv, NEW id \in MutationId, commit_durable_receipt(id)
    PROVE  \E removed \in SUBSET {k \in receiptOrder : k[2] # id} :
             /\ receipts' = [i \in MutationId |->
                  IF i = id THEN staging[id].receipt
                  ELSE IF \E k \in removed : k[2] = i THEN NoReceipt ELSE receipts[i]]
             /\ receiptOrder' = (receiptOrder \ (removed \cup {k \in receiptOrder : k[2] = id}))
                                  \cup {<<staging[id].receipt.time, id>>}
             /\ expired' \in expired..receiptNext - 1
             /\ \A k \in removed : receipts[k[2]].sequence <= expired'
             /\ \A m \in mappings' : m \in mappings \/ m = [sequence |-> StagedSeq(id), id |-> id]
<1> USE Bounds DEF ReceiptInv
<1> DEFINE key == receipt_order_key(id, staging[id].receipt)
           removed == trim_receipt_order(id, key).removed
           gone == {expired} \cup {receipts[k[2]].sequence : k \in removed}
<1>1. removed \subseteq {k \in receiptOrder : k[2] # id}
  BY Zenon DEF trim_receipt_order, Oldest
<1>2. /\ receipts' = [i \in MutationId |->
           IF i = id THEN staging[id].receipt
           ELSE IF \E k \in removed : k[2] = i THEN NoReceipt ELSE receipts[i]]
      /\ receiptOrder' = (receiptOrder \ (removed \cup {k \in receiptOrder : k[2] = id})) \cup {key}
      /\ expired' = mark_expired(removed)
  BY Zenon DEF commit_durable_receipt, stage_retention
<1>3. \A m \in mappings' : m \in mappings \/ m = [sequence |-> StagedSeq(id), id |-> id]
  BY Zenon DEF commit_durable_receipt, stage_retention, StagedSeq
<1>4. key = <<staging[id].receipt.time, id>>
  BY Zenon DEF receipt_order_key
<1>5. expired' = Max(gone)
  BY <1>2, Zenon DEF mark_expired
<1> HIDE DEF removed, key
<1>6. \A x \in gone : x \in Nat /\ x <= receiptNext - 1
  <2>1. expired \in Nat /\ expired <= receiptNext - 1
    BY DEF RowsOK, ReceiptTypeOK
  <2>2. \A i \in MutationId : receipts[i].sequence \in Nat /\ receipts[i].sequence <= receiptNext - 1
    <3> TAKE i \in MutationId
    <3>1. NoReceipt.sequence = 0
      BY Zenon DEF NoReceipt
    <3> QED
      BY <3>1 DEF RowsOK, Stored, ReceiptTypeOK
  <2>3. \A k \in removed : k[2] \in MutationId
    BY <1>1, Zenon DEF ReceiptTypeOK
  <2> QED
    BY <2>1, <2>2, <2>3, Zenon
<1>7. expired \in gone /\ \A k \in removed : receipts[k[2]].sequence \in gone
  BY Zenon
<1> HIDE DEF gone
<1>8. Max(gone) \in gone /\ \A x \in gone : x <= Max(gone)
  <2>1. receiptNext - 1 \in Nat
    BY DEF ReceiptTypeOK
  <2>2. gone # {} /\ gone \subseteq Nat
    BY <1>6, <1>7, Zenon
  <2> QED
    BY <1>6, <2>1, <2>2, MaxProperties, Zenon
<1>9. expired' \in expired..receiptNext - 1 /\ \A k \in removed : receipts[k[2]].sequence <= expired'
  <2>1. expired' \in gone /\ \A x \in gone : x <= expired'
    BY <1>5, <1>8, Zenon
  <2>2. receiptNext \in Nat /\ expired \in Nat /\ expired' \in Nat /\ expired' <= receiptNext - 1
    BY <1>6, <2>1 DEF ReceiptTypeOK
  <2>3. expired <= expired' /\ \A k \in removed : receipts[k[2]].sequence <= expired'
    BY <1>7, <2>1, Zenon
  <2> QED
    BY <2>2, <2>3
<1> QED
  BY <1>1, <1>2, <1>3, <1>4, <1>9, Zenon

\* The staged receipt is stored.
LEMMA CommitStep ==
    ASSUME ReceiptInv, NEW id \in MutationId, commit_durable_receipt(id)
    PROVE  ReceiptInv'
<1> USE Bounds DEF ReceiptInv
<1>1. PICK removed \in SUBSET {k \in receiptOrder : k[2] # id} :
             /\ receipts' = [i \in MutationId |->
                  IF i = id THEN staging[id].receipt
                  ELSE IF \E k \in removed : k[2] = i THEN NoReceipt ELSE receipts[i]]
             /\ receiptOrder' = (receiptOrder \ (removed \cup {k \in receiptOrder : k[2] = id}))
                                  \cup {<<staging[id].receipt.time, id>>}
             /\ expired' \in expired..receiptNext - 1
             /\ \A k \in removed : receipts[k[2]].sequence <= expired'
             /\ \A m \in mappings' : m \in mappings \/ m = [sequence |-> StagedSeq(id), id |-> id]
  BY CommitEffect, Zenon
<1> DEFINE stored == staging[id].receipt
           s == StagedSeq(id)
           Gone(i) == \E k \in removed : k[2] = i
<1>2. /\ Staged(id) /\ staging' = [staging EXCEPT ![id] = NoBatch]
      /\ admitted' = admitted \cup {<<id, s>>}
      /\ applications' = [applications EXCEPT ![s] = @ + (IF stored.source = "Applied" THEN 1 ELSE 0)]
      /\ UNCHANGED <<receiptNext, settling>>
  BY Zenon DEF commit_durable_receipt, Staged, StagedSeq
<1>3. /\ stored \in Receipt /\ stored.sequence = s /\ stored.source \in {"Prepared", "Applied"}
      /\ stored.time \in Instant /\ s \in 1..receiptNext - 1 /\ s \in 1..MaxAdmissions
      /\ stored # NoReceipt
  <2>1. stored \in Receipt /\ stored.sequence = s
    BY Zenon DEF ReceiptTypeOK, StagedSeq
  <2>2. stored.source # "none" /\ stored.time \in Instant /\ s \in 1..receiptNext - 1
    BY <1>2, Zenon DEF RowsOK
  <2>3. receiptNext \in 1..MaxAdmissions + 1
    BY Zenon DEF ReceiptTypeOK
  <2>4. NoReceipt.source = "none"
    BY Zenon DEF NoReceipt
  <2> QED
    BY <2>1, <2>2, <2>3, <2>4 DEF Receipt
<1>4. applications[s] = 0
  BY <1>2, Zenon DEF StageOK
<1>5. /\ receipts'[id] = stored /\ Stored(id)'
      /\ \A i \in MutationId : i # id => receipts'[i] = IF Gone(i) THEN NoReceipt ELSE receipts[i]
      /\ \A i \in MutationId : i # id => (Stored(i)' <=> Stored(i) /\ ~Gone(i))
  BY <1>1, <1>3, Zenon DEF Stored
<1>6. \A i \in MutationId : Gone(i) => i # id /\ receipts[i].sequence <= expired'
  BY <1>1, Zenon
<1> HIDE DEF Gone, stored
<1>7. /\ \A i \in MutationId : Staged(i)' <=> Staged(i) /\ i # id
      /\ \A i \in MutationId : i # id => StagedSeq(i)' = StagedSeq(i) /\ staging'[i] = staging[i]
  BY <1>2, Zenon DEF Staged, StagedSeq, ReceiptTypeOK
<1>8. \A a \in admitted : a[2] = s => a = <<id, s>>
  <2> SUFFICES ASSUME NEW a \in admitted, a[2] = s PROVE a = <<id, s>>
    BY Zenon
  <2>1. a[1] = id
    BY <1>2, Zenon DEF StageOK
  <2>2. a = <<a[1], a[2]>>
    BY DEF ReceiptTypeOK
  <2> QED
    BY <2>1, <2>2, Zenon
<1>9. <<id, s>>[1] = id /\ <<id, s>>[2] = s
  BY Zenon
<1> HIDE DEF s
<1>10. ReceiptTypeOK'
  <2>1. receipts' \in [MutationId -> Receipt] /\ staging' \in [MutationId -> [receipt : Receipt, mapping : BOOLEAN]]
    <3>1. NoReceipt \in Receipt /\ NoBatch \in [receipt : Receipt, mapping : BOOLEAN]
      BY DEF NoReceipt, NoBatch, Receipt
    <3> QED
      BY <1>1, <1>2, <1>3, <3>1, Zenon DEF ReceiptTypeOK, stored
  <2>2. receiptOrder' \subseteq Instant \X MutationId
    BY <1>1, <1>3 DEF ReceiptTypeOK, stored
  <2>3. mappings' \subseteq [sequence : 1..MaxAdmissions, id : MutationId]
    BY <1>1, <1>3 DEF ReceiptTypeOK, s
  <2>4. expired' \in 0..MaxAdmissions /\ receiptNext' \in 1..MaxAdmissions + 1
    BY <1>1, <1>2 DEF ReceiptTypeOK
  <2>5. admitted' \subseteq MutationId \X (1..MaxAdmissions)
    BY <1>2, <1>3 DEF ReceiptTypeOK
  <2>6. applications' \in [1..MaxAdmissions -> Nat]
    BY <1>2, <1>3, <1>4 DEF ReceiptTypeOK
  <2> QED
    BY <1>2, <2>1, <2>2, <2>3, <2>4, <2>5, <2>6, Zenon DEF ReceiptTypeOK
<1>11. RowsOK'
  <2>1. expired' < receiptNext'
    BY <1>1, <1>2 DEF ReceiptTypeOK
  <2> QED
    BY <1>2, <1>3, <1>5, <1>7, <2>1, Zenon DEF RowsOK
<1>12. AdmitOK'
  <2>1. \A i \in MutationId : Stored(i)' => <<i, receipts'[i].sequence>> \in admitted'
    BY <1>2, <1>3, <1>5, Zenon DEF AdmitOK
  <2>2. ASSUME NEW a \in admitted'
        PROVE  /\ a[2] < receiptNext'
               /\ a[2] <= expired' \/ receipts'[a[1]].sequence = a[2]
               /\ Stored(a[1])' => a[2] <= receipts'[a[1]].sequence
    <3>1. CASE a = <<id, s>>
      <4>1. receiptNext \in Nat
        BY SMTT(30) DEF ReceiptTypeOK
      <4> QED
        BY <3>1, <4>1, <1>2, <1>3, <1>5, <1>9, SMTT(30)
    <3>2. CASE a \in admitted /\ a[1] = id
      <4>1. a[2] <= s /\ a[2] < receiptNext
        BY <3>2, <1>2, Zenon DEF StageOK, AdmitOK, s
      <4>2. a[2] \in Nat /\ expired \in Nat /\ receiptNext \in Nat
        BY <3>2 DEF ReceiptTypeOK
      <4>3. a[2] <= expired \/ receipts[id].sequence = a[2]
        BY <3>2, Zenon DEF AdmitOK
      <4>4. ASSUME receipts[id].sequence = a[2] PROVE a[2] = s
        <5>1. NoReceipt.sequence = 0 /\ a[2] # 0
          BY <3>2 DEF NoReceipt, ReceiptTypeOK
        <5> QED
          BY <4>4, <5>1, <1>2, Zenon DEF StageOK, Stored, s
      <4> QED
        BY <3>2, <4>1, <4>2, <4>3, <4>4, <1>1, <1>2, <1>3, <1>5, SMTT(30)
    <3>3. CASE a \in admitted /\ a[1] # id
      <4>1. a[1] \in MutationId /\ a[2] \in Nat /\ expired \in Nat /\ receiptNext \in Nat
        BY <3>3 DEF ReceiptTypeOK
      <4>2. /\ a[2] < receiptNext /\ (a[2] <= expired \/ receipts[a[1]].sequence = a[2])
            /\ Stored(a[1]) => a[2] <= receipts[a[1]].sequence
        BY <3>3, Zenon DEF AdmitOK
      <4>3. expired <= expired' /\ expired' \in Nat /\ receiptNext' = receiptNext
        BY <4>1, <1>1, <1>2, SMTT(30)
      <4>4. CASE Gone(a[1])
        <5>1. receipts[a[1]].sequence <= expired' /\ ~Stored(a[1])'
          BY <3>3, <4>1, <4>4, <1>5, <1>6, ZenonT(30)
        <5> QED
          BY <4>1, <4>2, <4>3, <5>1
      <4>5. CASE ~Gone(a[1])
        <5>1. receipts'[a[1]] = receipts[a[1]] /\ (Stored(a[1])' <=> Stored(a[1]))
          BY <3>3, <4>1, <4>5, <1>5, Zenon
        <5> QED
          BY <4>1, <4>2, <4>3, <5>1
      <4> QED
        BY <4>4, <4>5, Zenon
    <3> QED
      BY <3>1, <3>2, <3>3, <1>2, Zenon
  <2>3. \A a, b \in admitted' : a[2] = b[2] => a = b
    BY <1>2, <1>8, <1>9, Zenon DEF AdmitOK
  <2>4. \A m \in mappings' : <<m.id, m.sequence>> \in admitted'
    <3> TAKE m \in mappings'
    <3>1. CASE m \in mappings
      BY <3>1, <1>2, Zenon DEF AdmitOK
    <3>2. CASE m = [sequence |-> StagedSeq(id), id |-> id]
      BY <3>2, <1>2, Zenon DEF s
    <3> QED
      BY <3>1, <3>2, <1>1, Zenon
  <2> QED
    BY <2>1, <2>2, <2>3, <2>4, Zenon DEF AdmitOK
<1>13. StageOK'
  <2> SUFFICES ASSUME NEW i \in MutationId, Staged(i)'
               PROVE  /\ Stored(i)' => /\ receipts'[i].sequence = StagedSeq(i)'
                                       /\ receipts'[i].source = "Prepared"
                      /\ \A a \in admitted' : /\ a[2] = StagedSeq(i)' => a[1] = i
                                              /\ a[1] = i => a[2] <= StagedSeq(i)'
                      /\ \A j \in MutationId : Staged(j)' /\ StagedSeq(j)' = StagedSeq(i)' => j = i
                      /\ applications'[StagedSeq(i)'] = 0
    BY Zenon DEF StageOK
  <2>0. Staged(i) /\ i # id /\ StagedSeq(i)' = StagedSeq(i)
    BY <1>7, Zenon
  <2>1. StagedSeq(i) # s /\ StagedSeq(i) \in 1..MaxAdmissions
    <3>1. StagedSeq(i) \in 1..receiptNext - 1 /\ receiptNext \in 1..MaxAdmissions + 1
      BY <2>0, Zenon DEF RowsOK, ReceiptTypeOK
    <3>2. StagedSeq(i) # s
      BY <1>2, <2>0, Zenon DEF StageOK, s
    <3> QED
      BY <3>1, <3>2
  <2>2. Stored(i)' => receipts'[i].sequence = StagedSeq(i) /\ receipts'[i].source = "Prepared"
    BY <1>5, <2>0, Zenon DEF StageOK
  <2>3. \A a \in admitted' : /\ a[2] = StagedSeq(i) => a[1] = i
                             /\ a[1] = i => a[2] <= StagedSeq(i)
    BY <1>2, <1>9, <2>0, <2>1, Zenon DEF StageOK
  <2>4. applications'[StagedSeq(i)] = 0
    BY <1>2, <1>4, <2>0, <2>1, Zenon DEF StageOK, ReceiptTypeOK
  <2>5. ASSUME NEW j \in MutationId, Staged(j)', StagedSeq(j)' = StagedSeq(i)'
        PROVE  j = i
    <3>1. Staged(j) /\ StagedSeq(j)' = StagedSeq(j)
      BY <1>7, <2>5, Zenon
    <3>2. StagedSeq(j) = StagedSeq(i)
      BY <2>0, <2>5, <3>1, Zenon
    <3> QED
      BY <2>0, <3>1, <3>2, Zenon DEF StageOK
  <2> QED
    BY <2>0, <2>2, <2>3, <2>4, <2>5, Zenon
<1>14. OnceOK'
  <2>1. \A t \in 1..MaxAdmissions :
          applications'[t] = IF t = s THEN (IF stored.source = "Applied" THEN 1 ELSE 0) ELSE applications[t]
    BY <1>2, <1>4 DEF ReceiptTypeOK
  <2>2. ASSUME NEW i \in MutationId, receipts'[i].source = "Prepared"
        PROVE  applications'[receipts'[i].sequence] = 0
    <3>1. CASE i = id
      BY <2>1, <2>2, <3>1, <1>3, <1>5, Zenon
    <3>2. CASE i # id
      <4>1. receipts'[i] = receipts[i] /\ Stored(i)
        <5>1. NoReceipt.source = "none"
          BY Zenon DEF NoReceipt
        <5> QED
          BY <2>2, <3>2, <5>1, <1>5, Zenon DEF Stored
      <4>2. <<i, receipts[i].sequence>> \in admitted /\ <<i, receipts[i].sequence>>[2] = receipts[i].sequence
            /\ <<i, receipts[i].sequence>>[1] = i
        BY <4>1, Zenon DEF AdmitOK
      <4>3. receipts[i].sequence # s
        BY <3>2, <4>2, <1>8, <1>9, Zenon
      <4>4. receipts[i].sequence \in 1..MaxAdmissions
        <5>1. receipts[i].sequence \in 1..receiptNext - 1 /\ receiptNext \in 1..MaxAdmissions + 1
          BY <4>1, Zenon DEF RowsOK, ReceiptTypeOK
        <5> QED
          BY <5>1
      <4> QED
        BY <2>1, <2>2, <4>1, <4>3, <4>4, Zenon DEF OnceOK
    <3> QED
      BY <3>1, <3>2, Zenon
  <2>3. \A t \in 1..MaxAdmissions : applications'[t] <= 1
    BY <2>1 DEF OnceOK
  <2>4. \A t \in 1..MaxAdmissions : applications'[t] # 0 => \E a \in admitted' : a[2] = t
    BY <2>1, <1>2, <1>9, Zenon DEF OnceOK
  <2> QED
    BY <2>2, <2>3, <2>4, Zenon DEF OnceOK
<1>15. OrderIsExact'
  <2>1. receiptOrder = {<<receipts[i].time, i>> : i \in {j \in MutationId : Stored(j)}}
    BY Zenon DEF OrderIsExact, receipt_order_key
  <2>2. receiptOrder' \subseteq {<<receipts'[i].time, i>> : i \in {j \in MutationId : Stored(j)'}}
    <3> SUFFICES ASSUME NEW k \in receiptOrder'
                 PROVE  \E i \in MutationId : Stored(i)' /\ k = <<receipts'[i].time, i>>
      BY Zenon
    <3>1. CASE k = <<stored.time, id>>
      BY <3>1, <1>5, Zenon
    <3>2. CASE k \in receiptOrder /\ k \notin removed /\ k[2] # id
      <4>1. PICK i \in MutationId : Stored(i) /\ k = <<receipts[i].time, i>>
        BY <3>2, <2>1, Zenon
      <4>2. k[2] = i
        BY <4>1, Zenon
      <4>3. ~Gone(i)
        <5> SUFFICES ASSUME NEW l \in removed, l[2] = i PROVE FALSE
          BY Zenon DEF Gone
        <5>1. PICK j \in MutationId : l = <<receipts[j].time, j>>
          BY <2>1, Zenon
        <5>2. j = i
          BY <5>1, Zenon
        <5> QED
          BY <5>1, <5>2, <4>1, <3>2, Zenon
      <4> QED
        BY <3>2, <4>1, <4>2, <4>3, <1>5, Zenon
    <3> QED
      BY <3>1, <3>2, <1>1, Zenon DEF stored
  <2>3. ASSUME NEW i \in MutationId, Stored(i)' PROVE <<receipts'[i].time, i>> \in receiptOrder'
    <3>1. CASE i = id
      BY <3>1, <1>1, <1>5, Zenon DEF stored
    <3>2. CASE i # id
      <4>1. Stored(i) /\ ~Gone(i) /\ receipts'[i] = receipts[i]
        BY <2>3, <3>2, <1>5, Zenon
      <4>2. <<receipts[i].time, i>> \in receiptOrder /\ <<receipts[i].time, i>>[2] = i
        BY <4>1, <2>1, Zenon
      <4>3. <<receipts[i].time, i>> \notin removed
        BY <4>1, <4>2, Zenon DEF Gone
      <4> QED
        BY <3>2, <4>1, <4>2, <4>3, <1>1, Zenon
    <3> QED
      BY <3>1, <3>2, Zenon
  <2> QED
    BY <2>2, <2>3, Zenon DEF OrderIsExact, receipt_order_key
<1> QED
  BY <1>10, <1>11, <1>12, <1>13, <1>14, <1>15, Zenon

\* A step that changes no row, no admission and nothing staged keeps the invariant.
LEMMA RestStep ==
    ASSUME ReceiptInv,
           UNCHANGED <<receipts, receiptOrder, expired, mappings, receiptNext, staging, settling,
                       admitted, applications>>
    PROVE  ReceiptInv'
<1>1. /\ \A i \in MutationId : Stored(i)' <=> Stored(i)
      /\ \A i \in MutationId : (Staged(i)' <=> Staged(i)) /\ StagedSeq(i)' = StagedSeq(i)
  BY Zenon DEF Stored, Staged, StagedSeq
<1>2. ReceiptTypeOK' /\ RowsOK' /\ StageOK' /\ OnceOK'
  BY <1>1 DEF ReceiptInv, ReceiptTypeOK, RowsOK, StageOK, OnceOK
<1>3. AdmitOK'
  <2>1. \A a \in admitted : a[1] \in MutationId
    BY Zenon DEF ReceiptInv, ReceiptTypeOK
  <2> QED
    BY <1>1, <2>1, Zenon DEF ReceiptInv, AdmitOK
<1>4. OrderIsExact'
  BY <1>1, Zenon DEF ReceiptInv, OrderIsExact, receipt_order_key
<1> QED
  BY <1>2, <1>3, <1>4, Zenon DEF ReceiptInv

LEMMA ReceiptSteps ==
    ASSUME ReceiptInv, [ReceiptNext]_receiptVars
    PROVE  ReceiptInv'
<1>1. CASE UNCHANGED receiptVars
  BY <1>1, RestStep, Zenon DEF receiptVars
<1>2. CASE reopen_receipts
  BY <1>2, ReopenStep, Zenon
<1>3. ASSUME NEW id \in MutationId, prepare_mutation(id)
      PROVE  ReceiptInv'
  BY <1>3, StageStep, Zenon DEF prepare_mutation
<1>4. ASSUME NEW id \in MutationId, apply_changes_locked(id)
      PROVE  ReceiptInv'
  BY <1>4, StageStep, Zenon DEF apply_changes_locked
<1>5. ASSUME NEW id \in MutationId, bind_receipt_event(id)
      PROVE  ReceiptInv'
  BY <1>5, BindStep, Zenon
<1>6. ASSUME NEW id \in MutationId, NEW a \in admitted, apply_mutation(id, a[2])
      PROVE  ReceiptInv'
  BY <1>6, UpdateStep, Zenon
<1>7. ASSUME NEW id \in MutationId, commit_durable_receipt(id) \/ commit_receipt_fails(id)
      PROVE  ReceiptInv'
  BY <1>7, CommitStep, FailStep, Zenon
<1>8. ASSUME NEW id \in MutationId, refresh_state(id) \/ mark_persisted(id)
      PROVE  ReceiptInv'
  BY <1>8, RefreshStep, SettleStep, Zenon
<1> QED
  BY <1>1, <1>2, <1>3, <1>4, <1>5, <1>6, <1>7, <1>8, Zenon DEF ReceiptNext

-----------------------------------------------------------------------------
(* Receipts.                                                               *)

\* Rows, admissions, staged batches and the order stay in step, through interleaved
\* commits, trims and settlements, failed commits and restarts.
THEOREM ReceiptInvariance == ReceiptSpec => []ReceiptInv
<1>1. ReceiptInit => ReceiptInv
  BY InitOK, Zenon
<1>2. ReceiptInv /\ [ReceiptNext]_receiptVars => ReceiptInv'
  BY ReceiptSteps, Zenon
<1> QED
  BY <1>1, <1>2, PTL DEF ReceiptSpec

\* No admission is applied twice and no sequence names two admissions, also when an update
\* loses its race against a trim and when a restart gives out sequences again.
THEOREM ReceiptsApplyOnce == ReceiptSpec => []AppliedOnce
<1>1. ReceiptInv => AppliedOnce
  <2> SUFFICES ASSUME ReceiptInv PROVE AppliedOnce
    BY Zenon
  <2>1. DOMAIN applications = 1..MaxAdmissions
    BY Zenon DEF ReceiptInv, ReceiptTypeOK
  <2> QED
    BY <2>1, Zenon DEF ReceiptInv, AdmitOK, OnceOK, AppliedOnce
<1> QED
  BY <1>1, ReceiptInvariance, PTL

\* A committed admission is never unknown: its receipt is there, its id was admitted anew,
\* or its sequence is at most the expiry mark; and a retained batch leads to its receipt
\* or to the mark.
THEOREM AdmissionsAreRemembered == ReceiptSpec => []AdmissionIsRemembered
<1>1. ReceiptInv => AdmissionIsRemembered
  <2> SUFFICES ASSUME ReceiptInv PROVE AdmissionIsRemembered
    BY Zenon
  <2>1. ASSUME NEW a \in admitted, ~Stored(a[1])
        PROVE  a[2] <= expired
    <3>1. a[1] \in MutationId /\ a[2] \in 1..MaxAdmissions
      BY Zenon DEF ReceiptInv, ReceiptTypeOK
    <3>2. receipts[a[1]].sequence = 0
      BY <2>1 DEF Stored, NoReceipt
    <3>3. a[2] # 0
      BY <3>1, Bounds
    <3> QED
      BY <3>2, <3>3, Zenon DEF ReceiptInv, AdmitOK
  <2>2. ASSUME NEW a \in admitted, receipt_status(a[1], a[2]) = "Unknown"
        PROVE  Stored(a[1]) /\ receipts[a[1]].sequence > a[2]
    <3>1. Stored(a[1]) /\ receipts[a[1]].sequence # a[2]
      BY <2>1, <2>2, Zenon DEF receipt_status
    <3>2. a[2] <= receipts[a[1]].sequence
      BY <3>1, Zenon DEF ReceiptInv, AdmitOK
    <3>3. a[2] \in Int /\ receipts[a[1]].sequence \in Int
      <4>1. a[1] \in MutationId /\ a[2] \in 1..MaxAdmissions
        BY Zenon DEF ReceiptInv, ReceiptTypeOK
      <4>2. receipts[a[1]].sequence \in 0..MaxAdmissions
        BY <4>1, Zenon DEF ReceiptInv, ReceiptTypeOK, Receipt
      <4> QED
        BY <4>1, <4>2, Bounds
    <3> QED
      BY <3>1, <3>2, <3>3
  <2>3. ASSUME NEW m \in mappings
        PROVE  receipt_for_batch(m) # "Unknown"
    <3>1. <<m.id, m.sequence>> \in admitted /\ <<m.id, m.sequence>>[1] = m.id
          /\ <<m.id, m.sequence>>[2] = m.sequence
      BY Zenon DEF ReceiptInv, AdmitOK
    <3> QED
      BY <2>1, <3>1, Zenon DEF receipt_for_batch
  <2> QED
    BY <2>2, <2>3, Zenon DEF AdmissionIsRemembered
<1> QED
  BY <1>1, ReceiptInvariance, PTL

\* Every stored receipt has exactly one order row, under its own update time.
THEOREM ReceiptOrderExact == ReceiptSpec => []OrderIsExact
BY ReceiptInvariance, PTL DEF ReceiptInv

\* A stored receipt that is applied stays applied, until it is trimmed or its id is
\* admitted anew: no settlement and no late batch writes an earlier state over it.
THEOREM ReceiptsStayApplied == ReceiptSpec => AppliedStays
<1>1. ReceiptInv /\ [ReceiptNext]_receiptVars =>
        [\A id \in MutationId :
           receipts[id].source = "Applied" =>
             receipts'[id].source = "Applied" \/ receipts'[id].sequence # receipts[id].sequence]_receiptVars
  <2> SUFFICES ASSUME ReceiptInv, ReceiptNext, NEW i \in MutationId, receipts[i].source = "Applied"
               PROVE  receipts'[i].source = "Applied" \/ receipts'[i].sequence # receipts[i].sequence
    BY Zenon
  <2>1. CASE receipts' = receipts
    BY <2>1, Zenon
  <2>2. ASSUME NEW id \in MutationId, bind_receipt_event(id)
        PROVE  receipts'[i] = receipts[i]
    BY <2>2, Zenon DEF bind_receipt_event, ReceiptInv, ReceiptTypeOK
  <2>3. ASSUME NEW id \in MutationId, mark_persisted(id)
        PROVE  receipts'[i].source = "Applied"
    <3>1. settling[id].source = "Applied" /\ settling[id] \in Receipt
      BY <2>3, Zenon DEF mark_persisted, ReceiptInv, RowsOK, ReceiptTypeOK
    <3>2. PICK time \in Instant : update_receipt(id, time)
      BY <2>3, Zenon DEF mark_persisted
    <3>3. [settling[id] EXCEPT !.time = time].source = "Applied"
      BY <3>1, Zenon DEF Receipt
    <3> QED
      BY <3>2, <3>3, Zenon DEF update_receipt, ReceiptInv, ReceiptTypeOK
  <2>4. ASSUME NEW id \in MutationId, commit_durable_receipt(id)
        PROVE  receipts'[i].source = "Applied" \/ receipts'[i].sequence # receipts[i].sequence
    <3>1. receipts'[i] \in {IF i = id THEN staging[id].receipt ELSE receipts[i], NoReceipt}
          /\ (i = id => receipts'[i] = staging[id].receipt)
      BY CommitEffect, <2>4
    <3>2. Stored(i) /\ receipts[i].sequence # 0
      <4>1. NoReceipt.source = "none"
        BY Zenon DEF NoReceipt
      <4> QED
        BY <4>1 DEF Stored, ReceiptInv, RowsOK
    <3>3. i # id
      BY <2>4, <3>2, Zenon DEF commit_durable_receipt, Staged, ReceiptInv, StageOK
    <3>4. NoReceipt.sequence = 0
      BY Zenon DEF NoReceipt
    <3> QED
      BY <3>1, <3>2, <3>3, <3>4, ZenonT(30)
  <2>5. ASSUME NEW id \in MutationId,
               \/ prepare_mutation(id) \/ apply_changes_locked(id)
               \/ \E a \in admitted : a[1] = id /\ apply_mutation(id, a[2])
               \/ commit_receipt_fails(id) \/ refresh_state(id)
        PROVE  receipts' = receipts
    BY <2>5, Zenon DEF prepare_mutation, apply_changes_locked, stage_receipt, apply_mutation,
                commit_receipt_fails, refresh_state
  <2>6. CASE reopen_receipts
    BY <2>6, Zenon DEF reopen_receipts
  <2> QED
    BY <2>2, <2>3, <2>4, <2>5, <2>6, Zenon DEF ReceiptNext
<1> QED
  BY <1>1, ReceiptInvariance, PTL DEF ReceiptSpec, AppliedStays
=============================================================================
