------------------------- MODULE QueryRequestProofs -------------------------
(***************************************************************************)
(* Any requests, limits and instants: the registry and the deadline        *)
(* schedule hold exactly the requests that have not left them, and the     *)
(* outcome that a request reports is true and stands.                      *)
(*                                                                         *)
(* One lemma per action; a step of a request leaves the others as they     *)
(* are, so each lemma treats the request that moves.                       *)
(***************************************************************************)
EXTENDS QueryRequest, FiniteSetTheorems, WellFoundedInduction, TLAPS

State == [cause : Outcome, closed : BOOLEAN, token : BOOLEAN]
Pc == {"new", "locked", "mark", "start", "due", "admit", "run", "drop",
       "disarm", "done"}

\* The parts of RequestTypeOK without the sizes of the two tables.
ShapeOK ==
    /\ reqNow \in 1 .. MaxNow /\ reqCancelled \in BOOLEAN
    /\ reqCopied \in BOOLEAN /\ reqCancelling \in SUBSET Request
    /\ reqRegistry \in SUBSET Request /\ reqTripping \in SUBSET Request
    /\ reqState \in [Request -> State]
    /\ reqPc \in [Request -> Pc]
    /\ reqHeld \in [Request -> Outcome]
    /\ reqExpires \in [Request -> 0 .. Never]
    /\ reqRefused \in SUBSET Request
    /\ dlAvailable \in BOOLEAN
    /\ dlPc \in {"scan", "idle", "timed", "expire", "none"}
    /\ dlWake \in 0 .. MaxNow
    /\ dlExpired \in SUBSET Request

\* The schedule and its index file the same requests under the instants they asked for.
ScheduleOK ==
    /\ DOMAIN dlIndex \in SUBSET Request
    /\ dlSchedule \in [0 .. MaxNow -> SUBSET Request]
    /\ \A r \in DOMAIN dlIndex : /\ dlIndex[r] = reqExpires[r] /\ reqExpires[r] \in 1 .. MaxNow
                                 /\ reqPc[r] \in {"run", "drop", "disarm"}
    /\ \A r \in Request : \A t \in 0 .. MaxNow :
         r \in dlSchedule[t] <=> r \in DOMAIN dlIndex /\ reqExpires[r] = t
    /\ \A r \in dlExpired : /\ reqExpires[r] <= reqNow
                            /\ reqPc[r] \in {"run", "drop", "disarm", "done"}

SizesOK ==
    /\ Cardinality(reqRegistry) <= QueryLimit
    /\ Cardinality(DOMAIN dlIndex) <= DeadlineLimit

RegistryOK ==
    /\ \A r \in Request : r \in reqRegistry <=>
         r \notin reqRefused /\ reqPc[r] \notin {"new", "disarm", "done"}
    /\ \A r \in reqRefused : reqPc[r] # "new"
    /\ reqCancelling # {} => reqCancelled

\* What a request may hold on its way, and what its state may say.
PhaseOK(r) ==
    /\ reqHeld[r] \in {"active", "explicit", "query_capacity"}
    /\ reqHeld[r] = "explicit" => reqCancelled
    /\ reqHeld[r] = "query_capacity" => r \in reqRefused
    /\ reqPc[r] \in {"new", "locked", "mark", "start"} =>
         reqState[r].cause \in {"active", "explicit", "query_capacity"}
    /\ reqPc[r] \in {"due", "admit"} =>
         reqState[r].cause \in {"active", "explicit"} /\ reqExpires[r] \in 1 .. MaxNow

HonestOK(r) ==
    /\ reqState[r].cause = "explicit" => reqCancelled
    /\ reqState[r].cause = "deadline" => reqExpires[r] <= reqNow
    /\ reqState[r].cause = "query_capacity" => r \in reqRefused
    /\ reqState[r].cause \in {"deadline_capacity", "deadline_unavailable"} =>
         r \notin DOMAIN dlIndex
    /\ reqState[r].closed <=> reqState[r].cause # "active"
    /\ reqState[r].token => reqState[r].closed
    /\ r \in reqTripping => reqState[r].closed

\* The inductive invariant.
RequestInv ==
    /\ ShapeOK /\ ScheduleOK /\ SizesOK /\ RegistryOK
    /\ \A r \in Request : PhaseOK(r) /\ HonestOK(r)

-----------------------------------------------------------------------------
(* Marking a state.                                                        *)

LEMMA MarkFacts ==
    ASSUME NEW s \in State, NEW o \in Outcome
    PROVE  /\ mark(s, o) \in State /\ mark(s, o).token = s.token
           /\ mark(s, o).cause = IF o = "explicit" \/ s.cause = "active" THEN o ELSE s.cause
           /\ mark(s, o).closed <=> s.closed \/ mark(s, o).cause # "active"
<1> DEFINE c == IF o = "explicit" \/ s.cause = "active" THEN o ELSE s.cause
<1>1. c \in Outcome /\ s.closed \in BOOLEAN
  BY DEF State
<1>2. mark(s, o) = [s EXCEPT !.cause = c, !.closed = s.closed \/ c # "active"]
  BY Zenon DEF mark
<1> HIDE DEF c
<1>3. (s.closed \/ c # "active") \in BOOLEAN
  OBVIOUS
<1>4. mark(s, o) \in State /\ mark(s, o).token = s.token /\ mark(s, o).cause = c
      /\ mark(s, o).closed = (s.closed \/ c # "active")
  BY <1>1, <1>2, <1>3, Zenon DEF State
<1> QED
  BY <1>4, Zenon DEF c

\* A state that is marked keeps its cause, unless it is cancelled, and stays closed.
LEMMA MarkOwnFacts ==
    ASSUME ShapeOK, NEW r \in Request, NEW o \in Outcome, MarkOwn(r, o), HonestOK(r)
    PROVE  /\ reqState' \in [Request -> State]
           /\ \A q \in Request \ {r} : reqState'[q] = reqState[q]
           /\ reqState'[r].cause = IF o = "explicit" \/ reqState[r].cause = "active"
                                   THEN o ELSE reqState[r].cause
           /\ reqState'[r].closed <=> reqState'[r].cause # "active"
           /\ reqState'[r].token => reqState'[r].closed
           /\ reqState[r].closed => reqState'[r].closed
<1> DEFINE m == mark(reqState[r], o)
           s == [m EXCEPT !.token = m.token \/ o # "active"]
<1>1. reqState[r] \in State /\ reqState \in [Request -> State]
  BY Zenon DEF ShapeOK
<1>2. /\ m \in State /\ m.token = reqState[r].token
      /\ m.cause = IF o = "explicit" \/ reqState[r].cause = "active" THEN o ELSE reqState[r].cause
      /\ m.closed <=> reqState[r].closed \/ m.cause # "active"
  BY <1>1, MarkFacts, Zenon
<1>3. reqState' = [reqState EXCEPT ![r] = s]
  BY Zenon DEF MarkOwn
<1> HIDE DEF m
<1>4. (m.token \/ o # "active") \in BOOLEAN
  OBVIOUS
<1>5. s \in State /\ s.cause = m.cause /\ s.closed = m.closed /\ s.token = (m.token \/ o # "active")
  BY <1>2, <1>4, Zenon DEF State
<1> HIDE DEF s
<1>6. reqState' \in [Request -> State] /\ reqState'[r] = s
      /\ \A q \in Request \ {r} : reqState'[q] = reqState[q]
  BY <1>1, <1>3, <1>5, Zenon
<1>7. /\ reqState[r].closed <=> reqState[r].cause # "active"
      /\ reqState[r].token => reqState[r].closed
  BY Zenon DEF HonestOK
<1>8. o # "active" => m.cause # "active"
  BY <1>2, Zenon
<1> QED
  BY <1>2, <1>5, <1>6, <1>7, <1>8, Zenon

LEMMA MarkStateFacts ==
    ASSUME ShapeOK, NEW S \in SUBSET Request, NEW o \in Outcome, o # "active", MarkState(S, o)
    PROVE  /\ reqState' \in [Request -> State] /\ reqTripping' = reqTripping \cup S
           /\ \A q \in Request \ S : reqState'[q] = reqState[q]
           /\ \A q \in S : HonestOK(q) =>
                /\ reqState'[q].cause = IF o = "explicit" \/ reqState[q].cause = "active"
                                        THEN o ELSE reqState[q].cause
                /\ reqState'[q].closed <=> reqState'[q].cause # "active"
                /\ reqState'[q].token => reqState'[q].closed
                /\ reqState'[q].closed
<1>1. reqState \in [Request -> State]
  BY Zenon DEF ShapeOK
<1>2. \A q \in Request : mark(reqState[q], o) \in State
  BY <1>1, MarkFacts, Zenon
<1>3. reqState' = [q \in Request |-> IF q \in S THEN mark(reqState[q], o) ELSE reqState[q]]
      /\ reqTripping' = reqTripping \cup S
  BY Zenon DEF MarkState
<1>4. \A q \in Request : reqState'[q] = IF q \in S THEN mark(reqState[q], o) ELSE reqState[q]
  BY <1>3, Zenon
<1>5. reqState' \in [Request -> State]
  BY <1>1, <1>2, <1>3, Zenon
<1>6. ASSUME NEW q \in S, HonestOK(q)
      PROVE  /\ reqState'[q].cause = IF o = "explicit" \/ reqState[q].cause = "active"
                                     THEN o ELSE reqState[q].cause
             /\ reqState'[q].closed <=> reqState'[q].cause # "active"
             /\ reqState'[q].token => reqState'[q].closed
             /\ reqState'[q].closed
  <2> DEFINE m == mark(reqState[q], o)
  <2>1. /\ m.token = reqState[q].token
        /\ m.cause = IF o = "explicit" \/ reqState[q].cause = "active" THEN o ELSE reqState[q].cause
        /\ m.closed <=> reqState[q].closed \/ m.cause # "active"
    BY <1>1, MarkFacts, Zenon
  <2>2. reqState'[q] = m
    BY <1>4, Zenon
  <2> HIDE DEF m
  <2>3. m.cause # "active"
    BY <2>1, Zenon
  <2>4. /\ reqState[q].closed <=> reqState[q].cause # "active"
        /\ reqState[q].token => reqState[q].closed
    BY <1>6, Zenon DEF HonestOK
  <2> QED
    BY <2>1, <2>2, <2>3, <2>4, Zenon
<1> QED
  BY <1>3, <1>4, <1>5, <1>6, Zenon

-----------------------------------------------------------------------------
(* A step of one request leaves what the invariant says of the others.     *)

\* The others keep their own variables.
Others(r) ==
    \A q \in Request \ {r} : /\ reqState'[q] = reqState[q] /\ reqPc'[q] = reqPc[q]
                             /\ reqHeld'[q] = reqHeld[q] /\ reqExpires'[q] = reqExpires[q]

LEMMA EachRequest ==
    ASSUME RequestInv, NEW r \in Request, Others(r), UNCHANGED <<reqNow, reqCancelled, reqTripping>>,
           reqRefused \subseteq reqRefused', DOMAIN dlIndex' \subseteq DOMAIN dlIndex \cup {r},
           PhaseOK(r)', HonestOK(r)'
    PROVE  \A q \in Request : PhaseOK(q)' /\ HonestOK(q)'
<1> SUFFICES ASSUME NEW q \in Request \ {r} PROVE PhaseOK(q)' /\ HonestOK(q)'
  BY Zenon
<1>1. PhaseOK(q) /\ HonestOK(q)
  BY Zenon DEF RequestInv
<1>2. /\ reqState'[q] = reqState[q] /\ reqPc'[q] = reqPc[q]
      /\ reqHeld'[q] = reqHeld[q] /\ reqExpires'[q] = reqExpires[q]
  BY Zenon DEF Others
<1>3. q \in DOMAIN dlIndex' => q \in DOMAIN dlIndex
  BY Zenon
<1>4. PhaseOK(q)'
  BY <1>1, <1>2, Zenon DEF PhaseOK
<1>5. HonestOK(q)'
  BY <1>1, <1>2, <1>3, Zenon DEF HonestOK
<1> QED
  BY <1>4, <1>5, Zenon

LEMMA ScheduleFrame ==
    ASSUME RequestInv, NEW r \in Request, Others(r),
           UNCHANGED <<reqNow, dlSchedule, dlIndex, dlExpired>>,
           r \in DOMAIN dlIndex => reqExpires'[r] = reqExpires[r] /\ reqPc'[r] \in {"run", "drop", "disarm"},
           r \in dlExpired => reqExpires'[r] = reqExpires[r] /\ reqPc'[r] \in {"run", "drop", "disarm", "done"}
    PROVE  ScheduleOK'
<1>1. ScheduleOK /\ dlExpired \in SUBSET Request
  BY Zenon DEF RequestInv, ShapeOK
<1>2. \A q \in Request : /\ q \in DOMAIN dlIndex \/ q \in dlExpired \/ q # r => reqExpires'[q] = reqExpires[q]
                         /\ q # r => reqPc'[q] = reqPc[q]
  BY Zenon DEF Others
<1>3. \A q \in DOMAIN dlIndex' : /\ dlIndex'[q] = reqExpires'[q] /\ reqExpires'[q] \in 1 .. MaxNow
                                 /\ reqPc'[q] \in {"run", "drop", "disarm"}
  BY <1>1, <1>2, Zenon DEF ScheduleOK
<1>4. \A q \in Request : \A t \in 0 .. MaxNow :
        q \in dlSchedule'[t] <=> q \in DOMAIN dlIndex' /\ reqExpires'[q] = t
  <2> TAKE q \in Request
  <2> TAKE t \in 0 .. MaxNow
  <2>1. q \in dlSchedule[t] <=> q \in DOMAIN dlIndex /\ reqExpires[q] = t
    BY <1>1, Zenon DEF ScheduleOK
  <2>2. dlSchedule' = dlSchedule /\ dlIndex' = dlIndex
    BY Zenon
  <2>3. q \in DOMAIN dlIndex => reqExpires'[q] = reqExpires[q]
    BY <1>2, Zenon
  <2> QED
    BY <2>1, <2>2, <2>3, Zenon
<1>5. \A q \in dlExpired' : /\ reqExpires'[q] <= reqNow'
                            /\ reqPc'[q] \in {"run", "drop", "disarm", "done"}
  BY <1>1, <1>2, Zenon DEF ScheduleOK
<1> QED
  BY <1>1, <1>3, <1>4, <1>5, Zenon DEF ScheduleOK

LEMMA RegistryFrame ==
    ASSUME RequestInv, NEW r \in Request, Others(r),
           UNCHANGED <<reqRegistry, reqRefused, reqCancelled, reqCancelling>>,
           reqPc[r] \notin {"new", "disarm", "done"}, reqPc'[r] \notin {"new", "disarm", "done"}
    PROVE  RegistryOK'
<1>1. RegistryOK /\ reqRefused \in SUBSET Request
  BY Zenon DEF RequestInv, ShapeOK
<1>2. \A q \in Request : q # r => reqPc'[q] = reqPc[q]
  BY Zenon DEF Others
<1>3. \A q \in Request : q \in reqRegistry' <=>
        q \notin reqRefused' /\ reqPc'[q] \notin {"new", "disarm", "done"}
  BY <1>1, <1>2, Zenon DEF RegistryOK
<1>4. \A q \in reqRefused' : reqPc'[q] # "new"
  BY <1>1, <1>2, Zenon DEF RegistryOK
<1> QED
  BY <1>1, <1>3, <1>4, Zenon DEF RegistryOK

\* A request in front of its run is in neither half of the schedule.
LEMMA Unfiled ==
    ASSUME RequestInv, NEW r \in Request, reqPc[r] \notin {"run", "drop", "disarm", "done"}
    PROVE  r \notin DOMAIN dlIndex /\ r \notin dlExpired
  BY Zenon DEF RequestInv, ScheduleOK

\* What a request that moves and no table changes with it has to show.
LEMMA OwnStep ==
    ASSUME RequestInv, NEW r \in Request, Others(r),
           UNCHANGED <<cancelVars, reqNow, reqRegistry, reqTripping, reqRefused, dlVars>>,
           reqPc[r] \in {"locked", "mark", "start", "due", "admit"},
           reqPc'[r] \notin {"new", "disarm", "done"},
           ShapeOK', PhaseOK(r)', HonestOK(r)'
    PROVE  RequestInv'
<1>1. r \notin DOMAIN dlIndex /\ r \notin dlExpired /\ reqPc[r] \notin {"new", "disarm", "done"}
  BY Unfiled, Zenon
<1>2. UNCHANGED <<reqNow, reqCancelled, reqCancelling, reqTripping, reqRegistry, reqRefused,
                  dlSchedule, dlIndex, dlExpired>>
  BY Zenon DEF cancelVars, dlVars
<1>3. ScheduleOK'
  BY <1>1, <1>2, ScheduleFrame, Zenon
<1>4. RegistryOK'
  BY <1>1, <1>2, RegistryFrame, Zenon
<1>5. \A q \in Request : PhaseOK(q)' /\ HonestOK(q)'
  BY <1>2, EachRequest, Zenon
<1>6. SizesOK'
  BY <1>2, Zenon DEF RequestInv, SizesOK
<1> QED
  BY <1>3, <1>4, <1>5, <1>6, Zenon DEF RequestInv

-----------------------------------------------------------------------------
(* The requests.                                                           *)

LEMMA Parts ==
    ASSUME RequestInv, NEW r \in Request
    PROVE  ShapeOK /\ ScheduleOK /\ SizesOK /\ RegistryOK /\ PhaseOK(r) /\ HonestOK(r)
  BY Zenon DEF RequestInv

\* The outcome of a registration is chosen while the registry is locked.
LEMMA ChooseOutcomeStep ==
    ASSUME RequestInv, NEW r \in Request, ChooseOutcome(r)
    PROVE  RequestInv'
<1> DEFINE h == IF reqCancelled THEN "explicit"
                ELSE IF r \in reqRefused THEN "query_capacity" ELSE "active"
<1>1. ShapeOK /\ PhaseOK(r) /\ HonestOK(r)
  BY Parts, Zenon
<1>2. /\ reqPc[r] = "locked" /\ reqHeld' = [reqHeld EXCEPT ![r] = h]
      /\ reqPc' = [reqPc EXCEPT ![r] = "mark"]
      /\ UNCHANGED <<cancelVars, reqNow, reqRegistry, reqState, reqTripping,
                     reqExpires, reqRefused, dlVars>>
  BY Zenon DEF ChooseOutcome
<1>3. /\ h \in Outcome /\ h \in {"active", "explicit", "query_capacity"}
      /\ h = "explicit" => reqCancelled
      /\ h = "query_capacity" => r \in reqRefused
  BY Zenon DEF Outcome
<1> HIDE DEF h
<1>4. /\ reqHeld'[r] = h /\ reqPc'[r] = "mark" /\ Others(r)
      /\ reqHeld' \in [Request -> Outcome] /\ reqPc' \in [Request -> Pc]
  BY <1>1, <1>2, <1>3, Zenon DEF ShapeOK, Others, Pc
<1>5. ShapeOK'
  BY <1>1, <1>2, <1>4, Zenon DEF ShapeOK, cancelVars, dlVars
<1>6. PhaseOK(r)'
  BY <1>1, <1>2, <1>3, <1>4, Zenon DEF PhaseOK, cancelVars
<1>7. HonestOK(r)'
  BY <1>1, <1>2, Zenon DEF HonestOK, cancelVars, dlVars
<1> QED
  BY <1>2, <1>4, <1>5, <1>6, <1>7, OwnStep, Zenon

\* It is marked when the lock is released.
LEMMA MarkRegistrationStep ==
    ASSUME RequestInv, NEW r \in Request, MarkRegistration(r)
    PROVE  RequestInv'
<1>1. ShapeOK /\ PhaseOK(r) /\ HonestOK(r)
  BY Parts, Zenon
<1>2. /\ reqPc[r] = "mark" /\ MarkOwn(r, reqHeld[r])
      /\ reqHeld' = [reqHeld EXCEPT ![r] = "active"]
      /\ reqPc' = [reqPc EXCEPT ![r] = "start"]
      /\ UNCHANGED <<cancelVars, reqNow, reqRegistry, reqTripping, reqExpires,
                     reqRefused, dlVars>>
  BY Zenon DEF MarkRegistration
<1>3. reqHeld[r] \in Outcome
  BY <1>1, Zenon DEF ShapeOK
<1>4. /\ reqState' \in [Request -> State]
      /\ \A q \in Request \ {r} : reqState'[q] = reqState[q]
      /\ reqState'[r].cause = IF reqHeld[r] = "explicit" \/ reqState[r].cause = "active"
                              THEN reqHeld[r] ELSE reqState[r].cause
      /\ reqState'[r].closed <=> reqState'[r].cause # "active"
      /\ reqState'[r].token => reqState'[r].closed
      /\ reqState[r].closed => reqState'[r].closed
  BY <1>1, <1>2, <1>3, MarkOwnFacts, Zenon
<1>5. /\ reqHeld'[r] = "active" /\ reqPc'[r] = "start" /\ Others(r)
      /\ reqHeld' \in [Request -> Outcome] /\ reqPc' \in [Request -> Pc]
  BY <1>1, <1>2, <1>4, Zenon DEF ShapeOK, Others, Pc, Outcome
<1>6. ShapeOK'
  BY <1>1, <1>2, <1>4, <1>5, Zenon DEF ShapeOK, cancelVars, dlVars
<1>7. /\ reqState'[r].cause \in {"active", "explicit", "query_capacity"}
      /\ reqState'[r].cause = "explicit" => reqCancelled
      /\ reqState'[r].cause = "query_capacity" => r \in reqRefused
  BY <1>1, <1>2, <1>4, Zenon DEF PhaseOK, HonestOK
<1>8. PhaseOK(r)'
  BY <1>2, <1>5, <1>7, Zenon DEF PhaseOK, cancelVars
<1>9. HonestOK(r)'
  BY <1>1, <1>2, <1>4, <1>7, Zenon DEF HonestOK, cancelVars, dlVars
<1> QED
  BY <1>2, <1>5, <1>6, <1>8, <1>9, OwnStep, Zenon

\* The deadline is computed; one that cannot be represented has passed.
LEMMA StartClockStep ==
    ASSUME RequestInv, NEW r \in Request, StartClock(r)
    PROVE  RequestInv'
<1>1. ShapeOK /\ PhaseOK(r) /\ HonestOK(r)
  BY Parts, Zenon
<1>2. PICK e \in 0 .. Never :
        /\ reqExpires' = [reqExpires EXCEPT ![r] = e]
        /\ MarkOwn(r, IF e = 0 THEN "deadline" ELSE "active")
        /\ reqPc' = [reqPc EXCEPT ![r] =
                       IF e \in 1 .. MaxNow /\ outcome_of(reqState'[r]) = "active"
                       THEN "due" ELSE "run"]
  BY Zenon DEF StartClock
<1> DEFINE o == IF e = 0 THEN "deadline" ELSE "active"
           w == IF e \in 1 .. MaxNow /\ outcome_of(reqState'[r]) = "active" THEN "due" ELSE "run"
<1>3. /\ reqPc[r] = "start"
      /\ UNCHANGED <<cancelVars, reqNow, reqRegistry, reqTripping, reqHeld, reqRefused, dlVars>>
  BY Zenon DEF StartClock
<1>4. o \in Outcome /\ o \in {"deadline", "active"} /\ (o = "deadline" => e = 0) /\ w \in {"due", "run"}
  BY Zenon DEF Outcome
<1>5. MarkOwn(r, o) /\ reqPc' = [reqPc EXCEPT ![r] = w]
  BY <1>2, Zenon
<1>6. w = "due" => e \in 1 .. MaxNow /\ outcome_of(reqState'[r]) = "active"
  BY Zenon
<1> HIDE DEF o, w
<1>7. /\ reqState' \in [Request -> State]
      /\ \A q \in Request \ {r} : reqState'[q] = reqState[q]
      /\ reqState'[r].cause = IF o = "explicit" \/ reqState[r].cause = "active"
                              THEN o ELSE reqState[r].cause
      /\ reqState'[r].closed <=> reqState'[r].cause # "active"
      /\ reqState'[r].token => reqState'[r].closed
      /\ reqState[r].closed => reqState'[r].closed
  BY <1>1, <1>4, <1>5, MarkOwnFacts, Zenon
<1>8. /\ reqExpires'[r] = e /\ reqPc'[r] = w /\ Others(r)
      /\ reqExpires' \in [Request -> 0 .. Never] /\ reqPc' \in [Request -> Pc]
  <2>1. reqExpires \in [Request -> 0 .. Never] /\ reqPc \in [Request -> Pc]
    BY <1>1, Zenon DEF ShapeOK
  <2>2. /\ reqExpires'[r] = e /\ reqExpires' \in [Request -> 0 .. Never]
        /\ \A q \in Request \ {r} : reqExpires'[q] = reqExpires[q]
    BY <1>2, <2>1, Zenon
  <2>3. w \in Pc
    BY <1>4, Zenon DEF Pc
  <2>4. /\ reqPc'[r] = w /\ reqPc' \in [Request -> Pc]
        /\ \A q \in Request \ {r} : reqPc'[q] = reqPc[q]
    BY <1>5, <2>1, <2>3, Zenon
  <2>5. Others(r)
    BY <1>3, <1>7, <2>2, <2>4, Zenon DEF Others
  <2> QED
    BY <2>2, <2>4, <2>5, Zenon
<1>9. ShapeOK'
  BY <1>1, <1>3, <1>7, <1>8, Zenon DEF ShapeOK, cancelVars, dlVars
<1>10. w = "due" => reqState'[r].cause = "active"
  BY <1>6, <1>7, Zenon DEF outcome_of
<1>11. PhaseOK(r)'
  BY <1>1, <1>3, <1>4, <1>6, <1>8, <1>10, Zenon DEF PhaseOK, cancelVars
<1>12. reqState[r].cause \in {"active", "explicit", "query_capacity"}
  BY <1>1, <1>3, Zenon DEF PhaseOK
<1>13. reqState'[r].cause = "deadline" => reqExpires'[r] <= reqNow'
  <2>1. reqState'[r].cause = "deadline" => e = 0
    BY <1>4, <1>7, <1>12, Zenon
  <2>2. reqNow \in 1 .. MaxNow /\ reqNow' = reqNow
    BY <1>1, <1>3, Zenon DEF ShapeOK
  <2>3. 0 <= reqNow'
    BY <2>2
  <2> QED
    BY <1>8, <2>1, <2>3, Zenon
<1>14. /\ reqState'[r].cause \in {"active", "explicit", "query_capacity", "deadline"}
       /\ reqState'[r].cause = "explicit" => reqState[r].cause = "explicit"
       /\ reqState'[r].cause = "query_capacity" => reqState[r].cause = "query_capacity"
  BY <1>4, <1>7, <1>12, Zenon
<1>15. HonestOK(r)'
  BY <1>1, <1>3, <1>7, <1>13, <1>14, Zenon DEF HonestOK, cancelVars
<1>16. reqPc'[r] \notin {"new", "disarm", "done"} /\ reqPc[r] \in {"locked", "mark", "start", "due", "admit"}
  BY <1>3, <1>4, <1>8, Zenon
<1> QED
  BY <1>3, <1>8, <1>9, <1>11, <1>15, <1>16, OwnStep, Zenon

\* A request in front of the schedule ends for one of the schedule's reasons.
LEMMA RefusedStep ==
    ASSUME RequestInv, NEW r \in Request, NEW o \in {"active", "deadline", "deadline_capacity",
                                                     "deadline_unavailable"},
           NEW w \in {"admit", "run"}, MarkOwn(r, o), reqPc[r] \in {"due", "admit"},
           o = "deadline" => reqExpires[r] <= reqNow, w = "admit" => o = "active",
           reqPc' = [reqPc EXCEPT ![r] = w],
           UNCHANGED <<cancelVars, reqNow, reqRegistry, reqTripping, reqHeld,
                       reqExpires, reqRefused, dlVars>>
    PROVE  RequestInv'
<1>1. ShapeOK /\ PhaseOK(r) /\ HonestOK(r)
  BY Parts, Zenon
<1>2. o \in Outcome
  BY Zenon DEF Outcome
<1>3. /\ reqState' \in [Request -> State]
      /\ \A q \in Request \ {r} : reqState'[q] = reqState[q]
      /\ reqState'[r].cause = IF o = "explicit" \/ reqState[r].cause = "active"
                              THEN o ELSE reqState[r].cause
      /\ reqState'[r].closed <=> reqState'[r].cause # "active"
      /\ reqState'[r].token => reqState'[r].closed
      /\ reqState[r].closed => reqState'[r].closed
  BY <1>1, <1>2, MarkOwnFacts, Zenon
<1>4. reqPc'[r] = w /\ Others(r) /\ reqPc' \in [Request -> Pc]
  BY <1>1, <1>3, Zenon DEF ShapeOK, Others, Pc
<1>5. ShapeOK'
  BY <1>1, <1>3, <1>4, Zenon DEF ShapeOK, cancelVars, dlVars
<1>6. reqState[r].cause \in {"active", "explicit"} /\ reqExpires[r] \in 1 .. MaxNow
      /\ r \notin DOMAIN dlIndex
  BY <1>1, Unfiled, Zenon DEF PhaseOK
<1>7. reqState'[r].cause \in {o, "explicit"} /\ (reqState'[r].cause = "explicit" => reqState[r].cause = "explicit")
  BY <1>3, <1>6, Zenon
<1>8. PhaseOK(r)'
  BY <1>1, <1>4, <1>6, <1>7, Zenon DEF PhaseOK, cancelVars
<1>9. HonestOK(r)'
  BY <1>1, <1>3, <1>6, <1>7, Zenon DEF HonestOK, cancelVars, dlVars
<1> QED
  BY <1>4, <1>5, <1>8, <1>9, OwnStep, Zenon

LEMMA CheckDueStep ==
    ASSUME RequestInv, NEW r \in Request, CheckDue(r)
    PROVE  RequestInv'
<1> DEFINE o == IF reqExpires[r] <= reqNow THEN "deadline"
                ELSE IF ~dlAvailable THEN "deadline_unavailable" ELSE "active"
           w == IF o = "active" THEN "admit" ELSE "run"
<1>1. /\ reqPc[r] = "due" /\ MarkOwn(r, o) /\ reqPc' = [reqPc EXCEPT ![r] = w]
      /\ UNCHANGED <<cancelVars, reqNow, reqRegistry, reqTripping, reqHeld,
                     reqExpires, reqRefused, dlVars>>
  BY Zenon DEF CheckDue
<1>2. /\ o \in {"active", "deadline", "deadline_capacity", "deadline_unavailable"}
      /\ w \in {"admit", "run"}
      /\ o = "deadline" => reqExpires[r] <= reqNow
      /\ w = "admit" => o = "active"
  BY Zenon
<1> HIDE DEF o, w
<1> QED
  BY <1>1, <1>2, RefusedStep, Zenon

\* The schedule takes a request, or is full.
LEMMA AdmitStep ==
    ASSUME RequestInv, NEW r \in Request, admit(r)
    PROVE  RequestInv'
<1>1. ShapeOK /\ PhaseOK(r) /\ HonestOK(r) /\ ScheduleOK /\ SizesOK /\ RegistryOK
  BY Parts, Zenon
<1>2. /\ reqPc[r] = "admit" /\ reqPc' = [reqPc EXCEPT ![r] = "run"]
      /\ UNCHANGED <<cancelVars, reqNow, reqRegistry, reqTripping, reqHeld,
                     reqExpires, reqRefused, dlAvailable, dlExpired>>
  BY Zenon DEF admit
<1>3. CASE Cardinality(DOMAIN dlIndex) >= DeadlineLimit
  <2>1. MarkOwn(r, "deadline_capacity") /\ UNCHANGED dlVars
    BY <1>2, <1>3, Zenon DEF admit, dlVars
  <2> QED
    BY <1>2, <2>1, RefusedStep, Zenon
<1>4. CASE ~ (Cardinality(DOMAIN dlIndex) >= DeadlineLimit)
  <2>1. /\ dlIndex' = [q \in DOMAIN dlIndex \cup {r} |-> reqExpires[q]]
        /\ dlSchedule' = [dlSchedule EXCEPT ![reqExpires[r]] = dlSchedule[reqExpires[r]] \cup {r}]
        /\ dlPc' = Notified(dlPc)
        /\ dlWake' = IF dlPc' = "timed" THEN dlWake ELSE 0
        /\ UNCHANGED reqState
    BY <1>4, Zenon DEF admit
  <2>2. /\ reqExpires[r] \in 1 .. MaxNow /\ reqState[r].cause \in {"active", "explicit"}
        /\ r \notin DOMAIN dlIndex /\ r \notin dlExpired
    BY <1>1, <1>2, Unfiled, Zenon DEF PhaseOK
  <2>3. reqExpires[r] \in 0 .. MaxNow /\ 0 \in 0 .. MaxNow
    BY <2>2, RequestAssumption
  <2>4. reqPc'[r] = "run" /\ Others(r) /\ reqPc' \in [Request -> Pc]
    BY <1>1, <1>2, <2>1, Zenon DEF ShapeOK, Others, Pc
  <2>5. ShapeOK'
    <3>1. dlPc' \in {"scan", "idle", "timed", "expire", "none"} /\ dlWake' \in 0 .. MaxNow
      BY <1>1, <2>1, <2>3, Zenon DEF ShapeOK, Notified
    <3> QED
      BY <1>1, <1>2, <2>1, <2>4, <3>1, Zenon DEF ShapeOK, cancelVars
  <2>6. DOMAIN dlIndex' = DOMAIN dlIndex \cup {r} /\ \A q \in DOMAIN dlIndex' : dlIndex'[q] = reqExpires[q]
    BY <2>1, Zenon
  <2>7. ScheduleOK'
    <3>1. \A t \in 0 .. MaxNow :
            dlSchedule'[t] = IF t = reqExpires[r] THEN dlSchedule[t] \cup {r} ELSE dlSchedule[t]
      BY <1>1, <2>1, <2>3, Zenon DEF ScheduleOK
    <3>2. dlSchedule' \in [0 .. MaxNow -> SUBSET Request]
      BY <1>1, <2>1, <2>3 DEF ScheduleOK
    <3>3. \A q \in Request : \A t \in 0 .. MaxNow :
            q \in dlSchedule'[t] <=> q \in DOMAIN dlIndex' /\ reqExpires'[q] = t
      <4> SUFFICES ASSUME NEW q \in Request, NEW t \in 0 .. MaxNow
                   PROVE  q \in dlSchedule'[t] <=> (q \in DOMAIN dlIndex \/ q = r) /\ reqExpires[q] = t
        BY <1>2, <2>6, Zenon
      <4>1. q \in dlSchedule[t] <=> q \in DOMAIN dlIndex /\ reqExpires[q] = t
        BY <1>1, Zenon DEF ScheduleOK
      <4>2. q \in dlSchedule'[t] <=> q \in dlSchedule[t] \/ (t = reqExpires[r] /\ q = r)
        BY <3>1, Zenon
      <4> QED
        BY <4>1, <4>2, Zenon
    <3>4. \A q \in DOMAIN dlIndex' : /\ dlIndex'[q] = reqExpires'[q] /\ reqExpires'[q] \in 1 .. MaxNow
                                     /\ reqPc'[q] \in {"run", "drop", "disarm"}
      <4> SUFFICES ASSUME NEW q \in DOMAIN dlIndex \cup {r}
                   PROVE  /\ reqExpires[q] \in 1 .. MaxNow
                          /\ reqPc'[q] \in {"run", "drop", "disarm"}
        BY <1>2, <2>6, Zenon
      <4>1. CASE q = r
        BY <2>2, <2>4, <4>1, Zenon
      <4>2. CASE q # r
        BY <1>1, <2>4, <4>2, Zenon DEF ScheduleOK, Others
      <4> QED
        BY <4>1, <4>2, Zenon
    <3>5. \A q \in dlExpired' : /\ reqExpires'[q] <= reqNow'
                                /\ reqPc'[q] \in {"run", "drop", "disarm", "done"}
      <4> SUFFICES ASSUME NEW q \in dlExpired
                   PROVE  reqExpires[q] <= reqNow /\ reqPc'[q] \in {"run", "drop", "disarm", "done"}
        BY <1>2, Zenon
      <4>1. q \in Request \ {r}
        BY <1>1, <2>2, Zenon DEF ShapeOK
      <4> QED
        BY <1>1, <2>4, <4>1, Zenon DEF ScheduleOK, Others
    <3>6. DOMAIN dlIndex' \in SUBSET Request
      BY <1>1, <2>6, Zenon DEF ScheduleOK
    <3> QED
      BY <3>2, <3>3, <3>4, <3>5, <3>6, Zenon DEF ScheduleOK
  <2>8. SizesOK'
    <3>1. IsFiniteSet(DOMAIN dlIndex)
      BY <1>1, RequestAssumption, FS_Subset, Zenon DEF ScheduleOK
    <3>2. Cardinality(DOMAIN dlIndex) \in Nat
          /\ Cardinality(DOMAIN dlIndex \cup {r}) = Cardinality(DOMAIN dlIndex) + 1
      BY <2>2, <3>1, FS_CardinalityType, FS_AddElement, Zenon
    <3>3. Cardinality(DOMAIN dlIndex') = Cardinality(DOMAIN dlIndex) + 1
      BY <2>6, <3>2, Zenon
    <3> DEFINE c == Cardinality(DOMAIN dlIndex)
               d == Cardinality(DOMAIN dlIndex')
    <3>4. c \in Nat /\ d = c + 1 /\ ~ (c >= DeadlineLimit)
      BY <1>4, <3>2, <3>3, Zenon
    <3>5. d <= DeadlineLimit
      <4> HIDE DEF c, d
      <4> QED
        BY <3>4, RequestAssumption
    <3> QED
      BY <1>1, <1>2, <3>5, Zenon DEF SizesOK
  <2>9. RegistryOK'
    BY <1>2, <2>4, RegistryFrame, Zenon DEF cancelVars
  <2>10. PhaseOK(r)'
    BY <1>1, <1>2, <2>1, <2>4, Zenon DEF PhaseOK, cancelVars
  <2>11. HonestOK(r)'
    BY <1>1, <1>2, <2>1, <2>2, Zenon DEF HonestOK, cancelVars
  <2>12. \A q \in Request : PhaseOK(q)' /\ HonestOK(q)'
    <3>1. UNCHANGED <<reqNow, reqCancelled, reqTripping>> /\ reqRefused \subseteq reqRefused'
          /\ DOMAIN dlIndex' \subseteq DOMAIN dlIndex \cup {r}
      BY <1>2, <2>6, Zenon DEF cancelVars
    <3> QED
      BY <2>4, <2>10, <2>11, <3>1, EachRequest, Zenon
  <2> QED
    BY <2>5, <2>7, <2>8, <2>9, <2>12, Zenon DEF RequestInv
<1> QED
  BY <1>3, <1>4, Zenon

\* A request asks for an id; the registry takes it or counts it as refused.
LEMMA RegisterStep ==
    ASSUME RequestInv, NEW r \in Request, register_with_limit(r)
    PROVE  RequestInv'
<1>1. ShapeOK /\ PhaseOK(r) /\ HonestOK(r) /\ ScheduleOK /\ SizesOK /\ RegistryOK
  BY Parts, Zenon
<1>2. /\ reqPc[r] = "new" /\ reqPc' = [reqPc EXCEPT ![r] = "locked"]
      /\ UNCHANGED <<cancelVars, reqNow, reqState, reqTripping, reqHeld, reqExpires, dlVars>>
  BY Zenon DEF register_with_limit
<1>3. \/ Admits(reqRegistry) /\ reqRegistry' = reqRegistry \cup {r} /\ reqRefused' = reqRefused
      \/ reqRefused' = reqRefused \cup {r} /\ reqRegistry' = reqRegistry
  BY Zenon DEF register_with_limit
<1>4. reqPc'[r] = "locked" /\ Others(r) /\ reqPc' \in [Request -> Pc]
  BY <1>1, <1>2, Zenon DEF ShapeOK, Others, Pc
<1>5. ShapeOK'
  BY <1>1, <1>2, <1>3, <1>4, Zenon DEF ShapeOK, cancelVars, dlVars
<1>6. r \notin DOMAIN dlIndex /\ r \notin dlExpired /\ r \notin reqRegistry /\ r \notin reqRefused
  BY <1>1, <1>2, Unfiled, Zenon DEF RegistryOK
<1>7. ScheduleOK'
  BY <1>2, <1>4, <1>6, ScheduleFrame, Zenon DEF dlVars
<1>8. RegistryOK'
  <2>1. \A q \in Request \ {r} : /\ reqPc'[q] = reqPc[q]
                                 /\ q \in reqRegistry' <=> q \in reqRegistry
                                 /\ q \in reqRefused' <=> q \in reqRefused
    BY <1>3, <1>4, Zenon DEF Others
  <2>2. r \in reqRegistry' <=> r \notin reqRefused'
    BY <1>3, <1>6, Zenon
  <2>3. \A q \in Request : q \in reqRegistry' <=>
          q \notin reqRefused' /\ reqPc'[q] \notin {"new", "disarm", "done"}
    BY <1>1, <1>4, <2>1, <2>2, Zenon DEF RegistryOK
  <2>4. \A q \in reqRefused' : reqPc'[q] # "new"
    BY <1>1, <1>4, <1>5, <2>1, Zenon DEF RegistryOK, ShapeOK
  <2>5. reqCancelling' # {} => reqCancelled'
    BY <1>1, <1>2, Zenon DEF RegistryOK, cancelVars
  <2> QED
    BY <2>3, <2>4, <2>5, Zenon DEF RegistryOK
<1>9. SizesOK'
  <2>1. DOMAIN dlIndex' = DOMAIN dlIndex
    BY <1>2, Zenon DEF dlVars
  <2>2. CASE reqRegistry' = reqRegistry
    BY <1>1, <2>1, <2>2, Zenon DEF SizesOK
  <2>3. CASE Admits(reqRegistry) /\ reqRegistry' = reqRegistry \cup {r}
    <3>1. IsFiniteSet(reqRegistry)
      BY <1>1, RequestAssumption, FS_Subset, Zenon DEF ShapeOK
    <3>2. /\ Cardinality(reqRegistry) \in Nat /\ Cardinality(reqRegistry) < QueryLimit
          /\ Cardinality(reqRegistry \cup {r}) = Cardinality(reqRegistry) + 1
      BY <1>6, <2>3, <3>1, FS_CardinalityType, FS_AddElement, Zenon DEF Admits
    <3> DEFINE c == Cardinality(reqRegistry)
               d == Cardinality(reqRegistry')
    <3>3. c \in Nat /\ c < QueryLimit /\ d = c + 1
      BY <2>3, <3>2, Zenon
    <3>4. d <= QueryLimit
      <4> HIDE DEF c, d
      <4> QED
        BY <3>3, RequestAssumption
    <3> QED
      BY <1>1, <2>1, <3>4, Zenon DEF SizesOK
  <2> QED
    BY <1>3, <2>2, <2>3, Zenon
<1>10. reqRefused \subseteq reqRefused'
  BY <1>3, Zenon
<1>11. reqState[r].cause \in {"active", "explicit", "query_capacity"}
  BY <1>1, <1>2, Zenon DEF PhaseOK
<1>12. PhaseOK(r)'
  BY <1>1, <1>2, <1>4, <1>10, <1>11, Zenon DEF PhaseOK, cancelVars
<1>13. HonestOK(r)'
  BY <1>1, <1>2, <1>10, Zenon DEF HonestOK, cancelVars, dlVars
<1>14. \A q \in Request : PhaseOK(q)' /\ HonestOK(q)'
  <2>1. UNCHANGED <<reqNow, reqCancelled, reqTripping>> /\ DOMAIN dlIndex' \subseteq DOMAIN dlIndex \cup {r}
    BY <1>2, Zenon DEF cancelVars, dlVars
  <2> QED
    BY <1>4, <1>10, <1>12, <1>13, <2>1, EachRequest, Zenon
<1> QED
  BY <1>5, <1>7, <1>8, <1>9, <1>14, Zenon DEF RequestInv

\* A request that runs sees an outcome or has its answer, and starts to drop.
LEMMA EndRunStep ==
    ASSUME RequestInv, NEW r \in Request, Poll(r) \/ Complete(r)
    PROVE  RequestInv'
<1>1. ShapeOK /\ PhaseOK(r) /\ HonestOK(r) /\ ScheduleOK /\ SizesOK /\ RegistryOK
  BY Parts, Zenon
<1>2. /\ reqPc[r] = "run" /\ reqPc' = [reqPc EXCEPT ![r] = "drop"]
      /\ UNCHANGED <<cancelVars, reqNow, reqRegistry, reqState, reqTripping,
                     reqHeld, reqExpires, reqRefused, dlVars>>
  BY Zenon DEF Poll, Complete
<1>3. reqPc'[r] = "drop" /\ Others(r) /\ reqPc' \in [Request -> Pc]
  BY <1>1, <1>2, Zenon DEF ShapeOK, Others, Pc
<1>4. ShapeOK'
  BY <1>1, <1>2, <1>3, Zenon DEF ShapeOK, cancelVars, dlVars
<1>5. ScheduleOK'
  BY <1>2, <1>3, ScheduleFrame, Zenon DEF dlVars
<1>6. RegistryOK'
  BY <1>2, <1>3, RegistryFrame, Zenon DEF cancelVars
<1>7. SizesOK'
  BY <1>1, <1>2, Zenon DEF SizesOK, dlVars
<1>8. PhaseOK(r)' /\ HonestOK(r)'
  BY <1>1, <1>2, <1>3, Zenon DEF PhaseOK, HonestOK, cancelVars, dlVars
<1>9. \A q \in Request : PhaseOK(q)' /\ HonestOK(q)'
  BY <1>2, <1>3, <1>8, EachRequest, Zenon DEF cancelVars, dlVars
<1> QED
  BY <1>4, <1>5, <1>6, <1>7, <1>9, Zenon DEF RequestInv

\* The id leaves the registry.
LEMMA DropRegistrationStep ==
    ASSUME RequestInv, NEW r \in Request, drop_registration(r)
    PROVE  RequestInv'
<1>1. ShapeOK /\ PhaseOK(r) /\ HonestOK(r) /\ ScheduleOK /\ SizesOK /\ RegistryOK
  BY Parts, Zenon
<1>2. /\ reqPc[r] = "drop" /\ reqPc' = [reqPc EXCEPT ![r] = "disarm"]
      /\ reqRegistry' = reqRegistry \ {r}
      /\ UNCHANGED <<cancelVars, reqNow, reqState, reqTripping,
                     reqHeld, reqExpires, reqRefused, dlVars>>
  BY Zenon DEF drop_registration
<1>3. reqPc'[r] = "disarm" /\ Others(r) /\ reqPc' \in [Request -> Pc]
  BY <1>1, <1>2, Zenon DEF ShapeOK, Others, Pc
<1>4. ShapeOK'
  BY <1>1, <1>2, <1>3, Zenon DEF ShapeOK, cancelVars, dlVars
<1>5. ScheduleOK'
  BY <1>2, <1>3, ScheduleFrame, Zenon DEF dlVars
<1>6. RegistryOK'
  <2>1. \A q \in Request \ {r} : reqPc'[q] = reqPc[q] /\ (q \in reqRegistry' <=> q \in reqRegistry)
    BY <1>2, <1>3, Zenon DEF Others
  <2>2. \A q \in Request : q \in reqRegistry' <=>
          q \notin reqRefused' /\ reqPc'[q] \notin {"new", "disarm", "done"}
    BY <1>1, <1>2, <1>3, <2>1, Zenon DEF RegistryOK
  <2>3. \A q \in reqRefused' : reqPc'[q] # "new"
    BY <1>1, <1>2, <1>3, <2>1, Zenon DEF RegistryOK, ShapeOK
  <2>4. reqCancelling' # {} => reqCancelled'
    BY <1>1, <1>2, Zenon DEF RegistryOK, cancelVars
  <2> QED
    BY <2>2, <2>3, <2>4, Zenon DEF RegistryOK
<1>7. SizesOK'
  <2>1. IsFiniteSet(reqRegistry)
    BY <1>1, RequestAssumption, FS_Subset, Zenon DEF ShapeOK
  <2>2. reqRegistry' \in SUBSET reqRegistry
    BY <1>2, Zenon
  <2>3. /\ IsFiniteSet(reqRegistry') /\ Cardinality(reqRegistry') <= Cardinality(reqRegistry)
    BY <2>1, <2>2, FS_Subset, Zenon
  <2>4. Cardinality(reqRegistry') \in Nat /\ Cardinality(reqRegistry) \in Nat
    BY <2>1, <2>3, FS_CardinalityType, Zenon
  <2>5. Cardinality(reqRegistry') <= QueryLimit
    BY <1>1, <2>3, <2>4, RequestAssumption DEF SizesOK
  <2> QED
    BY <1>1, <1>2, <2>5, Zenon DEF SizesOK, dlVars
<1>8. PhaseOK(r)' /\ HonestOK(r)'
  BY <1>1, <1>2, <1>3, Zenon DEF PhaseOK, HonestOK, cancelVars, dlVars
<1>9. \A q \in Request : PhaseOK(q)' /\ HonestOK(q)'
  BY <1>2, <1>3, <1>8, EachRequest, Zenon DEF cancelVars, dlVars
<1> QED
  BY <1>4, <1>5, <1>6, <1>7, <1>9, Zenon DEF RequestInv

\* The deadline leaves the schedule, unless the thread has taken it already.
LEMMA DropDeadlineStep ==
    ASSUME RequestInv, NEW r \in Request, drop_deadline(r)
    PROVE  RequestInv'
<1>1. ShapeOK /\ PhaseOK(r) /\ HonestOK(r) /\ ScheduleOK /\ SizesOK /\ RegistryOK
  BY Parts, Zenon
<1>2. /\ reqPc[r] = "disarm" /\ reqPc' = [reqPc EXCEPT ![r] = "done"]
      /\ UNCHANGED <<cancelVars, reqNow, reqRegistry, reqState, reqTripping,
                     reqHeld, reqExpires, reqRefused, dlAvailable, dlExpired>>
  BY Zenon DEF drop_deadline
<1>3. reqPc'[r] = "done" /\ Others(r) /\ reqPc' \in [Request -> Pc]
  BY <1>1, <1>2, Zenon DEF ShapeOK, Others, Pc
<1>4. 0 \in 0 .. MaxNow
  BY RequestAssumption
<1>5. dlPc' \in {"scan", "idle", "timed", "expire", "none"} /\ dlWake' \in 0 .. MaxNow
  <2>1. CASE r \in DOMAIN dlIndex
    <3>1. dlPc' = Notified(dlPc) /\ dlWake' = IF dlPc' = "timed" THEN dlWake ELSE 0
      BY <2>1, Zenon DEF drop_deadline
    <3> QED
      BY <1>1, <1>4, <3>1, Zenon DEF ShapeOK, Notified
  <2>2. CASE r \notin DOMAIN dlIndex
    BY <1>1, <2>2, Zenon DEF drop_deadline, ShapeOK
  <2> QED
    BY <2>1, <2>2, Zenon
<1>6. ShapeOK'
  BY <1>1, <1>2, <1>3, <1>5, Zenon DEF ShapeOK, cancelVars
<1>7. /\ DOMAIN dlIndex' = DOMAIN dlIndex \ {r}
      /\ \A q \in DOMAIN dlIndex' : dlIndex'[q] = dlIndex[q]
      /\ dlSchedule' \in [0 .. MaxNow -> SUBSET Request]
      /\ \A t \in 0 .. MaxNow : dlSchedule'[t] = dlSchedule[t] \ {r}
  <2>1. CASE r \in DOMAIN dlIndex
    <3>1. /\ dlIndex' = [q \in DOMAIN dlIndex \ {r} |-> dlIndex[q]]
          /\ dlSchedule' = [dlSchedule EXCEPT ![dlIndex[r]] = dlSchedule[dlIndex[r]] \ {r}]
      BY <2>1, Zenon DEF drop_deadline, remove
    <3>2. dlIndex[r] = reqExpires[r] /\ reqExpires[r] \in 1 .. MaxNow
      BY <1>1, <2>1, Zenon DEF ScheduleOK
    <3>3. dlIndex[r] \in 0 .. MaxNow
      BY <3>2
    <3>4. /\ dlSchedule \in [0 .. MaxNow -> SUBSET Request]
          /\ \A t \in 0 .. MaxNow : r \in dlSchedule[t] => t = dlIndex[r]
      BY <1>1, <3>2, Zenon DEF ScheduleOK
    <3>5. \A t \in 0 .. MaxNow :
            dlSchedule'[t] = IF t = dlIndex[r] THEN dlSchedule[t] \ {r} ELSE dlSchedule[t]
      BY <3>1, <3>3, <3>4, Zenon
    <3>6. dlSchedule' \in [0 .. MaxNow -> SUBSET Request]
      BY <3>1, <3>3, <3>4
    <3>7. \A t \in 0 .. MaxNow : dlSchedule'[t] = dlSchedule[t] \ {r}
      BY <3>4, <3>5, Zenon
    <3>8. DOMAIN dlIndex' = DOMAIN dlIndex \ {r} /\ \A q \in DOMAIN dlIndex' : dlIndex'[q] = dlIndex[q]
      BY <3>1, Zenon
    <3> QED
      BY <3>6, <3>7, <3>8, Zenon
  <2>2. CASE r \notin DOMAIN dlIndex
    <3>1. dlIndex' = dlIndex /\ dlSchedule' = dlSchedule
      BY <2>2, Zenon DEF drop_deadline
    <3>2. /\ dlSchedule \in [0 .. MaxNow -> SUBSET Request]
          /\ \A t \in 0 .. MaxNow : r \notin dlSchedule[t]
      BY <1>1, <2>2, Zenon DEF ScheduleOK
    <3> QED
      BY <2>2, <3>1, <3>2, Zenon
  <2> QED
    BY <2>1, <2>2, Zenon
<1>8. ScheduleOK'
  <2>1. \A q \in Request : \A t \in 0 .. MaxNow :
          q \in dlSchedule'[t] <=> q \in DOMAIN dlIndex' /\ reqExpires'[q] = t
    <3> TAKE q \in Request
    <3> TAKE t \in 0 .. MaxNow
    <3>1. q \in dlSchedule[t] <=> q \in DOMAIN dlIndex /\ reqExpires[q] = t
      BY <1>1, Zenon DEF ScheduleOK
    <3>2. dlSchedule'[t] = dlSchedule[t] \ {r} /\ reqExpires'[q] = reqExpires[q]
      BY <1>2, <1>7, Zenon
    <3>3. q \in DOMAIN dlIndex' <=> q \in DOMAIN dlIndex /\ q # r
      BY <1>7, Zenon
    <3> QED
      BY <3>1, <3>2, <3>3, Zenon
  <2>2. \A q \in DOMAIN dlIndex' : /\ dlIndex'[q] = reqExpires'[q] /\ reqExpires'[q] \in 1 .. MaxNow
                                   /\ reqPc'[q] \in {"run", "drop", "disarm"}
    <3> SUFFICES ASSUME NEW q \in DOMAIN dlIndex \ {r}
                 PROVE  /\ dlIndex[q] = reqExpires[q] /\ reqExpires[q] \in 1 .. MaxNow
                        /\ reqPc'[q] \in {"run", "drop", "disarm"}
      BY <1>2, <1>7, Zenon
    <3>1. q \in Request \ {r}
      BY <1>1, Zenon DEF ScheduleOK
    <3>2. reqPc'[q] = reqPc[q]
      BY <1>3, <3>1, Zenon DEF Others
    <3> QED
      BY <1>1, <3>2, Zenon DEF ScheduleOK
  <2>3. \A q \in dlExpired' : /\ reqExpires'[q] <= reqNow'
                              /\ reqPc'[q] \in {"run", "drop", "disarm", "done"}
    BY <1>1, <1>2, <1>3, Zenon DEF ScheduleOK, Others, ShapeOK
  <2> QED
    BY <1>1, <1>7, <2>1, <2>2, <2>3, Zenon DEF ScheduleOK
<1>9. SizesOK'
  <2>1. IsFiniteSet(DOMAIN dlIndex) /\ DOMAIN dlIndex' \in SUBSET DOMAIN dlIndex
    BY <1>1, <1>7, RequestAssumption, FS_Subset, Zenon DEF ScheduleOK
  <2>2. /\ IsFiniteSet(DOMAIN dlIndex') /\ Cardinality(DOMAIN dlIndex') <= Cardinality(DOMAIN dlIndex)
    BY <2>1, FS_Subset, Zenon
  <2>3. Cardinality(DOMAIN dlIndex') \in Nat /\ Cardinality(DOMAIN dlIndex) \in Nat
    BY <2>1, <2>2, FS_CardinalityType, Zenon
  <2>4. Cardinality(DOMAIN dlIndex') <= DeadlineLimit
    BY <1>1, <2>2, <2>3, RequestAssumption DEF SizesOK
  <2> QED
    BY <1>1, <1>2, <2>4, Zenon DEF SizesOK
<1>10. RegistryOK'
  <2>1. \A q \in Request \ {r} : reqPc'[q] = reqPc[q]
    BY <1>3, Zenon DEF Others
  <2>2. \A q \in Request : q \in reqRegistry' <=>
          q \notin reqRefused' /\ reqPc'[q] \notin {"new", "disarm", "done"}
    BY <1>1, <1>2, <1>3, <2>1, Zenon DEF RegistryOK
  <2>3. \A q \in reqRefused' : reqPc'[q] # "new"
    BY <1>1, <1>2, <1>3, <2>1, Zenon DEF RegistryOK, ShapeOK
  <2>4. reqCancelling' # {} => reqCancelled'
    BY <1>1, <1>2, Zenon DEF RegistryOK, cancelVars
  <2> QED
    BY <2>2, <2>3, <2>4, Zenon DEF RegistryOK
<1>11. PhaseOK(r)'
  BY <1>1, <1>2, <1>3, Zenon DEF PhaseOK, cancelVars
<1>12. HonestOK(r)'
  BY <1>1, <1>2, <1>7, Zenon DEF HonestOK, cancelVars
<1>13. \A q \in Request : PhaseOK(q)' /\ HonestOK(q)'
  <2>1. UNCHANGED <<reqNow, reqCancelled, reqTripping>> /\ reqRefused \subseteq reqRefused'
        /\ DOMAIN dlIndex' \subseteq DOMAIN dlIndex \cup {r}
    BY <1>2, <1>7, Zenon DEF cancelVars
  <2> QED
    BY <1>3, <1>11, <1>12, <2>1, EachRequest, Zenon
<1> QED
  BY <1>6, <1>8, <1>9, <1>10, <1>13, Zenon DEF RequestInv

-----------------------------------------------------------------------------
(* The caller of cancel, and the tail of every mark.                       *)

\* The requests stand where they were, and only states and marks change.
LEMMA MarkingStep ==
    ASSUME RequestInv, UNCHANGED <<reqNow, reqPc, reqHeld, reqExpires, reqRefused, reqRegistry,
                                   dlSchedule, dlIndex>>,
           dlExpired' \in SUBSET dlExpired,
           reqCancelled => reqCancelled', reqCancelling' # {} => reqCancelled', ShapeOK',
           \A q \in Request :
             /\ HonestOK(q)'
             /\ reqState'[q].cause # reqState[q].cause =>
                  \/ reqState'[q].cause = "explicit"
                  \/ reqPc[q] \in {"run", "drop", "disarm", "done"}
    PROVE  RequestInv'
<1>1. ShapeOK /\ ScheduleOK /\ SizesOK /\ RegistryOK
  BY Zenon DEF RequestInv
<1>2. ScheduleOK'
  BY <1>1, Zenon DEF ScheduleOK
<1>3. SizesOK'
  BY <1>1, Zenon DEF SizesOK
<1>4. RegistryOK'
  BY <1>1, Zenon DEF RegistryOK
<1>5. ASSUME NEW q \in Request PROVE PhaseOK(q)'
  <2>1. PhaseOK(q)
    BY Zenon DEF RequestInv
  <2>2. CASE reqState'[q].cause = reqState[q].cause
    BY <2>1, <2>2, Zenon DEF PhaseOK
  <2>3. CASE reqState'[q].cause = "explicit"
    BY <2>1, <2>3, Zenon DEF PhaseOK
  <2>4. CASE reqPc[q] \in {"run", "drop", "disarm", "done"}
    BY <2>1, <2>4, Zenon DEF PhaseOK
  <2> QED
    BY <2>2, <2>3, <2>4, Zenon
<1> QED
  BY <1>2, <1>3, <1>4, <1>5, Zenon DEF RequestInv

LEMMA TripStep ==
    ASSUME RequestInv, NEW r \in Request, Trip(r)
    PROVE  RequestInv'
<1> DEFINE s == [reqState[r] EXCEPT !.token = TRUE]
<1>1. ShapeOK /\ HonestOK(r) /\ RegistryOK
  BY Parts, Zenon
<1>2. /\ r \in reqTripping /\ reqTripping' = reqTripping \ {r}
      /\ reqState' = [reqState EXCEPT ![r] = s]
      /\ UNCHANGED <<cancelVars, reqNow, reqRegistry, reqPc, reqHeld, reqExpires, reqRefused, dlVars>>
  BY Zenon DEF Trip
<1>3. reqState \in [Request -> State] /\ reqState[r] \in State
  BY <1>1, Zenon DEF ShapeOK
<1>4. s \in State /\ s.cause = reqState[r].cause /\ s.closed = reqState[r].closed
  BY <1>3, Zenon DEF State
<1> HIDE DEF s
<1>5. /\ reqState' \in [Request -> State] /\ reqState'[r] = s
      /\ \A q \in Request \ {r} : reqState'[q] = reqState[q]
  BY <1>2, <1>3, <1>4, Zenon
<1>6. ShapeOK'
  BY <1>1, <1>2, <1>5, Zenon DEF ShapeOK, cancelVars, dlVars
<1>7. HonestOK(r)'
  BY <1>1, <1>2, <1>4, <1>5, Zenon DEF HonestOK, cancelVars, dlVars
<1>8. \A q \in Request \ {r} : HonestOK(q)'
  <2> TAKE q \in Request \ {r}
  <2>1. HonestOK(q)
    BY Zenon DEF RequestInv
  <2>2. reqState'[q] = reqState[q] /\ q # r
    BY <1>5, Zenon
  <2>3. q \in reqTripping' <=> q \in reqTripping
    BY <1>2, <2>2
  <2>4. UNCHANGED <<reqCancelled, reqNow, reqExpires, reqRefused, dlIndex>>
    BY <1>2, Zenon DEF cancelVars, dlVars
  <2>5. q \in reqTripping' => reqState'[q].closed
    BY <2>1, <2>2, <2>3 DEF HonestOK
  <2> QED
    BY <2>1, <2>2, <2>4, <2>5 DEF HonestOK
<1>9. \A q \in Request : HonestOK(q)' /\ reqState'[q].cause = reqState[q].cause
  BY <1>4, <1>5, <1>7, <1>8, Zenon
<1>10. /\ UNCHANGED <<reqNow, reqPc, reqHeld, reqExpires, reqRefused, reqRegistry, dlSchedule, dlIndex>>
       /\ dlExpired' \in SUBSET dlExpired /\ (reqCancelled => reqCancelled')
       /\ reqCancelling' # {} => reqCancelled'
  BY <1>1, <1>2, Zenon DEF cancelVars, dlVars, RegistryOK
<1> QED
  BY <1>6, <1>9, <1>10, MarkingStep, Zenon

LEMMA CancelFlagStep ==
    ASSUME RequestInv, CancelFlag
    PROVE  RequestInv'
<1>1. ShapeOK /\ RegistryOK
  BY Zenon DEF RequestInv
<1>2. /\ reqCancelled' = TRUE
      /\ UNCHANGED <<reqNow, reqCopied, reqCancelling, reqRegistry, reqState, reqTripping, reqPc,
                     reqHeld, reqExpires, reqRefused, dlVars>>
  BY Zenon DEF CancelFlag
<1>3. ShapeOK'
  BY <1>1, <1>2, Zenon DEF ShapeOK, dlVars
<1>4. \A q \in Request : HonestOK(q)' /\ reqState'[q].cause = reqState[q].cause
  <2> TAKE q \in Request
  <2>1. HonestOK(q)
    BY Parts, Zenon
  <2> QED
    BY <1>2, <2>1, Zenon DEF HonestOK, dlVars
<1>5. /\ UNCHANGED <<reqNow, reqPc, reqHeld, reqExpires, reqRefused, reqRegistry, dlSchedule, dlIndex>>
      /\ dlExpired' \in SUBSET dlExpired
  BY <1>2, Zenon DEF dlVars
<1> QED
  BY <1>2, <1>3, <1>4, <1>5, MarkingStep, Zenon

LEMMA CancelCopyStep ==
    ASSUME RequestInv, CancelCopy
    PROVE  RequestInv'
<1>1. ShapeOK
  BY Zenon DEF RequestInv
<1>2. /\ reqCancelled /\ reqCopied' = TRUE /\ reqCancelling' = reqRegistry
      /\ UNCHANGED <<reqNow, reqCancelled, reqRegistry, reqState, reqTripping, reqPc,
                     reqHeld, reqExpires, reqRefused, dlVars>>
  BY Zenon DEF CancelCopy
<1>3. ShapeOK'
  BY <1>1, <1>2, Zenon DEF ShapeOK, dlVars
<1>4. \A q \in Request : HonestOK(q)' /\ reqState'[q].cause = reqState[q].cause
  <2> TAKE q \in Request
  <2>1. HonestOK(q)
    BY Parts, Zenon
  <2> QED
    BY <1>2, <2>1, Zenon DEF HonestOK, dlVars
<1>5. /\ UNCHANGED <<reqNow, reqPc, reqHeld, reqExpires, reqRefused, reqRegistry, dlSchedule, dlIndex>>
      /\ dlExpired' \in SUBSET dlExpired
  BY <1>2, Zenon DEF dlVars
<1> QED
  BY <1>2, <1>3, <1>4, <1>5, MarkingStep, Zenon

\* A copied request is marked as cancelled, whatever it was marked before.
LEMMA CancelMarkStep ==
    ASSUME RequestInv, NEW r \in Request, CancelMark(r)
    PROVE  RequestInv'
<1>1. ShapeOK /\ HonestOK(r) /\ RegistryOK
  BY Parts, Zenon
<1>2. /\ r \in reqCancelling /\ reqCancelling' = reqCancelling \ {r} /\ MarkState({r}, "explicit")
      /\ UNCHANGED <<reqNow, reqCancelled, reqCopied, reqRegistry, reqPc, reqHeld, reqExpires,
                     reqRefused, dlVars>>
  BY Zenon DEF CancelMark
<1>3. reqCancelled
  BY <1>1, <1>2, Zenon DEF RegistryOK
<1>4. {r} \in SUBSET Request /\ "explicit" \in Outcome /\ "explicit" # "active"
  BY Zenon DEF Outcome
<1>5. /\ reqState' \in [Request -> State] /\ reqTripping' = reqTripping \cup {r}
      /\ \A q \in Request \ {r} : reqState'[q] = reqState[q]
      /\ reqState'[r].cause = "explicit" /\ reqState'[r].closed
  BY <1>1, <1>2, <1>4, MarkStateFacts, Zenon
<1>6. ShapeOK'
  BY <1>1, <1>2, <1>5, Zenon DEF ShapeOK, dlVars
<1>7. HonestOK(r)'
  BY <1>2, <1>3, <1>5, Zenon DEF HonestOK
<1>8. \A q \in Request \ {r} : HonestOK(q)'
  <2> TAKE q \in Request \ {r}
  <2>1. HonestOK(q)
    BY Zenon DEF RequestInv
  <2>2. reqState'[q] = reqState[q] /\ q # r
    BY <1>5, Zenon
  <2>3. q \in reqTripping' <=> q \in reqTripping
    BY <1>5, <2>2
  <2>4. UNCHANGED <<reqCancelled, reqNow, reqExpires, reqRefused, dlIndex>>
    BY <1>2, Zenon DEF dlVars
  <2>5. q \in reqTripping' => reqState'[q].closed
    BY <2>1, <2>2, <2>3 DEF HonestOK
  <2> QED
    BY <2>1, <2>2, <2>4, <2>5 DEF HonestOK
<1>9. \A q \in Request : HonestOK(q)' /\ (reqState'[q].cause # reqState[q].cause => reqState'[q].cause = "explicit")
  BY <1>5, <1>7, <1>8, Zenon
<1>10. /\ UNCHANGED <<reqNow, reqPc, reqHeld, reqExpires, reqRefused, reqRegistry, dlSchedule, dlIndex>>
       /\ dlExpired' \in SUBSET dlExpired
  BY <1>2, Zenon DEF dlVars
<1> QED
  BY <1>2, <1>3, <1>6, <1>9, <1>10, MarkingStep, Zenon

-----------------------------------------------------------------------------
(* The deadline thread and the clock.                                      *)

\* The first instant of a schedule that is not empty exists.
LEMMA FirstExists ==
    ASSUME ScheduleOK, ~ \A t \in DOMAIN dlSchedule : dlSchedule[t] = {}
    PROVE  first \in 0 .. MaxNow
<1> DEFINE R == {ss \in Nat \X Nat : ss[1] < ss[2]}
           U == {t \in 0 .. MaxNow : dlSchedule[t] # {}}
<1>1. DOMAIN dlSchedule = 0 .. MaxNow
  BY Zenon DEF ScheduleOK
<1>2. U # {} /\ U \subseteq 0 .. MaxNow
  BY <1>1, Zenon
<1>3. 0 .. MaxNow \subseteq Nat
  BY RequestAssumption
<1>4. IsWellFoundedOn(R, Nat)
  BY NatLessThanWellFounded, Zenon DEF OpToRel
<1>5. \E x \in U : \A y \in U : ~ (<<y, x>> \in R)
  <2>1. U \subseteq Nat
    BY <1>2, <1>3, Zenon
  <2> HIDE DEF R, U
  <2> QED
    BY <1>2, <1>4, <2>1, WFMin, Zenon
<1>6. PICK x \in U : \A y \in U : ~ (<<y, x>> \in R)
  BY <1>5, Zenon
<1>7. \A y \in U : x <= y
  <2> SUFFICES ASSUME NEW y \in U PROVE x <= y
    BY Zenon
  <2>1. x \in Nat /\ y \in Nat
    BY <1>2, <1>3, Zenon
  <2>2. ~ (y < x)
    <3>1. <<y, x>> \in Nat \X Nat /\ <<y, x>>[1] = y /\ <<y, x>>[2] = x
      BY <2>1, Zenon
    <3> QED
      BY <1>6, <3>1, Zenon
  <2> HIDE DEF U
  <2> QED
    BY <2>1, <2>2
<1>8. \E t \in DOMAIN dlSchedule : /\ dlSchedule[t] # {}
                                   /\ \A s \in DOMAIN dlSchedule : dlSchedule[s] # {} => t <= s
  BY <1>1, <1>7, Zenon
<1> QED
  BY <1>1, <1>8, Zenon DEF first

\* The thread takes what is filed under a first instant that is reached.
LEMMA ScanStep ==
    ASSUME RequestInv, Scan
    PROVE  RequestInv'
<1>1. ShapeOK /\ ScheduleOK /\ SizesOK /\ RegistryOK
  BY Zenon DEF RequestInv
<1>2. UNCHANGED <<cancelVars, reqNow, reqRegistry, reqState, reqTripping,
                  reqPc, reqHeld, reqExpires, reqRefused, dlAvailable>>
  BY Zenon DEF Scan
<1>3. CASE UNCHANGED <<dlSchedule, dlIndex, dlExpired>>
  <2>1. dlPc' \in {"scan", "idle", "timed", "expire", "none"} /\ dlWake' \in 0 .. MaxNow
    <3>1. CASE \A t \in DOMAIN dlSchedule : dlSchedule[t] = {}
      BY <1>1, <3>1, Zenon DEF Scan, ShapeOK
    <3>2. CASE ~ \A t \in DOMAIN dlSchedule : dlSchedule[t] = {}
      <4>1. first \in 0 .. MaxNow
        BY <1>1, <3>2, FirstExists, Zenon
      <4>2. \/ dlPc' = "timed" /\ dlWake' = first
            \/ dlPc' = "expire" /\ dlWake' = dlWake
        BY <3>2, Zenon DEF Scan
      <4> QED
        BY <1>1, <4>1, <4>2, Zenon DEF ShapeOK
    <3> QED
      BY <3>1, <3>2, Zenon
  <2>2. ShapeOK'
    BY <1>1, <1>2, <1>3, <2>1, Zenon DEF ShapeOK, cancelVars
  <2>3. ASSUME NEW q \in Request PROVE HonestOK(q)' /\ reqState'[q].cause = reqState[q].cause
    <3>1. HonestOK(q)
      BY Zenon DEF RequestInv
    <3> QED
      BY <1>2, <1>3, <3>1, Zenon DEF HonestOK, cancelVars
  <2> QED
    BY <1>1, <1>2, <1>3, <2>2, <2>3, MarkingStep, Zenon DEF cancelVars, RegistryOK
<1>4. CASE ~ UNCHANGED <<dlSchedule, dlIndex, dlExpired>>
  <2> DEFINE due == dlSchedule[first] \cap DOMAIN dlIndex
  <2>1. /\ ~ \A t \in DOMAIN dlSchedule : dlSchedule[t] = {}
        /\ Reached(first) /\ dlSchedule' = [dlSchedule EXCEPT ![first] = {}]
        /\ dlIndex' = [q \in DOMAIN dlIndex \ due |-> dlIndex[q]]
        /\ dlExpired' = due /\ dlWake' = dlWake /\ dlPc' = "expire"
    BY <1>4, Zenon DEF Scan
  <2>2. first \in 0 .. MaxNow /\ first <= reqNow
    BY <1>1, <2>1, FirstExists, Zenon DEF Reached
  <2>3. due \in SUBSET DOMAIN dlIndex /\ \A q \in DOMAIN dlIndex : q \in due <=> reqExpires[q] = first
    BY <1>1, <2>2, Zenon DEF ScheduleOK
  <2> HIDE DEF due
  <2>4. /\ DOMAIN dlIndex' = DOMAIN dlIndex \ due /\ DOMAIN dlIndex \in SUBSET Request
        /\ \A q \in DOMAIN dlIndex' : dlIndex'[q] = dlIndex[q]
    BY <1>1, <2>1, Zenon DEF ScheduleOK
  <2>5. ShapeOK'
    <3>1. dlExpired' \in SUBSET Request
      BY <2>1, <2>3, <2>4, Zenon
    <3> QED
      BY <1>1, <1>2, <2>1, <3>1, Zenon DEF ShapeOK, cancelVars
  <2>6. ScheduleOK'
    <3>1. /\ dlSchedule' \in [0 .. MaxNow -> SUBSET Request]
          /\ \A t \in 0 .. MaxNow : dlSchedule'[t] = IF t = first THEN {} ELSE dlSchedule[t]
      BY <1>1, <2>1, <2>2 DEF ScheduleOK
    <3>2. \A q \in Request : \A t \in 0 .. MaxNow :
            q \in dlSchedule'[t] <=> q \in DOMAIN dlIndex' /\ reqExpires'[q] = t
      <4> TAKE q \in Request
      <4> TAKE t \in 0 .. MaxNow
      <4>1. q \in dlSchedule[t] <=> q \in DOMAIN dlIndex /\ reqExpires[q] = t
        BY <1>1, Zenon DEF ScheduleOK
      <4>2. q \in dlSchedule'[t] <=> t # first /\ q \in dlSchedule[t]
        BY <3>1, Zenon
      <4>3. q \in DOMAIN dlIndex' <=> q \in DOMAIN dlIndex /\ reqExpires[q] # first
        BY <2>3, <2>4, Zenon
      <4>4. reqExpires'[q] = reqExpires[q]
        BY <1>2, Zenon
      <4> QED
        BY <4>1, <4>2, <4>3, <4>4, Zenon
    <3>3. \A q \in DOMAIN dlIndex' : /\ dlIndex'[q] = reqExpires'[q] /\ reqExpires'[q] \in 1 .. MaxNow
                                     /\ reqPc'[q] \in {"run", "drop", "disarm"}
      BY <1>1, <1>2, <2>4, Zenon DEF ScheduleOK
    <3>4. \A q \in dlExpired' : /\ reqExpires'[q] <= reqNow'
                                /\ reqPc'[q] \in {"run", "drop", "disarm", "done"}
      BY <1>1, <1>2, <2>1, <2>2, <2>3, Zenon DEF ScheduleOK
    <3>5. DOMAIN dlIndex' \in SUBSET Request
      BY <2>4, Zenon
    <3> QED
      BY <3>1, <3>2, <3>3, <3>4, <3>5, Zenon DEF ScheduleOK
  <2>7. SizesOK'
    <3>1. IsFiniteSet(DOMAIN dlIndex) /\ DOMAIN dlIndex' \in SUBSET DOMAIN dlIndex
      BY <2>4, RequestAssumption, FS_Subset, Zenon
    <3>2. /\ IsFiniteSet(DOMAIN dlIndex') /\ Cardinality(DOMAIN dlIndex') <= Cardinality(DOMAIN dlIndex)
      BY <3>1, FS_Subset, Zenon
    <3>3. Cardinality(DOMAIN dlIndex') \in Nat /\ Cardinality(DOMAIN dlIndex) \in Nat
      BY <3>1, <3>2, FS_CardinalityType, Zenon
    <3>4. Cardinality(DOMAIN dlIndex') <= DeadlineLimit
      BY <1>1, <3>2, <3>3, RequestAssumption DEF SizesOK
    <3> QED
      BY <1>1, <1>2, <3>4, Zenon DEF SizesOK
  <2>8. RegistryOK'
    BY <1>1, <1>2, Zenon DEF RegistryOK, cancelVars
  <2>9. ASSUME NEW q \in Request PROVE PhaseOK(q)' /\ HonestOK(q)'
    <3>1. HonestOK(q) /\ PhaseOK(q)
      BY Zenon DEF RequestInv
    <3>2. PhaseOK(q)'
      BY <1>2, <3>1, Zenon DEF PhaseOK, cancelVars
    <3>3. q \in DOMAIN dlIndex' => q \in DOMAIN dlIndex
      BY <2>4, Zenon
    <3>4. HonestOK(q)'
      BY <1>2, <3>1, <3>3, Zenon DEF HonestOK, cancelVars
    <3> QED
      BY <3>2, <3>4, Zenon
  <2> QED
    BY <2>5, <2>6, <2>7, <2>8, <2>9, Zenon DEF RequestInv
<1> QED
  BY <1>3, <1>4, Zenon

\* The thread is missing, or wakes up.
LEMMA ThreadStep ==
    ASSUME RequestInv, SpawnFails \/ WaitEnds
    PROVE  RequestInv'
<1>1. ShapeOK /\ RegistryOK
  BY Zenon DEF RequestInv
<1>2. /\ UNCHANGED <<cancelVars, reqNow, reqRegistry, reqState, reqTripping, reqPc, reqHeld,
                     reqExpires, reqRefused, dlSchedule, dlIndex, dlExpired>>
      /\ dlAvailable' \in {dlAvailable, FALSE} /\ dlPc' \in {"none", "scan"} /\ dlWake' \in {dlWake, 0}
  BY Zenon DEF SpawnFails, WaitEnds
<1>3. 0 \in 0 .. MaxNow
  BY RequestAssumption
<1>4. ShapeOK'
  <2>1. dlAvailable' \in BOOLEAN /\ dlWake' \in 0 .. MaxNow
        /\ dlPc' \in {"scan", "idle", "timed", "expire", "none"}
    BY <1>1, <1>2, <1>3, Zenon DEF ShapeOK
  <2> QED
    BY <1>1, <1>2, <2>1, Zenon DEF ShapeOK, cancelVars
<1>5. ASSUME NEW q \in Request PROVE HonestOK(q)' /\ reqState'[q].cause = reqState[q].cause
  <2>1. HonestOK(q)
    BY Zenon DEF RequestInv
  <2> QED
    BY <1>2, <2>1, Zenon DEF HonestOK, cancelVars
<1>6. /\ UNCHANGED <<reqNow, reqPc, reqHeld, reqExpires, reqRefused, reqRegistry, dlSchedule, dlIndex>>
      /\ dlExpired' \in SUBSET dlExpired /\ (reqCancelled => reqCancelled')
      /\ reqCancelling' # {} => reqCancelled'
  BY <1>1, <1>2, Zenon DEF cancelVars, RegistryOK
<1> QED
  BY <1>4, <1>5, <1>6, MarkingStep, Zenon

\* The thread marks what it has taken, after it released the lock.
LEMMA ExpireStep ==
    ASSUME RequestInv, Expire
    PROVE  RequestInv'
<1>1. ShapeOK /\ RegistryOK /\ ScheduleOK /\ dlExpired \in SUBSET Request
  BY Zenon DEF RequestInv, ShapeOK
<1>2. /\ MarkState(dlExpired, "deadline") /\ dlExpired' = {} /\ dlPc' = "scan"
      /\ UNCHANGED <<cancelVars, reqNow, reqRegistry, reqPc, reqHeld, reqExpires, reqRefused,
                     dlSchedule, dlIndex, dlAvailable, dlWake>>
  BY Zenon DEF Expire
<1>3. "deadline" \in Outcome /\ "deadline" # "active" /\ "deadline" # "explicit"
  BY Zenon DEF Outcome
<1>4. /\ reqState' \in [Request -> State] /\ reqTripping' = reqTripping \cup dlExpired
      /\ \A q \in Request \ dlExpired : reqState'[q] = reqState[q]
      /\ \A q \in dlExpired : HonestOK(q) =>
           /\ reqState'[q].cause = IF "deadline" = "explicit" \/ reqState[q].cause = "active"
                                   THEN "deadline" ELSE reqState[q].cause
           /\ reqState'[q].closed <=> reqState'[q].cause # "active"
           /\ reqState'[q].token => reqState'[q].closed
           /\ reqState'[q].closed
  BY <1>1, <1>2, <1>3, MarkStateFacts, Zenon
<1>5. ShapeOK'
  BY <1>1, <1>2, <1>4, Zenon DEF ShapeOK, cancelVars
<1>6. UNCHANGED <<reqCancelled, reqNow, reqExpires, reqRefused, dlIndex>>
  BY <1>2, Zenon DEF cancelVars
<1>7. ASSUME NEW q \in Request
      PROVE  /\ HonestOK(q)'
             /\ reqState'[q].cause # reqState[q].cause => reqPc[q] \in {"run", "drop", "disarm", "done"}
  <2>1. HonestOK(q)
    BY Zenon DEF RequestInv
  <2>2. CASE q \in dlExpired
    <3>1. reqExpires[q] <= reqNow /\ reqPc[q] \in {"run", "drop", "disarm", "done"}
      BY <1>1, <2>2, Zenon DEF ScheduleOK
    <3>2. /\ reqState'[q].cause \in {"deadline", reqState[q].cause}
          /\ reqState'[q].closed <=> reqState'[q].cause # "active"
          /\ reqState'[q].token => reqState'[q].closed
          /\ reqState'[q].closed
      BY <1>4, <2>1, <2>2, Zenon
    <3>3. HonestOK(q)'
      <4>1. CASE reqState'[q].cause = "deadline"
        BY <1>6, <3>1, <3>2, <4>1, Zenon DEF HonestOK
      <4>2. CASE reqState'[q].cause = reqState[q].cause
        BY <1>6, <2>1, <3>2, <4>2, Zenon DEF HonestOK
      <4> QED
        BY <3>2, <4>1, <4>2, Zenon
    <3> QED
      BY <3>1, <3>3, Zenon
  <2>3. CASE q \notin dlExpired
    <3>1. reqState'[q] = reqState[q] /\ (q \in reqTripping' => q \in reqTripping)
      BY <1>4, <2>3
    <3>2. q \in reqTripping' => reqState'[q].closed
      BY <2>1, <3>1 DEF HonestOK
    <3> QED
      BY <1>6, <2>1, <3>1, <3>2 DEF HonestOK
  <2> QED
    BY <2>2, <2>3, Zenon
<1>8. /\ UNCHANGED <<reqNow, reqPc, reqHeld, reqExpires, reqRefused, reqRegistry, dlSchedule, dlIndex>>
      /\ dlExpired' \in SUBSET dlExpired /\ (reqCancelled => reqCancelled')
      /\ reqCancelling' # {} => reqCancelled'
  BY <1>1, <1>2, Zenon DEF cancelVars, RegistryOK
<1> QED
  BY <1>5, <1>7, <1>8, MarkingStep, Zenon

LEMMA TickStep ==
    ASSUME RequestInv, Tick
    PROVE  RequestInv'
<1>1. ShapeOK /\ RegistryOK /\ ScheduleOK /\ SizesOK
  BY Zenon DEF RequestInv
<1>2. /\ reqNow < MaxNow /\ reqNow' = reqNow + 1
      /\ UNCHANGED <<cancelVars, reqRegistry, reqState, reqTripping, reqPc, reqHeld, reqExpires,
                     reqRefused, dlVars>>
  BY Zenon DEF Tick
<1>3. reqNow \in 1 .. MaxNow /\ reqExpires \in [Request -> 0 .. Never] /\ dlExpired \in SUBSET Request
  BY <1>1, Zenon DEF ShapeOK
<1>4. reqNow' \in 1 .. MaxNow
  BY <1>2, <1>3, RequestAssumption
<1>5. \A q \in Request : reqExpires[q] <= reqNow => reqExpires'[q] <= reqNow'
  <2> TAKE q \in Request
  <2>1. reqExpires[q] \in 0 .. Never /\ reqExpires'[q] = reqExpires[q]
    BY <1>2, <1>3, Zenon
  <2> QED
    BY <1>2, <1>3, <2>1, RequestAssumption DEF Never
<1>6. ShapeOK'
  BY <1>1, <1>2, <1>4, Zenon DEF ShapeOK, cancelVars, dlVars
<1>7. ScheduleOK'
  <2>1. \A q \in dlExpired' : /\ reqExpires'[q] <= reqNow'
                              /\ reqPc'[q] \in {"run", "drop", "disarm", "done"}
    BY <1>1, <1>2, <1>3, <1>5, Zenon DEF ScheduleOK, dlVars
  <2> QED
    BY <1>1, <1>2, <2>1, Zenon DEF ScheduleOK, dlVars
<1>8. SizesOK' /\ RegistryOK'
  BY <1>1, <1>2, Zenon DEF SizesOK, RegistryOK, dlVars, cancelVars
<1>9. ASSUME NEW q \in Request PROVE PhaseOK(q)' /\ HonestOK(q)'
  <2>1. HonestOK(q) /\ PhaseOK(q)
    BY Zenon DEF RequestInv
  <2>2. PhaseOK(q)'
    BY <1>2, <2>1, Zenon DEF PhaseOK, cancelVars
  <2>3. UNCHANGED <<reqCancelled, reqState, reqRefused, dlIndex, reqTripping>>
    BY <1>2, Zenon DEF cancelVars, dlVars
  <2>4. HonestOK(q)'
    BY <1>5, <2>1, <2>3, Zenon DEF HonestOK
  <2> QED
    BY <2>2, <2>4, Zenon
<1> QED
  BY <1>6, <1>7, <1>8, <1>9, Zenon DEF RequestInv

-----------------------------------------------------------------------------
(* The invariant.                                                          *)

LEMMA RequestInitOK == RequestInit => RequestInv
<1> SUFFICES ASSUME RequestInit PROVE RequestInv
  BY Zenon
<1>1. 1 \in 1 .. MaxNow /\ 0 \in 0 .. MaxNow /\ Never \in 0 .. Never
  BY RequestAssumption DEF Never
<1>2. ShapeOK
  <2>1. [cause |-> "active", closed |-> FALSE, token |-> FALSE] \in State /\ "active" \in Outcome
    BY Zenon DEF State, Outcome
  <2>2. reqState \in [Request -> State] /\ reqHeld \in [Request -> Outcome]
    BY <2>1, Zenon DEF RequestInit
  <2>3. reqPc \in [Request -> Pc] /\ reqExpires \in [Request -> 0 .. Never]
    BY <1>1, Zenon DEF RequestInit, Pc
  <2> QED
    BY <1>1, <2>2, <2>3, Zenon DEF RequestInit, ShapeOK
<1>3. DOMAIN dlIndex = {} /\ reqRegistry = {} /\ reqRefused = {} /\ reqTripping = {}
      /\ reqCancelling = {} /\ dlExpired = {}
  BY Zenon DEF RequestInit
<1>4. ScheduleOK
  <2>1. dlSchedule \in [0 .. MaxNow -> SUBSET Request] /\ \A t \in 0 .. MaxNow : dlSchedule[t] = {}
    BY Zenon DEF RequestInit
  <2> QED
    BY <1>3, <2>1, Zenon DEF ScheduleOK
<1>5. SizesOK
  <2>1. Cardinality(reqRegistry) = 0 /\ Cardinality(DOMAIN dlIndex) = 0
    BY <1>3, FS_EmptySet, Zenon
  <2> QED
    BY <2>1, RequestAssumption DEF SizesOK
<1>6. RegistryOK
  BY <1>3, Zenon DEF RegistryOK, RequestInit
<1>7. ASSUME NEW r \in Request PROVE PhaseOK(r) /\ HonestOK(r)
  <2>1. /\ reqState[r] = [cause |-> "active", closed |-> FALSE, token |-> FALSE]
        /\ reqHeld[r] = "active" /\ reqPc[r] = "new"
    BY Zenon DEF RequestInit
  <2>2. reqState[r].cause = "active" /\ reqState[r].closed = FALSE /\ reqState[r].token = FALSE
    BY <2>1
  <2> QED
    BY <1>3, <2>1, <2>2 DEF PhaseOK, HonestOK
<1> QED
  BY <1>2, <1>4, <1>5, <1>6, <1>7, Zenon DEF RequestInv

LEMMA RequestNextOK == RequestInv /\ [RequestNext]_reqVars => RequestInv'
<1> SUFFICES ASSUME RequestInv, [RequestNext]_reqVars PROVE RequestInv'
  BY Zenon
<1>1. CASE UNCHANGED reqVars
  <2>1. ShapeOK /\ ScheduleOK /\ SizesOK /\ RegistryOK /\ \A r \in Request : PhaseOK(r) /\ HonestOK(r)
    BY Zenon DEF RequestInv
  <2>2. ShapeOK' /\ ScheduleOK'
    BY <1>1, <2>1, Zenon DEF reqVars, ShapeOK, ScheduleOK
  <2>3. SizesOK' /\ RegistryOK'
    BY <1>1, <2>1, Zenon DEF reqVars, SizesOK, RegistryOK
  <2>4. \A r \in Request : PhaseOK(r)' /\ HonestOK(r)'
    BY <1>1, <2>1, Zenon DEF reqVars, PhaseOK, HonestOK
  <2> QED
    BY <2>2, <2>3, <2>4, Zenon DEF RequestInv
<1>2. ASSUME NEW r \in Request, RequestStep(r) PROVE RequestInv'
  <2>1. CASE register_with_limit(r)
    BY <2>1, RegisterStep, Zenon
  <2>2. CASE ChooseOutcome(r) \/ MarkRegistration(r)
    BY <2>2, ChooseOutcomeStep, MarkRegistrationStep, Zenon
  <2>3. CASE StartClock(r) \/ CheckDue(r) \/ admit(r)
    BY <2>3, StartClockStep, CheckDueStep, AdmitStep, Zenon
  <2>4. CASE Poll(r)
    BY <2>4, EndRunStep, Zenon
  <2>5. CASE drop_registration(r) \/ drop_deadline(r)
    BY <2>5, DropRegistrationStep, DropDeadlineStep, Zenon
  <2> QED
    BY <1>2, <2>1, <2>2, <2>3, <2>4, <2>5, Zenon DEF RequestStep
<1>3. ASSUME NEW r \in Request, Complete(r) \/ Trip(r) \/ CancelMark(r) PROVE RequestInv'
  BY <1>3, EndRunStep, TripStep, CancelMarkStep, Zenon
<1>4. CASE CancelFlag \/ CancelCopy
  BY <1>4, CancelFlagStep, CancelCopyStep, Zenon
<1>5. CASE SpawnFails \/ Scan \/ WaitEnds \/ Expire
  BY <1>5, ThreadStep, ScanStep, ExpireStep, Zenon
<1>6. CASE Tick
  BY <1>6, TickStep, Zenon
<1> QED
  BY <1>1, <1>2, <1>3, <1>4, <1>5, <1>6, Zenon DEF RequestNext

\* In every interleaving of requests, the caller of cancel and the deadline thread, the
\* registry, the schedule, its index and the marked states agree with where each request
\* stands.
THEOREM RequestInvariance == RequestSpec => []RequestInv
  BY RequestInitOK, RequestNextOK, PTL DEF RequestSpec

\* The request state is well formed, and the two tables never outgrow
\* MAX_QUERY_REGISTRATIONS and MAX_DEADLINE_REGISTRATIONS.
THEOREM TablesAreBounded == RequestSpec => []RequestTypeOK
<1>1. RequestInv => RequestTypeOK
  <2> SUFFICES ASSUME RequestInv PROVE RequestTypeOK
    BY Zenon
  <2>1. ShapeOK /\ ScheduleOK /\ SizesOK
    BY Zenon DEF RequestInv
  <2>2. \A r \in DOMAIN dlIndex : dlIndex[r] \in 0 .. MaxNow
    <3> SUFFICES ASSUME NEW r \in DOMAIN dlIndex PROVE dlIndex[r] \in 0 .. MaxNow
      BY Zenon
    <3>1. dlIndex[r] = reqExpires[r] /\ reqExpires[r] \in 1 .. MaxNow
      BY <2>1, Zenon DEF ScheduleOK
    <3> QED
      BY <3>1
  <2> QED
    BY <2>1, <2>2, Zenon DEF ShapeOK, ScheduleOK, SizesOK, RequestTypeOK, State, Pc
<1> QED
  BY <1>1, RequestInvariance, PTL

\* CancelRegistration::drop and DeadlineRegistration::drop give back exactly what
\* register_with_limit and DeadlineSchedule::admit took, whatever cancels or expires in
\* between: a request that is done is in no table.
THEOREM RegistrationsExact == RequestSpec => []RegistrationsAreExact
<1>1. RequestInv => RegistrationsAreExact
  <2> SUFFICES ASSUME RequestInv PROVE RegistrationsAreExact
    BY Zenon
  <2>1. ShapeOK /\ ScheduleOK /\ RegistryOK
    BY Zenon DEF RequestInv
  <2>2. reqRegistry = {r \in Request \ reqRefused : reqPc[r] \notin {"new", "disarm", "done"}}
    BY <2>1, Zenon DEF RegistryOK, ShapeOK
  <2>3. \A r \in Request : \A t \in DOMAIN dlSchedule :
          r \in dlSchedule[t] <=> r \in DOMAIN dlIndex /\ dlIndex[r] = t
    <3>1. DOMAIN dlSchedule = 0 .. MaxNow /\ \A r \in DOMAIN dlIndex : dlIndex[r] = reqExpires[r]
      BY <2>1, Zenon DEF ScheduleOK
    <3>2. \A r \in Request : \A t \in 0 .. MaxNow :
            r \in dlSchedule[t] <=> r \in DOMAIN dlIndex /\ reqExpires[r] = t
      BY <2>1, Zenon DEF ScheduleOK
    <3> QED
      BY <3>1, <3>2, Zenon
  <2>4. \A r \in DOMAIN dlIndex : reqPc[r] \in {"run", "drop", "disarm"}
    BY <2>1, Zenon DEF ScheduleOK
  <2> QED
    BY <2>2, <2>3, <2>4, Zenon DEF RegistrationsAreExact
<1> QED
  BY <1>1, RequestInvariance, PTL

\* RequestState::mark and the order of RequestClock::start, `cancel` and run_deadlines keep
\* every outcome true: no request is reported as cancelled, late or refused without cause,
\* and no evaluator token is cancelled in front of the state that explains it.
THEOREM HonestOutcomes == RequestSpec => []OutcomeIsHonest
<1>1. RequestInv => OutcomeIsHonest
  BY Zenon DEF RequestInv, HonestOK, OutcomeIsHonest
<1> QED
  BY <1>1, RequestInvariance, PTL

\* Every step marks at most through RequestState::mark, or cancels a token.
LEMMA StepMarks ==
    ASSUME RequestInv, RequestNext
    PROVE  \/ reqState' = reqState
           \/ \E q \in Request, o \in Outcome : MarkOwn(q, o)
           \/ \E q \in Request : Trip(q)
           \/ \E S \in SUBSET Request, o \in Outcome \ {"active"} : MarkState(S, o)
<1>1. reqHeld \in [Request -> Outcome] /\ dlExpired \in SUBSET Request
  BY Zenon DEF RequestInv, ShapeOK
<1>2. {"active", "explicit", "deadline", "deadline_unavailable", "deadline_capacity"} \subseteq Outcome
  BY Zenon DEF Outcome
<1>3. ASSUME NEW r \in Request, RequestStep(r)
      PROVE  reqState' = reqState \/ \E q \in Request, o \in Outcome : MarkOwn(q, o)
  <2>1. CASE register_with_limit(r) \/ ChooseOutcome(r) \/ Poll(r) \/ drop_registration(r) \/ drop_deadline(r)
    BY <2>1, Zenon DEF register_with_limit, ChooseOutcome, Poll, drop_registration, drop_deadline
  <2>2. CASE MarkRegistration(r)
    BY <1>1, <2>2, Zenon DEF MarkRegistration
  <2>3. CASE StartClock(r)
    <3>1. PICK e \in 0 .. Never : MarkOwn(r, IF e = 0 THEN "deadline" ELSE "active")
      BY <2>3, Zenon DEF StartClock
    <3> QED
      BY <1>2, <3>1, Zenon
  <2>4. CASE CheckDue(r)
    <3>1. MarkOwn(r, IF reqExpires[r] <= reqNow THEN "deadline"
                     ELSE IF ~dlAvailable THEN "deadline_unavailable" ELSE "active")
      BY <2>4, Zenon DEF CheckDue
    <3> QED
      BY <1>2, <3>1, Zenon
  <2>5. CASE admit(r)
    <3>1. MarkOwn(r, "deadline_capacity") \/ reqState' = reqState
      BY <2>5, Zenon DEF admit
    <3> QED
      BY <1>2, <3>1, Zenon
  <2> QED
    BY <1>3, <2>1, <2>2, <2>3, <2>4, <2>5, Zenon DEF RequestStep
<1>4. ASSUME NEW r \in Request, Complete(r) PROVE reqState' = reqState
  BY <1>4, Zenon DEF Complete
<1>5. ASSUME NEW r \in Request, CancelMark(r)
      PROVE  \E S \in SUBSET Request, o \in Outcome \ {"active"} : MarkState(S, o)
  <2>1. MarkState({r}, "explicit") /\ {r} \in SUBSET Request /\ "explicit" \in Outcome \ {"active"}
    BY <1>2, <1>5, Zenon DEF CancelMark
  <2> QED
    BY <2>1, Zenon
<1>6. CASE Expire
  <2>1. MarkState(dlExpired, "deadline") /\ "deadline" \in Outcome \ {"active"}
    BY <1>2, <1>6, Zenon DEF Expire
  <2> QED
    BY <1>1, <2>1, Zenon
<1>7. CASE CancelFlag \/ CancelCopy \/ SpawnFails \/ Scan \/ WaitEnds \/ Tick
  BY <1>7, Zenon DEF CancelFlag, CancelCopy, SpawnFails, Scan, WaitEnds, Tick
<1> QED
  BY <1>3, <1>4, <1>5, <1>6, <1>7, Zenon DEF RequestNext

\* An outcome that a request has reached is never taken back and never replaced, but by the
\* explicit cancellation that RequestState::mark lets win.
THEOREM OutcomesStand == RequestSpec => OutcomeStands
<1>1. ASSUME RequestInv, [RequestNext]_reqVars, NEW r \in Request, reqState[r].cause # "active"
      PROVE  reqState'[r].cause \in {reqState[r].cause, "explicit"}
  <2>1. ShapeOK /\ \A q \in Request : HonestOK(q)
    BY <1>1, Zenon DEF RequestInv
  <2>2. CASE reqState' = reqState
    BY <2>2, Zenon
  <2>3. ASSUME NEW q \in Request, NEW o \in Outcome, MarkOwn(q, o)
        PROVE  reqState'[r].cause \in {reqState[r].cause, "explicit"}
    <3>1. /\ \A p \in Request \ {q} : reqState'[p] = reqState[p]
          /\ reqState'[q].cause = IF o = "explicit" \/ reqState[q].cause = "active"
                                  THEN o ELSE reqState[q].cause
      BY <2>1, <2>3, MarkOwnFacts, Zenon
    <3>2. CASE q = r
      BY <1>1, <3>1, <3>2, Zenon
    <3>3. CASE q # r
      BY <3>1, <3>3, Zenon
    <3> QED
      BY <3>2, <3>3, Zenon
  <2>4. ASSUME NEW q \in Request, Trip(q)
        PROVE  reqState'[r].cause \in {reqState[r].cause, "explicit"}
    <3>1. reqState \in [Request -> State] /\ reqState[q] \in State
      BY <2>1, Zenon DEF ShapeOK
    <3>2. reqState' = [reqState EXCEPT ![q] = [reqState[q] EXCEPT !.token = TRUE]]
      BY <2>4, Zenon DEF Trip
    <3>3. [reqState[q] EXCEPT !.token = TRUE].cause = reqState[q].cause
      BY <3>1, Zenon DEF State
    <3> QED
      BY <3>1, <3>2, <3>3, Zenon
  <2>5. ASSUME NEW S \in SUBSET Request, NEW o \in Outcome \ {"active"}, MarkState(S, o)
        PROVE  reqState'[r].cause \in {reqState[r].cause, "explicit"}
    <3>1. o \in Outcome /\ o # "active"
      BY Zenon
    <3>2. /\ \A q \in Request \ S : reqState'[q] = reqState[q]
          /\ \A q \in S : HonestOK(q) =>
               reqState'[q].cause = IF o = "explicit" \/ reqState[q].cause = "active"
                                    THEN o ELSE reqState[q].cause
      BY <2>1, <2>5, <3>1, MarkStateFacts, Zenon
    <3> QED
      BY <1>1, <2>1, <3>2, Zenon
  <2>6. CASE RequestNext
    BY <1>1, <2>2, <2>3, <2>4, <2>5, <2>6, StepMarks, Zenon
  <2>7. CASE UNCHANGED reqVars
    BY <2>2, <2>7, Zenon DEF reqVars
  <2> QED
    BY <1>1, <2>6, <2>7, Zenon
<1>2. RequestInv /\ [RequestNext]_reqVars =>
        [\A r \in Request : reqState[r].cause # "active" =>
           reqState'[r].cause \in {reqState[r].cause, "explicit"}]_reqVars
  BY <1>1, Zenon
<1> QED
  BY <1>2, RequestInvariance, PTL DEF RequestSpec, OutcomeStands

=============================================================================
