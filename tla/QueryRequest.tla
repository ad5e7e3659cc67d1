---------------------------- MODULE QueryRequest ----------------------------
(***************************************************************************)
(* The life of a query request (query/context.rs, query/deadline.rs, the   *)
(* clock part of query/budget.rs).  Requests share one cancellation handle *)
(* and the process-wide deadline service.  A request registers with the    *)
(* handle, arms its deadline, runs and polls its clock, and on its way out *)
(* drops both registrations.  Three kinds of thread meet here: the         *)
(* requests, the caller of `cancel`, and the deadline thread.              *)
(*                                                                         *)
(* Each step is one critical section or one atomic access of the code, so  *)
(* every interleaving of the locks and flags is explored.  Time is a       *)
(* counter that advances up to MaxNow.                                     *)
(***************************************************************************)
EXTENDS Naturals, FiniteSets

CONSTANTS
    Request,            \* the requests, each run once
    QueryLimit,         \* MAX_QUERY_REGISTRATIONS
    DeadlineLimit,      \* MAX_DEADLINE_REGISTRATIONS
    MaxNow              \* bound on the clock

ASSUME RequestAssumption ==
    /\ IsFiniteSet(Request)
    /\ QueryLimit \in Nat /\ DeadlineLimit \in Nat /\ MaxNow \in Nat \ {0}

Never == MaxNow + 1     \* no timeout: `expires` is None
Outcome == {"active", "explicit", "deadline", "query_capacity",
            "deadline_capacity", "deadline_unavailable"}

VARIABLES
    reqNow,        \* Instant::now()
    reqCancelled,  \* QueryCancellationInner.cancelled
    reqCopied,     \* `cancel` has copied the registry
    reqCancelling, \* states it has copied and still has to mark
    reqRegistry,   \* CancellationRegistry.evaluators: the requests in it
    reqState,      \* RequestState: cause, closed flag, evaluator token
    reqTripping,   \* marked states whose token is not cancelled yet
    reqPc,         \* where each request stands
    reqHeld,       \* outcome its registration has chosen and not yet marked
    reqExpires,    \* the deadline it asked for; 0 when it overflows Instant
    reqRefused,    \* requests the registry did not take
    dlSchedule,    \* DeadlineSchedule: the requests filed under each instant
    dlIndex,       \* DeadlineSchedule.index: request -> instant
    dlAvailable,   \* DeadlineService.available: the thread could be spawned
    dlPc,          \* the deadline thread
    dlWake,        \* the instant its timed wait ends at
    dlExpired      \* states it has popped and still has to mark

reqVars == <<reqNow, reqCancelled, reqCopied, reqCancelling, reqRegistry,
             reqState, reqTripping, reqPc, reqHeld, reqExpires, reqRefused,
             dlSchedule, dlIndex, dlAvailable, dlPc, dlWake, dlExpired>>

cancelVars == <<reqCancelled, reqCopied, reqCancelling>>
dlVars == <<dlSchedule, dlIndex, dlAvailable, dlPc, dlWake, dlExpired>>

RequestInit ==
    /\ reqNow = 1
    /\ reqCancelled = FALSE /\ reqCopied = FALSE /\ reqCancelling = {}
    /\ reqRegistry = {}
    /\ reqState = [r \in Request |->
                     [cause |-> "active", closed |-> FALSE, token |-> FALSE]]
    /\ reqTripping = {}
    /\ reqPc = [r \in Request |-> "new"]
    /\ reqHeld = [r \in Request |-> "active"]
    /\ reqExpires = [r \in Request |-> Never]
    /\ reqRefused = {}
    /\ dlSchedule = [t \in 0 .. MaxNow |-> {}]
    /\ dlIndex = [r \in {} |-> 0]
    /\ dlAvailable = TRUE
    /\ dlPc = "scan" /\ dlWake = 0 /\ dlExpired = {}

-----------------------------------------------------------------------------
(* RequestState::mark, the part under the lock: explicit cancellation      *)
(* always wins, any other outcome only replaces Active.  The token is      *)
(* cancelled after the lock is dropped (Trip).                             *)

\* Faulty: the last outcome marked wins.
mark_last(state, outcome) ==
    IF outcome = "active" THEN state
    ELSE [state EXCEPT !.cause = outcome, !.closed = TRUE]
mark(state, outcome) ==
    LET cause == IF outcome = "explicit" \/ state.cause = "active"
                 THEN outcome ELSE state.cause
    IN  [state EXCEPT !.cause = cause, !.closed = @ \/ cause # "active"]

\* RequestState::outcome: the flag first, the cause only once it is set.
outcome_of(state) == IF state.closed THEN state.cause ELSE "active"

\* RequestClock::outcome: an explicit cancellation overrides what was marked.
clock_outcome(r) ==
    IF reqCancelled THEN "explicit" ELSE outcome_of(reqState[r])

\* A request marks its own state before anything polls its token.
MarkOwn(r, outcome) ==
    LET marked == mark(reqState[r], outcome)
    IN  reqState' = [reqState EXCEPT ![r] =
                       [marked EXCEPT !.token = @ \/ outcome # "active"]]

\* Another thread marks it; the token follows in a step of its own.
MarkState(states, outcome) ==
    /\ reqState' = [r \in Request |->
                      IF r \in states THEN mark(reqState[r], outcome)
                      ELSE reqState[r]]
    /\ reqTripping' = IF outcome = "active" THEN reqTripping
                      ELSE reqTripping \cup states

\* The tail of `mark`: evaluator.cancel().
Trip(r) ==
    /\ r \in reqTripping
    /\ reqTripping' = reqTripping \ {r}
    /\ reqState' = [reqState EXCEPT ![r].token = TRUE]
    /\ UNCHANGED <<cancelVars, reqNow, reqRegistry, reqPc, reqHeld,
                   reqExpires, reqRefused, dlVars>>

-----------------------------------------------------------------------------
(* The caller of QueryCancellation::cancel.                                *)

\* The registry lock: only register_with_limit holds it over two steps.
RegistryFree == \A r \in Request : reqPc[r] # "locked"

\* cancelled.store(true): from here on new registrations are refused.
CancelFlag ==
    /\ ~reqCancelled
    /\ reqCancelled' = TRUE
    /\ UNCHANGED <<reqNow, reqCopied, reqCancelling, reqRegistry,
                   reqState, reqTripping, reqPc, reqHeld, reqExpires,
                   reqRefused, dlVars>>

\* The states are copied under the registry lock ...
CancelCopy ==
    /\ reqCancelled /\ ~reqCopied /\ RegistryFree
    /\ reqCopied' = TRUE
    /\ reqCancelling' = reqRegistry
    /\ UNCHANGED <<reqNow, reqCancelled, reqRegistry, reqState,
                   reqTripping, reqPc, reqHeld, reqExpires, reqRefused,
                   dlVars>>

\* ... and marked one by one without it.
CancelMark(r) ==
    /\ r \in reqCancelling
    /\ reqCancelling' = reqCancelling \ {r}
    /\ MarkState({r}, "explicit")
    /\ UNCHANGED <<reqNow, reqCancelled, reqCopied, reqRegistry, reqPc,
                   reqHeld, reqExpires, reqRefused, dlVars>>

-----------------------------------------------------------------------------
(* A request: RequestClock::start, its polls, and the drop of its clock.   *)

\* Faulty: the registry is not bounded.
Admits_any(registry) == ~reqCancelled
\* register_with_limit admits while not cancelled and below the limit.
Admits(registry) == ~reqCancelled /\ Cardinality(registry) < QueryLimit

\* register_with_limit, under the registry lock: an id or none ...
register_with_limit(r) ==
    /\ reqPc[r] = "new" /\ RegistryFree
    /\ IF Admits(reqRegistry)
       THEN reqRegistry' = reqRegistry \cup {r} /\ UNCHANGED reqRefused
       ELSE reqRefused' = reqRefused \cup {r} /\ UNCHANGED reqRegistry
    /\ reqPc' = [reqPc EXCEPT ![r] = "locked"]
    /\ UNCHANGED <<cancelVars, reqNow, reqState, reqTripping, reqHeld,
                   reqExpires, dlVars>>

\* ... then the outcome; the flag is read again and may have been raised.
ChooseOutcome(r) ==
    /\ reqPc[r] = "locked"
    /\ reqHeld' = [reqHeld EXCEPT ![r] =
                     IF reqCancelled THEN "explicit"
                     ELSE IF r \in reqRefused THEN "query_capacity"
                     ELSE "active"]
    /\ reqPc' = [reqPc EXCEPT ![r] = "mark"]
    /\ UNCHANGED <<cancelVars, reqNow, reqRegistry, reqState, reqTripping,
                   reqExpires, reqRefused, dlVars>>

\* The outcome chosen under the lock is marked after it is released.
MarkRegistration(r) ==
    /\ reqPc[r] = "mark"
    /\ MarkOwn(r, reqHeld[r])
    /\ reqHeld' = [reqHeld EXCEPT ![r] = "active"]
    /\ reqPc' = [reqPc EXCEPT ![r] = "start"]
    /\ UNCHANGED <<cancelVars, reqNow, reqRegistry, reqTripping, reqExpires,
                   reqRefused, dlVars>>

\* RequestClock::start computes the deadline: none, an instant, or (0) one
\* that Instant cannot represent, which counts as expired.
\* DeadlineRegistration::new then arms the deadline of an active request.
StartClock(r) ==
    /\ reqPc[r] = "start"
    /\ \E expires \in 0 .. Never :
         /\ reqExpires' = [reqExpires EXCEPT ![r] = expires]
         /\ MarkOwn(r, IF expires = 0 THEN "deadline" ELSE "active")
         /\ reqPc' = [reqPc EXCEPT ![r] =
                        IF /\ expires \in 1 .. MaxNow
                           /\ outcome_of(reqState'[r]) = "active"
                        THEN "due" ELSE "run"]
    /\ UNCHANGED <<cancelVars, reqNow, reqRegistry, reqTripping, reqHeld,
                   reqRefused, dlVars>>

\* DeadlineService::register, before the lock: a deadline already reached and
\* a service without its thread end the request at once.
CheckDue(r) ==
    /\ reqPc[r] = "due"
    /\ LET outcome == IF reqExpires[r] <= reqNow THEN "deadline"
                      ELSE IF ~dlAvailable THEN "deadline_unavailable"
                      ELSE "active"
       IN  /\ MarkOwn(r, outcome)
           /\ reqPc' = [reqPc EXCEPT ![r] =
                          IF outcome = "active" THEN "admit" ELSE "run"]
    /\ UNCHANGED <<cancelVars, reqNow, reqRegistry, reqTripping, reqHeld,
                   reqExpires, reqRefused, dlVars>>

\* Condvar::notify_one on `changed`: wakes the deadline thread if it waits.
\* Faulty: a registration does not wake a thread that waits on nothing.
Notified_never(pc) == pc
Notified(pc) == IF pc \in {"idle", "timed"} THEN "scan" ELSE pc

\* DeadlineSchedule::admit under the schedule lock, then the notification.
admit(r) ==
    /\ reqPc[r] = "admit"
    /\ IF Cardinality(DOMAIN dlIndex) >= DeadlineLimit
       THEN /\ MarkOwn(r, "deadline_capacity")
            /\ UNCHANGED <<dlIndex, dlSchedule, dlPc, dlWake>>
       ELSE /\ dlIndex' = [q \in DOMAIN dlIndex \cup {r} |-> reqExpires[q]]
            /\ dlSchedule' = [dlSchedule EXCEPT ![reqExpires[r]] = @ \cup {r}]
            /\ dlPc' = Notified(dlPc)
            /\ dlWake' = IF dlPc' = "timed" THEN dlWake ELSE 0
            /\ UNCHANGED reqState
    /\ reqPc' = [reqPc EXCEPT ![r] = "run"]
    /\ UNCHANGED <<cancelVars, reqNow, reqRegistry, reqTripping, reqHeld,
                   reqExpires, reqRefused, dlAvailable, dlExpired>>

\* Faulty: only the deadline stops a request.
Stops_at_deadline(r) == outcome_of(reqState[r]) = "deadline"
\* QueryBudget::check through clock_error, and ReadContext::check_cancelled:
\* a request that sees any outcome but Active returns that error.
Stops(r) == clock_outcome(r) # "active" \/ reqState[r].token

Poll(r) ==
    /\ reqPc[r] = "run" /\ Stops(r)
    /\ reqPc' = [reqPc EXCEPT ![r] = "drop"]
    /\ UNCHANGED <<cancelVars, reqNow, reqRegistry, reqState, reqTripping,
                   reqHeld, reqExpires, reqRefused, dlVars>>

\* The request has its answer.
Complete(r) ==
    /\ reqPc[r] = "run"
    /\ reqPc' = [reqPc EXCEPT ![r] = "drop"]
    /\ UNCHANGED <<cancelVars, reqNow, reqRegistry, reqState, reqTripping,
                   reqHeld, reqExpires, reqRefused, dlVars>>

\* CancelRegistration::drop: leaves the registry it entered.
drop_registration(r) ==
    /\ reqPc[r] = "drop" /\ RegistryFree
    /\ reqRegistry' = reqRegistry \ {r}
    /\ reqPc' = [reqPc EXCEPT ![r] = "disarm"]
    /\ UNCHANGED <<cancelVars, reqNow, reqState, reqTripping, reqHeld,
                   reqExpires, reqRefused, dlVars>>

\* Faulty: the instant keeps the request it was filed under.
remove_index_only(r) ==
    /\ dlIndex' = [q \in DOMAIN dlIndex \ {r} |-> dlIndex[q]]
    /\ UNCHANGED dlSchedule
\* DeadlineSchedule::remove of a request the index still holds.
remove(r) ==
    /\ dlIndex' = [q \in DOMAIN dlIndex \ {r} |-> dlIndex[q]]
    /\ dlSchedule' = [dlSchedule EXCEPT ![dlIndex[r]] = @ \ {r}]

\* DeadlineRegistration::drop through DeadlineService::remove: nothing to do
\* when the thread has already popped the entry.
drop_deadline(r) ==
    /\ reqPc[r] = "disarm"
    /\ IF r \in DOMAIN dlIndex
       THEN /\ remove(r)
            /\ dlPc' = Notified(dlPc)
            /\ dlWake' = IF dlPc' = "timed" THEN dlWake ELSE 0
       ELSE UNCHANGED <<dlIndex, dlSchedule, dlPc, dlWake>>
    /\ reqPc' = [reqPc EXCEPT ![r] = "done"]
    /\ UNCHANGED <<cancelVars, reqNow, reqRegistry, reqState, reqTripping,
                   reqHeld, reqExpires, reqRefused, dlAvailable, dlExpired>>

-----------------------------------------------------------------------------
(* The deadline thread, run_deadlines.                                     *)

\* The thread could not be spawned when the service was first used.
SpawnFails ==
    /\ dlAvailable /\ dlPc = "scan" /\ \A r \in Request : reqPc[r] = "new"
    /\ dlAvailable' = FALSE /\ dlPc' = "none"
    /\ UNCHANGED <<cancelVars, reqNow, reqRegistry, reqState, reqTripping,
                   reqPc, reqHeld, reqExpires, reqRefused, dlSchedule,
                   dlIndex, dlWake, dlExpired>>

\* Faulty: an instant counts as reached one tick early.
Reached_early(t) == t <= reqNow + 1
\* `expires > now` decides whether to wait for the first instant.
Reached(t) == t <= reqNow

\* The loop under the lock: wait when nothing is scheduled, wait with a
\* timeout for the first instant, or pop everything filed under it.
first == CHOOSE t \in DOMAIN dlSchedule :
           /\ dlSchedule[t] # {}
           /\ \A s \in DOMAIN dlSchedule : dlSchedule[s] # {} => t <= s

Scan ==
    /\ dlPc = "scan"
    /\ IF \A t \in DOMAIN dlSchedule : dlSchedule[t] = {}
       THEN /\ dlPc' = "idle"
            /\ UNCHANGED <<dlSchedule, dlIndex, dlExpired, dlWake>>
       ELSE IF ~Reached(first)
       THEN /\ dlPc' = "timed" /\ dlWake' = first
            /\ UNCHANGED <<dlSchedule, dlIndex, dlExpired>>
       ELSE LET due == dlSchedule[first] \cap DOMAIN dlIndex
            IN  /\ dlSchedule' = [dlSchedule EXCEPT ![first] = {}]
                /\ dlIndex' = [q \in DOMAIN dlIndex \ due |-> dlIndex[q]]
                /\ dlExpired' = due /\ UNCHANGED dlWake
                /\ dlPc' = "expire"
    /\ UNCHANGED <<cancelVars, reqNow, reqRegistry, reqState, reqTripping,
                   reqPc, reqHeld, reqExpires, reqRefused, dlAvailable>>

\* wait_timeout returns at the instant it was given.
WaitEnds ==
    /\ dlPc = "timed" /\ Reached(dlWake)
    /\ dlPc' = "scan" /\ dlWake' = 0
    /\ UNCHANGED <<cancelVars, reqNow, reqRegistry, reqState, reqTripping,
                   reqPc, reqHeld, reqExpires, reqRefused, dlSchedule,
                   dlIndex, dlAvailable, dlExpired>>

\* The popped states are marked without the lock.
Expire ==
    /\ dlPc = "expire"
    /\ MarkState(dlExpired, "deadline")
    /\ dlExpired' = {} /\ dlPc' = "scan"
    /\ UNCHANGED <<cancelVars, reqNow, reqRegistry, reqPc, reqHeld,
                   reqExpires, reqRefused, dlSchedule, dlIndex,
                   dlAvailable, dlWake>>

Tick ==
    /\ reqNow < MaxNow
    /\ reqNow' = reqNow + 1
    /\ UNCHANGED <<cancelVars, reqRegistry, reqState, reqTripping, reqPc,
                   reqHeld, reqExpires, reqRefused, dlVars>>

RequestStep(r) ==
    \/ register_with_limit(r) \/ ChooseOutcome(r) \/ MarkRegistration(r)
    \/ StartClock(r) \/ CheckDue(r) \/ admit(r) \/ Poll(r)
    \/ drop_registration(r) \/ drop_deadline(r)

RequestNext ==
    \/ \E r \in Request : RequestStep(r) \/ Complete(r) \/ Trip(r)
                          \/ CancelMark(r)
    \/ CancelFlag \/ CancelCopy
    \/ SpawnFails \/ Scan \/ WaitEnds \/ Expire
    \/ Tick

RequestSpec == RequestInit /\ [][RequestNext]_reqVars

\* Threads keep running and time passes.  Nothing makes a caller cancel, a
\* request start (register_with_limit) or its work complete.
RequestFairness ==
    /\ \A r \in Request :
         /\ WF_reqVars(reqPc[r] # "new" /\ RequestStep(r))
         /\ WF_reqVars(Trip(r)) /\ WF_reqVars(CancelMark(r))
    /\ WF_reqVars(CancelCopy)
    /\ WF_reqVars(Scan \/ WaitEnds \/ Expire)
    /\ WF_reqVars(Tick)

RequestFairSpec == RequestSpec /\ RequestFairness

-----------------------------------------------------------------------------
(* Properties *)

\* Type invariant: the request and deadline state, with both tables within
\* the limits the code gives them.
RequestTypeOK ==
    /\ reqNow \in 1 .. MaxNow /\ reqCancelled \in BOOLEAN
    /\ reqCopied \in BOOLEAN /\ reqCancelling \subseteq Request
    /\ reqRegistry \subseteq Request /\ Cardinality(reqRegistry) <= QueryLimit
    /\ reqTripping \subseteq Request
    /\ reqState \in [Request -> [cause : Outcome, closed : BOOLEAN,
                                 token : BOOLEAN]]
    /\ reqPc \in [Request -> {"new", "locked", "mark", "start", "due", "admit",
                              "run", "drop", "disarm", "done"}]
    /\ reqHeld \in [Request -> Outcome]
    /\ reqExpires \in [Request -> 0 .. Never]
    /\ reqRefused \subseteq Request
    /\ DOMAIN dlIndex \subseteq Request
    /\ Cardinality(DOMAIN dlIndex) <= DeadlineLimit
    /\ \A r \in DOMAIN dlIndex : dlIndex[r] \in 0 .. MaxNow
    /\ dlSchedule \in [0 .. MaxNow -> SUBSET Request]
    /\ dlAvailable \in BOOLEAN
    /\ dlPc \in {"scan", "idle", "timed", "expire", "none"}
    /\ dlWake \in 0 .. MaxNow
    /\ dlExpired \subseteq Request

\* The registrations a request takes are the ones it holds: the registry has
\* exactly the admitted requests that have not left it; the two halves of
\* the deadline schedule file the same requests under the same instants; and
\* a request that is done is in neither, so no sequence of requests uses up
\* MAX_QUERY_REGISTRATIONS or MAX_DEADLINE_REGISTRATIONS.
RegistrationsAreExact ==
    /\ reqRegistry = {r \in Request \ reqRefused :
                        reqPc[r] \notin {"new", "disarm", "done"}}
    /\ \A r \in Request : \A t \in DOMAIN dlSchedule :
         r \in dlSchedule[t] <=> r \in DOMAIN dlIndex /\ dlIndex[r] = t
    /\ \A r \in DOMAIN dlIndex : reqPc[r] \in {"run", "drop", "disarm"}

\* The outcome a request reports is the truth: explicit only after the
\* handle was cancelled, a deadline only when the request had one that has
\* passed or cannot be represented, capacity only for a request that holds
\* no registration; and a cancelled evaluator token always has a cause
\* behind it, so a read never fails as cancelled while the clock would say
\* the request is active.
OutcomeIsHonest ==
    \A r \in Request :
      LET state == reqState[r] IN
      /\ state.cause = "explicit" => reqCancelled
      /\ state.cause = "deadline" => reqExpires[r] <= reqNow
      /\ state.cause = "query_capacity" => r \in reqRefused
      /\ state.cause \in {"deadline_capacity", "deadline_unavailable"} =>
           r \notin DOMAIN dlIndex
      /\ state.closed <=> state.cause # "active"
      /\ state.token => state.closed

\* Once a request has an outcome it keeps one, and a later deadline never
\* replaces an explicit cancellation (RequestState: "which never reverses").
OutcomeStands ==
    [][\A r \in Request :
         reqState[r].cause # "active" =>
           reqState'[r].cause \in {reqState[r].cause, "explicit"}]_reqVars

\* After the handle is cancelled every request that uses it ends, whether it
\* registered before the flag was raised, after it, or between the flag and
\* the copy of the registry.
CancelReaches ==
    \A r \in Request :
      (reqCancelled /\ reqPc[r] # "new") ~> (reqPc[r] = "done")

\* A request with a deadline ends even if its own work never does: the
\* deadline thread is woken for it, or the request finds out by itself when
\* the thread is missing or full.
DeadlineEnds ==
    \A r \in Request :
      (reqPc[r] = "run" /\ reqExpires[r] <= MaxNow) ~> (reqPc[r] = "done")
=============================================================================
