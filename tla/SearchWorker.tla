---------------------------- MODULE SearchWorker ----------------------------
(***************************************************************************)
(* The search maintenance thread of lib.rs and its callers: flush_with      *)
(* with its permits, cancellation and deadlines, wake, stop and shutdown.   *)
(* One drain of the queues and one certification (SearchIndex) are single   *)
(* steps here, with every outcome the thread distinguishes.                 *)
(***************************************************************************)
EXTENDS Integers, Sequences, FiniteSets, FiniteSetsExt

CONSTANTS Call,          \* calls of flush_with
          MaxPending,    \* MAX_PENDING_FLUSHES
          MaxDirty,      \* bound on dirty tokens
          MaxTrouble     \* bound on drains that do not end clean

ASSUME SearchWorkerAssumption ==
  /\ Call \subseteq Nat \ {0} /\ IsFiniteSet(Call)
  /\ MaxPending \in Nat \ {0}
  /\ {MaxDirty, MaxTrouble} \subseteq Nat

VARIABLES
  token,        \* current_dirty_token of the store
  cover,        \* the token complete_coverage last certified
  waking,       \* a writer has committed and not yet called wake
  channel,      \* the control channel
  wakePending,  \* wake_pending
  stopping,     \* stopping
  permits,      \* pending, the count of flush permits
  flushes,      \* [call -> its FlushRequest, FlushPermit and progress]
  worker,       \* the locals of run_search_worker
  closing,      \* progress of CraqleNode::shutdown
  trouble       \* drains so far that did not end clean

workerVars == <<token, cover, waking, channel, wakePending, stopping, permits, flushes,
                worker, closing, trouble>>

Capacity == MaxPending + 2
Wake == 0
Stop == -1
NoCertificate == -1
NewFlush == [phase |-> "new", requested |-> 0, target |-> 0, cancelled |-> FALSE,
             released |-> TRUE, reply |-> "none", covered |-> 0, result |-> "none"]

InPhase(c, phase) == flushes[c].phase = phase
Cancelled(c) == flushes[c].cancelled \/ stopping
Set(c, field, value) == [flushes EXCEPT ![c][field] = value]

try_send(message) ==
  IF Len(channel) < Capacity /\ worker.at # "gone"
  THEN channel' = Append(channel, message)
  ELSE UNCHANGED channel
Sent == Len(channel') > Len(channel)

-----------------------------------------------------------------------------
(* Callers.                                                                *)

\* A write commits its dirty token, then wakes the thread.
Commit ==
  /\ ~waking /\ token < MaxDirty
  /\ token' = token + 1
  /\ waking' = TRUE
  /\ UNCHANGED <<cover, channel, wakePending, stopping, permits, flushes, worker, closing, trouble>>

wake ==
  /\ waking
  /\ waking' = FALSE
  /\ IF stopping \/ wakePending THEN UNCHANGED <<channel, wakePending>>
     ELSE try_send(Wake) /\ wakePending' = Sent
  /\ UNCHANGED <<token, cover, stopping, permits, flushes, worker, closing, trouble>>

\* SearchWaitError and MaintenanceFailure are one outcome, "error".
Returned(c, cancelled, result) ==
  [flushes EXCEPT ![c] = IF result = "ok"
     THEN [@ EXCEPT !.phase = "returned", !.cancelled = TRUE, !.released = TRUE,
                    !.reply = "none", !.result = "ok"]
     ELSE [NewFlush EXCEPT !.phase = "returned", !.cancelled = cancelled, !.result = "error"]]

\* flush_with, up to the permit: the target is read first.  Calls are numbered
\* in the order in which they begin.
flush_with(c) ==
  /\ InPhase(c, "new") /\ closing # "closing"
  /\ \A d \in Call : d < c => ~InPhase(d, "new")
  /\ IF stopping \/ permits >= MaxPending
     THEN flushes' = Returned(c, FALSE, "error") /\ UNCHANGED permits
     ELSE /\ permits' = permits + 1
          /\ flushes' = [flushes EXCEPT ![c] = [NewFlush EXCEPT !.phase = "permitted",
                           !.requested = token, !.target = token, !.released = FALSE]]
  /\ UNCHANGED <<token, cover, waking, channel, wakePending, stopping, worker, closing, trouble>>

\* Faulty: each of the two holders of a permit gives it back.
releases_twice(calls) == Cardinality(calls)

\* FlushPermit::release: the caller's guard and the last holder's drop both release.
releases(calls) == Cardinality({c \in calls : ~flushes[c].released})

\* FlushWaiter::drop: the caller is gone, whatever became of its request.
Leave(c, result) ==
  /\ permits' = permits - releases({c})
  /\ flushes' = Returned(c, TRUE, result)

FlushSend(c) ==
  /\ InPhase(c, "permitted")
  /\ try_send(c)
  /\ IF Sent THEN flushes' = Set(c, "phase", "waiting") /\ UNCHANGED permits
     ELSE Leave(c, "error")
  /\ UNCHANGED <<token, cover, waking, wakePending, stopping, worker, closing, trouble>>

\* The reply sender lives in the channel, then in the thread's pending list.
Held(c) == c \in worker.pending \/ \E i \in DOMAIN channel : channel[i] = c

FlushReceives(c) ==
  /\ InPhase(c, "waiting")
  /\ \/ flushes[c].reply # "none" /\ Leave(c, flushes[c].reply)
     \/ flushes[c].reply = "none" /\ ~Held(c) /\ Leave(c, "error")
  /\ UNCHANGED <<token, cover, waking, channel, wakePending, stopping, worker, closing, trouble>>

\* The caller's cancellation or deadline wins.
FlushAbandons(c) ==
  /\ InPhase(c, "waiting")
  /\ Leave(c, "error")
  /\ UNCHANGED <<token, cover, waking, channel, wakePending, stopping, worker, closing, trouble>>

\* shutdown takes the node exclusively: no call is under way.
stop ==
  /\ closing = "open" /\ \A c \in Call : flushes[c].phase \in {"new", "returned"}
  /\ ~waking
  /\ closing' = "closing"
  /\ stopping' = TRUE
  /\ IF stopping THEN UNCHANGED channel ELSE try_send(Stop)
  /\ UNCHANGED <<token, cover, waking, wakePending, permits, flushes, worker, trouble>>

\* shutdown_within joins a finished thread, or reports a timeout and may be retried.
shutdown_within ==
  /\ closing = "closing"
  /\ closing' \in IF worker.at = "gone" THEN {"closed"} ELSE {"open"}
  /\ UNCHANGED <<token, cover, waking, channel, wakePending, stopping, permits, flushes, worker,
                 trouble>>

-----------------------------------------------------------------------------
(* The thread.                                                             *)

AtWork(place) == worker.at = place
Unattended == UNCHANGED <<token, waking, stopping, closing>>
WorkerKeeps == Unattended /\ UNCHANGED permits

\* Replies to some of the pending requests; the rest stay.
Reply(requests, reply, covered) ==
  [c \in Call |-> IF c \in requests
                  THEN [flushes[c] EXCEPT !.reply = reply, !.covered = covered] ELSE flushes[c]]

Uncancelled == {c \in worker.pending : ~Cancelled(c)}
Incoming == {c \in Call : \E i \in DOMAIN channel : channel[i] = c}

\* A request nobody waits for drops its permit with it.
Discard(kept) ==
  permits' = permits - releases({c \in (worker.pending \cup Incoming) \ kept :
                                   InPhase(c, "returned")})

\* Faulty: only the channel is consulted: a stop that could not be queued is never seen.
collect_without_flag ==
  LET stops == \E i \in DOMAIN channel : channel[i] = Stop
      kept == Uncancelled \cup {c \in Incoming : ~flushes[c].cancelled}
  IN
  /\ AtWork("collect")
  /\ channel' = <<>>
  /\ IF stops
     THEN /\ flushes' = Reply(kept, "error", 0)
          /\ worker' = [worker EXCEPT !.at = "gone", !.pending = {}]
          /\ UNCHANGED wakePending
     ELSE /\ wakePending' = FALSE
          /\ worker' = [worker EXCEPT !.at = "target", !.pending = kept]
          /\ UNCHANGED flushes
  /\ UNCHANGED <<cover, trouble>>
  /\ Discard(IF stops THEN {} ELSE kept)
  /\ Unattended

\* The head of the loop: every queued message is taken, a stop ends the loop.
collect_search_messages ==
  LET stops == stopping \/ \E i \in DOMAIN channel : channel[i] = Stop
      kept == Uncancelled \cup {c \in Incoming : ~Cancelled(c)}
  IN
  /\ AtWork("collect")
  /\ channel' = <<>>
  /\ IF stops
     THEN /\ flushes' = Reply(kept, "error", 0)
          /\ worker' = [worker EXCEPT !.at = "gone", !.pending = {}]
          /\ UNCHANGED wakePending
     ELSE /\ wakePending' = FALSE
          /\ worker' = [worker EXCEPT !.at = "target", !.pending = kept]
          /\ UNCHANGED flushes
  /\ UNCHANGED <<cover, trouble>>
  /\ Discard(IF stops THEN {} ELSE kept)
  /\ Unattended

\* Faulty: with nobody waiting nothing new is aimed at.
select_target_when_asked ==
  /\ AtWork("target")
  /\ worker' = [worker EXCEPT !.at = "drain", !.target =
       Max({worker.certified, 0} \cup {flushes[c].target : c \in worker.pending})]
  /\ UNCHANGED <<cover, channel, wakePending, flushes, trouble>>
  /\ WorkerKeeps

\* The smallest pending target, or the newest token, never below the certificate.
select_target ==
  LET wanted == IF worker.pending = {} THEN token
                ELSE Min({flushes[c].target : c \in worker.pending})
  IN
  /\ AtWork("target")
  /\ worker' = [worker EXCEPT !.at = "drain", !.target = Max({wanted, worker.certified})]
  /\ UNCHANGED <<cover, channel, wakePending, flushes, trouble>>
  /\ WorkerKeeps

DrainEnds == UNCHANGED <<cover, channel, wakePending>> /\ WorkerKeeps
Loop(w) == [w EXCEPT !.at = "collect"]
Troubled == trouble < MaxTrouble /\ trouble' = trouble + 1

\* drain_search_slice: a store error or a caught panic answers everyone.
drain_fails ==
  /\ AtWork("drain") /\ Troubled
  /\ flushes' = Reply(worker.pending, "error", 0)
  /\ worker' = Loop([worker EXCEPT !.pending = {}])
  /\ DrainEnds

\* Recovery work raises every target.  Within the drained bound it is settled.
drain_recovers ==
  /\ AtWork("drain") /\ Troubled
  /\ \E recovery \in {worker.target, worker.target + 1} :
       /\ recovery <= token
       /\ flushes' = [c \in Call |-> IF c \in worker.pending
            THEN [flushes[c] EXCEPT !.target = Max({@, recovery})] ELSE flushes[c]]
       /\ worker' = IF recovery > worker.target
                    THEN Loop([worker EXCEPT !.certified = NoCertificate])
                    ELSE [worker EXCEPT !.certified = NoCertificate, !.at = "certify"]
  /\ DrainEnds

\* Faulty: a failure for good is nobody's.
settle_search_nobody(owedFrom) == {}

\* settle_search_failures: whoever waits for an entry that failed for good is told.
settle_search_failures(owedFrom) == {c \in worker.pending : flushes[c].target >= owedFrom}

\* Failures for good stay with the queue: every later drain reports them again.
\* What is certified owes nothing, so that a failed entry is newer.
drain_reports_failures ==
  /\ AtWork("drain")
  /\ IF worker.failed # 0 THEN UNCHANGED trouble /\ worker.failed <= worker.target
     ELSE Troubled /\ worker.target > cover
  /\ \E owedFrom \in IF worker.failed # 0 THEN {worker.failed} ELSE cover + 1..worker.target :
       LET told == settle_search_failures(owedFrom) IN
       /\ flushes' = Reply(told, "error", 0)
       /\ worker' = Loop([worker EXCEPT !.pending = @ \ told, !.failed = owedFrom])
  /\ DrainEnds

\* Work remains, a transient failure waits for its retry, or a writer added debt.
drain_remains ==
  /\ AtWork("drain") /\ Troubled
  /\ worker' = Loop(worker)
  /\ UNCHANGED flushes
  /\ DrainEnds

drain_queues ==
  /\ AtWork("drain") /\ (worker.failed = 0 \/ worker.failed > worker.target)
  /\ worker' = IF worker.pending = {} /\ worker.certified = worker.target THEN Loop(worker)
               ELSE [worker EXCEPT !.at = "certify"]
  /\ UNCHANGED <<flushes, trouble>>
  /\ DrainEnds

\* Faulty: later targets are answered too.
Answer_everyone ==
  /\ AtWork("certify")
  /\ cover' = Max({cover, worker.target})
  /\ flushes' = Reply(worker.pending, "ok", worker.target)
  /\ worker' = Loop([worker EXCEPT !.pending = {}, !.certified = worker.target])
  /\ UNCHANGED <<channel, wakePending, trouble>>
  /\ WorkerKeeps

\* complete_coverage and persist, then the answers to everyone covered.
Answer ==
  LET due == {c \in worker.pending : flushes[c].target <= worker.target} IN
  /\ AtWork("certify")
  /\ cover' = Max({cover, worker.target})
  /\ flushes' = Reply(due, "ok", worker.target)
  /\ worker' = Loop([worker EXCEPT !.pending = @ \ due, !.certified = worker.target])
  /\ UNCHANGED <<channel, wakePending, trouble>>
  /\ WorkerKeeps

AnswerFails ==
  LET due == {c \in worker.pending : flushes[c].target <= worker.target} IN
  /\ AtWork("certify") /\ Troubled
  /\ flushes' = Reply(due, "error", 0)
  /\ worker' = Loop([worker EXCEPT !.pending = @ \ due])
  /\ DrainEnds

\* A panic outside drain_search_slice unwinds the thread and drops its requests.
WorkerPanics ==
  /\ worker.at \in {"target", "certify"} /\ Troubled
  /\ worker' = [worker EXCEPT !.at = "gone", !.pending = {}]
  /\ channel' = <<>>
  /\ UNCHANGED <<cover, wakePending, flushes>>
  /\ WorkerKeeps

-----------------------------------------------------------------------------
WorkerInit ==
  /\ token = 0 /\ cover = 0 /\ waking = FALSE
  /\ channel = <<>> /\ wakePending = FALSE /\ stopping = FALSE /\ permits = 0
  /\ flushes = [c \in Call |-> NewFlush]
  /\ worker = [at |-> "collect", pending |-> {}, certified |-> NoCertificate, target |-> 0,
               failed |-> 0]
  /\ closing = "open"
  /\ trouble = 0

run_search_worker == \/ collect_search_messages \/ select_target
                     \/ drain_queues \/ drain_reports_failures \/ Answer

Trouble == drain_fails \/ drain_recovers \/ drain_remains \/ AnswerFails \/ WorkerPanics

\* A closed node stays closed.
Closed == closing = "closed" /\ UNCHANGED workerVars

Flusher(c) == FlushSend(c) \/ FlushReceives(c)

WorkerNext ==
  \/ Commit \/ wake \/ stop \/ shutdown_within
  \/ \E c \in Call : flush_with(c) \/ Flusher(c) \/ FlushAbandons(c)
  \/ run_search_worker \/ Trouble \/ Closed

\* The thread loops (its waits are timed), and so does a waiting caller.
WorkerSpec == WorkerInit /\ [][WorkerNext]_workerVars
WorkerFairSpec ==
  /\ WorkerSpec
  /\ WF_workerVars(run_search_worker)
  /\ \A c \in Call : WF_workerVars(Flusher(c))

-----------------------------------------------------------------------------
WorkerTypeOK ==
  /\ token \in 0..MaxDirty /\ cover \in 0..MaxDirty
  /\ channel \in Seq(Call \cup {Wake, Stop}) /\ Len(channel) <= Capacity
  /\ permits \in 0..MaxPending
  /\ worker.pending \subseteq Call
  /\ worker.at \in {"collect", "target", "drain", "certify", "gone"}
  /\ closing \in {"open", "closing", "closed"}

\* A flush that returns Ok is covered: coverage has reached the token that was
\* current when the call began and the recovery work attached since, whatever
\* smaller targets and other callers' requests came in between (flush_with,
\* SearchReceipt).
FlushIsCovered ==
  \A c \in Call : flushes[c].result = "ok" =>
    /\ flushes[c].requested <= flushes[c].target
    /\ flushes[c].target <= flushes[c].covered
    /\ flushes[c].covered <= cover

\* No permit is lost or returned twice: the count is that of the calls still
\* inside flush_with, so that capacity comes back however a call ended
\* (FlushPermit, FlushWaiter).
PermitsAreExact ==
  permits = Cardinality({c \in Call : flushes[c].phase \in {"permitted", "waiting"}})

\* A flush that returns Ok is covered, and no flush permit is lost or returned twice.
FlushesAreCovered == FlushIsCovered /\ PermitsAreExact

\* Every call of flush_with returns, also when the thread fails, panics or has an
\* entry that failed for good (settle_search_failures, run_search_worker).
FlushReturns == \A c \in Call : InPhase(c, "waiting") ~> InPhase(c, "returned")

\* A shutdown ends the thread, also when the channel is full of abandoned
\* flushes and the stop message cannot be sent (stop, collect_search_messages).
ShutdownEnds == stopping ~> worker.at = "gone"

\* A committed write is certified without anyone flushing, unless the thread is
\* gone or an entry has failed for good (wake, run_search_worker).
CoveredOrGone(t) == cover >= t \/ worker.failed # 0 \/ worker.at = "gone"
WriteGetsCovered == \A t \in 1..MaxDirty : token = t ~> CoveredOrGone(t)
=============================================================================
