----------------------------- MODULE TopicSync -----------------------------
(***************************************************************************)
(* One graph replicated through its Irokle topic: publish-first local      *)
(* writes, the reconcile passes that apply the topic's records in pages    *)
(* behind a durable cursor, the rejection ledger, crashes and restarts.    *)
(*                                                                         *)
(* Irokle itself is external: a topic is one sequence of records per actor *)
(* that reaches every node as growing, causally closed prefixes and        *)
(* survives crashes.  The store of a node is one record, because every     *)
(* store batch is atomic; `disk' is what a crash leaves of it.  The graph  *)
(* write guard is `hold': while a publish is under way nothing else of     *)
(* that node applies a record.                                             *)
(***************************************************************************)
EXTENDS ORSet, FiniteSets, FiniteSetsExt

CONSTANTS Foreign,      \* actors that publish to the topic with other software
          ChangeSets,   \* the change sets that writers publish
          LocalKinds,   \* the kinds of record that the nodes publish
          ForeignKinds, \* the kinds of record that the others publish
          MaxRecords,   \* bound on the records of the topic
          PageRecords,  \* the records of one catch-up page
          MaxFaults     \* bound on crashes, failed applies and stalls

ASSUME ActorAssumption == IsFiniteSet(Actor)

ASSUME ForeignAssumption == Foreign \subseteq Actor

ASSUME ChangeSetsAssumption == ChangeSets \subseteq Seq(MaterializedQuadChange)

ASSUME LimitAssumption ==
    /\ LocalKinds \subseteq {"Changes", "Policy", "Delete", "Control"}
    /\ ForeignKinds \subseteq {"Changes", "Policy", "Delete", "Control", "Bad"}
    /\ MaxRecords \in Nat /\ PageRecords \in Nat \ {0} /\ MaxFaults \in Nat

\* A node is named by its actor in the topic.
Node == Actor \ Foreign

VARIABLES topic,    \* per actor, the records it has published
          have,     \* per actor, how much of each actor's records its topic holds
          store,    \* per node, the committed graph store
          disk,     \* per node, the part of the store that a crash leaves
          pass,     \* per node, the catch-up page being applied
          hold,     \* per node, the own record that is published and not yet applied
          open,     \* the nodes whose open has completed
          stalled,  \* the nodes whose last pass stopped at a retryable failure
          skipped,  \* history: the nodes where a retry went past an earlier own record
          faults    \* the faults so far

vars == <<topic, have, store, disk, pass, hold, open, stalled, skipped, faults>>

\* `seen' is not in the record: it is the store clock of the publisher, kept to
\* state the properties.  "Bad" is a payload that no node can decode.
Record == [kind : {"Changes", "Policy", "Delete", "Control", "Bad"},
           changes : ChangeSets \cup {<<>>},
           observed : VectorClock, seen : VectorClock, gen : Nat]

\* The cursor's position and its target; NoEvents stands for no target.
\* `settled' holds the ledger entries that an operator has cleared.
Store == [clock : VectorClock, dots : QuadState, tomb : BOOLEAN,
          cursor : VectorClock, target : VectorClock,
          ledger : SUBSET Dot, settled : SUBSET Dot]

EmptyStore == [clock |-> NoEvents, dots |-> Empty, tomb |-> FALSE,
               cursor |-> NoEvents, target |-> NoEvents, ledger |-> {}, settled |-> {}]

\* `keep' is the target that the page's cursor carries, `left' counts the records
\* of the page that are still to come.
Page == [on : BOOLEAN, clock : VectorClock, target : VectorClock,
         keep : VectorClock, left : Nat, consumed : BOOLEAN]

NoPage == [on |-> FALSE, clock |-> NoEvents, target |-> NoEvents,
           keep |-> NoEvents, left |-> 0, consumed |-> FALSE]

TypeOK ==
    /\ topic \in [Actor -> Seq(Record)]
    /\ have \in [Actor -> VectorClock]
    /\ store \in [Node -> Store]
    /\ disk \in [Node -> Store]
    /\ pass \in [Node -> Page]
    /\ hold \in [Node -> Nat]
    /\ open \subseteq Node
    /\ stalled \subseteq Node /\ skipped \subseteq Node
    /\ faults \in 0 .. MaxFaults

Init ==
    /\ topic = [a \in Actor |-> <<>>]
    /\ have = [a \in Actor |-> NoEvents]
    /\ store = [n \in Node |-> EmptyStore]
    /\ disk = [n \in Node |-> EmptyStore]
    /\ pass = [n \in Node |-> NoPage]
    /\ hold = [n \in Node |-> 0]
    /\ open = Node
    /\ stalled = {} /\ skipped = {}
    /\ faults = 0

-----------------------------------------------------------------------------
(* The topic.                                                              *)

RecordOf(dot) == topic[dot.actor][dot.counter]

\* The positions between two clocks.
Between(from, to) ==
    {d \in [actor : Actor, counter : 1 .. MaxRecords] :
        from[d.actor] < d.counter /\ d.counter <= to[d.actor]}

TopicSize == Cardinality(Between(NoEvents, [a \in Actor |-> Len(topic[a])]))

\* A record is one generation above the records its author's topic holds.
Generation(a) ==
    1 + Max({0} \cup {RecordOf(d).gen : d \in Between(NoEvents, have[a])})

\* Irokle appends a record that observes all the author's topic holds.
Append1(a, kind, changes, seen) ==
    /\ TopicSize < MaxRecords
    /\ topic' = [topic EXCEPT ![a] =
                    Append(@, [kind |-> kind, changes |-> changes, observed |-> have[a],
                               seen |-> seen, gen |-> Generation(a)])]
    /\ have' = [have EXCEPT ![a][a] = @ + 1]

\* The next record of an actor arrives, after all it observes.
Receive(n, a) ==
    /\ have[n][a] < Len(topic[a])
    /\ missing_dots(topic[a][have[n][a] + 1].observed, have[n]) = {}
    /\ have' = [have EXCEPT ![n][a] = @ + 1]
    /\ UNCHANGED <<topic, store, disk, pass, hold, open, stalled, skipped, faults>>

\* Another program publishes: graph events, control records, or payloads of an
\* event version that the nodes do not know.
PublishForeign(a, kind, changes) ==
    /\ (kind = "Changes") = (changes # <<>>)
    /\ Append1(a, kind, changes, NoEvents)
    /\ UNCHANGED <<store, disk, pass, hold, open, stalled, skipped, faults>>

-----------------------------------------------------------------------------
(* Applying a record.                                                      *)

batch_from_changes(dot) ==
    from_changes(dot.actor, dot.counter, RecordOf(dot).observed, RecordOf(dot).changes)

\* A graph event that the tombstone check turns away.
Tombstoned(s, dot) == s.tomb /\ RecordOf(dot).kind \in {"Changes", "Policy"}

\* Faulty: a data record is applied again when a pass delivers it again.
apply_record_locked_replays(s, dot) ==
    CASE RecordOf(dot).kind = "Changes" ->
            [s EXCEPT !.dots = ApplyOps(@, batch_from_changes(dot).ops),
                      !.clock = advance(@, dot.actor, dot.counter)]
      [] RecordOf(dot).kind = "Delete" ->
            [s EXCEPT !.dots = Empty, !.clock = NoEvents, !.tomb = TRUE]
      [] OTHER -> s

\* A batch whose dot the clock contains is a duplicate; a deletion of a deleted
\* graph changes nothing; a policy leaves quads and clock alone.
apply_record_locked(s, dot) ==
    CASE RecordOf(dot).kind = "Changes" ->
            IF contains(s.clock, dot) THEN s
            ELSE [s EXCEPT !.dots = ApplyOps(@, batch_from_changes(dot).ops),
                           !.clock = advance(@, dot.actor, dot.counter)]
      [] RecordOf(dot).kind = "Delete" ->
            [s EXCEPT !.dots = Empty, !.clock = NoEvents, !.tomb = TRUE]
      [] OTHER -> s

-----------------------------------------------------------------------------
(* Local writes: publish first, then apply, under the graph write guard.   *)

\* The first own record, other than control records, that neither the clock nor
\* the stored cursor covers; 0 when there is none.
own_pending(n) ==
    LET after == Max({store[n].clock[n], store[n].cursor[n]})
        pending == {k \in after + 1 .. have[n][n] : topic[n][k].kind # "Control"}
    IN  IF pending = {} THEN 0 ELSE Min(pending)

\* A write takes the guard and puts its record into the topic.  Only data records
\* wait for earlier own records: policies and deletions carry no dot.
Publish(n, kind, changes) ==
    /\ n \in open
    /\ hold[n] = 0
    /\ ~store[n].tomb
    /\ (kind = "Changes") = (changes # <<>>)
    /\ kind = "Changes" => own_pending(n) = 0
    /\ Append1(n, kind, changes, store[n].clock)
    /\ hold' = [hold EXCEPT ![n] = have[n][n] + 1]
    /\ UNCHANGED <<store, disk, pass, open, stalled, skipped, faults>>

\* Irokle publishes a control record of this node, without any graph lock.
PublishControl(n) ==
    /\ Append1(n, "Control", <<>>, NoEvents)
    /\ UNCHANGED <<store, disk, pass, hold, open, stalled, skipped, faults>>

\* The published record is applied and the guard released.  A data record is left
\* to reconciliation when an earlier own record is still to come.
FinishPublish(n) ==
    LET dot == [actor |-> n, counter |-> hold[n]] IN
    /\ hold[n] # 0
    /\ store' = [store EXCEPT ![n] =
                    IF RecordOf(dot).kind = "Changes" /\ own_pending(n) # hold[n]
                    THEN @ ELSE apply_record_locked(@, dot)]
    /\ hold' = [hold EXCEPT ![n] = 0]
    /\ UNCHANGED <<topic, have, disk, pass, open, stalled, skipped, faults>>

\* The apply fails: the record stays in the topic, the store is unchanged.
FailPublish(n) ==
    /\ hold[n] # 0
    /\ faults < MaxFaults
    /\ hold' = [hold EXCEPT ![n] = 0]
    /\ faults' = faults + 1
    /\ UNCHANGED <<topic, have, store, disk, pass, open, stalled, skipped>>

\* A prepared mutation is submitted again and its record found in the topic: it is
\* applied there and then.  The call has reconciled the topic before, so an earlier
\* own record is only left behind when that pass stalled.
RetryMutation(n, k) ==
    LET dot == [actor |-> n, counter |-> k] IN
    /\ n \in open
    /\ hold[n] = 0
    /\ k <= have[n][n]
    /\ topic[n][k].kind = "Changes"
    /\ ~contains(store[n].clock, dot)
    /\ ~store[n].tomb
    /\ own_pending(n) = k \/ n \in stalled
    /\ store' = [store EXCEPT ![n] = apply_record_locked(@, dot)]
    /\ skipped' = IF own_pending(n) = k THEN skipped ELSE skipped \cup {n}
    /\ UNCHANGED <<topic, have, disk, pass, hold, open, stalled, faults>>

\* The committed store reaches the disk.
Persist(n) ==
    /\ disk[n] # store[n]
    /\ disk' = [disk EXCEPT ![n] = store[n]]
    /\ UNCHANGED <<topic, have, store, pass, hold, open, stalled, skipped, faults>>

\* Power loss or a crash at any point: what was not persisted is gone.
Crash(n) ==
    /\ faults < MaxFaults
    /\ store' = [store EXCEPT ![n] = disk[n]]
    /\ pass' = [pass EXCEPT ![n] = NoPage]
    /\ hold' = [hold EXCEPT ![n] = 0]
    /\ open' = open \ {n}
    /\ stalled' = stalled \ {n}
    /\ faults' = faults + 1
    /\ UNCHANGED <<topic, have, disk, skipped>>

-----------------------------------------------------------------------------
(* Reconciliation.                                                         *)

\* Faulty: the pages start at the first record again.
topic_records_since_restarts(n) ==
    LET s      == store[n]
        target == IF s.target = NoEvents THEN have[n] ELSE s.target
        todo   == Cardinality(Between(NoEvents, target))
    IN  [on |-> TRUE, clock |-> NoEvents, target |-> target, consumed |-> FALSE,
         left |-> Min({todo, PageRecords}),
         keep |-> IF todo > PageRecords THEN target ELSE NoEvents]

\* Faulty: the page counts the records behind it.
topic_records_since_inverts(n) ==
    LET s      == store[n]
        target == IF s.target = NoEvents THEN have[n] ELSE s.target
        todo   == Cardinality(Between(s.cursor, target))
    IN  [on |-> TRUE, clock |-> s.cursor, target |-> target, consumed |-> FALSE,
         left |-> todo - PageRecords,
         keep |-> IF todo > PageRecords THEN target ELSE NoEvents]

\* A page resumes at the stored cursor and runs to its target, or to all the topic
\* holds now.  The cursor keeps the target while records are left for another page.
topic_records_since(n) ==
    LET s      == store[n]
        target == IF s.target = NoEvents THEN have[n] ELSE s.target
        todo   == Cardinality(Between(s.cursor, target))
    IN  [on |-> TRUE, clock |-> s.cursor, target |-> target, consumed |-> FALSE,
         left |-> Min({todo, PageRecords}),
         keep |-> IF todo > PageRecords THEN target ELSE NoEvents]

StartPage(n) ==
    /\ ~pass[n].on
    /\ LET page == topic_records_since(n) IN
       /\ page.left > 0 \/ n \notin open
       /\ pass' = [pass EXCEPT ![n] = page]
    /\ UNCHANGED <<topic, have, store, disk, hold, open, stalled, skipped, faults>>

\* The next record of each actor, and among them the ones of the lowest generation.
Candidates(n) ==
    {d \in Between(pass[n].clock, pass[n].target) :
        d.counter = pass[n].clock[d.actor] + 1}

NextRecords(n) ==
    {d \in Candidates(n) : \A c \in Candidates(n) : RecordOf(d).gen <= RecordOf(c).gen}

consume(page, dot) ==
    [page EXCEPT !.clock = advance(@, dot.actor, dot.counter),
                 !.left = @ - 1, !.consumed = TRUE]

\* A record is consumed: control records as they are, graph events after they were
\* applied under the write guard.
ApplyNext(n, dot) ==
    /\ pass[n].left > 0
    /\ dot \in NextRecords(n)
    /\ RecordOf(dot).kind # "Bad"
    /\ RecordOf(dot).kind # "Control" => hold[n] = 0 /\ ~Tombstoned(store[n], dot)
    /\ store' = [store EXCEPT ![n] = apply_record_locked(@, dot)]
    /\ pass' = [pass EXCEPT ![n] = consume(@, dot)]
    /\ UNCHANGED <<topic, have, disk, hold, open, stalled, skipped, faults>>

\* A payload that cannot be decoded, an event for a deleted graph, or a policy the
\* authorizer turns away.
Rejected(n, dot) ==
    \/ RecordOf(dot).kind = "Bad"
    \/ Tombstoned(store[n], dot) /\ hold[n] = 0
    \/ RecordOf(dot).kind = "Policy" /\ dot.actor # n /\ hold[n] = 0

\* Faulty: the cursor moves past the record without the ledger entry.
RejectNext_unlisted(n, dot) ==
    /\ pass[n].left > 0
    /\ dot \in NextRecords(n)
    /\ Rejected(n, dot)
    /\ pass' = [pass EXCEPT ![n] = consume(@, dot)]
    /\ store' = [store EXCEPT ![n].cursor = pass'[n].clock, ![n].target = pass[n].keep]
    /\ disk' = [disk EXCEPT ![n] = store'[n]]
    /\ UNCHANGED <<topic, have, hold, open, stalled, skipped, faults>>

\* The ledger entry and the cursor behind the record are one store batch, which is
\* persisted before the pass goes on.
RejectNext(n, dot) ==
    /\ pass[n].left > 0
    /\ dot \in NextRecords(n)
    /\ Rejected(n, dot)
    /\ pass' = [pass EXCEPT ![n] = consume(@, dot)]
    /\ store' = [store EXCEPT ![n].ledger = @ \cup {dot},
                             ![n].settled = @ \ {dot},
                             ![n].cursor = pass'[n].clock,
                             ![n].target = pass[n].keep]
    /\ disk' = [disk EXCEPT ![n] = store'[n]]
    /\ UNCHANGED <<topic, have, hold, open, stalled, skipped, faults>>

\* What the end of a page writes: the cursor, if any record was consumed.
SaveCursor(n) ==
    IF pass[n].consumed
    THEN /\ store' = [store EXCEPT ![n].cursor = pass[n].clock, ![n].target = pass[n].keep]
         /\ disk' = [disk EXCEPT ![n] = store'[n]]
    ELSE UNCHANGED <<store, disk>>

\* The page is done.  A pass without a further page completes, and an open with it.
EndPage(n) ==
    /\ pass[n].on
    /\ pass[n].left = 0
    /\ SaveCursor(n)
    /\ pass' = [pass EXCEPT ![n] = NoPage]
    /\ open' = IF pass[n].keep = NoEvents THEN open \cup {n} ELSE open
    /\ stalled' = stalled \ {n}
    /\ UNCHANGED <<topic, have, hold, skipped, faults>>

\* Faulty: the pass moves on behind the record that failed.
StallNext_skips(n) ==
    /\ pass[n].left > 0
    /\ faults < MaxFaults
    /\ \E dot \in NextRecords(n) : pass' = [pass EXCEPT ![n] = consume(@, dot)]
    /\ faults' = faults + 1
    /\ UNCHANGED <<topic, have, store, disk, hold, open, stalled, skipped>>

\* A retryable failure of the next record ends the pass: the cursor stays in front
\* of the record.
StallNext(n) ==
    /\ pass[n].left > 0
    /\ \E dot \in NextRecords(n) : RecordOf(dot).kind \notin {"Bad", "Control"}
    /\ faults < MaxFaults
    /\ SaveCursor(n)
    /\ pass' = [pass EXCEPT ![n] = NoPage]
    /\ stalled' = stalled \cup {n}
    /\ faults' = faults + 1
    /\ UNCHANGED <<topic, have, hold, open, skipped>>

-----------------------------------------------------------------------------
(* The rejection ledger.                                                   *)

\* An operator retries a rejected record: an event that now applies leaves the
\* ledger, anything else stays.  The removal is a store batch of its own, which a
\* failure may prevent.
RetryRejected(n, dot) ==
    /\ n \in open /\ ~pass[n].on /\ hold[n] = 0
    /\ dot \in store[n].ledger
    /\ RecordOf(dot).kind # "Bad" /\ ~Tombstoned(store[n], dot)
    /\ LET s == apply_record_locked(store[n], dot) IN
       \E gone \in {{}, {dot}} :
          store' = [store EXCEPT ![n] =
                       [s EXCEPT !.ledger = @ \ gone, !.settled = @ \cup gone]]
    /\ UNCHANGED <<topic, have, disk, pass, hold, open, stalled, skipped, faults>>

\* An operator deletes an entry.
DeleteRejected(n, dot) ==
    /\ n \in open /\ ~pass[n].on
    /\ dot \in store[n].ledger
    /\ store' = [store EXCEPT ![n].ledger = @ \ {dot}, ![n].settled = @ \cup {dot}]
    /\ UNCHANGED <<topic, have, disk, pass, hold, open, stalled, skipped, faults>>

NodeStep(n) ==
    \/ \E kind \in LocalKinds \ {"Control"}, changes \in ChangeSets \cup {<<>>} :
          Publish(n, kind, changes)
    \/ "Control" \in LocalKinds /\ PublishControl(n)
    \/ FinishPublish(n)
    \/ FailPublish(n)
    \/ \E k \in 1 .. MaxRecords : RetryMutation(n, k)
    \/ Persist(n)
    \/ Crash(n)
    \/ StartPage(n)
    \/ \E dot \in NextRecords(n) : ApplyNext(n, dot)
    \/ \E dot \in NextRecords(n) : RejectNext(n, dot)
    \/ EndPage(n)
    \/ StallNext(n)
    \/ \E dot \in store[n].ledger : RetryRejected(n, dot)
    \/ \E dot \in store[n].ledger : DeleteRejected(n, dot)

Next ==
    \/ \E n \in Node : NodeStep(n)
    \/ \E n, a \in Actor : Receive(n, a)
    \/ \E a \in Foreign, kind \in ForeignKinds, changes \in ChangeSets \cup {<<>>} : PublishForeign(a, kind, changes)

Spec == Init /\ [][Next]_vars

ApplyOrReject(n) == \E dot \in NextRecords(n) : ApplyNext(n, dot) \/ RejectNext(n, dot)

\* Irokle delivers, a host keeps calling reconcile_irokle, a call that has started
\* runs on, and a record that keeps its place at the head of the topic is applied
\* or rejected: the faults, which are bounded, are all that stops it.
Fairness ==
    /\ \A n, a \in Actor : WF_vars(Receive(n, a))
    /\ \A n \in Node :
          /\ WF_vars(FinishPublish(n))
          /\ WF_vars(StartPage(n))
          /\ WF_vars(EndPage(n))
          /\ WF_vars(ApplyOrReject(n))

FairSpec == Spec /\ Fairness

-----------------------------------------------------------------------------
(* Properties.                                                             *)

\* The data records that a clock covers.
Known(clock) ==
    {d \in Between(NoEvents, clock) : RecordOf(d).kind = "Changes"}

\* What the records that a clock covers leave on a quad, when a record removes
\* only the dots for which it counts.
TopicReduction(clock, quad, Counts(_, _)) ==
    {d \in Known(clock) :
        /\ d \in NewDots(batch_from_changes(d).ops, quad)
        /\ \A r \in Known(clock) :
              r = d \/ ~Counts(r, d) \/ KeptAfter(batch_from_changes(r).ops, 0, quad, d)}

\* The OR-Set of the records that a clock covers.
AllCount(r, d) == TRUE

\* The clock never marks a record as seen that was not applied: every insert that
\* no covered record removes is in the store.
ClockMeansApplied ==
    \A n \in Node, q \in Quad :
        store[n].tomb \/ TopicReduction(store[n].clock, q, AllCount) \subseteq store[n].dots[q]

\* In memory and on disk, a node holds the OR-Set of the records its clock covers,
\* through replays, crashes and retries.  The one exception: an own delete may have
\* missed a dot that was in its topic when it was published and not in its store.
\* A node where a retry went past an earlier own record is left out.
StoreFollowsTopic ==
    \A n \in Node, q \in Quad : \A s \in {store[n], disk[n]} :
        LET Counts(r, d) == r.actor = n => contains(RecordOf(r).seen, d) IN
        \/ s.tomb \/ n \in skipped
        \/ /\ TopicReduction(s.clock, q, AllCount) \subseteq s.dots[q]
           /\ s.dots[q] \subseteq TopicReduction(s.clock, q, Counts)

\* In memory and on disk, the cursor never passes a record without a trace: data
\* was applied, a deletion has left its tombstone, and a record that cannot be
\* decoded is in the ledger until an operator clears it.  And it stays within the
\* target or the topic, so that the next page does not find it expired.
CursorIsBacked ==
    \A n \in Node : \A s \in {store[n], disk[n]} :
        /\ missing_dots(s.cursor, IF s.target = NoEvents THEN have[n] ELSE s.target) = {}
        /\ \A d \in Between(NoEvents, s.cursor) :
              /\ RecordOf(d).kind = "Changes" => s.tomb \/ contains(s.clock, d)
              /\ RecordOf(d).kind = "Delete" => s.tomb
              /\ RecordOf(d).kind = "Bad" => d \in s.ledger \cup s.settled

\* What has reached the disk is not undone: the cursor, the tombstone and, short of
\* a deletion, the clock only advance there, over any number of crashes and passes.
DiskIsKept ==
    [][\A n \in Node :
          /\ missing_dots(disk[n].cursor, disk'[n].cursor) = {}
          /\ disk[n].tomb => disk'[n].tomb
          /\ disk'[n].tomb \/ missing_dots(disk[n].clock, disk'[n].clock) = {}]_vars

\* Nodes that have applied the same records hold the same quads with the same dots:
\* "replicas with the same causal event history converge".  A delete that overtakes
\* a record in its own node's topic breaks this.
Convergence ==
    \A m, n \in Node :
        \/ store[m].tomb \/ store[n].tomb
        \/ store[m].clock # store[n].clock
        \/ store[m].dots = store[n].dots

\* Every record of the topic has taken effect on every node: data is applied or
\* the graph deleted, a deletion has left its tombstone.
TakenEffect ==
    \A n \in Node, d \in [actor : Actor, counter : 1 .. MaxRecords] :
        d.counter <= Len(topic[d.actor]) =>
            /\ RecordOf(d).kind = "Changes" => store[n].tomb \/ contains(store[n].clock, d)
            /\ RecordOf(d).kind = "Delete" => store[n].tomb

\* Every record in the topic takes effect on every node in the end, through bounded
\* catch-up pages, failed applies, crashes and restarts.
Reconciled == []<>TakenEffect

=============================================================================
