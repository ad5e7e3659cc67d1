---------------------------- MODULE ShaclBindings ----------------------------
(***************************************************************************)
(* The SHACL bindings of one store (replication.rs, store.rs, lib.rs): the  *)
(* record each pair of a data graph and a shapes graph keeps of its last   *)
(* validation, the durable queue of data graphs whose records are pending, *)
(* and the threads that write graphs, evaluate bindings and persist what   *)
(* they found.  A thread holds a graph's write and commit guards (one lock *)
(* here) and the store's single binding guard only where the code does, so *)
(* every evaluation runs beside other threads' commits.  Whether a graph   *)
(* conforms is a function of contents; the validator itself is modelled in *)
(* ShaclEvaluation.                                                        *)
(***************************************************************************)
EXTENDS Naturals, Sequences, FiniteSets, SequencesExt

CONSTANTS
    Thread,       \* threads of the embedding application
    Graph,        \* graph names, numbers
    Pairs,        \* the pairs <<data graph, shapes graph>> that may be bound
    Contents,      \* [Graph -> contents a write may give it]
    Import,       \* [Content -> graphs that content imports (owl:imports)]
    Start,        \* [Graph -> initial content], or Absent
    Absent,       \* content of a graph the store does not hold
    Broken,       \* contents the shapes parser refuses
    Retries,      \* SHACL_WRITE_RETRIES, and bind_shacl's three attempts
    MaxWrites,    \* bound on changes of graphs and unbinds
    MaxBinds,     \* bound on bind calls
    MaxBare,      \* bound on joined or replaced snapshots
    MaxFaults     \* bound on crashes and failed settlements

\* What the constants satisfy; a module that instantiates this one assumes it.
ShaclAssumption ==
    /\ Graph \subseteq Nat \ {0}
    /\ Pairs \subseteq Graph \X Graph
    /\ Retries \in Nat \ {0}

VARIABLES
    shGraph,    \* [Graph -> [content, version]]: quads and clock digest
    shStatus,   \* [Pairs -> binding record, or NoRecord]
    shReverse,  \* reverse keys <<dependency, pair>>
    shQueue,    \* data graphs with a pending key
    shLock,     \* [Graph -> the thread with its write and commit guards, or 0]
    shGuard,    \* the thread with the binding guard, or 0
    shThread,   \* [Thread -> what it is doing]
    shOpen,     \* FALSE from a crash until the startup replay returned
    shDeferred, \* work was left to a later replay
    shBare,     \* snapshots joined or replaced so far
    shSpent     \* the other bounded counters

shaclVars == <<shGraph, shStatus, shReverse, shQueue, shLock, shGuard,
               shThread, shOpen, shDeferred, shBare, shSpent>>

-----------------------------------------------------------------------------
(* Records.                                                                *)

NoRecord == [policy |-> "None", state |-> "None", dv |-> 0, sv |-> 0,
             deps |-> <<>>]

Resting == [pc |-> "idle", mode |-> "none", graph |-> 0, content |-> 0,
            pair |-> <<0, 0>>, policy |-> "None", owed |-> <<>>,
            todo |-> <<>>, evals |-> <<>>, sv |-> 0, left |-> <<>>,
            seen |-> <<>>, view |-> 0, dv |-> 0, error |-> "none",
            prep |-> <<>>, tries |-> 0, batch |-> <<>>]

live(g) == shGraph[g].content # Absent

\* The digest of a graph's clock; an absent graph has the empty clock's.
graph_version_digest(g) == shGraph[g].version

\* versions_are_current: every recorded dependency exists at its version.
versions_are_current(deps) ==
    \A g \in DOMAIN deps : live(g) /\ graph_version_digest(g) = deps[g]

Bound == {p \in Pairs : shStatus[p] # NoRecord}
PairSeq(S) == SetToSortSeq(S, LAMBDA a, b : a[2] < b[2])
GraphSeq(S) == SetToSortSeq(S, LAMBDA a, b : a < b)

\* shacl_binding_statuses of the store: the records of one data graph.
shacl_binding_statuses(g) ==
    LET ps == PairSeq({p \in Bound : p[1] = g})
    IN  [i \in DOMAIN ps |-> [pair |-> ps[i], status |-> shStatus[ps[i]]]]

\* The verdict on content v under the contents of a schema's graphs.
Verdict(v, seen) ==
    IF \E g \in DOMAIN seen : seen[g].content = v THEN "Invalid" ELSE "Valid"

-----------------------------------------------------------------------------
(* Staging.  A batch maps pairs to the records it writes; the reverse keys  *)
(* follow the record that was stored when the batch was built.             *)

\* Faulty: forgets the keys of dependencies the new record no longer has.
stage_binding_status_only_adds(reverse, p, old, new) ==
    reverse \union {<<g, p>> : g \in DOMAIN new.deps}

stage_binding_status(reverse, p, old, new) ==
    (reverse \ {<<g, p>> : g \in DOMAIN old.deps})
        \union {<<g, p>> : g \in DOMAIN new.deps}

stage_binding_remove(reverse, p, old) ==
    reverse \ {<<g, p>> : g \in DOMAIN old.deps}

\* Faulty: only the bindings whose data graph changed are affected.
binding_keys_of_data(g) == {p \in Bound : p[1] = g}

\* binding_keys: the bindings of a graph and those that depend on it.
binding_keys(g) ==
    {p \in Bound : p[1] = g} \union {r[2] : r \in {r \in shReverse : r[1] = g}}

affected_shacl_graphs(g) ==
    GraphSeq({p[1] : p \in {p \in binding_keys(g) :
                                shStatus[p].policy # "Disabled"}})

\* Faulty: a binding that already settled is left as it is.
stage_pending_bindings_unsettled(g, version) ==
    [p \in {p \in binding_keys(g) : shStatus[p].state = "Pending"} |->
        [shStatus[p] EXCEPT !.dv = IF p[1] = g THEN version ELSE @]]

\* The records a change of graph g to a version stages: its data version, and
\* pending without a report unless the binding is disabled.
stage_pending_bindings(g, version) ==
    [p \in {p \in binding_keys(g) :
                shStatus[p].policy # "Disabled" \/ p[1] = g} |->
        LET s == shStatus[p]
        IN  [s EXCEPT !.dv = IF p[1] = g THEN version ELSE @,
                      !.state = IF s.policy = "Disabled" THEN @ ELSE "Pending"]]

\* What committing staged records leaves of records, reverse keys and queue.
\* before holds the records the batch was built from.
Commit(batch, before) ==
    /\ shStatus' = [p \in Pairs |->
                        IF p \in DOMAIN batch THEN batch[p] ELSE shStatus[p]]
    /\ shReverse' = FoldSet(LAMBDA p, r :
                                stage_binding_status(r, p, before[p], batch[p]),
                            shReverse, DOMAIN batch)

Queued(batch) ==
    {p[1] : p \in {p \in DOMAIN batch : /\ batch[p].policy # "Disabled"
                                        /\ batch[p].state = "Pending"}}

-----------------------------------------------------------------------------
(* Thread bookkeeping.                                                     *)

\* A thread moves on; the store is open once the startup replay returned.
Become(t, rec) ==
    /\ shThread' = [shThread EXCEPT ![t] = rec]
    /\ shOpen' = (shOpen \/ rec.pc = "idle")

At(t, pc) == shThread[t].pc = pc

Unlocked(t) == [g \in Graph |-> IF shLock[g] = t THEN 0 ELSE shLock[g]]

\* The next thing a thread does once an evaluation list is dealt with: settle
\* the next graph it owes, or return.
Onward(self) ==
    IF self.owed = <<>> THEN Resting
    ELSE [Resting EXCEPT !.pc = "prepare", !.mode = "current",
                         !.graph = Head(self.owed), !.owed = Tail(self.owed)]

\* settle_current of the graphs a change affected, once its own evaluations
\* were persisted.
settle_shacl_graphs(owed) == Onward([owed |-> owed])

Spend(kind) == shSpent' = [shSpent EXCEPT ![kind] = @ + 1]

\* The bound on changes, joined and replaced snapshots included.
MayChange == shSpent.writes + shBare < MaxWrites

Idle(t) == shOpen /\ At(t, "idle")

-----------------------------------------------------------------------------
(* Evaluating bindings.  A thread works through todo, the statuses it read, *)
(* and appends one evaluation for each to evals.                           *)

\* Enters the next status: its shapes version is read before it is compiled.
\* With none left, an enforced write or a bind goes to its fence and a
\* settlement to persist_shacl_evaluations.
NextStatus(self) ==
    IF self.todo = <<>>
    THEN [self EXCEPT !.left = <<>>, !.seen = <<>>, !.error = "none", !.sv = 0,
                      !.pc = IF self.mode \in {"enforce", "bind"}
                             THEN "fence" ELSE "refresh"]
    ELSE LET shapes == Head(self.todo).pair[2]
         IN  [self EXCEPT !.pc = "visit", !.sv = graph_version_digest(shapes),
                          !.left = <<shapes>>, !.seen = <<>>, !.error = "none"]

\* A local write or a bind gives up: its guards are dropped, nothing is stored.
Fail(t) ==
    /\ Become(t, Resting)
    /\ shLock' = Unlocked(t)
    /\ shGuard' = IF shGuard = t THEN 0 ELSE shGuard
    /\ UNCHANGED <<shGraph, shStatus, shReverse, shQueue, shDeferred, shBare,
                   shSpent>>

Moves(t, rec) ==
    /\ Become(t, rec)
    /\ UNCHANGED <<shGraph, shStatus, shReverse, shQueue, shLock, shGuard,
                   shDeferred, shBare, shSpent>>

\* prepare_shacl_write: version and statuses under the binding guard; the
\* enforced ones are evaluated for the candidate.
prepare_shacl_write(t) ==
    LET self == shThread[t]
        read == shacl_binding_statuses(self.graph)
    IN  /\ At(t, "prepare") /\ self.mode = "enforce" /\ shGuard = 0
        /\ Moves(t, NextStatus([self EXCEPT
              !.dv = graph_version_digest(self.graph), !.prep = read,
              !.evals = <<>>,
              !.todo = SelectSeq(read, LAMBDA x : x.status.policy = "Enforce")]))

\* evaluate_current_bindings reads the statuses under the binding guard ...
evaluate_current_bindings(t) ==
    LET self == shThread[t]
        read == shacl_binding_statuses(self.graph)
    IN  /\ At(t, "prepare") /\ self.mode = "current" /\ shGuard = 0
        /\ Moves(t, [self EXCEPT !.pc = "digest",
              !.todo = SelectSeq(read, LAMBDA x : /\ x.status.state = "Pending"
                                                  /\ x.status.policy # "Disabled")])

\* ... and the data version after releasing it.
data_digest(t) ==
    LET self == shThread[t]
    IN  /\ At(t, "digest")
        /\ Moves(t, NextStatus([self EXCEPT !.dv = graph_version_digest(self.graph)]))

\* One attempt of bind_shacl: both versions, then the evaluation, which a
\* disabled binding does without.
bind_attempt(t) ==
    LET self == shThread[t]
        sv == graph_version_digest(self.pair[2])
        status == [NoRecord EXCEPT !.policy = self.policy]
    IN  /\ At(t, "prepare") /\ self.mode = "bind"
        /\ Moves(t, IF self.policy = "Disabled"
                    THEN [self EXCEPT !.pc = "fence",
                            !.dv = graph_version_digest(self.graph),
                            !.evals = <<[pair |-> self.pair, policy |-> "Disabled",
                                         result |-> "Pending", refresh |-> FALSE,
                                         dv |-> graph_version_digest(self.graph),
                                         sv |-> sv, deps |-> self.pair[2] :> sv]>>]
                    ELSE NextStatus([self EXCEPT
                            !.dv = graph_version_digest(self.graph), !.evals = <<>>,
                            !.todo = <<[pair |-> self.pair, status |-> status]>>]))

\* visit_shape_graph: a graph of the schema is read with its version and its
\* imports are visited after it.
visit_shape_graph(t) ==
    LET self == shThread[t]
        g == Head(self.left)
        found == self.seen @@ (g :> shGraph[g])
        left == Tail(self.left) \o
                   GraphSeq(Import[shGraph[g].content] \ DOMAIN found)
        missing == IF self.seen = <<>> THEN "unstable" ELSE "stable"
    IN  /\ At(t, "visit")
        /\ Moves(t, IF ~live(g)
                    THEN [self EXCEPT !.pc = "check", !.left = <<>>, !.error = missing]
                    ELSE [self EXCEPT !.pc = IF left = <<>> THEN "view" ELSE "visit",
                                      !.left = left, !.seen = found])

\* The content a validation judges: the candidate of a write, the committed
\* content of an advisory settlement, or the store's at this moment.
view_graph(t) ==
    LET self == shThread[t]
    IN  /\ At(t, "view")
        /\ Moves(t, [self EXCEPT !.pc = "check",
              !.view = CASE self.mode = "enforce" -> self.content
                         [] self.mode = "advisory" -> self.view
                         [] OTHER -> shGraph[self.graph].content])

\* error_versions: previous dependencies and every graph the shapes graph
\* reaches now, missing ones included, at their current versions.
error_versions(shapes, deps) ==
    LET Reach[n \in 0..Cardinality(Graph)] ==
            IF n = 0 THEN {shapes}
            ELSE Reach[n - 1] \union
                   UNION {Import[shGraph[g].content] : g \in {h \in Reach[n - 1] : live(h)}}
    IN  [g \in DOMAIN deps \union Reach[Cardinality(Graph)] |-> graph_version_digest(g)]

Deps(seen) == [g \in DOMAIN seen |-> seen[g].version]

\* The data graph is one of the schema's graphs, which a change set may not be.
\* stable_error: the error follows from the shapes, so a record may keep it.
Outcome(self) ==
    CASE self.error # "none" -> self.error
      [] \E g \in DOMAIN self.seen : self.seen[g].content \in Broken -> "stable"
      [] self.mode \in {"enforce", "advisory"} /\ self.graph \in DOMAIN self.seen
            -> "stable"
      [] self.view = Absent -> "unstable"
      [] ~versions_are_current(Deps(self.seen)) -> "unstable"
      [] OTHER -> Verdict(self.view, self.seen)

\* The evaluation of the status a thread is at: what a report, a stable error
\* or any other error leaves in it.
Evaluation(self) ==
    LET x == Head(self.todo)
        shapes == x.pair[2]
        outcome == Outcome(self)
        kept == outcome \in {"Valid", "Invalid"}
    IN  [pair |-> x.pair, policy |-> x.status.policy, dv |-> self.dv,
         sv |-> self.sv, refresh |-> outcome = "stable",
         result |-> IF kept THEN outcome ELSE "Failed",
         deps |-> CASE kept -> Deps(self.seen)
                    [] outcome = "stable" -> error_versions(shapes, x.status.deps)
                    [] OTHER -> x.status.deps]

\* evaluate_bindings and evaluate_current_bindings keep every outcome; an
\* enforced write and a bind stop at an error.  An evaluation that lost a race
\* with its own shapes leaves the binding to a later replay.
evaluate_binding(t) ==
    LET self == shThread[t]
        e == Evaluation(self)
    IN  /\ At(t, "check")
        /\ IF \/ self.mode \in {"enforce", "bind"} /\ e.result = "Failed"
              \/ self.mode = "enforce" /\ e.result = "Invalid"
           THEN Fail(t)
           ELSE /\ Become(t, NextStatus([self EXCEPT !.evals = Append(@, e),
                                                     !.todo = Tail(@)]))
                /\ shDeferred' = (shDeferred \/ Outcome(self) = "unstable")
                /\ UNCHANGED <<shGraph, shStatus, shReverse, shQueue, shLock,
                               shGuard, shBare, shSpent>>

-----------------------------------------------------------------------------
(* Local writes.                                                           *)

\* Faulty: only the data graph is compared again.
prepared_shacl_current_data(self) ==
    graph_version_digest(self.graph) = self.dv

\* prepared_shacl_current: the data graph, its records and the shapes of each
\* enforced evaluation are as they were evaluated.
prepared_shacl_current(self) ==
    /\ graph_version_digest(self.graph) = self.dv
    /\ shacl_binding_statuses(self.graph) = self.prep
    /\ \A i \in DOMAIN self.evals :
          LET e == self.evals[i]
          IN  graph_version_digest(e.pair[2]) = e.sv /\ versions_are_current(e.deps)

\* bind_shacl's check of what it evaluated, under the binding guard.
bound_current(self) ==
    LET e == self.evals[1]
    IN  /\ graph_version_digest(self.graph) = e.dv
        /\ graph_version_digest(e.pair[2]) = e.sv
        /\ versions_are_current(e.deps)

\* prepare_shacl_commit: the binding guard is taken and what was prepared is
\* compared; a change starts another attempt until none is left.
prepare_shacl_commit(t) ==
    LET self == shThread[t]
        current == IF self.mode = "bind" THEN bound_current(self)
                   ELSE prepared_shacl_current(self)
    IN  /\ At(t, "fence") /\ shGuard = 0
        /\ \/ /\ current
              /\ Become(t, [self EXCEPT !.pc = "commit"])
              /\ shGuard' = t
              /\ UNCHANGED <<shGraph, shStatus, shReverse, shQueue, shLock,
                             shDeferred, shBare, shSpent>>
           \/ /\ ~current /\ self.tries + 1 < Retries
              /\ Moves(t, [self EXCEPT !.pc = "prepare", !.tries = @ + 1])
           \/ /\ ~current /\ self.tries + 1 = Retries
              /\ Fail(t)

\* The settlement after a change: what was evaluated for it is persisted, then
\* the given statuses are evaluated on the committed content, then the affected
\* graphs are settled from the store.
Settle(self, evals, rest, dv, owed) ==
    LET base == [Resting EXCEPT !.graph = self.graph, !.view = self.content,
                                !.dv = dv, !.owed = owed]
    IN  CASE evals # <<>> -> [base EXCEPT !.mode = "enforce", !.pc = "refresh",
                                          !.evals = evals, !.prep = rest]
          [] evals = <<>> /\ rest # <<>> ->
                NextStatus([base EXCEPT !.mode = "advisory", !.todo = rest])
          [] OTHER -> settle_shacl_graphs(owed)

Write(g, c) ==
    shGraph' = [shGraph EXCEPT ![g] = [content |-> c, version |-> @.version + 1]]

\* The commit of commit_with_plan: the change, its pending records and their
\* queue keys are one batch; the evaluations are stamped with its version
\* (stamp_evaluations) and the guards are released.
commit_with_plan(t) ==
    LET self == shThread[t]
        version == graph_version_digest(self.graph) + 1
        batch == stage_pending_bindings(self.graph, version)
        advisory == SelectSeq(self.prep, LAMBDA x : x.status.policy = "Advisory")
        stamped == [i \in DOMAIN self.evals |-> [self.evals[i] EXCEPT !.dv = version]]
    IN  /\ At(t, "commit") /\ self.mode = "enforce"
        /\ Write(self.graph, self.content)
        /\ Commit(batch, shStatus)
        /\ shQueue' = shQueue \union Queued(batch)
        /\ Become(t, Settle(self, stamped, advisory, version,
                            affected_shacl_graphs(self.graph)))
        /\ shLock' = Unlocked(t)
        /\ shGuard' = 0
        /\ UNCHANGED <<shDeferred, shBare, shSpent>>

\* A local write takes its graph's guards; a graph it names first is created.
start_write(t, g, c) ==
    /\ Idle(t) /\ shLock[g] = 0
    /\ MayChange /\ c # shGraph[g].content
    /\ live(g) \/ g \notin shSpent.deleted
    /\ shLock' = [shLock EXCEPT ![g] = t]
    /\ shGraph' = IF live(g) THEN shGraph ELSE [shGraph EXCEPT ![g].content = 0]
    /\ Spend("writes")
    /\ Become(t, [Resting EXCEPT !.pc = "prepare", !.mode = "enforce",
                                 !.graph = g, !.content = c])
    /\ UNCHANGED <<shStatus, shReverse, shQueue, shGuard, shDeferred, shBare>>

\* A remote batch (apply_irokle_plan): both guards are held from reading the
\* statuses to the commit, and no policy can refuse it.  A batch the graph has
\* already applied only settles what is pending.
apply_irokle_plan(t, g, c, fresh) ==
    LET version == graph_version_digest(g) + 1
        batch == stage_pending_bindings(g, version)
        work == SelectSeq(shacl_binding_statuses(g),
                          LAMBDA x : x.status.policy # "Disabled")
        owed == affected_shacl_graphs(g)
    IN  /\ Idle(t) /\ shLock[g] = 0 /\ shGuard = 0
        /\ MayChange /\ live(g) /\ c # shGraph[g].content
        /\ Spend("writes")
        /\ IF fresh
           THEN /\ Write(g, c)
                /\ Commit(batch, shStatus)
                /\ shQueue' = shQueue \union Queued(batch)
                /\ Become(t, Settle([graph |-> g, content |-> c], <<>>, work,
                                    version, owed))
           ELSE /\ Become(t, settle_shacl_graphs(<<g>> \o owed))
                /\ UNCHANGED <<shGraph, shStatus, shReverse, shQueue>>
        /\ UNCHANGED <<shLock, shGuard, shDeferred, shBare>>

-----------------------------------------------------------------------------
(* Persisting evaluations.                                                 *)

\* persist_shacl_evaluations first refreshes the dependencies of evaluations
\* that failed on their shapes, outside the binding guard.
refresh_versions(t) ==
    LET self == shThread[t]
    IN  /\ At(t, "refresh")
        /\ Moves(t, [self EXCEPT !.pc = "persist", !.evals =
              [i \in DOMAIN @ |-> IF @[i].refresh
                                  THEN @[i] @@ [fresh |-> error_versions(@[i].pair[2], @[i].deps)]
                                  ELSE @[i]]])

\* Faulty: the version of the data graph is not compared.
Applies_any_data(e, status, dv) ==
    /\ status.policy = e.policy /\ status.state = "Pending"
    /\ graph_version_digest(e.pair[2]) = e.sv

\* An evaluation counts only for the binding it was made for, while that is
\* pending, at the data and shapes versions the store has now.
Applies(e, status, dv) ==
    /\ status.policy = e.policy /\ status.state = "Pending"
    /\ e.dv = dv
    /\ graph_version_digest(e.pair[2]) = e.sv

\* The record an evaluation leaves: pending again under refreshed dependencies
\* when one of them moved, else its verdict.
Evaluated(e, dv) ==
    LET current == versions_are_current(e.deps)
    IN  [policy |-> e.policy, dv |-> dv, sv |-> e.sv,
         state |-> IF current THEN e.result ELSE "Pending",
         deps |-> IF current THEN e.deps ELSE e.fresh]

\* persist_shacl_evaluations under the binding guard: what it writes.  An
\* evaluation whose dependencies moved leaves its binding to a later replay.
persist_shacl_evaluations(t) ==
    LET self == shThread[t]
        dv == graph_version_digest(self.graph)
        applied == {e \in Range(self.evals) : Applies(e, shStatus[e.pair], dv)}
        written == {e \in applied : versions_are_current(e.deps) \/ e.refresh}
        batch == [p \in {e.pair : e \in written} |->
                     Evaluated(CHOOSE e \in written : e.pair = p, dv)]
        now == [p \in Pairs |-> IF p \in DOMAIN batch THEN batch[p] ELSE shStatus[p]]
        pending == \E p \in Pairs : /\ p[1] = self.graph /\ now[p].state = "Pending"
                                    /\ now[p].policy # "Disabled"
    IN  /\ At(t, "persist") /\ shGuard = 0
        /\ Become(t, [self EXCEPT !.pc = "store",
              !.batch = [records |-> batch, before |-> [p \in DOMAIN batch |-> shStatus[p]],
                         settled |-> ~pending]])
        /\ shGuard' = t
        /\ shDeferred' = (shDeferred \/ \E e \in applied : ~versions_are_current(e.deps))
        /\ UNCHANGED <<shGraph, shStatus, shReverse, shQueue, shLock, shBare, shSpent>>

\* What follows a persisted list: the advisory statuses of a write, then the
\* graphs it owes.
AfterPersist(self) == Settle(self, <<>>, self.prep, self.dv, self.owed)

\* Faulty: the queue key goes as soon as one evaluation list was stored.
stage_shacl_settled_always(self) == {self.graph}

stage_shacl_settled(self) == IF self.batch.settled THEN {self.graph} ELSE {}

store_evaluations(t) ==
    LET self == shThread[t]
        batch == self.batch.records
    IN  /\ At(t, "store")
        /\ Commit(batch, self.batch.before)
        /\ shQueue' = (shQueue \union Queued(batch)) \ stage_shacl_settled(self)
        /\ shGuard' = 0
        /\ Become(t, AfterPersist([self EXCEPT !.content = self.view]))
        /\ UNCHANGED <<shGraph, shLock, shDeferred, shBare, shSpent>>

\* A settlement fails: the records stay pending and queued
\* (report_settlement_failure), and the graph is not settled again.
report_settlement_failure(t) ==
    LET self == shThread[t]
    IN  /\ At(t, "persist") /\ shSpent.faults < MaxFaults
        /\ Spend("faults")
        /\ shDeferred' = TRUE
        /\ Become(t, AfterPersist([self EXCEPT !.content = self.view,
              !.owed = SelectSeq(@, LAMBDA g : g # self.graph)]))
        /\ UNCHANGED <<shGraph, shStatus, shReverse, shQueue, shLock, shGuard, shBare>>

-----------------------------------------------------------------------------
(* Changes that stage pending records without the binding guard.           *)

\* install_with_receipt stages a joined snapshot under the graph's guard alone ...
start_join(t, g, c) ==
    LET version == graph_version_digest(g) + 1
        batch == stage_pending_bindings(g, version)
    IN  /\ Idle(t) /\ shLock[g] = 0 /\ live(g)
        /\ shBare < MaxBare /\ MayChange /\ c # shGraph[g].content
        /\ shBare' = shBare + 1
        /\ shLock' = [shLock EXCEPT ![g] = t]
        /\ Become(t, [Resting EXCEPT !.pc = "join", !.graph = g, !.content = c,
                        !.owed = <<g>> \o affected_shacl_graphs(g),
                        !.batch = [records |-> batch, settled |-> FALSE,
                                   before |-> [p \in DOMAIN batch |-> shStatus[p]]]])
        /\ UNCHANGED <<shGraph, shStatus, shReverse, shQueue, shGuard, shDeferred,
                       shSpent>>

\* ... commits it, and settles what it affected.
join_snapshot(t) ==
    LET self == shThread[t]
        batch == self.batch.records
    IN  /\ At(t, "join")
        /\ Write(self.graph, self.content)
        /\ Commit(batch, self.batch.before)
        /\ shQueue' = shQueue \union Queued(batch)
        /\ shLock' = Unlocked(t)
        /\ Become(t, settle_shacl_graphs(self.owed))
        /\ UNCHANGED <<shGuard, shDeferred, shBare, shSpent>>

\* replace_snapshot: the quads of a repair, perhaps under the same clock.  Its
\* settlement is left to a replay.
replace_snapshot(g, c, version) ==
    LET batch == stage_pending_bindings(g, version)
    IN  /\ shOpen /\ shLock[g] = 0 /\ live(g)
        /\ shBare < MaxBare /\ MayChange /\ c # shGraph[g].content
        /\ shBare' = shBare + 1
        /\ shDeferred' = TRUE
        /\ shGraph' = [shGraph EXCEPT ![g] = [content |-> c, version |-> version]]
        /\ Commit(batch, shStatus)
        /\ shQueue' = shQueue \union Queued(batch)
        /\ UNCHANGED <<shLock, shGuard, shThread, shOpen, shSpent>>

-----------------------------------------------------------------------------
(* Binding, unbinding and deleting.                                        *)

start_bind(t, p, policy) ==
    /\ Idle(t) /\ shLock[p[1]] = 0 /\ live(p[1]) /\ live(p[2])
    /\ shSpent.binds < MaxBinds /\ Spend("binds")
    /\ shLock' = [shLock EXCEPT ![p[1]] = t]
    /\ Become(t, [Resting EXCEPT !.pc = "prepare", !.mode = "bind", !.graph = p[1],
                                 !.pair = p, !.policy = policy])
    /\ UNCHANGED <<shGraph, shStatus, shReverse, shQueue, shGuard, shDeferred, shBare>>

\* bind_shacl stores the status it evaluated; it queues nothing.
bind_shacl(t) ==
    LET self == shThread[t]
        e == self.evals[1]
        record == [policy |-> e.policy, state |-> e.result, dv |-> e.dv,
                   sv |-> e.sv, deps |-> e.deps]
    IN  /\ At(t, "commit") /\ self.mode = "bind"
        /\ Commit(e.pair :> record, shStatus)
        /\ shLock' = Unlocked(t)
        /\ shGuard' = 0
        /\ Become(t, Resting)
        /\ UNCHANGED <<shGraph, shQueue, shDeferred, shBare, shSpent>>

unbind_shacl(p) ==
    /\ shOpen /\ shLock[p[1]] = 0 /\ shGuard = 0
    /\ p \in Bound /\ MayChange /\ Spend("writes")
    /\ shStatus' = [shStatus EXCEPT ![p] = NoRecord]
    /\ shReverse' = stage_binding_remove(shReverse, p, shStatus[p])
    /\ UNCHANGED <<shGraph, shQueue, shLock, shGuard, shThread, shOpen, shDeferred,
                   shBare>>

\* delete_graph_inner: the graph's own bindings go with it, the others that
\* depend on it become pending for a later replay.
delete_graph_inner(g) ==
    LET own == {p \in binding_keys(g) : p[1] = g}
        others == {p \in binding_keys(g) \ own : shStatus[p].policy # "Disabled"}
        batch == [p \in others |-> [shStatus[p] EXCEPT !.state = "Pending"]]
        gone == FoldSet(LAMBDA p, r : stage_binding_remove(r, p, shStatus[p]),
                        shReverse, own)
    IN  /\ shOpen /\ shLock[g] = 0 /\ shGuard = 0 /\ live(g)
        /\ MayChange
        /\ shSpent' = [shSpent EXCEPT !.writes = @ + 1, !.deleted = @ \union {g}]
        /\ shGraph' = [shGraph EXCEPT ![g] = [content |-> Absent, version |-> 0]]
        /\ shStatus' = [p \in Pairs |-> IF p \in own THEN NoRecord
                                        ELSE IF p \in others THEN batch[p]
                                        ELSE shStatus[p]]
        /\ shReverse' = gone
        /\ shQueue' = (shQueue \ {g}) \union {p[1] : p \in others}
        /\ shDeferred' = (shDeferred \/ others # {})
        /\ UNCHANGED <<shLock, shGuard, shThread, shOpen, shBare>>

-----------------------------------------------------------------------------
(* Replay, repair, crash and open.                                         *)

\* replay_bindings_bounded: the first n graphs of the queue, each settled from
\* the store; a pass over all of them takes up what was deferred.
replay_bindings_bounded(t, n) ==
    LET graphs == GraphSeq(shQueue)
    IN  /\ Idle(t) /\ n \in 1..Len(graphs)
        /\ Become(t, settle_shacl_graphs(SubSeq(graphs, 1, n)))
        /\ shDeferred' = (shDeferred /\ n < Len(graphs))
        /\ UNCHANGED <<shGraph, shStatus, shReverse, shQueue, shLock, shGuard,
                       shBare, shSpent>>

\* repair_shacl_queue: the queue again, from the records.
repair_shacl_queue ==
    /\ shOpen /\ shGuard = 0
    /\ shQueue' = {p[1] : p \in {p \in Bound : /\ shStatus[p].policy # "Disabled"
                                               /\ shStatus[p].state = "Pending"}}
    /\ UNCHANGED <<shGraph, shStatus, shReverse, shLock, shGuard, shThread, shOpen,
                   shDeferred, shBare, shSpent>>

ShaclCrash ==
    /\ shOpen /\ shSpent.faults < MaxFaults /\ Spend("faults")
    /\ shThread' = [t \in Thread |-> Resting]
    /\ shLock' = [g \in Graph |-> 0]
    /\ shGuard' = 0
    /\ shOpen' = FALSE
    /\ UNCHANGED <<shGraph, shStatus, shReverse, shQueue, shDeferred, shBare>>

\* Opening the store replays the whole queue first (ReplayAllBeforeOpen).
open_replay(t) ==
    /\ ~shOpen /\ \A u \in Thread : At(u, "idle")
    /\ Become(t, settle_shacl_graphs(GraphSeq(shQueue)))
    /\ shDeferred' = FALSE
    /\ UNCHANGED <<shGraph, shStatus, shReverse, shQueue, shLock, shGuard, shBare,
                   shSpent>>

-----------------------------------------------------------------------------
ShaclInit ==
    /\ shGraph = [g \in Graph |->
                     [content |-> Start[g], version |-> IF Start[g] = Absent THEN 0 ELSE 1]]
    /\ shStatus = [p \in Pairs |-> NoRecord]
    /\ shReverse = {} /\ shQueue = {}
    /\ shLock = [g \in Graph |-> 0] /\ shGuard = 0
    /\ shThread = [t \in Thread |-> Resting]
    /\ shOpen = TRUE /\ shDeferred = FALSE /\ shBare = 0
    /\ shSpent = [writes |-> 0, binds |-> 0, faults |-> 0, deleted |-> {}]

\* What a thread does by itself once it started something.
ShaclStep(t) ==
    \/ prepare_shacl_write(t) \/ evaluate_current_bindings(t) \/ data_digest(t)
    \/ bind_attempt(t) \/ visit_shape_graph(t) \/ view_graph(t)
    \/ evaluate_binding(t) \/ prepare_shacl_commit(t) \/ commit_with_plan(t)
    \/ refresh_versions(t) \/ persist_shacl_evaluations(t) \/ store_evaluations(t)
    \/ join_snapshot(t) \/ bind_shacl(t)

ShaclNext ==
    \/ \E t \in Thread :
          \/ ShaclStep(t) \/ open_replay(t) \/ report_settlement_failure(t)
          \/ \E g \in Graph : \E c \in Contents[g] :
                \/ start_write(t, g, c) \/ start_join(t, g, c)
                \/ \E fresh \in BOOLEAN : apply_irokle_plan(t, g, c, fresh)
          \/ \E p \in Pairs, policy \in {"Enforce", "Advisory", "Disabled"} :
                start_bind(t, p, policy)
          \/ \E n \in 1..Cardinality(Graph) : replay_bindings_bounded(t, n)
    \/ \E g \in Graph : \E c \in Contents[g] : \E v \in {0, 1} :
          replace_snapshot(g, c, graph_version_digest(g) + v)
    \/ \E p \in Pairs : unbind_shacl(p)
    \/ \E g \in Graph : delete_graph_inner(g)
    \/ repair_shacl_queue
    \/ ShaclCrash

ShaclSpec == ShaclInit /\ [][ShaclNext]_shaclVars

\* Threads run, and a store that crashed is opened again.
ShaclFairSpec ==
    /\ ShaclSpec
    /\ \A t \in Thread : WF_shaclVars(ShaclStep(t))
    /\ WF_shaclVars(\E t \in Thread : open_replay(t))

-----------------------------------------------------------------------------
(* Properties.                                                             *)

\* shacl_binding_statuses of the node reports a record only while the data
\* graph and every dependency are at the versions it was made for.
Reported(p) ==
    LET s == shStatus[p]
    IN  IF /\ live(p[1]) /\ s.dv = graph_version_digest(p[1])
           /\ p[2] \in DOMAIN s.deps /\ s.deps[p[2]] = s.sv
           /\ versions_are_current(s.deps)
        THEN s.state ELSE "Pending"

\* The graphs a schema is made of now.
Closure(g) ==
    LET Reach[n \in 0..Cardinality(Graph)] ==
            IF n = 0 THEN {g}
            ELSE Reach[n - 1] \union
                   UNION {Import[shGraph[h].content] : h \in {k \in Reach[n - 1] : live(k)}}
    IN  Reach[Cardinality(Graph)]

Complete(p) == \A g \in Closure(p[2]) : live(g)

Judged(p) == Verdict(shGraph[p[1]].content, [g \in Closure(p[2]) |-> shGraph[g]])

Active == {p \in Bound : shStatus[p].policy # "Disabled"}

ShaclTypeOK ==
    /\ \A p \in Pairs : shStatus[p].state \in {"None", "Pending", "Valid", "Invalid", "Failed"}
    /\ shQueue \subseteq Graph
    /\ shGuard \in Thread \union {0}
    /\ \A g \in Graph : shLock[g] \in Thread \union {0}

\* A verdict the node reports is the verdict on the store's contents, whatever
\* writes, shape changes and settlements ran beside the evaluation, as long as
\* no snapshot was replaced under an unchanged clock.
VerdictIsCurrent ==
    shBare = 0 => \A p \in Active : Reported(p) \in {"Valid", "Invalid"} =>
                                        Complete(p) /\ Reported(p) = Judged(p)

\* An active binding that the node reports as pending is in the durable queue,
\* so a crash at any moment loses no validation (stage_binding_pending and
\* stage_shacl_settled), as long as every change staged it under the guard.
PendingIsQueued ==
    shBare = 0 => \A p \in Active : Reported(p) = "Pending" => p[1] \in shQueue

\* The reverse keys are exactly the dependencies the records name, so that a
\* change of any of them finds its bindings (binding_keys).
ReverseIsExact ==
    shBare = 0 => shReverse = {<<g, p>> \in Graph \X Pairs :
                                  p \in Bound /\ g \in DOMAIN shStatus[p].deps}

\* A local write to a graph with enforced bindings is committed only when its
\* result conforms to each of them under the shapes the store has at that
\* moment (prepare_shacl_commit), whatever moved during the evaluation.
EnforcedWriteStep ==
    \A t \in Thread :
      (/\ shBare = 0 /\ At(t, "commit") /\ shThread[t].mode = "enforce"
       /\ ~At(t, "commit")' /\ shOpen') =>
         \A p \in Active : (p[1] = shThread[t].graph /\ shStatus[p].policy = "Enforce")
                              => (Complete(p) /\ Judged(p) = "Valid")'
EnforcedWritesConform == [][EnforcedWriteStep]_shaclVars

\* An evaluation never overwrites a record made for another version of the
\* data graph than the one it judged (persist_shacl_evaluations).
OlderNeverOverwrites ==
    [][\A t \in Thread, p \in Pairs :
         (At(t, "store") /\ ~At(t, "store")' /\ shOpen' /\ p \in DOMAIN shThread[t].batch.records)
            => shThread[t].batch.records[p].dv = graph_version_digest(p[1])]_shaclVars

\* Once changes stop, every active binding whose shapes are all there has a
\* verdict or an error on record: the last committer settles it, or the replay
\* of a restart, unless a settlement failed, lost a race with the shapes it was
\* reading, or was left to a replay by the change itself.
BindingsSettled ==
    shDeferred \/ shBare > 0 \/ \A p \in Active : Complete(p) => Reported(p) # "Pending"
BindingsSettle == <>[]BindingsSettled

=============================================================================
