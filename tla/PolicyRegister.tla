--------------------------- MODULE PolicyRegister ---------------------------
(***************************************************************************)
(* The access policy of one graph as a replicated register.  A write mints *)
(* a tag from the policy it reads, publishes the tagged policy to the      *)
(* graph's topic and stores it; reconciliation stores a record's policy    *)
(* when its tag is greater than the stored one.                            *)
(*                                                                         *)
(* The tag is minted before the graph write guard is taken, the guard      *)
(* covers publication and apply.  Every node's authorizer admits the       *)
(* policies of every other node, and every write is published: a policy    *)
(* set with WalAlreadyDurable stays on its node by design.                 *)
(***************************************************************************)
EXTENDS Naturals, Sequences

CONSTANTS Peer,       \* actors of the topic, ordered as their ids are
          Caller,     \* the callers of set_graph_policy
          Home,       \* the node that a caller writes to
          Policy,     \* the policies
          Default,    \* the policy of a graph for which none was set
          MaxWrites   \* bound on the writes

ASSUME NodeAssumption == Peer \subseteq Nat \ {0} /\ Home \in [Caller -> Peer]

ASSUME PolicyAssumption == Default \in Policy /\ MaxWrites \in Nat

VARIABLES policy,   \* per node, the stored policy and its tag
          topic,    \* per node, the policy records it has published
          cursor,   \* per node, how many records of each node it has consumed
          progress, \* per caller: "idle", "minted", or "published" with the guard held
          request,  \* per caller, the policy it is about to store
          writes,   \* the writes so far
          stale     \* whether a published tag was not above all its node knew of

policyVars == <<policy, topic, cursor, progress, request, writes, stale>>

Tag == [counter : Nat, actor : Peer \cup {0}]

Tagged == [policy : Policy, tag : Tag]

\* The order that Rust derives for the tag: counter first, then actor.
Above(t, u) ==
    \/ t.counter > u.counter
    \/ t.counter = u.counter /\ t.actor > u.actor

Genesis == [policy |-> Default, tag |-> [counter |-> 0, actor |-> 0]]

next_local(previous, actor) == [counter |-> previous.counter + 1, actor |-> actor]

PolicyTypeOK ==
    /\ policy \in [Peer -> Tagged]
    /\ topic \in [Peer -> Seq(Tagged)]
    /\ cursor \in [Peer -> [Peer -> Nat]]
    /\ \A n, a \in Peer : cursor[n][a] <= Len(topic[a])
    /\ progress \in [Caller -> {"idle", "minted", "published"}]
    /\ request \in [Caller -> Tagged]
    /\ writes \in 0 .. MaxWrites
    /\ stale \in BOOLEAN

PolicyInit ==
    /\ policy = [n \in Peer |-> Genesis]
    /\ topic = [n \in Peer |-> <<>>]
    /\ cursor = [n \in Peer |-> [a \in Peer |-> 0]]
    /\ progress = [w \in Caller |-> "idle"]
    /\ request = [w \in Caller |-> Genesis]
    /\ writes = 0
    /\ stale = FALSE

-----------------------------------------------------------------------------

Guarded(n) == \E w \in Caller : Home[w] = n /\ progress[w] = "published"

\* The stored policy is read and the next tag minted, without a lock.  The graph
\* exists, so that a write of the stored policy is no change.
persist_policy(w, value) ==
    /\ progress[w] = "idle"
    /\ writes < MaxWrites
    /\ policy[Home[w]].policy # value
    /\ request' = [request EXCEPT ![w] =
                     [policy |-> value, tag |-> next_local(policy[Home[w]].tag, Home[w])]]
    /\ progress' = [progress EXCEPT ![w] = "minted"]
    /\ writes' = writes + 1
    /\ UNCHANGED <<policy, topic, cursor, stale>>

\* The tag is above the stored one and above the tags this node has published.
Fresh(n, tag) ==
    /\ Above(tag, policy[n].tag)
    /\ \A i \in DOMAIN topic[n] : Above(tag, topic[n][i].tag)

\* The guard is taken and the record published.
publish_policy(w) ==
    LET n == Home[w] IN
    /\ progress[w] = "minted"
    /\ ~Guarded(n)
    /\ topic' = [topic EXCEPT ![n] = Append(@, request[w])]
    /\ progress' = [progress EXCEPT ![w] = "published"]
    /\ stale' = (stale \/ ~Fresh(n, request[w].tag))
    /\ UNCHANGED <<policy, cursor, request, writes>>

\* The published policy is stored as it is, and the guard released.
set_policy_receipt(w) ==
    /\ progress[w] = "published"
    /\ policy' = [policy EXCEPT ![Home[w]] = request[w]]
    /\ progress' = [progress EXCEPT ![w] = "idle"]
    /\ UNCHANGED <<topic, cursor, request, writes, stale>>

\* The store fails: the record stays in the topic.
StoreFails(w) ==
    /\ progress[w] = "published"
    /\ progress' = [progress EXCEPT ![w] = "idle"]
    /\ UNCHANGED <<policy, topic, cursor, request, writes, stale>>

\* Faulty: a record's policy is stored whatever its tag.
apply_policy_record_any(n, a) ==
    /\ ~Guarded(n)
    /\ cursor[n][a] < Len(topic[a])
    /\ cursor' = [cursor EXCEPT ![n][a] = @ + 1]
    /\ policy' = [policy EXCEPT ![n] = topic[a][cursor'[n][a]]]
    /\ UNCHANGED <<topic, progress, request, writes, stale>>

\* Faulty: the cursor moves past a record that was not there yet.
apply_policy_record_overruns(n, a) ==
    /\ ~Guarded(n)
    /\ cursor[n][a] < Len(topic[a])
    /\ cursor' = [cursor EXCEPT ![n][a] = @ + 2]
    /\ UNCHANGED <<policy, topic, progress, request, writes, stale>>

\* Reconciliation consumes the next record of an actor and stores its policy when
\* the tag is above the stored one.
apply_policy_record(n, a) ==
    /\ ~Guarded(n)
    /\ cursor[n][a] < Len(topic[a])
    /\ cursor' = [cursor EXCEPT ![n][a] = @ + 1]
    /\ LET tagged == topic[a][cursor'[n][a]] IN
       policy' = IF Above(tagged.tag, policy[n].tag)
                 THEN [policy EXCEPT ![n] = tagged] ELSE policy
    /\ UNCHANGED <<topic, progress, request, writes, stale>>

PolicyNext ==
    \/ \E w \in Caller, value \in Policy : persist_policy(w, value)
    \/ \E w \in Caller : publish_policy(w) \/ set_policy_receipt(w) \/ StoreFails(w)
    \/ \E n, a \in Peer : apply_policy_record(n, a)

PolicySpec == PolicyInit /\ [][PolicyNext]_policyVars

-----------------------------------------------------------------------------
(* Properties.                                                             *)

\* Every record has reached every node and no write is under way.
PolicySettled ==
    /\ \A w \in Caller : progress[w] # "published"
    /\ \A n, a \in Peer : cursor[n][a] = Len(topic[a])

\* PolicySettled nodes agree on the policy: policy changes "converge by total PolicyTag
\* order".  Two writes that mint from the same stored policy break this, and so does
\* a write that publishes below a record reconciled since it minted.
PolicyConverges ==
    PolicySettled => \A m, n \in Peer : policy[m].policy = policy[n].policy

\* As long as every published tag was above all its node knew of, settled nodes
\* agree, and on the greatest tag published: whatever the order of delivery, and
\* whichever own applies failed.
FreshPolicyConverges ==
    ~stale /\ PolicySettled =>
        \A n \in Peer :
            /\ \A m \in Peer : policy[m] = policy[n]
            /\ \A a \in Peer : \A i \in DOMAIN topic[a] : ~Above(topic[a][i].tag, policy[n].tag)

=============================================================================
