------------------------- MODULE GraphStateProofs ---------------------------
(***************************************************************************)
(* The two things a node stores of a graph besides its clock.              *)
(*                                                                         *)
(* Its policy: the register converges as long as the tags are fresh, for   *)
(* any nodes, writers and policies.                                        *)
(*                                                                         *)
(* Its quads: for any batch over any quads the staged loop computes        *)
(* ApplyOps, and the query index stays the set of live quads.              *)
(***************************************************************************)
EXTENDS PolicyRegister, StagedBatch, TLAPS

-----------------------------------------------------------------------------
(* The policy register.                                                    *)

\* A stored policy is the default one or one that was published.
StoredWasPublished ==
    \A n \in Peer :
        \/ policy[n] = Genesis
        \/ \E a \in Peer : \E i \in DOMAIN topic[a] : policy[n] = topic[a][i]

\* Records carry the tag of their own actor.
TagsAreOwn ==
    /\ \A a \in Peer : \A i \in DOMAIN topic[a] :
          topic[a][i].tag.actor = a /\ topic[a][i].tag.counter > 0
    /\ \A w \in Caller : progress[w] # "idle" =>
          request[w].tag.actor = Home[w] /\ request[w].tag.counter > 0

\* Fresh tags grow along the records of a node.
TagsGrow ==
    ~stale => \A a \in Peer : \A i, j \in DOMAIN topic[a] :
                 i < j => Above(topic[a][j].tag, topic[a][i].tag)

\* No consumed record is above the stored policy.
ConsumedIsCovered ==
    ~stale => \A n, a \in Peer : \A i \in 1 .. cursor[n][a] :
                 ~Above(topic[a][i].tag, policy[n].tag)

\* At most one writer of a node holds the guard; what it has published is in the
\* topic and, with a fresh tag, above the stored policy.
GuardHolder ==
    /\ \A v, w \in Caller :
          progress[v] = "published" /\ progress[w] = "published" /\ Home[v] = Home[w] => v = w
    /\ \A w \in Caller : progress[w] = "published" =>
          /\ \E i \in DOMAIN topic[Home[w]] : topic[Home[w]][i] = request[w]
          /\ ~stale => Above(request[w].tag, policy[Home[w]].tag)

PolicyInv ==
    /\ PolicyTypeOK
    /\ StoredWasPublished
    /\ TagsAreOwn
    /\ TagsGrow
    /\ ConsumedIsCovered
    /\ GuardHolder

-----------------------------------------------------------------------------

\* The tags are totally ordered: what is not above a tag is not above a greater one.
LEMMA AboveOrder ==
    ASSUME NEW t \in Tag, NEW u \in Tag, NEW v \in Tag
    PROVE  /\ Above(t, u) => ~Above(u, t)
           /\ Above(u, v) /\ ~Above(t, v) => ~Above(t, u)
           /\ ~Above(t, u) /\ ~Above(u, t) =>
                 t.counter = u.counter /\ t.actor = u.actor
  <1>0. Peer \cup {0} \subseteq Nat
    BY NodeAssumption
  <1>1. t.actor \in Nat /\ u.actor \in Nat /\ v.actor \in Nat
    <2>1. t.actor \in Peer \cup {0} /\ u.actor \in Peer \cup {0} /\ v.actor \in Peer \cup {0}
      BY Zenon DEF Tag
    <2> QED  BY <1>0, <2>1, Zenon
  <1>2. t.counter \in Nat /\ u.counter \in Nat /\ v.counter \in Nat
    BY Zenon DEF Tag
  <1> QED  BY <1>1, <1>2 DEF Above

\* The initial state.
LEMMA PolicyInitOK == PolicyInit => PolicyInv
  <1> SUFFICES ASSUME PolicyInit PROVE PolicyInv
    BY Zenon
  <1>1. Genesis \in Tagged
    BY PolicyAssumption, Zenon DEF Genesis, Tagged, Tag
  <1>2. PolicyTypeOK
    <2>1. policy \in [Peer -> Tagged] /\ request \in [Caller -> Tagged]
      BY <1>1, Zenon DEF PolicyInit
    <2>2. topic \in [Peer -> Seq(Tagged)]
      BY DEF PolicyInit
    <2>3. cursor \in [Peer -> [Peer -> Nat]]
      BY Zenon DEF PolicyInit
    <2>4. \A n, a \in Peer : cursor[n][a] <= Len(topic[a])
      BY DEF PolicyInit
    <2>5. progress \in [Caller -> {"idle", "minted", "published"}] /\ stale \in BOOLEAN
      BY Zenon DEF PolicyInit
    <2>6. writes \in 0 .. MaxWrites
      BY PolicyAssumption DEF PolicyInit
    <2> QED  BY <2>1, <2>2, <2>3, <2>4, <2>5, <2>6, Zenon DEF PolicyTypeOK
  <1>3. StoredWasPublished /\ TagsAreOwn /\ TagsGrow /\ GuardHolder
    BY DEF PolicyInit, StoredWasPublished, TagsAreOwn, TagsGrow, GuardHolder
  <1>4. ConsumedIsCovered
    BY DEF PolicyInit, ConsumedIsCovered
  <1> QED  BY <1>2, <1>3, <1>4, Zenon DEF PolicyInv

\* persist_policy mints a tag and leaves stores and topics alone.
LEMMA MintStep ==
    ASSUME PolicyInv, NEW w \in Caller, NEW value \in Policy, persist_policy(w, value)
    PROVE  PolicyInv'
  <1> DEFINE n == Home[w]
             new == [policy |-> value, tag |-> next_local(policy[n].tag, n)]
  <1>1. n \in Peer
    BY NodeAssumption, Zenon
  <1>2. policy[n].tag.counter \in Nat
    BY <1>1, Zenon DEF PolicyInv, PolicyTypeOK, Tagged, Tag
  <1>3. new \in Tagged /\ new.tag.actor = n /\ new.tag.counter > 0
    BY <1>1, <1>2, NodeAssumption DEF next_local, Tagged, Tag
  <1>4. request' = [request EXCEPT ![w] = new] /\ progress' = [progress EXCEPT ![w] = "minted"]
    BY Zenon DEF persist_policy
  <1>5. UNCHANGED <<policy, topic, cursor, stale>>
    BY Zenon DEF persist_policy
  <1>6. PolicyTypeOK'
    BY <1>3, <1>4, <1>5, PolicyAssumption DEF PolicyInv, PolicyTypeOK, persist_policy
  <1>7. StoredWasPublished' /\ TagsGrow' /\ ConsumedIsCovered'
    BY <1>5 DEF PolicyInv, StoredWasPublished, TagsGrow, ConsumedIsCovered
  <1>8. TagsAreOwn'
    BY <1>3, <1>4, <1>5 DEF PolicyInv, PolicyTypeOK, TagsAreOwn
  <1>9. GuardHolder'
    BY <1>4, <1>5, Zenon DEF PolicyInv, PolicyTypeOK, GuardHolder
  <1> QED  BY <1>6, <1>7, <1>8, <1>9, Zenon DEF PolicyInv

\* publish_policy appends the request and takes the guard.
LEMMA PublishStep ==
    ASSUME PolicyInv, NEW w \in Caller, publish_policy(w)
    PROVE  PolicyInv'
  <1> DEFINE n == Home[w]
  <1>1. n \in Peer /\ request[w] \in Tagged /\ topic[n] \in Seq(Tagged)
    BY NodeAssumption, Zenon DEF PolicyInv, PolicyTypeOK
  <1>2. /\ topic' = [topic EXCEPT ![n] = Append(@, request[w])]
        /\ progress' = [progress EXCEPT ![w] = "published"]
        /\ stale' = (stale \/ ~Fresh(n, request[w].tag))
        /\ UNCHANGED <<policy, cursor, request, writes>>
        /\ progress[w] = "minted"
        /\ ~Guarded(n)
    BY Zenon DEF publish_policy
  <1>3. /\ topic'[n] = Append(topic[n], request[w])
        /\ \A a \in Peer \ {n} : topic'[a] = topic[a]
    BY <1>1, <1>2, Zenon DEF PolicyInv, PolicyTypeOK
  <1>4. /\ Len(topic'[n]) = Len(topic[n]) + 1
        /\ topic'[n][Len(topic[n]) + 1] = request[w]
        /\ \A i \in DOMAIN topic[n] : topic'[n][i] = topic[n][i]
        /\ DOMAIN topic'[n] = DOMAIN topic[n] \cup {Len(topic[n]) + 1}
        /\ DOMAIN topic[n] = 1 .. Len(topic[n])
        /\ Len(topic[n]) \in Nat
    BY <1>1, <1>3
  <1>5. PolicyTypeOK'
    <2>1. topic' \in [Peer -> Seq(Tagged)]
      BY <1>1, <1>2 DEF PolicyInv, PolicyTypeOK
    <2>2. \A m, a \in Peer : cursor'[m][a] <= Len(topic'[a])
      BY <1>2, <1>3, <1>4, SMTT(30) DEF PolicyInv, PolicyTypeOK
    <2>3. stale' \in BOOLEAN
      BY <1>2, Zenon DEF PolicyInv, PolicyTypeOK
    <2> QED  BY <1>2, <2>1, <2>2, <2>3, Zenon DEF PolicyInv, PolicyTypeOK
  <1>6. StoredWasPublished'
    <2> SUFFICES ASSUME NEW m \in Peer, policy[m] # Genesis
                 PROVE  \E a \in Peer : \E i \in DOMAIN topic'[a] : policy[m] = topic'[a][i]
      BY <1>2, Zenon DEF StoredWasPublished
    <2>1. PICK a \in Peer : \E i \in DOMAIN topic[a] : policy[m] = topic[a][i]
      BY Zenon DEF PolicyInv, StoredWasPublished
    <2>2. PICK i \in DOMAIN topic[a] : policy[m] = topic[a][i]
      BY <2>1, Zenon
    <2>3. i \in DOMAIN topic'[a] /\ topic'[a][i] = topic[a][i]
      BY <1>3, <1>4, Zenon
    <2> QED  BY <2>2, <2>3, Zenon
  <1>7. TagsAreOwn'
    BY <1>1, <1>2, <1>3, <1>4, SMTT(30) DEF PolicyInv, PolicyTypeOK, TagsAreOwn
  <1>8. TagsGrow'
    <2> SUFFICES ASSUME ~stale', NEW a \in Peer, NEW i \in DOMAIN topic'[a],
                        NEW j \in DOMAIN topic'[a], i < j
                 PROVE  Above(topic'[a][j].tag, topic'[a][i].tag)
      BY Zenon DEF TagsGrow
    <2>1. ~stale /\ Fresh(n, request[w].tag)
      BY <1>2, Zenon
    <2>2. CASE a # n
      BY <2>1, <2>2, <1>3, Zenon DEF PolicyInv, TagsGrow
    <2>3. CASE a = n /\ j \in DOMAIN topic[n]
      <3>1. i \in DOMAIN topic[n]
        BY <2>3, <1>4
      <3> QED  BY <2>1, <2>3, <3>1, <1>1, <1>4, Zenon DEF PolicyInv, TagsGrow
    <2>4. CASE a = n /\ j = Len(topic[n]) + 1
      <3>1. i \in DOMAIN topic[n]
        BY <2>4, <1>4
      <3> QED  BY <2>1, <2>4, <3>1, <1>4, Zenon DEF Fresh
    <2> QED  BY <2>2, <2>3, <2>4, <1>4
  <1>9. ConsumedIsCovered'
    <2> SUFFICES ASSUME ~stale', NEW m \in Peer, NEW a \in Peer, NEW i \in 1 .. cursor[m][a]
                 PROVE  ~Above(topic'[a][i].tag, policy[m].tag)
      BY <1>2, Zenon DEF ConsumedIsCovered
    <2>1. cursor[m][a] <= Len(topic[a]) /\ cursor[m][a] \in Nat
      BY Zenon DEF PolicyInv, PolicyTypeOK
    <2>2. Len(topic[a]) \in Nat /\ i \in DOMAIN topic[a]
      <3>1. topic[a] \in Seq(Tagged)
        BY Zenon DEF PolicyInv, PolicyTypeOK
      <3> QED  BY <3>1, <2>1
    <2>3. topic'[a][i] = topic[a][i]
      BY <2>2, <1>3, <1>4, Zenon
    <2> QED  BY <2>3, <1>2, Zenon DEF PolicyInv, ConsumedIsCovered
  <1>10. GuardHolder'
    <2>1. ASSUME NEW v \in Caller, progress'[v] = "published", Home[v] = n
          PROVE  v = w
      BY <1>2, <2>1, Zenon DEF PolicyInv, PolicyTypeOK, Guarded
    <2>2. ASSUME NEW u \in Caller, NEW v \in Caller, progress'[u] = "published",
                 progress'[v] = "published", Home[u] = Home[v]
          PROVE  u = v
      <3>1. CASE u = w \/ v = w
        BY <2>1, <2>2, <3>1, Zenon
      <3>2. CASE u # w /\ v # w
        BY <1>2, <2>2, <3>2, Zenon DEF PolicyInv, PolicyTypeOK, GuardHolder
      <3> QED  BY <3>1, <3>2, Zenon
    <2>3. ASSUME NEW v \in Caller, progress'[v] = "published"
          PROVE  /\ \E i \in DOMAIN topic'[Home[v]] : topic'[Home[v]][i] = request[v]
                 /\ ~stale' => Above(request[v].tag, policy[Home[v]].tag)
      <3>1. CASE v = w
        BY <3>1, <1>2, <1>4, Zenon DEF Fresh
      <3>2. CASE v # w
        <4>1. progress[v] = "published" /\ Home[v] # n /\ Home[v] \in Peer
          BY <2>1, <2>3, <3>2, <1>2, NodeAssumption, Zenon DEF PolicyInv, PolicyTypeOK
        <4> QED  BY <4>1, <1>2, <1>3, ZenonT(30) DEF PolicyInv, GuardHolder
      <3> QED  BY <3>1, <3>2, Zenon
    <2> QED  BY <2>2, <2>3, <1>2 DEF GuardHolder
  <1> QED  BY <1>5, <1>6, <1>7, <1>8, <1>9, <1>10, Zenon DEF PolicyInv

\* set_policy_receipt stores the published policy, which is above the stored one.
LEMMA StoreStep ==
    ASSUME PolicyInv, NEW w \in Caller, set_policy_receipt(w)
    PROVE  PolicyInv'
  <1> DEFINE n == Home[w]
  <1>1. /\ policy' = [policy EXCEPT ![n] = request[w]]
        /\ progress' = [progress EXCEPT ![w] = "idle"]
        /\ progress[w] = "published"
        /\ UNCHANGED <<topic, cursor, request, writes, stale>>
    BY Zenon DEF set_policy_receipt
  <1>2. n \in Peer /\ request[w] \in Tagged
    BY NodeAssumption, Zenon DEF PolicyInv, PolicyTypeOK
  <1>3. policy'[n] = request[w] /\ \A m \in Peer \ {n} : policy'[m] = policy[m]
    BY <1>1, <1>2, Zenon DEF PolicyInv, PolicyTypeOK
  <1>4. PolicyTypeOK'
    BY <1>1, <1>2, Zenon DEF PolicyInv, PolicyTypeOK
  <1>5. StoredWasPublished'
    <2>1. \E i \in DOMAIN topic[n] : topic[n][i] = request[w]
      BY <1>1, Zenon DEF PolicyInv, GuardHolder
    <2> QED  BY <2>1, <1>1, <1>2, <1>3 DEF PolicyInv, StoredWasPublished
  <1>6. TagsAreOwn' /\ TagsGrow'
    BY <1>1, ZenonT(30) DEF PolicyInv, PolicyTypeOK, TagsAreOwn, TagsGrow
  <1>7. ConsumedIsCovered'
    <2> SUFFICES ASSUME ~stale, NEW m \in Peer, NEW a \in Peer, NEW i \in 1 .. cursor[m][a]
                 PROVE  ~Above(topic[a][i].tag, policy'[m].tag)
      BY <1>1, Zenon DEF ConsumedIsCovered
    <2>1. ~Above(topic[a][i].tag, policy[m].tag)
      BY Zenon DEF PolicyInv, ConsumedIsCovered
    <2>2. CASE m = n
      <3>1. Above(request[w].tag, policy[n].tag)
        BY <1>1, Zenon DEF PolicyInv, GuardHolder
      <3>2. topic[a] \in Seq(Tagged) /\ cursor[m][a] <= Len(topic[a]) /\ cursor[m][a] \in Nat
        BY Zenon DEF PolicyInv, PolicyTypeOK
      <3>3. topic[a][i] \in Tagged /\ policy[n] \in Tagged
        BY <3>2, <1>2 DEF PolicyInv, PolicyTypeOK
      <3>4. topic[a][i].tag \in Tag /\ policy[n].tag \in Tag /\ request[w].tag \in Tag
        BY <3>3, <1>2, Zenon DEF Tagged
      <3> QED  BY <2>1, <2>2, <3>1, <3>4, <1>3, AboveOrder, Zenon
    <2>3. CASE m # n
      BY <2>1, <2>3, <1>3, Zenon
    <2> QED  BY <2>2, <2>3, Zenon
  <1>8. GuardHolder'
    <2>1. ASSUME NEW v \in Caller, progress'[v] = "published"
          PROVE  progress[v] = "published" /\ v # w /\ Home[v] # n /\ Home[v] \in Peer
      BY <2>1, <1>1, NodeAssumption, Zenon DEF PolicyInv, PolicyTypeOK, GuardHolder
    <2> QED  BY <2>1, <1>1, <1>3, Zenon DEF PolicyInv, GuardHolder
  <1> QED  BY <1>4, <1>5, <1>6, <1>7, <1>8, Zenon DEF PolicyInv

\* A failed store releases the guard.
LEMMA FailStep ==
    ASSUME PolicyInv, NEW w \in Caller, StoreFails(w)
    PROVE  PolicyInv'
  <1>1. progress' = [progress EXCEPT ![w] = "idle"] /\ UNCHANGED <<policy, topic, cursor, request, writes, stale>>
    BY Zenon DEF StoreFails
  <1>2. \A v \in Caller : progress'[v] = IF v = w THEN "idle" ELSE progress[v]
    BY <1>1, Zenon DEF PolicyInv, PolicyTypeOK
  <1>3. PolicyTypeOK'
    BY <1>1, Zenon DEF PolicyInv, PolicyTypeOK
  <1>4. StoredWasPublished' /\ TagsGrow' /\ ConsumedIsCovered'
    BY <1>1 DEF PolicyInv, StoredWasPublished, TagsGrow, ConsumedIsCovered
  <1>5. TagsAreOwn' /\ GuardHolder'
    BY <1>1, <1>2 DEF PolicyInv, TagsAreOwn, GuardHolder
  <1> QED  BY <1>3, <1>4, <1>5, Zenon DEF PolicyInv

\* apply_policy_record consumes a record; what it stores is never below the stored tag.
LEMMA RecordStep ==
    ASSUME PolicyInv, NEW n \in Peer, NEW a \in Peer, apply_policy_record(n, a)
    PROVE  PolicyInv'
  <1> DEFINE k == cursor[n][a] + 1
             tagged == topic[a][k]
  <1>1. /\ ~Guarded(n)
        /\ cursor[n][a] < Len(topic[a])
        /\ cursor' = [cursor EXCEPT ![n][a] = @ + 1]
        /\ UNCHANGED <<topic, progress, request, writes, stale>>
    BY Zenon DEF apply_policy_record
  <1>2. topic[a] \in Seq(Tagged) /\ cursor[n][a] \in Nat /\ Len(topic[a]) \in Nat
    BY DEF PolicyInv, PolicyTypeOK
  <1>3. k \in DOMAIN topic[a] /\ tagged \in Tagged
    BY <1>1, <1>2
  <1>4. cursor'[n][a] = k
    BY <1>1, Zenon DEF PolicyInv, PolicyTypeOK
  <1>5. policy' = IF Above(tagged.tag, policy[n].tag)
                  THEN [policy EXCEPT ![n] = tagged] ELSE policy
    <2>1. LET t == topic[a][cursor'[n][a]]
          IN  policy' = IF Above(t.tag, policy[n].tag) THEN [policy EXCEPT ![n] = t] ELSE policy
      BY Zenon DEF apply_policy_record
    <2>2. topic[a][cursor'[n][a]] = tagged
      BY <1>4, Zenon
    <2> QED  BY <2>1, <2>2, Zenon
  <1>6. \A m \in Peer : policy'[m] = IF m = n /\ Above(tagged.tag, policy[n].tag)
                                     THEN tagged ELSE policy[m]
    BY <1>5, Zenon DEF PolicyInv, PolicyTypeOK
  <1>7. \A m, b \in Peer : cursor'[m][b] = IF m = n /\ b = a THEN k ELSE cursor[m][b]
    BY <1>1, Zenon DEF PolicyInv, PolicyTypeOK
  <1>8. PolicyTypeOK'
    <2>1. policy' \in [Peer -> Tagged]
      BY <1>3, <1>5, Zenon DEF PolicyInv, PolicyTypeOK
    <2>2. cursor' \in [Peer -> [Peer -> Nat]]
      BY <1>1 DEF PolicyInv, PolicyTypeOK
    <2>3. \A m, b \in Peer : cursor'[m][b] <= Len(topic'[b])
      BY <1>1, <1>2, <1>7 DEF PolicyInv, PolicyTypeOK
    <2> QED  BY <1>1, <2>1, <2>2, <2>3, Zenon DEF PolicyInv, PolicyTypeOK
  <1>9. StoredWasPublished'
    BY <1>1, <1>3, <1>6 DEF PolicyInv, StoredWasPublished
  <1>10. TagsAreOwn' /\ TagsGrow'
    BY <1>1, Zenon DEF PolicyInv, TagsAreOwn, TagsGrow
  <1>11. ConsumedIsCovered'
    <2> SUFFICES ASSUME ~stale, NEW m \in Peer, NEW b \in Peer, NEW i \in 1 .. cursor'[m][b]
                 PROVE  ~Above(topic[b][i].tag, policy'[m].tag)
      BY <1>1, Zenon DEF ConsumedIsCovered
    <2>1. CASE i \in 1 .. cursor[m][b]
      <3>1. ~Above(topic[b][i].tag, policy[m].tag)
        BY <2>1, Zenon DEF PolicyInv, ConsumedIsCovered
      <3>2. topic[b] \in Seq(Tagged) /\ cursor[m][b] <= Len(topic[b]) /\ cursor[m][b] \in Nat
        BY Zenon DEF PolicyInv, PolicyTypeOK
      <3>3. topic[b][i] \in Tagged
        <4>1. i \in 1 .. Len(topic[b])
          BY <2>1, <3>2
        <4> QED  BY <3>2, <4>1
      <3>3a. policy[m] \in Tagged
        BY Zenon DEF PolicyInv, PolicyTypeOK
      <3>4. topic[b][i].tag \in Tag /\ policy[m].tag \in Tag /\ tagged.tag \in Tag
        BY <3>3, <3>3a, <1>3, Zenon DEF Tagged
      <3>5. CASE policy'[m] = policy[m]
        BY <3>1, <3>5, Zenon
      <3>6. CASE m = n /\ Above(tagged.tag, policy[n].tag) /\ policy'[m] = tagged
        BY <3>1, <3>4, <3>6, AboveOrder, Zenon
      <3> QED  BY <3>5, <3>6, <1>6, Zenon
    <2>2. CASE m = n /\ b = a /\ i = k
      <3>1. policy[n] \in Tagged
        BY Zenon DEF PolicyInv, PolicyTypeOK
      <3>2. tagged.tag \in Tag /\ policy[n].tag \in Tag
        BY <3>1, <1>3, Zenon DEF Tagged
      <3> QED  BY <2>2, <3>2, <1>6, AboveOrder, Zenon
    <2>3. i \in 1 .. cursor[m][b] \/ (m = n /\ b = a /\ i = k)
      BY <1>2, <1>7
    <2> QED  BY <2>1, <2>2, <2>3, Zenon
  <1>12. GuardHolder'
    <2>1. \A v \in Caller : progress[v] = "published" => policy'[Home[v]] = policy[Home[v]]
      BY <1>1, <1>6, NodeAssumption, Zenon DEF Guarded
    <2> QED  BY <2>1, <1>1, Zenon DEF PolicyInv, GuardHolder
  <1> QED  BY <1>8, <1>9, <1>10, <1>11, <1>12, Zenon DEF PolicyInv

\* The invariant of the register holds in every reachable state.
THEOREM PolicyInvariance == PolicySpec => []PolicyInv
  <1>1. ASSUME PolicyInv, [PolicyNext]_policyVars
        PROVE  PolicyInv'
    <2>1. CASE PolicyNext
      BY <1>1, <2>1, MintStep, PublishStep, StoreStep, FailStep, RecordStep, Zenon DEF PolicyNext
    <2>2. CASE UNCHANGED policyVars
      BY <1>1, <2>2 DEF policyVars, PolicyInv, PolicyTypeOK, StoredWasPublished, TagsAreOwn, TagsGrow,
                        ConsumedIsCovered, GuardHolder
    <2> QED  BY <1>1, <2>1, <2>2, Zenon
  <1> QED  BY PolicyInitOK, <1>1, PTL DEF PolicySpec

\* persist_policy, publish_policy and apply_policy_record keep the variables in their
\* types; in particular no cursor runs past the records of the topic.
THEOREM PolicyTypes == PolicySpec => []PolicyTypeOK
  <1>1. PolicyInv => PolicyTypeOK
    BY Zenon DEF PolicyInv
  <1> QED  BY <1>1, PolicyInvariance, PTL

\* With fresh tags, nodes that have consumed every record agree on the policy with
\* the greatest tag, whatever the order in which apply_policy_record met the records.
THEOREM FreshTagsConverge == PolicySpec => []FreshPolicyConverges
  <1>1. ASSUME PolicyInv, ~stale, PolicySettled, NEW n \in Peer, NEW a \in Peer, NEW i \in DOMAIN topic[a]
        PROVE  /\ ~Above(topic[a][i].tag, policy[n].tag)
               /\ topic[a][i] \in Tagged
    <2>1. topic[a] \in Seq(Tagged)
      BY <1>1, Zenon DEF PolicyInv, PolicyTypeOK
    <2>2. i \in 1 .. cursor[n][a]
      BY <1>1, <2>1 DEF PolicySettled
    <2> QED  BY <1>1, <2>1, <2>2 DEF PolicyInv, ConsumedIsCovered
  <1>2. ASSUME PolicyInv, ~stale, PolicySettled, NEW n \in Peer, policy[n] = Genesis,
               NEW a \in Peer
        PROVE  DOMAIN topic[a] = {}
    <2> SUFFICES ASSUME NEW i \in DOMAIN topic[a] PROVE FALSE
      BY Zenon
    <2>1. topic[a][i].tag.counter > 0
      BY <1>2, Zenon DEF PolicyInv, TagsAreOwn
    <2>2. topic[a][i].tag.counter \in Nat
      BY <1>1, <1>2, Zenon DEF Tagged, Tag
    <2>3. Above(topic[a][i].tag, policy[n].tag)
      BY <1>2, <2>1, <2>2 DEF Above, Genesis
    <2> QED  BY <1>1, <1>2, <2>3, Zenon
  <1>3. ASSUME PolicyInv, ~stale, PolicySettled, NEW m \in Peer, NEW n \in Peer
        PROVE  policy[m] = policy[n]
    <2>1. CASE policy[m] = Genesis \/ policy[n] = Genesis
      <3>1. \A a \in Peer : DOMAIN topic[a] = {}
        BY <1>2, <1>3, <2>1, Zenon
      <3> QED  BY <1>3, <3>1, Zenon DEF PolicyInv, StoredWasPublished
    <2>2. CASE policy[m] # Genesis /\ policy[n] # Genesis
      <3>1. PICK a \in Peer : \E i \in DOMAIN topic[a] : policy[m] = topic[a][i]
        BY <1>3, <2>2, Zenon DEF PolicyInv, StoredWasPublished
      <3>2. PICK i \in DOMAIN topic[a] : policy[m] = topic[a][i]
        BY <3>1, Zenon
      <3>3. PICK b \in Peer : \E j \in DOMAIN topic[b] : policy[n] = topic[b][j]
        BY <1>3, <2>2, Zenon DEF PolicyInv, StoredWasPublished
      <3>4. PICK j \in DOMAIN topic[b] : policy[n] = topic[b][j]
        BY <3>3, Zenon
      <3>5. ~Above(topic[a][i].tag, topic[b][j].tag) /\ topic[a][i] \in Tagged
        BY <1>1, <1>3, <3>4, Zenon
      <3>6. ~Above(topic[b][j].tag, topic[a][i].tag) /\ topic[b][j] \in Tagged
        BY <1>1, <1>3, <3>2, Zenon
      <3>7. topic[a][i].tag \in Tag /\ topic[b][j].tag \in Tag
        BY <3>5, <3>6, Zenon DEF Tagged
      <3>8. topic[a][i].tag.actor = topic[b][j].tag.actor
        BY <3>5, <3>6, <3>7, AboveOrder
      <3>9. a = b
        BY <1>3, <3>8 DEF PolicyInv, TagsAreOwn
      <3>10. ~(i < j) /\ ~(j < i)
        BY <1>3, <3>5, <3>6, <3>9, Zenon DEF PolicyInv, TagsGrow
      <3>11. topic[a] \in Seq(Tagged)
        BY <1>3, Zenon DEF PolicyInv, PolicyTypeOK
      <3>12. i \in Nat /\ j \in Nat
        BY <3>9, <3>11
      <3>13. i = j
        BY <3>10, <3>12
      <3> QED  BY <3>2, <3>4, <3>9, <3>13, Zenon
    <2> QED  BY <2>1, <2>2, Zenon
  <1>4. PolicyInv => FreshPolicyConverges
    BY <1>1, <1>3, Zenon DEF FreshPolicyConverges
  <1> QED  BY <1>4, PolicyInvariance, PTL

-----------------------------------------------------------------------------
(* The staged batch.                                                       *)

\* The first n operations leave a dot on a quad.
LeftBy(n, quad, d) ==
    \/ d \in quads[quad] /\ \A j \in 1 .. n : ~Kills(ops[j], quad, d)
    \/ \E i \in 1 .. n : /\ Adds(ops[i], quad, d)
                         /\ \A j \in 1 .. n : j > i => ~Kills(ops[j], quad, d)

\* The staged dots are those that the staged operations leave.
PrefixIsStaged ==
    \A quad \in Quad, d \in Dot : d \in current_quad_dots(quad) <=> LeftBy(pos, quad, d)

IsFirst(log, k, quad) ==
    log[k].quad = quad /\ \A l \in DOMAIN log : l < k => log[l].quad # quad

IsLast(log, k, quad) ==
    log[k].quad = quad /\ \A l \in DOMAIN log : l > k => log[l].quad # quad

\* The mutations of a quad tell its liveness before the batch and now.
MutationsTrack ==
    \A quad \in Quad :
        \/ /\ \A k \in DOMAIN mutations : mutations[k].quad # quad
           /\ current_quad_dots(quad) = {} <=> quads[quad] = {}
        \/ /\ \E k \in DOMAIN mutations : IsFirst(mutations, k, quad)
           /\ \E k \in DOMAIN mutations : IsLast(mutations, k, quad)
           /\ \A k \in DOMAIN mutations :
                 /\ IsFirst(mutations, k, quad) => (mutations[k].live <=> quads[quad] = {})
                 /\ IsLast(mutations, k, quad) => (mutations[k].live <=> current_quad_dots(quad) # {})

BatchInv ==
    /\ BatchTypeOK
    /\ IndexIsLive
    /\ running => PrefixIsStaged /\ MutationsTrack

-----------------------------------------------------------------------------

LEMMA CurrentType ==
    ASSUME BatchTypeOK, NEW quad \in Quad
    PROVE  current_quad_dots(quad) \in SUBSET Dot
  BY Zenon DEF BatchTypeOK, QuadState, current_quad_dots

\* Staging the dots of one quad changes the view of that quad only, and keeps
\* track of its liveness.
LEMMA Staging ==
    ASSUME BatchTypeOK, MutationsTrack, NEW quad \in Quad, NEW dots \in SUBSET Dot,
           StageDots(quad, dots), UNCHANGED quads
    PROVE  /\ staged' \subseteq Quad /\ pending' \in QuadState
           /\ mutations' \in Seq(QuadMutation)
           /\ \A other \in Quad : current_quad_dots(other)' =
                 IF other = quad THEN dots ELSE current_quad_dots(other)
           /\ MutationsTrack'
  <1>1. CASE dots = current_quad_dots(quad)
    <2>1. UNCHANGED <<staged, pending, mutations, quads>>
      BY <1>1, Zenon DEF StageDots
    <2> QED
      BY <1>1, <2>1, SMTT(30) DEF BatchTypeOK, current_quad_dots, MutationsTrack, IsFirst, IsLast
  <1>2. CASE dots # current_quad_dots(quad)
    <2> DEFINE was == current_quad_dots(quad) # {}
               is  == dots # {}
    <2>1. /\ staged' = staged \cup {quad}
          /\ pending' = [pending EXCEPT ![quad] = dots]
          /\ mutations' = IF was = is THEN mutations
                          ELSE Append(mutations, [quad |-> quad, live |-> is])
      BY <1>2, Zenon DEF StageDots, write_quad_state
    <2>2. staged' \subseteq Quad /\ pending' \in QuadState
      BY <2>1, Zenon DEF BatchTypeOK, QuadState
    <2>3. \A other \in Quad : current_quad_dots(other)' =
                 IF other = quad THEN dots ELSE current_quad_dots(other)
      BY <2>1, Zenon DEF BatchTypeOK, QuadState, current_quad_dots
    <2>4. CASE was = is
      <3>1. mutations' = mutations /\ mutations' \in Seq(QuadMutation)
        BY <2>1, <2>4, Zenon DEF BatchTypeOK
      <3>2. dots = {} <=> current_quad_dots(quad) = {}
        BY <2>4, Zenon
      <3>3. MutationsTrack'
        BY <2>3, <3>1, <3>2 DEF MutationsTrack, IsFirst, IsLast
      <3> QED  BY <2>2, <2>3, <3>1, <3>3, Zenon
    <2>5. CASE was # is
      <3> DEFINE new == [quad |-> quad, live |-> is]
                 n == Len(mutations)
      <3>1. mutations' = Append(mutations, new) /\ new \in QuadMutation
        BY <2>1, <2>5, Zenon DEF QuadMutation
      <3>2. mutations \in Seq(QuadMutation) /\ n \in Nat /\ DOMAIN mutations = 1 .. n
        BY DEF BatchTypeOK
      <3>3. /\ mutations' \in Seq(QuadMutation)
            /\ DOMAIN mutations' = 1 .. n + 1
            /\ mutations'[n + 1] = new
            /\ \A k \in 1 .. n : mutations'[k] = mutations[k]
        BY <3>1, <3>2
      <3>4. dots = {} <=> current_quad_dots(quad) # {}
        BY <2>5, Zenon
      <3>5. ASSUME NEW other \in Quad, other # quad
            PROVE  /\ \A k \in 1 .. n : IsFirst(mutations', k, other) <=> IsFirst(mutations, k, other)
                   /\ \A k \in 1 .. n : IsLast(mutations', k, other) <=> IsLast(mutations, k, other)
                   /\ ~IsFirst(mutations', n + 1, other) /\ ~IsLast(mutations', n + 1, other)
        BY <3>2, <3>3, <3>5 DEF IsFirst, IsLast
      <3>6. \A k \in 1 .. n : IsFirst(mutations', k, quad) <=> IsFirst(mutations, k, quad)
        BY <3>2, <3>3 DEF IsFirst
      <3>7. (\A k \in 1 .. n : ~IsLast(mutations', k, quad)) /\ IsLast(mutations', n + 1, quad)
        BY <3>2, <3>3 DEF IsLast
      <3>8. IsFirst(mutations', n + 1, quad) <=> \A k \in 1 .. n : mutations[k].quad # quad
        BY <3>2, <3>3 DEF IsFirst
      <3>9. ASSUME NEW other \in Quad, other # quad
            PROVE  \/ /\ \A k \in DOMAIN mutations' : mutations'[k].quad # other
                      /\ current_quad_dots(other)' = {} <=> quads'[other] = {}
                   \/ /\ \E k \in DOMAIN mutations' : IsFirst(mutations', k, other)
                      /\ \E k \in DOMAIN mutations' : IsLast(mutations', k, other)
                      /\ \A k \in DOMAIN mutations' :
                            /\ IsFirst(mutations', k, other) => (mutations'[k].live <=> quads'[other] = {})
                            /\ IsLast(mutations', k, other) =>
                                  (mutations'[k].live <=> current_quad_dots(other)' # {})
        <4>1. current_quad_dots(other)' = current_quad_dots(other)
          BY <2>3, <3>9, Zenon
        <4>2. CASE /\ \A k \in DOMAIN mutations : mutations[k].quad # other
                   /\ current_quad_dots(other) = {} <=> quads[other] = {}
          BY <3>2, <3>3, <3>9, <4>1, <4>2
        <4>3. CASE /\ \E k \in DOMAIN mutations : IsFirst(mutations, k, other)
                   /\ \E k \in DOMAIN mutations : IsLast(mutations, k, other)
                   /\ \A k \in DOMAIN mutations :
                         /\ IsFirst(mutations, k, other) => (mutations[k].live <=> quads[other] = {})
                         /\ IsLast(mutations, k, other) =>
                               (mutations[k].live <=> current_quad_dots(other) # {})
          <5>1. (\E k \in 1 .. n : IsFirst(mutations', k, other)) /\ (\E k \in 1 .. n : IsLast(mutations', k, other))
            BY <3>2, <3>5, <3>9, <4>3, Zenon
          <5>2. ASSUME NEW k \in 1 .. n + 1
                PROVE  /\ IsFirst(mutations', k, other) => (mutations'[k].live <=> quads'[other] = {})
                       /\ IsLast(mutations', k, other) =>
                             (mutations'[k].live <=> current_quad_dots(other)' # {})
            <6>1. CASE k = n + 1
              BY <3>5, <3>9, <6>1, Zenon
            <6>2. CASE k \in 1 .. n
              <7>1. mutations'[k] = mutations[k]
                BY <3>3, <6>2, Zenon
              <7>2. (IsFirst(mutations', k, other) <=> IsFirst(mutations, k, other)) /\ (IsLast(mutations', k, other) <=> IsLast(mutations, k, other))
                BY <3>5, <3>9, <6>2, Zenon
              <7> QED  BY <3>2, <4>1, <4>3, <6>2, <7>1, <7>2, Zenon
            <6> QED  BY <3>2, <6>1, <6>2
          <5> QED  BY <3>2, <3>3, <5>1, <5>2
        <4> QED  BY <4>2, <4>3, Zenon DEF MutationsTrack
      <3>10. /\ \E k \in DOMAIN mutations' : IsFirst(mutations', k, quad)
             /\ \E k \in DOMAIN mutations' : IsLast(mutations', k, quad)
             /\ \A k \in DOMAIN mutations' :
                   /\ IsFirst(mutations', k, quad) => (mutations'[k].live <=> quads'[quad] = {})
                   /\ IsLast(mutations', k, quad) =>
                         (mutations'[k].live <=> current_quad_dots(quad)' # {})
        <4>1. current_quad_dots(quad)' = dots /\ mutations'[n + 1].live = (dots # {})
          BY <2>3, <3>3
        <4>2. ASSUME NEW k \in 1 .. n + 1, IsLast(mutations', k, quad)
              PROVE  mutations'[k].live <=> current_quad_dots(quad)' # {}
          <5>1. k = n + 1
            BY <3>2, <3>7, <4>2
          <5> QED  BY <4>1, <5>1, Zenon
        <4>3. CASE /\ \A k \in DOMAIN mutations : mutations[k].quad # quad
                   /\ current_quad_dots(quad) = {} <=> quads[quad] = {}
          <5>1. IsFirst(mutations', n + 1, quad) /\ \A k \in 1 .. n : ~IsFirst(mutations', k, quad)
            BY <3>2, <3>6, <3>8, <4>3, Zenon DEF IsFirst
          <5>2. mutations'[n + 1].live <=> quads'[quad] = {}
            BY <3>4, <4>1, <4>3, Zenon
          <5> QED  BY <3>2, <3>3, <3>7, <4>2, <5>1, <5>2
        <4>4. CASE /\ \E k \in DOMAIN mutations : IsFirst(mutations, k, quad)
                   /\ \A k \in DOMAIN mutations :
                         IsFirst(mutations, k, quad) => (mutations[k].live <=> quads[quad] = {})
          <5>1. PICK f \in 1 .. n : IsFirst(mutations, f, quad)
            BY <3>2, <4>4, Zenon
          <5>2. ~IsFirst(mutations', n + 1, quad)
            BY <3>8, <5>1, Zenon DEF IsFirst
          <5>3. ASSUME NEW k \in 1 .. n + 1, IsFirst(mutations', k, quad)
                PROVE  mutations'[k].live <=> quads'[quad] = {}
            <6>1. k \in 1 .. n
              BY <3>2, <5>2, <5>3
            <6>2. mutations'[k] = mutations[k] /\ IsFirst(mutations, k, quad)
              BY <3>3, <3>6, <5>3, <6>1, Zenon
            <6> QED  BY <3>2, <4>4, <6>1, <6>2, Zenon
          <5>4. \E k \in 1 .. n + 1 : IsFirst(mutations', k, quad)
            BY <3>2, <3>6, <5>1
          <5> QED  BY <3>2, <3>3, <3>7, <4>2, <5>3, <5>4
        <4> QED  BY <4>3, <4>4, Zenon DEF MutationsTrack
      <3>11. MutationsTrack'
        BY <3>9, <3>10 DEF MutationsTrack
      <3> QED  BY <2>2, <2>3, <3>3, <3>11, Zenon
    <2> QED  BY <2>4, <2>5, Zenon
  <1> QED  BY <1>1, <1>2, Zenon

\* What one more operation does to the dots that are left.
LEMMA OneMoreAdd ==
    ASSUME NEW n \in Nat, ops[n + 1].op = "Add", NEW quad \in Quad, NEW d \in Dot
    PROVE  LeftBy(n + 1, quad, d) <=> LeftBy(n, quad, d) \/ Adds(ops[n + 1], quad, d)
  <1>1. ~Kills(ops[n + 1], quad, d)
    BY Zenon DEF Kills
  <1>2. 1 .. n + 1 = 1 .. n \cup {n + 1}
    OBVIOUS
  <1> QED  BY <1>1, <1>2 DEF LeftBy

LEMMA OneMoreRemove ==
    ASSUME NEW n \in Nat, ops[n + 1].op = "Remove", NEW quad \in Quad, NEW d \in Dot
    PROVE  LeftBy(n + 1, quad, d) <=> LeftBy(n, quad, d) /\ ~Kills(ops[n + 1], quad, d)
  <1>1. ~Adds(ops[n + 1], quad, d)
    BY Zenon DEF Adds
  <1>2. 1 .. n + 1 = 1 .. n \cup {n + 1}
    OBVIOUS
  <1> QED  BY <1>1, <1>2 DEF LeftBy

\* All operations together leave what ApplyOps says.
LEMMA AllLeft ==
    ASSUME BatchTypeOK, NEW quad \in Quad, NEW d \in Dot
    PROVE  LeftBy(Len(ops), quad, d) <=> d \in ApplyOps(quads, ops)[quad]
  <1>1. ops \in Seq(QuadOp) /\ DOMAIN ops = 1 .. Len(ops) /\ Len(ops) \in Nat
    BY DEF BatchTypeOK
  <1>2. \A j \in DOMAIN ops : j > 0
    BY <1>1
  <1>3. KeptAfter(ops, 0, quad, d) <=> \A j \in 1 .. Len(ops) : ~Kills(ops[j], quad, d)
    BY <1>1, <1>2, Zenon DEF KeptAfter
  <1>4. d \in NewDots(ops, quad) <=>
           \E i \in 1 .. Len(ops) : /\ Adds(ops[i], quad, d)
                                    /\ \A j \in 1 .. Len(ops) : j > i => ~Kills(ops[j], quad, d)
    BY <1>1, Zenon DEF NewDots, Adds, KeptAfter
  <1>5. ApplyOps(quads, ops)[quad] =
           {e \in quads[quad] : KeptAfter(ops, 0, quad, e)} \cup NewDots(ops, quad)
    BY Zenon DEF ApplyOps
  <1> QED  BY <1>3, <1>4, <1>5, Zenon DEF LeftBy

-----------------------------------------------------------------------------
(* The steps.                                                              *)

LEMMA BatchInitOK == BatchInit => BatchInv
  <1> SUFFICES ASSUME BatchInit PROVE BatchInv
    BY Zenon
  <1>1. BatchTypeOK
    <2>1. Empty \in QuadState
      BY Zenon DEF QuadState, Empty
    <2>2. ops \in Seq(QuadOp) /\ mutations \in Seq(QuadMutation) /\ pos \in 0 .. Len(ops)
      BY DEF BatchInit
    <2> QED  BY <2>1, <2>2, Zenon DEF BatchInit, BatchTypeOK
  <1>2. IndexIsLive
    BY Zenon DEF BatchInit, IndexIsLive, Empty
  <1> QED  BY <1>1, <1>2, Zenon DEF BatchInit, BatchInv

LEMMA NewBatchStep ==
    ASSUME BatchInv, NEW batch \in Batches, new_batch(batch)
    PROVE  BatchInv'
  <1>1. /\ running' = TRUE /\ ops' = batch /\ pos' = 0 /\ staged' = {}
        /\ pending' = Empty /\ mutations' = <<>> /\ quads' = quads /\ index' = index
    BY Zenon DEF new_batch
  <1>2. batch \in Seq(QuadOp) /\ Len(batch) \in Nat
    BY BatchesAssumption
  <1>3. BatchTypeOK'
    BY <1>1, <1>2 DEF BatchInv, BatchTypeOK, QuadState, Empty
  <1>4. IndexIsLive'
    BY <1>1, Zenon DEF BatchInv, IndexIsLive
  <1>5. \A quad \in Quad : current_quad_dots(quad)' = quads'[quad]
    BY <1>1, Zenon DEF current_quad_dots
  <1>6. PrefixIsStaged'
    BY <1>1, <1>5 DEF PrefixIsStaged, LeftBy
  <1>7. MutationsTrack'
    BY <1>1, <1>5 DEF MutationsTrack
  <1> QED  BY <1>3, <1>4, <1>6, <1>7, Zenon DEF BatchInv

LEMMA InsertStep ==
    ASSUME BatchInv, insert_quad
    PROVE  BatchInv'
  <1> DEFINE op == ops[pos + 1]
             dots == current_quad_dots(op.quad) \cup {op.dot}
  <1>1. /\ running /\ pos < Len(ops) /\ op.op = "Add" /\ StageDots(op.quad, dots)
        /\ pos' = pos + 1 /\ UNCHANGED <<quads, index, running, ops>>
    BY Zenon DEF insert_quad
  <1>2. /\ ops \in Seq(QuadOp) /\ Len(ops) \in Nat /\ pos \in Nat
        /\ pos + 1 \in 1 .. Len(ops)
    BY <1>1 DEF BatchInv, BatchTypeOK
  <1>3. op \in QuadOp
    BY <1>2
  <1>4. op.quad \in Quad /\ op.dot \in Dot
    BY <1>1, <1>3, Zenon DEF QuadOp
  <1>5. dots \in SUBSET Dot
    BY <1>4, CurrentType, Zenon DEF BatchInv
  <1>6. /\ staged' \subseteq Quad /\ pending' \in QuadState
        /\ mutations' \in Seq(QuadMutation)
        /\ \A other \in Quad : current_quad_dots(other)' =
                 IF other = op.quad THEN dots ELSE current_quad_dots(other)
        /\ MutationsTrack'
    BY <1>1, <1>4, <1>5, Staging, Zenon DEF BatchInv
  <1>7. BatchTypeOK'
    BY <1>1, <1>2, <1>6 DEF BatchInv, BatchTypeOK
  <1>8. PrefixIsStaged'
    <2> SUFFICES ASSUME NEW quad \in Quad, NEW d \in Dot
                 PROVE  (d \in current_quad_dots(quad) <=> LeftBy(pos, quad, d))'
      BY Zenon DEF PrefixIsStaged
    <2>1. d \in current_quad_dots(quad) <=> LeftBy(pos, quad, d)
      BY <1>1, Zenon DEF BatchInv, PrefixIsStaged
    <2>2. LeftBy(pos, quad, d)' <=> LeftBy(pos + 1, quad, d)
      BY <1>1, Zenon DEF LeftBy
    <2>3. LeftBy(pos + 1, quad, d) <=> LeftBy(pos, quad, d) \/ Adds(op, quad, d)
      BY <1>1, <1>2, OneMoreAdd, Zenon
    <2>4. d \in current_quad_dots(quad)' <=> d \in current_quad_dots(quad) \/ Adds(op, quad, d)
      BY <1>1, <1>6, Zenon DEF Adds
    <2> QED  BY <2>1, <2>2, <2>3, <2>4, Zenon
  <1>9. IndexIsLive'
    BY <1>1, Zenon DEF BatchInv, IndexIsLive
  <1> QED  BY <1>6, <1>7, <1>8, <1>9, Zenon DEF BatchInv

LEMMA RemoveStep ==
    ASSUME BatchInv, remove_quad
    PROVE  BatchInv'
  <1> DEFINE op == ops[pos + 1]
             dots == {e \in current_quad_dots(op.quad) : ~contains(op.witnessed, e)}
  <1>1. /\ running /\ pos < Len(ops) /\ op.op = "Remove" /\ StageDots(op.quad, dots)
        /\ pos' = pos + 1 /\ UNCHANGED <<quads, index, running, ops>>
    BY Zenon DEF remove_quad
  <1>2. /\ ops \in Seq(QuadOp) /\ Len(ops) \in Nat /\ pos \in Nat
        /\ pos + 1 \in 1 .. Len(ops)
    BY <1>1 DEF BatchInv, BatchTypeOK
  <1>3. op \in QuadOp
    BY <1>2
  <1>4. op.quad \in Quad
    BY <1>1, <1>3, Zenon DEF QuadOp
  <1>5. dots \in SUBSET Dot
    BY <1>4, CurrentType, Zenon DEF BatchInv
  <1>6. /\ staged' \subseteq Quad /\ pending' \in QuadState
        /\ mutations' \in Seq(QuadMutation)
        /\ \A other \in Quad : current_quad_dots(other)' =
                 IF other = op.quad THEN dots ELSE current_quad_dots(other)
        /\ MutationsTrack'
    BY <1>1, <1>4, <1>5, Staging, Zenon DEF BatchInv
  <1>7. BatchTypeOK'
    BY <1>1, <1>2, <1>6 DEF BatchInv, BatchTypeOK
  <1>8. PrefixIsStaged'
    <2> SUFFICES ASSUME NEW quad \in Quad, NEW d \in Dot
                 PROVE  (d \in current_quad_dots(quad) <=> LeftBy(pos, quad, d))'
      BY Zenon DEF PrefixIsStaged
    <2>1. d \in current_quad_dots(quad) <=> LeftBy(pos, quad, d)
      BY <1>1, Zenon DEF BatchInv, PrefixIsStaged
    <2>2. LeftBy(pos, quad, d)' <=> LeftBy(pos + 1, quad, d)
      BY <1>1, Zenon DEF LeftBy
    <2>3. LeftBy(pos + 1, quad, d) <=> LeftBy(pos, quad, d) /\ ~Kills(op, quad, d)
      BY <1>1, <1>2, OneMoreRemove, Zenon
    <2>4. d \in current_quad_dots(quad)' <=> d \in current_quad_dots(quad) /\ ~Kills(op, quad, d)
      BY <1>1, <1>6, Zenon DEF Kills
    <2> QED  BY <2>1, <2>2, <2>3, <2>4, Zenon
  <1>9. IndexIsLive'
    BY <1>1, Zenon DEF BatchInv, IndexIsLive
  <1> QED  BY <1>6, <1>7, <1>8, <1>9, Zenon DEF BatchInv

LEMMA DroppedTypes ==
    ASSUME Dropped
    PROVE  /\ running' \in BOOLEAN /\ ops' \in Seq(QuadOp) /\ pos' \in 0 .. Len(ops')
           /\ staged' \subseteq Quad /\ pending' \in QuadState /\ mutations' \in Seq(QuadMutation)
  <1>1. ops' = <<>> /\ mutations' = <<>> /\ pos' = 0 /\ staged' = {} /\ running' = FALSE
    BY Zenon DEF Dropped
  <1>2. ops' \in Seq(QuadOp) /\ mutations' \in Seq(QuadMutation) /\ Len(ops') = 0
    BY <1>1
  <1>3. pending' \in QuadState
    BY Zenon DEF Dropped, Empty, QuadState
  <1>4. running' \in BOOLEAN /\ staged' \subseteq Quad
    BY <1>1, Zenon
  <1>5. pos' \in 0 .. Len(ops')
    BY <1>1, <1>2
  <1> QED  BY <1>2, <1>3, <1>4, <1>5, Zenon

\* The net transitions move the index from the live quads before the batch to the
\* live quads after it.
LEMMA CommitStep ==
    ASSUME BatchInv, commit
    PROVE  BatchInv'
  <1> DEFINE T == coalesced_transitions(mutations)
  <1>1. /\ running /\ pos = Len(ops) /\ running' = FALSE
        /\ quads' = [q \in Quad |-> current_quad_dots(q)]
        /\ index' = IndexAfter(T)
        /\ Dropped
    BY Zenon DEF commit, Dropped
  <1>2. quads' \in QuadState
    BY <1>1, CurrentType, Zenon DEF BatchInv, QuadState
  <1>3. index' \subseteq Quad
    BY <1>1, Zenon DEF IndexAfter
  <1>4. BatchTypeOK'
    BY <1>1, <1>2, <1>3, DroppedTypes, Zenon DEF BatchTypeOK
  <1>5. ASSUME NEW quad \in Quad
        PROVE  quad \in index' <=> current_quad_dots(quad) # {}
    <2> DEFINE up == [quad |-> quad, live |-> TRUE]
               down == [quad |-> quad, live |-> FALSE]
    <2>1. quad \in index <=> quads[quad] # {}
      BY Zenon DEF BatchInv, IndexIsLive
    <2>2. quad \in index' <=> up \in T \/ (quad \in index /\ down \notin T)
      BY <1>1, Zenon DEF IndexAfter
    <2>3. \A t \in T : \E k \in DOMAIN mutations : t = mutations[k]
      BY Zenon DEF coalesced_transitions
    <2>4. CASE /\ \A k \in DOMAIN mutations : mutations[k].quad # quad
               /\ current_quad_dots(quad) = {} <=> quads[quad] = {}
      <3>1. up \notin T /\ down \notin T
        BY <2>3, <2>4
      <3> QED  BY <2>1, <2>2, <2>4, <3>1, Zenon
    <2>5. CASE /\ \E k \in DOMAIN mutations : IsFirst(mutations, k, quad)
               /\ \E k \in DOMAIN mutations : IsLast(mutations, k, quad)
               /\ \A k \in DOMAIN mutations :
                     /\ IsFirst(mutations, k, quad) => (mutations[k].live <=> quads[quad] = {})
                     /\ IsLast(mutations, k, quad) =>
                           (mutations[k].live <=> current_quad_dots(quad) # {})
      <3>1. PICK f \in DOMAIN mutations : IsFirst(mutations, f, quad)
        BY <2>5, Zenon
      <3>2. PICK g \in DOMAIN mutations : IsLast(mutations, g, quad)
        BY <2>5, Zenon
      <3>3. \A k \in DOMAIN mutations : mutations[k] \in QuadMutation
        BY DEF BatchInv, BatchTypeOK
      <3>4. /\ mutations[f].live <=> quads[quad] = {}
            /\ mutations[g].live <=> current_quad_dots(quad) # {}
            /\ mutations[f].quad = quad /\ mutations[g].quad = quad
            /\ mutations[f].live \in BOOLEAN /\ mutations[g].live \in BOOLEAN
        BY <2>5, <3>1, <3>2, <3>3, Zenon DEF IsFirst, IsLast, QuadMutation
      <3>5. mutations[f] = [quad |-> quad, live |-> mutations[f].live]
        BY <3>3, <3>4, Zenon DEF QuadMutation
      <3>6. mutations[g] = [quad |-> quad, live |-> mutations[g].live]
        BY <3>3, <3>4, Zenon DEF QuadMutation
      <3>7. DOMAIN mutations \subseteq Nat
        BY DEF BatchInv, BatchTypeOK
      <3>8. ASSUME NEW k \in DOMAIN mutations, mutations[k].quad = quad,
                   \A l \in DOMAIN mutations : l > k => mutations[l].quad # mutations[k].quad
            PROVE  k = g
        BY <3>2, <3>7, <3>8 DEF IsLast
      <3>9. ASSUME NEW k \in DOMAIN mutations, mutations[k].quad = quad,
                   \A l \in DOMAIN mutations : l < k => mutations[l].quad # quad
            PROVE  k = f
        BY <3>1, <3>7, <3>9 DEF IsFirst
      <3>10. ASSUME NEW t \in T, t.quad = quad
             PROVE  t = mutations[g] /\ mutations[f] = mutations[g]
        <4>1. PICK k \in DOMAIN mutations :
                 /\ t = mutations[k]
                 /\ \A l \in DOMAIN mutations : l > k => mutations[l].quad # mutations[k].quad
                 /\ \E i \in DOMAIN mutations :
                       /\ mutations[i] = mutations[k]
                       /\ \A l \in DOMAIN mutations : l < i => mutations[l].quad # mutations[k].quad
          BY Zenon DEF coalesced_transitions
        <4>2. k = g
          BY <3>8, <3>10, <4>1, Zenon
        <4>3. PICK i \in DOMAIN mutations :
                 /\ mutations[i] = mutations[k]
                 /\ \A l \in DOMAIN mutations : l < i => mutations[l].quad # mutations[k].quad
          BY <4>1, Zenon
        <4>4. i = f
          BY <3>9, <3>10, <4>1, <4>3, Zenon
        <4> QED  BY <4>1, <4>2, <4>3, <4>4, Zenon
      <3>11. ASSUME mutations[f] = mutations[g]
             PROVE  mutations[g] \in T
        BY <3>1, <3>2, <3>11, Zenon DEF coalesced_transitions, IsFirst, IsLast
      <3>12. CASE mutations[f] = mutations[g]
        <4>1. CASE mutations[g].live = TRUE
          <5>1. up \in T
            BY <3>6, <3>11, <3>12, <4>1, Zenon
          <5> QED  BY <2>2, <3>4, <4>1, <5>1, Zenon
        <4>2. CASE mutations[g].live = FALSE
          <5>1. up \notin T
            BY <3>10, <4>2
          <5>2. down \in T
            BY <3>6, <3>11, <3>12, <4>2, Zenon
          <5> QED  BY <2>2, <3>4, <4>2, <5>1, <5>2, Zenon
        <4> QED  BY <3>4, <4>1, <4>2, Zenon
      <3>13. CASE mutations[f] # mutations[g]
        <4>1. up \notin T /\ down \notin T
          BY <3>10, <3>13, Zenon
        <4>2. mutations[f].live # mutations[g].live
          BY <3>5, <3>6, <3>13, Zenon
        <4>3. quads[quad] = {} <=> current_quad_dots(quad) = {}
          BY <3>4, <4>2, Zenon
        <4> QED  BY <2>1, <2>2, <4>1, <4>3, Zenon
      <3> QED  BY <3>12, <3>13, Zenon
    <2> QED  BY <1>1, <2>4, <2>5, Zenon DEF BatchInv, MutationsTrack
  <1>6. IndexIsLive'
    <2>1. \A quad \in Quad : quads'[quad] = current_quad_dots(quad)
      BY <1>1, Zenon
    <2>2. \A quad \in Quad : quad \in index' <=> quads'[quad] # {}
      BY <1>5, <2>1, Zenon
    <2> QED  BY <1>3, <2>2, Zenon DEF IndexIsLive
  <1> QED  BY <1>1, <1>4, <1>6, Zenon DEF BatchInv

LEMMA DropStep ==
    ASSUME BatchInv, DropBatch
    PROVE  BatchInv'
  <1>1. quads' = quads /\ index' = index /\ running' = FALSE
    BY Zenon DEF DropBatch, Dropped
  <1>2. BatchTypeOK'
    BY <1>1, DroppedTypes, Zenon DEF BatchInv, BatchTypeOK, DropBatch
  <1>3. IndexIsLive'
    BY <1>1, Zenon DEF BatchInv, IndexIsLive
  <1> QED  BY <1>1, <1>2, <1>3, Zenon DEF BatchInv

-----------------------------------------------------------------------------

\* The invariant of the staging loop holds in every reachable state.
THEOREM BatchInvariance == BatchSpec => []BatchInv
  <1>1. ASSUME BatchInv, [BatchNext]_batchVars
        PROVE  BatchInv'
    <2>1. CASE BatchNext
      BY <1>1, <2>1, NewBatchStep, InsertStep, RemoveStep, CommitStep, DropStep, Zenon DEF BatchNext
    <2>2. CASE UNCHANGED batchVars
      BY <1>1, <2>2, SMTT(30) DEF batchVars, BatchInv, BatchTypeOK, IndexIsLive, PrefixIsStaged, LeftBy,
                        MutationsTrack, IsFirst, IsLast, current_quad_dots
    <2> QED  BY <1>1, <2>1, <2>2, Zenon
  <1> QED  BY BatchInitOK, <1>1, PTL DEF BatchSpec

\* insert_quad, remove_quad and commit keep the variables in their types.
THEOREM BatchTypes == BatchSpec => []BatchTypeOK
  <1>1. BatchInv => BatchTypeOK
    BY Zenon DEF BatchInv
  <1> QED  BY <1>1, BatchInvariance, PTL

\* For any batch, the loop over insert_quad and remove_quad stages the dots that
\* ApplyOps computes from the committed ones.
THEOREM LoopComputesApplyOps == BatchSpec => []StagedIsApplyOps
  <1>1. ASSUME BatchInv
        PROVE  StagedIsApplyOps
    <2> SUFFICES ASSUME running, pos = Len(ops)
                 PROVE  [q \in Quad |-> current_quad_dots(q)] = ApplyOps(quads, ops)
      BY Zenon DEF StagedIsApplyOps
    <2>1. ASSUME NEW quad \in Quad
          PROVE  current_quad_dots(quad) = ApplyOps(quads, ops)[quad]
      <3>1. current_quad_dots(quad) \subseteq Dot
        BY <1>1, CurrentType, Zenon DEF BatchInv
      <3>2. ApplyOps(quads, ops)[quad] \subseteq Dot
        <4>1. ops \in Seq(QuadOp) /\ quads[quad] \subseteq Dot
          BY <1>1, Zenon DEF BatchInv, BatchTypeOK, QuadState
        <4>2. \A i \in DOMAIN ops : ops[i].op = "Add" => ops[i].dot \in Dot
          BY <4>1 DEF QuadOp
        <4> QED  BY <4>1, <4>2, Zenon DEF ApplyOps, NewDots
      <3>3. \A d \in Dot : d \in current_quad_dots(quad) <=> d \in ApplyOps(quads, ops)[quad]
        BY <1>1, AllLeft, Zenon DEF BatchInv, PrefixIsStaged
      <3> QED  BY <3>1, <3>2, <3>3, Zenon
    <2> QED  BY <2>1, Zenon DEF ApplyOps
  <1> QED  BY <1>1, BatchInvariance, PTL

\* For any batches, commits and failures, the index that coalesced_transitions
\* maintains is the set of live quads.
THEOREM IndexFollowsStore == BatchSpec => []IndexIsLive
  <1>1. BatchInv => IndexIsLive
    BY Zenon DEF BatchInv
  <1> QED  BY <1>1, BatchInvariance, PTL

=============================================================================
