---------------------------- MODULE MCTopicSync ----------------------------
(* TopicSync for TLC: two nodes, or one node and a foreign publisher.      *)
EXTENDS TopicSync

CONSTANTS n1, n2, x1, p

Ins(quad) == [kind |-> "Insert", quad |-> quad]
Del(quad) == [kind |-> "Delete", quad |-> quad]

MCQuad == {p}
MCChangeSets == {<<Ins(p)>>, <<Del(p)>>}
MCInserts == {<<Ins(p)>>}
TwoNodes == {n1, n2}
NodeAndForeigner == {n1, x1}
Nobody == {}
Foreigner == {x1}
=============================================================================
