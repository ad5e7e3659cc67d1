-------------------------- MODULE MCMergeReplicas --------------------------
(* MergeReplicas for TLC: two nodes, a caller that authors batches of its  *)
(* own, one quad, and the change sets that tell the operations apart.      *)
EXTENDS MergeReplicas

CONSTANTS n1, n2, x1, p

Ins(quad) == [kind |-> "Insert", quad |-> quad]
Del(quad) == [kind |-> "Delete", quad |-> quad]

MCActor == {n1, n2, x1}
MCReplica == {n1, n2}
MCQuad == {p}
MCChangeSets == {<<Ins(p)>>, <<Del(p)>>, <<Ins(p), Del(p)>>, <<Del(p), Ins(p)>>}
=============================================================================
