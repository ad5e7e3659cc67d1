-------------------------- MODULE MCPolicyRegister --------------------------
(* PolicyRegister for TLC: two nodes, two writers on the first.            *)
EXTENDS PolicyRegister

CONSTANTS w1, w2, w3, private, open, shared

MCPeer == {1, 2}
MCCaller == {w1, w2, w3}
MCHome == [w \in MCCaller |-> IF w = w3 THEN 2 ELSE 1]
MCPolicy == {private, open, shared}
=============================================================================
