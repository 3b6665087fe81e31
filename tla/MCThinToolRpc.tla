---------------------------- MODULE MCThinToolRpc ----------------------------
(* Small instances of ThinToolRpc: every request uses one id and comes from one
   requester's connection, so that an id is used again while it is remembered. *)
EXTENDS ThinToolRpc, TLC

CONSTANTS r1, r2, i1, q1

Ids   == [r \in Req |-> i1]
Froms == [r \in Req |-> q1]

\* Requests of one id and requester, connections of one node.
SameAgain == Permutations(Req) \cup Permutations(Device)
=============================================================================
