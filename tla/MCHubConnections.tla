-------------------------- MODULE MCHubConnections --------------------------
(* Small instances of HubConnections: a foreign body that dials twice beside the
   official one, on one or two nodes. *)
EXTENDS HubConnections

CONSTANTS n1, n2, f1, f2, w1, foreign, worker

TwoNodes == [c \in Conn |-> IF c = w1 THEN n2 ELSE n1]
OneNode  == [c \in Conn |-> n1]

Bodies == [c \in Conn |-> IF c = w1 THEN worker ELSE foreign]
=============================================================================
