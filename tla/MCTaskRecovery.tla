---------------------------- MODULE MCTaskRecovery ----------------------------
(* Small instances of TaskRecovery: a bot that dials two nodes. *)
EXTENDS TaskRecovery

CONSTANTS n1, n2, a1, a2, b1, r1

Dials == [c \in Conn |-> IF c = b1 THEN n2 ELSE n1]
=============================================================================
