----------------------------- MODULE MCPushTurns -----------------------------
(* Small instances of PushTurns. *)
EXTENDS PushTurns, TLC

CONSTANTS r1, r2, m1, m2, c1, c2
=============================================================================
