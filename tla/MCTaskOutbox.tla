---------------------------- MODULE MCTaskOutbox ----------------------------
(* Model values of the runs of TaskOutbox.                                 *)
EXTENDS TaskOutbox

CONSTANTS r1, r2, n1, n2

MCRun == {r1, r2}
MCNode == {n1, n2}
=============================================================================
