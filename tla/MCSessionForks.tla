--------------------------- MODULE MCSessionForks ---------------------------
(* Model values of the run of SessionForks.                                *)
EXTENDS SessionForks

CONSTANTS s1, f1, f2, b1, b2

MCFork == {f1, f2}
MCBody == {b1, b2}
=============================================================================
