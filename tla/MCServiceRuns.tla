---------------------------- MODULE MCServiceRuns ----------------------------
(* Small instances of ServiceRuns: one process, sessions of every kind. *)
EXTENDS ServiceRuns, TLC

CONSTANTS n1, r1, r2, w1, w2, sw, sx, sb, sc

Kinds == [s \in Session |-> CASE s = sw -> "worker" [] s = sx -> "external" [] OTHER -> "bot"]
\* A worker's run beside an external one; two runs of the bot.
Places == {[r \in Run |-> IF r = r1 THEN sw ELSE sx], [r \in Run |-> IF r = r1 THEN sb ELSE sc]}
Homes == [r \in Run |-> n1]
=============================================================================
