------------------------------ MODULE MCPayments ------------------------------
(* Small instances of Payments: orders of one user for two plans. *)
EXTENDS Payments, TLC

CONSTANTS o1, o2, o3, q1, q2

Ladder == [o \in Order |-> IF o = o1 THEN 1 ELSE 2]
Renewals == [o \in Order |-> 1]
\* Two requests about the first order, one about the others.
Scopes == [q \in Request |-> IF q = q1 THEN Order ELSE {o1}]
=============================================================================
