------------------------------- MODULE Purchase -------------------------------
(***************************************************************************)
(* What buying a plan promises customer and shop, without requests, rows,   *)
(* notifications, retries or crashes: a plan is granted once, for money     *)
(* that was paid; it is taken away only by the grant of a higher plan or    *)
(* for money paid back; money is paid back once, for an order that was      *)
(* granted its plan; and what is settled stays settled.                     *)
(***************************************************************************)
EXTENDS Naturals

CONSTANTS Order,
          TierOf   \* an order's rung on the ladder of plans

VARIABLES paid,     \* the orders that were paid
          plan,     \* an order's plan: "none" yet, "active", "revoked"
          repaid,   \* how many times an order's money was paid back
          settled   \* the orders whose refund is over

purchaseVars == <<paid, plan, repaid, settled>>

PurchaseInit ==
  /\ paid = {}
  /\ plan = [o \in Order |-> "none"]
  /\ repaid = [o \in Order |-> 0]
  /\ settled = {}

Pay(o) ==
  /\ paid' = paid \cup {o}
  /\ UNCHANGED <<plan, repaid, settled>>

\* A plan may take the place of lower ones.
Grant(o, lower) ==
  /\ o \in paid /\ plan[o] = "none"
  /\ \A p \in lower : plan[p] = "active" /\ TierOf[p] < TierOf[o]
  /\ plan' = [p \in Order |-> IF p = o THEN "active"
                              ELSE IF p \in lower THEN "revoked" ELSE plan[p]]
  /\ UNCHANGED <<paid, repaid, settled>>

Repay(o) ==
  /\ plan[o] # "none" /\ repaid[o] = 0
  /\ repaid' = [repaid EXCEPT ![o] = 1]
  /\ UNCHANGED <<paid, plan, settled>>

Settle(o) ==
  /\ repaid[o] = 1 /\ o \notin settled
  /\ plan' = [plan EXCEPT ![o] = "revoked"]
  /\ settled' = settled \cup {o}
  /\ UNCHANGED <<paid, repaid>>

PurchaseNext ==
  \E o \in Order : \/ Pay(o) \/ Repay(o) \/ Settle(o)
                   \/ \E lower \in SUBSET Order : Grant(o, lower)

PurchaseSpec == PurchaseInit /\ [][PurchaseNext]_purchaseVars
=============================================================================
