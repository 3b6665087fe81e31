-------------------------------- MODULE Payments --------------------------------
(***************************************************************************)
(* The orders of one user for the plans of the upgrade ladder, paid through *)
(* a provider (Alipay page payment): checkout, cancellation, notifications  *)
(* and the recovery loop, the entitlements an order buys, upgrades, early   *)
(* renewals and refunds.                                                    *)
(*                                                                          *)
(* A request is handled in steps: every call to the store is one            *)
(* transaction, every call to the provider takes effect at the provider, and *)
(* the customer acts in between. The provider is external: it is modelled   *)
(* from what the code does with its answers.                                *)
(***************************************************************************)
EXTENDS Integers, FiniteSets, FiniteSetsExt

CONSTANTS
  Order,
  TierOf,        \* of an order: the rung of its plan (plan_tier, one plan per rung)
  Period,        \* duration_days of the plans
  Horizon,       \* bound: the model's last moment
  Request,       \* requests being handled at once, in any process
  Scope,         \* bound: the orders a request may be about
  NoOrder,
  Faulty         \* bound: the orders about which calls may fail, before or after
                 \* having taken effect

ASSUME PaymentsAssumption ==
  /\ TierOf \in [Order -> Nat \ {0}]
  /\ Period \in Nat \ {0} /\ Horizon \in Nat
  /\ NoOrder \notin Order
  /\ Scope \in [Request -> SUBSET Order] /\ Faulty \subseteq Order

VARIABLES
  status,   \* commercial_orders.status ("none": no such row)
  url,      \* checkout_url is not empty
  due,      \* expires_at, which is the time_expire of the page, has passed
  ent, from,\* the entitlement of the order, and its starts_at
  now,
  at, on,   \* a request: what is to be done next, for which order
  found,    \* the recovery loop: orders the provider has just said are paid
  page,     \* external: the customer has been given a checkout page
  trade,    \* external: the trade of the order at the provider
  paidAt,   \* external: when it was paid
  refunds   \* external: the request numbers of the refunds booked for it

rowVars == <<status, url, due, ent, from>>
payVars == <<page, trade, paidAt, refunds>>
vars == <<rowVars, now, at, on, found, payVars>>

Label == {"idle", "begin", "checkout", "fail", "fulfil", "closing", "cancelled",
          "refund", "refunded", "release"}

TypeOK ==
  /\ status \in [Order -> {"none", "created", "pending", "failed", "closed",
                           "fulfilled", "refunding", "refunded"}]
  /\ url \in [Order -> BOOLEAN]
  /\ due \in [Order -> BOOLEAN]
  /\ ent \in [Order -> {"none", "active", "revoked"}]
  /\ from \in [Order -> Nat]
  /\ now \in 0 .. Horizon
  /\ at \in [Request -> Label]
  /\ on \in [Request -> Order \cup {NoOrder}]
  /\ found \subseteq Order
  /\ page \in [Order -> BOOLEAN]
  /\ trade \in [Order -> {"none", "waiting", "paid", "closed"}]
  /\ paidAt \in [Order -> Nat]
  /\ refunds \in [Order -> SUBSET (Order \cup Request)]

Init ==
  /\ status = [o \in Order |-> "none"]
  /\ url = [o \in Order |-> FALSE]
  /\ due = [o \in Order |-> FALSE]
  /\ ent = [o \in Order |-> "none"]
  /\ from = [o \in Order |-> 0]
  /\ now = 0
  /\ at = [q \in Request |-> "idle"]
  /\ on = [q \in Request |-> NoOrder]
  /\ found = {}
  /\ page = [o \in Order |-> FALSE]
  /\ trade = [o \in Order |-> "none"]
  /\ paidAt = [o \in Order |-> 0]
  /\ refunds = [o \in Order |-> {}]

Goes(q, label) ==
  /\ at' = [at EXCEPT ![q] = label]
  /\ on' = [on EXCEPT ![q] = IF label = "idle" THEN NoOrder ELSE @]

Starts(q, o, label) ==
  /\ at[q] = "idle" /\ o \in Scope[q]
  /\ at' = [at EXCEPT ![q] = label]
  /\ on' = [on EXCEPT ![q] = o]

\* An entitlement that is in force at time t.
InForce(o, t) == ent[o] = "active" /\ from[o] <= t /\ t < from[o] + Period

----------------------------------------------------------------------------
(* Checkout.                                                               *)

Unpaid == {"created", "pending"}
Open(o) == status[o] \in Unpaid /\ ~due[o]

\* createOrder of a new client_request_id: no buying down, and while an order is
\* open no other is created (one of the same plan is returned instead).
PostOrder(q, o) ==
  /\ Starts(q, o, "begin")
  /\ status[o] = "none"
  /\ \A p \in Order : ~Open(p) /\ ~(InForce(p, now) /\ TierOf[p] > TierOf[o])
  /\ status' = [status EXCEPT ![o] = "created"]
  /\ UNCHANGED <<url, due, ent, from, now, found, payVars>>

\* The request is repeated, or the order is looked at: without a page there is
\* another attempt to get one.
PostAgain(q, o) ==
  /\ Starts(q, o, "begin")
  /\ status[o] = "failed" \/ (status[o] \in Unpaid /\ ~url[o])
  /\ UNCHANGED <<rowVars, now, found, payVars>>

\* BeginCommercialOrderPayment; another attempt may be taken over after 30 s.
Begin(q) ==
  LET o == on[q] IN
  /\ at[q] = "begin"
  /\ \/ /\ status[o] \in {"created", "failed"} \/ (status[o] = "pending" /\ ~url[o])
        /\ status' = [status EXCEPT ![o] = "pending"]
        /\ url' = [url EXCEPT ![o] = FALSE]
        /\ due' = [due EXCEPT ![o] = FALSE]
        /\ Goes(q, "checkout")
     \/ /\ status[o] \notin {"created", "failed"}
        /\ UNCHANGED <<status, url, due>>
        /\ Goes(q, "idle")
  /\ UNCHANGED <<ent, from, now, found, payVars>>

\* CreatePayment signs the page, SetCommercialOrderPaymentIntent stores it, only
\* in a pending order; the customer gets it with the order.
SetIntent(o) ==
  /\ url' = [url EXCEPT ![o] = (status[o] = "pending") \/ @]
  /\ page' = [page EXCEPT ![o] = (status[o] = "pending") \/ @]

Checkout(q) ==
  /\ at[q] = "checkout"
  /\ \/ SetIntent(on[q]) /\ Goes(q, "idle")
     \/ on[q] \in Faulty /\ SetIntent(on[q]) /\ Goes(q, "fail")
     \/ on[q] \in Faulty /\ UNCHANGED <<url, page>> /\ Goes(q, "fail")
  /\ UNCHANGED <<status, due, ent, from, now, found, trade, paidAt, refunds>>

\* FailCommercialOrder.
FailOrder(q) ==
  /\ at[q] = "fail"
  /\ status' = [status EXCEPT ![on[q]] = IF @ \in Unpaid THEN "failed" ELSE @]
  /\ Goes(q, "idle")
  /\ UNCHANGED <<url, due, ent, from, now, found, payVars>>

TimeOut(o) ==
  /\ status[o] # "none" /\ ~due[o]
  /\ due' = [due EXCEPT ![o] = TRUE]
  /\ UNCHANGED <<status, url, ent, from, now, at, on, found, payVars>>

\* CloseExpiredCommercialOrders; the provider is not asked.
CloseExpired(o) ==
  /\ status[o] \in Unpaid /\ due[o]
  /\ status' = [status EXCEPT ![o] = "closed"]
  /\ url' = [url EXCEPT ![o] = FALSE]
  /\ UNCHANGED <<due, ent, from, now, at, on, found, payVars>>

\* A day passes: longer than any request, and than the 20 minutes an order is open.
Tick ==
  /\ now < Horizon
  /\ \A q \in Request : at[q] = "idle"
  /\ \A o \in Order : ~Open(o)
  /\ now' = now + 1
  /\ UNCHANGED <<rowVars, at, on, found, payVars>>

----------------------------------------------------------------------------
(* The customer, at the provider's page. The trade comes into being there.  *)

OpenPage(o) ==
  /\ page[o] /\ ~due[o] /\ trade[o] = "none"
  /\ trade' = [trade EXCEPT ![o] = "waiting"]
  /\ UNCHANGED <<rowVars, now, at, on, found, page, paidAt, refunds>>

Pay(o) ==
  /\ trade[o] = "waiting" /\ ~due[o]
  /\ trade' = [trade EXCEPT ![o] = "paid"]
  /\ paidAt' = [paidAt EXCEPT ![o] = now]
  /\ UNCHANGED <<rowVars, now, at, on, found, page, refunds>>

----------------------------------------------------------------------------
(* Fulfilment.                                                             *)

\* A notification, perhaps late or a copy, or a query while the order is looked at.
Confirmed(q, o) ==
  /\ Starts(q, o, "fulfil")
  /\ trade[o] = "paid"
  /\ UNCHANGED <<rowVars, now, found, payVars>>

\* (mutant) closed orders are not queried
FindPending(o) ==
  /\ status[o] \in Unpaid /\ o \notin found
  /\ trade[o] = "paid" /\ refunds[o] = {}
  /\ found' = found \cup {o}
  /\ UNCHANGED <<rowVars, now, at, on, payVars>>

\* ReconcileCommercialOrders: queries recent created, pending and closed orders. A
\* trade that has been refunded in full is closed at the provider.
FindPaid(o) ==
  /\ status[o] \in Unpaid \cup {"closed"} /\ o \notin found
  /\ trade[o] = "paid" /\ refunds[o] = {}
  /\ found' = found \cup {o}
  /\ UNCHANGED <<rowVars, now, at, on, payVars>>

\* activateCommercialOfficialPlan refuses it: a higher plan is in force.
Outranked(o) == \E p \in Order : InForce(p, paidAt[o]) /\ TierOf[p] > TierOf[o]

\* What it supersedes: the lower plans, unless the order renews the plan in force.
Superseded(o) ==
  {p \in Order : /\ InForce(p, paidAt[o]) /\ TierOf[p] < TierOf[o]
                 /\ \A s \in Order : InForce(s, paidAt[o]) => TierOf[s] < TierOf[o]}

\* activeCommercialOfficialPlanExpiry: a renewal starts when the period in force ends.
StartsAt(o) ==
  LET ends == {from[p] + Period : p \in {s \in Order : InForce(s, paidAt[o]) /\ TierOf[s] = TierOf[o]}}
  IN IF ends = {} THEN paidAt[o] ELSE Max(ends)

\* FulfillCommercialOrder, from every status but these; the payment event, which is
\* inserted with the entitlement, is not used twice.
Fulfillable(o) == status[o] \notin {"fulfilled", "refunding", "refunded"} /\ ent[o] = "none"

Fulfil(o) ==
  \/ /\ Fulfillable(o) /\ ~Outranked(o)
     /\ status' = [status EXCEPT ![o] = "fulfilled"]
     /\ url' = [url EXCEPT ![o] = FALSE]
     /\ ent' = [p \in Order |-> IF p = o THEN "active"
                                ELSE IF p \in Superseded(o) THEN "revoked" ELSE ent[p]]
     /\ from' = [from EXCEPT ![o] = StartsAt(o)]
     /\ UNCHANGED due
  \/ ~Fulfillable(o) /\ UNCHANGED rowVars
  \/ Outranked(o) /\ UNCHANGED rowVars

FulfilRequest(q) ==
  /\ at[q] = "fulfil"
  /\ Fulfil(on[q])
  /\ Goes(q, "idle")
  /\ UNCHANGED <<now, found, payVars>>

FulfilFound(o) ==
  /\ o \in found
  /\ Fulfil(o)
  /\ found' = found \ {o}
  /\ UNCHANGED <<now, at, on, payVars>>

\* The loop gives an order up until its next pass: a call fails, or it restarts.
LoseFound(o) ==
  /\ o \in found \cap Faulty
  /\ found' = found \ {o}
  /\ UNCHANGED <<rowVars, now, at, on, payVars>>

----------------------------------------------------------------------------
(* Cancellation.                                                           *)

\* HandleCancel: a pending order is queried first; what is paid is fulfilled instead.
Cancel(q, o) ==
  /\ \/ status[o] \in {"created", "failed"} /\ Starts(q, o, "cancelled")
     \/ status[o] = "pending" /\ trade[o] = "paid" /\ Starts(q, o, "fulfil")
     \/ /\ status[o] = "pending" /\ (trade[o] # "paid" \/ o \in Faulty)
        /\ Starts(q, o, "closing")
  /\ UNCHANGED <<rowVars, now, found, payVars>>

\* ClosePayment: that there is no trade counts as closed. A paid trade cannot be
\* closed: it is queried once more.
ClosePayment(q) ==
  LET o == on[q] IN
  /\ at[q] = "closing"
  /\ \/ trade[o] \in {"none", "closed"} /\ UNCHANGED trade /\ Goes(q, "cancelled")
     \/ /\ trade[o] = "waiting"
        /\ trade' = [trade EXCEPT ![o] = "closed"]
        /\ Goes(q, "cancelled") \/ (on[q] \in Faulty /\ Goes(q, "idle"))
     \/ trade[o] = "paid" /\ UNCHANGED trade /\ Goes(q, "fulfil")
  /\ UNCHANGED <<rowVars, now, found, page, paidAt, refunds>>

\* (mutant) closes the order as it was read
CancelUnchecked(q) ==
  LET o == on[q] IN
  /\ at[q] = "cancelled"
  /\ status' = [status EXCEPT ![o] = "closed"]
  /\ url' = [url EXCEPT ![o] = FALSE]
  /\ Goes(q, "idle")
  /\ UNCHANGED <<due, ent, from, now, found, payVars>>

\* CancelCommercialOrder.
CancelRow(q) ==
  LET o == on[q] IN
  /\ at[q] = "cancelled"
  /\ \/ /\ status[o] \in Unpaid \cup {"failed"}
        /\ status' = [status EXCEPT ![o] = "closed"]
        /\ url' = [url EXCEPT ![o] = FALSE]
     \/ /\ status[o] \notin Unpaid \cup {"failed"}
        /\ UNCHANGED <<status, url>>
  /\ Goes(q, "idle")
  /\ UNCHANGED <<due, ent, from, now, found, payVars>>

----------------------------------------------------------------------------
(* Refunds (RefundOrder).                                                  *)

\* BeginCommercialOrderRefund; another refund may be taken over after two minutes.
BeginRefund(q, o) ==
  /\ Starts(q, o, "refund")
  /\ status[o] \in {"fulfilled", "refunding"}
  /\ status' = [status EXCEPT ![o] = "refunding"]
  /\ UNCHANGED <<url, due, ent, from, now, found, payVars>>

\* (mutant) every attempt has a number of its own
FreshRequestNo(q) == q

\* commercialRefundRequestNo: the same for every attempt to refund an order.
RefundRequestNo(q) == on[q]

\* RefundPayment: the provider books a request number once. A failed call may have
\* been booked all the same.
RefundPayment(q) ==
  /\ at[q] = "refund"
  /\ \/ /\ refunds' = [refunds EXCEPT ![on[q]] = @ \cup {RefundRequestNo(q)}]
        /\ Goes(q, "refunded") \/ (on[q] \in Faulty /\ Goes(q, "release"))
     \/ on[q] \in Faulty /\ UNCHANGED refunds /\ Goes(q, "release")
  /\ UNCHANGED <<rowVars, now, found, page, trade, paidAt>>

\* CompleteCommercialOrderRefund; an order that is not refunding is not refunded.
CompleteRefund(q) ==
  LET o == on[q] IN
  /\ at[q] = "refunded"
  /\ \/ /\ status[o] = "refunding"
        /\ status' = [status EXCEPT ![o] = "refunded"]
        /\ url' = [url EXCEPT ![o] = FALSE]
        /\ ent' = [ent EXCEPT ![o] = "revoked"]
        /\ Goes(q, "idle") \/ (on[q] \in Faulty /\ Goes(q, "release"))
     \/ /\ status[o] = "refunded" /\ UNCHANGED <<status, url, ent>>
        /\ Goes(q, "idle")
     \/ /\ status[o] \notin {"refunding", "refunded"} \/ on[q] \in Faulty
        /\ UNCHANGED <<status, url, ent>>
        /\ Goes(q, "release")
  /\ UNCHANGED <<due, from, now, found, payVars>>

\* (mutant) takes back whatever the order has become
ReleaseUnchecked(q) ==
  /\ at[q] = "release"
  /\ status' = [status EXCEPT ![on[q]] = "fulfilled"]
  /\ Goes(q, "idle")
  /\ UNCHANGED <<url, due, ent, from, now, found, payVars>>

\* FailCommercialOrderRefund.
ReleaseRefund(q) ==
  /\ at[q] = "release"
  /\ status' = [status EXCEPT ![on[q]] = IF @ = "refunding" THEN "fulfilled" ELSE @]
  /\ Goes(q, "idle")
  /\ UNCHANGED <<url, due, ent, from, now, found, payVars>>

\* A request ends at any step: its call fails without effect, or the process dies.
Dies(q) ==
  /\ at[q] # "idle" /\ on[q] \in Faulty
  /\ Goes(q, "idle")
  /\ UNCHANGED <<rowVars, now, found, payVars>>

----------------------------------------------------------------------------
RequestStep(q) ==
  \/ Begin(q) \/ Checkout(q) \/ FailOrder(q) \/ FulfilRequest(q) \/ ClosePayment(q)
  \/ CancelRow(q) \/ RefundPayment(q) \/ CompleteRefund(q) \/ ReleaseRefund(q)

OrderStep(o) ==
  \/ TimeOut(o) \/ CloseExpired(o) \/ OpenPage(o) \/ Pay(o)
  \/ FindPaid(o) \/ FulfilFound(o) \/ LoseFound(o)

Arrives(q, o) ==
  PostOrder(q, o) \/ PostAgain(q, o) \/ Confirmed(q, o) \/ Cancel(q, o) \/ BeginRefund(q, o)

Next ==
  \/ Tick
  \/ \E o \in Order : OrderStep(o) \/ \E q \in Request : Arrives(q, o)
  \/ \E q \in Request : RequestStep(q) \/ Dies(q)

Spec == Init /\ [][Next]_vars

\* Requests are worked off and the recovery loop runs; no customer, operator or
\* notification is assumed to come.
FairSpec ==
  /\ Spec
  /\ \A q \in Request : WF_vars(RequestStep(q))
  /\ \A o \in Order : WF_vars(FindPaid(o)) /\ WF_vars(FulfilFound(o)) /\ WF_vars(CloseExpired(o))

----------------------------------------------------------------------------
(* What must hold.                                                         *)

\* Whatever requests overlap, an entitlement is in force only while its order is
\* fulfilled (or its refund is still going on), a fulfilled order has got its
\* entitlement, and it was paid for.
EntitledAsOrdered ==
  \A o \in Order :
    /\ ent[o] = "active" => status[o] \in {"fulfilled", "refunding"}
    /\ status[o] \in {"fulfilled", "refunding", "refunded"} => ent[o] # "none" /\ trade[o] = "paid"

\* An order is refunded only if the provider has paid the money back, and its
\* entitlement is gone.
RefundedAsBooked ==
  \A o \in Order : status[o] = "refunded" => refunds[o] # {} /\ ent[o] = "revoked"

\* However often a refund is tried, taken over or repeated after a failure, the
\* provider books one for an order.
RefundedOnce == \A o \in Order : Cardinality(refunds[o]) <= 1

\* No late notification, cancellation or failing second refund gets an order out of
\* refunded, and none takes a fulfilled order back but a refund.
NoWayBack ==
  [][\A o \in Order : /\ status[o] = "refunded" => status'[o] = "refunded"
                      /\ status[o] = "fulfilled" => status'[o] \in {"fulfilled", "refunding"}]_vars

\* Money that was taken stays in the reach of the recovery loop: whatever cancels,
\* expires or refunds, a paid order is done with, is failed (which the loop does not
\* ask about), or is one the loop asks about, is told is paid, and may fulfil.
PaidStaysInReach ==
  \A o \in Order : trade[o] = "paid" =>
    \/ status[o] \in {"fulfilled", "refunding", "refunded", "failed"}
    \/ status[o] \in Unpaid \cup {"closed"} /\ Fulfillable(o) /\ refunds[o] = {}

\* However requests, notifications, the recovery loop and refunds overlap, fail or
\* repeat, customer and shop see a plan granted once, for money, and money paid
\* back once, for a plan.
Buying ==
  INSTANCE Purchase
    WITH paid <- {o \in Order : trade[o] = "paid"},
         plan <- ent,
         repaid <- [o \in Order |-> Cardinality(refunds[o])],
         settled <- {o \in Order : status[o] = "refunded"}

ImplementsPurchase == Buying!PurchaseSpec

\* A customer who has paid gets the plan even if no notification ever comes and the
\* order was cancelled or had expired meanwhile, unless the attempt to check out was
\* declared failed or a higher plan is in force, once the loop's calls succeed. (A
\* fulfilment that is refused looks like a failed call, and is not exempt.)
PaidIsRecovered ==
  (\A o \in Order : <>[][LoseFound(o) => FulfilFound(o)]_vars)
  => \A o \in Order : trade[o] = "paid" ~>
       status[o] \in {"fulfilled", "refunding", "refunded", "failed"} \/ Outranked(o)

\* "Early renewals do not discard paid time": the periods paid for do not overlap.
PaidTimeIsKept ==
  \A o, p \in Order :
    o # p /\ TierOf[o] = TierOf[p] /\ ent[o] = "active" /\ ent[p] = "active"
    => from[o] + Period <= from[p] \/ from[p] + Period <= from[o]
=============================================================================
