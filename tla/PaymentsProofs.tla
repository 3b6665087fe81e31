----------------------------- MODULE PaymentsProofs -----------------------------
(***************************************************************************)
(* Machine-checked proofs about Payments, for any number of orders, plans   *)
(* and requests, whichever calls fail.                                      *)
(***************************************************************************)
EXTENDS Payments, FiniteSetTheorems, WellFoundedInduction, TLAPS

USE DEF Unpaid, Label

Started == {"fulfilled", "refunding", "refunded"}

\* What the rows of commercial_orders and commercial_entitlements satisfy.
RowsOK ==
  /\ status \in [Order -> {"none", "created", "pending", "failed", "closed"} \cup Started]
  /\ url \in [Order -> BOOLEAN]
  /\ due \in [Order -> BOOLEAN]
  /\ ent \in [Order -> {"none", "active", "revoked"}]
  /\ from \in [Order -> Nat]

\* What is known at the provider: every refund of an order has the one number.
ProviderOK ==
  /\ page \in [Order -> BOOLEAN]
  /\ trade \in [Order -> {"none", "waiting", "paid", "closed"}]
  /\ paidAt \in [Order -> Nat]
  /\ refunds \in [Order -> SUBSET (Order \cup Request)]
  /\ \A o \in Order : refunds[o] \subseteq {o}

\* What requests and the loop know is true: what they fulfil has been paid, and
\* what they complete as refunded has been booked.
FlowOK ==
  /\ now \in 0 .. Horizon
  /\ at \in [Request -> Label]
  /\ on \in [Request -> Order \cup {NoOrder}]
  /\ \A q \in Request : at[q] # "idle" => on[q] \in Order
  /\ \A q \in Request : at[q] = "fulfil" => trade[on[q]] = "paid"
  /\ \A q \in Request : at[q] = "refunded" => refunds[on[q]] # {}
  /\ found \subseteq Order
  /\ \A o \in found : trade[o] = "paid"

PaymentsInv == RowsOK /\ ProviderOK /\ FlowOK /\ EntitledAsOrdered /\ RefundedAsBooked

\* An order stays refunded, and stays fulfilled until it is refunded.
Forward ==
  \A o \in Order : /\ status[o] = "refunded" => status'[o] = "refunded"
                   /\ status[o] = "fulfilled" => status'[o] \in {"fulfilled", "refunding"}

LEMMA InitPaymentsInv == Init => PaymentsInv
BY PaymentsAssumption
DEF Init, PaymentsAssumption, PaymentsInv, RowsOK, ProviderOK, FlowOK, Started,
    EntitledAsOrdered, RefundedAsBooked

----------------------------------------------------------------------------
(* When a period starts.                                                   *)

\* A non-empty bounded set of naturals has a greatest element, and Max is one.
LEMMA MaxOfBounded ==
  ASSUME NEW S \in SUBSET Nat, S # {}, NEW b \in Nat, \A x \in S : x <= b
  PROVE  Max(S) \in S
<1> DEFINE T == {b - x : x \in S}
<1>1. T \subseteq Nat /\ T # {}
  <2>1. \A x \in S : x \in Nat /\ b - x \in Nat
    OBVIOUS
  <2> QED
    BY <2>1
<1>2. PICK m \in T : \A y \in T : ~(<<y, m>> \in OpToRel(<, Nat))
  BY <1>1, NatLessThanWellFounded, WFMin
<1>3. PICK x \in S : m = b - x
  OBVIOUS
<1>4. \A y \in S : x >= y
  <2> SUFFICES ASSUME NEW y \in S PROVE x >= y
    OBVIOUS
  <2>1. b - y \in T /\ b - y \in Nat /\ m \in Nat
    BY <1>1
  <2>2. ~(b - y < m)
    BY <1>2, <2>1 DEF OpToRel
  <2> QED
    BY <1>3, <2>2
<1> QED
  BY <1>4 DEF Max

LEMMA StartsAtType ==
  ASSUME RowsOK, ProviderOK, NEW o \in Order
  PROVE  StartsAt(o) \in Nat
<1> DEFINE ends == {from[p] + Period :
                      p \in {s \in Order : InForce(s, paidAt[o]) /\ TierOf[s] = TierOf[o]}}
<1>1. Period \in Nat /\ paidAt[o] \in Nat /\ from \in [Order -> Nat]
  BY PaymentsAssumption DEF PaymentsAssumption, RowsOK, ProviderOK
<1>2. ends \in SUBSET Nat /\ paidAt[o] + Period \in Nat
  BY <1>1
<1>3. \A x \in ends : x <= paidAt[o] + Period
  BY <1>1 DEF InForce
<1>4. StartsAt(o) = IF ends = {} THEN paidAt[o] ELSE Max(ends)
  BY DEF StartsAt
<1> HIDE DEF ends
<1>5. CASE ends = {}
  BY <1>1, <1>4, <1>5
<1>6. CASE ends # {}
  <2>1. Max(ends) \in ends
    BY <1>2, <1>3, <1>6, MaxOfBounded
  <2> QED
    BY <1>2, <1>4, <1>6, <2>1
<1> QED
  BY <1>5, <1>6

----------------------------------------------------------------------------
(* The steps.                                                              *)

\* What a request does next keeps what requests know, when it knows it then.
LEMMA GoesKeepsFlow ==
  ASSUME FlowOK, NEW q \in Request, NEW label \in Label, Goes(q, label), at[q] # "idle",
         now' = now, found' = found,
         \A o \in Order : trade[o] = "paid" => trade'[o] = "paid",
         \A o \in Order : refunds[o] # {} => refunds'[o] # {},
         label = "fulfil" => trade'[on[q]] = "paid",
         label = "refunded" => refunds'[on[q]] # {}
  PROVE  FlowOK'
BY DEF FlowOK, Goes

LEMMA StartsKeepsFlow ==
  ASSUME FlowOK, NEW q \in Request, NEW o \in Order, NEW label \in Label \ {"refunded"},
         Starts(q, o, label), UNCHANGED <<now, found, payVars>>,
         label = "fulfil" => trade[o] = "paid"
  PROVE  FlowOK'
BY DEF FlowOK, Starts, payVars

\* The request rests, and what it knew stays true of everybody.
LEMMA SameKeepsFlow ==
  ASSUME FlowOK, UNCHANGED <<at, on>>, now' \in 0 .. Horizon, found' \subseteq Order,
         \A o \in found' : trade'[o] = "paid",
         \A o \in Order : trade[o] = "paid" => trade'[o] = "paid",
         \A o \in Order : refunds[o] # {} => refunds'[o] # {}
  PROVE  FlowOK'
BY DEF FlowOK

LEMMA UnchangedProvider ==
  ASSUME ProviderOK, UNCHANGED payVars
  PROVE  ProviderOK'
BY DEF ProviderOK, payVars

\* The rows' part of the invariant, with what a step may do to the orders.
RowInv == RowsOK /\ EntitledAsOrdered /\ RefundedAsBooked

\* A row that was not started goes on not started, everything else stays.
LEMMA RowKept ==
  ASSUME RowInv, NEW o \in Order,
         NEW s \in {"created", "pending", "failed", "closed"},
         status[o] \notin Started,
         status' = [status EXCEPT ![o] = s],
         url' \in [Order -> BOOLEAN], due' \in [Order -> BOOLEAN],
         UNCHANGED <<ent, from>>,
         \A p \in Order : trade[p] = "paid" => trade'[p] = "paid",
         \A p \in Order : refunds[p] # {} => refunds'[p] # {}
  PROVE  RowInv' /\ Forward
BY DEF RowInv, RowsOK, EntitledAsOrdered, RefundedAsBooked, Forward, Started

LEMMA RowsUnchanged ==
  ASSUME RowInv, status' = status, UNCHANGED <<ent, from>>,
         url' \in [Order -> BOOLEAN], due' \in [Order -> BOOLEAN],
         \A p \in Order : trade[p] = "paid" => trade'[p] = "paid",
         \A p \in Order : refunds[p] # {} => refunds'[p] # {}
  PROVE  RowInv' /\ Forward
BY DEF RowInv, RowsOK, EntitledAsOrdered, RefundedAsBooked, Forward

\* An order that was paid for is fulfilled, or left as it is.
LEMMA FulfilKeepsRows ==
  ASSUME RowInv, ProviderOK, NEW o \in Order, trade[o] = "paid", Fulfil(o),
         UNCHANGED payVars
  PROVE  RowInv' /\ Forward
<1> USE DEF RowInv
<1>1. CASE UNCHANGED rowVars
  BY <1>1, RowsUnchanged DEF rowVars, payVars, RowsOK
<1>2. CASE /\ Fulfillable(o)
           /\ status' = [status EXCEPT ![o] = "fulfilled"]
           /\ url' = [url EXCEPT ![o] = FALSE]
           /\ ent' = [p \in Order |-> IF p = o THEN "active"
                                      ELSE IF p \in Superseded(o) THEN "revoked" ELSE ent[p]]
           /\ from' = [from EXCEPT ![o] = StartsAt(o)]
           /\ UNCHANGED due
  <2>1. status[o] \notin Started /\ ent[o] = "none"
    BY <1>2 DEF Fulfillable, Started
  <2>2. \A p \in Superseded(o) : ent[p] = "active"
    BY DEF Superseded, InForce
  <2>3. StartsAt(o) \in Nat
    BY StartsAtType
  <2> HIDE DEF Unpaid, Label
  <2>4. RowsOK'
    BY <1>2, <2>3 DEF RowsOK, Started
  <2>5. \A p \in Order \ {o} : status'[p] = status[p] /\ (ent'[p] = ent[p] \/ (ent[p] = "active" /\ ent'[p] = "revoked"))
    BY <1>2, <2>2 DEF RowsOK
  <2>6. status'[o] = "fulfilled" /\ ent'[o] = "active"
    BY <1>2 DEF RowsOK
  <2>7. trade' = trade /\ refunds' = refunds
    BY DEF payVars
  <2>8. EntitledAsOrdered'
    BY <2>5, <2>6, <2>7 DEF EntitledAsOrdered
  <2>9. RefundedAsBooked'
    BY <2>5, <2>6, <2>7 DEF RefundedAsBooked, EntitledAsOrdered
  <2>10. Forward
    BY <2>1, <2>5 DEF Forward, Started
  <2> QED
    BY <2>4, <2>8, <2>9, <2>10
<1> QED
  BY <1>1, <1>2 DEF Fulfil, Fulfillable

\* The steps of requests: those that leave the orders started, and those of a refund.
LEMMA RequestKeepsInv ==
  ASSUME PaymentsInv, NEW q \in Request, RequestStep(q)
  PROVE  PaymentsInv' /\ Forward
<1> DEFINE o == on[q]
<1> USE DEF PaymentsInv, RowInv
<1>0. at[q] # "idle" /\ o \in Order
  BY DEF RequestStep, Begin, Checkout, FailOrder, FulfilRequest, ClosePayment, CancelRow,
         RefundPayment, CompleteRefund, ReleaseRefund, FlowOK
<1>1. CASE Begin(q)
  <2>1. /\ UNCHANGED <<now, found, payVars>> /\ UNCHANGED <<ent, from>>
        /\ \E l \in {"checkout", "idle"} : Goes(q, l)
        /\ url' \in [Order -> BOOLEAN] /\ due' \in [Order -> BOOLEAN]
        /\ \/ status[o] \notin Started /\ status' = [status EXCEPT ![o] = "pending"]
           \/ status' = status
    BY <1>0, <1>1 DEF Begin, RowsOK, Started
  <2>2. RowInv' /\ Forward
    BY <1>0, <2>1, RowKept, RowsUnchanged DEF payVars
  <2>3. FlowOK'
    BY <1>0, <2>1, GoesKeepsFlow DEF payVars
  <2> QED
    BY <2>1, <2>2, <2>3, UnchangedProvider
<1>2. CASE Checkout(q)
  <2>1. /\ UNCHANGED <<status, due, ent, from, now, found, trade, paidAt, refunds>>
        /\ \E l \in {"fail", "idle"} : Goes(q, l)
        /\ url' \in [Order -> BOOLEAN] /\ due' \in [Order -> BOOLEAN] /\ page' \in [Order -> BOOLEAN]
    <3>1. CASE SetIntent(o)
      BY <1>0, <1>2, <3>1 DEF Checkout, SetIntent, RowsOK, ProviderOK
    <3>2. CASE UNCHANGED <<url, page>>
      BY <1>0, <1>2, <3>2 DEF Checkout, RowsOK, ProviderOK
    <3> QED
      BY <1>2, <3>1, <3>2 DEF Checkout
  <2>2. RowInv' /\ Forward
    BY <2>1, RowsUnchanged
  <2>3. FlowOK'
    BY <1>0, <2>1, GoesKeepsFlow
  <2>4. ProviderOK'
    BY <2>1 DEF ProviderOK
  <2> QED
    BY <2>2, <2>3, <2>4
<1>3. CASE FailOrder(q)
  <2>1. RowInv' /\ Forward
    <3>1. CASE status[o] \in Unpaid
      BY <1>0, <1>3, <3>1, RowKept DEF FailOrder, RowsOK, Started, payVars
    <3>2. CASE status[o] \notin Unpaid
      <4>1. status' = status
        BY <1>0, <1>3, <3>2 DEF FailOrder, RowsOK
      <4> QED
        BY <1>3, <4>1, RowsUnchanged DEF FailOrder, RowsOK, payVars
    <3> QED
      BY <3>1, <3>2
  <2>2. FlowOK'
    BY <1>0, <1>3, GoesKeepsFlow DEF FailOrder, payVars
  <2> QED
    BY <1>3, <2>1, <2>2, UnchangedProvider DEF FailOrder
<1>4. CASE FulfilRequest(q)
  <2>1. RowInv' /\ Forward
    BY <1>0, <1>4, FulfilKeepsRows DEF FulfilRequest, FlowOK
  <2>2. FlowOK'
    BY <1>0, <1>4, GoesKeepsFlow DEF FulfilRequest, payVars
  <2> QED
    BY <1>4, <2>1, <2>2, UnchangedProvider DEF FulfilRequest
<1>5. CASE ClosePayment(q)
  <2>1. /\ UNCHANGED <<rowVars, now, found, page, paidAt, refunds>>
        /\ trade' = trade \/ (trade[o] = "waiting" /\ trade' = [trade EXCEPT ![o] = "closed"])
        /\ \/ Goes(q, "cancelled") \/ Goes(q, "idle")
           \/ Goes(q, "fulfil") /\ trade' = trade /\ trade[o] = "paid"
    BY <1>5 DEF ClosePayment
  <2>2. \A p \in Order : trade[p] = "paid" => trade'[p] = "paid"
    BY <1>0, <2>1 DEF ProviderOK
  <2>3. RowInv' /\ Forward
    BY <2>1, <2>2, RowsUnchanged DEF rowVars, RowsOK
  <2>4. FlowOK'
    BY <1>0, <2>1, <2>2, GoesKeepsFlow
  <2>5. ProviderOK'
    BY <1>0, <2>1 DEF ProviderOK
  <2> QED
    BY <2>3, <2>4, <2>5
<1>6. CASE CancelRow(q)
  <2>1. RowInv' /\ Forward
    <3>1. CASE status' = [status EXCEPT ![o] = "closed"] /\ status[o] \in Unpaid \cup {"failed"}
      BY <1>0, <1>6, <3>1, RowKept DEF CancelRow, RowsOK, Started, payVars
    <3>2. CASE UNCHANGED <<status, url>>
      BY <1>6, <3>2, RowsUnchanged DEF CancelRow, RowsOK, payVars
    <3> QED
      BY <1>6, <3>1, <3>2 DEF CancelRow
  <2>2. FlowOK'
    BY <1>0, <1>6, GoesKeepsFlow DEF CancelRow, payVars
  <2> QED
    BY <1>6, <2>1, <2>2, UnchangedProvider DEF CancelRow
<1>7. CASE RefundPayment(q)
  <2>1. /\ UNCHANGED <<rowVars, now, found, page, trade, paidAt>>
        /\ refunds' = [refunds EXCEPT ![o] = @ \cup {o}] \/ refunds' = refunds
        /\ Goes(q, "release") \/ (Goes(q, "refunded") /\ refunds' = [refunds EXCEPT ![o] = @ \cup {o}])
    BY <1>7 DEF RefundPayment, RefundRequestNo
  <2>2. \A p \in Order : refunds[p] # {} => refunds'[p] # {}
    BY <1>0, <2>1 DEF ProviderOK
  <2>3. RowInv' /\ Forward
    BY <2>1, <2>2, RowsUnchanged DEF rowVars, RowsOK
  <2>4. FlowOK'
    <3>1. refunds' = [refunds EXCEPT ![o] = @ \cup {o}] => refunds'[o] # {}
      BY <1>0 DEF ProviderOK
    <3> QED
      BY <1>0, <2>1, <2>2, <3>1, GoesKeepsFlow
  <2>5. ProviderOK'
    BY <1>0, <2>1 DEF ProviderOK
  <2> QED
    BY <2>3, <2>4, <2>5
<1>8. CASE CompleteRefund(q)
  <2>1. RowInv' /\ Forward
    <3>1. CASE /\ status[o] = "refunding"
               /\ status' = [status EXCEPT ![o] = "refunded"]
               /\ url' = [url EXCEPT ![o] = FALSE]
               /\ ent' = [ent EXCEPT ![o] = "revoked"]
      <4>1. refunds[o] # {}
        BY <1>8 DEF CompleteRefund, FlowOK
      <4>2. UNCHANGED <<due, from, trade, refunds>>
        BY <1>8 DEF CompleteRefund, payVars
      <4> QED
        BY <1>0, <3>1, <4>1, <4>2
        DEF RowsOK, EntitledAsOrdered, RefundedAsBooked, Forward, Started
    <3>2. CASE UNCHANGED <<status, url, ent>>
      BY <1>8, <3>2, RowsUnchanged DEF CompleteRefund, RowsOK, payVars
    <3> QED
      BY <1>8, <3>1, <3>2 DEF CompleteRefund
  <2>2. FlowOK'
    <3>1. Goes(q, "idle") \/ Goes(q, "release")
      BY <1>8 DEF CompleteRefund
    <3> QED
      BY <1>0, <1>8, <3>1, GoesKeepsFlow DEF CompleteRefund, payVars
  <2> QED
    BY <1>8, <2>1, <2>2, UnchangedProvider DEF CompleteRefund
<1>9. CASE ReleaseRefund(q)
  <2>1. RowInv' /\ Forward
    <3>1. CASE status[o] = "refunding"
      BY <1>0, <1>9, <3>1
      DEF ReleaseRefund, RowsOK, EntitledAsOrdered, RefundedAsBooked, Forward, Started, payVars
    <3>2. CASE status[o] # "refunding"
      <4>1. status' = status
        BY <1>0, <1>9, <3>2 DEF ReleaseRefund, RowsOK
      <4> QED
        BY <1>9, <4>1, RowsUnchanged DEF ReleaseRefund, RowsOK, payVars
    <3> QED
      BY <3>1, <3>2
  <2>2. FlowOK'
    BY <1>0, <1>9, GoesKeepsFlow DEF ReleaseRefund, payVars
  <2> QED
    BY <1>9, <2>1, <2>2, UnchangedProvider DEF ReleaseRefund
<1> QED
  BY <1>1, <1>2, <1>3, <1>4, <1>5, <1>6, <1>7, <1>8, <1>9 DEF RequestStep

\* The steps of orders: time, the customer, and the recovery loop.
LEMMA OrderKeepsInv ==
  ASSUME PaymentsInv, NEW o \in Order, OrderStep(o)
  PROVE  PaymentsInv' /\ Forward
<1> USE DEF PaymentsInv, RowInv
<1>1. CASE TimeOut(o)
  BY <1>1, RowsUnchanged, SameKeepsFlow, UnchangedProvider DEF TimeOut, RowsOK, FlowOK, payVars
<1>2. CASE CloseExpired(o)
  <2>1. RowInv' /\ Forward
    BY <1>2, RowKept DEF CloseExpired, RowsOK, Started, payVars
  <2>2. FlowOK'
    BY <1>2, SameKeepsFlow DEF CloseExpired, FlowOK, payVars
  <2> QED
    BY <1>2, <2>1, <2>2, UnchangedProvider DEF CloseExpired
<1>3. CASE OpenPage(o) \/ Pay(o)
  <2>1. /\ UNCHANGED <<rowVars, now, at, on, found, page, refunds>>
        /\ \A p \in Order : trade[p] = "paid" => trade'[p] = "paid"
    BY <1>3 DEF OpenPage, Pay, ProviderOK
  <2>2. ProviderOK'
    BY <1>3 DEF OpenPage, Pay, ProviderOK, FlowOK
  <2>3. RowInv' /\ Forward
    BY <2>1, RowsUnchanged DEF rowVars, RowsOK
  <2>4. FlowOK'
    BY <2>1, SameKeepsFlow DEF FlowOK
  <2> QED
    BY <2>2, <2>3, <2>4
<1>4. CASE FindPaid(o) \/ LoseFound(o)
  <2>1. /\ UNCHANGED <<rowVars, now, at, on, payVars>>
        /\ found' \subseteq Order /\ \A p \in found' : trade[p] = "paid"
    BY <1>4 DEF FindPaid, LoseFound, FlowOK
  <2>2. RowInv' /\ Forward
    BY <2>1, RowsUnchanged DEF rowVars, RowsOK, payVars
  <2>3. FlowOK'
    BY <2>1, SameKeepsFlow DEF FlowOK, payVars
  <2> QED
    BY <2>1, <2>2, <2>3, UnchangedProvider
<1>5. CASE FulfilFound(o)
  <2>1. RowInv' /\ Forward
    BY <1>5, FulfilKeepsRows DEF FulfilFound, FlowOK
  <2>2. FlowOK'
    BY <1>5, SameKeepsFlow DEF FulfilFound, FlowOK, payVars
  <2> QED
    BY <1>5, <2>1, <2>2, UnchangedProvider DEF FulfilFound
<1> QED
  BY <1>1, <1>2, <1>3, <1>4, <1>5 DEF OrderStep

\* Requests that arrive, die, and the day that passes.
LEMMA ArrivalKeepsInv ==
  ASSUME PaymentsInv, NEW q \in Request, NEW o \in Order, Arrives(q, o)
  PROVE  PaymentsInv' /\ Forward
<1> USE DEF PaymentsInv, RowInv
<1>1. /\ UNCHANGED <<url, due, ent, from, now, found, payVars>>
      /\ \E l \in {"begin", "cancelled", "closing", "refund"} : Starts(q, o, l)
         \/ (Starts(q, o, "fulfil") /\ trade[o] = "paid")
  BY DEF Arrives, PostOrder, PostAgain, Confirmed, Cancel, BeginRefund, rowVars
<1>2. FlowOK'
  <2>1. PICK l \in Label \ {"refunded"} :
          Starts(q, o, l) /\ (l = "fulfil" => trade[o] = "paid")
    BY <1>1
  <2> QED
    BY <1>1, <2>1, StartsKeepsFlow
<1>3. RowInv' /\ Forward
  <2>1. CASE status' = status
    BY <1>1, <2>1, RowsUnchanged DEF RowsOK, payVars
  <2>2. CASE PostOrder(q, o)
    BY <1>1, <2>2, RowKept DEF PostOrder, RowsOK, Started, payVars
  <2>3. CASE BeginRefund(q, o)
    BY <1>1, <2>3
    DEF BeginRefund, RowsOK, EntitledAsOrdered, RefundedAsBooked, Forward, Started, payVars
  <2> QED
    BY <2>1, <2>2, <2>3 DEF Arrives, PostAgain, Confirmed, Cancel, rowVars
<1> QED
  BY <1>1, <1>2, <1>3, UnchangedProvider

LEMMA NextKeepsInv ==
  ASSUME PaymentsInv, [Next]_vars
  PROVE  PaymentsInv' /\ Forward
<1> USE DEF PaymentsInv, RowInv
<1>1. CASE Tick
  <2>1. now' \in 0 .. Horizon
    BY <1>1, PaymentsAssumption DEF Tick, FlowOK, PaymentsAssumption
  <2>2. RowInv' /\ Forward
    BY <1>1, RowsUnchanged DEF Tick, rowVars, RowsOK, payVars
  <2>3. FlowOK'
    BY <1>1, <2>1, SameKeepsFlow DEF Tick, FlowOK, payVars
  <2> QED
    BY <1>1, <2>2, <2>3, UnchangedProvider DEF Tick
<1>2. CASE \E o \in Order : OrderStep(o) \/ \E q \in Request : Arrives(q, o)
  BY <1>2, OrderKeepsInv, ArrivalKeepsInv
<1>3. CASE \E q \in Request : RequestStep(q)
  BY <1>3, RequestKeepsInv
<1>4. ASSUME NEW q \in Request, Dies(q)
      PROVE  PaymentsInv' /\ Forward
  <2>1. RowInv' /\ Forward
    BY <1>4, RowsUnchanged DEF Dies, rowVars, RowsOK, payVars
  <2>2. FlowOK'
    BY <1>4, GoesKeepsFlow DEF Dies, payVars
  <2> QED
    BY <1>4, <2>1, <2>2, UnchangedProvider DEF Dies
<1>5. CASE UNCHANGED vars
  <2>1. RowInv' /\ Forward
    BY <1>5, RowsUnchanged DEF vars, rowVars, RowsOK, payVars
  <2>2. FlowOK'
    BY <1>5, SameKeepsFlow DEF vars, FlowOK, payVars
  <2> QED
    BY <1>5, <2>1, <2>2, UnchangedProvider DEF vars
<1> QED
  BY <1>1, <1>2, <1>3, <1>4, <1>5 DEF Next

----------------------------------------------------------------------------
(* What holds of every behaviour.                                          *)

\* What requests know when they act stays true until they act, whatever the others
\* do meanwhile.
THEOREM PaymentsInvariant == Spec => []PaymentsInv
<1>1. PaymentsInv /\ [Next]_vars => PaymentsInv'
  BY NextKeepsInv
<1> QED
  BY <1>1, InitPaymentsInv, PTL DEF Spec

\* Type correctness; the period of every entitlement starts at a moment there is.
THEOREM PaymentsTypeCorrect == Spec => []TypeOK
<1>1. PaymentsInv => TypeOK
  BY DEF PaymentsInv, RowsOK, ProviderOK, FlowOK, TypeOK, Started
<1> QED
  BY <1>1, PaymentsInvariant, PTL

\* Entitlements are in force for fulfilled orders only, which have been paid.
THEOREM PaymentsEntitledAsOrdered == Spec => []EntitledAsOrdered
<1>1. PaymentsInv => EntitledAsOrdered
  BY DEF PaymentsInv
<1> QED
  BY <1>1, PaymentsInvariant, PTL

\* A refunded order's money has been paid back, and its entitlement is gone.
THEOREM PaymentsRefundedAsBooked == Spec => []RefundedAsBooked
<1>1. PaymentsInv => RefundedAsBooked
  BY DEF PaymentsInv
<1> QED
  BY <1>1, PaymentsInvariant, PTL

\* No order is refunded twice at the provider, however many attempts overlap.
THEOREM PaymentsRefundedOnce == Spec => []RefundedOnce
<1>1. PaymentsInv => RefundedOnce
  <2> SUFFICES ASSUME PaymentsInv, NEW o \in Order PROVE Cardinality(refunds[o]) <= 1
    BY DEF RefundedOnce
  <2>1. IsFiniteSet({o}) /\ Cardinality({o}) = 1
    BY FS_Singleton
  <2>2. refunds[o] \subseteq {o}
    BY DEF PaymentsInv, ProviderOK
  <2> QED
    BY <2>1, <2>2, FS_Subset
<1> QED
  BY <1>1, PaymentsInvariant, PTL

----------------------------------------------------------------------------
(* What customer and shop see.                                             *)

\* Whoever is about to pay money back does so for an order that was granted.
RefundsGranted == \A q \in Request : at[q] = "refund" => ent[on[q]] # "none"

\* An order is fulfilled only if it was not before, and takes the place of lower
\* plans only; otherwise nothing changes.
LEMMA FulfilGrants ==
  ASSUME RowsOK, NEW o \in Order, trade[o] = "paid", Fulfil(o), UNCHANGED payVars
  PROVE  \/ UNCHANGED <<ent, status>>
         \/ /\ ent[o] = "none" /\ status[o] # "refunded"
            /\ status' = [status EXCEPT ![o] = "fulfilled"]
            /\ \E lower \in SUBSET Order :
                 /\ \A p \in lower : ent[p] = "active" /\ TierOf[p] < TierOf[o]
                 /\ ent' = [p \in Order |-> IF p = o THEN "active"
                                            ELSE IF p \in lower THEN "revoked" ELSE ent[p]]
<1>1. CASE UNCHANGED rowVars
  BY <1>1 DEF rowVars
<1>2. CASE /\ Fulfillable(o)
           /\ status' = [status EXCEPT ![o] = "fulfilled"]
           /\ ent' = [p \in Order |-> IF p = o THEN "active"
                                      ELSE IF p \in Superseded(o) THEN "revoked" ELSE ent[p]]
  <2>1. /\ Superseded(o) \in SUBSET Order
        /\ \A p \in Superseded(o) : ent[p] = "active" /\ TierOf[p] < TierOf[o]
    BY DEF Superseded, InForce
  <2>2. ent[o] = "none" /\ status[o] # "refunded"
    BY <1>2 DEF Fulfillable
  <2> QED
    BY <1>2, <2>1, <2>2
<1> QED
  BY <1>1, <1>2 DEF Fulfil, Fulfillable

LEMMA FulfilIsPurchase ==
  ASSUME PaymentsInv, NEW o \in Order, trade[o] = "paid", Fulfil(o), UNCHANGED payVars
  PROVE  [Buying!PurchaseNext]_(Buying!purchaseVars)
<1>1. CASE UNCHANGED <<ent, status>>
  BY <1>1 DEF Buying!purchaseVars, payVars
<1>2. CASE /\ ent[o] = "none" /\ status[o] # "refunded"
           /\ status' = [status EXCEPT ![o] = "fulfilled"]
           /\ \E lower \in SUBSET Order :
                /\ \A p \in lower : ent[p] = "active" /\ TierOf[p] < TierOf[o]
                /\ ent' = [p \in Order |-> IF p = o THEN "active"
                                           ELSE IF p \in lower THEN "revoked" ELSE ent[p]]
  <2>1. PICK lower \in SUBSET Order :
          /\ \A p \in lower : ent[p] = "active" /\ TierOf[p] < TierOf[o]
          /\ ent' = [p \in Order |-> IF p = o THEN "active"
                                     ELSE IF p \in lower THEN "revoked" ELSE ent[p]]
    BY <1>2
  <2>2. {p \in Order : status'[p] = "refunded"} = {p \in Order : status[p] = "refunded"}
    BY <1>2 DEF PaymentsInv, RowsOK
  <2>3. Buying!Grant(o, lower)
    BY <1>2, <2>1, <2>2 DEF Buying!Grant, payVars
  <2> QED
    BY <2>3 DEF Buying!PurchaseNext
<1> QED
  BY <1>1, <1>2, FulfilGrants DEF PaymentsInv

\* The money goes back at most once, and only for a plan that was granted.
LEMMA RefundIsPurchase ==
  ASSUME PaymentsInv, RefundsGranted, NEW q \in Request, RefundPayment(q)
  PROVE  [Buying!PurchaseNext]_(Buying!purchaseVars)
<1> DEFINE o == on[q]
           repaid == [p \in Order |-> Cardinality(refunds[p])]
<1>1. /\ o \in Order /\ ent[o] # "none"
      /\ refunds \in [Order -> SUBSET (Order \cup Request)] /\ refunds[o] \subseteq {o}
      /\ UNCHANGED <<trade, ent, status>>
      /\ refunds' = refunds \/ refunds' = [refunds EXCEPT ![o] = @ \cup {o}]
  BY DEF RefundPayment, RefundRequestNo, RefundsGranted, PaymentsInv, ProviderOK, FlowOK,
         rowVars
<1> HIDE DEF o
<1>2. CASE refunds' = refunds
  BY <1>1, <1>2 DEF Buying!purchaseVars
<1>3. CASE refunds' = [refunds EXCEPT ![o] = @ \cup {o}] /\ refunds[o] = {}
  <2>1. Cardinality({}) = 0 /\ Cardinality({o}) = 1
    BY FS_EmptySet, FS_Singleton
  <2>2. refunds' = [refunds EXCEPT ![o] = {o}]
    BY <1>1, <1>3
  <2>3. repaid[o] = 0
    BY <1>1, <1>3, <2>1
  <2>4. repaid' = [repaid EXCEPT ![o] = 1]
    BY <1>1, <2>1, <2>2
  <2>5. Buying!Repay(o)
    BY <1>1, <2>3, <2>4 DEF Buying!Repay
  <2> QED
    BY <1>1, <2>5 DEF Buying!PurchaseNext
<1>4. CASE refunds' = [refunds EXCEPT ![o] = @ \cup {o}] /\ refunds[o] # {}
  <2>1. refunds' = refunds
    BY <1>1, <1>4
  <2> QED
    BY <1>2, <2>1
<1> QED
  BY <1>1, <1>2, <1>3, <1>4

\* A refund is completed once, and only if the money was paid back.
LEMMA CompleteIsPurchase ==
  ASSUME PaymentsInv, NEW q \in Request, CompleteRefund(q)
  PROVE  [Buying!PurchaseNext]_(Buying!purchaseVars)
<1> PICK o \in Order : o = on[q]
  BY DEF CompleteRefund, PaymentsInv, FlowOK
<1>1. /\ refunds[o] # {} /\ refunds[o] \subseteq {o}
      /\ status \in [Order -> {"none", "created", "pending", "failed", "closed"} \cup Started]
      /\ UNCHANGED <<trade, refunds>>
  BY DEF CompleteRefund, PaymentsInv, RowsOK, ProviderOK, FlowOK, payVars
<1>2. \/ UNCHANGED <<status, ent>>
      \/ /\ status[o] = "refunding"
         /\ status' = [status EXCEPT ![o] = "refunded"]
         /\ ent' = [ent EXCEPT ![o] = "revoked"]
  BY DEF CompleteRefund
<1>3. CASE UNCHANGED <<status, ent>>
  BY <1>1, <1>3 DEF Buying!purchaseVars
<1>4. CASE /\ status[o] = "refunding"
           /\ status' = [status EXCEPT ![o] = "refunded"]
           /\ ent' = [ent EXCEPT ![o] = "revoked"]
  <2>1. Cardinality(refunds[o]) = 1
    <3>1. refunds[o] = {o}
      BY <1>1
    <3> QED
      BY <3>1, FS_Singleton
  <2>2. {p \in Order : status'[p] = "refunded"} = {p \in Order : status[p] = "refunded"} \cup {o}
    BY <1>1, <1>4
  <2>3. Buying!Settle(o)
    BY <1>1, <1>4, <2>1, <2>2 DEF Buying!Settle
  <2> QED
    BY <1>1, <2>3 DEF Buying!PurchaseNext
<1> QED
  BY <1>2, <1>3, <1>4

\* The customer's own steps: money comes in, and nothing else happens.
LEMMA CustomerIsPurchase ==
  ASSUME PaymentsInv, NEW o \in Order, OpenPage(o) \/ Pay(o)
  PROVE  [Buying!PurchaseNext]_(Buying!purchaseVars)
<1>1. UNCHANGED <<ent, status, refunds>>
  BY DEF OpenPage, Pay, rowVars
<1>2. CASE OpenPage(o)
  <2>1. {p \in Order : trade'[p] = "paid"} = {p \in Order : trade[p] = "paid"}
    BY <1>2 DEF OpenPage, PaymentsInv, ProviderOK
  <2> QED
    BY <1>1, <2>1 DEF Buying!purchaseVars
<1>3. CASE Pay(o)
  <2>1. {p \in Order : trade'[p] = "paid"} = {p \in Order : trade[p] = "paid"} \cup {o}
    BY <1>3 DEF Pay, PaymentsInv, ProviderOK
  <2>2. Buying!Pay(o)
    BY <1>1, <2>1 DEF Buying!Pay
  <2> QED
    BY <2>2 DEF Buying!PurchaseNext
<1> QED
  BY <1>2, <1>3

\* Every other step changes neither money nor plans.
LEMMA OthersArePurchaseStutters ==
  ASSUME PaymentsInv,
         \/ \E q \in Request : \/ Begin(q) \/ Checkout(q) \/ FailOrder(q) \/ ClosePayment(q)
                              \/ CancelRow(q) \/ ReleaseRefund(q) \/ Dies(q)
         \/ \E o \in Order : \/ TimeOut(o) \/ CloseExpired(o) \/ FindPaid(o) \/ LoseFound(o)
                            \/ \E q \in Request : Arrives(q, o)
         \/ Tick \/ UNCHANGED vars
  PROVE  UNCHANGED Buying!purchaseVars
<1>1. UNCHANGED <<ent, refunds>>
  BY DEF Begin, Checkout, FailOrder, ClosePayment, CancelRow, ReleaseRefund, Dies, TimeOut,
         CloseExpired, FindPaid, LoseFound, Arrives, PostOrder, PostAgain, Confirmed, Cancel,
         BeginRefund, Tick, vars, rowVars, payVars
<1>2. {p \in Order : trade'[p] = "paid"} = {p \in Order : trade[p] = "paid"}
  <2>1. ASSUME NEW q \in Request, ClosePayment(q)
        PROVE  {p \in Order : trade'[p] = "paid"} = {p \in Order : trade[p] = "paid"}
    BY <2>1 DEF ClosePayment, PaymentsInv, ProviderOK, FlowOK
  <2>2. ASSUME UNCHANGED trade
        PROVE  {p \in Order : trade'[p] = "paid"} = {p \in Order : trade[p] = "paid"}
    BY <2>2
  <2> QED
    BY <2>1, <2>2
    DEF Begin, Checkout, FailOrder, CancelRow, ReleaseRefund, Dies, TimeOut, CloseExpired,
        FindPaid, LoseFound, Arrives, PostOrder, PostAgain, Confirmed, Cancel, BeginRefund,
        Tick, vars, payVars
<1>3. \A p \in Order : status'[p] = "refunded" <=> status[p] = "refunded"
  <2>1. ASSUME NEW o \in Order, NEW s \in {"created", "pending", "failed", "closed", "fulfilled", "refunding"},
               status[o] # "refunded", status' = [status EXCEPT ![o] = s]
        PROVE  \A p \in Order : status'[p] = "refunded" <=> status[p] = "refunded"
    BY <2>1 DEF PaymentsInv, RowsOK
  <2>2. ASSUME NEW q \in Request, Begin(q) \/ FailOrder(q) \/ CancelRow(q) \/ ReleaseRefund(q)
        PROVE  \/ UNCHANGED status
               \/ /\ status[on[q]] # "refunded"
                  /\ \E s \in {"pending", "failed", "closed", "fulfilled"} :
                       status' = [status EXCEPT ![on[q]] = s]
    BY <2>2 DEF Begin, FailOrder, CancelRow, ReleaseRefund, PaymentsInv, RowsOK, FlowOK
  <2>3. ASSUME NEW q \in Request, Begin(q) \/ FailOrder(q) \/ CancelRow(q) \/ ReleaseRefund(q)
        PROVE  \A p \in Order : status'[p] = "refunded" <=> status[p] = "refunded"
    <3>1. on[q] \in Order
      BY <2>3 DEF Begin, FailOrder, CancelRow, ReleaseRefund, PaymentsInv, FlowOK
    <3> QED
      BY <2>1, <2>2, <2>3, <3>1
  <2>4. ASSUME NEW o \in Order, NEW q \in Request,
               CloseExpired(o) \/ PostOrder(q, o) \/ BeginRefund(q, o)
        PROVE  \A p \in Order : status'[p] = "refunded" <=> status[p] = "refunded"
    BY <2>1, <2>4 DEF CloseExpired, PostOrder, BeginRefund
  <2>5. ASSUME NEW o \in Order, CloseExpired(o)
        PROVE  \A p \in Order : status'[p] = "refunded" <=> status[p] = "refunded"
    BY <2>1, <2>5 DEF CloseExpired
  <2>6. ASSUME UNCHANGED status
        PROVE  \A p \in Order : status'[p] = "refunded" <=> status[p] = "refunded"
    BY <2>6
  <2> QED
    BY <2>3, <2>4, <2>5, <2>6
    DEF Checkout, ClosePayment, Dies, TimeOut, FindPaid, LoseFound, Arrives, PostAgain,
        Confirmed, Cancel, Tick, vars, rowVars
<1> QED
  BY <1>1, <1>2, <1>3 DEF Buying!purchaseVars

\* No plan is granted and then not any more, so who is paid back was granted one.
LEMMA NextRefundsGranted ==
  ASSUME PaymentsInv, RefundsGranted, [Next]_vars
  PROVE  RefundsGranted'
<1>1. \A o \in Order : ent[o] # "none" => ent'[o] # "none"
  <2>1. ASSUME NEW o \in Order, trade[o] = "paid", Fulfil(o), UNCHANGED payVars
        PROVE  \A p \in Order : ent[p] # "none" => ent'[p] # "none"
    BY <2>1, FulfilGrants DEF PaymentsInv, RowsOK
  <2>2. ASSUME NEW q \in Request, FulfilRequest(q)
        PROVE  \A p \in Order : ent[p] # "none" => ent'[p] # "none"
    BY <2>1, <2>2 DEF FulfilRequest, PaymentsInv, FlowOK
  <2>3. ASSUME NEW o \in Order, FulfilFound(o)
        PROVE  \A p \in Order : ent[p] # "none" => ent'[p] # "none"
    BY <2>1, <2>3 DEF FulfilFound, PaymentsInv, FlowOK
  <2>4. ASSUME NEW q \in Request, CompleteRefund(q)
        PROVE  \A p \in Order : ent[p] # "none" => ent'[p] # "none"
    BY <2>4 DEF CompleteRefund, PaymentsInv, RowsOK
  <2>5. ASSUME UNCHANGED ent
        PROVE  \A p \in Order : ent[p] # "none" => ent'[p] # "none"
    BY <2>5
  <2> QED
    BY <2>2, <2>3, <2>4, <2>5
    DEF Next, OrderStep, RequestStep, Arrives, Begin, Checkout, FailOrder, ClosePayment,
        CancelRow, RefundPayment, ReleaseRefund, Dies, TimeOut, CloseExpired, OpenPage, Pay,
        FindPaid, LoseFound, PostOrder, PostAgain, Confirmed, Cancel, BeginRefund, Tick, vars,
        rowVars
<1>2. ASSUME NEW q \in Request
      PROVE  at'[q] = "refund" => \/ at[q] = "refund" /\ on'[q] = on[q]
                                  \/ on'[q] \in Order /\ ent[on'[q]] # "none"
  <2>1. ASSUME NEW p \in Request, NEW o \in Order, BeginRefund(p, o)
        PROVE  at'[q] = "refund" => \/ at[q] = "refund" /\ on'[q] = on[q]
                                    \/ on'[q] \in Order /\ ent[on'[q]] # "none"
    BY <2>1 DEF BeginRefund, Starts, PaymentsInv, FlowOK, EntitledAsOrdered
  <2>2. ASSUME NEW p \in Request, NEW o \in Order,
               NEW l \in {"begin", "cancelled", "closing", "fulfil"}, Starts(p, o, l)
        PROVE  at'[q] = "refund" => at[q] = "refund" /\ on'[q] = on[q]
    BY <2>2 DEF Starts, PaymentsInv, FlowOK
  <2>3. ASSUME NEW p \in Request, NEW l \in Label \ {"refund"}, Goes(p, l)
        PROVE  at'[q] = "refund" => at[q] = "refund" /\ on'[q] = on[q]
    BY <2>3 DEF Goes, PaymentsInv, FlowOK
  <2>4. ASSUME UNCHANGED <<at, on>>
        PROVE  at'[q] = "refund" => at[q] = "refund" /\ on'[q] = on[q]
    BY <2>4
  <2>5. ASSUME NEW p \in Request, NEW o \in Order, Arrives(p, o)
        PROVE  \/ \E l \in {"begin", "cancelled", "closing", "fulfil"} : Starts(p, o, l)
               \/ BeginRefund(p, o)
    BY <2>5 DEF Arrives, PostOrder, PostAgain, Confirmed, Cancel
  <2>6. ASSUME NEW p \in Request, RequestStep(p) \/ Dies(p)
        PROVE  \E l \in Label \ {"refund"} : Goes(p, l)
    BY <2>6 DEF RequestStep, Begin, Checkout, FailOrder, FulfilRequest, ClosePayment, CancelRow,
                RefundPayment, CompleteRefund, ReleaseRefund, Dies
  <2>7. ASSUME NEW o \in Order, OrderStep(o) PROVE UNCHANGED <<at, on>>
    BY <2>7 DEF OrderStep, TimeOut, CloseExpired, OpenPage, Pay, FindPaid, FulfilFound, LoseFound
  <2>8. (Tick \/ UNCHANGED vars) => UNCHANGED <<at, on>>
    BY DEF Tick, vars
  <2> QED
    BY <2>1, <2>2, <2>3, <2>4, <2>5, <2>6, <2>7, <2>8 DEF Next
<1>3. ASSUME NEW q \in Request, at[q] = "refund" PROVE on[q] \in Order
  BY <1>3 DEF PaymentsInv, FlowOK
<1> QED
  BY <1>1, <1>2, <1>3 DEF RefundsGranted

LEMMA StepIsPurchase ==
  ASSUME PaymentsInv, RefundsGranted, [Next]_vars
  PROVE  [Buying!PurchaseNext]_(Buying!purchaseVars)
<1>1. ASSUME NEW q \in Request, FulfilRequest(q)
      PROVE  [Buying!PurchaseNext]_(Buying!purchaseVars)
  BY <1>1, FulfilIsPurchase DEF FulfilRequest, PaymentsInv, FlowOK
<1>2. ASSUME NEW o \in Order, FulfilFound(o)
      PROVE  [Buying!PurchaseNext]_(Buying!purchaseVars)
  BY <1>2, FulfilIsPurchase DEF FulfilFound, PaymentsInv, FlowOK
<1> QED
  BY <1>1, <1>2, RefundIsPurchase, CompleteIsPurchase, CustomerIsPurchase,
     OthersArePurchaseStutters DEF Next, RequestStep, OrderStep

\* Payments implements Purchase: whatever overlaps, fails, is lost or comes twice,
\* a plan is granted once and for money, and money goes back once and for a plan.
THEOREM PaymentsImplementPurchase == Spec => ImplementsPurchase
<1>1. Init => Buying!PurchaseInit
  <2>1. Cardinality({}) = 0
    BY FS_EmptySet
  <2> QED
    BY <2>1 DEF Init, Buying!PurchaseInit
<1>2. Init => RefundsGranted
  BY DEF Init, RefundsGranted
<1>3. PaymentsInv /\ RefundsGranted /\ [Next]_vars
      => RefundsGranted' /\ [Buying!PurchaseNext]_(Buying!purchaseVars)
  BY NextRefundsGranted, StepIsPurchase
<1> QED
  BY <1>1, <1>2, <1>3, PaymentsInvariant, PTL
  DEF Spec, ImplementsPurchase, Buying!PurchaseSpec

----------------------------------------------------------------------------
(* What the recovery loop can still reach.                                 *)

\* A plan is there only in an order that was started, and money goes back only for a
\* plan. Nobody pays for an order that does not exist.
ReachOK ==
  \A o \in Order :
    /\ ent[o] # "none" => status[o] \in Started
    /\ refunds[o] # {} => ent[o] # "none"
    /\ trade[o] # "none" => page[o]
    /\ page[o] => status[o] # "none"

\* Rows that no step grants or pays back, in a step that keeps them started.
LEMMA RowsReach ==
  ASSUME ReachOK,
         \A o \in Order :
           /\ status[o] \in Started => status'[o] \in Started
           /\ status'[o] = "none" => status[o] = "none"
           /\ ent'[o] # "none" => ent[o] # "none" \/ status'[o] \in Started
           /\ ent[o] # "none" => ent'[o] # "none"
           /\ refunds'[o] # {} => refunds[o] # {} \/ ent[o] # "none"
           /\ trade'[o] # "none" => trade[o] # "none" \/ page[o]
           /\ page[o] => page'[o]
           /\ page'[o] => page[o] \/ status[o] # "none"
  PROVE  ReachOK'
BY DEF ReachOK

LEMMA FulfilReaches ==
  ASSUME PaymentsInv, ReachOK, NEW o \in Order, trade[o] = "paid", Fulfil(o), UNCHANGED payVars
  PROVE  ReachOK'
<1> USE DEF PaymentsInv, payVars
<1>1. CASE UNCHANGED <<ent, status>>
  BY <1>1, RowsReach
<1>2. CASE /\ status' = [status EXCEPT ![o] = "fulfilled"]
           /\ \E lower \in SUBSET Order :
                /\ \A p \in lower : ent[p] = "active"
                /\ ent' = [p \in Order |-> IF p = o THEN "active"
                                           ELSE IF p \in lower THEN "revoked" ELSE ent[p]]
  <2>1. \A p \in Order : /\ status[p] \in Started => status'[p] \in Started
                         /\ status'[p] = "none" => status[p] = "none"
                         /\ p = o => status'[p] \in Started
    BY <1>2 DEF RowsOK, Started
  <2>2. \A p \in Order : /\ ent'[p] # "none" => ent[p] # "none" \/ p = o
                         /\ ent[p] # "none" => ent'[p] # "none"
    BY <1>2 DEF RowsOK
  <2> QED
    BY <2>1, <2>2, RowsReach
<1> QED
  BY <1>1, <1>2, FulfilGrants

LEMMA RequestReaches ==
  ASSUME PaymentsInv, RefundsGranted, ReachOK, NEW q \in Request, RequestStep(q) \/ Dies(q)
  PROVE  ReachOK'
<1> USE DEF PaymentsInv, payVars, rowVars
<1>0. on[q] \in Order
  BY DEF FlowOK, RequestStep, Dies, Begin, Checkout, FailOrder, FulfilRequest, ClosePayment,
         CancelRow, RefundPayment, CompleteRefund, ReleaseRefund
<1>1. CASE FulfilRequest(q)
  BY <1>0, <1>1, FulfilReaches DEF FulfilRequest, FlowOK
<1>2. CASE Begin(q) \/ FailOrder(q) \/ CancelRow(q) \/ ReleaseRefund(q)
  <2>1. /\ UNCHANGED <<ent, refunds, trade, page>>
        /\ \/ UNCHANGED status
           \/ /\ status[on[q]] \in {"created", "failed", "pending"}
              /\ \E s \in {"pending", "failed", "closed"} : status' = [status EXCEPT ![on[q]] = s]
           \/ status[on[q]] = "refunding" /\ status' = [status EXCEPT ![on[q]] = "fulfilled"]
    BY <1>0, <1>2 DEF Begin, FailOrder, CancelRow, ReleaseRefund, RowsOK
  <2>2. \A o \in Order : /\ status[o] \in Started => status'[o] \in Started
                         /\ status'[o] = "none" => status[o] = "none"
    BY <1>0, <2>1 DEF RowsOK, Started
  <2> QED
    BY <2>1, <2>2, RowsReach
<1>3. CASE Checkout(q)
  <2>1. /\ UNCHANGED <<status, ent, refunds, trade>>
        /\ \A o \in Order : /\ page[o] => page'[o]
                            /\ page'[o] => page[o] \/ status[o] # "none"
    BY <1>0, <1>3 DEF Checkout, SetIntent, ProviderOK
  <2> QED
    BY <2>1, RowsReach
<1>4. CASE ClosePayment(q)
  <2>1. /\ UNCHANGED <<status, ent, refunds, page>>
        /\ \A o \in Order : trade'[o] # "none" => trade[o] # "none"
    BY <1>0, <1>4 DEF ClosePayment, ProviderOK
  <2> QED
    BY <2>1, RowsReach
<1>5. CASE RefundPayment(q)
  <2>1. /\ UNCHANGED <<status, ent, trade, page>> /\ ent[on[q]] # "none"
        /\ \A o \in Order : refunds'[o] # {} => refunds[o] # {} \/ o = on[q]
    BY <1>0, <1>5 DEF RefundPayment, ProviderOK, RefundsGranted
  <2> QED
    BY <2>1, RowsReach
<1>6. CASE CompleteRefund(q)
  <2>1. /\ UNCHANGED <<refunds, trade, page>>
        /\ \/ UNCHANGED <<status, ent>>
           \/ /\ status[on[q]] = "refunding"
              /\ status' = [status EXCEPT ![on[q]] = "refunded"]
              /\ ent' = [ent EXCEPT ![on[q]] = "revoked"]
    BY <1>6 DEF CompleteRefund
  <2>2. \A o \in Order : /\ status[o] \in Started => status'[o] \in Started
                         /\ status'[o] = "none" => status[o] = "none"
                         /\ ent'[o] # "none" => ent[o] # "none" \/ status'[o] \in Started
                         /\ ent[o] # "none" => ent'[o] # "none"
    BY <1>0, <2>1 DEF RowsOK, Started
  <2> QED
    BY <2>1, <2>2, RowsReach
<1>7. CASE Dies(q)
  BY <1>7, RowsReach DEF Dies
<1> QED
  BY <1>1, <1>2, <1>3, <1>4, <1>5, <1>6, <1>7 DEF RequestStep

LEMMA OrderReaches ==
  ASSUME PaymentsInv, ReachOK, NEW o \in Order,
         OrderStep(o) \/ \E q \in Request : Arrives(q, o)
  PROVE  ReachOK'
<1> USE DEF PaymentsInv, payVars, rowVars
<1>1. CASE FulfilFound(o)
  BY <1>1, FulfilReaches DEF FulfilFound, FlowOK
<1>2. CASE OpenPage(o) \/ Pay(o)
  <2>1. /\ UNCHANGED <<status, ent, refunds, page>>
        /\ \A p \in Order : trade'[p] # "none" => trade[p] # "none" \/ page[p]
    BY <1>2 DEF OpenPage, Pay, ProviderOK
  <2> QED
    BY <2>1, RowsReach
<1>3. CASE CloseExpired(o) \/ \E q \in Request : PostOrder(q, o) \/ BeginRefund(q, o)
  <2>1. /\ UNCHANGED <<ent, refunds, trade, page>>
        /\ \/ /\ status[o] \notin Started
              /\ \E s \in {"created", "closed"} : status' = [status EXCEPT ![o] = s]
           \/ status' = [status EXCEPT ![o] = "refunding"]
    BY <1>3 DEF CloseExpired, PostOrder, BeginRefund, Started
  <2>2. \A p \in Order : /\ status[p] \in Started => status'[p] \in Started
                         /\ status'[p] = "none" => status[p] = "none"
    BY <2>1 DEF RowsOK, Started
  <2> QED
    BY <2>1, <2>2, RowsReach
<1>4. CASE UNCHANGED <<status, ent, payVars>>
  BY <1>4, RowsReach
<1> QED
  BY <1>1, <1>2, <1>3, <1>4
  DEF OrderStep, Arrives, TimeOut, FindPaid, LoseFound, PostAgain, Confirmed, Cancel

\* A payment is never out of the reach of the recovery loop, for whatever orders
\* and requests: what fairness adds is only that the loop gets round to it.
THEOREM PaymentsPaidStaysInReach == Spec => []PaidStaysInReach
<1>1. Init => ReachOK /\ RefundsGranted
  BY DEF Init, ReachOK, RefundsGranted
<1>2. PaymentsInv /\ RefundsGranted /\ ReachOK /\ [Next]_vars => ReachOK' /\ RefundsGranted'
  <2> SUFFICES ASSUME PaymentsInv, RefundsGranted, ReachOK, [Next]_vars PROVE ReachOK'
    BY NextRefundsGranted
  <2>1. CASE Tick \/ UNCHANGED vars
    <3>1. UNCHANGED <<status, ent, payVars>>
      BY <2>1 DEF Tick, vars, rowVars
    <3> QED
      BY <3>1, RowsReach DEF payVars
  <2> QED
    BY <2>1, RequestReaches, OrderReaches DEF Next
<1>3. PaymentsInv /\ ReachOK => PaidStaysInReach
  BY DEF PaymentsInv, RowsOK, ReachOK, PaidStaysInReach, Fulfillable, Started
<1> QED
  BY <1>1, <1>2, <1>3, PaymentsInvariant, PTL DEF Spec

\* Orders only go forward: refunded for good, fulfilled until refunded.
THEOREM PaymentsNoWayBack == Spec => NoWayBack
<1>1. PaymentsInv /\ [Next]_vars => [Forward]_vars
  BY NextKeepsInv
<1> QED
  BY <1>1, PaymentsInvariant, PTL DEF Spec, NoWayBack, Forward
=============================================================================
