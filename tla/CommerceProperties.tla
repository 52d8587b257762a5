------------------------- MODULE CommerceProperties -------------------------
(* What Commerce must guarantee, and the ideal purchase ledger it          *)
(* implements.                                                             *)
EXTENDS Commerce

\* Every table and every request in flight holds values of its columns' types.
TypeOK ==
    /\ status \in [OrderIds -> Status \cup {"NONE"}]
    /\ snapshot \in [OrderIds -> Snapshot]
    /\ linked \subseteq OrderIds
    /\ redeemed \subseteq OrderIds
    /\ payment \in [OrderIds -> [Attempts -> {"none", "CAPTURED", "FAILED"}]]
    /\ entitlement \in [Users -> [Courses -> Entitlement]]
    /\ published \in [OrderIds -> [OrderEvents -> Nat]]
    /\ cart \in [Users -> SUBSET Courses]
    /\ claim \in [Events -> {"absent", "held", "failed", "processed"}]
    /\ job \in [Procs -> Job]
    /\ provider \in [OrderIds -> [Attempts -> {"none", "failed", "captured"}]]
    /\ returned \subseteq OrderIds
    /\ payable \subseteq OrderIds
    /\ acked \subseteq Events
    /\ errors \in 0..MaxErrors
    /\ crashes \in 0..MaxCrashes

-----------------------------------------------------------------------------
(* Access and money.                                                       *)

\* An ACTIVE entitlement row names an order of that learner, for that course,
\* that is PAID now: however two orders for one course interleave, a refund
\* leaves no access behind that nobody paid for (grant, revokeByOrder).
AccessIsPaidFor ==
    \A u \in Users, c \in Courses :
        LET row == entitlement[u][c]
        IN  row.status = "ACTIVE" =>
                /\ row.order \in OrderIds
                /\ status[row.order] = "PAID"
                /\ snapshot[row.order].user = u
                /\ c \in snapshot[row.order].items

\* A PAID order's courses can be watched, unless the row was taken over by a
\* later order for the same course and that order was refunded.
PaidIsServed ==
    \A o \in OrderIds : status[o] = "PAID" =>
        \A c \in snapshot[o].items :
            LET row == entitlement[snapshot[o].user][c]
            IN  \/ row.status = "ACTIVE"
                \/ /\ row.status = "REVOKED"
                   /\ row.order \in OrderIds \ {o}
                   /\ status[row.order] = "REFUNDED"

\* An order that is not free is PAID only if the provider captured money for
\* it: no interleaving of checkout, webhooks and sweeps gives a course away.
PaidMeansCaptured ==
    \A o \in OrderIds :
        status[o] \in {"PAID", "REFUNDED"} => snapshot[o].free \/ Captured(o)

\* The money goes back before access is revoked, by both refund paths.
RefundedMeansReturned ==
    \A o \in OrderIds :
        status[o] = "REFUNDED" => snapshot[o].free \/ o \in returned

-----------------------------------------------------------------------------
(* Coupons and events.                                                     *)

\* An order holds its coupon redemption exactly while it is alive, paid or
\* refunded; every un-paid ending gives it back (OrderService.apply).
CouponHeldByLiveOrders ==
    redeemed = {o \in OrderIds : /\ snapshot[o].coupon
                                 /\ status[o] \notin Dead \cup {"NONE"}}

\* Checkouts past their count and not yet committed.
Redeeming == {p \in Requests : job[p].pc = "place" /\ job[p].coupon}

\* The count and the insert are not atomic, yet the coupon can be over-redeemed
\* by no more than the number of checkouts that run at once, less one.
OverRedemptionBounded ==
    Cardinality(redeemed) + Cardinality(Redeeming)
        <= MaxRedemptions + Cardinality(Requests) - 1

\* A paid order raised commerce.order.paid exactly once and no other order ever
\* did, and likewise for refunded and expired: one receipt per payment, however
\* often and under however many event ids the provider reports it.
EventsOnce ==
    \A o \in OrderIds :
        /\ published[o]["paid"]     = IF status[o] \in {"PAID", "REFUNDED"} THEN 1 ELSE 0
        /\ published[o]["refunded"] = IF status[o] = "REFUNDED" THEN 1 ELSE 0
        /\ published[o]["expired"]  = IF status[o] = "EXPIRED" THEN 1 ELSE 0

-----------------------------------------------------------------------------
(* The lifecycle.                                                          *)

\* An order row moves along the edges of the machine only, and never out of a
\* terminal status, although every writer decides on a status it read earlier.
ForwardOnly ==
    [][\A o \in OrderIds : status'[o] # status[o] =>
          \/ status[o] = "NONE" /\ status'[o] = "CREATED"
          \/ /\ ~Terminal(status[o])
             /\ \E t \in Machine : t.from = status[o] /\ t.to = status'[o]]_status

\* A paid order stays paid or is refunded, and what it was sold as is never
\* rewritten: the invoice reprints from the snapshot.
PaidIsFinal ==
    [][\A o \in OrderIds : status[o] = "PAID" =>
          /\ status'[o] \in {"PAID", "REFUNDED"}
          /\ snapshot'[o] = snapshot[o]]_<<status, snapshot>>

-----------------------------------------------------------------------------
(* Webhooks.                                                               *)

\* No two deliveries of one event are in progress at once, re-claims of failed
\* ones included, and whoever works on an event holds its claim.
OneHolder ==
    /\ \A p, q \in Hooks :
          job[p].event # None /\ job[p].event = job[q].event => p = q
    /\ \A p \in Hooks : job[p].event # None => claim[job[p].event] = "held"

\* ADR-0021: providerOrderId is stored before the learner can pay, so an event
\* about one of our orders always finds it.
WebhookFindsOrder ==
    \A e \in Events : Emitted(e) /\ e.order \notin Foreign => e.order \in linked

\* A capture the table calls processed found its order open and settled it, or
\* found it already over: the order is not left waiting for money it has.
ProcessedCaptureSettles ==
    \A e \in Events :
        claim[e] = "processed" /\ e.fact = "captured" /\ e.order \notin Foreign =>
            status[e.order] \notin {"CREATED", "AWAITING_PAYMENT"}

Waiting(o) == status[o] \in {"NONE", "CREATED", "AWAITING_PAYMENT"}

\* If no delivery overlaps another and no process dies, retries get every
\* captured payment through: its order does not wait for ever.
CapturedSettles ==
    \A o \in OrderIds \ Foreign : Captured(o) ~> ~Waiting(o)

-----------------------------------------------------------------------------
(* The ideal ledger: access is bought and given back in single steps.      *)

phase == [o \in OrderIds |->
            CASE status[o] = "NONE" -> "absent"
              [] status[o] \in {"CREATED", "AWAITING_PAYMENT"} -> "open"
              [] status[o] = "PAID" -> "paid"
              [] status[o] = "REFUNDED" -> "refunded"
              [] OTHER -> "closed"]

offer == [o \in OrderIds |-> [user |-> snapshot[o].user, items |-> snapshot[o].items]]

holder == [u \in Users |-> [c \in Courses |->
            IF entitlement[u][c].status = "ACTIVE" THEN entitlement[u][c].order
            ELSE None]]

Ledger == INSTANCE PurchaseLedger
            WITH phase <- phase, offer <- offer, holder <- holder

\* Webhooks, retries, sweeps and checkouts together behave as the ledger does.
ImplementsLedger == Ledger!Spec
=============================================================================
