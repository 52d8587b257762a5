------------------------------ MODULE Commerce ------------------------------
(***************************************************************************)
(* How a cart becomes money and access (apps/api/src/modules/commerce).    *)
(*                                                                         *)
(* The tables are the variables: Order (status, snapshot, linked),         *)
(* CouponRedemption (redeemed), Payment (payment), Entitlement,            *)
(* OutboxMessage (published), ProviderWebhookEvent (claim), Cart (cart).   *)
(* `job' holds the requests and webhook deliveries that are in flight: a   *)
(* statement, or a transaction whose statements are all guarded by its     *)
(* first, is one step; everything between two awaits interleaves.  The     *)
(* payment provider is external: what it captured and returned, which      *)
(* learners stand on a payment page, which events it saw acknowledged.     *)
(*                                                                         *)
(* A definition named Bug... is a plausible mistake in the one below it;   *)
(* no action uses it.  The mutants of PROJECT.json put it in its place.    *)
(***************************************************************************)
EXTENDS OrderMachine, Naturals, FiniteSets

CONSTANTS
    Users, Courses,
    OrderIds,        \* ids the database may hand out
    Foreign,         \* provider orders of another environment, never placed here
    Attempts,        \* 1..n payments a learner may try per order
    Copies,          \* event ids under which the provider may report one fact
    Hooks,           \* concurrent webhook deliveries
    Requests,        \* concurrent HTTP requests and sweeps
    MaxRedemptions, PerUserLimit,   \* the limits of the one coupon
    ZeroTotals,      \* what totalMinor = 0 may be at checkout
    MaxErrors,       \* deliveries that throw
    MaxCrashes,      \* processes that die mid-request
    None

Procs == Hooks \cup Requests

\* What the adapter makes of the provider's own event names. The rest it
\* ignores; they touch nothing but their own ProviderWebhookEvent row.
Facts == {"captured", "failed", "refunded"}
Events == [fact : Facts, order : OrderIds, attempt : Attempts, copy : Copies]

ASSUME CommerceAssumption ==
    /\ Foreign \subseteq OrderIds
    /\ Attempts \subseteq Nat
    /\ Hooks \cap Requests = {} /\ Requests # {}
    /\ IsFiniteSet(OrderIds) /\ IsFiniteSet(Procs)
    /\ MaxRedemptions \in Nat /\ PerUserLimit \in Nat
    /\ ZeroTotals \subseteq BOOLEAN
    /\ MaxErrors \in Nat /\ MaxCrashes \in Nat
    /\ Users # {}
    /\ None \notin OrderIds \cup Users \cup Events

VARIABLES
    status,       \* Order.status, "NONE" where there is no row
    snapshot,     \* Order columns and items fixed at creation
    linked,       \* orders whose providerOrderId is set
    redeemed,     \* orders with a CouponRedemption row
    payment,      \* Payment rows by order and attempt
    entitlement,  \* Entitlement rows, unique by user and course
    published,    \* how often each order event was written to the outbox
    cart,         \* CartItem rows
    claim,        \* ProviderWebhookEvent rows
    job,          \* requests and deliveries in flight
    provider,     \* external: outcome of each payment
    returned,     \* external: orders whose money the provider gave back
    payable,      \* external: orders whose learner got a payment page
    acked,        \* external: events the provider saw answered 200
    errors, crashes

orderTables == <<status, snapshot, linked, redeemed, entitlement, published>>
world == <<provider, returned, payable>>
faults == <<errors, crashes>>
vars == <<status, snapshot, linked, redeemed, payment, entitlement, published,
          cart, claim, job, provider, returned, payable, acked, errors, crashes>>

Snapshot == [user : Users, items : SUBSET Courses, coupon : BOOLEAN,
             free : BOOLEAN]
Blank == [user |-> CHOOSE u \in Users : TRUE, items |-> {},
          coupon |-> FALSE, free |-> FALSE]

Entitlement == [status : {"none", "ACTIVE", "REVOKED"},
                order : OrderIds \cup {None}]

PCs == {"idle", "owned", "quote", "place", "createOrder", "link", "repay",
        "dispatch", "read", "commit", "mark"}

Job == [pc : PCs, op : Names \cup {"none"}, order : OrderIds \cup {None},
        seen : Status \cup {"none"}, event : Events \cup {None},
        user : Users \cup {None}, items : SUBSET Courses, coupon : BOOLEAN]

Idle == [pc |-> "idle", op |-> "none", order |-> None, seen |-> "none",
         event |-> None, user |-> None, items |-> {}, coupon |-> FALSE]

Init ==
    /\ status = [o \in OrderIds |-> "NONE"]
    /\ snapshot = [o \in OrderIds |-> Blank]
    /\ linked = {}
    /\ redeemed = {}
    /\ payment = [o \in OrderIds |-> [n \in Attempts |-> "none"]]
    /\ entitlement = [u \in Users |-> [c \in Courses |->
                         [status |-> "none", order |-> None]]]
    /\ published = [o \in OrderIds |-> [e \in OrderEvents |-> 0]]
    /\ cart = [u \in Users |-> {}]
    /\ claim = [e \in Events |-> "absent"]
    /\ job = [p \in Procs |-> Idle]
    /\ provider = [o \in OrderIds |-> [n \in Attempts |-> "none"]]
    /\ returned = {}
    /\ payable = {}
    /\ acked = {}
    /\ errors = 0
    /\ crashes = 0

-----------------------------------------------------------------------------
(* Reads shared by the handlers.                                           *)

\* ownedCourseIds: only PAID orders count.
Owned(u) == UNION {snapshot[o].items : o \in {x \in OrderIds :
                      status[x] = "PAID" /\ snapshot[x].user = u}}

Captured(o) == \E n \in Attempts : provider[o][n] = "captured"

\* A webhook may take only the edges marked fromWebhook.
Source(j) == IF j.event = None THEN "service" ELSE "webhook"

\* The two limit rules; the coupon's other gates are
\* abstracted to coupons that pass them.
BugCountTooFar(u) ==
    /\ Cardinality(redeemed) <= MaxRedemptions
    /\ Cardinality({o \in redeemed : snapshot[o].user = u}) < PerUserLimit
countRedemptions(u) == [global |-> Cardinality(redeemed),
                        forUser |-> Cardinality({o \in redeemed : snapshot[o].user = u})]
WithinLimits(u) ==
    /\ countRedemptions(u).global < MaxRedemptions
    /\ countRedemptions(u).forUser < PerUserLimit

\* After a service call: a webhook still has its event to mark, anything else
\* has answered.
After(j) == IF j.event = None THEN Idle ELSE [j EXCEPT !.pc = "mark"]

Start(p, fields) ==
    /\ job[p].pc = "idle"
    /\ job' = [job EXCEPT ![p] = fields]

-----------------------------------------------------------------------------
(* Cart.                                                                   *)

\* The cart repository: a course is in it once, however often it is added.
addItem(u, c) == [cart EXCEPT ![u] = @ \cup {c}]
removeItem(u, c) == [cart EXCEPT ![u] = @ \ {c}]
clear(u) == [cart EXCEPT ![u] = {}]

\* The ownership check and the upsert are two awaits, one step here: an order of
\* another tab that is paid in between leaves a course in the cart that checkout
\* refuses, as it refuses one bought after it was added.
AddToCart(u, c) ==
    /\ c \notin Owned(u)
    /\ cart' = addItem(u, c)
    /\ UNCHANGED <<orderTables, payment, claim, job, world, acked, faults>>

RemoveFromCart(u, c) ==
    /\ c \in cart[u]
    /\ cart' = removeItem(u, c)
    /\ UNCHANGED <<orderTables, payment, claim, job, world, acked, faults>>

-----------------------------------------------------------------------------
(* CheckoutService.checkout.                                               *)

\* The cart, then the owned courses are read, before the transaction opens.
BeginCheckout(p, u) ==
    /\ cart[u] # {}
    /\ \E withCoupon \in BOOLEAN :
          Start(p, [Idle EXCEPT !.pc = "owned", !.user = u,
                                !.items = cart[u], !.coupon = withCoupon])
    /\ UNCHANGED <<orderTables, payment, cart, claim, world, acked, faults>>

RefuseOwned(p) ==
    /\ job[p].pc = "owned"
    /\ \/ /\ job[p].items \cap Owned(job[p].user) = {}
          /\ job' = [job EXCEPT ![p].pc = "quote"]
       \/ /\ job[p].items \cap Owned(job[p].user) # {}
          /\ job' = [job EXCEPT ![p] = Idle]
    /\ UNCHANGED <<orderTables, payment, cart, claim, world, acked, faults>>

\* Inside the transaction, but under READ COMMITTED: the count sees only what
\* has committed, and locks nothing.
Quote(p) ==
    /\ job[p].pc = "quote"
    /\ \/ /\ job[p].coupon => WithinLimits(job[p].user)
          /\ job' = [job EXCEPT ![p].pc = "place"]
       \/ /\ job[p].coupon /\ ~WithinLimits(job[p].user)
          /\ job' = [job EXCEPT ![p] = Idle]
    /\ UNCHANGED <<orderTables, payment, cart, claim, world, acked, faults>>

\* orders.create copies what was bought, by whom and for what.
NewOrder(j, zero) == [user |-> j.user, items |-> j.items, coupon |-> j.coupon, free |-> zero]

\* A coupon's use is a CouponRedemption row of the order. The counter on the
\* coupon is for display and is left out.
redeem(o) == redeemed \cup {o}
release(o) == redeemed \ {o}

\* The commit: order, items, redemption and the emptied cart, all at once.
Place(p) ==
    /\ job[p].pc = "place"
    /\ \E o \in {x \in OrderIds \ Foreign : status[x] = "NONE"}, zero \in ZeroTotals :
         /\ status' = [status EXCEPT ![o] = "CREATED"]
         /\ snapshot' = [snapshot EXCEPT ![o] = NewOrder(job[p], zero)]
         /\ redeemed' = IF job[p].coupon THEN redeem(o) ELSE redeemed
         /\ job' = [job EXCEPT ![p] =
               IF zero
               THEN [Idle EXCEPT !.pc = "read", !.op = "settleFree", !.order = o]
               ELSE [Idle EXCEPT !.pc = "createOrder", !.order = o]]
    /\ cart' = clear(job[p].user)
    /\ UNCHANGED <<linked, payment, entitlement, published, claim, world, acked,
                   faults>>

\* provider.createOrder: one HTTP call, nothing of ours changes.
CreateProviderOrder(p) ==
    /\ job[p].pc = "createOrder"
    /\ job' = [job EXCEPT ![p].pc = "link"]
    /\ UNCHANGED <<orderTables, payment, cart, claim, world, acked, faults>>

SetProviderOrderId(p) ==
    /\ job[p].pc = "link"
    /\ linked' = linked \cup {job[p].order}
    /\ job' = [job EXCEPT ![p].pc = "read", ![p].op = "submit"]
    /\ UNCHANGED <<status, snapshot, redeemed, entitlement, published, payment,
                   cart, claim, world, acked, faults>>

-----------------------------------------------------------------------------
(* OrderService: every transition reads the order, looks its edge up, and  *)
(* commits a transaction that starts with a conditional UPDATE.            *)

\* require + transitionFor, outside the transaction.  Without an edge a
\* service call throws or answers applied: false, and a webhook goes on to
\* mark its event: either way nothing is written.
ReadOrder(p) ==
    /\ job[p].pc = "read"
    /\ LET now == status[job[p].order]
           edges == TransitionFor(now, job[p].op, Source(job[p]))
       IN  \/ /\ edges # {}
              /\ job' = [job EXCEPT ![p].pc = "commit", ![p].seen = now]
           \/ /\ edges = {}
              /\ job' = [job EXCEPT ![p] = After(@)]
    /\ UNCHANGED <<orderTables, payment, cart, claim, world, acked, faults>>

\* OrderRepository.transition: UPDATE ... WHERE id AND status = from.
BugUnconditional(o, from) == TRUE
RowMatches(o, from) == status[o] = from

Publish(o, event) ==
    published' = IF event = "none" THEN published
                 ELSE [published EXCEPT ![o][event] = @ + 1]

\* entitlements.grant for each item: an upsert on (user, course).
BugGrantOnce(o) ==
    [entitlement EXCEPT ![snapshot[o].user] =
        [c \in Courses |-> IF c \in snapshot[o].items /\ @[c].status = "none"
                           THEN [status |-> "ACTIVE", order |-> o] ELSE @[c]]]
Granted(o) ==
    [entitlement EXCEPT ![snapshot[o].user] =
        [c \in Courses |-> IF c \in snapshot[o].items
                           THEN [status |-> "ACTIVE", order |-> o] ELSE @[c]]]

\* revokeByOrder: the ACTIVE rows that carry this order's id.
BugRevokeNothing(o) == entitlement
BugRevokeByCourse(o) ==
    [u \in Users |-> [c \in Courses |->
        IF u = snapshot[o].user /\ c \in snapshot[o].items
        THEN [entitlement[u][c] EXCEPT !.status = "REVOKED"] ELSE entitlement[u][c]]]
Revoked(o) ==
    [u \in Users |-> [c \in Courses |->
        IF entitlement[u][c] = [status |-> "ACTIVE", order |-> o]
        THEN [status |-> "REVOKED", order |-> o] ELSE entitlement[u][c]]]

\* capture and settleFree.
Settle(o, t) ==
    /\ t.name \in {"capture", "settleFree"}
    /\ status' = [status EXCEPT ![o] = t.to]
    /\ entitlement' = Granted(o)
    /\ Publish(o, t.event)
    /\ UNCHANGED redeemed

Refund(o, t) ==
    /\ t.name = "refund"
    /\ status' = [status EXCEPT ![o] = t.to]
    /\ entitlement' = Revoked(o)
    /\ Publish(o, t.event)
    /\ UNCHANGED redeemed

\* submit, cancel, fail and expire: all but submit give the coupon back.
BugReleaseOnExpiry(t) == t.to = "EXPIRED"
Releases(t) == t.to # "AWAITING_PAYMENT"

Apply(o, t) ==
    /\ t.name \in {"submit", "cancel", "fail", "expire"}
    /\ status' = [status EXCEPT ![o] = t.to]
    /\ redeemed' = IF Releases(t) THEN release(o) ELSE redeemed
    /\ Publish(o, t.event)
    /\ UNCHANGED entitlement

\* The transaction.  A row that moved since the read makes it a no-op; in both
\* cases a checkout that was submitting hands the payment page to the learner,
\* because it ignores `applied'.
Commit(p) ==
    /\ job[p].pc = "commit"
    /\ LET o == job[p].order
       IN  /\ \E t \in TransitionFor(job[p].seen, job[p].op, Source(job[p])) :
                \/ RowMatches(o, t.from) /\ (Settle(o, t) \/ Refund(o, t) \/ Apply(o, t))
                \/ /\ ~RowMatches(o, t.from)
                   /\ UNCHANGED <<status, entitlement, published, redeemed>>
           /\ payable' = IF job[p].op = "submit" THEN payable \cup {o} ELSE payable
    /\ job' = [job EXCEPT ![p] = After(@)]
    /\ UNCHANGED <<snapshot, linked, payment, cart, claim, provider, returned,
                   acked, faults>>

-----------------------------------------------------------------------------
(* The other callers of OrderService.                                      *)

BeginCancel(p, o) ==
    /\ status[o] # "NONE"
    /\ Start(p, [Idle EXCEPT !.pc = "read", !.op = "cancel", !.order = o])
    /\ UNCHANGED <<orderTables, payment, cart, claim, world, acked, faults>>

\* OrderExpiryService.sweep: findExpirable is a snapshot, the expiry of each
\* order runs later.  The payment window is abstracted: it may end at any time.
findExpirable == {o \in OrderIds : status[o] \in Expirable}
BeginExpire(p, o) ==
    /\ o \in findExpirable
    /\ Start(p, [Idle EXCEPT !.pc = "read", !.op = "expire", !.order = o])
    /\ UNCHANGED <<orderTables, payment, cart, claim, world, acked, faults>>

\* RefundService.refund up to the provider call: a free order goes straight to
\* the state change, a paid one needs a captured payment row.
BugRevokeBeforeMoney(p, o) ==
    /\ status[o] = "PAID"
    /\ Start(p, [Idle EXCEPT !.pc = "read", !.op = "refund", !.order = o])
    /\ UNCHANGED <<orderTables, payment, cart, claim, world, acked, faults>>
BeginRefund(p, o) ==
    /\ status[o] = "PAID"
    /\ \/ /\ snapshot[o].free
          /\ Start(p, [Idle EXCEPT !.pc = "read", !.op = "refund", !.order = o])
       \/ /\ ~snapshot[o].free
          /\ \E n \in Attempts : payment[o][n] = "CAPTURED"
          /\ Start(p, [Idle EXCEPT !.pc = "repay", !.order = o])
    /\ UNCHANGED <<orderTables, payment, cart, claim, world, acked, faults>>

\* provider.refund under the key refund:{orderId}: asking twice returns the
\* money once.
SentBack(o) == returned \cup {o}

\* The Refund row is written and never read, and is left out. A refund that the
\* provider answers PENDING counts as returned: the code refunds the order either way.
Repay(p) ==
    /\ job[p].pc = "repay"
    /\ returned' = SentBack(job[p].order)
    /\ job' = [job EXCEPT ![p].pc = "read", ![p].op = "refund"]
    /\ UNCHANGED <<orderTables, payment, cart, claim, provider, payable, acked,
                   faults>>

-----------------------------------------------------------------------------
(* The provider, as far as src/ relies on it.                              *)

\* A learner on a payment page tries to pay, one attempt after the other until
\* one is captured.  A foreign order is paid in its own environment.
Attempt(o, n, outcome) ==
    /\ o \in payable \cup Foreign
    /\ ~Captured(o)
    /\ provider[o][n] = "none"
    /\ \A m \in Attempts : m < n => provider[o][m] = "failed"
    /\ outcome \in {"failed", "captured"}
    /\ provider' = [provider EXCEPT ![o][n] = outcome]
    /\ UNCHANGED <<orderTables, payment, cart, claim, job, returned, payable,
                   acked, faults>>

\* A refund made in the provider's own dashboard.
DashboardRefund(o) ==
    /\ Captured(o)
    /\ o \notin returned
    /\ returned' = returned \cup {o}
    /\ UNCHANGED <<orderTables, payment, cart, claim, job, provider, payable,
                   acked, faults>>

\* The provider reports every outcome, in any order.
Emitted(e) ==
    IF e.fact = "refunded"
    THEN e.order \in returned /\ provider[e.order][e.attempt] = "captured"
    ELSE provider[e.order][e.attempt] = e.fact

\* It redelivers until it sees a 2xx, also while an earlier delivery is still
\* being handled.
Due(e) == Emitted(e) /\ e \notin acked

-----------------------------------------------------------------------------
(* PaymentWebhookService.receive.                                          *)

\* The insert is the claim.
ClaimEvent(p, e) ==
    /\ Due(e)
    /\ claim[e] = "absent"
    /\ claim' = [claim EXCEPT ![e] = "held"]
    /\ Start(p, [Idle EXCEPT !.pc = "dispatch", !.order = e.order, !.event = e])
    /\ UNCHANGED <<orderTables, payment, cart, world, acked, faults>>

\* reclaimFailed: processedAt is null and lastError is not.
BugNeverReclaim(e) == FALSE
Reclaimable(e) == claim[e] = "failed"

Reclaim(p, e) ==
    /\ Due(e)
    /\ Reclaimable(e)
    /\ claim' = [claim EXCEPT ![e] = "held"]
    /\ Start(p, [Idle EXCEPT !.pc = "dispatch", !.order = e.order, !.event = e])
    /\ UNCHANGED <<orderTables, payment, cart, world, acked, faults>>

\* Any other loser of the insert answers 200 `duplicate'.
AnswerDuplicate(p, e) ==
    /\ Due(e)
    /\ job[p].pc = "idle"
    /\ claim[e] # "absent" /\ ~Reclaimable(e)
    /\ acked' = acked \cup {e}
    /\ UNCHANGED <<orderTables, payment, cart, claim, job, world, faults>>

BugOpOfFailed(fact) == IF fact = "refunded" THEN "refund" ELSE "capture"
OpOf(fact) == CASE fact = "captured" -> "capture"
                [] fact = "failed"   -> "fail"
                [] fact = "refunded" -> "refund"

\* findByProviderOrderId.
Known(o) == o \in linked

\* recordPayment: an upsert on the provider's payment id.
recordPayment(e) ==
    [payment EXCEPT ![e.order][e.attempt] =
        IF e.fact = "captured" THEN "CAPTURED" ELSE "FAILED"]

\* dispatch: an order nobody knows is `deferred'; otherwise the payment row is
\* upserted whatever it held, and the order service is called.
Dispatch(p) ==
    /\ job[p].pc = "dispatch"
    /\ LET e == job[p].event
       IN  \/ /\ ~Known(e.order)
              /\ job' = [job EXCEPT ![p].pc = "mark"]
              /\ UNCHANGED payment
           \/ /\ Known(e.order)
              /\ payment' = IF e.fact = "refunded" THEN payment ELSE recordPayment(e)
              /\ job' = [job EXCEPT ![p].pc = "read", ![p].op = OpOf(e.fact)]
    /\ UNCHANGED <<orderTables, cart, claim, world, acked, faults>>

\* processedAt, then the 200 -- which may be lost on the way.
MarkProcessed(p) ==
    /\ job[p].pc = "mark"
    /\ claim' = [claim EXCEPT ![job[p].event] = "processed"]
    /\ acked' \in {acked, acked \cup {job[p].event}}
    /\ job' = [job EXCEPT ![p] = Idle]
    /\ UNCHANGED <<orderTables, payment, cart, world, faults>>

\* Something in the dispatch threw: lastError is recorded and the 5xx makes the
\* provider try again.
RecordError(p) ==
    /\ errors < MaxErrors
    /\ errors' = errors + 1
    /\ job[p].event # None
    /\ claim' = [claim EXCEPT ![job[p].event] = "failed"]
    /\ job' = [job EXCEPT ![p] = Idle]
    /\ UNCHANGED <<orderTables, payment, cart, world, acked, crashes>>

\* The process dies, or a plain request throws: the rows stay as they are.
Crash(p) ==
    /\ crashes < MaxCrashes
    /\ crashes' = crashes + 1
    /\ job[p].pc # "idle"
    /\ job' = [job EXCEPT ![p] = Idle]
    /\ UNCHANGED <<orderTables, payment, cart, claim, world, acked, errors>>

-----------------------------------------------------------------------------
Shop == \E u \in Users, c \in Courses : AddToCart(u, c) \/ RemoveFromCart(u, c)

Request(p) ==
    \/ \E u \in Users : BeginCheckout(p, u)
    \/ \E o \in OrderIds : BeginCancel(p, o) \/ BeginExpire(p, o) \/ BeginRefund(p, o)
    \/ RefuseOwned(p) \/ Quote(p) \/ Place(p) \/ CreateProviderOrder(p) \/ SetProviderOrderId(p)
    \/ Repay(p)

Deliver(p, e) == ClaimEvent(p, e) \/ Reclaim(p, e) \/ AnswerDuplicate(p, e)

Handle(p) == Dispatch(p) \/ ReadOrder(p) \/ Commit(p) \/ MarkProcessed(p)

Pay == \E o \in OrderIds :
          \/ \E n \in Attempts, outcome \in {"failed", "captured"} : Attempt(o, n, outcome)
          \/ DashboardRefund(o)

Next ==
    \/ Shop
    \/ Pay
    \/ \E p \in Requests : Request(p)
    \/ \E p \in Hooks, e \in Events : Deliver(p, e)
    \/ \E p \in Procs : Handle(p) \/ RecordError(p) \/ Crash(p)

Spec == Init /\ [][Next]_vars

\* A claimed delivery runs to its end, and the provider redelivers an event
\* until it is answered 200; the server accepts one of infinitely many tries.
FairSpec ==
    /\ Spec
    /\ \A p \in Hooks : WF_vars(Handle(p))
    /\ \A e \in Events : SF_vars(\E p \in Hooks : Deliver(p, e))
=============================================================================
