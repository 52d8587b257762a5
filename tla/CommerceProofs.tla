---------------------------- MODULE CommerceProofs ----------------------------
(***************************************************************************)
(* Proofs about Commerce, for any number of learners, courses, orders,     *)
(* deliveries and requests, and any number of errors and crashes.          *)
(*                                                                         *)
(* First the types and the shape of what is in flight (JobsOK); then the   *)
(* order tables, for which a step is one of three things (SalesStep); on   *)
(* them the invariants about access, coupons and events, then those about  *)
(* money; last the ledger, the claim on an event and over-redemption.      *)
(***************************************************************************)
EXTENDS CommerceProperties, FiniteSetTheorems, TLAPS

\* What a request or delivery j of process p carries at each point: the local
\* variables its next statement reads are set, and only hooks carry an event.
JobOK(p, j) ==
    /\ j.pc = "idle" => j.event = None
    /\ j.pc \in {"owned", "quote", "place"} => j.user \in Users /\ j.event = None
    /\ j.pc \in {"createOrder", "link", "repay"} => j.event = None
    /\ j.pc \in {"dispatch", "mark"} => j.event # None
    /\ j.pc \in {"createOrder", "link", "repay", "dispatch", "read", "commit"} =>
          j.order \in OrderIds
    /\ j.pc \in {"read", "commit"} => j.op \in Names
    /\ j.pc = "commit" => j.seen \in Status
    /\ j.event # None => p \in Hooks /\ j.event \in Events /\ j.order = j.event.order

JobsOK == \A p \in Procs : JobOK(p, job[p])

TypeInv == TypeOK /\ JobsOK

-----------------------------------------------------------------------------
(* The machine.                                                            *)

\* What each named edge of the machine connects and raises.
LEMMA MachineEdges ==
    ASSUME NEW t \in Machine
    PROVE  \/ t.name = "submit" /\ t.from = "CREATED" /\ t.to = "AWAITING_PAYMENT"
              /\ t.event = "none"
           \/ t.name = "settleFree" /\ t.from = "CREATED" /\ t.to = "PAID"
              /\ t.event = "paid"
           \/ t.name = "capture" /\ t.from = "AWAITING_PAYMENT" /\ t.to = "PAID"
              /\ t.event = "paid"
           \/ t.name = "cancel" /\ t.from \in Expirable /\ t.to = "CANCELLED"
              /\ t.event = "none"
           \/ t.name = "expire" /\ t.from \in Expirable /\ t.to = "EXPIRED"
              /\ t.event = "expired"
           \/ t.name = "fail" /\ t.from = "AWAITING_PAYMENT" /\ t.to = "FAILED"
              /\ t.event = "none"
           \/ t.name = "refund" /\ t.from = "PAID" /\ t.to = "REFUNDED"
              /\ t.event = "refunded"
  BY DEF Machine, Edge, Cancel, Expire, Expirable

\* The transition names are those the code's Transition type lists.
LEMMA NamesAre ==
    Names = {"submit", "settleFree", "capture", "cancel", "expire", "fail", "refund"}
  BY DEF Names, Machine, Edge, Cancel, Expire

LEMMA EdgeTypes ==
    ASSUME NEW t \in Machine
    PROVE  t.from \in Status /\ t.to \in Status /\ t.event \in OrderEvents \cup {"none"}
  BY MachineEdges DEF Status, Expirable, OrderEvents

-----------------------------------------------------------------------------
(* Types.                                                                  *)

LEMMA IdleType == Idle \in Job
  BY DEF Idle, Job, PCs

LEMMA IdleOK == ASSUME NEW p PROVE JobOK(p, Idle)
  BY DEF Idle, JobOK

LEMMA TypeInit == Init => TypeInv
<1> SUFFICES ASSUME Init PROVE TypeInv
  OBVIOUS
<1> USE CommerceAssumption, IdleType, IdleOK
<1>1. snapshot \in [OrderIds -> Snapshot]
  BY DEF Init, Blank, Snapshot
<1>2. TypeOK
  BY <1>1 DEF Init, TypeOK, Entitlement
<1>3. JobsOK
  BY DEF Init, JobsOK
<1> QED BY <1>2, <1>3 DEF TypeInv

\* The step replaces the job of p by another that is as it should be.
SetsJob(p) ==
    /\ job' = [job EXCEPT ![p] = job'[p]]
    /\ job'[p] \in Job
    /\ JobOK(p, job'[p])

LEMMA SetsJobTo ==
    ASSUME job \in [Procs -> Job], NEW p \in Procs, NEW j \in Job, JobOK(p, j),
           job' = [job EXCEPT ![p] = j]
    PROVE  SetsJob(p)
  BY DEF SetsJob

\* Replacing the record of one process keeps job well formed.
LEMMA SetsJobKeeps ==
    ASSUME job \in [Procs -> Job], JobsOK, NEW p \in Procs, SetsJob(p)
    PROVE  job' \in [Procs -> Job] /\ JobsOK'
<1>1. job' \in [Procs -> Job]
  BY DEF SetsJob
<1>2. ASSUME NEW q \in Procs PROVE JobOK(q, job'[q])
  <2>1. CASE q = p
    BY <2>1 DEF SetsJob
  <2>2. CASE q # p
    BY <2>2 DEF JobsOK, SetsJob
  <2> QED BY <2>1, <2>2
<1> QED BY <1>1, <1>2 DEF JobsOK

\* The jobs that start on an order.
LEMMA ReadJob ==
    ASSUME NEW p, NEW o \in OrderIds, NEW name \in Names
    PROVE  LET j == [Idle EXCEPT !.pc = "read", !.op = name, !.order = o]
           IN  j \in Job /\ JobOK(p, j)
<1> DEFINE j == [Idle EXCEPT !.pc = "read", !.op = name, !.order = o]
<1>1. j \in Job
  BY DEF Idle, Job, PCs
<1>2. JobOK(p, j)
  BY DEF Idle, JobOK
<1> QED BY <1>1, <1>2

LEMMA OrderJob ==
    ASSUME NEW p, NEW o \in OrderIds, NEW pc \in {"createOrder", "repay"}
    PROVE  LET j == [Idle EXCEPT !.pc = pc, !.order = o]
           IN  j \in Job /\ JobOK(p, j)
<1> DEFINE j == [Idle EXCEPT !.pc = pc, !.order = o]
<1>1. j \in Job
  BY DEF Idle, Job, PCs
<1>2. JobOK(p, j)
  BY DEF Idle, JobOK
<1> QED BY <1>1, <1>2

LEMMA EventJob ==
    ASSUME NEW p \in Hooks, NEW e \in Events
    PROVE  LET j == [Idle EXCEPT !.pc = "dispatch", !.order = e.order, !.event = e]
           IN  j \in Job /\ JobOK(p, j)
<1> DEFINE j == [Idle EXCEPT !.pc = "dispatch", !.order = e.order, !.event = e]
<1>1. e.order \in OrderIds /\ e # None
  BY CommerceAssumption DEF Events
<1>2. j \in Job
  BY <1>1 DEF Idle, Job, PCs
<1>3. JobOK(p, j)
  BY <1>1 DEF Idle, JobOK
<1> QED BY <1>2, <1>3

\* The types of the tables do not depend on how job changed.
TablesOK ==
    /\ status \in [OrderIds -> Status \cup {"NONE"}]
    /\ snapshot \in [OrderIds -> Snapshot]
    /\ linked \subseteq OrderIds
    /\ redeemed \subseteq OrderIds
    /\ payment \in [OrderIds -> [Attempts -> {"none", "CAPTURED", "FAILED"}]]
    /\ entitlement \in [Users -> [Courses -> Entitlement]]
    /\ published \in [OrderIds -> [OrderEvents -> Nat]]
    /\ cart \in [Users -> SUBSET Courses]
    /\ claim \in [Events -> {"absent", "held", "failed", "processed"}]
    /\ provider \in [OrderIds -> [Attempts -> {"none", "failed", "captured"}]]
    /\ returned \subseteq OrderIds
    /\ payable \subseteq OrderIds
    /\ acked \subseteq Events
    /\ errors \in 0..MaxErrors
    /\ crashes \in 0..MaxCrashes

\* Every step that only replaces a job: the reads of checkout, of the order
\* service and of the sweeps.
LEMMA TypeOfReads ==
    ASSUME TypeInv, NEW p \in Procs,
           \/ \E u \in Users : BeginCheckout(p, u)
           \/ \E o \in OrderIds : BeginCancel(p, o) \/ BeginExpire(p, o) \/ BeginRefund(p, o)
           \/ RefuseOwned(p) \/ Quote(p) \/ CreateProviderOrder(p) \/ ReadOrder(p)
    PROVE  TypeInv'
<1>1. TablesOK'
  BY DEF TypeInv, TypeOK, TablesOK, BeginCheckout, BeginCancel, BeginExpire, BeginRefund,
         RefuseOwned, Quote, CreateProviderOrder, ReadOrder, orderTables, world, faults,
         findExpirable
<1>2. job[p] \in Job /\ JobOK(p, job[p]) /\ job \in [Procs -> Job] /\ JobsOK
  BY DEF TypeInv, TypeOK, JobsOK
<1>3. SetsJob(p)
  <2>1. ASSUME NEW u \in Users, BeginCheckout(p, u) PROVE SetsJob(p)
    <3>1. PICK withCoupon \in BOOLEAN :
             Start(p, [Idle EXCEPT !.pc = "owned", !.user = u,
                                   !.items = cart[u], !.coupon = withCoupon])
      BY <2>1 DEF BeginCheckout
    <3> DEFINE j == [Idle EXCEPT !.pc = "owned", !.user = u,
                                 !.items = cart[u], !.coupon = withCoupon]
    <3>2. cart[u] \in SUBSET Courses
      BY DEF TypeInv, TypeOK
    <3>3. j \in Job
      BY <3>2 DEF Idle, Job, PCs
    <3>4. JobOK(p, j)
      BY DEF Idle, JobOK
    <3>5. job' = [job EXCEPT ![p] = j]
      BY <3>1 DEF Start
    <3> QED BY <1>2, <3>3, <3>4, <3>5, SetsJobTo
  <2>2. ASSUME NEW o \in OrderIds, NEW name \in Names,
               Start(p, [Idle EXCEPT !.pc = "read", !.op = name, !.order = o])
        PROVE  SetsJob(p)
    BY <1>2, <2>2, ReadJob, SetsJobTo DEF Start
  <2>3. ASSUME NEW o \in OrderIds, Start(p, [Idle EXCEPT !.pc = "repay", !.order = o])
        PROVE  SetsJob(p)
    BY <1>2, <2>3, OrderJob, SetsJobTo DEF Start
  <2>4. ASSUME NEW o \in OrderIds, BeginCancel(p, o) \/ BeginExpire(p, o) \/ BeginRefund(p, o)
        PROVE  SetsJob(p)
    BY NamesAre, <2>2, <2>3, <2>4 DEF BeginCancel, BeginExpire, BeginRefund, findExpirable
  <2>5. ASSUME job' = [job EXCEPT ![p] = Idle] PROVE SetsJob(p)
    BY <1>2, <2>5, IdleType, IdleOK, SetsJobTo
  <2>6. CASE RefuseOwned(p)
    <3>1. ASSUME job[p].pc = "owned" 
          PROVE  [job[p] EXCEPT !.pc = "quote"] \in Job /\ JobOK(p, [job[p] EXCEPT !.pc = "quote"])
      BY <1>2, <3>1 DEF Job, PCs, JobOK
    <3> QED BY <1>2, <2>5, <2>6, <3>1, SetsJobTo DEF RefuseOwned
  <2>7. CASE Quote(p)
    <3>1. ASSUME job[p].pc = "quote" 
          PROVE  [job[p] EXCEPT !.pc = "place"] \in Job /\ JobOK(p, [job[p] EXCEPT !.pc = "place"])
      BY <1>2, <3>1 DEF Job, PCs, JobOK
    <3> QED BY <1>2, <2>5, <2>7, <3>1, SetsJobTo DEF Quote
  <2>8. CASE CreateProviderOrder(p)
    <3> DEFINE j == [job[p] EXCEPT !.pc = "link"]
    <3>1. j \in Job /\ JobOK(p, j)
      BY <1>2, <2>8 DEF Job, PCs, JobOK, CreateProviderOrder
    <3> QED BY <1>2, <2>8, <3>1, SetsJobTo DEF CreateProviderOrder
  <2>9. CASE ReadOrder(p)
    <3> DEFINE now == status[job[p].order]
               j == [job[p] EXCEPT !.pc = "commit", !.seen = now]
    <3>1. CASE TransitionFor(now, job[p].op, Source(job[p])) # {}
      <4>1. now \in Status
        BY <3>1, EdgeTypes DEF TransitionFor
      <4>2. j \in Job /\ JobOK(p, j)
        BY <1>2, <2>9, <4>1 DEF Job, PCs, JobOK, ReadOrder
      <4> QED BY <1>2, <2>9, <3>1, <4>2, SetsJobTo DEF ReadOrder
    <3>2. CASE TransitionFor(now, job[p].op, Source(job[p])) = {}
      <4>1. After(job[p]) \in Job /\ JobOK(p, After(job[p]))
        BY <1>2, <2>9, IdleType, IdleOK DEF Job, PCs, JobOK, ReadOrder, After
      <4> QED BY <1>2, <2>9, <3>2, <4>1, SetsJobTo DEF ReadOrder
    <3> QED BY <3>1, <3>2
  <2> QED BY <2>1, <2>4, <2>6, <2>7, <2>8, <2>9
<1> QED BY <1>1, <1>2, <1>3, SetsJobKeeps DEF TypeInv, TypeOK, TablesOK

\* The transaction of a checkout, the provider's order id, the money going back.
LEMMA TypeOfPlace ==
    ASSUME TypeInv, NEW p \in Procs, Place(p)
    PROVE  TypeInv'
<1>1. job[p] \in Job /\ JobOK(p, job[p]) /\ job \in [Procs -> Job] /\ JobsOK
  BY DEF TypeInv, TypeOK, JobsOK
<1>2. job[p].user \in Users /\ job[p].items \in SUBSET Courses /\ job[p].coupon \in BOOLEAN
  BY <1>1 DEF Place, Job, JobOK, NewOrder, redeem, clear
<1>3. PICK o \in OrderIds \ Foreign, zero \in ZeroTotals :
         /\ status' = [status EXCEPT ![o] = "CREATED"]
         /\ snapshot' = [snapshot EXCEPT ![o] =
               [user |-> job[p].user, items |-> job[p].items,
                coupon |-> job[p].coupon, free |-> zero]]
         /\ redeemed' = IF job[p].coupon THEN redeemed \cup {o} ELSE redeemed
         /\ job' = [job EXCEPT ![p] =
               IF zero
               THEN [Idle EXCEPT !.pc = "read", !.op = "settleFree", !.order = o]
               ELSE [Idle EXCEPT !.pc = "createOrder", !.order = o]]
  BY DEF Place, NewOrder, redeem, clear
<1>4. zero \in BOOLEAN
  BY CommerceAssumption
<1>5. TablesOK'
  <2>1. snapshot' \in [OrderIds -> Snapshot]
    BY <1>2, <1>3, <1>4 DEF TypeInv, TypeOK, Snapshot
  <2>2. status' \in [OrderIds -> Status \cup {"NONE"}] /\ redeemed' \subseteq OrderIds
    BY <1>3 DEF TypeInv, TypeOK, Status
  <2>3. cart' \in [Users -> SUBSET Courses]
    BY <1>2 DEF TypeInv, TypeOK, Place, NewOrder, redeem, clear
  <2> QED BY <2>1, <2>2, <2>3 DEF TypeInv, TypeOK, TablesOK, Place, world, faults,
                                  NewOrder, redeem, clear
<1>6. SetsJob(p)
  BY <1>1, <1>3, <1>4, ReadJob, OrderJob, NamesAre, SetsJobTo
<1> QED BY <1>1, <1>5, <1>6, SetsJobKeeps DEF TypeInv, TypeOK, TablesOK

LEMMA TypeOfCheckout ==
    ASSUME TypeInv, NEW p \in Procs, SetProviderOrderId(p) \/ Repay(p)
    PROVE  TypeInv'
<1>1. job[p] \in Job /\ JobOK(p, job[p]) /\ job \in [Procs -> Job] /\ JobsOK
  BY DEF TypeInv, TypeOK, JobsOK
<1>2. TablesOK'
  BY <1>1 DEF TypeInv, TypeOK, TablesOK, JobOK, SetProviderOrderId, Repay,
              orderTables, world, faults, SentBack
<1>3. PICK name \in {"submit", "refund"} :
         job' = [job EXCEPT ![p] = [job[p] EXCEPT !.pc = "read", !.op = name]]
  BY DEF SetProviderOrderId, Repay, SentBack
<1> DEFINE j == [job[p] EXCEPT !.pc = "read", !.op = name]
<1>4. j \in Job
  <2>1. "read" \in PCs /\ name \in Names
    BY NamesAre DEF PCs
  <2> QED BY <1>1, <2>1 DEF Job
<1>5. JobOK(p, j)
  BY <1>1, NamesAre DEF Job, JobOK, SetProviderOrderId, Repay, SentBack
<1>6. SetsJob(p)
  BY <1>1, <1>3, <1>4, <1>5, SetsJobTo
<1> QED BY <1>1, <1>2, <1>6, SetsJobKeeps DEF TypeInv, TypeOK, TablesOK

\* What a transition writes.
LEMMA TypeOfGrants ==
    ASSUME TypeInv, NEW o \in OrderIds
    PROVE  /\ Granted(o) \in [Users -> [Courses -> Entitlement]]
           /\ Revoked(o) \in [Users -> [Courses -> Entitlement]]
<1>1. /\ [status |-> "ACTIVE", order |-> o] \in Entitlement
      /\ [status |-> "REVOKED", order |-> o] \in Entitlement
  BY DEF Entitlement
<1> QED BY <1>1 DEF TypeInv, TypeOK, Granted, Revoked

LEMMA TypeOfCommit ==
    ASSUME TypeInv, NEW p \in Procs, Commit(p)
    PROVE  TypeInv'
<1>1. job[p] \in Job /\ JobOK(p, job[p]) /\ job \in [Procs -> Job] /\ JobsOK
  BY DEF TypeInv, TypeOK, JobsOK
<1> DEFINE o == job[p].order
<1>2. o \in OrderIds
  BY <1>1 DEF Commit, JobOK
<1>3. PICK t \in TransitionFor(job[p].seen, job[p].op, Source(job[p])) :
         \/ RowMatches(o, t.from) /\ (Settle(o, t) \/ Refund(o, t) \/ Apply(o, t))
         \/ UNCHANGED <<status, entitlement, published, redeemed>>
  BY DEF Commit
<1>4. t.to \in Status /\ t.event \in OrderEvents \cup {"none"}
  BY <1>3, EdgeTypes DEF TransitionFor
<1>5. status' \in [OrderIds -> Status \cup {"NONE"}]
  BY <1>2, <1>3, <1>4 DEF TypeInv, TypeOK, Settle, Refund, Apply, release
<1>6. published' \in [OrderIds -> [OrderEvents -> Nat]]
  <2>1. Publish(o, t.event) \/ UNCHANGED published
    BY <1>3 DEF Settle, Refund, Apply, release
  <2>2. published \in [OrderIds -> [OrderEvents -> Nat]]
    BY DEF TypeInv, TypeOK
  <2>3. CASE t.event \in OrderEvents /\ published' = [published EXCEPT ![o][t.event] = @ + 1]
    <3>1. published[o][t.event] + 1 \in Nat
      BY <1>2, <2>2, <2>3
    <3> QED BY <1>2, <2>2, <2>3, <3>1
  <2> QED BY <1>4, <2>1, <2>2, <2>3 DEF Publish
<1>7. entitlement' \in [Users -> [Courses -> Entitlement]]
  BY <1>2, <1>3, TypeOfGrants DEF TypeInv, TypeOK, Settle, Refund, Apply, release
<1>8. redeemed' \subseteq OrderIds /\ payable' \subseteq OrderIds
  BY <1>2, <1>3 DEF TypeInv, TypeOK, Settle, Refund, Apply, Commit, release
<1>9. TablesOK'
  BY <1>5, <1>6, <1>7, <1>8 DEF TypeInv, TypeOK, TablesOK, Commit, faults
<1>10. After(job[p]) \in Job /\ JobOK(p, After(job[p]))
  BY <1>1, IdleType, IdleOK DEF Job, PCs, JobOK, Commit, After
<1>11. SetsJob(p)
  BY <1>1, <1>10, SetsJobTo DEF Commit
<1> QED BY <1>1, <1>9, <1>11, SetsJobKeeps DEF TypeInv, TypeOK, TablesOK

\* The webhook handlers.
LEMMA TypeOfClaims ==
    ASSUME TypeInv, NEW p \in Hooks, NEW e \in Events, Deliver(p, e)
    PROVE  TypeInv'
<1>1. p \in Procs /\ job \in [Procs -> Job] /\ JobsOK
  BY DEF TypeInv, TypeOK, JobsOK, Procs
<1>2. TablesOK'
  BY DEF TypeInv, TypeOK, TablesOK, Deliver, ClaimEvent, Reclaim, AnswerDuplicate,
         orderTables, world, faults
<1>3. job' \in [Procs -> Job] /\ JobsOK'
  <2>1. CASE AnswerDuplicate(p, e)
    BY <1>1, <2>1 DEF AnswerDuplicate, JobsOK
  <2>2. CASE ClaimEvent(p, e) \/ Reclaim(p, e)
    <3>1. SetsJob(p)
      BY <1>1, <2>2, EventJob, SetsJobTo DEF ClaimEvent, Reclaim, Start
    <3> QED BY <1>1, <3>1, SetsJobKeeps
  <2> QED BY <2>1, <2>2 DEF Deliver
<1> QED BY <1>2, <1>3 DEF TypeInv, TypeOK, TablesOK

LEMMA TypeOfDispatch ==
    ASSUME TypeInv, NEW p \in Procs, Dispatch(p)
    PROVE  TypeInv'
<1>1. job[p] \in Job /\ JobOK(p, job[p]) /\ job \in [Procs -> Job] /\ JobsOK
  BY DEF TypeInv, TypeOK, JobsOK
<1> DEFINE e == job[p].event
<1>2. e \in Events /\ e.order \in OrderIds /\ e.attempt \in Attempts /\ e.fact \in Facts
  BY <1>1 DEF Dispatch, JobOK, Events, Known, recordPayment
<1>3. payment' \in [OrderIds -> [Attempts -> {"none", "CAPTURED", "FAILED"}]]
  <2>1. payment \in [OrderIds -> [Attempts -> {"none", "CAPTURED", "FAILED"}]]
    BY DEF TypeInv, TypeOK
  <2>2. PICK row \in {"CAPTURED", "FAILED"} :
           payment' = payment \/ payment' = [payment EXCEPT ![e.order][e.attempt] = row]
    BY DEF Dispatch, Known, recordPayment
  <2> QED BY <1>2, <2>1, <2>2
<1>4. TablesOK'
  BY <1>3 DEF TypeInv, TypeOK, TablesOK, Dispatch, orderTables, world, faults, Known,
              recordPayment
<1>5. SetsJob(p)
  <2>1. CASE job' = [job EXCEPT ![p].pc = "mark"]
    <3> DEFINE j == [job[p] EXCEPT !.pc = "mark"]
    <3>1. j \in Job /\ JobOK(p, j)
      BY <1>1 DEF Job, PCs, JobOK, Dispatch, Known, recordPayment
    <3> QED BY <1>1, <2>1, <3>1, SetsJobTo
  <2>2. CASE job' = [job EXCEPT ![p].pc = "read", ![p].op = OpOf(e.fact)]
    <3> DEFINE j == [job[p] EXCEPT !.pc = "read", !.op = OpOf(e.fact)]
    <3>1. OpOf(e.fact) \in Names
      BY <1>2, NamesAre DEF OpOf, Facts
    <3>2. j \in Job
      BY <1>1, <3>1 DEF Job, PCs
    <3>3. JobOK(p, j)
      BY <1>1, <3>1 DEF Job, JobOK, Dispatch, Known, recordPayment
    <3> QED BY <1>1, <2>2, <3>2, <3>3, SetsJobTo
  <2> QED BY <2>1, <2>2 DEF Dispatch, Known, recordPayment
<1> QED BY <1>1, <1>4, <1>5, SetsJobKeeps DEF TypeInv, TypeOK, TablesOK

\* The ends of a job.
LEMMA TypeOfEnds ==
    ASSUME TypeInv, NEW p \in Procs, MarkProcessed(p) \/ RecordError(p) \/ Crash(p)
    PROVE  TypeInv'
<1>1. job[p] \in Job /\ JobOK(p, job[p]) /\ job \in [Procs -> Job] /\ JobsOK
  BY DEF TypeInv, TypeOK, JobsOK
<1>2. job[p].event # None => job[p].event \in Events
  BY <1>1 DEF JobOK
<1>3. MarkProcessed(p) => job[p].event \in Events
  BY <1>1, <1>2 DEF JobOK, MarkProcessed
<1>4. claim' \in [Events -> {"absent", "held", "failed", "processed"}] /\ acked' \subseteq Events
  BY <1>3 DEF TypeInv, TypeOK, MarkProcessed, RecordError, Crash
<1>5. errors' \in 0..MaxErrors /\ crashes' \in 0..MaxCrashes
  BY CommerceAssumption DEF TypeInv, TypeOK, MarkProcessed, RecordError, Crash, faults
<1>6. TablesOK'
  BY <1>4, <1>5 DEF TypeInv, TypeOK, TablesOK, MarkProcessed, RecordError, Crash,
                    orderTables, world
<1>7. SetsJob(p)
  BY <1>1, IdleType, IdleOK, SetsJobTo DEF MarkProcessed, RecordError, Crash
<1> QED BY <1>1, <1>6, <1>7, SetsJobKeeps DEF TypeInv, TypeOK, TablesOK

\* The learner and the provider.
LEMMA TypeOfWorld ==
    ASSUME TypeInv, Shop \/ Pay
    PROVE  TypeInv'
<1>1. CASE Shop
  BY <1>1 DEF TypeInv, TypeOK, JobsOK, Shop, AddToCart, RemoveFromCart,
              orderTables, world, faults, addItem, removeItem
<1>2. ASSUME NEW o \in OrderIds, DashboardRefund(o) PROVE TypeInv'
  BY <1>2 DEF TypeInv, TypeOK, JobsOK, DashboardRefund, orderTables, faults
<1>3. ASSUME NEW o \in OrderIds, NEW n \in Attempts, NEW outcome \in {"failed", "captured"},
             Attempt(o, n, outcome)
      PROVE  TypeInv'
  <2>1. provider' \in [OrderIds -> [Attempts -> {"none", "failed", "captured"}]]
    BY <1>3 DEF TypeInv, TypeOK, Attempt
  <2> QED BY <1>3, <2>1 DEF TypeInv, TypeOK, JobsOK, Attempt, orderTables, faults
<1> QED BY <1>1, <1>2, <1>3 DEF Pay

LEMMA TypeStep == TypeInv /\ [Next]_vars => TypeInv'
<1> SUFFICES ASSUME TypeInv, [Next]_vars PROVE TypeInv'
  OBVIOUS
<1>1. CASE Shop \/ Pay
  BY <1>1, TypeOfWorld
<1>2. ASSUME NEW p \in Requests, Request(p) PROVE TypeInv'
  BY <1>2, TypeOfReads, TypeOfPlace, TypeOfCheckout DEF Request, Procs
<1>3. ASSUME NEW p \in Hooks, NEW e \in Events, Deliver(p, e) PROVE TypeInv'
  BY <1>3, TypeOfClaims
<1>4. ASSUME NEW p \in Procs, Handle(p) \/ RecordError(p) \/ Crash(p) PROVE TypeInv'
  BY <1>4, TypeOfDispatch, TypeOfReads, TypeOfCommit, TypeOfEnds DEF Handle
<1>5. CASE UNCHANGED vars
  BY <1>5 DEF TypeInv, TypeOK, JobsOK, vars
<1> QED BY <1>1, <1>2, <1>3, <1>4, <1>5 DEF Next

\* TypeOK holds in every state: no handler writes a row, and no request carries
\* a value, outside its type.
THEOREM TypeCorrect == Spec => []TypeOK
<1>1. Spec => []TypeInv
  BY TypeInit, TypeStep, PTL DEF Spec
<1> QED BY <1>1, PTL DEF TypeInv

-----------------------------------------------------------------------------
(* The order tables: a step leaves them alone, opens an order, or takes one *)
(* edge of the machine from the status the row has.                         *)

sales == <<status, snapshot, redeemed, entitlement, published>>

Opened(o, s) ==
    /\ status[o] = "NONE"
    /\ status' = [status EXCEPT ![o] = "CREATED"]
    /\ snapshot' = [snapshot EXCEPT ![o] = s]
    /\ redeemed' = IF s.coupon THEN redeemed \cup {o} ELSE redeemed
    /\ UNCHANGED <<entitlement, published>>

Moved(o, t) ==
    /\ status[o] = t.from
    /\ Settle(o, t) \/ Refund(o, t) \/ Apply(o, t)
    /\ UNCHANGED snapshot

\* The three kinds of move.
Settled(o) ==
    /\ status[o] \in Expirable
    /\ status' = [status EXCEPT ![o] = "PAID"]
    /\ entitlement' = Granted(o)
    /\ published' = [published EXCEPT ![o]["paid"] = @ + 1]
    /\ UNCHANGED <<snapshot, redeemed>>

Returned(o) ==
    /\ status[o] = "PAID"
    /\ status' = [status EXCEPT ![o] = "REFUNDED"]
    /\ entitlement' = Revoked(o)
    /\ published' = [published EXCEPT ![o]["refunded"] = @ + 1]
    /\ UNCHANGED <<snapshot, redeemed>>

Ended(o, to) ==
    /\ status[o] \in Expirable
    /\ status' = [status EXCEPT ![o] = to]
    /\ redeemed' = IF to = "AWAITING_PAYMENT" THEN redeemed ELSE redeemed \ {o}
    /\ published' = IF to = "EXPIRED" THEN [published EXCEPT ![o]["expired"] = @ + 1]
                    ELSE published
    /\ UNCHANGED <<snapshot, entitlement>>

LEMMA MovedCases ==
    ASSUME NEW o \in OrderIds, NEW t \in Machine, Moved(o, t)
    PROVE  Settled(o) \/ Returned(o) \/ \E to \in Dead \cup {"AWAITING_PAYMENT"} : Ended(o, to)
<1>1. CASE Settle(o, t)
  BY <1>1, MachineEdges DEF Moved, Settle, Publish, Settled, Expirable
<1>2. CASE Refund(o, t)
  BY <1>2, MachineEdges DEF Moved, Refund, Publish, Returned
<1>3. CASE Apply(o, t)
  <2>1. t.to \in Dead \cup {"AWAITING_PAYMENT"} /\ t.from \in Expirable
    BY <1>3, MachineEdges DEF Apply, Dead, Expirable, release
  <2>2. t.event = IF t.to = "EXPIRED" THEN "expired" ELSE "none"
    BY <1>3, MachineEdges DEF Apply, release
  <2>3. Ended(o, t.to)
    BY <1>3, <2>1, <2>2 DEF Moved, Apply, Publish, Releases, Ended, release
  <2> QED BY <2>1, <2>3
<1> QED BY <1>1, <1>2, <1>3 DEF Moved

LEMMA PlaceOpens ==
    ASSUME TypeInv, NEW p \in Procs, Place(p)
    PROVE  \E o \in OrderIds, s \in Snapshot : Opened(o, s)
<1>1. job[p].user \in Users /\ job[p].items \in SUBSET Courses /\ job[p].coupon \in BOOLEAN
  BY DEF TypeInv, TypeOK, JobsOK, JobOK, Place, Job, NewOrder, redeem, clear
<1>2. PICK o \in OrderIds \ Foreign, zero \in ZeroTotals :
         /\ status[o] = "NONE"
         /\ status' = [status EXCEPT ![o] = "CREATED"]
         /\ snapshot' = [snapshot EXCEPT ![o] =
               [user |-> job[p].user, items |-> job[p].items,
                coupon |-> job[p].coupon, free |-> zero]]
         /\ redeemed' = IF job[p].coupon THEN redeemed \cup {o} ELSE redeemed
  BY DEF Place, NewOrder, redeem, clear
<1> DEFINE s == [user |-> job[p].user, items |-> job[p].items,
                 coupon |-> job[p].coupon, free |-> zero]
<1>3. s \in Snapshot
  BY <1>1, CommerceAssumption DEF Snapshot
<1>4. Opened(o, s)
  BY <1>2 DEF Opened, Place, NewOrder, redeem, clear
<1> QED BY <1>3, <1>4

LEMMA CommitMoves ==
    ASSUME TypeInv, NEW p \in Procs, Commit(p)
    PROVE  \/ UNCHANGED sales
           \/ \E o \in OrderIds, t \in Machine : Moved(o, t)
<1> DEFINE o == job[p].order
<1>1. o \in OrderIds
  BY DEF TypeInv, JobsOK, JobOK, Commit
<1>2. PICK t \in TransitionFor(job[p].seen, job[p].op, Source(job[p])) :
         \/ RowMatches(o, t.from) /\ (Settle(o, t) \/ Refund(o, t) \/ Apply(o, t))
         \/ UNCHANGED <<status, entitlement, published, redeemed>>
  BY DEF Commit
<1>3. t \in Machine
  BY <1>2 DEF TransitionFor
<1>4. UNCHANGED snapshot
  BY DEF Commit
<1>5. CASE RowMatches(o, t.from) /\ (Settle(o, t) \/ Refund(o, t) \/ Apply(o, t))
  <2>1. Moved(o, t)
    BY <1>4, <1>5 DEF Moved, RowMatches
  <2> QED BY <1>1, <1>3, <2>1
<1> QED BY <1>2, <1>4, <1>5 DEF sales

\* Only the two transactions write these tables.
LEMMA SalesWriters ==
    ASSUME TypeInv, [Next]_vars
    PROVE  UNCHANGED sales \/ \E p \in Procs : Place(p) \/ Commit(p)
<1>1. CASE Shop \/ Pay
  BY <1>1 DEF Shop, Pay, AddToCart, RemoveFromCart, Attempt, DashboardRefund,
              orderTables, sales, addItem, removeItem
<1>2. ASSUME NEW p \in Requests, Request(p), ~Place(p) PROVE UNCHANGED sales
  BY <1>2 DEF Request, BeginCheckout, BeginCancel, BeginExpire, BeginRefund, RefuseOwned,
              Quote, CreateProviderOrder, SetProviderOrderId, Repay, orderTables, sales,
              findExpirable, SentBack
<1>3. ASSUME NEW p \in Hooks, NEW e \in Events, Deliver(p, e) PROVE UNCHANGED sales
  BY <1>3 DEF Deliver, ClaimEvent, Reclaim, AnswerDuplicate, orderTables, sales
<1>4. ASSUME NEW p \in Procs, Handle(p) \/ RecordError(p) \/ Crash(p), ~Commit(p)
      PROVE  UNCHANGED sales
  BY <1>4 DEF Handle, Dispatch, ReadOrder, MarkProcessed, RecordError, Crash,
              orderTables, sales, Known, recordPayment
<1>5. CASE UNCHANGED vars
  BY <1>5 DEF vars, sales
<1> QED BY <1>1, <1>2, <1>3, <1>4, <1>5 DEF Next, Procs

LEMMA SalesMoves ==
    ASSUME TypeInv, [Next]_vars
    PROVE  \/ UNCHANGED sales
           \/ \E o \in OrderIds, s \in Snapshot : Opened(o, s)
           \/ \E o \in OrderIds, t \in Machine : Moved(o, t)
  BY SalesWriters, PlaceOpens, CommitMoves

LEMMA SalesStep ==
    ASSUME TypeInv, [Next]_vars
    PROVE  \/ UNCHANGED sales
           \/ \E o \in OrderIds, s \in Snapshot : Opened(o, s)
           \/ \E o \in OrderIds : Settled(o)
           \/ \E o \in OrderIds : Returned(o)
           \/ \E o \in OrderIds, to \in Dead \cup {"AWAITING_PAYMENT"} : Ended(o, to)
  BY SalesMoves, MovedCases

-----------------------------------------------------------------------------
(* Coupons and events.                                                     *)

LEMMA CouponStep ==
    ASSUME TypeInv, [Next]_vars, CouponHeldByLiveOrders
    PROVE  CouponHeldByLiveOrders'
<1> USE DEF CouponHeldByLiveOrders, Dead
<1>1. CASE UNCHANGED sales
  BY <1>1 DEF sales
<1>2. ASSUME NEW o \in OrderIds, NEW s \in Snapshot, Opened(o, s)
      PROVE  CouponHeldByLiveOrders'
  BY <1>2 DEF Opened, TypeInv, TypeOK, Snapshot
<1>3. ASSUME NEW o \in OrderIds, Settled(o) \/ Returned(o)
      PROVE  CouponHeldByLiveOrders'
  BY <1>3 DEF Settled, Returned, Expirable, TypeInv, TypeOK
<1>4. ASSUME NEW o \in OrderIds, NEW to \in Dead \cup {"AWAITING_PAYMENT"}, Ended(o, to)
      PROVE  CouponHeldByLiveOrders'
  BY <1>4 DEF Ended, Expirable, TypeInv, TypeOK
<1> QED BY <1>1, <1>2, <1>3, <1>4, SalesStep

LEMMA EventsStep ==
    ASSUME TypeInv, [Next]_vars, EventsOnce
    PROVE  EventsOnce'
<1> DEFINE Once(x) ==
        /\ published[x]["paid"]     = IF status[x] \in {"PAID", "REFUNDED"} THEN 1 ELSE 0
        /\ published[x]["refunded"] = IF status[x] = "REFUNDED" THEN 1 ELSE 0
        /\ published[x]["expired"]  = IF status[x] = "EXPIRED" THEN 1 ELSE 0
<1>1. SUFFICES ASSUME NEW x \in OrderIds PROVE Once(x)'
  BY DEF EventsOnce
<1>2. Once(x)
  BY DEF EventsOnce
<1>3. /\ status \in [OrderIds -> Status \cup {"NONE"}]
      /\ published \in [OrderIds -> [OrderEvents -> Nat]]
  BY DEF TypeInv, TypeOK
<1> USE DEF OrderEvents
<1>4. CASE UNCHANGED sales
  BY <1>2, <1>4 DEF sales
<1>5. ASSUME NEW o \in OrderIds, NEW s \in Snapshot, Opened(o, s) PROVE Once(x)'
  BY <1>2, <1>3, <1>5 DEF Opened
<1>6. ASSUME NEW o \in OrderIds, Settled(o) PROVE Once(x)'
  BY <1>2, <1>3, <1>6 DEF Settled, Expirable
<1>7. ASSUME NEW o \in OrderIds, Returned(o) PROVE Once(x)'
  BY <1>2, <1>3, <1>7 DEF Returned
<1>8. ASSUME NEW o \in OrderIds, NEW to \in Dead \cup {"AWAITING_PAYMENT"}, Ended(o, to)
      PROVE  Once(x)'
  BY <1>2, <1>3, <1>8 DEF Ended, Dead, Expirable
<1> QED BY <1>4, <1>5, <1>6, <1>7, <1>8, SalesStep

-----------------------------------------------------------------------------
(* Access.                                                                 *)

\* The entitlement row of u for c after each of the two writes.
LEMMA SettledRows ==
    ASSUME TypeInv, NEW o \in OrderIds, Settled(o), NEW u \in Users, NEW c \in Courses
    PROVE  entitlement'[u][c] =
              IF u = snapshot[o].user /\ c \in snapshot[o].items
              THEN [status |-> "ACTIVE", order |-> o] ELSE entitlement[u][c]
  BY DEF TypeInv, TypeOK, Settled, Granted

LEMMA ReturnedRows ==
    ASSUME TypeInv, NEW o \in OrderIds, Returned(o), NEW u \in Users, NEW c \in Courses
    PROVE  entitlement'[u][c] =
              IF entitlement[u][c].status = "ACTIVE" /\ entitlement[u][c].order = o
              THEN [status |-> "REVOKED", order |-> o] ELSE entitlement[u][c]
<1>1. entitlement \in [Users -> [Courses -> Entitlement]] /\ entitlement[u][c] \in Entitlement
  BY DEF TypeInv, TypeOK
<1>2. (entitlement[u][c] = [status |-> "ACTIVE", order |-> o]) <=>
         (entitlement[u][c].status = "ACTIVE" /\ entitlement[u][c].order = o)
  BY <1>1 DEF Entitlement
<1> QED BY <1>1, <1>2 DEF Returned, Revoked

LEMMA AccessStep ==
    ASSUME TypeInv, [Next]_vars, AccessIsPaidFor
    PROVE  AccessIsPaidFor'
<1> DEFINE Paid(u, c) ==
        LET row == entitlement[u][c]
        IN  row.status = "ACTIVE" =>
                /\ row.order \in OrderIds
                /\ status[row.order] = "PAID"
                /\ snapshot[row.order].user = u
                /\ c \in snapshot[row.order].items
<1>1. SUFFICES ASSUME NEW u \in Users, NEW c \in Courses PROVE Paid(u, c)'
  BY DEF AccessIsPaidFor
<1>2. Paid(u, c)
  BY DEF AccessIsPaidFor
<1>3. status \in [OrderIds -> Status \cup {"NONE"}] /\ snapshot \in [OrderIds -> Snapshot]
  BY DEF TypeInv, TypeOK
<1>4. CASE UNCHANGED sales
  BY <1>2, <1>4 DEF sales
<1>5. ASSUME NEW o \in OrderIds, NEW s \in Snapshot, Opened(o, s) PROVE Paid(u, c)'
  BY <1>2, <1>3, <1>5 DEF Opened
<1>6. ASSUME NEW o \in OrderIds, Settled(o) PROVE Paid(u, c)'
  <2>1. entitlement'[u][c] = IF u = snapshot[o].user /\ c \in snapshot[o].items
                             THEN [status |-> "ACTIVE", order |-> o] ELSE entitlement[u][c]
    BY <1>6, SettledRows
  <2> QED BY <1>2, <1>3, <1>6, <2>1 DEF Settled, Expirable
<1>7. ASSUME NEW o \in OrderIds, Returned(o) PROVE Paid(u, c)'
  <2>1. entitlement'[u][c] =
           IF entitlement[u][c].status = "ACTIVE" /\ entitlement[u][c].order = o
           THEN [status |-> "REVOKED", order |-> o] ELSE entitlement[u][c]
    BY <1>7, ReturnedRows
  <2> QED BY <1>2, <1>3, <1>7, <2>1 DEF Returned
<1>8. ASSUME NEW o \in OrderIds, NEW to \in Dead \cup {"AWAITING_PAYMENT"}, Ended(o, to)
      PROVE  Paid(u, c)'
  BY <1>2, <1>3, <1>8 DEF Ended, Expirable
<1> QED BY <1>4, <1>5, <1>6, <1>7, <1>8, SalesStep

LEMMA ServedStep ==
    ASSUME TypeInv, [Next]_vars, PaidIsServed
    PROVE  PaidIsServed'
<1> DEFINE Served(x, c) ==
        LET row == entitlement[snapshot[x].user][c]
        IN  \/ row.status = "ACTIVE"
            \/ /\ row.status = "REVOKED"
               /\ row.order \in OrderIds \ {x}
               /\ status[row.order] = "REFUNDED"
<1>1. SUFFICES ASSUME NEW x \in OrderIds, status'[x] = "PAID", NEW c \in snapshot'[x].items
               PROVE  Served(x, c)'
  BY DEF PaidIsServed
<1>2. status \in [OrderIds -> Status \cup {"NONE"}] /\ snapshot \in [OrderIds -> Snapshot]
  BY DEF TypeInv, TypeOK
<1>3. snapshot[x].user \in Users /\ snapshot[x].items \in SUBSET Courses
  BY <1>2 DEF Snapshot
<1>4. status[x] = "PAID" /\ c \in snapshot[x].items => Served(x, c)
  BY DEF PaidIsServed
<1>5. CASE UNCHANGED sales
  BY <1>1, <1>4, <1>5 DEF sales
<1>6. ASSUME NEW o \in OrderIds, NEW s \in Snapshot, Opened(o, s) PROVE Served(x, c)'
  BY <1>1, <1>2, <1>4, <1>6 DEF Opened
<1>7. ASSUME NEW o \in OrderIds, Settled(o) PROVE Served(x, c)'
  <2>1. PICK u \in Users : u = snapshot[x].user
    BY <1>3
  <2>2. snapshot' = snapshot /\ c \in snapshot[x].items /\ c \in Courses
    BY <1>1, <1>3, <1>7 DEF Settled
  <2>3. entitlement'[u][c] = IF u = snapshot[o].user /\ c \in snapshot[o].items
                             THEN [status |-> "ACTIVE", order |-> o] ELSE entitlement[u][c]
    BY <1>7, <2>2, SettledRows
  <2>4. x # o => status[x] = "PAID"
    BY <1>1, <1>2, <1>7 DEF Settled
  <2>5. \A y \in OrderIds : status[y] = "REFUNDED" => status'[y] = "REFUNDED"
    BY <1>2, <1>7 DEF Settled, Expirable
  <2> QED BY <1>4, <2>1, <2>2, <2>3, <2>4, <2>5
<1>8. ASSUME NEW o \in OrderIds, Returned(o) PROVE Served(x, c)'
  <2>1. PICK u \in Users : u = snapshot[x].user
    BY <1>3
  <2>2. snapshot' = snapshot /\ c \in snapshot[x].items /\ c \in Courses
    BY <1>1, <1>3, <1>8 DEF Returned
  <2>3. entitlement'[u][c] =
           IF entitlement[u][c].status = "ACTIVE" /\ entitlement[u][c].order = o
           THEN [status |-> "REVOKED", order |-> o] ELSE entitlement[u][c]
    BY <1>8, <2>2, ReturnedRows
  <2>4. x # o /\ status[x] = "PAID" /\ status'[o] = "REFUNDED"
    BY <1>1, <1>2, <1>8 DEF Returned
  <2>5. \A y \in OrderIds : status[y] = "REFUNDED" => status'[y] = "REFUNDED"
    BY <1>2, <1>8 DEF Returned
  <2> QED BY <1>4, <1>8, <2>1, <2>2, <2>3, <2>4, <2>5
<1>9. ASSUME NEW o \in OrderIds, NEW to \in Dead \cup {"AWAITING_PAYMENT"}, Ended(o, to)
      PROVE  Served(x, c)'
  BY <1>1, <1>2, <1>4, <1>9 DEF Ended, Expirable, Dead
<1> QED BY <1>5, <1>6, <1>7, <1>8, <1>9, SalesStep

-----------------------------------------------------------------------------
(* The theorems about the order tables.                                    *)

SalesInv == /\ TypeInv
            /\ CouponHeldByLiveOrders
            /\ EventsOnce
            /\ AccessIsPaidFor
            /\ PaidIsServed

LEMMA SalesInit == Init => SalesInv
<1> SUFFICES ASSUME Init PROVE SalesInv
  OBVIOUS
<1>1. CouponHeldByLiveOrders
  BY DEF Init, CouponHeldByLiveOrders
<1>2. EventsOnce
  BY DEF Init, EventsOnce, OrderEvents
<1>3. AccessIsPaidFor
  BY DEF Init, AccessIsPaidFor
<1>4. PaidIsServed
  BY DEF Init, PaidIsServed
<1> QED BY <1>1, <1>2, <1>3, <1>4, TypeInit DEF SalesInv

LEMMA SalesInvariant == Spec => []SalesInv
<1>1. SalesInv /\ [Next]_vars => SalesInv'
  BY TypeStep, CouponStep, EventsStep, AccessStep, ServedStep DEF SalesInv
<1> QED BY <1>1, SalesInit, PTL DEF Spec

\* A coupon is held by exactly the orders that may still use it or have used
\* it: OrderService.apply gives it back on every un-paid ending, and nothing
\* else does.
THEOREM CouponsGivenBack == Spec => []CouponHeldByLiveOrders
  BY SalesInvariant, PTL DEF SalesInv

\* A settlement raises its event once, whoever reports it and however often.
THEOREM EventsRaisedOnce == Spec => []EventsOnce
  BY SalesInvariant, PTL DEF SalesInv

\* No entitlement row is ACTIVE without a PAID order behind it.
THEOREM AccessPaidFor == Spec => []AccessIsPaidFor
  BY SalesInvariant, PTL DEF SalesInv

\* A PAID order's courses can be watched unless a later order for the same
\* course took the row over and was refunded.
THEOREM PaidServed == Spec => []PaidIsServed
  BY SalesInvariant, PTL DEF SalesInv

\* Rows move along the machine, although writers decide on stale reads.
THEOREM MovesForward == Spec => ForwardOnly
<1> DEFINE Forward == \A o \in OrderIds : status'[o] # status[o] =>
                        \/ status[o] = "NONE" /\ status'[o] = "CREATED"
                        \/ /\ ~Terminal(status[o])
                           /\ \E t \in Machine : t.from = status[o] /\ t.to = status'[o]
<1>1. ASSUME TypeInv, [Next]_vars PROVE [Forward]_status
  <2>1. status \in [OrderIds -> Status \cup {"NONE"}]
    BY <1>1 DEF TypeInv, TypeOK
  <2>2. CASE UNCHANGED sales
    BY <2>2 DEF sales
  <2>3. ASSUME NEW o \in OrderIds, NEW s \in Snapshot, Opened(o, s) PROVE Forward
    BY <2>1, <2>3 DEF Opened
  <2>4. ASSUME NEW o \in OrderIds, NEW t \in Machine, Moved(o, t) PROVE Forward
    <3>1. status[o] = t.from /\ status' = [status EXCEPT ![o] = t.to]
      BY <2>4 DEF Moved, Settle, Refund, Apply, release
    <3> QED BY <2>1, <3>1 DEF Terminal
  <2> QED BY <1>1, <2>2, <2>3, <2>4, SalesMoves
<1>2. Spec => []TypeInv
  BY TypeInit, TypeStep, PTL DEF Spec
<1> QED BY <1>1, <1>2, PTL DEF Spec, ForwardOnly

\* A PAID order is never reopened, and its snapshot is never rewritten.
THEOREM PaidStaysPaid == Spec => PaidIsFinal
<1> DEFINE Final == \A o \in OrderIds : status[o] = "PAID" =>
                        /\ status'[o] \in {"PAID", "REFUNDED"}
                        /\ snapshot'[o] = snapshot[o]
<1>1. ASSUME TypeInv, [Next]_vars PROVE [Final]_<<status, snapshot>>
  <2>1. /\ status \in [OrderIds -> Status \cup {"NONE"}]
        /\ snapshot \in [OrderIds -> Snapshot]
    BY <1>1 DEF TypeInv, TypeOK
  <2>2. CASE UNCHANGED sales
    BY <2>2 DEF sales
  <2>3. ASSUME NEW o \in OrderIds, NEW s \in Snapshot, Opened(o, s) PROVE Final
    BY <2>1, <2>3 DEF Opened
  <2>4. ASSUME NEW o \in OrderIds, Settled(o) PROVE Final
    BY <2>1, <2>4 DEF Settled
  <2>5. ASSUME NEW o \in OrderIds, Returned(o) PROVE Final
    BY <2>1, <2>5 DEF Returned
  <2>6. ASSUME NEW o \in OrderIds, NEW to \in Dead \cup {"AWAITING_PAYMENT"}, Ended(o, to)
        PROVE  Final
    BY <2>1, <2>6 DEF Ended, Expirable
  <2> QED BY <1>1, <2>2, <2>3, <2>4, <2>5, <2>6, SalesStep
<1>2. Spec => []TypeInv
  BY TypeInit, TypeStep, PTL DEF Spec
<1> QED BY <1>1, <1>2, PTL DEF Spec, PaidIsFinal

-----------------------------------------------------------------------------
(* Money and access agree: nothing is PAID that was not captured, nothing  *)
(* REFUNDED that was not returned, every report of the provider finds its  *)
(* order, and no processed capture leaves one waiting.                     *)
(*                                                                         *)
(* The tables alone cannot carry these: a request decided on what it read  *)
(* statements ago.  JobGood says what is still true of it when it writes.  *)

\* What holds of a request or delivery j until its last statement.
JobGood(j) ==
    /\ j.event = None /\ j.pc \in {"createOrder", "link", "repay", "read", "commit"} =>
          status[j.order] # "NONE"
    /\ j.pc \in {"read", "commit"} =>
          /\ j.op = "submit"     => j.order \in linked
          /\ j.op = "settleFree" => snapshot[j.order].free
          /\ j.op = "capture"    => j.event # None /\ Captured(j.order)
          /\ j.op = "refund"     => snapshot[j.order].free \/ j.order \in returned
          /\ j.event # None      => j.op = OpOf(j.event.fact) /\ j.order \in linked
    /\ j.event # None => Emitted(j.event)
    /\ j.pc = "mark" /\ j.event.fact = "captured" /\ j.order \notin Foreign =>
          status[j.order] \notin {"CREATED", "AWAITING_PAYMENT"}

\* Who can be on a payment page, and for which orders.
Pages ==
    /\ \A o \in OrderIds, n \in Attempts :
          provider[o][n] # "none" => o \in payable \cup Foreign
    /\ payable \subseteq linked
    /\ \A o \in linked : status[o] # "NONE"
    /\ \A o \in payable : status[o] # "CREATED"

MoneyInv == /\ TypeInv
            /\ \A p \in Procs : JobGood(job[p])
            /\ Pages
            /\ \A e \in Events : claim[e] # "absent" => Emitted(e)
            /\ PaidMeansCaptured
            /\ RefundedMeansReturned
            /\ ProcessedCaptureSettles

LEMMA MoneyInit == Init => MoneyInv
<1> SUFFICES ASSUME Init PROVE MoneyInv
  OBVIOUS
<1>1. TypeInv
  BY TypeInit
<1>2. \A p \in Procs : JobGood(job[p])
  BY DEF Init, JobGood, Idle
<1>3. Pages
  BY DEF Init, Pages
<1>4. PaidMeansCaptured /\ RefundedMeansReturned /\ ProcessedCaptureSettles
  BY DEF Init, PaidMeansCaptured, RefundedMeansReturned, ProcessedCaptureSettles
<1>5. \A e \in Events : claim[e] # "absent" => Emitted(e)
  BY DEF Init
<1> QED BY <1>1, <1>2, <1>3, <1>4, <1>5 DEF MoneyInv

-----------------------------------------------------------------------------
(* What never goes back.                                                   *)

\* Provider order ids, payment pages, returned money and outcomes stay.
Grows ==
    /\ linked \subseteq linked' /\ payable \subseteq payable'
    /\ returned \subseteq returned'
    /\ \A x \in OrderIds, m \in Attempts :
          provider[x][m] # "none" => provider'[x][m] = provider[x][m]

LEMMA WorldGrows ==
    ASSUME TypeInv, [Next]_vars
    PROVE  Grows
<1> USE DEF Grows, world, orderTables
<1>1. CASE Shop
  BY <1>1 DEF Shop, AddToCart, RemoveFromCart, addItem, removeItem
<1>2. ASSUME NEW o \in OrderIds, DashboardRefund(o) PROVE Grows
  BY <1>2 DEF DashboardRefund
<1>3. ASSUME NEW o \in OrderIds, NEW n \in Attempts, NEW outcome \in {"failed", "captured"},
             Attempt(o, n, outcome)
      PROVE  Grows
  BY <1>3 DEF Attempt, TypeInv, TypeOK
<1>4. ASSUME NEW p \in Requests, Request(p) PROVE Grows
  BY <1>4 DEF Request, BeginCheckout, BeginCancel, BeginExpire, BeginRefund, RefuseOwned,
              Quote, Place, CreateProviderOrder, SetProviderOrderId, Repay, findExpirable,
              NewOrder, redeem, clear, SentBack
<1>5. ASSUME NEW p \in Hooks, NEW e \in Events, Deliver(p, e) PROVE Grows
  BY <1>5 DEF Deliver, ClaimEvent, Reclaim, AnswerDuplicate
<1>6. ASSUME NEW p \in Procs, Handle(p) \/ RecordError(p) \/ Crash(p) PROVE Grows
  BY <1>6 DEF Handle, Dispatch, ReadOrder, Commit, MarkProcessed, RecordError, Crash,
              Known, recordPayment
<1>7. CASE UNCHANGED vars
  BY <1>7 DEF vars
<1> QED BY <1>1, <1>2, <1>3, <1>4, <1>5, <1>6, <1>7 DEF Next, Pay

LEMMA Monotone ==
    ASSUME TypeInv, [Next]_vars, NEW o \in OrderIds
    PROVE  /\ Captured(o) => Captured(o)'
           /\ status[o] # "NONE" => status'[o] # "NONE" /\ snapshot'[o] = snapshot[o]
<1>1. Captured(o) => Captured(o)'
  BY WorldGrows DEF Captured, Grows
<1>2. status[o] # "NONE" => status'[o] # "NONE" /\ snapshot'[o] = snapshot[o]
  <2>1. /\ status \in [OrderIds -> Status \cup {"NONE"}]
        /\ snapshot \in [OrderIds -> Snapshot]
    BY DEF TypeInv, TypeOK
  <2> USE <2>1
  <2>2. CASE UNCHANGED sales
    BY <2>2 DEF sales
  <2>3. ASSUME NEW x \in OrderIds, NEW s \in Snapshot, Opened(x, s) PROVE <1>2
    BY <2>3 DEF Opened
  <2>4. ASSUME NEW x \in OrderIds, Settled(x) PROVE <1>2
    BY <2>4 DEF Settled
  <2>5. ASSUME NEW x \in OrderIds, Returned(x) PROVE <1>2
    BY <2>5 DEF Returned
  <2>6. ASSUME NEW x \in OrderIds, NEW to \in Dead \cup {"AWAITING_PAYMENT"}, Ended(x, to)
        PROVE  <1>2
    BY <2>6 DEF Ended, Dead
  <2> QED BY <2>2, <2>3, <2>4, <2>5, <2>6, SalesStep
<1> QED BY <1>1, <1>2

LEMMA EmittedStays ==
    ASSUME TypeInv, [Next]_vars, NEW e \in Events, Emitted(e)
    PROVE  Emitted(e)'
<1>1. e.order \in OrderIds /\ e.attempt \in Attempts /\ e.fact \in Facts
  BY DEF Events
<1> QED BY <1>1, WorldGrows DEF Emitted, Grows, Facts

\* An order that has left CREATED, or both waiting statuses, does not return.
LEMMA NeverBack ==
    ASSUME TypeInv, [Next]_vars, NEW o \in OrderIds
    PROVE  /\ status[o] \notin {"NONE", "CREATED"} => status'[o] \notin {"NONE", "CREATED"}
           /\ ~Waiting(o) => ~Waiting(o)'
<1> DEFINE Stays == /\ status[o] \notin {"NONE", "CREATED"} => status'[o] \notin {"NONE", "CREATED"}
                    /\ ~Waiting(o) => ~Waiting(o)'
<1>1. status \in [OrderIds -> Status \cup {"NONE"}]
  BY DEF TypeInv, TypeOK
<1> USE <1>1 DEF Waiting
<1>2. CASE UNCHANGED sales
  BY <1>2 DEF sales
<1>3. ASSUME NEW x \in OrderIds, NEW s \in Snapshot, Opened(x, s) PROVE Stays
  BY <1>3 DEF Opened
<1>4. ASSUME NEW x \in OrderIds, Settled(x) PROVE Stays
  BY <1>4 DEF Settled
<1>5. ASSUME NEW x \in OrderIds, Returned(x) PROVE Stays
  BY <1>5 DEF Returned
<1>6. ASSUME NEW x \in OrderIds, NEW to \in Dead \cup {"AWAITING_PAYMENT"}, Ended(x, to)
      PROVE  Stays
  BY <1>6 DEF Ended, Dead, Expirable
<1> QED BY <1>2, <1>3, <1>4, <1>5, <1>6, SalesStep

\* An event about one of our orders is about a payable, hence a placed one.
LEMMA EmittedIsPayable ==
    ASSUME Pages, NEW e \in Events, Emitted(e), e.order \notin Foreign
    PROVE  /\ e.order \in payable /\ e.order \in linked
           /\ status[e.order] \notin {"NONE", "CREATED"}
<1>1. e.order \in OrderIds /\ e.attempt \in Attempts /\ e.fact \in Facts
  BY DEF Events
<1>2. provider[e.order][e.attempt] # "none"
  BY <1>1 DEF Emitted, Facts
<1> QED BY <1>1, <1>2 DEF Pages

\* What is good about a request stays so whatever another one does.
LEMMA GoodStays ==
    ASSUME MoneyInv, [Next]_vars, NEW p \in Procs, NEW j \in Job, JobOK(p, j), JobGood(j)
    PROVE  JobGood(j)'
<1> USE DEF JobGood
<1>1. TypeInv /\ Pages
  BY DEF MoneyInv
<1>2. j.event # None => Emitted(j.event)'
  BY <1>1, EmittedStays DEF JobOK
<1>3. j.event = None /\ j.pc \in {"createOrder", "link", "repay", "read", "commit"} =>
         status'[j.order] # "NONE"
  BY <1>1, Monotone DEF JobOK
<1>4. j.pc \in {"read", "commit"} =>
         /\ j.op = "submit"     => j.order \in linked'
         /\ j.op = "settleFree" => snapshot'[j.order].free
         /\ j.op = "capture"    => j.event # None /\ Captured(j.order)'
         /\ j.op = "refund"     => snapshot'[j.order].free \/ j.order \in returned'
         /\ j.event # None      => j.op = OpOf(j.event.fact) /\ j.order \in linked'
  <2>1. j.pc \in {"read", "commit"} => j.order \in OrderIds
    BY DEF JobOK
  <2>2. j.pc \in {"read", "commit"} => status[j.order] # "NONE"
    BY <1>1 DEF Pages
  <2> QED BY <1>1, <2>1, <2>2, WorldGrows, Monotone DEF Grows
<1>5. j.pc = "mark" /\ j.event.fact = "captured" /\ j.order \notin Foreign =>
         status'[j.order] \notin {"CREATED", "AWAITING_PAYMENT"}
  <2>1. SUFFICES ASSUME j.pc = "mark", j.event.fact = "captured", j.order \notin Foreign
                 PROVE  status'[j.order] \notin {"CREATED", "AWAITING_PAYMENT"}
    OBVIOUS
  <2>2. j.event \in Events /\ j.event # None /\ j.order = j.event.order
    BY <2>1 DEF JobOK
  <2>3. j.order \in OrderIds /\ ~Waiting(j.order)
    BY <1>1, <2>1, <2>2, EmittedIsPayable DEF Waiting, Events
  <2> QED BY <1>1, <2>3, NeverBack DEF Waiting
<1> QED BY <1>2, <1>3, <1>4, <1>5

-----------------------------------------------------------------------------
(* What each step establishes for the request that takes it.               *)

LEMMA IdleGood == JobGood(Idle)'
  BY DEF JobGood, Idle

LEMMA GoodOfBegins ==
    ASSUME MoneyInv, NEW p \in Procs,
           \/ \E u \in Users : BeginCheckout(p, u)
           \/ \E o \in OrderIds : BeginCancel(p, o) \/ BeginExpire(p, o) \/ BeginRefund(p, o)
    PROVE  JobGood(job[p])'
<1>1. p \in DOMAIN job
  BY DEF MoneyInv, TypeInv, TypeOK
<1>2. ASSUME NEW u \in Users, BeginCheckout(p, u) PROVE JobGood(job[p])'
  BY <1>1, <1>2 DEF BeginCheckout, Start, Idle, JobGood
<1>3. ASSUME NEW o \in OrderIds, BeginCancel(p, o) PROVE JobGood(job[p])'
  BY <1>1, <1>3 DEF BeginCancel, Start, Idle, JobGood, orderTables
<1>4. ASSUME NEW o \in OrderIds, BeginExpire(p, o) PROVE JobGood(job[p])'
  BY <1>1, <1>4 DEF BeginExpire, Start, Idle, JobGood, orderTables, Expirable, findExpirable
<1>5. ASSUME NEW o \in OrderIds, BeginRefund(p, o) PROVE JobGood(job[p])'
  <2>1. status[o] = "PAID" /\ status' = status /\ snapshot' = snapshot
    BY <1>5 DEF BeginRefund, orderTables
  <2>2. CASE snapshot[o].free /\ Start(p, [Idle EXCEPT !.pc = "read", !.op = "refund", !.order = o])
    BY <1>1, <2>1, <2>2 DEF Start, Idle, JobGood
  <2>3. CASE Start(p, [Idle EXCEPT !.pc = "repay", !.order = o])
    BY <1>1, <2>1, <2>3 DEF Start, Idle, JobGood
  <2> QED BY <1>5, <2>2, <2>3 DEF BeginRefund
<1> QED BY <1>2, <1>3, <1>4, <1>5

LEMMA GoodOfCheckout ==
    ASSUME MoneyInv, NEW p \in Procs,
           \/ RefuseOwned(p) \/ Quote(p) \/ Place(p)
           \/ CreateProviderOrder(p) \/ SetProviderOrderId(p) \/ Repay(p)
    PROVE  JobGood(job[p])'
<1>1. job \in [Procs -> Job] /\ job[p] \in Job /\ JobOK(p, job[p]) /\ JobGood(job[p])
  BY DEF MoneyInv, TypeInv, TypeOK, JobsOK
<1>2. CASE RefuseOwned(p) \/ Quote(p)
  BY <1>1, <1>2, IdleGood DEF RefuseOwned, Quote, JobGood, JobOK, Job
<1>3. CASE Place(p)
  <2>1. PICK o \in OrderIds \ Foreign, zero \in ZeroTotals :
         /\ status' = [status EXCEPT ![o] = "CREATED"]
         /\ snapshot' = [snapshot EXCEPT ![o] =
               [user |-> job[p].user, items |-> job[p].items,
                coupon |-> job[p].coupon, free |-> zero]]
         /\ job' = [job EXCEPT ![p] =
               IF zero
               THEN [Idle EXCEPT !.pc = "read", !.op = "settleFree", !.order = o]
               ELSE [Idle EXCEPT !.pc = "createOrder", !.order = o]]
    BY <1>3 DEF Place, NewOrder, redeem, clear
  <2>2. status'[o] = "CREATED" /\ snapshot'[o].free = zero
    BY <2>1 DEF MoneyInv, TypeInv, TypeOK
  <2> QED BY <1>1, <2>1, <2>2 DEF JobGood, Idle
<1>4. CASE CreateProviderOrder(p)
  BY <1>1, <1>4 DEF CreateProviderOrder, JobGood, JobOK, Job, orderTables
<1>5. CASE SetProviderOrderId(p)
  BY <1>1, <1>5 DEF SetProviderOrderId, JobGood, JobOK, Job
<1>6. CASE Repay(p)
  BY <1>1, <1>6 DEF Repay, JobGood, JobOK, Job, orderTables, SentBack
<1> QED BY <1>2, <1>3, <1>4, <1>5, <1>6

LEMMA GoodOfClaims ==
    ASSUME MoneyInv, NEW p \in Procs, NEW e \in Events, ClaimEvent(p, e) \/ Reclaim(p, e)
    PROVE  JobGood(job[p])'
<1>1. p \in DOMAIN job /\ e # None
  BY CommerceAssumption DEF MoneyInv, TypeInv, TypeOK
<1>2. Emitted(e)'
  BY DEF ClaimEvent, Reclaim, Due, Emitted, world
<1> QED BY <1>1, <1>2 DEF ClaimEvent, Reclaim, Start, JobGood, Idle

LEMMA GoodOfDispatch ==
    ASSUME MoneyInv, NEW p \in Procs, Dispatch(p)
    PROVE  JobGood(job[p])'
<1>1. job \in [Procs -> Job] /\ job[p] \in Job /\ JobOK(p, job[p]) /\ JobGood(job[p]) /\ Pages
  BY DEF MoneyInv, TypeInv, TypeOK, JobsOK
<1>2. PICK e \in Events : e = job[p].event /\ e # None
  BY <1>1 DEF Dispatch, JobOK, Known, recordPayment
<1>3. job[p].order = e.order /\ Emitted(e) /\ Emitted(e)'
  <2>1. job[p].order = e.order /\ Emitted(e)
    BY <1>1, <1>2 DEF Dispatch, JobOK, JobGood, Known, recordPayment
  <2> QED BY <2>1 DEF Dispatch, Emitted, world, Known, recordPayment
<1>4. e.fact \in Facts /\ e.order \in OrderIds /\ e.attempt \in Attempts
  BY DEF Events
<1>5. e.order \notin Foreign => e.order \in linked
  BY <1>1, <1>3, EmittedIsPayable
<1>6. CASE e.order \notin linked
  BY <1>1, <1>2, <1>3, <1>5, <1>6 DEF Dispatch, JobGood, Job, Known, recordPayment
<1>7. CASE e.order \in linked
  <2>1. e.fact = "captured" => Captured(e.order)'
    BY <1>3, <1>4 DEF Dispatch, Emitted, Captured, world, Known, recordPayment
  <2>2. e.fact = "refunded" => e.order \in returned'
    BY <1>3 DEF Dispatch, Emitted, world, Known, recordPayment
  <2>3. job'[p] = [job[p] EXCEPT !.pc = "read", !.op = OpOf(e.fact)]
    BY <1>1, <1>2, <1>7 DEF Dispatch, Known, recordPayment
  <2>4. /\ job'[p].pc = "read" /\ job'[p].op = OpOf(e.fact)
        /\ job'[p].event = e /\ job'[p].order = e.order
    BY <1>1, <1>2, <1>3, <2>3 DEF Job
  <2>5. linked' = linked
    BY DEF Dispatch, orderTables, Known, recordPayment
  <2> QED BY <1>2, <1>3, <1>4, <1>7, <2>1, <2>2, <2>4, <2>5 DEF JobGood, OpOf, Facts
<1> QED BY <1>6, <1>7

\* A waiting order always has its capture edge, for a webhook as well.
LEMMA CaptureEdge ==
    ASSUME NEW source
    PROVE  TransitionFor("AWAITING_PAYMENT", "capture", source) # {}
<1> DEFINE t == Edge("AWAITING_PAYMENT", "capture", "PAID", "paid", TRUE)
<1>1. t \in Machine
  BY DEF Machine
<1>2. t \in TransitionFor("AWAITING_PAYMENT", "capture", source)
  BY <1>1 DEF TransitionFor, Edge
<1> QED BY <1>2

\* A delivery of a capture that has nothing left to do but mark its event.
LEMMA GoodAfter ==
    ASSUME NEW p \in Procs, NEW j \in Job, JobOK(p, j), JobGood(j),
           j.pc \in {"read", "commit"}, j.event # None => Emitted(j.event)',
           j.op = "capture" /\ j.order \notin Foreign =>
              status'[j.order] \notin {"CREATED", "AWAITING_PAYMENT"}
    PROVE  JobGood(After(j))'
<1>1. CASE j.event = None
  BY <1>1, IdleGood DEF After
<1>2. CASE j.event # None
  <2> DEFINE k == [j EXCEPT !.pc = "mark"]
  <2>1. k.pc = "mark" /\ k.event = j.event /\ k.order = j.order
    BY DEF Job
  <2>2. j.event.fact = "captured" => j.op = "capture"
    BY <1>2 DEF JobGood, OpOf
  <2>3. JobGood(k)'
    BY <1>2, <2>1, <2>2 DEF JobGood
  <2> QED BY <1>2, <2>3 DEF After
<1> QED BY <1>1, <1>2

LEMMA GoodOfRead ==
    ASSUME MoneyInv, NEW p \in Procs, ReadOrder(p)
    PROVE  JobGood(job[p])'
<1>1. job \in [Procs -> Job] /\ job[p] \in Job /\ JobOK(p, job[p]) /\ JobGood(job[p]) /\ Pages
  BY DEF MoneyInv, TypeInv, TypeOK, JobsOK
<1>2. PICK j \in Job : j = job[p] /\ j.pc = "read" /\ JobOK(p, j) /\ JobGood(j)
  BY <1>1 DEF ReadOrder
<1>3. UNCHANGED <<status, snapshot, linked, returned, provider>>
  BY DEF ReadOrder, orderTables, world
<1>4. CASE job'[p] = [j EXCEPT !.pc = "commit", !.seen = status[j.order]]
  <2>1. /\ job'[p].pc = "commit" /\ job'[p].event = j.event
        /\ job'[p].order = j.order /\ job'[p].op = j.op
    BY <1>4 DEF Job
  <2> QED BY <1>2, <1>3, <2>1 DEF JobGood, Captured, Emitted
<1>5. CASE /\ job'[p] = After(j)
           /\ TransitionFor(status[j.order], j.op, Source(j)) = {}
  <2>1. j.event # None => Emitted(j.event)'
    BY <1>2, <1>3 DEF JobGood, Emitted
  <2>2. j.op = "capture" /\ j.order \notin Foreign =>
           status'[j.order] \notin {"CREATED", "AWAITING_PAYMENT"}
    <3>1. SUFFICES ASSUME j.op = "capture", j.order \notin Foreign
                   PROVE  status[j.order] \notin {"CREATED", "AWAITING_PAYMENT"}
      BY <1>3
    <3>2. status[j.order] # "AWAITING_PAYMENT"
      BY <1>5, <3>1, CaptureEdge
    <3>3. j.event \in Events /\ j.order = j.event.order /\ Emitted(j.event)
      BY <1>2, <3>1 DEF JobGood, JobOK
    <3> QED BY <1>1, <3>1, <3>2, <3>3, EmittedIsPayable
  <2>3. JobGood(After(j))'
    BY <1>2, <2>1, <2>2, GoodAfter
  <2> QED BY <1>5, <2>3
<1> QED BY <1>1, <1>2, <1>4, <1>5 DEF ReadOrder

LEMMA GoodOfCommit ==
    ASSUME MoneyInv, NEW p \in Procs, Commit(p)
    PROVE  JobGood(job[p])'
<1>1. job \in [Procs -> Job] /\ job[p] \in Job /\ JobOK(p, job[p]) /\ JobGood(job[p]) /\ Pages
  BY DEF MoneyInv, TypeInv, TypeOK, JobsOK
<1>2. PICK j \in Job : j = job[p] /\ j.pc = "commit" /\ JobOK(p, j) /\ JobGood(j)
  BY <1>1 DEF Commit
<1>3. PICK t \in TransitionFor(j.seen, j.op, Source(j)) :
         \/ RowMatches(j.order, t.from) /\ (Settle(j.order, t) \/ Refund(j.order, t) \/ Apply(j.order, t))
         \/ ~RowMatches(j.order, t.from) /\ status' = status
  BY <1>2 DEF Commit
<1>4. j.event # None => Emitted(j.event)'
  BY <1>2 DEF JobGood, Emitted, Commit
<1>5. j.op = "capture" /\ j.order \notin Foreign =>
         status'[j.order] \notin {"CREATED", "AWAITING_PAYMENT"}
  <2>1. SUFFICES ASSUME j.op = "capture", j.order \notin Foreign
                 PROVE  status'[j.order] \notin {"CREATED", "AWAITING_PAYMENT"}
    OBVIOUS
  <2>2. t.from = "AWAITING_PAYMENT" /\ t.to = "PAID" /\ t.name = "capture"
    BY <1>3, <2>1, MachineEdges DEF TransitionFor
  <2>3. j.event \in Events /\ j.order = j.event.order /\ Emitted(j.event) /\ j.order \in OrderIds
    BY <1>2, <2>1 DEF JobGood, JobOK
  <2>4. status[j.order] # "CREATED"
    BY <1>1, <2>1, <2>3, EmittedIsPayable
  <2>5. CASE ~RowMatches(j.order, t.from) /\ status' = status
    BY <2>2, <2>4, <2>5 DEF RowMatches
  <2>6. CASE Settle(j.order, t) \/ Refund(j.order, t) \/ Apply(j.order, t)
    BY <2>2, <2>3, <2>6 DEF Settle, Refund, Apply, MoneyInv, TypeInv, TypeOK, release
  <2> QED BY <1>3, <2>5, <2>6
<1>6. JobGood(After(j))'
  BY <1>2, <1>4, <1>5, GoodAfter
<1> QED BY <1>1, <1>2, <1>6 DEF Commit

LEMMA GoodStep ==
    ASSUME MoneyInv, [Next]_vars, NEW q \in Procs
    PROVE  JobGood(job[q])'
<1>1. job \in [Procs -> Job] /\ job[q] \in Job /\ JobOK(q, job[q]) /\ JobGood(job[q])
  BY DEF MoneyInv, TypeInv, TypeOK, JobsOK
<1>2. job'[q] = job[q] => JobGood(job[q])'
  <2>1. SUFFICES ASSUME job'[q] = job[q] PROVE JobGood(job[q])'
    OBVIOUS
  <2>2. PICK j \in Job : j = job[q] /\ JobOK(q, j) /\ JobGood(j)
    BY <1>1
  <2>3. JobGood(j)'
    BY <2>2, GoodStays
  <2> QED BY <2>1, <2>2, <2>3 DEF JobGood
<1>3. CASE Shop \/ Pay
  BY <1>2, <1>3 DEF Shop, Pay, AddToCart, RemoveFromCart, Attempt, DashboardRefund,
                    addItem, removeItem
<1>4. ASSUME NEW p \in Requests, Request(p) PROVE JobGood(job[q])'
  <2>1. CASE p = q
    BY <1>4, <2>1, GoodOfBegins, GoodOfCheckout DEF Request
  <2>2. CASE p # q
    BY <1>1, <1>2, <1>4, <2>2
       DEF Request, BeginCheckout, BeginCancel, BeginExpire, BeginRefund, RefuseOwned,
           Quote, Place, CreateProviderOrder, SetProviderOrderId, Repay, Start,
           findExpirable, NewOrder, redeem, clear, SentBack
  <2> QED BY <2>1, <2>2
<1>5. ASSUME NEW p \in Hooks, NEW e \in Events, Deliver(p, e) PROVE JobGood(job[q])'
  <2>1. CASE p = q
    BY <1>2, <1>5, <2>1, GoodOfClaims DEF Deliver, AnswerDuplicate
  <2>2. CASE p # q
    BY <1>1, <1>2, <1>5, <2>2 DEF Deliver, ClaimEvent, Reclaim, AnswerDuplicate, Start
  <2> QED BY <2>1, <2>2
<1>6. ASSUME NEW p \in Procs, Handle(p) \/ RecordError(p) \/ Crash(p) PROVE JobGood(job[q])'
  <2>1. CASE p = q /\ Handle(p) /\ ~MarkProcessed(p)
    BY <2>1, GoodOfDispatch, GoodOfRead, GoodOfCommit DEF Handle
  <2>2. CASE p = q /\ (MarkProcessed(p) \/ RecordError(p) \/ Crash(p))
    BY <1>1, <2>2, IdleGood DEF MarkProcessed, RecordError, Crash
  <2>3. CASE p # q
    BY <1>1, <1>2, <1>6, <2>3
       DEF Handle, Dispatch, ReadOrder, Commit, MarkProcessed, RecordError, Crash, Known,
           recordPayment
  <2> QED BY <1>6, <2>1, <2>2, <2>3
<1>7. CASE UNCHANGED vars
  BY <1>2, <1>7 DEF vars
<1> QED BY <1>3, <1>4, <1>5, <1>6, <1>7 DEF Next

-----------------------------------------------------------------------------
(* The rest of the invariant.                                              *)

LEMMA CommitAgrees ==
    ASSUME MoneyInv, NEW p \in Procs, Commit(p), NEW o \in OrderIds
    PROVE  /\ status'[o] \in {"PAID", "REFUNDED"} => snapshot'[o].free \/ Captured(o)'
           /\ status'[o] = "REFUNDED" => snapshot'[o].free \/ o \in returned'
           /\ o \in payable' => o \in linked' /\ status'[o] # "CREATED"
<1>1. job \in [Procs -> Job] /\ job[p] \in Job /\ JobOK(p, job[p]) /\ JobGood(job[p]) /\ Pages
  BY DEF MoneyInv, TypeInv, TypeOK, JobsOK
<1>2. PICK j \in Job : j = job[p] /\ j.pc = "commit" /\ JobOK(p, j) /\ JobGood(j)
  BY <1>1 DEF Commit
<1>3. PICK t \in TransitionFor(j.seen, j.op, Source(j)) :
         \/ RowMatches(j.order, t.from) /\ (Settle(j.order, t) \/ Refund(j.order, t) \/ Apply(j.order, t))
         \/ ~RowMatches(j.order, t.from) /\ status' = status
  BY <1>2 DEF Commit
<1>4. t \in Machine /\ t.name = j.op /\ j.order \in OrderIds
  BY <1>2, <1>3 DEF TransitionFor, JobOK
<1>5. UNCHANGED <<snapshot, provider, returned, linked>>
  BY DEF Commit
<1>6. Captured(o)' <=> Captured(o)
  BY <1>5 DEF Captured
<1>7. status \in [OrderIds -> Status \cup {"NONE"}]
  BY DEF MoneyInv, TypeInv, TypeOK
<1>8. status' = status \/ (status[j.order] = t.from /\ status' = [status EXCEPT ![j.order] = t.to])
  BY <1>3 DEF Settle, Refund, Apply, RowMatches, release
<1>9. status'[o] \in {"PAID", "REFUNDED"} => snapshot'[o].free \/ Captured(o)'
  <2>1. CASE status'[o] = status[o]
    BY <1>5, <1>6, <2>1 DEF MoneyInv, PaidMeansCaptured
  <2>2. CASE status'[o] # status[o]
    <3>1. o = j.order /\ status[o] = t.from /\ status'[o] = t.to
      BY <1>4, <1>7, <1>8, <2>2
    <3>2. CASE t.name = "refund"
      BY <1>5, <1>6, <3>1, <3>2, <1>4, MachineEdges DEF MoneyInv, PaidMeansCaptured
    <3>3. CASE t.name \in {"capture", "settleFree"}
      BY <1>2, <1>4, <1>5, <1>6, <3>1, <3>3 DEF JobGood
    <3> QED BY <1>4, <3>1, <3>2, <3>3, MachineEdges
  <2> QED BY <2>1, <2>2
<1>10. status'[o] = "REFUNDED" => snapshot'[o].free \/ o \in returned'
  <2>1. CASE status'[o] = status[o]
    BY <1>5, <2>1 DEF MoneyInv, RefundedMeansReturned
  <2>2. CASE status'[o] # status[o]
    <3>1. o = j.order /\ status'[o] = t.to
      BY <1>4, <1>7, <1>8, <2>2
    <3>2. CASE t.name = "refund"
      BY <1>2, <1>4, <1>5, <3>1, <3>2 DEF JobGood
    <3> QED BY <1>4, <3>1, <3>2, MachineEdges
  <2> QED BY <2>1, <2>2
<1>11. o \in payable' => o \in linked' /\ status'[o] # "CREATED"
  <2>1. \A x \in OrderIds : status[x] # "CREATED" => status'[x] # "CREATED"
    BY <1>4, <1>7, <1>8, MachineEdges
  <2>2. CASE o \in payable
    BY <1>1, <1>5, <2>1, <2>2 DEF Pages
  <2>3. CASE j.op = "submit" /\ o = j.order
    <3>1. t.from = "CREATED" /\ t.to = "AWAITING_PAYMENT"
      BY <1>4, <2>3, MachineEdges
    <3>2. status'[o] # "CREATED"
      BY <1>3, <1>4, <1>7, <2>3, <3>1 DEF RowMatches, Settle, Refund, Apply, release
    <3> QED BY <1>2, <1>5, <2>3, <3>2 DEF JobGood
  <2> QED BY <1>2, <2>2, <2>3 DEF Commit
<1> QED BY <1>9, <1>10, <1>11

LEMMA OthersAgree ==
    ASSUME MoneyInv, [Next]_vars, ~(\E p \in Procs : Commit(p)), NEW o \in OrderIds
    PROVE  /\ status'[o] \in {"PAID", "REFUNDED"} => snapshot'[o].free \/ Captured(o)'
           /\ status'[o] = "REFUNDED" => snapshot'[o].free \/ o \in returned'
<1>1. /\ status \in [OrderIds -> Status \cup {"NONE"}]
      /\ snapshot \in [OrderIds -> Snapshot]
  BY DEF MoneyInv, TypeInv, TypeOK
<1>2. status'[o] = status[o] \/ status'[o] = "CREATED"
  <2>1. ASSUME NEW p \in Procs, Place(p) PROVE <1>2
    BY <1>1, <2>1 DEF Place, NewOrder, redeem, clear
  <2> QED BY <2>1, SalesWriters DEF MoneyInv, sales
<1>3. status[o] \in {"PAID", "REFUNDED"} =>
         /\ snapshot'[o] = snapshot[o]
         /\ Captured(o) => Captured(o)'
         /\ o \in returned => o \in returned'
  BY Monotone, WorldGrows DEF MoneyInv, Grows
<1> QED BY <1>2, <1>3 DEF MoneyInv, PaidMeansCaptured, RefundedMeansReturned

\* Each of the other tables has few writers.
Writers ==
    /\ payable' = payable \/ \E p \in Procs : Commit(p)
    /\ linked' = linked \/ \E p \in Procs : SetProviderOrderId(p)
    /\ \/ provider' = provider
       \/ \E o \in OrderIds, n \in Attempts, outcome \in {"failed", "captured"} :
             Attempt(o, n, outcome)
    /\ \/ claim' = claim
       \/ \E p \in Hooks, e \in Events : ClaimEvent(p, e) \/ Reclaim(p, e)
       \/ \E p \in Procs : MarkProcessed(p) \/ RecordError(p)

LEMMA FewWriters == ASSUME [Next]_vars PROVE Writers
<1> USE DEF Writers, world, orderTables
<1>1. CASE Shop
  BY <1>1 DEF Shop, AddToCart, RemoveFromCart, addItem, removeItem
<1>2. CASE Pay
  BY <1>2 DEF Pay, Attempt, DashboardRefund
<1>3. ASSUME NEW p \in Requests, Request(p) PROVE Writers
  <2>1. p \in Procs
    BY DEF Procs
  <2> QED BY <1>3, <2>1
         DEF Request, BeginCheckout, BeginCancel, BeginExpire, BeginRefund, RefuseOwned,
             Quote, Place, CreateProviderOrder, Repay, SetProviderOrderId, findExpirable,
             NewOrder, redeem, clear, SentBack
<1>4. ASSUME NEW p \in Hooks, NEW e \in Events, Deliver(p, e) PROVE Writers
  BY <1>4 DEF Deliver, AnswerDuplicate, ClaimEvent, Reclaim
<1>5. ASSUME NEW p \in Procs, Handle(p) \/ RecordError(p) \/ Crash(p) PROVE Writers
  BY <1>5 DEF Handle, Dispatch, ReadOrder, Commit, MarkProcessed, RecordError, Crash,
              Known, recordPayment
<1>6. CASE UNCHANGED vars
  BY <1>6 DEF vars
<1> QED BY <1>1, <1>2, <1>3, <1>4, <1>5, <1>6 DEF Next

LEMMA PagesStep ==
    ASSUME MoneyInv, [Next]_vars
    PROVE  Pages'
<1>1. TypeInv /\ Pages
  BY DEF MoneyInv
<1>2. ASSUME NEW o \in OrderIds, NEW n \in Attempts, provider'[o][n] # "none"
      PROVE  o \in payable' \cup Foreign
  <2>1. CASE provider' = provider
    BY <1>1, <1>2, <2>1, WorldGrows DEF Pages, Grows
  <2>2. ASSUME NEW x \in OrderIds, NEW m \in Attempts, NEW outcome \in {"failed", "captured"},
               Attempt(x, m, outcome)
        PROVE  o \in payable' \cup Foreign
    BY <1>1, <1>2, <2>2 DEF Attempt, Pages, TypeInv, TypeOK
  <2> QED BY <2>1, <2>2, FewWriters DEF Writers
<1>3. ASSUME NEW o \in payable' PROVE o \in linked' /\ status'[o] # "CREATED"
  <2>1. o \in OrderIds
    BY <1>1, TypeStep DEF TypeInv, TypeOK
  <2>2. CASE payable' = payable
    <3>1. status[o] \notin {"NONE", "CREATED"}
      BY <1>1, <2>2 DEF Pages
    <3> QED BY <1>1, <2>1, <2>2, <3>1, WorldGrows, NeverBack DEF Pages, Grows
  <2>3. ASSUME NEW p \in Procs, Commit(p) PROVE o \in linked' /\ status'[o] # "CREATED"
    BY <2>1, <2>3, CommitAgrees
  <2> QED BY <2>2, <2>3, FewWriters DEF Writers
<1>4. ASSUME NEW o \in linked' PROVE status'[o] # "NONE"
  <2>1. o \in OrderIds
    BY <1>1, TypeStep DEF TypeInv, TypeOK
  <2>2. status[o] # "NONE"
    <3>1. CASE linked' = linked
      BY <1>1, <3>1 DEF Pages
    <3>2. ASSUME NEW p \in Procs, SetProviderOrderId(p) PROVE status[o] # "NONE"
      BY <1>1, <3>2 DEF SetProviderOrderId, Pages, MoneyInv, JobGood, TypeInv, JobsOK, JobOK
    <3> QED BY <3>1, <3>2, FewWriters DEF Writers
  <2> QED BY <1>1, <2>1, <2>2, Monotone
<1> QED BY <1>2, <1>3, <1>4 DEF Pages

LEMMA ClaimedStep ==
    ASSUME MoneyInv, [Next]_vars, NEW e \in Events, claim'[e] # "absent"
    PROVE  Emitted(e)'
<1>1. TypeInv /\ claim \in [Events -> {"absent", "held", "failed", "processed"}]
  BY DEF MoneyInv, TypeInv, TypeOK
<1>2. Emitted(e)
  <2>1. CASE claim'[e] = claim[e]
    BY <2>1 DEF MoneyInv
  <2>2. ASSUME NEW p \in Hooks, NEW x \in Events, ClaimEvent(p, x) \/ Reclaim(p, x),
               claim'[e] # claim[e]
        PROVE  Emitted(e)
    BY <1>1, <2>2 DEF ClaimEvent, Reclaim, Due
  <2>3. ASSUME NEW p \in Procs, MarkProcessed(p) \/ RecordError(p), claim'[e] # claim[e]
        PROVE  Emitted(e)
    <3>1. e = job[p].event /\ job[p].event # None
      BY <1>1, <2>3, CommerceAssumption DEF MarkProcessed, RecordError
    <3> QED BY <3>1 DEF MoneyInv, JobGood
  <2> QED BY <2>1, <2>2, <2>3, FewWriters DEF Writers
<1> QED BY <1>1, <1>2, EmittedStays

LEMMA SettlesStep ==
    ASSUME MoneyInv, [Next]_vars
    PROVE  ProcessedCaptureSettles'
<1>1. TypeInv /\ Pages /\ claim \in [Events -> {"absent", "held", "failed", "processed"}]
  BY DEF MoneyInv, TypeInv, TypeOK
<1>2. SUFFICES ASSUME NEW e \in Events, claim'[e] = "processed", e.fact = "captured",
                      e.order \notin Foreign
               PROVE  status'[e.order] \notin {"CREATED", "AWAITING_PAYMENT"}
  BY DEF ProcessedCaptureSettles
<1>3. e.order \in OrderIds
  BY DEF Events
<1>4. Emitted(e) /\ status[e.order] \notin {"CREATED", "AWAITING_PAYMENT"}
  <2>1. CASE claim'[e] = claim[e]
    BY <1>2, <2>1 DEF MoneyInv, ProcessedCaptureSettles
  <2>2. ASSUME NEW p \in Hooks, NEW x \in Events, ClaimEvent(p, x) \/ Reclaim(p, x)
        PROVE  claim'[e] = claim[e]
    BY <1>1, <1>2, <2>2 DEF ClaimEvent, Reclaim
  <2>3. ASSUME NEW p \in Procs, MarkProcessed(p) \/ RecordError(p), claim'[e] # claim[e]
        PROVE  <1>4
    <3>1. e = job[p].event /\ job[p].event # None /\ MarkProcessed(p)
      BY <1>1, <1>2, <2>3, CommerceAssumption DEF MarkProcessed, RecordError
    <3>2. job[p].pc = "mark" /\ job[p].order = e.order
      BY <3>1 DEF MarkProcessed, MoneyInv, TypeInv, JobsOK, JobOK
    <3> QED BY <1>2, <3>1, <3>2 DEF MoneyInv, JobGood
  <2> QED BY <2>1, <2>2, <2>3, FewWriters DEF Writers
<1>5. ~Waiting(e.order)
  BY <1>1, <1>2, <1>4, EmittedIsPayable DEF Waiting
<1> QED BY <1>1, <1>3, <1>5, NeverBack DEF Waiting

-----------------------------------------------------------------------------
(* The theorems.                                                           *)

LEMMA MoneyStep == MoneyInv /\ [Next]_vars => MoneyInv'
<1> SUFFICES ASSUME MoneyInv, [Next]_vars PROVE MoneyInv'
  OBVIOUS
<1>1. TypeInv'
  BY TypeStep DEF MoneyInv
<1>2. \A o \in OrderIds :
         /\ status'[o] \in {"PAID", "REFUNDED"} => snapshot'[o].free \/ Captured(o)'
         /\ status'[o] = "REFUNDED" => snapshot'[o].free \/ o \in returned'
  BY CommitAgrees, OthersAgree
<1>3. PaidMeansCaptured' /\ RefundedMeansReturned'
  BY <1>2 DEF PaidMeansCaptured, RefundedMeansReturned
<1> QED BY <1>1, <1>3, GoodStep, PagesStep, ClaimedStep, SettlesStep DEF MoneyInv

LEMMA MoneyInvariant == Spec => []MoneyInv
  BY MoneyInit, MoneyStep, PTL DEF Spec

\* No interleaving of checkouts, webhooks, sweeps and crashes makes an order
\* PAID that is neither free nor captured by the provider.
THEOREM PaidOnlyIfCaptured == Spec => []PaidMeansCaptured
  BY MoneyInvariant, PTL DEF MoneyInv

\* Access is taken away by a refund only after the money went back.
THEOREM RefundedOnlyIfReturned == Spec => []RefundedMeansReturned
  BY MoneyInvariant, PTL DEF MoneyInv

\* The provider's id is stored before a learner can pay, so no event about an
\* order of ours is ever deferred (ADR-0021).
THEOREM EventsFindTheirOrder == Spec => []WebhookFindsOrder
<1>1. MoneyInv => WebhookFindsOrder
  BY EmittedIsPayable DEF MoneyInv, WebhookFindsOrder
<1> QED BY <1>1, MoneyInvariant, PTL

\* A capture marked processed has settled its order or found it over.
THEOREM ProcessedCapturesSettle == Spec => []ProcessedCaptureSettles
  BY MoneyInvariant, PTL DEF MoneyInv

-----------------------------------------------------------------------------
(* The ledger.                                                             *)

LEMMA LedgerInit == Init => Ledger!Init
<1> SUFFICES ASSUME Init PROVE Ledger!Init
  OBVIOUS
<1>1. phase = [o \in OrderIds |-> "absent"]
  BY DEF Init, phase
<1>2. holder = [u \in Users |-> [c \in Courses |-> None]]
  BY DEF Init, holder
<1>3. offer \in [OrderIds -> Ledger!Offer]
  BY CommerceAssumption DEF Init, Blank, offer, Ledger!Offer
<1> QED BY <1>1, <1>2, <1>3 DEF Ledger!Init

\* The phase of one order, and the holder of one seat.
LEMMA PhaseMoves ==
    ASSUME NEW o \in OrderIds, NEW to,
           status \in [OrderIds -> Status \cup {"NONE"}],
           status' = [status EXCEPT ![o] = to]
    PROVE  phase' = [phase EXCEPT ![o] =
              CASE to = "NONE" -> "absent"
                [] to \in {"CREATED", "AWAITING_PAYMENT"} -> "open"
                [] to = "PAID" -> "paid"
                [] to = "REFUNDED" -> "refunded"
                [] OTHER -> "closed"]
  BY DEF phase

LEMMA OpenedOpens ==
    ASSUME TypeInv, NEW o \in OrderIds, NEW s \in Snapshot, Opened(o, s)
    PROVE  Ledger!Open(o)
<1>1. status \in [OrderIds -> Status \cup {"NONE"}]
  BY DEF TypeInv, TypeOK
<1>2. phase[o] = "absent"
  BY DEF Opened, phase
<1>3. phase' = [phase EXCEPT ![o] = "open"]
  BY <1>1, PhaseMoves DEF Opened
<1>4. holder' = holder
  BY DEF Opened, holder
<1>5. offer' = [offer EXCEPT ![o] = [user |-> s.user, items |-> s.items]]
  BY DEF TypeInv, TypeOK, Opened, offer
<1>6. [user |-> s.user, items |-> s.items] \in Ledger!Offer
  BY DEF Snapshot, Ledger!Offer
<1> QED BY <1>2, <1>3, <1>4, <1>5, <1>6 DEF Ledger!Open, Ledger!Move

LEMMA EndedCloses ==
    ASSUME TypeInv, NEW o \in OrderIds, NEW to \in Dead \cup {"AWAITING_PAYMENT"}, Ended(o, to)
    PROVE  Ledger!Close(o) \/ UNCHANGED <<phase, offer, holder>>
<1>1. status \in [OrderIds -> Status \cup {"NONE"}]
  BY DEF TypeInv, TypeOK
<1>2. phase[o] = "open"
  BY DEF Ended, phase, Expirable
<1>3. holder' = holder /\ offer' = offer
  BY DEF Ended, holder, offer
<1>4. CASE to = "AWAITING_PAYMENT"
  <2>1. phase' = [phase EXCEPT ![o] = "open"]
    BY <1>1, <1>4, PhaseMoves DEF Ended
  <2>2. phase' = phase
    BY <1>2, <2>1 DEF phase
  <2> QED BY <1>3, <2>2
<1>5. CASE to \in Dead
  <2>1. phase' = [phase EXCEPT ![o] = "closed"]
    BY <1>1, <1>5, PhaseMoves DEF Ended, Dead
  <2> QED BY <1>2, <1>3, <2>1 DEF Ledger!Close, Ledger!Move
<1> QED BY <1>4, <1>5

LEMMA SettledPays ==
    ASSUME TypeInv, NEW o \in OrderIds, Settled(o)
    PROVE  Ledger!Pay(o)
<1>1. status \in [OrderIds -> Status \cup {"NONE"}] /\ snapshot[o] \in Snapshot
  BY DEF TypeInv, TypeOK
<1>2. phase[o] = "open"
  BY DEF Settled, phase, Expirable
<1>3. phase' = [phase EXCEPT ![o] = "paid"]
  BY <1>1, PhaseMoves DEF Settled
<1> DEFINE u == offer[o].user  items == offer[o].items
<1>4. u = snapshot[o].user /\ items = snapshot[o].items /\ u \in Users /\ items \in SUBSET Courses
  BY <1>1 DEF Snapshot, offer
<1>5. holder' = [holder EXCEPT ![u] = [c \in Courses |-> IF c \in items THEN o ELSE @[c]]]
  <2>1. \A v \in Users, c \in Courses :
           entitlement'[v][c] = IF v = u /\ c \in items
                                THEN [status |-> "ACTIVE", order |-> o] ELSE entitlement[v][c]
    BY <1>4, SettledRows
  <2>2. holder' = [v \in Users |-> [c \in Courses |->
                      IF v = u /\ c \in items THEN o ELSE holder[v][c]]]
    BY <2>1 DEF holder
  <2>3. holder = [v \in Users |-> holder[v]] /\ \A v \in Users : holder[v] = [c \in Courses |-> holder[v][c]]
    BY DEF holder
  <2> QED BY <2>2, <2>3
<1>6. offer' = offer
  BY DEF Settled, offer
<1> QED BY <1>2, <1>3, <1>5, <1>6 DEF Ledger!Pay, Ledger!Move

LEMMA ReturnedRefunds ==
    ASSUME TypeInv, NEW o \in OrderIds, Returned(o)
    PROVE  Ledger!Refund(o)
<1>1. status \in [OrderIds -> Status \cup {"NONE"}]
  BY DEF TypeInv, TypeOK
<1>2. phase[o] = "paid"
  BY DEF Returned, phase
<1>3. phase' = [phase EXCEPT ![o] = "refunded"]
  BY <1>1, PhaseMoves DEF Returned
<1>4. holder' = [v \in Users |-> [c \in Courses |->
                    IF holder[v][c] = o THEN None ELSE holder[v][c]]]
  <2>1. \A v \in Users, c \in Courses :
           entitlement'[v][c] =
              IF entitlement[v][c].status = "ACTIVE" /\ entitlement[v][c].order = o
              THEN [status |-> "REVOKED", order |-> o] ELSE entitlement[v][c]
    BY ReturnedRows
  <2>2. None # o
    BY CommerceAssumption
  <2> QED BY <2>1, <2>2 DEF holder
<1>5. offer' = offer
  BY DEF Returned, offer
<1> QED BY <1>2, <1>3, <1>4, <1>5 DEF Ledger!Refund, Ledger!Move

LEMMA LedgerStep ==
    ASSUME TypeInv, [Next]_vars
    PROVE  [Ledger!Next]_<<phase, offer, holder>>
<1>1. CASE UNCHANGED sales
  BY <1>1 DEF sales, phase, offer, holder
<1> QED BY <1>1, SalesStep, OpenedOpens, EndedCloses, SettledPays, ReturnedRefunds
        DEF Ledger!Next

\* Whatever is in flight, learners see an ideal ledger: an order is paid and
\* its seats taken in one step, and a refund frees exactly the seats it holds.
THEOREM LedgerImplemented == Spec => ImplementsLedger
<1>1. Spec => []TypeInv
  BY TypeInit, TypeStep, PTL DEF Spec
<1> QED BY <1>1, LedgerInit, LedgerStep, PTL DEF Spec, ImplementsLedger, Ledger!Spec

-----------------------------------------------------------------------------
(* The claim on an event.                                                  *)

\* What a step may do to the events being worked on: nobody takes a new one;
\* a hook takes one nobody holds; or one that is held is let go.
Keeps ==
    /\ claim' = claim
    /\ \A q \in Hooks : job'[q].event # None => job'[q].event = job[q].event

Takes(p, e) ==
    /\ claim[e] # "held"
    /\ claim' = [claim EXCEPT ![e] = "held"]
    /\ job'[p].event = e
    /\ \A q \in Hooks \ {p} : job'[q] = job[q]

LetsGo(p) ==
    /\ p \in Hooks /\ job[p].event # None /\ job'[p].event = None
    /\ \E c \in {"failed", "processed"} : claim' = [claim EXCEPT ![job[p].event] = c]
    /\ \A q \in Hooks \ {p} : job'[q] = job[q]

LEMMA EventMoves ==
    ASSUME TypeInv, [Next]_vars
    PROVE  \/ Keeps
           \/ \E p \in Hooks, e \in Events : Takes(p, e)
           \/ \E p \in Procs : LetsGo(p)
<1>1. job \in [Procs -> Job] /\ \A p \in Procs : JobOK(p, job[p])
  BY DEF TypeInv, TypeOK, JobsOK
<1>2. Hooks \subseteq Procs /\ Hooks \cap Requests = {}
  BY CommerceAssumption DEF Procs
<1>3. CASE Shop \/ Pay
  BY <1>3 DEF Shop, Pay, AddToCart, RemoveFromCart, Attempt, DashboardRefund, Keeps,
              addItem, removeItem
<1>4. ASSUME NEW p \in Requests, Request(p) PROVE Keeps
  BY <1>1, <1>2, <1>4
     DEF Keeps, Request, BeginCheckout, BeginCancel, BeginExpire, BeginRefund, RefuseOwned,
         Quote, Place, CreateProviderOrder, SetProviderOrderId, Repay, Start,
         findExpirable, NewOrder, redeem, clear, SentBack
<1>5. ASSUME NEW p \in Hooks, NEW e \in Events, ClaimEvent(p, e) \/ Reclaim(p, e)
      PROVE  Takes(p, e)
  BY <1>1, <1>2, <1>5 DEF ClaimEvent, Reclaim, Reclaimable, Start, Idle, Takes
<1>6. ASSUME NEW p \in Hooks, NEW e \in Events, AnswerDuplicate(p, e) PROVE Keeps
  BY <1>6 DEF AnswerDuplicate, Keeps
<1>7. ASSUME NEW p \in Procs, Dispatch(p) \/ ReadOrder(p) \/ Commit(p) \/ Crash(p) PROVE Keeps
  <2>1. claim' = claim
    BY <1>7 DEF Dispatch, ReadOrder, Commit, Crash, Known, recordPayment
  <2>2. \A q \in Procs \ {p} : job'[q] = job[q]
    BY <1>1, <1>7 DEF Dispatch, ReadOrder, Commit, Crash, Known, recordPayment
  <2>3. job'[p].event # None => job'[p].event = job[p].event
    BY <1>1, <1>7 DEF Dispatch, ReadOrder, Commit, Crash, After, Idle, Job, Known,
                      recordPayment
  <2> QED BY <1>2, <2>1, <2>2, <2>3 DEF Keeps
<1>8. ASSUME NEW p \in Procs, MarkProcessed(p) \/ RecordError(p) PROVE LetsGo(p)
  BY <1>1, <1>2, <1>8 DEF MarkProcessed, RecordError, LetsGo, JobOK, Idle
<1>9. CASE UNCHANGED vars
  BY <1>9 DEF vars, Keeps
<1> QED BY <1>3, <1>4, <1>5, <1>6, <1>7, <1>8, <1>9 DEF Next, Deliver, Handle

LEMMA HolderStep ==
    ASSUME TypeInv, [Next]_vars, OneHolder
    PROVE  OneHolder'
<1>1. /\ claim \in [Events -> {"absent", "held", "failed", "processed"}]
      /\ \A p \in Hooks : job[p].event # None => job[p].event \in Events
  BY DEF TypeInv, TypeOK, JobsOK, JobOK, Procs
<1>2. CASE Keeps
  BY <1>2 DEF Keeps, OneHolder
<1>3. ASSUME NEW p \in Hooks, NEW e \in Events, Takes(p, e) PROVE OneHolder'
  BY <1>1, <1>3 DEF Takes, OneHolder
<1>4. ASSUME NEW p \in Procs, LetsGo(p) PROVE OneHolder'
  BY <1>1, <1>4 DEF LetsGo, OneHolder
<1> QED BY <1>2, <1>3, <1>4, EventMoves

\* The insert and the conditional reclaim are claims: two deliveries of one
\* event, re-claims of failed ones included, never work on it at once.
THEOREM OneHolderAlways == Spec => []OneHolder
<1>1. Init => OneHolder
  BY DEF Init, OneHolder, Idle, Procs
<1> QED BY <1>1, TypeInit, TypeStep, HolderStep, PTL DEF Spec

-----------------------------------------------------------------------------
(* Over-redemption.                                                        *)

\* A step gives redemptions back, or admits a checkout while one is left, or
\* turns an admitted checkout into a redemption.
Shrinks == redeemed' \subseteq redeemed /\ Redeeming' \subseteq Redeeming

Admits == redeemed' = redeemed /\ Cardinality(redeemed) < MaxRedemptions

Redeems(p) ==
    /\ p \in Redeeming /\ Redeeming' \subseteq Redeeming \ {p}
    /\ \E o \in OrderIds : redeemed' = redeemed \cup {o}

LEMMA RedeemMoves ==
    ASSUME TypeInv, [Next]_vars
    PROVE  Shrinks \/ Admits \/ \E p \in Requests : Redeems(p)
<1>1. job \in [Procs -> Job]
  BY DEF TypeInv, TypeOK
<1>2. ASSUME \A q \in Procs : job'[q].pc = "place" => job'[q] = job[q]
      PROVE  Redeeming' \subseteq Redeeming
  BY <1>2 DEF Redeeming, Procs
<1>3. CASE Shop \/ Pay
  BY <1>3 DEF Shop, Pay, AddToCart, RemoveFromCart, Attempt, DashboardRefund,
              orderTables, Shrinks, Redeeming, addItem, removeItem
<1>4. ASSUME NEW p \in Requests, Request(p), ~Quote(p), ~Place(p) PROVE Shrinks
  <2>1. \A q \in Procs : job'[q].pc = "place" => job'[q] = job[q]
    <3>1. CASE RefuseOwned(p)
      BY <1>1, <3>1 DEF RefuseOwned, Idle, Job
    <3>2. CASE CreateProviderOrder(p) \/ SetProviderOrderId(p) \/ Repay(p)
      BY <1>1, <3>2 DEF CreateProviderOrder, SetProviderOrderId, Repay, Job, SentBack
    <3>3. ASSUME NEW u \in Users, BeginCheckout(p, u) PROVE <2>1
      BY <1>1, <3>3 DEF BeginCheckout, Start, Idle
    <3>4. ASSUME NEW o \in OrderIds, BeginCancel(p, o) \/ BeginExpire(p, o) \/ BeginRefund(p, o)
          PROVE  <2>1
      <4>1. CASE BeginCancel(p, o)
        BY <1>1, <4>1 DEF BeginCancel, Start, Idle
      <4>2. CASE BeginExpire(p, o)
        BY <1>1, <4>2 DEF BeginExpire, Start, Idle
      <4>3. CASE BeginRefund(p, o)
        BY <1>1, <4>3 DEF BeginRefund, Start, Idle
      <4> QED BY <3>4, <4>1, <4>2, <4>3
    <3> QED BY <1>4, <3>1, <3>2, <3>3, <3>4 DEF Request
  <2>2. redeemed' = redeemed
    BY <1>4 DEF Request, BeginCheckout, BeginCancel, BeginExpire, BeginRefund,
                RefuseOwned, CreateProviderOrder, SetProviderOrderId, Repay, orderTables,
                findExpirable, SentBack
  <2> QED BY <1>2, <2>1, <2>2 DEF Shrinks
<1>5. ASSUME NEW p \in Requests, Quote(p) PROVE Shrinks \/ Admits
  <2>1. redeemed' = redeemed
    BY <1>5 DEF Quote, orderTables
  <2>2. CASE job[p].coupon /\ WithinLimits(job[p].user)
    BY <2>1, <2>2 DEF Admits, WithinLimits, countRedemptions
  <2>3. CASE ~job[p].coupon \/ ~WithinLimits(job[p].user)
    <3>1. \A q \in Procs : job'[q].pc = "place" /\ job'[q].coupon => job'[q] = job[q]
      BY <1>1, <1>5, <2>3 DEF Quote, Idle, Job
    <3> QED BY <2>1, <3>1 DEF Shrinks, Redeeming, Procs
  <2> QED BY <2>2, <2>3
<1>6. ASSUME NEW p \in Requests, Place(p) PROVE Shrinks \/ Redeems(p)
  <2>1. PICK o \in OrderIds :
           redeemed' = IF job[p].coupon THEN redeemed \cup {o} ELSE redeemed
    BY <1>6 DEF Place, NewOrder, redeem, clear
  <2>2. job'[p].pc # "place" /\ \A q \in Requests \ {p} : job'[q] = job[q]
    BY <1>1, <1>6 DEF Place, Idle, Procs, NewOrder, redeem, clear
  <2>3. Redeeming' \subseteq Redeeming \ {p}
    BY <2>2 DEF Redeeming
  <2>4. job[p].coupon => p \in Redeeming
    BY <1>6 DEF Place, Redeeming, NewOrder, redeem, clear
  <2> QED BY <2>1, <2>3, <2>4 DEF Shrinks, Redeems
<1>7. ASSUME NEW p \in Hooks, NEW e \in Events, Deliver(p, e) PROVE Shrinks
  <2>1. \A q \in Procs : job'[q].pc = "place" => job'[q] = job[q]
    BY <1>1, <1>7 DEF Deliver, ClaimEvent, Reclaim, AnswerDuplicate, Start, Idle
  <2>2. redeemed' = redeemed
    BY <1>7 DEF Deliver, ClaimEvent, Reclaim, AnswerDuplicate, orderTables
  <2> QED BY <1>2, <2>1, <2>2 DEF Shrinks
<1>8. ASSUME NEW p \in Procs, Handle(p) \/ RecordError(p) \/ Crash(p) PROVE Shrinks
  <2>1. \A q \in Procs : job'[q].pc = "place" => job'[q] = job[q]
    BY <1>1, <1>8 DEF Handle, Dispatch, ReadOrder, Commit, MarkProcessed, RecordError,
                      Crash, After, Idle, Job, Known, recordPayment
  <2>2. redeemed' \subseteq redeemed
    BY <1>8 DEF Handle, Dispatch, ReadOrder, Commit, MarkProcessed, RecordError, Crash,
                Settle, Refund, Apply, orderTables, Known, recordPayment, release
  <2> QED BY <1>2, <2>1, <2>2 DEF Shrinks
<1>9. CASE UNCHANGED vars
  BY <1>9 DEF vars, Shrinks, Redeeming
<1> QED BY <1>3, <1>4, <1>5, <1>6, <1>7, <1>8, <1>9 DEF Next, Procs

LEMMA Finite ==
    ASSUME TypeInv
    PROVE  /\ IsFiniteSet(redeemed) /\ Cardinality(redeemed) \in Nat
           /\ IsFiniteSet(Redeeming) /\ Cardinality(Redeeming) \in Nat
           /\ Cardinality(Redeeming) <= Cardinality(Requests)
           /\ Cardinality(Requests) \in Nat /\ Cardinality(Requests) >= 1
<1>1. redeemed \in SUBSET OrderIds /\ Redeeming \in SUBSET Requests
  BY DEF TypeInv, TypeOK, Redeeming
<1>2. IsFiniteSet(OrderIds) /\ IsFiniteSet(Requests) /\ Requests # {}
  BY CommerceAssumption, FS_Subset DEF Procs
<1> QED BY <1>1, <1>2, FS_Subset, FS_CardinalityType, FS_EmptySet

LEMMA OverRedemptionStep ==
    ASSUME TypeInv, [Next]_vars, OverRedemptionBounded
    PROVE  OverRedemptionBounded'
<1>1. TypeInv'
  BY TypeStep
<1>2. /\ IsFiniteSet(redeemed) /\ Cardinality(redeemed) \in Nat
      /\ IsFiniteSet(Redeeming) /\ Cardinality(Redeeming) \in Nat
      /\ Cardinality(Requests) \in Nat /\ MaxRedemptions \in Nat
  BY Finite, CommerceAssumption
<1>3. /\ Cardinality(redeemed') \in Nat /\ Cardinality(Redeeming') \in Nat
      /\ Cardinality(Redeeming') <= Cardinality(Requests)
  <2>1. redeemed' \in SUBSET OrderIds /\ Redeeming' \in SUBSET Requests
    BY <1>1 DEF TypeInv, TypeOK, Redeeming
  <2>2. IsFiniteSet(OrderIds) /\ IsFiniteSet(Requests)
    BY CommerceAssumption, FS_Subset DEF Procs
  <2> QED BY <2>1, <2>2, FS_Subset, FS_CardinalityType
<1> USE DEF OverRedemptionBounded
<1>4. CASE Shrinks
  <2>1. Cardinality(redeemed') <= Cardinality(redeemed)
    BY <1>2, <1>4, FS_Subset DEF Shrinks
  <2>2. Cardinality(Redeeming') <= Cardinality(Redeeming)
    BY <1>2, <1>4, FS_Subset DEF Shrinks
  <2> QED BY <1>2, <1>3, <2>1, <2>2
<1>5. CASE Admits
  BY <1>2, <1>3, <1>5 DEF Admits
<1>6. ASSUME NEW p \in Requests, Redeems(p) PROVE OverRedemptionBounded'
  <2>1. Cardinality(redeemed') <= Cardinality(redeemed) + 1
    <3>1. PICK o \in OrderIds : redeemed' = redeemed \cup {o}
      BY <1>6 DEF Redeems
    <3>2. Cardinality(redeemed \cup {o}) =
             IF o \in redeemed THEN Cardinality(redeemed) ELSE Cardinality(redeemed) + 1
      BY <1>2, FS_AddElement
    <3> QED BY <1>2, <3>1, <3>2
  <2>2. Cardinality(Redeeming \ {p}) = Cardinality(Redeeming) - 1 /\ IsFiniteSet(Redeeming \ {p})
    BY <1>2, <1>6, FS_RemoveElement DEF Redeems
  <2>3. Cardinality(Redeeming') <= Cardinality(Redeeming \ {p})
    BY <2>2, <1>6, FS_Subset DEF Redeems
  <2> QED BY <1>2, <1>3, <2>1, <2>2, <2>3
<1> QED BY <1>4, <1>5, <1>6, RedeemMoves

\* Counting and redeeming are two statements of a READ COMMITTED transaction,
\* so the cap can be passed -- by at most one redemption per other process.
THEOREM OverRedemptionIsBounded == Spec => []OverRedemptionBounded
<1>1. Init => OverRedemptionBounded
  <2> SUFFICES ASSUME Init PROVE OverRedemptionBounded
    OBVIOUS
  <2>1. redeemed = {} /\ Redeeming = {}
    BY DEF Init, Redeeming, Idle, Procs
  <2>2. Cardinality(Requests) \in Nat /\ Cardinality(Requests) >= 1 /\ MaxRedemptions \in Nat
    BY TypeInit, Finite, CommerceAssumption
  <2> QED BY <2>1, <2>2, FS_EmptySet DEF OverRedemptionBounded
<1> QED BY <1>1, TypeInit, TypeStep, OverRedemptionStep, PTL DEF Spec
===============================================================================
