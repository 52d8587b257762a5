-------------------------- MODULE StorefrontProperties --------------------------
(***************************************************************************)
(* What a visitor of the storefront may rely on.                           *)
(***************************************************************************)
EXTENDS Storefront

CONSTANT Coupons               \* coupons an administrator may have made

Coupon == [active : BOOLEAN, startsAt : Nat \cup {None}, endsAt : Nat \cup {None},
           maxRedemptions : Nat \cup {None}, perUserLimit : Nat, courseIds : SUBSET Courses,
           kind : {"PERCENT", "FIXED"}, value : Nat, currency : {"INR", "USD", None}]
ASSUME CouponsAssumption ==
    Coupons \subseteq Coupon /\ None \notin Coupon /\ BasisPoints \in Nat \ {0}

-----------------------------------------------------------------------------
\* Rows, the walk and what it was shown hold values of their types; a cursor is
\* of the sort it is used with.
StorefrontTypeOK ==
    /\ courseRow \in [Courses -> Row] /\ clock \in Nat /\ edits \in Nat
    /\ served \in [Courses -> Nat] /\ steady \subseteq Courses
    /\ \/ walk \in [pc : {"idle", "done"}]
       \/ /\ walk \in [pc : {"walking"}, query : Queries, cursor : CursorPayload \cup {None}]
          /\ walk.cursor # None => walk.cursor.sort = walk.query.sort

\* A course whose place in the list does not change during a walk is on exactly
\* one page of it: never on two, never between two, whatever else is published,
\* withdrawn, priced or edited meanwhile, and however many courses share its
\* price or its millisecond (cursor.ts: after, against orderByFor). Nor is
\* a course listed to somebody whose request for its page would be a 404
\* (findBySlug, against list and listMine).
Reached(c) == \/ walk.pc = "done"
              \/ walk.cursor # None /\ c \notin after(walk.query.sort, walk.cursor)
WalkIsExact ==
    walk.pc # "idle" =>
        /\ \A c \in steady : served[c] = IF Reached(c) THEN 1 ELSE 0
        /\ walk.pc = "walking" =>
            \A c \in ToSet(Found(walk.query, walk.cursor)) : findBySlug(c, walk.query.viewer) = {c}

\* A quote adds up whatever is in the cart: the lines sum to the total to the
\* last unit, no line bears more than it costs, a line the coupon does not cover
\* bears nothing, and a coupon takes off exactly what it says, no more than the
\* lines it covers are worth, and only while every one of its rules admits it
\* (pricing.service.ts, coupon-rules.ts, money.ts: allocateDiscount). A walk
\* changes no price: what courses may cost is what they may cost before one.
Promised(coupon, eligible) ==
    LET worth == IF coupon.kind = "PERCENT" THEN (eligible * coupon.value) \div BasisPoints
                 ELSE coupon.value
    IN  IF worth > eligible THEN eligible ELSE worth
Admitted(coupon, uses) ==
    /\ coupon.active /\ (coupon.kind = "FIXED" => coupon.currency = "INR")
    /\ coupon.startsAt # None => coupon.startsAt <= clock
    /\ coupon.endsAt # None => clock < coupon.endsAt
    /\ coupon.maxRedemptions # None => uses.global < coupon.maxRedemptions
    /\ uses.mine < coupon.perUserLimit
AddsUp(q, coupon, uses) ==
    LET every == DOMAIN q.lines
        covered == IF coupon = None THEN {} ELSE EligibleLines(coupon, q.lines)
        eligible == Worth(q.lines, covered)
    IN  /\ q.totalMinor = Worth(q.lines, every) - Borne(q.lines, every)
        /\ q.totalMinor = q.subtotalMinor - q.discountMinor
        /\ \A i \in every : q.lines[i].discountMinor \in 0..q.lines[i].unitPriceMinor
        /\ Borne(q.lines, every \ covered) = 0
        /\ q.discountMinor = IF coupon # None /\ eligible > 0 /\ Admitted(coupon, uses)
                             THEN Promised(coupon, eligible) ELSE 0
QuotesAddUp ==
    walk.pc = "idle" => \A cart \in SUBSET Courses, coupon \in Coupons \cup {None}, used \in {0, 1} :
        LET courses == [i \in 1..Cardinality(cart) |->
                          LET c == SetToSeq(cart)[i]
                          IN  [id |-> c, priceMinor |-> courseRow[c].priceMinor, currency |-> "INR"]]
            uses == [global |-> used, mine |-> used]
        IN  AddsUp(quote(courses, coupon, uses, clock), coupon, uses)
=============================================================================
