-------------------------------- MODULE Pricing --------------------------------
(***************************************************************************)
(* What a set of courses costs (PricingService, coupon-rules, money): a    *)
(* pure function of the lines, a coupon, its redemptions and the clock.    *)
(* Amounts are counts of the smallest unit. A line is a record with a      *)
(* course, its unitPriceMinor and the discountMinor it bears.              *)
(***************************************************************************)
EXTENDS Integers, Sequences, FiniteSets, SequencesExt, FiniteSetsExt

CONSTANTS BasisPoints,         \* BASIS_POINTS: what a whole is divided into
          None                 \* a null column, and no coupon

\* The units the amounts are made of, each under its line; a sum is how many.
Units(amounts) == UNION {{i} \X (1..amounts[i]) : i \in DOMAIN amounts}
Sum(amounts) == Cardinality(Units(amounts))

percentOff(amount, points) == (amount * points) \div BasisPoints
clampDiscount(discount, subtotal) == Max({0, Min({discount, subtotal})})

\* The lines from the largest to the smallest, equal ones in order.
LargestFirst(amounts, i, j) == amounts[i] > amounts[j] \/ (amounts[i] = amounts[j] /\ i < j)

\* What proportional shares leave over goes out one unit at a time, passing over
\* a line that is full. Each share lost less than a unit, so one round is enough.
BugHandOut(shares, amounts, left) == shares
HandOut(shares, amounts, left) ==
    LET open == {i \in DOMAIN amounts : shares[i] < amounts[i]}
        before(i) == {j \in open : LargestFirst(amounts, j, i)}
    IN  [i \in DOMAIN amounts |->
            IF i \in open /\ Cardinality(before(i)) < left THEN shares[i] + 1 ELSE shares[i]]

allocateDiscount(amounts, discount) ==
    LET subtotal == Sum(amounts)
        capped == clampDiscount(discount, subtotal)
        shares == [i \in DOMAIN amounts |-> (amounts[i] * capped) \div subtotal]
    IN  IF subtotal <= 0 \/ discount <= 0 THEN [i \in DOMAIN amounts |-> 0]
        ELSE HandOut(shares, amounts, capped - Sum(shares))

-----------------------------------------------------------------------------
(* Coupons.                                                                *)

\* eligibleItems: no courses named means every course.
Eligible(coupon, line) == coupon.courseIds = {} \/ line.courseId \in coupon.courseIds
EligibleLines(coupon, lines) == {i \in DOMAIN lines : Eligible(coupon, lines[i])}

\* RULES, in order; each pair is a reason and whether it rejects.
Rules(coupon, ctx) ==
    << <<"INACTIVE", ~coupon.active>>,
       <<"NOT_STARTED", coupon.startsAt # None /\ coupon.startsAt > ctx.now>>,
       <<"EXPIRED", coupon.endsAt # None /\ coupon.endsAt <= ctx.now>>,
       <<"CURRENCY_MISMATCH", coupon.kind = "FIXED" /\ coupon.currency # ctx.currency>>,
       <<"NOT_APPLICABLE", ctx.eligible <= 0>>,
       <<"FULLY_REDEEMED", coupon.maxRedemptions # None /\ ctx.global >= coupon.maxRedemptions>>,
       <<"ALREADY_USED", ctx.mine >= coupon.perUserLimit>> >>

applyCoupon(coupon, ctx) ==
    LET rules == Rules(coupon, ctx)
        rejecting == {k \in DOMAIN rules : rules[k][2]}
        raw == IF coupon.kind = "PERCENT" THEN percentOff(ctx.eligible, coupon.value)
               ELSE coupon.value
    IN  IF rejecting # {} THEN [ok |-> FALSE, reason |-> rules[Min(rejecting)][1]]
        ELSE [ok |-> TRUE, discountMinor |-> clampDiscount(raw, ctx.eligible)]

\* singleCurrency: one currency to an order; an empty cart is in rupees.
CurrencyOf(courses) ==
    LET held == {courses[i].currency : i \in DOMAIN courses}
    IN  IF held = {} THEN "INR" ELSE IF Cardinality(held) = 1 THEN CHOOSE c \in held : TRUE
        ELSE None

-----------------------------------------------------------------------------
\* quote: the lines in cart order, `coupon` None when no code was typed or
\* none was found, `uses` its redemptions so far.
Worth(lines, S) == Sum([i \in S |-> lines[i].unitPriceMinor])
Borne(lines, S) == Sum([i \in S |-> lines[i].discountMinor])

Plain(lines) == [lines |-> lines, subtotalMinor |-> Worth(lines, DOMAIN lines),
                 discountMinor |-> 0, coupon |-> None, totalMinor |-> Worth(lines, DOMAIN lines)]

\* The shares go back, in their order, to the lines they were computed from.
Priced(lines, coupon, discount) ==
    LET eligible == EligibleLines(coupon, lines)
        shares == allocateDiscount([i \in eligible |-> lines[i].unitPriceMinor], discount)
    IN  [i \in DOMAIN lines |->
            IF i \in eligible THEN [lines[i] EXCEPT !.discountMinor = shares[i]] ELSE lines[i]]

quote(courses, coupon, uses, now) ==
    LET lines == [i \in DOMAIN courses |-> [courseId |-> courses[i].id,
                                            unitPriceMinor |-> courses[i].priceMinor,
                                            discountMinor |-> 0]]
        plain == Plain(lines)
        eligible == Worth(lines, EligibleLines(coupon, lines))
        applied == applyCoupon(coupon, [now |-> now, currency |-> CurrencyOf(courses),
                                        eligible |-> eligible,
                                        global |-> uses.global, mine |-> uses.mine])
        priced == Priced(lines, coupon, applied.discountMinor)
        discount == Borne(priced, DOMAIN priced)
    IN  IF coupon = None \/ ~applied.ok THEN plain
        ELSE [plain EXCEPT !.lines = priced, !.discountMinor = discount, !.coupon = coupon,
                           !.totalMinor = @ - discount]
=============================================================================
