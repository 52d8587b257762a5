------------------------------ MODULE MCStorefront ------------------------------
(* Two instructors, three courses; two of them tie on every sort at the start. *)
EXTENDS StorefrontProperties

MCOwner == (1 :> "ann") @@ (2 :> "ann") @@ (3 :> "ben")
MCRating == (1 :> 4) @@ (2 :> 5) @@ (3 :> 4)
MCFirstRows ==
    { [status |-> "PUBLISHED", priceMinor |-> 2, publishedAt |-> 1, updatedAt |-> 1, traits |-> {"ops"}],
      [status |-> "PUBLISHED", priceMinor |-> 5, publishedAt |-> 0, updatedAt |-> 0, traits |-> {}],
      [status |-> "DRAFT", priceMinor |-> 3, publishedAt |-> None, updatedAt |-> 1, traits |-> {"ops"}] }

Always == [active |-> TRUE, startsAt |-> None, endsAt |-> None, maxRedemptions |-> None,
           perUserLimit |-> 2, courseIds |-> {}, kind |-> "PERCENT", value |-> 3333, currency |-> None]
MCCoupons ==
    { Always, [Always EXCEPT !.value = 10000, !.courseIds = {1, 3}],
      [Always EXCEPT !.kind = "FIXED", !.value = 4, !.currency = "INR", !.perUserLimit = 1],
      [Always EXCEPT !.kind = "FIXED", !.value = 2, !.courseIds = {2}, !.currency = "INR",
                     !.startsAt = 2, !.maxRedemptions = 1],
      [Always EXCEPT !.kind = "FIXED", !.endsAt = 2], [Always EXCEPT !.active = FALSE],
      [Always EXCEPT !.value = 5000, !.endsAt = 2] }
=============================================================================
