--------------------------- MODULE PurchaseLedger ---------------------------
(***************************************************************************)
(* What a learner may rely on: an order is opened with what it offers,     *)
(* then paid for or closed, and a paid one may be refunded.  Paying makes  *)
(* the order the holder of the seat for each course it offered; refunding  *)
(* frees the seats it still holds and no other.  An offer never changes.   *)
(* No requests, retries or events.                                         *)
(***************************************************************************)
CONSTANTS Users, Courses, OrderIds, None

VARIABLES phase, offer, holder

Offer == [user : Users, items : SUBSET Courses]

Init ==
    /\ phase = [o \in OrderIds |-> "absent"]
    /\ offer \in [OrderIds -> Offer]
    /\ holder = [u \in Users |-> [c \in Courses |-> None]]

Move(o, from, to) ==
    /\ phase[o] = from
    /\ phase' = [phase EXCEPT ![o] = to]

Open(o) ==
    /\ Move(o, "absent", "open")
    /\ \E f \in Offer : offer' = [offer EXCEPT ![o] = f]
    /\ UNCHANGED holder

Close(o) == Move(o, "open", "closed") /\ UNCHANGED <<offer, holder>>

Pay(o) ==
    /\ Move(o, "open", "paid")
    /\ holder' = [holder EXCEPT ![offer[o].user] =
                     [c \in Courses |-> IF c \in offer[o].items THEN o ELSE @[c]]]
    /\ UNCHANGED offer

Refund(o) ==
    /\ Move(o, "paid", "refunded")
    /\ holder' = [u \in Users |-> [c \in Courses |->
                     IF holder[u][c] = o THEN None ELSE holder[u][c]]]
    /\ UNCHANGED offer

Next == \E o \in OrderIds : Open(o) \/ Close(o) \/ Pay(o) \/ Refund(o)

Spec == Init /\ [][Next]_<<phase, offer, holder>>
=============================================================================
