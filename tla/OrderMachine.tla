---------------------------- MODULE OrderMachine ----------------------------
(***************************************************************************)
(* The order lifecycle of apps/api/src/modules/commerce/order/             *)
(* order-state-machine.ts: a constant edge list, and the lookups every     *)
(* writer of Order.status goes through.  Bug... are mutated forms of the   *)
(* definition below them, which nothing here uses.                         *)
(***************************************************************************)

Status == {"CREATED", "AWAITING_PAYMENT", "PAID", "FAILED", "CANCELLED",
           "EXPIRED", "REFUNDED"}

\* The events an edge may raise; "none" where the code has `event` undefined.
OrderEvents == {"paid", "refunded", "expired"}

Edge(from, name, to, event, fromWebhook) ==
    [from |-> from, name |-> name, to |-> to, event |-> event,
     fromWebhook |-> fromWebhook]

\* The edges out of both pre-payment states, declared once as in the code.
Cancel(from) == Edge(from, "cancel", "CANCELLED", "none", FALSE)
Expire(from) == Edge(from, "expire", "EXPIRED", "expired", FALSE)

BugCaptureByService ==
    { Edge("CREATED", "submit", "AWAITING_PAYMENT", "none", FALSE),
      Edge("AWAITING_PAYMENT", "capture", "PAID", "paid", FALSE) }
Machine ==
    { Edge("CREATED", "submit", "AWAITING_PAYMENT", "none", FALSE),
      Edge("CREATED", "settleFree", "PAID", "paid", FALSE),
      Cancel("CREATED"),
      Expire("CREATED"),
      Edge("AWAITING_PAYMENT", "capture", "PAID", "paid", TRUE),
      Edge("AWAITING_PAYMENT", "fail", "FAILED", "none", TRUE),
      Cancel("AWAITING_PAYMENT"),
      Expire("AWAITING_PAYMENT"),
      Edge("PAID", "refund", "REFUNDED", "refunded", TRUE) }

Names == {t.name : t \in Machine}

\* transitionFor: the edge as a set of at most one element, empty where the
\* code returns undefined.
TransitionFor(from, name, source) ==
    {t \in Machine : /\ t.from = from
                     /\ t.name = name
                     /\ source = "webhook" => t.fromWebhook}

Terminal(status) == \A t \in Machine : t.from # status

Expirable == {"CREATED", "AWAITING_PAYMENT"}

\* The statuses in which an order is over and was never paid.
Dead == {"FAILED", "CANCELLED", "EXPIRED"}
=============================================================================
