-------------------------- MODULE OutboxProperties --------------------------
(* What the outbox and the delivery log guarantee.                         *)
EXTENDS Outbox

\* Every table and every relay holds values of its columns' types.
OutboxTypeOK ==
    /\ status \in [Messages -> {"ABSENT", "PENDING", "PUBLISHING", "PUBLISHED", "DEAD"}]
    /\ attempts \in [Messages -> Nat]
    /\ due \subseteq Messages
    /\ processed \subseteq Messages \X Handlers
    /\ delivery \in [Messages -> [Handlers -> Row]]
    /\ relay \in [Relays -> Job]
    /\ suppressed \in BOOLEAN
    /\ optedOut \in BOOLEAN
    /\ sent \in [Messages -> [Handlers -> Nat]]
    /\ failures \in 0..MaxFailures
    /\ overruns \in 0..MaxOverruns
    /\ crashes \in 0..MaxCrashes

\* A message is PUBLISHED only if every handler of its event has run for it,
\* in whatever attempts and by whatever relays (dispatch, recordFailure).
PublishedMeansHandled ==
    \A m \in Messages : status[m] = "PUBLISHED" =>
        \A h \in Handlers : <<m, h>> \in processed

\* Relays about to call the provider for one e-mail.
Sending(m, h) == {r \in Relays : /\ relay[r].pc = "send"
                                 /\ relay[r].message = m /\ relay[r].handler = h}

\* Every e-mail the provider accepts was claimed for: EmailDelivery.attempts
\* counts the sends also when relays overlap, die or take a row over.
SendsAreClaimed ==
    \A m \in Messages, h \in Handlers :
        sent[m][h] + Cardinality(Sending(m, h)) <= delivery[m][h].attempts

\* While no live relay overruns its claim, two relays never work on one
\* message (SKIP LOCKED and the visibility deadline).
NoOverlap ==
    overruns = 0 =>
        \A q, r \in Relays, m \in Messages : Holds(q, m) /\ Holds(r, m) => q = r

\* While no live relay overruns its claim, a message waits for a retry only if
\* it has attempts left: a poisonous one does not starve the batch for ever.
RetriesAreBounded ==
    overruns = 0 =>
        \A m \in Messages : status[m] = "PENDING" => attempts[m] < MaxAttempts

\* While no live relay overruns its claim, a delivery row in a final state is
\* never sent again: also if the relay died before it recorded the handler.
FinalRowStays ==
    [][overruns = 0 => \A m \in Messages, h \in Handlers :
          delivery[m][h].status \in Final => delivery'[m][h].status \in Final]_<<delivery, overruns>>

\* While no live relay overruns its claim, PUBLISHED and DEAD are final.
SettledStays ==
    [][overruns = 0 => \A m \in Messages :
          status[m] \in {"PUBLISHED", "DEAD"} => status'[m] = status[m]]_<<status, overruns>>

\* Every message is published or parked as DEAD in the end, and stays so,
\* whatever handlers fail, relays die and deadlines pass.
EveryMessageSettles ==
    \A m \in Messages : status[m] = "PENDING" ~> [](status[m] \in {"PUBLISHED", "DEAD"})

=============================================================================
