------------------------------- MODULE Outbox -------------------------------
(***************************************************************************)
(* How a domain event becomes an e-mail (apps/worker/src/modules):         *)
(* outbox-relay claims OutboxMessage rows and runs every handler of the    *)
(* event, notification sends one e-mail per handler.  The tables are       *)
(* OutboxMessage (status, attempts, due), ProcessedEvent (processed) and   *)
(* EmailDelivery (delivery).  A step is one statement or one provider      *)
(* call.  Relays are processes: each works on the batch it claimed.        *)
(*                                                                         *)
(* Time is a flag per deadline.  `due' says availableAt has passed;        *)
(* a delivery row is `stale' five minutes after it was written.  Both      *)
(* deadlines last as long, and a row is written under a claim that began   *)
(* earlier, so the claim's deadline passes first.                          *)
(***************************************************************************)
EXTENDS Naturals, FiniteSets

CONSTANTS
    Messages, Handlers, Relays,
    Optional,      \* handlers whose template the learner may opt out of
    BatchSize,     \* BATCH_SIZE
    MaxAttempts,   \* MAX_ATTEMPTS
    MaxFailures,   \* sends, and other statements of a handler, that throw
    MaxOverruns,   \* claims whose deadline passes while the relay is alive
    MaxCrashes,    \* relays that die, or whose tick is abandoned by an error
    None

ASSUME OutboxAssumption ==
    /\ IsFiniteSet(Messages) /\ IsFiniteSet(Handlers) /\ IsFiniteSet(Relays)
    /\ Optional \subseteq Handlers
    /\ BatchSize \in Nat \ {0} /\ MaxAttempts \in Nat \ {0}
    /\ MaxFailures \in Nat /\ MaxOverruns \in Nat /\ MaxCrashes \in Nat
    /\ None \notin Messages \cup Handlers

VARIABLES
    status,      \* OutboxMessage.status, "ABSENT" before the producer commits
    attempts,    \* OutboxMessage.attempts
    due,         \* messages whose availableAt has passed
    processed,   \* ProcessedEvent rows
    delivery,    \* EmailDelivery rows, unique by event and handler's template
    relay,       \* what each relay is doing
    suppressed,  \* EmailSuppression row of the recipient
    optedOut,    \* NotificationPreference row of the optional category
    sent,        \* external: e-mails the provider accepted
    failures, overruns, crashes

outbox == <<status, attempts, due>>
consent == <<suppressed, optedOut>>
faults == <<failures, overruns, crashes>>
vars == <<status, attempts, due, processed, delivery, relay, suppressed,
          optedOut, sent, failures, overruns, crashes>>

Final == {"SENT", "SUPPRESSED", "BOUNCED"}

\* lease: the claim (a value of OutboxMessage.attempts) the row was written
\* under; id: whether providerMessageId is stored.
Row == [status : {"none", "SENDING", "FAILED"} \cup Final, attempts : Nat,
        stale : BOOLEAN, lease : Nat, id : BOOLEAN]
NoRow == [status |-> "none", attempts |-> 0, stale |-> FALSE, lease |-> 0, id |-> FALSE]

PCs == {"idle", "next", "handlers", "consent", "claim", "reread", "retake",
        "send", "markSent", "markFailed", "record"}

\* seen: the attempts returned by the claim, for the messages of the batch.
Job == [pc : PCs, batch : SUBSET Messages, seen : [Messages -> Nat],
        message : Messages \cup {None}, todo : SUBSET Handlers,
        handler : Handlers \cup {None}, failed : BOOLEAN]
Idle == [pc |-> "idle", batch |-> {}, seen |-> [m \in Messages |-> 0],
         message |-> None, todo |-> {}, handler |-> None, failed |-> FALSE]

Init ==
    /\ status = [m \in Messages |-> "ABSENT"]
    /\ attempts = [m \in Messages |-> 0]
    /\ due = {}
    /\ processed = {}
    /\ delivery = [m \in Messages |-> [h \in Handlers |-> NoRow]]
    /\ relay = [r \in Relays |-> Idle]
    /\ suppressed = FALSE
    /\ optedOut = FALSE
    /\ sent = [m \in Messages |-> [h \in Handlers |-> 0]]
    /\ failures = 0
    /\ overruns = 0
    /\ crashes = 0

\* The message a relay is delivering or still has in its batch.
Holds(r, m) == m = relay[r].message \/ m \in relay[r].batch

-----------------------------------------------------------------------------
(* The producer and the clock.                                             *)

\* UnitOfWork.execute: the row commits with the state change behind it.
Publish(m) ==
    /\ status[m] = "ABSENT"
    /\ status' = [status EXCEPT ![m] = "PENDING"]
    /\ due' = due \cup {m}
    /\ UNCHANGED <<attempts, processed, delivery, relay, consent, sent, faults>>

\* availableAt passes: the backoff is over, or the claim's visibility deadline
\* has come -- in the worst case while the relay that claimed it still works.
TimePasses(m) ==
    /\ status[m] \in {"PENDING", "PUBLISHING"}
    /\ m \notin due
    /\ due' = due \cup {m}
    /\ \/ /\ \A r \in Relays : ~Holds(r, m)
          /\ UNCHANGED overruns
       \/ /\ \E r \in Relays : Holds(r, m)
          /\ overruns < MaxOverruns
          /\ overruns' = overruns + 1
    /\ UNCHANGED <<status, attempts, processed, delivery, relay, consent, sent,
                   failures, crashes>>

\* isStaleSend becomes true of a row, after the claim it was written under.
RowGoesStale(m, h) ==
    /\ delivery[m][h].status = "SENDING"
    /\ ~delivery[m][h].stale
    /\ m \in due \/ attempts[m] > delivery[m][h].lease
    /\ delivery' = [delivery EXCEPT ![m][h].stale = TRUE]
    /\ UNCHANGED <<outbox, processed, relay, consent, sent, faults>>

-----------------------------------------------------------------------------
(* OutboxRelayService.                                                     *)

BugPendingOnly == {m \in due : status[m] = "PENDING"}
Claimable == {m \in due : status[m] \in {"PENDING", "PUBLISHING"}}

\* claim: one UPDATE over the due rows, SKIP LOCKED.  The oldest go first; any
\* choice is allowed here.  `running' keeps a relay to one batch.
BugStayVisible(batch) == due
Hidden(batch) == due \ batch

Poll(r) ==
    /\ relay[r].pc = "idle"
    /\ \E batch \in SUBSET Claimable :
         /\ batch # {} /\ Cardinality(batch) <= BatchSize
         /\ batch = Claimable \/ Cardinality(batch) = BatchSize
         /\ status' = [m \in Messages |->
                         IF m \in batch THEN "PUBLISHING" ELSE status[m]]
         /\ attempts' = [m \in Messages |->
                         IF m \in batch THEN attempts[m] + 1 ELSE attempts[m]]
         /\ due' = Hidden(batch)
         /\ relay' = [relay EXCEPT ![r] = [Idle EXCEPT !.pc = "next",
                         !.batch = batch,
                         !.seen = [m \in Messages |->
                            IF m \in batch THEN attempts[m] + 1 ELSE 0]]]
    /\ UNCHANGED <<processed, delivery, consent, sent, faults>>

\* deliver, for the messages of the batch one after the other.
Take(r) ==
    /\ relay[r].pc = "next"
    /\ \/ \E m \in relay[r].batch :
            relay' = [relay EXCEPT ![r].pc = "handlers", ![r].batch = @ \ {m},
                         ![r].message = m, ![r].todo = Handlers, ![r].failed = FALSE]
       \/ /\ relay[r].batch = {}
          /\ relay' = [relay EXCEPT ![r] = Idle]
    /\ UNCHANGED <<outbox, processed, delivery, consent, sent, faults>>

\* Every handler has run: PUBLISHED, or recordFailure.  Both are updates by id,
\* whatever the row holds by now.
BugPublishAnyway(failed, seen) == "PUBLISHED"
BugOtherStatus(failed, seen) == IF failed THEN "FAILED" ELSE "PUBLISHED"
Verdict(failed, seen) ==
    CASE ~failed                       -> "PUBLISHED"
      [] failed /\ seen >= MaxAttempts -> "DEAD"
      [] OTHER                         -> "PENDING"

Finish(r) ==
    /\ relay[r].pc = "handlers" /\ relay[r].todo = {}
    /\ LET m == relay[r].message
           verdict == Verdict(relay[r].failed, relay[r].seen[m])
       IN  /\ status' = [status EXCEPT ![m] = verdict]
           /\ due' = IF verdict = "PENDING" THEN due \ {m} ELSE due
    /\ relay' = [relay EXCEPT ![r].pc = "next", ![r].message = None]
    /\ UNCHANGED <<attempts, processed, delivery, consent, sent, faults>>

-----------------------------------------------------------------------------
(* DomainEventDispatcher.dispatch and runOnce.                             *)

\* The next handler, and whether ProcessedEvent already has its row.  The order
\* of registration is abstracted.
CheckProcessed(r) ==
    /\ relay[r].pc = "handlers"
    /\ \E h \in relay[r].todo :
         IF <<relay[r].message, h>> \in processed
         THEN relay' = [relay EXCEPT ![r].todo = @ \ {h}]
         ELSE relay' = [relay EXCEPT ![r].pc = "consent", ![r].handler = h]
    /\ UNCHANGED <<outbox, processed, delivery, consent, sent, faults>>

\* The handler returned: its row is written, after the fact.
Record(r) ==
    /\ relay[r].pc = "record"
    /\ processed' = processed \cup {<<relay[r].message, relay[r].handler>>}
    /\ relay' = [relay EXCEPT ![r].pc = "handlers", ![r].handler = None,
                              ![r].todo = @ \ {relay[r].handler}]
    /\ UNCHANGED <<outbox, delivery, consent, sent, faults>>

\* The handler threw: the dispatcher goes on with the next one, and the relay
\* will see a failure.
GiveUp(r) ==
    relay' = [relay EXCEPT ![r].pc = "handlers", ![r].handler = None,
                           ![r].todo = @ \ {relay[r].handler}, ![r].failed = TRUE]

-----------------------------------------------------------------------------
(* NotificationService.send and EmailDeliveryRepository.claim.             *)

\* A step of relay r on the delivery row of the handler it is running.
RowOf(r) == delivery[relay[r].message][relay[r].handler]
SetRow(r, row) == delivery' = [delivery EXCEPT ![relay[r].message][relay[r].handler] = row]
Lease(r) == relay[r].seen[relay[r].message]
Goto(r, pc) == relay' = [relay EXCEPT ![r].pc = pc]

\* Any update renews updatedAt, recordSuppressed's of the reason alone included.
Touched(row, lease) == [row EXCEPT !.stale = FALSE, !.lease = lease]

\* mayNotSend: suppression first, then the opt-out of an optional category.  A
\* refusal is recorded unless a row exists, and is a success. The code's two
\* queries are one step here.
Refused(h) == suppressed \/ (h \in Optional /\ optedOut)

Consent(r) ==
    /\ relay[r].pc = "consent"
    /\ \/ /\ Refused(relay[r].handler)
          /\ SetRow(r, IF RowOf(r).status = "none"
                       THEN [NoRow EXCEPT !.status = "SUPPRESSED", !.attempts = 1]
                       ELSE Touched(RowOf(r), Lease(r)))
          /\ Goto(r, "record")
       \/ /\ ~Refused(relay[r].handler)
          /\ Goto(r, "claim")
          /\ UNCHANGED delivery
    /\ UNCHANGED <<outbox, processed, consent, sent, faults>>

\* The INSERT is the claim.
ClaimDelivery(r) ==
    /\ relay[r].pc = "claim"
    /\ \/ /\ RowOf(r).status = "none"
          /\ SetRow(r, [status |-> "SENDING", attempts |-> 1, stale |-> FALSE,
                        lease |-> Lease(r), id |-> FALSE])
          /\ Goto(r, "send")
       \/ /\ RowOf(r).status # "none"
          /\ Goto(r, "reread")
          /\ UNCHANGED delivery
    /\ UNCHANGED <<outbox, processed, consent, sent, faults>>

\* The loser reads the row: only a failed or an abandoned send is taken over,
\* anything else is skipped as already handled.
Abandoned(row) == row.status = "FAILED" \/ (row.status = "SENDING" /\ row.stale)

Reread(r) ==
    /\ relay[r].pc = "reread"
    /\ Goto(r, IF Abandoned(RowOf(r)) THEN "retake" ELSE "record")
    /\ UNCHANGED <<outbox, processed, delivery, consent, sent, faults>>

\* The takeover is an update by id, whatever the row holds by now.
TakenOver(row, lease) ==
    [Touched(row, lease) EXCEPT !.status = "SENDING", !.attempts = @ + 1]

Retake(r) ==
    /\ relay[r].pc = "retake"
    /\ SetRow(r, TakenOver(RowOf(r), Lease(r)))
    /\ Goto(r, "send")
    /\ UNCHANGED <<outbox, processed, consent, sent, faults>>

\* mail.send: the provider accepts it, rejects it, or accepts it and the answer
\* is lost (so is a markSent that throws, which the same catch sees).
Send(r) ==
    /\ relay[r].pc = "send"
    /\ \E accepted, threw \in BOOLEAN :
         /\ accepted \/ threw
         /\ threw => failures < MaxFailures
         /\ failures' = IF threw THEN failures + 1 ELSE failures
         /\ sent' = IF accepted
                    THEN [sent EXCEPT ![relay[r].message][relay[r].handler] = @ + 1]
                    ELSE sent
         /\ Goto(r, IF threw THEN "markFailed" ELSE "markSent")
    /\ UNCHANGED <<outbox, processed, delivery, consent, overruns, crashes>>

MarkSent(r) ==
    /\ relay[r].pc = "markSent"
    /\ SetRow(r, [RowOf(r) EXCEPT !.status = "SENT", !.stale = FALSE, !.id = TRUE])
    /\ Goto(r, "record")
    /\ UNCHANGED <<outbox, processed, consent, sent, faults>>

\* markFailed, and rethrow.
MarkFailed(r) ==
    /\ relay[r].pc = "markFailed"
    /\ SetRow(r, [RowOf(r) EXCEPT !.status = "FAILED", !.stale = FALSE])
    /\ GiveUp(r)
    /\ UNCHANGED <<outbox, processed, consent, sent, faults>>

\* A render or a statement throws before, or instead of, the one that was due:
\* in the handler, in reading ProcessedEvent, or in the update to PUBLISHED,
\* which the same catch turns into recordFailure.
Throw(r) ==
    /\ failures < MaxFailures
    /\ failures' = failures + 1
    /\ \/ /\ relay[r].pc \in {"consent", "claim", "reread", "retake", "markFailed", "record"}
          /\ GiveUp(r)
       \/ /\ relay[r].pc = "handlers"
          /\ \E h \in relay[r].todo :
               relay' = [relay EXCEPT ![r].todo = @ \ {h}, ![r].failed = TRUE]
       \/ /\ relay[r].pc = "handlers" /\ relay[r].todo = {} /\ ~relay[r].failed
          /\ relay' = [relay EXCEPT ![r].failed = TRUE]
    /\ UNCHANGED <<outbox, processed, delivery, consent, sent, overruns, crashes>>

-----------------------------------------------------------------------------
(* Everything else that happens.                                           *)

\* MailWebhookController: a bounce marks the row that stores the provider's id,
\* if one does, and suppresses the address for every message.  A request that
\* dies between the two is reported again.
Bounce(m, h) ==
    /\ sent[m][h] > 0
    /\ \/ /\ delivery[m][h].id
          /\ delivery' = [delivery EXCEPT ![m][h].status = "BOUNCED", ![m][h].stale = FALSE]
          /\ suppressed' \in {suppressed, TRUE}
       \/ /\ ~delivery[m][h].id \/ sent[m][h] > 1
          /\ suppressed' = TRUE
          /\ UNCHANGED delivery
    /\ UNCHANGED <<outbox, processed, relay, optedOut, sent, faults>>

\* The preference centre and the unsubscribe link.
ChangePreference ==
    /\ Optional # {}
    /\ optedOut' = ~optedOut
    /\ UNCHANGED <<outbox, processed, delivery, relay, suppressed, sent, faults>>

\* A relay dies, or a statement outside any handler throws and ends its tick:
\* what it had claimed stays PUBLISHING.
Crash(r) ==
    /\ crashes < MaxCrashes
    /\ crashes' = crashes + 1
    /\ relay[r].pc # "idle"
    /\ relay' = [relay EXCEPT ![r] = Idle]
    /\ UNCHANGED <<outbox, processed, delivery, consent, sent, failures, overruns>>

Work(r) ==
    \/ Take(r) \/ Finish(r) \/ CheckProcessed(r) \/ Record(r)
    \/ Consent(r) \/ ClaimDelivery(r) \/ Reread(r) \/ Retake(r)
    \/ Send(r) \/ MarkSent(r) \/ MarkFailed(r) \/ Throw(r)

Next ==
    \/ \E m \in Messages : Publish(m) \/ TimePasses(m)
    \/ \E m \in Messages, h \in Handlers : RowGoesStale(m, h) \/ Bounce(m, h)
    \/ ChangePreference
    \/ \E r \in Relays : Poll(r) \/ Work(r) \/ Crash(r)

Spec == Init /\ [][Next]_vars

\* Time passes, relays poll on a timer, and a tick runs to its end.
FairSpec ==
    /\ Spec
    /\ \A m \in Messages : WF_vars(TimePasses(m))
    /\ \A r \in Relays : WF_vars(Work(r))
    /\ WF_vars(\E r \in Relays : Poll(r))
=============================================================================
