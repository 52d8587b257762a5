----------------------------- MODULE OutboxProofs -----------------------------
(***************************************************************************)
(* Proofs about Outbox, for any number of messages, handlers and relays,   *)
(* any batch size, and any number of failures, overruns and crashes.       *)
(*                                                                         *)
(* JobsOK is the shape of a relay's job.  While no claim is overrun,       *)
(* ClaimsOK adds that a message a relay holds is hidden from the others    *)
(* and as its claim left it; what the properties say then follows for one  *)
(* relay at a time. What the letters say depends on no state: their part   *)
(* is about every event and every choice a reader made.                    *)
(***************************************************************************)
EXTENDS LettersProperties, TLAPS, FiniteSetTheorems

\* The steps of one handler.
Working == {"consent", "claim", "reread", "retake", "send", "markSent", "markFailed", "record"}

JobOK(job) ==
    /\ job.pc = "idle" => job.message = None /\ job.batch = {}
    /\ job.pc = "next" => job.message = None
    /\ job.pc \in Working \cup {"handlers"} => job.message \in Messages /\ job.message \notin job.batch
    /\ job.pc \in Working => job.handler \in job.todo

JobsOK == \A r \in Relays : JobOK(relay[r])

TypeInv == OutboxTypeOK /\ JobsOK

-----------------------------------------------------------------------------
(* What a step does to the job of its relay and to a delivery row.         *)

\* Relay r goes from job to job in a step that keeps its batch and message.
Moved(r, job) == relay' = [relay EXCEPT ![r] = job]
Kept(r, job) ==
    /\ job \in Job
    /\ job.batch = relay[r].batch /\ job.seen = relay[r].seen /\ job.message = relay[r].message

LEMMA IdleJob == Idle \in Job /\ Idle.pc = "idle" /\ Idle.message = None /\ Idle.batch = {}
  BY DEF Idle, Job, PCs

LEMMA GotoJob ==
    ASSUME TypeInv, NEW r \in Relays, NEW pc \in PCs, Goto(r, pc)
    PROVE  \E job : /\ Moved(r, job) /\ Kept(r, job) /\ job.pc = pc
                    /\ job.todo = relay[r].todo /\ job.handler = relay[r].handler
                    /\ job.failed = relay[r].failed
<1> DEFINE job == [relay[r] EXCEPT !.pc = pc]
<1>1. relay[r] \in Job
  BY DEF TypeInv, OutboxTypeOK
<1>2. Moved(r, job)
  BY DEF Goto, Moved, TypeInv, OutboxTypeOK
<1>3. /\ job \in Job /\ job.pc = pc /\ job.batch = relay[r].batch /\ job.seen = relay[r].seen
      /\ job.message = relay[r].message /\ job.todo = relay[r].todo
      /\ job.handler = relay[r].handler /\ job.failed = relay[r].failed
  BY <1>1 DEF Job
<1> QED BY <1>2, <1>3 DEF Kept

LEMMA GiveUpJob ==
    ASSUME TypeInv, NEW r \in Relays, GiveUp(r)
    PROVE  \E job : /\ Moved(r, job) /\ Kept(r, job) /\ job.pc = "handlers"
                    /\ job.todo \subseteq relay[r].todo /\ job.failed
<1> DEFINE job == [relay[r] EXCEPT !.pc = "handlers", !.handler = None,
                      !.todo = relay[r].todo \ {relay[r].handler}, !.failed = TRUE]
<1>1. relay[r] \in Job
  BY DEF TypeInv, OutboxTypeOK
<1>2. Moved(r, job)
  BY DEF GiveUp, Moved, TypeInv, OutboxTypeOK
<1>3. /\ job \in Job /\ job.pc = "handlers" /\ job.batch = relay[r].batch
      /\ job.seen = relay[r].seen /\ job.message = relay[r].message
      /\ job.todo = relay[r].todo \ {relay[r].handler} /\ job.failed = TRUE
  BY <1>1 DEF Job, PCs
<1> QED BY <1>2, <1>3 DEF Kept

LEMMA RecordJob ==
    ASSUME TypeInv, NEW r \in Relays, Record(r)
    PROVE  \E job : /\ Moved(r, job) /\ Kept(r, job) /\ job.pc = "handlers"
                    /\ job.todo = relay[r].todo \ {relay[r].handler}
                    /\ job.failed = relay[r].failed
<1> DEFINE job == [relay[r] EXCEPT !.pc = "handlers", !.handler = None,
                      !.todo = relay[r].todo \ {relay[r].handler}]
<1>1. relay[r] \in Job
  BY DEF TypeInv, OutboxTypeOK
<1>2. Moved(r, job)
  BY DEF Record, Moved, TypeInv, OutboxTypeOK
<1>3. /\ job \in Job /\ job.pc = "handlers" /\ job.batch = relay[r].batch
      /\ job.seen = relay[r].seen /\ job.message = relay[r].message
      /\ job.todo = relay[r].todo \ {relay[r].handler} /\ job.failed = relay[r].failed
  BY <1>1 DEF Job, PCs
<1> QED BY <1>2, <1>3 DEF Kept

LEMMA CheckJob ==
    ASSUME TypeInv, NEW r \in Relays, CheckProcessed(r)
    PROVE  \E job, h : /\ Moved(r, job) /\ Kept(r, job) /\ job.failed = relay[r].failed
                       /\ h \in relay[r].todo
                       /\ \/ /\ job.pc = "handlers" /\ job.todo = relay[r].todo \ {h}
                             /\ <<relay[r].message, h>> \in processed
                          \/ /\ job.pc = "consent" /\ job.todo = relay[r].todo
                             /\ job.handler = h
<1>1. relay[r] \in Job /\ relay[r].pc = "handlers"
  BY DEF CheckProcessed, TypeInv, OutboxTypeOK
<1>2. PICK h \in relay[r].todo :
         IF <<relay[r].message, h>> \in processed
         THEN relay' = [relay EXCEPT ![r].todo = @ \ {h}]
         ELSE relay' = [relay EXCEPT ![r].pc = "consent", ![r].handler = h]
  BY DEF CheckProcessed
<1>3. h \in Handlers
  BY <1>1, <1>2 DEF Job
<1> DEFINE skip == [relay[r] EXCEPT !.todo = relay[r].todo \ {h}]
           run == [relay[r] EXCEPT !.pc = "consent", !.handler = h]
<1>4. CASE <<relay[r].message, h>> \in processed
  <2>1. Moved(r, skip)
    BY <1>2, <1>4 DEF Moved, TypeInv, OutboxTypeOK
  <2>2. /\ skip \in Job /\ skip.pc = "handlers" /\ skip.batch = relay[r].batch
        /\ skip.seen = relay[r].seen /\ skip.message = relay[r].message
        /\ skip.todo = relay[r].todo \ {h} /\ skip.failed = relay[r].failed
    BY <1>1 DEF Job
  <2> QED BY <1>2, <1>4, <2>1, <2>2 DEF Kept
<1>5. CASE <<relay[r].message, h>> \notin processed
  <2>1. Moved(r, run)
    BY <1>2, <1>5 DEF Moved, TypeInv, OutboxTypeOK
  <2>2. /\ run \in Job /\ run.pc = "consent" /\ run.batch = relay[r].batch
        /\ run.seen = relay[r].seen /\ run.message = relay[r].message
        /\ run.todo = relay[r].todo /\ run.failed = relay[r].failed /\ run.handler = h
    BY <1>1, <1>3 DEF Job, PCs
  <2> QED BY <1>2, <2>1, <2>2 DEF Kept
<1> QED BY <1>4, <1>5

LEMMA TakeJob ==
    ASSUME TypeInv, NEW r \in Relays, Take(r)
    PROVE  \/ Moved(r, Idle) /\ relay[r].batch = {}
           \/ \E job, m : /\ Moved(r, job) /\ m \in relay[r].batch /\ job \in Job
                          /\ job.pc = "handlers" /\ job.message = m
                          /\ job.batch = relay[r].batch \ {m} /\ job.seen = relay[r].seen
                          /\ job.todo = Handlers
<1>1. relay[r] \in Job /\ relay \in [Relays -> Job]
  BY DEF TypeInv, OutboxTypeOK
<1>2. ASSUME NEW m \in relay[r].batch,
             relay' = [relay EXCEPT ![r].pc = "handlers", ![r].batch = @ \ {m},
                         ![r].message = m, ![r].todo = Handlers, ![r].failed = FALSE]
      PROVE  \E job : /\ Moved(r, job) /\ job \in Job
                      /\ job.pc = "handlers" /\ job.message = m
                      /\ job.batch = relay[r].batch \ {m} /\ job.seen = relay[r].seen
                      /\ job.todo = Handlers
  <2> DEFINE job == [relay[r] EXCEPT !.pc = "handlers", !.batch = relay[r].batch \ {m},
                        !.message = m, !.todo = Handlers, !.failed = FALSE]
  <2>1. Moved(r, job)
    BY <1>1, <1>2 DEF Moved
  <2>2. m \in Messages
    BY <1>1, <1>2 DEF Job
  <2>3. /\ job \in Job /\ job.pc = "handlers" /\ job.message = m
        /\ job.batch = relay[r].batch \ {m} /\ job.seen = relay[r].seen /\ job.todo = Handlers
    BY <1>1, <2>2 DEF Job, PCs
  <2> QED BY <2>1, <2>3
<1>3. \/ relay' = [relay EXCEPT ![r] = Idle] /\ relay[r].batch = {}
      \/ \E m \in relay[r].batch :
            relay' = [relay EXCEPT ![r].pc = "handlers", ![r].batch = @ \ {m},
                         ![r].message = m, ![r].todo = Handlers, ![r].failed = FALSE]
  BY DEF Take
<1>4. CASE relay' = [relay EXCEPT ![r] = Idle] /\ relay[r].batch = {}
  BY <1>4 DEF Moved
<1>5. ASSUME NEW m \in relay[r].batch,
             relay' = [relay EXCEPT ![r].pc = "handlers", ![r].batch = @ \ {m},
                         ![r].message = m, ![r].todo = Handlers, ![r].failed = FALSE]
      PROVE  \E job, n : /\ Moved(r, job) /\ n \in relay[r].batch /\ job \in Job
                         /\ job.pc = "handlers" /\ job.message = n
                         /\ job.batch = relay[r].batch \ {n} /\ job.seen = relay[r].seen
                         /\ job.todo = Handlers
  <2>1. PICK job : /\ Moved(r, job) /\ job \in Job
                   /\ job.pc = "handlers" /\ job.message = m
                   /\ job.batch = relay[r].batch \ {m} /\ job.seen = relay[r].seen
                   /\ job.todo = Handlers
    BY <1>2, <1>5
  <2> QED BY <2>1
<1> QED BY <1>3, <1>4, <1>5

LEMMA FinishJob ==
    ASSUME TypeInv, NEW r \in Relays, Finish(r)
    PROVE  \E job : /\ Moved(r, job) /\ job \in Job /\ job.pc = "next" /\ job.message = None
                    /\ job.batch = relay[r].batch /\ job.seen = relay[r].seen
<1> DEFINE job == [relay[r] EXCEPT !.pc = "next", !.message = None]
<1>1. relay[r] \in Job
  BY DEF TypeInv, OutboxTypeOK
<1>2. Moved(r, job)
  BY DEF Finish, Moved, TypeInv, OutboxTypeOK
<1>3. /\ job \in Job /\ job.pc = "next" /\ job.message = None
      /\ job.batch = relay[r].batch /\ job.seen = relay[r].seen
  BY <1>1 DEF Job, PCs
<1> QED BY <1>2, <1>3

\* The row of the handler that is running, and no other, is written.
LEMMA SetRowEffect ==
    ASSUME TypeInv, NEW r \in Relays, relay[r].pc \in Working, NEW row \in Row, SetRow(r, row)
    PROVE  /\ delivery' \in [Messages -> [Handlers -> Row]]
           /\ delivery'[relay[r].message][relay[r].handler] = row
           /\ \A m \in Messages, h \in Handlers :
                 m # relay[r].message \/ h # relay[r].handler => delivery'[m][h] = delivery[m][h]
<1>1. relay[r].message \in Messages /\ relay[r].handler \in Handlers
  BY DEF TypeInv, OutboxTypeOK, JobsOK, JobOK, Job
<1>2. delivery \in [Messages -> [Handlers -> Row]]
  BY DEF TypeInv, OutboxTypeOK
<1> QED BY <1>1, <1>2 DEF SetRow

\* The row a relay works on, and its type after an update.
LEMMA RowOfType ==
    ASSUME TypeInv, NEW r \in Relays, relay[r].pc \in Working
    PROVE  /\ relay[r].message \in Messages /\ relay[r].handler \in Handlers
           /\ RowOf(r) \in Row /\ Lease(r) \in Nat
  BY DEF TypeInv, OutboxTypeOK, JobsOK, JobOK, Job, RowOf, Lease

-----------------------------------------------------------------------------
(* Types.                                                                  *)

LEMMA JobMoved ==
    ASSUME TypeInv, NEW r \in Relays, NEW job \in Job, Moved(r, job), JobOK(job)
    PROVE  relay' \in [Relays -> Job] /\ JobsOK' /\ relay'[r] = job
           /\ \A q \in Relays : q # r => relay'[q] = relay[q]
<1>1. relay \in [Relays -> Job]
  BY DEF TypeInv, OutboxTypeOK
<1> QED BY <1>1 DEF Moved, JobsOK, TypeInv

\* A step of a handler that goes on leaves the job in shape.
LEMMA WorkingJob ==
    ASSUME TypeInv, NEW r \in Relays, relay[r].pc \in Working, NEW job, Kept(r, job),
           \/ job.pc \in Working /\ job.handler = relay[r].handler /\ job.todo = relay[r].todo
           \/ job.pc = "handlers"
    PROVE  JobOK(job)
<1>1. JobOK(relay[r])
  BY DEF TypeInv, JobsOK
<1> QED BY <1>1 DEF JobOK, Kept, Working

LEMMA RowTypes ==
    ASSUME NEW row \in Row, NEW lease \in Nat
    PROVE  /\ Touched(row, lease) \in Row /\ Touched(row, lease).status = row.status
           /\ Touched(row, lease).attempts = row.attempts /\ Touched(row, lease).id = row.id
           /\ TakenOver(row, lease) \in Row /\ TakenOver(row, lease).status = "SENDING"
           /\ TakenOver(row, lease).attempts = row.attempts + 1
           /\ TakenOver(row, lease).id = row.id
           /\ NoRow \in Row /\ NoRow.attempts = 0
           /\ [NoRow EXCEPT !.status = "SUPPRESSED", !.attempts = 1] \in Row
<1>1. /\ [row EXCEPT !.stale = FALSE, !.lease = lease] \in Row
      /\ [row EXCEPT !.stale = FALSE, !.lease = lease].status = row.status
      /\ [row EXCEPT !.stale = FALSE, !.lease = lease].attempts = row.attempts
      /\ [row EXCEPT !.stale = FALSE, !.lease = lease].id = row.id
  BY DEF Row
<1>2. ASSUME NEW other \in Row
      PROVE  /\ [other EXCEPT !.status = "SENDING", !.attempts = @ + 1] \in Row
             /\ [other EXCEPT !.status = "SENDING", !.attempts = @ + 1].status = "SENDING"
             /\ [other EXCEPT !.status = "SENDING", !.attempts = @ + 1].attempts = other.attempts + 1
             /\ [other EXCEPT !.status = "SENDING", !.attempts = @ + 1].id = other.id
  <2>1. other.attempts + 1 \in Nat
    BY DEF Row
  <2>2. ASSUME NEW n \in Nat
        PROVE  /\ [other EXCEPT !.status = "SENDING", !.attempts = n] \in Row
               /\ [other EXCEPT !.status = "SENDING", !.attempts = n].status = "SENDING"
               /\ [other EXCEPT !.status = "SENDING", !.attempts = n].attempts = n
               /\ [other EXCEPT !.status = "SENDING", !.attempts = n].id = other.id
    BY DEF Row
  <2> QED BY <2>1, <2>2
<1>3. NoRow \in Row /\ NoRow.attempts = 0
      /\ [NoRow EXCEPT !.status = "SUPPRESSED", !.attempts = 1] \in Row
  BY DEF NoRow, Row, Final
<1>4. Touched(row, lease) = [row EXCEPT !.stale = FALSE, !.lease = lease]
  BY DEF Touched
<1>5. TakenOver(row, lease) = [Touched(row, lease) EXCEPT !.status = "SENDING", !.attempts = @ + 1]
  BY DEF TakenOver
<1>6. Touched(row, lease) \in Row
  BY <1>1, <1>4
<1>7. /\ TakenOver(row, lease) \in Row /\ TakenOver(row, lease).status = "SENDING"
      /\ TakenOver(row, lease).attempts = Touched(row, lease).attempts + 1
      /\ TakenOver(row, lease).id = Touched(row, lease).id
  BY <1>2, <1>5, <1>6
<1> QED BY <1>1, <1>3, <1>4, <1>6, <1>7

LEMMA TypeInit == Init => TypeInv
<1> SUFFICES ASSUME Init PROVE TypeInv
  OBVIOUS
<1>1. NoRow \in Row
  BY DEF NoRow, Row
<1>2. JobOK(Idle)
  BY IdleJob DEF JobOK, Working
<1>3. relay \in [Relays -> Job] /\ JobsOK
  BY <1>2, IdleJob DEF Init, JobsOK
<1>4. delivery \in [Messages -> [Handlers -> Row]] /\ sent \in [Messages -> [Handlers -> Nat]]
  BY <1>1 DEF Init
<1>5. suppressed \in BOOLEAN /\ optedOut \in BOOLEAN
  BY DEF Init
<1> QED BY <1>3, <1>4, <1>5, OutboxAssumption DEF Init, TypeInv, OutboxTypeOK

\* Steps outside the relays.
LEMMA TypeOutside ==
    ASSUME TypeInv,
           \/ \E m \in Messages : Publish(m) \/ TimePasses(m)
           \/ \E m \in Messages, h \in Handlers : RowGoesStale(m, h) \/ Bounce(m, h)
           \/ ChangePreference \/ UNCHANGED vars
    PROVE  TypeInv' /\ UNCHANGED relay
<1>1. OutboxTypeOK
  BY DEF TypeInv
<1>2. UNCHANGED <<relay, processed, sent, failures, crashes>>
  BY DEF Publish, TimePasses, RowGoesStale, Bounce, ChangePreference, vars, faults
<1>3. JobsOK'
  BY <1>2 DEF TypeInv, JobsOK
<1>4. ASSUME NEW m \in Messages, Publish(m) \/ TimePasses(m) PROVE OutboxTypeOK'
  <2>1. overruns' \in 0..MaxOverruns /\ due' \subseteq Messages
        /\ status' \in [Messages -> {"ABSENT", "PENDING", "PUBLISHING", "PUBLISHED", "DEAD"}]
    BY <1>1, <1>4, OutboxAssumption DEF OutboxTypeOK, Publish, TimePasses, faults
  <2>2. UNCHANGED <<attempts, delivery, suppressed, optedOut>>
    BY <1>4 DEF Publish, TimePasses, consent
  <2> QED BY <1>1, <1>2, <2>1, <2>2 DEF OutboxTypeOK
<1>5. ASSUME NEW m \in Messages, NEW h \in Handlers, RowGoesStale(m, h) \/ Bounce(m, h)
      PROVE  OutboxTypeOK'
  <2>1. delivery' \in [Messages -> [Handlers -> Row]]
    <3>1. \A row \in Row : /\ [row EXCEPT !.stale = TRUE] \in Row
                           /\ [row EXCEPT !.status = "BOUNCED", !.stale = FALSE] \in Row
      BY DEF Row, Final
    <3>2. delivery \in [Messages -> [Handlers -> Row]] /\ delivery[m][h] \in Row
      BY <1>1 DEF OutboxTypeOK
    <3>3. \/ UNCHANGED delivery
          \/ delivery' = [delivery EXCEPT ![m] = [delivery[m] EXCEPT ![h] =
                [delivery[m][h] EXCEPT !.stale = TRUE]]]
          \/ delivery' = [delivery EXCEPT ![m] = [delivery[m] EXCEPT ![h] =
                [delivery[m][h] EXCEPT !.status = "BOUNCED", !.stale = FALSE]]]
      BY <1>5, <3>2 DEF RowGoesStale, Bounce
    <3>4. ASSUME NEW row \in Row,
                 delivery' = [delivery EXCEPT ![m] = [delivery[m] EXCEPT ![h] = row]]
          PROVE  delivery' \in [Messages -> [Handlers -> Row]]
      BY <3>2, <3>4
    <3> QED BY <3>1, <3>2, <3>3, <3>4
  <2>2. suppressed' \in BOOLEAN /\ UNCHANGED <<status, attempts, due, optedOut, overruns>>
    BY <1>1, <1>5 DEF OutboxTypeOK, RowGoesStale, Bounce, outbox, consent, faults
  <2> QED BY <1>1, <1>2, <2>1, <2>2 DEF OutboxTypeOK
<1>6. ASSUME ChangePreference PROVE OutboxTypeOK'
  <2>1. suppressed' \in BOOLEAN /\ optedOut' \in BOOLEAN
    BY <1>1, <1>6, Zenon DEF ChangePreference, OutboxTypeOK
  <2>2. UNCHANGED <<status, attempts, due, delivery, overruns>>
    BY <1>6 DEF ChangePreference, outbox, faults
  <2> QED BY <1>1, <1>2, <2>1, <2>2 DEF OutboxTypeOK
<1>7. ASSUME UNCHANGED vars PROVE OutboxTypeOK'
  <2>1. suppressed' \in BOOLEAN /\ optedOut' \in BOOLEAN
    BY <1>1, <1>7, Zenon DEF vars, OutboxTypeOK
  <2>2. UNCHANGED <<status, attempts, due, delivery, overruns>>
    BY <1>7 DEF vars
  <2> QED BY <1>1, <1>2, <2>1, <2>2 DEF OutboxTypeOK
<1> QED BY <1>2, <1>3, <1>4, <1>5, <1>6, <1>7 DEF TypeInv

\* Between polls: a relay's own steps.
LEMMA TypeOfWork ==
    ASSUME TypeInv, NEW r \in Relays, Work(r)
    PROVE  TypeInv' /\ \A q \in Relays : q # r => relay'[q] = relay[q]
<1>1. OutboxTypeOK /\ JobOK(relay[r]) /\ relay[r] \in Job
  BY DEF TypeInv, OutboxTypeOK, JobsOK
<1>2. /\ relay' \in [Relays -> Job] /\ JobsOK'
      /\ \A q \in Relays : q # r => relay'[q] = relay[q]
  <2>1. \E job \in Job : Moved(r, job) /\ JobOK(job)
    <3>1. CASE Take(r)
      <4>1. CASE Moved(r, Idle)
        BY <4>1, IdleJob DEF JobOK, Working
      <4>2. ASSUME NEW job, NEW m, Moved(r, job), m \in relay[r].batch, job \in Job,
                   job.pc = "handlers", job.message = m, job.batch = relay[r].batch \ {m}
            PROVE  <2>1
        BY <1>1, <4>2 DEF Job, JobOK, Working
      <4> QED BY <3>1, <4>1, <4>2, TakeJob
    <3>2. CASE Finish(r)
      BY <3>2, FinishJob DEF JobOK, Working
    <3>3. CASE CheckProcessed(r)
      <4>1. PICK job, h : /\ Moved(r, job) /\ Kept(r, job) /\ h \in relay[r].todo
                          /\ \/ job.pc = "handlers"
                             \/ job.pc = "consent" /\ job.todo = relay[r].todo /\ job.handler = h
        BY <3>3, CheckJob
      <4>2. relay[r].pc = "handlers"
        BY <3>3 DEF CheckProcessed
      <4> QED BY <1>1, <4>1, <4>2 DEF JobOK, Working, Kept
    <3>4. ASSUME relay[r].pc \in Working, NEW pc \in Working, Goto(r, pc) PROVE <2>1
      <4>1. pc \in PCs
        BY DEF Working, PCs
      <4>2. PICK job : /\ Moved(r, job) /\ Kept(r, job) /\ job.pc = pc
                       /\ job.todo = relay[r].todo /\ job.handler = relay[r].handler
        BY <3>4, <4>1, GotoJob
      <4> QED BY <3>4, <4>2, WorkingJob DEF Kept
    <3>5. ASSUME relay[r].pc \in Working, GiveUp(r) PROVE <2>1
      <4>1. PICK job : Moved(r, job) /\ Kept(r, job) /\ job.pc = "handlers"
        BY <3>5, GiveUpJob
      <4> QED BY <3>5, <4>1, WorkingJob DEF Kept
    <3>6. CASE Record(r)
      <4>1. PICK job : Moved(r, job) /\ Kept(r, job) /\ job.pc = "handlers"
        BY <3>6, RecordJob
      <4>2. relay[r].pc \in Working
        BY <3>6 DEF Record, Working
      <4> QED BY <4>1, <4>2, WorkingJob DEF Kept
    <3>7. CASE Consent(r) \/ ClaimDelivery(r) \/ Reread(r) \/ Retake(r) \/ Send(r) \/ MarkSent(r)
      <4>1. relay[r].pc \in Working /\ \E pc \in Working : Goto(r, pc)
        BY <3>7 DEF Consent, ClaimDelivery, Reread, Retake, Send, MarkSent, Working
      <4> QED BY <3>4, <4>1
    <3>8. CASE MarkFailed(r)
      BY <3>5, <3>8 DEF MarkFailed, Working
    <3>9. CASE Throw(r)
      <4>1. CASE relay[r].pc \in Working /\ GiveUp(r)
        BY <3>5, <4>1
      <4>2. ASSUME relay[r].pc = "handlers", NEW h \in relay[r].todo,
                   relay' = [relay EXCEPT ![r].todo = @ \ {h}, ![r].failed = TRUE]
            PROVE  <2>1
        <5> DEFINE job == [relay[r] EXCEPT !.todo = relay[r].todo \ {h}, !.failed = TRUE]
        <5>1. Moved(r, job)
          BY <1>1, <4>2 DEF Moved, OutboxTypeOK
        <5>2. job \in Job /\ job.pc = "handlers" /\ job.batch = relay[r].batch
              /\ job.message = relay[r].message
          BY <1>1, <4>2 DEF Job
        <5> QED BY <1>1, <4>2, <5>1, <5>2 DEF JobOK, Working
      <4>3. ASSUME relay[r].pc = "handlers", relay' = [relay EXCEPT ![r].failed = TRUE] PROVE <2>1
        <5> DEFINE job == [relay[r] EXCEPT !.failed = TRUE]
        <5>1. Moved(r, job)
          BY <1>1, <4>3 DEF Moved, OutboxTypeOK
        <5>2. job \in Job /\ job.pc = "handlers" /\ job.batch = relay[r].batch
              /\ job.message = relay[r].message
          BY <1>1, <4>3 DEF Job
        <5> QED BY <1>1, <4>3, <5>1, <5>2 DEF JobOK, Working
      <4> QED BY <3>9, <4>1, <4>2, <4>3 DEF Throw, Working
    <3> QED BY <3>1, <3>2, <3>3, <3>6, <3>7, <3>8, <3>9 DEF Work
  <2> QED BY <2>1, JobMoved
<1>3. delivery' \in [Messages -> [Handlers -> Row]]
  <2>1. ASSUME relay[r].pc \in Working, NEW row \in Row, SetRow(r, row) PROVE <1>3
    BY <2>1, SetRowEffect
  <2>2. CASE Consent(r)
    <3>1. relay[r].pc \in Working
      BY <2>2 DEF Consent, Working
    <3>2. \/ UNCHANGED delivery \/ SetRow(r, [NoRow EXCEPT !.status = "SUPPRESSED", !.attempts = 1])
          \/ SetRow(r, Touched(RowOf(r), Lease(r)))
      BY <2>2 DEF Consent
    <3> QED BY <1>1, <2>1, <3>1, <3>2, RowOfType, RowTypes DEF OutboxTypeOK
  <2>3. CASE ClaimDelivery(r)
    <3>1. relay[r].pc \in Working
      BY <2>3 DEF ClaimDelivery, Working
    <3>2. [status |-> "SENDING", attempts |-> 1, stale |-> FALSE, lease |-> Lease(r),
           id |-> FALSE] \in Row
      BY <3>1, RowOfType DEF Row
    <3> QED BY <1>1, <2>1, <2>3, <3>1, <3>2 DEF ClaimDelivery, OutboxTypeOK
  <2>4. CASE Retake(r)
    <3>1. relay[r].pc \in Working
      BY <2>4 DEF Retake, Working
    <3> QED BY <2>1, <2>4, <3>1, RowOfType, RowTypes DEF Retake
  <2>5. CASE MarkSent(r)
    <3>1. relay[r].pc \in Working
      BY <2>5 DEF MarkSent, Working
    <3>2. [RowOf(r) EXCEPT !.status = "SENT", !.stale = FALSE, !.id = TRUE] \in Row
      BY <3>1, RowOfType DEF Row, Final
    <3> QED BY <2>1, <2>5, <3>1, <3>2 DEF MarkSent
  <2>6. CASE MarkFailed(r)
    <3>1. relay[r].pc \in Working
      BY <2>6 DEF MarkFailed, Working
    <3>2. [RowOf(r) EXCEPT !.status = "FAILED", !.stale = FALSE] \in Row
      BY <3>1, RowOfType DEF Row
    <3> QED BY <2>1, <2>6, <3>1, <3>2 DEF MarkFailed
  <2>7. CASE Take(r) \/ Finish(r) \/ CheckProcessed(r) \/ Record(r) \/ Reread(r) \/ Send(r) \/ Throw(r)
    BY <1>1, <2>7 DEF Take, Finish, CheckProcessed, Record, Reread, Send, Throw, OutboxTypeOK
  <2> QED BY <2>2, <2>3, <2>4, <2>5, <2>6, <2>7 DEF Work
<1>4. /\ status' \in [Messages -> {"ABSENT", "PENDING", "PUBLISHING", "PUBLISHED", "DEAD"}]
      /\ due' \subseteq Messages /\ UNCHANGED attempts
  <2>1. CASE Finish(r)
    <3>1. \A failed, seen : Verdict(failed, seen) \in {"PENDING", "PUBLISHED", "DEAD"}
      BY DEF Verdict
    <3> QED BY <1>1, <2>1, <3>1 DEF Finish, OutboxTypeOK
  <2>2. CASE ~Finish(r)
    <3>1. UNCHANGED <<status, due, attempts>>
      BY <2>2 DEF Work, Take, CheckProcessed, Record, Consent, ClaimDelivery, Reread, Retake, Send,
         MarkSent, MarkFailed, Throw, outbox
    <3> QED BY <1>1, <3>1 DEF OutboxTypeOK
  <2> QED BY <2>1, <2>2
<1>5. processed' \subseteq Messages \X Handlers
  <2>1. CASE Record(r)
    <3>1. relay[r].pc \in Working
      BY <2>1 DEF Record, Working
    <3> QED BY <1>1, <2>1, <3>1, RowOfType DEF Record, OutboxTypeOK
  <2>2. CASE ~Record(r)
    <3>1. UNCHANGED processed
      BY <2>2 DEF Work, Take, Finish, CheckProcessed, Consent, ClaimDelivery, Reread, Retake, Send,
         MarkSent, MarkFailed, Throw
    <3> QED BY <1>1, <3>1 DEF OutboxTypeOK
  <2> QED BY <2>1, <2>2
<1>6. sent' \in [Messages -> [Handlers -> Nat]]
  <2>1. CASE Send(r)
    <3>1. relay[r].pc \in Working
      BY <2>1 DEF Send, Working
    <3>2. relay[r].message \in Messages /\ relay[r].handler \in Handlers
      BY <3>1, RowOfType
    <3>3. \/ UNCHANGED sent
          \/ sent' = [sent EXCEPT ![relay[r].message] = [sent[relay[r].message] EXCEPT
                         ![relay[r].handler] = sent[relay[r].message][relay[r].handler] + 1]]
      BY <1>1, <2>1, <3>2 DEF Send, OutboxTypeOK
    <3>4. /\ sent \in [Messages -> [Handlers -> Nat]]
          /\ sent[relay[r].message][relay[r].handler] + 1 \in Nat
      BY <1>1, <3>2 DEF OutboxTypeOK
    <3> QED BY <3>2, <3>3, <3>4
  <2>2. CASE ~Send(r)
    <3>1. UNCHANGED sent
      BY <2>2 DEF Work, Take, Finish, CheckProcessed, Record, Consent, ClaimDelivery, Reread, Retake,
         MarkSent, MarkFailed, Throw
    <3> QED BY <1>1, <3>1 DEF OutboxTypeOK
  <2> QED BY <2>1, <2>2
<1>7. failures' \in 0..MaxFailures /\ UNCHANGED <<suppressed, optedOut, overruns, crashes>>
  <2>1. failures' \in 0..MaxFailures
    <3>1. \/ UNCHANGED failures
          \/ failures < MaxFailures /\ failures' = failures + 1
      BY DEF Work, Take, Finish, CheckProcessed, Record, Consent, ClaimDelivery, Reread, Retake, Send,
         MarkSent, MarkFailed, Throw, faults
    <3>2. failures \in 0..MaxFailures /\ MaxFailures \in Nat
      BY <1>1, OutboxAssumption DEF OutboxTypeOK
    <3> QED BY <3>1, <3>2
  <2>2. UNCHANGED <<suppressed, optedOut, overruns, crashes>>
    BY DEF Work, Take, Finish, CheckProcessed, Record, Consent, ClaimDelivery, Reread, Retake, Send,
       MarkSent, MarkFailed, Throw, faults, consent
  <2> QED BY <2>1, <2>2
<1>8. OutboxTypeOK'
  <2>1. suppressed' \in BOOLEAN /\ optedOut' \in BOOLEAN
    BY <1>1, <1>7, Zenon DEF OutboxTypeOK
  <2> QED BY <1>1, <1>2, <1>3, <1>4, <1>5, <1>6, <1>7, <2>1 DEF OutboxTypeOK
<1> QED BY <1>2, <1>8 DEF TypeInv

\* The batch of a poll, and the job it begins.
Batch(r, batch) ==
    [Idle EXCEPT !.pc = "next", !.batch = batch,
                 !.seen = [m \in Messages |-> IF m \in batch THEN attempts[m] + 1 ELSE 0]]

LEMMA PollEffect ==
    ASSUME TypeInv, NEW r \in Relays, Poll(r)
    PROVE  \E batch \in SUBSET Claimable, job \in Job :
              /\ Moved(r, job) /\ job.pc = "next" /\ job.message = None /\ job.batch = batch
              /\ \A m \in batch : job.seen[m] = attempts[m] + 1
              /\ status' = [m \in Messages |-> IF m \in batch THEN "PUBLISHING" ELSE status[m]]
              /\ attempts' = [m \in Messages |-> IF m \in batch THEN attempts[m] + 1 ELSE attempts[m]]
              /\ due' = due \ batch
<1>1. PICK batch \in SUBSET Claimable :
         /\ status' = [m \in Messages |-> IF m \in batch THEN "PUBLISHING" ELSE status[m]]
         /\ attempts' = [m \in Messages |-> IF m \in batch THEN attempts[m] + 1 ELSE attempts[m]]
         /\ due' = due \ batch
         /\ Moved(r, Batch(r, batch))
  BY DEF Poll, Hidden, Moved, Batch
<1>2. batch \subseteq Messages /\ attempts \in [Messages -> Nat]
  BY DEF Claimable, TypeInv, OutboxTypeOK
<1>3. [m \in Messages |-> IF m \in batch THEN attempts[m] + 1 ELSE 0] \in [Messages -> Nat]
  BY <1>2
<1>4. ASSUME NEW seen \in [Messages -> Nat]
      PROVE  LET job == [Idle EXCEPT !.pc = "next", !.batch = batch, !.seen = seen]
             IN  /\ job \in Job /\ job.pc = "next" /\ job.message = None /\ job.batch = batch
                 /\ job.seen = seen
  BY <1>2 DEF Idle, Job, PCs
<1>5. LET job == Batch(r, batch)
      IN  /\ job \in Job /\ job.pc = "next" /\ job.message = None /\ job.batch = batch
          /\ job.seen = [m \in Messages |-> IF m \in batch THEN attempts[m] + 1 ELSE 0]
  BY <1>3, <1>4 DEF Batch
<1>6. \A m \in batch : Batch(r, batch).seen[m] = attempts[m] + 1
  BY <1>2, <1>5
<1> HIDE DEF Batch
<1> QED BY <1>1, <1>5, <1>6

LEMMA TypeOfPoll ==
    ASSUME TypeInv, NEW r \in Relays, Poll(r) \/ Crash(r)
    PROVE  TypeInv' /\ \A q \in Relays : q # r => relay'[q] = relay[q]
<1>1. OutboxTypeOK
  BY DEF TypeInv
<1>2. CASE Poll(r)
  <2>1. PICK batch \in SUBSET Claimable, job \in Job :
           /\ Moved(r, job) /\ job.pc = "next" /\ job.message = None /\ job.batch = batch
           /\ status' = [m \in Messages |-> IF m \in batch THEN "PUBLISHING" ELSE status[m]]
           /\ attempts' = [m \in Messages |-> IF m \in batch THEN attempts[m] + 1 ELSE attempts[m]]
           /\ due' = due \ batch
    BY <1>2, PollEffect
  <2>2. relay' \in [Relays -> Job] /\ JobsOK' /\ \A q \in Relays : q # r => relay'[q] = relay[q]
    <3>1. JobOK(job)
      BY <2>1 DEF JobOK, Working
    <3> QED BY <2>1, <3>1, JobMoved
  <2>3. /\ status' \in [Messages -> {"ABSENT", "PENDING", "PUBLISHING", "PUBLISHED", "DEAD"}]
        /\ attempts' \in [Messages -> Nat] /\ due' \subseteq Messages
    BY <1>1, <2>1 DEF OutboxTypeOK
  <2>4. UNCHANGED <<processed, delivery, suppressed, optedOut, sent, failures, overruns, crashes>>
    BY <1>2 DEF Poll, consent, faults
  <2>5. suppressed' \in BOOLEAN /\ optedOut' \in BOOLEAN
    BY <1>1, <2>4, Zenon DEF OutboxTypeOK
  <2> QED BY <1>1, <2>2, <2>3, <2>4, <2>5 DEF TypeInv, OutboxTypeOK
<1>3. CASE Crash(r)
  <2>1. relay' \in [Relays -> Job] /\ JobsOK' /\ \A q \in Relays : q # r => relay'[q] = relay[q]
    <3>1. JobOK(Idle)
      BY IdleJob DEF JobOK, Working
    <3> QED BY <1>3, <3>1, IdleJob, JobMoved DEF Crash, Moved
  <2>2. UNCHANGED <<status, attempts, due, processed, delivery, suppressed, optedOut, sent, failures, overruns>>
    BY <1>3 DEF Crash, outbox, consent
  <2>3. crashes' \in 0..MaxCrashes
    BY <1>1, <1>3, OutboxAssumption DEF Crash, OutboxTypeOK
  <2>4. suppressed' \in BOOLEAN /\ optedOut' \in BOOLEAN
    BY <1>1, <2>2, Zenon DEF OutboxTypeOK
  <2> QED BY <1>1, <2>1, <2>2, <2>3, <2>4 DEF TypeInv, OutboxTypeOK
<1> QED BY <1>2, <1>3

\* The steps of Next, by whom they belong to.
LEMMA Steps ==
    ASSUME [Next]_vars
    PROVE  \/ \/ \E m \in Messages : Publish(m) \/ TimePasses(m)
              \/ \E m \in Messages, h \in Handlers : RowGoesStale(m, h) \/ Bounce(m, h)
              \/ ChangePreference \/ UNCHANGED vars
           \/ \E r \in Relays : Poll(r) \/ Crash(r)
           \/ \E r \in Relays : Work(r)
  BY DEF Next

LEMMA TypeStep == TypeInv /\ [Next]_vars => TypeInv'
  BY Steps, TypeOutside, TypeOfWork, TypeOfPoll

\* Every table and every relay holds values of its columns' types, for any
\* number of relays and any batch size.
THEOREM OutboxTypes == Spec => []OutboxTypeOK
<1>1. Spec => []TypeInv
  BY TypeInit, TypeStep, PTL DEF Spec
<1> QED BY <1>1, PTL DEF TypeInv

-----------------------------------------------------------------------------
(* Published means handled: the handlers a relay has done with, and did not *)
(* see fail, have their ProcessedEvent row.                                 *)

DoneIn(job, rows) ==
    job.pc \in Working \cup {"handlers"} /\ job.failed = FALSE =>
        \A h \in Handlers \ job.todo : <<job.message, h>> \in rows

HandledInv ==
    /\ TypeInv
    /\ PublishedMeansHandled
    /\ \A r \in Relays : DoneIn(relay[r], processed)

LEMMA HandledKept ==
    ASSUME HandledInv, TypeInv', processed \subseteq processed',
           \A m \in Messages : status'[m] = "PUBLISHED" =>
              status[m] = "PUBLISHED" \/ \A h \in Handlers : <<m, h>> \in processed,
           \A r \in Relays : relay'[r] = relay[r] \/ DoneIn(relay'[r], processed')
    PROVE  HandledInv'
<1>1. PublishedMeansHandled'
  BY DEF HandledInv, PublishedMeansHandled
<1>2. \A r \in Relays : DoneIn(relay[r], processed')
  BY DEF HandledInv, DoneIn
<1>3. \A r \in Relays : DoneIn(relay'[r], processed')
  BY <1>2
<1> QED BY <1>1, <1>3 DEF HandledInv

LEMMA HandledStep == HandledInv /\ [Next]_vars => HandledInv'
<1> SUFFICES ASSUME HandledInv, [Next]_vars PROVE HandledInv'
  OBVIOUS
<1>1. TypeInv /\ TypeInv' /\ status \in [Messages -> {"ABSENT", "PENDING", "PUBLISHING", "PUBLISHED", "DEAD"}]
  BY TypeStep DEF HandledInv, TypeInv, OutboxTypeOK
<1>2. CASE \/ \E m \in Messages : Publish(m) \/ TimePasses(m)
           \/ \E m \in Messages, h \in Handlers : RowGoesStale(m, h) \/ Bounce(m, h)
           \/ ChangePreference \/ UNCHANGED vars
  <2>1. UNCHANGED <<relay, processed>>
    BY <1>2 DEF Publish, TimePasses, RowGoesStale, Bounce, ChangePreference, vars
  <2>2. \A m \in Messages : status'[m] = "PUBLISHED" => status[m] = "PUBLISHED"
    BY <1>1, <1>2 DEF Publish, TimePasses, RowGoesStale, Bounce, ChangePreference, vars, outbox
  <2> QED BY <1>1, <2>1, <2>2, HandledKept
<1>3. ASSUME NEW r \in Relays, Poll(r) \/ Crash(r) PROVE HandledInv'
  <2>1. UNCHANGED processed /\ \A q \in Relays : q # r => relay'[q] = relay[q]
    BY <1>1, <1>3, TypeOfPoll DEF Poll, Crash
  <2>2. /\ relay'[r].pc \in {"next", "idle"}
        /\ \A m \in Messages : status'[m] = "PUBLISHED" => status[m] = "PUBLISHED"
    <3>1. relay \in [Relays -> Job]
      BY <1>1 DEF TypeInv, OutboxTypeOK
    <3>2. CASE Poll(r)
      BY <1>1, <3>1, <3>2, PollEffect DEF Moved
    <3>3. CASE Crash(r)
      BY <3>1, <3>3, IdleJob DEF Crash, outbox
    <3> QED BY <1>3, <3>2, <3>3
  <2>3. DoneIn(relay'[r], processed')
    BY <2>2 DEF DoneIn, Working
  <2> QED BY <1>1, <2>1, <2>2, <2>3, HandledKept
<1>4. ASSUME NEW r \in Relays, Work(r) PROVE HandledInv'
  <2> DEFINE old == relay[r]
  <2>1. /\ relay \in [Relays -> Job] /\ old \in Job /\ JobOK(old) /\ DoneIn(old, processed)
        /\ \A q \in Relays : q # r => relay'[q] = relay[q]
    BY <1>1, <1>4, TypeOfWork DEF TypeInv, OutboxTypeOK, JobsOK, HandledInv
  <2>2. processed \subseteq processed'
    BY <1>4 DEF Work, Take, Finish, CheckProcessed, Record, Consent, ClaimDelivery, Reread, Retake,
       Send, MarkSent, MarkFailed, Throw
  <2>3. \A m \in Messages : status'[m] = "PUBLISHED" =>
           status[m] = "PUBLISHED" \/ \A h \in Handlers : <<m, h>> \in processed
    <3>1. CASE Finish(r)
      <4>1. /\ old.pc = "handlers" /\ old.todo = {} /\ old.message \in Messages
            /\ status' = [status EXCEPT ![old.message] = Verdict(old.failed, old.seen[old.message])]
        BY <2>1, <3>1 DEF Finish, JobOK
      <4>2. CASE old.failed = FALSE
        BY <1>1, <2>1, <4>1, <4>2 DEF DoneIn
      <4>3. CASE old.failed = TRUE
        <5>1. Verdict(old.failed, old.seen[old.message]) # "PUBLISHED"
          BY <4>3 DEF Verdict
        <5> QED BY <1>1, <4>1, <5>1
      <4> QED BY <2>1, <4>2, <4>3 DEF Job
    <3>2. CASE ~Finish(r)
      BY <1>4, <3>2 DEF Work, Take, CheckProcessed, Record, Consent, ClaimDelivery, Reread, Retake,
         Send, MarkSent, MarkFailed, Throw, outbox
    <3> QED BY <3>1, <3>2
  <2>4. DoneIn(relay'[r], processed')
    <3> SUFFICES ASSUME NEW job, Moved(r, job) PROVE DoneIn(job, processed')
      <4>1. \E job : Moved(r, job)
        BY <1>1, <2>1, TypeStep DEF Moved, TypeInv, OutboxTypeOK
      <4> QED BY <2>1, <4>1 DEF Moved
    <3>0. relay'[r] = job
      BY <2>1 DEF Moved
    <3>1. CASE Take(r)
      <4>1. \/ job = Idle
            \/ job.todo = Handlers
        BY <1>1, <2>1, <3>0, <3>1, TakeJob DEF Moved
      <4> QED BY <4>1, IdleJob DEF DoneIn, Working
    <3>2. CASE Finish(r)
      <4>1. job.pc = "next"
        BY <1>1, <2>1, <3>0, <3>2, FinishJob DEF Moved
      <4> QED BY <4>1 DEF DoneIn, Working
    <3>3. CASE CheckProcessed(r)
      <4>1. /\ old.pc = "handlers" /\ UNCHANGED processed
            /\ \E h : /\ job.message = old.message /\ job.failed = old.failed
                      /\ \/ job.todo = old.todo \ {h} /\ <<old.message, h>> \in processed
                         \/ job.todo = old.todo
        BY <1>1, <2>1, <3>0, <3>3, CheckJob DEF Moved, Kept, CheckProcessed
      <4> QED BY <2>1, <4>1 DEF DoneIn
    <3>4. CASE Record(r)
      <4>1. /\ old.pc \in Working /\ processed' = processed \cup {<<old.message, old.handler>>}
            /\ job.message = old.message /\ job.failed = old.failed
            /\ job.todo = old.todo \ {old.handler}
        <5>1. PICK k : /\ Moved(r, k) /\ Kept(r, k) /\ k.todo = old.todo \ {old.handler}
                       /\ k.failed = old.failed
          BY <1>1, <3>4, RecordJob
        <5>2. k = job
          BY <2>1, <3>0, <5>1 DEF Moved
        <5> QED BY <3>4, <5>1, <5>2 DEF Kept, Record, Working
      <4> QED BY <2>1, <4>1 DEF DoneIn
    <3>5. ASSUME old.pc \in Working, NEW pc \in Working, Goto(r, pc) PROVE DoneIn(job, processed')
      <4>1. pc \in PCs
        BY DEF Working, PCs
      <4>2. job.message = old.message /\ job.failed = old.failed /\ job.todo = old.todo
        BY <1>1, <2>1, <3>0, <3>5, <4>1, GotoJob DEF Moved, Kept
      <4> QED BY <2>1, <2>2, <3>5, <4>2 DEF DoneIn
    <3>6. ASSUME GiveUp(r) PROVE DoneIn(job, processed')
      <4>1. job.failed = TRUE
        BY <2>1, <3>0, <3>6 DEF GiveUp, Job
      <4> QED BY <4>1 DEF DoneIn
    <3>7. CASE Consent(r) \/ ClaimDelivery(r) \/ Reread(r) \/ Retake(r) \/ Send(r) \/ MarkSent(r)
      <4>1. old.pc \in Working /\ \E pc \in Working : Goto(r, pc)
        BY <3>7 DEF Consent, ClaimDelivery, Reread, Retake, Send, MarkSent, Working
      <4> QED BY <3>5, <4>1
    <3>8. CASE MarkFailed(r)
      BY <3>6, <3>8 DEF MarkFailed
    <3>9. CASE Throw(r)
      <4>1. CASE GiveUp(r)
        BY <3>6, <4>1
      <4>2. CASE ~GiveUp(r)
        <5>1. job.failed = TRUE
          <6>1. \/ \E h : relay' = [relay EXCEPT ![r].todo = @ \ {h}, ![r].failed = TRUE]
                \/ relay' = [relay EXCEPT ![r].failed = TRUE]
            BY <3>9, <4>2 DEF Throw
          <6>2. ASSUME NEW h, relay' = [relay EXCEPT ![r].todo = @ \ {h}, ![r].failed = TRUE]
                PROVE  job.failed = TRUE
            BY <2>1, <3>0, <6>2 DEF Job
          <6>3. CASE relay' = [relay EXCEPT ![r].failed = TRUE]
            BY <2>1, <3>0, <6>3 DEF Job
          <6> QED BY <6>1, <6>2, <6>3
        <5> QED BY <5>1 DEF DoneIn
      <4> QED BY <4>1, <4>2
    <3> QED BY <1>4, <3>1, <3>2, <3>3, <3>4, <3>7, <3>8, <3>9 DEF Work
  <2> QED BY <1>1, <2>1, <2>2, <2>3, <2>4, HandledKept
<1> QED BY <1>2, <1>3, <1>4, Steps

\* A message is PUBLISHED only if every handler of its event has run for it,
\* in whatever attempts and by whatever relays.
THEOREM PublishedIsHandled == Spec => []PublishedMeansHandled
<1>1. Init => HandledInv
  BY TypeInit, IdleJob DEF Init, HandledInv, PublishedMeansHandled, DoneIn, Working
<1>2. Spec => []HandledInv
  BY <1>1, HandledStep, PTL DEF Spec
<1> QED BY <1>2, PTL DEF HandledInv

-----------------------------------------------------------------------------
(* Sends are claimed.                                                      *)

SendsInv ==
    /\ TypeInv
    /\ SendsAreClaimed
    /\ \A m \in Messages, h \in Handlers : delivery[m][h].status = "none" => delivery[m][h].attempts = 0

LEMMA SendingFinite ==
    \A m, h : /\ Sending(m, h) \subseteq Relays /\ IsFiniteSet(Sending(m, h))
              /\ Cardinality(Sending(m, h)) \in Nat
<1> TAKE m, h
<1>1. Sending(m, h) \subseteq Relays /\ IsFiniteSet(Relays)
  BY OutboxAssumption DEF Sending
<1> QED BY <1>1, FS_Subset, FS_CardinalityType

\* Attempts that do not shrink, and nobody new who is about to send.
LEMMA SendsKept ==
    ASSUME SendsInv, TypeInv', UNCHANGED sent,
           \A m \in Messages, h \in Handlers : Sending(m, h)' \subseteq Sending(m, h),
           \A m \in Messages, h \in Handlers :
              /\ delivery'[m][h].attempts >= delivery[m][h].attempts
              /\ delivery'[m][h].status = "none" => delivery'[m][h] = delivery[m][h]
    PROVE  SendsInv'
<1>1. ASSUME NEW m \in Messages, NEW h \in Handlers
      PROVE  sent'[m][h] + Cardinality(Sending(m, h)') <= delivery'[m][h].attempts
  <2>1. /\ Cardinality(Sending(m, h)') <= Cardinality(Sending(m, h))
        /\ Cardinality(Sending(m, h)') \in Nat
    <3>1. Sending(m, h)' \subseteq Sending(m, h) /\ IsFiniteSet(Sending(m, h))
      BY SendingFinite
    <3> QED BY <3>1, FS_Subset, FS_CardinalityType
  <2>2. /\ sent[m][h] \in Nat /\ delivery[m][h].attempts \in Nat
        /\ delivery'[m][h].attempts \in Nat
    BY DEF SendsInv, TypeInv, OutboxTypeOK, Row
  <2>3. sent[m][h] + Cardinality(Sending(m, h)) <= delivery[m][h].attempts
    BY DEF SendsInv, SendsAreClaimed
  <2> QED BY <2>1, <2>2, <2>3, SendingFinite
<1> QED BY <1>1 DEF SendsInv, SendsAreClaimed

\* Relay r took the row over, or made it: one attempt for one more send.
LEMMA SendsClaimed ==
    ASSUME SendsInv, TypeInv', UNCHANGED sent, NEW r \in Relays, relay[r].pc \in Working \ {"send"},
           NEW row \in Row, SetRow(r, row), row.attempts >= RowOf(r).attempts + 1, row.status # "none",
           Goto(r, "send")
    PROVE  SendsInv'
<1>0. PICK n \in Messages, k \in Handlers : n = relay[r].message /\ k = relay[r].handler
  BY RowOfType DEF SendsInv
<1>1. /\ RowOf(r) = delivery[n][k]
      /\ \A m \in Messages, h \in Handlers : m # n \/ h # k => delivery'[m][h] = delivery[m][h]
      /\ delivery'[n][k] = row
  BY <1>0, SetRowEffect DEF SendsInv, RowOf
<1>2. /\ relay'[r].pc = "send" /\ relay'[r].message = n /\ relay'[r].handler = k
      /\ \A q \in Relays : q # r => relay'[q] = relay[q]
  <2>1. PICK job : Moved(r, job) /\ Kept(r, job) /\ job.pc = "send" /\ job.handler = k
    BY <1>0, GotoJob DEF SendsInv, PCs
  <2>2. relay \in [Relays -> Job]
    BY DEF SendsInv, TypeInv, OutboxTypeOK
  <2> QED BY <1>0, <2>1, <2>2 DEF Moved, Kept
<1>3. r \notin Sending(n, k) /\ Sending(n, k)' = Sending(n, k) \cup {r}
  BY <1>0, <1>2 DEF Sending
<1>4. Cardinality(Sending(n, k)') = Cardinality(Sending(n, k)) + 1
  BY <1>3, SendingFinite, FS_AddElement
<1>5. \A m \in Messages, h \in Handlers : m # n \/ h # k => Sending(m, h)' = Sending(m, h)
  BY <1>0, <1>2 DEF Sending
<1>6. sent[n][k] \in Nat /\ delivery[n][k].attempts \in Nat /\ row.attempts \in Nat
  BY <1>1 DEF SendsInv, TypeInv, OutboxTypeOK, Row
<1>7. sent'[n][k] + Cardinality(Sending(n, k)') <= delivery'[n][k].attempts
  BY <1>1, <1>4, <1>6, SendingFinite DEF SendsInv, SendsAreClaimed
<1>8. ASSUME NEW m \in Messages, NEW h \in Handlers, m # n \/ h # k
      PROVE  sent'[m][h] + Cardinality(Sending(m, h)') <= delivery'[m][h].attempts
  BY <1>1, <1>5, <1>8 DEF SendsInv, SendsAreClaimed
<1>9. SendsAreClaimed'
  BY <1>7, <1>8 DEF SendsAreClaimed
<1>10. \A m \in Messages, h \in Handlers :
          delivery'[m][h].status = "none" => delivery'[m][h].attempts = 0
  BY <1>1 DEF SendsInv
<1> QED BY <1>9, <1>10 DEF SendsInv

\* Relay r has sent, or failed to.
LEMMA SendsDone ==
    ASSUME SendsInv, TypeInv', NEW r \in Relays, Send(r)
    PROVE  SendsInv'
<1>0. PICK n \in Messages, k \in Handlers : n = relay[r].message /\ k = relay[r].handler
  BY RowOfType DEF Send, Working, SendsInv
<1>1. /\ relay[r].pc = "send" /\ UNCHANGED delivery
      /\ sent \in [Messages -> [Handlers -> Nat]]
  BY DEF Send, SendsInv, TypeInv, OutboxTypeOK
<1>2. relay'[r].pc # "send" /\ \A q \in Relays : q # r => relay'[q] = relay[q]
  BY DEF Send, Goto, SendsInv, TypeInv, OutboxTypeOK, Job
<1>3. r \in Sending(n, k) /\ Sending(n, k)' = Sending(n, k) \ {r}
  BY <1>0, <1>1, <1>2 DEF Sending
<1>4. Cardinality(Sending(n, k)') = Cardinality(Sending(n, k)) - 1
  BY <1>3, SendingFinite, FS_RemoveElement
<1>5. \A m \in Messages, h \in Handlers : m # n \/ h # k => Sending(m, h)' = Sending(m, h)
  BY <1>0, <1>1, <1>2 DEF Sending
<1>6. /\ sent'[n][k] \in {sent[n][k], sent[n][k] + 1}
      /\ \A m \in Messages, h \in Handlers : m # n \/ h # k => sent'[m][h] = sent[m][h]
  BY <1>0, <1>1 DEF Send
<1>7. sent'[n][k] + Cardinality(Sending(n, k)') <= delivery'[n][k].attempts
  <2>1. sent[n][k] \in Nat /\ delivery[n][k].attempts \in Nat
    BY <1>1 DEF SendsInv, TypeInv, OutboxTypeOK, Row
  <2>2. sent[n][k] + Cardinality(Sending(n, k)) <= delivery[n][k].attempts
    BY <1>1 DEF SendsInv, SendsAreClaimed
  <2> QED BY <1>1, <1>4, <1>6, <2>1, <2>2, SendingFinite
<1>8. ASSUME NEW m \in Messages, NEW h \in Handlers, m # n \/ h # k
      PROVE  sent'[m][h] + Cardinality(Sending(m, h)') <= delivery'[m][h].attempts
  BY <1>1, <1>5, <1>6, <1>8 DEF SendsInv, SendsAreClaimed
<1>9. SendsAreClaimed'
  BY <1>7, <1>8 DEF SendsAreClaimed
<1> QED BY <1>1, <1>9 DEF SendsInv

\* No row loses an attempt, and the steps of a relay in which it is not left
\* about to send.
RowsGrow ==
    \A m \in Messages, h \in Handlers :
        /\ delivery'[m][h].attempts >= delivery[m][h].attempts
        /\ delivery'[m][h].status = "none" => delivery'[m][h] = delivery[m][h]

LEMMA RowsSame == TypeInv /\ UNCHANGED delivery => RowsGrow
<1> SUFFICES ASSUME TypeInv, UNCHANGED delivery, NEW m \in Messages, NEW h \in Handlers
             PROVE  delivery[m][h].attempts >= delivery[m][h].attempts
  BY DEF RowsGrow
<1>1. delivery[m][h].attempts \in Nat
  BY DEF TypeInv, OutboxTypeOK, Row
<1> QED BY <1>1

LEMMA RowSet ==
    ASSUME TypeInv, NEW r \in Relays, relay[r].pc \in Working, NEW row \in Row, SetRow(r, row),
           row.attempts >= RowOf(r).attempts, row.status # "none" \/ row = RowOf(r)
    PROVE  RowsGrow
<1>1. PICK n \in Messages, k \in Handlers : n = relay[r].message /\ k = relay[r].handler
  BY RowOfType
<1>2. /\ delivery'[n][k] = row /\ RowOf(r) = delivery[n][k]
      /\ \A m \in Messages, h \in Handlers : m # n \/ h # k => delivery'[m][h] = delivery[m][h]
  BY <1>1, SetRowEffect DEF RowOf
<1>3. \A m \in Messages, h \in Handlers : delivery[m][h].attempts \in Nat
  BY DEF TypeInv, OutboxTypeOK, Row
<1> QED BY <1>2, <1>3 DEF RowsGrow

LEMMA SendsStep == SendsInv /\ [Next]_vars => SendsInv'
<1> SUFFICES ASSUME SendsInv, [Next]_vars PROVE SendsInv'
  OBVIOUS
<1>1. TypeInv /\ TypeInv' /\ relay \in [Relays -> Job]
  BY TypeStep DEF SendsInv, TypeInv, OutboxTypeOK
<1>2. ASSUME NEW r \in Relays, relay'[r].pc # "send", \A q \in Relays : q # r => relay'[q] = relay[q],
             UNCHANGED sent, RowsGrow
      PROVE  SendsInv'
  <2>1. \A m \in Messages, h \in Handlers : Sending(m, h)' \subseteq Sending(m, h)
    BY <1>2 DEF Sending
  <2> QED BY <1>1, <1>2, <2>1, SendsKept DEF RowsGrow
<1>3. CASE \/ \E m \in Messages : Publish(m) \/ TimePasses(m)
           \/ \E m \in Messages, h \in Handlers : RowGoesStale(m, h) \/ Bounce(m, h)
           \/ ChangePreference \/ UNCHANGED vars
  <2>1. UNCHANGED <<relay, sent>>
    BY <1>3 DEF Publish, TimePasses, RowGoesStale, Bounce, ChangePreference, vars
  <2>2. RowsGrow
    <3>1. CASE UNCHANGED delivery
      BY <1>1, <3>1, RowsSame
    <3>2. ASSUME NEW n \in Messages, NEW k \in Handlers, RowGoesStale(n, k) \/ Bounce(n, k),
                 delivery' # delivery
          PROVE  RowsGrow
      <4>1. /\ delivery[n][k] \in Row
            /\ \A m \in Messages, h \in Handlers : delivery[m][h].attempts \in Nat
        BY <1>1 DEF TypeInv, OutboxTypeOK, Row
      <4>2. \E row \in Row : /\ row.attempts = delivery[n][k].attempts /\ row.status # "none"
                            /\ delivery' = [delivery EXCEPT ![n] = [delivery[n] EXCEPT ![k] = row]]
        <5> DEFINE a == [delivery[n][k] EXCEPT !.stale = TRUE]
                   b == [delivery[n][k] EXCEPT !.status = "BOUNCED", !.stale = FALSE]
        <5>1. /\ a \in Row /\ a.attempts = delivery[n][k].attempts /\ a.status = delivery[n][k].status
              /\ b \in Row /\ b.attempts = delivery[n][k].attempts /\ b.status = "BOUNCED"
          BY <4>1 DEF Row, Final
        <5>2. delivery \in [Messages -> [Handlers -> Row]]
          BY <1>1 DEF TypeInv, OutboxTypeOK
        <5>3. \/ /\ delivery' = [delivery EXCEPT ![n] = [delivery[n] EXCEPT ![k] = a]]
                 /\ delivery[n][k].status = "SENDING"
              \/ delivery' = [delivery EXCEPT ![n] = [delivery[n] EXCEPT ![k] = b]]
          BY <3>2, <5>2 DEF RowGoesStale, Bounce
        <5> HIDE DEF a, b
        <5> QED BY <5>1, <5>3
      <4>3. /\ delivery'[n][k].attempts = delivery[n][k].attempts
            /\ delivery'[n][k].status # "none"
            /\ \A m \in Messages, h \in Handlers : m # n \/ h # k => delivery'[m][h] = delivery[m][h]
        BY <1>1, <4>2 DEF TypeInv, OutboxTypeOK
      <4> QED BY <4>1, <4>3 DEF RowsGrow
    <3> QED BY <1>3, <3>1, <3>2 DEF Publish, TimePasses, ChangePreference, vars
  <2>3. \A m \in Messages, h \in Handlers : Sending(m, h)' \subseteq Sending(m, h)
    BY <2>1 DEF Sending
  <2> QED BY <1>1, <2>1, <2>2, <2>3, SendsKept DEF RowsGrow
<1>4. ASSUME NEW r \in Relays, Poll(r) \/ Crash(r) PROVE SendsInv'
  <2>1. relay'[r].pc # "send"
    <3>1. CASE Poll(r)
      BY <1>1, <3>1, PollEffect DEF Moved
    <3>2. CASE Crash(r)
      BY <1>1, <3>2, IdleJob DEF Crash
    <3> QED BY <1>4, <3>1, <3>2
  <2>2. UNCHANGED <<delivery, sent>>
    BY <1>4 DEF Poll, Crash
  <2> QED BY <1>1, <1>2, <1>4, <2>1, <2>2, RowsSame, TypeOfPoll
<1>5. ASSUME NEW r \in Relays, Work(r) PROVE SendsInv'
  <2>1. \A q \in Relays : q # r => relay'[q] = relay[q]
    BY <1>1, <1>5, TypeOfWork
  <2>2. ASSUME NEW pc \in Working \ {"send"}, Goto(r, pc) PROVE relay'[r].pc # "send"
    <3>1. PICK job : Moved(r, job) /\ job.pc = pc
      BY <1>1, <2>2, GotoJob DEF Working, PCs
    <3> QED BY <1>1, <2>2, <3>1 DEF Moved
  <2>3. GiveUp(r) => relay'[r].pc # "send"
    BY <1>1, GiveUpJob DEF Moved
  <2>4. CASE Take(r) \/ Finish(r) \/ CheckProcessed(r) \/ Record(r)
    <3>1. UNCHANGED <<delivery, sent>>
      BY <2>4 DEF Take, Finish, CheckProcessed, Record
    <3>2. relay'[r].pc # "send"
      <4>1. CASE Take(r)
        BY <1>1, <4>1, TakeJob, IdleJob DEF Moved
      <4>2. CASE Finish(r)
        BY <1>1, <4>2, FinishJob DEF Moved
      <4>3. CASE CheckProcessed(r)
        BY <1>1, <4>3, CheckJob DEF Moved
      <4>4. CASE Record(r)
        BY <1>1, <4>4, RecordJob DEF Moved
      <4> QED BY <2>4, <4>1, <4>2, <4>3, <4>4
    <3> QED BY <1>1, <1>2, <2>1, <3>1, <3>2, RowsSame
  <2>5. CASE Consent(r)
    <3>1. /\ relay[r].pc \in Working /\ UNCHANGED sent
          /\ "record" \in Working \ {"send"} /\ "claim" \in Working \ {"send"}
      BY <2>5 DEF Consent, Working
    <3>2. relay'[r].pc # "send"
      BY <2>2, <2>5, <3>1 DEF Consent
    <3>3. RowOf(r) \in Row /\ Lease(r) \in Nat
      BY <1>1, <3>1, RowOfType
    <3>4. RowsGrow
      <4>1. CASE UNCHANGED delivery
        BY <1>1, <4>1, RowsSame
      <4>2. ASSUME RowOf(r).status = "none",
                   SetRow(r, [NoRow EXCEPT !.status = "SUPPRESSED", !.attempts = 1])
            PROVE  RowsGrow
        <5>1. RowOf(r).attempts = 0
          BY <1>1, <3>1, <4>2, RowOfType DEF SendsInv, RowOf
        <5> DEFINE row == [NoRow EXCEPT !.status = "SUPPRESSED", !.attempts = 1]
        <5>2. row \in Row /\ row.attempts = 1 /\ row.status # "none"
          BY DEF NoRow, Row, Final
        <5>3. SetRow(r, row)
          BY <4>2
        <5> HIDE DEF row
        <5> QED BY <1>1, <3>1, <5>1, <5>2, <5>3, RowSet
      <4>3. ASSUME RowOf(r).status # "none", SetRow(r, Touched(RowOf(r), Lease(r))) PROVE RowsGrow
        <5>1. LET row == Touched(RowOf(r), Lease(r))
              IN  row \in Row /\ row.attempts = RowOf(r).attempts /\ row.status # "none"
          BY <3>3, <4>3, RowTypes
        <5>2. RowOf(r).attempts \in Nat
          BY <3>3 DEF Row
        <5> QED BY <1>1, <3>1, <4>3, <5>1, <5>2, RowSet
      <4> QED BY <2>5, <4>1, <4>2, <4>3 DEF Consent
    <3> QED BY <1>2, <2>1, <3>1, <3>2, <3>4
  <2>6. CASE ClaimDelivery(r)
    <3>1. /\ relay[r].pc \in Working \ {"send"} /\ UNCHANGED sent /\ "reread" \in Working \ {"send"}
      BY <2>6 DEF ClaimDelivery, Working
    <3>2. CASE RowOf(r).status = "none"
      <4> DEFINE row == [status |-> "SENDING", attempts |-> 1, stale |-> FALSE,
                         lease |-> Lease(r), id |-> FALSE]
      <4>1. row \in Row /\ row.attempts = 1 /\ row.status # "none"
        BY <1>1, <3>1, RowOfType DEF Row
      <4>2. RowOf(r).attempts = 0
        BY <1>1, <3>1, <3>2, RowOfType DEF SendsInv, RowOf
      <4>3. SetRow(r, row) /\ Goto(r, "send")
        BY <2>6, <3>2 DEF ClaimDelivery
      <4> HIDE DEF row
      <4> QED BY <1>1, <3>1, <4>1, <4>2, <4>3, SendsClaimed
    <3>3. CASE RowOf(r).status # "none"
      <4>1. UNCHANGED delivery /\ Goto(r, "reread")
        BY <2>6, <3>3 DEF ClaimDelivery
      <4> QED BY <1>1, <1>2, <2>1, <2>2, <3>1, <4>1, RowsSame
    <3> QED BY <3>2, <3>3
  <2>7. CASE Reread(r)
    <3>1. UNCHANGED <<delivery, sent>> /\ \E pc \in Working \ {"send"} : Goto(r, pc)
      BY <2>7 DEF Reread, Working
    <3> QED BY <1>1, <1>2, <2>1, <2>2, <3>1, RowsSame
  <2>8. CASE Retake(r)
    <3>1. relay[r].pc \in Working \ {"send"} /\ UNCHANGED sent
      BY <2>8 DEF Retake, Working
    <3>2. RowOf(r) \in Row /\ Lease(r) \in Nat /\ RowOf(r).attempts \in Nat
      BY <1>1, <3>1, RowOfType DEF Row
    <3>3. LET row == TakenOver(RowOf(r), Lease(r))
          IN  row \in Row /\ row.attempts = RowOf(r).attempts + 1 /\ row.status # "none"
      BY <3>2, RowTypes
    <3>4. SetRow(r, TakenOver(RowOf(r), Lease(r))) /\ Goto(r, "send")
      BY <2>8 DEF Retake
    <3>5. TakenOver(RowOf(r), Lease(r)).attempts >= RowOf(r).attempts + 1
      BY <3>2, <3>3
    <3> QED BY <1>1, <3>1, <3>3, <3>4, <3>5, SendsClaimed
  <2>9. CASE Send(r)
    BY <1>1, <2>9, SendsDone
  <2>10. CASE MarkSent(r) \/ MarkFailed(r)
    <3>1. relay[r].pc \in Working /\ UNCHANGED sent /\ "record" \in Working \ {"send"}
      BY <2>10 DEF MarkSent, MarkFailed, Working
    <3>2. relay'[r].pc # "send"
      BY <2>2, <2>3, <2>10, <3>1 DEF MarkSent, MarkFailed
    <3>3. RowOf(r) \in Row /\ RowOf(r).attempts \in Nat
      BY <1>1, <3>1, RowOfType DEF Row
    <3>4. ASSUME NEW row \in Row, row.attempts = RowOf(r).attempts, row.status # "none", SetRow(r, row)
          PROVE  RowsGrow
      BY <1>1, <3>1, <3>3, <3>4, RowSet
    <3>5. LET a == [RowOf(r) EXCEPT !.status = "SENT", !.stale = FALSE, !.id = TRUE]
              b == [RowOf(r) EXCEPT !.status = "FAILED", !.stale = FALSE]
          IN  /\ a \in Row /\ a.attempts = RowOf(r).attempts /\ a.status # "none"
              /\ b \in Row /\ b.attempts = RowOf(r).attempts /\ b.status # "none"
      BY <3>3 DEF Row, Final
    <3>6. RowsGrow
      BY <2>10, <3>4, <3>5 DEF MarkSent, MarkFailed
    <3> QED BY <1>2, <2>1, <3>1, <3>2, <3>6
  <2>11. CASE Throw(r)
    <3>1. UNCHANGED <<delivery, sent>>
      BY <2>11 DEF Throw
    <3>2. relay'[r].pc # "send"
      <4>1. CASE GiveUp(r)
        BY <2>3, <4>1
      <4>2. CASE ~GiveUp(r)
        BY <1>1, <2>11, <4>2 DEF Throw, Job
      <4> QED BY <4>1, <4>2
    <3> QED BY <1>1, <1>2, <2>1, <3>1, <3>2, RowsSame
  <2> QED BY <1>5, <2>4, <2>5, <2>6, <2>7, <2>8, <2>9, <2>10, <2>11 DEF Work
<1> QED BY <1>3, <1>4, <1>5, Steps

\* Every e-mail the provider accepts was claimed for, also when relays overlap,
\* die or take a row over.
THEOREM EverySendIsClaimed == Spec => []SendsAreClaimed
<1>1. Init => SendsInv
  <2>1. ASSUME Init PROVE SendsAreClaimed /\ \A m \in Messages, h \in Handlers :
                             delivery[m][h].status = "none" => delivery[m][h].attempts = 0
    <3>1. \A m \in Messages, h \in Handlers : Sending(m, h) = {}
      BY <2>1, IdleJob DEF Init, Sending
    <3>2. NoRow.attempts = 0
      BY DEF NoRow
    <3>3. \A m \in Messages, h \in Handlers : sent[m][h] = 0 /\ delivery[m][h] = NoRow
      BY <2>1 DEF Init
    <3>4. \A m \in Messages, h \in Handlers : Cardinality(Sending(m, h)) = 0
      BY <3>1, FS_EmptySet
    <3> QED BY <3>2, <3>3, <3>4 DEF SendsAreClaimed
  <2> QED BY <2>1, TypeInit DEF SendsInv
<1>2. Spec => []SendsInv
  BY <1>1, SendsStep, PTL DEF Spec
<1> QED BY <1>2, PTL DEF SendsInv

-----------------------------------------------------------------------------
(* What a claim keeps while none is overrun.                               *)

HoldsOK ==
    /\ \A q, r \in Relays, m \in Messages : Holds(q, m) /\ Holds(r, m) => q = r
    /\ \A r \in Relays, m \in Messages : Holds(r, m) =>
          m \notin due /\ status[m] = "PUBLISHING" /\ relay[r].seen[m] = attempts[m]
    /\ \A m \in Messages : status[m] = "PENDING" => attempts[m] < MaxAttempts

\* The steps in which a relay is about to write a row it may take.
Writing == {"retake", "send", "markSent", "markFailed"}

RowsOK ==
    /\ \A m \in Messages, h \in Handlers : delivery[m][h].id => delivery[m][h].status \in Final
    /\ \A r \in Relays : relay[r].pc \in Writing => RowOf(r).status \notin Final

ClaimsInv ==
    /\ TypeInv
    /\ \A m \in Messages : status[m] = "ABSENT" => attempts[m] = 0
    /\ overruns = 0 => HoldsOK /\ RowsOK

\* A step that hands no message to a relay and touches no message.
LEMMA HoldsKept ==
    ASSUME HoldsOK, UNCHANGED outbox,
           \A r \in Relays, m \in Messages : Holds(r, m)' => Holds(r, m) /\ relay'[r].seen = relay[r].seen
    PROVE  HoldsOK'
<1>1. /\ \A q, r \in Relays, m \in Messages : Holds(q, m)' /\ Holds(r, m)' => q = r
      /\ \A r \in Relays, m \in Messages : Holds(r, m)' =>
            m \notin due' /\ status'[m] = "PUBLISHING" /\ relay'[r].seen[m] = attempts'[m]
  BY DEF HoldsOK, outbox
<1>2. \A m \in Messages : status'[m] = "PENDING" => attempts'[m] < MaxAttempts
  BY DEF HoldsOK, outbox
<1> QED BY <1>1, <1>2 DEF HoldsOK

\* A relay's own steps, but for the last one on a message.
LEMMA WorkHolds ==
    ASSUME TypeInv, NEW r \in Relays, Work(r), ~Finish(r)
    PROVE  /\ UNCHANGED outbox
           /\ \A q \in Relays, m \in Messages :
                 Holds(q, m)' => Holds(q, m) /\ relay'[q].seen = relay[q].seen
<1>1. UNCHANGED outbox
  BY DEF Work, Take, CheckProcessed, Record, Consent, ClaimDelivery, Reread, Retake, Send,
     MarkSent, MarkFailed, Throw
<1>2. \A q \in Relays : q # r => relay'[q] = relay[q]
  BY TypeOfWork
<1>3. relay \in [Relays -> Job] /\ relay[r] \in Job
  BY DEF TypeInv, OutboxTypeOK
<1>4. ASSUME NEW job, Moved(r, job), job.batch = relay[r].batch, job.seen = relay[r].seen,
             job.message = relay[r].message, NEW m \in Messages, Holds(r, m)'
      PROVE  Holds(r, m) /\ relay'[r].seen = relay[r].seen
  BY <1>3, <1>4 DEF Moved, Holds
<1>5. ASSUME NEW m \in Messages, Holds(r, m)'
      PROVE  Holds(r, m) /\ relay'[r].seen = relay[r].seen
  <2>1. CASE Take(r)
    <3>1. CASE Moved(r, Idle)
      <4>1. relay'[r] = Idle
        BY <1>3, <3>1 DEF Moved
      <4> QED BY <1>5, <4>1, IdleJob, OutboxAssumption DEF Holds
    <3>2. CASE \E job, n : /\ Moved(r, job) /\ n \in relay[r].batch /\ job.message = n
                           /\ job.batch = relay[r].batch \ {n} /\ job.seen = relay[r].seen
      <4>1. PICK job, n : /\ Moved(r, job) /\ n \in relay[r].batch /\ job.message = n
                          /\ job.batch = relay[r].batch \ {n} /\ job.seen = relay[r].seen
        BY <3>2
      <4>2. relay'[r] = job
        BY <1>3, <4>1 DEF Moved
      <4> QED BY <1>5, <4>1, <4>2 DEF Holds
    <3> QED BY <2>1, <3>1, <3>2, TakeJob
  <2>2. CASE CheckProcessed(r)
    BY <1>4, <1>5, <2>2, CheckJob DEF Kept
  <2>3. CASE Record(r)
    BY <1>4, <1>5, <2>3, RecordJob DEF Kept
  <2>4. ASSUME NEW pc \in PCs, Goto(r, pc) PROVE Holds(r, m) /\ relay'[r].seen = relay[r].seen
    BY <1>4, <1>5, <2>4, GotoJob DEF Kept
  <2>5. CASE GiveUp(r)
    BY <1>4, <1>5, <2>5, GiveUpJob DEF Kept
  <2>6. CASE Consent(r) \/ ClaimDelivery(r) \/ Reread(r) \/ Retake(r) \/ Send(r) \/ MarkSent(r)
    <3>1. \E pc \in PCs : Goto(r, pc)
      BY <2>6 DEF Consent, ClaimDelivery, Reread, Retake, Send, MarkSent, PCs
    <3> QED BY <2>4, <3>1
  <2>7. CASE MarkFailed(r)
    BY <2>5, <2>7 DEF MarkFailed
  <2>8. CASE Throw(r) /\ ~GiveUp(r)
    <3>1. /\ relay'[r].batch = relay[r].batch /\ relay'[r].message = relay[r].message
          /\ relay'[r].seen = relay[r].seen
      <4>1. \/ \E h : relay' = [relay EXCEPT ![r].todo = @ \ {h}, ![r].failed = TRUE]
            \/ relay' = [relay EXCEPT ![r].failed = TRUE]
        BY <2>8 DEF Throw
      <4>2. ASSUME NEW h, relay' = [relay EXCEPT ![r].todo = @ \ {h}, ![r].failed = TRUE]
            PROVE  <3>1
        BY <1>3, <4>2 DEF Job
      <4>3. CASE relay' = [relay EXCEPT ![r].failed = TRUE]
        BY <1>3, <4>3 DEF Job
      <4> QED BY <4>1, <4>2, <4>3
    <3> QED BY <1>5, <3>1 DEF Holds
  <2> QED BY <2>1, <2>2, <2>3, <2>5, <2>6, <2>7, <2>8 DEF Work
<1>6. ASSUME NEW q \in Relays, NEW m \in Messages, Holds(q, m)'
      PROVE  Holds(q, m) /\ relay'[q].seen = relay[q].seen
  BY <1>2, <1>5, <1>6 DEF Holds
<1> QED BY <1>1, <1>6

\* The last step: the relay lets go of the message, and only of that one.
LEMMA FinishHolds ==
    ASSUME TypeInv, HoldsOK, NEW r \in Relays, Finish(r)
    PROVE  HoldsOK'
<1>0. PICK n \in Messages : n = relay[r].message
  BY DEF TypeInv, JobsOK, JobOK, Finish
<1>1. /\ relay \in [Relays -> Job] /\ relay[r] \in Job /\ n \notin relay[r].batch
      /\ status \in [Messages -> {"ABSENT", "PENDING", "PUBLISHING", "PUBLISHED", "DEAD"}]
      /\ None \notin Messages
  BY <1>0, OutboxAssumption DEF TypeInv, OutboxTypeOK, JobsOK, JobOK, Finish
<1> DEFINE verdict == Verdict(relay[r].failed, relay[r].seen[n])
<1>2. /\ status' = [status EXCEPT ![n] = verdict]
      /\ due' = IF verdict = "PENDING" THEN due \ {n} ELSE due
      /\ UNCHANGED attempts
  BY <1>0 DEF Finish
<1>3. Holds(r, n)
  BY <1>0 DEF Holds
<1>4. \A q \in Relays, m \in Messages :
         Holds(q, m)' => m # n /\ Holds(q, m) /\ relay'[q].seen = relay[q].seen
  <2>1. PICK job : /\ Moved(r, job) /\ job.message = None
                   /\ job.batch = relay[r].batch /\ job.seen = relay[r].seen
    BY FinishJob
  <2>2. relay'[r] = job /\ \A q \in Relays : q # r => relay'[q] = relay[q]
    BY <1>1, <2>1 DEF Moved
  <2>3. \A q \in Relays : q # r => ~Holds(q, n)
    BY <1>3 DEF HoldsOK
  <2> QED BY <1>1, <2>1, <2>2, <2>3 DEF Holds
<1>5. verdict = "PENDING" => relay[r].seen[n] < MaxAttempts
  <2>1. relay[r].seen[n] \in Nat /\ MaxAttempts \in Nat
    BY <1>1, OutboxAssumption DEF Job
  <2> QED BY <2>1 DEF Verdict
<1>6. \A m \in Messages : status'[m] = "PENDING" => attempts'[m] < MaxAttempts
  BY <1>1, <1>2, <1>3, <1>5 DEF HoldsOK
<1>7. /\ \A q, p \in Relays, m \in Messages : Holds(q, m)' /\ Holds(p, m)' => q = p
      /\ \A q \in Relays, m \in Messages : Holds(q, m)' =>
            m \notin due' /\ status'[m] = "PUBLISHING" /\ relay'[q].seen[m] = attempts'[m]
  BY <1>1, <1>2, <1>4 DEF HoldsOK
<1> QED BY <1>6, <1>7 DEF HoldsOK

\* A claim takes due messages only, and so none that a relay holds.
LEMMA PollHolds ==
    ASSUME TypeInv, HoldsOK, NEW r \in Relays, Poll(r)
    PROVE  HoldsOK'
<1>1. PICK batch \in SUBSET Claimable, job \in Job :
         /\ Moved(r, job) /\ job.message = None /\ job.batch = batch
         /\ \A m \in batch : job.seen[m] = attempts[m] + 1
         /\ status' = [m \in Messages |-> IF m \in batch THEN "PUBLISHING" ELSE status[m]]
         /\ attempts' = [m \in Messages |-> IF m \in batch THEN attempts[m] + 1 ELSE attempts[m]]
         /\ due' = due \ batch
  BY PollEffect
<1>2. batch \subseteq due /\ None \notin Messages /\ relay \in [Relays -> Job]
  BY OutboxAssumption DEF Claimable, TypeInv, OutboxTypeOK
<1>3. \A m \in Messages : Holds(r, m)' <=> m \in batch
  BY <1>1, <1>2 DEF Moved, Holds
<1>4. \A q \in Relays, m \in Messages : q # r =>
         (Holds(q, m)' <=> Holds(q, m)) /\ relay'[q] = relay[q]
  BY <1>1, <1>2 DEF Moved, Holds
<1>5. \A q \in Relays, m \in batch : ~Holds(q, m)
  BY <1>2 DEF HoldsOK, TypeInv, OutboxTypeOK
<1>6. \A q, p \in Relays, m \in Messages : Holds(q, m)' /\ Holds(p, m)' => q = p
  BY <1>3, <1>4, <1>5 DEF HoldsOK
<1>7. ASSUME NEW q \in Relays, NEW m \in Messages, Holds(q, m)'
      PROVE  m \notin due' /\ status'[m] = "PUBLISHING" /\ relay'[q].seen[m] = attempts'[m]
  <2>1. CASE q = r
    <3>1. relay'[r] = job /\ m \in batch
      BY <1>1, <1>2, <1>3, <1>7, <2>1 DEF Moved
    <3> QED BY <1>1, <2>1, <3>1
  <2>2. CASE q # r
    <3>1. Holds(q, m) /\ relay'[q] = relay[q] /\ m \notin batch
      BY <1>4, <1>5, <1>7, <2>2
    <3> QED BY <1>1, <3>1 DEF HoldsOK
  <2> QED BY <2>1, <2>2
<1>8. \A m \in Messages : status'[m] = "PENDING" => attempts'[m] < MaxAttempts
  BY <1>1 DEF HoldsOK
<1> QED BY <1>6, <1>7, <1>8 DEF HoldsOK

\* Final rows stay final, and the rows about to be written are not.
FinalKept ==
    \A m \in Messages, h \in Handlers :
        delivery[m][h].status \in Final => delivery'[m][h].status \in Final

\* Relay r moves on and leaves the rows alone.
LEMMA RowsUntouched ==
    ASSUME TypeInv, RowsOK, NEW r \in Relays, \A q \in Relays : q # r => relay'[q] = relay[q],
           UNCHANGED delivery, relay'[r].pc \notin Writing
    PROVE  RowsOK' /\ FinalKept
<1>1. FinalKept /\ \A m \in Messages, h \in Handlers : delivery'[m][h].id => delivery'[m][h].status \in Final
  BY DEF FinalKept, RowsOK
<1>2. \A q \in Relays : relay'[q].pc \in Writing => RowOf(q)' = RowOf(q) /\ relay'[q] = relay[q]
  BY DEF RowOf
<1>3. \A q \in Relays : relay'[q].pc \in Writing => RowOf(q)'.status \notin Final
  BY <1>2 DEF RowsOK
<1> QED BY <1>1, <1>3 DEF RowsOK

\* Relay r writes the row it works on, which no other relay works on.
LEMMA RowsWritten ==
    ASSUME TypeInv, HoldsOK, RowsOK, NEW r \in Relays, relay[r].pc \in Working,
           \A q \in Relays : q # r => relay'[q] = relay[q],
           NEW row \in Row, SetRow(r, row),
           RowOf(r).status \in Final => row.status \in Final,
           row.id => row.status \in Final,
           relay'[r].pc \in Writing =>
              /\ relay'[r].message = relay[r].message /\ relay'[r].handler = relay[r].handler
              /\ row.status \notin Final
    PROVE  RowsOK' /\ FinalKept
<1>1. PICK n \in Messages, k \in Handlers : n = relay[r].message /\ k = relay[r].handler
  BY RowOfType
<1>2. /\ RowOf(r) = delivery[n][k] /\ delivery'[n][k] = row
      /\ \A m \in Messages, h \in Handlers : m # n \/ h # k => delivery'[m][h] = delivery[m][h]
  BY <1>1, SetRowEffect DEF RowOf
<1>3. FinalKept
  BY <1>2 DEF FinalKept
<1>4. \A m \in Messages, h \in Handlers : delivery'[m][h].id => delivery'[m][h].status \in Final
  <2>1. ASSUME NEW m \in Messages, NEW h \in Handlers, m # n \/ h # k, delivery'[m][h].id
        PROVE  delivery'[m][h].status \in Final
    BY <1>2, <2>1 DEF RowsOK
  <2> QED BY <1>2, <2>1
<1>5. ASSUME NEW q \in Relays, relay'[q].pc \in Writing PROVE RowOf(q)'.status \notin Final
  <2>1. CASE q = r
    <3>1. RowOf(r)' = row
      BY <1>1, <1>2, <1>5, <2>1 DEF RowOf
    <3> QED BY <1>5, <2>1, <3>1
  <2>2. CASE q # r
    <3>1. PICK m \in Messages, h \in Handlers : m = relay[q].message /\ h = relay[q].handler
      <4>1. relay[q].pc \in Working
        BY <1>5, <2>2 DEF Working, Writing
      <4> QED BY <4>1, RowOfType
    <3>2. m # n
      BY <1>1, <2>2, <3>1 DEF Holds, HoldsOK
    <3>3. RowOf(q)' = RowOf(q)
      BY <1>2, <2>2, <3>1, <3>2 DEF RowOf
    <3> QED BY <1>5, <2>2, <3>3 DEF RowsOK
  <2> QED BY <2>1, <2>2
<1> QED BY <1>3, <1>4, <1>5 DEF RowsOK

\* Relay r moves on to write the row, having read it.
LEMMA RowsRead ==
    ASSUME TypeInv, RowsOK, NEW r \in Relays, \A q \in Relays : q # r => relay'[q] = relay[q],
           UNCHANGED delivery, RowOf(r).status \notin Final,
           relay'[r].message = relay[r].message, relay'[r].handler = relay[r].handler
    PROVE  RowsOK' /\ FinalKept
<1>1. FinalKept /\ \A m \in Messages, h \in Handlers : delivery'[m][h].id => delivery'[m][h].status \in Final
  BY DEF FinalKept, RowsOK
<1>2. \A q \in Relays : RowOf(q)' = RowOf(q)
  BY DEF RowOf
<1>3. \A q \in Relays : relay'[q].pc \in Writing => RowOf(q)'.status \notin Final
  BY <1>2 DEF RowsOK
<1> QED BY <1>1, <1>3 DEF RowsOK

LEMMA WorkRows ==
    ASSUME TypeInv, HoldsOK, RowsOK, NEW r \in Relays, Work(r)
    PROVE  RowsOK' /\ FinalKept
<1>1. /\ relay \in [Relays -> Job] /\ relay[r] \in Job
      /\ \A q \in Relays : q # r => relay'[q] = relay[q]
  BY TypeOfWork DEF TypeInv, OutboxTypeOK
<1>2. ASSUME NEW pc \in Working, Goto(r, pc)
      PROVE  /\ relay'[r].message = relay[r].message /\ relay'[r].handler = relay[r].handler
             /\ relay'[r].pc = pc
  <2>1. pc \in PCs
    BY DEF Working, PCs
  <2>2. PICK job : /\ Moved(r, job) /\ job.message = relay[r].message
                   /\ job.handler = relay[r].handler /\ job.pc = pc
    BY <1>2, <2>1, GotoJob DEF Kept
  <2> QED BY <1>1, <2>2 DEF Moved
<1>3. ASSUME relay[r].pc \in Working
      PROVE  /\ RowOf(r) \in Row /\ Lease(r) \in Nat
             /\ RowOf(r).id => RowOf(r).status \in Final
             /\ relay[r].pc \in Writing => RowOf(r).status \notin Final
  BY <1>3, RowOfType DEF RowsOK, RowOf
<1>4. /\ "record" \in Working \ Writing /\ "claim" \in Working \ Writing
      /\ "reread" \in Working \ Writing /\ Writing \subseteq Working
      /\ {"SENT", "SUPPRESSED"} \subseteq Final
      /\ {"none", "SENDING", "FAILED"} \cap Final = {}
  BY DEF Working, Writing, Final
<1>5. CASE Take(r) \/ Finish(r) \/ CheckProcessed(r) \/ Record(r) \/ Throw(r)
  <2>1. UNCHANGED delivery
    BY <1>5 DEF Take, Finish, CheckProcessed, Record, Throw
  <2>2. relay'[r].pc \notin Writing
    <3>1. CASE Take(r)
      BY <1>1, <3>1, TakeJob, IdleJob DEF Moved, Writing
    <3>2. CASE Finish(r)
      BY <1>1, <3>2, FinishJob DEF Moved, Writing
    <3>3. CASE CheckProcessed(r)
      BY <1>1, <3>3, CheckJob DEF Moved, Writing
    <3>4. CASE Record(r)
      BY <1>1, <3>4, RecordJob DEF Moved, Writing
    <3>5. CASE Throw(r)
      <4>1. CASE GiveUp(r)
        BY <1>1, <4>1, GiveUpJob DEF Moved, Writing
      <4>2. CASE ~GiveUp(r)
        <5>1. relay[r].pc = "handlers"
          BY <3>5, <4>2 DEF Throw
        <5>2. \/ \E h \in relay[r].todo :
                  relay' = [relay EXCEPT ![r].todo = @ \ {h}, ![r].failed = TRUE]
              \/ relay' = [relay EXCEPT ![r].failed = TRUE]
          BY <3>5, <4>2 DEF Throw
        <5>3. relay'[r].pc = relay[r].pc
          <6>1. ASSUME NEW h \in relay[r].todo,
                       relay' = [relay EXCEPT ![r].todo = @ \ {h}, ![r].failed = TRUE]
                PROVE  relay'[r].pc = relay[r].pc
            BY <1>1, <6>1 DEF Job
          <6>2. CASE relay' = [relay EXCEPT ![r].failed = TRUE]
            BY <1>1, <6>2 DEF Job
          <6> QED BY <5>2, <6>1, <6>2
        <5> QED BY <5>1, <5>3 DEF Writing
      <4> QED BY <4>1, <4>2
    <3> QED BY <1>5, <3>1, <3>2, <3>3, <3>4, <3>5
  <2> QED BY <1>1, <2>1, <2>2, RowsUntouched
<1>6. CASE Consent(r)
  <2>1. relay[r].pc \in Working
    BY <1>6 DEF Consent, Working
  <2>2. CASE UNCHANGED delivery
    <3>1. relay'[r].pc \notin Writing
      BY <1>2, <1>4, <1>6 DEF Consent
    <3> QED BY <1>1, <2>2, <3>1, RowsUntouched
  <2>3. ASSUME NEW row \in Row, SetRow(r, row), row.status \in Final \/ row.status = RowOf(r).status,
               row.id => RowOf(r).id \/ row.status \in Final, Goto(r, "record")
        PROVE  RowsOK' /\ FinalKept
    <3>1. /\ RowOf(r).status \in Final => row.status \in Final
          /\ row.id => row.status \in Final
      BY <1>3, <2>1, <2>3
    <3>2. /\ relay'[r].message = relay[r].message /\ relay'[r].handler = relay[r].handler
          /\ relay'[r].pc \notin Writing
      BY <1>2, <1>4, <2>3
    <3> QED BY <1>1, <2>1, <2>3, <3>1, <3>2, RowsWritten
  <2>4. CASE SetRow(r, [NoRow EXCEPT !.status = "SUPPRESSED", !.attempts = 1]) /\ Goto(r, "record")
    <3> DEFINE row == [NoRow EXCEPT !.status = "SUPPRESSED", !.attempts = 1]
    <3>1. row \in Row /\ row.status \in Final
      BY <1>4 DEF NoRow, Row, Final
    <3>2. SetRow(r, row) /\ Goto(r, "record")
      BY <2>4
    <3> HIDE DEF row
    <3> QED BY <2>3, <3>1, <3>2
  <2>5. CASE SetRow(r, Touched(RowOf(r), Lease(r))) /\ Goto(r, "record")
    <3>1. LET row == Touched(RowOf(r), Lease(r))
          IN  row \in Row /\ row.status = RowOf(r).status /\ row.id = RowOf(r).id
      BY <1>3, <2>1, RowTypes
    <3> QED BY <2>3, <2>5, <3>1
  <2> QED BY <1>6, <2>2, <2>4, <2>5 DEF Consent
<1>7. CASE ClaimDelivery(r)
  <2>1. relay[r].pc \in Working
    BY <1>7 DEF ClaimDelivery, Working
  <2>2. CASE RowOf(r).status = "none"
    <3> DEFINE row == [status |-> "SENDING", attempts |-> 1, stale |-> FALSE,
                       lease |-> Lease(r), id |-> FALSE]
    <3>1. row \in Row /\ row.status \notin Final /\ ~row.id
      BY <1>3, <1>4, <2>1 DEF Row
    <3>2. SetRow(r, row) /\ Goto(r, "send")
      BY <1>7, <2>2 DEF ClaimDelivery
    <3>3. RowOf(r).status \notin Final
      BY <1>4, <2>2
    <3>4. relay'[r].message = relay[r].message /\ relay'[r].handler = relay[r].handler
      BY <1>2, <1>4, <3>2 DEF Writing
    <3> HIDE DEF row
    <3> QED BY <1>1, <2>1, <3>1, <3>2, <3>3, <3>4, RowsWritten
  <2>3. CASE RowOf(r).status # "none"
    <3>1. UNCHANGED delivery /\ Goto(r, "reread")
      BY <1>7, <2>3 DEF ClaimDelivery
    <3>2. relay'[r].pc \notin Writing
      BY <1>2, <1>4, <3>1
    <3> QED BY <1>1, <3>1, <3>2, RowsUntouched
  <2> QED BY <2>2, <2>3
<1>8. CASE Reread(r)
  <2>1. relay[r].pc \in Working /\ UNCHANGED delivery
    BY <1>8 DEF Reread, Working
  <2>2. CASE Abandoned(RowOf(r))
    <3>1. RowOf(r).status \notin Final /\ Goto(r, "retake")
      BY <1>4, <1>8, <2>2 DEF Reread, Abandoned
    <3>2. relay'[r].message = relay[r].message /\ relay'[r].handler = relay[r].handler
      BY <1>2, <1>4, <3>1 DEF Writing
    <3> QED BY <1>1, <2>1, <3>1, <3>2, RowsRead
  <2>3. CASE ~Abandoned(RowOf(r))
    <3>1. Goto(r, "record")
      BY <1>8, <2>3 DEF Reread
    <3>2. relay'[r].pc \notin Writing
      BY <1>2, <1>4, <3>1
    <3> QED BY <1>1, <2>1, <3>2, RowsUntouched
  <2> QED BY <2>2, <2>3
<1>9. CASE Retake(r)
  <2>1. relay[r].pc \in Working /\ relay[r].pc \in Writing
    BY <1>9 DEF Retake, Working, Writing
  <2>2. RowOf(r).status \notin Final /\ ~RowOf(r).id
    BY <1>3, <2>1
  <2>3. LET row == TakenOver(RowOf(r), Lease(r))
        IN  row \in Row /\ row.status = "SENDING" /\ row.id = RowOf(r).id
    BY <1>3, <2>1, RowTypes
  <2>4. SetRow(r, TakenOver(RowOf(r), Lease(r))) /\ Goto(r, "send")
    BY <1>9 DEF Retake
  <2>5. relay'[r].message = relay[r].message /\ relay'[r].handler = relay[r].handler
    BY <1>2, <1>4, <2>4 DEF Writing
  <2>6. TakenOver(RowOf(r), Lease(r)).status \notin Final /\ ~TakenOver(RowOf(r), Lease(r)).id
    BY <1>4, <2>2, <2>3
  <2> QED BY <1>1, <2>1, <2>2, <2>3, <2>4, <2>5, <2>6, RowsWritten
<1>10. CASE Send(r)
  <2>1. relay[r].pc \in Working /\ relay[r].pc \in Writing /\ UNCHANGED delivery
    BY <1>10 DEF Send, Working, Writing
  <2>2. \E pc \in Working : Goto(r, pc)
    BY <1>10 DEF Send, Working
  <2>3. relay'[r].message = relay[r].message /\ relay'[r].handler = relay[r].handler
    BY <1>2, <2>2
  <2> QED BY <1>1, <1>3, <2>1, <2>3, RowsRead
<1>11. CASE MarkSent(r)
  <2>1. relay[r].pc \in Working /\ SetRow(r, [RowOf(r) EXCEPT !.status = "SENT", !.stale = FALSE, !.id = TRUE])
        /\ Goto(r, "record")
    BY <1>11 DEF MarkSent, Working
  <2> DEFINE row == [RowOf(r) EXCEPT !.status = "SENT", !.stale = FALSE, !.id = TRUE]
  <2>2. row \in Row /\ row.status \in Final
    BY <1>3, <1>4, <2>1 DEF Row
  <2>3. /\ relay'[r].message = relay[r].message /\ relay'[r].handler = relay[r].handler
        /\ relay'[r].pc \notin Writing
    BY <1>2, <1>4, <2>1
  <2>4. SetRow(r, row)
    BY <2>1
  <2> HIDE DEF row
  <2> QED BY <1>1, <2>1, <2>2, <2>3, <2>4, RowsWritten
<1>12. CASE MarkFailed(r)
  <2>1. /\ relay[r].pc \in Working /\ relay[r].pc \in Writing /\ GiveUp(r)
        /\ SetRow(r, [RowOf(r) EXCEPT !.status = "FAILED", !.stale = FALSE])
    BY <1>12 DEF MarkFailed, Working, Writing
  <2> DEFINE row == [RowOf(r) EXCEPT !.status = "FAILED", !.stale = FALSE]
  <2>2. RowOf(r).status \notin Final /\ ~RowOf(r).id
    BY <1>3, <2>1
  <2>3. row \in Row /\ row.status \notin Final /\ row.id = RowOf(r).id
    BY <1>3, <1>4, <2>1 DEF Row
  <2>4. relay'[r].pc = "handlers" /\ "handlers" \notin Writing
    BY <1>1, <2>1, GiveUpJob DEF Moved, Writing
  <2>5. SetRow(r, row)
    BY <2>1
  <2> HIDE DEF row
  <2> QED BY <1>1, <2>1, <2>2, <2>3, <2>4, <2>5, RowsWritten
<1> QED BY <1>5, <1>6, <1>7, <1>8, <1>9, <1>10, <1>11, <1>12 DEF Work

\* Everything else that writes delivery rows, or nothing.
LEMMA OutsideRows ==
    ASSUME TypeInv, RowsOK,
           \/ \E m \in Messages : Publish(m) \/ TimePasses(m)
           \/ \E m \in Messages, h \in Handlers : RowGoesStale(m, h) \/ Bounce(m, h)
           \/ ChangePreference \/ UNCHANGED vars
    PROVE  RowsOK' /\ FinalKept
<1>1. UNCHANGED relay
  BY TypeOutside
<1>2. CASE UNCHANGED delivery
  <2>1. FinalKept /\ \A m \in Messages, h \in Handlers : delivery'[m][h].id => delivery'[m][h].status \in Final
    BY <1>2 DEF FinalKept, RowsOK
  <2>2. \A q \in Relays : relay'[q].pc \in Writing => RowOf(q)'.status \notin Final
    BY <1>1, <1>2 DEF RowsOK, RowOf
  <2> QED BY <2>1, <2>2 DEF RowsOK
<1>3. ASSUME NEW n \in Messages, NEW k \in Handlers, RowGoesStale(n, k) \/ Bounce(n, k),
             delivery' # delivery
      PROVE  RowsOK' /\ FinalKept
  <2>1. delivery \in [Messages -> [Handlers -> Row]] /\ delivery[n][k] \in Row
    BY DEF TypeInv, OutboxTypeOK
  <2> DEFINE a == [delivery[n][k] EXCEPT !.stale = TRUE]
             b == [delivery[n][k] EXCEPT !.status = "BOUNCED", !.stale = FALSE]
  <2>2. a.status = delivery[n][k].status /\ a.id = delivery[n][k].id /\ b.status \in Final
    BY <2>1 DEF Row, Final
  <2>3. \/ delivery' = [delivery EXCEPT ![n] = [delivery[n] EXCEPT ![k] = a]]
        \/ /\ delivery' = [delivery EXCEPT ![n] = [delivery[n] EXCEPT ![k] = b]]
           /\ delivery[n][k].id
    BY <1>3, <2>1 DEF RowGoesStale, Bounce
  <2> HIDE DEF a, b
  <2>4. \/ /\ delivery'[n][k].status = delivery[n][k].status
           /\ delivery'[n][k].id = delivery[n][k].id
        \/ delivery'[n][k].status \in Final /\ delivery[n][k].status \in Final
    BY <2>1, <2>2, <2>3 DEF RowsOK
  <2>5. \A m \in Messages, h \in Handlers : m # n \/ h # k => delivery'[m][h] = delivery[m][h]
    BY <2>1, <2>3
  <2>6. \A m \in Messages, h \in Handlers :
           /\ delivery'[m][h].status \in Final <=> delivery[m][h].status \in Final
           /\ delivery'[m][h].id => delivery'[m][h].status \in Final
    <3>1. ASSUME NEW m \in Messages, NEW h \in Handlers, m # n \/ h # k
          PROVE  /\ delivery'[m][h].status \in Final <=> delivery[m][h].status \in Final
                 /\ delivery'[m][h].id => delivery'[m][h].status \in Final
      BY <2>5, <3>1 DEF RowsOK
    <3>2. /\ delivery'[n][k].status \in Final <=> delivery[n][k].status \in Final
          /\ delivery'[n][k].id => delivery'[n][k].status \in Final
      BY <2>4 DEF RowsOK
    <3> QED BY <3>1, <3>2
  <2>7. ASSUME NEW q \in Relays, relay'[q].pc \in Writing PROVE RowOf(q)'.status \notin Final
    <3>1. PICK m \in Messages, h \in Handlers : m = relay[q].message /\ h = relay[q].handler
      <4>1. relay[q].pc \in Working
        BY <1>1, <2>7 DEF Working, Writing
      <4> QED BY <4>1, RowOfType
    <3>2. RowOf(q)' = delivery'[m][h] /\ RowOf(q) = delivery[m][h]
      BY <1>1, <3>1 DEF RowOf
    <3> QED BY <1>1, <2>6, <2>7, <3>2 DEF RowsOK
  <2> QED BY <2>6, <2>7 DEF RowsOK, FinalKept
<1> QED BY <1>2, <1>3 DEF Publish, TimePasses, ChangePreference, vars

\* The step as a whole, and what it keeps of the settled and the final.
SettledKept ==
    \A m \in Messages : status[m] \in {"PUBLISHED", "DEAD"} => status'[m] = status[m]

LEMMA ClaimsKept ==
    ASSUME TypeInv, HoldsOK, RowsOK, overruns' = overruns, [Next]_vars,
           \A m \in Messages : status[m] = "ABSENT" => attempts[m] = 0
    PROVE  HoldsOK' /\ RowsOK' /\ FinalKept /\ SettledKept
<1>1. /\ status \in [Messages -> {"ABSENT", "PENDING", "PUBLISHING", "PUBLISHED", "DEAD"}]
      /\ relay \in [Relays -> Job] /\ overruns \in Nat /\ MaxAttempts \in Nat \ {0}
  BY OutboxAssumption DEF TypeInv, OutboxTypeOK
<1>2. CASE \/ \E m \in Messages : Publish(m) \/ TimePasses(m)
           \/ \E m \in Messages, h \in Handlers : RowGoesStale(m, h) \/ Bounce(m, h)
           \/ ChangePreference \/ UNCHANGED vars
  <2>1. UNCHANGED relay /\ RowsOK' /\ FinalKept
    BY <1>2, TypeOutside, OutsideRows
  <2>2. \A r \in Relays, m \in Messages : Holds(r, m)' <=> Holds(r, m)
    BY <2>1 DEF Holds
  <2>3. ASSUME UNCHANGED outbox PROVE HoldsOK' /\ SettledKept
    BY <2>1, <2>2, <2>3, HoldsKept DEF SettledKept, outbox
  <2>4. ASSUME NEW n \in Messages, Publish(n) PROVE HoldsOK' /\ SettledKept
    <3>1. /\ status[n] = "ABSENT" /\ attempts[n] = 0 /\ UNCHANGED attempts
          /\ status' = [status EXCEPT ![n] = "PENDING"] /\ due' = due \cup {n}
      BY <2>4 DEF Publish
    <3>2. \A r \in Relays : ~Holds(r, n)
      BY <3>1 DEF HoldsOK
    <3>3. SettledKept
      BY <1>1, <3>1 DEF SettledKept
    <3>4. \A m \in Messages : status'[m] = "PENDING" => attempts'[m] < MaxAttempts
      BY <1>1, <3>1 DEF HoldsOK
    <3> QED BY <1>1, <2>1, <2>2, <3>1, <3>2, <3>3, <3>4 DEF HoldsOK
  <2>5. ASSUME NEW n \in Messages, TimePasses(n) PROVE HoldsOK' /\ SettledKept
    <3>1. /\ UNCHANGED <<status, attempts>> /\ due' = due \cup {n}
          /\ \A r \in Relays : ~Holds(r, n)
      BY <1>1, <2>5 DEF TimePasses
    <3> QED BY <2>1, <2>2, <3>1 DEF HoldsOK, SettledKept
  <2> QED BY <1>2, <2>1, <2>3, <2>4, <2>5 DEF RowGoesStale, Bounce, ChangePreference, vars, outbox
<1>3. ASSUME NEW r \in Relays, Poll(r) \/ Crash(r)
      PROVE  HoldsOK' /\ RowsOK' /\ FinalKept /\ SettledKept
  <2>1. /\ \A q \in Relays : q # r => relay'[q] = relay[q]
        /\ UNCHANGED delivery
    BY <1>3, TypeOfPoll DEF Poll, Crash
  <2>2. CASE Poll(r)
    <3>1. relay'[r].pc \notin Writing
      BY <1>1, <2>2, PollEffect DEF Moved, Writing
    <3>2. SettledKept
      BY <2>2, PollEffect DEF SettledKept, Claimable
    <3> QED BY <2>1, <2>2, <3>1, <3>2, PollHolds, RowsUntouched
  <2>3. CASE Crash(r)
    <3>1. relay'[r] = Idle /\ UNCHANGED outbox
      BY <1>1, <2>3 DEF Crash
    <3>2. relay'[r].pc \notin Writing
      BY <3>1, IdleJob DEF Writing
    <3>3. \A q \in Relays, m \in Messages : Holds(q, m)' => Holds(q, m) /\ relay'[q].seen = relay[q].seen
      BY <2>1, <3>1, IdleJob, OutboxAssumption DEF Holds
    <3> QED BY <2>1, <3>1, <3>2, <3>3, HoldsKept, RowsUntouched DEF SettledKept, outbox
  <2> QED BY <1>3, <2>2, <2>3
<1>4. ASSUME NEW r \in Relays, Work(r)
      PROVE  HoldsOK' /\ RowsOK' /\ FinalKept /\ SettledKept
  <2>1. RowsOK' /\ FinalKept
    BY <1>4, WorkRows
  <2>2. CASE Finish(r)
    <3>1. PICK n \in Messages : n = relay[r].message
      BY <2>2 DEF TypeInv, JobsOK, JobOK, Finish
    <3>2. status[n] = "PUBLISHING" /\ \A m \in Messages : m # n => status'[m] = status[m]
      BY <1>1, <2>2, <3>1 DEF Finish, Holds, HoldsOK
    <3>3. SettledKept
      BY <3>2 DEF SettledKept
    <3> QED BY <2>1, <2>2, <3>3, FinishHolds
  <2>3. CASE ~Finish(r)
    BY <1>4, <2>1, <2>3, WorkHolds, HoldsKept DEF SettledKept, outbox
  <2> QED BY <2>2, <2>3
<1> QED BY <1>2, <1>3, <1>4, Steps

LEMMA ClaimsInit == Init => ClaimsInv
<1> SUFFICES ASSUME Init PROVE ClaimsInv
  OBVIOUS
<1>1. TypeInv
  BY TypeInit
<1>2. \A r \in Relays, m \in Messages : ~Holds(r, m)
  BY IdleJob, OutboxAssumption DEF Init, Holds
<1>3. HoldsOK
  BY <1>2 DEF Init, HoldsOK
<1>4. RowsOK
  <2>1. \A m \in Messages, h \in Handlers : ~delivery[m][h].id
    BY DEF Init, NoRow
  <2>2. \A r \in Relays : relay[r].pc \notin Writing
    BY IdleJob DEF Init, Writing
  <2> QED BY <2>1, <2>2 DEF RowsOK
<1> QED BY <1>1, <1>3, <1>4 DEF Init, ClaimsInv

LEMMA ClaimsStep == ClaimsInv /\ [Next]_vars => ClaimsInv'
<1> SUFFICES ASSUME ClaimsInv, [Next]_vars PROVE ClaimsInv'
  OBVIOUS
<1>1. /\ TypeInv /\ TypeInv' /\ overruns \in Nat
      /\ status \in [Messages -> {"ABSENT", "PENDING", "PUBLISHING", "PUBLISHED", "DEAD"}]
  BY TypeStep, OutboxAssumption DEF ClaimsInv, TypeInv, OutboxTypeOK
<1>2. overruns' = overruns \/ overruns' = overruns + 1
  BY Steps DEF Publish, TimePasses, RowGoesStale, Bounce, ChangePreference, Poll, Crash, Work, Take,
     Finish, CheckProcessed, Record, Consent, ClaimDelivery, Reread, Retake, Send, MarkSent,
     MarkFailed, Throw, faults, vars
<1>3. ASSUME NEW m \in Messages, status'[m] = "ABSENT" PROVE attempts'[m] = 0
  <2>1. CASE \E r \in Relays : Poll(r)
    BY <1>1, <1>3, <2>1, PollEffect DEF ClaimsInv, Claimable
  <2>2. CASE ~\E r \in Relays : Poll(r)
    <3>1. UNCHANGED attempts
      BY <2>2, Steps DEF Publish, TimePasses, RowGoesStale, Bounce, ChangePreference, Crash, Work,
         Take, Finish, CheckProcessed, Record, Consent, ClaimDelivery, Reread, Retake, Send, MarkSent,
         MarkFailed, Throw, outbox, vars
    <3>2. status[m] = "ABSENT"
      <4>1. CASE \E r \in Relays : Finish(r)
        <5>1. \A failed, seen : Verdict(failed, seen) # "ABSENT"
          BY DEF Verdict
        <5> QED BY <1>1, <1>3, <4>1, <5>1 DEF Finish
      <4>2. CASE ~\E r \in Relays : Finish(r)
        BY <1>1, <1>3, <2>2, <4>2, Steps DEF Publish, TimePasses, RowGoesStale, Bounce,
           ChangePreference, Crash, Work, Take, CheckProcessed, Record, Consent, ClaimDelivery, Reread,
           Retake, Send, MarkSent, MarkFailed, Throw, outbox, vars
      <4> QED BY <4>1, <4>2
    <3> QED BY <3>1, <3>2 DEF ClaimsInv
  <2> QED BY <2>1, <2>2
<1>4. ASSUME overruns' = 0 PROVE HoldsOK' /\ RowsOK'
  <2>1. overruns' = overruns /\ overruns = 0
    BY <1>1, <1>2, <1>4
  <2> QED BY <1>1, <2>1, ClaimsKept DEF ClaimsInv
<1> QED BY <1>1, <1>3, <1>4 DEF ClaimsInv

LEMMA ClaimsHold == Spec => []ClaimsInv
  BY ClaimsInit, ClaimsStep, PTL DEF Spec

\* While no live relay overruns its claim, two relays never work on one message.
THEOREM ClaimsAreExclusive == Spec => []NoOverlap
<1>1. ClaimsInv => NoOverlap
  BY DEF ClaimsInv, HoldsOK, NoOverlap
<1> QED BY <1>1, ClaimsHold, PTL

\* While no live relay overruns its claim, a message that waits has attempts left.
THEOREM RetriesStayBounded == Spec => []RetriesAreBounded
<1>1. ClaimsInv => RetriesAreBounded
  BY DEF ClaimsInv, HoldsOK, RetriesAreBounded
<1> QED BY <1>1, ClaimsHold, PTL

\* While no live relay overruns its claim, PUBLISHED and DEAD are final.
THEOREM SettledIsFinal == Spec => SettledStays
<1>1. ASSUME ClaimsInv, [Next]_vars, overruns = 0 PROVE SettledKept \/ UNCHANGED <<status, overruns>>
  <2>1. CASE overruns' = overruns
    BY <1>1, <2>1, ClaimsKept DEF ClaimsInv
  <2>2. CASE overruns' # overruns
    <3>1. UNCHANGED status
      BY <1>1, <2>2, Steps DEF Publish, TimePasses, RowGoesStale, Bounce, ChangePreference, Poll,
         Crash, Work, Take, Finish, CheckProcessed, Record, Consent, ClaimDelivery, Reread, Retake,
         Send, MarkSent, MarkFailed, Throw, faults, vars
    <3> QED BY <3>1 DEF SettledKept
  <2> QED BY <2>1, <2>2
<1>2. ClaimsInv /\ [Next]_vars => [overruns = 0 => SettledKept]_<<status, overruns>>
  BY <1>1
<1>3. Spec => [][overruns = 0 => SettledKept]_<<status, overruns>>
  BY <1>2, ClaimsHold, PTL DEF Spec
<1> QED BY <1>3 DEF SettledStays, SettledKept

\* While no live relay overruns its claim, an e-mail that was sent or refused
\* for good is never sent again.
THEOREM FinalRowsAreFinal == Spec => FinalRowStays
<1>1. ASSUME ClaimsInv, [Next]_vars, overruns = 0 PROVE FinalKept \/ UNCHANGED <<delivery, overruns>>
  <2>1. CASE overruns' = overruns
    BY <1>1, <2>1, ClaimsKept DEF ClaimsInv
  <2>2. CASE overruns' # overruns
    <3>1. UNCHANGED delivery
      BY <1>1, <2>2, Steps DEF Publish, TimePasses, RowGoesStale, Bounce, ChangePreference, Poll,
         Crash, Work, Take, Finish, CheckProcessed, Record, Consent, ClaimDelivery, Reread, Retake,
         Send, MarkSent, MarkFailed, Throw, faults, vars
    <3> QED BY <3>1 DEF FinalKept
  <2> QED BY <2>1, <2>2
<1>2. ClaimsInv /\ [Next]_vars => [overruns = 0 => FinalKept]_<<delivery, overruns>>
  BY <1>1
<1>3. Spec => [][overruns = 0 => FinalKept]_<<delivery, overruns>>
  BY <1>2, ClaimsHold, PTL DEF Spec
<1> QED BY <1>3 DEF FinalRowStays, FinalKept

-----------------------------------------------------------------------------
(* What the letters say: facts about every event and every choice of the   *)
(* reader, so they hold in every state.                                    *)

\* Every key a handler names is a template's.
LEMMA TemplateIsFound ==
    \A key \in {"verify-email", "welcome", "password-reset", "password-changed",
               "security-alert", "order-receipt", "order-refunded", "order-expired"} :
        TemplateOf(key) \in Templates
<1>1. \A key \in {"verify-email", "welcome", "password-reset", "password-changed",
               "security-alert", "order-receipt", "order-refunded", "order-expired"} :
         \E t \in Templates : t.key = key
  BY DEF Templates, Template, VerifyEmail, Welcome, PasswordReset, PasswordChanged,
         SecurityAlert, OrderReceipt, OrderRefunded, OrderExpired
<1> QED BY <1>1 DEF TemplateOf

\* What a token was signed for is what it verifies as.
LEMMA SignedIsVerified ==
    \A claims : verifyUnsubscribeToken(signUnsubscribeToken(claims)) = claims
BY DEF verifyUnsubscribeToken, signUnsubscribeToken

\* Of whom a letter is, and what kind its template makes it.
LEMMA LetterShape ==
    ASSUME NEW letter \in Letterbox
    PROVE  /\ letter.user \in People /\ letter.to # Nobody
           /\ letter.category \in {"PRODUCT_NEWS", "ACCOUNT_SECURITY"}
           /\ isOptional(letter.category) => letter.gives # "token"
<1>1. PICK e \in Events, h \in IdentityHandlers \cup CommerceHandlers :
         letter = Letter(h, e, AddressOf(h, e, People)) /\ AddressOf(h, e, People) # Nobody
  BY DEF Letterbox, LettersOf, HandlersOf
<1>2. e.about \in People
  BY DEF Events, IdentityEvents, CommerceEvents
<1>3. TemplateOf(h.template) \in Templates
  BY TemplateIsFound DEF IdentityHandlers, CommerceHandlers, Handler
<1>4. \A t \in Templates : /\ t.category \in {"PRODUCT_NEWS", "ACCOUNT_SECURITY"}
                           /\ isOptional(t.category) => t.gives # "token"
  BY DEF Templates, Template, VerifyEmail, Welcome, PasswordReset, PasswordChanged,
         SecurityAlert, OrderReceipt, OrderRefunded, OrderExpired, isOptional
<1> QED BY <1>1, <1>2, <1>3, <1>4 DEF Letter

\* Refusing one kind of letter for one reader is a write of one row.
Names(token, user, category) ==
    LET claims == verifyUnsubscribeToken(token)
    IN  claims # Nobody /\ claims.user = user /\ claims.category = category
RefusesOne(rows, token, user, category) ==
    /\ Accepted(token) /\ Unsubscribed(rows, token)[<<user, category>>] = "off"
    /\ \A p \in People, c \in Categories :
          p # user \/ c # category => Unsubscribed(rows, token)[<<p, c>>] = rows[<<p, c>>]

LEMMA RefusalIsOneRow ==
    ASSUME NEW rows \in [People \X Categories -> {"on", "off", "none"}],
           NEW user \in People, NEW category \in Categories, isOptional(category),
           NEW token, Names(token, user, category)
    PROVE  RefusesOne(rows, token, user, category)
<1> DEFINE claims == verifyUnsubscribeToken(token)
           own == <<user, category>>
<1>0. claims # Nobody /\ claims.user = user /\ claims.category = category
  BY DEF Names
<1>1. Accepted(token)
  BY <1>0 DEF Accepted
<1>2. Unsubscribed(rows, token) = [rows EXCEPT ![own] = "off"]
  BY <1>0, <1>1 DEF Unsubscribed, SetPreference
<1>3. own \in People \X Categories
  OBVIOUS
<1>4. \A p \in People, c \in Categories :
         p # user \/ c # category =>
            <<p, c>> # own /\ <<p, c>> \in People \X Categories
  OBVIOUS
<1> QED BY <1>1, <1>2, <1>3, <1>4 DEF RefusesOne

\* The link of a letter stops exactly that kind of letter, for that reader.
LEMMA LinksAreHonoured == LinkIsHonoured
<1> SUFFICES ASSUME NEW letter \in Letterbox,
                    NEW some \in SUBSET {p \in People \X Categories : isOptional(p[2])}
             PROVE  LET rows == [p \in People \X Categories |->
                                    IF p \in some THEN "off" ELSE "none"]
                        token == unsubscribeTokenFor(letter)
                        after == Unsubscribed(rows, token)
                        same(other) ==
                           other.user = letter.user /\ other.category = letter.category
                    IN  IF token = Nobody THEN ~mayNotSend(letter, rows)
                        ELSE /\ Accepted(token) /\ letter.gives # "token"
                             /\ mayNotSend(letter, after)
                             /\ ~listFor(after, letter.user)[letter.category]
                             /\ \A link \in Links(letter) : Unsubscribed(rows, link[2]) = after
                             /\ \A other \in Letterbox :
                                   ~same(other) => mayNotSend(other, after) = mayNotSend(other, rows)
  BY Zenon DEF LinkIsHonoured
<1> DEFINE rows == [p \in People \X Categories |-> IF p \in some THEN "off" ELSE "none"]
           token == unsubscribeTokenFor(letter)
           after == Unsubscribed(rows, token)
<1>1. rows \in [People \X Categories -> {"on", "off", "none"}]
  OBVIOUS
<1> HIDE DEF rows
<1>2. letter.user \in People /\ letter.category \in Categories
  BY LetterShape DEF Categories
<1>3. CASE ~isOptional(letter.category)
  <2>1. token = Nobody
    BY <1>3 DEF unsubscribeTokenFor
  <2> QED BY <1>3, <2>1 DEF mayNotSend
<1>4. CASE isOptional(letter.category)
  <2>1. token = signUnsubscribeToken([user |-> letter.user, category |-> letter.category])
    BY <1>4 DEF unsubscribeTokenFor, ClaimsOf
  <2>2. token # Nobody
    BY <1>2, <2>1, LettersAssumption DEF LettersAssumption, Claims
  <2>3. /\ Accepted(token)
        /\ after[<<letter.user, letter.category>>] = "off"
        /\ \A p \in People, c \in Categories :
              p # letter.user \/ c # letter.category => after[<<p, c>>] = rows[<<p, c>>]
    <3> DEFINE claims == verifyUnsubscribeToken(token)
    <3>1. claims = [user |-> letter.user, category |-> letter.category]
      BY <2>1, SignedIsVerified
    <3>2. claims # Nobody
      BY <1>2, <3>1, LettersAssumption DEF LettersAssumption, Claims
    <3>3. claims.user = letter.user /\ claims.category = letter.category
      BY <3>1
    <3>4. Names(token, letter.user, letter.category)
      BY <3>2, <3>3 DEF Names
    <3>5. RefusesOne(rows, token, letter.user, letter.category)
      <4> HIDE DEF token
      <4> QED BY <1>1, <1>2, <1>4, <3>4, RefusalIsOneRow
    <3>6. after = Unsubscribed(rows, token)
      OBVIOUS
    <3> HIDE DEF after, token
    <3> QED BY <3>5, <3>6 DEF RefusesOne
  <2>4. letter.gives # "token"
    BY <1>4, LetterShape
  <2> HIDE DEF after, token
  <2>5. mayNotSend(letter, after)
    BY <1>4, <2>3 DEF mayNotSend, hasOptedOut
  <2>6. ~listFor(after, letter.user)[letter.category]
    BY <1>2, <1>4, <2>3 DEF listFor
  <2>7. \A link \in Links(letter) : link[2] = token
    BY <2>2 DEF Links, token
  <2>8. ASSUME NEW other \in Letterbox,
               other.user # letter.user \/ other.category # letter.category
        PROVE  mayNotSend(other, after) = mayNotSend(other, rows)
    <3>1. other.user \in People /\ other.category \in Categories
      BY LetterShape DEF Categories
    <3>2. after[<<other.user, other.category>>] = rows[<<other.user, other.category>>]
      BY <2>3, <2>8, <3>1
    <3> QED BY <3>2 DEF mayNotSend, hasOptedOut
  <2> QED BY <2>2, <2>3, <2>4, <2>5, <2>6, <2>7, <2>8 DEF after, token, rows
<1> QED BY <1>3, <1>4

\* Which handler an event has, if any.
LEMMA HandlerOfType ==
    ASSUME NEW e \in Events
    PROVE  /\ HandlersOf(e) \subseteq IdentityHandlers \cup CommerceHandlers
           /\ e \in IdentityEvents => HandlersOf(e) \subseteq IdentityHandlers
           /\ e.type = "SessionsRevoked" => HandlersOf(e) = {}
           /\ e.type # "SessionsRevoked" => HandlersOf(e) # {}
           /\ \A h \in HandlersOf(e) :
                 Concerns(h, e) <=> ~(\/ e.type = "UserRegistered" /\ ~e.verified
                                      \/ e.type = "OrderExpired" /\ e.items = 0)
<1>0. e \in IdentityEvents => e.type \notin {"OrderPaid", "OrderRefunded", "OrderExpired"}
  BY DEF IdentityEvents
<1>1. e.type \in {"UserRegistered", "EmailVerificationRequested", "EmailVerified",
                 "PasswordResetRequested", "PasswordChanged", "RefreshReuseDetected",
                 "SessionsRevoked", "OrderPaid", "OrderRefunded", "OrderExpired"}
  <2>1. CASE e \in IdentityEvents
    BY <2>1 DEF IdentityEvents
  <2>2. CASE e \in CommerceEvents
    BY <2>2 DEF CommerceEvents
  <2> QED BY <2>1, <2>2 DEF Events
<1>2. \A h : h \in IdentityHandlers \cup CommerceHandlers <=>
        \/ h = Handler("notification:verify-email", "EmailVerificationRequested", "verify-email")
        \/ h = Handler("notification:welcome-on-verified", "EmailVerified", "welcome")
        \/ h = Handler("notification:welcome-on-oauth-signup", "UserRegistered", "welcome")
        \/ h = Handler("notification:password-reset", "PasswordResetRequested", "password-reset")
        \/ h = Handler("notification:password-changed", "PasswordChanged", "password-changed")
        \/ h = Handler("notification:security-alert", "RefreshReuseDetected", "security-alert")
        \/ h = Handler("notification:order-receipt", "OrderPaid", "order-receipt")
        \/ h = Handler("notification:order-refunded", "OrderRefunded", "order-refunded")
        \/ h = Handler("notification:order-expired", "OrderExpired", "order-expired")
  BY DEF IdentityHandlers, CommerceHandlers
<1>3. \A n, o, t : /\ Handler(n, o, t).name = n /\ Handler(n, o, t).on = o
  BY DEF Handler
<1>4. \A h \in CommerceHandlers : h.on \in {"OrderPaid", "OrderRefunded", "OrderExpired"}
  BY <1>3 DEF CommerceHandlers
<1>5. \A h \in IdentityHandlers \cup CommerceHandlers :
         /\ h.name = "notification:welcome-on-oauth-signup" <=> h.on = "UserRegistered"
         /\ h.name = "notification:order-expired" <=> h.on = "OrderExpired"
  BY <1>2, <1>3
<1>6. \A h \in HandlersOf(e) : h.on = e.type /\ h \in IdentityHandlers \cup CommerceHandlers
  BY DEF HandlersOf
<1>7. e.type # "SessionsRevoked" =>
         \E h \in IdentityHandlers \cup CommerceHandlers : h.on = e.type
  BY <1>1, <1>2, <1>3
<1>8. \A h \in IdentityHandlers \cup CommerceHandlers : h.on # "SessionsRevoked"
  BY <1>2, <1>3
<1>9. \A h \in HandlersOf(e) :
         Concerns(h, e) <=> ~(\/ e.type = "UserRegistered" /\ ~e.verified
                              \/ e.type = "OrderExpired" /\ e.items = 0)
  <2>1. e.items \in 0..1 /\ e.verified \in BOOLEAN
    <3>1. CASE e \in IdentityEvents
      BY <3>1 DEF IdentityEvents
    <3>2. CASE e \in CommerceEvents
      BY <3>2 DEF CommerceEvents
    <3> QED BY <3>1, <3>2 DEF Events
  <2>2. e.items > 0 <=> e.items # 0
    BY <2>1
  <2> SUFFICES ASSUME NEW h \in HandlersOf(e)
               PROVE  Concerns(h, e) <=> /\ h.on = "UserRegistered" => e.verified
                                         /\ h.on = "OrderExpired" => e.items # 0
    BY <1>6
  <2>3. /\ h.name = "notification:welcome-on-oauth-signup" <=> h.on = "UserRegistered"
        /\ h.name = "notification:order-expired" <=> h.on = "OrderExpired"
    BY <1>5, <1>6
  <2> QED BY <2>2, <2>3 DEF Concerns
<1>10. e.type # "SessionsRevoked" => HandlersOf(e) # {}
  BY <1>7 DEF HandlersOf
<1>11. e.type = "SessionsRevoked" => HandlersOf(e) = {}
  BY <1>6, <1>8
<1>12. e \in IdentityEvents => HandlersOf(e) \subseteq IdentityHandlers
  BY <1>4, <1>6, <1>0
<1> QED BY <1>6, <1>9, <1>10, <1>11, <1>12

\* Whoever an event is about gets its letter, and nobody else does.
LEMMA OwnersAreTold == OwnerIsTold
<1> SUFFICES ASSUME NEW e \in Events, e.email \in {e.about, Nobody},
                    e \in IdentityEvents => e.email # Nobody
             PROVE  {letter.to : letter \in LettersOf(e, People)} =
                       IF Silent(e) THEN {} ELSE {e.about}
  BY DEF OwnerIsTold
<1>1. e.about \in People /\ e.about # Nobody
  BY LettersAssumption DEF LettersAssumption, Events, IdentityEvents, CommerceEvents
<1>2. ASSUME NEW h \in HandlersOf(e)
      PROVE  AddressOf(h, e, People) = e.about
  <2>1. CASE e \in IdentityEvents
    BY <1>1, <1>2, <2>1, HandlerOfType DEF AddressOf
  <2>2. CASE e \in CommerceEvents
    <3>1. h.on \in {"OrderPaid", "OrderRefunded", "OrderExpired"}
      BY <1>2, <2>2 DEF HandlersOf, CommerceEvents
    <3>2. \A g \in IdentityHandlers : g.on \notin {"OrderPaid", "OrderRefunded", "OrderExpired"}
      BY DEF IdentityHandlers, Handler
    <3> QED BY <1>1, <3>1, <3>2 DEF AddressOf
  <2> QED BY <2>1, <2>2 DEF Events
<1>3. \A letter : letter \in LettersOf(e, People) <=>
         \E h \in HandlersOf(e) : Concerns(h, e) /\ letter = Letter(h, e, e.about)
  BY <1>1, <1>2 DEF LettersOf
<1>4. \A h : Letter(h, e, e.about).to = e.about
  BY DEF Letter
<1>5. Silent(e) <=> \A h \in HandlersOf(e) : ~Concerns(h, e)
  BY HandlerOfType DEF Silent
<1>6. CASE Silent(e)
  BY <1>3, <1>5, <1>6
<1>7. CASE ~Silent(e)
  <2>1. \E letter \in LettersOf(e, People) : letter.to = e.about
    BY <1>3, <1>4, <1>5, <1>7
  <2>2. \A letter \in LettersOf(e, People) : letter.to = e.about
    BY <1>3, <1>4
  <2> QED BY <1>7, <2>1, <2>2
<1> QED BY <1>6, <1>7

\* A letter's link is honoured, and an event's owner told, of whatever event and
\* whatever choices before.
THEOREM MailIsTrueToItsWord == Spec => []MailKeepsItsWord
<1>1. MailKeepsItsWord
  BY LinksAreHonoured, OwnersAreTold DEF MailKeepsItsWord
<1> QED BY <1>1, PTL
=============================================================================
