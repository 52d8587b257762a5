---------------------------- MODULE UploadingProofs ----------------------------
(***************************************************************************)
(* Proofs about Uploading, for files of every size the policy allows, any  *)
(* number of workers, pools, faults, retries and crashes.                  *)
(*                                                                         *)
(* First the arithmetic of the plan; then that a part, whoever sent it and *)
(* whenever it arrived, holds a stretch cut at the plan's offsets (Cut),   *)
(* so that what passes assertComplete is the plan itself; last the record  *)
(* of the key, which nobody removes before a request has failed.           *)
(***************************************************************************)
EXTENDS UploadingProperties, WellFoundedInduction, TLAPS

-----------------------------------------------------------------------------
(* The arithmetic of the plan.                                             *)

\* The smaller of two numbers.
LEMMA MinOfTwo ==
    ASSUME NEW a \in Nat, NEW b \in Nat
    PROVE  Min({a, b}) = IF a <= b THEN a ELSE b
  BY DEF Min

\* Sets of numbers have a least one.
LEMMA MinInSet ==
    ASSUME NEW S, S \subseteq Nat, S # {}
    PROVE  Min(S) \in S
<1> DEFINE R == OpToRel(<, Nat)
<1>1. PICK x \in S : \A y \in S : <<y, x>> \notin R
  <2> HIDE DEF R
  <2>1. IsWellFoundedOn(R, Nat)
    BY NatLessThanWellFounded DEF R
  <2> QED BY <2>1, WFMin
<1>2. \A y \in S : ~(y < x)
  <2> SUFFICES ASSUME NEW y \in S, y < x PROVE <<y, x>> \in R
    BY <1>1
  <2> QED BY DEF OpToRel
<1>3. \A y \in S : x <= y
  BY <1>2
<1> QED BY <1>3 DEF Min

\* Rounding a quotient up.
LEMMA PartsForCovers ==
    ASSUME NEW size \in Nat \ {0}, NEW part \in Nat \ {0}
    PROVE  /\ PartsFor(size, part) \in Nat \ {0}
           /\ (PartsFor(size, part) - 1) * part < size
           /\ size <= PartsFor(size, part) * part
<1> DEFINE q == (size + part - 1) \div part
<1>1. size + part - 1 \in Nat /\ size + part - 1 >= part
  OBVIOUS
<1>2. q \in Nat /\ q * part <= size + part - 1 /\ size + part - 1 < (q + 1) * part
  BY <1>1
<1> HIDE DEF q
<1>3. (q + 1) * part = q * part + part /\ (q - 1) * part = q * part - part
  BY <1>2
<1>4. q # 0
  BY <1>1, <1>2, <1>3
<1> QED BY <1>2, <1>3, <1>4 DEF q, PartsFor

\* A bound on a quotient rounded up.
LEMMA PartsForBounded ==
    ASSUME NEW size \in Nat \ {0}, NEW part \in Nat \ {0}, NEW n \in Nat, size <= part * n
    PROVE  PartsFor(size, part) <= n
<1>1. PICK q \in Nat \ {0} : q = PartsFor(size, part) /\ (q - 1) * part < size
  BY PartsForCovers
<1>2. SUFFICES ASSUME n < q PROVE FALSE
  BY <1>1
<1>3. n * part <= (q - 1) * part
  BY <1>1, <1>2
<1> QED BY <1>1, <1>3

\* What the policy allows, planUpload can cut.
LEMMA PlanExists ==
    ASSUME NEW size \in Sizes, size <= MaxBytes
    PROVE  /\ size \in Nat \ {0} /\ PartSize(size) \in Nat \ {0}
           /\ PartCount(size) \in Nat \ {0}
           /\ (PartCount(size) - 1) * PartSize(size) < size
           /\ size <= PartCount(size) * PartSize(size)
<1> USE MultipartAssumption DEF MultipartAssumption
<1> DEFINE S == {k \in Doublings : PartsFor(size, DefaultPart * k) <= MaxParts}
<1>1. Doublings \subseteq Nat \ {0} /\ 512 \in Doublings
  BY DEF Doublings
<1>2. size \in Nat \ {0} /\ DefaultPart * 512 \in Nat \ {0}
  OBVIOUS
<1>3. size <= (DefaultPart * 512) * MaxParts
  BY DEF MaxUploadable
<1>4. PartsFor(size, DefaultPart * 512) <= MaxParts
  BY <1>2, <1>3, PartsForBounded
<1>5. Min(S) \in S
  <2>1. S \subseteq Nat /\ 512 \in S
    BY <1>1, <1>4
  <2> HIDE DEF S
  <2> QED BY <2>1, MinInSet
<1>6. Min(S) \in Nat \ {0}
  BY <1>1, <1>5
<1> HIDE DEF S
<1>7. DefaultPart * Min(S) \in Nat \ {0}
  BY <1>6
<1>8. PartSize(size) \in Nat \ {0}
  BY <1>7 DEF PartSize, S
<1> QED BY <1>2, <1>8, PartsForCovers DEF PartCount

-----------------------------------------------------------------------------
(* What is sent, and what is assembled.                                    *)

\* The plan, part by part.
Plan(size) == [n \in 1..PartCount(size) |-> PartRange(size, n)]

\* A body that was cut out of some file as part n.
Cut(n, body) == \E file \in Nat : body = Slice(file, n)

Begun == session.status # "NONE" /\ session.size \in Sizes /\ session.size <= MaxBytes

RunPc == {"idle", "sending", "resolved", "rejected", "aborted"}
Work == [pc : {"idle", "put", "gone"}, index : Nat, attempt : Nat]

\* Runs of uploadParts that were given parts among P.
RunsOn(P) == [pc : RunPc, parts : P, cursor : Nat, file : Nat, worker : [Workers -> Work]]
PartsGiven == {pool[r].parts : r \in Runs}

\* The session and the provider's parts; nothing is sent before there is a
\* session.
BrowserOK ==
    /\ session \in [status : {"NONE", "CREATED", "UPLOADING", "COMPLETING", "COMPLETED"},
                    size : Nat]
    /\ pool \in [Runs -> RunsOn(PartsGiven)]
    /\ faults \in Nat
    /\ \/ Begun /\ stored = [n \in 1..PartCount(session.size) |-> stored[n]]
       \/ session.status = "NONE" /\ stored = <<>> /\ late = {} /\ pool = [r \in Runs |-> NoRun]
    /\ \A n \in DOMAIN stored : stored[n] # None => Cut(n, stored[n])
    /\ \A put \in late : put = [part |-> put.part, body |-> put.body] /\ Cut(put.part, put.body)

\* The record of the key, its requests and the writes sent off.
RecordOK ==
    /\ records \subseteq [status : {"IN_FLIGHT", "COMPLETED"}, hash : Hashes,
                          response : Calls \cup {Nothing}]
    /\ call \in [Calls -> [pc : {"idle", "consult", "run", "claim", "assemble"} \cup Outcomes,
                           hash : Hashes \cup {Nothing}, body : Calls \cup {Nothing}]]
    /\ writes \subseteq [by : Calls, kind : {"store", "release"}, body : Calls \cup {Nothing}]

\* What a request has seen of the parts, and what the provider assembled, is
\* the plan.
CompleteOK ==
    /\ seen = [c \in Calls |-> seen[c]]
    /\ \A c \in Calls : call[c].pc \in {"claim", "assemble"} =>
            Begun /\ seen[c].parts = Plan(session.size)
    /\ object # None => Begun /\ object = Plan(session.size)
    /\ crashes \in Nat

TypeInv == BrowserOK /\ RecordOK /\ CompleteOK

\* A stretch cut at the plan's offsets that is as long as the plan says is the
\* plan's: one that started short of its offset would be empty.
LEMMA WholeIsThePlan ==
    ASSUME BrowserOK, session.status # "NONE", Whole(stored)
    PROVE  stored = Plan(session.size)
<1> DEFINE size == session.size  P == PartSize(size)  N == PartCount(size)
<1>1. Begun /\ stored = [n \in 1..N |-> stored[n]]
  BY DEF BrowserOK
<1>2. /\ size \in Nat \ {0} /\ P \in Nat \ {0} /\ N \in Nat \ {0}
      /\ (N - 1) * P < size /\ size <= N * P
  BY <1>1, PlanExists DEF Begun
<1>3. ASSUME NEW n \in 1..N PROVE stored[n] = PartRange(size, n)
  <2>1. PICK file \in Nat : stored[n] = Slice(file, n)
    <3>1. n \in DOMAIN stored
      BY <1>1, <1>3
    <3>2. stored[n] # None
      BY <1>3 DEF Whole
    <3> QED BY <3>1, <3>2 DEF BrowserOK, Cut
  <2>2. Length(stored[n]) = Length(PartRange(size, n))
    BY <1>3 DEF Whole
  <2>3. PICK a \in Nat, b \in Nat : a = (n - 1) * P /\ b = n * P /\ b = a + P
    BY <1>2, <1>3
  <2>4. a < size
    <3>1. n - 1 <= N - 1 /\ n - 1 \in Nat /\ N - 1 \in Nat
      BY <1>2, <1>3
    <3>2. (n - 1) * P <= (N - 1) * P
      BY <1>2, <3>1
    <3> QED BY <1>2, <2>3, <3>1, <3>2
  <2>5. stored[n] = [start |-> Min({a, file}), end |-> Min({b, file})]
    BY <2>1, <2>3 DEF Slice
  <2>6. PartRange(size, n) = [start |-> a, end |-> Min({b, size})]
    BY <2>3 DEF PartRange
  <2> HIDE DEF size, P, N
  <2>7. /\ Min({a, file}) = IF a <= file THEN a ELSE file
        /\ Min({b, file}) = IF b <= file THEN b ELSE file
        /\ Min({b, size}) = IF b <= size THEN b ELSE size
    BY <1>2, MinOfTwo
  <2>8. Min({b, file}) - Min({a, file}) = Min({b, size}) - a
    BY <2>2, <2>5, <2>6 DEF Length
  <2>9. Min({a, file}) = a /\ Min({b, file}) = Min({b, size})
    BY <1>2, <2>3, <2>4, <2>7, <2>8
  <2> QED BY <2>5, <2>6, <2>9
<1> QED BY <1>1, <1>3 DEF Plan

\* The plan tiles the file.
LEMMA PlanTiles ==
    ASSUME Begun
    PROVE  LET P == Plan(session.size)
           IN  /\ Len(P) = PartCount(session.size) /\ Len(P) \in Nat \ {0}
               /\ P[1].start = 0 /\ P[Len(P)].end = session.size
               /\ \A n \in 1..Len(P) - 1 : P[n].end = P[n + 1].start
<1> DEFINE size == session.size  P == PartSize(size)  N == PartCount(size)
<1>1. /\ size \in Nat \ {0} /\ P \in Nat \ {0} /\ N \in Nat \ {0}
      /\ (N - 1) * P < size /\ size <= N * P
  BY PlanExists DEF Begun
<1>2. Len(Plan(size)) = N
  BY <1>1 DEF Plan
<1>3. \A n \in 1..N : Plan(size)[n].start = (n - 1) * P /\ Plan(size)[n].end = Min({n * P, size})
  BY DEF Plan, PartRange
<1> HIDE DEF size, P, N
<1>4. Plan(size)[1].start = 0
  <2>1. 1 \in 1..N /\ (1 - 1) * P = 0
    BY <1>1
  <2> QED BY <1>3, <2>1
<1>5. Plan(size)[N].end = size
  <2>1. N * P \in Nat /\ Min({N * P, size}) = IF N * P <= size THEN N * P ELSE size
    BY <1>1, MinOfTwo
  <2> QED BY <1>1, <1>3, <2>1
<1>6. ASSUME NEW n \in 1..N - 1 PROVE Plan(size)[n].end = Plan(size)[n + 1].start
  <2>1. n * P \in Nat /\ n \in 1..N /\ n + 1 \in 1..N /\ n <= N - 1
    BY <1>1
  <2>2. n * P <= (N - 1) * P
    BY <1>1, <2>1
  <2>3. n * P < size /\ (N - 1) * P \in Nat
    BY <1>1, <2>1, <2>2
  <2>4. Min({n * P, size}) = n * P
    BY <1>1, <2>1, <2>3, MinOfTwo
  <2>5. (n + 1) - 1 = n
    OBVIOUS
  <2> QED BY <1>3, <2>1, <2>4, <2>5
<1> QED BY <1>1, <1>2, <1>4, <1>5, <1>6 DEF size, N

-----------------------------------------------------------------------------
(* The record of the key.                                                  *)

NoneFailed == \A c \in Calls : call[c].pc # "failed"

\* The run a record is about: the one that claimed it, and whose answer it holds.
RunOf(r, c) ==
    /\ Ran(c) /\ r.hash = call[c].hash
    /\ r.status = "COMPLETED" => call[c].pc = "succeeded" /\ r.response = call[c].body

\* Until a request fails, the key's record stays once it is there, one request
\* has run, the writes under way are its answer, and so is what is replayed.
OneRan == \A c, d \in Calls : Ran(c) /\ Ran(d) => c = d
RecordStays == records = {} => \A c \in Calls : call[c].pc = "idle"
RecordsOfRuns == \A r \in records : \E c \in Calls : RunOf(r, c)
WritesOfRuns ==
    \A w \in writes : w.kind = "store" /\ call[w.by].pc = "succeeded" /\ w.body = call[w.by].body
ReplaysOfRuns ==
    \A c \in Calls : call[c].pc = "replayed" =>
        \E e \in Calls : /\ call[e].pc = "succeeded" /\ call[e].body = call[c].body
                         /\ call[e].hash = call[c].hash
KeyFacts == OneRan /\ RecordStays /\ RecordsOfRuns /\ WritesOfRuns /\ ReplaysOfRuns
KeyOK == NoneFailed => KeyFacts

-----------------------------------------------------------------------------
(* The browser's steps.                                                    *)

\* A run that opens its window.
LEMMA OpenedIsRun ==
    ASSUME NEW parts, NEW file \in Nat
    PROVE  Opened(parts, file) \in RunsOn({parts})
  BY DEF RunsOn, Opened, NoRun, Idle, Work, RunPc

\* Whatever parts it was given.
LEMMA PoolOnItsParts ==
    ASSUME NEW P, pool' \in [Runs -> RunsOn(P)]
    PROVE  pool' \in [Runs -> RunsOn(PartsGiven')]
  BY DEF RunsOn, PartsGiven

\* What was cut stays cut while the session keeps its size.
LEMMA CutStays ==
    ASSUME NEW n, NEW body, session'.size = session.size, Cut(n, body)
    PROVE  Cut(n, body)'
  BY DEF Cut, Slice

\* A worker can only be sending once there is a session.
LEMMA SendingIsBegun ==
    ASSUME BrowserOK, NEW r \in Runs, pool[r] # NoRun
    PROVE  Begun
  BY DEF BrowserOK

\* What a worker sends is cut at the plan's offset.
LEMMA PutIsCut ==
    ASSUME BrowserOK, NEW r \in Runs, NEW w \in Workers
    PROVE  Cut(Put(r, w).part, Put(r, w).body)
  BY DEF BrowserOK, RunsOn, Put, Cut

\* A part that arrives keeps the provider's parts in shape.
LEMMA SendKeeps ==
    ASSUME BrowserOK, Begun, NEW put, Cut(put.part, put.body)
    PROVE  /\ Send(put) = [n \in 1..PartCount(session.size) |-> Send(put)[n]]
           /\ \A n \in DOMAIN Send(put) : Send(put)[n] # None => Cut(n, Send(put)[n])
<1>1. stored = [n \in 1..PartCount(session.size) |-> stored[n]]
  BY DEF BrowserOK, Begun
<1>2. \A n \in DOMAIN stored : stored[n] # None => Cut(n, stored[n])
  BY DEF BrowserOK
<1>3. CASE session.status = "COMPLETED"
  BY <1>1, <1>2, <1>3 DEF Send
<1>4. CASE session.status # "COMPLETED"
  <2>1. Send(put) = [stored EXCEPT ![put.part] = put.body]
    BY <1>4 DEF Send
  <2> QED BY <1>1, <1>2, <2>1
<1> QED BY <1>3, <1>4

\* A step that leaves the session as it was, and does to each other variable
\* something that keeps it in shape.
LEMMA SessionKept ==
    ASSUME BrowserOK, Begun, session' = session, faults' \in Nat,
           NEW P, pool' \in [Runs -> RunsOn(P)],
           \/ stored' = stored
           \/ \E put : Cut(put.part, put.body) /\ stored' = Send(put),
           \A put \in late' : put = [part |-> put.part, body |-> put.body]
                              /\ Cut(put.part, put.body)
    PROVE  BrowserOK'
<1>1. stored' = [n \in 1..PartCount(session.size) |-> stored'[n]]
  BY SendKeeps DEF BrowserOK, Begun
<1>2. \A n \in DOMAIN stored' : stored'[n] # None => Cut(n, stored'[n])
  BY SendKeeps DEF BrowserOK
<1>3. \A n, b : Cut(n, b) => Cut(n, b)'
  BY CutStays
<1> QED BY <1>1, <1>2, <1>3, PoolOnItsParts DEF BrowserOK, Begun

\* create keeps the shape, and begins.
LEMMA CreateKeeps ==
    ASSUME BrowserOK, NEW size \in Sizes, Create(size)
    PROVE  BrowserOK' /\ Begun' /\ ~Begun
<1>1. size \in Nat /\ 1 \in Runs
  BY MultipartAssumption DEF MultipartAssumption
<1>2. late = {} /\ pool = [r \in Runs |-> NoRun] /\ ~Begun
  BY DEF BrowserOK, Begun, Create
<1>3. Begun' /\ session'.size = size
  BY DEF Create, Begun
<1>4. pool' \in [Runs -> RunsOn(PartsGiven')]
  <2>1. PICK parts : pool' = [pool EXCEPT ![1] = Opened(parts, size)]
    BY DEF Create
  <2>2. pool' \in [Runs -> RunsOn(PartsGiven \cup {parts})]
    BY <1>1, <2>1, OpenedIsRun DEF BrowserOK, RunsOn
  <2> QED BY <2>2, PoolOnItsParts
<1> QED BY <1>1, <1>2, <1>3, <1>4 DEF BrowserOK, Begun, Create

\* resume keeps the shape, and the size.
LEMMA ResumeKeeps ==
    ASSUME BrowserOK, NEW r \in Runs, NEW file \in Sizes, Resume(r, file)
    PROVE  BrowserOK' /\ Begun /\ Begun' /\ session'.size = session.size
<1>1. file \in Nat
  BY MultipartAssumption DEF MultipartAssumption
<1>2. Begun
  BY DEF BrowserOK, Resume
<1>3. /\ session' \in [status : {"CREATED", "UPLOADING"}, size : Nat]
      /\ session'.size = session.size
  BY DEF BrowserOK, Resume
<1>4. pool' \in [Runs -> RunsOn(PartsGiven')]
  <2>1. PICK parts : pool' = [pool EXCEPT ![r] = Opened(parts, file)]
    BY DEF Resume
  <2>2. pool' \in [Runs -> RunsOn(PartsGiven \cup {parts})]
    BY <1>1, <2>1, OpenedIsRun DEF BrowserOK, RunsOn
  <2> QED BY <2>2, PoolOnItsParts
<1>5. \A n, b : Cut(n, b) => Cut(n, b)'
  BY <1>3, CutStays
<1> QED BY <1>2, <1>3, <1>4, <1>5 DEF BrowserOK, Begun, Resume

\* A worker that takes a part keeps the shape.
LEMMA TakeKeeps ==
    ASSUME BrowserOK, NEW r \in Runs, NEW w \in Workers, Take(r, w)
    PROVE  BrowserOK' /\ Begun /\ Begun' /\ session' = session
<1>1. Begun
  BY SendingIsBegun DEF Take, NoRun
<1>2. pool' \in [Runs -> RunsOn(PartsGiven)]
  <2> DEFINE sent == [pc |-> "put", index |-> pool[r].cursor + 1, attempt |-> 1]
  <2>1. pool[r] \in RunsOn(PartsGiven)
    BY DEF BrowserOK
  <2>2. sent \in Work /\ pool[r].cursor + 1 \in Nat /\ pool[r].worker \in [Workers -> Work]
    BY <2>1 DEF RunsOn, Work
  <2>3. pool' = [pool EXCEPT ![r].cursor = pool[r].cursor + 1, ![r].worker[w] = sent]
    BY DEF Take
  <2> HIDE DEF sent
  <2>4. [pool[r].worker EXCEPT ![w] = sent] \in [Workers -> Work]
    BY <2>2
  <2> QED BY <2>1, <2>2, <2>3, <2>4 DEF BrowserOK, RunsOn
<1>3. session' = session /\ stored' = stored /\ late' = late /\ faults' = faults
  BY DEF Take
<1> QED BY <1>1, <1>2, <1>3, SessionKept DEF BrowserOK, Begun

\* So does an accepted part,
LEMMA AcceptedKeeps ==
    ASSUME BrowserOK, NEW r \in Runs, NEW w \in Workers, Accepted(r, w)
    PROVE  BrowserOK' /\ Begun /\ Begun' /\ session' = session
<1>1. Begun
  BY SendingIsBegun DEF Accepted, NoRun, Idle
<1>2. [pool[r] EXCEPT !.worker[w] = Idle] \in RunsOn(PartsGiven)
  <2>1. pool[r] \in RunsOn(PartsGiven)
    BY DEF BrowserOK
  <2>2. Idle \in Work
    BY DEF Work, Idle
  <2>3. [pool[r].worker EXCEPT ![w] = Idle] \in [Workers -> Work]
    BY <2>1, <2>2 DEF RunsOn
  <2> QED BY <2>1, <2>3 DEF RunsOn
<1>3. ASSUME NEW run \in RunsOn(PartsGiven) PROVE Rested(run) \in RunsOn(PartsGiven)
  BY DEF Rested, RunsOn, RunPc
<1>4. pool' \in [Runs -> RunsOn(PartsGiven)]
  BY <1>2, <1>3 DEF Accepted, BrowserOK
<1>5. session' = session /\ stored' = Send(Put(r, w)) /\ late' = late /\ faults' = faults
  BY DEF Accepted
<1> QED BY <1>1, <1>4, <1>5, PutIsCut, SessionKept DEF BrowserOK, Begun

\* a refused one, arrived or not,
LEMMA RefusedKeeps ==
    ASSUME BrowserOK, NEW r \in Runs, NEW w \in Workers, Refused(r, w)
    PROVE  BrowserOK' /\ Begun /\ Begun' /\ session' = session
<1>1. Begun
  BY SendingIsBegun DEF Refused, NoRun, Idle
<1>2. pool' \in [Runs -> RunsOn(PartsGiven)]
  <2>1. pool[r] \in RunsOn(PartsGiven)
    BY DEF BrowserOK
  <2>2. CASE pool[r].worker[w].attempt < MaxRetries
    <3> DEFINE W == [pool[r].worker EXCEPT ![w].attempt = @ + 1]
    <3>1. W \in [Workers -> Work]
      BY <2>1 DEF RunsOn, Work
    <3>2. pool' = [pool EXCEPT ![r].worker = W]
      BY <2>1, <2>2 DEF Refused, Again, RunsOn
    <3> HIDE DEF W
    <3> QED BY <2>1, <3>1, <3>2 DEF BrowserOK, RunsOn
  <2>3. CASE ~(pool[r].worker[w].attempt < MaxRetries)
    <3> DEFINE W == [pool[r].worker EXCEPT ![w].pc = "gone"]
    <3>1. W \in [Workers -> Work]
      BY <2>1 DEF RunsOn, Work
    <3>2. pool' = [pool EXCEPT ![r].worker = W, ![r].pc = "rejected"]
      BY <2>1, <2>3 DEF Refused, Again, RunsOn
    <3> HIDE DEF W
    <3> QED BY <2>1, <3>1, <3>2 DEF BrowserOK, RunsOn, RunPc
  <2> QED BY <2>2, <2>3
<1>3. session' = session /\ faults' \in Nat
  BY DEF Refused, BrowserOK
<1>4. stored' = stored \/ stored' = Send(Put(r, w))
  BY DEF Refused
<1>5. \A put \in late' : put = [part |-> put.part, body |-> put.body] /\ Cut(put.part, put.body)
  BY PutIsCut DEF Refused, BrowserOK, Put
<1> QED BY <1>1, <1>2, <1>3, <1>4, <1>5, PutIsCut, SessionKept DEF Begun

\* a late one,
LEMMA ArrivesKeeps ==
    ASSUME BrowserOK, NEW put \in late, Arrives(put)
    PROVE  BrowserOK' /\ Begun /\ Begun' /\ session' = session
<1>1. Begun /\ Cut(put.part, put.body)
  BY DEF BrowserOK
<1>2. session' = session /\ stored' = Send(put) /\ late' \subseteq late /\ pool' = pool
      /\ faults' = faults
  BY DEF Arrives
<1> QED BY <1>1, <1>2, SessionKept DEF BrowserOK, Begun

\* and an abort.
LEMMA AbortKeeps ==
    ASSUME BrowserOK, NEW r \in Runs, Abort(r)
    PROVE  BrowserOK' /\ Begun /\ Begun' /\ session' = session
<1>1. Begun
  BY SendingIsBegun DEF Abort, NoRun
<1>2. [NoRun EXCEPT !.pc = "aborted"] \in RunsOn({<<>>})
  BY DEF RunsOn, NoRun, Idle, Work, RunPc
<1>3. pool' \in [Runs -> RunsOn(PartsGiven \cup {<<>>})]
  BY <1>2 DEF Abort, BrowserOK, RunsOn
<1>4. session' = session /\ stored' = stored /\ faults' \in Nat
  BY DEF Abort, BrowserOK
<1>5. \A put \in late' : put = [part |-> put.part, body |-> put.body] /\ Cut(put.part, put.body)
  BY PutIsCut DEF Abort, BrowserOK, Put
<1> QED BY <1>1, <1>3, <1>4, <1>5, SessionKept DEF Begun

\* The browser's steps keep their own shape, and the size once there is one.
LEMMA BrowserKeeps ==
    ASSUME BrowserOK, Browser
    PROVE  BrowserOK' /\ (Begun => Begun' /\ session'.size = session.size)
<1>1. ASSUME NEW size \in Sizes, Create(size)
      PROVE  BrowserOK' /\ (Begun => Begun' /\ session'.size = session.size)
  BY <1>1, CreateKeeps
<1>2. ASSUME NEW r \in Runs, NEW file \in Sizes, Resume(r, file)
      PROVE  BrowserOK' /\ (Begun => Begun' /\ session'.size = session.size)
  BY <1>2, ResumeKeeps
<1>3. ASSUME NEW r \in Runs, Abort(r)
      PROVE  BrowserOK' /\ (Begun => Begun' /\ session'.size = session.size)
  BY <1>3, AbortKeeps
<1>4. ASSUME NEW r \in Runs, NEW w \in Workers, Take(r, w) \/ Accepted(r, w) \/ Refused(r, w)
      PROVE  BrowserOK' /\ (Begun => Begun' /\ session'.size = session.size)
  BY <1>4, TakeKeeps, AcceptedKeeps, RefusedKeeps
<1>5. ASSUME NEW put \in late, Arrives(put)
      PROVE  BrowserOK' /\ (Begun => Begun' /\ session'.size = session.size)
  BY <1>5, ArrivesKeeps
<1> QED BY <1>1, <1>2, <1>3, <1>4, <1>5 DEF Browser
-----------------------------------------------------------------------------
(* The requests' steps.                                                    *)

\* A request leaves the browser, the session and the parts alone.
LEMMA BrowserStays ==
    ASSUME BrowserOK, UNCHANGED multipart
    PROVE  BrowserOK' /\ (Begun => Begun') /\ session'.size = session.size
<1>1. session' = session /\ stored' = stored /\ pool' = pool /\ late' = late /\ faults' = faults
  BY DEF multipart
<1>2. (Begun <=> Begun') /\ PartsGiven' = PartsGiven
  BY <1>1 DEF Begun, PartsGiven
<1>3. \A n, b : Cut(n, b) => Cut(n, b)'
  BY <1>1, CutStays
<1> QED BY <1>1, <1>2, <1>3 DEF BrowserOK

\* A request that inserts the key's record, or finds it there;
LEMMA PostKeeps ==
    ASSUME TypeInv, NEW c \in Calls, Post(c)
    PROVE  TypeInv'
<1>1. BrowserOK' /\ (Begun => Begun') /\ session'.size = session.size
  BY BrowserStays DEF TypeInv, Post
<1>2. PICK hash \in Hashes : Claim(c, hash)
  BY DEF Post
<1>3. RecordOK'
  BY <1>2 DEF TypeInv, RecordOK, Claim, Nothing
<1>4. \A d \in Calls : call'[d].pc \in {"claim", "assemble"} => call[d].pc = call'[d].pc
  BY <1>2 DEF TypeInv, RecordOK, Claim
<1>5. CompleteOK'
  BY <1>1, <1>4 DEF TypeInv, CompleteOK, Post
<1> QED BY <1>1, <1>3, <1>5 DEF TypeInv

\* one that is answered from the record;
LEMMA ReplayKeeps ==
    ASSUME TypeInv, NEW c \in Calls, Replay(c)
    PROVE  TypeInv'
<1>1. BrowserOK' /\ (Begun => Begun') /\ session'.size = session.size
  BY BrowserStays DEF TypeInv, Replay
<1>2. RecordOK'
  BY DEF TypeInv, RecordOK, Replay, Consult, Start, Answer, Nothing, Outcomes
<1>3. \A d \in Calls : call'[d].pc \in {"claim", "assemble"} => call[d].pc = call'[d].pc
  BY DEF TypeInv, RecordOK, Replay, Consult, Start, Answer
<1>4. CompleteOK'
  BY <1>1, <1>3 DEF TypeInv, CompleteOK, Replay
<1> QED BY <1>1, <1>2, <1>4 DEF TypeInv

\* What passes assertComplete is the plan.
LEMMA ListPartsKeeps ==
    ASSUME TypeInv, NEW c \in Calls, ListParts(c)
    PROVE  TypeInv'
<1>1. BrowserOK' /\ (Begun => Begun') /\ session'.size = session.size
  BY BrowserStays DEF TypeInv, ListParts
<1>2. RecordOK'
  BY DEF TypeInv, RecordOK, ListParts, Fail, Start, Answer, Nothing, Outcomes
<1>3. CASE session.status \in {"CREATED", "UPLOADING"} /\ Whole(stored)
  <2>1. Begun /\ stored = Plan(session.size)
    BY <1>3, WholeIsThePlan DEF TypeInv, BrowserOK
  <2>2. seen' = [seen EXCEPT ![c] = [status |-> session.status, parts |-> stored]]
    BY <1>3 DEF ListParts
  <2>3. seen' = [d \in Calls |-> seen'[d]] /\ seen'[c].parts = stored
        /\ \A d \in Calls \ {c} : seen'[d] = seen[d]
    BY <2>2 DEF TypeInv, CompleteOK
  <2>4. \A d \in Calls \ {c} : call'[d] = call[d]
    BY <1>3 DEF ListParts, Start, TypeInv, RecordOK
  <2>5. object' = object /\ crashes' = crashes
    BY DEF ListParts
  <2> QED BY <1>1, <1>2, <2>1, <2>3, <2>4, <2>5 DEF TypeInv, CompleteOK
<1>4. CASE ~(session.status \in {"CREATED", "UPLOADING"} /\ Whole(stored))
  <2>1. \A d \in Calls : call'[d].pc \in {"claim", "assemble"} => call[d].pc = call'[d].pc
    BY <1>4 DEF TypeInv, RecordOK, ListParts, Fail, Answer
  <2>2. seen' = seen /\ object' = object /\ crashes' = crashes
    BY <1>4 DEF ListParts
  <2> QED BY <1>1, <1>2, <2>1, <2>2 DEF TypeInv, CompleteOK
<1> QED BY <1>3, <1>4

\* A step on the session alone keeps what the browser's state says.
LEMMA StatusMoves ==
    ASSUME BrowserOK, Begun, NEW status \in {"UPLOADING", "COMPLETING", "COMPLETED"},
           session' = [session EXCEPT !.status = status] \/ session' = session,
           UNCHANGED <<stored, pool, late, faults>>
    PROVE  BrowserOK' /\ Begun' /\ session'.size = session.size
<1>1. session'.size = session.size /\ Begun'
      /\ session' \in [status : {"NONE", "CREATED", "UPLOADING", "COMPLETING", "COMPLETED"},
                       size : Nat]
  BY DEF BrowserOK, Begun
<1>2. \A n, b : Cut(n, b) => Cut(n, b)'
  BY <1>1, CutStays
<1> QED BY <1>1, <1>2 DEF BrowserOK, Begun, PartsGiven

\* The claim of the session;
LEMMA ClaimSessionKeeps ==
    ASSUME TypeInv, NEW c \in Calls, ClaimSession(c)
    PROVE  TypeInv'
<1>1. Begun /\ seen[c].parts = Plan(session.size)
  BY DEF TypeInv, CompleteOK, ClaimSession
<1>2. BrowserOK' /\ Begun' /\ session'.size = session.size
  BY <1>1, StatusMoves DEF TypeInv, ClaimSession
<1>3. RecordOK'
  BY DEF TypeInv, RecordOK, ClaimSession, Fail, Start, Answer, Nothing, Outcomes
<1>4. /\ seen' = [d \in Calls |-> seen'[d]] /\ \A d \in Calls \ {c} : seen'[d] = seen[d]
      /\ call'[c].pc = "assemble" => seen'[c] = seen[c]
  BY DEF TypeInv, CompleteOK, RecordOK, ClaimSession, Forgets, Fail, Answer
<1>5. /\ \A d \in Calls \ {c} : call'[d] = call[d]
      /\ call'[c].pc # "claim"
  BY DEF TypeInv, RecordOK, ClaimSession, Fail, Start, Answer
<1>6. object' = object /\ crashes' = crashes
  BY DEF ClaimSession
<1> QED BY <1>1, <1>2, <1>3, <1>4, <1>5, <1>6 DEF TypeInv, CompleteOK

\* the assembly, of the plan that was listed;
LEMMA AssembleKeeps ==
    ASSUME TypeInv, NEW c \in Calls, Assemble(c)
    PROVE  TypeInv'
<1>1. Begun /\ seen[c].parts = Plan(session.size)
  BY DEF TypeInv, CompleteOK, Assemble
<1>2. BrowserOK' /\ Begun' /\ session'.size = session.size
  BY <1>1, StatusMoves DEF TypeInv, Assemble
<1>3. RecordOK'
  BY DEF TypeInv, RecordOK, Assemble, Fail, Succeed, Answer, Nothing, Outcomes
<1>4. /\ seen' = [d \in Calls |-> seen'[d]] /\ \A d \in Calls \ {c} : seen'[d] = seen[d]
  BY DEF TypeInv, CompleteOK, Assemble, Forgets
<1>5. /\ \A d \in Calls \ {c} : call'[d] = call[d]
      /\ call'[c].pc \notin {"claim", "assemble"}
  BY DEF TypeInv, RecordOK, Assemble, Fail, Succeed, Answer
<1>6. (object' = object \/ object' = Plan(session.size)) /\ crashes' = crashes
  BY <1>1 DEF Assemble
<1> QED BY <1>1, <1>2, <1>3, <1>4, <1>5, <1>6 DEF TypeInv, CompleteOK

\* a write that lands;
LEMMA RecordWrittenKeeps ==
    ASSUME TypeInv, NEW w \in writes, RecordWritten(w)
    PROVE  TypeInv'
<1>1. BrowserOK' /\ (Begun => Begun') /\ session'.size = session.size
  BY BrowserStays DEF TypeInv, RecordWritten
<1>2. RecordOK'
  <2>1. w.body \in Calls \cup {Nothing} /\ RecordOK
    BY DEF TypeInv, RecordOK
  <2>2. ASSUME NEW r \in records
        PROVE  [r EXCEPT !.status = "COMPLETED", !.response = w.body]
                 \in [status : {"IN_FLIGHT", "COMPLETED"}, hash : Hashes,
                      response : Calls \cup {Nothing}]
    BY <2>1 DEF RecordOK
  <2>3. \/ records' = {}
        \/ records' = {[r EXCEPT !.status = "COMPLETED", !.response = w.body] : r \in records}
    BY DEF RecordWritten, Lands
  <2>4. records' \subseteq [status : {"IN_FLIGHT", "COMPLETED"}, hash : Hashes,
                            response : Calls \cup {Nothing}]
    <3> SUFFICES ASSUME NEW q \in records'
                 PROVE  q \in [status : {"IN_FLIGHT", "COMPLETED"}, hash : Hashes,
                               response : Calls \cup {Nothing}]
      OBVIOUS
    <3>1. PICK r \in records : q = [r EXCEPT !.status = "COMPLETED", !.response = w.body]
      BY <2>3
    <3> QED BY <2>2, <3>1
  <2>5. call' = call /\ writes' \subseteq writes
    BY DEF RecordWritten, Lands
  <2> QED BY <2>1, <2>4, <2>5 DEF RecordOK
<1>3. CompleteOK'
  BY <1>1 DEF TypeInv, CompleteOK, RecordWritten, Lands
<1> QED BY <1>1, <1>2, <1>3 DEF TypeInv

\* and a crash.
LEMMA CrashKeeps ==
    ASSUME TypeInv, NEW c \in Calls, Crash(c)
    PROVE  TypeInv'
<1>1. BrowserOK' /\ (Begun => Begun') /\ session'.size = session.size
  BY BrowserStays DEF TypeInv, Crash
<1>2. RecordOK'
  BY DEF TypeInv, RecordOK, Crash, Die, Answer, Nothing, Outcomes
<1>3. /\ \A d \in Calls \ {c} : call'[d] = call[d]
      /\ call'[c].pc \notin {"claim", "assemble"}
  BY DEF TypeInv, RecordOK, Crash, Die, Answer, Running, Outcomes
<1>4. seen' = [d \in Calls |-> seen'[d]] /\ \A d \in Calls \ {c} : seen'[d] = seen[d]
  BY DEF TypeInv, CompleteOK, Crash, Forgets
<1>5. object' = object /\ crashes' \in Nat
  BY DEF TypeInv, CompleteOK, Crash
<1> QED BY <1>1, <1>2, <1>3, <1>4, <1>5 DEF TypeInv, CompleteOK

\* Types and shapes at the start.
LEMMA UploadingTypesStart == Init => TypeInv
<1> SUFFICES ASSUME Init PROVE TypeInv
  OBVIOUS
<1>1. NoRun \in RunsOn({<<>>})
  BY DEF RunsOn, NoRun, Idle, Work, RunPc
<1>2. pool \in [Runs -> RunsOn(PartsGiven)]
  BY <1>1 DEF Init, MultipartInit, PartsGiven, RunsOn
<1>3. BrowserOK
  BY <1>2 DEF Init, MultipartInit, BrowserOK
<1>4. RecordOK
  BY DEF Init, IdempotencyInit, RecordOK, Nothing
<1>5. CompleteOK
  BY <1>4 DEF Init, IdempotencyInit, CompleteOK
<1> QED BY <1>3, <1>4, <1>5 DEF TypeInv

\* And over a step.
LEMMA UploadingTypesStep == TypeInv /\ [Next]_vars => TypeInv'
<1> SUFFICES ASSUME TypeInv, [Next]_vars PROVE TypeInv'
  OBVIOUS
<1>1. CASE Browser /\ UNCHANGED <<idempotency, seen, object, crashes>>
  <2>1. BrowserOK' /\ (Begun => Begun' /\ session'.size = session.size)
    BY <1>1, BrowserKeeps DEF TypeInv
  <2> QED BY <1>1, <2>1 DEF TypeInv, RecordOK, CompleteOK, idempotency
<1>2. ASSUME NEW c \in Calls, Post(c) \/ Replay(c) \/ ListParts(c) PROVE TypeInv'
  BY <1>2, PostKeeps, ReplayKeeps, ListPartsKeeps
<1>3. ASSUME NEW c \in Calls, ClaimSession(c) \/ Assemble(c) \/ Crash(c) PROVE TypeInv'
  BY <1>3, ClaimSessionKeeps, AssembleKeeps, CrashKeeps
<1>4. ASSUME NEW w \in writes, RecordWritten(w) PROVE TypeInv'
  BY <1>4, RecordWrittenKeeps
<1>5. CASE UNCHANGED vars
  <2>1. UNCHANGED multipart /\ UNCHANGED <<idempotency, seen, object, crashes>>
    BY <1>5 DEF vars
  <2>2. BrowserOK' /\ (Begun => Begun') /\ session'.size = session.size
    BY <2>1, BrowserStays DEF TypeInv
  <2> QED BY <2>1, <2>2 DEF TypeInv, RecordOK, CompleteOK, idempotency
<1> QED BY <1>1, <1>2, <1>3, <1>4, <1>5 DEF Next
-----------------------------------------------------------------------------
(* One run of the key.                                                     *)

\* A request that has failed stays failed.
LEMMA NoneFailedBefore ==
    ASSUME TypeInv, [Next]_vars, NoneFailed'
    PROVE  NoneFailed
<1> SUFFICES ASSUME NEW c \in Calls, call[c].pc = "failed" PROVE call'[c].pc = "failed"
  BY DEF NoneFailed
<1> USE DEF TypeInv, RecordOK
<1>1. CASE UNCHANGED call
  BY <1>1
<1>2. ASSUME NEW d \in Calls, Post(d) \/ Replay(d) PROVE call'[c].pc = "failed"
  BY <1>2 DEF Post, Replay, Claim, Consult, Start, Answer
<1>3. ASSUME NEW d \in Calls, ListParts(d) \/ ClaimSession(d) \/ Assemble(d)
      PROVE  call'[c].pc = "failed"
  BY <1>3 DEF ListParts, ClaimSession, Assemble, Fail, Succeed, Start, Answer
<1>4. ASSUME NEW d \in Calls, Crash(d) PROVE call'[c].pc = "failed"
  BY <1>4 DEF Crash, Die, Running, Outcomes, Answer
<1>5. ASSUME NEW w \in writes, RecordWritten(w) PROVE UNCHANGED call
  BY <1>5 DEF RecordWritten, Lands
<1>6. Browser /\ UNCHANGED <<idempotency, seen, object, crashes>> => UNCHANGED call
  BY DEF idempotency
<1>7. UNCHANGED vars => UNCHANGED call
  BY DEF vars, idempotency
<1> QED BY <1>1, <1>2, <1>3, <1>4, <1>5, <1>6, <1>7 DEF Next

\* Nobody has used the key.
LEMMA KeyStarts == Init => KeyFacts
  BY DEF Init, IdempotencyInit, KeyFacts, OneRan, RecordStays, RecordsOfRuns, WritesOfRuns,
         ReplaysOfRuns, Ran

\* The steps that leave the record and the requests alone.
LEMMA KeyStays ==
    ASSUME KeyFacts, UNCHANGED idempotency
    PROVE  KeyFacts'
<1>1. records' = records /\ call' = call /\ writes' = writes
  BY DEF idempotency
<1> QED BY <1>1 DEF KeyFacts, OneRan, RecordStays, RecordsOfRuns, WritesOfRuns, ReplaysOfRuns,
                    Ran, RunOf

\* A step of one request that has not run, and does not start to.
LEMMA NotRunning ==
    ASSUME TypeInv, KeyFacts, NEW c \in Calls, ~Ran(c), ~Ran(c)', call[c].pc # "replayed",
           \A d \in Calls \ {c} : call'[d] = call[d],
           records' = records, records # {}, writes' = writes,
           call'[c].pc = "replayed" =>
               \E e \in Calls : /\ call[e].pc = "succeeded" /\ call[e].body = call'[c].body
                                /\ call[e].hash = call'[c].hash
    PROVE  KeyFacts'
<1>1. ASSUME NEW d \in Calls, Ran(d) PROVE call'[d] = call[d]
  BY <1>1
<1>2. \A d \in Calls : Ran(d)' <=> Ran(d)
  BY DEF Ran
<1>3. OneRan'
  BY <1>2 DEF KeyFacts, OneRan
<1>4. RecordsOfRuns'
  BY <1>1, <1>2 DEF KeyFacts, RecordsOfRuns, RunOf
<1>5. \A d \in Calls : call[d].pc = "succeeded" => call'[d] = call[d]
  BY <1>1 DEF Ran
<1>6. WritesOfRuns'
  BY <1>5 DEF KeyFacts, WritesOfRuns, TypeInv, RecordOK
<1>7. ReplaysOfRuns'
  <2>1. ASSUME NEW d \in Calls, call'[d].pc = "replayed"
        PROVE  \E e \in Calls : /\ call[e].pc = "succeeded" /\ call[e].body = call'[d].body
                                /\ call[e].hash = call'[d].hash
    BY <2>1 DEF KeyFacts, ReplaysOfRuns
  <2> QED BY <1>5, <2>1 DEF ReplaysOfRuns
<1> QED BY <1>3, <1>4, <1>6, <1>7 DEF KeyFacts, RecordStays

\* The first one: it inserts the record; any other finds it there.
LEMMA PostKeepsKey ==
    ASSUME TypeInv, KeyFacts, NEW c \in Calls, Post(c)
    PROVE  KeyFacts'
<1>1. PICK hash \in Hashes : Claim(c, hash)
  BY DEF Post
<1>2. CASE records = {}
  <2>1. \A d \in Calls : call[d].pc = "idle"
    BY <1>2 DEF KeyFacts, RecordStays
  <2>2. /\ records' = {[status |-> "IN_FLIGHT", hash |-> hash, response |-> Nothing]}
        /\ call' = [call EXCEPT ![c].pc = "run", ![c].hash = hash] /\ writes' = writes
    BY <1>1, <1>2 DEF Claim
  <2>3. /\ call'[c].pc = "run" /\ call'[c].hash = hash
        /\ \A d \in Calls \ {c} : call'[d].pc = "idle"
    BY <2>1, <2>2 DEF TypeInv, RecordOK
  <2>4. writes' = {}
    BY <2>1, <2>2 DEF KeyFacts, WritesOfRuns, TypeInv, RecordOK
  <2>5. \A d \in Calls : Ran(d)' <=> d = c
    BY <2>3 DEF Ran
  <2>6. RecordsOfRuns' /\ RecordStays'
    <3>1. \A r \in records' : r.hash = hash /\ r.status # "COMPLETED"
      BY <2>2
    <3> QED BY <2>2, <2>3, <2>5, <3>1 DEF RecordsOfRuns, RecordStays, RunOf
  <2>7. OneRan' /\ WritesOfRuns'
    BY <2>4, <2>5 DEF OneRan, WritesOfRuns
  <2>8. ReplaysOfRuns'
    BY <2>3 DEF ReplaysOfRuns
  <2> QED BY <2>6, <2>7, <2>8 DEF KeyFacts
<1>3. CASE records # {}
  <2>1. /\ records' = records /\ writes' = writes /\ call[c].pc = "idle"
        /\ call' = [call EXCEPT ![c].pc = "consult", ![c].hash = hash]
    BY <1>1, <1>3 DEF Claim
  <2>2. call'[c].pc = "consult" /\ \A d \in Calls \ {c} : call'[d] = call[d]
    BY <2>1 DEF TypeInv, RecordOK
  <2> QED BY <1>3, <2>1, <2>2, NotRunning DEF Ran
<1> QED BY <1>2, <1>3

\* The others: the record they read is the one run's.
LEMMA ReplayKeepsKey ==
    ASSUME TypeInv, KeyFacts, NEW c \in Calls, Replay(c)
    PROVE  KeyFacts'
<1>1. call[c].pc = "consult" /\ records # {} /\ records' = records /\ writes' = writes
  BY DEF Replay, Consult, KeyFacts, RecordStays
<1>2. PICK r \in records :
        \/ Answer(c, "reused", Nothing) \/ Answer(c, "conflict", Nothing)
        \/ r.hash = call[c].hash /\ r.status = "COMPLETED" /\ Answer(c, "replayed", r.response)
  BY <1>1 DEF Replay, Consult
<1>3. \A d \in Calls \ {c} : call'[d] = call[d]
  BY <1>2 DEF Answer, TypeInv, RecordOK
<1>4. CASE Answer(c, "reused", Nothing) \/ Answer(c, "conflict", Nothing)
  <2>1. call'[c].pc \in {"reused", "conflict"}
    BY <1>4 DEF Answer, TypeInv, RecordOK
  <2> QED BY <1>1, <1>3, <2>1, NotRunning DEF Ran
<1>5. CASE r.hash = call[c].hash /\ r.status = "COMPLETED" /\ Answer(c, "replayed", r.response)
  <2>1. call'[c].pc = "replayed" /\ call'[c].body = r.response /\ call'[c].hash = call[c].hash
    BY <1>5 DEF Answer, TypeInv, RecordOK
  <2>2. PICK e \in Calls : RunOf(r, e)
    BY DEF KeyFacts, RecordsOfRuns
  <2>3. call[e].pc = "succeeded" /\ call[e].body = call'[c].body /\ call[e].hash = call'[c].hash
    BY <1>5, <2>1, <2>2 DEF RunOf
  <2> QED BY <1>1, <1>3, <2>1, <2>3, NotRunning DEF Ran
<1> QED BY <1>2, <1>4, <1>5

\* The one run on its way to an answer or a crash.
LEMMA RunMoves ==
    ASSUME TypeInv, KeyFacts, NEW c \in Calls, call[c].pc \in {"run", "claim", "assemble", "succeeded"},
           call'[c].pc \in {"claim", "assemble", "succeeded", "died"},
           call[c].pc = "succeeded" => call'[c] = call[c],
           call'[c].hash = call[c].hash,
           \A d \in Calls \ {c} : call'[d] = call[d],
           records' = records,
           \A w \in writes' : \/ w \in writes /\ w.by # c
                              \/ w \in writes /\ call'[c] = call[c]
                              \/ /\ w.by = c /\ w.kind = "store" /\ w.body = call'[c].body
                                 /\ call'[c].pc = "succeeded"
    PROVE  KeyFacts'
<1>1. \A d \in Calls : Ran(d)' <=> Ran(d)
  BY DEF Ran
<1>2. OneRan' /\ RecordStays'
  BY <1>1 DEF KeyFacts, OneRan, RecordStays
<1>3. RecordsOfRuns'
  <2> SUFFICES ASSUME NEW r \in records PROVE \E d \in Calls : RunOf(r, d)'
    BY DEF RecordsOfRuns
  <2>1. PICK d \in Calls : RunOf(r, d)
    BY DEF KeyFacts, RecordsOfRuns
  <2>2. r.status = "COMPLETED" => call'[d] = call[d]
    BY <2>1 DEF RunOf
  <2>3. call'[d].hash = call[d].hash
    OBVIOUS
  <2> QED BY <1>1, <2>1, <2>2, <2>3 DEF RunOf
<1>4. \A d \in Calls : call[d].pc = "succeeded" => call'[d] = call[d]
  OBVIOUS
<1>5. WritesOfRuns'
  BY <1>4 DEF KeyFacts, WritesOfRuns, TypeInv, RecordOK
<1>6. ReplaysOfRuns'
  BY <1>4 DEF KeyFacts, ReplaysOfRuns
<1> QED BY <1>2, <1>3, <1>5, <1>6 DEF KeyFacts

\* The handler's steps, the one that fails aside.
LEMMA HandlerKeepsKey ==
    ASSUME TypeInv, KeyFacts, NEW c \in Calls, ListParts(c) \/ ClaimSession(c) \/ Assemble(c),
           NoneFailed'
    PROVE  KeyFacts'
<1>1. call[c].pc \in {"run", "claim", "assemble"} /\ records' = records
  BY DEF ListParts, ClaimSession, Assemble, Succeed, Fail
<1>2. ~Fail(c)
  BY DEF Fail, Answer, NoneFailed, TypeInv, RecordOK
<1>3. \/ \E pc \in {"claim", "assemble"} : Start(c, pc) /\ writes' = writes
      \/ Succeed(c, c)
  BY <1>2 DEF ListParts, ClaimSession, Assemble
<1>4. ASSUME NEW pc \in {"claim", "assemble"}, Start(c, pc), writes' = writes
      PROVE  KeyFacts'
  <2>1. call'[c].pc = pc /\ call'[c].hash = call[c].hash /\ \A d \in Calls \ {c} : call'[d] = call[d]
    BY <1>4 DEF Start, TypeInv, RecordOK
  <2>2. \A w \in writes : w.by # c
    BY <1>1 DEF KeyFacts, WritesOfRuns
  <2> QED BY <1>1, <1>4, <2>1, <2>2, RunMoves
<1>5. CASE Succeed(c, c)
  <2>1. /\ call'[c].pc = "succeeded" /\ call'[c].body = c /\ call'[c].hash = call[c].hash
        /\ \A d \in Calls \ {c} : call'[d] = call[d]
    BY <1>5 DEF Succeed, Answer, TypeInv, RecordOK
  <2>2. \A w \in writes : w.by # c
    BY <1>1 DEF KeyFacts, WritesOfRuns
  <2>3. writes' = writes \cup {[by |-> c, kind |-> "store", body |-> c]}
    BY <1>5 DEF Succeed
  <2> QED BY <1>1, <2>1, <2>2, <2>3, RunMoves
<1> QED BY <1>3, <1>4, <1>5

\* A run that dies, before its answer or after it.
LEMMA CrashKeepsKey ==
    ASSUME TypeInv, KeyFacts, NEW c \in Calls, Crash(c)
    PROVE  KeyFacts'
<1>1. writes' = {w \in writes : w.by # c} /\ records' = records
  BY DEF Crash, Die
<1>2. CASE Running(c)
  <2>1. call[c].pc \in {"run", "claim", "assemble"}
    BY <1>2 DEF Running, TypeInv, RecordOK, Outcomes
  <2>2. /\ call'[c].pc = "died" /\ call'[c].hash = call[c].hash
        /\ \A d \in Calls \ {c} : call'[d] = call[d]
    BY <1>2 DEF Crash, Die, Answer, TypeInv, RecordOK
  <2> QED BY <1>1, <2>1, <2>2, RunMoves
<1>3. CASE ~Running(c)
  <2>1. call' = call /\ \E w \in writes : w.by = c
    BY <1>3 DEF Crash, Die
  <2>2. call[c].pc = "succeeded"
    BY <2>1 DEF KeyFacts, WritesOfRuns
  <2> QED BY <1>1, <2>1, <2>2, RunMoves
<1> QED BY <1>2, <1>3

\* The record takes the answer of its one run.
LEMMA RecordWrittenKeepsKey ==
    ASSUME TypeInv, KeyFacts, NEW w \in writes, RecordWritten(w)
    PROVE  KeyFacts'
<1>1. /\ w.kind = "store" /\ call[w.by].pc = "succeeded" /\ w.body = call[w.by].body
      /\ w.by \in Calls /\ Ran(w.by)
  BY DEF KeyFacts, WritesOfRuns, TypeInv, RecordOK, Ran
<1>2. /\ call' = call /\ writes' \subseteq writes
      /\ records' = {[r EXCEPT !.status = "COMPLETED", !.response = w.body] : r \in records}
  BY <1>1 DEF RecordWritten, Lands
<1>3. RecordsOfRuns'
  <2> SUFFICES ASSUME NEW r \in records
               PROVE  RunOf([r EXCEPT !.status = "COMPLETED", !.response = w.body], w.by)'
    BY <1>1, <1>2 DEF RecordsOfRuns
  <2>1. PICK c \in Calls : RunOf(r, c)
    BY DEF KeyFacts, RecordsOfRuns
  <2>2. c = w.by
    BY <1>1, <2>1 DEF KeyFacts, OneRan, RunOf
  <2>3. r \in [status : {"IN_FLIGHT", "COMPLETED"}, hash : Hashes, response : Calls \cup {Nothing}]
    BY DEF TypeInv, RecordOK
  <2>4. LET q == [r EXCEPT !.status = "COMPLETED", !.response = w.body]
        IN  q.hash = r.hash /\ q.response = w.body
    BY <2>3
  <2> QED BY <1>1, <1>2, <2>1, <2>2, <2>4 DEF RunOf, Ran
<1>4. records # {} => records' # {}
  BY <1>2
<1> QED BY <1>2, <1>3, <1>4 DEF KeyFacts, OneRan, RecordStays, WritesOfRuns, ReplaysOfRuns, Ran

\* Over a step, while nobody has failed.
LEMMA KeyStep == TypeInv /\ KeyOK /\ [Next]_vars => KeyOK'
<1> SUFFICES ASSUME TypeInv, KeyOK, [Next]_vars, NoneFailed' PROVE KeyFacts'
  BY DEF KeyOK
<1>1. KeyFacts
  BY NoneFailedBefore DEF KeyOK
<1>2. CASE Browser /\ UNCHANGED <<idempotency, seen, object, crashes>>
  BY <1>1, <1>2, KeyStays
<1>3. ASSUME NEW c \in Calls, Post(c) \/ Replay(c) PROVE KeyFacts'
  BY <1>1, <1>3, PostKeepsKey, ReplayKeepsKey
<1>4. ASSUME NEW c \in Calls, ListParts(c) \/ ClaimSession(c) \/ Assemble(c) PROVE KeyFacts'
  BY <1>1, <1>4, HandlerKeepsKey
<1>5. ASSUME NEW c \in Calls, Crash(c) PROVE KeyFacts'
  BY <1>1, <1>5, CrashKeepsKey
<1>6. ASSUME NEW w \in writes, RecordWritten(w) PROVE KeyFacts'
  BY <1>1, <1>6, RecordWrittenKeepsKey
<1>7. CASE UNCHANGED vars
  BY <1>1, <1>7, KeyStays DEF vars
<1> QED BY <1>2, <1>3, <1>4, <1>5, <1>6, <1>7 DEF Next

-----------------------------------------------------------------------------
(* The theorems.                                                           *)

\* Every variable keeps its type, and a claimed completion has seen the plan:
\* the session, the provider's parts, the pools of part uploads, the late PUTs,
\* the key's record, its requests and their writes (upload-session.service.ts,
\* multipart-upload.ts, idempotency.interceptor.ts).
THEOREM UploadingTypes == Spec => []TypeInv
<1>1. Init => TypeInv
  BY UploadingTypesStart
<1>2. TypeInv /\ [Next]_vars => TypeInv'
  BY UploadingTypesStep
<1> QED BY <1>1, <1>2, PTL DEF Spec

\* What is assembled is the declared file, for every size the policy allows,
\* however many workers, pools, faults and files of other sizes there were.
THEOREM WhateverIsAssembledIsWhole == Spec => []AssembledIsWhole
<1>1. TypeInv => AssembledIsWhole
  BY PlanTiles DEF TypeInv, CompleteOK, AssembledIsWhole
<1> QED BY <1>1, UploadingTypes, PTL

\* Until one of them fails, requests with one key are one request.
THEOREM OneRunPerKey == Spec => []OneRunUntilAFailure
<1>1. Init => KeyOK
  BY KeyStarts DEF KeyOK
<1>2. KeyOK => OneRunUntilAFailure
  BY DEF KeyOK, KeyFacts, OneRan, ReplaysOfRuns, NoneFailed, OneRunUntilAFailure
<1>3. Spec => []KeyOK
  BY <1>1, KeyStep, UploadingTypes, PTL DEF Spec
<1> QED BY <1>2, <1>3, PTL
=============================================================================
