----------------------------- MODULE UploadProofs -----------------------------
(***************************************************************************)
(* Proofs about Upload, for any number of requests and reapers and any     *)
(* number of overruns, silent assembles and crashes.                       *)
(*                                                                         *)
(* Base says what the rows and a process under way always agree on.        *)
(* Quiet adds, while nobody died or outlived its grace, that a COMPLETING  *)
(* session is exactly one whose claimer is at work.                        *)
(***************************************************************************)
EXTENDS UploadProperties, TLAPS

\* Between a claim, or a recovery's decision, and its outcome.
Resolving == {"assemble", "check", "release", "finish", "write"}

RowsOK ==
    /\ OutcomeToldOnce
    /\ ReadyMeansObject
    /\ status # "NONE" => multipart # "none"

\* Only Create goes before the row, and no two Creates do.
InsertOK(p) ==
    /\ job[p].pc = "insert" => /\ status = "NONE" /\ multipart # "none"
                               /\ \A q \in Procs : job[q].pc = "insert" => p = q
    /\ job[p].pc \notin {"idle", "insert"} => status # "NONE"

\* What a process read lets it write what it is about to.
ReadOK(p) ==
    /\ job[p].pc \in {"list", "claim"} => job[p].seen \in MayComplete
    /\ job[p].pc = "end" => job[p].seen \in MayEnd
    /\ job[p].pc = "write" => job[p].seen \in Finishable
    /\ job[p].pc \in {"finish", "write"} => object
    /\ job[p].mine => job[p].pc \in Resolving

JobsOK == \A p \in Procs : InsertOK(p) /\ ReadOK(p)

Base == UploadTypeOK /\ RowsOK /\ JobsOK

-----------------------------------------------------------------------------
(* How a step changes the job of its process.                              *)

LEMMA IdleJob ==
    /\ Idle \in Job
    /\ Idle.pc = "idle" /\ Idle.seen = "NONE" /\ Idle.to = "ABORTED" /\ Idle.mine = FALSE
  BY DEF Idle, Job, PCs, Statuses, Ends

LEMMA GotoJob ==
    ASSUME UploadTypeOK, NEW p \in Procs, NEW pc \in PCs, Goto(p, pc)
    PROVE  /\ job' \in [Procs -> Job]
           /\ job'[p].pc = pc /\ job'[p].seen = job[p].seen /\ job'[p].mine = job[p].mine
           /\ \A q \in Procs \ {p} : job'[q] = job[q]
<1> DEFINE next == [job[p] EXCEPT !.pc = pc]
<1>1. job \in [Procs -> Job] /\ job[p] \in Job
  BY DEF UploadTypeOK
<1>2. next \in Job /\ next.pc = pc /\ next.seen = job[p].seen /\ next.mine = job[p].mine
  BY <1>1 DEF Job
<1>3. job' = [job EXCEPT ![p] = next]
  BY <1>1 DEF Goto
<1> HIDE DEF next
<1> QED BY <1>1, <1>2, <1>3

LEMMA LeaveJob ==
    ASSUME UploadTypeOK, NEW p \in Procs, Leave(p)
    PROVE  /\ job' \in [Procs -> Job]
           /\ job'[p].pc = "idle" /\ job'[p].mine = FALSE /\ ReadOK(p)'
           /\ \A q \in Procs \ {p} : job'[q] = job[q]
<1>1. job' = [job EXCEPT ![p] = Idle] /\ job \in [Procs -> Job]
  BY DEF Leave, UploadTypeOK
<1>2. job'[p].pc = "idle" /\ job'[p].mine = FALSE
  BY <1>1, IdleJob
<1> QED BY <1>1, <1>2, IdleJob DEF ReadOK

LEMMA StartJob ==
    ASSUME UploadTypeOK, NEW p \in Procs, NEW fields \in Job, Start(p, fields)
    PROVE  /\ job' \in [Procs -> Job] /\ job'[p] = fields /\ job[p].pc = "idle"
           /\ \A q \in Procs \ {p} : job'[q] = job[q]
  BY DEF Start, UploadTypeOK

-----------------------------------------------------------------------------

LEMMA InitBase == Init => Base
<1> SUFFICES ASSUME Init PROVE Base
  OBVIOUS
<1>1. UploadTypeOK
  <2>1. job \in [Procs -> Job]
    BY IdleJob DEF Init
  <2>2. status \in Statuses /\ raised \in [ready : Nat, failed : Nat]
    BY DEF Init, Statuses
  <2>3. overruns \in 0..MaxOverruns /\ silent \in 0..MaxSilent /\ crashes \in 0..MaxCrashes
    BY UploadAssumption DEF UploadAssumption, Init
  <2>4. expired \in BOOLEAN /\ object \in BOOLEAN
    BY DEF Init
  <2> QED BY <2>1, <2>2, <2>3, <2>4 DEF Init, UploadTypeOK
<1>2. RowsOK
  BY DEF Init, RowsOK, OutcomeToldOnce, ReadyMeansObject, Ends
<1>3. \A p \in Procs : job[p].pc = "idle" /\ ~job[p].mine
  BY IdleJob DEF Init
<1>4. JobsOK
  BY <1>3 DEF JobsOK, InsertOK, ReadOK
<1> QED BY <1>1, <1>2, <1>4 DEF Base

\* What a step of p leaves true of the others: storage and rows only move on.
MovesOn(p) ==
    /\ \A q \in Procs \ {p} : job'[q] = job[q]
    /\ job'[p].pc # "insert"
    /\ status # "NONE" => status' # "NONE"
    /\ status = "NONE" => status' = "NONE" \/ job[p].pc = "insert"
    /\ multipart # "none" => multipart' # "none"
    /\ object => object'

LEMMA OthersOK ==
    ASSUME Base, NEW p \in Procs, MovesOn(p)
    PROVE  \A q \in Procs \ {p} : InsertOK(q)' /\ ReadOK(q)'
<1> SUFFICES ASSUME NEW q \in Procs \ {p} PROVE InsertOK(q)' /\ ReadOK(q)'
  OBVIOUS
<1>1. job'[q] = job[q] /\ InsertOK(q) /\ ReadOK(q)
  BY DEF MovesOn, Base, JobsOK
<1>2. ReadOK(q)'
  BY <1>1 DEF ReadOK, MovesOn
<1>3. ASSUME job[q].pc = "insert" PROVE \A r \in Procs : job'[r].pc = "insert" => q = r
  BY <1>1, <1>3 DEF InsertOK, MovesOn
<1>4. InsertOK(q)'
  BY <1>1, <1>3 DEF InsertOK, MovesOn
<1> QED BY <1>2, <1>4

LEMMA MyJobOK ==
    ASSUME Base, NEW p \in Procs, MovesOn(p), ReadOK(p)',
           job'[p].pc = "idle" \/ status' # "NONE"
    PROVE  JobsOK'
<1>1. InsertOK(p)'
  BY DEF InsertOK, MovesOn
<1> QED BY <1>1, OthersOK DEF JobsOK

\* A step of p that leaves rows and storage alone.
LEMMA LookOn ==
    ASSUME Base, NEW p \in Procs, UNCHANGED <<rows, expired, storage, faults>>,
           status # "NONE", ReadOK(p)',
           job' \in [Procs -> Job], job'[p].pc # "insert",
           \A q \in Procs \ {p} : job'[q] = job[q]
    PROVE  Base'
<1>1. UploadTypeOK' /\ RowsOK'
  BY DEF Base, UploadTypeOK, RowsOK, OutcomeToldOnce, ReadyMeansObject, rows, storage, faults
<1>2. MovesOn(p) /\ status' # "NONE"
  BY DEF MovesOn, rows, storage
<1> QED BY <1>1, <1>2, MyJobOK DEF Base

LEMMA BaseStep == Base /\ [Next]_vars => Base'
<1> SUFFICES ASSUME Base, [Next]_vars PROVE Base'
  OBVIOUS
<1> USE UploadAssumption DEF UploadAssumption
<1>0. UploadTypeOK /\ RowsOK /\ JobsOK
  BY DEF Base
<1>1. CASE UNCHANGED vars
  BY <1>1 DEF vars, Base, UploadTypeOK, RowsOK, OutcomeToldOnce, ReadyMeansObject,
      JobsOK, InsertOK, ReadOK
<1>2. CASE PutPart
  <2>1. UploadTypeOK'
    BY <1>0, <1>2 DEF PutPart, UploadTypeOK, rows, faults
  <2>2. RowsOK' /\ JobsOK'
    BY <1>0, <1>2 DEF PutPart, RowsOK, OutcomeToldOnce, ReadyMeansObject, rows, JobsOK, InsertOK, ReadOK
  <2> QED BY <2>1, <2>2 DEF Base
<1>3. CASE Observe
  <2>1. status = "CREATED" /\ status' = "UPLOADING"
    BY <1>3 DEF Observe, Transition, Matches
  <2>2. UploadTypeOK'
    BY <1>0, <1>3 DEF Observe, Transition, UploadTypeOK, storage, faults, Statuses, MayComplete
  <2>3. RowsOK'
    BY <1>0, <1>3, <2>1 DEF Observe, RowsOK, OutcomeToldOnce, ReadyMeansObject, storage, Ends
  <2>4. JobsOK'
    BY <1>0, <1>3, <2>1 DEF Observe, storage, JobsOK, InsertOK, ReadOK
  <2> QED BY <2>2, <2>3, <2>4 DEF Base
<1>4. CASE Expire \/ GrowOld
  <2>0. age' \in 0..2 /\ overruns' \in 0..MaxOverruns
    BY <1>0, <1>4 DEF Expire, GrowOld, UploadTypeOK, rows, faults
  <2>1. expired' \in BOOLEAN
    BY <1>0, <1>4 DEF Expire, GrowOld, UploadTypeOK
  <2>2. UNCHANGED <<status, asset, raised, parts, multipart, object, orphans, job, silent, crashes>>
    BY <1>4 DEF Expire, GrowOld, rows, storage, faults
  <2>3. UploadTypeOK'
    BY <1>0, <2>0, <2>1, <2>2 DEF UploadTypeOK
  <2>4. RowsOK' /\ JobsOK'
    BY <1>0, <2>2 DEF RowsOK, OutcomeToldOnce, ReadyMeansObject, JobsOK, InsertOK, ReadOK
  <2> QED BY <2>3, <2>4 DEF Base
<1>5. CASE OrphanLands
  <2>1. multipart' \in {multipart, "done"} /\ object' \in BOOLEAN /\ (object => object')
    <3>1. CASE multipart = "open"
      BY <1>5, <3>1 DEF OrphanLands
    <3>2. CASE multipart # "open"
      BY <1>0, <1>5, <3>2 DEF OrphanLands, UploadTypeOK
    <3> QED BY <3>1, <3>2
  <2>2. orphans' \in Nat
    <3>1. orphans \in Nat /\ orphans > 0 /\ orphans' = orphans - 1
      BY <1>0, <1>5 DEF OrphanLands, UploadTypeOK
    <3> QED BY <3>1
  <2>3. UNCHANGED <<status, asset, raised, age, expired, parts, job, overruns, silent, crashes>>
    BY <1>5 DEF OrphanLands, rows, faults
  <2>4. UploadTypeOK'
    BY <1>0, <2>1, <2>2, <2>3 DEF UploadTypeOK
  <2>5. RowsOK' /\ JobsOK'
    BY <1>0, <2>1, <2>3 DEF UploadTypeOK, RowsOK, OutcomeToldOnce, ReadyMeansObject,
        JobsOK, InsertOK, ReadOK
  <2> QED BY <2>4, <2>5 DEF Base
<1>6. ASSUME NEW p \in Procs, Create(p) PROVE Base'
  <2> DEFINE fields == [Idle EXCEPT !.pc = "insert"]
  <2>1. fields \in Job /\ fields.pc = "insert" /\ fields.mine = FALSE /\ Start(p, fields)
    BY <1>6, IdleJob DEF Create, Job, PCs
  <2> HIDE DEF fields
  <2>2. /\ job' \in [Procs -> Job] /\ job'[p] = fields
        /\ \A q \in Procs \ {p} : job'[q] = job[q]
    BY <2>1, <1>0, StartJob
  <2>3. status = "NONE" /\ multipart = "none" /\ multipart' = "open"
    BY <1>0, <1>6 DEF Create, RowsOK
  <2>4. \A q \in Procs : job[q].pc = "idle"
    BY <1>0, <2>3 DEF JobsOK, InsertOK
  <2>5. UploadTypeOK'
    BY <1>0, <1>6, <2>2 DEF Create, UploadTypeOK, rows, faults
  <2>6. RowsOK'
    BY <1>0, <1>6 DEF Create, RowsOK, OutcomeToldOnce, ReadyMeansObject, rows
  <2>7. \A q \in Procs \ {p} : job'[q].pc = "idle" /\ ~job'[q].mine
    BY <2>2, <2>4, <1>0 DEF JobsOK, ReadOK, Resolving
  <2>8. JobsOK'
    BY <1>6, <2>1, <2>2, <2>3, <2>7 DEF Create, rows, JobsOK, InsertOK, ReadOK
  <2> QED BY <2>5, <2>6, <2>8 DEF Base
<1>7. ASSUME NEW p \in Procs, InsertRows(p) PROVE Base'
  <2>1. job'[p].pc = "idle" /\ ~job'[p].mine /\ job' \in [Procs -> Job]
    BY <1>0, <1>7, LeaveJob DEF InsertRows
  <2>2. status = "NONE" /\ status' = "CREATED" /\ asset' = "PENDING"
    BY <1>0, <1>7 DEF InsertRows, JobsOK, InsertOK
  <2>3. UNCHANGED <<raised, age, expired, parts, multipart, object, orphans, overruns, silent, crashes>>
    BY <1>7 DEF InsertRows, storage, faults
  <2>4. UploadTypeOK'
    BY <1>0, <2>1, <2>2, <2>3 DEF UploadTypeOK, Statuses, MayComplete
  <2>5. RowsOK'
    BY <1>0, <1>7, <2>2, <2>3 DEF InsertRows, RowsOK, OutcomeToldOnce, ReadyMeansObject,
        Ends, JobsOK, InsertOK
  <2>6. \A q \in Procs \ {p} : job'[q] = job[q] /\ job[q].pc = "idle"
    BY <1>0, <1>7, <2>2, LeaveJob DEF InsertRows, JobsOK, InsertOK
  <2>7. JobsOK'
    BY <1>0, <2>1, <2>6 DEF JobsOK, InsertOK, ReadOK, Resolving
  <2> QED BY <2>4, <2>5, <2>7 DEF Base
<1>8. ASSUME NEW p \in Procs, BeginComplete(p) PROVE Base'
  <2> DEFINE fields == [Idle EXCEPT !.pc = "list", !.seen = status]
  <2>1. /\ fields \in Job /\ fields.pc = "list" /\ fields.seen = status /\ fields.mine = FALSE
        /\ Start(p, fields)
    BY <1>0, <1>8, IdleJob DEF BeginComplete, Job, PCs, UploadTypeOK
  <2> HIDE DEF fields
  <2>2. /\ job' \in [Procs -> Job] /\ job'[p] = fields
        /\ \A q \in Procs \ {p} : job'[q] = job[q]
    BY <2>1, <1>0, StartJob
  <2>3. status \in MayComplete
    BY <1>8 DEF BeginComplete
  <2>4. UNCHANGED <<rows, expired, storage, faults>>
    BY <1>8 DEF BeginComplete
  <2>5. UploadTypeOK' /\ RowsOK'
    BY <1>0, <2>2, <2>4 DEF rows, storage, faults, UploadTypeOK, RowsOK, OutcomeToldOnce, ReadyMeansObject
  <2>6. ReadOK(p)' /\ MovesOn(p) /\ status' # "NONE"
    BY <2>1, <2>2, <2>3, <2>4 DEF ReadOK, MovesOn, rows, storage, MayComplete
  <2> QED BY <2>5, <2>6, MyJobOK DEF Base
<1>9. ASSUME NEW p \in Procs, BeginRecover(p) PROVE Base'
  <2> DEFINE fields == [Idle EXCEPT !.pc = "check"]
  <2>1. fields \in Job /\ fields.pc = "check" /\ fields.mine = FALSE /\ Start(p, fields)
    BY <1>9, IdleJob DEF BeginRecover, Job, PCs
  <2> HIDE DEF fields
  <2>2. /\ job' \in [Procs -> Job] /\ job'[p] = fields
        /\ \A q \in Procs \ {p} : job'[q] = job[q]
    BY <2>1, <1>0, StartJob
  <2>3. status = "COMPLETING" /\ UNCHANGED <<rows, expired, storage, faults>>
    BY <1>9 DEF BeginRecover
  <2>4. UploadTypeOK' /\ RowsOK'
    BY <1>0, <2>2, <2>3 DEF rows, storage, faults, UploadTypeOK, RowsOK, OutcomeToldOnce, ReadyMeansObject
  <2>5. ReadOK(p)' /\ MovesOn(p) /\ status' # "NONE"
    BY <2>1, <2>2, <2>3 DEF ReadOK, MovesOn, rows, storage
  <2> QED BY <2>4, <2>5, MyJobOK DEF Base
<1>10. ASSUME NEW p \in Procs, BeginEnd(p) PROVE Base'
  <2> DEFINE fields == [Idle EXCEPT !.pc = "end", !.seen = status, !.to = Ending(p)]
  <2>1. /\ fields \in Job /\ fields.pc = "end" /\ fields.seen = status /\ fields.mine = FALSE
        /\ Start(p, fields)
    BY <1>0, <1>10, IdleJob DEF BeginEnd, Job, PCs, UploadTypeOK, Ending, Ends
  <2> HIDE DEF fields
  <2>2. /\ job' \in [Procs -> Job] /\ job'[p] = fields
        /\ \A q \in Procs \ {p} : job'[q] = job[q]
    BY <2>1, <1>0, StartJob
  <2>3. status \in MayEnd /\ UNCHANGED <<rows, expired, storage, faults>>
    BY <1>10 DEF BeginEnd
  <2>4. UploadTypeOK' /\ RowsOK'
    BY <1>0, <2>2, <2>3 DEF rows, storage, faults, UploadTypeOK, RowsOK, OutcomeToldOnce, ReadyMeansObject
  <2>5. ReadOK(p)' /\ MovesOn(p) /\ status' # "NONE"
    BY <2>1, <2>2, <2>3 DEF ReadOK, MovesOn, rows, storage, MayEnd
  <2> QED BY <2>4, <2>5, MyJobOK DEF Base
<1>11. ASSUME NEW p \in Procs, Work(p) PROVE Base'
  <2>0. job[p] \in Job /\ InsertOK(p) /\ ReadOK(p)
    BY <1>0 DEF UploadTypeOK, JobsOK
  <2>1. CASE ListParts(p)
    <3>1. UNCHANGED <<rows, expired, storage, faults>> /\ job[p].pc = "list" /\ status # "NONE"
      BY <2>0, <2>1 DEF ListParts, InsertOK
    <3>2. CASE Goto(p, "claim")
      <4>1. /\ job' \in [Procs -> Job] /\ job'[p].pc = "claim" /\ job'[p].seen = job[p].seen
            /\ job'[p].mine = job[p].mine /\ \A q \in Procs \ {p} : job'[q] = job[q]
        BY <1>0, <3>2, GotoJob DEF PCs
      <4>2. ReadOK(p)'
        BY <2>0, <3>1, <4>1 DEF ReadOK, Resolving
      <4> QED BY <3>1, <4>1, <4>2, LookOn
    <3>3. CASE Leave(p)
      BY <1>0, <3>1, <3>3, LeaveJob, LookOn
    <3> QED BY <2>1, <3>2, <3>3 DEF ListParts
  <2>2. CASE Check(p)
    <3>1. UNCHANGED <<rows, expired, storage, faults>> /\ job[p].pc = "check" /\ status # "NONE"
      BY <2>0, <2>2 DEF Check, InsertOK
    <3>2. Goto(p, Resolution) /\ Resolution \in {"finish", "release"} \cap PCs
      BY <2>2 DEF Check, Resolution, PCs
    <3>3. /\ job' \in [Procs -> Job] /\ job'[p].pc = Resolution /\ job'[p].seen = job[p].seen
          /\ \A q \in Procs \ {p} : job'[q] = job[q]
      BY <1>0, <3>2, GotoJob
    <3>4. Resolution = "finish" => object
      BY DEF Resolution
    <3>5. ReadOK(p)'
      BY <3>1, <3>2, <3>3, <3>4 DEF ReadOK, Resolving, storage
    <3> QED BY <3>1, <3>2, <3>3, <3>5, LookOn
  <2>3. CASE ReadForFinish(p)
    <3>1. UNCHANGED <<rows, expired, storage, faults>> /\ job[p].pc = "finish" /\ status # "NONE" /\ object
      BY <2>0, <2>3 DEF ReadForFinish, InsertOK, ReadOK
    <3>2. CASE status \in Finishable
      <4> DEFINE next == [job[p] EXCEPT !.pc = "write", !.seen = status]
      <4>1. job' = [job EXCEPT ![p] = next]
        BY <1>0, <2>3, <3>2 DEF ReadForFinish, UploadTypeOK
      <4>2. next \in Job /\ next.pc = "write" /\ next.seen = status
        BY <1>0, <2>0 DEF Job, PCs, UploadTypeOK
      <4> HIDE DEF next
      <4>3. /\ job' \in [Procs -> Job] /\ job'[p] = next
            /\ \A q \in Procs \ {p} : job'[q] = job[q]
        BY <1>0, <4>1, <4>2 DEF UploadTypeOK
      <4>4. ReadOK(p)'
        BY <3>1, <3>2, <4>2, <4>3 DEF ReadOK, Resolving, storage
      <4> QED BY <3>1, <4>2, <4>3, <4>4, LookOn
    <3>3. CASE status \notin Finishable
      BY <1>0, <2>3, <3>1, <3>3, LeaveJob, LookOn DEF ReadForFinish
    <3> QED BY <3>2, <3>3
  <2>4. CASE Claim(p)
    <3>1. /\ UNCHANGED <<asset, raised, expired, storage, faults>>
          /\ job[p].pc = "claim" /\ status # "NONE" /\ job[p].seen \in MayComplete
      BY <2>0, <2>4 DEF Claim, InsertOK, ReadOK
    <3>2. CASE ~Matches(job[p].seen)
      <4>1. UNCHANGED <<rows, expired, storage, faults>> /\ Leave(p)
        BY <2>4, <3>1, <3>2 DEF Claim, Transition, rows
      <4> QED BY <1>0, <3>1, <4>1, LeaveJob, LookOn
    <3>3. CASE Matches(job[p].seen)
      <4> DEFINE next == [job[p] EXCEPT !.pc = "assemble", !.mine = TRUE]
      <4>1. job' = [job EXCEPT ![p] = next]
        BY <1>0, <2>4, <3>3 DEF Claim, UploadTypeOK
      <4>2. next \in Job /\ next.pc = "assemble"
        BY <2>0 DEF Job, PCs
      <4> HIDE DEF next
      <4>3. /\ job' \in [Procs -> Job] /\ job'[p] = next
            /\ \A q \in Procs \ {p} : job'[q] = job[q]
        BY <1>0, <4>1, <4>2 DEF UploadTypeOK
      <4>4. status \in MayComplete /\ status' = "COMPLETING" /\ age' = 0
        BY <2>4, <3>1, <3>3 DEF Claim, Transition, Matches
      <4>5. UploadTypeOK'
        BY <1>0, <3>1, <4>3, <4>4 DEF UploadTypeOK, Statuses, storage, faults
      <4>6. RowsOK'
        BY <1>0, <3>1, <4>4 DEF RowsOK, OutcomeToldOnce, ReadyMeansObject, MayComplete, Ends, storage
      <4>7. MovesOn(p) /\ ReadOK(p)'
        BY <3>1, <4>2, <4>3, <4>4 DEF MovesOn, ReadOK, Resolving, storage
      <4> QED BY <4>4, <4>5, <4>6, <4>7, MyJobOK DEF Base
    <3> QED BY <3>2, <3>3
  <2>5. CASE Assemble(p)
    <3>1. /\ UNCHANGED <<rows, expired, parts, overruns, crashes>>
          /\ job[p].pc = "assemble" /\ status # "NONE"
      BY <2>0, <2>5 DEF Assemble, InsertOK
    <3>2. PICK pc \in {"finish", "check"} : Goto(p, pc) /\ (pc = "finish" => object')
      BY <2>5 DEF Assemble
    <3>3. /\ job' \in [Procs -> Job] /\ job'[p].pc = pc /\ job'[p].seen = job[p].seen
          /\ \A q \in Procs \ {p} : job'[q] = job[q]
      BY <1>0, <3>2, GotoJob DEF PCs
    <3>4. /\ multipart' \in {multipart, "done"} /\ object' \in BOOLEAN /\ (object => object')
          /\ orphans' \in Nat /\ silent' \in 0..MaxSilent
      <4>1. multipart' \in {multipart, "done"}
        BY <2>5 DEF Assemble
      <4>2. object' \in BOOLEAN /\ (object => object')
        BY <1>0, <2>5 DEF Assemble, UploadTypeOK
      <4>3. orphans' \in Nat /\ silent' \in 0..MaxSilent
        BY <1>0, <2>5 DEF Assemble, UploadTypeOK
      <4> QED BY <4>1, <4>2, <4>3
    <3>5. UploadTypeOK'
      BY <1>0, <3>1, <3>3, <3>4 DEF UploadTypeOK, rows
    <3>6. RowsOK'
      BY <1>0, <3>1, <3>4 DEF RowsOK, OutcomeToldOnce, ReadyMeansObject, rows
    <3>7. MovesOn(p)
      BY <3>1, <3>2, <3>3, <3>4 DEF MovesOn, rows
    <3>8. ReadOK(p)'
      BY <3>2, <3>3 DEF ReadOK, Resolving
    <3> QED BY <3>1, <3>5, <3>6, <3>7, <3>8, MyJobOK DEF Base, rows
  <2>6. CASE Release(p)
    <3>1. /\ UNCHANGED <<asset, raised, expired, storage, faults>> /\ Leave(p)
          /\ job[p].pc = "release" /\ status # "NONE"
      BY <2>0, <2>6 DEF Release, InsertOK
    <3>2. /\ status' = status \/ (status = "COMPLETING" /\ status' = "UPLOADING")
          /\ age' \in {age, 0}
      BY <2>6 DEF Release, Transition, Matches
    <3>3. UploadTypeOK'
      <4>1. status' \in Statuses /\ age' \in 0..2
        BY <1>0, <3>2 DEF UploadTypeOK, Statuses, MayComplete
      <4>2. job' \in [Procs -> Job]
        BY <1>0, <3>1, LeaveJob
      <4> QED BY <1>0, <3>1, <4>1, <4>2 DEF UploadTypeOK, storage, faults
    <3>4. RowsOK'
      BY <1>0, <3>1, <3>2 DEF RowsOK, OutcomeToldOnce, ReadyMeansObject, Ends, storage
    <3>5. MovesOn(p) /\ ReadOK(p)'
      BY <1>0, <3>1, <3>2, LeaveJob DEF MovesOn, storage
    <3> QED BY <3>1, <3>2, <3>3, <3>4, <3>5, MyJobOK DEF Base
  <2>7. CASE Finish(p)
    <3>1. /\ UNCHANGED <<expired, storage, faults>> /\ Leave(p)
          /\ job[p].pc = "write" /\ status # "NONE" /\ object /\ job[p].seen \in Finishable
      BY <2>0, <2>7 DEF Finish, InsertOK, ReadOK
    <3>2. CASE ~Matches(job[p].seen)
      <4>1. UNCHANGED rows
        BY <2>7, <3>2 DEF Finish, Transition
      <4> QED BY <1>0, <3>1, <4>1, LeaveJob, LookOn
    <3>3. CASE Matches(job[p].seen)
      <4>1. /\ status \in Finishable /\ status' = "COMPLETED" /\ age' = 0 /\ asset' = "READY"
            /\ raised' = [raised EXCEPT !.ready = @ + 1]
        BY <2>7, <3>1, <3>3 DEF Finish, Transition, Matches
      <4>2. /\ raised' \in [ready : Nat, failed : Nat]
            /\ raised'.ready = raised.ready + 1 /\ raised'.failed = raised.failed
        BY <1>0, <4>1 DEF UploadTypeOK
      <4>3. UploadTypeOK'
        <5>1. job' \in [Procs -> Job]
          BY <1>0, <3>1, LeaveJob
        <5> QED BY <1>0, <3>1, <4>1, <4>2, <5>1 DEF UploadTypeOK, Statuses, Terminal, storage, faults
      <4>4. raised'.ready = 1 /\ raised'.failed = 0
        BY <1>0, <4>1, <4>2 DEF RowsOK, OutcomeToldOnce, Finishable, Ends
      <4>5. RowsOK'
        BY <1>0, <3>1, <4>1, <4>4 DEF RowsOK, OutcomeToldOnce, ReadyMeansObject, Ends, storage
      <4>6. MovesOn(p) /\ ReadOK(p)'
        BY <1>0, <3>1, <4>1, LeaveJob DEF MovesOn, storage
      <4> QED BY <4>1, <4>3, <4>5, <4>6, MyJobOK DEF Base
    <3> QED BY <3>2, <3>3
  <2>8. CASE End(p)
    <3>1. /\ UNCHANGED <<expired, storage, faults>>
          /\ job[p].pc = "end" /\ status # "NONE" /\ job[p].seen \in MayEnd
      BY <2>0, <2>8 DEF End, InsertOK, ReadOK
    <3>2. CASE ~Matches(job[p].seen)
      <4>1. UNCHANGED rows /\ Leave(p)
        BY <2>8, <3>2 DEF End, Transition
      <4> QED BY <1>0, <3>1, <4>1, LeaveJob, LookOn
    <3>3. CASE Matches(job[p].seen)
      <4>1. /\ status \in MayEnd /\ status' = job[p].to /\ age' = 0 /\ asset' = "FAILED"
            /\ raised' = [raised EXCEPT !.failed = @ + 1] /\ Goto(p, "abortParts")
        BY <2>8, <3>1, <3>3 DEF End, Transition, Matches
      <4>2. status' \in Ends
        BY <2>0, <4>1 DEF Job
      <4>3. /\ raised' \in [ready : Nat, failed : Nat]
            /\ raised'.ready = raised.ready /\ raised'.failed = raised.failed + 1
        BY <1>0, <4>1 DEF UploadTypeOK
      <4>4. /\ job' \in [Procs -> Job] /\ job'[p].pc = "abortParts" /\ job'[p].mine = job[p].mine
            /\ \A q \in Procs \ {p} : job'[q] = job[q]
        BY <1>0, <4>1, GotoJob DEF PCs
      <4>5. UploadTypeOK'
        BY <1>0, <3>1, <4>1, <4>2, <4>3, <4>4 DEF UploadTypeOK, Statuses, Terminal, storage, faults
      <4>6. raised'.ready = 0 /\ raised'.failed = 1
        BY <1>0, <4>1, <4>3 DEF RowsOK, OutcomeToldOnce, MayEnd, Ends
      <4>7. RowsOK'
        BY <1>0, <3>1, <4>1, <4>2, <4>6 DEF RowsOK, OutcomeToldOnce, ReadyMeansObject, Ends, storage
      <4>8. MovesOn(p) /\ ReadOK(p)' /\ status' # "NONE"
        BY <2>0, <3>1, <4>2, <4>4 DEF MovesOn, ReadOK, Resolving, Ends, storage
      <4> QED BY <4>5, <4>7, <4>8, MyJobOK DEF Base
    <3> QED BY <3>2, <3>3
  <2>9. CASE AbortParts(p)
    <3>1. /\ UNCHANGED <<rows, expired, parts, object, orphans, faults>> /\ Leave(p)
          /\ job[p].pc = "abortParts" /\ status # "NONE"
          /\ multipart' \in {multipart, "aborted"}
      BY <2>0, <2>9 DEF AbortParts, InsertOK
    <3>2. UploadTypeOK'
      BY <1>0, <3>1, LeaveJob DEF UploadTypeOK, rows, faults
    <3>3. RowsOK'
      BY <1>0, <3>1 DEF RowsOK, OutcomeToldOnce, ReadyMeansObject, rows
    <3>4. MovesOn(p) /\ ReadOK(p)' /\ status' # "NONE"
      BY <1>0, <3>1, LeaveJob DEF MovesOn, rows
    <3> QED BY <3>2, <3>3, <3>4, MyJobOK DEF Base
  <2> QED BY <1>7, <1>11, <2>1, <2>2, <2>3, <2>4, <2>5, <2>6, <2>7, <2>8, <2>9 DEF Work
<1>12. ASSUME NEW p \in Procs, Crash(p) PROVE Base'
  <2>1. UNCHANGED <<rows, expired, parts, multipart, object, overruns, silent>> /\ Leave(p)
    BY <1>12 DEF Crash
  <2>2. orphans' \in Nat /\ crashes' \in 0..MaxCrashes
    BY <1>0, <1>12 DEF Crash, UploadTypeOK
  <2>3. UploadTypeOK'
    BY <1>0, <2>1, <2>2, LeaveJob DEF UploadTypeOK, rows
  <2>4. RowsOK'
    BY <1>0, <2>1 DEF RowsOK, OutcomeToldOnce, ReadyMeansObject, rows
  <2>5. MovesOn(p) /\ ReadOK(p)' /\ job'[p].pc = "idle"
    BY <1>0, <2>1, LeaveJob DEF MovesOn, rows
  <2> QED BY <2>3, <2>4, <2>5, MyJobOK DEF Base
<1> QED BY <1>1, <1>2, <1>3, <1>4, <1>5, <1>6, <1>8, <1>9, <1>10, <1>11, <1>12
    DEF Next, Sweep, Procs

\* Rows and the processes under way agree, whatever fails (every action of Upload).
THEOREM UploadBase == Spec => []Base
<1>1. Init => Base
  BY InitBase
<1>2. Base /\ [Next]_vars => Base'
  BY BaseStep
<1> QED BY <1>1, <1>2, PTL DEF Spec

-----------------------------------------------------------------------------
(* While nobody dies or outlives its grace.                                *)

\* One claimer at a time, and no recovery: a claim never grows old.
Claims ==
    /\ age = 0
    /\ status = "COMPLETING" => \E p \in Procs : job[p].mine
    /\ \A p \in Procs : job[p].pc \in Resolving => job[p].mine
    /\ \A p \in Procs : job[p].mine =>
           status = "COMPLETING" /\ \A q \in Procs : job[q].mine => p = q
    /\ \A p \in Procs : job[p].pc = "write" => job[p].seen = "COMPLETING"

Quiet == crashes = 0 /\ overruns = 0 => Claims

\* If no call lands late either, a claim is released only over no object.
Objects ==
    /\ orphans = 0
    /\ object => status \in {"COMPLETING", "COMPLETED"}
    /\ \A p \in Procs : job[p].pc = "release" => ~object

Landed == crashes = 0 /\ overruns = 0 /\ silent = 0 => Objects

\* A step that leaves the row as it is, and p's claim with p.
LEMMA SteadyClaims ==
    ASSUME Base, Claims, NEW p \in Procs, UNCHANGED <<status, age>>,
           job'[p].mine = job[p].mine,
           job'[p].pc \in Resolving => job[p].mine,
           job'[p].pc = "write" => job'[p].seen = "COMPLETING",
           \A q \in Procs \ {p} : job'[q] = job[q]
    PROVE  Claims'
<1>1. \A q \in Procs : /\ job'[q].mine = job[q].mine
                       /\ job'[q].pc \in Resolving => job[q].mine
                       /\ job'[q].pc = "write" => job'[q].seen = "COMPLETING"
  BY DEF Claims
<1> QED BY <1>1 DEF Claims

\* A step of p that lets go of the session, or takes it when nobody has it.
LEMMA FreeClaims ==
    ASSUME Base, Claims, NEW p \in Procs, status' # "COMPLETING", age' = 0,
           job'[p].mine = FALSE, job'[p].pc \notin Resolving,
           \A q \in Procs \ {p} : job'[q] = job[q] /\ ~job[q].mine
    PROVE  Claims'
<1>1. \A q \in Procs : ~job'[q].mine /\ job'[q].pc \notin Resolving
  BY DEF Claims
<1> QED BY <1>1 DEF Claims, Resolving

LEMMA ClaimsStep ==
    ASSUME Base, Claims, [Next]_vars, crashes = 0, overruns = 0, crashes' = 0, overruns' = 0
    PROVE  Claims'
<1>0. /\ UploadTypeOK
      /\ \A p \in Procs : job[p] \in Job /\ InsertOK(p) /\ ReadOK(p)
  BY DEF Base, JobsOK, UploadTypeOK
<1>1. CASE UNCHANGED vars
  BY <1>1 DEF vars, Claims
<1>2. CASE PutPart \/ Expire \/ OrphanLands
  <2>1. UNCHANGED <<status, age, job>>
    BY <1>2 DEF PutPart, Expire, OrphanLands, rows
  <2> QED BY <2>1 DEF Claims
<1>3. CASE Observe
  <2>1. status # "COMPLETING" /\ status' # "COMPLETING" /\ age' = 0 /\ UNCHANGED job
    BY <1>3 DEF Observe, Transition, Matches
  <2> QED BY <2>1 DEF Claims
<1>4. CASE GrowOld
  <2>1. \E p \in Procs : job[p].mine
    BY <1>4 DEF GrowOld, Claims
  <2> QED BY <1>4, <2>1 DEF GrowOld
<1>5. ASSUME NEW p \in Procs, Create(p) \/ BeginComplete(p) \/ BeginEnd(p)
      PROVE  Claims'
  <2>1. UNCHANGED <<status, age>> /\ job[p].pc = "idle"
    BY <1>5 DEF Create, BeginComplete, BeginEnd, Start, rows
  <2>2. /\ job'[p].mine = FALSE /\ job'[p].pc \in {"insert", "list", "end"}
        /\ \A q \in Procs \ {p} : job'[q] = job[q]
    <3>1. CASE Create(p)
      BY <1>0, <3>1 DEF Create, Start, Idle, UploadTypeOK
    <3>2. CASE BeginComplete(p)
      BY <1>0, <3>2 DEF BeginComplete, Start, Idle, UploadTypeOK
    <3>3. CASE BeginEnd(p)
      BY <1>0, <3>3 DEF BeginEnd, Start, Idle, UploadTypeOK
    <3> QED BY <1>5, <3>1, <3>2, <3>3
  <2>3. job[p].mine = FALSE
    BY <1>0, <2>1 DEF ReadOK, Resolving, Job
  <2> QED BY <2>1, <2>2, <2>3, SteadyClaims DEF Resolving
<1>6. ASSUME NEW p \in Procs, BeginRecover(p) PROVE Claims'
  BY <1>6 DEF BeginRecover, Stalled, Claims
<1>7. ASSUME NEW p \in Procs, Leave(p), UNCHANGED <<status, age>>, ~job[p].mine
      PROVE  Claims'
  BY <1>0, <1>7, LeaveJob, SteadyClaims DEF Resolving, Job
<1>8. ASSUME NEW p \in Procs, InsertRows(p) PROVE Claims'
  <2>1. status = "NONE" /\ status' = "CREATED" /\ age' = 0
    BY <1>0, <1>8 DEF InsertRows, InsertOK, Claims
  <2>2. \A q \in Procs : ~job[q].mine
    BY <2>1 DEF Claims
  <2> QED BY <1>0, <1>8, <2>1, <2>2, LeaveJob, FreeClaims DEF InsertRows, Resolving
<1>9. ASSUME NEW p \in Procs, ListParts(p) PROVE Claims'
  <2>1. job[p].pc = "list" /\ ~job[p].mine /\ UNCHANGED <<status, age>>
    BY <1>0, <1>9 DEF ListParts, ReadOK, Resolving, rows
  <2>2. CASE Goto(p, "claim")
    BY <1>0, <2>1, <2>2, GotoJob, SteadyClaims DEF PCs, Resolving
  <2> QED BY <1>7, <1>9, <2>1, <2>2 DEF ListParts
<1>10. ASSUME NEW p \in Procs, Claim(p) PROVE Claims'
  <2>1. job[p].pc = "claim" /\ ~job[p].mine /\ job[p].seen \in MayComplete
    BY <1>0, <1>10 DEF Claim, ReadOK, Resolving
  <2>2. CASE Leave(p) /\ UNCHANGED <<status, age>>
    BY <1>7, <2>1, <2>2
  <2>3. CASE Transition(job[p].seen, "COMPLETING")
             /\ job' = [job EXCEPT ![p].pc = "assemble", ![p].mine = TRUE]
    <3>1. status # "COMPLETING" /\ status' = "COMPLETING" /\ age' = 0
      BY <2>1, <2>3 DEF Transition, Matches, MayComplete
    <3>2. \A q \in Procs : ~job[q].mine /\ job[q].pc \notin Resolving
      BY <3>1 DEF Claims
    <3>3. job'[p].mine /\ job'[p].pc = "assemble" /\ \A q \in Procs \ {p} : job'[q] = job[q]
      BY <1>0, <2>3 DEF UploadTypeOK, Job
    <3> QED BY <3>1, <3>2, <3>3 DEF Claims, Resolving
  <2> QED BY <1>10, <2>2, <2>3 DEF Claim
<1>11. ASSUME NEW p \in Procs, Assemble(p) \/ Check(p) PROVE Claims'
  <2>1. UNCHANGED <<status, age>> /\ job[p].pc \in Resolving
    BY <1>11 DEF Assemble, Check, rows, Resolving
  <2>2. PICK pc \in {"finish", "check", "release"} : Goto(p, pc)
    BY <1>11 DEF Assemble, Check, Resolution
  <2> QED BY <1>0, <2>1, <2>2, GotoJob, SteadyClaims DEF Claims, PCs
<1>12. ASSUME NEW p \in Procs, ReadForFinish(p) PROVE Claims'
  <2>1. job[p].mine /\ status = "COMPLETING" /\ UNCHANGED <<status, age>>
    BY <1>12 DEF ReadForFinish, Claims, Resolving, rows
  <2>2. job' = [job EXCEPT ![p].pc = "write", ![p].seen = status]
    BY <1>12, <2>1 DEF ReadForFinish, Finishable
  <2>3. /\ job'[p].pc = "write" /\ job'[p].seen = "COMPLETING" /\ job'[p].mine = job[p].mine
        /\ \A q \in Procs \ {p} : job'[q] = job[q]
    BY <1>0, <2>1, <2>2 DEF UploadTypeOK, Job
  <2> QED BY <2>1, <2>3, SteadyClaims
<1>13. ASSUME NEW p \in Procs, Release(p) \/ Finish(p) PROVE Claims'
  <2>1. job[p].mine /\ status = "COMPLETING" /\ Leave(p)
    BY <1>13 DEF Release, Finish, Claims, Resolving
  <2>2. status' # "COMPLETING" /\ age' = 0
    BY <1>13, <2>1 DEF Release, Finish, Claims, Transition, Matches
  <2>3. \A q \in Procs \ {p} : ~job[q].mine
    BY <2>1 DEF Claims
  <2> QED BY <1>0, <2>1, <2>2, <2>3, LeaveJob, FreeClaims DEF Resolving
<1>14. ASSUME NEW p \in Procs, End(p) PROVE Claims'
  <2>1. job[p].pc = "end" /\ ~job[p].mine /\ job[p].seen \in MayEnd /\ job[p].to \in Ends
    BY <1>0, <1>14 DEF End, ReadOK, Resolving, Job
  <2>2. CASE Leave(p) /\ UNCHANGED rows
    BY <1>7, <2>1, <2>2 DEF rows
  <2>3. CASE Transition(job[p].seen, job[p].to) /\ Goto(p, "abortParts")
    <3>1. status # "COMPLETING" /\ status' # "COMPLETING" /\ age' = 0
      BY <2>1, <2>3 DEF Transition, Matches, MayEnd, Ends
    <3>2. \A q \in Procs : ~job[q].mine
      BY <3>1 DEF Claims
    <3>3. /\ job'[p].pc = "abortParts" /\ job'[p].mine = job[p].mine
          /\ \A q \in Procs \ {p} : job'[q] = job[q]
      BY <1>0, <2>3, GotoJob DEF PCs
    <3>4. job[p].mine = FALSE
      BY <1>0, <2>1 DEF Job
    <3> QED BY <3>1, <3>2, <3>3, <3>4, FreeClaims DEF Resolving
  <2> QED BY <1>14, <2>2, <2>3 DEF End
<1>15. ASSUME NEW p \in Procs, AbortParts(p) PROVE Claims'
  <2>1. Leave(p) /\ UNCHANGED <<status, age>> /\ ~job[p].mine
    BY <1>0, <1>15 DEF AbortParts, ReadOK, Resolving, rows
  <2> QED BY <1>7, <2>1
<1>16. ASSUME NEW p \in Procs, Crash(p) PROVE Claims'
  BY <1>16 DEF Crash
<1> QED
  BY <1>1, <1>2, <1>3, <1>4, <1>5, <1>6, <1>8, <1>9, <1>10, <1>11, <1>12, <1>13, <1>14,
     <1>15, <1>16 DEF Next, Sweep, Work, Procs

\* A step of p that moves neither the object nor the row.
LEMMA SteadyObjects ==
    ASSUME Objects, NEW p \in Procs, UNCHANGED <<status, object, orphans>>,
           job'[p].pc = "release" => ~object,
           \A q \in Procs \ {p} : job'[q] = job[q]
    PROVE  Objects'
  BY DEF Objects

LEMMA ObjectsStep ==
    ASSUME Base, Claims, Objects, [Next]_vars,
           crashes = 0, crashes' = 0, silent = 0, silent' = 0
    PROVE  Objects'
<1>0. /\ UploadTypeOK
      /\ \A p \in Procs : job[p] \in Job /\ InsertOK(p) /\ ReadOK(p)
  BY DEF Base, JobsOK, UploadTypeOK
<1>1. CASE UNCHANGED vars
  BY <1>1 DEF vars, Objects
<1>2. CASE PutPart \/ Expire \/ GrowOld
  <2>1. UNCHANGED <<status, object, orphans, job>>
    BY <1>2 DEF PutPart, Expire, GrowOld, rows, storage
  <2> QED BY <2>1 DEF Objects
<1>3. CASE OrphanLands
  BY <1>3 DEF OrphanLands, Objects
<1>4. CASE Observe
  <2>1. status = "CREATED" /\ UNCHANGED <<object, orphans, job>>
    BY <1>4 DEF Observe, Transition, Matches, storage
  <2>2. ~object
    BY <2>1 DEF Objects
  <2> QED BY <2>1, <2>2 DEF Objects
<1>5. ASSUME NEW p \in Procs, Create(p) \/ BeginComplete(p) \/ BeginRecover(p) \/ BeginEnd(p)
      PROVE  Objects'
  <2>1. UNCHANGED <<status, object, orphans>>
    BY <1>5 DEF Create, BeginComplete, BeginRecover, BeginEnd, rows, storage
  <2>2. /\ job'[p].pc \in {"insert", "list", "check", "end"}
        /\ \A q \in Procs \ {p} : job'[q] = job[q]
    BY <1>0, <1>5 DEF Create, BeginComplete, BeginRecover, BeginEnd, Start, Idle, UploadTypeOK
  <2> QED BY <2>1, <2>2, SteadyObjects
<1>6. ASSUME NEW p \in Procs, Leave(p), UNCHANGED <<object, orphans>>,
             status' = status \/ ~object \/ status' = "COMPLETED"
      PROVE  Objects'
  <2>1. \A q \in Procs : job'[q].pc = "release" => job[q].pc = "release"
    BY <1>0, <1>6, LeaveJob
  <2> QED BY <1>6, <2>1 DEF Objects
<1>7. ASSUME NEW p \in Procs, InsertRows(p) PROVE Objects'
  <2>1. status = "NONE" /\ Leave(p) /\ UNCHANGED <<object, orphans>>
    BY <1>0, <1>7 DEF InsertRows, InsertOK, storage
  <2> QED BY <1>6, <2>1 DEF Objects
<1>8. ASSUME NEW p \in Procs, ListParts(p) PROVE Objects'
  <2>1. UNCHANGED <<status, object, orphans>>
    BY <1>8 DEF ListParts, rows, storage
  <2>2. CASE Goto(p, "claim")
    BY <1>0, <2>1, <2>2, GotoJob, SteadyObjects DEF PCs
  <2> QED BY <1>6, <1>8, <2>1, <2>2 DEF ListParts
<1>9. ASSUME NEW p \in Procs, Claim(p) PROVE Objects'
  <2>1. job[p].seen \in MayComplete /\ UNCHANGED <<object, orphans>>
    BY <1>0, <1>9 DEF Claim, ReadOK, storage
  <2>2. CASE Leave(p) /\ UNCHANGED status
    BY <1>6, <2>1, <2>2
  <2>3. CASE Transition(job[p].seen, "COMPLETING")
             /\ job' = [job EXCEPT ![p].pc = "assemble", ![p].mine = TRUE]
    <3>1. status \in MayComplete /\ status' = "COMPLETING"
      BY <2>1, <2>3 DEF Transition, Matches
    <3>2. ~object
      BY <3>1 DEF Objects, MayComplete
    <3>3. \A q \in Procs : job'[q].pc = "release" => job[q].pc = "release"
      BY <1>0, <2>3 DEF UploadTypeOK, Job
    <3> QED BY <2>1, <3>1, <3>2, <3>3 DEF Objects
  <2> QED BY <1>9, <2>2, <2>3 DEF Claim
<1>10. ASSUME NEW p \in Procs, Assemble(p) PROVE Objects'
  <2>1. job[p].pc = "assemble" /\ UNCHANGED status /\ orphans' = orphans
    BY <1>10 DEF Assemble, rows
  <2>2. job[p].mine /\ status = "COMPLETING"
    BY <2>1 DEF Claims, Resolving
  <2>3. PICK pc \in {"finish", "check"} : Goto(p, pc)
    BY <1>10 DEF Assemble
  <2>4. job'[p].pc # "release" /\ \A q \in Procs \ {p} : job'[q] = job[q]
    BY <1>0, <2>3, GotoJob DEF PCs
  <2>5. \A q \in Procs \ {p} : job[q].pc # "release"
    BY <2>2 DEF Claims, Resolving
  <2> QED BY <2>1, <2>2, <2>4, <2>5 DEF Objects
<1>11. ASSUME NEW p \in Procs, Check(p) PROVE Objects'
  <2>1. UNCHANGED <<status, object, orphans>> /\ Goto(p, Resolution)
    BY <1>11 DEF Check, rows, storage
  <2>2. Resolution \in PCs /\ (Resolution = "release" => ~object)
    BY DEF Resolution, PCs
  <2> QED BY <1>0, <2>1, <2>2, GotoJob, SteadyObjects
<1>12. ASSUME NEW p \in Procs, ReadForFinish(p) PROVE Objects'
  <2>1. UNCHANGED <<status, object, orphans>>
    BY <1>12 DEF ReadForFinish, rows, storage
  <2>2. CASE job' = [job EXCEPT ![p].pc = "write", ![p].seen = status]
    <3>1. job'[p].pc = "write" /\ \A q \in Procs \ {p} : job'[q] = job[q]
      BY <1>0, <2>2 DEF UploadTypeOK, Job
    <3> QED BY <2>1, <3>1, SteadyObjects
  <2> QED BY <1>6, <1>12, <2>1, <2>2 DEF ReadForFinish
<1>13. ASSUME NEW p \in Procs, Release(p) \/ Finish(p) \/ AbortParts(p) PROVE Objects'
  <2>1. Leave(p) /\ UNCHANGED <<object, orphans>>
    BY <1>13 DEF Release, Finish, AbortParts, storage
  <2>2. Release(p) => ~object
    BY DEF Release, Objects
  <2>3. status' = status \/ ~object \/ status' = "COMPLETED"
    BY <1>13, <2>2 DEF Finish, AbortParts, Transition, rows
  <2> QED BY <1>6, <2>1, <2>3
<1>14. ASSUME NEW p \in Procs, End(p) PROVE Objects'
  <2>1. job[p].seen \in MayEnd /\ UNCHANGED <<object, orphans>>
    BY <1>0, <1>14 DEF End, ReadOK, storage
  <2>2. CASE Leave(p) /\ UNCHANGED rows
    BY <1>6, <2>1, <2>2 DEF rows
  <2>3. CASE Transition(job[p].seen, job[p].to) /\ Goto(p, "abortParts")
    <3>1. ~object
      BY <2>1, <2>3 DEF Transition, Matches, MayEnd, Objects
    <3>2. \A q \in Procs : job'[q].pc = "release" => job[q].pc = "release"
      BY <1>0, <2>3, GotoJob DEF PCs
    <3> QED BY <2>1, <3>1, <3>2 DEF Objects
  <2> QED BY <1>14, <2>2, <2>3 DEF End
<1>15. ASSUME NEW p \in Procs, Crash(p) PROVE Objects'
  BY <1>15 DEF Crash
<1> QED
  BY <1>1, <1>2, <1>3, <1>4, <1>5, <1>7, <1>8, <1>9, <1>10, <1>11, <1>12, <1>13, <1>14,
     <1>15 DEF Next, Sweep, Work, Procs

LEMMA FaultsAreCounted ==
    ASSUME Base, [Next]_vars
    PROVE  /\ crashes' = 0 => crashes = 0
           /\ overruns' = 0 => overruns = 0
           /\ silent' = 0 => silent = 0
<1>0. crashes \in Nat /\ overruns \in Nat /\ silent \in Nat
  BY UploadAssumption DEF UploadAssumption, Base, UploadTypeOK
<1>1. CASE UNCHANGED faults
  BY <1>1 DEF faults
<1>2. CASE UNCHANGED vars
  BY <1>2 DEF vars
<1>3. CASE PutPart \/ Observe \/ Expire \/ OrphanLands
  BY <1>1, <1>3 DEF PutPart, Observe, Expire, OrphanLands
<1>4. CASE GrowOld
  BY <1>0, <1>4 DEF GrowOld
<1>5. ASSUME NEW p \in Procs, Create(p) \/ BeginComplete(p) \/ Sweep(p)
      PROVE  UNCHANGED faults
  BY <1>5 DEF Create, BeginComplete, Sweep, BeginRecover, BeginEnd
<1>6. ASSUME NEW p \in Procs, Work(p) PROVE UNCHANGED faults \/ Assemble(p)
  BY <1>6 DEF Work, InsertRows, ListParts, Claim, Check, Release, ReadForFinish, Finish,
      End, AbortParts
<1>7. ASSUME NEW p \in Procs, Assemble(p)
      PROVE  UNCHANGED <<crashes, overruns>> /\ silent' \in {silent, silent + 1}
  BY <1>7 DEF Assemble
<1>8. ASSUME NEW p \in Procs, Crash(p)
      PROVE  crashes' = crashes + 1 /\ UNCHANGED <<overruns, silent>>
  BY <1>8 DEF Crash
<1> QED
  <2>1. CASE \E p \in Procs : Create(p) \/ BeginComplete(p) \/ Sweep(p)
    BY <1>1, <1>5, <2>1
  <2>2. CASE \E p \in Procs : Work(p)
    BY <1>0, <1>1, <1>6, <1>7, <2>2
  <2>3. CASE \E p \in Procs : Crash(p)
    BY <1>0, <1>8, <2>3
  <2> QED BY <1>2, <1>3, <1>4, <2>1, <2>2, <2>3 DEF Next, Procs

LEMMA QuietInit == Init => Quiet /\ Landed
  BY IdleJob DEF Init, Quiet, Claims, Landed, Objects, Resolving

LEMMA QuietStep == Base /\ Quiet /\ [Next]_vars => Quiet'
<1> SUFFICES ASSUME Base, Quiet, [Next]_vars, crashes' = 0, overruns' = 0 PROVE Claims'
  BY DEF Quiet
<1> QED BY FaultsAreCounted, ClaimsStep DEF Quiet

LEMMA LandedStep == Base /\ Quiet /\ Landed /\ [Next]_vars => Landed'
<1> SUFFICES ASSUME Base, Quiet, Landed, [Next]_vars,
                    crashes' = 0, overruns' = 0, silent' = 0
             PROVE  Objects'
  BY DEF Landed
<1> QED BY FaultsAreCounted, ObjectsStep DEF Quiet, Landed

\* Without faults a claim is held by the one process at work on it, and is only
\* given back over no object (complete, recover and end).
THEOREM UploadQuiet == Spec => [](Quiet /\ Landed)
<1>1. Init => Quiet /\ Landed
  BY QuietInit
<1>2. Base /\ Quiet /\ Landed /\ [Next]_vars => (Quiet /\ Landed)'
  BY QuietStep, LandedStep
<1> QED BY <1>1, <1>2, UploadBase, PTL DEF Spec

-----------------------------------------------------------------------------
(* What the properties say.                                                *)

\* Rows, storage and processes stay within their types (every action of
\* Upload), for any number of processes and faults.
THEOREM UploadTypes == Spec => []UploadTypeOK
<1>1. Base => UploadTypeOK
  BY DEF Base
<1> QED BY <1>1, UploadBase, PTL

\* No asset is READY without its object (finish, behind objectExists).
THEOREM ReadyHasItsObject == Spec => []ReadyMeansObject
<1>1. Base => ReadyMeansObject
  BY DEF Base, RowsOK
<1> QED BY <1>1, UploadBase, PTL

\* Session, asset and outbox agree, and the outcome is announced once (finish
\* and end, however many overlap, crash or outlive their grace).
THEOREM OutcomeIsToldOnce == Spec => []OutcomeToldOnce
<1>1. Base => OutcomeToldOnce
  BY DEF Base, RowsOK
<1> QED BY <1>1, UploadBase, PTL

\* While nobody dies or outlives its grace, one process at most holds the
\* session, and the row says so (the conditional move to COMPLETING).
THEOREM OneAssemblerAtATime == Spec => []OneAssembler
<1>1. Quiet => OneAssembler
  BY DEF Quiet, Claims, OneAssembler
<1> QED BY <1>1, UploadQuiet, PTL

\* While nobody dies or outlives its grace and no assemble lands late, an
\* upload that was ended left no object (objectExists before a release).
THEOREM NoObjectIsLost == Spec => []NoObjectLost
<1>1. Landed => NoObjectLost
  BY DEF Landed, Objects, NoObjectLost, Ends
<1> QED BY <1>1, UploadQuiet, PTL

\* What ended stays ended: no step moves a terminal session or its asset
\* (transition, from a status that may be left).
THEOREM EndedIsForGood == Spec => EndedStays
<1>1. ASSUME Base, [Next]_vars, status \in Terminal
      PROVE  UNCHANGED <<status, asset>>
  <2>0. \A p \in Procs : InsertOK(p) /\ ReadOK(p)
    BY <1>1 DEF Base, JobsOK
  <2>1. \A from : Matches(from) => from \in Terminal
    BY <1>1 DEF Matches
  <2>2. CASE UNCHANGED vars
    BY <2>2 DEF vars
  <2>3. CASE PutPart \/ Observe \/ Expire \/ GrowOld \/ OrphanLands
    BY <1>1, <2>3 DEF PutPart, Observe, Expire, GrowOld, OrphanLands, rows, MayObserve, Terminal, Ends
  <2>4. ASSUME NEW p \in Procs, Create(p) \/ BeginComplete(p) \/ Sweep(p) \/ Crash(p)
        PROVE  UNCHANGED <<status, asset>>
    BY <2>4 DEF Create, BeginComplete, Sweep, BeginRecover, BeginEnd, Crash, rows
  <2>5. ASSUME NEW p \in Procs, InsertRows(p) PROVE FALSE
    BY <1>1, <2>0, <2>5 DEF InsertRows, InsertOK, Terminal, Ends
  <2>6. ASSUME NEW p \in Procs, ListParts(p) \/ Assemble(p) \/ Check(p) \/ ReadForFinish(p) \/ AbortParts(p)
        PROVE  UNCHANGED <<status, asset>>
    BY <2>6 DEF ListParts, Assemble, Check, ReadForFinish, AbortParts, rows
  <2>7. ASSUME NEW p \in Procs, Claim(p) PROVE UNCHANGED <<status, asset>>
    BY <2>0, <2>1, <2>7 DEF Claim, Transition, ReadOK, MayComplete, Terminal, Ends
  <2>8. ASSUME NEW p \in Procs, Release(p) PROVE UNCHANGED <<status, asset>>
    BY <2>1, <2>8 DEF Release, Transition, Terminal, Ends
  <2>9. ASSUME NEW p \in Procs, Finish(p) PROVE UNCHANGED <<status, asset>>
    BY <2>0, <2>1, <2>9 DEF Finish, Transition, ReadOK, Finishable, Terminal, Ends, rows
  <2>10. ASSUME NEW p \in Procs, End(p) PROVE UNCHANGED <<status, asset>>
    BY <2>0, <2>1, <2>10 DEF End, Transition, ReadOK, MayEnd, Terminal, Ends, rows
  <2> QED BY <1>1, <2>2, <2>3, <2>4, <2>5, <2>6, <2>7, <2>8, <2>9, <2>10 DEF Next, Work, Procs
<1>2. Base /\ [Next]_vars => [(status \in Terminal) => (status' = status /\ asset' = asset)]_<<status, asset>>
  BY <1>1
<1> QED BY <1>2, UploadBase, PTL DEF Spec, EndedStays
=============================================================================
