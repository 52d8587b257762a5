-------------------------------- MODULE Upload --------------------------------
(***************************************************************************)
(* One multipart upload (apps/api/src/modules/media): the rows             *)
(* UploadSession and Asset, and at the storage provider the multipart      *)
(* upload and the object it becomes.  Browser, instructor and the reaper   *)
(* of every replica race for the session row; each runs as a process that  *)
(* decides on a row it read earlier and writes where the status still      *)
(* matches.  Sessions share nothing, so one is enough.                     *)
(*                                                                         *)
(* Time is a flag or a level: `expired' for expiresAt, `age' for how long  *)
(* updatedAt has stood still.                                              *)
(***************************************************************************)
EXTENDS Naturals, FiniteSets

CONSTANTS
    Requests,     \* requests served at the same time
    Reapers,      \* replicas whose reaper sweeps
    MaxOverruns,  \* times the age rises while the claimer is alive
    MaxSilent,    \* assemble calls that are given up without an answer
    MaxCrashes    \* processes that die, or whose read or write throws

Procs == Requests \cup Reapers

ASSUME UploadAssumption ==
    /\ Requests \cap Reapers = {}
    /\ MaxOverruns \in Nat /\ MaxSilent \in Nat /\ MaxCrashes \in Nat

VARIABLES
    status,      \* UploadSession.status, "NONE" where there is no row
    asset,       \* Asset.status
    raised,      \* media.asset.ready and media.asset.failed in the outbox
    expired,     \* expiresAt has passed
    age,         \* 1 past the client's grace, 2 past the reaper's
    parts,       \* external: how much of the file the provider holds
    multipart,   \* external: the multipart upload
    object,      \* external: whether the object exists
    orphans,     \* external: assemble calls nobody waits for any more
    job,         \* what each process is doing
    overruns, silent, crashes

rows == <<status, asset, raised, age>>
storage == <<parts, multipart, object, orphans>>
faults == <<overruns, silent, crashes>>
vars == <<status, asset, raised, expired, age, parts, multipart, object,
          orphans, job, overruns, silent, crashes>>

Ends == {"ABORTED", "EXPIRED"}

\* UPLOAD_SESSION_LIFECYCLE: the statuses each event may leave.
MayObserve == {"CREATED"}   \* from UPLOADING it changes nothing
MayComplete == {"CREATED", "UPLOADING"}
BugMayEnd == {"CREATED", "UPLOADING", "COMPLETING"}
MayEnd == {"CREATED", "UPLOADING"}
Terminal == {"COMPLETED"} \cup Ends

Statuses == {"NONE", "COMPLETING"} \cup MayComplete \cup Terminal

PCs == {"idle", "insert", "list", "claim", "assemble", "check", "release",
        "finish", "write", "end", "abortParts"}

\* seen: the status read; to: how an end ends it; mine: holds the claim.
Job == [pc : PCs, seen : Statuses, to : Ends, mine : BOOLEAN]
Idle == [pc |-> "idle", seen |-> "NONE", to |-> "ABORTED", mine |-> FALSE]

Init ==
    /\ status = "NONE"
    /\ asset = "none"
    /\ raised = [ready |-> 0, failed |-> 0]
    /\ expired = FALSE
    /\ age = 0
    /\ parts = "none"
    /\ multipart = "none"
    /\ object = FALSE
    /\ orphans = 0
    /\ job = [p \in Procs |-> Idle]
    /\ overruns = 0
    /\ silent = 0
    /\ crashes = 0

Start(p, fields) == job[p].pc = "idle" /\ job' = [job EXCEPT ![p] = fields]
Goto(p, pc) == job' = [job EXCEPT ![p].pc = pc]
Leave(p) == job' = [job EXCEPT ![p] = Idle]

\* MediaRepository.transition: UPDATE ... WHERE status = expectedFrom.  Every
\* update renews updatedAt.
BugAnyStatus(from) == status # "NONE"
Matches(from) == status = from

Transition(from, to) ==
    /\ Matches(from)
    /\ status' = to
    /\ age' = 0

-----------------------------------------------------------------------------
(* UploadSessionService, and what happens around it.                       *)

\* create: the provider's upload first, then both rows in one statement.
Create(p) ==
    /\ multipart = "none"
    /\ multipart' = "open"
    /\ Start(p, [Idle EXCEPT !.pc = "insert"])
    /\ UNCHANGED <<rows, expired, parts, object, orphans, faults>>

InsertRows(p) ==
    /\ job[p].pc = "insert"
    /\ status' = "CREATED"
    /\ asset' = "PENDING"
    /\ Leave(p)
    /\ UNCHANGED <<raised, age, expired, storage, faults>>

\* The browser PUTs parts straight to the provider, also ones it holds already.
PutPart ==
    /\ status # "NONE" /\ multipart = "open"
    /\ parts' = IF parts = "none" THEN "some" ELSE "all"
    /\ UNCHANGED <<rows, expired, multipart, object, orphans, job, faults>>

\* resume: the first part seen.  CREATED is never entered again, so the reads
\* and the conditional update are one step; the expiry may pass between them.
Observe ==
    /\ status \in MayObserve /\ parts # "none" /\ multipart = "open"
    /\ Transition("CREATED", "UPLOADING")
    /\ UNCHANGED <<asset, raised, expired, storage, job, faults>>

Expire ==
    /\ status # "NONE" /\ ~expired
    /\ expired' = TRUE
    /\ UNCHANGED <<rows, storage, job, faults>>

\* updatedAt grows old: harmless once the claimer is gone, an overrun if not.
GrowOld ==
    /\ status = "COMPLETING" /\ age < 2
    /\ age' = age + 1
    /\ \/ /\ \A p \in Procs : ~job[p].mine
          /\ UNCHANGED overruns
       \/ /\ \E p \in Procs : job[p].mine
          /\ overruns < MaxOverruns
          /\ overruns' = overruns + 1
    /\ UNCHANGED <<status, asset, raised, expired, storage, job, silent, crashes>>

-----------------------------------------------------------------------------
(* UploadCompletionService.complete.                                       *)

\* A session that may complete and has time left; any other is refused.
BeginComplete(p) ==
    /\ status \in MayComplete /\ ~expired
    /\ Start(p, [Idle EXCEPT !.pc = "list", !.seen = status])
    /\ UNCHANGED <<rows, expired, storage, faults>>

\* listParts and assertComplete.  A closed upload is NoSuchUpload.
ListParts(p) ==
    /\ job[p].pc = "list"
    /\ IF multipart = "open" /\ parts = "all" THEN Goto(p, "claim") ELSE Leave(p)
    /\ UNCHANGED <<rows, expired, storage, faults>>

\* The conditional move to COMPLETING is the mutex.
Claim(p) ==
    /\ job[p].pc = "claim"
    /\ \/ /\ Transition(job[p].seen, "COMPLETING")
          /\ job' = [job EXCEPT ![p].pc = "assemble", ![p].mine = TRUE]
       \/ /\ ~Matches(job[p].seen)
          /\ Leave(p)
          /\ UNCHANGED <<status, age>>
    /\ UNCHANGED <<asset, raised, expired, storage, faults>>

\* completeMultipartUpload: assembled, with or without the answer arriving;
\* refused; or given up unanswered, to land later or never.
Assemble(p) ==
    /\ job[p].pc = "assemble"
    /\ \/ /\ multipart = "open"
          /\ multipart' = "done" /\ object' = TRUE
          /\ Goto(p, "finish") \/ Goto(p, "check")
          /\ UNCHANGED <<orphans, silent>>
       \/ /\ Goto(p, "check")
          /\ UNCHANGED <<multipart, object, orphans, silent>>
       \/ /\ silent < MaxSilent
          /\ silent' = silent + 1
          /\ orphans' = orphans + 1
          /\ Goto(p, "check")
          /\ UNCHANGED <<multipart, object>>
    /\ UNCHANGED <<rows, expired, parts, overruns, crashes>>

OrphanLands ==
    /\ orphans > 0
    /\ orphans' = orphans - 1
    /\ IF multipart = "open"
       THEN multipart' = "done" /\ object' = TRUE
       ELSE UNCHANGED <<multipart, object>>
    /\ UNCHANGED <<rows, expired, parts, job, faults>>

\* recover, for a claim that has grown old: the retry of a client, or the
\* second half of the reaper's sweep.
BugNeverStalled(p) == p \in Requests /\ age >= 1
Stalled(p) == age >= (IF p \in Reapers THEN 2 ELSE 1)

BeginRecover(p) ==
    /\ status = "COMPLETING" /\ Stalled(p)
    /\ Start(p, [Idle EXCEPT !.pc = "check"])
    /\ UNCHANGED <<rows, expired, storage, faults>>

\* objectExists decides, for recover and for an assemble that threw.
Resolution == IF object THEN "finish" ELSE "release"

Check(p) ==
    /\ job[p].pc = "check"
    /\ Goto(p, Resolution)
    /\ UNCHANGED <<rows, expired, storage, faults>>

\* Back to UPLOADING, if it is still COMPLETING -- under whoever's claim.
Release(p) ==
    /\ job[p].pc = "release"
    /\ \/ Transition("COMPLETING", "UPLOADING")
       \/ ~Matches("COMPLETING") /\ UNCHANGED <<status, age>>
    /\ Leave(p)
    /\ UNCHANGED <<asset, raised, expired, storage, faults>>

\* finish, the read: whatever the session is by now, unless it is over.
Finishable == {"COMPLETING", "UPLOADING", "CREATED"}

ReadForFinish(p) ==
    /\ job[p].pc = "finish"
    /\ IF status \in Finishable
       THEN job' = [job EXCEPT ![p].pc = "write", ![p].seen = status]
       ELSE Leave(p)
    /\ UNCHANGED <<rows, expired, storage, faults>>

\* finish, the writes: they commit together, if the row has not moved since.
Finish(p) ==
    /\ job[p].pc = "write"
    /\ \/ /\ Transition(job[p].seen, "COMPLETED")
          /\ asset' = "READY"
          /\ raised' = [raised EXCEPT !.ready = @ + 1]
       \/ /\ ~Matches(job[p].seen)
          /\ UNCHANGED rows
    /\ Leave(p)
    /\ UNCHANGED <<expired, storage, faults>>

-----------------------------------------------------------------------------
(* UploadCompletionService.abort and end, UploadReaperService.             *)

Ending(p) == IF p \in Reapers THEN "EXPIRED" ELSE "ABORTED"

\* The instructor cancels, or the reaper finds the session past its expiry.
BeginEnd(p) ==
    /\ status \in MayEnd
    /\ p \in Reapers => expired
    /\ Start(p, [Idle EXCEPT !.pc = "end", !.seen = status, !.to = Ending(p)])
    /\ UNCHANGED <<rows, expired, storage, faults>>

\* Claim the row first, then abort the parts.
End(p) ==
    /\ job[p].pc = "end"
    /\ \/ /\ Transition(job[p].seen, job[p].to)
          /\ asset' = "FAILED"
          /\ raised' = [raised EXCEPT !.failed = @ + 1]
          /\ Goto(p, "abortParts")
       \/ /\ ~Matches(job[p].seen)
          /\ Leave(p)
          /\ UNCHANGED rows
    /\ UNCHANGED <<expired, storage, faults>>

\* The provider's refusal is logged and forgotten.
AbortParts(p) ==
    /\ job[p].pc = "abortParts"
    /\ multipart' \in {multipart, IF multipart = "open" THEN "aborted" ELSE multipart}
    /\ Leave(p)
    /\ UNCHANGED <<rows, expired, parts, object, orphans, faults>>

-----------------------------------------------------------------------------

\* A process dies; an assemble it had under way may still land.
Crash(p) ==
    /\ crashes < MaxCrashes
    /\ crashes' = crashes + 1
    /\ job[p].pc # "idle"
    /\ orphans' = IF job[p].pc = "assemble" THEN orphans + 1 ELSE orphans
    /\ Leave(p)
    /\ UNCHANGED <<rows, expired, parts, multipart, object, overruns, silent>>

Work(p) ==
    \/ InsertRows(p) \/ ListParts(p) \/ Claim(p) \/ Assemble(p) \/ Check(p)
    \/ Release(p) \/ ReadForFinish(p) \/ Finish(p) \/ End(p) \/ AbortParts(p)

Sweep(p) == BeginRecover(p) \/ BeginEnd(p)

Next ==
    \/ PutPart \/ Observe \/ Expire \/ GrowOld \/ OrphanLands
    \/ \E p \in Requests : Create(p) \/ BeginComplete(p)
    \/ \E p \in Procs : Sweep(p) \/ Work(p) \/ Crash(p)

Spec == Init /\ [][Next]_vars

\* Time passes, a request under way runs to its end, and so does every sweep
\* of the reaper's timer.
FairSpec ==
    /\ Spec
    /\ WF_vars(Expire) /\ WF_vars(GrowOld)
    /\ \A p \in Procs : WF_vars(Work(p))
    /\ \A p \in Reapers : WF_vars(Sweep(p))
=============================================================================
