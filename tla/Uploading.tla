------------------------------- MODULE Uploading -------------------------------
(***************************************************************************)
(* An upload from end to end: the browser of Multipart, then the requests  *)
(* POST /media/uploads/:id/complete, which pass the interceptor of         *)
(* Idempotency before UploadCompletionService lists the parts, claims the  *)
(* session and has them assembled.  How complete races with a cancel, a    *)
(* recovery and the reaper is the subject of Upload.                       *)
(***************************************************************************)
EXTENDS Multipart, Idempotency

CONSTANT MaxCrashes
VARIABLES seen,        \* the status and the parts each call read
          object,      \* external: the stretches of the assembled object
          crashes
vars == <<multipart, idempotency, seen, object, crashes>>

ASSUME UploadingAssumption == MaxCrashes \in Nat

Forgets(c) == seen' = [seen EXCEPT ![c] = None]

\* The wizard sends it once its pool has settled; a retry carries the same key.
Post(c) ==
    /\ \E r \in Runs : Settled(r) /\ \A q \in Runs : pool[q].pc # "sending"
    /\ \E hash \in Hashes : Claim(c, hash)
    /\ UNCHANGED <<multipart, seen, object, crashes>>

Replay(c) == Consult(c) /\ UNCHANGED <<multipart, seen, object, crashes>>

\* complete, up to the claim: the status, the parts, assertComplete.
ListParts(c) ==
    /\ call[c].pc = "run"
    /\ IF session.status \in {"CREATED", "UPLOADING"} /\ Whole(stored)
       THEN /\ seen' = [seen EXCEPT ![c] = [status |-> session.status, parts |-> stored]]
            /\ Start(c, "claim") /\ UNCHANGED <<records, writes>>
       ELSE Fail(c) /\ UNCHANGED seen
    /\ UNCHANGED <<multipart, object, crashes>>

\* The transition, conditional on the status that was read, is the mutex.
ClaimSession(c) ==
    /\ call[c].pc = "claim"
    /\ IF session.status = seen[c].status
       THEN session' = [session EXCEPT !.status = "COMPLETING"] /\ Start(c, "assemble")
            /\ UNCHANGED <<records, writes, seen>>
       ELSE Fail(c) /\ Forgets(c) /\ UNCHANGED session
    /\ UNCHANGED <<stored, pool, late, faults, object, crashes>>

\* completeMultipartUpload with the ETags that were listed, and finish: the
\* provider refuses a part that is not the one listed any more.
Assemble(c) ==
    /\ call[c].pc = "assemble"
    /\ IF seen[c].parts = stored
       THEN /\ object' = stored /\ session' = [session EXCEPT !.status = "COMPLETED"]
            /\ Succeed(c, c)
       ELSE /\ session' = [session EXCEPT !.status = "UPLOADING"]
            /\ Fail(c) /\ UNCHANGED object
    /\ Forgets(c) /\ UNCHANGED <<stored, pool, late, faults, crashes>>

RecordWritten(w) == Lands(w) /\ UNCHANGED <<multipart, seen, object, crashes>>

Crash(c) ==
    /\ crashes < MaxCrashes /\ crashes' = crashes + 1
    /\ Die(c) /\ Forgets(c) /\ UNCHANGED <<multipart, object>>

Init == MultipartInit /\ IdempotencyInit /\ seen = [c \in Calls |-> None] /\ object = None /\ crashes = 0

Next ==
    \/ Browser /\ UNCHANGED <<idempotency, seen, object, crashes>>
    \/ \E c \in Calls : \/ Post(c) \/ Replay(c) \/ ListParts(c) \/ ClaimSession(c)
                        \/ Assemble(c) \/ Crash(c)
    \/ \E w \in writes : RecordWritten(w)

Spec == Init /\ [][Next]_vars
=============================================================================
