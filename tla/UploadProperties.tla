--------------------------- MODULE UploadProperties ---------------------------
(* What media.md promises of an upload, whoever races for it.              *)
EXTENDS Upload

\* Rows, storage and processes hold values of their types.
UploadTypeOK ==
    /\ status \in Statuses
    /\ asset \in {"none", "PENDING", "READY", "FAILED"}
    /\ raised \in [ready : Nat, failed : Nat]
    /\ expired \in BOOLEAN
    /\ age \in 0..2
    /\ parts \in {"none", "some", "all"}
    /\ multipart \in {"none", "open", "done", "aborted"}
    /\ object \in BOOLEAN
    /\ orphans \in Nat
    /\ job \in [Procs -> Job]
    /\ overruns \in 0..MaxOverruns
    /\ silent \in 0..MaxSilent
    /\ crashes \in 0..MaxCrashes

\* An asset is READY only if its object exists, through every recovery, lost
\* answer and crash (finish is reached by objectExists or by the provider).
ReadyMeansObject == asset = "READY" => object

\* Session, asset and outbox tell one story: media.asset.ready was raised once
\* and the asset is READY if the session COMPLETED, media.asset.failed once and
\* the asset FAILED if it was ended, nothing before that, and never both --
\* however many completes, recoveries and ends overlap.
OutcomeToldOnce ==
    /\ raised.ready = (IF status = "COMPLETED" THEN 1 ELSE 0)
    /\ raised.failed = (IF status \in Ends THEN 1 ELSE 0)
    /\ asset = CASE status = "NONE" -> "none"
                 [] status = "COMPLETED" -> "READY"
                 [] status \in Ends -> "FAILED"
                 [] OTHER -> "PENDING"

\* While nobody dies or outlives the grace period, at most one process is
\* between its claim and its outcome, and the row says so: no other process
\* releases, ends or finishes its session.
OneAssembler ==
    crashes = 0 /\ overruns = 0 =>
        \A p, q \in Procs : job[p].mine =>
            /\ status = "COMPLETING"
            /\ job[q].mine => p = q

\* While nobody dies or outlives the grace period, and no unanswered assemble
\* lands late, an upload that was ended has left no object behind, although the
\* provider may assemble without its answer arriving.
NoObjectLost ==
    crashes = 0 /\ overruns = 0 /\ silent = 0 => (status \in Ends => ~object)

\* An upload that completed or was ended stays so: no late complete, recovery
\* or sweep moves it, and what was announced of its asset stays true.
EndedStays ==
    [][(status \in Terminal) => (status' = status /\ asset' = asset)]_<<status, asset>>

\* No upload stays open for ever: not even one whose process died while it
\* assembled, which only the reaper's second query finds.
UploadEnds == status # "NONE" ~> status \in Terminal
=============================================================================
