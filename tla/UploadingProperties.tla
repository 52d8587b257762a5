-------------------------- MODULE UploadingProperties --------------------------
(***************************************************************************)
(* What an upload from end to end guarantees.                              *)
(***************************************************************************)
EXTENDS Uploading

-----------------------------------------------------------------------------
\* What the provider assembles is the declared file: every byte from the first
\* to the last, once, in its place -- whatever was retried, sent twice, lost on
\* the way back, sent late by a pool that had been given up or aborted, or sent
\* by a page that had been reopened on a file of another size
\* (upload-completion.service.ts: assertComplete, against multipart-upload.ts).
AssembledIsWhole ==
    object # None =>
        /\ object[1].start = 0 /\ object[Len(object)].end = session.size
        /\ \A n \in 1..Len(object) - 1 : object[n].end = object[n + 1].start

\* Until one of them fails, all requests with one key are one request: its
\* handler runs once, also when a retry overtakes the answer or follows a crash,
\* and a retry that is answered from the record gets what that run answered, if
\* it asked for the same (idempotency.interceptor.ts: claim, runAndStore).
Ran(c) == call[c].pc \notin {"idle", "consult", "replayed", "conflict", "reused"}
OneRunUntilAFailure ==
    (\A c \in Calls : call[c].pc # "failed") =>
        \A c, d \in Calls :
            /\ Ran(c) /\ Ran(d) => c = d
            /\ call[c].pc = "replayed" =>
                \E e \in Calls : /\ call[e].pc = "succeeded" /\ call[e].body = call[c].body
                                 /\ call[e].hash = call[c].hash
=============================================================================
