------------------------------- MODULE Multipart -------------------------------
(***************************************************************************)
(* How a file gets from a browser to the storage provider: the plan the    *)
(* server makes (upload-plan), the windows of part URLs it hands out       *)
(* (UploadSessionService.view), and the worker pool that PUTs them         *)
(* (uploadParts), with retries, answers that are lost, bytes that arrive   *)
(* late and a user who cancels.                                            *)
(*                                                                         *)
(* A stretch of the file is its first and last byte; a part's ETag is the  *)
(* stretch it holds, since it is a digest of its bytes.                    *)
(***************************************************************************)
EXTENDS Naturals, Sequences, FiniteSets, SequencesExt, FiniteSetsExt

CONSTANTS Sizes,                         \* sizes a file may be declared with
          MinPart, DefaultPart, MaxParts,  \* MIN_PART_SIZE, DEFAULT_PART_SIZE, MAX_PART_COUNT
          MaxBytes,                      \* the kind's cap
          Batch,                         \* PART_URL_BATCH
          Workers,                       \* DEFAULT_CONCURRENCY of them
          MaxRetries,                    \* DEFAULT_MAX_RETRIES
          Runs,                          \* calls of uploadParts, 1..n
          MaxFaults,                     \* bound on PUTs that go wrong
          None

VARIABLES session,                       \* UploadSession: status, size
          stored,                        \* external: the stretch each part holds
          pool,                          \* each run of uploadParts
          late,                          \* PUTs nobody waits for that may still arrive
          faults
multipart == <<session, stored, pool, late, faults>>

-----------------------------------------------------------------------------
(* The plan.                                                               *)

PartsFor(size, partSize) == (size + partSize - 1) \div partSize

\* Part sizes are doublings of the default one; LARGEST_PART_SIZE is the last.
Doublings == {1, 2, 4, 8, 16, 32, 64, 128, 256, 512}
MaxUploadable == DefaultPart * 512 * MaxParts
PartSize(size) ==
    DefaultPart * Min({k \in Doublings : PartsFor(size, DefaultPart * k) <= MaxParts})
PartCount(size) == PartsFor(size, PartSize(size))
PartRange(size, n) ==
    [start |-> (n - 1) * PartSize(size), end |-> Min({n * PartSize(size), size})]

Have == {n \in DOMAIN stored : stored[n] # None}

\* view: URLs for the first Batch parts the provider does not hold.
Window(held) ==
    LET missing == SetToSortSeq(1..PartCount(session.size) \ held, <)
    IN  SubSeq(missing, 1, Min({Batch, Len(missing)}))

\* What the process asserts of its tables when it starts: no kind's cap is above
\* what a plan can carry.
ASSUME MultipartAssumption ==
    /\ Sizes \subseteq Nat \ {0} /\ 1 \in Runs
    /\ MinPart \in Nat /\ DefaultPart \in Nat \ {0} /\ MinPart <= DefaultPart
    /\ MaxParts \in Nat \ {0} /\ MaxBytes \in Nat /\ MaxBytes <= MaxUploadable
    /\ Workers # {} /\ MaxRetries \in Nat \ {0} /\ MaxFaults \in Nat

-----------------------------------------------------------------------------
(* UploadSessionService.                                                   *)

Idle == [pc |-> "idle", index |-> 0, attempt |-> 0]
NoRun == [pc |-> "idle", parts |-> <<>>, cursor |-> 0, file |-> 0, worker |-> [w \in Workers |-> Idle]]
FirstWindow(size) == SubSeq([n \in 1..PartCount(size) |-> n], 1, Min({Batch, PartCount(size)}))

\* uploadParts starts its pool on a window.
Opened(parts, file) == [NoRun EXCEPT !.pc = IF parts = <<>> THEN "resolved" ELSE "sending",
                                     !.parts = parts, !.file = file]

\* create: refused beyond the cap, planned, and answered with a first window.
Create(size) ==
    /\ session.status = "NONE" /\ size <= MaxBytes
    /\ session' = [status |-> "CREATED", size |-> size]
    /\ stored' = [n \in 1..PartCount(size) |-> None]
    /\ pool' = [pool EXCEPT ![1] = Opened(FirstWindow(size), size)]
    /\ UNCHANGED <<late, faults>>

Settled(r) == pool[r].pc \in {"resolved", "rejected", "aborted"}

\* resume, asked when a run has settled or the page was reopened; the file
\* picked then need not have the size it was declared with.
Resume(r, file) ==
    /\ session.status \in {"CREATED", "UPLOADING"}
    /\ r > 1 /\ Settled(r - 1) /\ pool[r].pc = "idle"
    /\ session' = IF Have # {} /\ session.status = "CREATED"
                  THEN [session EXCEPT !.status = "UPLOADING"] ELSE session
    /\ pool' = [pool EXCEPT ![r] = Opened(Window(Have), file)]
    /\ UNCHANGED <<stored, late, faults>>

-----------------------------------------------------------------------------
(* uploadParts. A rejected run answers its caller while its other workers  *)
(* go on; an aborted one stops them at their next look.                    *)

\* file.slice(offset, min(offset + partSize, file.size)).
Slice(file, n) == [start |-> Min({(n - 1) * PartSize(session.size), file}),
                   end |-> Min({n * PartSize(session.size), file})]

PartOf(r, w) == pool[r].parts[pool[r].worker[w].index]
Put(r, w) == [part |-> PartOf(r, w), body |-> Slice(pool[r].file, PartOf(r, w))]
Send(put) == IF session.status = "COMPLETED" THEN stored ELSE [stored EXCEPT ![put.part] = put.body]

Take(r, w) ==
    /\ pool[r].pc \in {"sending", "rejected"}
    /\ pool[r].worker[w].pc = "idle" /\ pool[r].cursor < Len(pool[r].parts)
    /\ pool' = [pool EXCEPT ![r].cursor = @ + 1,
                            ![r].worker[w] = [pc |-> "put", index |-> pool[r].cursor + 1, attempt |-> 1]]
    /\ UNCHANGED <<session, stored, late, faults>>

\* Promise.all resolves when every worker has run out of parts.
Rested(run) == IF run.pc = "sending" /\ run.cursor = Len(run.parts)
                  /\ \A w \in Workers : run.worker[w].pc = "idle"
               THEN [run EXCEPT !.pc = "resolved"] ELSE run

\* The part arrived and its ETag came back.
Accepted(r, w) ==
    /\ pool[r].worker[w].pc = "put" /\ session.status # "COMPLETED"
    /\ stored' = Send(Put(r, w))
    /\ pool' = [pool EXCEPT ![r] = Rested([@ EXCEPT !.worker[w] = Idle])]
    /\ UNCHANGED <<session, late, faults>>

\* No answer, an error, or no ETag: tried again, until the last attempt rejects
\* the run. The part arrived, did not, or arrives later.
Again(r, w) ==
    IF pool[r].worker[w].attempt < MaxRetries
    THEN [pool EXCEPT ![r].worker[w].attempt = @ + 1]
    ELSE [pool EXCEPT ![r].worker[w].pc = "gone", ![r].pc = "rejected"]
Refused(r, w) ==
    /\ pool[r].worker[w].pc = "put"
    /\ faults < MaxFaults \/ session.status = "COMPLETED"
    /\ faults' = IF faults < MaxFaults THEN faults + 1 ELSE faults
    /\ pool' = Again(r, w)
    /\ \/ stored' = Send(Put(r, w)) /\ UNCHANGED late
       \/ late' = late \cup {Put(r, w)} /\ UNCHANGED stored
       \/ UNCHANGED <<stored, late>>
    /\ UNCHANGED session

Arrives(put) ==
    /\ put \in late /\ late' = late \ {put}
    /\ stored' = Send(put)
    /\ UNCHANGED <<session, pool, faults>>

\* signal.abort(): what is in flight may arrive all the same.
Abort(r) ==
    /\ pool[r].pc \in {"sending", "rejected"} /\ faults < MaxFaults
    /\ faults' = faults + 1
    /\ \E arriving \in SUBSET {w \in Workers : pool[r].worker[w].pc = "put"} :
        late' = late \cup {Put(r, w) : w \in arriving}
    /\ pool' = [pool EXCEPT ![r] = [NoRun EXCEPT !.pc = "aborted"]]
    /\ UNCHANGED <<session, stored>>

-----------------------------------------------------------------------------
(* assertComplete: every part there, none below the floor, each the size   *)
(* the plan gave it, and the sizes summing to the declared one.            *)

Length(stretch) == stretch.end - stretch.start
BugWhole(parts) == \A n \in 1..PartCount(session.size) : parts[n] # None
Whole(parts) ==
    /\ \A n \in 1..PartCount(session.size) :
        /\ parts[n] # None
        /\ n # PartCount(session.size) => Length(parts[n]) >= MinPart
        /\ Length(parts[n]) = Length(PartRange(session.size, n))
    /\ MapThenSumSet(LAMBDA n : Length(parts[n]), DOMAIN parts) = session.size

MultipartInit ==
    /\ session = [status |-> "NONE", size |-> 0]
    /\ stored = <<>>
    /\ pool = [r \in Runs |-> NoRun]
    /\ late = {} /\ faults = 0

Browser ==
    \/ \E size \in Sizes : Create(size)
    \/ \E r \in Runs :
        \/ \E file \in Sizes : Resume(r, file)
        \/ Abort(r)
        \/ \E w \in Workers : Take(r, w) \/ Accepted(r, w) \/ Refused(r, w)
    \/ \E put \in late : Arrives(put)
=============================================================================
