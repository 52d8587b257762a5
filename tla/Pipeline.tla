------------------------------- MODULE Pipeline -------------------------------
(***************************************************************************)
(* The video pipeline of apps/worker: BullMQ jobs that probe one uploaded  *)
(* asset, encode its rungs and stills, and package them, and the hourly    *)
(* sweep that deletes what nothing accounts for.                           *)
(*                                                                         *)
(* Delivery is at least once: a worker may die, or lose the lock of a job  *)
(* it still runs, and the job is run again beside it. Jobs of two assets   *)
(* share nothing but the queue's order, so the module follows one asset.   *)
(* An object is <<child, n>>: the n-th upload of a child job, in order.    *)
(***************************************************************************)
EXTENDS Naturals, FiniteSets

CONSTANTS
    Rungs,     \* the rungs of the ABR ladder that fit the source
    Stills,    \* the other children: poster and sprite sheet
    Workers,   \* concurrent job slots, over all worker processes
    Attempts,  \* PIPELINE_JOB_OPTIONS.attempts
    MaxEvents, \* how many repeated deliveries, replays, crashes, lost locks,
               \* failing steps, deploys, sweeps and forgotten jobs there are
    None

Child == Rungs \cup Stills
Jobs == Child \cup {"probe", "package"}
Parts(c) == IF c = "poster" THEN 1 ELSE 2
PartsOf(c) == {<<c, n>> : n \in 1..Parts(c)}
Master == <<"master", 1>>
Source == <<"source", 1>>
Objects == (Child \cup {"master", "source"}) \X (1..2)
\* overallPercent, coarsely: nothing, probed, encoding, everything.
Percent == 0..3

ASSUME PipelineAssumption ==
    /\ Rungs # {}
    /\ Attempts \in Nat \ {0} /\ MaxEvents \in Nat
    /\ {"probe", "package", "master", "source", None} \cap Child = {}
    /\ Rungs \cap Stills = {}
    /\ None \notin {"probe", "package"}

VARIABLES
    asset,     \* the Asset row: pipeline, pipelinePercent, durationSeconds known
    rows,      \* names of the MediaRendition rows
    bucket,    \* objects under video/{assetId}/
    announced, \* pipeline events written to the outbox
    ladder,    \* the rungs the deployed code knows
    planned,   \* the rungs in the package job's payload
    queue,     \* BullMQ: per job its state, attemptsMade and stalled count
    waitsFor,  \* BullMQ: the children the package job still waits for
    run,       \* per worker slot, the processor run in progress
    late,      \* a fire-and-forget progress write is on its way
    sweep,     \* the sweep's inventory of this asset
    uploaded,  \* history: objects ever put
    probes,    \* history: how often a probe has set the asset RUNNING
    delivered, \* media.asset.ready was delivered
    events     \* what counts towards MaxEvents so far
vars == <<asset, rows, bucket, announced, ladder, planned, queue, waitsFor, run,
          late, sweep, uploaded, probes, delivered, events>>

Asset == [pipeline : {"PENDING", "RUNNING", "READY", "FAILED"}, percent : Percent,
          duration : BOOLEAN]
Entry == [state : {"none", "waiting", "children", "active", "completed", "failed"},
          made : 0..Attempts, stalls : 0..2]
Working == {"begin", "probing", "fanning", "advancing", "encoding", "uploading", "recording",
            "writing", "committing"}
Run == [job : Jobs \cup {None}, pc : Working \cup {"idle", "failing", "rejected", "done"},
        put : Nat, attempt : Nat, locked : BOOLEAN, fatal : BOOLEAN]
Names == Child \cup {"master"}
Inventory == [pc : {"idle", "listing", "deleting"}, names : SUBSET Names,
              status : {"none", "READY", "FAILED"}, todo : SUBSET Objects]

Idle == [job |-> None, pc |-> "idle", put |-> 0, attempt |-> 0, locked |-> FALSE,
         fatal |-> FALSE]
NoSweep == [pc |-> "idle", names |-> {}, status |-> "none", todo |-> {}]
Absent == [state |-> "none", made |-> 0, stalls |-> 0]
Fresh == [Absent EXCEPT !.state = "waiting"]

Init ==
    /\ asset = [pipeline |-> "PENDING", percent |-> 0, duration |-> FALSE]
    /\ rows = {} /\ bucket = {Source} /\ announced = {} /\ ladder = Rungs
    /\ planned = {} /\ queue = [j \in Jobs |-> Absent] /\ waitsFor = {}
    /\ run = [w \in Workers |-> Idle] /\ late = FALSE /\ sweep = NoSweep
    /\ uploaded = {Source} /\ probes = 0
    /\ delivered = FALSE /\ events = 0

-----------------------------------------------------------------------------
(* The queue: BullMQ as JobQueueService uses it.                           *)

\* add: a job whose id is taken is not added again.
Added(q, j) == IF q[j].state = "none" THEN [q EXCEPT ![j] = Fresh] ELSE q
Spend == events < MaxEvents /\ events' = events + 1

\* AssetReadyHandler: the outbox delivers media.asset.ready, perhaps again.
AssetReady ==
    /\ delivered' = TRUE
    /\ IF delivered THEN Spend ELSE UNCHANGED events
    /\ queue' = Added(queue, "probe")
    /\ UNCHANGED <<asset, rows, bucket, announced, ladder, planned, waitsFor, run,
                   late, sweep, uploaded, probes>>

\* enqueueFanout: the package job is the parent of every rung and still; ids
\* are deterministic, so what is queued already stays as it is.
Fanout(rungs) ==
    LET kids == rungs \cup Stills
        new == {c \in kids : queue[c].state = "none"}
    IN  /\ queue' = [j \in Jobs |->
                        IF j \in new THEN Fresh
                        ELSE IF j = "package" /\ queue[j].state = "none"
                             THEN [Absent EXCEPT !.state =
                                     IF \A c \in kids : queue[c].state = "completed"
                                     THEN "waiting" ELSE "children"]
                             ELSE queue[j]]
        /\ IF queue["package"].state = "none"
           THEN /\ waitsFor' = {c \in kids : queue[c].state # "completed"}
                /\ planned' = rungs
           ELSE /\ waitsFor' = waitsFor \cup new
                /\ UNCHANGED planned

\* A worker takes a waiting job and its lock; ctx.attempt is attemptsMade + 1.
Take(w, j) ==
    /\ run[w] = Idle
    /\ queue[j].state = "waiting"
    /\ queue' = [queue EXCEPT ![j].state = "active"]
    /\ run' = [run EXCEPT ![w] = [Idle EXCEPT !.job = j, !.pc = "begin", !.locked = TRUE,
                                              !.attempt = queue[j].made + 1]]
    /\ UNCHANGED <<asset, rows, bucket, announced, ladder, planned, waitsFor, late,
                   sweep, uploaded, probes, delivered, events>>

\* The queue hears that a run succeeded, if the run still has the lock; the
\* last child lets its parent go.
Complete(w) ==
    LET j == run[w].job
        left == waitsFor \ {j}
    IN  /\ run[w].pc = "done"
        /\ run' = [run EXCEPT ![w] = Idle]
        /\ IF ~run[w].locked THEN UNCHANGED <<queue, waitsFor>>
           ELSE /\ waitsFor' = left
                /\ queue' = [i \in Jobs |->
                     IF i = j THEN [queue[i] EXCEPT !.state = "completed"]
                     ELSE IF i = "package" /\ queue[i].state = "children" /\ left = {}
                          THEN [queue[i] EXCEPT !.state = "waiting"]
                          ELSE queue[i]]
        /\ UNCHANGED <<asset, rows, bucket, announced, ladder, planned, late, sweep,
                       uploaded, probes, delivered, events>>

\* The queue hears that a run failed: back off and retry, or dead-letter.
Reject(w) ==
    LET j == run[w].job
        made == IF queue[j].made < Attempts THEN queue[j].made + 1 ELSE Attempts
    IN  /\ run[w].pc = "rejected"
        /\ run' = [run EXCEPT ![w] = Idle]
        /\ IF ~run[w].locked THEN UNCHANGED queue
           ELSE queue' = [queue EXCEPT ![j].made = made,
                            ![j].state = IF run[w].fatal \/ made >= Attempts
                                         THEN "failed" ELSE "waiting"]
        /\ UNCHANGED <<asset, rows, bucket, announced, ladder, planned, waitsFor, late,
                       sweep, uploaded, probes, delivered, events>>

\* A job nobody runs any more.
Abandoned(j) == \A w \in Workers : ~(run[w].job = j /\ run[w].locked)

\* The lock of an active job expires, its worker dead or cut off from Redis:
\* the job is redelivered once; the second time it fails without a run.
Stalled(j) ==
    /\ queue[j].state = "active"
    /\ queue' = [queue EXCEPT ![j].stalls = IF @ = 0 THEN 1 ELSE 2,
                              ![j].state = IF queue[j].stalls = 0 THEN "waiting" ELSE "failed"]
    /\ run' = [w \in Workers |-> IF run[w].job = j THEN [run[w] EXCEPT !.locked = FALSE]
                                 ELSE run[w]]
    /\ IF Abandoned(j) THEN UNCHANGED events ELSE Spend
    /\ UNCHANGED <<asset, rows, bucket, announced, ladder, planned, waitsFor, late,
                   sweep, uploaded, probes, delivered>>

\* A worker process dies half way through a job.
Crash(w) ==
    /\ run[w] # Idle
    /\ run' = [run EXCEPT ![w] = Idle]
    /\ Spend
    /\ UNCHANGED <<asset, rows, bucket, announced, ladder, planned, queue, waitsFor,
                   late, sweep, uploaded, probes, delivered>>

\* replay: an operator puts a dead letter back in the queue.
Replay(j) ==
    /\ queue[j].state = "failed"
    /\ queue' = [queue EXCEPT ![j].state = "waiting"]
    /\ Spend
    /\ UNCHANGED <<asset, rows, bucket, announced, ladder, planned, waitsFor, run, late,
                   sweep, uploaded, probes, delivered>>

\* removeOnComplete: a hundred later completions push a finished job out.
Forget(j) ==
    /\ queue[j].state = "completed"
    /\ queue' = [queue EXCEPT ![j] = Absent]
    /\ Spend
    /\ UNCHANGED <<asset, rows, bucket, announced, ladder, planned, waitsFor, run, late,
                   sweep, uploaded, probes, delivered>>

-----------------------------------------------------------------------------
(* The worker around a processor.                                          *)

Goto(w, pc) == run' = [run EXCEPT ![w].pc = pc]
At(w, kind, pc) == run[w].job \in kind /\ run[w].pc = pc

BugSwallow(w, fatal) == run' = [run EXCEPT ![w].pc = "done"]
\* The catch of PipelineWorker.run: the last attempt, and one that can never
\* succeed, mark the asset before the error goes back to the queue.
Caught(w, fatal) ==
    run' = [run EXCEPT ![w].fatal = fatal,
               ![w].pc = IF fatal \/ run[w].attempt >= Attempts THEN "failing" ELSE "rejected"]

\* Storage, the database or ffmpeg fails under a step.
Throw(w) ==
    /\ run[w].pc \in Working
    /\ Caught(w, FALSE)
    /\ Spend
    /\ UNCHANGED <<asset, rows, bucket, announced, ladder, planned, queue, waitsFor, late,
                   sweep, uploaded, probes, delivered>>

\* markFailed: status and event in one transaction, whatever the asset has
\* become since; an error while recording is logged and swallowed.
MarkFailed(w) ==
    /\ run[w].pc = "failing"
    /\ \/ /\ asset' = [asset EXCEPT !.pipeline = "FAILED"]
          /\ announced' = announced \cup {"AssetProcessingFailed"}
       \/ UNCHANGED <<asset, announced>>
    /\ Goto(w, "rejected")
    /\ UNCHANGED <<rows, bucket, ladder, planned, queue, waitsFor, late, sweep, uploaded,
                   probes, delivered, events>>

BugAdvanced(row, percent) == [row EXCEPT !.percent = percent]
\* advanceProgress: the WHERE clause is the ratchet.
Advanced(row, percent) == IF row.percent < percent THEN [row EXCEPT !.percent = percent] ELSE row

\* upsertRendition, keyed by (assetId, name).
Upserted(name) == rows' = rows \cup {name}

-----------------------------------------------------------------------------
(* ProbeProcessor.execute.                                                 *)

ProbeBegin(w) ==
    /\ At(w, {"probe"}, "begin")
    /\ asset' = [asset EXCEPT !.pipeline = "RUNNING", !.percent = 0]
    /\ probes' = IF probes < 2 THEN probes + 1 ELSE 2
    /\ Goto(w, "probing")
    /\ UNCHANGED <<rows, bucket, announced, ladder, planned, queue, waitsFor, late, sweep,
                   uploaded, delivered, events>>

\* ffprobe answered: recordProbe.
ProbeRead(w) ==
    /\ At(w, {"probe"}, "probing")
    /\ asset' = [asset EXCEPT !.duration = TRUE]
    /\ Goto(w, "fanning")
    /\ UNCHANGED <<rows, bucket, announced, ladder, planned, queue, waitsFor, late, sweep,
                   uploaded, probes, delivered, events>>

ProbeFanout(w) ==
    /\ At(w, {"probe"}, "fanning")
    /\ Fanout(ladder)
    /\ Goto(w, "advancing")
    /\ UNCHANGED <<asset, rows, bucket, announced, ladder, late, sweep, uploaded, probes,
                   delivered, events>>

ProbeAdvance(w) ==
    /\ At(w, {"probe"}, "advancing")
    /\ asset' = Advanced(asset, 1)
    /\ Goto(w, "done")
    /\ UNCHANGED <<rows, bucket, announced, ladder, planned, queue, waitsFor, late, sweep,
                   uploaded, probes, delivered, events>>

-----------------------------------------------------------------------------
(* The children. A row that exists makes a redelivery a no-op.             *)

\* TranscodeProcessor: isAlreadyDone, then the rung must still be in the ladder.
TranscodeBegin(w) ==
    /\ At(w, Rungs, "begin")
    /\ IF run[w].job \in rows THEN Goto(w, "done")
       ELSE IF run[w].job \notin ladder THEN Caught(w, TRUE)
       ELSE Goto(w, "encoding")
    /\ UNCHANGED <<asset, rows, bucket, announced, ladder, planned, queue, waitsFor, late,
                   sweep, uploaded, probes, delivered, events>>

\* ffmpeg runs, and may report progress nobody waits for.
Encode(w) ==
    /\ At(w, Rungs, "encoding")
    /\ \E reports \in BOOLEAN : late' = (late \/ reports)
    /\ Goto(w, "uploading")
    /\ UNCHANGED <<asset, rows, bucket, announced, ladder, planned, queue, waitsFor, sweep,
                   uploaded, probes, delivered, events>>

\* Such a write lands, at any time; more may be on their way.
LateProgress ==
    /\ late
    /\ late' \in BOOLEAN
    /\ asset' = Advanced(asset, 2)
    /\ UNCHANGED <<rows, bucket, announced, ladder, planned, queue, waitsFor, run, sweep,
                   uploaded, probes, delivered, events>>

\* PosterProcessor and SpriteProcessor: isAlreadyDone, then one ffmpeg run.
StillBegin(w) ==
    /\ At(w, Stills, "begin")
    /\ Goto(w, IF run[w].job \in rows THEN "done" ELSE "uploading")
    /\ UNCHANGED <<asset, rows, bucket, announced, ladder, planned, queue, waitsFor, late,
                   sweep, uploaded, probes, delivered, events>>

Put(object) ==
    /\ bucket' = bucket \cup {object}
    /\ uploaded' = uploaded \cup {object}

BugRowFirst(c, n) == "recording"
\* The row comes after the last object.
AfterPut(c, n) == IF n = Parts(c) THEN "recording" ELSE "uploading"

\* putObject, in order: segments before the playlist, the sheet before its VTT.
Upload(w) ==
    LET c == run[w].job
        n == run[w].put + 1
    IN  /\ At(w, Child, "uploading")
        /\ Put(<<c, n>>)
        /\ run' = [run EXCEPT ![w].put = n, ![w].pc = AfterPut(c, n)]
        /\ UNCHANGED <<asset, rows, announced, ladder, planned, queue, waitsFor, late, sweep,
                       probes, delivered, events>>

\* The row is written last: it means every byte was uploaded.
Record(w) ==
    /\ At(w, Child, "recording")
    /\ Upserted(run[w].job)
    /\ Goto(w, "done")
    /\ UNCHANGED <<asset, bucket, announced, ladder, planned, queue, waitsFor, late, sweep,
                   uploaded, probes, delivered, events>>

-----------------------------------------------------------------------------
(* PackagingProcessor.execute.                                             *)

\* A rung without a row is retried; one that left the ladder is fatal.
PackageBegin(w) ==
    /\ At(w, {"package"}, "begin")
    /\ IF ~(planned \subseteq rows) THEN Caught(w, FALSE)
       ELSE IF ~(planned \subseteq ladder) THEN Caught(w, TRUE)
       ELSE Goto(w, "writing")
    /\ UNCHANGED <<asset, rows, bucket, announced, ladder, planned, queue, waitsFor, late,
                   sweep, uploaded, probes, delivered, events>>

PackageWrite(w) ==
    /\ At(w, {"package"}, "writing")
    /\ Put(Master)
    /\ Goto(w, "committing")
    /\ UNCHANGED <<asset, rows, announced, ladder, planned, queue, waitsFor, late, sweep,
                   probes, delivered, events>>

\* The unit of work: master row, READY at 100 percent, and the event.
PackageCommit(w) ==
    /\ At(w, {"package"}, "committing")
    /\ Upserted("master")
    /\ asset' = [asset EXCEPT !.pipeline = "READY", !.percent = 3]
    /\ announced' = announced \cup {"AssetPlayable"}
    /\ Goto(w, "done")
    /\ UNCHANGED <<bucket, ladder, planned, queue, waitsFor, late, sweep, uploaded, probes,
                   delivered, events>>

-----------------------------------------------------------------------------
(* ReconciliationService.sweep, as far as it concerns this asset, and the  *)
(* deploys that trim the ladder.                                           *)

\* The page of settled assets is read with the names of their renditions.
SweepRead ==
    /\ sweep.pc = "idle"
    /\ asset.pipeline \in {"READY", "FAILED"}
    /\ sweep' = [pc |-> "listing", names |-> rows, status |-> asset.pipeline, todo |-> {}]
    /\ Spend
    /\ UNCHANGED <<asset, rows, bucket, announced, ladder, planned, queue, waitsFor, run,
                   late, uploaded, probes, delivered>>

BugOrphansIn(names, keys) == {k \in keys : k[1] \in Rungs}
\* orphansIn: only files of a rung directory that no known rendition names.
OrphansIn(names, keys) == {k \in keys : k[1] \in Rungs /\ k[1] \notin names}

\* The prefix is listed later, when the assets before it in the page are done.
SweepList ==
    /\ sweep.pc = "listing"
    /\ sweep' = [sweep EXCEPT !.pc = "deleting", !.todo = OrphansIn(sweep.names, bucket)]
    /\ UNCHANGED <<asset, rows, bucket, announced, ladder, planned, queue, waitsFor, run,
                   late, uploaded, probes, delivered, events>>

SweepDelete(k) ==
    /\ sweep.pc = "deleting" /\ k \in sweep.todo
    /\ bucket' = bucket \ {k}
    /\ sweep' = [sweep EXCEPT !.todo = @ \ {k}]
    /\ UNCHANGED <<asset, rows, announced, ladder, planned, queue, waitsFor, run, late,
                   uploaded, probes, delivered, events>>

\* The asset is done with, or its prefix failed and the sweep moves on.
SweepEnd ==
    /\ sweep.pc \in {"listing", "deleting"}
    /\ sweep' = NoSweep
    /\ UNCHANGED <<asset, rows, bucket, announced, ladder, planned, queue, waitsFor, run,
                   late, uploaded, probes, delivered, events>>

\* A deploy drops a rung from ABR_LADDER; one always remains.
Trim(r) ==
    /\ r \in ladder /\ ladder # {r}
    /\ ladder' = ladder \ {r}
    /\ Spend
    /\ UNCHANGED <<asset, rows, bucket, announced, planned, queue, waitsFor, run, late,
                   sweep, uploaded, probes, delivered>>

-----------------------------------------------------------------------------
Progress(w) ==
    \/ ProbeBegin(w) \/ ProbeRead(w) \/ ProbeFanout(w) \/ ProbeAdvance(w)
    \/ TranscodeBegin(w) \/ Encode(w) \/ StillBegin(w) \/ Upload(w) \/ Record(w)
    \/ PackageBegin(w) \/ PackageWrite(w) \/ PackageCommit(w)
    \/ MarkFailed(w) \/ Complete(w) \/ Reject(w)
    \/ \E j \in Jobs : Take(w, j)

Sweeping ==
    SweepRead \/ SweepList \/ SweepEnd \/ \E k \in Objects : SweepDelete(k)

Next ==
    \/ AssetReady \/ LateProgress \/ Sweeping
    \/ \E w \in Workers : Progress(w) \/ Throw(w) \/ Crash(w)
    \/ \E j \in Jobs : Stalled(j) \/ Replay(j) \/ Forget(j)
    \/ \E r \in Rungs : Trim(r)

Spec == Init /\ [][Next]_vars
=============================================================================
