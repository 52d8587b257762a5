---------------------------- MODULE PipelineProofs ----------------------------
(***************************************************************************)
(* Proofs about Pipeline, for any ladder, any number of workers, attempts  *)
(* and untoward events.                                                    *)
(*                                                                         *)
(* A run remembers how far it got (RunOK), the queue releases the package  *)
(* job only when its children have rows (QueueOK), and a new plan is never *)
(* larger than an older one, for ladders only shrink (PlanOK). What is     *)
(* encoded is arithmetic on the source (RungsFitAlways, PosterInsideAlways,*)
(* PreviewIsTrueAlways), whichever run encodes it.                         *)
(***************************************************************************)
EXTENDS RenditionsProperties, FiniteSetTheorems, TLAPS

\* How far a run got is matched by what it uploaded and recorded.
RunOK(w) ==
    LET j == run[w].job
        pc == run[w].pc
    IN  /\ pc \in {"begin", "encoding"} => run[w].put = 0
        /\ pc = "encoding" => j \in Rungs
        /\ pc = "uploading" => /\ j \in Child /\ run[w].put < Parts(j)
                               /\ \A n \in 1..run[w].put : <<j, n>> \in uploaded
        /\ pc = "recording" => j \in Child /\ PartsOf(j) \subseteq uploaded
        /\ (j \in Child /\ pc = "done") => j \in rows
        /\ (j = "probe" /\ pc = "fanning") => asset.duration
        /\ j = "package" => Stills \subseteq rows /\ planned # {} /\ asset.duration
        /\ pc \in {"writing", "committing"} => j = "package" /\ planned \subseteq rows
        /\ pc = "committing" => Master \in uploaded

QueueOK ==
    /\ \A c \in Child : queue[c].state = "completed" => c \in rows
    /\ queue["package"].state # "none" => planned # {} /\ asset.duration
    /\ queue["package"].state = "children" => planned \cup Stills \subseteq waitsFor \cup rows
    /\ queue["package"].state \in {"waiting", "active", "completed", "failed"} =>
          Stills \subseteq rows

PlanOK == ladder # {} /\ (planned # {} => ladder \subseteq planned)

BucketOK == \A o \in uploaded : o[1] \notin Rungs => o \in bucket

SweepOK ==
    /\ \A k \in sweep.todo : k[1] \in Rungs \ sweep.names
    /\ sweep.status = "READY" => planned # {} /\ planned \subseteq sweep.names

Inv == /\ PipelineTypeOK /\ (\A w \in Workers : RunOK(w)) /\ QueueOK /\ PlanOK /\ BucketOK
       /\ SweepOK /\ RowMeansUploaded /\ ReadyIsComplete

\* What no step takes back.
Grows ==
    /\ rows \subseteq rows' /\ uploaded \subseteq uploaded'
    /\ asset.duration => asset'.duration
    /\ planned # {} => planned' # {} /\ planned' \subseteq planned

-----------------------------------------------------------------------------
(* Constants.                                                              *)

LEMMA JobShapes ==
    /\ "probe" \in Jobs /\ "package" \in Jobs /\ Child \subseteq Jobs
    /\ "probe" \notin Child /\ "package" \notin Child /\ None \notin Jobs
    /\ "master" \notin Child /\ "source" \notin Child
    /\ Rungs \subseteq Child /\ Stills \subseteq Child /\ Rungs \cap Stills = {}
    /\ Idle \in Run /\ Absent \in Entry /\ Fresh \in Entry /\ NoSweep \in Inventory
    /\ Fresh.state = "waiting" /\ Absent.state = "none"
    /\ Idle.job = None /\ Idle.pc = "idle" /\ Idle.put = 0 /\ Idle.locked = FALSE
  BY PipelineAssumption
  DEF PipelineAssumption, Jobs, Child, Idle, Run, Absent, Fresh, Entry, NoSweep, Inventory, Working

LEMMA PartsTwo == \A c : Parts(c) \in 1..2
  BY DEF Parts

LEMMA ObjectShapes ==
    /\ Master \in Objects /\ Source \in Objects
    /\ Master[1] \notin Rungs /\ Source[1] \notin Rungs
    /\ \A c \in Child, n \in Nat : n \in 1..Parts(c) => <<c, n>> \in Objects /\ <<c, n>>[1] = c
<1>1. Master \in Objects /\ Source \in Objects
  BY DEF Objects, Master, Source
<1>2. Master[1] = "master" /\ Source[1] = "source"
  BY DEF Master, Source
<1>3. Master[1] \notin Rungs /\ Source[1] \notin Rungs
  BY <1>2, JobShapes
<1>4. ASSUME NEW c \in Child, NEW n \in 1..Parts(c)
      PROVE  <<c, n>> \in Objects /\ <<c, n>>[1] = c
  BY PartsTwo DEF Objects
<1> QED BY <1>1, <1>3, <1>4

LEMMA InitInv == Init => Inv
<1> SUFFICES ASSUME Init PROVE Inv
  OBVIOUS
<1>1. PipelineTypeOK
  <2>1. asset \in Asset
    BY DEF Init, Asset, Percent
  <2>2. queue \in [Jobs -> Entry] /\ run \in [Workers -> Run] /\ sweep \in Inventory
    BY JobShapes DEF Init
  <2>3. events \in 0..MaxEvents /\ probes \in 0..2
    BY PipelineAssumption DEF Init, PipelineAssumption
  <2>4. bucket \subseteq Objects /\ uploaded \subseteq Objects
    BY ObjectShapes DEF Init
  <2> QED BY <2>1, <2>2, <2>3, <2>4 DEF Init, PipelineTypeOK
<1>2. \A w \in Workers : RunOK(w)
  BY JobShapes DEF Init, RunOK
<1>3. QueueOK /\ PlanOK /\ BucketOK /\ SweepOK
  BY JobShapes, PipelineAssumption
  DEF Init, QueueOK, PlanOK, BucketOK, SweepOK, NoSweep, PipelineAssumption
<1>4. RowMeansUploaded /\ ReadyIsComplete
  BY DEF Init, RowMeansUploaded, ReadyIsComplete
<1> QED BY <1>1, <1>2, <1>3, <1>4 DEF Inv

-----------------------------------------------------------------------------
(* How a step changes the run of its worker.                               *)

LEMMA GotoRun ==
    ASSUME PipelineTypeOK, NEW w \in Workers, NEW pc \in Working \cup {"done", "rejected"},
           Goto(w, pc)
    PROVE  /\ run' \in [Workers -> Run]
           /\ run'[w].pc = pc /\ run'[w].job = run[w].job /\ run'[w].put = run[w].put
           /\ run'[w].locked = run[w].locked
           /\ \A v \in Workers \ {w} : run'[v] = run[v]
<1> DEFINE next == [run[w] EXCEPT !.pc = pc]
<1>1. run \in [Workers -> Run] /\ run[w] \in Run
  BY DEF PipelineTypeOK
<1>2. /\ next \in Run /\ next.pc = pc /\ next.job = run[w].job /\ next.put = run[w].put
      /\ next.locked = run[w].locked
  BY <1>1 DEF Run
<1>3. run' = [run EXCEPT ![w] = next]
  BY <1>1 DEF Goto
<1> HIDE DEF next
<1> QED BY <1>1, <1>2, <1>3

LEMMA CaughtRun ==
    ASSUME PipelineTypeOK, NEW w \in Workers, NEW fatal \in BOOLEAN, Caught(w, fatal)
    PROVE  /\ run' \in [Workers -> Run]
           /\ run'[w].pc \in {"failing", "rejected"} /\ run'[w].job = run[w].job
           /\ run'[w].locked = run[w].locked
           /\ \A v \in Workers \ {w} : run'[v] = run[v]
<1> DEFINE pc == IF fatal \/ run[w].attempt >= Attempts THEN "failing" ELSE "rejected"
<1> DEFINE next == [run[w] EXCEPT !.fatal = fatal, !.pc = pc]
<1>1. run \in [Workers -> Run] /\ run[w] \in Run
  BY DEF PipelineTypeOK
<1>2. pc \in {"failing", "rejected"}
  OBVIOUS
<1>3. run' = [run EXCEPT ![w] = next]
  BY <1>1 DEF Caught
<1> HIDE DEF pc
<1>4. /\ next \in Run /\ next.pc = pc /\ next.job = run[w].job
      /\ next.locked = run[w].locked
  BY <1>1, <1>2 DEF Run
<1> HIDE DEF next
<1> QED BY <1>1, <1>2, <1>3, <1>4

LEMMA FanoutKeeps ==
    ASSUME PipelineTypeOK, PlanOK, NEW rungs \in SUBSET Rungs, Fanout(rungs)
    PROVE  /\ queue' \in [Jobs -> Entry]
           /\ planned' \subseteq Rungs /\ waitsFor' \subseteq Child
<1> DEFINE kids == rungs \cup Stills
           new == {c \in kids : queue[c].state = "none"}
           start == IF \A c \in kids : queue[c].state = "completed" THEN "waiting" ELSE "children"
           entry(j) == IF j \in new THEN Fresh
                       ELSE IF j = "package" /\ queue[j].state = "none"
                            THEN [Absent EXCEPT !.state = start] ELSE queue[j]
<1>1. start \in {"waiting", "children"}
  OBVIOUS
<1>2. [Absent EXCEPT !.state = start] \in Entry
  BY <1>1, JobShapes DEF Entry
<1>3. queue' = [j \in Jobs |-> entry(j)]
  BY DEF Fanout
<1> HIDE DEF start
<1>4. \A j \in Jobs : entry(j) \in Entry
  BY <1>2, JobShapes DEF PipelineTypeOK
<1>5. kids \subseteq Child /\ new \subseteq Child
  BY JobShapes
<1>6. planned' \subseteq Rungs /\ waitsFor' \subseteq Child
  BY <1>5 DEF Fanout, PipelineTypeOK
<1> QED BY <1>3, <1>4, <1>6

LEMMA TakeRun ==
    ASSUME PipelineTypeOK, NEW w \in Workers, NEW j \in Jobs, Take(w, j)
    PROVE  /\ run' \in [Workers -> Run] /\ queue' \in [Jobs -> Entry]
           /\ run'[w].pc = "begin" /\ run'[w].job = j /\ run'[w].put = 0
           /\ \A v \in Workers \ {w} : run'[v] = run[v]
           /\ \A i \in Jobs \ {j} : queue'[i] = queue[i]
           /\ queue'[j].state = "active"
<1> DEFINE next == [Idle EXCEPT !.job = j, !.pc = "begin", !.locked = TRUE,
                                !.attempt = queue[j].made + 1]
           entry == [queue[j] EXCEPT !.state = "active"]
<1>1. run \in [Workers -> Run] /\ queue \in [Jobs -> Entry] /\ queue[j] \in Entry
  BY DEF PipelineTypeOK
<1>2. queue[j].made + 1 \in Nat
  BY <1>1, PipelineAssumption DEF Entry, PipelineAssumption
<1>3. next \in Run /\ next.pc = "begin" /\ next.job = j /\ next.put = 0
  BY <1>2, JobShapes DEF Run, Working, Idle
<1>4. entry \in Entry /\ entry.state = "active"
  BY <1>1 DEF Entry
<1>5. run' = [run EXCEPT ![w] = next] /\ queue' = [queue EXCEPT ![j] = entry]
  BY <1>1 DEF Take
<1> HIDE DEF next, entry
<1> QED BY <1>1, <1>3, <1>4, <1>5

LEMMA CompleteRun ==
    ASSUME PipelineTypeOK, NEW w \in Workers, Complete(w)
    PROVE  /\ run' \in [Workers -> Run] /\ queue' \in [Jobs -> Entry] /\ waitsFor' \subseteq Child
           /\ run'[w] = Idle /\ run[w].pc = "done"
           /\ \A v \in Workers \ {w} : run'[v] = run[v]
           /\ \A i \in Jobs \ {"package"} :
                 queue'[i].state # queue[i].state => i = run[w].job /\ queue'[i].state = "completed"
           /\ \/ queue'["package"] = queue["package"] /\ waitsFor \ {run[w].job} \subseteq waitsFor'
              \/ /\ queue'["package"].state = "completed" /\ run[w].job = "package"
              \/ /\ queue'["package"].state = "waiting" /\ queue["package"].state = "children"
                 /\ waitsFor \subseteq {run[w].job}
<1> DEFINE j == run[w].job
           left == waitsFor \ {j}
           entry(i) == IF i = j THEN [queue[i] EXCEPT !.state = "completed"]
                       ELSE IF i = "package" /\ queue[i].state = "children" /\ left = {}
                            THEN [queue[i] EXCEPT !.state = "waiting"] ELSE queue[i]
<1>1. run \in [Workers -> Run] /\ queue \in [Jobs -> Entry] /\ waitsFor \subseteq Child
  BY DEF PipelineTypeOK
<1>2. run' = [run EXCEPT ![w] = Idle] /\ run[w].pc = "done"
  BY DEF Complete
<1>3. /\ run' \in [Workers -> Run] /\ run'[w] = Idle
      /\ \A v \in Workers \ {w} : run'[v] = run[v]
  BY <1>1, <1>2, JobShapes
<1>4. CASE ~run[w].locked
  BY <1>1, <1>2, <1>3, <1>4 DEF Complete
<1>5. CASE run[w].locked
  <2>1. queue' = [i \in Jobs |-> entry(i)] /\ waitsFor' = left
    BY <1>5 DEF Complete
  <2>2. \A i \in Jobs : entry(i) \in Entry
    BY <1>1 DEF Entry
  <2>3. "package" \in Jobs
    BY JobShapes
  <2>4. \A i \in Jobs : queue'[i] = entry(i)
    BY <2>1
  <2>5. \A i \in Jobs : /\ i = j => entry(i).state = "completed"
                        /\ i # j /\ i # "package" => entry(i) = queue[i]
    BY <1>1 DEF Entry
  <2>6. \/ entry("package") = queue["package"]
        \/ entry("package").state = "completed" /\ j = "package"
        \/ /\ entry("package").state = "waiting" /\ queue["package"].state = "children"
           /\ left = {}
    BY <1>1, <2>3 DEF Entry
  <2> HIDE DEF entry
  <2> QED BY <1>1, <1>2, <1>3, <2>1, <2>2, <2>3, <2>4, <2>5, <2>6
<1> QED BY <1>4, <1>5

LEMMA RejectRun ==
    ASSUME PipelineTypeOK, NEW w \in Workers, Reject(w)
    PROVE  /\ run' \in [Workers -> Run] /\ queue' \in [Jobs -> Entry]
           /\ run'[w] = Idle
           /\ \A v \in Workers \ {w} : run'[v] = run[v]
           /\ \A i \in Jobs : \/ queue'[i].state = queue[i].state
                              \/ /\ i = run[w].job /\ run[w].locked
                                 /\ queue'[i].state \in {"failed", "waiting"}
<1> DEFINE j == run[w].job
           made == IF queue[j].made < Attempts THEN queue[j].made + 1 ELSE Attempts
           state == IF run[w].fatal \/ made >= Attempts THEN "failed" ELSE "waiting"
           entry == [queue[j] EXCEPT !.made = made, !.state = state]
<1>1. run \in [Workers -> Run] /\ queue \in [Jobs -> Entry]
  BY DEF PipelineTypeOK
<1>2. run' = [run EXCEPT ![w] = Idle]
  BY DEF Reject
<1>3. /\ run' \in [Workers -> Run] /\ run'[w] = Idle
      /\ \A v \in Workers \ {w} : run'[v] = run[v]
  BY <1>1, <1>2, JobShapes
<1>4. CASE ~run[w].locked \/ j \notin Jobs
  <2>1. queue' = queue
    BY <1>1, <1>4 DEF Reject
  <2> QED BY <1>1, <1>3, <2>1
<1>5. CASE run[w].locked /\ j \in Jobs
  <2>1. queue' = [queue EXCEPT ![j] = entry]
    BY <1>1, <1>5 DEF Reject
  <2>2. made \in 0..Attempts
    BY <1>1, <1>5, PipelineAssumption DEF Entry, PipelineAssumption
  <2>3. state \in {"failed", "waiting"}
    OBVIOUS
  <2> HIDE DEF made, state
  <2>4. entry \in Entry /\ entry.state = state
    BY <1>1, <1>5, <2>2, <2>3 DEF Entry
  <2> HIDE DEF entry
  <2> QED BY <1>1, <1>3, <1>5, <2>1, <2>3, <2>4
<1> QED BY <1>4, <1>5

-----------------------------------------------------------------------------
(* Types.                                                                  *)

LEMMA SpendType == ASSUME PipelineTypeOK, Spend PROVE events' \in 0..MaxEvents
  BY PipelineAssumption DEF PipelineTypeOK, Spend, PipelineAssumption

LEMMA AdvancedType ==
    ASSUME NEW row \in Asset, NEW percent \in Percent
    PROVE  /\ Advanced(row, percent) \in Asset
           /\ Advanced(row, percent).pipeline = row.pipeline
           /\ Advanced(row, percent).duration = row.duration
           /\ row.percent = 3 => Advanced(row, percent) = row
  BY DEF Advanced, Asset, Percent

\* The writes of the asset row.
LEMMA AssetStep ==
    ASSUME asset \in Asset, NEW w \in Workers,
           \/ ProbeBegin(w) \/ ProbeRead(w) \/ ProbeAdvance(w)
           \/ MarkFailed(w) \/ PackageCommit(w)
    PROVE  asset' \in Asset /\ (asset.duration => asset'.duration)
<1>1. 0 \in Percent /\ 1 \in Percent /\ 2 \in Percent /\ 3 \in Percent
  BY DEF Percent
<1>3. CASE ProbeAdvance(w)
  <2>1. asset' = Advanced(asset, 1)
    BY <1>3 DEF ProbeAdvance
  <2> QED BY <1>1, <2>1, AdvancedType
<1>4. CASE ProbeBegin(w)
  BY <1>1, <1>4 DEF ProbeBegin, Asset
<1>5. CASE ProbeRead(w)
  BY <1>5 DEF ProbeRead, Asset
<1>6. CASE MarkFailed(w)
  BY <1>6 DEF MarkFailed, Asset
<1>7. CASE PackageCommit(w)
  BY <1>1, <1>7 DEF PackageCommit, Asset
<1> QED BY <1>3, <1>4, <1>5, <1>6, <1>7

LEMMA LateStep ==
    ASSUME asset \in Asset, LateProgress
    PROVE  asset' \in Asset /\ asset'.duration = asset.duration
<1>1. asset' = Advanced(asset, 2) /\ 2 \in Percent
  BY DEF LateProgress, Percent
<1> QED BY <1>1, AdvancedType

LEMMA QueueType ==
    ASSUME PipelineTypeOK, NEW j \in Jobs,
           \/ AssetReady \/ Stalled(j) \/ Replay(j) \/ Forget(j)
    PROVE  queue' \in [Jobs -> Entry] /\ run' \in [Workers -> Run] /\ events' \in 0..MaxEvents
<1>1. queue \in [Jobs -> Entry] /\ queue[j] \in Entry /\ run \in [Workers -> Run]
  BY DEF PipelineTypeOK
<1>2. CASE AssetReady
  <2>1. events' \in 0..MaxEvents
    BY <1>2, SpendType DEF AssetReady, PipelineTypeOK
  <2> QED BY <1>1, <1>2, <2>1, JobShapes DEF AssetReady, Added
<1>3. CASE Stalled(j)
  <2> DEFINE stalls == IF queue[j].stalls = 0 THEN 1 ELSE 2
             state == IF queue[j].stalls = 0 THEN "waiting" ELSE "failed"
             entry == [queue[j] EXCEPT !.stalls = stalls, !.state = state]
             cut(w) == IF run[w].job = j THEN [run[w] EXCEPT !.locked = FALSE] ELSE run[w]
  <2>1. queue' = [queue EXCEPT ![j] = entry] /\ run' = [w \in Workers |-> cut(w)]
    BY <1>1, <1>3 DEF Stalled
  <2>2. entry \in Entry
    <3>1. stalls \in 0..2 /\ state \in {"waiting", "failed"}
      OBVIOUS
    <3> HIDE DEF stalls, state
    <3> QED BY <1>1, <3>1 DEF Entry
  <2>3. \A w \in Workers : cut(w) \in Run
    BY <1>1 DEF Run
  <2>4. events' \in 0..MaxEvents
    BY <1>3, SpendType DEF Stalled, PipelineTypeOK
  <2> HIDE DEF entry, cut
  <2> QED BY <1>1, <2>1, <2>2, <2>3, <2>4
<1>4. CASE Replay(j)
  <2> DEFINE entry == [queue[j] EXCEPT !.state = "waiting"]
  <2>1. queue' = [queue EXCEPT ![j] = entry] /\ run' = run
    BY <1>1, <1>4 DEF Replay
  <2>2. entry \in Entry
    BY <1>1 DEF Entry
  <2> HIDE DEF entry
  <2> QED BY <1>1, <1>4, <2>1, <2>2, SpendType DEF Replay
<1>5. CASE Forget(j)
  BY <1>1, <1>5, JobShapes, SpendType DEF Forget
<1> QED BY <1>2, <1>3, <1>4, <1>5

LEMMA MovedType ==
    ASSUME PipelineTypeOK, PlanOK, NEW w \in Workers, Progress(w) \/ Throw(w) \/ Crash(w)
    PROVE  run' \in [Workers -> Run] /\ queue' \in [Jobs -> Entry] /\ planned' \subseteq Rungs
           /\ waitsFor' \subseteq Child
<1>1. queue \in [Jobs -> Entry] /\ planned \subseteq Rungs /\ waitsFor \subseteq Child
      /\ run \in [Workers -> Run] /\ run[w] \in Run /\ ladder \subseteq Rungs
  BY DEF PipelineTypeOK
<1>2. CASE ProbeBegin(w) \/ ProbeRead(w) \/ ProbeAdvance(w)
  BY <1>1, <1>2, GotoRun DEF ProbeBegin, ProbeRead, ProbeAdvance, Working
<1>3. CASE ProbeFanout(w)
  BY <1>3, GotoRun, FanoutKeeps, <1>1 DEF ProbeFanout, Working
<1>4. CASE TranscodeBegin(w) \/ PackageBegin(w)
  BY <1>1, <1>4, GotoRun, CaughtRun DEF TranscodeBegin, PackageBegin, Working
<1>5. CASE Encode(w) \/ StillBegin(w) \/ Record(w)
  BY <1>1, <1>5, GotoRun DEF Encode, StillBegin, Record, Working
<1>6. CASE Upload(w)
  <2> DEFINE n == run[w].put + 1
             pc == AfterPut(run[w].job, n)
             next == [run[w] EXCEPT !.put = n, !.pc = pc]
  <2>1. run' = [run EXCEPT ![w] = next]
    BY <1>1, <1>6 DEF Upload
  <2>2. next \in Run
    <3>1. n \in Nat /\ pc \in {"recording", "uploading"}
      BY <1>1 DEF Run, AfterPut
    <3> HIDE DEF n, pc
    <3> QED BY <1>1, <3>1 DEF Run, Working
  <2> HIDE DEF next
  <2> QED BY <1>1, <1>6, <2>1, <2>2 DEF Upload
<1>7. CASE PackageWrite(w) \/ PackageCommit(w) \/ MarkFailed(w)
  BY <1>1, <1>7, GotoRun DEF PackageWrite, PackageCommit, MarkFailed, Working
<1>8. CASE Complete(w)
  BY <1>1, <1>8, CompleteRun DEF Complete
<1>9. CASE Reject(w)
  BY <1>1, <1>9, RejectRun DEF Reject
<1>10. CASE \E j \in Jobs : Take(w, j)
  BY <1>1, <1>10, TakeRun DEF Take
<1>11. CASE Throw(w)
  BY <1>1, <1>11, CaughtRun DEF Throw
<1>12. CASE Crash(w)
  BY <1>1, <1>12, JobShapes DEF Crash
<1> QED BY <1>2, <1>3, <1>4, <1>5, <1>6, <1>7, <1>8, <1>9, <1>10, <1>11, <1>12 DEF Progress

LEMMA SweepType ==
    ASSUME PipelineTypeOK, Sweeping
    PROVE  /\ sweep' \in Inventory /\ bucket' \subseteq Objects
           /\ events' \in 0..MaxEvents
<1>1. sweep \in Inventory /\ bucket \subseteq Objects /\ rows \subseteq Names
      /\ events \in 0..MaxEvents /\ asset \in Asset
  BY DEF PipelineTypeOK
<1>2. CASE SweepRead
  <2>1. sweep' \in Inventory
    BY <1>1, <1>2 DEF SweepRead, Inventory
  <2> QED BY <1>1, <1>2, <2>1, SpendType DEF SweepRead
<1>3. CASE SweepList
  <2>1. OrphansIn(sweep.names, bucket) \subseteq Objects
    BY <1>1 DEF OrphansIn
  <2>2. sweep' \in Inventory
    BY <1>1, <1>3, <2>1 DEF SweepList, Inventory
  <2> QED BY <1>1, <1>3, <2>2 DEF SweepList
<1>4. CASE \E k \in Objects : SweepDelete(k)
  BY <1>1, <1>4 DEF SweepDelete, Inventory
<1>5. CASE SweepEnd
  BY <1>1, <1>5, JobShapes DEF SweepEnd
<1> QED BY <1>2, <1>3, <1>4, <1>5 DEF Sweeping

LEMMA TypeStep ==
    ASSUME PipelineTypeOK, PlanOK, \A v \in Workers : RunOK(v), [Next]_vars
    PROVE  PipelineTypeOK'
<1> USE DEF PipelineTypeOK
<1>1. CASE AssetReady
  BY <1>1, QueueType, JobShapes DEF AssetReady
<1>2. CASE \E j \in Jobs : Stalled(j) \/ Replay(j) \/ Forget(j)
  <2>1. PICK j \in Jobs : Stalled(j) \/ Replay(j) \/ Forget(j)
    BY <1>2
  <2> QED BY <2>1, QueueType DEF Stalled, Replay, Forget
<1>3. ASSUME NEW w \in Workers, \/ ProbeBegin(w) \/ ProbeRead(w) \/ ProbeAdvance(w)
                                 \/ MarkFailed(w) \/ PackageCommit(w)
      PROVE  PipelineTypeOK'
  <2>1. asset' \in Asset
    BY <1>3, AssetStep
  <2>2. run' \in [Workers -> Run]
    BY <1>3, MovedType DEF Progress
  <2>4. CASE ProbeBegin(w)
    BY <2>1, <2>2, <2>4 DEF ProbeBegin
  <2>5. CASE ProbeRead(w) \/ ProbeAdvance(w)
    BY <2>1, <2>2, <2>5 DEF ProbeRead, ProbeAdvance
  <2>6. CASE MarkFailed(w)
    BY <2>1, <2>2, <2>6 DEF MarkFailed
  <2>7. CASE PackageCommit(w)
    BY <2>1, <2>2, <2>7 DEF PackageCommit, Upserted, Names
  <2> QED BY <1>3, <2>4, <2>5, <2>6, <2>7
<1>4. CASE Sweeping
  BY <1>4, SweepType DEF Sweeping, SweepRead, SweepList, SweepDelete, SweepEnd
<1>5. CASE \E r \in Rungs : Trim(r)
  BY <1>5, SpendType DEF Trim
<1>6. ASSUME NEW w \in Workers, Progress(w) \/ Throw(w) \/ Crash(w)
      PROVE  PipelineTypeOK'
  <2>1. /\ run' \in [Workers -> Run] /\ queue' \in [Jobs -> Entry] /\ planned' \subseteq Rungs
        /\ waitsFor' \subseteq Child
    BY <1>6, MovedType
  <2>2. CASE Throw(w) \/ Crash(w)
    BY <2>1, <2>2, SpendType DEF Throw, Crash
  <2>3. CASE \/ ProbeBegin(w) \/ ProbeRead(w) \/ ProbeAdvance(w) \/ PackageCommit(w)
             \/ MarkFailed(w)
    BY <1>3, <2>3
  <2>4. CASE \/ ProbeFanout(w) \/ TranscodeBegin(w) \/ StillBegin(w) \/ PackageBegin(w)
             \/ Complete(w) \/ Reject(w) \/ Encode(w) \/ \E j \in Jobs : Take(w, j)
    BY <2>1, <2>4
    DEF ProbeFanout, TranscodeBegin, StillBegin, PackageBegin, Complete, Reject, Encode, Take
  <2>5. CASE Record(w)
    BY <2>1, <2>5 DEF Record, Upserted, Names, At
  <2>6. CASE Upload(w)
    <3>1. run[w].put \in Nat /\ run[w].job \in Child /\ run[w].put < Parts(run[w].job)
      BY <2>6 DEF Upload, At, Run, RunOK
    <3>2. <<run[w].job, run[w].put + 1>> \in Objects
      BY <3>1, PartsTwo DEF Objects
    <3> QED BY <2>1, <2>6, <3>2 DEF Upload, Put
  <2>7. CASE PackageWrite(w)
    BY <2>1, <2>7, ObjectShapes DEF PackageWrite, Put
  <2> QED BY <1>6, <2>2, <2>3, <2>4, <2>5, <2>6, <2>7 DEF Progress
<1>7. CASE UNCHANGED vars
  BY <1>7 DEF vars
<1>8. CASE LateProgress
  BY <1>8, LateStep DEF LateProgress
<1> QED BY <1>1, <1>2, <1>4, <1>5, <1>6, <1>7, <1>8 DEF Next

\* Rows, uploads and the measured duration stay; a new plan is no larger.
LEMMA GrowsStep ==
    ASSUME Inv, [Next]_vars
    PROVE  Grows
<1> USE DEF Grows, Inv
<1>1. asset \in Asset
  BY DEF PipelineTypeOK
<1>2. CASE \/ AssetReady \/ Sweeping \/ \E j \in Jobs : Stalled(j) \/ Replay(j) \/ Forget(j)
           \/ \E r \in Rungs : Trim(r)
  BY <1>2 DEF AssetReady, Stalled, Replay, Forget, Trim, Sweeping, SweepRead, SweepList,
    SweepDelete, SweepEnd
<1>3. CASE LateProgress
  BY <1>1, <1>3, LateStep DEF LateProgress
<1>4. ASSUME NEW w \in Workers, Progress(w) \/ Throw(w) \/ Crash(w)
      PROVE  Grows
  <2>1. CASE ProbeBegin(w) \/ ProbeRead(w) \/ ProbeAdvance(w) \/ PackageCommit(w)
             \/ MarkFailed(w)
    <3>1. asset.duration => asset'.duration
      BY <1>1, <2>1, AssetStep
    <3> QED BY <2>1, <3>1
        DEF ProbeBegin, ProbeRead, ProbeAdvance, PackageCommit, MarkFailed, Upserted
  <2>2. CASE ProbeFanout(w)
    BY <2>2 DEF ProbeFanout, Fanout, PlanOK
  <2>3. CASE \/ TranscodeBegin(w) \/ StillBegin(w) \/ PackageBegin(w) \/ Complete(w)
             \/ Reject(w) \/ Encode(w) \/ Throw(w) \/ Crash(w) \/ \E j \in Jobs : Take(w, j)
    BY <2>3 DEF TranscodeBegin, StillBegin, PackageBegin, Complete, Reject, Encode, Throw, Crash,
      Take
  <2>4. CASE Record(w) \/ Upload(w) \/ PackageWrite(w)
    BY <2>4 DEF Record, Upload, PackageWrite, Put, Upserted
  <2> QED BY <1>4, <2>1, <2>2, <2>3, <2>4 DEF Progress
<1>5. CASE UNCHANGED vars
  BY <1>5 DEF vars
<1> QED BY <1>2, <1>3, <1>4, <1>5 DEF Next

-----------------------------------------------------------------------------
(* Runs.                                                                   *)

\* A run that did not move is as far as it was.
LEMMA RunStays ==
    ASSUME Inv, Grows, NEW v \in Workers,
           run'[v].job = run[v].job, run'[v].pc = run[v].pc, run'[v].put = run[v].put
    PROVE  RunOK(v)'
  BY DEF Inv, Grows, RunOK

LEMMA IdleRun == ASSUME NEW w \in Workers, run'[w] = Idle PROVE RunOK(w)'
  BY JobShapes DEF RunOK

LEMMA StoppedRun ==
    ASSUME Inv, Grows, NEW w \in Workers, run'[w].job = run[w].job,
           run'[w].pc \in {"failing", "rejected"}
    PROVE  RunOK(w)'
  BY DEF Inv, Grows, RunOK

LEMMA ProbeRun ==
    ASSUME Inv, Grows, NEW w \in Workers,
           ProbeBegin(w) \/ ProbeRead(w) \/ ProbeFanout(w) \/ ProbeAdvance(w)
    PROVE  RunOK(w)' /\ \A v \in Workers \ {w} : run'[v] = run[v]
<1> USE DEF Inv
<1>1. CASE ProbeBegin(w)
  BY <1>1, GotoRun, JobShapes DEF ProbeBegin, RunOK, At, Working
<1>2. CASE ProbeRead(w)
  <2>1. asset'.duration
    BY <1>2 DEF ProbeRead, PipelineTypeOK, Asset
  <2> QED BY <1>2, <2>1, GotoRun, JobShapes DEF ProbeRead, RunOK, At, Working
<1>3. CASE ProbeFanout(w)
  BY <1>3, GotoRun, JobShapes DEF ProbeFanout, RunOK, At, Working
<1>4. CASE ProbeAdvance(w)
  BY <1>4, GotoRun, JobShapes DEF ProbeAdvance, RunOK, At, Working
<1> QED BY <1>1, <1>2, <1>3, <1>4

LEMMA ChildRun ==
    ASSUME Inv, Grows, NEW w \in Workers,
           TranscodeBegin(w) \/ Encode(w) \/ StillBegin(w) \/ Upload(w) \/ Record(w)
    PROVE  RunOK(w)' /\ \A v \in Workers \ {w} : run'[v] = run[v]
<1> USE DEF Inv
<1>1. CASE TranscodeBegin(w)
  <2>1. CASE run[w].job \in rows
    BY <1>1, <2>1, GotoRun, JobShapes DEF TranscodeBegin, RunOK, At, Working
  <2>2. CASE run[w].job \notin rows /\ run[w].job \notin ladder
    BY <1>1, <2>2, CaughtRun, StoppedRun DEF TranscodeBegin
  <2>3. CASE run[w].job \notin rows /\ run[w].job \in ladder
    <3>1. /\ run'[w].pc = "encoding" /\ run'[w].job = run[w].job /\ run'[w].put = 0
          /\ run[w].job \in Rungs /\ \A v \in Workers \ {w} : run'[v] = run[v]
      BY <1>1, <2>3, GotoRun DEF TranscodeBegin, RunOK, At, Working
    <3> QED BY <3>1, JobShapes DEF RunOK
  <2> QED BY <2>1, <2>2, <2>3
<1>2. CASE Encode(w)
  <2>1. /\ run'[w].pc = "uploading" /\ run'[w].job = run[w].job /\ run'[w].put = 0
        /\ run[w].job \in Child
    BY <1>2, GotoRun, JobShapes DEF Encode, RunOK, At, Working
  <2>2. \A v \in Workers \ {w} : run'[v] = run[v]
    BY <1>2, GotoRun DEF Encode, Working
  <2> QED BY <2>1, <2>2, PartsTwo, JobShapes DEF RunOK
<1>3. CASE StillBegin(w)
  <2>1. CASE run[w].job \in rows
    BY <1>3, <2>1, GotoRun, JobShapes DEF StillBegin, RunOK, At, Working
  <2>2. CASE run[w].job \notin rows
    <3>1. /\ run'[w].pc = "uploading" /\ run'[w].job = run[w].job /\ run'[w].put = 0
          /\ run[w].job \in Child /\ \A v \in Workers \ {w} : run'[v] = run[v]
      BY <1>3, <2>2, GotoRun, JobShapes DEF StillBegin, RunOK, At, Working
    <3> QED BY <3>1, PartsTwo, JobShapes DEF RunOK
  <2> QED BY <2>1, <2>2
<1>4. CASE Upload(w)
  <2> DEFINE c == run[w].job
             n == run[w].put + 1
             pc == AfterPut(c, n)
  <2>1. run[w] \in Run /\ run \in [Workers -> Run]
    BY DEF PipelineTypeOK
  <2>2. /\ c \in Child /\ run[w].put \in Nat /\ run[w].put < Parts(c)
        /\ \A i \in 1..run[w].put : <<c, i>> \in uploaded
    BY <1>4, <2>1 DEF Upload, At, RunOK, Run
  <2>3. /\ run'[w].job = c /\ run'[w].put = n /\ run'[w].pc = pc
        /\ \A v \in Workers \ {w} : run'[v] = run[v]
    BY <1>4, <2>1 DEF Upload, Run
  <2>4. uploaded' = uploaded \cup {<<c, n>>}
    BY <1>4 DEF Upload, Put
  <2>5. \A i \in 1..n : <<c, i>> \in uploaded'
    BY <2>2, <2>4
  <2>6. pc = "recording" => PartsOf(c) \subseteq uploaded'
    BY <2>2, <2>5 DEF PartsOf, AfterPut
  <2>7. pc = "uploading" => n < Parts(c)
    BY <2>2, PartsTwo DEF AfterPut
  <2>8. pc \in {"recording", "uploading"}
    BY DEF AfterPut
  <2> HIDE DEF c, n, pc
  <2> QED BY <2>2, <2>3, <2>5, <2>6, <2>7, <2>8, JobShapes DEF RunOK
<1>5. CASE Record(w)
  BY <1>5, GotoRun, JobShapes DEF Record, Upserted, RunOK, At, Working
<1> QED BY <1>1, <1>2, <1>3, <1>4, <1>5

LEMMA PackageRun ==
    ASSUME Inv, Grows, NEW w \in Workers,
           PackageBegin(w) \/ PackageWrite(w) \/ PackageCommit(w)
    PROVE  RunOK(w)' /\ \A v \in Workers \ {w} : run'[v] = run[v]
<1> USE DEF Inv
<1>1. CASE PackageBegin(w)
  <2>1. CASE planned \subseteq rows /\ planned \subseteq ladder
    BY <1>1, <2>1, GotoRun, JobShapes DEF PackageBegin, RunOK, At, Working, Grows
  <2>2. CASE ~(planned \subseteq rows /\ planned \subseteq ladder)
    BY <1>1, <2>2, CaughtRun, StoppedRun DEF PackageBegin
  <2> QED BY <2>1, <2>2
<1>2. CASE PackageWrite(w)
  BY <1>2, GotoRun, JobShapes DEF PackageWrite, Put, RunOK, At, Working, Grows
<1>3. CASE PackageCommit(w)
  BY <1>3, GotoRun, JobShapes DEF PackageCommit, RunOK, At, Working, Grows
<1> QED BY <1>1, <1>2, <1>3

\* A worker takes the package job only when the queue let it go.
LEMMA TakenRun ==
    ASSUME Inv, Grows, NEW w \in Workers, NEW j \in Jobs, Take(w, j)
    PROVE  RunOK(w)'
<1>1. run'[w].pc = "begin" /\ run'[w].job = j /\ run'[w].put = 0
  BY TakeRun DEF Inv
<1>2. CASE j = "package"
  <2>1. Stills \subseteq rows /\ planned # {} /\ asset.duration
    BY <1>2 DEF Take, Inv, QueueOK
  <2> QED BY <1>1, <1>2, <2>1, JobShapes DEF RunOK, Grows
<1> QED BY <1>1, <1>2, JobShapes DEF RunOK

LEMMA RunStep ==
    ASSUME Inv, Grows, [Next]_vars
    PROVE  \A v \in Workers : RunOK(v)'
<1>1. CASE \/ AssetReady \/ LateProgress \/ Sweeping \/ (\E j \in Jobs : Replay(j) \/ Forget(j))
           \/ (\E r \in Rungs : Trim(r)) \/ UNCHANGED vars
  <2>1. run' = run
    BY <1>1 DEF AssetReady, LateProgress, Sweeping, SweepRead, SweepList, SweepDelete, SweepEnd,
      Replay, Forget, Trim, vars
  <2> QED BY <2>1, RunStays
<1>2. ASSUME NEW j \in Jobs, Stalled(j)
      PROVE  \A v \in Workers : RunOK(v)'
  <2>1. \A v \in Workers : /\ run'[v].job = run[v].job /\ run'[v].pc = run[v].pc
                            /\ run'[v].put = run[v].put
    <3>1. \A v \in Workers : run[v] \in Run
      BY DEF Inv, PipelineTypeOK
    <3> QED BY <1>2, <3>1 DEF Stalled, Run
  <2> QED BY <2>1, RunStays
<1>3. ASSUME NEW w \in Workers, Progress(w) \/ Throw(w) \/ Crash(w)
      PROVE  \A v \in Workers : RunOK(v)'
  <2> SUFFICES RunOK(w)' /\ \A v \in Workers \ {w} : run'[v] = run[v]
    BY RunStays
  <2>1. CASE ProbeBegin(w) \/ ProbeRead(w) \/ ProbeFanout(w) \/ ProbeAdvance(w)
    BY <2>1, ProbeRun
  <2>2. CASE TranscodeBegin(w) \/ Encode(w) \/ StillBegin(w) \/ Upload(w) \/ Record(w)
    BY <2>2, ChildRun
  <2>3. CASE PackageBegin(w) \/ PackageWrite(w) \/ PackageCommit(w)
    BY <2>3, PackageRun
  <2>4. CASE Throw(w)
    BY <2>4, CaughtRun, StoppedRun DEF Throw, Inv
  <2>5. CASE MarkFailed(w)
    BY <2>5, GotoRun, StoppedRun DEF MarkFailed, Inv
  <2>6. CASE Complete(w)
    BY <2>6, CompleteRun, IdleRun DEF Inv
  <2>7. CASE Reject(w)
    BY <2>7, RejectRun, IdleRun DEF Inv
  <2>8. CASE Crash(w)
    BY <2>8, IdleRun DEF Crash, Inv, PipelineTypeOK
  <2>9. CASE \E j \in Jobs : Take(w, j)
    BY <2>9, TakeRun, TakenRun DEF Inv
  <2> QED BY <1>3, <2>1, <2>2, <2>3, <2>4, <2>5, <2>6, <2>7, <2>8, <2>9 DEF Progress
<1> QED BY <1>1, <1>2, <1>3 DEF Next

-----------------------------------------------------------------------------
(* The queue and the plan.                                                 *)

\* Where only the states of child jobs that are not done change, all is kept.
LEMMA QueueStays ==
    ASSUME Inv, Grows, planned' = planned, waitsFor' = waitsFor,
           \A j \in Jobs : \/ queue'[j].state = queue[j].state
                          \/ /\ queue'[j].state \notin {"completed", "children"}
                             /\ j = "package" =>
                                  Stills \subseteq rows /\ planned # {} /\ asset.duration
    PROVE  QueueOK'
<1>1. \A c \in Child : queue'[c].state = "completed" => c \in rows'
  BY JobShapes DEF Inv, QueueOK, Grows
<1>2. \/ queue'["package"].state = queue["package"].state
      \/ /\ queue'["package"].state \notin {"completed", "children"}
         /\ Stills \subseteq rows /\ planned # {} /\ asset.duration
  BY JobShapes
<1> QED BY <1>1, <1>2 DEF Inv, QueueOK, Grows

LEMMA CompleteQueue ==
    ASSUME Inv, Grows, NEW w \in Workers, Complete(w)
    PROVE  QueueOK'
<1> DEFINE j == run[w].job
<1>1. RunOK(w) /\ run[w].pc = "done" /\ planned' = planned /\ rows' = rows
  BY DEF Inv, Complete
<1>2. j \in Child => j \in rows
  BY <1>1 DEF RunOK
<1>3. \A c \in Child : queue'[c].state = "completed" => c \in rows'
  BY <1>1, <1>2, CompleteRun, JobShapes DEF Inv, QueueOK
<1>4. waitsFor \subseteq Child /\ planned \cup Stills \subseteq Child
  BY JobShapes DEF Inv, PipelineTypeOK
<1>5. CASE queue'["package"] = queue["package"] /\ waitsFor \ {j} \subseteq waitsFor'
  BY <1>1, <1>2, <1>3, <1>4, <1>5 DEF Inv, QueueOK, Grows
<1>6. CASE queue'["package"].state = "completed" /\ j = "package"
  BY <1>1, <1>3, <1>6 DEF Inv, QueueOK, Grows, RunOK
<1>7. CASE /\ queue'["package"].state = "waiting" /\ queue["package"].state = "children"
           /\ waitsFor \subseteq {j}
  <2>1. Stills \subseteq rows
    BY <1>2, <1>4, <1>7 DEF Inv, QueueOK
  <2> QED BY <1>1, <1>3, <1>7, <2>1 DEF Inv, QueueOK, Grows
<1> QED BY <1>5, <1>6, <1>7, CompleteRun DEF Inv

LEMMA FanoutQueue ==
    ASSUME Inv, Grows, NEW w \in Workers, ProbeFanout(w)
    PROVE  QueueOK'
<1> DEFINE kids == ladder \cup Stills
           new == {c \in kids : queue[c].state = "none"}
<1>1. /\ asset.duration /\ rows' = rows /\ asset' = asset
      /\ ladder # {} /\ kids \subseteq Child /\ "package" \notin kids
  BY JobShapes DEF Inv, RunOK, ProbeFanout, At, PlanOK, PipelineTypeOK
<1>2. \A c \in Child : queue'[c].state = "completed" => c \in rows'
  BY <1>1, JobShapes DEF ProbeFanout, Fanout, Inv, QueueOK, Fresh
<1>3. CASE queue["package"].state = "none"
  <2>1. planned' = ladder /\ waitsFor' = {c \in kids : queue[c].state # "completed"}
    BY <1>3 DEF ProbeFanout, Fanout
  <2>2. queue'["package"] = [Absent EXCEPT !.state =
            IF \A c \in kids : queue[c].state = "completed" THEN "waiting" ELSE "children"]
    BY <1>1, <1>3, JobShapes DEF ProbeFanout, Fanout
  <2>3. queue'["package"].state =
            IF \A c \in kids : queue[c].state = "completed" THEN "waiting" ELSE "children"
    BY <2>2 DEF Absent
  <2>4. \A c \in kids : queue[c].state = "completed" => c \in rows
    BY <1>1 DEF Inv, QueueOK
  <2>5. planned' \cup Stills \subseteq waitsFor' \cup rows'
    BY <1>1, <2>1, <2>4
  <2>6. queue'["package"].state = "waiting" => Stills \subseteq rows'
    BY <1>1, <2>3, <2>4
  <2>7. planned' # {} /\ asset'.duration
    BY <1>1, <2>1
  <2>8. queue'["package"].state \in {"waiting", "children"}
    BY <2>3
  <2> QED BY <1>2, <2>5, <2>6, <2>7, <2>8 DEF QueueOK
<1>4. CASE queue["package"].state # "none"
  <2>1. queue'["package"] = queue["package"] /\ planned' = planned /\ waitsFor' = waitsFor \cup new
    BY <1>1, <1>4, JobShapes DEF ProbeFanout, Fanout
  <2> QED BY <1>1, <1>2, <2>1 DEF Inv, QueueOK
<1> QED BY <1>3, <1>4

\* What the queue released before, it may release again.
LEMMA Released ==
    ASSUME Inv, queue["package"].state \in {"waiting", "active", "completed", "failed"}
    PROVE  Stills \subseteq rows /\ planned # {} /\ asset.duration
  BY DEF Inv, QueueOK

LEMMA QueueStep ==
    ASSUME Inv, Grows, [Next]_vars
    PROVE  QueueOK'
<1>1. queue \in [Jobs -> Entry]
  BY DEF Inv, PipelineTypeOK
<1>2. CASE \/ LateProgress \/ Sweeping \/ (\E r \in Rungs : Trim(r)) \/ UNCHANGED vars
  <2>1. queue' = queue /\ planned' = planned /\ waitsFor' = waitsFor
    BY <1>2 DEF LateProgress, Sweeping, SweepRead, SweepList, SweepDelete, SweepEnd, Trim, vars
  <2>2. \A j \in Jobs : queue'[j].state = queue[j].state
    BY <2>1
  <2> QED BY <2>1, <2>2, QueueStays
<1>3. CASE AssetReady
  <2>1. \A j \in Jobs \ {"probe"} : queue'[j] = queue[j]
    BY <1>1, <1>3 DEF AssetReady, Added
  <2> QED BY <1>3, <2>1, JobShapes DEF AssetReady, Inv, QueueOK, Grows
<1>4. ASSUME NEW j \in Jobs, Stalled(j) \/ Replay(j)
      PROVE  QueueOK'
  <2>1. planned' = planned /\ waitsFor' = waitsFor /\ queue[j].state \in {"active", "failed"}
    BY <1>4 DEF Stalled, Replay
  <2>2. queue'[j].state \in {"waiting", "failed"}
    BY <1>1, <1>4 DEF Stalled, Replay, Entry
  <2>3. \A i \in Jobs \ {j} : queue'[i] = queue[i]
    BY <1>1, <1>4 DEF Stalled, Replay
  <2>4. j = "package" => Stills \subseteq rows /\ planned # {} /\ asset.duration
    BY <2>1, Released
  <2>5. \A i \in Jobs : \/ queue'[i].state = queue[i].state
                        \/ /\ queue'[i].state \notin {"completed", "children"}
                           /\ i = "package" =>
                                Stills \subseteq rows /\ planned # {} /\ asset.duration
    BY <2>2, <2>3, <2>4
  <2> QED BY <2>1, <2>5, QueueStays
<1>5. ASSUME NEW j \in Jobs, Forget(j)
      PROVE  QueueOK'
  <2>1. queue'[j].state = "none" /\ \A i \in Jobs \ {j} : queue'[i] = queue[i]
    BY <1>1, <1>5 DEF Forget, Absent
  <2>2. rows' = rows /\ asset' = asset /\ planned' = planned /\ waitsFor' = waitsFor
    BY <1>5 DEF Forget
  <2>3. \A c \in Child : queue'[c].state = "completed" => c \in rows'
    BY <2>1, <2>2, JobShapes DEF Inv, QueueOK
  <2>4. queue'["package"].state = "none" \/ queue'["package"].state = queue["package"].state
    BY <2>1, JobShapes
  <2> QED BY <2>2, <2>3, <2>4 DEF Inv, QueueOK
<1>6. ASSUME NEW w \in Workers, Progress(w) \/ Throw(w) \/ Crash(w)
      PROVE  QueueOK'
  <2>1. CASE Complete(w)
    BY <2>1, CompleteQueue
  <2>2. CASE ProbeFanout(w)
    BY <2>2, FanoutQueue
  <2>3. CASE Reject(w)
    <3>1. planned' = planned /\ waitsFor' = waitsFor
      BY <2>3 DEF Reject
    <3>2. run[w].job = "package" => Stills \subseteq rows /\ planned # {} /\ asset.duration
      BY DEF Inv, RunOK
    <3>3. \A i \in Jobs : \/ queue'[i].state = queue[i].state
                          \/ /\ queue'[i].state \notin {"completed", "children"}
                             /\ i = "package" =>
                                  Stills \subseteq rows /\ planned # {} /\ asset.duration
      <4>1. PipelineTypeOK
        BY DEF Inv
      <4>2. \A i \in Jobs : \/ queue'[i].state = queue[i].state
                            \/ i = run[w].job /\ queue'[i].state \in {"failed", "waiting"}
        BY <2>3, <4>1, RejectRun
      <4> QED BY <3>2, <4>2
    <3> QED BY <3>1, <3>3, QueueStays
  <2>4. CASE \E j \in Jobs : Take(w, j)
    <3>1. PICK j \in Jobs : Take(w, j)
      BY <2>4
    <3>2. planned' = planned /\ waitsFor' = waitsFor /\ queue[j].state = "waiting"
      BY <3>1 DEF Take
    <3>3. queue'[j].state = "active" /\ \A i \in Jobs \ {j} : queue'[i] = queue[i]
      BY <3>1, TakeRun DEF Inv
    <3>4. j = "package" => Stills \subseteq rows /\ planned # {} /\ asset.duration
      BY <3>2, Released
    <3>5. \A i \in Jobs : \/ queue'[i].state = queue[i].state
                          \/ /\ queue'[i].state \notin {"completed", "children"}
                             /\ i = "package" =>
                                  Stills \subseteq rows /\ planned # {} /\ asset.duration
      BY <3>3, <3>4
    <3> QED BY <3>2, <3>5, QueueStays
  <2>5. CASE \/ ProbeBegin(w) \/ ProbeRead(w) \/ ProbeAdvance(w) \/ TranscodeBegin(w) \/ Encode(w)
             \/ StillBegin(w) \/ Upload(w) \/ Record(w) \/ PackageBegin(w) \/ PackageWrite(w)
             \/ PackageCommit(w) \/ MarkFailed(w) \/ Throw(w) \/ Crash(w)
    <3>1. queue' = queue /\ planned' = planned /\ waitsFor' = waitsFor
      BY <2>5 DEF ProbeBegin, ProbeRead, ProbeAdvance, TranscodeBegin, Encode, StillBegin, Upload,
        Record, PackageBegin, PackageWrite, PackageCommit, MarkFailed, Throw, Crash
    <3>2. \A j \in Jobs : queue'[j].state = queue[j].state
      BY <3>1
    <3> QED BY <3>1, <3>2, QueueStays
  <2> QED BY <1>6, <2>1, <2>2, <2>3, <2>4, <2>5 DEF Progress
<1> QED BY <1>2, <1>3, <1>4, <1>5, <1>6 DEF Next

\* The steps that touch the rows, the bucket, the plan, the ladder or the sweep.
LEMMA Frame ==
    ASSUME [Next]_vars
    PROVE  \/ UNCHANGED <<rows, bucket, uploaded, ladder, planned, sweep>>
           \/ \E w \in Workers : \/ ProbeFanout(w) \/ Upload(w) \/ Record(w) \/ PackageWrite(w)
                                 \/ PackageCommit(w)
           \/ Sweeping
           \/ \E r \in Rungs : Trim(r)
<1>1. CASE AssetReady \/ LateProgress
  BY <1>1 DEF AssetReady, LateProgress
<1>2. ASSUME NEW j \in Jobs, Stalled(j) \/ Replay(j) \/ Forget(j)
      PROVE  UNCHANGED <<rows, bucket, uploaded, ladder, planned, sweep>>
  <2>1. CASE Stalled(j)
    BY <2>1 DEF Stalled
  <2>2. CASE Replay(j) \/ Forget(j)
    BY <2>2 DEF Replay, Forget
  <2> QED BY <1>2, <2>1, <2>2
<1>3. CASE UNCHANGED vars
  BY <1>3 DEF vars
<1>4. ASSUME NEW w \in Workers, Progress(w) \/ Throw(w) \/ Crash(w)
      PROVE  \/ UNCHANGED <<rows, bucket, uploaded, ladder, planned, sweep>>
             \/ ProbeFanout(w) \/ Upload(w) \/ Record(w) \/ PackageWrite(w) \/ PackageCommit(w)
  <2>1. CASE ProbeBegin(w) \/ ProbeRead(w) \/ ProbeAdvance(w)
    BY <2>1 DEF ProbeBegin, ProbeRead, ProbeAdvance
  <2>2. CASE TranscodeBegin(w) \/ Encode(w)
    BY <2>2 DEF TranscodeBegin, Encode
  <2>3. CASE StillBegin(w) \/ PackageBegin(w)
    BY <2>3 DEF StillBegin, PackageBegin
  <2>4. CASE MarkFailed(w) \/ Complete(w)
    BY <2>4 DEF MarkFailed, Complete
  <2>5. CASE Reject(w)
    BY <2>5 DEF Reject
  <2>6. CASE Throw(w) \/ Crash(w)
    BY <2>6 DEF Throw, Crash
  <2>7. CASE \E j \in Jobs : Take(w, j)
    BY <2>7 DEF Take
  <2> QED BY <1>4, <2>1, <2>2, <2>3, <2>4, <2>5, <2>6, <2>7 DEF Progress
<1>5. CASE AssetReady \/ LateProgress \/ \E j \in Jobs : Stalled(j) \/ Replay(j) \/ Forget(j)
  BY <1>1, <1>2, <1>5
<1>6. CASE \E w \in Workers : Progress(w) \/ Throw(w) \/ Crash(w)
  BY <1>4, <1>6
<1> QED BY <1>3, <1>5, <1>6 DEF Next

\* A trimmed ladder still has a rung, and the first plan is the ladder of its day.
LEMMA PlanStep ==
    ASSUME Inv, [Next]_vars
    PROVE  PlanOK'
<1>1. ladder # {} /\ ladder \subseteq Rungs /\ (planned # {} => ladder \subseteq planned)
  BY DEF Inv, PlanOK, PipelineTypeOK
<1>2. CASE \E r \in Rungs : Trim(r)
  BY <1>1, <1>2 DEF Trim, PlanOK
<1>3. CASE \E w \in Workers : ProbeFanout(w)
  <2>1. ladder' = ladder /\ (planned' = ladder \/ planned' = planned)
    BY <1>3 DEF ProbeFanout, Fanout
  <2> QED BY <1>1, <2>1 DEF PlanOK
<1>4. CASE ladder' = ladder /\ planned' = planned
  BY <1>1, <1>4 DEF PlanOK
<1>5. CASE Sweeping \/ \E w \in Workers : Upload(w) \/ Record(w) \/ PackageWrite(w)
                                           \/ PackageCommit(w)
  BY <1>4, <1>5 DEF Sweeping, SweepRead, SweepList, SweepDelete, SweepEnd, Upload, Record,
    PackageWrite, PackageCommit
<1> QED BY <1>2, <1>3, <1>4, <1>5, Frame

-----------------------------------------------------------------------------
(* The bucket and the sweep.                                               *)

LEMMA SweepKeeps ==
    ASSUME Inv, Grows, sweep' = sweep
    PROVE  SweepOK'
<1>1. SweepOK /\ (planned # {} => planned' # {} /\ planned' \subseteq planned)
  BY DEF Inv, Grows
<1> QED BY <1>1 DEF SweepOK

LEMMA SweepStep ==
    ASSUME Inv, Grows, [Next]_vars
    PROVE  SweepOK'
<1>1. SweepOK /\ sweep \in Inventory
  BY DEF Inv, PipelineTypeOK
<1>2. CASE SweepRead
  <2>1. sweep' = [pc |-> "listing", names |-> rows, status |-> asset.pipeline, todo |-> {}]
    BY <1>2 DEF SweepRead
  <2>2. sweep'.todo = {} /\ sweep'.names = rows /\ sweep'.status = asset.pipeline
        /\ planned' = planned
    BY <1>2, <2>1 DEF SweepRead
  <2>3. asset.pipeline = "READY" => planned # {} /\ planned \subseteq rows
    BY DEF Inv, ReadyIsComplete
  <2> QED BY <2>2, <2>3 DEF SweepOK
<1>3. CASE SweepList
  <2>1. /\ sweep'.todo = OrphansIn(sweep.names, bucket) /\ sweep'.names = sweep.names
        /\ sweep'.status = sweep.status /\ planned' = planned
    BY <1>1, <1>3 DEF SweepList, Inventory
  <2> QED BY <1>1, <2>1 DEF SweepOK, OrphansIn
<1>4. CASE \E k \in Objects : SweepDelete(k)
  <2>1. /\ sweep'.todo \subseteq sweep.todo /\ sweep'.names = sweep.names
        /\ sweep'.status = sweep.status /\ planned' = planned
    BY <1>1, <1>4 DEF SweepDelete, Inventory
  <2> QED BY <1>1, <2>1 DEF SweepOK
<1>5. CASE SweepEnd
  <2>1. sweep'.todo = {} /\ sweep'.status = "none"
    BY <1>5 DEF SweepEnd, NoSweep
  <2> QED BY <2>1 DEF SweepOK
<1>6. CASE \/ \E r \in Rungs : Trim(r)
           \/ \E w \in Workers : \/ ProbeFanout(w) \/ Upload(w) \/ Record(w) \/ PackageWrite(w)
                                 \/ PackageCommit(w)
  BY <1>6, SweepKeeps DEF Trim, ProbeFanout, Upload, Record, PackageWrite, PackageCommit
<1> QED BY <1>2, <1>3, <1>4, <1>5, <1>6, Frame, SweepKeeps DEF Sweeping

\* Only a sweep takes an object away, and only what its inventory lets it.
LEMMA Deletes ==
    ASSUME [Next]_vars
    PROVE  \A k \in bucket \ bucket' : k \in sweep.todo
<1>1. CASE \/ \E r \in Rungs : Trim(r)
           \/ \E w \in Workers : ProbeFanout(w) \/ Record(w) \/ PackageCommit(w)
  BY <1>1 DEF Trim, ProbeFanout, Record, PackageCommit
<1>2. CASE \E w \in Workers : Upload(w) \/ PackageWrite(w)
  BY <1>2 DEF Upload, PackageWrite, Put
<1>3. CASE Sweeping
  BY <1>3 DEF Sweeping, SweepRead, SweepList, SweepDelete, SweepEnd
<1> QED BY <1>1, <1>2, <1>3, Frame

LEMMA BucketStep ==
    ASSUME Inv, [Next]_vars
    PROVE  BucketOK'
<1>1. BucketOK /\ \A k \in sweep.todo : k[1] \in Rungs
  BY DEF Inv, SweepOK
<1>2. \A k \in bucket \ bucket' : k[1] \in Rungs
  BY <1>1, Deletes
<1>3. \A k \in uploaded' \ uploaded : k \in bucket'
  <2>1. CASE \E w \in Workers : Upload(w) \/ PackageWrite(w)
    BY <2>1 DEF Upload, PackageWrite, Put
  <2>2. CASE \/ Sweeping \/ \E r \in Rungs : Trim(r)
             \/ \E w \in Workers : ProbeFanout(w) \/ Record(w) \/ PackageCommit(w)
    BY <2>2 DEF Trim, ProbeFanout, Record, PackageCommit, Sweeping, SweepRead, SweepList,
      SweepDelete, SweepEnd
  <2> QED BY <2>1, <2>2, Frame
<1> QED BY <1>1, <1>2, <1>3 DEF BucketOK

-----------------------------------------------------------------------------
(* The properties.                                                         *)

LEMMA RowsStep ==
    ASSUME Inv, Grows, [Next]_vars
    PROVE  RowMeansUploaded'
<1>1. \A c \in rows \cap Child : PartsOf(c) \subseteq uploaded
  BY DEF Inv, RowMeansUploaded
<1>2. CASE \E w \in Workers : Record(w)
  <2>1. PICK w \in Workers : Record(w)
    BY <1>2
  <2>2. PartsOf(run[w].job) \subseteq uploaded
    BY <2>1 DEF Inv, RunOK, Record, At
  <2>3. rows' = rows \cup {run[w].job} /\ uploaded' = uploaded
    BY <2>1 DEF Record, Upserted
  <2> QED BY <1>1, <2>2, <2>3 DEF RowMeansUploaded
<1>3. CASE \E w \in Workers : PackageCommit(w)
  <2>1. rows' = rows \cup {"master"} /\ uploaded' = uploaded
    BY <1>3 DEF PackageCommit, Upserted
  <2> QED BY <1>1, <2>1, JobShapes DEF RowMeansUploaded
<1>4. CASE rows' = rows
  BY <1>1, <1>4 DEF RowMeansUploaded, Grows
<1>5. CASE \/ Sweeping \/ \E r \in Rungs : Trim(r)
           \/ \E w \in Workers : ProbeFanout(w) \/ Upload(w) \/ PackageWrite(w)
  BY <1>4, <1>5 DEF Trim, ProbeFanout, Upload, PackageWrite, Sweeping, SweepRead, SweepList,
    SweepDelete, SweepEnd
<1> QED BY <1>2, <1>3, <1>4, <1>5, Frame

\* The steps that touch the asset row; the unit of work of packaging is the one
\* that makes it READY.
LEMMA AssetFrame ==
    ASSUME PipelineTypeOK, [Next]_vars, asset'.pipeline = "READY",
           ~\E w \in Workers : PackageCommit(w)
    PROVE  asset.pipeline = "READY" /\ (asset.percent = 3 => asset'.percent = 3)
<1>1. asset \in Asset
  BY DEF PipelineTypeOK
<1>2. CASE LateProgress \/ \E w \in Workers : ProbeAdvance(w)
  BY <1>1, <1>2 DEF LateProgress, ProbeAdvance, Advanced, Asset, Percent
<1>3. CASE \E w \in Workers : ProbeBegin(w) \/ ProbeRead(w) \/ MarkFailed(w)
  BY <1>1, <1>3 DEF ProbeBegin, ProbeRead, MarkFailed, Asset
<1>4. CASE asset' = asset
  BY <1>4
<1>5. CASE \E j \in Jobs : Stalled(j) \/ Replay(j) \/ Forget(j)
  <2>1. asset' = asset
    BY <1>5 DEF Stalled, Replay, Forget
  <2> QED BY <1>4, <2>1
<1>6. CASE AssetReady \/ Sweeping \/ (\E r \in Rungs : Trim(r)) \/ UNCHANGED vars
  <2>1. asset' = asset
    BY <1>6 DEF AssetReady, Sweeping, SweepRead, SweepList, SweepDelete, SweepEnd, Trim, vars
  <2> QED BY <1>4, <2>1
<1>7. ASSUME NEW w \in Workers, Progress(w) \/ Throw(w) \/ Crash(w)
      PROVE  \/ asset' = asset
             \/ ProbeBegin(w) \/ ProbeRead(w) \/ ProbeAdvance(w) \/ MarkFailed(w)
             \/ PackageCommit(w)
  <2>1. CASE ProbeFanout(w) \/ TranscodeBegin(w)
    BY <2>1 DEF ProbeFanout, TranscodeBegin
  <2>2. CASE StillBegin(w) \/ Encode(w)
    BY <2>2 DEF StillBegin, Encode
  <2>3. CASE Upload(w) \/ Record(w)
    BY <2>3 DEF Upload, Record
  <2>4. CASE PackageBegin(w) \/ PackageWrite(w) \/ Complete(w)
    BY <2>4 DEF PackageBegin, PackageWrite, Complete
  <2>5. CASE Reject(w)
    BY <2>5 DEF Reject
  <2>6. CASE Throw(w) \/ Crash(w)
    BY <2>6 DEF Throw, Crash
  <2>7. CASE \E j \in Jobs : Take(w, j)
    BY <2>7 DEF Take
  <2> QED BY <1>7, <2>1, <2>2, <2>3, <2>4, <2>5, <2>6, <2>7 DEF Progress
<1>8. CASE \E w \in Workers : Progress(w) \/ Throw(w) \/ Crash(w)
  BY <1>2, <1>3, <1>4, <1>7, <1>8
<1> QED BY <1>2, <1>5, <1>6, <1>8 DEF Next

LEMMA ReadyStep ==
    ASSUME Inv, Grows, RowMeansUploaded', BucketOK', [Next]_vars
    PROVE  ReadyIsComplete'
<1> SUFFICES ASSUME asset'.pipeline = "READY"
             PROVE  ReadyIsComplete'
  BY DEF ReadyIsComplete
<1>1. ASSUME Stills \subseteq rows'
      PROVE  \A s \in Stills : PartsOf(s) \subseteq bucket'
  <2> SUFFICES ASSUME NEW s \in Stills PROVE PartsOf(s) \subseteq bucket'
    OBVIOUS
  <2>1. PartsOf(s) \subseteq uploaded' /\ s \notin Rungs
    BY <1>1, JobShapes DEF RowMeansUploaded
  <2> QED BY <2>1 DEF BucketOK, PartsOf
<1>2. CASE \E w \in Workers : PackageCommit(w)
  <2>1. PICK w \in Workers : PackageCommit(w)
    BY <1>2
  <2>2. /\ planned # {} /\ planned \cup Stills \subseteq rows /\ Master \in uploaded
        /\ asset.duration
    BY <2>1 DEF Inv, RunOK, PackageCommit, At
  <2>3. rows' = rows \cup {"master"} /\ uploaded' = uploaded /\ planned' = planned
    BY <2>1 DEF PackageCommit, Upserted
  <2>4. asset'.percent = 3 /\ asset'.duration
    BY <2>1, <2>2 DEF PackageCommit, Inv, PipelineTypeOK, Asset
  <2>5. Master \in bucket'
    BY <2>2, <2>3, ObjectShapes DEF BucketOK
  <2> QED BY <1>1, <2>2, <2>3, <2>4, <2>5 DEF ReadyIsComplete
<1>3. CASE ~\E w \in Workers : PackageCommit(w)
  <2>1. asset.pipeline = "READY" /\ (asset.percent = 3 => asset'.percent = 3)
    BY <1>3, AssetFrame DEF Inv
  <2>2. /\ asset.percent = 3 /\ asset.duration /\ Master \in bucket
        /\ planned # {} /\ planned \cup Stills \cup {"master"} \subseteq rows
    BY <2>1 DEF Inv, ReadyIsComplete
  <2>3. Master \in bucket'
    <3>1. \A k \in sweep.todo : k[1] \in Rungs
      BY DEF Inv, SweepOK
    <3> QED BY <2>2, <3>1, Deletes, ObjectShapes
  <2>4. /\ asset'.duration /\ planned' # {} /\ planned' \subseteq planned /\ rows \subseteq rows'
    BY <2>2 DEF Grows
  <2> QED BY <1>1, <2>1, <2>2, <2>3, <2>4 DEF ReadyIsComplete
<1> QED BY <1>2, <1>3

LEMMA InvStep ==
    ASSUME Inv, [Next]_vars
    PROVE  Inv'
<1>1. PipelineTypeOK' /\ Grows
  BY TypeStep, GrowsStep DEF Inv
<1>2. (\A w \in Workers : RunOK(w)') /\ QueueOK' /\ PlanOK' /\ BucketOK' /\ SweepOK'
  BY <1>1, RunStep, QueueStep, PlanStep, BucketStep, SweepStep
<1>3. RowMeansUploaded' /\ ReadyIsComplete'
  BY <1>1, <1>2, RowsStep, ReadyStep
<1> QED BY <1>1, <1>2, <1>3 DEF Inv

\* What the sweep deletes in a step is what its inventory allowed.
LEMMA SparesStep ==
    ASSUME Inv, [Next]_vars
    PROVE  \A k \in bucket \ bucket' :
              /\ k[1] \in Rungs \ sweep.names
              /\ sweep.status = "READY" => k[1] \notin planned
<1>1. SweepOK
  BY DEF Inv
<1> QED BY <1>1, Deletes DEF SweepOK

-----------------------------------------------------------------------------
(* No asset is stranded without a trace. A lock stands for an active job   *)
(* (LockOK); the package job waits only for children that are on their way *)
(* or dead letters (WaitOK); nothing but the probe job exists before the   *)
(* first probe (BeforeProbe); and until the asset is settled the package   *)
(* job is not completed, and missing only while the probe can still add it *)
(* (OneProbe).                                                             *)

LockOK ==
    /\ \A w \in Workers :
          run[w].locked => run[w].job \in Jobs /\ queue[run[w].job].state = "active"
    /\ \A v, w \in Workers : run[v].locked /\ run[w].locked /\ run[v].job = run[w].job => v = w

WaitOK ==
    /\ \A j \in Jobs \ {"package"} : queue[j].state # "children"
    /\ queue["package"].state = "children" =>
          /\ waitsFor # {}
          /\ \A c \in waitsFor : queue[c].state \in {"waiting", "active", "failed"}

BeforeProbe ==
    probes = 0 =>
        /\ \A j \in Jobs \ {"probe"} : queue[j].state = "none"
        /\ queue["probe"].state \in {"none", "waiting", "active", "failed"}
        /\ \A w \in Workers : /\ run[w].job \in {"probe", None}
                              /\ run[w].pc \in {"idle", "begin", "failing", "rejected"}
        /\ queue["probe"].state = "none" => \A w \in Workers : run[w].pc = "idle"

OneProbe ==
    probes = 1 /\ asset.pipeline = "RUNNING" =>
        /\ queue["package"].state # "completed"
        /\ queue["package"].state = "none" =>
              queue["probe"].state \in {"waiting", "active", "failed"}
        /\ \A w \in Workers :
              /\ ~(run[w].job = "package" /\ run[w].pc = "done")
              /\ run[w].job = "probe" /\ run[w].pc \in {"advancing", "done"} =>
                    queue["package"].state # "none"

Tracked == LockOK /\ WaitOK /\ BeforeProbe /\ OneProbe

\* Nothing is queued, running or waited for.
LEMMA InitTracked == Init => Tracked
<1> SUFFICES ASSUME Init PROVE Tracked
  OBVIOUS
<1>1. /\ \A j \in Jobs : queue[j].state = "none"
      /\ \A w \in Workers : run[w] = Idle
      /\ probes = 0
  BY JobShapes DEF Init
<1>2. LockOK
  BY <1>1, JobShapes DEF LockOK
<1>3. WaitOK
  BY <1>1, JobShapes DEF WaitOK
<1>4. BeforeProbe /\ OneProbe
  BY <1>1, JobShapes DEF BeforeProbe, OneProbe
<1> QED BY <1>2, <1>3, <1>4 DEF Tracked

\* A step inside a run: the queue is as it was, and only the run moved.
Moved(w, pcs) ==
    /\ queue' = queue /\ waitsFor' = waitsFor
    /\ run'[w].job = run[w].job /\ run'[w].locked = run[w].locked /\ run'[w].pc \in pcs
    /\ \A v \in Workers \ {w} : run'[v] = run[v]

\* Locks and waiting do not depend on how far a run is.
LEMMA MovedKeeps ==
    ASSUME Tracked, NEW w \in Workers, NEW pcs, Moved(w, pcs)
    PROVE  LockOK' /\ WaitOK'
<1>1. \A v \in Workers : run'[v].job = run[v].job /\ run'[v].locked = run[v].locked
  BY DEF Moved
<1>2. LockOK'
  BY <1>1 DEF LockOK, Tracked, Moved
<1>3. WaitOK'
  BY DEF WaitOK, Tracked, Moved
<1> QED BY <1>2, <1>3

\* A step of a run that has nothing to do with probes and package commits.
LEMMA MovedTracked ==
    ASSUME Tracked, NEW w \in Workers, NEW pcs, Moved(w, pcs),
           probes' = probes, asset'.pipeline = asset.pipeline,
           \/ pcs \subseteq {"failing", "rejected"} /\ run[w].pc # "idle"
           \/ /\ pcs \cap {"idle", "advancing"} = {} /\ run[w].pc \in Working
              /\ probes # 0 /\ run[w].job \in Jobs
              /\ "done" \in pcs => \/ run[w].job \in Child
                                   \/ run[w].job = "probe" /\ run[w].pc = "advancing"
    PROVE  Tracked'
<1>1. LockOK' /\ WaitOK'
  BY MovedKeeps
<1>2. BeforeProbe'
  BY DEF BeforeProbe, Tracked, Moved
<1>3. OneProbe'
  BY JobShapes DEF OneProbe, Tracked, Moved
<1> QED BY <1>1, <1>2, <1>3 DEF Tracked

\* Nothing but a probe that has not begun runs before the first probe.
LEMMA Begun ==
    ASSUME Tracked, NEW w \in Workers, run[w].pc \in Working,
           run[w].pc # "begin" \/ run[w].job \in Jobs \ {"probe"}
    PROVE  probes # 0
  BY JobShapes DEF Tracked, BeforeProbe, Working

\* The first probe sets the asset RUNNING; after a second one nothing is claimed.
LEMMA ProbeBeginTracked ==
    ASSUME Inv, Tracked, NEW w \in Workers, ProbeBegin(w)
    PROVE  Tracked'
<1>1. Moved(w, {"probing"}) /\ run[w].job = "probe" /\ run[w].pc = "begin"
  BY GotoRun DEF Inv, ProbeBegin, Moved, At, Working
<1>2. LockOK' /\ WaitOK'
  BY <1>1, MovedKeeps
<1>3. probes \in 0..2 /\ probes' = IF probes < 2 THEN probes + 1 ELSE 2
  BY DEF Inv, PipelineTypeOK, ProbeBegin
<1>4. BeforeProbe'
  BY <1>3 DEF BeforeProbe
<1>5. OneProbe'
  <2> SUFFICES ASSUME probes = 0 PROVE OneProbe'
    BY <1>3 DEF OneProbe
  <2>1. /\ queue["package"].state = "none"
        /\ queue["probe"].state \in {"waiting", "active", "failed"}
    BY <1>1, JobShapes DEF Tracked, BeforeProbe
  <2>2. \A v \in Workers : run'[v].pc \notin {"advancing", "done"}
    BY <1>1 DEF Tracked, BeforeProbe, Moved
  <2> QED BY <1>1, <2>1, <2>2 DEF OneProbe, Moved
<1> QED BY <1>2, <1>4, <1>5 DEF Tracked

\* The other steps of a probe that touch no job.
LEMMA ProbeTracked ==
    ASSUME Inv, Tracked, NEW w \in Workers, ProbeRead(w) \/ ProbeAdvance(w)
    PROVE  Tracked'
<1>1. asset \in Asset /\ 1 \in Percent
  BY DEF Inv, PipelineTypeOK, Percent
<1>2. CASE ProbeRead(w)
  <2>1. Moved(w, {"fanning"}) /\ run[w].job = "probe" /\ run[w].pc = "probing"
    BY <1>2, GotoRun DEF Inv, ProbeRead, Moved, At, Working
  <2>2. probes' = probes /\ asset'.pipeline = asset.pipeline
    BY <1>1, <1>2 DEF ProbeRead, Asset
  <2>3. run[w].pc \in Working /\ probes # 0
    BY <2>1, Begun DEF Working
  <2> QED BY <2>1, <2>2, <2>3, MovedTracked, JobShapes
<1>3. CASE ProbeAdvance(w)
  <2>1. Moved(w, {"done"}) /\ run[w].job = "probe" /\ run[w].pc = "advancing"
    BY <1>3, GotoRun DEF Inv, ProbeAdvance, Moved, At, Working
  <2>2. probes' = probes /\ asset'.pipeline = asset.pipeline
    BY <1>1, <1>3, AdvancedType DEF ProbeAdvance
  <2>3. run[w].pc \in Working /\ probes # 0
    BY <2>1, Begun DEF Working
  <2> QED BY <2>1, <2>2, <2>3, MovedTracked, JobShapes
<1> QED BY <1>2, <1>3

\* A child's run.
LEMMA ChildTracked ==
    ASSUME Inv, Tracked, NEW w \in Workers,
           TranscodeBegin(w) \/ Encode(w) \/ StillBegin(w) \/ Upload(w) \/ Record(w)
    PROVE  Tracked'
<1>1. probes' = probes /\ asset' = asset /\ queue' = queue /\ waitsFor' = waitsFor
  BY DEF TranscodeBegin, Encode, StillBegin, Upload, Record
<1>2. run[w].job \in Child /\ run[w].pc \in Working
  BY JobShapes DEF TranscodeBegin, Encode, StillBegin, Upload, Record, At, Working
<1>3. probes # 0 /\ run[w].job \in Jobs
  BY <1>2, Begun, JobShapes
<1>4. ASSUME Moved(w, {"encoding", "uploading", "recording", "done"})
      PROVE  Tracked'
  BY <1>1, <1>2, <1>3, <1>4, MovedTracked
<1>5. ASSUME Moved(w, {"failing", "rejected"})
      PROVE  Tracked'
  <2>1. run[w].pc # "idle"
    BY <1>2 DEF Working
  <2> QED BY <1>1, <1>5, <2>1, MovedTracked
<1>6. CASE Encode(w) \/ StillBegin(w) \/ Record(w)
  BY <1>1, <1>4, <1>6, GotoRun DEF Inv, Encode, StillBegin, Record, Moved, Working
<1>7. CASE TranscodeBegin(w)
  <2>1. CASE Goto(w, "done") \/ Goto(w, "encoding")
    BY <1>1, <1>4, <2>1, GotoRun DEF Inv, Moved, Working
  <2>2. CASE Caught(w, TRUE)
    BY <1>1, <1>5, <2>2, CaughtRun DEF Inv, Moved
  <2> QED BY <1>7, <2>1, <2>2 DEF TranscodeBegin
<1>8. CASE Upload(w)
  <2> DEFINE n == run[w].put + 1
             pc == AfterPut(run[w].job, n)
             next == [run[w] EXCEPT !.put = n, !.pc = pc]
  <2>1. run \in [Workers -> Run] /\ run[w] \in Run
    BY DEF Inv, PipelineTypeOK
  <2>2. run' = [run EXCEPT ![w] = next]
    BY <1>8, <2>1 DEF Upload
  <2>3. pc \in {"uploading", "recording"}
    BY DEF AfterPut
  <2> HIDE DEF pc
  <2>4. next.pc = pc /\ next.job = run[w].job /\ next.locked = run[w].locked
    BY <2>1 DEF Run
  <2> HIDE DEF next
  <2>5. Moved(w, {"encoding", "uploading", "recording", "done"})
    BY <1>1, <2>1, <2>2, <2>3, <2>4 DEF Moved
  <2> QED BY <1>4, <2>5
<1> QED BY <1>6, <1>7, <1>8

\* A package run; once it commits, the asset is no longer RUNNING.
LEMMA PackageTracked ==
    ASSUME Inv, Tracked, NEW w \in Workers,
           PackageBegin(w) \/ PackageWrite(w) \/ PackageCommit(w)
    PROVE  Tracked'
<1>1. probes' = probes /\ queue' = queue /\ waitsFor' = waitsFor
  BY DEF PackageBegin, PackageWrite, PackageCommit
<1>2. run[w].job = "package" /\ run[w].pc \in Working
  BY DEF PackageBegin, PackageWrite, PackageCommit, At, Working
<1>3. probes # 0 /\ run[w].job \in Jobs
  BY <1>2, Begun, JobShapes
<1>4. CASE PackageWrite(w)
  <2>1. Moved(w, {"committing"}) /\ asset' = asset
    BY <1>1, <1>4, GotoRun DEF Inv, PackageWrite, Moved, Working
  <2> QED BY <1>1, <1>2, <1>3, <2>1, MovedTracked
<1>5. CASE PackageBegin(w)
  <2>1. asset' = asset
    BY <1>5 DEF PackageBegin
  <2>2. CASE Goto(w, "writing")
    <3>1. Moved(w, {"writing"})
      BY <1>1, <2>2, GotoRun DEF Inv, Moved, Working
    <3> QED BY <1>1, <1>2, <1>3, <2>1, <3>1, MovedTracked
  <2>3. CASE \E fatal \in BOOLEAN : Caught(w, fatal)
    <3>1. Moved(w, {"failing", "rejected"}) /\ run[w].pc # "idle"
      BY <1>1, <1>2, <2>3, CaughtRun DEF Inv, Moved, Working
    <3> QED BY <1>1, <2>1, <3>1, MovedTracked
  <2> QED BY <1>5, <2>2, <2>3 DEF PackageBegin
<1>6. CASE PackageCommit(w)
  <2>1. Moved(w, {"done"})
    BY <1>1, <1>6, GotoRun DEF Inv, PackageCommit, Moved, Working
  <2>2. asset'.pipeline # "RUNNING"
    BY <1>6 DEF PackageCommit, Inv, PipelineTypeOK, Asset
  <2>3. BeforeProbe' /\ OneProbe'
    BY <1>1, <1>3, <2>2 DEF BeforeProbe, OneProbe
  <2> QED BY <2>1, <2>3, MovedKeeps DEF Tracked
<1> QED BY <1>4, <1>5, <1>6

\* A run that fails; markFailed takes the asset out of RUNNING or leaves it.
LEMMA FailingTracked ==
    ASSUME Inv, Tracked, NEW w \in Workers, Throw(w) \/ MarkFailed(w)
    PROVE  Tracked'
<1>1. Moved(w, {"failing", "rejected"}) /\ run[w].pc # "idle" /\ probes' = probes
  <2>1. CASE Throw(w)
    BY <2>1, CaughtRun DEF Inv, Throw, Moved, Working
  <2>2. CASE MarkFailed(w)
    BY <2>2, GotoRun DEF Inv, MarkFailed, Moved, Working
  <2> QED BY <2>1, <2>2
<1>2. asset'.pipeline \in {asset.pipeline, "FAILED"}
  BY DEF Throw, MarkFailed, Inv, PipelineTypeOK, Asset
<1>3. CASE asset'.pipeline = asset.pipeline
  BY <1>1, <1>3, MovedTracked
<1>4. CASE asset'.pipeline = "FAILED"
  <2>1. BeforeProbe'
    BY <1>1 DEF BeforeProbe, Tracked, Moved
  <2>2. OneProbe'
    BY <1>4 DEF OneProbe
  <2> QED BY <1>1, <2>1, <2>2, MovedKeeps DEF Tracked
<1> QED BY <1>2, <1>3, <1>4

\* What a fan-out makes of the queue: new children wait, and a package job that
\* was not there waits for every child that has not completed.
LEMMA FanoutStates ==
    ASSUME PipelineTypeOK, PlanOK, NEW rungs \in SUBSET Rungs, Fanout(rungs)
    PROVE  /\ \A j \in Jobs : queue[j].state # "none" => queue'[j] = queue[j]
           /\ \A j \in Jobs \ {"package"} :
                 queue'[j].state = queue[j].state \/ queue'[j].state = "waiting"
           /\ queue["package"].state # "none" =>
                 \E new \in SUBSET Child : /\ waitsFor' = waitsFor \cup new
                                           /\ \A c \in new : queue'[c].state = "waiting"
           /\ queue["package"].state = "none" =>
                 \/ queue'["package"].state = "waiting"
                 \/ /\ queue'["package"].state = "children" /\ waitsFor' # {}
                    /\ \A c \in waitsFor' : c \in Child /\ queue'[c].state \notin {"none", "completed"}
<1> DEFINE kids == rungs \cup Stills
           new == {c \in kids : queue[c].state = "none"}
           start == IF \A c \in kids : queue[c].state = "completed" THEN "waiting" ELSE "children"
           entry(j) == IF j \in new THEN Fresh
                       ELSE IF j = "package" /\ queue[j].state = "none"
                            THEN [Absent EXCEPT !.state = start] ELSE queue[j]
<1>1. queue' = [j \in Jobs |-> entry(j)]
  BY DEF Fanout
<1>2. \A j \in Jobs : queue'[j] = entry(j)
  BY <1>1
<1>3. [Absent EXCEPT !.state = start].state = start
  BY DEF Absent
<1>4. kids \subseteq Child /\ Child \subseteq Jobs /\ "package" \in Jobs /\ "package" \notin kids
      /\ Fresh.state = "waiting"
  BY JobShapes
<1>5. \A j \in Jobs : queue[j].state # "none" => entry(j) = queue[j]
  OBVIOUS
<1>6. \A j \in Jobs \ {"package"} :
         entry(j).state = queue[j].state \/ entry(j).state = "waiting"
  BY <1>4
<1>7. \A c \in new : c \in Jobs /\ entry(c).state = "waiting"
  BY <1>4
<1>8. queue["package"].state = "none" => entry("package").state = start
  BY <1>3, <1>4
<1>9. \A c \in kids : queue[c].state # "completed" => entry(c).state \notin {"none", "completed"}
  BY <1>4
<1>10. queue["package"].state # "none" => waitsFor' = waitsFor \cup new
  BY DEF Fanout
<1>11. queue["package"].state = "none" => waitsFor' = {c \in kids : queue[c].state # "completed"}
  BY DEF Fanout
<1>12. start = "waiting" \/ (start = "children" /\ \E c \in kids : queue[c].state # "completed")
  OBVIOUS
<1> HIDE DEF entry, start
<1>13. queue["package"].state # "none" =>
          \E n \in SUBSET Child : /\ waitsFor' = waitsFor \cup n
                                  /\ \A c \in n : queue'[c].state = "waiting"
  <2> SUFFICES ASSUME queue["package"].state # "none"
               PROVE  /\ new \subseteq Child /\ waitsFor' = waitsFor \cup new
                      /\ \A c \in new : queue'[c].state = "waiting"
    OBVIOUS
  <2> QED BY <1>2, <1>4, <1>7, <1>10
<1>14. queue["package"].state = "none" =>
          \/ queue'["package"].state = "waiting"
          \/ /\ queue'["package"].state = "children" /\ waitsFor' # {}
             /\ \A c \in waitsFor' : c \in Child /\ queue'[c].state \notin {"none", "completed"}
  BY <1>2, <1>4, <1>8, <1>9, <1>11, <1>12
<1> QED BY <1>2, <1>5, <1>6, <1>13, <1>14

\* The probe adds the package job, before it is done.
LEMMA FanoutTracked ==
    ASSUME Inv, Tracked, NEW w \in Workers, ProbeFanout(w)
    PROVE  Tracked'
<1> DEFINE Q(j) == queue[j].state
           N(j) == queue'[j].state
<1>1. ladder \in SUBSET Rungs /\ Fanout(ladder) /\ PipelineTypeOK /\ PlanOK
  BY DEF Inv, PipelineTypeOK, ProbeFanout
<1>2. /\ \A j \in Jobs : Q(j) # "none" => N(j) = Q(j)
      /\ \A j \in Jobs \ {"package"} : N(j) = Q(j) \/ N(j) = "waiting"
      /\ Q("package") # "none" =>
            \E new \in SUBSET Child : /\ waitsFor' = waitsFor \cup new
                                      /\ \A c \in new : N(c) = "waiting"
      /\ Q("package") = "none" =>
            \/ N("package") = "waiting"
            \/ /\ N("package") = "children" /\ waitsFor' # {}
               /\ \A c \in waitsFor' : c \in Child /\ N(c) \notin {"none", "completed"}
  BY <1>1, FanoutStates
<1>3. /\ run'[w].job = "probe" /\ run[w].job = "probe" /\ run'[w].pc = "advancing"
      /\ run[w].pc = "fanning" /\ run'[w].locked = run[w].locked
      /\ \A v \in Workers \ {w} : run'[v] = run[v]
  BY GotoRun DEF Inv, ProbeFanout, At, Working
<1>4. probes' = probes /\ asset' = asset /\ probes # 0
  BY <1>3, Begun DEF ProbeFanout, Working
<1>5. LockOK'
  BY <1>2, <1>3 DEF Tracked, LockOK
<1>6. queue' \in [Jobs -> Entry] /\ waitsFor \subseteq Child
  BY <1>1, FanoutKeeps DEF PipelineTypeOK
<1>7. \A j \in Jobs \ {"package"} : N(j) # "children"
  BY <1>2 DEF Tracked, WaitOK
<1>8. \A j \in Jobs : N(j) \in {"none", "waiting", "children", "active", "completed", "failed"}
  BY <1>6 DEF Entry
<1>9. N("package") = "children" =>
         waitsFor' # {} /\ \A c \in waitsFor' : N(c) \in {"waiting", "active", "failed"}
  <2>1. CASE Q("package") = "none"
    BY <1>2, <1>7, <1>8, <2>1, JobShapes
  <2>2. CASE Q("package") # "none"
    <3> SUFFICES ASSUME N("package") = "children"
                 PROVE  waitsFor' # {} /\ \A c \in waitsFor' : N(c) \in {"waiting", "active", "failed"}
      OBVIOUS
    <3>1. Q("package") = "children"
      BY <1>2, <2>2, JobShapes
    <3>2. waitsFor # {} /\ \A c \in waitsFor : Q(c) \in {"waiting", "active", "failed"}
      BY <3>1 DEF Tracked, WaitOK
    <3>3. \A c \in waitsFor : N(c) = Q(c)
      BY <1>2, <1>6, <3>2, JobShapes
    <3> QED BY <1>2, <2>2, <3>2, <3>3
  <2> QED BY <2>1, <2>2
<1>10. WaitOK'
  BY <1>7, <1>9 DEF WaitOK
<1>11. N("package") # "none" /\ (N("package") = "completed" => Q("package") = "completed")
  BY <1>2, JobShapes
<1>12. BeforeProbe'
  BY <1>4 DEF BeforeProbe
<1>13. OneProbe'
  BY <1>3, <1>4, <1>11 DEF Tracked, OneProbe
<1> QED BY <1>5, <1>10, <1>12, <1>13 DEF Tracked

\* A taken job was waiting: no other run holds its lock.
LEMMA TakeTracked ==
    ASSUME Inv, Tracked, NEW w \in Workers, NEW j \in Jobs, Take(w, j)
    PROVE  Tracked'
<1>1. /\ run'[w].pc = "begin" /\ run'[w].job = j
      /\ \A v \in Workers \ {w} : run'[v] = run[v]
      /\ \A i \in Jobs \ {j} : queue'[i] = queue[i]
      /\ queue'[j].state = "active"
  BY TakeRun DEF Inv
<1>2. queue[j].state = "waiting" /\ run[w] = Idle
  BY DEF Take
<1>3. UNCHANGED <<probes, asset, waitsFor>>
  BY DEF Take
<1>4. \A v \in Workers : run[v].locked => run[v].job # j
  BY <1>2 DEF Tracked, LockOK
<1>5. LockOK'
  BY <1>1, <1>4 DEF Tracked, LockOK
<1>6. WaitOK'
  <2>1. j = "package" => queue'["package"].state # "children"
    BY <1>1
  <2>2. waitsFor \subseteq Jobs
    BY JobShapes DEF Inv, PipelineTypeOK
  <2>3. \A i \in Jobs : queue'[i].state # queue[i].state => queue'[i].state = "active"
    BY <1>1
  <2> QED BY <1>3, <2>1, <2>2, <2>3, JobShapes DEF Tracked, WaitOK
<1>7. BeforeProbe'
  BY <1>1, <1>2, <1>3 DEF Tracked, BeforeProbe
<1>8. OneProbe'
  BY <1>1, <1>2, <1>3, JobShapes DEF Tracked, OneProbe
<1> QED BY <1>5, <1>6, <1>7, <1>8 DEF Tracked

\* A run that ends leaves the other runs, and locks of other jobs, alone.
LEMMA EndedLocks ==
    ASSUME Tracked, NEW w \in Workers, run'[w] = Idle,
           \A v \in Workers \ {w} : run'[v] = run[v],
           \A i \in Jobs : queue[i].state = "active" =>
               queue'[i].state = "active" \/ (i = run[w].job /\ run[w].locked)
    PROVE  LockOK'
  BY JobShapes DEF Tracked, LockOK

\* A completed child is no longer waited for; a completed probe left a package job.
LEMMA CompleteTracked ==
    ASSUME Inv, Tracked, NEW w \in Workers, Complete(w)
    PROVE  Tracked'
<1> DEFINE j == run[w].job
<1>1. run'[w] = Idle /\ run[w].pc = "done" /\ \A v \in Workers \ {w} : run'[v] = run[v]
  BY CompleteRun DEF Inv
<1>2. UNCHANGED <<probes, asset>>
  BY DEF Complete
<1>3. probes # 0
  BY <1>1 DEF Tracked, BeforeProbe
<1>4. BeforeProbe'
  BY <1>2, <1>3 DEF BeforeProbe
<1>5. CASE ~run[w].locked
  <2>1. queue' = queue /\ waitsFor' = waitsFor
    BY <1>5 DEF Complete
  <2>2. LockOK' /\ WaitOK'
    BY <1>1, <2>1, EndedLocks DEF Tracked, WaitOK
  <2>3. OneProbe'
    BY <1>1, <1>2, <2>1, JobShapes DEF Tracked, OneProbe
  <2> QED BY <1>4, <2>2, <2>3 DEF Tracked
<1>6. CASE run[w].locked
  <2>1. j \in Jobs /\ queue[j].state = "active" /\ waitsFor' = waitsFor \ {j}
    BY <1>6 DEF Tracked, LockOK, Complete
  <2>2. queue \in [Jobs -> Entry] /\ waitsFor \subseteq Child
    BY DEF Inv, PipelineTypeOK
  <2>3. \A i \in Jobs :
           queue'[i].state = IF i = j THEN "completed"
                             ELSE IF i = "package" /\ queue[i].state = "children" /\ waitsFor' = {}
                                  THEN "waiting" ELSE queue[i].state
    <3>1. queue' = [i \in Jobs |->
             IF i = j THEN [queue[i] EXCEPT !.state = "completed"]
             ELSE IF i = "package" /\ queue[i].state = "children" /\ waitsFor' = {}
                  THEN [queue[i] EXCEPT !.state = "waiting"] ELSE queue[i]]
      BY <1>6, <2>1 DEF Complete
    <3> QED BY <2>2, <3>1 DEF Entry
  <2>4. LockOK'
    BY <1>1, <1>6, <2>3, EndedLocks
  <2>5. WaitOK'
    BY <2>1, <2>2, <2>3, JobShapes DEF Tracked, WaitOK
  <2>6. OneProbe'
    BY <1>1, <1>2, <2>1, <2>3, JobShapes DEF Tracked, OneProbe
  <2> QED BY <1>4, <2>4, <2>5, <2>6 DEF Tracked
<1> QED BY <1>5, <1>6

\* A rejected job waits again or is a dead letter.
LEMMA RejectTracked ==
    ASSUME Inv, Tracked, NEW w \in Workers, Reject(w)
    PROVE  Tracked'
<1>1. /\ run'[w] = Idle
      /\ \A v \in Workers \ {w} : run'[v] = run[v]
      /\ \A i \in Jobs : \/ queue'[i].state = queue[i].state
                         \/ /\ i = run[w].job /\ run[w].locked
                            /\ queue'[i].state \in {"failed", "waiting"}
  BY RejectRun DEF Inv
<1>2. UNCHANGED <<probes, asset, waitsFor>> /\ run[w].pc = "rejected"
  BY DEF Reject
<1>3. run[w].locked => queue[run[w].job].state = "active"
  BY DEF Tracked, LockOK
<1>4. waitsFor \subseteq Jobs
  BY JobShapes DEF Inv, PipelineTypeOK
<1>5. LockOK'
  BY <1>1, EndedLocks
<1>6. WaitOK'
  BY <1>1, <1>2, <1>3, <1>4, JobShapes DEF Tracked, WaitOK
<1>7. BeforeProbe'
  BY <1>1, <1>2, <1>3, JobShapes DEF Tracked, BeforeProbe
<1>8. OneProbe'
  BY <1>1, <1>2, <1>3, JobShapes DEF Tracked, OneProbe
<1> QED BY <1>5, <1>6, <1>7, <1>8 DEF Tracked

\* A crashed run leaves its job active: Stalled will find it.
LEMMA CrashTracked ==
    ASSUME Inv, Tracked, NEW w \in Workers, Crash(w)
    PROVE  Tracked'
<1>1. run'[w] = Idle /\ \A v \in Workers \ {w} : run'[v] = run[v]
  BY DEF Crash, Inv, PipelineTypeOK
<1>2. UNCHANGED <<probes, asset, waitsFor, queue>>
  BY DEF Crash
<1>3. LockOK' /\ WaitOK'
  BY <1>1, <1>2, EndedLocks DEF Tracked, WaitOK
<1>4. BeforeProbe' /\ OneProbe'
  BY <1>1, <1>2, JobShapes DEF Tracked, BeforeProbe, OneProbe
<1> QED BY <1>3, <1>4 DEF Tracked

\* A job changed by the queue alone: the outbox's delivery, a stall, a replay, a
\* completed job forgotten.
LEMMA JobTracked ==
    ASSUME Inv, Tracked, NEW j \in Jobs,
           AssetReady \/ Stalled(j) \/ Replay(j) \/ Forget(j)
    PROVE  Tracked'
<1>1. queue \in [Jobs -> Entry] /\ run \in [Workers -> Run] /\ waitsFor \subseteq Jobs
  BY JobShapes DEF Inv, PipelineTypeOK
<1>2. UNCHANGED <<probes, asset, waitsFor>>
  BY DEF AssetReady, Stalled, Replay, Forget
<1>3. CASE AssetReady
  <2>1. run' = run /\ \A i \in Jobs : \/ queue'[i].state = queue[i].state
                                      \/ /\ i = "probe" /\ queue[i].state = "none"
                                         /\ queue'[i].state = "waiting"
    BY <1>1, <1>3, JobShapes DEF AssetReady, Added
  <2>2. LockOK' /\ WaitOK'
    BY <1>1, <1>2, <2>1, JobShapes DEF Tracked, LockOK, WaitOK
  <2>3. BeforeProbe' /\ OneProbe'
    BY <1>2, <2>1, JobShapes DEF Tracked, BeforeProbe, OneProbe
  <2> QED BY <2>2, <2>3 DEF Tracked
<1>4. CASE Stalled(j)
  <2> DEFINE state == IF queue[j].stalls = 0 THEN "waiting" ELSE "failed"
  <2>1. /\ queue'[j].state = state /\ queue[j].state = "active"
        /\ \A i \in Jobs \ {j} : queue'[i] = queue[i]
    BY <1>1, <1>4 DEF Stalled, Entry
  <2>2. state \in {"waiting", "failed"}
    OBVIOUS
  <2> HIDE DEF state
  <2>3. \A v \in Workers : /\ run'[v].job = run[v].job /\ run'[v].pc = run[v].pc
                           /\ run'[v].locked => run[v].locked /\ run[v].job # j
    BY <1>1, <1>4 DEF Stalled, Run
  <2>4. \A i \in Jobs : \/ queue'[i].state = queue[i].state
                        \/ /\ i = j /\ queue[i].state = "active"
                           /\ queue'[i].state \in {"waiting", "failed"}
    BY <2>1, <2>2
  <2>5. LockOK'
    BY <2>3, <2>4 DEF Tracked, LockOK
  <2>6. WaitOK'
    BY <1>1, <1>2, <2>4, JobShapes DEF Tracked, WaitOK
  <2>7. BeforeProbe' /\ OneProbe'
    BY <1>2, <2>3, <2>4, JobShapes DEF Tracked, BeforeProbe, OneProbe
  <2> QED BY <2>5, <2>6, <2>7 DEF Tracked
<1>5. CASE Replay(j)
  <2>1. run' = run /\ \A i \in Jobs : \/ queue'[i].state = queue[i].state
                                      \/ /\ i = j /\ queue[i].state = "failed"
                                         /\ queue'[i].state = "waiting"
    BY <1>1, <1>5 DEF Replay, Entry
  <2>2. LockOK' /\ WaitOK'
    BY <1>1, <1>2, <2>1, JobShapes DEF Tracked, LockOK, WaitOK
  <2>3. BeforeProbe' /\ OneProbe'
    BY <1>2, <2>1, JobShapes DEF Tracked, BeforeProbe, OneProbe
  <2> QED BY <2>2, <2>3 DEF Tracked
<1>6. CASE Forget(j)
  <2>1. run' = run /\ \A i \in Jobs : \/ queue'[i].state = queue[i].state
                                      \/ /\ i = j /\ queue[i].state = "completed"
                                         /\ queue'[i].state = "none"
    BY <1>1, <1>6, JobShapes DEF Forget
  <2>2. LockOK' /\ WaitOK'
    BY <1>1, <1>2, <2>1, JobShapes DEF Tracked, LockOK, WaitOK
  <2>3. BeforeProbe' /\ OneProbe'
    BY <1>2, <2>1, JobShapes DEF Tracked, BeforeProbe, OneProbe
  <2> QED BY <2>2, <2>3 DEF Tracked
<1> QED BY <1>3, <1>4, <1>5, <1>6

\* Sweeps, deploys, late progress writes: nothing of the queue, and the asset's
\* status stays.
LEMMA QuietTracked ==
    ASSUME Tracked, UNCHANGED <<queue, waitsFor, run, probes>>,
           asset'.pipeline = asset.pipeline
    PROVE  Tracked'
<1>1. LockOK' /\ WaitOK'
  BY DEF Tracked, LockOK, WaitOK
<1>2. BeforeProbe' /\ OneProbe'
  BY DEF Tracked, BeforeProbe, OneProbe
<1> QED BY <1>1, <1>2 DEF Tracked

\* Every step keeps what is tracked.
LEMMA TrackedStep ==
    ASSUME Inv, Tracked, [Next]_vars
    PROVE  Tracked'
<1>1. CASE AssetReady \/ \E j \in Jobs : Stalled(j) \/ Replay(j) \/ Forget(j)
  BY <1>1, JobTracked, JobShapes
<1>2. CASE LateProgress
  <2>1. asset \in Asset /\ 2 \in Percent
    BY DEF Inv, PipelineTypeOK, Percent
  <2>2. asset'.pipeline = asset.pipeline
    BY <1>2, <2>1, AdvancedType DEF LateProgress
  <2> QED BY <1>2, <2>2, QuietTracked DEF LateProgress
<1>3. CASE Sweeping
  BY <1>3, QuietTracked DEF Sweeping, SweepRead, SweepList, SweepDelete, SweepEnd
<1>4. CASE (\E r \in Rungs : Trim(r)) \/ UNCHANGED vars
  BY <1>4, QuietTracked DEF Trim, vars
<1>5. ASSUME NEW w \in Workers, Progress(w) \/ Throw(w) \/ Crash(w)
      PROVE  Tracked'
  BY <1>5, ProbeBeginTracked, ProbeTracked, FanoutTracked, ChildTracked, PackageTracked,
     FailingTracked, CompleteTracked, RejectTracked, TakeTracked, CrashTracked DEF Progress
<1> QED BY <1>1, <1>2, <1>3, <1>4, <1>5 DEF Next

\* With nothing left to run, either the probe or what the package job waits for
\* is a dead letter, or the package job itself.
LEMMA TrackedIsEnough == ASSUME Inv, Tracked PROVE NothingStranded
<1> SUFFICES ASSUME probes = 1, asset.pipeline = "RUNNING", ~Live
             PROVE  \E j \in Jobs : queue[j].state = "failed"
  BY DEF NothingStranded
<1>1. \A j \in Jobs : queue[j].state \notin {"waiting", "active"}
  BY DEF Live
<1>2. queue["package"].state \in {"none", "children", "failed"}
  BY <1>1, JobShapes DEF Inv, PipelineTypeOK, Entry, Tracked, OneProbe
<1>3. CASE queue["package"].state = "none"
  BY <1>1, <1>3, JobShapes DEF Tracked, OneProbe
<1>4. CASE queue["package"].state = "children"
  <2>1. PICK c \in waitsFor : queue[c].state \in {"waiting", "active", "failed"}
    BY <1>4 DEF Tracked, WaitOK
  <2> QED BY <1>1, <2>1, JobShapes DEF Inv, PipelineTypeOK
<1> QED BY <1>2, <1>3, <1>4, JobShapes

-----------------------------------------------------------------------------
\* The invariant of every reachable state, whatever is redelivered, crashes or
\* loses its lock.
THEOREM PipelineInvariant == Spec => []Inv
  BY InitInv, InvStep, PTL DEF Spec

\* Every variable keeps its type.
THEOREM PipelineTypes == Spec => []PipelineTypeOK
<1>1. Inv => PipelineTypeOK
  BY DEF Inv
<1> QED BY PipelineInvariant, <1>1, PTL

\* A rendition row is written after the upload of every object it stands for,
\* also by a second run beside one that lost its lock.
THEOREM RowsMeanUploads == Spec => []RowMeansUploaded
<1>1. Inv => RowMeansUploaded
  BY DEF Inv
<1> QED BY PipelineInvariant, <1>1, PTL

\* A READY asset keeps its master, its rungs' rows and its stills: no sweep and
\* no late progress write takes them back.
THEOREM ReadyMeansComplete == Spec => []ReadyIsComplete
<1>1. Inv => ReadyIsComplete
  BY DEF Inv
<1> QED BY PipelineInvariant, <1>1, PTL

\* The sweep deletes only files of rungs its inventory did not name, and never a
\* planned rung of an asset it read as READY.
THEOREM SweepIsSparing == Spec => SweepSpares
<1>1. Inv /\ [Next]_vars =>
        [\A k \in bucket \ bucket' :
           /\ k[1] \in Rungs \ sweep.names
           /\ sweep.status = "READY" => k[1] \notin planned]_vars
  BY SparesStep
<1> QED BY PipelineInvariant, <1>1, PTL DEF Spec, SweepSpares

\* An asset probed once and still RUNNING when nothing is left to run has a dead
\* letter: it is never stuck without something an operator can replay.
THEOREM NoAssetIsStranded == Spec => []NothingStranded
<1>1. Init => Inv /\ Tracked
  BY InitInv, InitTracked
<1>2. (Inv /\ Tracked) /\ [Next]_vars => (Inv /\ Tracked)'
  BY InvStep, TrackedStep
<1>3. Inv /\ Tracked => NothingStranded
  BY TrackedIsEnough
<1> QED BY <1>1, <1>2, <1>3, PTL DEF Spec

-----------------------------------------------------------------------------
(* Renditions: rungs, poster and filmstrip, for sources of any size.       *)

LEMMA DivMod ==
    ASSUME NEW a \in Nat, NEW b \in Nat \ {0}
    PROVE  \E q \in Nat, r \in 0..b - 1 : q = a \div b /\ r = a % b /\ a = b * q + r
  OBVIOUS

\* Math.round is off by at most a half.
LEMMA RoundedBounds ==
    ASSUME NEW n \in Nat, NEW d \in Nat \ {0}
    PROVE  /\ Rounded(n, d) \in Nat
           /\ 2 * (d * Rounded(n, d)) <= 2 * n + d
           /\ 2 * n < 2 * (d * Rounded(n, d)) + d
<1> DEFINE a == 2 * n + d
           b == 2 * d
<1>1. a \in Nat /\ b \in Nat \ {0}
  OBVIOUS
<1> HIDE DEF a, b
<1>2. PICK q \in Nat, r \in 0..b - 1 : q = a \div b /\ a = b * q + r
  BY <1>1, DivMod
<1>3. b * q = 2 * (d * q) /\ d * q \in Nat
  BY <1>2 DEF b
<1>4. Rounded(n, d) = q
  BY <1>2 DEF Rounded, a, b
<1>5. a = 2 * (d * q) + r /\ r \in 0..2 * d - 1
  BY <1>2, <1>3 DEF b
<1> QED BY <1>2, <1>3, <1>4, <1>5 DEF a

LEMMA LadderRungs ==
    /\ ABR_LADDER \in Seq({ABR_LADDER[1], ABR_LADDER[2], ABR_LADDER[3], ABR_LADDER[4]})
    /\ Len(ABR_LADDER) = 4 /\ DOMAIN ABR_LADDER = 1..4
    /\ ABR_LADDER[1].height = 240 /\ ABR_LADDER[2].height = 480
    /\ ABR_LADDER[3].height = 720 /\ ABR_LADDER[4].height = 1080
    /\ Bandwidth(ABR_LADDER[1]) = 464000 /\ Bandwidth(ABR_LADDER[2]) = 1296000
    /\ Bandwidth(ABR_LADDER[3]) = 2928000 /\ Bandwidth(ABR_LADDER[4]) = 5128000
  BY DEF ABR_LADDER, Profile, Bandwidth

LEMMA LadderIsPrefix ==
    ASSUME NEW height \in Nat
    PROVE  \E n \in 1..4 :
              /\ ladderFor(height) = SubSeq(ABR_LADDER, 1, n)
              /\ n = 1 \/ \A k \in 1..n : ABR_LADDER[k].height <= height
<1> DEFINE within == {k \in DOMAIN ABR_LADDER : ABR_LADDER[k].height <= height}
           n == IF within = {} THEN 1 ELSE Max(within)
<1>1. \A k \in within : \A j \in 1..k : j \in within
  BY LadderRungs
<1>2. CASE within = {}
  BY <1>2 DEF ladderFor
<1>3. CASE within # {}
  <2>1. within \subseteq 1..4
    BY LadderRungs
  <2>2. \E m \in within : \A k \in within : m >= k
    <3>1. CASE 4 \in within
      BY <2>1, <3>1
    <3>2. CASE 4 \notin within /\ 3 \in within
      BY <2>1, <3>2
    <3>3. CASE 4 \notin within /\ 3 \notin within /\ 2 \in within
      BY <2>1, <3>3
    <3>4. CASE 4 \notin within /\ 3 \notin within /\ 2 \notin within
      <4> HIDE DEF within
      <4>1. \A k \in within : k = 1
        BY <2>1, <3>4
      <4>2. \A m, k \in within : m >= k
        BY <4>1
      <4> QED BY <1>3, <4>2
    <3> HIDE DEF within
    <3> QED BY <3>1, <3>2, <3>3, <3>4
  <2>3. Max(within) \in within
    BY <2>2 DEF Max
  <2>4. ladderFor(height) = SubSeq(ABR_LADDER, 1, Max(within))
    BY <1>3 DEF ladderFor
  <2>5. \A k \in 1..Max(within) : k \in within
    BY <1>1, <2>3
  <2>6. \A k \in 1..Max(within) : ABR_LADDER[k].height <= height
    BY <2>5
  <2> HIDE DEF within
  <2> QED BY <2>1, <2>3, <2>4, <2>6
<1> QED BY <1>2, <1>3

LEMMA WidthBounds ==
    ASSUME NEW width \in Nat, NEW height \in Nat \ {0}, NEW profile, profile.height \in Nat
    PROVE  LET w == widthFor(profile, width, height)
           IN  /\ w % 2 = 0
               /\ 2 * w * height + height >= 2 * width * profile.height
               /\ 2 * w * height <= 2 * width * profile.height + 3 * height
<1> DEFINE n == width * profile.height
           s == Rounded(n, height)
           w == widthFor(profile, width, height)
<1>1. n \in Nat
  OBVIOUS
<1>2. s \in Nat /\ 2 * (height * s) <= 2 * n + height /\ 2 * n < 2 * (height * s) + height
  BY <1>1, RoundedBounds
<1>3. w \in {s, s + 1} /\ w % 2 = 0
  BY <1>2 DEF widthFor
<1>4. 2 * w * height = 2 * (height * w) /\ 2 * width * profile.height = 2 * n
  BY <1>2, <1>3
<1>5. height * (s + 1) = height * s + height
  BY <1>2
<1>6. height * s \in Nat
  BY <1>2
<1> HIDE DEF n, s, w
<1>7. height * w \in {height * s, height * s + height}
  BY <1>3, <1>5
<1>8. 2 * (height * w) + height >= 2 * n /\ 2 * (height * w) <= 2 * n + 3 * height
  BY <1>1, <1>2, <1>6, <1>7
<1>9. 2 * w * height + height >= 2 * n /\ 2 * w * height <= 2 * n + 3 * height
  BY <1>4, <1>8
<1> QED BY <1>3, <1>4, <1>9 DEF w

LEMMA RungsFitAlways == RungsFit
<1> SUFFICES ASSUME NEW height \in Heights, NEW shape \in Shapes
             PROVE  /\ ladderFor(height) # <<>>
                    /\ \A k \in 1..Len(ladderFor(height)) :
                          RungFits(ladderFor(height), k, Width(shape, height), height)
  BY DEF RungsFit
<1> DEFINE rungs == ladderFor(height)
           width == Width(shape, height)
           video(k) == Video(rungs[k], width, height)
<1>1. height \in Nat \ {0} /\ shape[1] \in Nat \ {0} /\ shape[2] \in Nat \ {0}
  BY RenditionsAssumption DEF RenditionsAssumption
<1>2. width \in Nat
  <2>1. height * shape[1] \in Nat
    BY <1>1
  <2> QED BY <1>1, <2>1, RoundedBounds DEF Width
<1>3. PICK n \in 1..4 : /\ rungs = SubSeq(ABR_LADDER, 1, n)
                        /\ n = 1 \/ \A k \in 1..n : ABR_LADDER[k].height <= height
  BY <1>1, LadderIsPrefix
<1>4. Len(rungs) = n /\ \A k \in 1..n : rungs[k] = ABR_LADDER[k]
  BY <1>3, LadderRungs
<1> HIDE DEF rungs, width
<1>5. rungs # <<>>
  BY <1>4
<1>6. ASSUME NEW k \in 1..n
      PROVE  /\ rungs[k].height <= height \/ Len(rungs) = 1
             /\ k > 1 => Bandwidth(rungs[k - 1]) < Bandwidth(rungs[k])
             /\ rungs[k].height \in Nat
  <2>1. rungs[k] = ABR_LADDER[k] /\ (k > 1 => rungs[k - 1] = ABR_LADDER[k - 1])
    BY <1>4
  <2>2. rungs[k].height <= height \/ Len(rungs) = 1
    BY <1>3, <1>4
  <2>3. k \in {1, 2, 3, 4}
    OBVIOUS
  <2> QED BY <2>1, <2>2, <2>3, LadderRungs
<1>7. ASSUME NEW k \in 1..n
      PROVE  /\ video(k).width % 2 = 0
             /\ 2 * video(k).width * height + height >= 2 * width * video(k).height
             /\ 2 * video(k).width * height <= 2 * width * video(k).height + 3 * height
  <2>1. video(k).width = widthFor(rungs[k], width, height) /\ video(k).height = rungs[k].height
    BY DEF Video
  <2> HIDE DEF video
  <2> QED BY <1>1, <1>2, <1>6, <2>1, WidthBounds
<1>8. ASSUME NEW k \in 1..n
      PROVE  (Hls.time * video(k).fps) % video(k).keyint = 0 /\ video(k).keyintMin = video(k).keyint
  <2>1. video(k).keyint = 180 /\ video(k).keyintMin = 180 /\ video(k).fps = 30 /\ Hls.time = 6
    BY DEF Video, Hls, gopSize, SEGMENT_SECONDS, OUTPUT_FPS
  <2> HIDE DEF video
  <2> QED BY <2>1
<1>9. ASSUME NEW k \in 1..n PROVE RungFits(rungs, k, width, height)
  BY <1>6, <1>7, <1>8 DEF RungFits
<1> QED BY <1>4, <1>5, <1>9 DEF rungs, width

LEMMA PosterInsideAlways == PosterInside
<1> SUFFICES ASSUME NEW d \in Durations, d > 50 PROVE posterOffset(d) < d
  BY DEF PosterInside
<1> DEFINE low == Max({d \div 10, 1000})
<1>1. d \in Nat
  BY RenditionsAssumption DEF RenditionsAssumption
<1>2. low \in Nat
  <2>1. d \div 10 \in Nat
    BY <1>1
  <2> QED BY <2>1 DEF Max
<1>3. posterOffset(d) = Min({low, d - 50})
  BY <1>1 DEF posterOffset
<1> HIDE DEF low
<1>4. Min({low, d - 50}) <= d - 50
  BY <1>1, <1>2 DEF Min
<1> QED BY <1>1, <1>2, <1>3, <1>4 DEF Min

\* A cue's moment is the nearest millisecond to the i-th multiple of the interval.
CueAt(interval, i) == Milliseconds(timestamp(Moment(interval, i)))

LEMMA NearestMillisecond ==
    ASSUME NEW n \in Nat, NEW e \in Nat \ {0}, NEW i \in Nat
    PROVE  /\ CueAt(<<n, e>>, i) \in Nat
           /\ 2 * (e * CueAt(<<n, e>>, i)) <= 2 * (i * n) + e
           /\ 2 * (i * n) < 2 * (e * CueAt(<<n, e>>, i)) + e
<1>1. PICK q \in Nat, r \in 0..e - 1 : q = n \div e /\ r = n % e /\ n = e * q + r
  BY DivMod
<1>2. i * r \in Nat
  BY <1>1
<1>3. PICK u \in Nat, p \in 0..e - 1 : u = (i * r) \div e /\ p = (i * r) % e /\ i * r = e * u + p
  BY <1>2, DivMod
<1> DEFINE m == Moment(<<n, e>>, i)
<1>4. m.whole = i * q + u /\ m.part = p /\ m.of = e
  BY <1>1, <1>3 DEF Moment
<1>5. m.whole \in Nat
  BY <1>1, <1>3, <1>4
<1> HIDE DEF m
<1>6. PICK a \in Nat : a = m.whole
  BY <1>5
<1>7. a = 1000 * (a \div 1000) + (a % 1000) /\ a \div 1000 \in Nat /\ a % 1000 \in Nat
  BY Z3
<1>8. PICK g \in Nat : g = Rounded(p, e) /\ 2 * (e * g) <= 2 * p + e /\ 2 * p < 2 * (e * g) + e
  <2>1. p \in Nat
    BY <1>3
  <2> QED BY <2>1, RoundedBounds
<1>9. Milliseconds(timestamp(m)) = m.whole + g
  BY <1>4, <1>6, <1>7, <1>8 DEF Milliseconds, timestamp
<1>10. CueAt(<<n, e>>, i) = i * q + u + g
  BY <1>4, <1>9 DEF CueAt, m
<1>11. e * (i * q + u + g) = e * (i * q) + e * u + e * g
  <2>1. \A x, y, w \in Nat : e * (x + y + w) = e * x + e * y + e * w
    OBVIOUS
  <2>2. i * q \in Nat
    BY <1>1
  <2> QED BY <1>3, <1>8, <2>1, <2>2
<1>12. i * n = e * (i * q) + i * r
  <2>1. i * n = i * (e * q) + i * r
    BY <1>1
  <2>2. i * (e * q) = e * (i * q)
    BY <1>1
  <2> QED BY <2>1, <2>2
<1>13. e * (i * q) \in Nat /\ e * u \in Nat /\ e * g \in Nat /\ i * q + u + g \in Nat
  BY <1>1, <1>3, <1>8
<1>14. i * n = e * (i * q) + e * u + p
  BY <1>3, <1>12, <1>13
<1> QED BY <1>3, <1>8, <1>10, <1>11, <1>13, <1>14

\* The strip's geometry: the cells cover the source and the last one begins within it.
StripFits(layout, d) ==
    \E t \in 1..SPRITE_MAX_TILES, n \in Nat, e \in Nat \ {0} :
        /\ layout.tiles = t /\ layout.interval = <<n, e>>
        /\ n > e /\ d * e <= t * n /\ 2 * ((t - 1) * n) + e < 2 * (d * e)
        /\ layout.columns \in 1..10 /\ layout.columns <= t
        /\ layout.rows = Ceiling(t, layout.columns)

LEMMA StripShape == ASSUME NEW d \in Nat \ {0} PROVE StripFits(spriteLayout(d), d)
<1> DEFINE layout == spriteLayout(d)
           c == Ceiling(d, SPRITE_INTERVAL)
           wanted == Max({1, c})
           tiles == Min({wanted, SPRITE_MAX_TILES})
           columns == Min({SPRITE_COLUMNS, tiles})
<1>1. c \in Nat \ {0} /\ 2000 * (c - 1) < d /\ d <= 2000 * c
  BY DEF Ceiling, SPRITE_INTERVAL
<1>2. wanted = c
  <2> HIDE DEF c
  <2> QED BY <1>1 DEF Max
<1>3. tiles = IF c <= 900 THEN c ELSE 900
  <2> HIDE DEF c, wanted
  <2> QED BY <1>1, <1>2 DEF Min, SPRITE_MAX_TILES
<1>4. tiles \in 1..900
  <2> HIDE DEF c, tiles
  <2> QED BY <1>1, <1>3
<1>5. columns \in 1..10 /\ columns <= tiles
  <2> HIDE DEF tiles
  <2> QED BY <1>4 DEF Min, SPRITE_COLUMNS
<1>6. /\ layout.tiles = tiles /\ layout.columns = columns /\ layout.rows = Ceiling(tiles, columns)
      /\ layout.interval = IF tiles < wanted THEN <<d, tiles>> ELSE <<2000, 1>>
  <2> HIDE DEF tiles, wanted, columns
  <2> QED BY DEF spriteLayout, tiles, wanted, columns, SPRITE_INTERVAL
<1> HIDE DEF c, wanted, tiles, columns, layout
<1>7. ASSUME c <= 900 PROVE StripFits(layout, d)
  <2>1. layout.interval = <<2000, 1>> /\ tiles = c
    BY <1>1, <1>2, <1>3, <1>6, <1>7
  <2>2. 2000 > 1 /\ d * 1 <= tiles * 2000 /\ 2 * ((tiles - 1) * 2000) + 1 < 2 * (d * 1)
    BY <1>1, <2>1
  <2>3. tiles \in 1..SPRITE_MAX_TILES /\ 2000 \in Nat /\ 1 \in Nat \ {0}
    BY <1>4 DEF SPRITE_MAX_TILES
  <2> QED BY <1>5, <1>6, <2>1, <2>2, <2>3 DEF StripFits
<1>8. ASSUME c > 900 PROVE StripFits(layout, d)
  <2>1. layout.interval = <<d, 900>> /\ tiles = 900
    BY <1>1, <1>2, <1>3, <1>6, <1>8
  <2>2. d > 900 /\ d * 900 <= tiles * d /\ 2 * ((tiles - 1) * d) + 900 < 2 * (d * 900)
    BY <1>1, <1>8, <2>1
  <2>3. tiles \in 1..SPRITE_MAX_TILES /\ d \in Nat /\ 900 \in Nat \ {0}
    BY <1>4 DEF SPRITE_MAX_TILES
  <2> QED BY <1>5, <1>6, <2>1, <2>2, <2>3 DEF StripFits
<1>9. c <= 900 \/ c > 900
  BY <1>1
<1> QED BY <1>7, <1>8, <1>9 DEF layout

\* Cues in order, over an interval longer than a millisecond.
LEMMA CuesInOrder ==
    ASSUME NEW n \in Nat, NEW e \in Nat \ {0}, n > e, NEW i \in Nat
    PROVE  CueAt(<<n, e>>, i) < CueAt(<<n, e>>, i + 1)
<1>1. PICK a \in Nat : /\ a = CueAt(<<n, e>>, i) /\ 2 * (e * a) <= 2 * (i * n) + e
  BY NearestMillisecond
<1>2. PICK b \in Nat : /\ b = CueAt(<<n, e>>, i + 1) /\ 2 * ((i + 1) * n) < 2 * (e * b) + e
  <2>1. i + 1 \in Nat
    OBVIOUS
  <2> QED BY <2>1, NearestMillisecond
<1>3. (i + 1) * n = i * n + n /\ i * n \in Nat
  OBVIOUS
<1>4. 2 * (e * a) < 2 * (e * b)
  <2>1. e * a \in Nat /\ e * b \in Nat
    OBVIOUS
  <2> QED BY <1>1, <1>2, <1>3, <2>1
<1>5. SUFFICES ASSUME b <= a PROVE FALSE
  BY <1>1, <1>2
<1>6. e * b <= e * a
  BY <1>5
<1> QED BY <1>4, <1>6

\* A grid of columns names each of its cells once.
LEMMA CellsDiffer ==
    ASSUME NEW t \in Nat \ {0}, NEW c \in Nat \ {0}
    PROVE  /\ \A i \in 0..t - 1 : /\ (i % c) * 160 + 160 <= 160 * c
                                 /\ (i \div c) * 90 + 90 <= 90 * Ceiling(t, c)
           /\ Cardinality({<<(i % c) * 160, (i \div c) * 90>> : i \in 0..t - 1}) = t
<1> DEFINE height == Ceiling(t, c)
           S == 0..t - 1
           cell(i) == <<(i % c) * 160, (i \div c) * 90>>
           T == {cell(i) : i \in S}
           f == [i \in S |-> cell(i)]
<1>1. height \in Nat /\ t <= c * height
  <2>1. t + c - 1 \in Nat
    OBVIOUS
  <2>2. PICK q \in Nat, r \in 0..c - 1 : q = (t + c - 1) \div c /\ t + c - 1 = c * q + r
    BY <2>1, DivMod
  <2>3. c * q \in Nat
    OBVIOUS
  <2> QED BY <2>2, <2>3 DEF Ceiling, height
<1> HIDE DEF height
<1>2. ASSUME NEW i \in S
      PROVE  \E q \in Nat, r \in 0..c - 1 : q = i \div c /\ r = i % c /\ i = c * q + r
  BY DivMod
<1>3. ASSUME NEW i \in S
      PROVE  (i % c) * 160 + 160 <= 160 * c /\ (i \div c) * 90 + 90 <= 90 * height
  <2>1. PICK q \in Nat, r \in 0..c - 1 : q = i \div c /\ r = i % c /\ i = c * q + r
    BY <1>2
  <2>2. q < height
    <3> SUFFICES ASSUME height <= q PROVE FALSE
      BY <1>1
    <3>1. c * height <= c * q
      BY <1>1
    <3>2. c * height \in Nat /\ c * q \in Nat
      BY <1>1
    <3> QED BY <1>1, <2>1, <3>1, <3>2
  <2>3. r * 160 + 160 <= 160 * c /\ q * 90 + 90 <= 90 * height
    BY <1>1, <2>1, <2>2
  <2> QED BY <2>1, <2>3
<1>4. ASSUME NEW i \in S, NEW j \in S, cell(i) = cell(j)
      PROVE  i = j
  <2>1. PICK q \in Nat, r \in 0..c - 1 : q = i \div c /\ r = i % c /\ i = c * q + r
    BY <1>2
  <2>2. PICK v \in Nat, w \in 0..c - 1 : v = j \div c /\ w = j % c /\ j = c * v + w
    BY <1>2
  <2>3. r * 160 = w * 160 /\ q * 90 = v * 90
    BY <1>4, <2>1, <2>2
  <2>4. r = w /\ q = v
    BY <2>3
  <2> QED BY <2>1, <2>2, <2>4
<1> HIDE DEF cell
<1>5. f \in Bijection(S, T)
  BY <1>4 DEF Bijection, Injection, Surjection, IsInjective
<1>6. IsFiniteSet(S) /\ Cardinality(S) = t
  BY FS_Interval
<1>7. Cardinality(T) = t
  BY <1>5, <1>6, FS_Bijection DEF ExistsBijection
<1> QED BY <1>3, <1>7 DEF cell, height

LEMMA PreviewIsTrueAlways == PreviewIsTrue
<1> SUFFICES ASSUME NEW d \in Durations
             PROVE  LET layout == spriteLayout(d)
                        sheet == Sheet(layout)
                        cue == [i \in 0..layout.tiles - 1 |-> Cue(layout, i)]
                        last == layout.tiles - 1
                    IN  /\ Milliseconds(cue[0].start) = 0
                        /\ Milliseconds(cue[last].start) < d /\ d <= Milliseconds(cue[last].end)
                        /\ \A i \in 0..last :
                             /\ Milliseconds(cue[i].start) < Milliseconds(cue[i].end)
                             /\ i < last => cue[i].end = cue[i + 1].start
                             /\ cue[i].x + Tile.width <= sheet.width
                             /\ cue[i].y + Tile.height <= sheet.height
                        /\ Cardinality({<<cue[i].x, cue[i].y>> : i \in 0..last}) = layout.tiles
  BY DEF PreviewIsTrue
<1> DEFINE layout == spriteLayout(d)
           sheet == Sheet(layout)
           cue == [i \in 0..layout.tiles - 1 |-> Cue(layout, i)]
           last == layout.tiles - 1
<1>1. d \in Nat \ {0}
  BY RenditionsAssumption DEF RenditionsAssumption
<1>2. StripFits(layout, d)
  BY <1>1, StripShape
<1> HIDE DEF layout
<1>3. PICK t \in 1..SPRITE_MAX_TILES, n \in Nat, e \in Nat \ {0} :
         /\ layout.tiles = t /\ layout.interval = <<n, e>>
         /\ n > e /\ d * e <= t * n /\ 2 * ((t - 1) * n) + e < 2 * (d * e)
         /\ layout.columns \in 1..10 /\ layout.columns <= t
         /\ layout.rows = Ceiling(t, layout.columns)
  BY <1>2 DEF StripFits
<1>4. t \in Nat \ {0} /\ t - 1 \in Nat /\ t - 1 + 1 = t /\ last = t - 1
  <2>1. last = t - 1
    BY <1>3
  <2> HIDE DEF last
  <2>2. t \in 1..900
    BY DEF SPRITE_MAX_TILES
  <2>3. \A k \in 1..900 : k \in Nat \ {0} /\ k - 1 \in Nat /\ k - 1 + 1 = k
    OBVIOUS
  <2> QED BY <2>1, <2>2, <2>3, Zenon
<1>5. ASSUME NEW i \in 0..last
      PROVE  /\ cue[i].start = timestamp(Moment(<<n, e>>, i))
             /\ cue[i].end = timestamp(Moment(<<n, e>>, i + 1))
             /\ cue[i].x = (i % layout.columns) * 160 /\ cue[i].y = (i \div layout.columns) * 90
  BY <1>3 DEF Cue, CueEnd, Tile
<1>6. Tile.width = 160 /\ Tile.height = 90 /\ sheet.width = 160 * layout.columns
      /\ sheet.height = 90 * layout.rows
  BY DEF Tile, Sheet
<1> HIDE DEF cue, sheet, last
<1>7. /\ \A i \in 0..t - 1 :
            /\ (i % layout.columns) * 160 + 160 <= 160 * layout.columns
            /\ (i \div layout.columns) * 90 + 90 <= 90 * Ceiling(t, layout.columns)
      /\ Cardinality({<<(i % layout.columns) * 160, (i \div layout.columns) * 90>> :
                         i \in 0..t - 1}) = t
  <2>1. PICK c \in Nat \ {0} : c = layout.columns
    BY <1>3
  <2>2. /\ \A i \in 0..t - 1 : /\ (i % c) * 160 + 160 <= 160 * c
                               /\ (i \div c) * 90 + 90 <= 90 * Ceiling(t, c)
        /\ Cardinality({<<(i % c) * 160, (i \div c) * 90>> : i \in 0..t - 1}) = t
    BY <1>4, CellsDiffer, Zenon
  <2> QED BY <2>1, <2>2, Zenon
<1>8. Milliseconds(cue[0].start) = 0
  <2>1. CueAt(<<n, e>>, 0) \in Nat /\ 2 * (e * CueAt(<<n, e>>, 0)) <= 2 * (0 * n) + e
    BY NearestMillisecond
  <2>2. CueAt(<<n, e>>, 0) = 0
    <3> HIDE DEF CueAt
    <3> QED BY <2>1
  <2> QED BY <1>4, <1>5, <2>2 DEF CueAt
<1>9. Milliseconds(cue[last].start) < d
  <2>1. PICK a \in Nat : a = CueAt(<<n, e>>, t - 1) /\ 2 * (e * a) <= 2 * ((t - 1) * n) + e
    BY <1>4, NearestMillisecond
  <2>2. 2 * (e * a) < 2 * (d * e)
    <3>1. (t - 1) * n \in Nat /\ e * a \in Nat /\ d * e \in Nat
      BY <1>1, <1>4
    <3> QED BY <1>3, <2>1, <3>1
  <2>3. a < d
    <3> SUFFICES ASSUME d <= a PROVE FALSE
      BY <1>1
    <3>1. d * e <= e * a
      BY <1>1
    <3> QED BY <1>1, <2>2, <3>1
  <2> QED BY <1>4, <1>5, <2>1, <2>3 DEF CueAt
<1>10. d <= Milliseconds(cue[last].end)
  <2>1. PICK b \in Nat : b = CueAt(<<n, e>>, t) /\ 2 * (t * n) < 2 * (e * b) + e
    BY <1>4, NearestMillisecond
  <2>2. 2 * (d * e) < 2 * (e * b) + e
    <3>1. t * n \in Nat /\ e * b \in Nat /\ d * e \in Nat
      BY <1>1, <1>4
    <3> QED BY <1>3, <2>1, <3>1
  <2>3. d <= b
    <3> SUFFICES ASSUME b + 1 <= d PROVE FALSE
      BY <1>1
    <3>1. e * (b + 1) <= d * e /\ e * (b + 1) = e * b + e
      BY <1>1
    <3>2. e * b \in Nat /\ d * e \in Nat
      BY <1>1
    <3> QED BY <2>2, <3>1, <3>2
  <2>4. cue[last].end = timestamp(Moment(<<n, e>>, t))
    BY <1>4, <1>5
  <2> QED BY <2>1, <2>3, <2>4 DEF CueAt
<1>11. ASSUME NEW i \in 0..last
      PROVE  /\ Milliseconds(cue[i].start) < Milliseconds(cue[i].end)
             /\ i < last => cue[i].end = cue[i + 1].start
             /\ cue[i].x + Tile.width <= sheet.width
             /\ cue[i].y + Tile.height <= sheet.height
  <2>1. i \in Nat
    OBVIOUS
  <2>2. Milliseconds(cue[i].start) < Milliseconds(cue[i].end)
    BY <1>3, <1>5, <2>1, CuesInOrder DEF CueAt
  <2>3. i < last => cue[i].end = cue[i + 1].start
    <3> SUFFICES ASSUME i < last PROVE cue[i].end = cue[i + 1].start
      OBVIOUS
    <3>1. i + 1 \in 0..last
      BY <1>4
    <3> QED BY <1>5, <3>1
  <2>4. (i % layout.columns) * 160 + 160 <= 160 * layout.columns
        /\ (i \div layout.columns) * 90 + 90 <= 90 * layout.rows
    <3>1. i \in 0..t - 1
      BY <1>4
    <3> QED BY <1>3, <1>7, <3>1
  <2> QED BY <1>5, <1>6, <2>2, <2>3, <2>4
<1>12. Cardinality({<<cue[i].x, cue[i].y>> : i \in 0..last}) = layout.tiles
  <2>1. {<<cue[i].x, cue[i].y>> : i \in 0..last}
          = {<<(i % layout.columns) * 160, (i \div layout.columns) * 90>> : i \in 0..t - 1}
    BY <1>4, <1>5
  <2> QED BY <1>3, <1>7, <2>1
<1> QED BY <1>4, <1>8, <1>9, <1>10, <1>11, <1>12 DEF cue, sheet, last, layout

\* ReadyIsWatchable is a theorem: whatever the source's height, shape and length,
\* its rungs, its poster and its filmstrip fit it.
THEOREM AlwaysWatchable == Spec => []ReadyIsWatchable
<1>1. ReadyIsWatchable
  BY RungsFitAlways, PosterInsideAlways, PreviewIsTrueAlways DEF ReadyIsWatchable
<1> QED BY <1>1, PTL
=============================================================================
