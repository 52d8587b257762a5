-------------------------- MODULE PipelineProperties --------------------------
(* What a READY asset, a rendition row and a running pipeline mean.        *)
EXTENDS Pipeline

\* Rows, bucket, queue and runs hold values of their types.
PipelineTypeOK ==
    /\ asset \in Asset
    /\ rows \subseteq Names
    /\ bucket \subseteq Objects /\ uploaded \subseteq Objects
    /\ announced \subseteq {"AssetPlayable", "AssetProcessingFailed"}
    /\ ladder \subseteq Rungs /\ planned \subseteq Rungs /\ waitsFor \subseteq Child
    /\ queue \in [Jobs -> Entry]
    /\ run \in [Workers -> Run]
    /\ late \in BOOLEAN /\ probes \in 0..2
    /\ sweep \in Inventory
    /\ delivered \in BOOLEAN /\ events \in 0..MaxEvents

\* A rendition row is written after every object it stands for was uploaded,
\* however often its job was killed, redelivered or run twice at a time.
RowMeansUploaded ==
    \A c \in rows \cap Child : PartsOf(c) \subseteq uploaded

\* A READY asset has its master, every rung its players are told of and every
\* still, and its bar stands at the end: neither a sweep nor a late progress
\* write of an encode takes any of it back.
ReadyIsComplete ==
    asset.pipeline = "READY" =>
        /\ asset.percent = 3 /\ asset.duration
        /\ planned # {} /\ planned \cup Stills \cup {"master"} \subseteq rows
        /\ Master \in bucket /\ \A s \in Stills : PartsOf(s) \subseteq bucket

\* The sweep deletes nothing but files of a rung without a row when it took its
\* inventory; on an asset it read as READY, nothing of its planned ladder.
SweepSpares ==
    [][\A k \in bucket \ bucket' :
          /\ k[1] \in Rungs \ sweep.names
          /\ sweep.status = "READY" => k[1] \notin planned]_vars

\* Work is queued or running, or on its way from the outbox.
Live ==
    \/ \E j \in Jobs : queue[j].state \in {"waiting", "active"}
    \/ run # [w \in Workers |-> Idle]

\* An asset probed once, and still RUNNING when nothing is left to run, has a
\* dead letter an operator can replay: it is not stuck without a trace.
NothingStranded ==
    probes = 1 /\ asset.pipeline = "RUNNING" /\ ~Live =>
        \E j \in Jobs : queue[j].state = "failed"
=============================================================================
