-------------------------- MODULE RenditionsProperties --------------------------
(* What the pipeline's arithmetic must give, for sources of every shape.   *)
EXTENDS PipelineProperties, Renditions

CONSTANTS Heights, Shapes,   \* source heights, and its widths as <<w, h>> ratios
          Durations          \* of a source

\* FfmpegService.probe rejects a source without width, height or length.
ASSUME RenditionsAssumption ==
    /\ Heights \subseteq Nat \ {0}
    /\ Shapes \subseteq (Nat \ {0}) \X (Nat \ {0})
    /\ Durations \subseteq Nat \ {0}

Milliseconds(t) == 1000 * t.seconds + t.ms
Width(shape, height) == Rounded(height * shape[1], shape[2])

RungFits(rungs, k, width, height) ==
    LET video == Video(rungs[k], width, height)
    IN  /\ rungs[k].height <= height \/ Len(rungs) = 1
        /\ k > 1 => Bandwidth(rungs[k - 1]) < Bandwidth(rungs[k])
        /\ video.width % 2 = 0
        /\ 2 * video.width * height + height >= 2 * width * video.height
        /\ 2 * video.width * height <= 2 * width * video.height + 3 * height
        /\ (Hls.time * video.fps) % video.keyint = 0
        /\ video.keyintMin = video.keyint

\* Every source can be played: there is a rung, none is an upscale unless it is
\* the only one, a player can tell them apart by what they cost, a rung is even
\* and as wide as the source within a pixel, and a segment ends on a keyframe of
\* every rung, so a switch between two of them never seeks (transcode-profile.ts,
\* hls-command.builder.ts).
RungsFit ==
    \A height \in Heights : \A shape \in Shapes :
        LET rungs == ladderFor(height)
        IN  /\ rungs # <<>>
            /\ \A k \in 1..Len(rungs) : RungFits(rungs, k, Width(shape, height), height)

\* The poster is a frame of the video, however short it is (probe.processor.ts).
PosterInside == \A d \in Durations : d > 50 => posterOffset(d) < d

\* The filmstrip shows the moment the pointer is at: its cues follow one another
\* without a gap from the start to the end, the last one still in the video, and
\* each names a cell of the sheet no other has, from the shortest clip to a
\* lecture past the cap (sprite-sheet.ts).
PreviewIsTrue ==
    \A d \in Durations :
        LET layout == spriteLayout(d)
            sheet == Sheet(layout)
            cue == [i \in 0..layout.tiles - 1 |-> Cue(layout, i)]
            last == layout.tiles - 1
        IN  /\ Milliseconds(cue[0].start) = 0
            /\ Milliseconds(cue[last].start) < d /\ d <= Milliseconds(cue[last].end)
            /\ \A i \in 0..last :
                /\ Milliseconds(cue[i].start) < Milliseconds(cue[i].end)
                /\ i < last => cue[i].end = cue[i + 1].start
                /\ cue[i].x + Tile.width <= sheet.width
                /\ cue[i].y + Tile.height <= sheet.height
            /\ Cardinality({<<cue[i].x, cue[i].y>> : i \in 0..last}) = layout.tiles

\* Whatever source an asset was made from, once it is READY its rungs, its
\* poster and its filmstrip fit it.
ReadyIsWatchable ==
    asset.pipeline = "READY" => RungsFit /\ PosterInside /\ PreviewIsTrue

\* The stages tile the bar, and a later stage never shows less than an earlier
\* one: that is what lets Pipeline follow the bar by stage (pipeline-progress.ts).
ASSUME BandsTile ==
    /\ bandStart(Len(STAGES) + 1) = 100
    /\ overallPercent("package", 100, 0, 0) = 100
    /\ \A count \in 1..Len(ABR_LADDER) : \A index \in 0..count - 1 : \A f \in 0..100 :
        LET shown == overallPercent("transcode", f, index, count)
        IN  overallPercent("probe", 100, 0, 0) <= shown /\ shown <= 80
=============================================================================
