------------------------------ MODULE Renditions ------------------------------
(***************************************************************************)
(* The arithmetic of the video pipeline: which rungs a source gets and how *)
(* large they are, where keyframes and segments fall, the poster's moment, *)
(* the filmstrip and its index, and the one bar all stages share.          *)
(*                                                                         *)
(* Times are in milliseconds, fractions in hundredths. An interval that    *)
(* need not be whole is <<n, d>>, n/d milliseconds.                        *)
(***************************************************************************)
EXTENDS Naturals, Sequences, FiniteSets, SequencesExt, FiniteSetsExt

\* Math.round and Math.ceil of n/d.
Rounded(n, d) == (2 * n + d) \div (2 * d)
Ceiling(n, d) == (n + d - 1) \div d

-----------------------------------------------------------------------------
(* The ladder.                                                             *)

Profile(height, video, audio) ==
    [height |-> height, video |-> video, audio |-> audio, buffer |-> (3 * video) \div 2]
ABR_LADDER == << Profile(240, 400000, 64000), Profile(480, 1200000, 96000),
                 Profile(720, 2800000, 128000), Profile(1080, 5000000, 128000) >>

\* The ladder ascends, so the rungs within the source are its first ones.
ladderFor(sourceHeight) ==
    LET within == {k \in DOMAIN ABR_LADDER : ABR_LADDER[k].height <= sourceHeight}
    IN  SubSeq(ABR_LADDER, 1, IF within = {} THEN 1 ELSE Max(within))

\* Even, as 4:2:0 chroma needs it.
widthFor(profile, width, height) ==
    LET scaled == Rounded(width * profile.height, height)
    IN  IF scaled % 2 = 0 THEN scaled ELSE scaled + 1

\* HlsCommandBuilder: what of the command decides how rungs fit together.
SEGMENT_SECONDS == 6
OUTPUT_FPS == 30
gopSize == SEGMENT_SECONDS * OUTPUT_FPS
Video(profile, width, height) ==
    [width |-> widthFor(profile, width, height), height |-> profile.height,
     rate |-> profile.video, maxrate |-> profile.video, bufsize |-> profile.buffer,
     fps |-> OUTPUT_FPS, keyint |-> gopSize, keyintMin |-> gopSize]
Hls == [time |-> SEGMENT_SECONDS]

\* buildMaster: a variant per rung, video and audio together.
Bandwidth(profile) == profile.video + profile.audio

-----------------------------------------------------------------------------
(* The stills.                                                             *)

posterOffset(duration) ==
    IF duration = 0 THEN 0
    ELSE Min({Max({duration \div 10, 1000}), IF duration > 50 THEN duration - 50 ELSE 0})

SPRITE_INTERVAL == 2000
SPRITE_COLUMNS == 10
SPRITE_MAX_TILES == 900
Tile == [width |-> 160, height |-> 90]

\* Past the cap the interval widens instead of the sheet.
spriteLayout(duration) ==
    LET wanted == Max({1, Ceiling(duration, SPRITE_INTERVAL)})
        tiles == Min({wanted, SPRITE_MAX_TILES})
        columns == Min({SPRITE_COLUMNS, tiles})
    IN  [tiles |-> tiles, columns |-> columns, rows |-> Ceiling(tiles, columns),
         interval |-> IF tiles < wanted THEN <<duration, tiles>> ELSE <<SPRITE_INTERVAL, 1>>]

\* The i-th multiple of an interval of n/d milliseconds.
Moment(interval, i) ==
    LET rest == i * (interval[1] % interval[2])
    IN  [whole |-> i * (interval[1] \div interval[2]) + rest \div interval[2],
         part |-> rest % interval[2], of |-> interval[2]]

\* timestamp: seconds and milliseconds are rounded apart.
timestamp(moment) ==
    [seconds |-> moment.whole \div 1000,
     ms |-> (moment.whole % 1000) + Rounded(moment.part, moment.of)]

BugCueEnd(layout, i) == timestamp(Moment(<<SPRITE_INTERVAL, 1>>, i + 1))
CueEnd(layout, i) == timestamp(Moment(layout.interval, i + 1))

\* spriteVtt: the i-th cue, and the rectangle of the sheet it names.
Cue(layout, i) ==
    [start |-> timestamp(Moment(layout.interval, i)),
     end   |-> CueEnd(layout, i),
     x     |-> (i % layout.columns) * Tile.width,
     y     |-> (i \div layout.columns) * Tile.height]

\* The row's size: the tile filter lays out rows of columns.
Sheet(layout) == [width |-> Tile.width * layout.columns, height |-> Tile.height * layout.rows]

-----------------------------------------------------------------------------
(* The bar.                                                                *)

STAGES == <<[job |-> "probe", weight |-> 5], [job |-> "transcode", weight |-> 75],
            [job |-> "poster", weight |-> 5], [job |-> "sprite", weight |-> 10],
            [job |-> "package", weight |-> 5]>>
Stage(job) == CHOOSE k \in 1..Len(STAGES) : STAGES[k].job = job
bandStart(k) == MapThenSumSet(LAMBDA j : STAGES[j].weight, 1..(k - 1))

\* A rung fills its own slice of the transcode band.
overallPercent(job, fraction, index, count) ==
    LET k == Stage(job)
    IN  IF job = "transcode" /\ count > 0
        THEN Rounded(100 * count * bandStart(k) + STAGES[k].weight * (100 * index + fraction),
                     100 * count)
        ELSE Rounded(100 * bandStart(k) + STAGES[k].weight * fraction, 100)
=============================================================================
