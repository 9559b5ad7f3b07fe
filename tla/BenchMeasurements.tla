------------------------ MODULE BenchMeasurements ------------------------
(***************************************************************************)
(* The measuring tools of the bench and the field: turn_sweep.py,           *)
(* pivot_truth.py and rotation_check.py compare a commanded pivot with what *)
(* the camera and the OTOS saw, arc_capture.py reads a trajectory the robot *)
(* sampled, and otos_levercal.py fits the sensor's lever arm.  Each sends   *)
(* numbered RUN lines over a link that loses lines both ways and reads the  *)
(* answers out of one stream.                                               *)
(***************************************************************************)
EXTENDS FieldAngles, Sequences, FiniteSets

CONSTANTS
    BenchPlans,         \* [tool, cells]: a tool and the angles it is given
    Slips,              \* how far a pivot ends from what was asked
    Trajectories,       \* the headings a sampled arc can go through
    ChunkSize, SampleCap,   \* ARCT_CHUNK and ARC_SAMPLE_CAP
    PivotFixes, MinPivots,  \* the fixes of a calibration, and what a fit needs
    FrameStep,          \* the most a robot turns between two camera frames
    MissedFrames,       \* frames without the tag, one after the other
    MinFrames,          \* turn_sweep.py's 8 samples
    BenchLosses,        \* lines lost in a run
    BadReads            \* OTOS reads that fail in a run

ASSUME BenchAssumption ==
    /\ {ChunkSize, SampleCap, PivotFixes, MinPivots, FrameStep, MinFrames} \subseteq Nat \ {0}
    /\ {MissedFrames, BenchLosses, BadReads} \subseteq Nat
    /\ FrameStep * (MissedFrames + 1) < 180

VARIABLES
    bench,      \* the tool
    rig,        \* the robot: its queue of jobs, the one it runs, where it faces
    benchAir,   \* what the robot said and the tool has not read
    eye         \* Cam: the yaw summed from frame to frame since the last mark

benchVars == <<bench, rig, benchAir, eye>>

Absent0 == [said |-> "nothing"]     \* no line, no reading, no row

-----------------------------------------------------------------------------
(* What a tool does for one cell, in order. *)

AskFor(verb, arg, expect, tries) ==
    [do |-> "ask", verb |-> verb, arg |-> arg, expect |-> expect, tries |-> tries]
Post(verb, arg) == [do |-> "post", verb |-> verb, arg |-> arg]      \* send(): unanswered
Do(what) == [do |-> what]
Fix(tries) == AskFor("fix", 0, "OCAL", tries)

CellSteps(tool, deg) ==
    CASE tool = "turn_sweep" ->     \* TRN: is waited for, and nothing says it
            <<Post("turnrate", 0), Do("mark"), Post("pivot", deg), Do("wait TRN"), Do("mark"), Do("row")>>
      [] tool = "pivot_truth" ->
            <<Do("mark"), Fix(2), AskFor("pivot", deg, "GAP", 1), Do("mark"), Fix(2), Do("row")>>
      [] tool = "rotation_check" ->
            <<Fix(1), Do("frame"), AskFor("pivot", deg, "GAP", 2), Fix(1), Do("frame"), Do("row")>>
      [] tool = "arc_capture" ->
            <<AskFor("notarealverb", 0, "err 1", 1), AskFor("arc", deg, "DBG:arc", 2), Do("collect")>>
      [] tool = "otos_levercal" -> <<AskFor("cal", 0, "OCAL:begin", 3), Do("collect")>>

\* fix(): three commands, until one is answered.
FixTries == IF bench.tool = "rotation_check" THEN 3 ELSE 1

NextCell(b) ==
    [b EXCEPT !.steps = IF b.cells = <<>> THEN <<>> ELSE CellSteps(b.tool, Head(b.cells)),
              !.deg = IF b.cells = <<>> THEN 0 ELSE Head(b.cells),
              !.cells = IF b.cells = <<>> THEN <<>> ELSE Tail(b.cells),
              !.marks = <<>>, !.fixes = <<>>, !.fixTry = 1, !.waiting = 0, !.heard = <<>>]

OneStepOn(b) == [b EXCEPT !.steps = Tail(@), !.waiting = 0, !.fixTry = 1]

\* A reading is missing: the cell is skipped, or the tool exits.
SkipCell(b) ==
    IF b.tool \in {"arc_capture", "otos_levercal"} THEN [b EXCEPT !.steps = <<>>, !.exit = "no report"]
    ELSE NextCell(b)

Step == Head(bench.steps)
At(what) == bench.steps # <<>> /\ Step.do = what

-----------------------------------------------------------------------------
(* The robot: what it hears, and its jobs, first in first out. *)

\* Mutant: any number is taken.
Takes_Any(n) == TRUE
Takes(n) == n = rig.expected

\* A numbered line goes out, and arrives or is lost.
GoesOut(n, step, b) ==
    \/ bench.lost < BenchLosses /\ bench' = [b EXCEPT !.lost = @ + 1] /\ UNCHANGED rig
    \/ /\ bench' = b
       /\ rig' = IF ~Takes(n) THEN rig
                 ELSE [rig EXCEPT !.expected = n + 1,
                                  !.queue = Append(@, [verb |-> step.verb, arg |-> step.arg])]

Line(said, n, pose) == [said |-> said, n |-> n, pose |-> pose]
\* A pose as the tool sees it, and what it is a pose of.
PoseNow(failed) ==
    [h |-> wrap(IF failed THEN rig.read ELSE rig.yaw), yaw |-> rig.yaw, ran |-> rig.ran, failed |-> failed]
Nowhere == [h |-> 0, yaw |-> 0, ran |-> 0, failed |-> FALSE]
Tells(said) == Line(said, 0, Nowhere)

\* logFix(): a failed read is told, and the last pose follows all the same.
LogFix(tag, n, failed) ==
    (IF failed THEN <<Line("OERR", n, Nowhere)>> ELSE <<>>) \o <<Line(tag, n, PoseNow(failed))>>
Reads(failed) == failed => rig.badReads < BadReads
AfterRead(r, failed) ==
    [r EXCEPT !.read = IF failed THEN @ ELSE rig.yaw, !.badReads = IF failed THEN @ + 1 ELSE @]

\* tickArcSampled() and emitTrajectory().
Sampled(path) == SubSeq(path, 1, IF Len(path) > SampleCap THEN SampleCap ELSE Len(path))
Chunks(samples) ==
    [k \in 1 .. (Len(samples) + ChunkSize - 1) \div ChunkSize |->
        SubSeq(samples, (k - 1) * ChunkSize + 1,
               IF k * ChunkSize > Len(samples) THEN Len(samples) ELSE k * ChunkSize)]
Dump(path) ==
    LET chunks == Chunks(Sampled(path))
    IN <<Tells("GAP"), Tells("ARC:end"), Line("ARCT:meta", Len(Sampled(path)), Nowhere)>>
       \o [k \in DOMAIN chunks |-> Line("ARCT", k, chunks[k])] \o <<Tells("ARCT:done")>>

JobIs(verb) == rig.job = "idle" /\ rig.queue # <<>> /\ Head(rig.queue).verb = verb
Popped == [rig EXCEPT !.queue = Tail(@)]

StartPivot ==
    /\ JobIs("pivot")
    /\ \E slip \in Slips :
         rig' = [Popped EXCEPT !.job = "pivot", !.left = Head(rig.queue).arg + slip]
    /\ UNCHANGED <<bench, benchAir, eye>>

\* The camera sees the tag, or misses it.
FrameOf(yaw) ==
    eye' = [total |-> eye.total + wrap(yaw - eye.prev), prev |-> yaw,
            n |-> IF eye.n < MinFrames THEN eye.n + 1 ELSE eye.n, missed |-> 0]
FrameMissed == eye.missed < MissedFrames /\ eye' = [eye EXCEPT !.missed = @ + 1]

\* The robot turns under the camera.
TurnOn ==
    /\ rig.job = "pivot" /\ rig.left # 0
    /\ LET by == IF Abs(rig.left) <= FrameStep THEN rig.left
                 ELSE IF rig.left > 0 THEN FrameStep ELSE -FrameStep
       IN /\ rig' = [rig EXCEPT !.left = @ - by, !.yaw = @ + by]
          /\ FrameOf(rig.yaw + by) \/ FrameMissed
    /\ UNCHANGED <<bench, benchAir>>

\* Frames come of a robot at rest too, and count: turn_sweep.py, the one tool
\* that looks at their number, takes every frame of its wait.
FrameAtRest ==
    /\ bench.tool = "turn_sweep" /\ rig.job = "idle" /\ eye.n < MinFrames
    /\ FrameOf(rig.yaw)
    /\ UNCHANGED <<bench, rig, benchAir>>

EndPivot ==
    /\ rig.job = "pivot" /\ rig.left = 0
    /\ rig' = [rig EXCEPT !.job = "idle", !.ran = @ + 1]
    /\ benchAir' = benchAir \o <<Tells("GAP"), Tells("PIVOT:end")>>
    /\ UNCHANGED <<bench, eye>>

\* Jobs that end before the next line is read.
QuickJob ==
    /\ \/ JobIs("turnrate") /\ rig' = Popped /\ UNCHANGED benchAir
       \/ JobIs("notarealverb") /\ rig' = Popped /\ benchAir' = Append(benchAir, Tells("err 1"))
       \/ /\ JobIs("fix")
          /\ \E failed \in BOOLEAN :
               /\ Reads(failed)
               /\ rig' = AfterRead(Popped, failed)
               /\ benchAir' = benchAir \o LogFix("OCAL", 0, failed)
       \/ /\ JobIs("arc")
          /\ \E path \in Trajectories :
               /\ rig' = [Popped EXCEPT !.path = path]
               /\ benchAir' = benchAir \o <<Tells("DBG:arc")>> \o Dump(path)
    /\ UNCHANGED <<bench, eye>>

\* leverCal(): the sensor's offsets are zeroed, and a fix follows each turn.
StartCal ==
    /\ JobIs("cal")
    /\ rig' = [Popped EXCEPT !.job = "cal", !.left = 0]
    /\ benchAir' = benchAir \o <<Tells("OCAL:begin")>>
    /\ UNCHANGED <<bench, eye>>
CalTurn ==
    /\ rig.job = "cal" /\ rig.left < PivotFixes
    /\ \E failed \in BOOLEAN :
         /\ Reads(failed)
         /\ rig' = [AfterRead(rig, failed) EXCEPT !.left = @ + 1, !.yaw = @ + 45,
                                                  !.read = IF failed THEN @ ELSE rig.yaw + 45]
         /\ benchAir' = benchAir \o
              (IF failed THEN <<Line("OERR", rig.left + 1, Nowhere)>> ELSE <<>>)
              \o <<Line("OCAL:p", rig.left + 1,
                        [PoseNow(failed) EXCEPT !.yaw = rig.yaw + 45,
                                                !.h = IF failed THEN @ ELSE wrap(rig.yaw + 45)])>>
    /\ UNCHANGED <<bench, eye>>
EndCal ==
    /\ rig.job = "cal" /\ rig.left = PivotFixes
    /\ rig' = [rig EXCEPT !.job = "idle", !.left = 0, !.ran = @ + 1]
    /\ benchAir' = benchAir \o <<Line("OCAL:s1", 0, PoseNow(FALSE)), Tells("OCAL:end")>>
    /\ UNCHANGED <<bench, eye>>

-----------------------------------------------------------------------------
(* The tool: sending, and reading until an answer or until its time is up.  *)
(* The waits are long enough: nothing the robot still does outlasts one.    *)

Silent == benchAir = <<>> /\ rig.queue = <<>> /\ rig.job = "idle"

\* The same line again carries the same number.
\* Mutant: each try has its own.
IdOf_Fresh(step) == bench.seq + 1
IdOf(step) == IF bench.waiting = 0 THEN bench.seq + 1 ELSE bench.seq

post ==
    /\ At("post")
    /\ GoesOut(bench.seq + 1, Step, [OneStepOn(bench) EXCEPT !.seq = @ + 1])
    /\ UNCHANGED <<benchAir, eye>>

\* send_until(): the first try, and the next ones once the air is quiet.
send_until ==
    /\ At("ask") /\ (bench.waiting = 0 \/ Silent) /\ bench.waiting < Step.tries
    /\ GoesOut(IdOf(Step), Step, [bench EXCEPT !.seq = IdOf(Step), !.waiting = @ + 1])
    /\ UNCHANGED <<benchAir, eye>>

AnsweredBy(line) ==
    IF Step.expect = "OCAL" THEN [OneStepOn(bench) EXCEPT !.fixes = Append(@, line.pose)] ELSE OneStepOn(bench)

\* What a wait without an answer means to each step.
Unanswered ==
    IF Step.expect = "OCAL" /\ bench.fixTry < FixTries
      THEN [bench EXCEPT !.fixTry = @ + 1, !.waiting = 0]
    ELSE IF Step.expect \in {"OCAL", "DBG:arc", "OCAL:begin"} THEN SkipCell(bench)
    ELSE OneStepOn(bench)

read ==
    /\ At("ask") /\ bench.waiting > 0 /\ benchAir # <<>>
    /\ benchAir' = Tail(benchAir)
    /\ \/ bench' = IF Head(benchAir).said = Step.expect THEN AnsweredBy(Head(benchAir)) ELSE bench
       \/ bench.lost < BenchLosses /\ bench' = [bench EXCEPT !.lost = @ + 1]
    /\ UNCHANGED <<rig, eye>>
timeout ==
    /\ At("ask") /\ bench.waiting = Step.tries /\ Silent
    /\ bench' = Unanswered
    /\ UNCHANGED <<rig, benchAir, eye>>

\* lines(budget, until='TRN:'): everything is read, and none of it is TRN.
wait_TRN ==
    /\ At("wait TRN") /\ rig.queue = <<>> /\ rig.job = "idle"
    /\ benchAir' = <<>> /\ bench' = OneStepOn(bench)
    /\ UNCHANGED <<rig, eye>>

\* encoder_heading(): a frame decoded in this window, or none.
encoder_heading ==
    /\ At("frame")
    /\ bench' = OneStepOn(bench) \/ bench' = SkipCell(bench)
    /\ UNCHANGED <<rig, benchAir, eye>>

\* _yaw_mark(), after a pause in which a frame of the robot at rest came; a
\* dead camera has no pose.
yaw_mark ==
    /\ At("mark")
    /\ \/ bench' = [OneStepOn(bench) EXCEPT !.marks =
                      Append(@, [total |-> eye.total + wrap(rig.yaw - eye.prev), yaw |-> rig.yaw,
                                 ran |-> rig.ran, few |-> eye.n < MinFrames])]
       \/ bench' = SkipCell([bench EXCEPT !.cells = <<>>])
    /\ eye' = [total |-> 0, prev |-> rig.yaw, n |-> 0, missed |-> 0]
    /\ UNCHANGED <<rig, benchAir>>

\* The row of a cell: the camera's turn, and the OTOS's on the revolution
\* the command names.  turn_sweep.py wants enough samples.
\* Mutant: the two readings as they are.
OtosTurn_AsRead(deg, before, after) == after.h - before.h
OtosTurn(deg, before, after) == turn_total(deg, after.h - before.h)
Row ==
    [said |-> "row", tool |-> bench.tool, deg |-> bench.deg,
     camera |-> IF Len(bench.marks) = 2 THEN bench.marks[2].total ELSE 0,
     turned |-> IF Len(bench.marks) = 2 THEN bench.marks[2].yaw - bench.marks[1].yaw ELSE 0,
     pivots |-> IF Len(bench.marks) = 2 THEN bench.marks[2].ran - bench.marks[1].ran ELSE 0,
     otos |-> IF Len(bench.fixes) = 2 THEN OtosTurn(bench.deg, bench.fixes[1], bench.fixes[2]) ELSE 0,
     fixes |-> bench.fixes]
row ==
    /\ At("row")
    /\ bench' = [NextCell(bench) EXCEPT !.row =
                   IF bench.tool = "turn_sweep" /\ bench.marks[2].few THEN @ ELSE Row]
    /\ UNCHANGED <<rig, benchAir, eye>>

-----------------------------------------------------------------------------
(* arc_capture.py and otos_levercal.py collect lines until the last one. *)

collect ==
    /\ At("collect") /\ benchAir # <<>>
    /\ benchAir' = Tail(benchAir)
    /\ \/ bench' = [bench EXCEPT !.heard = IF Head(benchAir).said \in {"GAP", "ARC:end", "OERR"} THEN @
                                            ELSE Append(@, Head(benchAir))]
       \/ bench.lost < BenchLosses /\ bench' = [bench EXCEPT !.lost = @ + 1]
    /\ UNCHANGED <<rig, eye>>

Heard(said) == {i \in DOMAIN bench.heard : bench.heard[i].said = said}
First(S) == bench.heard[Least(S)]

\* The chunks that came, in the order of their indices.
Assembled ==
    LET F[k \in Nat] == IF k = 0 THEN <<>>
                        ELSE F[k - 1] \o (LET at == {i \in Heard("ARCT") : bench.heard[i].n = k}
                                          IN IF at = {} THEN <<>> ELSE First(at).pose)
    IN F[(SampleCap + ChunkSize - 1) \div ChunkSize]

\* Mutant: the dump is taken as it came.
CompleteDump_Done(samples) == Heard("ARCT:done") # {}
CompleteDump(samples) ==
    /\ Heard("ARCT:meta") # {} /\ Heard("ARCT:done") # {}
    /\ Len(samples) = First(Heard("ARCT:meta")).n

\* The first highest heading, and the first low after it.
Peak(h) == Least({i \in DOMAIN h : \A j \in DOMAIN h : h[j] <= h[i]})
LegStart(h) ==
    LET p == Peak(h)
        rises == {i \in p + 1 .. Len(h) : h[i] >= h[i - 1]}
    IN IF rises = {} THEN Len(h) ELSE Least(rises) - 1

Collected == At("collect") /\ (Silent \/ Heard("ARCT:done") # {} \/ Heard("OCAL:end") # {})

report_arc ==
    /\ bench.tool = "arc_capture" /\ Collected
    /\ bench' = IF ~CompleteDump(Assembled) THEN SkipCell(bench)
                ELSE [bench EXCEPT !.steps = <<>>, !.exit = "report",
                        !.row = [said |-> "arc", path |-> Assembled,
                                 unwind |-> Assembled[Peak(Assembled)] - Assembled[LegStart(Assembled)]]]
    /\ UNCHANGED <<rig, benchAir, eye>>

\* The fixes of the turns, by their tags; the leg's start is the last of them.
PivotsHeard == Heard("OCAL:p")
LastPivot == CHOOSE i \in PivotsHeard : \A j \in PivotsHeard : bench.heard[j].n <= bench.heard[i].n

report_cal ==
    /\ bench.tool = "otos_levercal" /\ Collected
    /\ bench' = IF Cardinality(PivotsHeard) < MinPivots THEN SkipCell(bench)
                ELSE [bench EXCEPT !.steps = <<>>, !.exit = "report",
                        !.row = [said |-> "cal",
                                 used |-> {bench.heard[i] : i \in PivotsHeard},
                                 yawFrom |-> IF Heard("OCAL:s1") = {} THEN 0 ELSE bench.heard[LastPivot].n]]
    /\ UNCHANGED <<rig, benchAir, eye>>

-----------------------------------------------------------------------------

Begun(p) ==
    NextCell([tool |-> p.tool, cells |-> p.cells, deg |-> 0, steps |-> <<>>, waiting |-> 0,
              fixTry |-> 1, seq |-> 0, lost |-> 0, marks |-> <<>>, fixes |-> <<>>,
              heard |-> <<>>, row |-> Absent0, exit |-> "none"])

BenchInit ==
    /\ \E p \in BenchPlans : bench = Begun(p)
    /\ rig = [expected |-> 1, queue |-> <<>>, job |-> "idle", left |-> 0, yaw |-> 0, read |-> 0,
              badReads |-> 0, ran |-> 0, path |-> <<>>]
    /\ benchAir = <<>>
    /\ eye = [total |-> 0, prev |-> 0, n |-> 0, missed |-> 0]

BenchNext ==
    \/ StartPivot \/ TurnOn \/ FrameAtRest \/ EndPivot \/ QuickJob \/ StartCal \/ CalTurn \/ EndCal
    \/ post \/ send_until \/ read \/ timeout \/ wait_TRN \/ encoder_heading \/ yaw_mark \/ row
    \/ collect \/ report_arc \/ report_cal

BenchSpec == BenchInit /\ [][BenchNext]_benchVars

-----------------------------------------------------------------------------
(* Types. *)
BenchTypeOK ==
    /\ bench.lost \in 0 .. BenchLosses /\ bench.waiting \in 0 .. 3 /\ bench.fixTry \in 1 .. 3
    /\ rig.badReads \in 0 .. BadReads /\ rig.job \in {"idle", "pivot", "cal"}
    /\ eye.missed \in 0 .. MissedFrames /\ eye.n \in 0 .. MinFrames

IsRow == bench.row.said = "row"

(* A row's turn by the camera is the turn the robot made between the marks, *)
(* to the sign and the revolution, whatever frames were missed.  It may be  *)
(* no turn at all: see SweepRowIsOfItsPivot.                                *)
CameraSawTheTurn == IsRow => bench.row.camera = bench.row.turned

(* A row with an OTOS turn is of exactly one pivot, run between its two     *)
(* fixes, and has the turn the robot made, if that was within half a        *)
(* revolution of the command and both reads were good: a lost command makes *)
(* the robot refuse the fix after it, so its row is never written.          *)
OtosRowIsOnePivot ==
    IsRow /\ Len(bench.row.fixes) = 2 =>
        LET before == bench.row.fixes[1]
            after == bench.row.fixes[2]
        IN /\ after.ran = before.ran + 1
           /\ ~before.failed /\ ~after.failed /\ Abs(after.yaw - before.yaw - bench.row.deg) < 180
                => bench.row.otos = after.yaw - before.yaw

(* A trajectory that is reported is the one the robot sampled, up to its    *)
(* cap, and a heading that never falls has no unwind.                       *)
ArcIsWhole ==
    bench.row.said = "arc" =>
        /\ bench.row.path = Sampled(rig.path)
        /\ (\A i \in 2 .. Len(rig.path) : rig.path[i - 1] <= rig.path[i]) => bench.row.unwind = 0

(* A calibration is one sweep, however often its start was sent, and the    *)
(* yaw is taken from where the leg began unless that fix was lost.          *)
SweepRanOnce ==
    bench.row.said = "cal" =>
        /\ rig.ran = 1
        /\ bench.row.yawFrom \in {0, PivotFixes} \/ bench.lost > 0

(* A row of turn_sweep.py is of the one pivot its cell commanded; a pivot   *)
(* that did not happen has none (one_turn: a result row or None if          *)
(* unmeasurable).  Not so: a RUN line that was lost is not noticed, the     *)
(* frames of the robot at rest are enough, and the row says it turned by 0. *)
SweepRowIsOfItsPivot == IsRow /\ bench.row.tool = "turn_sweep" => bench.row.pivots = 1

(* What a measuring tool reports is what happened: the camera's turn, one   *)
(* pivot per OTOS row, a whole trajectory, one calibration sweep.           *)
MeasurementsAreSound == CameraSawTheTurn /\ OtosRowIsOnePivot /\ ArcIsWhole /\ SweepRanOnce
=============================================================================
