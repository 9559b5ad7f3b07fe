----------------------------- MODULE RunReports -----------------------------
(***************************************************************************)
(* A captured run and what is said of it afterwards: tour_capture.py's      *)
(* frames, the pose CSV of tlm.py in the dialects tools have written, and   *)
(* what leg_analysis.py and tour_chart.py make of the file.  The robot      *)
(* drives on a line: x in mm, headings in centidegrees, bearing 0 or 18000. *)
(***************************************************************************)
EXTENDS Integers, Sequences, FiniteSets

CONSTANTS
    Spots, Skew,        \* where a sample may be, and off which heading
    Corners,            \* the legs' targets, in order
    Wild,               \* the x of a corrupt sample
    MaxPose,            \* MAX_POSE_MM
    DistanceTol, HeadingTol,
    Circumstances,      \* of a capture: its recorder, its OTOS, how long after
                        \* its start the first frame came, and how many frames
                        \* may be lost, corrupt or short
    MaxSamples

ASSUME ReportAssumption ==
    /\ Spots \subseteq Int /\ 0 \in Spots /\ Skew \subseteq Int
    /\ MaxPose \in Nat /\ Wild \in Nat /\ Wild > MaxPose
    /\ DistanceTol \in Nat /\ HeadingTol \in 0 .. 8999 /\ MaxSamples \in Nat
    /\ Corners \in Seq(Int)

VARIABLES
    tourRobot,  \* the robot: its pose, and whether the leg has begun
    driven,     \* the legs it drove: <<from, to>>
    samples,    \* the frames the recorder decoded
    told,       \* every leg can be told from its neighbours in the frames
    capture,    \* the recorder's circumstances
    poseCsv,    \* the file
    report      \* what was made of it

reportVars == <<tourRobot, driven, samples, told, capture, poseCsv, report>>

None == "none"
Distance(a, b) == IF a <= b THEN b - a ELSE a - b

\* field.wrap(), into (-18000, 18000].
WrapHeading(d) == d - 36000 * ((d + 17999) \div 36000)

-----------------------------------------------------------------------------
(* The pose CSV.  A cell is in hundredths of its column's unit.             *)

Col(name, factor) == [name |-> name, factor |-> factor]

\* POSE_CSV_COLUMNS and _LEGACY_POSE_SCHEMAS: frame key -> column.
Schemas == <<
    [columns |-> [now |-> Col("t_dev_ms", 1), x |-> Col("x_mm", 1), h |-> Col("h_cdeg", 1),
                  ox |-> Col("ox_mm", 1), oh |-> Col("oh_cdeg", 1)],
     wheels |-> <<Col("vl_mms", 1)>>],
    [columns |-> [now |-> Col("dev_ms", 1), x |-> Col("enc_x_cm", 10), h |-> Col("enc_h_deg", 100),
                  ox |-> Col("otos_x_cm", 10), oh |-> Col("otos_h_deg", 100)],
     wheels |-> <<>>],
    [columns |-> [now |-> Col("dev_ms", 1), x |-> Col("enc_x", 10), h |-> Col("enc_h", 100),
                  ox |-> Col("otos_x", 10), oh |-> Col("otos_h", 100)],
     wheels |-> <<Col("vl_mms", 1), Col("vl_cms", 10)>>],
    [columns |-> [now |-> Col("t_dev_ms", 1), x |-> Col("x_mm", 1), h |-> Col("h_cdeg", 1),
                  ox |-> Col("ox", 1), oh |-> Col("oh", 1)],
     wheels |-> <<>>]>>

ColumnNames(cols) == {cols[k].name : k \in DOMAIN cols}

\* What a recorder of the repository's history wrote: a schema, with or
\* without wheel speeds; or the five columns from before the OTOS.
Recorders ==
    [schema : 0 .. Len(Schemas), wheels : 0 .. 2]
\* No recorder of another history, and no spot a chart would take for corrupt.
ASSUME CircumstancesAssumption ==
    /\ \A c \in Circumstances : c.recorder \in Recorders /\ c.delay \in Nat /\ c.faults \in Nat
    /\ \A x \in Spots : Distance(0, x) < MaxPose
RecorderColumns(r) ==
    LET cols == Schemas[IF r.schema = 0 THEN 1 ELSE r.schema] IN
    IF r.schema = 0 THEN [k \in {"now", "x", "h"} |-> cols.columns[k]]
    ELSE IF r.wheels \in DOMAIN cols.wheels
      THEN [k \in {"vl"} \cup DOMAIN cols.columns |->
              IF k = "vl" THEN cols.wheels[r.wheels] ELSE cols.columns[k]]
    ELSE cols.columns

Cell(value, col) == (value * 100) \div col.factor

\* write_pose_csv(): row by row, until one lacks a key.
RowsWritten(frames, cols) ==
    LET bad == {i \in DOMAIN frames : ~(DOMAIN cols \subseteq DOMAIN frames[i])}
        good == {i \in DOMAIN frames : \A b \in bad : i < b}
    IN [i \in good |->
          [name \in ColumnNames(cols) |->
             LET k == CHOOSE k \in DOMAIN cols : cols[k].name = name IN Cell(frames[i][k], cols[k])]]

Match(header) == {s \in DOMAIN Schemas : ColumnNames(Schemas[s].columns) \subseteq header}

\* read_pose_csv(): the first schema whose columns are all there, and the
\* first spelling of the wheel speeds.
read_pose_csv(file) ==
    IF Match(file.header) = {} THEN [ok |-> FALSE, rows |-> <<>>]
    ELSE LET s == Schemas[CHOOSE s \in Match(file.header) : \A r \in Match(file.header) : s <= r]
             spelt == {w \in DOMAIN s.wheels : s.wheels[w].name \in file.header}
             cols == [k \in DOMAIN s.columns \cup (IF spelt = {} THEN {} ELSE {"vl"}) |->
                        IF k = "vl" THEN s.wheels[CHOOSE w \in spelt : \A v \in spelt : w <= v]
                        ELSE s.columns[k]]
         IN [ok |-> TRUE,
             rows |-> [i \in DOMAIN file.rows |->
                         [k \in DOMAIN cols |->
                            (file.rows[i][cols[k].name] * cols[k].factor) \div 100]]]

-----------------------------------------------------------------------------
(* leg_analysis.py.                                                         *)

\* _pose_close(): 0.05 cm is less than the millimetre, 0.1 deg is 10.
Held(a, b) == a.x = b.x /\ Distance(0, WrapHeading(a.h - b.h)) <= 10

\* _segment_leg_index_pairs(): a run of moving samples from the sample
\* before it to the first that is held, or the last there is.
\* Mutant: a leg ends at its last moving sample's predecessor.
LegsOf_Short(rows) ==
    LET moving(i) == i > 1 /\ ~Held(rows[i - 1], rows[i])
        begins == {i \in DOMAIN rows : moving(i) /\ ~moving(i - 1)}
    IN {<<i - 1, (CHOOSE e \in i .. Len(rows) :
                    (\A j \in i .. e : moving(j)) /\ (e = Len(rows) \/ ~moving(e + 1))) - 1>> :
          i \in begins}
LegsOf(rows) ==
    LET moving(i) == i > 1 /\ ~Held(rows[i - 1], rows[i])
        begins == {i \in DOMAIN rows : moving(i) /\ ~moving(i - 1)}
    IN {<<i - 1, IF \A j \in i .. Len(rows) : moving(j) THEN Len(rows)
                 ELSE CHOOSE e \in i .. Len(rows) : ~moving(e) /\ \A j \in i .. e - 1 : moving(j)>> :
          i \in begins}

BearingTo(from, to) == IF to < from THEN 18000 ELSE 0

classify_leg(commanded, believed) ==
    LET distance == believed.distance - commanded.distance
        heading == WrapHeading(believed.heading - commanded.heading)
    IN IF Distance(0, distance) <= DistanceTol THEN
           IF Distance(0, heading) <= HeadingTol THEN "on-target" ELSE "heading-miss"
       ELSE IF distance > 0 THEN "straight-overrun" ELSE "mid-leg-truncation"

\* OTOS_STALE_MIN_ENCODER_CM is 2 cm; 0.1 cm of OTOS movement is a millimetre.
detect_otos_staleness(distance, a, b) ==
    /\ ~(a.ox = 0 /\ a.oh = 0 /\ b.ox = 0 /\ b.oh = 0)
    /\ Distance(a.ox, b.ox) <= 1 /\ distance >= 20

\* analyze_pose_csv(): leg by leg in order, as far as there are targets.
analyze(rows) ==
    LET legs == LegsOf(rows)
        nth(n) == CHOOSE l \in legs : Cardinality({k \in legs : k[1] <= l[1]}) = n
        row(n) == LET a == rows[nth(n)[1]]
                      b == rows[nth(n)[2]]
                      believed == [distance |-> Distance(a.x, b.x), heading |-> b.h]
                      commanded == [distance |-> Distance(a.x, Corners[n]),
                                    heading |-> BearingTo(a.x, Corners[n])]
                  IN [from |-> a, to |-> b, verdict |-> classify_leg(commanded, believed),
                      stale |-> detect_otos_staleness(believed.distance, a, b)]
    IN [n \in {m \in DOMAIN Corners : m <= Cardinality(legs)} |-> row(n)]

-----------------------------------------------------------------------------
(* tour_chart.py.  The pose is timed by the device, the speeds by the host. *)

chart(rows) ==
    LET t(i) == rows[i].now - rows[1].now
        moved == {1} \cup {i \in DOMAIN rows : i > 1 /\ (rows[i].x # rows[i - 1].x \/ rows[i].h # rows[i - 1].h)}
        cut == t(CHOOSE i \in moved : \A j \in moved : j <= i) + 1
        pose == {i \in DOMAIN rows : t(i) <= cut /\ Distance(0, rows[i].x) < MaxPose}
        dead == \A i \in DOMAIN rows : rows[i].ox = 0 /\ rows[i].oh = 0
        ends == {CHOOSE i \in pose : \A j \in pose : i <= j, CHOOSE i \in pose : \A j \in pose : j <= i}
    IN IF rows = <<>> \/ pose = {} THEN [drawn |-> FALSE]
       ELSE [drawn |-> TRUE, moved |-> moved, pose |-> pose, otosDead |-> dead, ends |-> ends,
             corrupt |-> {i \in DOMAIN rows : t(i) <= cut} \ pose,
             speeds |-> {i \in DOMAIN rows : t(i) + capture.delay <= cut}]

-----------------------------------------------------------------------------
(* The run.  The robot pauses between legs; a frame may be lost, or corrupt. *)

Frame(kind) ==
    LET x == IF kind = "corrupt" THEN Wild ELSE tourRobot'.x
        pose == [now |-> tourRobot'.now, x |-> x, h |-> tourRobot'.h,
                 ox |-> IF capture.otos = "live" THEN tourRobot'.x + 3
                        ELSE IF capture.otos = "frozen" THEN 386 ELSE 0,
                 oh |-> 0, vl |-> x]
    IN IF kind = "short" THEN [k \in {"now", "x", "h"} |-> pose[k]] ELSE pose

Seen(kind) ==
    /\ samples' = IF kind = "lost" THEN samples ELSE Append(samples, Frame(kind))
    /\ capture' = IF kind = "frame" THEN capture ELSE [capture EXCEPT !.faults = @ - 1]
    /\ UNCHANGED <<poseCsv, report>>

Kinds == {"frame"} \cup IF capture.faults > 0 THEN {"lost", "corrupt", "short"} ELSE {}
LastSample == samples[Len(samples)]
Shown == LastSample.x = tourRobot.x /\ LastSample.h = tourRobot.h

\* A capture ends a leg where the next begins: that needs its last pose
\* twice, elsewhere than its first.
LegIsTold == tourRobot.moving => tourRobot.x # tourRobot.from

Drive ==
    /\ capture.on /\ tourRobot.now < MaxSamples /\ Len(driven) <= Len(Corners)
    /\ \E x \in Spots \ {tourRobot.x}, off \in Skew, kind \in Kinds :
         /\ tourRobot' = [x |-> x, h |-> BearingTo(tourRobot.x, x) + off, now |-> tourRobot.now + 1,
                          moving |-> TRUE, from |-> IF tourRobot.moving THEN tourRobot.from ELSE tourRobot.x]
         /\ told' = (/\ told /\ samples # <<>>
                     /\ tourRobot.moving \/ driven = <<>>
                        \/ (Len(samples) >= 2 /\ Held(samples[Len(samples) - 1], LastSample) /\ Shown)
                     /\ kind \in {"frame", "lost"}
                     /\ kind = "frame" => ~Held(LastSample, tourRobot'))
         /\ Seen(kind)
    /\ UNCHANGED driven

Pause ==
    /\ capture.on /\ tourRobot.now < MaxSamples
    /\ tourRobot' = [tourRobot EXCEPT !.now = @ + 1, !.moving = FALSE]
    /\ driven' = IF tourRobot.moving THEN Append(driven, <<tourRobot.from, tourRobot.x, tourRobot.h>>) ELSE driven
    /\ \E kind \in Kinds : Seen(kind) /\ told' = (told /\ LegIsTold /\ kind \in {"frame", "lost"})

\* The capture ends, in the middle of a leg or not: the file, and the
\* sidecar if the writer got that far.
EndCapture ==
    /\ capture.on
    /\ LET cols == RecorderColumns(capture.recorder)
           rows == RowsWritten(samples, cols)
       IN /\ poseCsv' = [header |-> ColumnNames(cols), rows |-> rows]
          /\ capture' = [capture EXCEPT !.on = FALSE, !.sidecar = Len(rows) = Len(samples)]
    /\ driven' = IF tourRobot.moving THEN Append(driven, <<tourRobot.from, tourRobot.x, tourRobot.h>>) ELSE driven
    /\ told' = (told /\ samples # <<>> /\ Shown /\ LegIsTold)
    /\ UNCHANGED <<tourRobot, samples, report>>

\* read_meta_sidecar(): how many frames the run's sidecar counts, if there
\* is one.
read_meta_sidecar == IF capture.sidecar THEN [frames |-> {Len(samples)}] ELSE [frames |-> {}]

\* leg_analysis.py and tour_chart.py: a capture whose sidecar counts no
\* frames is refused, and so is a header nobody wrote.
Report(tool) ==
    /\ ~capture.on /\ report.tool = None
    /\ LET read == read_pose_csv(poseCsv)
           ok == read.ok /\ 0 \notin read_meta_sidecar.frames
       IN report' = [tool |-> tool, ok |-> ok, rows |-> read.rows,
                     legs |-> IF ok /\ tool = "leg_analysis" THEN analyze(read.rows) ELSE <<>>,
                     chart |-> IF ok /\ tool = "tour_chart" THEN chart(read.rows) ELSE [drawn |-> FALSE]]
    /\ UNCHANGED <<tourRobot, driven, samples, told, capture, poseCsv>>

Recording(c) ==
    [on |-> TRUE, sidecar |-> FALSE, faults |-> c.faults, otos |-> c.otos, delay |-> c.delay,
     recorder |-> c.recorder]

ReportInit ==
    /\ tourRobot = [x |-> 0, h |-> 0, now |-> 0, moving |-> FALSE, from |-> 0]
    /\ driven = <<>> /\ samples = <<>> /\ told = TRUE
    /\ \E c \in Circumstances : capture = Recording(c)
    /\ poseCsv = [header |-> {}, rows |-> <<>>]
    /\ report = [tool |-> None, ok |-> FALSE, rows |-> <<>>, legs |-> <<>>, chart |-> [drawn |-> FALSE]]

ReportNext ==
    \/ Drive \/ Pause \/ EndCapture
    \/ Report("leg_analysis") \/ Report("tour_chart")

ReportSpec == ReportInit /\ [][ReportNext]_reportVars

-----------------------------------------------------------------------------
(* Types. *)
ReportTypeOK ==
    /\ tourRobot.x \in Spots /\ tourRobot.now \in 0 .. MaxSamples /\ tourRobot.moving \in BOOLEAN
    /\ Len(samples) <= MaxSamples /\ Len(driven) <= MaxSamples /\ told \in BOOLEAN
    /\ report.tool \in {None, "leg_analysis", "tour_chart"}

(* A file that is read gives back the frames that were recorded, from the   *)
(* first on, in wire units whatever its dialect, with no quantity that its  *)
(* recorder did not write; one without the OTOS columns is not read.        *)
CsvIsTheFrames ==
    report.ok =>
        /\ capture.recorder.schema # 0
        /\ \A i \in DOMAIN report.rows : \A k \in DOMAIN report.rows[i] : report.rows[i][k] = samples[i][k]
        /\ \A i \in DOMAIN report.rows : DOMAIN report.rows[i] = DOMAIN RecorderColumns(capture.recorder)

(* The legs of the table are the legs the robot drove, each with its own    *)
(* target: lost frames on the way do not matter, as long as a leg ends      *)
(* elsewhere than it began and its last pose is seen twice.                 *)
LegsAreTheRobots ==
    told /\ report.ok /\ report.tool = "leg_analysis" =>
        /\ Len(report.legs) = IF Len(driven) < Len(Corners) THEN Len(driven) ELSE Len(Corners)
        /\ \A n \in DOMAIN report.legs :
             /\ report.legs[n].from.x = driven[n][1] /\ report.legs[n].to.x = driven[n][2]
             /\ report.legs[n].to.h = driven[n][3]

(* On target means at the target, for a leg that ended nose first; and an   *)
(* OTOS is called stale only if it stood still while the wheels drove, and  *)
(* never on a robot that has none.                                          *)
VerdictsAreEarned ==
    told /\ report.ok => \A n \in DOMAIN report.legs :
        /\ /\ report.legs[n].verdict = "on-target"
           /\ Distance(0, WrapHeading(driven[n][3] - BearingTo(driven[n][1], driven[n][2]))) <= HeadingTol
           => Distance(driven[n][2], Corners[n]) <= DistanceTol
        /\ report.legs[n].stale <=> capture.otos = "frozen" /\ Distance(driven[n][1], driven[n][2]) >= 20

(* A chart keeps every plausible sample up to the last motion, counts the   *)
(* implausible ones, and its ends are not among them; the speeds of a run   *)
(* whose first frame came within a second are kept as long.                 *)
ChartsKeepTheRun ==
    report.chart.drawn =>
        LET c == report.chart IN
        /\ \A i \in DOMAIN report.rows : (\E m \in c.moved : i <= m) => i \in c.pose \cup c.corrupt
        /\ \A i \in c.corrupt : samples[i].x = Wild
        /\ \A i \in c.pose : samples[i].x # Wild
        /\ c.ends \subseteq c.pose
        /\ capture.delay <= 1 => \A m \in c.moved : m \in c.speeds
        /\ capture.otos = None => c.otosDead

ReportsAreFaithful == CsvIsTheFrames /\ LegsAreTheRobots /\ VerdictsAreEarned /\ ChartsKeepTheRun
=============================================================================
