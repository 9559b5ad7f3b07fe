----------------------------- MODULE FieldPaths -----------------------------
(***************************************************************************)
(* What the overhead camera says of a robot and of the path it drove:       *)
(* camlink.py's tag mounts and field.py's poses, in whole centimetres and   *)
(* degrees, and the scores of field.py, tour_run.py and tour_practice.py    *)
(* over rows [t, x, y, yaw], t in hundredths of a second.  Distances are    *)
(* squared, and the edges run along the axes.                               *)
(***************************************************************************)
EXTENDS FieldAngles, SequencesExt

CONSTANT Nothing     \* None

Square(n) == n * n
Clamp(n, low, high) == IF n < low THEN low ELSE IF n > high THEN high ELSE n

-----------------------------------------------------------------------------
(* Tag mounts.  The daemon keeps what was registered; constructing a Cam    *)
(* registers nothing.                                                       *)

Mount(x, yaw) == [x |-> x, yaw |-> yaw]

\* mount_yaw_rad(): the convention is added here and nowhere else.
mount_yaw(residual) == residual - 90

KnownRobot(name, calibration) == name \in DOMAIN calibration.robots
HasFields(entry) == entry.complete

\* Cam.register(): the tags registered, in order, and what became of it.  An
\* entry without its fields raises KeyError where it is read.
Furnish(mounts, tags) ==
    LET bad == {i \in DOMAIN tags : ~HasFields(tags[i])}
        done == IF bad = {} THEN Len(tags) ELSE Least(bad) - 1
        of(tag) == {i \in 1 .. done : tags[i].tag = tag}
    IN [mounts |-> [tag \in DOMAIN mounts |->
                      IF of(tag) = {} THEN mounts[tag] ELSE Mount(tags[Least(of(tag))].x, 0)],
        status |-> IF bad = {} THEN "registered" ELSE "KeyError"]
register(mounts, calibration, target) ==
    IF target = "field"
    THEN IF calibration.field = <<>> THEN [mounts |-> mounts, status |-> "SystemExit"]
         ELSE Furnish(mounts, calibration.field)
    ELSE IF ~KnownRobot(target, calibration) THEN [mounts |-> mounts, status |-> "SystemExit"]
    ELSE LET entry == calibration.robots[target] IN
         IF ~HasFields(entry) THEN [mounts |-> mounts, status |-> "KeyError"]
         ELSE [mounts |-> [mounts EXCEPT ![entry.tag] = Mount(entry.x, mount_yaw(entry.residual))],
               status |-> "registered"]

\* A quarter's bearing: a lever of a few centimetres does not show a degree.
Bearings == {0, 90, 180, -90}
Nearest(h) == CHOOSE q \in Bearings : \A r \in Bearings : Abs(wrap(h - q)) <= Abs(wrap(h - r))
Cos(q) == IF q = 0 THEN 1 ELSE IF q = 180 THEN -1 ELSE 0
Sin(q) == IF q = 90 THEN 1 ELSE IF q = -90 THEN -1 ELSE 0
Ahead(pose, d) ==
    [pose EXCEPT !.x = @ + d * Cos(Nearest(pose.h)), !.y = @ + d * Sin(Nearest(pose.h))]

\* The camera sees a tag `at` cm ahead of the robot's centre, a quarter turn
\* off its front and skewed by what mount.py measures as the residual.  The
\* daemon takes the tag's mount off; a tag nobody registered is reported raw.
RawTag(pose, at, skew) == [Ahead(pose, at) EXCEPT !.h = wrap(@ - 90 - skew)]
Reported(raw, mount) ==
    IF mount = Nothing THEN raw
    ELSE Ahead([raw EXCEPT !.h = wrap(@ - mount.yaw)], -mount.x)

robot_heading_from_tag_yaw(yaw, residual) == wrap(yaw + 90 + residual)

\* The circular mean of one heading, or of two less than half a turn apart.
MeanHeading(samples) ==
    LET first == samples[1].h
        last == samples[Len(samples)].h
    IN wrap(first + wrap(last - first) \div 2)

pose_from_registered_samples(samples, lever) ==
    IF samples = <<>> THEN Nothing
    ELSE LET centre(i) == Ahead(samples[i], -lever)
             x[i \in 0 .. Len(samples)] == IF i = 0 THEN 0 ELSE x[i - 1] + centre(i).x
             y[i \in 0 .. Len(samples)] == IF i = 0 THEN 0 ELSE y[i - 1] + centre(i).y
         IN [x |-> x[Len(samples)] \div Len(samples), y |-> y[Len(samples)] \div Len(samples),
             h |-> MeanHeading(samples)]

registered_pose_distance(a, b) == Square(b.x - a.x) + Square(b.y - a.y)

-----------------------------------------------------------------------------
(* Paths.                                                                   *)

Corner(x, y) == <<x, y>>
Edges(corners) == [i \in 1 .. Len(corners) - 1 |-> <<corners[i], corners[i + 1]>>]
NoEdge == -1        \* math.inf: every segment is degenerate

\* The nearest point of a segment, the projection kept inside it.
OffEdge(p, s) ==
    LET d == [k \in 1 .. 2 |-> s[2][k] - s[1][k]]
        length == Square(d[1]) + Square(d[2])
        along == Clamp((p.x - s[1][1]) * d[1] + (p.y - s[1][2]) * d[2], 0, length)
    IN Square(p.x - s[1][1] - (along * d[1]) \div length)
       + Square(p.y - s[1][2] - (along * d[2]) \div length)
Strayed(p, edges) ==
    LET sound == {i \in DOMAIN edges : edges[i][1] # edges[i][2]}
    IN IF sound = {} THEN NoEdge ELSE Least({OffEdge(p, edges[i]) : i \in sound})

path_deviation(rows, edges) ==
    SortSeq([i \in DOMAIN rows |-> Strayed(rows[i], edges)], <)

\* closure(): how far from its start a path ended, and off which heading.
closure(rows, start) ==
    IF rows = <<>> THEN <<Nothing, Nothing>>
    ELSE <<registered_pose_distance(rows[1], rows[Len(rows)]),
           IF start = Nothing THEN Nothing ELSE wrap(rows[Len(rows)].yaw - start)>>

\* analyse(): a row that repeats the place of the one before is no frame.
\* Mutant: it is.
FreshRows_All(rows) == rows
FreshRows(rows) ==
    LET moved == {i \in DOMAIN rows : i = 1 \/ registered_pose_distance(rows[i - 1], rows[i]) > 0}
        order == SetToSortSeq(moved, <)
    IN [i \in DOMAIN order |-> rows[order[i]]]

Lasted(rows, i) == rows[i + 1].t - rows[i].t
Went(rows, i) == registered_pose_distance(rows[i], rows[i + 1])
\* Faster than so many cm/s between two rows.
Faster(rows, i, speed) == 10000 * Went(rows, i) > Square(speed * Lasted(rows, i))
Timed(rows) ==
    {i \in 1 .. Len(rows) - 1 : 2 < Lasted(rows, i) /\ Lasted(rows, i) < 50 /\ ~Faster(rows, i, 200)}

analyse(rows, edges, enough) ==
    IF Len(rows) < enough THEN Nothing
    ELSE LET fresh == FreshRows(rows)
             timed == Timed(fresh)
             moving == {i \in timed : Faster(fresh, i, 3)}
             devs == path_deviation(fresh, edges)
         IN [span |-> rows[Len(rows)].t - rows[1].t,
             duty |-> IF timed = {} THEN 0 ELSE (100 * Cardinality(moving)) \div Cardinality(timed),
             dev_med |-> devs[Len(devs) \div 2 + 1],
             dev_90 |-> devs[(9 * Len(devs)) \div 10 + 1], dev_max |-> devs[Len(devs)]]
=============================================================================
