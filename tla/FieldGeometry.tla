--------------------------- MODULE FieldGeometry ---------------------------
(***************************************************************************)
(* The arithmetic the field tools share: field.py's angles, poses, corner   *)
(* and path scores, park.py's planner.  A behaviour hands one input to one  *)
(* function; headings are whole degrees, distances millimetres, and the     *)
(* bearings are the four of the grid.                                       *)
(***************************************************************************)
EXTENDS FieldPaths

CONSTANTS
    Turns,          \* commanded and measured angles
    Poses,          \* the planner's starting poses [x, y, h]
    Goals,          \* and its targets, headings multiples of 90
    Places, MaxRows,    \* a camera track is of rows [t, near], where near[k]
                    \* is the distance to dot k
    Dots,           \* how many dots the visit order has
    MountsFile,     \* field_calibration.json: robots and field furniture
    MountTags,         \* the numbers of the tags
    Levers, Skews,  \* how far ahead of the centre a tag is, its plate's skew
    PathPoints, PathTimes, PathRows,    \* where and how far apart in time the
                    \* rows of a path are, and how many there are
    PathCorners,    \* RECT, and a list of degenerate segments
    EnoughRows,     \* analyse() looks at no shorter path (20 in the code)
    WindowRadius    \* CORNER_WINDOW_RADIUS

\* A plate's skew is a few degrees.
ASSUME GeometryAssumption ==
    /\ Turns \subseteq Int
    /\ Poses \subseteq [x : Int, y : Int, h : Int]
    /\ Goals \subseteq [x : Int, y : Int, h : Bearings]
    /\ Dots \in Nat /\ WindowRadius \in Nat /\ MaxRows \in Nat
    /\ Places \subseteq [1 .. Dots -> Nat]
    /\ \A name \in DOMAIN MountsFile.robots : MountsFile.robots[name].tag \in MountTags
    /\ MountsFile.field \in Seq([tag : MountTags, x : Int, complete : BOOLEAN])
    /\ Nothing \notin [x : Int, yaw : Int]
    /\ Levers \subseteq Int /\ Skews \subseteq -20 .. 20

VARIABLE geometry   \* the last call: the function, its input and its result

-----------------------------------------------------------------------------
(* park.py. *)

PosTol == 5     \* 0.5 cm
HeadTol == 1
CrossTol == 4

Off(pose, goal) == <<goal.x - pose.x, goal.y - pose.y>>
Parked(pose, goal) ==
    Square(Off(pose, goal)[1]) + Square(Off(pose, goal)[2]) <= Square(PosTol)

\* The distance and bearing of a target on a line of the grid.
Dist(pose, goal) == Abs(goal.x - pose.x) + Abs(goal.y - pose.y)
Bearing(pose, goal) ==
    IF goal.y = pose.y THEN (IF goal.x < pose.x THEN 180 ELSE 0)
    ELSE IF goal.y < pose.y THEN -90 ELSE 90

\* _leg(): nose first or tail first.
Leg(pose, goal, reverse) ==
    LET face == IF reverse THEN wrap(Bearing(pose, goal) + 180) ELSE Bearing(pose, goal)
    IN [turn1 |-> wrap(face - pose.h), drive |-> IF reverse THEN -Dist(pose, goal) ELSE Dist(pose, goal),
        turn2 |-> wrap(goal.h - face)]
Rotation(leg) == Abs(leg.turn1) + Abs(leg.turn2)

Move(kind, value) == [kind |-> kind, value |-> value]
If(cond, move) == IF cond THEN <<move>> ELSE <<>>

Approach(pose, goal) ==
    LET forward == Leg(pose, goal, FALSE)
        back == Leg(pose, goal, TRUE)
        leg == IF Rotation(back) < Rotation(forward) THEN back ELSE forward
    IN If(Abs(leg.turn1) > HeadTol, Move("pivot", leg.turn1))
       \o If(Abs(leg.drive) > PosTol, Move("drive", leg.drive))
       \o If(Abs(leg.turn2) > HeadTol, Move("pivot", leg.turn2))

Along(pose, goal) == Cos(goal.h) * Off(pose, goal)[1] + Sin(goal.h) * Off(pose, goal)[2]
Cross(pose, goal) == Cos(goal.h) * Off(pose, goal)[2] - Sin(goal.h) * Off(pose, goal)[1]

Aimed(pose, goal) ==
    Abs(wrap(goal.h - pose.h)) <= HeadTol /\ Abs(Cross(pose, goal)) <= CrossTol

plan(pose, goal) ==
    LET herr == wrap(goal.h - pose.h) IN
    IF Parked(pose, goal) THEN If(Abs(herr) > HeadTol, Move("pivot", herr))
    ELSE IF Aimed(pose, goal) THEN
        If(Abs(Along(pose, goal)) > PosTol, Move("drive", Along(pose, goal)))
    ELSE Approach(pose, goal)

\* apply(): a perfect robot, and how far a drive goes off its line for the
\* degree or less that was not worth a pivot (a sixtieth of it).
OneMove(state, move) ==
    IF move.kind = "pivot" THEN [state EXCEPT !.h = wrap(@ + move.value)]
    ELSE LET q == Nearest(state.h) IN
         [state EXCEPT !.x = @ + move.value * Cos(q), !.y = @ + move.value * Sin(q),
                       !.drift = @ + (Abs(move.value) * Abs(wrap(state.h - q)) + 59) \div 60]
apply(pose, moves) ==
    LET start == [x |-> pose.x, y |-> pose.y, h |-> pose.h, drift |-> 0]
        after[i \in 0 .. Len(moves)] == IF i = 0 THEN start ELSE OneMove(after[i - 1], moves[i])
    IN after[Len(moves)]

rotation_cost(moves) ==
    LET cost[i \in 0 .. Len(moves)] ==
          IF i = 0 THEN 0
          ELSE cost[i - 1] + IF moves[i].kind = "pivot" THEN Abs(moves[i].value) ELSE 0
    IN cost[Len(moves)]

-----------------------------------------------------------------------------
(* Camera tracks.  Times are in tenths of a second, distances in cm.        *)

Gap == 4        \* gap_s
Close == 3      \* a closer approach is trusted beside a gap

\* _first_approach()
first_approach(rows, start, k) ==
    LET near == {i \in start .. Len(rows) : rows[i].near[k] <= WindowRadius}
    IN IF near = {} THEN Len(rows) + 1 ELSE Least(near)

Gaps(rows) == {i \in 1 .. Len(rows) - 1 : rows[i + 1].t - rows[i].t > Gap}
Blind(rows, i) == \E g \in Gaps(rows) : rows[g].t - 5 <= rows[i].t /\ rows[i].t <= rows[g + 1].t + 5

\* The end of corner k's window, exclusive.
\* Mutant: a corner searches the rest of the run.
WindowEnd_Run(rows, k, used) == Len(rows) + 1
WindowEnd(rows, k, used) == IF k = Dots THEN Len(rows) + 1 ELSE first_approach(rows, used + 1, k + 1)

\* score_corners(): the sample corner k claims (0 for none), the nearest one
\* and of those the first, and the first that is free for the next corner.
Claim(rows, k, used) ==
    LET window == used .. WindowEnd(rows, k, used) - 1
        best == CHOOSE i \in window :
                   \A j \in window : \/ rows[i].near[k] < rows[j].near[k]
                                     \/ rows[i].near[k] = rows[j].near[k] /\ i <= j
    IN IF used > Len(rows) THEN [at |-> 0, used |-> used]
       ELSE [at |-> best, used |-> best + 1]
Claims(rows) ==
    LET claim[k \in 0 .. Dots] ==
          IF k = 0 THEN [at |-> 0, used |-> 1] ELSE Claim(rows, k, claim[k - 1].used)
    IN [k \in 1 .. Dots |-> claim[k].at]
score_corners(rows) ==
    LET at == Claims(rows)
    IN [k \in 1 .. Dots |->
          IF at[k] # 0 /\ (rows[at[k]].near[k] <= Close \/ ~Blind(rows, at[k])) THEN at[k] ELSE 0]

\* practice_chart.score(): the share of the run the camera saw, in percent.
TrackScore(rows) ==
    LET span == rows[Len(rows)].t - rows[1].t
        lost[i \in 0 .. Len(rows)] ==
          IF i <= 1 THEN 0
          ELSE lost[i - 1] + IF i - 1 \in Gaps(rows) THEN rows[i].t - rows[i - 1].t ELSE 0
    IN IF span > 0 THEN (100 * (span - lost[Len(rows)])) \div span ELSE 0

-----------------------------------------------------------------------------

Call(f, in, out) == geometry' = [f |-> f, in |-> in, out |-> out]

TurnCall == \E c \in Turns, m \in Turns : Call("turn", <<c, m>>, turn_total(c, m))
Park ==
    \E p \in Poses, g \in Goals :
        /\ p.x = g.x \/ p.y = g.y \/ Parked(p, g) \/ Aimed(p, g)
        /\ Call("park", <<p, g>>, plan(p, g))
\* Five samples a second, and at most one stretch of two without.
Track ==
    \E n \in 1 .. MaxRows : \E at \in [1 .. n -> Places], gap \in 1 .. n :
        LET rows == [i \in 1 .. n |-> [t |-> 2 * i + (IF i > gap THEN 20 ELSE 0), near |-> at[i]]]
        IN Call("track", rows, [scores |-> score_corners(rows), tracked |-> TrackScore(rows)])

\* Two registrations from an empty daemon.
Register ==
    \E first, second \in DOMAIN MountsFile.robots \cup {"field", "nobody"} :
        LET before == register([tag \in MountTags |-> Nothing], MountsFile, first).mounts
        IN Call("mount", <<before, second>>, register(before, MountsFile, second))

\* A robot at rest seen twice, a degree of noise each time, its tag's offset
\* in the daemon's mount or in the caller's lever, or its tag not registered.
See ==
    \E p \in Poses, at \in Levers, skew \in Skews, inMount \in {0, 1}, noise \in {-1, 0, 1} :
        LET mount == Mount(inMount * at, mount_yaw(skew))
            seen(e) == RawTag([p EXCEPT !.h = wrap(@ + e)], at, skew)
        IN /\ \E q \in Bearings : Abs(wrap(p.h - q)) <= 1
           /\ Call("pose", <<p, skew>>,
                   [registered |-> pose_from_registered_samples(
                        <<Reported(seen(noise), mount), Reported(seen(-noise), mount)>>,
                        (1 - inMount) * at),
                    raw |-> robot_heading_from_tag_yaw(Reported(seen(0), Nothing).h, skew)])

Path ==
    \E n \in 0 .. PathRows : \E at \in [1 .. n -> PathPoints], gap \in [1 .. n -> PathTimes],
       corners \in PathCorners :
        LET time[i \in 0 .. n] == IF i = 0 THEN 0 ELSE time[i - 1] + gap[i]
            rows == [i \in 1 .. n |-> [t |-> time[i], x |-> at[i][1], y |-> at[i][2], yaw |-> 45 * i]]
        IN Call("path", <<rows, corners>>,
                [strayed |-> path_deviation(rows, Edges(corners)),
                 closed |-> closure(rows, 180),
                 analysis |-> analyse(rows, Edges(corners), EnoughRows)])

GeometryInit == geometry = [f |-> "none", in |-> <<>>, out |-> <<>>]
GeometryNext == geometry.f = "none" /\ (TurnCall \/ Park \/ Track \/ Register \/ See \/ Path)
GeometrySpec == GeometryInit /\ [][GeometryNext]_geometry

-----------------------------------------------------------------------------
(* A pivot of more than half a turn is reported as what it was: the total   *)
(* is the measured heading change, within half a turn of the command, and   *)
(* an error of exactly half a turn counts to the left.                      *)
TurnsKeepTheirSign ==
    geometry.f = "turn" =>
        LET commanded == geometry.in[1]
            total == geometry.out IN
        /\ (total - geometry.in[2]) % 360 = 0
        /\ total - commanded \in -179 .. 180

(* A plan rotates by at most half a turn, never more than turning and       *)
(* driving nose first would, and leaves a perfect robot at its goal: the    *)
(* rest is what the tolerances forgave.  No plan means at the goal.         *)
PlansPark ==
    geometry.f = "park" =>
        LET pose == geometry.in[1]
            goal == geometry.in[2]
            end == apply(pose, geometry.out) IN
        /\ rotation_cost(geometry.out) <= 180
        /\ Parked(pose, goal) \/ rotation_cost(geometry.out) <= Rotation(Leg(pose, goal, FALSE))
        /\ Dist(end, goal) <= PosTol + CrossTol + end.drift
        /\ Abs(wrap(end.h - goal.h)) <= 2 * HeadTol

(* No two corners claim one sample and none claims an earlier sample than   *)
(* the corner before; a run that comes to the dots one after the other is   *)
(* scored near each of them, whatever it passes again later; what lies      *)
(* beside a blind stretch is believed only if it is close.                  *)
CornersInOrder ==
    geometry.f = "track" =>
        LET rows == geometry.in
            at == Claims(rows)
            visit[k \in 0 .. Dots] == IF k = 0 THEN 0 ELSE first_approach(rows, visit[k - 1] + 1, k)
            orderly == /\ visit[Dots] <= Len(rows)
                       /\ \A k \in 2 .. Dots : \A i \in 1 .. visit[k - 1] : rows[i].near[k] > WindowRadius
        IN /\ \A j, k \in 1 .. Dots : j < k /\ at[k] # 0 => at[j] # 0 /\ at[j] < at[k]
           /\ orderly => \A k \in 1 .. Dots : at[k] # 0 /\ rows[at[k]].near[k] <= WindowRadius
           /\ \A k \in 1 .. Dots :
                geometry.out.scores[k] # 0 =>
                    rows[at[k]].near[k] <= Close \/ ~Blind(rows, at[k])
           /\ Len(rows) > 1 => (geometry.out.tracked = 100 <=> Gaps(rows) = {})

(* Registering one target touches its own tags and no other, and gives them *)
(* the mount of their entry, a robot's a quarter turn off its front; a      *)
(* refusal registers nothing, but a broken list of furniture is half        *)
(* registered.                                                              *)
MountsAreTheirOwn ==
    geometry.f = "mount" =>
        LET before == geometry.in[1]
            target == geometry.in[2]
            after == geometry.out.mounts
            own == IF target = "field" THEN {MountsFile.field[i].tag : i \in DOMAIN MountsFile.field}
                   ELSE IF target \in DOMAIN MountsFile.robots THEN {MountsFile.robots[target].tag} ELSE {}
        IN /\ \A tag \in MountTags \ own : after[tag] = before[tag]
           /\ geometry.out.status # "registered" => after = before \/ (target = "field" /\ own # {})
           /\ geometry.out.status = "registered" =>
                own # {} /\ \A tag \in own : after[tag] \in
                    IF target = "field"
                    THEN {Mount(MountsFile.field[i].x, 0) : i \in DOMAIN MountsFile.field}
                    ELSE {Mount(MountsFile.robots[target].x, MountsFile.robots[target].residual - 90)}

(* A pose is of the robot's centre, not of its tag, and faces where the     *)
(* robot faces: the quarter turn is added once, by the daemon for a         *)
(* registered tag and by the caller for a raw one, on both sides of the     *)
(* seam.  A plate's skew comes off a raw heading; on a registered one it    *)
(* may count twice.                                                         *)
PosesAreTheRobots ==
    geometry.f = "pose" =>
        LET p == geometry.in[1]
            skew == geometry.in[2]
            pose == geometry.out.registered IN
        /\ pose.x = p.x /\ pose.y = p.y
        /\ Abs(wrap(pose.h - p.h)) <= 2 * Abs(skew)
        /\ geometry.out.raw = wrap(p.h)

\* The squared distance to the nearest whole point of the edges, counted out.
FarFrom(p, corners) ==
    LET between(a, b) == (IF a < b THEN a ELSE b) .. (IF a < b THEN b ELSE a) IN
    Least({Square(p.x - q[1]) + Square(p.y - q[2]) :
        q \in UNION {between(corners[i][1], corners[i + 1][1])
                      \X between(corners[i][2], corners[i + 1][2]) :
                         i \in 1 .. Len(corners) - 1}})
Republished(rows, i) ==
    SubSeq(rows, 1, i) \o <<[rows[i] EXCEPT !.t = @ + 1]>> \o SubSeq(rows, i + 1, Len(rows))

(* How far a path strayed is each row's distance to the nearest point of    *)
(* the edges, in order.  What is made of a run does not depend on how often *)
(* the camera's last frame is published again, and a robot that kept moving *)
(* is said to have moved all the time.                                      *)
PathsAreScored ==
    geometry.f = "path" =>
        LET rows == geometry.in[1]
            corners == geometry.in[2]
            strayed == geometry.out.strayed
            run == geometry.out.analysis
            sound == \E i \in 1 .. Len(corners) - 1 : corners[i] # corners[i + 1]
        IN /\ \A i \in 1 .. Len(strayed) - 1 : strayed[i] <= strayed[i + 1]
           /\ \A d \in {strayed[i] : i \in DOMAIN strayed} :
                Cardinality({i \in DOMAIN strayed : strayed[i] = d})
                    = Cardinality({i \in DOMAIN rows : d = IF sound THEN FarFrom(rows[i], corners) ELSE NoEdge})
           /\ run # Nothing =>
                /\ run.duty \in 0 .. 100 /\ run.dev_med <= run.dev_90 /\ run.dev_90 <= run.dev_max
                /\ \A i \in 1 .. Len(rows) - 1 :
                        analyse(Republished(rows, i), Edges(corners), EnoughRows) = run
                /\ (\A i \in 1 .. Len(rows) - 1 : i \in Timed(rows) /\ Faster(rows, i, 3))
                        => run.duty = 100

GeometryIsRight ==
    /\ TurnsKeepTheirSign /\ PlansPark /\ CornersInOrder
    /\ MountsAreTheirOwn /\ PosesAreTheRobots
=============================================================================
