-------------------------- MODULE FieldTools_proofs ---------------------------
(***************************************************************************)
(* Theorems about the programs of the playfield.                           *)
(*                                                                         *)
(* tour_run.py and tour_practice.py, for any spots, camera errors and      *)
(* number of jobs: FieldInv has the one job that can be under way and what *)
(* its marker says, and that the robot believes it is where a fix put it.  *)
(*                                                                         *)
(* The arithmetic they share, field.py's angles and corner scores,         *)
(* park.py's planner, Cam.register() and the poses of registered tags, for *)
(* every angle, pose, track of any length and calibration file.            *)
(***************************************************************************)
EXTENDS FieldRuns, FieldGeometry, RunReports, NaturalsInduction, WellFoundedInduction,
        FiniteSetTheorems, SequenceTheorems, TLAPS

(* The runs on the field.  A program sends at most one job at a time and    *)
(* reads until it is over, so one of three places holds what is under way:  *)
(* the queue, the robot, or the last marker.                                *)

SeedingAt == {"seeding goto", "seeding face", "seeding tour"}
WaitingAt == SeedingAt \cup {"going", "facing", "touring"}
ToolAt == WaitingAt \cup
    {"closed", "run", "subscribe", "position", "send goto", "heading", "send face",
     "arrived", "before", "send tour", "score"}

\* The verbs of the job a waiting program has sent.
VerbFits(verb, at) ==
    \/ verb = "seedxy" /\ at \in SeedingAt
    \/ verb = "goto" /\ at = "going"
    \/ verb = "face" /\ at = "facing"
    \/ verb \in {"tour out", "tour back"} /\ at = "touring"

JobVerbs == {"seedxy", "goto", "face", "tour out", "tour back"}
FieldJobs == [verb : JobVerbs, arg : Cells, n : Nat]
\* The job in the queue or on the robot, NoJob if there is none.
CurrentJob == IF jobs.queue = <<>> THEN jobs.doing ELSE Head(jobs.queue)
Idle == jobs.queue = <<>> /\ jobs.doing = NoJob
JobTold == Idle /\ \E what : marks = <<[says |-> what, n |-> tool.sent]>>

ToolStates ==
    [at : ToolAt, kind : Tools, seq : Nat, try : 0 .. Tries, fix : Cells \cup {NoFix},
     sent : 0 .. MaxJobs, tour : Nat, ended : Nat, trusted : BOOLEAN]
FieldTypes ==
    /\ place \in [at : Cells, faces : {"west", "east"}, off : Int]
    /\ Believed \in Cells
    /\ jobs = [expected |-> jobs.expected, queue |-> jobs.queue, doing |-> jobs.doing]
    /\ jobs.expected \in Nat \ {0} /\ jobs.expected <= tool.sent + 1
    /\ camera \in [latest : Cells \cup {NoFix}, notag : 0 .. StaleAfter + 1, err : BOOLEAN]
    /\ tool \in ToolStates /\ tool.seq <= tool.sent

\* At most one job is under way, the last one sent, and only while the
\* program waits for it.
OneJob ==
    \/ Quiet
    \/ tool.at \in WaitingAt /\ JobTold
    \/ /\ marks = <<>>
       /\ jobs.queue = <<>> \/ (jobs.queue = <<CurrentJob>> /\ jobs.doing = NoJob)
       /\ CurrentJob \in FieldJobs /\ CurrentJob.n = tool.sent
       /\ VerbFits(CurrentJob.verb, tool.at)

\* No line of this session was lost so far.
InStep == jobs.expected = tool.seq + 1
InOrder == tool.trusted => jobs.expected <= tool.seq + 1

\* A seed on its way is of the place the robot stands at; one that arrived
\* leaves no offset.
SeedsAreTrue ==
    tool.trusted /\ tool.at \in SeedingAt =>
        /\ tool.at = "seeding goto" => place.at \in Usable
        /\ CurrentJob.verb = "seedxy" => CurrentJob.arg = place.at
        /\ InStep /\ Idle => place.off = 0

GotosAreInside ==
    tool.trusted =>
        /\ tool.at = "send goto" /\ InStep => place.off = 0 /\ place.at \in Usable
        /\ CurrentJob.verb = "goto" =>
             place.off = 0 /\ place.at \in Usable /\ CurrentJob.arg = Origin

\* Where a program that seeds its tour is about to send it.
Seeded ==
    \/ tool.at = "send tour"
    \/ tool.at = "subscribe" /\ tool.kind = "tour_practice world"
ToursAreInFrame ==
    tool.trusted /\ tool.kind # "tour_practice robot" =>
        /\ Seeded /\ InStep => place.off = 0
        /\ CurrentJob.verb = "tour out" => place.off = 0

EndsAreTold ==
    /\ tool.at = "touring" => tool.tour = tool.sent
    /\ tool.at = "score" => tool.ended \in {0, tool.tour}

\* tour_practice.py drives to the start only for its robot frame tours.
RepositionAt == {"position", "seeding goto", "send goto", "going", "heading", "seeding face",
                 "send face", "facing", "arrived"}
RoutesApart == tool.at \in RepositionAt => tool.kind # "tour_practice world"

FieldInv ==
    /\ FieldTypes /\ OneJob /\ InOrder /\ SeedsAreTrue /\ GotosAreInside
    /\ ToursAreInFrame /\ EndsAreTold /\ RoutesApart

-----------------------------------------------------------------------------
(* The start, and what follows from the invariant. *)

LEMMA FieldConstants ==
  /\ Edge \in Nat /\ Edge >= 3
  /\ Tries \in Nat /\ StaleAfter \in Nat /\ MaxJobs \in Nat
BY FieldAssumption

\* Numbers the invariant bounds.
LEMMA Counted ==
  /\ 0 \in Nat
  /\ \A k : k \in 0 .. MaxJobs => k \in Nat
BY FieldConstants

\* What numbering one more line keeps.
LEMMA OneMore ==
  \A q, n \in Nat, x \in Nat \ {0} :
     /\ q <= n => q + 1 <= n + 1 /\ q + 1 + 1 <= n + 1 + 1
     /\ x <= n + 1 => x <= n + 1 + 1
     /\ q + 1 + 1 \in Nat \ {0}
     /\ x <= q + 1 => x <= q + 1 + 1 /\ x # q + 1 + 1
     /\ q + 1 + 1 <= q + 1 + 1
OBVIOUS

LEMMA OneInQueue ==
  ASSUME NEW x
  PROVE  Head(<<x>>) = x /\ Tail(<<x>>) = <<>> /\ <<x>> # <<>> /\ Append(<<>>, x) = <<x>>
OBVIOUS

LEMMA RecordOfJobs ==
  ASSUME NEW r, NEW t, NEW y, NEW q, r = [expected |-> r.expected, queue |-> r.queue, doing |-> r.doing],
         t = [r EXCEPT !.expected = y, !.queue = q]
  PROVE  /\ t.expected = y /\ t.queue = q /\ t.doing = r.doing
         /\ t = [expected |-> t.expected, queue |-> t.queue, doing |-> t.doing]
OBVIOUS

LEMMA FieldStarts == FieldInit => FieldInv
<1> SUFFICES ASSUME FieldInit PROVE FieldInv
  OBVIOUS
<1>1. /\ place = [at |-> Origin, faces |-> "west", off |-> 0]
      /\ jobs = [expected |-> 1, queue |-> <<>>, doing |-> NoJob]
      /\ marks = <<>>
      /\ camera = [latest |-> NoFix, notag |-> 0, err |-> FALSE]
      /\ tool.at = "closed" /\ tool.seq = 0 /\ tool.sent = 0 /\ tool.trusted
      /\ tool \in ToolStates
  BY FieldAssumption DEF FieldInit, ToolStates, ToolAt, Tools, NoFix
<1>2. FieldTypes
  <2>1. Origin \in Cells
    BY FieldAssumption DEF Origin, Cells
  <2>2. 0 \in 0 .. StaleAfter + 1
    BY FieldAssumption
  <2> QED BY <1>1, <2>1, <2>2 DEF FieldTypes, Believed, Origin, Cells, NoFix
<1>3. Quiet /\ CurrentJob = NoJob
  BY <1>1 DEF Quiet, CurrentJob
<1>4. OneJob
  BY <1>3 DEF OneJob
<1>5. InOrder
  BY <1>1 DEF InOrder
<1>6. SeedsAreTrue /\ GotosAreInside /\ ToursAreInFrame /\ EndsAreTold /\ RoutesApart
  BY <1>1, <1>3 DEF SeedsAreTrue, GotosAreInside, ToursAreInFrame, EndsAreTold, SeedingAt, Seeded, NoJob,
       RoutesApart, RepositionAt
<1> QED BY <1>2, <1>4, <1>5, <1>6 DEF FieldInv

\* A program that does not wait has nothing under way.
LEMMA QuietUnlessWaiting ==
  ASSUME FieldInv, tool.at \notin WaitingAt
  PROVE  Quiet
BY DEF FieldInv, OneJob, VerbFits, WaitingAt, SeedingAt

\* The invariant where nothing is under way, in the state after a step.
LEMMA Settled ==
  ASSUME FieldTypes', Quiet', InOrder', tool'.at \notin SeedingAt,
         (GotosAreInside)' \/ tool'.at # "send goto",
         (tool.trusted /\ tool.kind # "tour_practice robot" /\ Seeded /\ InStep => place.off = 0)',
         EndsAreTold', RoutesApart'
  PROVE  FieldInv'
<1>1. CurrentJob' = NoJob
  BY DEF Quiet, CurrentJob
<1>2. OneJob' /\ SeedsAreTrue'
  BY DEF OneJob, SeedsAreTrue
<1>3. GotosAreInside' /\ ToursAreInFrame'
  BY <1>1 DEF GotosAreInside, ToursAreInFrame, NoJob
<1> QED BY <1>2, <1>3 DEF FieldInv

-----------------------------------------------------------------------------
(* The robot's steps. *)

LEMMA CameraSteps ==
  ASSUME FieldInv, frame \/ CamDown
  PROVE  FieldInv'
<1>1. UNCHANGED <<place, jobs, marks, tool>>
  BY DEF frame, CamDown
<1>2. camera' \in [latest : Cells \cup {NoFix}, notag : 0 .. StaleAfter + 1, err : BOOLEAN]
  <2>1. place.at \in Cells /\ camera.notag \in 0 .. StaleAfter + 1 /\ NoFix \in {NoFix}
        /\ camera \in [latest : Cells \cup {NoFix}, notag : 0 .. StaleAfter + 1, err : BOOLEAN]
    BY DEF FieldInv, FieldTypes
  <2>2. CASE camera' = [camera EXCEPT !.latest = place.at, !.notag = 0]
    <3>1. 0 \in 0 .. StaleAfter + 1
      BY FieldConstants
    <3> QED BY <2>1, <2>2, <3>1
  <2>3. CASE camera.notag <= StaleAfter /\ camera' = [camera EXCEPT !.notag = @ + 1]
    <3>1. camera.notag + 1 \in 0 .. StaleAfter + 1
      BY <2>1, <2>3, FieldConstants
    <3> QED BY <2>1, <2>3, <3>1
  <2>4. CASE camera' = [camera EXCEPT !.err = TRUE, !.latest = NoFix]
    BY <2>1, <2>4
  <2> QED BY <2>2, <2>3, <2>4 DEF frame, CamDown
<1>3. FieldTypes'
  BY <1>1, <1>2 DEF FieldInv, FieldTypes, Believed
<1>4. CurrentJob' = CurrentJob /\ Idle' = Idle /\ InStep' = InStep /\ Quiet' = Quiet
  BY <1>1 DEF CurrentJob, Idle, InStep, Quiet
<1>5. OneJob' /\ InOrder' /\ SeedsAreTrue' /\ GotosAreInside' /\ ToursAreInFrame' /\ EndsAreTold' /\ RoutesApart'
  BY <1>1, <1>4 DEF FieldInv, OneJob, JobTold, InOrder, SeedsAreTrue, GotosAreInside, ToursAreInFrame,
       Seeded, EndsAreTold, RoutesApart
<1> QED BY <1>3, <1>5 DEF FieldInv

LEMMA CarriedStep ==
  ASSUME FieldInv, Carried
  PROVE  FieldInv'
<1>1. PICK c \in Cells, way \in {"west", "east"} :
        place' = [place EXCEPT !.at = c, !.faces = way, !.off = place.at + @ - c]
  BY DEF Carried
<1>2. UNCHANGED <<jobs, marks, camera, tool>> /\ tool.at = "closed"
  BY DEF Carried
<1>3. place' \in [at : Cells, faces : {"west", "east"}, off : Int] /\ Believed' = Believed
  <2>1. /\ place \in [at : Cells, faces : {"west", "east"}, off : Int]
        /\ \A k \in Cells : k \in Int
    BY FieldConstants DEF FieldInv, FieldTypes, Cells
  <2>2. place.at \in Int /\ place.off \in Int /\ c \in Int
    BY <2>1
  <2>3. place' = [at |-> c, faces |-> way, off |-> place.at + place.off - c]
    BY <1>1, <2>1
  <2> QED BY <2>2, <2>3 DEF Believed
<1>4. FieldTypes'
  BY <1>2, <1>3 DEF FieldInv, FieldTypes
<1>5. Quiet /\ Quiet'
  BY <1>2, QuietUnlessWaiting DEF Quiet, WaitingAt, SeedingAt
<1>6. InOrder' /\ EndsAreTold' /\ RoutesApart'
  BY <1>2 DEF FieldInv, InOrder, EndsAreTold, RoutesApart
<1> QED BY <1>2, <1>4, <1>5, <1>6, Settled DEF SeedingAt, Seeded

LEMMA DispatchStep ==
  ASSUME FieldInv, dispatchJob
  PROVE  FieldInv'
<1>1. /\ jobs.queue # <<>> /\ jobs.doing = NoJob
      /\ jobs' = [jobs EXCEPT !.doing = Head(jobs.queue), !.queue = Tail(@)]
      /\ UNCHANGED <<place, marks, camera, tool>>
  BY DEF dispatchJob
<1>2. /\ marks = <<>> /\ jobs.queue = <<CurrentJob>> /\ CurrentJob \in FieldJobs
      /\ CurrentJob.n = tool.sent /\ VerbFits(CurrentJob.verb, tool.at)
  BY <1>1 DEF FieldInv, OneJob, Quiet, JobTold, Idle
<1>3. /\ jobs'.queue = <<>> /\ jobs'.doing = CurrentJob /\ jobs'.expected = jobs.expected
      /\ jobs' = [expected |-> jobs'.expected, queue |-> jobs'.queue, doing |-> jobs'.doing]
  <2>1. Head(jobs.queue) = CurrentJob /\ Tail(jobs.queue) = <<>>
    BY <1>2
  <2> QED BY <1>1, <2>1 DEF FieldInv, FieldTypes
<1>4. CurrentJob' = CurrentJob /\ InStep' = InStep
  BY <1>1, <1>3 DEF CurrentJob, InStep
<1>5. ~Idle'
  <2>1. CurrentJob.verb # "none" /\ NoJob.verb = "none"
    BY <1>2 DEF NoJob, VerbFits
  <2> QED BY <1>3, <2>1 DEF Idle
<1>6. FieldTypes'
  BY <1>1, <1>3 DEF FieldInv, FieldTypes, Believed
<1>7. OneJob'
  BY <1>1, <1>2, <1>3, <1>4 DEF OneJob
<1>8. InOrder' /\ SeedsAreTrue' /\ GotosAreInside' /\ ToursAreInFrame' /\ EndsAreTold' /\ RoutesApart'
  BY <1>1, <1>3, <1>4, <1>5 DEF FieldInv, InOrder, SeedsAreTrue, GotosAreInside, ToursAreInFrame, EndsAreTold,
       Seeded, InStep, RoutesApart
<1> QED BY <1>6, <1>7, <1>8 DEF FieldInv

\* What the invariant says while the robot does a job.
LEMMA AtWork ==
  ASSUME FieldInv, jobs.doing.verb # "none"
  PROVE  /\ jobs.queue = <<>> /\ marks = <<>> /\ CurrentJob = jobs.doing
         /\ jobs.doing \in FieldJobs /\ jobs.doing.n = tool.sent
         /\ VerbFits(jobs.doing.verb, tool.at) /\ tool.at \in WaitingAt
<1>1. ~Idle /\ jobs.doing # NoJob
  BY DEF Idle, NoJob
<1>2. /\ marks = <<>>
      /\ jobs.queue = <<>> \/ (jobs.queue = <<CurrentJob>> /\ jobs.doing = NoJob)
      /\ CurrentJob \in FieldJobs /\ CurrentJob.n = tool.sent
      /\ VerbFits(CurrentJob.verb, tool.at)
  BY <1>1 DEF FieldInv, OneJob, Quiet, JobTold, Idle
<1>3. jobs.queue = <<>> /\ CurrentJob = jobs.doing
  BY <1>1, <1>2 DEF CurrentJob
<1> QED BY <1>2, <1>3 DEF VerbFits, WaitingAt, SeedingAt

LEMMA DriveStep ==
  ASSUME FieldInv, DriveOn
  PROVE  FieldInv'
<1>1. /\ jobs.doing.verb \in {"goto", "tour out", "tour back"} /\ Believed # Goal
      /\ place' = [place EXCEPT !.at = @ + Toward(Goal)] /\ place.at + Toward(Goal) \in Cells
      /\ UNCHANGED <<jobs, marks, camera, tool>>
  BY DEF DriveOn
<1>2. /\ CurrentJob = jobs.doing /\ jobs.doing \in FieldJobs /\ VerbFits(jobs.doing.verb, tool.at)
      /\ ~Idle
  <2>1. jobs.doing.verb # "none" /\ NoJob.verb = "none"
    BY <1>1 DEF NoJob
  <2> QED BY <2>1, AtWork DEF Idle
<1>3. Goal \in Cells
  <2>1. Origin \in Cells /\ Turn \in Cells
    BY FieldConstants DEF Origin, Turn, Cells
  <2>2. jobs.doing.arg \in Cells
    BY <1>2 DEF FieldJobs
  <2> QED BY <2>1, <2>2 DEF Goal
<1>4. place.at \in Cells /\ place.off \in Int /\ Believed \in Cells /\ Believed = place.at + place.off
  BY DEF FieldInv, FieldTypes, Believed
<1>5. /\ place' \in [at : Cells, faces : {"west", "east"}, off : Int]
      /\ place'.at = place.at + Toward(Goal) /\ place'.off = place.off
  BY <1>1 DEF FieldInv, FieldTypes
<1>6. Believed' \in Cells
  <2>1. Believed' = Believed + Toward(Goal)
    <3>1. Toward(Goal) \in Int /\ place.at \in Int
      BY <1>4, FieldConstants DEF Toward, Cells
    <3> QED BY <1>4, <1>5, <3>1 DEF Believed
  <2>2. Believed \in Int /\ Goal \in Int /\ 0 <= Believed /\ Believed <= Edge /\ 0 <= Goal /\ Goal <= Edge
    BY <1>3, <1>4, FieldConstants DEF Cells
  <2>3. Toward(Goal) = IF Believed < Goal THEN 1 ELSE -1
    BY DEF Toward
  <2>4. Believed # Goal
    BY <1>1
  <2>5. Believed' \in Int /\ 0 <= Believed' /\ Believed' <= Edge
    BY <2>1, <2>2, <2>3, <2>4, FieldConstants
  <2> QED BY <2>5, FieldConstants DEF Cells
<1>7. FieldTypes'
  BY <1>1, <1>5, <1>6 DEF FieldInv, FieldTypes
<1>8. CurrentJob' = CurrentJob /\ Idle' = Idle /\ InStep' = InStep /\ Quiet' = Quiet
  BY <1>1 DEF CurrentJob, Idle, InStep, Quiet
<1>9. OneJob' /\ InOrder' /\ EndsAreTold' /\ RoutesApart'
  BY <1>1, <1>8 DEF FieldInv, OneJob, JobTold, InOrder, EndsAreTold, RoutesApart
<1>10. SeedsAreTrue' /\ tool.at \in {"going", "touring"}
  BY <1>1, <1>2 DEF SeedsAreTrue, SeedingAt, VerbFits
<1>11. GotosAreInside'
  <2> SUFFICES ASSUME tool.trusted, CurrentJob.verb = "goto"
               PROVE  place'.off = 0 /\ place'.at \in Usable /\ CurrentJob.arg = Origin
    BY <1>1, <1>8, <1>10 DEF GotosAreInside
  <2>1. place.off = 0 /\ place.at \in Usable /\ CurrentJob.arg = Origin
    BY DEF FieldInv, GotosAreInside
  <2>2. Goal = Origin
    BY <1>2, <2>1 DEF Goal
  <2>3. Believed = place.at /\ place.at # Origin
    <3>1. place.at \in Int
      BY <1>4, FieldConstants DEF Cells
    <3>2. Believed # Goal
      BY <1>1
    <3> QED BY <1>4, <2>1, <2>2, <3>1, <3>2
  <2>4. Toward(Goal) = IF place.at < Origin THEN 1 ELSE -1
    BY <2>2, <2>3 DEF Toward
  <2> QED BY <1>5, <2>1, <2>3, <2>4, FieldConstants DEF Usable, Origin
<1>12. ToursAreInFrame'
  BY <1>1, <1>5, <1>8, <1>10 DEF FieldInv, ToursAreInFrame, Seeded
<1> QED BY <1>7, <1>9, <1>10, <1>11, <1>12 DEF FieldInv

LEMMA TurnBackStep ==
  ASSUME FieldInv, TurnBack
  PROVE  FieldInv'
<1>1. /\ jobs.doing.verb = "tour out" /\ jobs' = [jobs EXCEPT !.doing.verb = "tour back"]
      /\ UNCHANGED <<place, marks, camera, tool>>
  BY DEF TurnBack
<1>2. /\ jobs.queue = <<>> /\ marks = <<>> /\ CurrentJob = jobs.doing
      /\ jobs.doing \in FieldJobs /\ jobs.doing.n = tool.sent /\ tool.at = "touring"
  BY <1>1, AtWork DEF VerbFits
<1>3. /\ jobs'.queue = <<>> /\ jobs'.expected = jobs.expected
      /\ jobs'.doing \in FieldJobs /\ jobs'.doing.verb = "tour back" /\ jobs'.doing.n = tool.sent
      /\ jobs' = [expected |-> jobs'.expected, queue |-> jobs'.queue, doing |-> jobs'.doing]
  <2>1. jobs' = [expected |-> jobs.expected, queue |-> jobs.queue,
                 doing |-> [jobs.doing EXCEPT !.verb = "tour back"]]
    BY <1>1 DEF FieldInv, FieldTypes
  <2>2. [jobs.doing EXCEPT !.verb = "tour back"] \in FieldJobs
    BY <1>2 DEF FieldJobs, JobVerbs
  <2> QED BY <1>2, <2>1, <2>2 DEF FieldJobs
<1>4. CurrentJob' = jobs'.doing
  BY <1>3 DEF CurrentJob
<1>5. FieldTypes'
  BY <1>1, <1>3 DEF FieldInv, FieldTypes, Believed
<1>6. OneJob'
  BY <1>1, <1>2, <1>3, <1>4 DEF OneJob, VerbFits
<1>7. InOrder' /\ EndsAreTold' /\ RoutesApart'
  BY <1>1, <1>3 DEF FieldInv, InOrder, EndsAreTold, RoutesApart
<1>8. SeedsAreTrue' /\ GotosAreInside' /\ ToursAreInFrame'
  BY <1>1, <1>2, <1>3, <1>4 DEF SeedsAreTrue, GotosAreInside, ToursAreInFrame, SeedingAt, Seeded
<1> QED BY <1>5, <1>6, <1>7, <1>8 DEF FieldInv

LEMMA EndStep ==
  ASSUME FieldInv, EndJob
  PROVE  FieldInv'
<1> DEFINE j == jobs.doing
<1>1. /\ j.verb # "none" /\ jobs' = [jobs EXCEPT !.doing = NoJob] /\ Says(Marker, j.n)
      /\ UNCHANGED <<camera, tool>>
  BY DEF EndJob
<1>2. /\ jobs.queue = <<>> /\ marks = <<>> /\ CurrentJob = j /\ j \in FieldJobs /\ j.n = tool.sent
      /\ VerbFits(j.verb, tool.at) /\ tool.at \in WaitingAt
  BY <1>1, AtWork
<1>3. /\ jobs'.queue = <<>> /\ jobs'.doing = NoJob /\ jobs'.expected = jobs.expected
      /\ jobs' = [expected |-> jobs'.expected, queue |-> jobs'.queue, doing |-> jobs'.doing]
  BY <1>1, <1>2 DEF FieldInv, FieldTypes
<1>4. \/ marks' = <<>>
      \/ marks' = <<[says |-> Marker, n |-> tool.sent]>>
  BY <1>1, <1>2 DEF Says
<1>5. OneJob'
  BY <1>1, <1>2, <1>3, <1>4 DEF OneJob, Quiet, JobTold, Idle
<1>6. /\ place' \in [at : Cells, faces : {"west", "east"}, off : Int] /\ place'.at = place.at
      /\ Believed' \in Cells
      /\ j.verb = "seedxy" => place'.off = j.arg - place.at
  <2>1. CASE j.verb = "seedxy"
    <3>1. place' = [place EXCEPT !.off = j.arg - place.at]
      BY <2>1 DEF EndJob
    <3>2. j.arg \in Cells /\ place.at \in Cells /\ j.arg \in Int /\ place.at \in Int
      BY <1>2, FieldConstants DEF FieldInv, FieldTypes, FieldJobs, Cells
    <3>3. place' = [at |-> place.at, faces |-> place.faces, off |-> j.arg - place.at]
      BY <3>1 DEF FieldInv, FieldTypes
    <3>4. place.faces \in {"west", "east"}
      BY DEF FieldInv, FieldTypes
    <3>5. Believed' = j.arg
      BY <3>2, <3>3 DEF Believed
    <3> QED BY <3>2, <3>3, <3>4, <3>5
  <2>2. CASE j.verb # "seedxy"
    <3>1. \E way \in {"west", "east"} : place' = [place EXCEPT !.faces = way]
      BY <2>2 DEF EndJob
    <3> QED BY <2>2, <3>1 DEF FieldInv, FieldTypes, Believed
  <2> QED BY <2>1, <2>2
<1>7. FieldTypes'
  BY <1>1, <1>3, <1>6 DEF FieldInv, FieldTypes
<1>8. CurrentJob' = NoJob /\ tool'.at = tool.at
  BY <1>1, <1>3 DEF CurrentJob
<1>9. InOrder' /\ EndsAreTold' /\ RoutesApart'
  BY <1>1, <1>3 DEF FieldInv, InOrder, EndsAreTold, RoutesApart
<1>10. SeedsAreTrue'
  <2> SUFFICES ASSUME tool.trusted, tool.at \in SeedingAt
               PROVE  /\ tool.at = "seeding goto" => place'.at \in Usable
                      /\ place'.off = 0
    BY <1>1, <1>8 DEF SeedsAreTrue, NoJob
  <2>1. j.verb = "seedxy"
    BY <1>2 DEF VerbFits, SeedingAt
  <2>2. j.arg = place.at /\ (tool.at = "seeding goto" => place.at \in Usable) /\ place.at \in Int
    <3>1. place.at \in Cells
      BY DEF FieldInv, FieldTypes
    <3>2. place.at \in Int
      BY <3>1, FieldConstants DEF Cells
    <3> QED BY <1>2, <2>1, <3>2 DEF FieldInv, SeedsAreTrue
  <2>3. place'.off = place.at - place.at /\ place'.at = place.at
    BY <1>6, <2>1, <2>2
  <2>4. place'.off = 0
    <3>1. \A x \in Int : x - x = 0
      OBVIOUS
    <3> QED BY <2>2, <2>3, <3>1
  <2> QED BY <2>2, <2>3, <2>4
<1>11. GotosAreInside' /\ ToursAreInFrame'
  BY <1>1, <1>2, <1>8 DEF GotosAreInside, ToursAreInFrame, NoJob, WaitingAt, SeedingAt, Seeded
<1> QED BY <1>5, <1>7, <1>9, <1>10, <1>11 DEF FieldInv

-----------------------------------------------------------------------------
(* The program's steps. *)

\* lines(): what a read leaves behind.
LEMMA ReadsOne ==
  ASSUME FieldInv, tool.at \in WaitingAt, NEW marker, NEW where, Await(marker, where)
  PROVE  /\ UNCHANGED <<place, jobs, camera>> /\ Idle /\ Quiet'
         /\ tool' = tool \/ \E e \in {0, tool.sent} : tool' = [where EXCEPT !.ended = e]
<1>1. CASE marks # <<>> /\ marks' = Tail(marks) /\ UNCHANGED <<place, jobs, camera>>
           /\ tool' = IF Head(marks).says = marker THEN [where EXCEPT !.ended = Head(marks).n] ELSE tool
  <2>1. JobTold
    BY <1>1 DEF FieldInv, OneJob, Quiet
  <2>2. PICK what : marks = <<[says |-> what, n |-> tool.sent]>>
    BY <2>1 DEF JobTold
  <2>3. marks' = <<>> /\ Head(marks).n = tool.sent
    BY <1>1, <2>2
  <2>4. Quiet'
    BY <1>1, <2>1, <2>3 DEF Quiet, JobTold, Idle
  <2> QED BY <1>1, <2>1, <2>3, <2>4 DEF JobTold
<1>2. CASE Quiet /\ Going([where EXCEPT !.ended = 0])
  BY <1>2 DEF Going, Quiet, Idle
<1> QED BY <1>1, <1>2 DEF Await

LEMMA ReadsOn ==
  ASSUME FieldInv, tool.at \in WaitingAt, NEW marker, NEW at \in ToolAt \ WaitingAt, Await(marker, To(at)),
         at = "score" => tool.at = "touring",
         at = "send goto" => tool.at = "seeding goto",
         at \in {"send tour", "subscribe"} => tool.at = "seeding tour",
         at \in RepositionAt => tool.at \in RepositionAt
  PROVE  FieldInv'
<1>1. /\ UNCHANGED <<place, jobs, camera>> /\ Idle /\ Quiet'
      /\ tool' = tool \/ \E e \in {0, tool.sent} : tool' = [To(at) EXCEPT !.ended = e]
  BY ReadsOne
<1>2. CurrentJob' = CurrentJob /\ Idle' = Idle
  BY <1>1 DEF CurrentJob, Idle
<1>3. CASE tool' = tool
  <2>1. InStep' = InStep
    BY <1>1, <1>3 DEF InStep
  <2>2. OneJob'
    BY <1>1 DEF OneJob
  <2>3. FieldTypes'
    BY <1>1, <1>3 DEF FieldInv, FieldTypes, Believed
  <2>4. InOrder' /\ EndsAreTold' /\ RoutesApart'
    BY <1>1, <1>3 DEF FieldInv, InOrder, EndsAreTold, RoutesApart
  <2>5. SeedsAreTrue'
    BY <1>1, <1>2, <1>3, <2>1 DEF FieldInv, SeedsAreTrue
  <2>6. GotosAreInside'
    BY <1>1, <1>2, <1>3, <2>1 DEF FieldInv, GotosAreInside
  <2>7. ToursAreInFrame'
    BY <1>1, <1>2, <1>3, <2>1 DEF FieldInv, ToursAreInFrame, Seeded
  <2> QED BY <2>2, <2>3, <2>4, <2>5, <2>6, <2>7 DEF FieldInv
<1>4. CASE tool' # tool
  <2>1. PICK e \in {0, tool.sent} : tool' = [To(at) EXCEPT !.ended = e]
    BY <1>1, <1>4
  <2>2. tool \in ToolStates
    BY DEF FieldInv, FieldTypes
  <2>3. e \in Nat
    <3>1. tool.sent \in 0 .. MaxJobs
      BY <2>2 DEF ToolStates
    <3>2. tool.sent \in Nat /\ 0 \in Nat
      BY <3>1, Counted, Zenon
    <3> QED BY <3>2, Zenon
  <2>4. tool' = [tool EXCEPT !.at = at, !.ended = e]
    BY <2>1, <2>2 DEF To, ToolStates
  <2>5. /\ tool' \in ToolStates /\ tool'.at = at /\ tool'.ended = e /\ tool'.seq = tool.seq
        /\ tool'.sent = tool.sent /\ tool'.trusted = tool.trusted /\ tool'.kind = tool.kind
        /\ tool'.tour = tool.tour
    BY <2>2, <2>3, <2>4 DEF ToolStates
  <2>6. FieldTypes' /\ InOrder' /\ InStep' = InStep
    BY <1>1, <2>5 DEF FieldInv, FieldTypes, Believed, InOrder, InStep
  <2>7. EndsAreTold' /\ RoutesApart'
    BY <2>1, <2>5 DEF FieldInv, EndsAreTold, RoutesApart, WaitingAt
  <2>8. CASE tool.trusted /\ InStep /\ tool.at \in SeedingAt
    <3>1. place.off = 0 /\ (tool.at = "seeding goto" => place.at \in Usable)
      BY <1>1, <2>8 DEF FieldInv, SeedsAreTrue
    <3>2. CurrentJob' = NoJob
      BY <1>1 DEF CurrentJob, Quiet
    <3>3. GotosAreInside'
      BY <1>1, <2>5, <3>1, <3>2 DEF GotosAreInside, NoJob
    <3> QED BY <1>1, <2>5, <2>6, <2>7, <3>1, <3>3, Settled DEF Seeded, WaitingAt
  <2>9. CASE ~(tool.trusted /\ InStep /\ tool.at \in SeedingAt)
    <3>1. CurrentJob' = NoJob
      BY <1>1 DEF CurrentJob, Quiet
    <3>2. GotosAreInside'
      BY <1>1, <2>5, <2>6, <2>9, <3>1 DEF GotosAreInside, NoJob, SeedingAt
    <3> QED BY <1>1, <2>5, <2>6, <2>7, <2>9, <3>2, Settled DEF Seeded, SeedingAt, WaitingAt
  <2> QED BY <2>8, <2>9
<1> QED BY <1>3, <1>4

\* A step that sends nothing.
LEMMA GoesOn ==
  ASSUME FieldInv, tool.at \notin WaitingAt, NEW where \in ToolStates, Going(where),
         where.at \notin WaitingAt \cup {"send goto", "send tour", "score"},
         where.seq = tool.seq, where.sent = tool.sent, where.trusted = tool.trusted,
         where.at = "subscribe" => where.kind # "tour_practice world",
         where.at \in RepositionAt => where.kind # "tour_practice world"
  PROVE  FieldInv'
<1>1. tool' = where /\ UNCHANGED <<place, jobs, marks, camera>>
  BY DEF Going
<1>2. Quiet'
  BY <1>1, QuietUnlessWaiting DEF Quiet
<1>3. FieldTypes' /\ InOrder'
  BY <1>1 DEF FieldInv, FieldTypes, Believed, InOrder
<1>4. EndsAreTold' /\ RoutesApart'
  BY <1>1 DEF EndsAreTold, RoutesApart, WaitingAt
<1> QED BY <1>1, <1>2, <1>3, <1>4, Settled DEF WaitingAt, Seeded

\* What send() does to the program and to the robot's counter.
LEMMA SendsOne ==
  ASSUME FieldInv, tool.at \notin WaitingAt, NEW verb, NEW arg, NEW where \in ToolStates,
         Sending(verb, arg, where)
  PROVE  /\ UNCHANGED <<place, marks, camera>>
         /\ tool' = [where EXCEPT !.seq = tool.seq + 1, !.sent = tool.sent + 1]
         /\ tool' \in ToolStates /\ tool'.seq = tool.seq + 1 /\ tool'.sent = tool.sent + 1
         /\ \/ jobs' = jobs
            \/ /\ InStep /\ jobs'.expected = tool'.seq + 1 /\ jobs'.doing = NoJob
               /\ jobs'.queue = IF verb = "TLM" THEN <<>> ELSE <<[verb |-> verb, arg |-> arg, n |-> tool'.sent]>>
               /\ jobs' = [expected |-> jobs'.expected, queue |-> jobs'.queue, doing |-> jobs'.doing]
<1>1. /\ tool.sent < MaxJobs /\ Send(verb, arg) /\ UNCHANGED <<place, marks, camera>>
      /\ tool' = [where EXCEPT !.seq = tool.seq + 1, !.sent = tool.sent + 1]
  BY DEF Sending, Left
<1>2. tool \in ToolStates /\ tool.seq \in Nat /\ tool.sent \in 0 .. MaxJobs
  BY DEF FieldInv, FieldTypes, ToolStates
<1>3. tool.seq + 1 \in Nat /\ tool.sent + 1 \in 0 .. MaxJobs
  BY <1>1, <1>2, FieldConstants
<1>4. tool' \in ToolStates /\ tool'.seq = tool.seq + 1 /\ tool'.sent = tool.sent + 1
  BY <1>1, <1>3 DEF ToolStates
<1>5. jobs.queue = <<>> /\ jobs.doing = NoJob
  BY QuietUnlessWaiting DEF Quiet
<1>6. ASSUME jobs' # jobs
      PROVE  /\ InStep /\ jobs' = [jobs EXCEPT !.expected = tool.seq + 1 + 1,
                       !.queue = IF verb = "TLM" THEN @
                                 ELSE Append(@, [verb |-> verb, arg |-> arg, n |-> tool.sent + 1])]
  BY <1>1, <1>6 DEF Send, Accepts, InStep
<1>7. jobs = [expected |-> jobs.expected, queue |-> jobs.queue, doing |-> jobs.doing]
  BY DEF FieldInv, FieldTypes
<1>8. tool'.seq + 1 = tool.seq + 1 + 1 /\ tool'.sent = tool.sent + 1
  BY <1>4, Zenon
<1>9. ASSUME jobs' # jobs
      PROVE  /\ InStep /\ jobs'.expected = tool'.seq + 1 /\ jobs'.doing = NoJob
             /\ jobs'.queue = IF verb = "TLM" THEN <<>> ELSE <<[verb |-> verb, arg |-> arg, n |-> tool'.sent]>>
             /\ jobs' = [expected |-> jobs'.expected, queue |-> jobs'.queue, doing |-> jobs'.doing]
  <2> DEFINE x == [verb |-> verb, arg |-> arg, n |-> tool'.sent]
             q == IF verb = "TLM" THEN <<>> ELSE Append(<<>>, x)
  <2>1. jobs' = [jobs EXCEPT !.expected = tool'.seq + 1, !.queue = q]
    BY <1>5, <1>6, <1>8, <1>9, Zenon
  <2>2. q = IF verb = "TLM" THEN <<>> ELSE <<x>>
    BY OneInQueue, Zenon
  <2> HIDE DEF q
  <2>3. /\ jobs'.expected = tool'.seq + 1 /\ jobs'.queue = q /\ jobs'.doing = jobs.doing
        /\ jobs' = [expected |-> jobs'.expected, queue |-> jobs'.queue, doing |-> jobs'.doing]
    BY <1>7, <2>1, RecordOfJobs, Zenon
  <2> QED BY <1>5, <1>6, <1>9, <2>2, <2>3, Zenon
<1> QED BY <1>1, <1>4, <1>9

LEMMA SendsJob ==
  ASSUME FieldInv, tool.at \notin WaitingAt, NEW verb \in JobVerbs, NEW arg \in Cells,
         NEW where \in ToolStates, Sending(verb, arg, where), VerbFits(verb, where.at),
         where.trusted => tool.trusted, where.kind = tool.kind,
         where.at = "touring" => where.tour = tool.sent + 1,
         where.trusted /\ verb = "seedxy" =>
            arg = place.at /\ (where.at = "seeding goto" => place.at \in Usable),
         verb = "goto" => arg = Origin /\ (where.trusted /\ InStep => place.off = 0 /\ place.at \in Usable),
         verb = "tour out" /\ where.trusted /\ InStep /\ where.kind # "tour_practice robot" => place.off = 0,
         where.at \in RepositionAt => where.kind # "tour_practice world"
  PROVE  FieldInv'
<1>1. /\ UNCHANGED <<place, marks, camera>>
      /\ tool' = [where EXCEPT !.seq = tool.seq + 1, !.sent = tool.sent + 1]
      /\ tool' \in ToolStates /\ tool'.seq = tool.seq + 1 /\ tool'.sent = tool.sent + 1
      /\ \/ jobs' = jobs
         \/ /\ InStep /\ jobs'.expected = tool'.seq + 1 /\ jobs'.doing = NoJob
            /\ jobs'.queue = <<[verb |-> verb, arg |-> arg, n |-> tool'.sent]>>
            /\ jobs' = [expected |-> jobs'.expected, queue |-> jobs'.queue, doing |-> jobs'.doing]
  <2>1. verb # "TLM"
    BY DEF JobVerbs
  <2>2. /\ UNCHANGED <<place, marks, camera>>
        /\ tool' = [where EXCEPT !.seq = tool.seq + 1, !.sent = tool.sent + 1]
        /\ tool' \in ToolStates /\ tool'.seq = tool.seq + 1 /\ tool'.sent = tool.sent + 1
    BY SendsOne, Zenon
  <2>3. \/ jobs' = jobs
        \/ /\ InStep /\ jobs'.expected = tool'.seq + 1 /\ jobs'.doing = NoJob
           /\ jobs'.queue = IF verb = "TLM" THEN <<>> ELSE <<[verb |-> verb, arg |-> arg, n |-> tool'.sent]>>
           /\ jobs' = [expected |-> jobs'.expected, queue |-> jobs'.queue, doing |-> jobs'.doing]
    BY SendsOne, Zenon
  <2> QED BY <2>1, <2>2, <2>3, Zenon
<1>2. /\ tool'.at = where.at /\ tool'.trusted = where.trusted /\ tool'.kind = where.kind
      /\ tool'.tour = where.tour /\ where.at \in WaitingAt
  BY <1>1 DEF ToolStates, VerbFits, WaitingAt, SeedingAt
<1>3. /\ tool.seq \in Nat /\ tool.sent \in Nat /\ tool.seq <= tool.sent
      /\ jobs.expected \in Nat \ {0} /\ jobs.expected <= tool.sent + 1
      /\ where.trusted => jobs.expected <= tool.seq + 1
  <2>1. tool \in ToolStates
    BY DEF FieldInv, FieldTypes
  <2>2. tool.seq \in Nat /\ tool.sent \in 0 .. MaxJobs
    BY <2>1 DEF ToolStates
  <2>3. tool.sent \in Nat
    BY <2>2, Counted, Zenon
  <2>4. jobs.expected \in Nat \ {0} /\ jobs.expected <= tool.sent + 1 /\ tool.seq <= tool.sent
    BY DEF FieldInv, FieldTypes
  <2>5. where.trusted => jobs.expected <= tool.seq + 1
    BY DEF FieldInv, InOrder
  <2> QED BY <2>2, <2>3, <2>4, <2>5
<1>4. /\ jobs'.expected \in Nat \ {0} /\ jobs'.expected <= tool'.sent + 1 /\ tool'.seq <= tool'.sent
      /\ where.trusted => jobs'.expected <= tool'.seq + 1
  <2>1. tool'.seq = tool.seq + 1 /\ tool'.sent = tool.sent + 1
    BY <1>1
  <2>2. jobs'.expected = jobs.expected \/ jobs'.expected = tool'.seq + 1
    BY <1>1
  <2>3. /\ tool.seq + 1 <= tool.sent + 1 /\ tool.seq + 1 + 1 <= tool.sent + 1 + 1
        /\ jobs.expected <= tool.sent + 1 + 1 /\ tool.seq + 1 + 1 \in Nat \ {0}
        /\ tool.seq + 1 + 1 <= tool.seq + 1 + 1
        /\ where.trusted => jobs.expected <= tool.seq + 1 + 1
    BY <1>3, OneMore, Zenon
  <2>4. CASE jobs'.expected = jobs.expected
    BY <1>3, <2>1, <2>3, <2>4, Zenon
  <2>5. CASE jobs'.expected = tool'.seq + 1
    BY <2>1, <2>3, <2>5, Zenon
  <2> QED BY <2>2, <2>4, <2>5, Zenon
<1>5. FieldTypes'
  <2>1. jobs' = [expected |-> jobs'.expected, queue |-> jobs'.queue, doing |-> jobs'.doing]
    BY <1>1 DEF FieldInv, FieldTypes
  <2>2. place \in [at : Cells, faces : {"west", "east"}, off : Int] /\ Believed' = Believed /\ Believed \in Cells
        /\ camera \in [latest : Cells \cup {NoFix}, notag : 0 .. StaleAfter + 1, err : BOOLEAN]
    BY <1>1 DEF FieldInv, FieldTypes, Believed
  <2> QED BY <1>1, <1>4, <2>1, <2>2 DEF FieldTypes
<1>6. InOrder'
  BY <1>2, <1>4 DEF InOrder
<1>7. EndsAreTold' /\ RoutesApart'
  <2>1. where.at # "score"
    BY <1>2 DEF WaitingAt, SeedingAt
  <2> QED BY <1>1, <1>2, <2>1 DEF EndsAreTold, RoutesApart
<1>8. Quiet
  BY QuietUnlessWaiting
<1>9. CASE jobs' = jobs
  <2>1. Quiet' /\ CurrentJob' = NoJob
    BY <1>1, <1>8, <1>9 DEF Quiet, CurrentJob
  <2>2. where.trusted => ~InStep'
    <3>1. jobs'.expected = jobs.expected /\ tool'.seq = tool.seq + 1
      BY <1>1, <1>9
    <3> QED BY <1>3, <3>1, OneMore, Zenon DEF InStep
  <2>3. OneJob'
    BY <2>1 DEF OneJob
  <2>4. SeedsAreTrue'
    <3>1. where.at \in SeedingAt => verb = "seedxy"
      BY DEF VerbFits, SeedingAt
    <3>2. where.trusted /\ where.at = "seeding goto" => place.at \in Usable
      BY <3>1 DEF SeedingAt
    <3>3. NoJob.verb # "seedxy"
      BY DEF NoJob
    <3> QED BY <1>1, <1>2, <2>1, <2>2, <3>2, <3>3 DEF SeedsAreTrue
  <2>5. GotosAreInside' /\ ToursAreInFrame'
    <3>1. NoJob.verb = "none"
      BY DEF NoJob
    <3> QED BY <1>2, <2>1, <2>2, <3>1 DEF GotosAreInside, ToursAreInFrame
  <2> QED BY <1>5, <1>6, <1>7, <2>3, <2>4, <2>5 DEF FieldInv
<1>10. CASE jobs' # jobs
  <2> DEFINE j == [verb |-> verb, arg |-> arg, n |-> tool'.sent]
  <2>1. InStep /\ jobs'.queue = <<j>> /\ jobs'.doing = NoJob
    BY <1>1, <1>10
  <2>2. CurrentJob' = j /\ ~Idle'
    <3> HIDE DEF j
    <3>1. Head(<<j>>) = j /\ <<j>> # <<>>
      BY OneInQueue, Zenon
    <3> QED BY <2>1, <3>1 DEF CurrentJob, Idle
  <2>3. j \in FieldJobs
    <3>1. tool'.sent \in 0 .. MaxJobs
      BY <1>1 DEF ToolStates
    <3>2. tool'.sent \in Nat
      BY <3>1, Counted, Zenon
    <3> QED BY <3>2 DEF FieldJobs
  <2>4. marks' = <<>>
    BY <1>1, <1>8 DEF Quiet
  <2>5. j.verb = verb /\ j.arg = arg /\ j.n = tool'.sent
    OBVIOUS
  <2> HIDE DEF j
  <2>6. OneJob'
    BY <1>2, <2>1, <2>2, <2>3, <2>4, <2>5 DEF OneJob
  <2>7. SeedsAreTrue'
    <3>1. where.at \in SeedingAt => verb = "seedxy"
      BY DEF VerbFits, SeedingAt
    <3>2. ~(InStep /\ Idle)'
      BY <2>2
    <3> QED BY <1>1, <1>2, <2>2, <2>5, <3>1, <3>2 DEF SeedsAreTrue
  <2>8. GotosAreInside'
    <3>1. where.at # "send goto"
      BY <1>2 DEF WaitingAt, SeedingAt
    <3> QED BY <1>1, <1>2, <2>1, <2>2, <2>5, <3>1 DEF GotosAreInside
  <2>9. ToursAreInFrame'
    <3>1. where.at \notin {"send tour", "subscribe"}
      BY <1>2 DEF WaitingAt, SeedingAt
    <3> QED BY <1>1, <1>2, <2>1, <2>2, <2>5, <3>1 DEF ToursAreInFrame, Seeded
  <2> QED BY <1>5, <1>6, <1>7, <2>6, <2>7, <2>8, <2>9 DEF FieldInv
<1> QED BY <1>9, <1>10

\* A program at one of its own steps.
LEMMA AtHome ==
  ASSUME FieldInv
  PROVE  /\ tool \in ToolStates /\ tool.at \in ToolAt /\ tool.kind \in Tools
         /\ tool.try \in 0 .. Tries /\ tool.seq \in Nat /\ place.at \in Cells
         /\ camera.latest \in Cells \cup {NoFix} /\ fix \in Cells \cup {NoFix}
<1>1. tool \in ToolStates /\ place.at \in Cells /\ camera.latest \in Cells \cup {NoFix}
  BY DEF FieldInv, FieldTypes
<1> QED BY <1>1 DEF ToolStates, fix

LEMMA OpenStep ==
  ASSUME FieldInv, open_link
  PROVE  FieldInv'
<1>1. PICK kind \in Tools, heard \in BOOLEAN :
        /\ jobs' = IF heard THEN [jobs EXCEPT !.expected = 1] ELSE jobs
        /\ tool' = [tool EXCEPT !.at = "run", !.kind = kind, !.seq = 0, !.trusted = heard]
  BY DEF open_link
<1>2. UNCHANGED <<place, marks, camera>> /\ tool.at = "closed"
  BY DEF open_link
<1>3. /\ tool' \in ToolStates /\ tool'.at = "run" /\ tool'.seq = 0 /\ tool'.trusted = heard
      /\ tool'.sent = tool.sent
  BY <1>1, AtHome DEF ToolStates, ToolAt
<1>4. /\ jobs'.queue = jobs.queue /\ jobs'.doing = jobs.doing
      /\ jobs' = [expected |-> jobs'.expected, queue |-> jobs'.queue, doing |-> jobs'.doing]
      /\ jobs'.expected = IF heard THEN 1 ELSE jobs.expected
  BY <1>1 DEF FieldInv, FieldTypes
<1>5. Quiet'
  <2>1. Quiet
    BY <1>2, QuietUnlessWaiting DEF WaitingAt, SeedingAt
  <2> QED BY <1>2, <1>4, <2>1 DEF Quiet
<1>6. /\ jobs'.expected \in Nat \ {0} /\ jobs'.expected <= tool'.sent + 1 /\ tool'.seq <= tool'.sent
      /\ heard => jobs'.expected = 1
  <2>1. tool.sent \in Nat
    BY AtHome, Counted, Zenon DEF ToolStates
  <2>2. jobs.expected \in Nat \ {0} /\ jobs.expected <= tool.sent + 1
    BY DEF FieldInv, FieldTypes
  <2> QED BY <1>3, <1>4, <2>1, <2>2
<1>7. FieldTypes'
  BY <1>2, <1>3, <1>4, <1>6 DEF FieldInv, FieldTypes, Believed
<1>8. InOrder'
  BY <1>3, <1>6 DEF InOrder
<1>9. EndsAreTold' /\ RoutesApart'
  BY <1>3 DEF EndsAreTold, RoutesApart, RepositionAt
<1> QED BY <1>3, <1>5, <1>7, <1>8, <1>9, Settled DEF SeedingAt, Seeded

\* Giving up leaves the program where nothing is asked of the robot.
LEMMA GivesUpStep ==
  ASSUME FieldInv, tool.at \notin WaitingAt, GivesUp
  PROVE  FieldInv'
<1> DEFINE where == To(IF Practising THEN "run" ELSE "closed")
<1>1. where \in ToolStates /\ where.at \in {"run", "closed"} /\ where.seq = tool.seq
      /\ where.sent = tool.sent /\ where.trusted = tool.trusted
  BY AtHome DEF To, ToolStates, ToolAt
<1>2. Going(where)
  BY DEF GivesUp
<1> HIDE DEF where
<1> QED BY <1>1, <1>2, GoesOn DEF WaitingAt, SeedingAt, RepositionAt

LEMMA RunSteps ==
  ASSUME FieldInv, next_run \/ close
  PROVE  FieldInv'
<1>1. CASE close
  <2> DEFINE where == To("closed")
  <2>1. where \in ToolStates /\ where.at = "closed" /\ where.seq = tool.seq
        /\ where.sent = tool.sent /\ where.trusted = tool.trusted
    BY AtHome DEF To, ToolStates, ToolAt
  <2>2. Going(where) /\ tool.at = "run"
    BY <1>1 DEF close
  <2> HIDE DEF where
  <2> QED BY <2>1, <2>2, GoesOn DEF WaitingAt, SeedingAt, RepositionAt
<1>2. CASE next_run
  <2> DEFINE next == CASE tool.kind = "tour_practice robot" -> "position"
                       [] tool.kind = "tour_practice world" -> "before"
                       [] OTHER -> "subscribe"
             where == [tool EXCEPT !.try = 0, !.tour = 0, !.ended = 0, !.at = next]
  <2>1. /\ next \in {"position", "before", "subscribe"}
        /\ next \in {"position", "subscribe"} => tool.kind # "tour_practice world"
    OBVIOUS
  <2>2. Going(where) /\ tool.at = "run"
    BY <1>2 DEF next_run
  <2> HIDE DEF next
  <2>3. 0 \in 0 .. Tries
    BY FieldConstants
  <2>4. /\ where \in ToolStates /\ where.at = next /\ where.seq = tool.seq /\ where.kind = tool.kind
        /\ where.sent = tool.sent /\ where.trusted = tool.trusted
    BY <2>1, <2>3, AtHome DEF ToolStates, ToolAt, WaitingAt
  <2> HIDE DEF where
  <2> QED BY <2>1, <2>2, <2>4, GoesOn DEF WaitingAt, SeedingAt, RepositionAt
<1> QED BY <1>1, <1>2

\* The repositioning and the tour wait for their markers.
LEMMA WaitSteps ==
  ASSUME FieldInv, seeding_goto \/ going \/ seeding_face \/ facing \/ seeding_tour \/ touring
  PROVE  FieldInv'
<1>1. CASE seeding_goto
  <2>1. tool.at = "seeding goto" /\ Await("OCAL:seeded", To("send goto"))
    BY <1>1 DEF seeding_goto
  <2>2. tool.at \in WaitingAt /\ tool.at \in RepositionAt /\ "send goto" \in ToolAt \ WaitingAt
    BY <2>1 DEF WaitingAt, SeedingAt, RepositionAt, ToolAt
  <2> QED BY <2>1, <2>2, ReadsOn
<1>2. CASE going
  <2>1. tool.at = "going" /\ Await("GOTO:end", To("position"))
    BY <1>2 DEF going
  <2>2. tool.at \in WaitingAt /\ tool.at \in RepositionAt /\ "position" \in ToolAt \ WaitingAt
    BY <2>1 DEF WaitingAt, SeedingAt, RepositionAt, ToolAt
  <2> QED BY <2>1, <2>2, ReadsOn
<1>3. CASE seeding_face
  <2>1. tool.at = "seeding face" /\ Await("OCAL:seeded", To("send face"))
    BY <1>3 DEF seeding_face
  <2>2. tool.at \in WaitingAt /\ tool.at \in RepositionAt /\ "send face" \in ToolAt \ WaitingAt
    BY <2>1 DEF WaitingAt, SeedingAt, RepositionAt, ToolAt
  <2> QED BY <2>1, <2>2, ReadsOn
<1>4. CASE facing
  <2>1. tool.at = "facing" /\ Await("FACE:end", To("heading"))
    BY <1>4 DEF facing
  <2>2. tool.at \in WaitingAt /\ tool.at \in RepositionAt /\ "heading" \in ToolAt \ WaitingAt
    BY <2>1 DEF WaitingAt, SeedingAt, RepositionAt, ToolAt
  <2> QED BY <2>1, <2>2, ReadsOn
<1>5. CASE seeding_tour
  <2> DEFINE next == IF Practising THEN "subscribe" ELSE "send tour"
  <2>1. tool.at = "seeding tour" /\ Await("OCAL:seeded", To(next))
    BY <1>5 DEF seeding_tour
  <2>2. /\ tool.at \in WaitingAt /\ next \in ToolAt \ WaitingAt
        /\ next \notin {"score", "send goto"} /\ next \notin RepositionAt
    BY <2>1 DEF WaitingAt, SeedingAt, RepositionAt, ToolAt
  <2> HIDE DEF next
  <2> QED BY <2>1, <2>2, ReadsOn
<1>6. CASE touring
  <2>1. tool.at = "touring" /\ Await("TOUR:end", To("score"))
    BY <1>6 DEF touring
  <2>2. tool.at \in WaitingAt /\ "score" \in ToolAt \ WaitingAt /\ "score" \notin RepositionAt
    BY <2>1 DEF WaitingAt, SeedingAt, RepositionAt, ToolAt
  <2> QED BY <2>1, <2>2, ReadsOn
<1> QED BY <1>1, <1>2, <1>3, <1>4, <1>5, <1>6

\* Steps that read a fix or a heading and send nothing.
LEMMA LookSteps ==
  ASSUME FieldInv,
         \/ score \/ arrived
         \/ position /\ tool' = AfterPosition /\ Going(AfterPosition)
         \/ heading /\ Going(To("arrived"))
  PROVE  FieldInv'
<1>1. CASE score
  <2> DEFINE where == To("run")
  <2>1. where \in ToolStates /\ where.at = "run" /\ where.seq = tool.seq
        /\ where.sent = tool.sent /\ where.trusted = tool.trusted
    BY AtHome DEF To, ToolStates, ToolAt
  <2>2. Going(where) /\ tool.at = "score"
    BY <1>1 DEF score
  <2> HIDE DEF where
  <2> QED BY <2>1, <2>2, GoesOn DEF WaitingAt, SeedingAt, RepositionAt
<1>2. CASE position /\ Going(AfterPosition)
  <2> DEFINE where == AfterPosition
  <2>1. 0 \in 0 .. Tries
    BY FieldConstants
  <2>2. where \in ToolStates /\ where.at = "heading" /\ where.seq = tool.seq
        /\ where.sent = tool.sent /\ where.trusted = tool.trusted /\ where.kind = tool.kind
    BY <2>1, AtHome DEF AfterPosition, ToolStates, ToolAt, WaitingAt
  <2>3. tool.at = "position"
    BY <1>2 DEF position
  <2>4. tool.kind # "tour_practice world"
    BY <2>3 DEF FieldInv, RoutesApart, RepositionAt
  <2>5. Going(where)
    BY <1>2
  <2> HIDE DEF where
  <2> QED BY <2>2, <2>3, <2>4, <2>5, GoesOn DEF WaitingAt, SeedingAt
<1>3. CASE heading /\ Going(To("arrived"))
  <2> DEFINE where == To("arrived")
  <2>1. where \in ToolStates /\ where.at = "arrived" /\ where.seq = tool.seq
        /\ where.sent = tool.sent /\ where.trusted = tool.trusted /\ where.kind = tool.kind
    BY AtHome DEF To, ToolStates, ToolAt
  <2>2. tool.at = "heading" /\ Going(where)
    BY <1>3 DEF heading
  <2>3. tool.kind # "tour_practice world"
    BY <2>2 DEF FieldInv, RoutesApart, RepositionAt
  <2> HIDE DEF where
  <2> QED BY <2>1, <2>2, <2>3, GoesOn DEF WaitingAt, SeedingAt
<1>4. CASE arrived
  <2>1. tool.at = "arrived"
    BY <1>4 DEF arrived
  <2>2. CASE fix = NoFix
    BY <1>4, <2>1, <2>2, GivesUpStep DEF arrived, WaitingAt, SeedingAt
  <2>3. CASE fix # NoFix
    <3> DEFINE next == IF Practising THEN "subscribe" ELSE "before"
               where == To(next)
    <3>1. next \in {"subscribe", "before"}
      OBVIOUS
    <3>2. Going(where)
      BY <1>4, <2>3 DEF arrived
    <3> HIDE DEF next
    <3>3. where \in ToolStates /\ where.at = next /\ where.seq = tool.seq
          /\ where.sent = tool.sent /\ where.trusted = tool.trusted /\ where.kind = tool.kind
      BY <3>1, AtHome DEF To, ToolStates, ToolAt, WaitingAt
    <3>4. tool.kind # "tour_practice world"
      BY <2>1 DEF FieldInv, RoutesApart, RepositionAt
    <3> HIDE DEF where
    <3> QED BY <2>1, <3>1, <3>2, <3>3, <3>4, GoesOn DEF WaitingAt, SeedingAt
  <2> QED BY <2>2, <2>3
<1> QED BY <1>1, <1>2, <1>3, <1>4

\* A fix read into the program's state.
LEMMA FixedAt ==
  ASSUME FieldInv, fix # NoFix, NEW at \in ToolAt
  PROVE  /\ fix \in Cells
         /\ Fixed(at) \in ToolStates /\ Fixed(at).at = at /\ Fixed(at).kind = tool.kind
         /\ Fixed(at).try = tool.try
         /\ Fixed(at).trusted => tool.trusted /\ fix = place.at
<1>1. fix \in Cells /\ tool \in ToolStates
  BY AtHome
<1>2. (tool.trusted /\ fix = place.at) \in BOOLEAN
  OBVIOUS
<1>3. Fixed(at) = [tool EXCEPT !.at = at, !.fix = fix, !.trusted = (tool.trusted /\ fix = place.at)]
  BY <1>1 DEF Fixed, ToolStates
<1> HIDE DEF Fixed
<1>4. Fixed(at).at = at /\ Fixed(at).kind = tool.kind /\ Fixed(at).try = tool.try
  BY <1>1, <1>3 DEF ToolStates
<1>5. Fixed(at).trusted = (tool.trusted /\ fix = place.at)
  BY <1>1, <1>3 DEF ToolStates
<1>6. Fixed(at) \in ToolStates
  BY <1>1, <1>2, <1>3 DEF ToolStates
<1>7. Fixed(at).trusted => tool.trusted /\ fix = place.at
  BY <1>5
<1> QED BY <1>1, <1>4, <1>6, <1>7

LEMMA TriedAt ==
  ASSUME FieldInv, fix # NoFix, tool.try # Tries, NEW at \in ToolAt
  PROVE  /\ fix \in Cells
         /\ Tried(at) \in ToolStates /\ Tried(at).at = at /\ Tried(at).kind = tool.kind
         /\ Tried(at).trusted => tool.trusted /\ fix = place.at
<1>1. /\ fix \in Cells
      /\ Fixed(at) \in ToolStates /\ Fixed(at).at = at /\ Fixed(at).kind = tool.kind
      /\ Fixed(at).try = tool.try
      /\ Fixed(at).trusted => tool.trusted /\ fix = place.at
  BY FixedAt
<1>2. tool.try + 1 \in 0 .. Tries
  <2>1. tool.try \in 0 .. Tries
    BY AtHome
  <2> QED BY <2>1, FieldConstants
<1> DEFINE where == Fixed(at)
<1> HIDE DEF where
<1>3. Tried(at) = [where EXCEPT !.try = tool.try + 1]
  BY <1>1 DEF Tried, where
<1>4. where \in ToolStates
  BY <1>1 DEF where
<1>5. /\ Tried(at) \in ToolStates /\ Tried(at).at = where.at /\ Tried(at).kind = where.kind
      /\ Tried(at).trusted = where.trusted
  BY <1>2, <1>3, <1>4 DEF ToolStates
<1> QED BY <1>1, <1>5 DEF where

LEMMA PositionStep ==
  ASSUME FieldInv, position
  PROVE  FieldInv'
<1>1. tool.at = "position" /\ tool.at \notin WaitingAt /\ tool.kind # "tour_practice world"
  BY DEF position, WaitingAt, SeedingAt, FieldInv, RoutesApart, RepositionAt
<1>2. CASE Going(AfterPosition)
  BY <1>2, LookSteps DEF Going
<1>3. CASE GivesUp
  BY <1>1, <1>3, GivesUpStep
<1>4. CASE tool.try # Tries /\ fix # NoFix /\ PathClear(fix) /\ Sending("seedxy", fix, Tried("seeding goto"))
  <2> DEFINE where == Tried("seeding goto")
  <2>1. /\ fix \in Cells /\ where \in ToolStates /\ where.at = "seeding goto"
        /\ where.kind = tool.kind /\ (where.trusted => tool.trusted /\ fix = place.at)
    BY <1>4, TriedAt DEF ToolAt, WaitingAt, SeedingAt
  <2>2. fix \in Usable
    <3>1. fix \in 0 .. Edge /\ Origin = Edge - 1 /\ fix \in Cells
      BY <2>1 DEF Cells, Origin
    <3>2. (fix <= fix /\ fix <= Origin) \/ (Origin <= fix /\ fix <= fix)
      BY <3>1, FieldConstants
    <3>3. fix \in check_path(fix, Origin) \/ fix \in Usable
      BY <3>1, <3>2 DEF check_path
    <3> QED BY <1>4, <3>3 DEF PathClear
  <2>3. Sending("seedxy", fix, where)
    BY <1>4
  <2>4. VerbFits("seedxy", where.at) /\ "seedxy" \in JobVerbs
    BY <2>1 DEF VerbFits, SeedingAt, JobVerbs
  <2> HIDE DEF where, fix
  <2> QED BY <1>1, <2>1, <2>2, <2>3, <2>4, SendsJob
<1> QED BY <1>2, <1>3, <1>4 DEF position

LEMMA HeadingStep ==
  ASSUME FieldInv, heading
  PROVE  FieldInv'
<1>1. tool.at = "heading" /\ tool.at \notin WaitingAt /\ tool.kind # "tour_practice world"
  BY DEF heading, WaitingAt, SeedingAt, FieldInv, RoutesApart, RepositionAt
<1>2. CASE Going(To("arrived"))
  BY <1>2, LookSteps
<1>3. CASE GivesUp
  BY <1>1, <1>3, GivesUpStep
<1>4. CASE tool.try # Tries /\ fix # NoFix /\ Sending("seedxy", fix, Tried("seeding face"))
  <2> DEFINE where == Tried("seeding face")
  <2>1. /\ fix \in Cells /\ where \in ToolStates /\ where.at = "seeding face"
        /\ where.kind = tool.kind /\ (where.trusted => tool.trusted /\ fix = place.at)
    BY <1>4, TriedAt DEF ToolAt, WaitingAt, SeedingAt
  <2>2. Sending("seedxy", fix, where)
    BY <1>4
  <2>3. VerbFits("seedxy", where.at) /\ "seedxy" \in JobVerbs
    BY <2>1 DEF VerbFits, SeedingAt, JobVerbs
  <2> HIDE DEF where, fix
  <2> QED BY <1>1, <2>1, <2>2, <2>3, SendsJob
<1> QED BY <1>2, <1>3, <1>4 DEF heading

LEMMA SeedStep ==
  ASSUME FieldInv, seed_start
  PROVE  FieldInv'
<1>1. tool.at = "before" /\ tool.at \notin WaitingAt
  BY DEF seed_start, WaitingAt, SeedingAt
<1>2. CASE GivesUp
  BY <1>1, <1>2, GivesUpStep
<1>3. CASE fix # NoFix /\ Sending("seedxy", fix, Fixed("seeding tour"))
  <2> DEFINE where == Fixed("seeding tour")
  <2>1. /\ fix \in Cells /\ where \in ToolStates /\ where.at = "seeding tour"
        /\ where.kind = tool.kind /\ (where.trusted => tool.trusted /\ fix = place.at)
    BY <1>3, FixedAt DEF ToolAt, WaitingAt, SeedingAt
  <2>2. Sending("seedxy", fix, where)
    BY <1>3
  <2>3. VerbFits("seedxy", where.at) /\ "seedxy" \in JobVerbs /\ where.at \notin RepositionAt
    BY <2>1 DEF VerbFits, SeedingAt, JobVerbs, RepositionAt
  <2> HIDE DEF where, fix
  <2> QED BY <1>1, <2>1, <2>2, <2>3, SendsJob
<1> QED BY <1>2, <1>3 DEF seed_start

LEMMA SendSteps ==
  ASSUME FieldInv, send_goto \/ send_face \/ send_tour
  PROVE  FieldInv'
<1>1. Origin \in Cells /\ 0 \in Cells
  BY FieldConstants DEF Origin, Cells
<1>2. CASE send_goto
  <2> DEFINE where == To("going")
  <2>1. where \in ToolStates /\ where.at = "going" /\ where.kind = tool.kind /\ where.trusted = tool.trusted
    BY AtHome DEF To, ToolStates, ToolAt, WaitingAt
  <2>2. tool.at = "send goto" /\ Sending("goto", Origin, where)
    BY <1>2 DEF send_goto
  <2>3. /\ VerbFits("goto", where.at) /\ "goto" \in JobVerbs /\ tool.at \notin WaitingAt
        /\ tool.kind # "tour_practice world"
    BY <2>1, <2>2 DEF VerbFits, JobVerbs, WaitingAt, SeedingAt, FieldInv, RoutesApart, RepositionAt
  <2>4. where.trusted /\ InStep => place.off = 0 /\ place.at \in Usable
    BY <2>1, <2>2 DEF FieldInv, GotosAreInside
  <2> HIDE DEF where
  <2> QED BY <1>1, <2>1, <2>2, <2>3, <2>4, SendsJob
<1>3. CASE send_face
  <2> DEFINE where == To("facing")
  <2>1. where \in ToolStates /\ where.at = "facing" /\ where.kind = tool.kind /\ where.trusted = tool.trusted
    BY AtHome DEF To, ToolStates, ToolAt, WaitingAt
  <2>2. tool.at = "send face" /\ Sending("face", 0, where)
    BY <1>3 DEF send_face
  <2>3. /\ VerbFits("face", where.at) /\ "face" \in JobVerbs /\ tool.at \notin WaitingAt
        /\ tool.kind # "tour_practice world"
    BY <2>1, <2>2 DEF VerbFits, JobVerbs, WaitingAt, SeedingAt, FieldInv, RoutesApart, RepositionAt
  <2> HIDE DEF where
  <2> QED BY <1>1, <2>1, <2>2, <2>3, SendsJob
<1>4. CASE send_tour
  <2> DEFINE where == [tool EXCEPT !.at = "touring", !.tour = tool.sent + 1]
  <2>1. tool.sent + 1 \in Nat
    <3>1. tool.sent \in 0 .. MaxJobs
      BY AtHome DEF ToolStates
    <3>2. tool.sent \in Nat
      BY <3>1, Counted, Zenon
    <3> QED BY <3>2
  <2>2. /\ where \in ToolStates /\ where.at = "touring" /\ where.kind = tool.kind
        /\ where.trusted = tool.trusted /\ where.tour = tool.sent + 1
    BY <2>1, AtHome DEF ToolStates, ToolAt, WaitingAt
  <2>3. tool.at = "send tour" /\ Sending("tour out", 0, where)
    BY <1>4 DEF send_tour
  <2>4. /\ VerbFits("tour out", where.at) /\ "tour out" \in JobVerbs /\ tool.at \notin WaitingAt
        /\ where.at \notin RepositionAt
    BY <2>2, <2>3 DEF VerbFits, JobVerbs, WaitingAt, SeedingAt, RepositionAt
  <2>5. where.trusted /\ InStep /\ where.kind # "tour_practice robot" => place.off = 0
    BY <2>2, <2>3 DEF FieldInv, ToursAreInFrame, Seeded
  <2> HIDE DEF where
  <2> QED BY <1>1, <2>2, <2>3, <2>4, <2>5, SendsJob
<1> QED BY <1>2, <1>3, <1>4

\* The line that subscribes is numbered like the others and queues nothing.
LEMMA SubscribeStep ==
  ASSUME FieldInv, RequireStream
  PROVE  FieldInv'
<1>1. tool.at = "subscribe" /\ tool.at \notin WaitingAt
  BY DEF RequireStream, WaitingAt, SeedingAt
<1>2. PICK next \in {"before", "position", "send tour", "run", "closed"} :
        /\ Sending("TLM", 0, To(next))
        /\ next = "position" => tool.kind = "tour_run --reposition"
        /\ next = "send tour" => tool.kind \notin {"tour_run", "tour_run --reposition"}
  BY DEF RequireStream
<1> DEFINE where == To(next)
<1>3. /\ where \in ToolStates /\ where.at = next /\ where.kind = tool.kind
      /\ where.trusted = tool.trusted /\ next \in ToolAt
  BY AtHome DEF To, ToolStates, ToolAt, WaitingAt
<1>4. Sending("TLM", 0, where)
  BY <1>2
<1> HIDE DEF where
<1>5. /\ UNCHANGED <<place, marks, camera>>
      /\ tool' = [where EXCEPT !.seq = tool.seq + 1, !.sent = tool.sent + 1]
      /\ tool' \in ToolStates /\ tool'.seq = tool.seq + 1 /\ tool'.sent = tool.sent + 1
      /\ \/ jobs' = jobs
         \/ /\ InStep /\ jobs'.expected = tool'.seq + 1 /\ jobs'.doing = NoJob
            /\ jobs'.queue = <<>>
            /\ jobs' = [expected |-> jobs'.expected, queue |-> jobs'.queue, doing |-> jobs'.doing]
  BY <1>1, <1>3, <1>4, SendsOne
<1>6. tool'.at = next /\ tool'.trusted = tool.trusted /\ tool'.kind = tool.kind
  BY <1>3, <1>5 DEF ToolStates
<1>7. Quiet'
  <2>1. Quiet
    BY <1>1, QuietUnlessWaiting
  <2> QED BY <1>5, <2>1 DEF Quiet
<1>8. /\ jobs.expected \in Nat \ {0} /\ jobs.expected <= tool.sent + 1 /\ tool.seq <= tool.sent
      /\ tool.trusted => jobs.expected <= tool.seq + 1
      /\ tool.seq \in Nat
  BY AtHome DEF FieldInv, FieldTypes, InOrder
<1>9. tool.sent \in Nat
  <2>1. tool.sent \in 0 .. MaxJobs
    BY AtHome DEF ToolStates
  <2> QED BY <2>1, Counted, Zenon
<1>10. /\ tool.seq + 1 <= tool.sent + 1 /\ tool.seq + 1 + 1 <= tool.sent + 1 + 1
       /\ jobs.expected <= tool.sent + 1 + 1 /\ tool.seq + 1 + 1 \in Nat \ {0}
       /\ tool.seq + 1 + 1 <= tool.seq + 1 + 1
       /\ tool.trusted => jobs.expected <= tool.seq + 1 + 1 /\ jobs.expected # tool.seq + 1 + 1
  BY <1>8, <1>9, OneMore, Zenon
<1>11. /\ jobs'.expected \in Nat \ {0} /\ jobs'.expected <= tool'.sent + 1 /\ tool'.seq <= tool'.sent
       /\ tool'.trusted => jobs'.expected <= tool'.seq + 1
       /\ tool'.trusted /\ InStep' => InStep
  <2>1. CASE jobs' = jobs
    BY <1>5, <1>6, <1>8, <1>10, <2>1, Zenon DEF InStep
  <2>2. CASE InStep /\ jobs'.expected = tool'.seq + 1
    BY <1>5, <1>6, <1>10, <2>2, Zenon
  <2> QED BY <1>5, <2>1, <2>2
<1>12. FieldTypes'
  <2>1. jobs' = [expected |-> jobs'.expected, queue |-> jobs'.queue, doing |-> jobs'.doing]
    BY <1>5 DEF FieldInv, FieldTypes
  <2>2. place \in [at : Cells, faces : {"west", "east"}, off : Int] /\ Believed' = Believed /\ Believed \in Cells
        /\ camera \in [latest : Cells \cup {NoFix}, notag : 0 .. StaleAfter + 1, err : BOOLEAN]
    BY <1>5 DEF FieldInv, FieldTypes, Believed
  <2> QED BY <1>5, <1>11, <2>1, <2>2 DEF FieldTypes
<1>13. InOrder' /\ EndsAreTold' /\ RoutesApart'
  BY <1>2, <1>6, <1>11 DEF InOrder, EndsAreTold, RoutesApart, RepositionAt
<1>14. (tool.trusted /\ tool.kind # "tour_practice robot" /\ Seeded /\ InStep => place.off = 0)'
  <2> SUFFICES ASSUME tool'.trusted, tool'.kind # "tour_practice robot", Seeded', InStep'
               PROVE  place'.off = 0
    OBVIOUS
  <2>1. next = "send tour" /\ tool.kind = "tour_practice world"
    <3>1. next = "send tour"
      BY <1>2, <1>6 DEF Seeded
    <3>2. tool.kind \in Tools
      BY AtHome
    <3> QED BY <1>2, <1>6, <3>1, <3>2 DEF Tools
  <2>2. place.off = 0
    BY <1>1, <1>6, <1>11, <2>1 DEF FieldInv, ToursAreInFrame, Seeded
  <2> QED BY <1>5, <2>2
<1>15. tool'.at \notin SeedingAt /\ tool'.at # "send goto"
  BY <1>2, <1>6 DEF SeedingAt
<1> QED BY <1>7, <1>12, <1>13, <1>14, <1>15, Settled

LEMMA FieldSteps == FieldInv /\ [FieldNext]_fieldVars => FieldInv'
<1> SUFFICES ASSUME FieldInv, [FieldNext]_fieldVars PROVE FieldInv'
  OBVIOUS
<1>1. CASE frame \/ CamDown
  BY <1>1, CameraSteps
<1>2. CASE Carried
  BY <1>2, CarriedStep
<1>3. CASE dispatchJob
  BY <1>3, DispatchStep
<1>4. CASE DriveOn
  BY <1>4, DriveStep
<1>5. CASE EndJob
  BY <1>5, EndStep
<1>6. CASE TurnBack
  BY <1>6, TurnBackStep
<1>7. CASE open_link
  BY <1>7, OpenStep
<1>8. CASE next_run \/ close
  BY <1>8, RunSteps
<1>9. CASE RequireStream
  BY <1>9, SubscribeStep
<1>10. CASE position
  BY <1>10, PositionStep
<1>11. CASE heading
  BY <1>11, HeadingStep
<1>12. CASE seed_start
  BY <1>12, SeedStep
<1>13. CASE send_goto \/ send_face \/ send_tour
  BY <1>13, SendSteps
<1>14. CASE seeding_goto \/ going \/ seeding_face \/ facing \/ seeding_tour \/ touring
  BY <1>14, WaitSteps
<1>15. CASE score \/ arrived
  BY <1>15, LookSteps
<1>16. CASE UNCHANGED fieldVars
  <2>1. CurrentJob' = CurrentJob /\ Idle' = Idle /\ InStep' = InStep /\ Quiet' = Quiet
    BY <1>16 DEF fieldVars, CurrentJob, Idle, InStep, Quiet
  <2>2. UNCHANGED <<place, jobs, marks, camera, tool>>
    BY <1>16 DEF fieldVars
  <2>3. FieldTypes' /\ OneJob' /\ InOrder' /\ EndsAreTold' /\ RoutesApart'
    BY <2>1, <2>2 DEF FieldInv, FieldTypes, Believed, OneJob, JobTold, InOrder, EndsAreTold, RoutesApart
  <2>4. SeedsAreTrue' /\ GotosAreInside' /\ ToursAreInFrame'
    BY <2>1, <2>2 DEF FieldInv, SeedsAreTrue, GotosAreInside, ToursAreInFrame, Seeded
  <2> QED BY <2>3, <2>4 DEF FieldInv
<1> QED
  BY <1>1, <1>2, <1>3, <1>4, <1>5, <1>6, <1>7, <1>8, <1>9, <1>10, <1>11, <1>12, <1>13, <1>14, <1>15,
     <1>16, Zenon DEF FieldNext

LEMMA FieldInvImpliesTypeOK == FieldInv => FieldTypeOK
<1> SUFFICES ASSUME FieldInv PROVE FieldTypeOK
  OBVIOUS
<1>1. tool.sent \in 0 .. MaxJobs /\ tool.try \in 0 .. Tries /\ tool.fix \in Cells \cup {NoFix}
  BY AtHome DEF ToolStates
<1>2. tool.sent \in Nat /\ tool.sent <= MaxJobs
  BY <1>1, FieldConstants
<1>3. jobs.expected \in 1 .. MaxJobs + 1
  <2>1. jobs.expected \in Nat \ {0} /\ jobs.expected <= tool.sent + 1
    BY DEF FieldInv, FieldTypes
  <2> QED BY <1>2, <2>1, FieldConstants
<1>4. place.at \in Cells /\ place.off \in -Edge .. Edge
  <2>1. place.at \in 0 .. Edge /\ place.off \in Int /\ place.at + place.off \in 0 .. Edge
    BY DEF FieldInv, FieldTypes, Believed, Cells
  <2> QED BY <2>1, FieldConstants DEF Cells
<1>5. camera.latest \in Cells \cup {NoFix} /\ camera.notag \in 0 .. StaleAfter + 1
  BY DEF FieldInv, FieldTypes
<1>6. Len(jobs.queue) <= MaxJobs
  <2>1. jobs.queue = <<>> \/ jobs.queue = <<CurrentJob>>
    BY DEF FieldInv, OneJob, Quiet, JobTold, Idle
  <2>2. Len(<<>>) = 0 /\ \A x : Len(<<x>>) = 1
    OBVIOUS
  <2>3. MaxJobs >= 1
    <3>1. MaxJobs \in Nat \ {0}
      BY FieldAssumption
    <3> QED BY <3>1
  <2>4. 0 <= MaxJobs /\ 1 <= MaxJobs
    BY <2>3, FieldConstants
  <2> QED BY <2>1, <2>2, <2>4, Zenon
<1> QED BY <1>1, <1>3, <1>4, <1>5, <1>6 DEF FieldTypeOK

LEMMA FieldInvImpliesSound == FieldInv => FieldRunsAreSound
<1> SUFFICES ASSUME FieldInv PROVE FieldRunsAreSound
  OBVIOUS
<1>1. ASSUME jobs.doing.verb # "none" PROVE CurrentJob = jobs.doing
  BY <1>1, AtWork
<1>2. DrivesInsideTheMargin
  BY <1>1 DEF DrivesInsideTheMargin, Trusted, FieldInv, GotosAreInside
<1>3. ToursAreSeeded
  BY <1>1 DEF ToursAreSeeded, Trusted, FieldInv, ToursAreInFrame
<1>4. EndIsItsOwn
  BY DEF EndIsItsOwn, FieldInv, EndsAreTold
<1> QED BY <1>2, <1>3, <1>4 DEF FieldRunsAreSound

LEMMA FieldIsInvariant == FieldSpec => []FieldInv
BY FieldStarts, FieldSteps, PTL DEF FieldSpec

(* The runs, the robot and the daemon's markers keep their types.           *)
THEOREM FieldTypesHold == FieldSpec => []FieldTypeOK
BY FieldIsInvariant, FieldInvImpliesTypeOK, PTL

(* Whatever lines and markers are lost, a drive onto the start dot stays    *)
(* inside the margin, a tour that seeds the robot is driven in the field's  *)
(* frame, and the end a run waited for is its own tour's: for every number  *)
(* of jobs and tries, every field and every place the robot starts from.    *)
THEOREM FieldRunsHold == FieldSpec => []FieldRunsAreSound
BY FieldIsInvariant, FieldInvImpliesSound, PTL


-----------------------------------------------------------------------------
(* The arithmetic of the field tools.                                        *)

\* Every nonempty set of naturals has a least element.
LEMMA LeastOf ==
  ASSUME NEW T, T \subseteq Nat, T # {}
  PROVE  \E x \in T : \A y \in T : x <= y
<1>1. \E r : IsWellFoundedOn(r, Nat) /\ \A x, y \in Nat : y < x => <<y, x>> \in r
  <2> DEFINE R == OpToRel(<, Nat)
  <2>1. IsWellFoundedOn(R, Nat)
    BY NatLessThanWellFounded
  <2>2. \A x, y \in Nat : y < x => <<y, x>> \in R
    BY DEF OpToRel
  <2> HIDE DEF R
  <2> QED BY <2>1, <2>2
<1>2. PICK r : IsWellFoundedOn(r, Nat) /\ \A x, y \in Nat : y < x => <<y, x>> \in r
  BY <1>1
<1>3. PICK x \in T : \A y \in T : ~(<<y, x>> \in r)
  BY <1>2, WFMin
<1>4. ASSUME NEW y \in T
      PROVE  x <= y
  <2>1. x \in Nat /\ y \in Nat
    OBVIOUS
  <2>2. ~(y < x)
    BY <1>2, <1>3, <2>1
  <2> QED BY <2>1, <2>2
<1> QED BY <1>4

\* What begins at 0 and passes from each number to the next reaches n.
LEMMA UpTo ==
  ASSUME NEW n \in Nat, NEW T, 0 \in T, \A i \in 1 .. n : i - 1 \in T => i \in T
  PROVE  \A i \in 0 .. n : i \in T
<1> DEFINE Out == {i \in 0 .. n : i \notin T}
<1> SUFFICES ASSUME Out # {} PROVE FALSE
  OBVIOUS
<1>1. PICK x \in Out : \A y \in Out : x <= y
  <2>1. Out \subseteq Nat
    OBVIOUS
  <2> HIDE DEF Out
  <2> QED BY <2>1, LeastOf
<1>2. x \in 1 .. n /\ x \notin T /\ x - 1 \in 0 .. n /\ ~(x <= x - 1)
  BY <1>1
<1>3. x - 1 \in T
  BY <1>1, <1>2
<1> QED BY <1>2, <1>3

\* A step that can always be taken can be taken n times.
StaysIn(n, S, step) == \A x \in S, i \in 1 .. n : step[<<x, i>>] \in S
TakenFrom(s0, n, S, step, h) ==
    /\ h \in [0 .. n -> S] /\ h[0] = s0
    /\ \A i \in 1 .. n : h[i] = step[<<h[i - 1], i>>]

LEMMA Iterated ==
  ASSUME NEW n \in Nat, NEW S, NEW s0 \in S, NEW step, StaysIn(n, S, step)
  PROVE  \E h : TakenFrom(s0, n, S, step, h)
<1> USE DEF StaysIn, TakenFrom
<1> DEFINE Is(h, m) == /\ h \in [0 .. m -> S] /\ h[0] = s0
                       /\ \A i \in 1 .. m : h[i] = step[<<h[i - 1], i>>]
           T == {m \in 0 .. n : \E h : Is(h, m)}
<1>1. 0 \in T
  <2> DEFINE h == [i \in 0 .. 0 |-> s0]
  <2>1. Is(h, 0)
    OBVIOUS
  <2> HIDE DEF h
  <2>2. 0 \in 0 .. n
    OBVIOUS
  <2> QED BY <2>1, <2>2
<1>2. ASSUME NEW m \in 1 .. n, m - 1 \in T PROVE m \in T
  <2>1. PICK h : Is(h, m - 1)
    BY <1>2
  <2> DEFINE f == [i \in 0 .. m |-> IF i = m THEN step[<<h[m - 1], m>>] ELSE h[i]]
  <2>2. m - 1 \in 0 .. m - 1 /\ m \in 0 .. m /\ 0 # m /\ 0 \in 0 .. m
        /\ \A i \in 0 .. m : i # m => i \in 0 .. m - 1
    OBVIOUS
  <2>3. h \in [0 .. m - 1 -> S] /\ step[<<h[m - 1], m>>] \in S
    BY <2>1, <2>2
  <2>4. f \in [0 .. m -> S] /\ f[0] = s0
    BY <2>1, <2>2, <2>3
  <2>5. ASSUME NEW i \in 1 .. m PROVE f[i] = step[<<f[i - 1], i>>]
    <3>1. i \in 0 .. m /\ i - 1 \in 0 .. m /\ i - 1 # m
      OBVIOUS
    <3>2. f[i - 1] = h[i - 1]
      BY <3>1
    <3>3. CASE i = m
      BY <3>1, <3>2, <3>3
    <3>4. CASE i # m
      <4>1. i \in 1 .. m - 1
        BY <3>4
      <4> QED BY <2>1, <3>1, <3>2, <3>4, <4>1
    <3> QED BY <3>3, <3>4
  <2> HIDE DEF f
  <2>6. Is(f, m)
    BY <2>4, <2>5
  <2> QED BY <2>6
<1>3. n \in T
  <2> HIDE DEF T
  <2>1. \A i \in 0 .. n : i \in T
    BY <1>1, <1>2, UpTo
  <2> QED BY <2>1
<1> QED BY <1>3

-----------------------------------------------------------------------------
(* Angles.                                                                  *)

\* wrap() takes off whole revolutions, down to half of one.
LEMMA WrapTakesOff ==
  ASSUME NEW d \in Int
  PROVE  /\ wrap(d) \in -179 .. 180
         /\ \E k \in Int : wrap(d) = d + 360 * k
<1>. DEFINE k == (d + 179) \div 360
<1>1. k \in Int /\ 360 * k <= d + 179 /\ d + 179 < 360 * k + 360  OBVIOUS
<1>2. wrap(d) = d - 360 * k  BY DEF wrap
<1>. HIDE DEF k
<1>3. wrap(d) \in -179 .. 180  BY <1>1, <1>2
<1>4. -k \in Int /\ wrap(d) = d + 360 * (-k)  BY <1>1, <1>2
<1>. QED  BY <1>3, <1>4

\* And nothing else does.
LEMMA WrapIs ==
  ASSUME NEW d \in Int, NEW w \in -179 .. 180, NEW k \in Int, w = d + 360 * k
  PROVE  wrap(d) = w
<1>1. wrap(d) \in -179 .. 180 /\ \E j \in Int : wrap(d) = d + 360 * j  BY WrapTakesOff
<1>2. PICK j \in Int : wrap(d) = d + 360 * j  BY <1>1
<1>. DEFINE v == wrap(d)
<1>3. v \in -179 .. 180 /\ v = d + 360 * j  BY <1>1, <1>2
<1>. HIDE DEF v
<1>4. v - w = 360 * (j - k)  BY <1>3
<1>5. j - k = 0  BY <1>3, <1>4
<1>. QED  BY <1>3, <1>4, <1>5 DEF v

\* Whole revolutions make no difference.
LEMMA WrapsAgree ==
  ASSUME NEW c \in Int, NEW d \in Int, NEW k \in Int, c = d + 360 * k
  PROVE  wrap(c) = wrap(d)
<1>1. wrap(d) \in -179 .. 180 /\ \E j \in Int : wrap(d) = d + 360 * j  BY WrapTakesOff
<1>. DEFINE v == wrap(d)
<1>2. PICK j \in Int : v = d + 360 * j  BY <1>1
<1>3. v \in -179 .. 180  BY <1>1
<1>. HIDE DEF v
<1>4. j - k \in Int /\ v = c + 360 * (j - k)  BY <1>2
<1>5. wrap(c) = v  BY <1>3, <1>4, WrapIs
<1>. QED  BY <1>5 DEF v

\* wrap() once more, of a sum, of a difference.
LEMMA WrapSum ==
  ASSUME NEW c \in Int, NEW d \in Int
  PROVE  wrap(wrap(c) + d) = wrap(c + d)
<1>1. PICK j \in Int : wrap(c) = c + 360 * j  BY WrapTakesOff
<1>2. wrap(c) \in Int  BY WrapTakesOff
<1>3. wrap(c) + d \in Int /\ c + d \in Int /\ wrap(c) + d = c + d + 360 * j  BY <1>1, <1>2
<1>. QED  BY <1>3, WrapsAgree

LEMMA WrapSmall ==
  ASSUME NEW d \in -179 .. 180
  PROVE  wrap(d) = d
<1>1. d \in Int /\ d = d + 360 * 0 /\ 0 \in Int  OBVIOUS
<1>. QED  BY <1>1, WrapIs

-----------------------------------------------------------------------------
(* Turns.                                                                   *)

LEMMA TurnHolds ==
  ASSUME NEW c \in Int, NEW m \in Int
  PROVE  (turn_total(c, m) - m) % 360 = 0 /\ turn_total(c, m) - c \in -179 .. 180
<1>1. m - c \in Int  OBVIOUS
<1>2. PICK k \in Int : wrap(m - c) = m - c + 360 * k  BY <1>1, WrapTakesOff
<1>3. wrap(m - c) \in -179 .. 180  BY <1>1, WrapTakesOff
<1>4. turn_total(c, m) = m + 360 * k  BY <1>2 DEF turn_total
<1>5. (360 * k) % 360 = 0  OBVIOUS
<1>6. turn_total(c, m) - m = 360 * k  BY <1>4
<1>7. turn_total(c, m) - c = wrap(m - c)  BY <1>2, <1>4
<1>. QED  BY <1>3, <1>5, <1>6, <1>7

-----------------------------------------------------------------------------
(* Bearings.                                                                *)

\* A heading within 44 degrees of a quarter's bearing is nearest to it.
LEMMA OthersAreFar ==
  ASSUME NEW h \in Int, NEW q \in Bearings, NEW r \in Bearings, r # q, Abs(wrap(h - q)) <= 44
  PROVE  Abs(wrap(h - r)) >= 46
<1>1. q \in Int /\ r \in Int /\ q - r \in {90, -90, 180, -180, 270, -270}  BY DEF Bearings
<1>. DEFINE w == wrap(h - q)
<1>2. w \in Int /\ -44 <= w /\ w <= 44  BY <1>1, WrapTakesOff DEF Abs
<1>3. wrap(h - r) = wrap(w + (q - r))
  <2>1. h - q \in Int /\ q - r \in Int /\ (h - q) + (q - r) = h - r  BY <1>1
  <2>. QED  BY <2>1, WrapSum
<1>. HIDE DEF w
<1>4. \E v \in -179 .. 180, k \in Int : v = w + (q - r) + 360 * k /\ (v >= 46 \/ v <= -46)
  <2>1. CASE q - r = 90
    <3>1. w + 90 \in -179 .. 180 /\ w + 90 = w + (q - r) + 360 * 0 /\ w + 90 >= 46 /\ 0 \in Int  BY <1>1, <1>2, <2>1
    <3>. QED  BY <3>1
  <2>2. CASE q - r = -90
    <3>1. w - 90 \in -179 .. 180 /\ w - 90 = w + (q - r) + 360 * 0 /\ w - 90 <= -46 /\ 0 \in Int  BY <1>1, <1>2, <2>2
    <3>. QED  BY <3>1
  <2>3. CASE q - r = 180 /\ w <= 0
    <3>1. w + 180 \in -179 .. 180 /\ w + 180 = w + (q - r) + 360 * 0 /\ w + 180 >= 46 /\ 0 \in Int  BY <1>1, <1>2, <2>3
    <3>. QED  BY <3>1
  <2>4. CASE q - r = 180 /\ w > 0
    <3>1. w - 180 \in -179 .. 180 /\ w - 180 = w + (q - r) + 360 * (-1) /\ w - 180 <= -46 /\ -1 \in Int  BY <1>1, <1>2, <2>4
    <3>. QED  BY <3>1
  <2>5. CASE q - r = -180 /\ w <= 0
    <3>1. w + 180 \in -179 .. 180 /\ w + 180 = w + (q - r) + 360 * 1 /\ w + 180 >= 46 /\ 1 \in Int  BY <1>1, <1>2, <2>5
    <3>. QED  BY <3>1
  <2>6. CASE q - r = -180 /\ w > 0
    <3>1. w - 180 \in -179 .. 180 /\ w - 180 = w + (q - r) + 360 * 0 /\ w - 180 <= -46 /\ 0 \in Int  BY <1>1, <1>2, <2>6
    <3>. QED  BY <3>1
  <2>7. CASE q - r = 270
    <3>1. w - 90 \in -179 .. 180 /\ w - 90 = w + (q - r) + 360 * (-1) /\ w - 90 <= -46 /\ -1 \in Int  BY <1>1, <1>2, <2>7
    <3>. QED  BY <3>1
  <2>8. CASE q - r = -270
    <3>1. w + 90 \in -179 .. 180 /\ w + 90 = w + (q - r) + 360 * 1 /\ w + 90 >= 46 /\ 1 \in Int  BY <1>1, <1>2, <2>8
    <3>. QED  BY <3>1
  <2>. QED  BY <1>1, <1>2, <2>1, <2>2, <2>3, <2>4, <2>5, <2>6, <2>7, <2>8
<1>5. PICK v \in -179 .. 180, k \in Int : v = w + (q - r) + 360 * k /\ (v >= 46 \/ v <= -46)
  BY <1>4
<1>6. wrap(w + (q - r)) = v
  <2>1. w + (q - r) \in Int  BY <1>1, <1>2
  <2>. QED  BY <1>5, <2>1, WrapIs
<1>. QED  BY <1>3, <1>5, <1>6 DEF Abs

LEMMA NearestIs ==
  ASSUME NEW h \in Int, NEW q \in Bearings, Abs(wrap(h - q)) <= 44
  PROVE  Nearest(h) = q
<1>. DEFINE P(b) == \A r \in Bearings : Abs(wrap(h - b)) <= Abs(wrap(h - r))
<1>0. \A b \in Bearings : Abs(wrap(h - b)) \in Nat
  <2>. SUFFICES ASSUME NEW b \in Bearings PROVE Abs(wrap(h - b)) \in Nat  OBVIOUS
  <2>1. h - b \in Int  BY DEF Bearings
  <2>2. wrap(h - b) \in Int  BY <2>1, WrapTakesOff
  <2>. QED  BY <2>2 DEF Abs
<1>1. P(q)
  <2>. SUFFICES ASSUME NEW r \in Bearings PROVE Abs(wrap(h - q)) <= Abs(wrap(h - r))  OBVIOUS
  <2>1. CASE r = q  BY <1>0, <2>1
  <2>2. CASE r # q
    <3>1. Abs(wrap(h - r)) >= 46  BY <2>2, OthersAreFar
    <3>. QED  BY <1>0, <3>1
  <2>. QED  BY <2>1, <2>2
<1>2. ASSUME NEW r \in Bearings, r # q PROVE ~P(r)
  <2>1. Abs(wrap(h - r)) >= 46  BY <1>2, OthersAreFar
  <2>. QED  BY <1>0, <2>1
<1>. QED  BY <1>1, <1>2 DEF Nearest

-----------------------------------------------------------------------------
(* Mounts.                                                                  *)

LEMMA GeometryConstants ==
  /\ Turns \subseteq Int
  /\ Poses \subseteq [x : Int, y : Int, h : Int]
  /\ Goals \subseteq [x : Int, y : Int, h : Bearings]
  /\ Dots \in Nat /\ WindowRadius \in Nat /\ MaxRows \in Nat
  /\ Places \subseteq [1 .. Dots -> Nat]
  /\ \A name \in DOMAIN MountsFile.robots : MountsFile.robots[name].tag \in MountTags
  /\ MountsFile.field \in Seq([tag : MountTags, x : Int, complete : BOOLEAN])
  /\ Nothing \notin [x : Int, yaw : Int]
  /\ Levers \subseteq Int /\ Skews \subseteq -20 .. 20
BY GeometryAssumption

LEMMA LeastIs ==
  ASSUME NEW S \in SUBSET Nat, S # {}
  PROVE  Least(S) \in S /\ \A y \in S : Least(S) <= y
<1>1. \E x \in S : \A y \in S : x <= y  BY LeastOf
<1>. QED  BY <1>1 DEF Least

\* Every furniture entry before the first incomplete one is registered.
LEMMA FurnishHolds ==
  ASSUME NEW mounts, DOMAIN mounts = MountTags, mounts = [tag \in MountTags |-> mounts[tag]]
  PROVE  LET after == Furnish(mounts, MountsFile.field)
             own == {MountsFile.field[i].tag : i \in DOMAIN MountsFile.field}
         IN /\ DOMAIN after.mounts = MountTags
            /\ after.mounts = [tag \in MountTags |-> after.mounts[tag]]
            /\ \A tag \in MountTags \ own : after.mounts[tag] = mounts[tag]
            /\ after.status \in {"registered", "KeyError"}
            /\ after.status = "registered" => \A tag \in own :
                 after.mounts[tag] \in {Mount(MountsFile.field[i].x, 0) : i \in DOMAIN MountsFile.field}
<1>. DEFINE tags == MountsFile.field
            bad == {i \in DOMAIN tags : ~HasFields(tags[i])}
            done == IF bad = {} THEN Len(tags) ELSE Least(bad) - 1
            of(tag) == {i \in 1 .. done : tags[i].tag = tag}
            after == Furnish(mounts, tags)
            own == {tags[i].tag : i \in DOMAIN tags}
<1>0. tags \in Seq([tag : MountTags, x : Int, complete : BOOLEAN])  BY GeometryConstants
<1>1. DOMAIN tags = 1 .. Len(tags) /\ Len(tags) \in Nat  BY <1>0
<1>2. done \in Int /\ done <= Len(tags)
  <2>1. CASE bad = {}  BY <1>1, <2>1
  <2>2. CASE bad # {}
    <3>1. bad \in SUBSET Nat  BY <1>1
    <3>. HIDE DEF bad
    <3>2. Least(bad) \in bad  BY <2>2, <3>1, LeastIs
    <3>. USE DEF bad
    <3>3. Least(bad) \in 1 .. Len(tags)  BY <1>1, <3>2
    <3>. HIDE DEF bad
    <3>. QED  BY <1>1, <2>2, <3>3
  <2>. QED  BY <2>1, <2>2
<1>3. 1 .. done \subseteq DOMAIN tags
  <2>. DEFINE d == done
  <2>1. d \in Int /\ d <= Len(tags)  BY <1>2
  <2>. HIDE DEF d
  <2>2. 1 .. d \subseteq 1 .. Len(tags)  BY <1>1, <2>1
  <2>. QED  BY <1>1, <2>2 DEF d
<1>4. /\ after.mounts = [tag \in MountTags |->
                           IF of(tag) = {} THEN mounts[tag] ELSE Mount(tags[Least(of(tag))].x, 0)]
      /\ after.status = IF bad = {} THEN "registered" ELSE "KeyError"
  BY DEF Furnish
<1>. HIDE DEF after
<1>5. ASSUME NEW tag \in MountTags \ own PROVE after.mounts[tag] = mounts[tag]
  <2>1. of(tag) = {}  BY <1>3
  <2>. QED  BY <1>4, <2>1
<1>6. ASSUME bad = {}, NEW tag \in own
      PROVE  after.mounts[tag] \in {Mount(tags[i].x, 0) : i \in DOMAIN tags}
  <2>1. PICK i \in DOMAIN tags : tags[i].tag = tag  OBVIOUS
  <2>2. i \in of(tag) /\ of(tag) \in SUBSET Nat  BY <1>1, <1>6, <2>1
  <2>. DEFINE S == of(tag)
  <2>. HIDE DEF S
  <2>3. Least(S) \in S  BY <2>2, LeastIs DEF S
  <2>. DEFINE l == Least(S)
  <2>. HIDE DEF l
  <2>6. S \subseteq DOMAIN tags /\ S # {}  BY <1>3, <2>2 DEF S
  <2>7. l \in DOMAIN tags  BY <2>3, <2>6 DEF l
  <2>4. tags[i] \in [tag : MountTags, x : Int, complete : BOOLEAN]
    <3>. DEFINE R == [tag : MountTags, x : Int, complete : BOOLEAN]
                v == tags
    <3>1. v \in Seq(R) /\ i \in DOMAIN v  BY <1>0, <2>1
    <3>. HIDE DEF R, v
    <3>2. v[i] \in R  BY <3>1
    <3>. QED  BY <3>2 DEF R, v
  <2>5. tag \in MountTags  BY <2>1, <2>4
  <2>8. after.mounts[tag] = IF S = {} THEN mounts[tag] ELSE Mount(tags[Least(S)].x, 0)
    BY <1>4, <2>5, Zenon DEF S
  <2>9. after.mounts[tag] = Mount(tags[l].x, 0)  BY <2>6, <2>8 DEF l
  <2>. QED  BY <2>7, <2>9
<1>. QED  BY <1>4, <1>5, <1>6 DEF after

\* What registering one target does, as MountsAreTheirOwn has it.
OwnTags(target) ==
    IF target = "field" THEN {MountsFile.field[i].tag : i \in DOMAIN MountsFile.field}
    ELSE IF target \in DOMAIN MountsFile.robots THEN {MountsFile.robots[target].tag} ELSE {}
RegisteredWell(before, target, after) ==
    /\ after.mounts = [tag \in MountTags |-> after.mounts[tag]]
    /\ \A tag \in MountTags \ OwnTags(target) : after.mounts[tag] = before[tag]
    /\ after.status # "registered" => after.mounts = before \/ (target = "field" /\ OwnTags(target) # {})
    /\ after.status = "registered" =>
         OwnTags(target) # {} /\ \A tag \in OwnTags(target) : after.mounts[tag] \in
             IF target = "field" THEN {Mount(MountsFile.field[i].x, 0) : i \in DOMAIN MountsFile.field}
             ELSE {Mount(MountsFile.robots[target].x, MountsFile.robots[target].residual - 90)}

LEMMA RegisterHolds ==
  ASSUME NEW mounts, mounts = [tag \in MountTags |-> mounts[tag]], NEW target
  PROVE  RegisteredWell(mounts, target, register(mounts, MountsFile, target))
<1>. DEFINE after == register(mounts, MountsFile, target)
            own == OwnTags(target)
<1>0. DOMAIN mounts = MountTags  OBVIOUS
<1>1. CASE target = "field" /\ MountsFile.field = <<>>
  <2>1. after = [mounts |-> mounts, status |-> "SystemExit"]  BY <1>1 DEF register
  <2>2. RegisteredWell(mounts, target, [mounts |-> mounts, status |-> "SystemExit"])  BY <1>0 DEF RegisteredWell
  <2>. QED  BY <2>1, <2>2
<1>2. CASE target = "field" /\ MountsFile.field # <<>>
  <2>1. after = Furnish(mounts, MountsFile.field)  BY <1>2 DEF register
  <2>2. 1 \in DOMAIN MountsFile.field
    <3>1. MountsFile.field \in Seq([tag : MountTags, x : Int, complete : BOOLEAN])  BY GeometryConstants
    <3>. QED  BY <1>2, <3>1
  <2>3. own = {MountsFile.field[i].tag : i \in DOMAIN MountsFile.field} /\ own # {}  BY <1>2, <2>2 DEF OwnTags
  <2>. DEFINE f == Furnish(mounts, MountsFile.field)
              all == {MountsFile.field[i].tag : i \in DOMAIN MountsFile.field}
  <2>4. /\ f.mounts = [tag \in MountTags |-> f.mounts[tag]]
        /\ \A tag \in MountTags \ all : f.mounts[tag] = mounts[tag]
        /\ f.status = "registered" => \A tag \in all :
             f.mounts[tag] \in {Mount(MountsFile.field[i].x, 0) : i \in DOMAIN MountsFile.field}
    BY <1>0, FurnishHolds
  <2>. HIDE DEF after, own, f, all
  <2>5. OwnTags(target) = all /\ all # {}  BY <2>3 DEF own, all
  <2>6. RegisteredWell(mounts, target, f)  BY <1>2, <2>4, <2>5 DEF RegisteredWell
  <2>. QED  BY <2>1, <2>6 DEF after, f
<1>3. CASE target # "field" /\ target \notin DOMAIN MountsFile.robots
  <2>1. after = [mounts |-> mounts, status |-> "SystemExit"]  BY <1>3 DEF register, KnownRobot
  <2>2. RegisteredWell(mounts, target, [mounts |-> mounts, status |-> "SystemExit"])  BY <1>0 DEF RegisteredWell
  <2>. QED  BY <2>1, <2>2
<1>4. CASE target # "field" /\ target \in DOMAIN MountsFile.robots
  <2>. DEFINE entry == MountsFile.robots[target]
              given == Mount(entry.x, mount_yaw(entry.residual))
  <2>1. entry.tag \in MountTags /\ own = {entry.tag}  BY <1>4, GeometryConstants DEF OwnTags
  <2>2. CASE ~HasFields(entry)
    <3>1. after = [mounts |-> mounts, status |-> "KeyError"]  BY <1>4, <2>2 DEF register, KnownRobot
    <3>2. RegisteredWell(mounts, target, [mounts |-> mounts, status |-> "KeyError"])  BY <1>0 DEF RegisteredWell
    <3>. QED  BY <3>1, <3>2
  <2>3. CASE HasFields(entry)
    <3>1. after = [mounts |-> [mounts EXCEPT ![entry.tag] = given], status |-> "registered"]
      BY <1>4, <2>3 DEF register, KnownRobot
    <3>2. given = Mount(entry.x, entry.residual - 90)  BY DEF mount_yaw
    <3>. HIDE DEF given, after
    <3>3. after.mounts = [mounts EXCEPT ![entry.tag] = given] /\ after.status = "registered"  BY <3>1
    <3>4. after.mounts[entry.tag] = given /\ \A tag \in MountTags \ {entry.tag} : after.mounts[tag] = mounts[tag]
      BY <1>0, <2>1, <3>3
    <3>5. after.mounts = [tag \in MountTags |-> after.mounts[tag]]  BY <1>0, <3>3
    <3>6. RegisteredWell(mounts, target, after)  BY <1>4, <2>1, <3>2, <3>3, <3>4, <3>5 DEF RegisteredWell
    <3>. QED  BY <3>6 DEF after
  <2>. QED  BY <2>2, <2>3
<1>. QED  BY <1>1, <1>2, <1>3, <1>4

-----------------------------------------------------------------------------
(* Poses.                                                                   *)

LEMMA WrapDifference ==
  ASSUME NEW c \in Int, NEW d \in Int
  PROVE  wrap(c - wrap(d)) = wrap(c - d)
<1>1. PICK j \in Int : wrap(d) = d + 360 * j  BY WrapTakesOff
<1>. DEFINE v == wrap(d)
<1>2. v \in Int /\ v = d + 360 * j  BY <1>1, WrapTakesOff
<1>. HIDE DEF v
<1>. DEFINE k == -j
<1>3. k \in Int /\ c - v \in Int /\ c - d \in Int /\ c - v = c - d + 360 * k  BY <1>1, <1>2
<1>. HIDE DEF k
<1>4. wrap(c - v) = wrap(c - d)  BY <1>3, WrapsAgree
<1>. QED  BY <1>4 DEF v

\* Within a small angle of a bearing, on either side of the seam.
Within(h, q, d) == wrap(h - q) \in -44 .. 44 /\ wrap(h - q) + d \in -44 .. 44
TurnedNear(h, q, d) == wrap(h + d) \in Int /\ Nearest(wrap(h + d)) = q

LEMMA NearBearing ==
  ASSUME NEW h \in Int, NEW q \in Bearings, NEW d \in Int, Within(h, q, d)
  PROVE  TurnedNear(h, q, d)
<1>. DEFINE e == wrap(h - q)
<1>0. e \in -44 .. 44 /\ e + d \in -44 .. 44 /\ wrap(h - q) = e  BY DEF Within
<1>. HIDE DEF e
<1>1. q \in Int /\ h + d \in Int  BY DEF Bearings
<1>2. wrap(h + d) \in Int  BY <1>1, WrapTakesOff
<1>3. wrap(wrap(h + d) - q) = wrap((h + d) - q)
  <2>1. -q \in Int /\ (h + d) + (-q) = (h + d) - q /\ wrap(h + d) + (-q) = wrap(h + d) - q  BY <1>1, <1>2
  <2>. QED  BY <1>1, <2>1, WrapSum
<1>4. wrap((h + d) - q) = wrap(e + d)
  <2>1. h - q \in Int /\ (h - q) + d = (h + d) - q  BY <1>1
  <2>2. wrap(wrap(h - q) + d) = wrap((h - q) + d)  BY <2>1, WrapSum
  <2>. QED  BY <1>0, <2>1, <2>2
<1>5. e + d \in -179 .. 180  BY <1>0
<1>6. wrap(e + d) = e + d  BY <1>5, WrapSmall
<1>7. wrap(wrap(h + d) - q) = e + d  BY <1>3, <1>4, <1>6
<1>8. Abs(wrap(wrap(h + d) - q)) <= 44
  <2>. DEFINE v == e + d
  <2>1. v \in -44 .. 44 /\ wrap(wrap(h + d) - q) = v  BY <1>0, <1>7
  <2>. HIDE DEF v
  <2>. QED  BY <2>1 DEF Abs
<1>. QED  BY <1>2, <1>7, <1>8, NearestIs DEF TurnedNear

Posed == [x : Int, y : Int, h : Int]

LEMMA UnitSteps ==
  ASSUME NEW q \in Bearings
  PROVE  Cos(q) \in {-1, 0, 1} /\ Sin(q) \in {-1, 0, 1}
BY DEF Bearings, Cos, Sin

LEMMA AheadIs ==
  ASSUME NEW pose \in Posed, NEW d \in Int, NEW q \in Bearings, Nearest(pose.h) = q
  PROVE  /\ Ahead(pose, d) \in Posed
         /\ Ahead(pose, d).x = pose.x + d * Cos(q)
         /\ Ahead(pose, d).y = pose.y + d * Sin(q)
         /\ Ahead(pose, d).h = pose.h
<1>. DEFINE c == Cos(q)
            s == Sin(q)
            a == Ahead(pose, d)
<1>1. c \in Int /\ s \in Int  BY UnitSteps
<1>2. a = [pose EXCEPT !.x = @ + d * c, !.y = @ + d * s]  BY DEF Ahead
<1>. HIDE DEF c, s, a
<1>3. d * c \in Int /\ d * s \in Int  BY <1>1
<1>. DEFINE dx == d * c
            dy == d * s
<1>4. a = [pose EXCEPT !.x = @ + dx, !.y = @ + dy] /\ dx \in Int /\ dy \in Int  BY <1>2, <1>3
<1>. HIDE DEF dx, dy
<1>5. pose.x \in Int /\ pose.y \in Int /\ pose.h \in Int  BY DEF Posed
<1>6. a = [x |-> pose.x + dx, y |-> pose.y + dy, h |-> pose.h]  BY <1>4 DEF Posed
<1>7. a \in Posed /\ a.x = pose.x + dx /\ a.y = pose.y + dy /\ a.h = pose.h  BY <1>4, <1>5, <1>6 DEF Posed
<1>. QED  BY <1>7 DEF a, dx, dy, c, s

Glimpse(p, e, at, skew) == RawTag([p EXCEPT !.h = wrap(@ + e)], at, skew)
Facing(p, q) == Abs(wrap(p.h - q)) <= 1
SeenWell(p, e, at, skew, m, lever) ==
    LET raw == Glimpse(p, e, at, skew)
        seen == Reported(raw, Mount(m, mount_yaw(skew)))
        centre == Ahead(seen, -lever)
    IN /\ centre \in Posed /\ centre.x = p.x /\ centre.y = p.y
       /\ raw.h = wrap(p.h + e - 90 - skew)
       /\ seen.h = wrap(p.h + e - 2 * skew)

\* What the camera sees of a tag, and what the daemon makes of it.
LEMMA SeenIs ==
  ASSUME NEW p \in Posed, NEW q \in Bearings, Facing(p, q), NEW e \in -1 .. 1,
         NEW at \in Int, NEW skew \in -20 .. 20, NEW m \in Int, NEW lever \in Int, at - m - lever = 0
  PROVE  SeenWell(p, e, at, skew, m, lever)
<1>. DEFINE robot == [p EXCEPT !.h = wrap(@ + e)]
            ahead == Ahead(robot, at)
            raw == RawTag(robot, at, skew)
            turned == [raw EXCEPT !.h = wrap(@ - (skew - 90))]
            seen == Reported(raw, Mount(m, mount_yaw(skew)))
            centre == Ahead(seen, -lever)
            h0 == p.h
            off == wrap(p.h - q)
            c == Cos(q)
            s == Sin(q)
<1>0. h0 \in Int /\ c \in {-1, 0, 1} /\ s \in {-1, 0, 1} /\ q \in Int  BY UnitSteps DEF Posed, Bearings
<1>20. off \in -1 .. 1
  <2>1. h0 - q \in Int  BY <1>0
  <2>2. off \in Int  BY <2>1, WrapTakesOff
  <2>3. Abs(off) <= 1  BY DEF Facing
  <2>. HIDE DEF off
  <2>. QED  BY <2>2, <2>3 DEF Abs
<1>1. /\ wrap(h0 + e) \in Int /\ Nearest(wrap(h0 + e)) = q
      /\ wrap(h0 + (e - 2 * skew)) \in Int /\ Nearest(wrap(h0 + (e - 2 * skew))) = q
  <2>. DEFINE d == e - 2 * skew
  <2>1. e \in Int /\ d \in Int  OBVIOUS
  <2>2. off + e \in -44 .. 44 /\ off + d \in -44 .. 44 /\ off \in -44 .. 44
    <3>. HIDE DEF off
    <3>. QED  BY <1>20
  <2>5. Within(h0, q, e) /\ Within(h0, q, d)
    <3>. HIDE DEF h0, d
    <3>. QED  BY <2>2 DEF Within, h0
  <2>. HIDE DEF h0, d
  <2>3. TurnedNear(h0, q, e) /\ TurnedNear(h0, q, d)  BY <1>0, <2>1, <2>5, NearBearing
  <2>4. wrap(h0 + e) \in Int /\ Nearest(wrap(h0 + e)) = q /\ wrap(h0 + d) \in Int /\ Nearest(wrap(h0 + d)) = q
    BY <2>3 DEF TurnedNear
  <2>. QED  BY <2>4 DEF d
<1>2. robot \in Posed /\ robot.x = p.x /\ robot.y = p.y /\ robot.h = wrap(h0 + e)
  BY <1>1 DEF Posed
<1>3. /\ ahead \in Posed /\ ahead.x = p.x + at * c /\ ahead.y = p.y + at * s /\ ahead.h = wrap(h0 + e)
  <2>. HIDE DEF robot
  <2>1. robot \in Posed /\ Nearest(robot.h) = q  BY <1>1, <1>2
  <2>2. /\ Ahead(robot, at) \in Posed /\ Ahead(robot, at).x = robot.x + at * Cos(q)
        /\ Ahead(robot, at).y = robot.y + at * Sin(q) /\ Ahead(robot, at).h = robot.h
    BY <2>1, AheadIs
  <2>. QED  BY <1>2, <2>2
<1>4. wrap(wrap(h0 + e) - 90 - skew) = wrap(h0 + e - 90 - skew) /\ wrap(h0 + e - 90 - skew) \in Int
  <2>. HIDE DEF h0
  <2>1. -90 - skew \in Int /\ h0 + e \in Int /\ h0 + e - 90 - skew \in Int  BY <1>0
  <2>. DEFINE w == wrap(h0 + e)
  <2>2. w \in Int /\ wrap(w + (-90 - skew)) = wrap((h0 + e) + (-90 - skew))  BY <1>1, <2>1, WrapSum
  <2>. HIDE DEF w
  <2>3. w + (-90 - skew) = w - 90 - skew /\ (h0 + e) + (-90 - skew) = h0 + e - 90 - skew  BY <1>0, <2>2
  <2>4. wrap(w - 90 - skew) = wrap(h0 + e - 90 - skew)  BY <2>2, <2>3
  <2>. QED  BY <2>1, <2>4, WrapTakesOff DEF w
<1>5. raw \in Posed /\ raw.x = p.x + at * c /\ raw.y = p.y + at * s /\ raw.h = wrap(h0 + e - 90 - skew)
  <2>1. raw = [ahead EXCEPT !.h = wrap(@ - 90 - skew)]  BY DEF RawTag
  <2>. HIDE DEF ahead, raw
  <2>2. raw = [ahead EXCEPT !.h = wrap(h0 + e - 90 - skew)]  BY <1>3, <1>4, <2>1
  <2>. QED  BY <1>3, <1>4, <2>2 DEF Posed
<1>6. wrap(raw.h - (skew - 90)) = wrap(h0 + (e - 2 * skew))
  <2>. HIDE DEF raw, h0
  <2>. DEFINE w == h0 + e - 90 - skew
              d == -(skew - 90)
  <2>1. w \in Int /\ d \in Int /\ w + d = h0 + (e - 2 * skew) /\ raw.h - (skew - 90) = wrap(w) + d
    BY <1>0, <1>4, <1>5
  <2>. HIDE DEF w, d
  <2>. QED  BY <2>1, WrapSum
<1>7. /\ turned \in Posed /\ turned.x = raw.x /\ turned.y = raw.y /\ turned.h = wrap(h0 + (e - 2 * skew))
  <2>. HIDE DEF raw, h0
  <2>1. turned = [raw EXCEPT !.h = wrap(h0 + (e - 2 * skew))]  BY <1>6
  <2>. HIDE DEF turned
  <2>. QED  BY <1>1, <1>5, <2>1 DEF Posed
<1>8. seen = Ahead(turned, -m)
  <2>1. Mount(m, skew - 90) # Nothing
    <3>1. Mount(m, skew - 90) \in [x : Int, yaw : Int]  BY DEF Mount
    <3>. QED  BY <3>1, GeometryConstants
  <2>2. mount_yaw(skew) = skew - 90  BY DEF mount_yaw
  <2>3. Mount(m, skew - 90).x = m /\ Mount(m, skew - 90).yaw = skew - 90  BY DEF Mount
  <2>. HIDE DEF raw
  <2>. QED  BY <2>1, <2>2, <2>3 DEF Reported
<1>9. /\ seen \in Posed /\ seen.h = wrap(h0 + (e - 2 * skew))
      /\ seen.x = p.x + at * c + (-m) * c /\ seen.y = p.y + at * s + (-m) * s
  <2>. HIDE DEF turned, raw, h0
  <2>1. turned \in Posed /\ Nearest(turned.h) = q /\ -m \in Int  BY <1>1, <1>7
  <2>2. /\ Ahead(turned, -m) \in Posed /\ Ahead(turned, -m).x = turned.x + (-m) * Cos(q)
        /\ Ahead(turned, -m).y = turned.y + (-m) * Sin(q) /\ Ahead(turned, -m).h = turned.h
    BY <2>1, AheadIs
  <2>. QED  BY <1>5, <1>7, <1>8, <2>2
<1>10. /\ centre \in Posed
       /\ centre.x = p.x + at * c + (-m) * c + (-lever) * c
       /\ centre.y = p.y + at * s + (-m) * s + (-lever) * s
  <2>. HIDE DEF seen, h0
  <2>1. seen \in Posed /\ Nearest(seen.h) = q /\ -lever \in Int  BY <1>1, <1>9
  <2>2. /\ Ahead(seen, -lever) \in Posed
        /\ Ahead(seen, -lever).x = seen.x + (-lever) * Cos(q)
        /\ Ahead(seen, -lever).y = seen.y + (-lever) * Sin(q)
    BY <2>1, AheadIs
  <2>. QED  BY <1>9, <2>2
<1>11. /\ p.x + at * c + (-m) * c + (-lever) * c = p.x
       /\ p.y + at * s + (-m) * s + (-lever) * s = p.y
  <2>1. p.x \in Int /\ p.y \in Int  BY DEF Posed
  <2>. HIDE DEF c, s
  <2>. QED  BY <1>0, <2>1
<1>12. h0 + (e - 2 * skew) = p.h + e - 2 * skew  BY <1>0
<1>. HIDE DEF raw, seen, centre
<1>13. raw.h = wrap(p.h + e - 90 - skew) /\ seen.h = wrap(p.h + e - 2 * skew)  BY <1>5, <1>9, <1>12
<1>14. centre.x = p.x /\ centre.y = p.y  BY <1>10, <1>11
<1>. QED  BY <1>10, <1>13, <1>14 DEF raw, seen, centre, Glimpse, SeenWell

\* The mean of two samples.
LEMMA TwoSamples ==
  ASSUME NEW a, NEW b, NEW lever \in Int,
         Ahead(a, -lever) \in Posed, Ahead(b, -lever) \in Posed
  PROVE  pose_from_registered_samples(<<a, b>>, lever) =
           [x |-> (Ahead(a, -lever).x + Ahead(b, -lever).x) \div 2,
            y |-> (Ahead(a, -lever).y + Ahead(b, -lever).y) \div 2, h |-> MeanHeading(<<a, b>>)]
<1>. DEFINE both == <<a, b>>
            centre(i) == Ahead(both[i], -lever)
            SumX(f) == f = [i \in 0 .. Len(both) |-> IF i = 0 THEN 0 ELSE f[i - 1] + centre(i).x]
            SumY(f) == f = [i \in 0 .. Len(both) |-> IF i = 0 THEN 0 ELSE f[i - 1] + centre(i).y]
            sx == CHOOSE f : SumX(f)
            sy == CHOOSE f : SumY(f)
            x1 == Ahead(a, -lever).x
            x2 == Ahead(b, -lever).x
            y1 == Ahead(a, -lever).y
            y2 == Ahead(b, -lever).y
<1>0. x1 \in Int /\ x2 \in Int /\ y1 \in Int /\ y2 \in Int  BY DEF Posed
<1>1. centre(1).x = x1 /\ centre(2).x = x2 /\ centre(1).y = y1 /\ centre(2).y = y2 /\ Len(both) = 2
  OBVIOUS
<1>2. both # <<>>  OBVIOUS
<1>3. pose_from_registered_samples(both, lever) =
        [x |-> sx[Len(both)] \div Len(both), y |-> sy[Len(both)] \div Len(both), h |-> MeanHeading(both)]
  BY <1>2 DEF pose_from_registered_samples
<1>. HIDE DEF centre, both, x1, x2, y1, y2
<1>4. \E f : SumX(f)
  <2>. DEFINE f == [i \in 0 .. 2 |-> IF i = 0 THEN 0 ELSE IF i = 1 THEN x1 ELSE x1 + x2]
  <2>1. f = [i \in 0 .. 2 |-> IF i = 0 THEN 0 ELSE f[i - 1] + centre(i).x]  BY <1>0, <1>1
  <2>2. SumX(f)  BY <1>1, <2>1
  <2>. QED  BY <2>2
<1>5. \E f : SumY(f)
  <2>. DEFINE f == [i \in 0 .. 2 |-> IF i = 0 THEN 0 ELSE IF i = 1 THEN y1 ELSE y1 + y2]
  <2>1. f = [i \in 0 .. 2 |-> IF i = 0 THEN 0 ELSE f[i - 1] + centre(i).y]  BY <1>0, <1>1
  <2>2. SumY(f)  BY <1>1, <2>1
  <2>. QED  BY <2>2
<1>6. SumX(sx) /\ SumY(sy)  BY <1>4, <1>5
<1>. HIDE DEF sx, sy
<1>7. sx[2] = x1 + x2 /\ sy[2] = y1 + y2
  <2>1. sx[0] = 0 /\ sx[1] = sx[0] + centre(1).x /\ sx[2] = sx[1] + centre(2).x  BY <1>1, <1>6
  <2>2. sy[0] = 0 /\ sy[1] = sy[0] + centre(1).y /\ sy[2] = sy[1] + centre(2).y  BY <1>1, <1>6
  <2>. QED  BY <1>0, <1>1, <2>1, <2>2
<1>. QED  BY <1>1, <1>3, <1>7 DEF both, x1, x2, y1, y2

SeeInputs(p, q, at, skew, inMount, noise) ==
    /\ p \in Posed /\ q \in Bearings /\ Abs(wrap(p.h - q)) <= 1
    /\ at \in Int /\ skew \in -20 .. 20 /\ inMount \in {0, 1} /\ noise \in {-1, 0, 1}
SeenRight(p, at, skew, inMount, noise) ==
    LET mount == Mount(inMount * at, mount_yaw(skew))
        seen(e) == RawTag([p EXCEPT !.h = wrap(@ + e)], at, skew)
        pose == pose_from_registered_samples(<<Reported(seen(noise), mount), Reported(seen(-noise), mount)>>,
                                             (1 - inMount) * at)
        raw == robot_heading_from_tag_yaw(Reported(seen(0), Nothing).h, skew)
    IN /\ pose.x = p.x /\ pose.y = p.y
       /\ Abs(wrap(pose.h - p.h)) <= 2 * Abs(skew)
       /\ raw = wrap(p.h)

LEMMA SeeHolds ==
  ASSUME NEW p, NEW q, NEW at, NEW skew, NEW inMount, NEW noise,
         SeeInputs(p, q, at, skew, inMount, noise)
  PROVE  SeenRight(p, at, skew, inMount, noise)
<1>. DEFINE m == inMount * at
            lever == (1 - inMount) * at
            mount == Mount(m, mount_yaw(skew))
            seen(e) == RawTag([p EXCEPT !.h = wrap(@ + e)], at, skew)
            a == Reported(seen(noise), mount)
            b == Reported(seen(-noise), mount)
            pose == pose_from_registered_samples(<<a, b>>, lever)
            raw == robot_heading_from_tag_yaw(Reported(seen(0), Nothing).h, skew)
            h0 == p.h
<1>0. /\ p \in Posed /\ q \in Bearings /\ Abs(wrap(p.h - q)) <= 1
      /\ at \in Int /\ skew \in -20 .. 20 /\ inMount \in {0, 1} /\ noise \in {-1, 0, 1}
  BY DEF SeeInputs
<1>. USE <1>0
<1>1. m \in Int /\ lever \in Int /\ at - m - lever = 0
  <2>1. CASE inMount = 0
    <3>1. m = 0 /\ lever = at  BY <2>1
    <3>. HIDE DEF m, lever
    <3>. QED  BY <3>1
  <2>2. CASE inMount = 1
    <3>1. m = at /\ lever = 0  BY <2>2
    <3>. HIDE DEF m, lever
    <3>. QED  BY <3>1
  <2>. QED  BY <2>1, <2>2
<1>2. h0 \in Int /\ p.x \in Int /\ p.y \in Int  BY DEF Posed
<1>4. noise \in -1 .. 1 /\ -noise \in -1 .. 1 /\ 0 \in -1 .. 1  OBVIOUS
<1>. HIDE DEF m, lever
<1>13. SeenWell(p, noise, at, skew, m, lever) /\ SeenWell(p, -noise, at, skew, m, lever) /\ SeenWell(p, 0, at, skew, m, lever)
  <2>1. Facing(p, q)  BY DEF Facing
  <2>. DEFINE minus == -noise
  <2>2. minus \in -1 .. 1  OBVIOUS
  <2>. HIDE DEF minus
  <2>3. SeenWell(p, minus, at, skew, m, lever)  BY <1>1, <2>1, <2>2, SeenIs
  <2>4. SeenWell(p, noise, at, skew, m, lever) /\ SeenWell(p, 0, at, skew, m, lever)  BY <1>1, <1>4, <2>1, SeenIs
  <2>. QED  BY <2>3, <2>4 DEF minus
<1>5. ASSUME NEW e, SeenWell(p, e, at, skew, m, lever)
      PROVE  /\ Ahead(Reported(seen(e), mount), -lever) \in Posed
             /\ seen(e).h = wrap(h0 + e - 90 - skew)
             /\ Reported(seen(e), mount).h = wrap(h0 + e - 2 * skew)
             /\ Ahead(Reported(seen(e), mount), -lever).x = p.x
             /\ Ahead(Reported(seen(e), mount), -lever).y = p.y
  BY <1>5 DEF SeenWell, Glimpse
<1>. HIDE DEF seen, mount
<1>7. pose = [x |-> (p.x + p.x) \div 2, y |-> (p.y + p.y) \div 2, h |-> MeanHeading(<<a, b>>)]
  <2>1. /\ Ahead(a, -lever).x = p.x /\ Ahead(a, -lever).y = p.y /\ Ahead(a, -lever) \in Posed
        /\ Ahead(b, -lever).x = p.x /\ Ahead(b, -lever).y = p.y /\ Ahead(b, -lever) \in Posed
    BY <1>5, <1>13
  <2>. HIDE DEF a, b
  <2>2. pose_from_registered_samples(<<a, b>>, lever) =
          [x |-> (p.x + p.x) \div 2, y |-> (p.y + p.y) \div 2, h |-> MeanHeading(<<a, b>>)]
    BY <1>1, <1>2, <2>1, TwoSamples
  <2>. QED  BY <2>2
<1>8. pose.x = p.x /\ pose.y = p.y /\ pose.h = MeanHeading(<<a, b>>)
  <2>1. (p.x + p.x) \div 2 = p.x /\ (p.y + p.y) \div 2 = p.y  BY <1>2
  <2>. HIDE DEF pose
  <2>. QED  BY <1>7, <2>1
<1>9. MeanHeading(<<a, b>>) = wrap(h0 - 2 * skew)
  <2>1. a.h = wrap(h0 + noise - 2 * skew) /\ b.h = wrap(h0 + (-noise) - 2 * skew)  BY <1>5, <1>13
  <2>2. MeanHeading(<<a, b>>) = wrap(a.h + wrap(b.h - a.h) \div 2)  BY DEF MeanHeading
  <2>. HIDE DEF a, b, h0
  <2>. DEFINE c == h0 + noise - 2 * skew
              d == h0 + (-noise) - 2 * skew
              t == -2 * noise
  <2>3. c \in Int /\ d \in Int /\ t \in -179 .. 180 /\ d - c = t /\ t \div 2 = -noise  BY <1>2
  <2>. HIDE DEF c, d
  <2>4. a.h = wrap(c) /\ b.h = wrap(d)  BY <2>1 DEF c, d
  <2>5. a.h \in Int /\ b.h \in Int  BY <2>3, <2>4, WrapTakesOff
  <2>6. wrap(b.h - a.h) = t
    <3>1. wrap(b.h - wrap(c)) = wrap(b.h - c)  BY <2>3, <2>5, WrapDifference
    <3>2. -c \in Int /\ wrap(d) + (-c) = b.h - c /\ d + (-c) = t  BY <2>3, <2>4, <2>5
    <3>3. wrap(wrap(d) + (-c)) = wrap(d + (-c))  BY <2>3, <3>2, WrapSum
    <3>4. wrap(t) = t  BY <2>3, WrapSmall
    <3>. QED  BY <2>4, <3>1, <3>2, <3>3, <3>4
  <2>7. wrap(b.h - a.h) \div 2 = -noise  BY <2>3, <2>6
  <2>8. wrap(wrap(c) + (-noise)) = wrap(c + (-noise))  BY <2>3, WrapSum
  <2>9. c + (-noise) = h0 - 2 * skew  BY <1>2 DEF c
  <2>. QED  BY <2>2, <2>4, <2>7, <2>8, <2>9
<1>10. Abs(wrap(pose.h - p.h)) <= 2 * Abs(skew)
  <2>. HIDE DEF pose, a, b, h0
  <2>. DEFINE c == h0 - 2 * skew
              t == -2 * skew
  <2>1. c \in Int /\ t \in -179 .. 180 /\ -h0 \in Int /\ c + (-h0) = t  BY <1>2
  <2>2. pose.h = wrap(c)  BY <1>8, <1>9
  <2>. HIDE DEF c
  <2>3. wrap(c) \in Int  BY <2>1, WrapTakesOff
  <2>4. wrap(wrap(c) + (-h0)) = wrap(c + (-h0))  BY <2>1, WrapSum
  <2>5. wrap(t) = t  BY <2>1, WrapSmall
  <2>6. wrap(c) + (-h0) = wrap(c) - h0  BY <1>2, <2>3
  <2>7. wrap(pose.h - h0) = t  BY <2>1, <2>2, <2>4, <2>5, <2>6
  <2>8. Abs(t) <= 2 * Abs(skew)  BY DEF Abs
  <2>. QED  BY <2>7, <2>8 DEF h0
<1>11. raw = wrap(h0)
  <2>1. Reported(seen(0), Nothing) = seen(0)  BY DEF Reported
  <2>2. seen(0).h = wrap(h0 + 0 - 90 - skew)  BY <1>5, <1>13
  <2>3. raw = wrap(seen(0).h + 90 + skew)  BY <2>1 DEF robot_heading_from_tag_yaw
  <2>. HIDE DEF h0, raw
  <2>. DEFINE c == h0 + 0 - 90 - skew
              d == 90 + skew
  <2>4. c \in Int /\ d \in Int /\ c + d = h0  BY <1>2
  <2>. HIDE DEF c, d
  <2>7. wrap(c) \in Int  BY <2>4, WrapTakesOff
  <2>5. wrap(wrap(c) + d) = wrap(c + d)  BY <2>4, WrapSum
  <2>6. wrap(c) + d = wrap(c) + 90 + skew  BY <2>7 DEF d
  <2>. QED  BY <2>2, <2>3, <2>4, <2>5, <2>6 DEF c
<1>. HIDE DEF pose, raw
<1>12. pose.x = p.x /\ pose.y = p.y /\ Abs(wrap(pose.h - p.h)) <= 2 * Abs(skew) /\ raw = wrap(p.h)
  BY <1>8, <1>10, <1>11
<1>. QED  BY <1>12 DEF pose, raw, a, b, seen, mount, m, lever, SeenRight

-----------------------------------------------------------------------------
(* Plans.                                                                   *)

\* Half a turn more makes up for what is missing.
LEMMA WrapOpposite ==
  ASSUME NEW a \in Int
  PROVE  Abs(wrap(a)) + Abs(wrap(a + 180)) = 180
<1>. DEFINE w == wrap(a)
            o == wrap(a + 180)
<1>1. w \in -179 .. 180  BY WrapTakesOff
<1>2. o = wrap(w + 180)  BY WrapSum
<1>. HIDE DEF w, o
<1>3. CASE w <= 0
  <2>1. w + 180 \in -179 .. 180  BY <1>1, <1>3
  <2>2. o = w + 180  BY <1>2, <2>1, WrapSmall
  <2>. QED  BY <1>1, <1>3, <2>2 DEF Abs, w, o
<1>4. CASE w > 0
  <2>. DEFINE v == w - 180
  <2>1. v \in -179 .. 180 /\ w + 180 \in Int /\ -1 \in Int /\ v = w + 180 + 360 * (-1)  BY <1>1, <1>4
  <2>. HIDE DEF v
  <2>2. o = v  BY <1>2, <2>1, WrapIs
  <2>. QED  BY <1>1, <1>4, <2>2 DEF Abs, w, o, v
<1>. QED  BY <1>1, <1>3, <1>4

LEMMA WrapBack ==
  ASSUME NEW a \in Int
  PROVE  Abs(wrap(-a)) = Abs(wrap(a))
<1>1. PICK k \in Int : wrap(a) = a + 360 * k  BY WrapTakesOff
<1>. DEFINE w == wrap(a)
            b == -a
<1>2. w \in -179 .. 180 /\ w = a + 360 * k  BY <1>1, WrapTakesOff
<1>3. b \in Int /\ b = -a  OBVIOUS
<1>. HIDE DEF w, b
<1>4. CASE w # 180
  <2>. DEFINE v == -w
              j == -k
  <2>1. v \in -179 .. 180 /\ j \in Int /\ v = b + 360 * j  BY <1>2, <1>3, <1>4
  <2>. HIDE DEF v, j
  <2>2. wrap(b) = v  BY <1>3, <2>1, WrapIs
  <2>. QED  BY <1>2, <2>2 DEF Abs, w, b, v
<1>5. CASE w = 180
  <2>. DEFINE j == 1 - k
  <2>1. w \in -179 .. 180 /\ j \in Int /\ w = b + 360 * j  BY <1>2, <1>3, <1>5
  <2>. HIDE DEF j
  <2>2. wrap(b) = w  BY <1>3, <2>1, WrapIs
  <2>. QED  BY <2>2 DEF w, b
<1>. QED  BY <1>4, <1>5

LEMMA WrapTwo ==
  ASSUME NEW a \in Int, NEW b \in Int, Abs(wrap(a)) <= 1, Abs(wrap(b)) <= 1
  PROVE  Abs(wrap(a + b)) <= 2
<1>. DEFINE u == wrap(a)
            v == wrap(b)
            t == u + v
<1>1. u \in Int /\ v \in Int  BY WrapTakesOff
<1>2. wrap(a + b) = wrap(u + b)  BY WrapSum
<1>3. wrap(u + b) = wrap(u + v)
  <2>. HIDE DEF u
  <2>1. wrap(v + u) = wrap(b + u)  BY <1>1, WrapSum
  <2>. HIDE DEF v
  <2>2. v + u = u + v /\ b + u = u + b  BY <1>1
  <2>. QED  BY <2>1, <2>2
<1>4. Abs(u) <= 1 /\ Abs(v) <= 1  OBVIOUS
<1>. HIDE DEF u, v
<1>5. t \in -179 .. 180 /\ Abs(t) <= 2  BY <1>1, <1>4 DEF Abs
<1>. HIDE DEF t
<1>6. wrap(t) = t  BY <1>5, WrapSmall
<1>. QED  BY <1>2, <1>3, <1>5, <1>6 DEF t

\* Nose first and tail first together are two half turns.
LEMMA TwoLegs ==
  ASSUME NEW h \in Int, NEW b \in Int, NEW gh \in Int
  PROVE  Abs(wrap(b - h)) + Abs(wrap(gh - b))
           + (Abs(wrap(wrap(b + 180) - h)) + Abs(wrap(gh - wrap(b + 180)))) = 360
<1>. DEFINE x == b - h
            y == gh - b
            f == wrap(b + 180)
<1>1. x \in Int /\ y \in Int /\ f \in Int  BY WrapTakesOff
<1>2. wrap(f - h) = wrap(x + 180)
  <2>. DEFINE c == b + 180
              d == -h
  <2>1. c \in Int /\ d \in Int /\ c + d = x + 180  OBVIOUS
  <2>2. f + d = f - h  BY <1>1
  <2>. HIDE DEF c, d, x
  <2>3. wrap(wrap(c) + d) = wrap(c + d)  BY <2>1, WrapSum
  <2>. QED  BY <2>1, <2>2, <2>3 DEF c
<1>3. wrap(gh - f) = wrap(y + 180)
  <2>. DEFINE c == b + 180
  <2>1. c \in Int /\ gh - c \in Int /\ y + 180 \in Int /\ gh - c = y + 180 + 360 * (-1) /\ -1 \in Int  OBVIOUS
  <2>. HIDE DEF c, y
  <2>2. wrap(gh - wrap(c)) = wrap(gh - c)  BY <2>1, WrapDifference
  <2>. DEFINE u == gh - c
              v == y + 180
              j == -1
  <2>3. u \in Int /\ v \in Int /\ j \in Int /\ u = v + 360 * j  BY <2>1
  <2>. HIDE DEF u, v, j
  <2>4. wrap(u) = wrap(v)
    <3>1. PICK k \in Int : wrap(v) = v + 360 * k  BY <2>3, WrapTakesOff
    <3>. DEFINE w == wrap(v)
                i == k - j
    <3>2. w \in -179 .. 180  BY <2>3, WrapTakesOff
    <3>3. w \in Int /\ w = v + 360 * k  BY <3>1, <3>2
    <3>. HIDE DEF w
    <3>4. i \in Int /\ w = u + 360 * i  BY <2>3, <3>3
    <3>. HIDE DEF i
    <3>5. wrap(u) = w  BY <2>3, <3>2, <3>4, WrapIs
    <3>. QED  BY <3>5 DEF w
  <2>. QED  BY <2>2, <2>4 DEF c, u, v
<1>4. Abs(wrap(x)) + Abs(wrap(x + 180)) = 180 /\ Abs(wrap(y)) + Abs(wrap(y + 180)) = 180
  <2>. HIDE DEF x, y
  <2>. QED  BY <1>1, WrapOpposite
<1>5. \A z \in Int : Abs(wrap(z)) \in Nat
  <2>. TAKE z \in Int
  <2>1. wrap(z) \in Int  BY WrapTakesOff
  <2>. QED  BY <2>1 DEF Abs
<1>6. Abs(wrap(x)) \in Nat /\ Abs(wrap(x + 180)) \in Nat /\ Abs(wrap(y)) \in Nat /\ Abs(wrap(y + 180)) \in Nat
  <2>1. x + 180 \in Int /\ y + 180 \in Int  BY <1>1
  <2>. HIDE DEF x, y
  <2>. QED  BY <1>1, <1>5, <2>1
<1>. DEFINE x0 == Abs(wrap(x))
            x1 == Abs(wrap(x + 180))
            y0 == Abs(wrap(y))
            y1 == Abs(wrap(y + 180))
<1>7. x0 + y0 + (x1 + y1) = 360
  <2>1. x0 \in Nat /\ x1 \in Nat /\ y0 \in Nat /\ y1 \in Nat /\ x0 + x1 = 180 /\ y0 + y1 = 180  BY <1>4, <1>6
  <2>. HIDE DEF x0, x1, y0, y1
  <2>. QED  BY <2>1
<1>. QED  BY <1>2, <1>3, <1>7

\* Moves that are made one after the other, each only if it is worth making.
Do(cond, move, state) == IF cond THEN OneMove(state, move) ELSE state
Turned(cond, move) == IF cond /\ move.kind = "pivot" THEN Abs(move.value) ELSE 0
AtStart(pose) == [x |-> pose.x, y |-> pose.y, h |-> pose.h, drift |-> 0]
Moves == [kind : {"pivot", "drive"}, value : Int]

LEMMA UpToThreeMoves ==
  ASSUME NEW pose, NEW moves \in Seq(Moves), Len(moves) <= 3
  PROVE  LET s == AtStart(pose) IN
         /\ apply(pose, moves) =
              Do(3 <= Len(moves), moves[3], Do(2 <= Len(moves), moves[2], Do(1 <= Len(moves), moves[1], s)))
         /\ rotation_cost(moves) =
              Turned(1 <= Len(moves), moves[1]) + Turned(2 <= Len(moves), moves[2]) + Turned(3 <= Len(moves), moves[3])
<1>. DEFINE n == Len(moves)
            s == AtStart(pose)
            s1 == Do(1 <= n, moves[1], s)
            s2 == Do(2 <= n, moves[2], s1)
            s3 == Do(3 <= n, moves[3], s2)
            After(f) == f = [i \in 0 .. n |-> IF i = 0 THEN s ELSE OneMove(f[i - 1], moves[i])]
            after == CHOOSE f : After(f)
            c1 == Turned(1 <= n, moves[1])
            c2 == c1 + Turned(2 <= n, moves[2])
            c3 == c2 + Turned(3 <= n, moves[3])
            Cost(f) == f = [i \in 0 .. n |-> IF i = 0 THEN 0
                              ELSE f[i - 1] + IF moves[i].kind = "pivot" THEN Abs(moves[i].value) ELSE 0]
            cost == CHOOSE f : Cost(f)
<1>1. n \in 0 .. 3
  <2>1. n \in Nat /\ n <= 3  BY LenProperties
  <2>. HIDE DEF n
  <2>. QED  BY <2>1
<1>2. apply(pose, moves) = after[n]  BY DEF apply, AtStart
<1>3. rotation_cost(moves) = cost[n]  BY DEF rotation_cost
<1>4. After([i \in 0 .. n |-> IF i = 0 THEN s ELSE IF i = 1 THEN s1 ELSE IF i = 2 THEN s2 ELSE s3])
  <2>. HIDE DEF n, s
  <2>. DEFINE f == [i \in 0 .. n |-> IF i = 0 THEN s ELSE IF i = 1 THEN s1 ELSE IF i = 2 THEN s2 ELSE s3]
  <2>1. ASSUME NEW i \in 0 .. n
        PROVE  f[i] = IF i = 0 THEN s ELSE OneMove(f[i - 1], moves[i])
    <3>1. CASE i = 0  BY <3>1
    <3>2. CASE i = 1
      <4>1. 0 \in 0 .. n /\ f[0] = s /\ f[1] = s1 /\ i - 1 = 0 /\ 1 <= n  BY <1>1, <3>2
      <4>. QED  BY <3>2, <4>1 DEF Do
    <3>3. CASE i = 2
      <4>1. 1 \in 0 .. n /\ f[1] = s1 /\ f[2] = s2 /\ i - 1 = 1 /\ 2 <= n  BY <1>1, <3>3
      <4>. HIDE DEF f, s1
      <4>. QED  BY <3>3, <4>1 DEF Do
    <3>4. CASE i = 3
      <4>1. 2 \in 0 .. n /\ f[2] = s2 /\ f[3] = s3 /\ i - 1 = 2 /\ 3 <= n  BY <1>1, <3>4
      <4>. HIDE DEF f, s1, s2
      <4>. QED  BY <3>4, <4>1 DEF Do
    <3>. QED  BY <1>1, <3>1, <3>2, <3>3, <3>4
  <2>2. DOMAIN f = 0 .. n /\ f = [i \in 0 .. n |-> f[i]]  OBVIOUS
  <2>. HIDE DEF f
  <2>3. f = [i \in 0 .. n |-> IF i = 0 THEN s ELSE OneMove(f[i - 1], moves[i])]  BY <2>1, <2>2
  <2>. QED  BY <2>3 DEF f
<1>5. Cost([i \in 0 .. n |-> IF i = 0 THEN 0 ELSE IF i = 1 THEN c1 ELSE IF i = 2 THEN c2 ELSE c3])
  <2>. HIDE DEF n
  <2>. DEFINE f == [i \in 0 .. n |-> IF i = 0 THEN 0 ELSE IF i = 1 THEN c1 ELSE IF i = 2 THEN c2 ELSE c3]
              g(i) == IF moves[i].kind = "pivot" THEN Abs(moves[i].value) ELSE 0
  <2>1. ASSUME NEW i \in 0 .. n
        PROVE  f[i] = IF i = 0 THEN 0 ELSE f[i - 1] + g(i)
    <3>1. CASE i = 0  BY <3>1
    <3>2. CASE i = 1
      <4>1. 0 \in 0 .. n /\ f[0] = 0 /\ f[1] = c1 /\ i - 1 = 0 /\ 1 <= n  BY <1>1, <3>2
      <4>2. moves[1] \in Moves
        <5>1. 1 \in 1 .. Len(moves)  BY <1>1, <4>1 DEF n
        <5>. QED  BY <5>1
      <4>3. g(1) = c1 /\ g(1) \in Int  BY <4>1, <4>2 DEF Turned, Moves, Abs
      <4>. HIDE DEF f, c1, g
      <4>. QED  BY <3>2, <4>1, <4>3
    <3>3. CASE i = 2
      <4>1. 1 \in 0 .. n /\ f[1] = c1 /\ f[2] = c2 /\ i - 1 = 1 /\ 2 <= n  BY <1>1, <3>3
      <4>2. g(2) = Turned(2 <= n, moves[2])  BY <4>1 DEF Turned
      <4>. HIDE DEF f, c1, g
      <4>. QED  BY <3>3, <4>1, <4>2
    <3>4. CASE i = 3
      <4>1. 2 \in 0 .. n /\ f[2] = c2 /\ f[3] = c3 /\ i - 1 = 2 /\ 3 <= n  BY <1>1, <3>4
      <4>2. g(3) = Turned(3 <= n, moves[3])  BY <4>1 DEF Turned
      <4>. HIDE DEF f, c2, g
      <4>. QED  BY <3>4, <4>1, <4>2
    <3>. HIDE DEF f, g
    <3>. QED  BY <1>1, <3>1, <3>2, <3>3, <3>4
  <2>2. DOMAIN f = 0 .. n /\ f = [i \in 0 .. n |-> f[i]]  OBVIOUS
  <2>. HIDE DEF f
  <2>3. f = [i \in 0 .. n |-> IF i = 0 THEN 0 ELSE f[i - 1] + g(i)]  BY <2>1, <2>2
  <2>. QED  BY <2>3 DEF f
<1>6. After(after) /\ Cost(cost)
  <2>1. \E f : After(f)  BY <1>4
  <2>2. \E f : Cost(f)  BY <1>5
  <2>. QED  BY <2>1, <2>2
<1>. HIDE DEF after, cost, n
<1>7. after[n] = s3
  <2>1. after[0] = s /\ \A i \in 1 .. n : after[i] = OneMove(after[i - 1], moves[i])  BY <1>1, <1>6
  <2>2. 1 <= n => after[1] = OneMove(after[0], moves[1])  BY <1>1, <2>1
  <2>3. 2 <= n => after[2] = OneMove(after[1], moves[2])  BY <1>1, <2>1
  <2>4. 3 <= n => after[3] = OneMove(after[2], moves[3])  BY <1>1, <2>1
  <2>5. n = 0 \/ n = 1 \/ n = 2 \/ n = 3  BY <1>1
  <2>. QED  BY <2>1, <2>2, <2>3, <2>4, <2>5 DEF Do
<1>8. cost[n] = c3
  <2>. DEFINE g(i) == IF moves[i].kind = "pivot" THEN Abs(moves[i].value) ELSE 0
  <2>1. cost[0] = 0 /\ \A i \in 1 .. n : cost[i] = cost[i - 1] + g(i)
    <3>1. cost = [i \in 0 .. n |-> IF i = 0 THEN 0 ELSE cost[i - 1] + g(i)]  BY <1>6
    <3>. HIDE DEF g
    <3>2. cost[0] = 0  BY <1>1, <3>1
    <3>3. ASSUME NEW i \in 1 .. n PROVE cost[i] = cost[i - 1] + g(i)
      <4>1. i \in 0 .. n /\ i # 0  BY <1>1
      <4>. QED  BY <3>1, <4>1
    <3>. QED  BY <3>2, <3>3
  <2>0. \A i \in 1 .. n : g(i) \in Int
    <3>. TAKE i \in 1 .. n
    <3>1. moves[i] \in Moves  BY DEF n
    <3>. QED  BY <3>1 DEF Moves, Abs
  <2>. HIDE DEF g
  <2>2. 1 <= n => cost[1] = g(1) /\ g(1) \in Int /\ c1 = g(1)
    <3>. SUFFICES ASSUME 1 <= n PROVE cost[1] = g(1) /\ g(1) \in Int /\ c1 = g(1)  OBVIOUS
    <3>1. 1 \in 1 .. n  BY <1>1
    <3>2. cost[1] = cost[0] + g(1) /\ g(1) \in Int  BY <2>0, <2>1, <3>1
    <3>3. c1 = g(1)  BY DEF Turned, g
    <3>. HIDE DEF c1
    <3>. QED  BY <2>1, <3>2, <3>3
  <2>3. 2 <= n => cost[2] = cost[1] + g(2) /\ g(2) \in Int /\ Turned(2 <= n, moves[2]) = g(2)
    <3>. SUFFICES ASSUME 2 <= n PROVE cost[2] = cost[1] + g(2) /\ g(2) \in Int /\ Turned(2 <= n, moves[2]) = g(2)  OBVIOUS
    <3>1. 2 \in 1 .. n  BY <1>1
    <3>2. cost[2] = cost[1] + g(2) /\ g(2) \in Int  BY <2>0, <2>1, <3>1
    <3>3. Turned(2 <= n, moves[2]) = g(2)  BY DEF Turned, g
    <3>. QED  BY <3>2, <3>3
  <2>4. 3 <= n => cost[3] = cost[2] + g(3) /\ g(3) \in Int /\ Turned(3 <= n, moves[3]) = g(3)
    <3>. SUFFICES ASSUME 3 <= n PROVE cost[3] = cost[2] + g(3) /\ g(3) \in Int /\ Turned(3 <= n, moves[3]) = g(3)  OBVIOUS
    <3>1. 3 \in 1 .. n  BY <1>1
    <3>2. cost[3] = cost[2] + g(3) /\ g(3) \in Int  BY <2>0, <2>1, <3>1
    <3>3. Turned(3 <= n, moves[3]) = g(3)  BY DEF Turned, g
    <3>. QED  BY <3>2, <3>3
  <2>5. n = 0 \/ n = 1 \/ n = 2 \/ n = 3  BY <1>1
  <2>6. /\ ~(1 <= n) => c1 = 0
        /\ ~(2 <= n) => Turned(2 <= n, moves[2]) = 0
        /\ ~(3 <= n) => Turned(3 <= n, moves[3]) = 0
    BY DEF Turned
  <2>. DEFINE t2 == Turned(2 <= n, moves[2])
              t3 == Turned(3 <= n, moves[3])
  <2>7. c3 = c1 + t2 + t3  OBVIOUS
  <2>. HIDE DEF c1, t2, t3
  <2>8. CASE n = 0  BY <2>1, <2>6, <2>7, <2>8 DEF t2, t3
  <2>9. CASE n = 1
    <3>1. t2 = 0 /\ t3 = 0 /\ cost[1] = g(1) /\ g(1) \in Int /\ c1 = g(1)  BY <2>2, <2>6, <2>9 DEF t2, t3
    <3>. QED  BY <2>7, <2>9, <3>1
  <2>10. CASE n = 2
    <3>1. t2 = g(2) /\ t3 = 0 /\ cost[1] = g(1) /\ g(1) \in Int /\ c1 = g(1) /\ cost[2] = cost[1] + g(2) /\ g(2) \in Int
      BY <2>2, <2>3, <2>6, <2>10 DEF t2, t3
    <3>. QED  BY <2>7, <2>10, <3>1
  <2>11. CASE n = 3
    <3>1. /\ t2 = g(2) /\ t3 = g(3) /\ cost[1] = g(1) /\ g(1) \in Int /\ c1 = g(1) /\ cost[2] = cost[1] + g(2)
          /\ g(2) \in Int /\ cost[3] = cost[2] + g(3) /\ g(3) \in Int
      BY <2>2, <2>3, <2>4, <2>11 DEF t2, t3
    <3>. QED  BY <2>7, <2>11, <3>1
  <2>. QED  BY <2>5, <2>8, <2>9, <2>10, <2>11
<1>. QED  BY <1>2, <1>3, <1>7, <1>8 DEF n


LEMMA TwoAndThree ==
  ASSUME NEW m1 \in Moves, NEW m2 \in Moves, NEW m3 \in Moves
  PROVE  <<m1>> \o <<m2>> = <<m1, m2>> /\ <<m1>> \o <<m2>> \o <<m3>> = <<m1, m2, m3>>
<1>1. <<m1>> \in Seq(Moves) /\ <<m2>> \in Seq(Moves) /\ <<m3>> \in Seq(Moves) /\ <<m1, m2>> \in Seq(Moves)
      /\ <<m1, m2, m3>> \in Seq(Moves)
  OBVIOUS
<1>2. <<m1>> \o <<m2>> = <<m1, m2>>
  <2>. DEFINE s == <<m1>> \o <<m2>>
              p == <<m1, m2>>
  <2>1. s \in Seq(Moves) /\ Len(s) = 2 /\ s[1] = m1 /\ s[2] = m2  BY <1>1, ConcatProperties
  <2>2. p \in Seq(Moves) /\ Len(p) = 2 /\ p[1] = m1 /\ p[2] = m2  OBVIOUS
  <2>. HIDE DEF s, p
  <2>3. \A i \in 1 .. 2 : s[i] = p[i]  BY <2>1, <2>2
  <2>4. s = p  BY <2>1, <2>2, <2>3, SeqEqual
  <2>. QED  BY <2>4 DEF s, p
<1>3. <<m1, m2>> \o <<m3>> = <<m1, m2, m3>>
  <2>. DEFINE q == <<m1, m2>>
              r == <<m3>>
              s == q \o r
              p == <<m1, m2, m3>>
  <2>0. /\ q \in Seq(Moves) /\ Len(q) = 2 /\ q[1] = m1 /\ q[2] = m2
        /\ r \in Seq(Moves) /\ Len(r) = 1 /\ r[1] = m3
    OBVIOUS
  <2>. HIDE DEF q, r
  <2>1. s \in Seq(Moves) /\ Len(s) = 3 /\ s[1] = m1 /\ s[2] = m2 /\ s[3] = m3
    <3>1. s \in Seq(Moves) /\ Len(s) = Len(q) + Len(r)  BY <2>0, ConcatProperties
    <3>2. \A i \in 1 .. Len(q) + Len(r) : s[i] = IF i <= Len(q) THEN q[i] ELSE r[i - Len(q)]
      BY <2>0, ConcatProperties
    <3>. HIDE DEF s
    <3>3. \A i \in 1 .. 3 : s[i] = IF i <= 2 THEN q[i] ELSE r[i - 2]  BY <2>0, <3>2
    <3>4. s[1] = q[1] /\ s[2] = q[2] /\ s[3] = r[1]  BY <3>3
    <3>5. Len(s) = 3  BY <2>0, <3>1
    <3>. QED  BY <2>0, <3>1, <3>4, <3>5
  <2>2. p \in Seq(Moves) /\ Len(p) = 3 /\ p[1] = m1 /\ p[2] = m2 /\ p[3] = m3  OBVIOUS
  <2>. HIDE DEF s, p
  <2>3. \A i \in 1 .. 3 : s[i] = p[i]  BY <2>1, <2>2
  <2>4. s = p  BY <2>1, <2>2, <2>3, SeqEqual
  <2>. QED  BY <2>4 DEF s, p, q, r
<1>. QED  BY <1>2, <1>3

LEMMA ThreeMoves ==
  ASSUME NEW pose, NEW a \in BOOLEAN, NEW b \in BOOLEAN, NEW c \in BOOLEAN,
         NEW m1 \in Moves, NEW m2 \in Moves, NEW m3 \in Moves
  PROVE  LET moves == If(a, m1) \o If(b, m2) \o If(c, m3) IN
         /\ apply(pose, moves) = Do(c, m3, Do(b, m2, Do(a, m1, AtStart(pose))))
         /\ rotation_cost(moves) = Turned(a, m1) + Turned(b, m2) + Turned(c, m3)
<1>. DEFINE moves == If(a, m1) \o If(b, m2) \o If(c, m3)
            s == AtStart(pose)
            t1 == Turned(a, m1)
            t2 == Turned(b, m2)
            t3 == Turned(c, m3)
<1>1. t1 \in Int /\ t2 \in Int /\ t3 \in Int  BY DEF Turned, Moves, Abs
<1>2. <<m1>> \in Seq(Moves) /\ <<m2>> \in Seq(Moves) /\ <<m3>> \in Seq(Moves) /\ <<m1, m2>> \in Seq(Moves)
  OBVIOUS
<1>3. \A p \in Seq(Moves) : p \o <<>> = p /\ <<>> \o p = p  BY ConcatEmptySeq
<1>4. CASE ~a /\ ~b /\ ~c
  <2>. DEFINE p == <<>>
  <2>1. moves = p
    <3>1. moves = <<>> \o <<>> \o <<>>  BY <1>4 DEF If
    <3>. QED  BY <1>2, <1>3, <3>1, TwoAndThree
  <2>2. p \in Seq(Moves) /\ Len(p) = 0  OBVIOUS
  <2>. HIDE DEF p
  <2>3. Len(p) <= 3  BY <2>2
  <2>. DEFINE r1 == Turned(1 <= Len(p), p[1])
              r2 == Turned(2 <= Len(p), p[2])
              r3 == Turned(3 <= Len(p), p[3])
  <2>4. /\ apply(pose, p) = Do(3 <= Len(p), p[3], Do(2 <= Len(p), p[2], Do(1 <= Len(p), p[1], s)))
        /\ rotation_cost(p) = r1 + r2 + r3
    BY <2>2, <2>3, UpToThreeMoves
  <2>5. apply(pose, p) = Do(c, m3, Do(b, m2, Do(a, m1, s)))  BY <1>4, <2>2, <2>4 DEF Do
  <2>6. r1 = 0 /\ r2 = 0 /\ r3 = 0 /\ t1 = 0 /\ t2 = 0 /\ t3 = 0  BY <1>4, <2>2 DEF Turned
  <2>7. rotation_cost(p) = t1 + t2 + t3
    <3>. HIDE DEF t1, t2, t3, r1, r2, r3
    <3>. QED  BY <1>1, <2>4, <2>6
  <2>. QED  BY <2>1, <2>5, <2>7
<1>5. CASE ~a /\ ~b /\ c
  <2>. DEFINE p == <<m3>>
  <2>1. moves = p
    <3>1. moves = <<>> \o <<>> \o <<m3>>  BY <1>5 DEF If
    <3>. QED  BY <1>2, <1>3, <3>1, TwoAndThree
  <2>2. p \in Seq(Moves) /\ Len(p) = 1 /\ p[1] = m3  OBVIOUS
  <2>. HIDE DEF p
  <2>3. Len(p) <= 3  BY <2>2
  <2>. DEFINE r1 == Turned(1 <= Len(p), p[1])
              r2 == Turned(2 <= Len(p), p[2])
              r3 == Turned(3 <= Len(p), p[3])
  <2>4. /\ apply(pose, p) = Do(3 <= Len(p), p[3], Do(2 <= Len(p), p[2], Do(1 <= Len(p), p[1], s)))
        /\ rotation_cost(p) = r1 + r2 + r3
    BY <2>2, <2>3, UpToThreeMoves
  <2>5. apply(pose, p) = Do(c, m3, Do(b, m2, Do(a, m1, s)))  BY <1>5, <2>2, <2>4 DEF Do
  <2>6. r1 = t3 /\ r2 = 0 /\ r3 = 0 /\ t1 = 0 /\ t2 = 0  BY <1>5, <2>2 DEF Turned
  <2>7. rotation_cost(p) = t1 + t2 + t3
    <3>. HIDE DEF t1, t2, t3, r1, r2, r3
    <3>. QED  BY <1>1, <2>4, <2>6
  <2>. QED  BY <2>1, <2>5, <2>7
<1>6. CASE ~a /\ b /\ ~c
  <2>. DEFINE p == <<m2>>
  <2>1. moves = p
    <3>1. moves = <<>> \o <<m2>> \o <<>>  BY <1>6 DEF If
    <3>. QED  BY <1>2, <1>3, <3>1, TwoAndThree
  <2>2. p \in Seq(Moves) /\ Len(p) = 1 /\ p[1] = m2  OBVIOUS
  <2>. HIDE DEF p
  <2>3. Len(p) <= 3  BY <2>2
  <2>. DEFINE r1 == Turned(1 <= Len(p), p[1])
              r2 == Turned(2 <= Len(p), p[2])
              r3 == Turned(3 <= Len(p), p[3])
  <2>4. /\ apply(pose, p) = Do(3 <= Len(p), p[3], Do(2 <= Len(p), p[2], Do(1 <= Len(p), p[1], s)))
        /\ rotation_cost(p) = r1 + r2 + r3
    BY <2>2, <2>3, UpToThreeMoves
  <2>5. apply(pose, p) = Do(c, m3, Do(b, m2, Do(a, m1, s)))  BY <1>6, <2>2, <2>4 DEF Do
  <2>6. r1 = t2 /\ r2 = 0 /\ r3 = 0 /\ t1 = 0 /\ t3 = 0  BY <1>6, <2>2 DEF Turned
  <2>7. rotation_cost(p) = t1 + t2 + t3
    <3>. HIDE DEF t1, t2, t3, r1, r2, r3
    <3>. QED  BY <1>1, <2>4, <2>6
  <2>. QED  BY <2>1, <2>5, <2>7
<1>7. CASE ~a /\ b /\ c
  <2>. DEFINE p == <<m2, m3>>
  <2>1. moves = p
    <3>1. moves = <<>> \o <<m2>> \o <<m3>>  BY <1>7 DEF If
    <3>. QED  BY <1>2, <1>3, <3>1, TwoAndThree
  <2>2. p \in Seq(Moves) /\ Len(p) = 2 /\ p[1] = m2 /\ p[2] = m3  OBVIOUS
  <2>. HIDE DEF p
  <2>3. Len(p) <= 3  BY <2>2
  <2>. DEFINE r1 == Turned(1 <= Len(p), p[1])
              r2 == Turned(2 <= Len(p), p[2])
              r3 == Turned(3 <= Len(p), p[3])
  <2>4. /\ apply(pose, p) = Do(3 <= Len(p), p[3], Do(2 <= Len(p), p[2], Do(1 <= Len(p), p[1], s)))
        /\ rotation_cost(p) = r1 + r2 + r3
    BY <2>2, <2>3, UpToThreeMoves
  <2>5. apply(pose, p) = Do(c, m3, Do(b, m2, Do(a, m1, s)))  BY <1>7, <2>2, <2>4 DEF Do
  <2>6. r1 = t2 /\ r2 = t3 /\ r3 = 0 /\ t1 = 0  BY <1>7, <2>2 DEF Turned
  <2>7. rotation_cost(p) = t1 + t2 + t3
    <3>. HIDE DEF t1, t2, t3, r1, r2, r3
    <3>. QED  BY <1>1, <2>4, <2>6
  <2>. QED  BY <2>1, <2>5, <2>7
<1>8. CASE a /\ ~b /\ ~c
  <2>. DEFINE p == <<m1>>
  <2>1. moves = p
    <3>1. moves = <<m1>> \o <<>> \o <<>>  BY <1>8 DEF If
    <3>. QED  BY <1>2, <1>3, <3>1, TwoAndThree
  <2>2. p \in Seq(Moves) /\ Len(p) = 1 /\ p[1] = m1  OBVIOUS
  <2>. HIDE DEF p
  <2>3. Len(p) <= 3  BY <2>2
  <2>. DEFINE r1 == Turned(1 <= Len(p), p[1])
              r2 == Turned(2 <= Len(p), p[2])
              r3 == Turned(3 <= Len(p), p[3])
  <2>4. /\ apply(pose, p) = Do(3 <= Len(p), p[3], Do(2 <= Len(p), p[2], Do(1 <= Len(p), p[1], s)))
        /\ rotation_cost(p) = r1 + r2 + r3
    BY <2>2, <2>3, UpToThreeMoves
  <2>5. apply(pose, p) = Do(c, m3, Do(b, m2, Do(a, m1, s)))  BY <1>8, <2>2, <2>4 DEF Do
  <2>6. r1 = t1 /\ r2 = 0 /\ r3 = 0 /\ t2 = 0 /\ t3 = 0  BY <1>8, <2>2 DEF Turned
  <2>7. rotation_cost(p) = t1 + t2 + t3
    <3>. HIDE DEF t1, t2, t3, r1, r2, r3
    <3>. QED  BY <1>1, <2>4, <2>6
  <2>. QED  BY <2>1, <2>5, <2>7
<1>9. CASE a /\ ~b /\ c
  <2>. DEFINE p == <<m1, m3>>
  <2>1. moves = p
    <3>1. moves = <<m1>> \o <<>> \o <<m3>>  BY <1>9 DEF If
    <3>. QED  BY <1>2, <1>3, <3>1, TwoAndThree
  <2>2. p \in Seq(Moves) /\ Len(p) = 2 /\ p[1] = m1 /\ p[2] = m3  OBVIOUS
  <2>. HIDE DEF p
  <2>3. Len(p) <= 3  BY <2>2
  <2>. DEFINE r1 == Turned(1 <= Len(p), p[1])
              r2 == Turned(2 <= Len(p), p[2])
              r3 == Turned(3 <= Len(p), p[3])
  <2>4. /\ apply(pose, p) = Do(3 <= Len(p), p[3], Do(2 <= Len(p), p[2], Do(1 <= Len(p), p[1], s)))
        /\ rotation_cost(p) = r1 + r2 + r3
    BY <2>2, <2>3, UpToThreeMoves
  <2>5. apply(pose, p) = Do(c, m3, Do(b, m2, Do(a, m1, s)))  BY <1>9, <2>2, <2>4 DEF Do
  <2>6. r1 = t1 /\ r2 = t3 /\ r3 = 0 /\ t2 = 0  BY <1>9, <2>2 DEF Turned
  <2>7. rotation_cost(p) = t1 + t2 + t3
    <3>. HIDE DEF t1, t2, t3, r1, r2, r3
    <3>. QED  BY <1>1, <2>4, <2>6
  <2>. QED  BY <2>1, <2>5, <2>7
<1>10. CASE a /\ b /\ ~c
  <2>. DEFINE p == <<m1, m2>>
  <2>1. moves = p
    <3>1. moves = <<m1>> \o <<m2>> \o <<>>  BY <1>10 DEF If
    <3>. QED  BY <1>2, <1>3, <3>1, TwoAndThree
  <2>2. p \in Seq(Moves) /\ Len(p) = 2 /\ p[1] = m1 /\ p[2] = m2  OBVIOUS
  <2>. HIDE DEF p
  <2>3. Len(p) <= 3  BY <2>2
  <2>. DEFINE r1 == Turned(1 <= Len(p), p[1])
              r2 == Turned(2 <= Len(p), p[2])
              r3 == Turned(3 <= Len(p), p[3])
  <2>4. /\ apply(pose, p) = Do(3 <= Len(p), p[3], Do(2 <= Len(p), p[2], Do(1 <= Len(p), p[1], s)))
        /\ rotation_cost(p) = r1 + r2 + r3
    BY <2>2, <2>3, UpToThreeMoves
  <2>5. apply(pose, p) = Do(c, m3, Do(b, m2, Do(a, m1, s)))  BY <1>10, <2>2, <2>4 DEF Do
  <2>6. r1 = t1 /\ r2 = t2 /\ r3 = 0 /\ t3 = 0  BY <1>10, <2>2 DEF Turned
  <2>7. rotation_cost(p) = t1 + t2 + t3
    <3>. HIDE DEF t1, t2, t3, r1, r2, r3
    <3>. QED  BY <1>1, <2>4, <2>6
  <2>. QED  BY <2>1, <2>5, <2>7
<1>11. CASE a /\ b /\ c
  <2>. DEFINE p == <<m1, m2, m3>>
  <2>1. moves = p
    <3>1. moves = <<m1>> \o <<m2>> \o <<m3>>  BY <1>11 DEF If
    <3>. QED  BY <1>2, <1>3, <3>1, TwoAndThree
  <2>2. p \in Seq(Moves) /\ Len(p) = 3 /\ p[1] = m1 /\ p[2] = m2 /\ p[3] = m3  OBVIOUS
  <2>. HIDE DEF p
  <2>3. Len(p) <= 3  BY <2>2
  <2>. DEFINE r1 == Turned(1 <= Len(p), p[1])
              r2 == Turned(2 <= Len(p), p[2])
              r3 == Turned(3 <= Len(p), p[3])
  <2>4. /\ apply(pose, p) = Do(3 <= Len(p), p[3], Do(2 <= Len(p), p[2], Do(1 <= Len(p), p[1], s)))
        /\ rotation_cost(p) = r1 + r2 + r3
    BY <2>2, <2>3, UpToThreeMoves
  <2>5. apply(pose, p) = Do(c, m3, Do(b, m2, Do(a, m1, s)))  BY <1>11, <2>2, <2>4 DEF Do
  <2>6. r1 = t1 /\ r2 = t2 /\ r3 = t3  BY <1>11, <2>2 DEF Turned
  <2>7. rotation_cost(p) = t1 + t2 + t3
    <3>. HIDE DEF t1, t2, t3, r1, r2, r3
    <3>. QED  BY <1>1, <2>4, <2>6
  <2>. QED  BY <2>1, <2>5, <2>7
<1>. QED  BY <1>4, <1>5, <1>6, <1>7, <1>8, <1>9, <1>10, <1>11

\* Facing a target to the degree, and after a turn that was worth making.
Faces(h, t, d) == wrap(h - t) \in -d .. d
Onto(h, t) == IF Abs(wrap(t - h)) > HeadTol THEN wrap(h + wrap(t - h)) ELSE h

LEMMA FacesBack ==
  ASSUME NEW h \in Int, NEW t \in Int, Abs(wrap(t - h)) <= 1
  PROVE  Faces(h, t, 1)
<1>. DEFINE a == t - h
            b == -a
<1>1. a \in Int /\ b \in Int /\ h - t = b  OBVIOUS
<1>2. Abs(wrap(a)) <= 1  OBVIOUS
<1>3. Abs(wrap(-a)) = Abs(wrap(a))
  <2>. HIDE DEF a
  <2>. QED  BY <1>1, WrapBack
<1>. HIDE DEF a
<1>4. Abs(wrap(b)) <= 1 /\ wrap(b) \in Int  BY <1>1, <1>2, <1>3, WrapTakesOff
<1>. HIDE DEF b
<1>5. wrap(b) \in -1 .. 1
  <2>. DEFINE w == wrap(b)
  <2>1. Abs(w) <= 1 /\ w \in Int  BY <1>4
  <2>. HIDE DEF w
  <2>2. w \in -1 .. 1  BY <2>1 DEF Abs
  <2>. QED  BY <2>2 DEF w
<1>. QED  BY <1>1, <1>5 DEF Faces

\* A pivot to a target, from any heading, leaves what it began beside.
LEMMA PivotFaces ==
  ASSUME NEW h \in Int, NEW f \in Int, NEW t \in Int
  PROVE  wrap(h + wrap(t - f)) \in Int /\ wrap(wrap(h + wrap(t - f)) - t) = wrap(h - f)
<1>. DEFINE c == t - f
            m == -t
            w == wrap(c)
            v == wrap(h + w)
<1>1. c \in Int /\ m \in Int /\ w \in Int
  <2>1. c \in Int /\ m \in Int  OBVIOUS
  <2>. HIDE DEF c
  <2>. QED  BY <2>1, WrapTakesOff
<1>2. wrap(w + h) = wrap(c + h)
  <2>. HIDE DEF c
  <2>. QED  BY <1>1, WrapSum
<1>3. w + h = h + w /\ h + w \in Int /\ c + h \in Int /\ (c + h) + m = h - f
  <2>. HIDE DEF w
  <2>. QED  BY <1>1
<1>4. v = wrap(c + h) /\ v \in Int
  <2>1. v \in Int
    <3>. HIDE DEF w
    <3>. QED  BY <1>3, WrapTakesOff
  <2>. HIDE DEF w, c
  <2>. QED  BY <1>2, <1>3, <2>1
<1>5. wrap(wrap(c + h) + m) = wrap((c + h) + m)
  <2>. HIDE DEF c, m
  <2>. QED  BY <1>1, <1>3, WrapSum
<1>6. v + m = v - t
  <2>. HIDE DEF v
  <2>. QED  BY <1>4
<1>7. wrap(v - t) = wrap(h - f)
  <2>. HIDE DEF v, c, m
  <2>. QED  BY <1>3, <1>4, <1>5, <1>6
<1>. QED  BY <1>4, <1>7

LEMMA OntoFaces ==
  ASSUME NEW h \in Int, NEW t \in Int
  PROVE  Onto(h, t) \in Int /\ Faces(Onto(h, t), t, 1)
<1>1. CASE Abs(wrap(t - h)) > HeadTol
  <2>1. wrap(h + wrap(t - h)) \in Int /\ wrap(wrap(h + wrap(t - h)) - t) = wrap(h - h)  BY PivotFaces
  <2>2. Onto(h, t) = wrap(h + wrap(t - h))  BY <1>1 DEF Onto
  <2>3. wrap(h - h) = 0
    <3>1. h - h = 0 /\ 0 \in -179 .. 180  OBVIOUS
    <3>. QED  BY <3>1, WrapSmall
  <2>4. wrap(Onto(h, t) - t) = 0 /\ Onto(h, t) \in Int  BY <2>1, <2>2, <2>3
  <2>. QED  BY <2>4 DEF Faces
<1>2. CASE ~(Abs(wrap(t - h)) > HeadTol)
  <2>1. t - h \in Int  OBVIOUS
  <2>2. wrap(t - h) \in Int  BY <2>1, WrapTakesOff
  <2>3. Abs(wrap(t - h)) <= 1
    <3>. DEFINE w == wrap(t - h)
    <3>1. w \in Int /\ ~(Abs(w) > 1)  BY <1>2, <2>2 DEF HeadTol
    <3>. HIDE DEF w
    <3>2. Abs(w) <= 1  BY <3>1 DEF Abs
    <3>. QED  BY <3>2 DEF w
  <2>4. Onto(h, t) = h  BY <1>2 DEF Onto
  <2>. QED  BY <2>3, <2>4, FacesBack
<1>. QED  BY <1>1, <1>2

\* The last turn is from the bearing driven, not from the heading it left.
OntoFrom(h, f, t) == IF Abs(wrap(t - f)) > HeadTol THEN wrap(h + wrap(t - f)) ELSE h

LEMMA OntoFromFaces ==
  ASSUME NEW h \in Int, NEW f \in Int, NEW t \in Int, Faces(h, f, 1)
  PROVE  OntoFrom(h, f, t) \in Int /\ Faces(OntoFrom(h, f, t), t, 2)
<1>0. wrap(h - f) \in -1 .. 1  BY DEF Faces
<1>1. CASE Abs(wrap(t - f)) > HeadTol
  <2>1. wrap(h + wrap(t - f)) \in Int /\ wrap(wrap(h + wrap(t - f)) - t) = wrap(h - f)  BY PivotFaces
  <2>2. OntoFrom(h, f, t) = wrap(h + wrap(t - f))  BY <1>1 DEF OntoFrom
  <2>3. wrap(OntoFrom(h, f, t) - t) = wrap(h - f) /\ OntoFrom(h, f, t) \in Int  BY <2>1, <2>2
  <2>4. wrap(OntoFrom(h, f, t) - t) \in -2 .. 2
    <3>. DEFINE w == wrap(h - f)
    <3>1. w \in -1 .. 1  BY <1>0
    <3>. HIDE DEF w
    <3>2. w \in -2 .. 2  BY <3>1
    <3>. QED  BY <2>3, <3>2 DEF w
  <2>. QED  BY <2>3, <2>4 DEF Faces
<1>2. CASE ~(Abs(wrap(t - f)) > HeadTol)
  <2>. DEFINE a == h - f
              b == f - t
  <2>1. a \in Int /\ b \in Int /\ a + b = h - t /\ t - f \in Int  OBVIOUS
  <2>2. wrap(t - f) \in Int  BY <2>1, WrapTakesOff
  <2>3. Abs(wrap(t - f)) <= 1
    <3>. DEFINE w == wrap(t - f)
    <3>1. w \in Int /\ ~(Abs(w) > 1)  BY <1>2, <2>2 DEF HeadTol
    <3>. HIDE DEF w
    <3>2. Abs(w) <= 1  BY <3>1 DEF Abs
    <3>. QED  BY <3>2 DEF w
  <2>4. Faces(f, t, 1)  BY <2>3, FacesBack
  <2>5. wrap(a) \in -1 .. 1 /\ wrap(b) \in -1 .. 1  BY <1>0, <2>4 DEF Faces
  <2>6. Abs(wrap(a)) <= 1 /\ Abs(wrap(b)) <= 1
    <3>. HIDE DEF a, b
    <3>. QED  BY <2>5 DEF Abs
  <2>7. Abs(wrap(a + b)) <= 2
    <3>. HIDE DEF a, b
    <3>. QED  BY <2>1, <2>6, WrapTwo
  <2>8. wrap(h - t) \in -2 .. 2
    <3>. DEFINE w == wrap(h - t)
    <3>1. h - t \in Int  OBVIOUS
    <3>2. w \in Int  BY <3>1, WrapTakesOff
    <3>3. Abs(w) <= 2  BY <2>1, <2>7
    <3>. HIDE DEF w
    <3>4. w \in -2 .. 2  BY <3>2, <3>3 DEF Abs
    <3>. QED  BY <3>4 DEF w
  <2>9. OntoFrom(h, f, t) = h  BY <1>2 DEF OntoFrom
  <2>. QED  BY <2>8, <2>9 DEF Faces
<1>. QED  BY <1>1, <1>2

LEMMA FacesNearest ==
  ASSUME NEW h \in Int, NEW q \in Bearings, Faces(h, q, 1)
  PROVE  Nearest(h) = q
<1>. DEFINE w == wrap(h - q)
<1>1. w \in -1 .. 1  BY DEF Faces
<1>2. Abs(w) <= 44
  <2>. HIDE DEF w
  <2>. QED  BY <1>1 DEF Abs
<1>. QED  BY <1>2, NearestIs

LEMMA OneMoveOnly ==
  ASSUME NEW pose, NEW a \in BOOLEAN, NEW m \in Moves
  PROVE  /\ apply(pose, If(a, m)) = Do(a, m, AtStart(pose))
         /\ rotation_cost(If(a, m)) = Turned(a, m)
<1>1. If(a, m) \o If(FALSE, m) \o If(FALSE, m) = If(a, m)
  <2>1. If(FALSE, m) = <<>>  BY DEF If
  <2>2. If(a, m) \in Seq(Moves)  BY DEF If
  <2>. QED  BY <2>1, <2>2, ConcatEmptySeq
<1>2. /\ apply(pose, If(a, m) \o If(FALSE, m) \o If(FALSE, m)) = Do(FALSE, m, Do(FALSE, m, Do(a, m, AtStart(pose))))
      /\ rotation_cost(If(a, m) \o If(FALSE, m) \o If(FALSE, m)) = Turned(a, m) + Turned(FALSE, m) + Turned(FALSE, m)
  <2>. DEFINE no == FALSE
  <2>1. no \in BOOLEAN  OBVIOUS
  <2>. HIDE DEF no
  <2>2. /\ apply(pose, If(a, m) \o If(no, m) \o If(no, m)) = Do(no, m, Do(no, m, Do(a, m, AtStart(pose))))
        /\ rotation_cost(If(a, m) \o If(no, m) \o If(no, m)) = Turned(a, m) + Turned(no, m) + Turned(no, m)
    BY <2>1, ThreeMoves
  <2>. QED  BY <2>2 DEF no
<1>. DEFINE t == Turned(a, m)
<1>3. t \in Int /\ Turned(FALSE, m) = 0  BY DEF Turned, Moves, Abs
<1>. HIDE DEF t
<1>4. t + 0 + 0 = t  BY <1>3
<1>5. Do(FALSE, m, Do(FALSE, m, Do(a, m, AtStart(pose)))) = Do(a, m, AtStart(pose))  BY DEF Do
<1>6. Turned(a, m) + Turned(FALSE, m) + Turned(FALSE, m) = Turned(a, m)  BY <1>3, <1>4 DEF t
<1>. QED  BY <1>1, <1>2, <1>5, <1>6

States == [x : Int, y : Int, h : Int, drift : Nat]

LEMMA PivotMoves ==
  ASSUME NEW s \in States, NEW v \in Int
  PROVE  LET r == OneMove(s, Move("pivot", v)) IN
         r \in States /\ r.x = s.x /\ r.y = s.y /\ r.h = wrap(s.h + v) /\ r.drift = s.drift
<1>. DEFINE r == OneMove(s, Move("pivot", v))
            w == wrap(s.h + v)
<1>1. s.h \in Int /\ s.x \in Int /\ s.y \in Int /\ s.drift \in Nat  BY DEF States
<1>2. w \in Int
  <2>1. s.h + v \in Int  BY <1>1
  <2>. QED  BY <2>1, WrapTakesOff
<1>3. r = [s EXCEPT !.h = wrap(@ + v)]  BY DEF OneMove, Move
<1>4. [s EXCEPT !.h = wrap(@ + v)] = [s EXCEPT !.h = w]  OBVIOUS
<1>. HIDE DEF r, w
<1>5. r = [s EXCEPT !.h = w]  BY <1>3, <1>4
<1>6. r \in States /\ r.x = s.x /\ r.y = s.y /\ r.h = w /\ r.drift = s.drift  BY <1>1, <1>2, <1>5 DEF States
<1>. QED  BY <1>6 DEF r, w

LEMMA DriveMoves ==
  ASSUME NEW s \in States, NEW q \in Bearings, Nearest(s.h) = q, NEW v \in Int
  PROVE  LET r == OneMove(s, Move("drive", v)) IN
         r \in States /\ r.x = s.x + v * Cos(q) /\ r.y = s.y + v * Sin(q) /\ r.h = s.h
<1>. DEFINE r == OneMove(s, Move("drive", v))
            more == (Abs(v) * Abs(wrap(s.h - q)) + 59) \div 60
            dx == v * Cos(q)
            dy == v * Sin(q)
<1>1. s.h \in Int /\ s.x \in Int /\ s.y \in Int /\ s.drift \in Nat  BY DEF States
<1>2. dx \in Int /\ dy \in Int
  <2>1. Cos(q) \in Int /\ Sin(q) \in Int  BY UnitSteps
  <2>. QED  BY <2>1
<1>3. more \in Nat
  <2>1. s.h - q \in Int  BY <1>1 DEF Bearings
  <2>2. wrap(s.h - q) \in Int  BY <2>1, WrapTakesOff
  <2>. DEFINE a == Abs(v)
              b == Abs(wrap(s.h - q))
              p == a * b
  <2>3. a \in Nat /\ b \in Nat  BY <2>2 DEF Abs
  <2>. HIDE DEF a, b
  <2>4. p \in Nat
    <3>1. \A i, j \in Nat : i * j \in Nat  OBVIOUS
    <3>. QED  BY <2>3, <3>1
  <2>5. more = (p + 59) \div 60  BY DEF a, b
  <2>. HIDE DEF p, more
  <2>6. (p + 59) \div 60 \in Nat  BY <2>4
  <2>. QED  BY <2>5, <2>6
<1>4. r = [s EXCEPT !.x = @ + dx, !.y = @ + dy, !.drift = @ + more]
  <2>1. Move("drive", v).kind # "pivot" /\ Move("drive", v).value = v  BY DEF Move
  <2>. QED  BY <2>1 DEF OneMove
<1>. HIDE DEF r, more, dx, dy
<1>5. r = [x |-> s.x + dx, y |-> s.y + dy, h |-> s.h, drift |-> s.drift + more]  BY <1>4 DEF States
<1>6. s.x + dx \in Int /\ s.y + dy \in Int /\ s.drift + more \in Nat  BY <1>1, <1>2, <1>3
<1>7. r \in States /\ r.x = s.x + dx /\ r.y = s.y + dy /\ r.h = s.h  BY <1>1, <1>5, <1>6 DEF States
<1>. QED  BY <1>7 DEF r, dx, dy

LEMMA AtStartIs ==
  ASSUME NEW pose \in Posed
  PROVE  /\ AtStart(pose) \in States
         /\ AtStart(pose).x = pose.x /\ AtStart(pose).y = pose.y /\ AtStart(pose).h = pose.h
BY DEF AtStart, States, Posed

\* What PlansPark says of a plan.
Plans(pose, goal, moves) ==
    LET end == apply(pose, moves) IN
    /\ rotation_cost(moves) <= 180
    /\ Parked(pose, goal) \/ rotation_cost(moves) <= Rotation(Leg(pose, goal, FALSE))
    /\ Dist(end, goal) <= PosTol + CrossTol + end.drift
    /\ Abs(wrap(end.h - goal.h)) <= 2 * HeadTol

GoalPoses == [x : Int, y : Int, h : Bearings]

\* In a circle of five, five on the one axis and five on the other are too far.
LEMMA ParkedIsNear ==
  ASSUME NEW pose \in Posed, NEW goal \in GoalPoses, Parked(pose, goal)
  PROVE  Dist(pose, goal) <= 9
<1>. DEFINE a == Abs(goal.x - pose.x)
            b == Abs(goal.y - pose.y)
<1>1. a \in Nat /\ b \in Nat /\ a * a + b * b <= 25
  <2>. DEFINE dx == goal.x - pose.x
              dy == goal.y - pose.y
  <2>1. dx \in Int /\ dy \in Int  BY DEF Posed, GoalPoses
  <2>2. dx * dx + dy * dy <= 25  BY DEF Parked, Off, Square, PosTol
  <2>. HIDE DEF dx, dy
  <2>3. Abs(dx) * Abs(dx) = dx * dx /\ Abs(dy) * Abs(dy) = dy * dy /\ Abs(dx) \in Nat /\ Abs(dy) \in Nat
    BY <2>1 DEF Abs
  <2>. QED  BY <2>2, <2>3 DEF dx, dy
<1>. HIDE DEF a, b
<1>2. a <= 5 /\ b <= 5
  <2>1. a >= 6 => a * a >= 36 /\ b * b >= 0  BY <1>1
  <2>2. b >= 6 => b * b >= 36 /\ a * a >= 0  BY <1>1
  <2>. QED  BY <1>1, <2>1, <2>2
<1>3. a \in 0 .. 5 /\ b \in 0 .. 5  BY <1>1, <1>2
<1>4. a + b <= 9
  <2>. SUFFICES ASSUME a + b >= 10 PROVE FALSE  BY <1>3
  <2>1. a = 5 /\ b = 5  BY <1>3
  <2>. QED  BY <1>1, <2>1
<1>. QED  BY <1>4 DEF Dist, a, b

LEMMA AbsIsNat ==
  ASSUME NEW d \in Int
  PROVE  Abs(wrap(d)) \in 0 .. 180 /\ Abs(d) \in Nat /\ wrap(d) \in Int
<1>. DEFINE w == wrap(d)
<1>1. w \in -179 .. 180  BY WrapTakesOff
<1>. HIDE DEF w
<1>2. Abs(w) \in 0 .. 180 /\ w \in Int  BY <1>1 DEF Abs
<1>3. Abs(d) \in Nat  BY DEF Abs
<1>. QED  BY <1>2, <1>3 DEF w

\* From Faces to the two angles PlansPark looks at.
LEMMA FacesWithin ==
  ASSUME NEW h \in Int, NEW t \in Int, NEW d \in {1, 2}, Faces(h, t, d)
  PROVE  Abs(wrap(h - t)) <= 2
<1>. DEFINE w == wrap(h - t)
<1>1. w \in -d .. d  BY DEF Faces
<1>. HIDE DEF w
<1>2. Abs(w) <= 2  BY <1>1 DEF Abs
<1>. QED  BY <1>2 DEF w

LEMMA RotationIsNat ==
  ASSUME NEW pose \in Posed, NEW goal \in GoalPoses, NEW reverse \in BOOLEAN
  PROVE  Rotation(Leg(pose, goal, reverse)) \in Nat
<1>. DEFINE f == IF reverse THEN wrap(Bearing(pose, goal) + 180) ELSE Bearing(pose, goal)
<1>1. f \in Int
  <2>. DEFINE b == Bearing(pose, goal)
              g == wrap(b + 180)
  <2>1. b \in Int /\ b + 180 \in Int  BY DEF Bearing
  <2>2. f = IF reverse THEN g ELSE b  OBVIOUS
  <2>. HIDE DEF b, f
  <2>3. g \in Int  BY <2>1, AbsIsNat
  <2>. HIDE DEF g
  <2>. QED  BY <2>1, <2>2, <2>3
<1>. HIDE DEF f
<1>2. pose.h \in Int /\ goal.h \in Int  BY DEF Posed, GoalPoses, Bearings
<1>3. f - pose.h \in Int /\ goal.h - f \in Int  BY <1>1, <1>2
<1>. DEFINE a == Abs(wrap(f - pose.h))
            b == Abs(wrap(goal.h - f))
<1>4. a \in 0 .. 180 /\ b \in 0 .. 180  BY <1>3, AbsIsNat
<1>5. Rotation(Leg(pose, goal, reverse)) = a + b  BY DEF Rotation, Leg, f
<1>. HIDE DEF a, b
<1>. QED  BY <1>4, <1>5

LEMMA ParkedPlan ==
  ASSUME NEW pose \in Posed, NEW goal \in GoalPoses, Parked(pose, goal)
  PROVE  Plans(pose, goal, plan(pose, goal))
<1>. DEFINE v == wrap(goal.h - pose.h)
            cond == Abs(v) > HeadTol
            m == Move("pivot", v)
            moves == If(cond, m)
            s == AtStart(pose)
            end == apply(pose, moves)
<1>1. pose.h \in Int /\ goal.h \in Int /\ goal.h - pose.h \in Int  BY DEF Posed, GoalPoses, Bearings
<1>2. Abs(v) \in 0 .. 180 /\ v \in Int  BY <1>1, AbsIsNat
<1>3. cond \in BOOLEAN /\ m \in Moves /\ m.kind = "pivot" /\ m.value = v  BY <1>2 DEF Moves, Move
<1>4. plan(pose, goal) = moves  BY DEF plan
<1>5. end = Do(cond, m, s) /\ rotation_cost(moves) = Turned(cond, m)
  <2>. HIDE DEF cond, m
  <2>. QED  BY <1>3, OneMoveOnly
<1>6. s \in States /\ s.x = pose.x /\ s.y = pose.y /\ s.h = pose.h  BY AtStartIs
<1>7. rotation_cost(moves) <= 180
  <2>1. CASE cond
    <3>1. Turned(cond, m) = Abs(v)  BY <1>3, <2>1 DEF Turned
    <3>. HIDE DEF v
    <3>. QED  BY <1>2, <1>5, <3>1
  <2>2. CASE ~cond
    <3>1. Turned(cond, m) = 0  BY <2>2 DEF Turned
    <3>. QED  BY <1>5, <3>1
  <2>. QED  BY <2>1, <2>2
<1>8. end \in States /\ end.x = pose.x /\ end.y = pose.y /\ end.h = Onto(pose.h, goal.h)
  <2>1. CASE cond
    <3>1. end = OneMove(s, m)  BY <1>5, <2>1 DEF Do
    <3>2. Onto(pose.h, goal.h) = wrap(pose.h + v)  BY <2>1 DEF Onto
    <3>. HIDE DEF v, s
    <3>. QED  BY <1>2, <1>6, <3>1, <3>2, PivotMoves
  <2>2. CASE ~cond
    <3>1. end = s  BY <1>5, <2>2 DEF Do
    <3>2. Onto(pose.h, goal.h) = pose.h  BY <2>2 DEF Onto
    <3>. QED  BY <1>6, <3>1, <3>2
  <2>. QED  BY <2>1, <2>2
<1>. HIDE DEF end, moves
<1>9. Abs(wrap(end.h - goal.h)) <= 2
  <2>1. end.h \in Int /\ Faces(end.h, goal.h, 1)  BY <1>1, <1>8, OntoFaces
  <2>. QED  BY <1>1, <2>1, FacesWithin
<1>10. Dist(end, goal) <= 9 + end.drift
  <2>. DEFINE d == Dist(end, goal)
  <2>1. d = Dist(pose, goal)  BY <1>8 DEF Dist
  <2>2. d <= 9  BY <2>1, ParkedIsNear
  <2>3. d \in Int /\ end.drift \in Nat  BY <1>8 DEF Dist, Abs, States, GoalPoses
  <2>. HIDE DEF d
  <2>4. d <= 9 + end.drift  BY <2>2, <2>3
  <2>. QED  BY <2>4 DEF d
<1>11. Dist(end, goal) <= PosTol + CrossTol + end.drift
  <2>1. PosTol + CrossTol = 9  BY DEF PosTol, CrossTol
  <2>. QED  BY <1>10, <2>1
<1>12. Abs(wrap(end.h - goal.h)) <= 2 * HeadTol  BY <1>9 DEF HeadTol
<1>. QED  BY <1>4, <1>7, <1>11, <1>12 DEF Plans, end

\* Along and across a bearing, and what is left after driving along.
LEMMA AlongAcross ==
  ASSUME NEW q \in Bearings, NEW dx \in Int, NEW dy \in Int
  PROVE  LET along == Cos(q) * dx + Sin(q) * dy
             cross == Cos(q) * dy - Sin(q) * dx IN
         /\ along \in Int /\ cross \in Int
         /\ Abs(dx) + Abs(dy) = Abs(along) + Abs(cross)
         /\ Abs(dx - along * Cos(q)) + Abs(dy - along * Sin(q)) = Abs(cross)
<1>1. CASE q = 0
  <2>1. Cos(q) = 1 /\ Sin(q) = 0  BY <1>1 DEF Cos, Sin
  <2>. QED  BY <2>1 DEF Abs
<1>2. CASE q = 90
  <2>1. Cos(q) = 0 /\ Sin(q) = 1  BY <1>2 DEF Cos, Sin
  <2>. QED  BY <2>1 DEF Abs
<1>3. CASE q = 180
  <2>1. Cos(q) = -1 /\ Sin(q) = 0  BY <1>3 DEF Cos, Sin
  <2>. QED  BY <2>1 DEF Abs
<1>4. CASE q = -90
  <2>1. Cos(q) = 0 /\ Sin(q) = -1  BY <1>4 DEF Cos, Sin
  <2>. QED  BY <2>1 DEF Abs
<1>. QED  BY <1>1, <1>2, <1>3, <1>4 DEF Bearings

LEMMA AimedPlan ==
  ASSUME NEW pose \in Posed, NEW goal \in GoalPoses, ~Parked(pose, goal), Aimed(pose, goal)
  PROVE  Plans(pose, goal, plan(pose, goal))
<1>. DEFINE q == goal.h
            dx == goal.x - pose.x
            dy == goal.y - pose.y
            along == Along(pose, goal)
            cross == Cross(pose, goal)
            cond == Abs(along) > PosTol
            m == Move("drive", along)
            moves == If(cond, m)
            s == AtStart(pose)
            end == apply(pose, moves)
<1>1. pose.h \in Int /\ q \in Int /\ q \in Bearings  BY DEF Posed, GoalPoses, Bearings
<1>2. dx \in Int /\ dy \in Int  BY DEF Posed, GoalPoses
<1>3. along = Cos(q) * dx + Sin(q) * dy /\ cross = Cos(q) * dy - Sin(q) * dx  BY DEF Along, Cross, Off
<1>4. /\ along \in Int /\ cross \in Int
      /\ Abs(dx) + Abs(dy) = Abs(along) + Abs(cross)
      /\ Abs(dx - along * Cos(q)) + Abs(dy - along * Sin(q)) = Abs(cross)
  <2>. HIDE DEF dx, dy, along, cross, q
  <2>. QED  BY <1>1, <1>2, <1>3, AlongAcross
<1>5. Abs(wrap(q - pose.h)) <= 1 /\ Abs(cross) <= 4  BY DEF Aimed, HeadTol, CrossTol
<1>6. Faces(pose.h, q, 1)
  <2>. HIDE DEF q
  <2>. QED  BY <1>1, <1>5, FacesBack
<1>7. Nearest(pose.h) = q  BY <1>1, <1>6, FacesNearest
<1>8. cond \in BOOLEAN /\ m \in Moves /\ m.kind = "drive"
  <2>. HIDE DEF along
  <2>. QED  BY <1>4 DEF Moves, Move
<1>9. plan(pose, goal) = moves  BY DEF plan
<1>10. end = Do(cond, m, s) /\ rotation_cost(moves) = Turned(cond, m)
  <2>. HIDE DEF cond, m
  <2>. QED  BY <1>8, OneMoveOnly
<1>11. s \in States /\ s.x = pose.x /\ s.y = pose.y /\ s.h = pose.h  BY AtStartIs
<1>12. rotation_cost(moves) = 0  BY <1>8, <1>10 DEF Turned
<1>. HIDE DEF along, cross, dx, dy, q
<1>13. /\ end \in States /\ end.h = pose.h
       /\ Abs(goal.x - end.x) + Abs(goal.y - end.y) <= 9
  <2>1. CASE cond
    <3>1. end = OneMove(s, m)  BY <1>10, <2>1 DEF Do
    <3>. HIDE DEF s
    <3>2. end \in States /\ end.x = s.x + along * Cos(q) /\ end.y = s.y + along * Sin(q) /\ end.h = s.h
      BY <1>1, <1>4, <1>7, <1>11, <3>1, DriveMoves
    <3>3. Cos(q) \in Int /\ Sin(q) \in Int  BY <1>1, UnitSteps
    <3>. DEFINE mx == along * Cos(q)
                my == along * Sin(q)
    <3>4. mx \in Int /\ my \in Int  BY <1>4, <3>3
    <3>. HIDE DEF mx, my
    <3>5. end.x = pose.x + mx /\ end.y = pose.y + my /\ pose.x \in Int /\ pose.y \in Int /\ goal.x \in Int /\ goal.y \in Int
      BY <1>11, <3>2 DEF mx, my, Posed, GoalPoses
    <3>6. goal.x - end.x = dx - mx /\ goal.y - end.y = dy - my  BY <3>4, <3>5 DEF dx, dy
    <3>7. Abs(dx - mx) + Abs(dy - my) = Abs(cross)  BY <1>4 DEF mx, my
    <3>8. Abs(cross) <= 9  BY <1>4, <1>5 DEF Abs
    <3>. QED  BY <1>11, <3>2, <3>6, <3>7, <3>8
  <2>2. CASE ~cond
    <3>1. end = s  BY <1>10, <2>2 DEF Do
    <3>2. goal.x - end.x = dx /\ goal.y - end.y = dy  BY <1>11, <3>1 DEF dx, dy
    <3>3. Abs(along) \in Nat /\ Abs(cross) \in Nat  BY <1>4, AbsIsNat
    <3>4. Abs(along) <= 5  BY <2>2, <3>3 DEF PosTol
    <3>5. Abs(dx) + Abs(dy) <= 9  BY <1>4, <1>5, <3>3, <3>4
    <3>. QED  BY <1>11, <3>1, <3>2, <3>5
  <2>. QED  BY <2>1, <2>2
<1>. HIDE DEF end, moves
<1>14. Dist(end, goal) <= PosTol + CrossTol + end.drift
  <2>. DEFINE d == Dist(end, goal)
  <2>1. d <= 9  BY <1>13 DEF Dist
  <2>2. d \in Int /\ end.drift \in Nat  BY <1>13 DEF Dist, Abs, States, GoalPoses
  <2>3. PosTol + CrossTol = 9  BY DEF PosTol, CrossTol
  <2>. HIDE DEF d
  <2>4. d <= 9 + end.drift  BY <2>1, <2>2
  <2>. QED  BY <2>3, <2>4 DEF d
<1>15. Abs(wrap(end.h - goal.h)) <= 2 * HeadTol
  <2>1. Faces(end.h, goal.h, 1) /\ end.h \in Int /\ goal.h \in Int  BY <1>1, <1>6, <1>13 DEF q
  <2>2. Abs(wrap(end.h - goal.h)) <= 2  BY <2>1, FacesWithin
  <2>. QED  BY <2>2 DEF HeadTol
<1>16. rotation_cost(moves) <= 180 /\ rotation_cost(moves) <= Rotation(Leg(pose, goal, FALSE))
  <2>1. Rotation(Leg(pose, goal, FALSE)) \in Nat
    <3>. DEFINE no == FALSE
    <3>1. no \in BOOLEAN  OBVIOUS
    <3>. HIDE DEF no
    <3>2. Rotation(Leg(pose, goal, no)) \in Nat  BY <3>1, RotationIsNat
    <3>. QED  BY <3>2 DEF no
  <2>. DEFINE r == Rotation(Leg(pose, goal, FALSE))
  <2>. HIDE DEF r
  <2>2. r \in Nat  BY <2>1 DEF r
  <2>3. 0 <= 180 /\ 0 <= r  BY <2>2
  <2>. QED  BY <1>12, <2>3 DEF r
<1>. QED  BY <1>9, <1>14, <1>15, <1>16 DEF Plans, end

\* The bearing of a target on a line of the grid, and the one behind.
BearingGood(pose, goal, b) ==
    /\ b \in Bearings /\ wrap(b + 180) \in Bearings
    /\ Dist(pose, goal) * Cos(b) = goal.x - pose.x
    /\ Dist(pose, goal) * Sin(b) = goal.y - pose.y
    /\ Cos(wrap(b + 180)) = -Cos(b) /\ Sin(wrap(b + 180)) = -Sin(b)

LEMMA Behind ==
  ASSUME NEW b \in Bearings
  PROVE  /\ wrap(b + 180) \in Bearings
         /\ Cos(wrap(b + 180)) = -Cos(b) /\ Sin(wrap(b + 180)) = -Sin(b)
<1>1. CASE b = 0
  <2>1. b + 180 \in -179 .. 180 /\ b + 180 = 180  BY <1>1
  <2>2. wrap(b + 180) = 180  BY <2>1, WrapSmall
  <2>5. Cos(b) = 1 /\ Sin(b) = 0  BY <1>1 DEF Cos, Sin
  <2>. DEFINE g == wrap(b + 180)
  <2>. HIDE DEF g
  <2>6. g = 180  BY <2>2 DEF g
  <2>7. Cos(g) = -1 /\ Sin(g) = 0 /\ g \in Bearings  BY <2>6 DEF Cos, Sin, Bearings
  <2>. DEFINE c0 == Cos(b)
              s0 == Sin(b)
              c1 == Cos(g)
              s1 == Sin(g)
  <2>8. c1 = -c0 /\ s1 = -s0
    <3>1. c0 = Cos(b) /\ s0 = Sin(b) /\ c1 = Cos(g) /\ s1 = Sin(g)  OBVIOUS
    <3>. HIDE DEF c0, s0, c1, s1
    <3>2. c0 = 1 /\ s0 = 0 /\ c1 = -1 /\ s1 = 0  BY <2>5, <2>7, <3>1
    <3>3. c0 \in Int /\ s0 \in Int /\ c1 \in Int /\ s1 \in Int  BY <3>2
    <3>4. c1 + c0 = 0 /\ s1 + s0 = 0  BY <3>2
    <3>. QED  BY <3>3, <3>4
  <2>. QED  BY <2>7, <2>8 DEF g
<1>2. CASE b = 90
  <2>. DEFINE w == -90
              j == -1
              d == b + 180
  <2>1. d \in Int /\ w \in -179 .. 180 /\ j \in Int /\ w = d + 360 * j  BY <1>2
  <2>. HIDE DEF w, j, d
  <2>2. wrap(d) = w  BY <2>1, WrapIs
  <2>3. wrap(b + 180) = -90  BY <2>2 DEF w, d
  <2>5. Cos(b) = 0 /\ Sin(b) = 1  BY <1>2 DEF Cos, Sin
  <2>. DEFINE g == wrap(b + 180)
  <2>. HIDE DEF g
  <2>6. g = -90  BY <2>3 DEF g
  <2>7. Cos(g) = 0 /\ Sin(g) = -1 /\ g \in Bearings  BY <2>6 DEF Cos, Sin, Bearings
  <2>. DEFINE c0 == Cos(b)
              s0 == Sin(b)
              c1 == Cos(g)
              s1 == Sin(g)
  <2>8. c1 = -c0 /\ s1 = -s0
    <3>1. c0 = Cos(b) /\ s0 = Sin(b) /\ c1 = Cos(g) /\ s1 = Sin(g)  OBVIOUS
    <3>. HIDE DEF c0, s0, c1, s1
    <3>2. c0 = 0 /\ s0 = 1 /\ c1 = 0 /\ s1 = -1  BY <2>5, <2>7, <3>1
    <3>3. c0 \in Int /\ s0 \in Int /\ c1 \in Int /\ s1 \in Int  BY <3>2
    <3>4. c1 + c0 = 0 /\ s1 + s0 = 0  BY <3>2
    <3>. QED  BY <3>3, <3>4
  <2>. QED  BY <2>7, <2>8 DEF g
<1>3. CASE b = 180
  <2>. DEFINE w == 0
              j == -1
              d == b + 180
  <2>1. d \in Int /\ w \in -179 .. 180 /\ j \in Int /\ w = d + 360 * j  BY <1>3
  <2>. HIDE DEF w, j, d
  <2>2. wrap(d) = w  BY <2>1, WrapIs
  <2>3. wrap(b + 180) = 0  BY <2>2 DEF w, d
  <2>5. Cos(b) = -1 /\ Sin(b) = 0  BY <1>3 DEF Cos, Sin
  <2>. DEFINE g == wrap(b + 180)
  <2>. HIDE DEF g
  <2>6. g = 0  BY <2>3 DEF g
  <2>7. Cos(g) = 1 /\ Sin(g) = 0 /\ g \in Bearings  BY <2>6 DEF Cos, Sin, Bearings
  <2>. DEFINE c0 == Cos(b)
              s0 == Sin(b)
              c1 == Cos(g)
              s1 == Sin(g)
  <2>8. c1 = -c0 /\ s1 = -s0
    <3>1. c0 = Cos(b) /\ s0 = Sin(b) /\ c1 = Cos(g) /\ s1 = Sin(g)  OBVIOUS
    <3>. HIDE DEF c0, s0, c1, s1
    <3>2. c0 = -1 /\ s0 = 0 /\ c1 = 1 /\ s1 = 0  BY <2>5, <2>7, <3>1
    <3>3. c0 \in Int /\ s0 \in Int /\ c1 \in Int /\ s1 \in Int  BY <3>2
    <3>4. c1 + c0 = 0 /\ s1 + s0 = 0  BY <3>2
    <3>. QED  BY <3>3, <3>4
  <2>. QED  BY <2>7, <2>8 DEF g
<1>4. CASE b = -90
  <2>1. b + 180 \in -179 .. 180 /\ b + 180 = 90  BY <1>4
  <2>2. wrap(b + 180) = 90  BY <2>1, WrapSmall
  <2>5. Cos(b) = 0 /\ Sin(b) = -1  BY <1>4 DEF Cos, Sin
  <2>. DEFINE g == wrap(b + 180)
  <2>. HIDE DEF g
  <2>6. g = 90  BY <2>2 DEF g
  <2>7. Cos(g) = 0 /\ Sin(g) = 1 /\ g \in Bearings  BY <2>6 DEF Cos, Sin, Bearings
  <2>. DEFINE c0 == Cos(b)
              s0 == Sin(b)
              c1 == Cos(g)
              s1 == Sin(g)
  <2>8. c1 = -c0 /\ s1 = -s0
    <3>1. c0 = Cos(b) /\ s0 = Sin(b) /\ c1 = Cos(g) /\ s1 = Sin(g)  OBVIOUS
    <3>. HIDE DEF c0, s0, c1, s1
    <3>2. c0 = 0 /\ s0 = -1 /\ c1 = 0 /\ s1 = 1  BY <2>5, <2>7, <3>1
    <3>3. c0 \in Int /\ s0 \in Int /\ c1 \in Int /\ s1 \in Int  BY <3>2
    <3>4. c1 + c0 = 0 /\ s1 + s0 = 0  BY <3>2
    <3>. QED  BY <3>3, <3>4
  <2>. QED  BY <2>7, <2>8 DEF g
<1>. QED  BY <1>1, <1>2, <1>3, <1>4 DEF Bearings

LEMMA BearingIs ==
  ASSUME NEW pose \in Posed, NEW goal \in GoalPoses, pose.x = goal.x \/ pose.y = goal.y
  PROVE  BearingGood(pose, goal, Bearing(pose, goal))
<1>. DEFINE b == Bearing(pose, goal)
            dx == goal.x - pose.x
            dy == goal.y - pose.y
            d == Dist(pose, goal)
<1>1. pose.x \in Int /\ pose.y \in Int /\ goal.x \in Int /\ goal.y \in Int  BY DEF Posed, GoalPoses
<1>2. dx \in Int /\ dy \in Int /\ (dx = 0 \/ dy = 0) /\ d = Abs(dx) + Abs(dy)  BY <1>1 DEF Dist
<1>3. b = IF dy = 0 THEN (IF dx < 0 THEN 180 ELSE 0) ELSE IF dy < 0 THEN -90 ELSE 90
  BY <1>1 DEF Bearing
<1>4. b \in Bearings  BY <1>3 DEF Bearings
<1>. HIDE DEF b, dx, dy, d
<1>5. d * Cos(b) = dx /\ d * Sin(b) = dy
  <2>1. CASE dy = 0 /\ dx < 0
    <3>1. d = -dx /\ Cos(b) = -1 /\ Sin(b) = 0  BY <1>2, <1>3, <2>1 DEF Abs, Cos, Sin
    <3>. QED  BY <1>2, <2>1, <3>1
  <2>2. CASE dy = 0 /\ ~(dx < 0)
    <3>1. d = dx /\ Cos(b) = 1 /\ Sin(b) = 0  BY <1>2, <1>3, <2>2 DEF Abs, Cos, Sin
    <3>. QED  BY <1>2, <2>2, <3>1
  <2>3. CASE dy # 0 /\ dy < 0
    <3>1. d = -dy /\ Cos(b) = 0 /\ Sin(b) = -1 /\ dx = 0  BY <1>2, <1>3, <2>3 DEF Abs, Cos, Sin
    <3>. QED  BY <1>2, <2>3, <3>1
  <2>4. CASE dy # 0 /\ ~(dy < 0)
    <3>1. d = dy /\ Cos(b) = 0 /\ Sin(b) = 1 /\ dx = 0  BY <1>2, <1>3, <2>4 DEF Abs, Cos, Sin
    <3>. QED  BY <1>2, <2>4, <3>1
  <2>. QED  BY <2>1, <2>2, <2>3, <2>4
<1>6. /\ wrap(b + 180) \in Bearings
      /\ Cos(wrap(b + 180)) = -Cos(b) /\ Sin(wrap(b + 180)) = -Sin(b)
  BY <1>4, Behind
<1>. QED  BY <1>4, <1>5, <1>6 DEF BearingGood, b, d, dx, dy

\* A leg to the goal, over the bearing it is driven on.
LegGood(pose, goal, leg, face) ==
    /\ face \in Bearings
    /\ leg.turn1 = wrap(face - pose.h) /\ leg.turn2 = wrap(goal.h - face)
    /\ leg.drive \in Int /\ Abs(leg.drive) = Dist(pose, goal)
    /\ leg.drive * Cos(face) = goal.x - pose.x /\ leg.drive * Sin(face) = goal.y - pose.y

LEMMA LegsAreGood ==
  ASSUME NEW pose \in Posed, NEW goal \in GoalPoses, pose.x = goal.x \/ pose.y = goal.y
  PROVE  /\ LegGood(pose, goal, Leg(pose, goal, FALSE), Bearing(pose, goal))
         /\ LegGood(pose, goal, Leg(pose, goal, TRUE), wrap(Bearing(pose, goal) + 180))
<1>. DEFINE b == Bearing(pose, goal)
            f == wrap(b + 180)
            d == Dist(pose, goal)
            dx == goal.x - pose.x
            dy == goal.y - pose.y
            ahead == Leg(pose, goal, FALSE)
            astern == Leg(pose, goal, TRUE)
<1>1. BearingGood(pose, goal, b)  BY BearingIs
<1>2. /\ b \in Bearings /\ f \in Bearings /\ d * Cos(b) = dx /\ d * Sin(b) = dy
      /\ Cos(f) = -Cos(b) /\ Sin(f) = -Sin(b)
  BY <1>1 DEF BearingGood
<1>3. d \in Nat /\ dx \in Int /\ dy \in Int  BY DEF Dist, Abs, Posed, GoalPoses
<1>4. ahead = [turn1 |-> wrap(b - pose.h), drive |-> d, turn2 |-> wrap(goal.h - b)]
  BY DEF Leg
<1>5. astern = [turn1 |-> wrap(f - pose.h), drive |-> -d, turn2 |-> wrap(goal.h - f)]
  BY DEF Leg
<1>. HIDE DEF b, f, d, dx, dy, ahead, astern
<1>6. Abs(d) = d /\ Abs(-d) = d /\ -d \in Int  BY <1>3 DEF Abs
<1>7. (-d) * Cos(f) = dx /\ (-d) * Sin(f) = dy
  <2>. DEFINE c == Cos(b)
              s == Sin(b)
  <2>1. c \in Int /\ s \in Int  BY <1>2, UnitSteps
  <2>. HIDE DEF c, s
  <2>2. (-d) * (-c) = d * c /\ (-d) * (-s) = d * s  BY <1>3, <2>1
  <2>. QED  BY <1>2, <2>2 DEF c, s
<1>8. LegGood(pose, goal, ahead, b)
  <2>1. ahead.turn1 = wrap(b - pose.h) /\ ahead.drive = d /\ ahead.turn2 = wrap(goal.h - b)  BY <1>4
  <2>2. ahead.drive * Cos(b) = goal.x - pose.x /\ ahead.drive * Sin(b) = goal.y - pose.y  BY <1>2, <2>1 DEF dx, dy
  <2>3. ahead.drive \in Int /\ Abs(ahead.drive) = Dist(pose, goal)  BY <1>3, <1>6, <2>1 DEF d
  <2>. QED  BY <1>2, <2>1, <2>2, <2>3 DEF LegGood
<1>9. LegGood(pose, goal, astern, f)
  <2>1. astern.turn1 = wrap(f - pose.h) /\ astern.drive = -d /\ astern.turn2 = wrap(goal.h - f)  BY <1>5
  <2>2. astern.drive * Cos(f) = goal.x - pose.x /\ astern.drive * Sin(f) = goal.y - pose.y  BY <1>7, <2>1 DEF dx, dy
  <2>3. astern.drive \in Int /\ Abs(astern.drive) = Dist(pose, goal)  BY <1>6, <2>1 DEF d
  <2>. QED  BY <1>2, <2>1, <2>2, <2>3 DEF LegGood
<1>. QED  BY <1>8, <1>9 DEF b, f, ahead, astern

LegMoves(leg) ==
    If(Abs(leg.turn1) > HeadTol, Move("pivot", leg.turn1))
    \o If(Abs(leg.drive) > PosTol, Move("drive", leg.drive))
    \o If(Abs(leg.turn2) > HeadTol, Move("pivot", leg.turn2))

\* A good leg ends at the goal, up to a drive not worth making.
LEMMA LegParks ==
  ASSUME NEW pose \in Posed, NEW goal \in GoalPoses, NEW leg, NEW face, LegGood(pose, goal, leg, face)
  PROVE  LET end == apply(pose, LegMoves(leg)) IN
         /\ rotation_cost(LegMoves(leg)) <= Rotation(leg) /\ rotation_cost(LegMoves(leg)) \in Nat
         /\ end \in States /\ Dist(end, goal) <= 5 /\ Abs(wrap(end.h - goal.h)) <= 2
<1>. DEFINE ca == Abs(leg.turn1) > HeadTol
            cb == Abs(leg.drive) > PosTol
            cc == Abs(leg.turn2) > HeadTol
            ma == Move("pivot", leg.turn1)
            mb == Move("drive", leg.drive)
            mc == Move("pivot", leg.turn2)
            s0 == AtStart(pose)
            s1 == Do(ca, ma, s0)
            s2 == Do(cb, mb, s1)
            s3 == Do(cc, mc, s2)
            moves == LegMoves(leg)
<1>1. /\ face \in Bearings /\ leg.turn1 = wrap(face - pose.h) /\ leg.turn2 = wrap(goal.h - face)
      /\ leg.drive \in Int /\ Abs(leg.drive) = Dist(pose, goal)
      /\ leg.drive * Cos(face) = goal.x - pose.x /\ leg.drive * Sin(face) = goal.y - pose.y
  BY DEF LegGood
<1>2. /\ pose.h \in Int /\ goal.h \in Int /\ face \in Int /\ face - pose.h \in Int /\ goal.h - face \in Int
      /\ pose.x \in Int /\ pose.y \in Int /\ goal.x \in Int /\ goal.y \in Int
  BY <1>1 DEF Posed, GoalPoses, Bearings
<1>3. /\ leg.turn1 \in Int /\ leg.turn2 \in Int
      /\ Abs(leg.turn1) \in Nat /\ Abs(leg.turn2) \in Nat /\ Abs(leg.drive) \in Nat
  BY <1>1, <1>2, AbsIsNat
<1>4. /\ ca \in BOOLEAN /\ cb \in BOOLEAN /\ cc \in BOOLEAN
      /\ ma \in Moves /\ mb \in Moves /\ mc \in Moves
      /\ ma.kind = "pivot" /\ mb.kind = "drive" /\ mc.kind = "pivot"
      /\ ma.value = leg.turn1 /\ mc.value = leg.turn2
  BY <1>1, <1>3 DEF Moves, Move
<1>5. moves = If(ca, ma) \o If(cb, mb) \o If(cc, mc)  BY DEF LegMoves
<1>6. /\ apply(pose, moves) = s3
      /\ rotation_cost(moves) = Turned(ca, ma) + Turned(cb, mb) + Turned(cc, mc)
  <2>. HIDE DEF ca, cb, cc, ma, mb, mc
  <2>. QED  BY <1>4, <1>5, ThreeMoves
<1>7. rotation_cost(moves) <= Rotation(leg) /\ rotation_cost(moves) \in Nat
  <2>. DEFINE t1 == Turned(ca, ma)
              t2 == Turned(cb, mb)
              t3 == Turned(cc, mc)
              a1 == Abs(leg.turn1)
              a2 == Abs(leg.turn2)
  <2>1. t1 = (IF ca THEN a1 ELSE 0) /\ t2 = 0 /\ t3 = (IF cc THEN a2 ELSE 0)
    <3>. HIDE DEF ca, cb, cc, ma, mb, mc
    <3>. QED  BY <1>4 DEF Turned
  <2>2. a1 \in Nat /\ a2 \in Nat  BY <1>3
  <2>3. Rotation(leg) = a1 + a2  BY DEF Rotation
  <2>4. rotation_cost(moves) = t1 + t2 + t3  BY <1>6
  <2>. HIDE DEF t1, t2, t3, a1, a2, ca, cb, cc, moves
  <2>5. t1 + t2 + t3 <= a1 + a2 /\ t1 + t2 + t3 \in Nat  BY <2>1, <2>2
  <2>. QED  BY <2>3, <2>4, <2>5
<1>8. s0 \in States /\ s0.x = pose.x /\ s0.y = pose.y /\ s0.h = pose.h  BY AtStartIs
<1>9. s1 \in States /\ s1.x = pose.x /\ s1.y = pose.y /\ s1.h = Onto(pose.h, face)
  <2>1. CASE ca
    <3>1. s1 = OneMove(s0, ma)  BY <2>1 DEF Do
    <3>2. Onto(pose.h, face) = wrap(pose.h + leg.turn1)  BY <1>1, <2>1 DEF Onto
    <3>. HIDE DEF s0, s1
    <3>. QED  BY <1>3, <1>8, <3>1, <3>2, PivotMoves
  <2>2. CASE ~ca
    <3>1. s1 = s0  BY <2>2 DEF Do
    <3>2. Onto(pose.h, face) = pose.h  BY <1>1, <2>2 DEF Onto
    <3>. HIDE DEF s0, s1
    <3>. QED  BY <1>8, <3>1, <3>2
  <2>. QED  BY <2>1, <2>2
<1>. DEFINE h1 == Onto(pose.h, face)
<1>10. h1 \in Int /\ Faces(h1, face, 1)  BY <1>2, OntoFaces
<1>11. Nearest(h1) = face
  <2>. HIDE DEF h1
  <2>. QED  BY <1>1, <1>10, FacesNearest
<1>. HIDE DEF s0, s1, h1
<1>12. /\ s2 \in States /\ s2.h = h1
       /\ Abs(goal.x - s2.x) + Abs(goal.y - s2.y) <= 5
  <2>1. CASE cb
    <3>1. s2 = OneMove(s1, mb)  BY <2>1 DEF Do
    <3>2. s1.h = h1  BY <1>9 DEF h1
    <3>. HIDE DEF s2
    <3>3. s2 \in States /\ s2.x = s1.x + leg.drive * Cos(face) /\ s2.y = s1.y + leg.drive * Sin(face) /\ s2.h = s1.h
      BY <1>1, <1>9, <1>11, <3>1, <3>2, DriveMoves
    <3>4. s2.x = goal.x /\ s2.y = goal.y  BY <1>1, <1>2, <1>9, <3>3
    <3>5. Abs(goal.x - s2.x) + Abs(goal.y - s2.y) = 0  BY <1>2, <3>4 DEF Abs
    <3>. QED  BY <3>2, <3>3, <3>5
  <2>2. CASE ~cb
    <3>1. s2 = s1  BY <2>2 DEF Do
    <3>2. Dist(pose, goal) <= 5  BY <1>1, <1>3, <2>2 DEF PosTol
    <3>3. Abs(goal.x - s2.x) + Abs(goal.y - s2.y) <= 5
      <4>1. s2.x = pose.x /\ s2.y = pose.y  BY <1>9, <3>1
      <4>. QED  BY <3>2, <4>1 DEF Dist
    <3>4. s2.h = h1  BY <1>9, <3>1 DEF h1
    <3>. QED  BY <1>9, <3>1, <3>3, <3>4
  <2>. QED  BY <2>1, <2>2
<1>. HIDE DEF s2
<1>13. s3 \in States /\ s3.x = s2.x /\ s3.y = s2.y /\ s3.h = OntoFrom(h1, face, goal.h)
  <2>1. CASE cc
    <3>1. s3 = OneMove(s2, mc)  BY <2>1 DEF Do
    <3>2. OntoFrom(h1, face, goal.h) = wrap(h1 + leg.turn2)  BY <1>1, <2>1 DEF OntoFrom
    <3>. HIDE DEF s3
    <3>. QED  BY <1>3, <1>12, <3>1, <3>2, PivotMoves
  <2>2. CASE ~cc
    <3>1. s3 = s2  BY <2>2 DEF Do
    <3>2. OntoFrom(h1, face, goal.h) = h1  BY <1>1, <2>2 DEF OntoFrom
    <3>. HIDE DEF s3
    <3>. QED  BY <1>12, <3>1, <3>2
  <2>. QED  BY <2>1, <2>2
<1>. HIDE DEF s3
<1>14. Abs(wrap(s3.h - goal.h)) <= 2
  <2>. DEFINE h3 == OntoFrom(h1, face, goal.h)
  <2>1. h3 \in Int /\ Faces(h3, goal.h, 2)  BY <1>2, <1>10, OntoFromFaces
  <2>. HIDE DEF h3
  <2>2. Abs(wrap(h3 - goal.h)) <= 2  BY <1>2, <2>1, FacesWithin
  <2>3. s3.h = h3  BY <1>13 DEF h3
  <2>. QED  BY <2>2, <2>3
<1>15. Dist(s3, goal) <= 5  BY <1>12, <1>13 DEF Dist
<1>. QED  BY <1>6, <1>7, <1>13, <1>14, <1>15

LEMMA ApproachPlan ==
  ASSUME NEW pose \in Posed, NEW goal \in GoalPoses, pose.x = goal.x \/ pose.y = goal.y,
         ~Parked(pose, goal), ~Aimed(pose, goal)
  PROVE  Plans(pose, goal, plan(pose, goal))
<1>. DEFINE forward == Leg(pose, goal, FALSE)
            back == Leg(pose, goal, TRUE)
            b == Bearing(pose, goal)
            rf == Rotation(forward)
            rb == Rotation(back)
            leg == IF rb < rf THEN back ELSE forward
            face == IF rb < rf THEN wrap(b + 180) ELSE b
            moves == LegMoves(leg)
            end == apply(pose, moves)
<1>1. plan(pose, goal) = moves  BY DEF plan, Approach, LegMoves
<1>2. rf \in Nat /\ rb \in Nat
  <2>. DEFINE no == FALSE
              yes == TRUE
  <2>1. no \in BOOLEAN /\ yes \in BOOLEAN  OBVIOUS
  <2>. HIDE DEF no, yes
  <2>2. Rotation(Leg(pose, goal, no)) \in Nat /\ Rotation(Leg(pose, goal, yes)) \in Nat
    BY <2>1, RotationIsNat
  <2>. QED  BY <2>2 DEF no, yes
<1>4. LegGood(pose, goal, forward, b) /\ LegGood(pose, goal, back, wrap(b + 180))  BY LegsAreGood
<1>3. rf + rb = 360
  <2>1. /\ forward.turn1 = wrap(b - pose.h) /\ forward.turn2 = wrap(goal.h - b)
        /\ back.turn1 = wrap(wrap(b + 180) - pose.h) /\ back.turn2 = wrap(goal.h - wrap(b + 180))
    <3>. HIDE DEF b, forward, back
    <3>. QED  BY <1>4 DEF LegGood
  <2>2. b \in Int /\ pose.h \in Int /\ goal.h \in Int  BY DEF Bearing, Posed, GoalPoses, Bearings
  <2>3. rf = Abs(wrap(b - pose.h)) + Abs(wrap(goal.h - b))  BY <2>1 DEF Rotation
  <2>4. rb = Abs(wrap(wrap(b + 180) - pose.h)) + Abs(wrap(goal.h - wrap(b + 180)))  BY <2>1 DEF Rotation
  <2>. HIDE DEF b, rf, rb
  <2>. QED  BY <2>2, <2>3, <2>4, TwoLegs
<1>5. Rotation(leg) = (IF rb < rf THEN rb ELSE rf)
  <2>1. CASE rb < rf
    <3>1. leg = back  BY <2>1
    <3>. HIDE DEF leg
    <3>. QED  BY <2>1, <3>1
  <2>2. CASE ~(rb < rf)
    <3>1. leg = forward  BY <2>2
    <3>. HIDE DEF leg
    <3>. QED  BY <2>2, <3>1
  <2>. QED  BY <2>1, <2>2
<1>6. LegGood(pose, goal, leg, face)
  <2>. HIDE DEF forward, back, b, rf, rb
  <2>1. CASE rb < rf  BY <1>4, <2>1
  <2>2. CASE ~(rb < rf)  BY <1>4, <2>2
  <2>. QED  BY <2>1, <2>2
<1>. HIDE DEF forward, back, b, leg, face
<1>7. /\ rotation_cost(moves) <= Rotation(leg) /\ rotation_cost(moves) \in Nat
      /\ end \in States /\ Dist(end, goal) <= 5 /\ Abs(wrap(end.h - goal.h)) <= 2
  BY <1>6, LegParks
<1>8. rotation_cost(moves) <= 180 /\ rotation_cost(moves) <= rf
  <2>. DEFINE c == rotation_cost(moves)
              r == Rotation(leg)
  <2>1. c \in Int /\ c <= r /\ r = IF rb < rf THEN rb ELSE rf  BY <1>5, <1>7
  <2>. HIDE DEF c, r, rb, rf
  <2>2. c <= 180 /\ c <= rf  BY <1>2, <1>3, <2>1
  <2>. QED  BY <2>2 DEF c
<1>9. Dist(end, goal) <= PosTol + CrossTol + end.drift
  <2>. DEFINE d == Dist(end, goal)
  <2>1. d \in Int /\ end.drift \in Nat /\ d <= 5  BY <1>7 DEF Dist, Abs, States, GoalPoses
  <2>2. PosTol + CrossTol = 9  BY DEF PosTol, CrossTol
  <2>. HIDE DEF d, end
  <2>3. d <= 9 + end.drift  BY <2>1
  <2>. QED  BY <2>2, <2>3 DEF d
<1>10. Abs(wrap(end.h - goal.h)) <= 2 * HeadTol  BY <1>7 DEF HeadTol
<1>. QED  BY <1>1, <1>8, <1>9, <1>10 DEF Plans, rf, forward

-----------------------------------------------------------------------------
(* Camera tracks.                                                           *)

Rows(n) == [1 .. n -> [t : Int, near : [1 .. Dots -> Nat]]]
Lined(rows, n) == n \in Nat /\ n > 0 /\ rows \in Rows(n)

LEMMA LinedIs ==
  ASSUME NEW rows, NEW n, Lined(rows, n)
  PROVE  /\ n \in Nat /\ n > 0 /\ Len(rows) = n /\ DOMAIN rows = 1 .. n
         /\ \A i \in 1 .. n, k \in 1 .. Dots : rows[i].near[k] \in Nat
<1>1. n \in Nat /\ n > 0 /\ rows \in Rows(n)  BY DEF Lined
<1>2. DOMAIN rows = 1 .. n  BY <1>1 DEF Rows
<1>3. Len(rows) = n
  <2>1. rows \in Seq([t : Int, near : [1 .. Dots -> Nat]])
    <3>. DEFINE R == [t : Int, near : [1 .. Dots -> Nat]]
    <3>1. rows \in [1 .. n -> R]  BY <1>1 DEF Rows
    <3>. HIDE DEF R
    <3>2. rows \in Seq(R)  BY <1>1, <3>1
    <3>. QED  BY <3>2 DEF R
  <2>2. Len(rows) \in Nat /\ DOMAIN rows = 1 .. Len(rows)  BY <2>1
  <2>. DEFINE l == Len(rows)
  <2>3. l \in Nat /\ 1 .. l = 1 .. n  BY <1>2, <2>2
  <2>. HIDE DEF l
  <2>4. l = n  BY <1>1, <2>3
  <2>. QED  BY <2>4 DEF l
<1>4. ASSUME NEW i \in 1 .. n, NEW k \in 1 .. Dots PROVE rows[i].near[k] \in Nat
  <2>1. rows[i] \in [t : Int, near : [1 .. Dots -> Nat]]  BY <1>1 DEF Rows
  <2>. QED  BY <2>1
<1>. QED  BY <1>1, <1>2, <1>3, <1>4

\* The first sample from start on that is near dot k, or the end.
LEMMA FirstApproach ==
  ASSUME NEW rows, NEW n, Lined(rows, n), NEW start, start \in Nat, start > 0, NEW k
  PROVE  LET a == first_approach(rows, start, k) IN
         /\ a \in 1 .. n + 1
         /\ start <= n => a >= start
         /\ start > n => a = n + 1
         /\ a <= n => rows[a].near[k] <= WindowRadius
         /\ \A i \in start .. n : rows[i].near[k] <= WindowRadius => a <= i
<1>. DEFINE near == {i \in start .. Len(rows) : rows[i].near[k] <= WindowRadius}
            a == first_approach(rows, start, k)
<1>1. n \in Nat /\ n > 0 /\ Len(rows) = n  BY LinedIs
<1>2. a = IF near = {} THEN n + 1 ELSE Least(near)  BY <1>1 DEF first_approach
<1>3. near \subseteq Nat /\ near \subseteq start .. n
      /\ \A i \in start .. n : rows[i].near[k] <= WindowRadius => i \in near
  BY <1>1
<1>4. CASE near = {}
  <2>1. a = n + 1  BY <1>2, <1>4
  <2>2. \A i \in start .. n : ~(rows[i].near[k] <= WindowRadius)  BY <1>3, <1>4
  <2>. HIDE DEF a, near
  <2>3. a \in 1 .. n + 1 /\ (start <= n => a >= start) /\ ~(a <= n)  BY <1>1, <2>1
  <2>. QED  BY <2>1, <2>2, <2>3 DEF a
<1>5. CASE near # {}
  <2>1. a = Least(near)  BY <1>2, <1>5
  <2>2. \A i \in near : rows[i].near[k] <= WindowRadius  OBVIOUS
  <2>. HIDE DEF near, a
  <2>3. Least(near) \in near /\ \A i \in near : Least(near) <= i  BY <1>3, <1>5, LeastIs
  <2>4. a \in start .. n /\ rows[a].near[k] <= WindowRadius /\ \A i \in near : a <= i  BY <1>3, <2>1, <2>2, <2>3
  <2>5. a \in 1 .. n + 1 /\ a >= start /\ start <= n  BY <1>1, <2>4
  <2>6. ~(start > n)  BY <1>1, <2>5
  <2>7. \A i \in start .. n : rows[i].near[k] <= WindowRadius => a <= i  BY <1>3, <2>4
  <2>. QED  BY <2>4, <2>5, <2>6, <2>7 DEF a
<1>. QED  BY <1>4, <1>5

\* The nearest sample of a window.
LEMMA NearestSample ==
  ASSUME NEW rows, NEW n, Lined(rows, n), NEW k \in 1 .. Dots,
         NEW window, window \subseteq 1 .. n, window # {}
  PROVE  \E i \in window : \A j \in window :
            \/ rows[i].near[k] < rows[j].near[k]
            \/ rows[i].near[k] = rows[j].near[k] /\ i <= j
<1>. DEFINE d(i) == rows[i].near[k]
            V == {d(i) : i \in window}
<1>1. n \in Nat /\ \A i \in window : d(i) \in Nat  BY LinedIs
<1>2. V \subseteq Nat /\ V # {}  BY <1>1
<1>3. PICK v \in V : \A w \in V : v <= w
  <2>. HIDE DEF V
  <2>. QED  BY <1>2, LeastOf
<1>. DEFINE T == {i \in window : d(i) = v}
<1>4. T \subseteq Nat /\ T # {}
  <2>1. PICK i \in window : v = d(i)  BY <1>3
  <2>2. i \in T  BY <2>1
  <2>3. \A j \in window : j \in Nat  BY <1>1
  <2>. QED  BY <2>2, <2>3
<1>5. PICK i \in T : \A j \in T : i <= j
  <2>. HIDE DEF T
  <2>. QED  BY <1>4, LeastOf
<1>6. i \in window /\ d(i) = v  BY <1>5
<1>7. ASSUME NEW j \in window PROVE d(i) < d(j) \/ (d(i) = d(j) /\ i <= j)
  <2>1. d(j) \in V /\ d(j) \in Nat /\ v \in Nat  BY <1>1, <1>2, <1>3
  <2>2. v <= d(j)  BY <1>3, <2>1
  <2>3. CASE d(j) = v
    <3>1. j \in T  BY <2>3
    <3>2. i <= j  BY <1>5, <3>1
    <3>. QED  BY <1>6, <2>3, <3>2
  <2>4. CASE d(j) # v
    <3>. DEFINE w == d(j)
    <3>1. w \in Nat /\ v \in Nat /\ v <= w /\ w # v  BY <2>1, <2>2, <2>4
    <3>. HIDE DEF w
    <3>2. v < w  BY <3>1
    <3>. QED  BY <1>6, <3>2 DEF w
  <2>. QED  BY <2>3, <2>4
<1>. QED  BY <1>6, <1>7

LEMMA WindowEnds ==
  ASSUME NEW rows, NEW n, Lined(rows, n), NEW k \in 1 .. Dots, NEW used \in 1 .. n
  PROVE  WindowEnd(rows, k, used) \in used + 1 .. n + 1
<1>1. n \in Nat /\ Len(rows) = n /\ used \in Nat  BY LinedIs
<1>2. CASE k = Dots
  <2>1. WindowEnd(rows, k, used) = n + 1  BY <1>1, <1>2 DEF WindowEnd
  <2>2. n + 1 \in used + 1 .. n + 1  BY <1>1
  <2>. QED  BY <2>1, <2>2
<1>3. CASE k # Dots
  <2>. DEFINE start == used + 1
              next == k + 1
              a == first_approach(rows, start, next)
  <2>1. WindowEnd(rows, k, used) = a  BY <1>3 DEF WindowEnd
  <2>2. start \in Nat /\ start > 0  BY <1>1
  <2>. HIDE DEF start, next
  <2>3. /\ a \in 1 .. n + 1 /\ (start <= n => a >= start) /\ (start > n => a = n + 1)
    BY <2>2, FirstApproach
  <2>. HIDE DEF a
  <2>4. a \in used + 1 .. n + 1  BY <1>1, <2>3 DEF start
  <2>. QED  BY <2>1, <2>4
<1>. QED  BY <1>2, <1>3

\* What a corner claims.
ClaimsWell(rows, n, k, used, claim) ==
    /\ claim \in [at : 0 .. n, used : 1 .. n + 1]
    /\ used > n => claim.at = 0 /\ claim.used = used
    /\ used <= n => /\ claim.at \in used .. WindowEnd(rows, k, used) - 1
                    /\ claim.used = claim.at + 1
                    /\ \A j \in used .. WindowEnd(rows, k, used) - 1 :
                          rows[claim.at].near[k] <= rows[j].near[k]

LEMMA ClaimHolds ==
  ASSUME NEW rows, NEW n, Lined(rows, n), NEW k \in 1 .. Dots, NEW used \in 1 .. n + 1
  PROVE  ClaimsWell(rows, n, k, used, Claim(rows, k, used))
<1>. DEFINE claim == Claim(rows, k, used)
            window == used .. WindowEnd(rows, k, used) - 1
            Best(i) == \A j \in window : \/ rows[i].near[k] < rows[j].near[k]
                                         \/ rows[i].near[k] = rows[j].near[k] /\ i <= j
            best == CHOOSE i \in window : Best(i)
<1>1. n \in Nat /\ Len(rows) = n /\ \A i \in 1 .. n : rows[i].near[k] \in Nat  BY LinedIs
<1>2. claim = IF used > n THEN [at |-> 0, used |-> used] ELSE [at |-> best, used |-> best + 1]
  BY <1>1 DEF Claim
<1>. HIDE DEF claim
<1>3. CASE used > n
  <2>1. claim = [at |-> 0, used |-> used]  BY <1>2, <1>3
  <2>2. ~(used <= n) /\ 0 \in 0 .. n  BY <1>1, <1>3
  <2>. QED  BY <1>3, <2>1, <2>2 DEF ClaimsWell, claim
<1>4. CASE ~(used > n)
  <2>0. used \in 1 .. n  BY <1>1, <1>4
  <2>. DEFINE end == WindowEnd(rows, k, used)
  <2>1. end \in used + 1 .. n + 1  BY <2>0, WindowEnds
  <2>2. window \subseteq 1 .. n /\ window # {}
    <3>1. window = used .. end - 1  OBVIOUS
    <3>. HIDE DEF end, window
    <3>2. used .. end - 1 \subseteq 1 .. n /\ used \in used .. end - 1  BY <1>1, <2>0, <2>1
    <3>. QED  BY <3>1, <3>2
  <2>3. \E i \in window : Best(i)
    <3>. HIDE DEF window
    <3>. QED  BY <2>2, NearestSample
  <2>4. best \in window /\ Best(best)
    <3>. HIDE DEF Best, window
    <3>. QED  BY <2>3
  <2>5. best \in 1 .. n /\ \A j \in window : rows[best].near[k] <= rows[j].near[k]
    <3>1. best \in 1 .. n  BY <2>2, <2>4
    <3>. HIDE DEF best
    <3>2. ASSUME NEW j \in window PROVE rows[best].near[k] <= rows[j].near[k]
      <4>1. rows[best].near[k] \in Nat /\ rows[j].near[k] \in Nat  BY <1>1, <2>2, <3>1
      <4>. DEFINE a == rows[best].near[k]
                  b == rows[j].near[k]
      <4>2. a < b \/ a = b  BY <2>4
      <4>. HIDE DEF a, b
      <4>3. a <= b  BY <4>1, <4>2 DEF a, b
      <4>. QED  BY <4>3 DEF a, b
    <3>. QED  BY <3>1, <3>2
  <2>. HIDE DEF best, Best
  <2>6. claim = [at |-> best, used |-> best + 1]  BY <1>2, <1>4
  <2>7. best \in 0 .. n /\ best + 1 \in 1 .. n + 1  BY <1>1, <2>5
  <2>. QED  BY <1>4, <2>4, <2>5, <2>6, <2>7 DEF ClaimsWell, claim
<1>. QED  BY <1>3, <1>4

\* The claims, one after the other.
ClaimsRun(rows, n, claim) ==
    /\ claim[0] = [at |-> 0, used |-> 1]
    /\ \A k \in 0 .. Dots : claim[k].used \in 1 .. n + 1
    /\ \A k \in 1 .. Dots : ClaimsWell(rows, n, k, claim[k - 1].used, claim[k])
    /\ Claims(rows) = [k \in 1 .. Dots |-> claim[k].at]

LEMMA ClaimsAre ==
  ASSUME NEW rows, NEW n, Lined(rows, n)
  PROVE  \E claim : ClaimsRun(rows, n, claim)
<1>. DEFINE S == [at : 0 .. n, used : 1 .. n + 1]
            s0 == [at |-> 0, used |-> 1]
            step == [x \in S \X (1 .. Dots) |-> Claim(rows, x[2], x[1].used)]
            F(f) == [k \in 0 .. Dots |-> IF k = 0 THEN s0 ELSE Claim(rows, k, f[k - 1].used)]
            claim == CHOOSE f : f = F(f)
<1>1. Dots \in Nat /\ n \in Nat  BY GeometryConstants, LinedIs
<1>2. s0 \in S  BY <1>1
<1>3. ASSUME NEW x \in S, NEW i \in 1 .. Dots
      PROVE  step[<<x, i>>] = Claim(rows, i, x.used) /\ Claim(rows, i, x.used) \in S
  <2>1. x.used \in 1 .. n + 1  OBVIOUS
  <2>2. ClaimsWell(rows, n, i, x.used, Claim(rows, i, x.used))  BY <2>1, ClaimHolds
  <2>. QED  BY <2>2 DEF ClaimsWell
<1>. HIDE DEF step, s0, S
<1>4. PICK h : TakenFrom(s0, Dots, S, step, h)
  <2>1. StaysIn(Dots, S, step)  BY <1>3 DEF StaysIn
  <2>. QED  BY <1>1, <1>2, <2>1, Iterated
<1>5. /\ h \in [0 .. Dots -> S] /\ h[0] = s0
      /\ \A i \in 1 .. Dots : h[i] = step[<<h[i - 1], i>>]
  BY <1>4 DEF TakenFrom
<1>6. h = F(h)
  <2>1. ASSUME NEW k \in 0 .. Dots PROVE h[k] = IF k = 0 THEN s0 ELSE Claim(rows, k, h[k - 1].used)
    <3>1. CASE k = 0  BY <1>5, <3>1
    <3>2. CASE k # 0
      <4>1. k \in 1 .. Dots /\ k - 1 \in 0 .. Dots  BY <1>1, <3>2
      <4>2. h[k - 1] \in S /\ h[k] = step[<<h[k - 1], k>>]  BY <1>5, <4>1
      <4>. QED  BY <1>3, <3>2, <4>1, <4>2
    <3>. QED  BY <3>1, <3>2
  <2>. QED  BY <1>5, <2>1
<1>7. claim = F(claim)
  <2>. HIDE DEF F
  <2>. QED  BY <1>6
<1>8. Claims(rows) = [k \in 1 .. Dots |-> claim[k].at]  BY DEF Claims, s0
<1>. HIDE DEF claim
<1>9. claim[0] = s0 /\ \A k \in 1 .. Dots : claim[k] = Claim(rows, k, claim[k - 1].used)
  <2>1. 0 \in 0 .. Dots /\ \A k \in 1 .. Dots : k \in 0 .. Dots /\ k # 0  BY <1>1
  <2>. QED  BY <1>7, <2>1
<1>10. \A k \in 0 .. Dots : claim[k].used \in 1 .. n + 1
  <2>. DEFINE T == {k \in Nat : claim[k].used \in 1 .. n + 1}
  <2>1. 0 \in T  BY <1>1, <1>9 DEF s0
  <2>2. ASSUME NEW k \in 1 .. Dots, k - 1 \in T PROVE k \in T
    <3>1. ClaimsWell(rows, n, k, claim[k - 1].used, claim[k])  BY <1>9, <2>2, ClaimHolds
    <3>. QED  BY <3>1 DEF ClaimsWell
  <2>. HIDE DEF T
  <2>3. \A k \in 0 .. Dots : k \in T  BY <1>1, <2>1, <2>2, UpTo
  <2>. QED  BY <2>3 DEF T
<1>11. ASSUME NEW k \in 1 .. Dots PROVE ClaimsWell(rows, n, k, claim[k - 1].used, claim[k])
  <2>1. k - 1 \in 0 .. Dots  BY <1>1
  <2>2. claim[k - 1].used \in 1 .. n + 1  BY <1>10, <2>1
  <2>. QED  BY <1>9, <2>2, ClaimHolds
<1>12. ClaimsRun(rows, n, claim)  BY <1>8, <1>9, <1>10, <1>11 DEF s0, ClaimsRun
<1>. QED  BY <1>12

\* How claims follow one another.
LEMMA ClaimsGoOn ==
  ASSUME NEW rows, NEW n, Lined(rows, n), NEW claim, ClaimsRun(rows, n, claim)
  PROVE  \A j, k \in 1 .. Dots : j < k /\ claim[k].at # 0 => claim[j].at # 0 /\ claim[j].at < claim[k].at
<1>1. Dots \in Nat /\ n \in Nat  BY GeometryConstants, LinedIs
<1>0. /\ \A k \in 0 .. Dots : claim[k].used \in 1 .. n + 1
      /\ \A k \in 1 .. Dots : ClaimsWell(rows, n, k, claim[k - 1].used, claim[k])
  BY DEF ClaimsRun
<1>. USE <1>0
<1>2. ASSUME NEW k \in 1 .. Dots PROVE claim[k - 1].used <= claim[k].used
  <2>. DEFINE a == claim[k].at
              u == claim[k].used
              v == claim[k - 1].used
              end == WindowEnd(rows, k, v)
  <2>1. k - 1 \in 0 .. Dots /\ k \in 0 .. Dots  BY <1>1
  <2>2. u \in 1 .. n + 1 /\ v \in 1 .. n + 1  BY <2>1
  <2>3. ClaimsWell(rows, n, k, v, claim[k])  OBVIOUS
  <2>4. (v > n => u = v) /\ (v <= n => a \in v .. end - 1 /\ u = a + 1)  BY <2>3 DEF ClaimsWell
  <2>. HIDE DEF a, u, v, end
  <2>5. v <= u  BY <1>1, <2>2, <2>4
  <2>. QED  BY <2>5 DEF u, v
<1>3. ASSUME NEW j \in 1 .. Dots, NEW k \in 1 .. Dots, j < k PROVE claim[j].used <= claim[k - 1].used
  <2>. DEFINE T == {m \in Nat : j <= m => claim[j].used <= claim[m].used}
  <2>1. 0 \in T  BY <1>1
  <2>2. ASSUME NEW m \in 1 .. Dots, m - 1 \in T PROVE m \in T
    <3>1. claim[j].used \in Nat /\ claim[m].used \in Nat /\ claim[m - 1].used \in Nat
      <4>1. j \in 0 .. Dots /\ m \in 0 .. Dots /\ m - 1 \in 0 .. Dots  BY <1>1
      <4>2. claim[j].used \in 1 .. n + 1 /\ claim[m].used \in 1 .. n + 1 /\ claim[m - 1].used \in 1 .. n + 1  BY <4>1
      <4>. QED  BY <1>1, <4>2
    <3>2. CASE j = m  BY <3>1, <3>2
    <3>3. CASE j <= m - 1
      <4>1. claim[j].used <= claim[m - 1].used  BY <2>2, <3>3
      <4>2. claim[m - 1].used <= claim[m].used  BY <1>2
      <4>. DEFINE a == claim[j].used
                  b == claim[m - 1].used
                  c == claim[m].used
      <4>. HIDE DEF a, b, c
      <4>3. a <= c  BY <3>1, <4>1, <4>2 DEF a, b, c
      <4>. QED  BY <4>3 DEF a, c
    <3>4. CASE ~(j <= m)  BY <3>4
    <3>5. j = m \/ j <= m - 1 \/ ~(j <= m)  OBVIOUS
    <3>. QED  BY <3>2, <3>3, <3>4, <3>5
  <2>. HIDE DEF T
  <2>3. \A m \in 0 .. Dots : m \in T  BY <1>1, <2>1, <2>2, UpTo
  <2>4. k - 1 \in 0 .. Dots /\ j <= k - 1  BY <1>1, <1>3
  <2>. QED  BY <2>3, <2>4 DEF T
<1>4. ASSUME NEW j \in 1 .. Dots, NEW k \in 1 .. Dots, j < k, claim[k].at # 0
      PROVE  claim[j].at # 0 /\ claim[j].at < claim[k].at
  <2>. DEFINE aj == claim[j].at
              uj == claim[j].used
              vj == claim[j - 1].used
              ak == claim[k].at
              vk == claim[k - 1].used
              ej == WindowEnd(rows, j, vj)
              ek == WindowEnd(rows, k, vk)
  <2>1. j - 1 \in 0 .. Dots /\ k - 1 \in 0 .. Dots /\ j \in 0 .. Dots  BY <1>1
  <2>2. uj \in 1 .. n + 1 /\ vj \in 1 .. n + 1 /\ vk \in 1 .. n + 1  BY <2>1
  <2>3. ClaimsWell(rows, n, j, vj, claim[j]) /\ ClaimsWell(rows, n, k, vk, claim[k])  OBVIOUS
  <2>4. /\ vj > n => aj = 0 /\ uj = vj
        /\ vj <= n => aj \in vj .. ej - 1 /\ uj = aj + 1
        /\ vk > n => ak = 0
        /\ vk <= n => ak \in vk .. ek - 1
        /\ aj \in 0 .. n
    BY <2>3 DEF ClaimsWell
  <2>5. uj <= vk  BY <1>3, <1>4
  <2>6. ak # 0  BY <1>4
  <2>. HIDE DEF aj, uj, vj, ak, vk, ej, ek
  <2>7. vk <= n /\ ak \in vk .. ek - 1  BY <1>1, <2>2, <2>4, <2>6
  <2>8. vj <= n  BY <1>1, <2>2, <2>4, <2>5, <2>7
  <2>9. aj # 0 /\ aj < ak  BY <1>1, <2>2, <2>4, <2>5, <2>7, <2>8
  <2>. QED  BY <2>9 DEF aj, ak
<1>. QED  BY <1>4

\* The visit of each dot, one after the other.
Visited(rows, n, visit) ==
    /\ visit[0] = 0
    /\ \A k \in 1 .. Dots : visit[k] = first_approach(rows, visit[k - 1] + 1, k)

LEMMA VisitsAre ==
  ASSUME NEW rows, NEW n, Lined(rows, n), NEW visit, Visited(rows, n, visit)
  PROVE  \A k \in 0 .. Dots : visit[k] \in 0 .. n + 1
<1>1. Dots \in Nat /\ n \in Nat  BY GeometryConstants, LinedIs
<1>. DEFINE T == {k \in Nat : visit[k] \in 0 .. n + 1}
<1>2. 0 \in T  BY <1>1 DEF Visited
<1>3. ASSUME NEW k \in 1 .. Dots, k - 1 \in T PROVE k \in T
  <2>. DEFINE start == visit[k - 1] + 1
  <2>1. start \in Nat /\ start > 0 /\ k \in Nat  BY <1>1, <1>3
  <2>2. visit[k] = first_approach(rows, start, k)  BY DEF Visited
  <2>. DEFINE a == first_approach(rows, start, k)
  <2>. HIDE DEF start
  <2>5. a \in 1 .. n + 1  BY <2>1, FirstApproach
  <2>3. visit[k] \in 1 .. n + 1  BY <2>2, <2>5
  <2>4. visit[k] \in 0 .. n + 1
    <3>1. 1 .. n + 1 \subseteq 0 .. n + 1  BY <1>1
    <3>. QED  BY <2>3, <3>1
  <2>. QED  BY <2>1, <2>4
<1>. HIDE DEF T
<1>4. \A k \in 0 .. Dots : k \in T  BY <1>1, <1>2, <1>3, UpTo
<1>. QED  BY <1>4 DEF T

\* If the last dot is visited all are, and in order.
LEMMA VisitsInOrder ==
  ASSUME NEW rows, NEW n, Lined(rows, n), NEW visit, Visited(rows, n, visit), visit[Dots] <= n
  PROVE  /\ \A k \in 0 .. Dots : visit[k] \in 0 .. n
         /\ \A k \in 1 .. Dots : /\ visit[k - 1] < visit[k]
                                 /\ rows[visit[k]].near[k] <= WindowRadius
                                 /\ \A i \in visit[k - 1] + 1 .. n : rows[i].near[k] <= WindowRadius => visit[k] <= i
<1>1. Dots \in Nat /\ n \in Nat  BY GeometryConstants, LinedIs
<1>2. \A k \in 0 .. Dots : visit[k] \in 0 .. n + 1  BY VisitsAre
<1>3. ASSUME NEW k \in 1 .. Dots
      PROVE  LET start == visit[k - 1] + 1 IN
             /\ start <= n => visit[k] >= start
             /\ start > n => visit[k] = n + 1
             /\ visit[k] <= n => rows[visit[k]].near[k] <= WindowRadius
             /\ \A i \in start .. n : rows[i].near[k] <= WindowRadius => visit[k] <= i
  <2>. DEFINE start == visit[k - 1] + 1
  <2>1. k - 1 \in 0 .. Dots  BY <1>1
  <2>2. start \in Nat /\ start > 0  BY <1>1, <1>2, <2>1
  <2>3. visit[k] = first_approach(rows, start, k)  BY DEF Visited
  <2>. DEFINE a == first_approach(rows, start, k)
  <2>. HIDE DEF start
  <2>4. /\ start <= n => a >= start
        /\ start > n => a = n + 1
        /\ a <= n => rows[a].near[k] <= WindowRadius
        /\ \A i \in start .. n : rows[i].near[k] <= WindowRadius => a <= i
    BY <2>2, FirstApproach
  <2>. HIDE DEF a
  <2>5. visit[k] = a  BY <2>3 DEF a
  <2>. QED  BY <2>4, <2>5 DEF start
<1>4. ASSUME NEW k \in 0 .. Dots PROVE visit[k] \in 0 .. n
  <2>. SUFFICES ASSUME visit[k] = n + 1 PROVE FALSE  BY <1>1, <1>2
  <2>. DEFINE T == {m \in Nat : k <= m => visit[m] = n + 1}
  <2>1. 0 \in T
    <3>1. k <= 0 => k = 0  BY <1>1
    <3>. QED  BY <3>1
  <2>2. ASSUME NEW m \in 1 .. Dots, m - 1 \in T PROVE m \in T
    <3>1. CASE k <= m - 1
      <4>1. visit[m - 1] = n + 1  BY <2>2, <3>1
      <4>2. visit[m - 1] + 1 > n  BY <1>1, <4>1
      <4>3. visit[m] = n + 1  BY <1>3, <4>2
      <4>. QED  BY <4>3
    <3>2. CASE k = m  BY <3>2
    <3>3. CASE ~(k <= m)  BY <3>3
    <3>4. k <= m - 1 \/ k = m \/ ~(k <= m)  OBVIOUS
    <3>. QED  BY <3>1, <3>2, <3>3, <3>4
  <2>. HIDE DEF T
  <2>3. \A m \in 0 .. Dots : m \in T  BY <1>1, <2>1, <2>2, UpTo
  <2>4. Dots \in 0 .. Dots /\ k <= Dots  BY <1>1
  <2>5. visit[Dots] = n + 1  BY <2>3, <2>4 DEF T
  <2>. QED  BY <1>1, <2>5
<1>5. ASSUME NEW k \in 1 .. Dots
      PROVE  /\ visit[k - 1] < visit[k] /\ rows[visit[k]].near[k] <= WindowRadius
             /\ \A i \in visit[k - 1] + 1 .. n : rows[i].near[k] <= WindowRadius => visit[k] <= i
  <2>1. k - 1 \in 0 .. Dots /\ k \in 0 .. Dots  BY <1>1
  <2>. DEFINE v == visit[k]
              u == visit[k - 1]
  <2>2. v \in 0 .. n /\ u \in 0 .. n  BY <1>4, <2>1
  <2>3. (u + 1 <= n => v >= u + 1) /\ (u + 1 > n => v = n + 1)  BY <1>3
  <2>. HIDE DEF u, v
  <2>4. u < v /\ v <= n  BY <1>1, <2>2, <2>3
  <2>. QED  BY <1>3, <2>4 DEF u, v
<1>. QED  BY <1>4, <1>5

\* What each dot's visit has to do with the claims before it.
DotsInOrder(rows, n, visit) ==
    /\ Visited(rows, n, visit) /\ visit[Dots] <= n
    /\ \A k \in 2 .. Dots : \A i \in 1 .. visit[k - 1] : rows[i].near[k] > WindowRadius
Met(rows, visit, k, claim) ==
    /\ claim.at # 0 /\ rows[claim.at].near[k] <= WindowRadius
    /\ k < Dots => claim.used <= visit[k + 1]

LEMMA ClaimMeetsVisit ==
  ASSUME NEW rows, NEW n, Lined(rows, n), NEW visit, DotsInOrder(rows, n, visit),
         NEW k \in 1 .. Dots, NEW u \in 1 .. n + 1, u <= visit[k],
         NEW claim, ClaimsWell(rows, n, k, u, claim)
  PROVE  Met(rows, visit, k, claim)
<1>. DEFINE v == visit[k]
            e == WindowEnd(rows, k, u)
            a == claim.at
<1>1. Dots \in Nat /\ n \in Nat /\ WindowRadius \in Nat  BY GeometryConstants, LinedIs
<1>2. Visited(rows, n, visit) /\ visit[Dots] <= n  BY DEF DotsInOrder
<1>3. v \in 0 .. n /\ rows[v].near[k] <= WindowRadius
  <2>1. k \in 0 .. Dots  BY <1>1
  <2>. QED  BY <1>2, <2>1, VisitsInOrder
<1>4. k < Dots => /\ visit[k + 1] \in 0 .. n /\ v < visit[k + 1]
                  /\ rows[visit[k + 1]].near[k + 1] <= WindowRadius
  <2>. SUFFICES ASSUME k < Dots PROVE /\ visit[k + 1] \in 0 .. n /\ v < visit[k + 1]
                                      /\ rows[visit[k + 1]].near[k + 1] <= WindowRadius
    OBVIOUS
  <2>. DEFINE m == k + 1
  <2>1. m \in 1 .. Dots /\ m \in 0 .. Dots /\ m - 1 = k  BY <1>1
  <2>. HIDE DEF m
  <2>2. visit[m] \in 0 .. n /\ visit[m - 1] < visit[m] /\ rows[visit[m]].near[m] <= WindowRadius
    BY <1>2, <2>1, VisitsInOrder
  <2>3. v < visit[m]  BY <2>1, <2>2
  <2>. QED  BY <2>2, <2>3 DEF m
<1>5. u \in 1 .. n
  <2>. HIDE DEF v
  <2>. QED  BY <1>1, <1>3 DEF v
<1>6. v < e /\ (k < Dots => e <= visit[k + 1]) /\ e \in Nat
  <2>1. CASE k = Dots
    <3>1. e = n + 1
      <4>1. Len(rows) = n  BY LinedIs
      <4>. QED  BY <2>1, <4>1 DEF WindowEnd
    <3>. HIDE DEF e, v
    <3>2. v < e /\ e \in Nat  BY <1>1, <1>3, <3>1
    <3>3. ~(k < Dots)  BY <1>1, <2>1
    <3>. QED  BY <3>2, <3>3
  <2>2. CASE k # Dots
    <3>. DEFINE start == u + 1
                m == k + 1
                b == first_approach(rows, start, m)
                w == visit[m]
    <3>1. k < Dots /\ m \in 2 .. Dots /\ m \in 1 .. Dots /\ m - 1 = k  BY <1>1, <2>2
    <3>2. start \in Nat /\ start > 0  BY <1>1
    <3>3. e = b  BY <2>2 DEF WindowEnd
    <3>4. w \in 0 .. n /\ v < w /\ rows[w].near[m] <= WindowRadius  BY <1>4, <3>1
    <3>5. \A i \in 1 .. v : rows[i].near[m] > WindowRadius
      <4>. HIDE DEF m
      <4>1. \A i \in 1 .. visit[m - 1] : rows[i].near[m] > WindowRadius  BY <3>1 DEF DotsInOrder
      <4>. QED  BY <3>1, <4>1
    <3>. HIDE DEF start, m, e
    <3>6. /\ b \in 1 .. n + 1
          /\ b <= n => rows[b].near[m] <= WindowRadius
          /\ \A i \in start .. n : rows[i].near[m] <= WindowRadius => b <= i
      BY <3>2, FirstApproach
    <3>. HIDE DEF b
    <3>7. v < b
      <4>. SUFFICES ASSUME ~(v < b) PROVE FALSE  OBVIOUS
      <4>. HIDE DEF v
      <4>1. b \in 1 .. v /\ b \in 1 .. n  BY <1>1, <1>3, <3>6
      <4>2. rows[b].near[m] <= WindowRadius /\ rows[b].near[m] > WindowRadius  BY <1>1, <3>5, <3>6, <4>1
      <4>3. rows[b].near[m] \in Nat  BY <3>1, <4>1, LinedIs
      <4>. DEFINE d == rows[b].near[m]
      <4>. HIDE DEF d
      <4>4. d <= WindowRadius /\ d > WindowRadius /\ d \in Nat  BY <4>2, <4>3 DEF d
      <4>. QED  BY <1>1, <4>4
    <3>8. b <= w
      <4>. HIDE DEF w, v
      <4>1. w \in start .. n
        <5>. HIDE DEF start
        <5>1. u <= v  BY DEF v
        <5>2. u + 1 <= w /\ w <= n /\ w \in Int  BY <1>1, <1>3, <3>4, <5>1
        <5>. QED  BY <1>1, <5>2 DEF start
      <4>. QED  BY <3>4, <3>6, <4>1
    <3>9. b \in Nat  BY <3>6
    <3>. QED  BY <3>3, <3>7, <3>8, <3>9 DEF m
  <2>. QED  BY <2>1, <2>2
<1>7. a \in u .. e - 1 /\ claim.used = a + 1 /\ \A j \in u .. e - 1 : rows[a].near[k] <= rows[j].near[k]
  <2>1. u <= n  BY <1>1, <1>5
  <2>. QED  BY <2>1 DEF ClaimsWell
<1>8. v \in u .. e - 1
  <2>1. u <= v  OBVIOUS
  <2>. HIDE DEF v, e
  <2>. QED  BY <1>1, <1>3, <1>5, <1>6, <2>1
<1>9. rows[a].near[k] <= WindowRadius
  <2>. DEFINE p == rows[a].near[k]
              q == rows[v].near[k]
  <2>1. p <= q /\ q <= WindowRadius  BY <1>3, <1>7, <1>8
  <2>2. a \in 1 .. n /\ v \in 1 .. n
    <3>1. a \in 0 .. n  BY DEF ClaimsWell
    <3>. HIDE DEF a, v, e
    <3>. QED  BY <1>1, <1>3, <1>5, <1>7, <1>8, <3>1
  <2>3. p \in Nat /\ q \in Nat  BY <2>2, LinedIs
  <2>. HIDE DEF p, q
  <2>4. p <= WindowRadius  BY <1>1, <2>1, <2>3
  <2>. QED  BY <2>4 DEF p
<1>10. a # 0
  <2>. HIDE DEF a, e
  <2>. QED  BY <1>5, <1>7
<1>11. k < Dots => claim.used <= visit[k + 1]
  <2>. SUFFICES ASSUME k < Dots PROVE claim.used <= visit[k + 1]  OBVIOUS
  <2>. DEFINE w == visit[k + 1]
  <2>1. e <= w /\ w \in 0 .. n  BY <1>4, <1>6
  <2>. HIDE DEF a, e, w
  <2>2. a + 1 <= w  BY <1>5, <1>6, <1>7, <2>1
  <2>. QED  BY <1>7, <2>2 DEF w
<1>. QED  BY <1>9, <1>10, <1>11 DEF Met

LEMMA ClaimsMeetVisits ==
  ASSUME NEW rows, NEW n, Lined(rows, n), NEW visit, DotsInOrder(rows, n, visit), NEW claim, ClaimsRun(rows, n, claim)
  PROVE  \A k \in 1 .. Dots : claim[k].at # 0 /\ rows[claim[k].at].near[k] <= WindowRadius
<1>1. Dots \in Nat /\ n \in Nat  BY GeometryConstants, LinedIs
<1>0. /\ claim[0] = [at |-> 0, used |-> 1]
      /\ \A k \in 0 .. Dots : claim[k].used \in 1 .. n + 1
      /\ \A k \in 1 .. Dots : ClaimsWell(rows, n, k, claim[k - 1].used, claim[k])
  BY DEF ClaimsRun
<1>. USE <1>0
<1>2. ASSUME NEW k \in 1 .. Dots, claim[k - 1].used <= visit[k] PROVE Met(rows, visit, k, claim[k])
  <2>1. k - 1 \in 0 .. Dots  BY <1>1
  <2>. DEFINE u == claim[k - 1].used
              c == claim[k]
  <2>2. u \in 1 .. n + 1 /\ u <= visit[k] /\ ClaimsWell(rows, n, k, u, c)  BY <1>2, <2>1
  <2>. HIDE DEF u, c
  <2>3. Met(rows, visit, k, c)  BY <2>2, ClaimMeetsVisit
  <2>. QED  BY <2>3 DEF c
<1>. DEFINE T == {k \in Nat : k < Dots => claim[k].used <= visit[k + 1]}
<1>3. 0 \in T
  <2>. SUFFICES ASSUME 0 < Dots PROVE claim[0].used <= visit[0 + 1]  OBVIOUS
  <2>. DEFINE m == 1
  <2>1. m \in 1 .. Dots /\ m - 1 = 0 /\ m \in 0 .. Dots /\ m = 0 + 1  BY <1>1
  <2>2. Visited(rows, n, visit) /\ visit[Dots] <= n  BY DEF DotsInOrder
  <2>. HIDE DEF m
  <2>3. visit[m - 1] < visit[m] /\ visit[m] \in 0 .. n  BY <2>1, <2>2, VisitsInOrder
  <2>4. visit[0] = 0  BY <2>2 DEF Visited
  <2>. DEFINE w == visit[m]
  <2>5. 0 < w /\ w \in 0 .. n  BY <2>1, <2>3, <2>4
  <2>. HIDE DEF w
  <2>6. 1 <= w  BY <2>5
  <2>7. claim[0].used = 1  OBVIOUS
  <2>. QED  BY <2>1, <2>6, <2>7 DEF w
<1>4. ASSUME NEW k \in 1 .. Dots, k - 1 \in T PROVE k \in T
  <2>1. k - 1 < Dots /\ k - 1 + 1 = k  BY <1>1
  <2>2. claim[k - 1].used <= visit[k]  BY <1>4, <2>1
  <2>3. Met(rows, visit, k, claim[k])  BY <1>2, <2>2
  <2>. QED  BY <2>3 DEF Met
<1>. HIDE DEF T
<1>5. \A k \in 0 .. Dots : k \in T  BY <1>1, <1>3, <1>4, UpTo
<1>6. ASSUME NEW k \in 1 .. Dots PROVE claim[k].at # 0 /\ rows[claim[k].at].near[k] <= WindowRadius
  <2>1. k - 1 \in 0 .. Dots /\ k - 1 < Dots /\ k - 1 + 1 = k  BY <1>1
  <2>2. k - 1 \in T  BY <1>5, <2>1
  <2>3. claim[k - 1].used <= visit[k]  BY <2>1, <2>2 DEF T
  <2>. QED  BY <1>2, <2>3 DEF Met
<1>. QED  BY <1>6

\* All of it is a hundred percent, and nothing less is.
LEMMA AllOfIt ==
  ASSUME NEW s \in Nat, s > 0, NEW l \in 0 .. s
  PROVE  (100 * (s - l)) \div s = 100 <=> l = 0
<1>. DEFINE p == 100 * (s - l)
            q == p \div s
            r == p % s
<1>1. p \in Int /\ s \in Int /\ s > 0  OBVIOUS
<1>2. q \in Int /\ r \in 0 .. s - 1 /\ p = s * q + r
  <2>. HIDE DEF p
  <2>. QED  BY <1>1
<1>. HIDE DEF q, r
<1>3. l = 0 => q = 100
  <2>. SUFFICES ASSUME l = 0 PROVE q = 100  OBVIOUS
  <2>1. p = 100 * s  OBVIOUS
  <2>2. s * (100 - q) = r
    <3>1. s * (100 - q) = 100 * s - s * q  BY <1>2
    <3>. QED  BY <1>2, <2>1, <3>1
  <2>3. CASE 100 - q >= 1
    <3>1. s * (100 - q) >= s  BY <1>2, <2>3
    <3>. QED  BY <1>2, <2>2, <3>1
  <2>4. CASE 100 - q <= -1
    <3>1. s * (100 - q) <= -s  BY <1>2, <2>4
    <3>. QED  BY <1>2, <2>2, <3>1
  <2>. QED  BY <1>2, <2>3, <2>4
<1>4. q = 100 => l = 0
  <2>. SUFFICES ASSUME q = 100 PROVE l = 0  OBVIOUS
  <2>1. 100 * (s - l) = 100 * s + r  BY <1>2
  <2>. QED  BY <1>2, <2>1
<1>. QED  BY <1>3, <1>4 DEF q

\* Frames in the order of their times.
InTime(rows, n, t) ==
    /\ n > 1 /\ t \in [0 .. n -> Int]
    /\ \A i \in 1 .. n : rows[i].t = t[i]
    /\ \A i \in 2 .. n : t[i - 1] < t[i]

LEMMA TrackScoreIs ==
  ASSUME NEW rows, NEW n, Lined(rows, n), NEW t, InTime(rows, n, t)
  PROVE  TrackScore(rows) = 100 <=> Gaps(rows) = {}
<1>. DEFINE gaps == Gaps(rows)
            F(f) == [i \in 0 .. Len(rows) |->
                       IF i <= 1 THEN 0
                       ELSE f[i - 1] + IF i - 1 \in gaps THEN rows[i].t - rows[i - 1].t ELSE 0]
            lost == CHOOSE f : f = F(f)
            more(i) == IF i - 1 \in gaps THEN t[i] - t[i - 1] ELSE 0
            step == [x \in Nat \X (1 .. n) |-> x[1] + more(x[2])]
<1>0. /\ n > 1 /\ t \in [0 .. n -> Int]
      /\ \A i \in 1 .. n : rows[i].t = t[i]
      /\ \A i \in 2 .. n : t[i - 1] < t[i]
  BY DEF InTime
<1>. USE <1>0
<1>1. n \in Nat /\ Len(rows) = n  BY LinedIs
<1>2. gaps \subseteq 1 .. n - 1  BY <1>1 DEF Gaps
<1>. HIDE DEF gaps
<1>3. ASSUME NEW i \in 1 .. n PROVE more(i) \in Nat /\ (i = 1 => more(i) = 0)
  <2>1. CASE i = 1
    <3>1. ~(i - 1 \in gaps)  BY <1>2, <2>1
    <3>. QED  BY <3>1
  <2>2. CASE i # 1
    <3>1. i \in 2 .. n /\ i - 1 \in 0 .. n /\ i \in 0 .. n  BY <1>1, <2>2
    <3>2. t[i] \in Int /\ t[i - 1] \in Int /\ t[i - 1] < t[i]  BY <3>1
    <3>. DEFINE d == t[i] - t[i - 1]
    <3>3. d \in Nat  BY <3>2
    <3>. HIDE DEF d
    <3>4. more(i) = IF i - 1 \in gaps THEN d ELSE 0  BY DEF d
    <3>. QED  BY <2>2, <3>3, <3>4
  <2>. QED  BY <2>1, <2>2
<1>4. ASSUME NEW x \in Nat, NEW i \in 1 .. n PROVE step[<<x, i>>] = x + more(i) /\ x + more(i) \in Nat
  <2>. DEFINE m == more(i)
  <2>1. m \in Nat  BY <1>3
  <2>2. step[<<x, i>>] = x + m  OBVIOUS
  <2>. HIDE DEF m
  <2>3. x + m \in Nat  BY <2>1
  <2>. QED  BY <2>2, <2>3 DEF m
<1>. HIDE DEF step
<1>5. PICK h : TakenFrom(0, n, Nat, step, h)
  <2>1. StaysIn(n, Nat, step)  BY <1>4 DEF StaysIn
  <2>2. \E h : TakenFrom(0, n, Nat, step, h)
    <3>. DEFINE z == 0
    <3>1. z \in Nat  OBVIOUS
    <3>. HIDE DEF z
    <3>2. \E h : TakenFrom(z, n, Nat, step, h)  BY <1>1, <2>1, <3>1, Iterated
    <3>. QED  BY <3>2 DEF z
  <2>. QED  BY <2>2
<1>6. h \in [0 .. n -> Nat] /\ h[0] = 0 /\ \A i \in 1 .. n : h[i] = step[<<h[i - 1], i>>]
  BY <1>5 DEF TakenFrom
<1>7. \A i \in 1 .. n : h[i] = h[i - 1] + more(i)
  <2>. TAKE i \in 1 .. n
  <2>1. i - 1 \in 0 .. n  BY <1>1
  <2>2. h[i - 1] \in Nat  BY <1>6, <2>1
  <2>. QED  BY <1>4, <1>6, <2>2
<1>8. h = F(h)
  <2>1. ASSUME NEW i \in 0 .. n
        PROVE  h[i] = IF i <= 1 THEN 0 ELSE h[i - 1] + IF i - 1 \in gaps THEN rows[i].t - rows[i - 1].t ELSE 0
    <3>1. CASE i = 0  BY <1>6, <3>1
    <3>2. CASE i = 1
      <4>1. more(i) = 0 /\ i \in 1 .. n /\ i - 1 = 0  BY <1>1, <1>3, <3>2
      <4>2. h[i] = 0 + more(i)  BY <1>6, <1>7, <4>1
      <4>3. h[i] = 0  BY <4>1, <4>2
      <4>. QED  BY <3>2, <4>3
    <3>3. CASE i > 1
      <4>1. i \in 1 .. n /\ i - 1 \in 1 .. n /\ ~(i <= 1)  BY <1>1, <3>3
      <4>2. rows[i].t = t[i] /\ rows[i - 1].t = t[i - 1]  BY <4>1
      <4>3. h[i] = h[i - 1] + more(i)  BY <1>7, <4>1
      <4>. QED  BY <4>1, <4>2, <4>3
    <3>. QED  BY <1>1, <3>1, <3>2, <3>3
  <2>2. h = [i \in 0 .. n |-> h[i]]  BY <1>6
  <2>3. [i \in 0 .. n |-> h[i]] = F(h)
    <3>1. F(h) = [i \in 0 .. n |-> IF i <= 1 THEN 0 ELSE h[i - 1] + IF i - 1 \in gaps THEN rows[i].t - rows[i - 1].t ELSE 0]
      BY <1>1
    <3>. QED  BY <2>1, <3>1
  <2>. QED  BY <2>2, <2>3
<1>9. lost = F(lost)
  <2>. HIDE DEF F
  <2>. QED  BY <1>8
<1>10. TrackScore(rows) = LET span == rows[n].t - rows[1].t
                          IN IF span > 0 THEN (100 * (span - lost[n])) \div span ELSE 0
  BY <1>1 DEF TrackScore, gaps
<1>. HIDE DEF lost, F
<1>11. lost \in [0 .. n -> Nat] /\ lost[0] = 0 /\ lost[1] = 0 /\ \A i \in 1 .. n : lost[i] = lost[i - 1] + more(i)
  <2>1. 0 \in 0 .. n /\ 1 \in 0 .. n /\ 0 <= 1 /\ 1 <= 1  BY <1>1
  <2>2. lost = [i \in 0 .. n |-> IF i <= 1 THEN 0
                  ELSE lost[i - 1] + IF i - 1 \in gaps THEN rows[i].t - rows[i - 1].t ELSE 0]
    BY <1>1, <1>9 DEF F
  <2>3. lost[0] = 0 /\ lost[1] = 0  BY <2>1, <2>2
  <2>4. ASSUME NEW i \in 1 .. n PROVE lost[i] = lost[i - 1] + more(i)
    <3>1. CASE i = 1
      <4>. DEFINE m == more(i)
      <4>0. i - 1 = 0  BY <3>1
      <4>1. m = 0 /\ lost[i] = 0 /\ lost[i - 1] = 0
        <5>1. m = 0  BY <1>3, <3>1
        <5>2. lost[i] = 0 /\ lost[i - 1] = 0  BY <2>3, <3>1, <4>0
        <5>. QED  BY <5>1, <5>2
      <4>. HIDE DEF m
      <4>2. lost[i] = lost[i - 1] + m  BY <4>1
      <4>. QED  BY <4>2 DEF m
    <3>2. CASE i # 1
      <4>1. i \in 1 .. n /\ i - 1 \in 1 .. n /\ ~(i <= 1) /\ i \in 0 .. n  BY <1>1, <3>2
      <4>2. rows[i].t = t[i] /\ rows[i - 1].t = t[i - 1]  BY <4>1
      <4>3. lost[i] = lost[i - 1] + IF i - 1 \in gaps THEN rows[i].t - rows[i - 1].t ELSE 0  BY <2>2, <4>1
      <4>. QED  BY <4>2, <4>3
    <3>. QED  BY <3>1, <3>2
  <2>. DEFINE T == {i \in Nat : lost[i] \in Nat}
  <2>5. 0 \in T  BY <2>3
  <2>6. ASSUME NEW i \in 1 .. n, i - 1 \in T PROVE i \in T
    <3>. DEFINE m == more(i)
    <3>1. m \in Nat /\ lost[i - 1] \in Nat /\ lost[i] = lost[i - 1] + m  BY <1>3, <2>4, <2>6
    <3>. HIDE DEF m
    <3>2. lost[i] \in Nat  BY <3>1
    <3>. QED  BY <3>2
  <2>. HIDE DEF T
  <2>7. \A i \in 0 .. n : i \in T  BY <1>1, <2>5, <2>6, UpTo
  <2>8. \A i \in 0 .. n : lost[i] \in Nat  BY <2>7 DEF T
  <2>9. lost = [i \in 0 .. n |-> lost[i]]  BY <2>2
  <2>10. lost \in [0 .. n -> Nat]  BY <2>8, <2>9
  <2>. QED  BY <2>3, <2>4, <2>10
<1>12. t[1] \in Int /\ \A i \in 0 .. n : t[i] \in Int /\ lost[i] \in Nat  BY <1>1, <1>11
\* What is lost is no more than what has passed, something with a gap and nothing without.
<1>13. ASSUME NEW i \in 1 .. n
       PROVE  /\ lost[i] <= t[i] - t[1] /\ (i > 1 => t[i] - t[1] > 0)
              /\ gaps = {} => lost[i] = 0
              /\ \A g \in gaps : g < i => lost[i] > 0
  <2>. DEFINE Good(j) == /\ lost[j] <= t[j] - t[1] /\ (j > 1 => t[j] - t[1] > 0)
                         /\ gaps = {} => lost[j] = 0
                         /\ \A g \in gaps : g < j => lost[j] > 0
              T == {j \in Nat : j >= 1 => Good(j)}
  <2>1. 0 \in T  OBVIOUS
  <2>2. ASSUME NEW j \in 1 .. n, j - 1 \in T PROVE j \in T
    <3>1. CASE j = 1
      <4>1. lost[j] = 0 /\ t[j] - t[1] = 0  BY <1>11, <1>12, <3>1
      <4>2. \A g \in gaps : ~(g < j)  BY <1>2, <3>1
      <4>. QED  BY <3>1, <4>1, <4>2
    <3>2. CASE j # 1
      <4>1. j \in 2 .. n /\ j - 1 >= 1 /\ j - 1 \in 1 .. n /\ j \in 0 .. n /\ j - 1 \in 0 .. n /\ j > 1  BY <1>1, <3>2
      <4>2. Good(j - 1)  BY <2>2, <4>1
      <4>. DEFINE a == lost[j - 1]
                  b == lost[j]
                  u == t[j - 1]
                  v == t[j]
                  o == t[1]
                  m == more(j)
      <4>3. a \in Nat /\ b \in Nat /\ u \in Int /\ v \in Int /\ o \in Int /\ m \in Nat /\ b = a + m /\ u < v
        BY <1>3, <1>11, <1>12, <4>1
      <4>4. m = IF j - 1 \in gaps THEN v - u ELSE 0  OBVIOUS
      <4>5. a <= u - o /\ (gaps = {} => a = 0) /\ (\A g \in gaps : g < j - 1 => a > 0)
            /\ (j - 1 > 1 => u - o > 0)
        BY <4>2
      <4>6. j - 1 = 1 => u = o  OBVIOUS
      <4>. HIDE DEF a, b, u, v, o, m
      <4>7. b <= v - o /\ v - o > 0  BY <4>3, <4>4, <4>5
      <4>8. gaps = {} => b = 0  BY <4>3, <4>4, <4>5
      <4>9. ASSUME NEW g \in gaps, g < j PROVE b > 0
        <5>1. CASE g = j - 1  BY <4>3, <4>4, <5>1
        <5>2. CASE g # j - 1
          <6>1. g < j - 1  BY <1>2, <4>9, <5>2
          <6>. QED  BY <4>3, <4>5, <6>1
        <5>. QED  BY <5>1, <5>2
      <4>10. Good(j)  BY <4>7, <4>8, <4>9 DEF a, b, u, v, o
      <4>. QED  BY <4>10
    <3>. QED  BY <3>1, <3>2
  <2>. HIDE DEF T
  <2>3. \A j \in 0 .. n : j \in T  BY <1>1, <2>1, <2>2, UpTo
  <2>4. i \in 0 .. n /\ i >= 1  BY <1>1
  <2>5. Good(i)
    <3>1. i \in T  BY <2>3, <2>4
    <3>. HIDE DEF Good
    <3>. QED  BY <2>4, <3>1 DEF T
  <2>. QED  BY <2>5
<1>. DEFINE s == t[n] - t[1]
            l == lost[n]
<1>14. n \in 1 .. n /\ n \in 0 .. n /\ 1 \in 1 .. n  BY <1>1
<1>15. s \in Nat /\ s > 0 /\ l \in Nat /\ l <= s
  <2>1. t[n] \in Int /\ t[1] \in Int /\ l \in Nat /\ l <= s /\ s > 0  BY <1>12, <1>13, <1>14
  <2>2. s \in Int  BY <2>1
  <2>. HIDE DEF s, l
  <2>. QED  BY <2>1, <2>2
<1>16. TrackScore(rows) = (100 * (s - l)) \div s
  <2>1. rows[n].t = t[n] /\ rows[1].t = t[1]  BY <1>14
  <2>2. TrackScore(rows) = IF s > 0 THEN (100 * (s - l)) \div s ELSE 0  BY <1>10, <2>1
  <2>. HIDE DEF s, l
  <2>. QED  BY <1>15, <2>2
<1>17. l = 0 <=> gaps = {}
  <2>1. gaps = {} => l = 0  BY <1>13, <1>14
  <2>2. ASSUME gaps # {} PROVE l > 0
    <3>1. PICK g \in gaps : TRUE  BY <2>2
    <3>2. g < n  BY <1>1, <1>2, <3>1
    <3>. QED  BY <1>13, <1>14, <3>1, <3>2
  <2>. HIDE DEF l
  <2>. QED  BY <1>15, <2>1, <2>2
<1>18. (100 * (s - l)) \div s = 100 <=> l = 0
  <2>. HIDE DEF s, l
  <2>1. l \in 0 .. s  BY <1>15
  <2>. QED  BY <1>15, <2>1, AllOfIt
<1>. QED  BY <1>16, <1>17, <1>18 DEF gaps

\* What CornersInOrder says of a track.
CornersWell(rows, out) ==
    LET at == Claims(rows)
        visit[k \in 0 .. Dots] == IF k = 0 THEN 0 ELSE first_approach(rows, visit[k - 1] + 1, k)
        orderly == /\ visit[Dots] <= Len(rows)
                   /\ \A k \in 2 .. Dots : \A i \in 1 .. visit[k - 1] : rows[i].near[k] > WindowRadius
    IN /\ \A j, k \in 1 .. Dots : j < k /\ at[k] # 0 => at[j] # 0 /\ at[j] < at[k]
       /\ orderly => \A k \in 1 .. Dots : at[k] # 0 /\ rows[at[k]].near[k] <= WindowRadius
       /\ \A k \in 1 .. Dots :
            out.scores[k] # 0 => rows[at[k]].near[k] <= Close \/ ~Blind(rows, at[k])
       /\ Len(rows) > 1 => (out.tracked = 100 <=> Gaps(rows) = {})

\* The times of a track with its blind stretch after sample gap.
Times(gap, n) == [i \in 0 .. n |-> 2 * i + (IF i > gap THEN 20 ELSE 0)]

LEMMA TimesGrow ==
  ASSUME NEW n \in Nat, NEW gap \in Int
  PROVE  Times(gap, n) \in [0 .. n -> Int] /\ \A i \in 2 .. n : Times(gap, n)[i - 1] < Times(gap, n)[i]
<1>1. \A i \in 0 .. n : 2 * i + (IF i > gap THEN 20 ELSE 0) \in Int  OBVIOUS
<1>2. Times(gap, n) \in [0 .. n -> Int]  BY <1>1 DEF Times
<1>3. ASSUME NEW i \in 2 .. n PROVE Times(gap, n)[i - 1] < Times(gap, n)[i]
  <2>1. i - 1 \in 0 .. n /\ i \in 0 .. n  OBVIOUS
  <2>2. Times(gap, n)[i] = 2 * i + (IF i > gap THEN 20 ELSE 0)  BY <2>1 DEF Times
  <2>3. Times(gap, n)[i - 1] = 2 * (i - 1) + (IF i - 1 > gap THEN 20 ELSE 0)  BY <2>1 DEF Times
  <2>. QED  BY <2>2, <2>3
<1>. QED  BY <1>2, <1>3

LEMMA CornersHold ==
  ASSUME NEW rows, NEW n, Lined(rows, n), NEW t, n > 1 => InTime(rows, n, t)
  PROVE  CornersWell(rows, [scores |-> score_corners(rows), tracked |-> TrackScore(rows)])
<1>. DEFINE F(f) == [k \in 0 .. Dots |-> IF k = 0 THEN 0 ELSE first_approach(rows, f[k - 1] + 1, k)]
            visit == CHOOSE f : f = F(f)
            out == [scores |-> score_corners(rows), tracked |-> TrackScore(rows)]
<1>1. n \in Nat /\ n > 0 /\ Dots \in Nat  BY GeometryConstants, LinedIs
<1>3. Len(rows) = n  BY LinedIs
<1>2. PICK claim : ClaimsRun(rows, n, claim)  BY ClaimsAre
<1>4. Claims(rows) = [k \in 1 .. Dots |-> claim[k].at]  BY <1>2 DEF ClaimsRun
<1>5. \A j, k \in 1 .. Dots : j < k /\ Claims(rows)[k] # 0 => Claims(rows)[j] # 0 /\ Claims(rows)[j] < Claims(rows)[k]
  <2>1. \A j, k \in 1 .. Dots : j < k /\ claim[k].at # 0 => claim[j].at # 0 /\ claim[j].at < claim[k].at
    BY <1>2, ClaimsGoOn
  <2>. QED  BY <1>4, <2>1
\* The recursive visit has the values it is given.
<1>6. Visited(rows, n, visit)
  <2>. DEFINE S == Nat
              z == 0
              step == [x \in S \X (1 .. Dots) |-> first_approach(rows, x[1] + 1, x[2])]
  <2>1. ASSUME NEW x \in S, NEW i \in 1 .. Dots
        PROVE  step[<<x, i>>] = first_approach(rows, x + 1, i) /\ step[<<x, i>>] \in S
    <3>. DEFINE start == x + 1
                a == first_approach(rows, start, i)
    <3>1. start \in Nat /\ start > 0  OBVIOUS
    <3>2. step[<<x, i>>] = a  OBVIOUS
    <3>. HIDE DEF start, step
    <3>3. a \in 1 .. n + 1  BY <3>1, FirstApproach
    <3>. HIDE DEF a
    <3>4. a \in Nat  BY <3>3
    <3>. QED  BY <3>2, <3>4 DEF a, start
  <2>2. z \in S  OBVIOUS
  <2>. HIDE DEF step, z, S
  <2>3. PICK h : TakenFrom(z, Dots, S, step, h)
    <3>1. StaysIn(Dots, S, step)  BY <2>1 DEF StaysIn
    <3>. QED  BY <1>1, <2>2, <3>1, Iterated
  <2>4. /\ h \in [0 .. Dots -> S] /\ h[0] = z
        /\ \A i \in 1 .. Dots : h[i] = step[<<h[i - 1], i>>]
    BY <2>3 DEF TakenFrom
  <2>5. h = F(h)
    <3>1. ASSUME NEW k \in 0 .. Dots PROVE h[k] = IF k = 0 THEN 0 ELSE first_approach(rows, h[k - 1] + 1, k)
      <4>1. CASE k = 0  BY <2>4, <4>1 DEF z
      <4>2. CASE k # 0
        <5>1. k \in 1 .. Dots /\ k - 1 \in 0 .. Dots  BY <1>1, <4>2
        <5>2. h[k - 1] \in S /\ h[k] = step[<<h[k - 1], k>>]  BY <2>4, <5>1
        <5>3. h[k] = first_approach(rows, h[k - 1] + 1, k)  BY <2>1, <5>1, <5>2
        <5>. QED  BY <4>2, <5>3
      <4>. QED  BY <4>1, <4>2
    <3>2. h = [k \in 0 .. Dots |-> h[k]]  BY <2>4
    <3>. QED  BY <3>1, <3>2
  <2>6. visit = F(visit)
    <3>. HIDE DEF F
    <3>. QED  BY <2>5
  <2>. HIDE DEF visit
  <2>7. 0 \in 0 .. Dots /\ \A k \in 1 .. Dots : k \in 0 .. Dots /\ k # 0  BY <1>1
  <2>8. visit[0] = 0 /\ \A k \in 1 .. Dots : visit[k] = first_approach(rows, visit[k - 1] + 1, k)
    BY <2>6, <2>7
  <2>. QED  BY <2>8 DEF Visited
<1>7. ASSUME visit[Dots] <= n, \A k \in 2 .. Dots : \A i \in 1 .. visit[k - 1] : rows[i].near[k] > WindowRadius
      PROVE  \A k \in 1 .. Dots : Claims(rows)[k] # 0 /\ rows[Claims(rows)[k]].near[k] <= WindowRadius
  <2>. HIDE DEF visit
  <2>1. DotsInOrder(rows, n, visit)  BY <1>6, <1>7 DEF DotsInOrder
  <2>2. \A k \in 1 .. Dots : claim[k].at # 0 /\ rows[claim[k].at].near[k] <= WindowRadius
    BY <1>2, <2>1, ClaimsMeetVisits
  <2>. QED  BY <1>4, <2>2
<1>8. \A k \in 1 .. Dots : out.scores[k] # 0 =>
         rows[Claims(rows)[k]].near[k] <= Close \/ ~Blind(rows, Claims(rows)[k])
  BY DEF score_corners
<1>9. n > 1 => (out.tracked = 100 <=> Gaps(rows) = {})
  <2>. SUFFICES ASSUME n > 1 PROVE TrackScore(rows) = 100 <=> Gaps(rows) = {}  OBVIOUS
  <2>. QED  BY TrackScoreIs
<1>10. CornersWell(rows, out) <=>
         /\ \A j, k \in 1 .. Dots : j < k /\ Claims(rows)[k] # 0 => Claims(rows)[j] # 0 /\ Claims(rows)[j] < Claims(rows)[k]
         /\ (/\ visit[Dots] <= n
             /\ \A k \in 2 .. Dots : \A i \in 1 .. visit[k - 1] : rows[i].near[k] > WindowRadius)
               => \A k \in 1 .. Dots : Claims(rows)[k] # 0 /\ rows[Claims(rows)[k]].near[k] <= WindowRadius
         /\ \A k \in 1 .. Dots : out.scores[k] # 0 =>
              rows[Claims(rows)[k]].near[k] <= Close \/ ~Blind(rows, Claims(rows)[k])
         /\ n > 1 => (out.tracked = 100 <=> Gaps(rows) = {})
  BY <1>3 DEF CornersWell
<1>. HIDE DEF visit, out
<1>11. CornersWell(rows, out)  BY <1>5, <1>7, <1>8, <1>9, <1>10
<1>. QED  BY <1>11 DEF out

LEMMA TrackHolds ==
  ASSUME NEW n \in 1 .. MaxRows, NEW at \in [1 .. n -> Places], NEW gap \in 1 .. n
  PROVE  LET rows == [i \in 1 .. n |-> [t |-> 2 * i + (IF i > gap THEN 20 ELSE 0), near |-> at[i]]]
         IN CornersWell(rows, [scores |-> score_corners(rows), tracked |-> TrackScore(rows)])
<1>. DEFINE time(i) == 2 * i + (IF i > gap THEN 20 ELSE 0)
            rows == [i \in 1 .. n |-> [t |-> time(i), near |-> at[i]]]
            t == Times(gap, n)
<1>1. n \in Nat /\ n > 0 /\ Dots \in Nat /\ Places \subseteq [1 .. Dots -> Nat]
  BY GeometryConstants
<1>2. Lined(rows, n)
  <2>1. ASSUME NEW i \in 1 .. n
        PROVE  [t |-> time(i), near |-> at[i]] \in [t : Int, near : [1 .. Dots -> Nat]]
    <3>1. at[i] \in [1 .. Dots -> Nat]  BY <1>1
    <3>2. time(i) \in Int  OBVIOUS
    <3>. HIDE DEF time
    <3>. QED  BY <3>1, <3>2
  <2>. HIDE DEF time
  <2>3. rows \in Rows(n)  BY <2>1 DEF Rows
  <2>. QED  BY <1>1, <2>3 DEF Lined
<1>3. n > 1 => InTime(rows, n, t)
  <2>. SUFFICES ASSUME n > 1 PROVE InTime(rows, n, t)  OBVIOUS
  <2>1. gap \in Int  OBVIOUS
  <2>2. t \in [0 .. n -> Int] /\ \A i \in 2 .. n : t[i - 1] < t[i]  BY <1>1, <2>1, TimesGrow
  <2>3. \A i \in 1 .. n : rows[i].t = t[i]
    <3>. TAKE i \in 1 .. n
    <3>1. i \in 0 .. n  BY <1>1
    <3>2. t[i] = time(i)  BY <3>1 DEF Times
    <3>. HIDE DEF time
    <3>3. rows[i].t = time(i)  OBVIOUS
    <3>. QED  BY <3>2, <3>3
  <2>. HIDE DEF t, rows
  <2>. QED  BY <2>2, <2>3 DEF InTime
<1>. DEFINE r == rows
<1>. HIDE DEF t, r
<1>4. Lined(r, n) /\ (n > 1 => InTime(r, n, t))  BY <1>2, <1>3 DEF r
<1>5. CornersWell(r, [scores |-> score_corners(r), tracked |-> TrackScore(r)])  BY <1>4, CornersHold
<1>. QED  BY <1>5 DEF r

-----------------------------------------------------------------------------
(* One call of each.                                                        *)

LEMMA OneCall ==
  ASSUME NEW f, NEW in, NEW out, Call(f, in, out)
  PROVE  geometry'.f = f /\ geometry'.in = in /\ geometry'.out = out
BY DEF Call

LEMMA TurnStep ==
  ASSUME TurnCall
  PROVE  GeometryIsRight'
<1>1. PICK c \in Turns, m \in Turns : Call("turn", <<c, m>>, turn_total(c, m))  BY DEF TurnCall
<1>2. geometry'.f = "turn" /\ geometry'.in = <<c, m>> /\ geometry'.out = turn_total(c, m)  BY <1>1, OneCall
<1>3. c \in Int /\ m \in Int  BY GeometryConstants
<1>4. TurnsKeepTheirSign'
  <2>1. (turn_total(c, m) - m) % 360 = 0 /\ turn_total(c, m) - c \in -179 .. 180  BY <1>3, TurnHolds
  <2>2. geometry'.in[1] = c /\ geometry'.in[2] = m  BY <1>2
  <2>. QED  BY <1>2, <2>1, <2>2 DEF TurnsKeepTheirSign
<1>5. PlansPark'  BY <1>2 DEF PlansPark
<1>6. CornersInOrder'  BY <1>2 DEF CornersInOrder
<1>7. MountsAreTheirOwn'  BY <1>2 DEF MountsAreTheirOwn
<1>8. PosesAreTheRobots'  BY <1>2 DEF PosesAreTheRobots
<1>. QED  BY <1>4, <1>5, <1>6, <1>7, <1>8 DEF GeometryIsRight

LEMMA ParkStep ==
  ASSUME Park
  PROVE  GeometryIsRight'
<1>1. PICK p \in Poses, g \in Goals :
        /\ p.x = g.x \/ p.y = g.y \/ Parked(p, g) \/ Aimed(p, g)
        /\ Call("park", <<p, g>>, plan(p, g))
  BY DEF Park
<1>2. geometry'.f = "park" /\ geometry'.in = <<p, g>> /\ geometry'.out = plan(p, g)  BY <1>1, OneCall
<1>3. p \in Posed /\ g \in GoalPoses  BY GeometryConstants DEF Posed, GoalPoses
<1>4. Plans(p, g, plan(p, g))  BY <1>1, <1>3, ParkedPlan, AimedPlan, ApproachPlan
<1>5. PlansPark'
  <2>. DEFINE moves == plan(p, g)
  <2>1. Plans(p, g, moves)  BY <1>4
  <2>2. geometry'.in[1] = p /\ geometry'.in[2] = g /\ geometry'.out = moves  BY <1>2
  <2>. HIDE DEF moves
  <2>. QED  BY <2>1, <2>2 DEF PlansPark, Plans
<1>6. TurnsKeepTheirSign'  BY <1>2 DEF TurnsKeepTheirSign
<1>7. CornersInOrder'  BY <1>2 DEF CornersInOrder
<1>8. MountsAreTheirOwn'  BY <1>2 DEF MountsAreTheirOwn
<1>9. PosesAreTheRobots'  BY <1>2 DEF PosesAreTheRobots
<1>. QED  BY <1>5, <1>6, <1>7, <1>8, <1>9 DEF GeometryIsRight

LEMMA TrackStep ==
  ASSUME Track
  PROVE  GeometryIsRight'
<1>1. PICK n \in 1 .. MaxRows : \E at \in [1 .. n -> Places], gap \in 1 .. n :
        LET rows == [i \in 1 .. n |-> [t |-> 2 * i + (IF i > gap THEN 20 ELSE 0), near |-> at[i]]]
        IN Call("track", rows, [scores |-> score_corners(rows), tracked |-> TrackScore(rows)])
  BY DEF Track
<1>2. PICK at \in [1 .. n -> Places], gap \in 1 .. n :
        LET rows == [i \in 1 .. n |-> [t |-> 2 * i + (IF i > gap THEN 20 ELSE 0), near |-> at[i]]]
        IN Call("track", rows, [scores |-> score_corners(rows), tracked |-> TrackScore(rows)])
  BY <1>1
<1>. DEFINE rows == [i \in 1 .. n |-> [t |-> 2 * i + (IF i > gap THEN 20 ELSE 0), near |-> at[i]]]
            out == [scores |-> score_corners(rows), tracked |-> TrackScore(rows)]
<1>3. Call("track", rows, out)  BY <1>2
<1>4. CornersWell(rows, out)
  BY <1>1, <1>2, TrackHolds
<1>. HIDE DEF rows, out
<1>5. geometry'.f = "track" /\ geometry'.in = rows /\ geometry'.out = out  BY <1>3, OneCall
<1>6. CornersInOrder'  BY <1>4, <1>5 DEF CornersInOrder, CornersWell
<1>7. TurnsKeepTheirSign'  BY <1>5 DEF TurnsKeepTheirSign
<1>8. PlansPark'  BY <1>5 DEF PlansPark
<1>9. MountsAreTheirOwn'  BY <1>5 DEF MountsAreTheirOwn
<1>10. PosesAreTheRobots'  BY <1>5 DEF PosesAreTheRobots
<1>. QED  BY <1>6, <1>7, <1>8, <1>9, <1>10 DEF GeometryIsRight

LEMMA RegisterStep ==
  ASSUME Register
  PROVE  GeometryIsRight'
<1>1. PICK first \in DOMAIN MountsFile.robots \cup {"field", "nobody"},
           second \in DOMAIN MountsFile.robots \cup {"field", "nobody"} :
        LET before == register([tag \in MountTags |-> Nothing], MountsFile, first).mounts
        IN Call("mount", <<before, second>>, register(before, MountsFile, second))
  BY DEF Register
<1>. DEFINE empty == [tag \in MountTags |-> Nothing]
            before == register(empty, MountsFile, first).mounts
            after == register(before, MountsFile, second)
<1>2. Call("mount", <<before, second>>, after)  BY <1>1
<1>3. empty = [tag \in MountTags |-> empty[tag]]  OBVIOUS
<1>4. before = [tag \in MountTags |-> before[tag]]
  <2>. HIDE DEF empty
  <2>1. RegisteredWell(empty, first, register(empty, MountsFile, first))  BY <1>3, RegisterHolds
  <2>. QED  BY <2>1 DEF RegisteredWell
<1>. HIDE DEF before
<1>5. RegisteredWell(before, second, after)  BY <1>4, RegisterHolds
<1>. HIDE DEF after
<1>6. geometry'.f = "mount" /\ geometry'.in = <<before, second>> /\ geometry'.out = after  BY <1>2, OneCall
<1>7. MountsAreTheirOwn'
  <2>1. geometry'.in[1] = before /\ geometry'.in[2] = second  BY <1>6
  <2>. QED  BY <1>5, <1>6, <2>1 DEF MountsAreTheirOwn, RegisteredWell, OwnTags
<1>8. TurnsKeepTheirSign'  BY <1>6 DEF TurnsKeepTheirSign
<1>9. PlansPark'  BY <1>6 DEF PlansPark
<1>10. CornersInOrder'  BY <1>6 DEF CornersInOrder
<1>11. PosesAreTheRobots'  BY <1>6 DEF PosesAreTheRobots
<1>. QED  BY <1>7, <1>8, <1>9, <1>10, <1>11 DEF GeometryIsRight

LEMMA SeeStep ==
  ASSUME See
  PROVE  GeometryIsRight'
<1>1. PICK p \in Poses, at \in Levers, skew \in Skews, inMount \in {0, 1}, noise \in {-1, 0, 1} :
        LET mount == Mount(inMount * at, mount_yaw(skew))
            seen(e) == RawTag([p EXCEPT !.h = wrap(@ + e)], at, skew)
        IN /\ \E q \in Bearings : Abs(wrap(p.h - q)) <= 1
           /\ Call("pose", <<p, skew>>,
                   [registered |-> pose_from_registered_samples(
                        <<Reported(seen(noise), mount), Reported(seen(-noise), mount)>>,
                        (1 - inMount) * at),
                    raw |-> robot_heading_from_tag_yaw(Reported(seen(0), Nothing).h, skew)])
  BY DEF See
<1>. DEFINE mount == Mount(inMount * at, mount_yaw(skew))
            seen(e) == RawTag([p EXCEPT !.h = wrap(@ + e)], at, skew)
            pose == pose_from_registered_samples(<<Reported(seen(noise), mount), Reported(seen(-noise), mount)>>,
                                                 (1 - inMount) * at)
            raw == robot_heading_from_tag_yaw(Reported(seen(0), Nothing).h, skew)
            out == [registered |-> pose, raw |-> raw]
<1>2. PICK q \in Bearings : Abs(wrap(p.h - q)) <= 1  BY <1>1
<1>3. Call("pose", <<p, skew>>, out)  BY <1>1
<1>4. p \in Posed /\ at \in Int /\ skew \in -20 .. 20  BY GeometryConstants DEF Posed
<1>5. pose.x = p.x /\ pose.y = p.y /\ Abs(wrap(pose.h - p.h)) <= 2 * Abs(skew) /\ raw = wrap(p.h)
  <2>1. inMount \in {0, 1} /\ noise \in {-1, 0, 1}  BY <1>1
  <2>2. SeeInputs(p, q, at, skew, inMount, noise)  BY <1>2, <1>4, <2>1 DEF SeeInputs
  <2>3. SeenRight(p, at, skew, inMount, noise)  BY <2>2, SeeHolds
  <2>. QED  BY <2>3 DEF SeenRight
<1>6. out.registered = pose /\ out.raw = raw  OBVIOUS
<1>. HIDE DEF out, pose, raw
<1>7. geometry'.f = "pose" /\ geometry'.in = <<p, skew>> /\ geometry'.out = out  BY <1>3, OneCall
<1>8. PosesAreTheRobots'
  <2>1. geometry'.in[1] = p /\ geometry'.in[2] = skew  BY <1>7
  <2>2. geometry'.out.registered = pose /\ geometry'.out.raw = raw  BY <1>6, <1>7
  <2>. QED  BY <1>5, <2>1, <2>2 DEF PosesAreTheRobots
<1>9. TurnsKeepTheirSign'  BY <1>7 DEF TurnsKeepTheirSign
<1>10. PlansPark'  BY <1>7 DEF PlansPark
<1>11. CornersInOrder'  BY <1>7 DEF CornersInOrder
<1>12. MountsAreTheirOwn'  BY <1>7 DEF MountsAreTheirOwn
<1>. QED  BY <1>8, <1>9, <1>10, <1>11, <1>12 DEF GeometryIsRight

LEMMA PathStep ==
  ASSUME Path
  PROVE  GeometryIsRight'
<1>1. geometry'.f = "path"  BY DEF Path, Call
<1>2. TurnsKeepTheirSign'  BY <1>1 DEF TurnsKeepTheirSign
<1>3. PlansPark'  BY <1>1 DEF PlansPark
<1>4. CornersInOrder'  BY <1>1 DEF CornersInOrder
<1>5. MountsAreTheirOwn'  BY <1>1 DEF MountsAreTheirOwn
<1>6. PosesAreTheRobots'  BY <1>1 DEF PosesAreTheRobots
<1>. QED  BY <1>2, <1>3, <1>4, <1>5, <1>6 DEF GeometryIsRight

(* The field tools' arithmetic, for every angle, pose, track, calibration   *)
(* and tag: field.py's turn totals keep their revolutions, park.py's plans  *)
(* park, the corners of a track are claimed in order, Cam.register() keeps  *)
(* to its own tags and a pose is the robot's.                               *)
THEOREM GeometryHolds == GeometrySpec => []GeometryIsRight
<1>1. GeometryInit => GeometryIsRight
  <2>. SUFFICES ASSUME GeometryInit PROVE GeometryIsRight  OBVIOUS
  <2>1. geometry.f = "none"  BY DEF GeometryInit
  <2>2. TurnsKeepTheirSign  BY <2>1 DEF TurnsKeepTheirSign
  <2>3. PlansPark  BY <2>1 DEF PlansPark
  <2>4. CornersInOrder  BY <2>1 DEF CornersInOrder
  <2>5. MountsAreTheirOwn  BY <2>1 DEF MountsAreTheirOwn
  <2>6. PosesAreTheRobots  BY <2>1 DEF PosesAreTheRobots
  <2>. QED  BY <2>2, <2>3, <2>4, <2>5, <2>6 DEF GeometryIsRight
<1>2. GeometryIsRight /\ [GeometryNext]_geometry => GeometryIsRight'
  <2>. SUFFICES ASSUME GeometryIsRight, [GeometryNext]_geometry PROVE GeometryIsRight'  OBVIOUS
  <2>1. CASE GeometryNext
    BY <2>1, TurnStep, ParkStep, TrackStep, RegisterStep, SeeStep, PathStep DEF GeometryNext
  <2>2. CASE UNCHANGED geometry
    <3>1. /\ TurnsKeepTheirSign /\ PlansPark /\ CornersInOrder
          /\ MountsAreTheirOwn /\ PosesAreTheRobots
      BY DEF GeometryIsRight
    <3>2. TurnsKeepTheirSign'  BY <2>2, <3>1 DEF TurnsKeepTheirSign
    <3>3. PlansPark'  BY <2>2, <3>1 DEF PlansPark
    <3>4. CornersInOrder'  BY <2>2, <3>1 DEF CornersInOrder
    <3>5. MountsAreTheirOwn'  BY <2>2, <3>1 DEF MountsAreTheirOwn
    <3>6. PosesAreTheRobots'  BY <2>2, <3>1 DEF PosesAreTheRobots
    <3>. QED  BY <3>2, <3>3, <3>4, <3>5, <3>6 DEF GeometryIsRight
  <2>. QED  BY <2>1, <2>2
<1>. QED  BY <1>1, <1>2, PTL DEF GeometrySpec

-----------------------------------------------------------------------------
(* tlm.py's pose CSV, written and read back.                                *)

BaseKeys == {"now", "x", "h", "ox", "oh"}

LEMMA CellRead ==
  ASSUME NEW v \in Int, NEW f \in {1, 10, 100}
  PROVE  (((v * 100) \div f) * f) \div 100 = v
<1>1. CASE f = 1
  BY <1>1
<1>2. CASE f = 10
  <2>1. (v * 100) \div 10 = v * 10
    OBVIOUS
  <2> QED BY <1>2, <2>1
<1>3. CASE f = 100
  <2>1. (v * 100) \div 100 = v
    OBVIOUS
  <2> QED BY <1>3, <2>1
<1> QED BY <1>1, <1>2, <1>3

LEMMA SchemaCount == Len(Schemas) = 4 /\ DOMAIN Schemas = 1 .. 4
BY DEF Schemas

LEMMA SchemaKeys == \A s \in 1 .. 4 : DOMAIN Schemas[s].columns = BaseKeys
<1>1. DOMAIN Schemas[1].columns = BaseKeys
  BY DEF Schemas, BaseKeys
<1>2. DOMAIN Schemas[2].columns = BaseKeys
  BY DEF Schemas, BaseKeys
<1>3. DOMAIN Schemas[3].columns = BaseKeys
  BY DEF Schemas, BaseKeys
<1>4. DOMAIN Schemas[4].columns = BaseKeys
  BY DEF Schemas, BaseKeys
<1> QED BY <1>1, <1>2, <1>3, <1>4

LEMMA SchemaFunctions ==
  \A s \in 1 .. 4 : Schemas[s].columns = [k \in BaseKeys |-> Schemas[s].columns[k]]
<1>1. Schemas[1].columns = [k \in BaseKeys |-> Schemas[1].columns[k]]
  BY DEF Schemas, BaseKeys
<1>2. Schemas[2].columns = [k \in BaseKeys |-> Schemas[2].columns[k]]
  BY DEF Schemas, BaseKeys
<1>3. Schemas[3].columns = [k \in BaseKeys |-> Schemas[3].columns[k]]
  BY DEF Schemas, BaseKeys
<1>4. Schemas[4].columns = [k \in BaseKeys |-> Schemas[4].columns[k]]
  BY DEF Schemas, BaseKeys
<1> QED BY <1>1, <1>2, <1>3, <1>4

NamesAre(c, now, x, h, ox, oh) ==
    /\ c["now"].name = now /\ c["x"].name = x /\ c["h"].name = h
    /\ c["ox"].name = ox /\ c["oh"].name = oh

LEMMA SchemaNames ==
  /\ NamesAre(Schemas[1].columns, "t_dev_ms", "x_mm", "h_cdeg", "ox_mm", "oh_cdeg")
  /\ NamesAre(Schemas[2].columns, "dev_ms", "enc_x_cm", "enc_h_deg", "otos_x_cm", "otos_h_deg")
  /\ NamesAre(Schemas[3].columns, "dev_ms", "enc_x", "enc_h", "otos_x", "otos_h")
  /\ NamesAre(Schemas[4].columns, "t_dev_ms", "x_mm", "h_cdeg", "ox", "oh")
BY DEF Schemas, NamesAre, Col

LEMMA SchemaFactors ==
  \A s \in 1 .. 4 : \A k \in BaseKeys : Schemas[s].columns[k].factor \in {1, 10, 100}
<1>1. \A k \in BaseKeys : Schemas[1].columns[k].factor \in {1, 10, 100}
  BY DEF Schemas, BaseKeys, Col
<1>2. \A k \in BaseKeys : Schemas[2].columns[k].factor \in {1, 10, 100}
  BY DEF Schemas, BaseKeys, Col
<1>3. \A k \in BaseKeys : Schemas[3].columns[k].factor \in {1, 10, 100}
  BY DEF Schemas, BaseKeys, Col
<1>4. \A k \in BaseKeys : Schemas[4].columns[k].factor \in {1, 10, 100}
  BY DEF Schemas, BaseKeys, Col
<1> QED BY <1>1, <1>2, <1>3, <1>4

LEMMA SchemaWheels ==
  /\ DOMAIN Schemas[1].wheels = {1} /\ Schemas[1].wheels[1] = Col("vl_mms", 1)
  /\ DOMAIN Schemas[2].wheels = {}
  /\ DOMAIN Schemas[3].wheels = {1, 2}
  /\ Schemas[3].wheels[1] = Col("vl_mms", 1) /\ Schemas[3].wheels[2] = Col("vl_cms", 10)
  /\ DOMAIN Schemas[4].wheels = {}
BY DEF Schemas

Speeds == {"vl_mms", "vl_cms"}

\* No two columns of a schema have one name, and none has a wheel's.
LEMMA NamesDiffer ==
  ASSUME NEW s \in 1 .. 4
  PROVE  /\ \A k, l \in BaseKeys :
              Schemas[s].columns[k].name = Schemas[s].columns[l].name => k = l
         /\ \A k \in BaseKeys : Schemas[s].columns[k].name \notin Speeds
         /\ \A w \in DOMAIN Schemas[s].wheels : Schemas[s].wheels[w].name \in Speeds
         /\ \A w \in DOMAIN Schemas[s].wheels : Schemas[s].wheels[w].factor \in {1, 10}
         /\ \A v, w \in DOMAIN Schemas[s].wheels :
              Schemas[s].wheels[v].name = Schemas[s].wheels[w].name => v = w
<1>1. \A name, factor : Col(name, factor).name = name /\ Col(name, factor).factor = factor
  BY DEF Col
<1>2. CASE s = 1
  BY <1>1, <1>2, SchemaNames, SchemaWheels DEF NamesAre, BaseKeys, Speeds
<1>3. CASE s = 2
  BY <1>1, <1>3, SchemaNames, SchemaWheels DEF NamesAre, BaseKeys, Speeds
<1>4. CASE s = 3
  BY <1>1, <1>4, SchemaNames, SchemaWheels DEF NamesAre, BaseKeys, Speeds
<1>5. CASE s = 4
  BY <1>1, <1>5, SchemaNames, SchemaWheels DEF NamesAre, BaseKeys, Speeds
<1> QED BY <1>2, <1>3, <1>4, <1>5

\* The columns a recorder of a known schema writes.
LEMMA Columns ==
  ASSUME NEW r \in Recorders, NEW s, s = r.schema, s # 0, NEW cols, cols = RecorderColumns(r)
  PROVE  /\ s \in 1 .. 4 /\ cols = [k \in DOMAIN cols |-> cols[k]]
         /\ DOMAIN cols = BaseKeys \cup (IF r.wheels \in DOMAIN Schemas[s].wheels THEN {"vl"} ELSE {})
         /\ \A k \in BaseKeys : cols[k] = Schemas[s].columns[k]
         /\ r.wheels \in DOMAIN Schemas[s].wheels => cols["vl"] = Schemas[s].wheels[r.wheels]
<1>1. s \in 1 .. 4
  BY SchemaCount DEF Recorders
<1>2. DOMAIN Schemas[s].columns = BaseKeys /\ "vl" \notin BaseKeys
  BY <1>1, SchemaKeys DEF BaseKeys
<1>3. CASE r.wheels \in DOMAIN Schemas[s].wheels
  <2>1. cols = [k \in {"vl"} \cup BaseKeys |->
                  IF k = "vl" THEN Schemas[s].wheels[r.wheels] ELSE Schemas[s].columns[k]]
    BY <1>1, <1>2, <1>3 DEF RecorderColumns
  <2> QED BY <1>1, <1>2, <1>3, <2>1
<1>4. CASE r.wheels \notin DOMAIN Schemas[s].wheels
  <2>1. cols = Schemas[s].columns
    BY <1>1, <1>4 DEF RecorderColumns
  <2>2. Schemas[s].columns = [k \in BaseKeys |-> Schemas[s].columns[k]]
    BY <1>1, SchemaFunctions
  <2> QED BY <1>1, <1>2, <1>4, <2>1, <2>2
<1> QED BY <1>3, <1>4

Injective(cols) == \A k, l \in DOMAIN cols : cols[k].name = cols[l].name => k = l
Factors(cols) == \A k \in DOMAIN cols : cols[k].factor \in {1, 10, 100}

LEMMA ColumnsInjective ==
  ASSUME NEW r \in Recorders, r.schema # 0
  PROVE  Injective(RecorderColumns(r)) /\ Factors(RecorderColumns(r))
<1> DEFINE s == r.schema
           cols == RecorderColumns(r)
<1>1. /\ s \in 1 .. 4
      /\ DOMAIN cols = BaseKeys \cup (IF r.wheels \in DOMAIN Schemas[s].wheels THEN {"vl"} ELSE {})
      /\ \A k \in BaseKeys : cols[k] = Schemas[s].columns[k]
      /\ r.wheels \in DOMAIN Schemas[s].wheels => cols["vl"] = Schemas[s].wheels[r.wheels]
  BY Columns
<1> HIDE DEF cols, s
<1>2. Injective(cols)
  BY <1>1, NamesDiffer DEF Injective
<1>3. Factors(cols)
  BY <1>1, NamesDiffer, SchemaFactors DEF Factors
<1> QED BY <1>2, <1>3 DEF cols

\* The OTOS column tells the schemas apart.
LEMMA TellTale ==
  ASSUME NEW s \in 1 .. 4, NEW t \in 1 .. 4, t # s, NEW k \in BaseKeys
  PROVE  Schemas[t].columns["ox"].name # Schemas[s].columns[k].name
<1>1. CASE t = 1
  <2>1. Schemas[t].columns["ox"].name = "ox_mm"
    BY <1>1, SchemaNames DEF NamesAre
  <2>2. CASE s = 2
    BY <2>1, <2>2, SchemaNames DEF NamesAre, BaseKeys
  <2>3. CASE s = 3
    BY <2>1, <2>3, SchemaNames DEF NamesAre, BaseKeys
  <2>4. CASE s = 4
    BY <2>1, <2>4, SchemaNames DEF NamesAre, BaseKeys
  <2> QED BY <1>1, <2>2, <2>3, <2>4
<1>2. CASE t = 2
  <2>1. Schemas[t].columns["ox"].name = "otos_x_cm"
    BY <1>2, SchemaNames DEF NamesAre
  <2>2. CASE s = 1
    BY <2>1, <2>2, SchemaNames DEF NamesAre, BaseKeys
  <2>3. CASE s = 3
    BY <2>1, <2>3, SchemaNames DEF NamesAre, BaseKeys
  <2>4. CASE s = 4
    BY <2>1, <2>4, SchemaNames DEF NamesAre, BaseKeys
  <2> QED BY <1>2, <2>2, <2>3, <2>4
<1>3. CASE t = 3
  <2>1. Schemas[t].columns["ox"].name = "otos_x"
    BY <1>3, SchemaNames DEF NamesAre
  <2>2. CASE s = 1
    BY <2>1, <2>2, SchemaNames DEF NamesAre, BaseKeys
  <2>3. CASE s = 2
    BY <2>1, <2>3, SchemaNames DEF NamesAre, BaseKeys
  <2>4. CASE s = 4
    BY <2>1, <2>4, SchemaNames DEF NamesAre, BaseKeys
  <2> QED BY <1>3, <2>2, <2>3, <2>4
<1>4. CASE t = 4
  <2>1. Schemas[t].columns["ox"].name = "ox"
    BY <1>4, SchemaNames DEF NamesAre
  <2>2. CASE s = 1
    BY <2>1, <2>2, SchemaNames DEF NamesAre, BaseKeys
  <2>3. CASE s = 2
    BY <2>1, <2>3, SchemaNames DEF NamesAre, BaseKeys
  <2>4. CASE s = 3
    BY <2>1, <2>4, SchemaNames DEF NamesAre, BaseKeys
  <2> QED BY <1>4, <2>2, <2>3, <2>4
<1> QED BY <1>1, <1>2, <1>3, <1>4

\* Its header, and the schema the reader takes it for.
LEMMA HeaderOf ==
  ASSUME NEW r \in Recorders, r.schema # 0
  PROVE  Match(ColumnNames(RecorderColumns(r))) = {r.schema}
<1> DEFINE s == r.schema
           cols == RecorderColumns(r)
           header == ColumnNames(cols)
<1>1. /\ s \in 1 .. 4
      /\ DOMAIN cols = BaseKeys \cup (IF r.wheels \in DOMAIN Schemas[s].wheels THEN {"vl"} ELSE {})
      /\ \A k \in BaseKeys : cols[k] = Schemas[s].columns[k]
      /\ r.wheels \in DOMAIN Schemas[s].wheels => cols["vl"] = Schemas[s].wheels[r.wheels]
  BY Columns
<1>2. header = {cols[k].name : k \in DOMAIN cols}
  BY DEF ColumnNames
<1> HIDE DEF cols, s, header
<1>3. \A name \in header : name \in Speeds \/ \E k \in BaseKeys : name = Schemas[s].columns[k].name
  BY <1>1, <1>2, NamesDiffer
<1>4. ASSUME NEW t \in 1 .. 4
      PROVE  ColumnNames(Schemas[t].columns) \subseteq header <=> t = s
  <2>1. ColumnNames(Schemas[t].columns) = {Schemas[t].columns[k].name : k \in BaseKeys}
    BY SchemaKeys DEF ColumnNames
  <2>2. ColumnNames(Schemas[s].columns) \subseteq header
    <3>1. ColumnNames(Schemas[s].columns) = {Schemas[s].columns[k].name : k \in BaseKeys}
      BY <1>1, SchemaKeys DEF ColumnNames
    <3> QED BY <1>1, <1>2, <3>1
  <2>3. ASSUME t # s, ColumnNames(Schemas[t].columns) \subseteq header
        PROVE  FALSE
    <3>1. Schemas[t].columns["ox"].name \in header
      BY <2>1, <2>3 DEF BaseKeys
    <3>2. Schemas[t].columns["ox"].name \notin Speeds
      BY NamesDiffer DEF BaseKeys
    <3>3. PICK k \in BaseKeys : Schemas[t].columns["ox"].name = Schemas[s].columns[k].name
      BY <1>3, <3>1, <3>2
    <3> QED BY <1>1, <2>3, <3>3, TellTale
  <2> QED BY <2>2, <2>3
<1>5. Match(header) = {s}
  BY <1>1, <1>4, SchemaCount DEF Match
<1> QED BY <1>5 DEF header, cols, s

LEMMA OldHeader ==
  ASSUME NEW r \in Recorders, r.schema = 0
  PROVE  Match(ColumnNames(RecorderColumns(r))) = {}
<1>1. RecorderColumns(r) = [k \in {"now", "x", "h"} |-> Schemas[1].columns[k]]
  BY DEF RecorderColumns
<1>2. ColumnNames(RecorderColumns(r)) = {"t_dev_ms", "x_mm", "h_cdeg"}
  BY <1>1, SchemaNames DEF ColumnNames, NamesAre
<1>3. ASSUME NEW t \in 1 .. 4
      PROVE  ~(ColumnNames(Schemas[t].columns) \subseteq {"t_dev_ms", "x_mm", "h_cdeg"})
  <2>1. ColumnNames(Schemas[t].columns) = {Schemas[t].columns[k].name : k \in BaseKeys}
    BY SchemaKeys DEF ColumnNames
  <2>2. Schemas[t].columns["ox"].name \in ColumnNames(Schemas[t].columns)
    BY <2>1 DEF BaseKeys
  <2>3. Schemas[t].columns["ox"].name \notin {"t_dev_ms", "x_mm", "h_cdeg"}
    BY SchemaNames DEF NamesAre
  <2> QED BY <2>2, <2>3
<1> QED BY <1>2, <1>3, SchemaCount DEF Match

\* The wheel column the reader picks is the one that was written.
LEMMA SpeltOnce ==
  ASSUME NEW r \in Recorders, r.schema # 0,
         NEW spelt, spelt = {w \in DOMAIN Schemas[r.schema].wheels :
                               Schemas[r.schema].wheels[w].name \in ColumnNames(RecorderColumns(r))}
  PROVE  spelt = IF r.wheels \in DOMAIN Schemas[r.schema].wheels THEN {r.wheels} ELSE {}
<1> DEFINE s == r.schema
           cols == RecorderColumns(r)
<1>1. /\ s \in 1 .. 4
      /\ DOMAIN cols = BaseKeys \cup (IF r.wheels \in DOMAIN Schemas[s].wheels THEN {"vl"} ELSE {})
      /\ \A k \in BaseKeys : cols[k] = Schemas[s].columns[k]
      /\ r.wheels \in DOMAIN Schemas[s].wheels => cols["vl"] = Schemas[s].wheels[r.wheels]
  BY Columns
<1>2. ColumnNames(cols) = {cols[k].name : k \in DOMAIN cols}
  BY DEF ColumnNames
<1> HIDE DEF cols, s
<1>3. ASSUME NEW w \in DOMAIN Schemas[s].wheels
      PROVE  Schemas[s].wheels[w].name \in ColumnNames(cols) <=> w = r.wheels
  <2>1. Schemas[s].wheels[w].name \in Speeds
    BY <1>1, NamesDiffer
  <2>2. ASSUME Schemas[s].wheels[w].name \in ColumnNames(cols) PROVE w = r.wheels
    <3>1. PICK k \in DOMAIN cols : Schemas[s].wheels[w].name = cols[k].name
      BY <1>2, <2>2
    <3>2. k \notin BaseKeys
      BY <1>1, <2>1, <3>1, NamesDiffer
    <3>3. r.wheels \in DOMAIN Schemas[s].wheels /\ k = "vl"
      BY <1>1, <3>1, <3>2
    <3> QED BY <1>1, <3>1, <3>3, NamesDiffer
  <2>3. ASSUME w = r.wheels PROVE Schemas[s].wheels[w].name \in ColumnNames(cols)
    BY <1>1, <1>2, <2>3
  <2> QED BY <2>2, <2>3
<1> QED BY <1>3 DEF cols, s

\* The rows in wire units again.
InWireUnits(rows, cols) ==
    [i \in DOMAIN rows |->
       [k \in DOMAIN cols |-> (rows[i][cols[k].name] * cols[k].factor) \div 100]]

LEMMA ReadBack ==
  ASSUME NEW r \in Recorders, r.schema # 0, NEW cols, cols = RecorderColumns(r),
         NEW file, file.header = ColumnNames(cols)
  PROVE  /\ read_pose_csv(file).ok = TRUE
         /\ read_pose_csv(file).rows = InWireUnits(file.rows, cols)
<1> DEFINE s == r.schema
           first == CHOOSE n \in Match(file.header) : \A m \in Match(file.header) : n <= m
           spelt == {w \in DOMAIN Schemas[first].wheels : Schemas[first].wheels[w].name \in file.header}
           speed == CHOOSE w \in spelt : \A v \in spelt : w <= v
           read == [k \in DOMAIN Schemas[first].columns \cup (IF spelt = {} THEN {} ELSE {"vl"}) |->
                      IF k = "vl" THEN Schemas[first].wheels[speed] ELSE Schemas[first].columns[k]]
<1>1. /\ s \in 1 .. 4
      /\ DOMAIN cols = BaseKeys \cup (IF r.wheels \in DOMAIN Schemas[s].wheels THEN {"vl"} ELSE {})
      /\ \A k \in BaseKeys : cols[k] = Schemas[s].columns[k]
      /\ r.wheels \in DOMAIN Schemas[s].wheels => cols["vl"] = Schemas[s].wheels[r.wheels]
  BY Columns
<1>2. Match(file.header) = {s}
  BY HeaderOf
<1>3. first = s
  <2>1. \A n \in {s} : (\A m \in {s} : n <= m) <=> n = s
    BY <1>1
  <2> QED BY <1>2, <2>1
<1>4. spelt = IF r.wheels \in DOMAIN Schemas[s].wheels THEN {r.wheels} ELSE {}
  <2> HIDE DEF first
  <2>1. spelt = {w \in DOMAIN Schemas[r.schema].wheels :
                   Schemas[r.schema].wheels[w].name \in ColumnNames(RecorderColumns(r))}
    BY <1>3
  <2> HIDE DEF spelt
  <2> QED BY <2>1, SpeltOnce
<1>5. r.wheels \in DOMAIN Schemas[s].wheels => speed = r.wheels
  <2> HAVE r.wheels \in DOMAIN Schemas[s].wheels
  <2>1. spelt = {r.wheels} /\ r.wheels \in Int
    BY <1>4 DEF Recorders
  <2>2. \A w \in {r.wheels} : (\A v \in {r.wheels} : w <= v) <=> w = r.wheels
    BY <2>1
  <2> HIDE DEF spelt
  <2> QED BY <2>1, <2>2
<1>6. /\ read_pose_csv(file).ok = TRUE
      /\ read_pose_csv(file).rows =
           [i \in DOMAIN file.rows |->
              [k \in DOMAIN read |-> (file.rows[i][read[k].name] * read[k].factor) \div 100]]
  <2>1. Match(file.header) # {}
    BY <1>2
  <2> QED BY <2>1 DEF read_pose_csv
<1>7. read = cols
  <2>1. DOMAIN Schemas[s].columns = BaseKeys /\ "vl" \notin BaseKeys
    BY <1>1, SchemaKeys DEF BaseKeys
  <2> HIDE DEF s, first, speed, spelt
  <2>2. DOMAIN read = DOMAIN cols
    BY <1>1, <1>3, <1>4, <2>1
  <2>3. \A k \in DOMAIN read : read[k] = cols[k]
    BY <1>1, <1>3, <1>4, <1>5, <2>1
  <2>4. cols = [k \in DOMAIN cols |-> cols[k]]
    BY Columns DEF s
  <2> QED BY <2>2, <2>3, <2>4
<1> HIDE DEF read
<1> QED BY <1>6, <1>7 DEF InWireUnits

LEMMA GreatestOf ==
  ASSUME NEW T, NEW n \in Nat, T \subseteq 1 .. n, T # {}
  PROVE  \E x \in T : \A y \in T : y <= x
<1> DEFINE U == {n - x : x \in T}
<1>1. U \subseteq Nat /\ U # {}
  <2>1. \A x \in 1 .. n : n - x \in Nat
    OBVIOUS
  <2>2. \A x \in T : n - x \in Nat
    BY <2>1
  <2> QED BY <2>2
<1>2. PICK u \in U : \A v \in U : u <= v
  BY <1>1, LeastOf
<1>3. PICK x \in T : u = n - x
  OBVIOUS
<1>4. \A y \in T : n - x <= n - y
  BY <1>2, <1>3
<1> QED BY <1>3, <1>4

\* What is read of a file is what was written of the frames.
Typed(frames) == frames \in Seq(UNION {[D -> Int] : D \in SUBSET (BaseKeys \cup {"vl"})})

LEMMA Written ==
  ASSUME NEW cols, Injective(cols), NEW frames, NEW rows, rows = RowsWritten(frames, cols)
  PROVE  /\ DOMAIN rows \subseteq DOMAIN frames
         /\ \A i \in DOMAIN rows : \A j \in DOMAIN frames :
              i \in Int /\ j \in Int /\ DOMAIN frames \subseteq Int /\ j <= i => j \in DOMAIN rows
         /\ (\A i \in DOMAIN frames : DOMAIN cols \subseteq DOMAIN frames[i]) => DOMAIN rows = DOMAIN frames
         /\ \A i \in DOMAIN rows : DOMAIN cols \subseteq DOMAIN frames[i] \/ i \notin Int
         /\ \A i \in DOMAIN rows : \A k \in DOMAIN cols :
              rows[i][cols[k].name] = Cell(frames[i][k], cols[k])
<1> DEFINE bad == {i \in DOMAIN frames : ~(DOMAIN cols \subseteq DOMAIN frames[i])}
           good == {i \in DOMAIN frames : \A b \in bad : i < b}
<1>1. rows = [i \in good |->
                [name \in ColumnNames(cols) |->
                   LET k == CHOOSE k \in DOMAIN cols : cols[k].name = name IN Cell(frames[i][k], cols[k])]]
  BY DEF RowsWritten
<1>2. \A i \in good : i \notin bad \/ i \notin Int
  OBVIOUS
<1>3. ASSUME NEW i \in good, NEW k \in DOMAIN cols
      PROVE  rows[i][cols[k].name] = Cell(frames[i][k], cols[k])
  <2>1. cols[k].name \in ColumnNames(cols)
    BY DEF ColumnNames
  <2>2. (CHOOSE l \in DOMAIN cols : cols[l].name = cols[k].name) = k
    BY DEF Injective
  <2> QED BY <1>1, <2>1, <2>2
<1>4. ASSUME NEW i \in good, NEW j \in DOMAIN frames, i \in Int, j \in Int, DOMAIN frames \subseteq Int, j <= i
      PROVE  j \in good
  <2>1. ASSUME NEW b \in bad
        PROVE  j < b
    <3>1. b \in Int /\ i < b
      BY <1>4
    <3> QED BY <1>4, <3>1
  <2> QED BY <2>1
<1>5. (\A i \in DOMAIN frames : DOMAIN cols \subseteq DOMAIN frames[i]) => good = DOMAIN frames
  OBVIOUS
<1> QED BY <1>1, <1>2, <1>3, <1>4, <1>5

\* Rows are what the columns cols keep of the first of the frames.
ReadOf(rows, frames, cols) ==
    /\ DOMAIN rows \subseteq DOMAIN frames
    /\ \A i \in DOMAIN rows : \A j \in 1 .. i : j \in DOMAIN rows
    /\ (\A i \in DOMAIN frames : DOMAIN cols \subseteq DOMAIN frames[i]) => DOMAIN rows = DOMAIN frames
    /\ \A i \in DOMAIN rows : /\ DOMAIN rows[i] = DOMAIN cols /\ DOMAIN cols \subseteq DOMAIN frames[i]
                              /\ \A k \in DOMAIN cols : rows[i][k] = frames[i][k]

LEMMA RoundTrip ==
  ASSUME NEW r \in Recorders, r.schema # 0, NEW cols, cols = RecorderColumns(r),
         NEW frames, Typed(frames), NEW file, file.header = ColumnNames(cols),
         file.rows = RowsWritten(frames, cols), NEW rows, rows = read_pose_csv(file).rows
  PROVE  ReadOf(rows, frames, cols)
<1>1. Injective(cols) /\ Factors(cols)
  BY ColumnsInjective
<1>2. rows = [i \in DOMAIN file.rows |->
                [k \in DOMAIN cols |-> (file.rows[i][cols[k].name] * cols[k].factor) \div 100]]
  <2>1. read_pose_csv(file).rows = InWireUnits(file.rows, cols)
    BY ReadBack
  <2> QED BY <2>1 DEF InWireUnits
<1>3. /\ DOMAIN file.rows \subseteq DOMAIN frames
      /\ (\A i \in DOMAIN frames : DOMAIN cols \subseteq DOMAIN frames[i]) => DOMAIN file.rows = DOMAIN frames
      /\ \A i \in DOMAIN file.rows : \A j \in DOMAIN frames :
           i \in Int /\ j \in Int /\ DOMAIN frames \subseteq Int /\ j <= i => j \in DOMAIN file.rows
      /\ \A i \in DOMAIN file.rows : DOMAIN cols \subseteq DOMAIN frames[i] \/ i \notin Int
      /\ \A i \in DOMAIN file.rows : \A k \in DOMAIN cols :
           file.rows[i][cols[k].name] = Cell(frames[i][k], cols[k])
  BY <1>1, Written
<1>4. \A i \in DOMAIN frames : i \in Int /\ \A k \in DOMAIN frames[i] : frames[i][k] \in Int
  BY DEF Typed
<1>5. ASSUME NEW i \in DOMAIN file.rows
      PROVE  /\ DOMAIN cols \subseteq DOMAIN frames[i]
             /\ \A k \in DOMAIN cols :
                  (file.rows[i][cols[k].name] * cols[k].factor) \div 100 = frames[i][k]
  <2>1. DOMAIN cols \subseteq DOMAIN frames[i]
    BY <1>3, <1>4
  <2>2. ASSUME NEW k \in DOMAIN cols
        PROVE  (file.rows[i][cols[k].name] * cols[k].factor) \div 100 = frames[i][k]
    <3>1. frames[i][k] \in Int /\ cols[k].factor \in {1, 10, 100}
      BY <1>1, <1>3, <1>4, <2>1 DEF Factors
    <3>2. file.rows[i][cols[k].name] = (frames[i][k] * 100) \div cols[k].factor
      BY <1>3 DEF Cell
    <3> QED BY <3>1, <3>2, CellRead
  <2> QED BY <2>1, <2>2
<1>6. DOMAIN rows = DOMAIN file.rows
  BY <1>2
<1>7. ASSUME NEW i \in DOMAIN rows
      PROVE  DOMAIN rows[i] = DOMAIN cols /\ \A k \in DOMAIN cols : rows[i][k] = frames[i][k]
  <2>1. rows[i] = [k \in DOMAIN cols |-> (file.rows[i][cols[k].name] * cols[k].factor) \div 100]
    BY <1>2, <1>6
  <2> QED BY <1>5, <1>6, <2>1
<1>8. ASSUME NEW i \in DOMAIN rows, NEW j \in 1 .. i
      PROVE  j \in DOMAIN rows
  <2>1. DOMAIN frames = 1 .. Len(frames) /\ Len(frames) \in Nat
    BY DEF Typed
  <2>2. i \in DOMAIN file.rows /\ i \in 1 .. Len(frames)
    BY <1>3, <1>6, <2>1
  <2>3. i \in Int /\ j \in Int /\ DOMAIN frames \subseteq Int /\ j <= i /\ j \in DOMAIN frames
    BY <2>1, <2>2
  <2> QED BY <1>3, <1>6, <2>2, <2>3
<1>9. (\A i \in DOMAIN frames : DOMAIN cols \subseteq DOMAIN frames[i]) => DOMAIN rows = DOMAIN frames
  BY <1>3, <1>6
<1>10. DOMAIN rows \subseteq DOMAIN frames
  BY <1>3, <1>6
<1> QED BY <1>5, <1>6, <1>7, <1>8, <1>9, <1>10 DEF ReadOf

-----------------------------------------------------------------------------
(* tour_chart.py.                                                           *)

\* Rows as a chart is given them: from the first on, in the order of time.
Chartable(rows, n) ==
    /\ DOMAIN rows \subseteq 1 .. n /\ \A i \in DOMAIN rows : \A j \in 1 .. i : j \in DOMAIN rows
    /\ \A i \in DOMAIN rows : rows[i].now \in Int /\ rows[i].x \in Spots \cup {Wild}
    /\ \A i, j \in DOMAIN rows : i <= j => rows[i].now <= rows[j].now

LEMMA NotDrawn ==
  ASSUME NEW c, c = [drawn |-> FALSE]
  PROVE  c.drawn = FALSE
OBVIOUS

LEMMA DrawnFields ==
  ASSUME NEW a, NEW b, NEW d, NEW e, NEW f, NEW g, NEW c,
         c = [drawn |-> TRUE, moved |-> a, pose |-> b, otosDead |-> d, ends |-> e, corrupt |-> f, speeds |-> g]
  PROVE  c.moved = a /\ c.pose = b /\ c.otosDead = d /\ c.ends = e /\ c.corrupt = f /\ c.speeds = g
OBVIOUS

LEMMA ChartKeeps ==
  ASSUME NEW rows, NEW n \in Nat, Chartable(rows, n), capture.delay \in Nat,
         NEW c, c = chart(rows), c.drawn
  PROVE  /\ \A i \in DOMAIN rows : (\E m \in c.moved : i <= m) => i \in c.pose \cup c.corrupt
         /\ c.pose \subseteq DOMAIN rows /\ \A i \in c.pose : rows[i].x # Wild
         /\ c.corrupt \subseteq DOMAIN rows /\ \A i \in c.corrupt : rows[i].x = Wild
         /\ c.ends \subseteq c.pose
         /\ capture.delay <= 1 => \A m \in c.moved : m \in c.speeds
         /\ (\A i \in DOMAIN rows : rows[i].ox = 0 /\ rows[i].oh = 0) => c.otosDead
<1> DEFINE t(i) == rows[i].now - rows[1].now
           moved == {1} \cup {i \in DOMAIN rows : i > 1 /\ (rows[i].x # rows[i - 1].x \/ rows[i].h # rows[i - 1].h)}
           top == CHOOSE i \in moved : \A j \in moved : j <= i
           cut == t(top) + 1
           pose == {i \in DOMAIN rows : t(i) <= cut /\ Distance(0, rows[i].x) < MaxPose}
           dead == \A i \in DOMAIN rows : rows[i].ox = 0 /\ rows[i].oh = 0
           low == CHOOSE i \in pose : \A j \in pose : i <= j
           high == CHOOSE i \in pose : \A j \in pose : j <= i
           kept == {i \in DOMAIN rows : t(i) <= cut}
           speeds == {i \in DOMAIN rows : t(i) + capture.delay <= cut}
<1>1. /\ pose # {}
      /\ c = [drawn |-> TRUE, moved |-> moved, pose |-> pose, otosDead |-> dead, ends |-> {low, high},
              corrupt |-> kept \ pose, speeds |-> speeds]
  <2>1. CASE rows = <<>> \/ pose = {}
    <3>1. c = [drawn |-> FALSE]
      BY <2>1 DEF chart
    <3>2. c.drawn = FALSE
      BY <3>1, NotDrawn
    <3> QED BY <3>2
  <2>2. CASE ~(rows = <<>> \/ pose = {})
    BY <2>2 DEF chart
  <2> QED BY <2>1, <2>2
<1>2. /\ c.moved = moved /\ c.pose = pose /\ c.ends = {low, high} /\ c.corrupt = kept \ pose
      /\ c.speeds = speeds /\ c.otosDead = dead
  <2> HIDE DEF moved, pose, dead, low, high, kept, speeds
  <2> QED BY <1>1, DrawnFields
<1>3. dead => c.otosDead
  <2> HIDE DEF dead
  <2> QED BY <1>2
<1>4. 1 \in DOMAIN rows /\ moved \subseteq DOMAIN rows /\ DOMAIN rows \subseteq 1 .. n
  <2>1. PICK i \in pose : TRUE
    BY <1>1
  <2>2. i \in DOMAIN rows /\ i \in 1 .. n /\ 1 \in 1 .. i
    BY <2>1 DEF Chartable
  <2>3. 1 \in DOMAIN rows
    BY <2>2 DEF Chartable
  <2> QED BY <2>3 DEF Chartable
<1>5. top \in moved /\ \A j \in moved : j <= top
  <2>1. moved \subseteq 1 .. n /\ moved # {}
    BY <1>4
  <2> HIDE DEF moved
  <2> QED BY <2>1, GreatestOf
<1>6. \A i \in DOMAIN rows : t(i) \in Int
  BY <1>4 DEF Chartable
<1>7. \A i, j \in DOMAIN rows : i <= j => t(i) <= t(j)
  <2>1. \A i \in DOMAIN rows : rows[i].now \in Int
    BY DEF Chartable
  <2>2. \A i, j \in DOMAIN rows : i <= j => rows[i].now <= rows[j].now
    BY DEF Chartable
  <2> QED BY <1>4, <2>1, <2>2
<1> HIDE DEF t, moved, top, dead
<1>8. ASSUME NEW i \in DOMAIN rows, NEW m \in moved, i <= m
      PROVE  t(i) <= t(top)
  <2>1. m \in DOMAIN rows /\ top \in DOMAIN rows /\ m <= top
    BY <1>4, <1>5
  <2>2. t(i) <= t(m) /\ t(m) <= t(top)
    BY <1>7, <1>8, <2>1
  <2> QED BY <1>6, <2>1, <2>2
<1>9. ASSUME NEW i \in DOMAIN rows, NEW m \in moved, i <= m
      PROVE  i \in kept
  BY <1>4, <1>5, <1>6, <1>8, <1>9
<1>10. /\ pose \subseteq DOMAIN rows /\ \A i \in pose : rows[i].x # Wild
       /\ \A i \in kept \ pose : rows[i].x = Wild
  <2>1. ~(Distance(0, Wild) < MaxPose)
    BY ReportAssumption DEF Distance
  <2>2. \A x \in Spots : Distance(0, x) < MaxPose
    BY CircumstancesAssumption
  <2>3. \A i \in DOMAIN rows : rows[i].x \in Spots \cup {Wild}
    BY DEF Chartable
  <2> HIDE DEF cut
  <2> QED BY <2>1, <2>2, <2>3
<1>11. low \in pose /\ high \in pose
  <2>1. pose \subseteq 1 .. n
    BY <1>4
  <2>2. pose \subseteq Nat
    BY <2>1
  <2> HIDE DEF pose
  <2>3. \E i \in pose : \A j \in pose : i <= j
    BY <1>1, <2>2, LeastOf
  <2>4. \E i \in pose : \A j \in pose : j <= i
    BY <1>1, <2>1, GreatestOf
  <2> QED BY <2>3, <2>4
<1>12. ASSUME capture.delay <= 1, NEW m \in moved
       PROVE  m \in speeds
  <2>1. m \in DOMAIN rows /\ top \in DOMAIN rows /\ m \in 1 .. n
    BY <1>4, <1>5
  <2>2. t(m) <= t(top) /\ t(m) \in Int /\ t(top) \in Int
    BY <1>6, <1>8, <2>1
  <2> QED BY <1>12, <2>1, <2>2
<1> HIDE DEF pose, kept, speeds, low, high
<1>13. \A i \in DOMAIN rows : (\E m \in c.moved : i <= m) => i \in c.pose \cup c.corrupt
  BY <1>2, <1>9
<1>14. (\A i \in DOMAIN rows : rows[i].ox = 0 /\ rows[i].oh = 0) => c.otosDead
  BY <1>3 DEF dead
<1>15. /\ c.pose \subseteq DOMAIN rows /\ \A i \in c.pose : rows[i].x # Wild
       /\ c.corrupt \subseteq DOMAIN rows /\ \A i \in c.corrupt : rows[i].x = Wild
  <2>1. kept \subseteq DOMAIN rows
    BY DEF kept
  <2> QED BY <1>2, <1>10, <2>1
<1>16. c.ends \subseteq c.pose /\ (capture.delay <= 1 => \A m \in c.moved : m \in c.speeds)
  BY <1>2, <1>11, <1>12
<1> QED BY <1>13, <1>14, <1>15, <1>16

-----------------------------------------------------------------------------
(* The run.                                                                 *)

Fields == BaseKeys \cup {"vl"}
ShortFields == {"now", "x", "h"}
Samples == [Fields -> Int] \cup [ShortFields -> Int]

\* A decoded frame says when it was made, what the robot or a corruption
\* put in it, and nothing of an OTOS that is not there.
Sampled(s, now, otos) ==
    /\ s \in Samples /\ s.now <= now /\ s.x \in Spots \cup {Wild}
    /\ otos = None /\ DOMAIN s = Fields => s.ox = 0 /\ s.oh = 0

SamplesInv ==
    /\ samples \in Seq(Samples)
    /\ \A i \in DOMAIN samples : Sampled(samples[i], tourRobot.now, capture.otos)
    /\ \A i, j \in DOMAIN samples : i <= j => samples[i].now <= samples[j].now

RobotLike(r) ==
    /\ r = [x |-> r.x, h |-> r.h, now |-> r.now, moving |-> r.moving, from |-> r.from]
    /\ r.x \in Spots /\ r.h \in Int /\ r.now \in Nat /\ r.from \in Int

RobotInv ==
    /\ RobotLike(tourRobot)
    /\ capture = [on |-> capture.on, sidecar |-> capture.sidecar, faults |-> capture.faults,
                  otos |-> capture.otos, delay |-> capture.delay, recorder |-> capture.recorder]
    /\ capture.recorder \in Recorders /\ capture.delay \in Nat /\ capture.faults \in Int

FileInv ==
    /\ ~capture.on => poseCsv = [header |-> ColumnNames(RecorderColumns(capture.recorder)),
                                 rows |-> RowsWritten(samples, RecorderColumns(capture.recorder))]
    /\ capture.on => report.tool = None
    /\ report.ok => /\ ~capture.on /\ read_pose_csv(poseCsv).ok
                    /\ report.rows = read_pose_csv(poseCsv).rows
    /\ report.chart.drawn => report.ok /\ report.chart = chart(report.rows)
    /\ report.legs = IF report.ok /\ report.tool = "leg_analysis" THEN analyze(report.rows) ELSE <<>>
    /\ report.tool = None => ~report.ok /\ ~report.chart.drawn

RunInv == RobotInv /\ SamplesInv /\ FileInv

LEMMA FrameIsSampled ==
  ASSUME RobotInv, NEW kind, RobotLike(tourRobot'), NEW f, f = Frame(kind)
  PROVE  Sampled(f, tourRobot'.now, capture.otos) /\ f.now = tourRobot'.now /\ f.now \in Int
<1>1. tourRobot'.now \in Int /\ tourRobot'.x \in Spots /\ tourRobot'.x \in Int /\ tourRobot'.h \in Int
  BY ReportAssumption DEF RobotLike
<1> DEFINE x == IF kind = "corrupt" THEN Wild ELSE tourRobot'.x
           ox == IF capture.otos = "live" THEN tourRobot'.x + 3
                 ELSE IF capture.otos = "frozen" THEN 386 ELSE 0
           pose == [now |-> tourRobot'.now, x |-> x, h |-> tourRobot'.h, ox |-> ox, oh |-> 0, vl |-> x]
<1>2. x \in Spots \cup {Wild} /\ x \in Int /\ ox \in Int /\ (capture.otos = None => ox = 0)
  BY <1>1, ReportAssumption DEF None
<1>3. f = IF kind = "short" THEN [k \in {"now", "x", "h"} |-> pose[k]] ELSE pose
  BY DEF Frame
<1> HIDE DEF x, ox
<1>4. CASE kind = "short"
  <2>1. f = [now |-> tourRobot'.now, x |-> x, h |-> tourRobot'.h]
    BY <1>3, <1>4
  <2>2. DOMAIN f = ShortFields /\ DOMAIN f # Fields
    BY <2>1 DEF ShortFields, Fields, BaseKeys
  <2>3. f \in [ShortFields -> Int]
    BY <1>1, <1>2, <2>1 DEF ShortFields
  <2> QED BY <1>1, <1>2, <2>1, <2>2, <2>3 DEF Sampled, Samples
<1>5. CASE kind # "short"
  <2>1. f = pose
    BY <1>3, <1>5
  <2>2. f \in [Fields -> Int]
    BY <1>1, <1>2, <2>1 DEF Fields, BaseKeys
  <2>3. f.now = tourRobot'.now /\ f.x = x /\ f.ox = ox /\ f.oh = 0
    BY <2>1
  <2> QED BY <1>1, <1>2, <2>2, <2>3 DEF Sampled, Samples
<1> QED BY <1>4, <1>5

CaptureInv ==
    /\ capture = [on |-> capture.on, sidecar |-> capture.sidecar, faults |-> capture.faults,
                  otos |-> capture.otos, delay |-> capture.delay, recorder |-> capture.recorder]
    /\ capture.recorder \in Recorders /\ capture.delay \in Nat /\ capture.faults \in Int

LEMMA SeenHolds ==
  ASSUME RobotInv, SamplesInv, NEW kind, Seen(kind), RobotLike(tourRobot'),
         tourRobot.now <= tourRobot'.now
  PROVE  /\ CaptureInv' /\ SamplesInv' /\ capture'.on = capture.on
         /\ UNCHANGED <<poseCsv, report>>
<1>1. /\ CaptureInv' /\ capture'.on = capture.on /\ capture'.otos = capture.otos
      /\ UNCHANGED <<poseCsv, report>>
  <2>1. CASE kind = "frame"
    BY <2>1 DEF Seen, RobotInv, CaptureInv
  <2>2. CASE kind # "frame"
    BY <2>2 DEF Seen, RobotInv, CaptureInv
  <2> QED BY <2>1, <2>2
<1>2. tourRobot.now \in Nat /\ tourRobot'.now \in Nat
  BY DEF RobotInv, RobotLike
<1>3. \A i \in DOMAIN samples : samples[i] \in Samples /\ samples[i].now \in Int /\ i \in Nat
  BY DEF SamplesInv, Samples, Fields, ShortFields, BaseKeys
<1>4. ASSUME NEW s, s.now \in Int, Sampled(s, tourRobot.now, capture.otos)
      PROVE  Sampled(s, tourRobot'.now, capture'.otos)
  BY <1>1, <1>2, <1>4 DEF Sampled
<1>5. CASE kind = "lost"
  <2>1. samples' = samples
    BY <1>5 DEF Seen
  <2> QED BY <1>1, <1>3, <1>4, <2>1 DEF SamplesInv
<1>6. CASE kind # "lost"
  <2>0. PICK f : f = Frame(kind)
    OBVIOUS
  <2>1. samples' = Append(samples, f)
    BY <1>6, <2>0 DEF Seen
  <2>2. Sampled(f, tourRobot'.now, capture.otos) /\ f.now = tourRobot'.now /\ f.now \in Int
    BY <2>0, FrameIsSampled
  <2>3. f \in Samples /\ Sampled(f, tourRobot'.now, capture'.otos)
    BY <1>1, <2>2 DEF Sampled
  <2>4. samples \in Seq(Samples)
    BY DEF SamplesInv
  <2>5. /\ samples' \in Seq(Samples) /\ DOMAIN samples' = DOMAIN samples \cup {Len(samples) + 1}
        /\ \A i \in DOMAIN samples : samples'[i] = samples[i] /\ i <= Len(samples)
        /\ samples'[Len(samples) + 1] = f /\ Len(samples) \in Nat
    BY <2>1, <2>3, <2>4
  <2>6. ASSUME NEW i \in DOMAIN samples'
        PROVE  Sampled(samples'[i], tourRobot'.now, capture'.otos)
    <3>1. CASE i \in DOMAIN samples
      <4>1. Sampled(samples[i], tourRobot.now, capture.otos)
        BY <3>1 DEF SamplesInv
      <4> QED BY <1>3, <1>4, <2>5, <3>1, <4>1
    <3>2. CASE i = Len(samples) + 1
      BY <2>3, <2>5, <3>2
    <3> QED BY <2>5, <3>1, <3>2
  <2>7. ASSUME NEW i \in DOMAIN samples', NEW j \in DOMAIN samples', i <= j
        PROVE  samples'[i].now <= samples'[j].now
    <3>1. CASE j \in DOMAIN samples
      <4>1. i \in DOMAIN samples
        BY <1>3, <2>5, <2>7, <3>1
      <4> QED BY <2>5, <2>7, <3>1, <4>1 DEF SamplesInv
    <3>2. CASE j = Len(samples) + 1
      <4>1. CASE i \in DOMAIN samples
        <5>1. samples[i].now <= tourRobot.now /\ samples[i].now \in Int
          BY <1>3, <4>1 DEF SamplesInv, Sampled
        <5> QED BY <1>2, <2>2, <2>5, <3>2, <4>1, <5>1
      <4>2. CASE i = Len(samples) + 1
        BY <2>2, <2>5, <3>2, <4>2
      <4> QED BY <2>5, <4>1, <4>2
    <3> QED BY <2>5, <3>1, <3>2
  <2>8. SamplesInv'
    BY <2>5, <2>6, <2>7 DEF SamplesInv
  <2> QED BY <1>1, <2>8
<1> QED BY <1>1, <1>5, <1>6

LEMMA RunHolds == ReportSpec => []RunInv
<1>1. ASSUME ReportInit
      PROVE  RunInv
  <2>1. RobotInv
    <3>1. PICK c \in Circumstances : capture = Recording(c)
      BY <1>1 DEF ReportInit
    <3>2. CaptureInv
      BY <3>1, CircumstancesAssumption DEF Recording, CaptureInv
    <3>3. RobotLike(tourRobot)
      BY <1>1, ReportAssumption DEF ReportInit, RobotLike
    <3> QED BY <3>2, <3>3 DEF RobotInv, RobotLike, CaptureInv
  <2>2. SamplesInv
    BY <1>1 DEF ReportInit, SamplesInv
  <2>3. FileInv
    <3>1. capture.on = TRUE
      BY <1>1 DEF ReportInit, Recording
    <3>2. report.ok = FALSE /\ report.chart.drawn = FALSE /\ report.tool = None /\ report.legs = <<>>
      BY <1>1 DEF ReportInit
    <3> QED BY <3>1, <3>2 DEF FileInv
  <2> QED BY <2>1, <2>2, <2>3 DEF RunInv
<1>2. ASSUME RunInv, [ReportNext]_reportVars
      PROVE  RunInv'
  <2> USE <1>2 DEF RunInv
  <2>1. CASE Drive
    <3>1. PICK x \in Spots \ {tourRobot.x}, off \in Skew, kind \in Kinds :
            /\ tourRobot' = [x |-> x, h |-> BearingTo(tourRobot.x, x) + off, now |-> tourRobot.now + 1,
                             moving |-> TRUE, from |-> IF tourRobot.moving THEN tourRobot.from ELSE tourRobot.x]
            /\ Seen(kind)
      BY <2>1 DEF Drive
    <3>2. RobotLike(tourRobot') /\ tourRobot.now <= tourRobot'.now
      <4>1. tourRobot.now \in Nat /\ tourRobot.x \in Int /\ tourRobot.from \in Int
        BY ReportAssumption DEF RobotInv, RobotLike
      <4>2. BearingTo(tourRobot.x, x) + off \in Int
        BY ReportAssumption DEF BearingTo
      <4> HIDE DEF RunInv
      <4> QED BY <3>1, <4>1, <4>2 DEF RobotLike
    <3>3. CaptureInv' /\ SamplesInv' /\ capture'.on = capture.on /\ UNCHANGED <<poseCsv, report>>
      BY <3>1, <3>2, SeenHolds
    <3>4. RobotInv'
      BY <3>2, <3>3 DEF RobotInv, CaptureInv, RobotLike
    <3>5. FileInv'
      <4>1. capture.on /\ capture'.on /\ report.tool = None
        BY <2>1, <3>3 DEF Drive, FileInv
      <4> QED BY <3>3, <4>1 DEF FileInv
    <3> QED BY <3>3, <3>4, <3>5
  <2>2. CASE Pause
    <3>1. PICK kind \in Kinds : Seen(kind)
      BY <2>2 DEF Pause
    <3>2. RobotLike(tourRobot') /\ tourRobot.now <= tourRobot'.now
      <4>1. tourRobot' = [tourRobot EXCEPT !.now = @ + 1, !.moving = FALSE] /\ RobotLike(tourRobot)
        BY <2>2 DEF Pause, RobotInv
      <4> DEFINE r == tourRobot'
      <4>2. /\ r.x = tourRobot.x /\ r.h = tourRobot.h /\ r.now = tourRobot.now + 1 /\ r.from = tourRobot.from
            /\ r = [x |-> r.x, h |-> r.h, now |-> r.now, moving |-> r.moving, from |-> r.from]
        BY <4>1 DEF RobotLike
      <4> QED BY <4>1, <4>2 DEF RobotLike
    <3>3. CaptureInv' /\ SamplesInv' /\ capture'.on = capture.on /\ UNCHANGED <<poseCsv, report>>
      BY <3>1, <3>2, SeenHolds
    <3>4. RobotInv'
      BY <3>2, <3>3 DEF RobotInv, CaptureInv, RobotLike
    <3>5. FileInv'
      <4>1. capture.on /\ capture'.on /\ report.tool = None
        BY <2>2, <3>3 DEF Pause, FileInv
      <4> QED BY <3>3, <4>1 DEF FileInv
    <3> QED BY <3>3, <3>4, <3>5
  <2>3. CASE EndCapture
    <3>1. /\ tourRobot' = tourRobot /\ samples' = samples /\ report' = report /\ capture.on
          /\ poseCsv' = [header |-> ColumnNames(RecorderColumns(capture.recorder)),
                         rows |-> RowsWritten(samples, RecorderColumns(capture.recorder))]
          /\ \E whole : capture' = [capture EXCEPT !.on = FALSE, !.sidecar = whole]
      BY <2>3 DEF EndCapture
    <3>2. /\ capture' = [on |-> FALSE, sidecar |-> capture'.sidecar, faults |-> capture.faults,
                         otos |-> capture.otos, delay |-> capture.delay, recorder |-> capture.recorder]
      BY <3>1 DEF RobotInv
    <3>3. /\ capture'.on = FALSE /\ capture'.faults = capture.faults /\ capture'.otos = capture.otos
          /\ capture'.delay = capture.delay /\ capture'.recorder = capture.recorder
      BY <3>2
    <3>4. RobotInv'
      BY <3>1, <3>2, <3>3 DEF RobotInv
    <3>5. SamplesInv'
      BY <3>1, <3>3 DEF SamplesInv, Sampled
    <3>6. FileInv'
      BY <3>1, <3>3 DEF FileInv
    <3> QED BY <3>4, <3>5, <3>6
  <2>4. ASSUME NEW prog \in {"leg_analysis", "tour_chart"}, Report(prog)
        PROVE  RunInv'
    <3> DEFINE read == read_pose_csv(poseCsv)
               ok == read.ok /\ 0 \notin read_meta_sidecar.frames
               legs == IF ok /\ prog = "leg_analysis" THEN analyze(read.rows) ELSE <<>>
               drawing == IF ok /\ prog = "tour_chart" THEN chart(read.rows) ELSE [drawn |-> FALSE]
    <3>1. /\ UNCHANGED <<tourRobot, samples, capture, poseCsv>> /\ ~capture.on
          /\ report' = [tool |-> prog, ok |-> ok, rows |-> read.rows, legs |-> legs, chart |-> drawing]
      BY <2>4 DEF Report
    <3>2. RobotInv' /\ SamplesInv'
      BY <3>1 DEF RobotInv, SamplesInv, Sampled
    <3>3. FileInv'
      <4>1. report'.tool = prog /\ report'.ok = ok /\ report'.rows = read.rows /\ report'.chart = drawing
            /\ report'.legs = legs
        <5> HIDE DEF ok, read, legs, drawing
        <5> QED BY <3>1
      <4>2. prog # None
        BY DEF None
      <4>3. report'.ok => read.ok
        <5> HIDE DEF read
        <5> QED BY <4>1, Zenon
      <4>4. read_pose_csv(poseCsv)' = read_pose_csv(poseCsv) /\ chart(read.rows)' = chart(read.rows)
        BY <3>1 DEF chart
      <4>5. report'.chart.drawn => report'.ok /\ report'.chart = chart(read.rows)
        <5>1. [drawn |-> FALSE].drawn = FALSE
          OBVIOUS
        <5>2. CASE ok /\ prog = "tour_chart"
          <6> HIDE DEF ok, read
          <6> QED BY <4>1, <5>2
        <5>3. CASE ~(ok /\ prog = "tour_chart")
          <6>1. drawing = [drawn |-> FALSE]
            BY <5>3
          <6> HIDE DEF drawing
          <6> QED BY <4>1, <5>1, <6>1
        <5> QED BY <5>2, <5>3
      <4>6. report'.legs = IF report'.ok /\ report'.tool = "leg_analysis" THEN analyze(read.rows) ELSE <<>>
        <5> HIDE DEF ok, read
        <5> QED BY <4>1
      <4> QED BY <3>1, <4>1, <4>2, <4>3, <4>4, <4>5, <4>6 DEF FileInv
    <3> QED BY <3>2, <3>3
  <2>5. CASE UNCHANGED reportVars
    <3>1. chart(report.rows)' = chart(report.rows)
      BY <2>5 DEF reportVars, chart
    <3> QED BY <2>5, <3>1 DEF reportVars, RobotInv, SamplesInv, Sampled, FileInv
  <2> QED BY <2>1, <2>2, <2>3, <2>4, <2>5 DEF ReportNext
<1> QED BY <1>1, <1>2, PTL DEF ReportSpec

\* What was read of a report's file.
LEMMA ReadRows ==
  ASSUME RunInv, report.ok, NEW cols, cols = RecorderColumns(capture.recorder)
  PROVE  /\ capture.recorder.schema # 0
         /\ Injective(cols) /\ BaseKeys \subseteq DOMAIN cols
         /\ DOMAIN report.rows \subseteq DOMAIN samples
         /\ \A i \in DOMAIN report.rows : \A j \in 1 .. i : j \in DOMAIN report.rows
         /\ (\A i \in DOMAIN samples : DOMAIN cols \subseteq DOMAIN samples[i]) =>
              DOMAIN report.rows = DOMAIN samples
         /\ \A i \in DOMAIN report.rows :
              /\ DOMAIN report.rows[i] = DOMAIN cols /\ DOMAIN cols \subseteq DOMAIN samples[i]
              /\ \A k \in DOMAIN cols : report.rows[i][k] = samples[i][k]
<1> DEFINE r == capture.recorder
<1>1. /\ r \in Recorders /\ poseCsv.header = ColumnNames(cols) /\ poseCsv.rows = RowsWritten(samples, cols)
      /\ read_pose_csv(poseCsv).ok /\ report.rows = read_pose_csv(poseCsv).rows
  BY DEF RunInv, RobotInv, FileInv
<1>2. r.schema # 0
  <2>1. SUFFICES ASSUME r.schema = 0
                 PROVE  FALSE
    OBVIOUS
  <2>2. Match(poseCsv.header) = {}
    BY <1>1, <2>1, OldHeader
  <2>3. read_pose_csv(poseCsv).ok = FALSE
    BY <2>2 DEF read_pose_csv
  <2> QED BY <1>1, <2>3
<1>3. Typed(samples)
  <2> DEFINE F == UNION {[D -> Int] : D \in SUBSET (BaseKeys \cup {"vl"})}
  <2>1. Samples \subseteq F
    <3>1. Fields \in SUBSET (BaseKeys \cup {"vl"}) /\ ShortFields \in SUBSET (BaseKeys \cup {"vl"})
      BY DEF Fields, ShortFields, BaseKeys
    <3> QED BY <3>1 DEF Samples
  <2>2. samples \in Seq(Samples)
    BY DEF RunInv, SamplesInv
  <2> HIDE DEF F
  <2>3. samples \in Seq(F)
    BY <2>1, <2>2
  <2> QED BY <2>3 DEF Typed, F
<1>4. Injective(cols)
  BY <1>1, <1>2, ColumnsInjective
<1>5. BaseKeys \subseteq DOMAIN cols
  <2>1. \E s : s = r.schema
    OBVIOUS
  <2>2. DOMAIN cols = BaseKeys \cup (IF r.wheels \in DOMAIN Schemas[r.schema].wheels THEN {"vl"} ELSE {})
    BY <1>1, <1>2, <2>1, Columns
  <2> QED BY <2>2
<1>6. ReadOf(report.rows, samples, cols)
  <2>1. cols = RecorderColumns(r) /\ report.rows = read_pose_csv(poseCsv).rows
    BY <1>1 DEF r
  <2>2. r \in Recorders /\ poseCsv.header = ColumnNames(cols) /\ poseCsv.rows = RowsWritten(samples, cols)
    BY <1>1
  <2> HIDE DEF r
  <2> QED BY <2>1, <2>2, <1>2, <1>3, RoundTrip
<1> QED BY <1>2, <1>4, <1>5, <1>6 DEF ReadOf, r

(* A file that is read gives back the frames that were recorded, whatever   *)
(* the dialect of its recorder, and a file from before the OTOS columns is  *)
(* not read (tlm.py, write_pose_csv() and read_pose_csv()).                 *)
THEOREM CsvHolds == ReportSpec => []CsvIsTheFrames
<1>1. RunInv => CsvIsTheFrames
  BY ReadRows DEF CsvIsTheFrames
<1> QED BY <1>1, RunHolds, PTL

(* A chart keeps the run up to the last motion, and counts what it leaves   *)
(* out: exactly the corrupt samples (tour_chart.py).                        *)
THEOREM ChartsHold == ReportSpec => []ChartsKeepTheRun
<1>1. ASSUME RunInv, report.chart.drawn
      PROVE  ChartsKeepTheRun
  <2> DEFINE c == report.chart
             rows == report.rows
             n == Len(samples)
  <2>1. report.ok /\ c = chart(rows) /\ capture.delay \in Nat
    BY <1>1 DEF RunInv, FileInv, RobotInv
  <2>2. /\ DOMAIN rows \subseteq DOMAIN samples
        /\ \A i \in DOMAIN rows : \A j \in 1 .. i : j \in DOMAIN rows
        /\ \A i \in DOMAIN rows : DOMAIN samples[i] = Fields
        /\ \A i \in DOMAIN rows : \A k \in BaseKeys : rows[i][k] = samples[i][k]
    <3> DEFINE cols == RecorderColumns(capture.recorder)
    <3>1. /\ BaseKeys \subseteq DOMAIN cols
          /\ DOMAIN rows \subseteq DOMAIN samples
          /\ \A i \in DOMAIN rows : \A j \in 1 .. i : j \in DOMAIN rows
          /\ \A i \in DOMAIN rows : DOMAIN cols \subseteq DOMAIN samples[i]
          /\ \A i \in DOMAIN rows : \A k \in DOMAIN cols : rows[i][k] = samples[i][k]
      BY <1>1, <2>1, ReadRows
    <3> HIDE DEF cols, rows
    <3>2. \A i \in DOMAIN samples : DOMAIN samples[i] \in {Fields, ShortFields}
      BY <1>1 DEF RunInv, SamplesInv, Samples
    <3>3. ~(BaseKeys \subseteq ShortFields)
      BY DEF BaseKeys, ShortFields
    <3> QED BY <3>1, <3>2, <3>3
  <2>3. /\ n \in Nat /\ DOMAIN samples = 1 .. n
        /\ \A i \in DOMAIN samples : samples[i].now \in Int /\ samples[i].x \in Spots \cup {Wild}
        /\ \A i \in DOMAIN samples : capture.otos = None /\ DOMAIN samples[i] = Fields =>
             samples[i].ox = 0 /\ samples[i].oh = 0
        /\ \A i, j \in DOMAIN samples : i <= j => samples[i].now <= samples[j].now
    BY <1>1 DEF RunInv, SamplesInv, Sampled, Samples, Fields, ShortFields, BaseKeys
  <2>4. \A i \in DOMAIN rows : /\ rows[i].now = samples[i].now /\ rows[i].x = samples[i].x
                               /\ rows[i].ox = samples[i].ox /\ rows[i].oh = samples[i].oh
    BY <2>2 DEF BaseKeys
  <2> HIDE DEF c, rows, n
  <2>5. Chartable(rows, n)
    BY <2>2, <2>3, <2>4 DEF Chartable
  <2>6. /\ \A i \in DOMAIN rows : (\E m \in c.moved : i <= m) => i \in c.pose \cup c.corrupt
        /\ c.pose \subseteq DOMAIN rows /\ \A i \in c.pose : rows[i].x # Wild
        /\ c.corrupt \subseteq DOMAIN rows /\ \A i \in c.corrupt : rows[i].x = Wild
        /\ c.ends \subseteq c.pose
        /\ capture.delay <= 1 => \A m \in c.moved : m \in c.speeds
        /\ (\A i \in DOMAIN rows : rows[i].ox = 0 /\ rows[i].oh = 0) => c.otosDead
    <3>1. c.drawn
      BY <1>1 DEF c
    <3> QED BY <2>1, <2>3, <2>5, <3>1, ChartKeeps
  <2>7. capture.otos = None => c.otosDead
    BY <2>2, <2>3, <2>4, <2>6
  <2>8. (\A i \in c.corrupt : samples[i].x = Wild) /\ (\A i \in c.pose : samples[i].x # Wild)
    BY <2>4, <2>6
  <2> QED BY <2>6, <2>7, <2>8 DEF ChartsKeepTheRun, c, rows
<1>2. RunInv => ChartsKeepTheRun
  BY <1>1 DEF ChartsKeepTheRun
<1> QED BY <1>2, RunHolds, PTL
-----------------------------------------------------------------------------
(* leg_analysis.py: the legs of a run of rows, told by where they begin.    *)

Moved(rows, i) == i > 1 /\ ~Held(rows[i - 1], rows[i])
Begins(rows, i) == Moved(rows, i) /\ ~Moved(rows, i - 1)
Ends(rows, n, i, e) ==
    e \in i .. n /\ (\A j \in i .. e - 1 : Moved(rows, j)) /\ (~Moved(rows, e) \/ e = n)

\* The legs of n rows are K, the m-th from row a[m] to row b[m].
LegsAre(rows, n, K, a, b) ==
    /\ K \in Nat /\ a \in [1 .. K -> Nat] /\ b \in [1 .. K -> Nat]
    /\ \A m \in 1 .. K : 1 <= a[m] /\ a[m] < b[m] /\ b[m] <= n
    /\ \A m, k \in 1 .. K : m < k => b[m] <= a[k]
    /\ \A i \in 1 .. n : Begins(rows, i) <=> \E m \in 1 .. K : i = a[m] + 1
    /\ \A m \in 1 .. K : Ends(rows, n, a[m] + 1, b[m])
    /\ Moved(rows, n) => K > 0 /\ b[K] = n

LEMMA EndIsUnique ==
  ASSUME NEW rows, NEW n \in Nat, NEW i \in 1 .. n, NEW e, NEW f,
         Ends(rows, n, i, e), Ends(rows, n, i, f), Moved(rows, i)
  PROVE  e = f
<1>1. e \in i .. n /\ f \in i .. n /\ e \in Int /\ f \in Int
  BY DEF Ends
<1>2. ASSUME NEW x, NEW y, Ends(rows, n, i, x), Ends(rows, n, i, y), x \in i .. n, y \in i .. n, x < y
      PROVE  FALSE
  <2>1. x \in i .. y - 1 /\ x # n
    BY <1>2
  <2>2. Moved(rows, x)
    BY <1>2, <2>1 DEF Ends
  <2> QED BY <1>2, <2>1, <2>2 DEF Ends
<1>3. ~(e < f) /\ ~(f < e)
  BY <1>1, <1>2
<1> QED BY <1>1, <1>3

LEMMA LegsAsPairs ==
  ASSUME NEW rows, NEW n \in Nat, Len(rows) = n, DOMAIN rows = 1 .. n, NEW l
  PROVE  l \in LegsOf(rows) <=> \E i \in 1 .. n : Begins(rows, i) /\ \E e : Ends(rows, n, i, e) /\ l = <<i - 1, e>>
<1> DEFINE to(i) == IF \A j \in i .. Len(rows) : Moved(rows, j) THEN Len(rows)
                    ELSE CHOOSE e \in i .. Len(rows) : ~Moved(rows, e) /\ \A j \in i .. e - 1 : Moved(rows, j)
           begins == {i \in DOMAIN rows : Moved(rows, i) /\ ~Moved(rows, i - 1)}
<1>1. LegsOf(rows) = {<<i - 1, to(i)>> : i \in begins}
  BY DEF LegsOf, Moved
<1>2. ASSUME NEW i \in 1 .. n
      PROVE  Ends(rows, n, i, to(i))
  <2>1. CASE \A j \in i .. n : Moved(rows, j)
    <3>1. to(i) = n
      BY <2>1
    <3> QED BY <2>1, <3>1 DEF Ends
  <2>2. CASE ~\A j \in i .. n : Moved(rows, j)
    <3> DEFINE T == {j \in i .. n : ~Moved(rows, j)}
    <3>1. T \subseteq Nat /\ T # {}
      BY <2>2
    <3>2. PICK e \in T : \A y \in T : e <= y
      BY <3>1, LeastOf
    <3>3. e \in i .. n /\ ~Moved(rows, e) /\ \A j \in i .. e - 1 : Moved(rows, j)
      <4>1. ASSUME NEW j \in i .. e - 1, ~Moved(rows, j)
            PROVE  FALSE
        <5>1. e \in i .. n /\ j \in i .. n /\ ~(e <= j)
          OBVIOUS
        <5> QED BY <3>2, <4>1, <5>1
      <4> QED BY <4>1
    <3>4. to(i) = CHOOSE x \in i .. n : ~Moved(rows, x) /\ \A j \in i .. x - 1 : Moved(rows, j)
      BY <2>2
    <3>5. to(i) \in i .. n /\ ~Moved(rows, to(i)) /\ \A j \in i .. to(i) - 1 : Moved(rows, j)
      <4> HIDE DEF to
      <4> QED BY <3>3, <3>4
    <3> HIDE DEF to
    <3> QED BY <3>5 DEF Ends
  <2> QED BY <2>1, <2>2
<1> HIDE DEF to
<1>3. ASSUME NEW i \in 1 .. n, Begins(rows, i), NEW e, Ends(rows, n, i, e)
      PROVE  e = to(i)
  <2>1. Moved(rows, i)
    BY <1>3 DEF Begins
  <2> QED BY <1>2, <1>3, <2>1, EndIsUnique
<1>4. begins = {i \in 1 .. n : Begins(rows, i)}
  BY DEF Begins
<1> HIDE DEF begins
<1> QED BY <1>1, <1>2, <1>3, <1>4

Pairs(a, b, k) == {<<a[m], b[m]>> : m \in 1 .. k}
Apart(a, k) == \A m, j \in 1 .. k : a[m] = a[j] => m = j
Rising(a, n, k) == (\A m \in 1 .. k : a[m] \in 1 .. n) /\ \A m, j \in 1 .. k : m < j => a[m] < a[j]

LEMMA LegsAreThose ==
  ASSUME NEW rows, NEW n \in Nat, Len(rows) = n, DOMAIN rows = 1 .. n, NEW K, NEW a, NEW b,
         LegsAre(rows, n, K, a, b)
  PROVE  LegsOf(rows) = Pairs(a, b, K)
<1> DEFINE L == {<<a[m], b[m]>> : m \in 1 .. K}
<1>1. K \in Nat /\ \A m \in 1 .. K : a[m] \in Nat /\ b[m] \in Nat /\ 1 <= a[m] /\ a[m] < b[m] /\ b[m] <= n
  BY DEF LegsAre
<1>2. \A m \in 1 .. K : a[m] + 1 \in 1 .. n /\ (a[m] + 1) - 1 = a[m]
  BY <1>1
<1>3. \A m \in 1 .. K : Begins(rows, a[m] + 1) /\ Ends(rows, n, a[m] + 1, b[m])
  BY <1>2 DEF LegsAre
<1>4. ASSUME NEW m \in 1 .. K
      PROVE  <<a[m], b[m]>> \in LegsOf(rows)
  BY <1>2, <1>3, LegsAsPairs
<1>5. ASSUME NEW l \in LegsOf(rows)
      PROVE  l \in L
  <2>1. PICK i : i \in 1 .. n /\ Begins(rows, i) /\ \E e : Ends(rows, n, i, e) /\ l = <<i - 1, e>>
    BY LegsAsPairs
  <2>2. PICK e : Ends(rows, n, i, e) /\ l = <<i - 1, e>>
    BY <2>1
  <2>3. PICK m \in 1 .. K : i = a[m] + 1
    BY <2>1 DEF LegsAre
  <2>4. Ends(rows, n, i, b[m]) /\ i - 1 = a[m] /\ Moved(rows, i)
    BY <1>1, <1>3, <2>1, <2>3 DEF Begins
  <2>5. e = b[m]
    BY <2>1, <2>2, <2>4, EndIsUnique
  <2> QED BY <2>2, <2>3, <2>4, <2>5
<1> QED BY <1>4, <1>5 DEF Pairs

LEMMA NoLegs ==
  ASSUME NEW rows
  PROVE  \E a, b : LegsAre(rows, 0, 0, a, b)
<1> DEFINE a == [m \in 1 .. 0 |-> 0]
<1>1. ~Moved(rows, 0)
  BY DEF Moved
<1>2. LegsAre(rows, 0, 0, a, a)
  BY <1>1 DEF LegsAre
<1> QED BY <1>2

\* A row more: the leg that was not over goes on, or ends with it ...
LEMMA LegGoesOn ==
  ASSUME NEW rows, NEW n \in Nat, NEW K, NEW a, NEW b, LegsAre(rows, n, K, a, b),
         NEW more, \A i \in 0 .. n : Moved(more, i) <=> Moved(rows, i), Moved(rows, n),
         NEW c, c = [b EXCEPT ![K] = n + 1]
  PROVE  LegsAre(more, n + 1, K, a, c)
<1>1. /\ K \in Nat /\ K > 0 /\ a \in [1 .. K -> Nat] /\ b \in [1 .. K -> Nat] /\ b[K] = n
      /\ \A m \in 1 .. K : 1 <= a[m] /\ a[m] < b[m] /\ b[m] <= n
      /\ \A m, k \in 1 .. K : m < k => b[m] <= a[k]
  BY DEF LegsAre
<1>2. /\ c \in [1 .. K -> Nat] /\ c[K] = n + 1
      /\ \A m \in 1 .. K : m # K => c[m] = b[m] /\ m < K /\ b[m] < n
  <2>1. K \in 1 .. K
    BY <1>1
  <2>2. \A m \in 1 .. K : m # K => m < K /\ b[m] <= a[K] /\ a[K] < n
    BY <1>1, <2>1
  <2> QED BY <1>1, <2>1, <2>2
<1>3. \A i \in 1 .. n : Begins(more, i) <=> Begins(rows, i)
  <2>1. \A i \in 1 .. n : i \in 0 .. n /\ i - 1 \in 0 .. n
    OBVIOUS
  <2> QED BY <2>1 DEF Begins
<1>4. ~Begins(more, n + 1)
  <2>1. Moved(more, n) /\ (n + 1) - 1 = n
    OBVIOUS
  <2> QED BY <2>1 DEF Begins
<1>5. ASSUME NEW i \in 1 .. n + 1
      PROVE  Begins(more, i) <=> \E m \in 1 .. K : i = a[m] + 1
  <2>1. CASE i \in 1 .. n
    BY <1>3, <2>1 DEF LegsAre
  <2>2. CASE i = n + 1
    <3>1. \A m \in 1 .. K : i # a[m] + 1
      BY <1>1, <2>2
    <3> QED BY <1>4, <2>2, <3>1
  <2> QED BY <2>1, <2>2
<1>6. ASSUME NEW m \in 1 .. K
      PROVE  Ends(more, n + 1, a[m] + 1, c[m])
  <2>1. Ends(rows, n, a[m] + 1, b[m]) /\ a[m] \in Nat /\ b[m] \in Nat /\ 1 <= a[m] /\ b[m] <= n
    BY <1>1 DEF LegsAre
  <2>2. CASE m = K
    <3>1. \A j \in a[m] + 1 .. n - 1 : Moved(rows, j) /\ j \in 0 .. n
      BY <1>1, <2>1, <2>2 DEF Ends
    <3>2. \A j \in a[m] + 1 .. n : Moved(more, j)
      <4>1. \A j \in a[m] + 1 .. n : j \in a[m] + 1 .. n - 1 \/ j = n
        BY <2>1
      <4>2. n \in 0 .. n
        OBVIOUS
      <4> QED BY <3>1, <4>1, <4>2
    <3>3. n + 1 \in a[m] + 1 .. n + 1 /\ (n + 1) - 1 = n
      BY <1>1, <2>1
    <3> QED BY <1>2, <2>2, <3>2, <3>3 DEF Ends
  <2>3. CASE m # K
    <3>1. c[m] = b[m] /\ b[m] < n
      BY <1>2, <2>3
    <3>2. ~Moved(rows, b[m]) /\ b[m] \in 0 .. n
      BY <2>1, <3>1 DEF Ends
    <3>3. \A j \in a[m] + 1 .. b[m] - 1 : Moved(rows, j) /\ j \in 0 .. n
      BY <2>1 DEF Ends
    <3>4. b[m] \in a[m] + 1 .. n + 1
      BY <2>1 DEF Ends
    <3> QED BY <3>1, <3>2, <3>3, <3>4 DEF Ends
  <2> QED BY <2>2, <2>3
<1>7. \A m \in 1 .. K : 1 <= a[m] /\ a[m] < c[m] /\ c[m] <= n + 1
  BY <1>1, <1>2
<1>8. \A m, k \in 1 .. K : m < k => c[m] <= a[k]
  BY <1>1, <1>2
<1> QED BY <1>1, <1>2, <1>5, <1>6, <1>7, <1>8 DEF LegsAre

LEMMA EndsStay ==
  ASSUME NEW rows, NEW n \in Nat, NEW more, \A i \in 0 .. n : Moved(more, i) <=> Moved(rows, i),
         ~Moved(rows, n), NEW i \in 1 .. n, NEW e, Ends(rows, n, i, e)
  PROVE  Ends(more, n + 1, i, e)
<1>1. e \in i .. n /\ e \in 0 .. n /\ e \in i .. n + 1
  BY DEF Ends
<1>2. ~Moved(more, e)
  BY <1>1 DEF Ends
<1>3. \A j \in i .. e - 1 : Moved(rows, j) /\ j \in 0 .. n
  BY <1>1 DEF Ends
<1> QED BY <1>1, <1>2, <1>3 DEF Ends

\* ... a leg begins ...
LEMMA LegBegins ==
  ASSUME NEW rows, NEW n \in Nat, n > 0, NEW K, NEW a, NEW b, LegsAre(rows, n, K, a, b),
         NEW more, \A i \in 0 .. n : Moved(more, i) <=> Moved(rows, i), ~Moved(rows, n), Moved(more, n + 1),
         NEW c, c = [m \in 1 .. K + 1 |-> IF m = K + 1 THEN n ELSE a[m]],
         NEW d, d = [m \in 1 .. K + 1 |-> IF m = K + 1 THEN n + 1 ELSE b[m]]
  PROVE  LegsAre(more, n + 1, K + 1, c, d)
<1>1. /\ K \in Nat /\ a \in [1 .. K -> Nat] /\ b \in [1 .. K -> Nat]
      /\ \A m \in 1 .. K : 1 <= a[m] /\ a[m] < b[m] /\ b[m] <= n
      /\ \A m, k \in 1 .. K : m < k => b[m] <= a[k]
  BY DEF LegsAre
<1>2. /\ c \in [1 .. K + 1 -> Nat] /\ d \in [1 .. K + 1 -> Nat]
      /\ c[K + 1] = n /\ d[K + 1] = n + 1
      /\ \A m \in 1 .. K + 1 : m # K + 1 => m \in 1 .. K
      /\ \A m \in 1 .. K : c[m] = a[m] /\ d[m] = b[m] /\ m < K + 1 /\ m \in 1 .. K + 1
      /\ K + 1 \in 1 .. K + 1
  BY <1>1
<1>3. \A i \in 1 .. n : Begins(more, i) <=> Begins(rows, i)
  <2>1. \A i \in 1 .. n : i \in 0 .. n /\ i - 1 \in 0 .. n
    OBVIOUS
  <2> QED BY <2>1 DEF Begins
<1>4. Begins(more, n + 1)
  <2>1. ~Moved(more, n) /\ (n + 1) - 1 = n
    OBVIOUS
  <2> QED BY <2>1 DEF Begins
<1>5. ASSUME NEW i \in 1 .. n + 1
      PROVE  Begins(more, i) <=> \E m \in 1 .. K + 1 : i = c[m] + 1
  <2>1. CASE i \in 1 .. n
    <3>1. Begins(more, i) <=> \E m \in 1 .. K : i = a[m] + 1
      BY <1>3, <2>1 DEF LegsAre
    <3>2. i # c[K + 1] + 1
      BY <1>2, <2>1
    <3> QED BY <1>2, <3>1, <3>2
  <2>2. CASE i = n + 1
    BY <1>2, <1>4, <2>2
  <2> QED BY <2>1, <2>2
<1>6. ASSUME NEW m \in 1 .. K + 1
      PROVE  Ends(more, n + 1, c[m] + 1, d[m])
  <2>1. CASE m = K + 1
    <3>1. n + 1 \in n + 1 .. n + 1 /\ \A j \in n + 1 .. (n + 1) - 1 : FALSE
      OBVIOUS
    <3> QED BY <1>2, <2>1, <3>1 DEF Ends
  <2>2. CASE m # K + 1
    <3>1. m \in 1 .. K /\ c[m] = a[m] /\ d[m] = b[m] /\ a[m] + 1 \in 1 .. n
      BY <1>1, <1>2, <2>2
    <3>2. Ends(rows, n, a[m] + 1, b[m])
      BY <3>1 DEF LegsAre
    <3> QED BY <3>1, <3>2, EndsStay
  <2> QED BY <2>1, <2>2
<1>7. \A m \in 1 .. K + 1 : 1 <= c[m] /\ c[m] < d[m] /\ d[m] <= n + 1
  BY <1>1, <1>2
<1>8. ASSUME NEW m \in 1 .. K + 1, NEW k \in 1 .. K + 1, m < k
      PROVE  d[m] <= c[k]
  <2>1. m \in 1 .. K
    BY <1>1, <1>8
  <2>2. CASE k = K + 1
    BY <1>1, <1>2, <2>1, <2>2
  <2>3. CASE k # K + 1
    BY <1>1, <1>2, <1>8, <2>1, <2>3
  <2> QED BY <2>2, <2>3
<1>9. K + 1 \in Nat /\ K + 1 > 0
  BY <1>1
<1> QED BY <1>2, <1>5, <1>6, <1>7, <1>8, <1>9 DEF LegsAre

\* ... or there is none.
LEMMA LegsStay ==
  ASSUME NEW rows, NEW n \in Nat, NEW K, NEW a, NEW b, LegsAre(rows, n, K, a, b),
         NEW more, \A i \in 0 .. n : Moved(more, i) <=> Moved(rows, i), ~Moved(rows, n), ~Moved(more, n + 1)
  PROVE  LegsAre(more, n + 1, K, a, b)
<1>1. /\ K \in Nat /\ a \in [1 .. K -> Nat] /\ b \in [1 .. K -> Nat]
      /\ \A m \in 1 .. K : 1 <= a[m] /\ a[m] < b[m] /\ b[m] <= n
      /\ \A m, k \in 1 .. K : m < k => b[m] <= a[k]
  BY DEF LegsAre
<1>2. ASSUME NEW i \in 1 .. n + 1
      PROVE  Begins(more, i) <=> \E m \in 1 .. K : i = a[m] + 1
  <2>1. CASE i \in 1 .. n
    <3>1. i \in 0 .. n /\ i - 1 \in 0 .. n
      BY <2>1
    <3> QED BY <2>1, <3>1 DEF LegsAre, Begins
  <2>2. CASE i = n + 1
    <3>1. \A m \in 1 .. K : i # a[m] + 1
      BY <1>1, <2>2
    <3> QED BY <2>2, <3>1 DEF Begins
  <2> QED BY <2>1, <2>2
<1>3. ASSUME NEW m \in 1 .. K
      PROVE  Ends(more, n + 1, a[m] + 1, b[m])
  <2>1. a[m] + 1 \in 1 .. n /\ Ends(rows, n, a[m] + 1, b[m])
    BY <1>1 DEF LegsAre
  <2> QED BY <2>1, EndsStay
<1>4. \A m \in 1 .. K : 1 <= a[m] /\ a[m] < b[m] /\ b[m] <= n + 1
  BY <1>1
<1> QED BY <1>1, <1>2, <1>3, <1>4 DEF LegsAre

LEMMA ManyLegs ==
  ASSUME NEW k \in Nat, NEW a, NEW b, Apart(a, k)
  PROVE  Cardinality(Pairs(a, b, k)) = k
<1> DEFINE L == {<<a[m], b[m]>> : m \in 1 .. k}
           f == [m \in 1 .. k |-> <<a[m], b[m]>>]
<1>1. f \in [1 .. k -> L]
  OBVIOUS
<1>2. \A m, j \in 1 .. k : f[m] = f[j] => m = j
  BY DEF Apart
<1>3. \A l \in L : \E m \in 1 .. k : f[m] = l
  OBVIOUS
<1> HIDE DEF f, L
<1>4. f \in Bijection(1 .. k, L)
  BY <1>1, <1>2, <1>3 DEF Bijection, Injection, Surjection, IsInjective
<1>5. ExistsBijection(1 .. k, L)
  BY <1>4 DEF ExistsBijection
<1>6. Cardinality(L) = k
  BY <1>5, FS_CountingElements
<1> QED BY <1>6 DEF L, Pairs

LEMMA LegsInOrder ==
  ASSUME NEW rows, NEW n \in Nat, NEW K, NEW a, NEW b, LegsAre(rows, n, K, a, b)
  PROVE  K \in Nat /\ Rising(a, n, K) /\ Apart(a, K)
<1>1. /\ K \in Nat /\ a \in [1 .. K -> Nat] /\ b \in [1 .. K -> Nat]
      /\ \A m \in 1 .. K : 1 <= a[m] /\ a[m] < b[m] /\ b[m] <= n
      /\ \A m, k \in 1 .. K : m < k => b[m] <= a[k]
  BY DEF LegsAre
<1>2. \A m \in 1 .. K : a[m] \in Nat /\ b[m] \in Nat
  BY <1>1
<1>3. \A m, j \in 1 .. K : m < j => a[m] < a[j]
  BY <1>1, <1>2
<1>4. \A m, j \in 1 .. K : m < j \/ j < m \/ m = j
  BY <1>1
<1>5. \A m, j \in 1 .. K : a[m] = a[j] => m = j
  BY <1>2, <1>3, <1>4
<1> QED BY <1>1, <1>2, <1>3, <1>5 DEF Rising, Apart

Nth(L, m) == CHOOSE x \in L : Cardinality({k \in L : k[1] <= x[1]}) = m

LEMMA NthLeg ==
  ASSUME NEW rows, NEW n \in Nat, NEW K, NEW a, NEW b, LegsAre(rows, n, K, a, b),
         NEW L, L = Pairs(a, b, K), NEW m \in 1 .. K, NEW l,
         l = Nth(L, m)
  PROVE  l = <<a[m], b[m]>>
<1>1. /\ K \in Nat /\ \A j \in 1 .. K : a[j] \in 1 .. n
      /\ \A i, j \in 1 .. K : i < j => a[i] < a[j]
      /\ \A i, j \in 1 .. K : a[i] = a[j] => i = j
  <2>1. K \in Nat /\ Rising(a, n, K) /\ Apart(a, K)
    BY LegsInOrder
  <2> QED BY <2>1 DEF Rising, Apart
<1>2. ASSUME NEW j \in 1 .. K
      PROVE  Cardinality({k \in L : k[1] <= a[j]}) = j
  <2>1. \A i \in 1 .. K : a[i] <= a[j] <=> i <= j
    BY <1>1
  <2>2. {k \in L : k[1] <= a[j]} = Pairs(a, b, j)
    BY <1>1, <2>1 DEF Pairs
  <2>3. j \in Nat /\ Apart(a, j)
    BY <1>1 DEF Apart
  <2>4. Cardinality(Pairs(a, b, j)) = j
    BY <2>3, ManyLegs
  <2> QED BY <2>2, <2>4
<1> DEFINE upto(x) == Cardinality({k \in L : k[1] <= x[1]})
<1>3. \A j \in 1 .. K : upto(<<a[j], b[j]>>) = j
  BY <1>2
<1>4. l = CHOOSE x \in L : upto(x) = m
  BY DEF Nth
<1> HIDE DEF upto
<1>5. <<a[m], b[m]>> \in L
  BY DEF Pairs
<1>6. l \in L /\ upto(l) = m
  BY <1>3, <1>4, <1>5
<1>7. PICK j \in 1 .. K : l = <<a[j], b[j]>>
  <2>1. l \in Pairs(a, b, K)
    BY <1>6
  <2> QED BY <2>1 DEF Pairs
<1> QED BY <1>3, <1>6, <1>7

\* A row of the table.
LegRow(from, to, corner) ==
    [from |-> from, to |-> to,
     verdict |-> classify_leg([distance |-> Distance(from.x, corner), heading |-> BearingTo(from.x, corner)],
                              [distance |-> Distance(from.x, to.x), heading |-> to.h]),
     stale |-> detect_otos_staleness(Distance(from.x, to.x), from, to)]

LEMMA TableOfLegs ==
  ASSUME NEW rows, NEW n \in Nat, Len(rows) = n, DOMAIN rows = 1 .. n,
         NEW K, NEW a, NEW b, LegsAre(rows, n, K, a, b), NEW table, table = analyze(rows)
  PROVE  /\ DOMAIN table = 1 .. (IF K < Len(Corners) THEN K ELSE Len(Corners))
         /\ Len(table) = IF K < Len(Corners) THEN K ELSE Len(Corners)
         /\ \A m \in DOMAIN table : m \in 1 .. K /\ table[m] = LegRow(rows[a[m]], rows[b[m]], Corners[m])
<1> DEFINE L == LegsOf(rows)
           nth(m) == Nth(L, m)
           count == Cardinality(L)
<1>1. L = Pairs(a, b, K)
  BY LegsAreThose
<1>2. K \in Nat /\ Apart(a, K)
  BY LegsInOrder
<1>3. count = K
  BY <1>1, <1>2, ManyLegs
<1>4. ASSUME NEW m \in 1 .. K
      PROVE  nth(m) = <<a[m], b[m]>>
  <2> HIDE DEF L
  <2> QED BY <1>1, NthLeg
<1>5. table = [m \in {i \in DOMAIN Corners : i <= count} |->
                 LegRow(rows[nth(m)[1]], rows[nth(m)[2]], Corners[m])]
  BY DEF analyze, LegRow, Nth
<1>6. DOMAIN Corners = 1 .. Len(Corners) /\ Len(Corners) \in Nat
  BY ReportAssumption
<1> HIDE DEF L, nth, count
<1>7. {i \in DOMAIN Corners : i <= count} = 1 .. (IF K < Len(Corners) THEN K ELSE Len(Corners))
  BY <1>2, <1>3, <1>6
<1>8. DOMAIN table = 1 .. (IF K < Len(Corners) THEN K ELSE Len(Corners))
  BY <1>5, <1>7
<1>9. Len(table) = IF K < Len(Corners) THEN K ELSE Len(Corners)
  <2>1. \E u \in Nat : DOMAIN table = 1 .. u /\ u = IF K < Len(Corners) THEN K ELSE Len(Corners)
    BY <1>2, <1>6, <1>8
  <2> QED BY <2>1
<1>10. ASSUME NEW m \in DOMAIN table
       PROVE  m \in 1 .. K /\ table[m] = LegRow(rows[a[m]], rows[b[m]], Corners[m])
  <2>1. m \in 1 .. K
    BY <1>2, <1>6, <1>8
  <2>2. table[m] = LegRow(rows[nth(m)[1]], rows[nth(m)[2]], Corners[m])
    BY <1>5, <1>7, <1>8
  <2>3. nth(m)[1] = a[m] /\ nth(m)[2] = b[m]
    BY <1>4, <2>1
  <2> QED BY <2>1, <2>2, <2>3
<1> QED BY <1>8, <1>9, <1>10

Inside(v, t) == v <= t /\ 0 - t <= v

LEMMA Near ==
  ASSUME NEW v \in Int, NEW t \in Int, Distance(0, v) <= t
  PROVE  Inside(v, t)
<1>1. CASE 0 <= v
  <2>1. Distance(0, v) = v
    BY <1>1 DEF Distance
  <2> QED BY <1>1, <2>1 DEF Inside
<1>2. CASE ~(0 <= v)
  <2>1. Distance(0, v) = 0 - v
    BY <1>2 DEF Distance
  <2> QED BY <1>2, <2>1 DEF Inside
<1> QED BY <1>1, <1>2

\* A heading is not near both bearings, so on target is at the target.
LEMMA OneBearing ==
  ASSUME NEW h \in Int, Distance(0, WrapHeading(h)) <= HeadingTol, HeadingTol \in 0 .. 8999,
         Distance(0, WrapHeading(h - 18000)) <= HeadingTol
  PROVE  FALSE
<1>1. PICK p \in Int : WrapHeading(h) = h - 36000 * p
  BY DEF WrapHeading
<1>2. PICK q \in Int : WrapHeading(h - 18000) = (h - 18000) - 36000 * q
  BY DEF WrapHeading
<1> DEFINE u == WrapHeading(h)
           v == WrapHeading(h - 18000)
<1>3. u \in Int /\ v \in Int /\ Distance(0, u) <= HeadingTol /\ Distance(0, v) <= HeadingTol
  BY <1>1, <1>2
<1>4. u = h - 36000 * p /\ v = (h - 18000) - 36000 * q
  BY <1>1, <1>2
<1> HIDE DEF u, v
<1>5. HeadingTol \in Int /\ HeadingTol < 9000
  OBVIOUS
<1>6. Inside(u, HeadingTol) /\ Inside(v, HeadingTol)
  BY <1>3, <1>5, Near
<1> QED BY <1>3, <1>4, <1>5, <1>6 DEF Inside

LEMMA OnTargetIsAtTarget ==
  ASSUME NEW x \in Int, NEW y \in Int, NEW c \in Int, NEW h \in Int,
         classify_leg([distance |-> Distance(x, c), heading |-> BearingTo(x, c)],
                      [distance |-> Distance(x, y), heading |-> h]) = "on-target",
         Distance(0, WrapHeading(h - BearingTo(x, y))) <= HeadingTol
  PROVE  Distance(y, c) <= DistanceTol
<1>1. /\ Distance(0, Distance(x, y) - Distance(x, c)) <= DistanceTol
      /\ Distance(0, WrapHeading(h - BearingTo(x, c))) <= HeadingTol
  BY DEF classify_leg
<1>2. BearingTo(x, c) = BearingTo(x, y)
  <2>1. SUFFICES ASSUME BearingTo(x, c) # BearingTo(x, y)
                 PROVE  FALSE
    OBVIOUS
  <2>2. {BearingTo(x, c), BearingTo(x, y)} = {0, 18000}
    BY <2>1 DEF BearingTo
  <2>3. h - 0 = h
    OBVIOUS
  <2>4. Distance(0, WrapHeading(h)) <= HeadingTol /\ Distance(0, WrapHeading(h - 18000)) <= HeadingTol
    BY <1>1, <2>2, <2>3
  <2> QED BY <2>4, OneBearing, ReportAssumption
<1>3. (y < x) <=> (c < x)
  BY <1>2 DEF BearingTo
<1> QED BY <1>1, <1>3, ReportAssumption DEF Distance

-----------------------------------------------------------------------------
(* The legs seen in the frames so far against the legs driven.              *)

At(s, goal) == s.x = goal[2] /\ s.h = goal[3]

\* Every leg is seen; of the last perhaps not the end.
Seeing(s, goals, K, a, b) ==
    /\ K = Len(goals) /\ LegsAre(s, Len(s), K, a, b)
    /\ \A m \in 1 .. K : s[a[m]].x = goals[m][1]
    /\ \A m \in 1 .. K : (m = K /\ Moved(s, Len(s))) \/ At(s[b[m]], goals[m])

\* Nothing is seen yet of the last leg.
Missing(s, goals, K, a, b) ==
    /\ K + 1 = Len(goals) /\ LegsAre(s, Len(s), K, a, b)
    /\ Len(s) > 0 /\ ~Moved(s, Len(s)) /\ s[Len(s)].x = goals[K + 1][1]
    /\ \A m \in 1 .. K : s[a[m]].x = goals[m][1]
    /\ \A m \in 1 .. K : At(s[b[m]], goals[m])

FrameAdded(s, f, t, n) ==
    /\ n \in Nat /\ Len(t) = n + 1 /\ t \in Seq(Samples) /\ DOMAIN t = 1 .. n + 1 /\ DOMAIN s = 1 .. n
    /\ \A i \in 1 .. n : t[i] = s[i]
    /\ t[n + 1] = f
    /\ \A i \in 0 .. n : Moved(t, i) <=> Moved(s, i)
    /\ Moved(t, n + 1) <=> n > 0 /\ ~Held(s[n], f)

LEMMA NewFrame ==
  ASSUME NEW s \in Seq(Samples), NEW f \in Samples, NEW t, t = Append(s, f), NEW n, n = Len(s)
  PROVE  FrameAdded(s, f, t, n)
<1>1. /\ n \in Nat /\ Len(t) = n + 1 /\ t \in Seq(Samples) /\ DOMAIN t = 1 .. n + 1 /\ DOMAIN s = 1 .. n
      /\ \A i \in 1 .. n : t[i] = s[i]
      /\ t[n + 1] = f
  OBVIOUS
<1>2. ASSUME NEW i \in 0 .. n
      PROVE  Moved(t, i) <=> Moved(s, i)
  <2>1. CASE i > 1
    <3>1. t[i] = s[i] /\ t[i - 1] = s[i - 1]
      BY <1>1, <2>1
    <3> QED BY <3>1 DEF Moved
  <2>2. CASE ~(i > 1)
    BY <2>2 DEF Moved
  <2> QED BY <2>1, <2>2
<1>3. Moved(t, n + 1) <=> n > 0 /\ ~Held(s[n], f)
  <2>1. CASE n > 0
    <3>1. t[n + 1] = f /\ t[(n + 1) - 1] = s[n] /\ n + 1 > 1
      BY <1>1, <2>1
    <3> QED BY <2>1, <3>1 DEF Moved
  <2>2. CASE ~(n > 0)
    <3>1. ~(n + 1 > 1)
      BY <1>1, <2>2
    <3> QED BY <2>2, <3>1 DEF Moved
  <2> QED BY <2>1, <2>2
<1> QED BY <1>1, <1>2, <1>3 DEF FrameAdded

LEMMA InFrames ==
  ASSUME NEW s, NEW n \in Nat, NEW K, NEW a, NEW b, LegsAre(s, n, K, a, b), NEW m \in 1 .. K
  PROVE  a[m] \in 1 .. n /\ b[m] \in 1 .. n
<1>1. a[m] \in Nat /\ b[m] \in Nat /\ 1 <= a[m] /\ a[m] < b[m] /\ b[m] <= n
  BY DEF LegsAre
<1> QED BY <1>1

\* The last leg goes on ...
LEMMA SeeMore ==
  ASSUME NEW s \in Seq(Samples), NEW f \in Samples, NEW t, t = Append(s, f),
         NEW goals, NEW K, NEW a, NEW b, Seeing(s, goals, K, a, b), Moved(s, Len(s)),
         NEW then, Len(then) = Len(goals), \A m \in 1 .. K : then[m][1] = goals[m][1],
         \A m \in 1 .. K : m # K => then[m] = goals[m],
         Moved(t, Len(t)) \/ At(f, then[K])
  PROVE  \E c : Seeing(t, then, K, a, c)
<1> DEFINE n == Len(s)
<1>1. /\ n \in Nat /\ Len(t) = n + 1
      /\ \A i \in 1 .. n : t[i] = s[i]
      /\ t[n + 1] = f
      /\ \A i \in 0 .. n : Moved(t, i) <=> Moved(s, i)
  <2>1. FrameAdded(s, f, t, n)
    BY NewFrame
  <2> QED BY <2>1 DEF FrameAdded
<1>2. LegsAre(s, n, K, a, b) /\ K = Len(then)
  BY DEF Seeing
<1> HIDE DEF n
<1>3. PICK c : c = [b EXCEPT ![K] = n + 1]
  OBVIOUS
<1>4. LegsAre(t, n + 1, K, a, c)
  BY <1>1, <1>2, <1>3, LegGoesOn DEF n
<1>5. \A m \in 1 .. K : t[a[m]].x = then[m][1]
  <2> TAKE m \in 1 .. K
  <2>1. a[m] \in 1 .. n
    BY <1>1, <1>2, InFrames
  <2> QED BY <1>1, <2>1 DEF Seeing
<1>6. ASSUME NEW m \in 1 .. K
      PROVE  (m = K /\ Moved(t, n + 1)) \/ At(t[c[m]], then[m])
  <2>0. b \in [1 .. K -> Nat]
    BY <1>2 DEF LegsAre
  <2>1. b[m] \in 1 .. n
    BY <1>1, <1>2, InFrames
  <2>2. CASE m = K
    <3>1. c[m] = n + 1
      BY <1>3, <2>0, <2>2
    <3> QED BY <1>1, <2>2, <3>1
  <2>3. CASE m # K
    <3>1. c[m] = b[m]
      BY <1>3, <2>0, <2>3
    <3>2. At(s[b[m]], goals[m])
      BY <2>3 DEF Seeing
    <3> QED BY <1>1, <2>1, <2>3, <3>1, <3>2
  <2> QED BY <2>2, <2>3
<1>7. Seeing(t, then, K, a, c)
  BY <1>1, <1>2, <1>4, <1>5, <1>6 DEF Seeing
<1> QED BY <1>7

\* ... a missing one is seen ...
LEMMA SeeLeg ==
  ASSUME NEW s \in Seq(Samples), NEW f \in Samples, NEW t, t = Append(s, f),
         NEW goals, NEW K, NEW a, NEW b, Missing(s, goals, K, a, b), Moved(t, Len(t)),
         NEW then, Len(then) = Len(goals), \A m \in 1 .. K : then[m] = goals[m],
         then[K + 1][1] = goals[K + 1][1]
  PROVE  \E c, d : Seeing(t, then, K + 1, c, d)
<1> DEFINE n == Len(s)
<1>1. /\ n \in Nat /\ Len(t) = n + 1
      /\ \A i \in 1 .. n : t[i] = s[i]
      /\ t[n + 1] = f
      /\ \A i \in 0 .. n : Moved(t, i) <=> Moved(s, i)
  <2>1. FrameAdded(s, f, t, n)
    BY NewFrame
  <2> QED BY <2>1 DEF FrameAdded
<1>2. LegsAre(s, n, K, a, b) /\ K + 1 = Len(then) /\ n > 0 /\ ~Moved(s, n)
  BY DEF Missing
<1>9. K \in Nat /\ Moved(t, n + 1)
  BY <1>1, <1>2 DEF LegsAre
<1>3. s[n].x = goals[K + 1][1]
  BY DEF Missing
<1> HIDE DEF n
<1>4. PICK c : c = [m \in 1 .. K + 1 |-> IF m = K + 1 THEN n ELSE a[m]]
  OBVIOUS
<1>5. PICK d : d = [m \in 1 .. K + 1 |-> IF m = K + 1 THEN n + 1 ELSE b[m]]
  OBVIOUS
<1>6. LegsAre(t, n + 1, K + 1, c, d)
  BY <1>1, <1>2, <1>4, <1>5, <1>9, LegBegins
<1>7. ASSUME NEW m \in 1 .. K + 1
      PROVE  /\ t[c[m]].x = then[m][1]
             /\ (m = K + 1 /\ Moved(t, n + 1)) \/ At(t[d[m]], then[m])
  <2>1. CASE m = K + 1
    <3>1. c[m] = n /\ n \in 1 .. n
      BY <1>1, <1>2, <1>4, <1>9, <2>1
    <3> QED BY <1>1, <1>3, <2>1, <3>1
  <2>2. CASE m # K + 1
    <3>1. m \in 1 .. K /\ c[m] = a[m] /\ d[m] = b[m]
      BY <1>2, <1>4, <1>5, <1>9, <2>2
    <3>2. a[m] \in 1 .. n /\ b[m] \in 1 .. n
      BY <1>1, <1>2, <3>1, InFrames
    <3>3. At(s[b[m]], goals[m]) /\ s[a[m]].x = goals[m][1]
      BY <3>1 DEF Missing
    <3> QED BY <1>1, <3>1, <3>2, <3>3
  <2> QED BY <2>1, <2>2
<1>8. Seeing(t, then, K + 1, c, d)
  BY <1>1, <1>2, <1>6, <1>7, <1>9 DEF Seeing
<1> QED BY <1>8

\* ... and a pause changes nothing.
LEMMA SeePause ==
  ASSUME NEW s \in Seq(Samples), NEW f \in Samples, NEW t, t = Append(s, f),
         NEW goals, NEW K, NEW a, NEW b, Seeing(s, goals, K, a, b), ~Moved(s, Len(s)), ~Moved(t, Len(t))
  PROVE  Seeing(t, goals, K, a, b)
<1> DEFINE n == Len(s)
<1>1. /\ n \in Nat /\ Len(t) = n + 1
      /\ \A i \in 1 .. n : t[i] = s[i]
      /\ t[n + 1] = f
      /\ \A i \in 0 .. n : Moved(t, i) <=> Moved(s, i)
  <2>1. FrameAdded(s, f, t, n)
    BY NewFrame
  <2> QED BY <2>1 DEF FrameAdded
<1>2. LegsAre(s, n, K, a, b) /\ K = Len(goals) /\ ~Moved(t, n + 1)
  BY <1>1 DEF Seeing
<1>3. LegsAre(t, n + 1, K, a, b)
  BY <1>1, <1>2, LegsStay
<1>4. ASSUME NEW m \in 1 .. K
      PROVE  t[a[m]].x = goals[m][1] /\ At(t[b[m]], goals[m])
  <2>1. a[m] \in 1 .. n /\ b[m] \in 1 .. n
    BY <1>1, <1>2, InFrames
  <2>2. At(s[b[m]], goals[m]) /\ s[a[m]].x = goals[m][1]
    BY DEF Seeing
  <2> QED BY <1>1, <2>1, <2>2
<1> QED BY <1>1, <1>2, <1>3, <1>4 DEF Seeing

LEMMA NextLeg ==
  ASSUME NEW s \in Seq(Samples), NEW goals, NEW K, NEW a, NEW b, Seeing(s, goals, K, a, b),
         ~Moved(s, Len(s)), Len(s) > 0, NEW then, Len(then) = Len(goals) + 1,
         \A m \in 1 .. Len(goals) : then[m] = goals[m], s[Len(s)].x = then[Len(goals) + 1][1]
  PROVE  Missing(s, then, K, a, b)
<1>1. K = Len(goals) /\ LegsAre(s, Len(s), K, a, b)
  BY DEF Seeing
<1>2. \A m \in 1 .. K : s[a[m]].x = then[m][1] /\ At(s[b[m]], then[m])
  BY <1>1 DEF Seeing
<1> QED BY <1>1, <1>2 DEF Missing

\* A frame that is lost: the last leg may go elsewhere unseen.
LEMMA UnseenDrive ==
  ASSUME NEW s, NEW goals, NEW then, Len(then) = Len(goals), NEW K, NEW a, NEW b,
         \A m \in 1 .. Len(goals) : then[m][1] = goals[m][1],
         \A m \in 1 .. Len(goals) : m # Len(goals) => then[m] = goals[m]
  PROVE  /\ Seeing(s, goals, K, a, b) /\ Moved(s, Len(s)) => Seeing(s, then, K, a, b)
         /\ Missing(s, goals, K, a, b) => Missing(s, then, K, a, b)
<1>1. ASSUME Seeing(s, goals, K, a, b), Moved(s, Len(s))
      PROVE  Seeing(s, then, K, a, b)
  BY <1>1 DEF Seeing
<1>2. ASSUME Missing(s, goals, K, a, b)
      PROVE  Missing(s, then, K, a, b)
  <2>1. K \in Nat /\ K + 1 = Len(goals)
    BY <1>2 DEF Missing, LegsAre
  <2>2. \A m \in 1 .. K : m \in 1 .. Len(goals) /\ m # Len(goals)
    BY <2>1
  <2>3. K + 1 \in 1 .. Len(goals)
    BY <2>1
  <2> QED BY <1>2, <2>1, <2>2, <2>3 DEF Missing
<1> QED BY <1>1, <1>2

-----------------------------------------------------------------------------
(* What a capture that can be told keeps.                                   *)

Plain(s, otos) ==
    /\ DOMAIN s = Fields /\ s.x \in Int /\ s.h \in Int /\ s.oh = 0
    /\ s.ox = IF otos = "live" THEN s.x + 3 ELSE IF otos = "frozen" THEN 386 ELSE 0

\* The legs so far, the one under way with what it has come to.
Route ==
    IF tourRobot.moving THEN Append(driven, <<tourRobot.from, tourRobot.x, tourRobot.h>>) ELSE driven

LegType == Int \X Int \X Int
EndsAs(goal) == goal[2] = tourRobot.x /\ goal[3] = tourRobot.h

DrivenInv ==
    /\ driven \in Seq(LegType)
    /\ capture.on /\ ~tourRobot.moving /\ driven # <<>> =>
         /\ EndsAs(driven[Len(driven)])
         /\ told => driven[Len(driven)][1] # driven[Len(driven)][2]

OnSight == \E K, a, b :
    \/ /\ Seeing(samples, Route, K, a, b)
       /\ Moved(samples, Len(samples)) \/ (~tourRobot.moving /\ (samples # <<>> => Shown))
    \/ Missing(samples, Route, K, a, b)

AllSeen == \E a, b :
    /\ LegsAre(samples, Len(samples), Len(driven), a, b)
    /\ \A m \in 1 .. Len(driven) : samples[a[m]].x = driven[m][1] /\ At(samples[b[m]], driven[m])

ToldInv ==
    /\ DrivenInv
    /\ told => \A i \in DOMAIN samples : Plain(samples[i], capture.otos)
    /\ told /\ capture.on => OnSight
    /\ told /\ ~capture.on => AllSeen

LEMMA StandingStill ==
  ASSUME NEW r, NEW s, r.x = s.x, r.h = s.h, r.h \in Int
  PROVE  Held(r, s)
<1>1. r.h - s.h = 0
  OBVIOUS
<1>2. WrapHeading(0) = 0
  BY DEF WrapHeading
<1>3. Distance(0, 0) = 0
  BY DEF Distance
<1> QED BY <1>1, <1>2, <1>3 DEF Held

LEMMA FrameIsPlain ==
  ASSUME RobotInv, RobotLike(tourRobot'), NEW f, f = Frame("frame")
  PROVE  /\ Plain(f, capture.otos) /\ f \in Samples
         /\ f.x = tourRobot'.x /\ f.h = tourRobot'.h
<1>1. f \in Samples
  BY FrameIsSampled DEF Sampled
<1> DEFINE ox == IF capture.otos = "live" THEN tourRobot'.x + 3
                 ELSE IF capture.otos = "frozen" THEN 386 ELSE 0
<1>2. f = [now |-> tourRobot'.now, x |-> tourRobot'.x, h |-> tourRobot'.h, ox |-> ox, oh |-> 0,
           vl |-> tourRobot'.x]
  BY DEF Frame
<1>3. f.x = tourRobot'.x /\ f.h = tourRobot'.h /\ f.oh = 0 /\ f.ox = ox
  BY <1>2
<1>4. DOMAIN f = Fields
  BY <1>2 DEF Fields, BaseKeys
<1>5. tourRobot'.x \in Int /\ tourRobot'.h \in Int
  BY ReportAssumption DEF RobotLike
<1> QED BY <1>1, <1>3, <1>4, <1>5 DEF Plain

LEMMA PlainStays ==
  ASSUME RunInv, told => \A i \in DOMAIN samples : Plain(samples[i], capture.otos), told,
         RobotLike(tourRobot'), NEW kind \in {"frame", "lost"}, Seen(kind)
  PROVE  \A i \in DOMAIN samples' : Plain(samples'[i], capture'.otos)
<1>1. capture'.otos = capture.otos /\ samples \in Seq(Samples)
  BY DEF Seen, RunInv, RobotInv, SamplesInv
<1>2. CASE kind = "lost"
  BY <1>1, <1>2 DEF Seen
<1>3. CASE kind = "frame"
  <2>1. PICK f : f = Frame("frame")
    OBVIOUS
  <2>2. samples' = Append(samples, f)
    BY <1>3, <2>1 DEF Seen
  <2>3. Plain(f, capture.otos) /\ f \in Samples
    BY <2>1, FrameIsPlain DEF RunInv
  <2>4. \A i \in DOMAIN samples' : samples'[i] = f \/ (i \in DOMAIN samples /\ samples'[i] = samples[i])
    BY <1>1, <2>2, <2>3
  <2> QED BY <1>1, <2>3, <2>4
<1> QED BY <1>2, <1>3

LEMMA RouteIsDriven ==
  ASSUME RunInv, DrivenInv, capture.on
  PROVE  /\ Route \in Seq(LegType)
         /\ Route # <<>> => /\ EndsAs(Route[Len(Route)])
                            /\ told /\ LegIsTold => Route[Len(Route)][1] # Route[Len(Route)][2]
<1>1. CASE tourRobot.moving
  <2> DEFINE g == <<tourRobot.from, tourRobot.x, tourRobot.h>>
  <2>1. g \in LegType /\ g[1] = tourRobot.from /\ g[2] = tourRobot.x /\ g[3] = tourRobot.h
    BY ReportAssumption DEF LegType, RunInv, RobotInv, RobotLike
  <2>2. Route = Append(driven, g)
    BY <1>1 DEF Route
  <2> HIDE DEF g
  <2>3. Route \in Seq(LegType) /\ Route[Len(Route)] = g
    BY <2>1, <2>2 DEF DrivenInv
  <2> QED BY <1>1, <2>1, <2>3 DEF EndsAs, LegIsTold
<1>2. CASE ~tourRobot.moving
  BY <1>2 DEF Route, DrivenInv
<1> QED BY <1>1, <1>2

LEMMA DriveIsTold ==
  ASSUME RunInv, ToldInv, Drive, RobotLike(tourRobot')
  PROVE  ToldInv'
<1>1. PICK x \in Spots \ {tourRobot.x}, off \in Skew, kind \in Kinds :
        /\ tourRobot' = [x |-> x, h |-> BearingTo(tourRobot.x, x) + off, now |-> tourRobot.now + 1,
                         moving |-> TRUE, from |-> IF tourRobot.moving THEN tourRobot.from ELSE tourRobot.x]
        /\ told' = (/\ told /\ samples # <<>>
                    /\ tourRobot.moving \/ driven = <<>>
                       \/ (Len(samples) >= 2 /\ Held(samples[Len(samples) - 1], LastSample) /\ Shown)
                    /\ kind \in {"frame", "lost"}
                    /\ kind = "frame" => ~Held(LastSample, tourRobot'))
        /\ Seen(kind)
  BY DEF Drive
<1>2. /\ tourRobot'.moving = TRUE /\ driven' = driven /\ capture.on
      /\ tourRobot'.from = IF tourRobot.moving THEN tourRobot.from ELSE tourRobot.x
  BY <1>1 DEF Drive
<1>3. capture'.on = capture.on
  BY <1>1 DEF Seen, RunInv, RobotInv
<1>4. DrivenInv'
  BY <1>2 DEF ToldInv, DrivenInv
<1>5. ASSUME told'
      PROVE  /\ told /\ samples # <<>> /\ kind \in {"frame", "lost"}
             /\ tourRobot.moving \/ driven = <<>>
                \/ (Len(samples) >= 2 /\ Held(samples[Len(samples) - 1], LastSample) /\ Shown)
             /\ kind = "frame" => ~Held(LastSample, tourRobot')
  BY <1>1, <1>5
<1>6. ASSUME told'
      PROVE  \A i \in DOMAIN samples' : Plain(samples'[i], capture'.otos)
  BY <1>1, <1>5, <1>6, PlainStays DEF ToldInv
<1> DEFINE g == <<tourRobot'.from, tourRobot'.x, tourRobot'.h>>
           n == Len(samples)
<1>7. PICK then : then = Append(driven, g)
  OBVIOUS
<1>8. (Route)' = then
  BY <1>2, <1>7 DEF Route
<1>9. samples \in Seq(Samples) /\ n \in Nat /\ driven \in Seq(LegType)
  BY DEF RunInv, SamplesInv, ToldInv, DrivenInv
<1>10. /\ Len(then) = Len(driven) + 1 /\ Len(driven) \in Nat
       /\ \A m \in 1 .. Len(driven) : then[m] = driven[m]
       /\ then[Len(driven) + 1] = g
       /\ g[1] = tourRobot'.from
  BY <1>7, <1>9
<1> HIDE DEF g, n
<1>11. ASSUME told'
       PROVE  \E K, a, b : \/ Seeing(samples, then, K, a, b) /\ Moved(samples, n)
                           \/ Missing(samples, then, K, a, b)
  <2>1. told /\ samples # <<>> /\ n > 0
    BY <1>5, <1>9, <1>11 DEF n
  <2>2. PICK K, a, b :
          \/ /\ Seeing(samples, Route, K, a, b)
             /\ Moved(samples, n) \/ (~tourRobot.moving /\ Shown)
          \/ Missing(samples, Route, K, a, b)
    BY <1>2, <2>1 DEF ToldInv, OnSight, n
  <2>3. CASE tourRobot.moving
    <3> DEFINE g0 == <<tourRobot.from, tourRobot.x, tourRobot.h>>
    <3>1. /\ Route = Append(driven, g0) /\ g0[1] = tourRobot.from
      BY <2>3 DEF Route
    <3> HIDE DEF g0
    <3>2. /\ Len(Route) = Len(driven) + 1 /\ Route[Len(driven) + 1] = g0
          /\ \A m \in 1 .. Len(driven) : Route[m] = driven[m]
      BY <1>9, <3>1
    <3>3. \A m \in 1 .. Len(Route) : m = Len(Route) \/ m \in 1 .. Len(driven)
      BY <1>10, <3>2
    <3>4. /\ Len(then) = Len(Route) /\ \A m \in 1 .. Len(Route) : then[m][1] = Route[m][1]
          /\ \A m \in 1 .. Len(Route) : m # Len(Route) => then[m] = Route[m]
      BY <1>2, <1>10, <2>3, <3>1, <3>2, <3>3
    <3>5. /\ Seeing(samples, Route, K, a, b) /\ Moved(samples, Len(samples)) => Seeing(samples, then, K, a, b)
          /\ Missing(samples, Route, K, a, b) => Missing(samples, then, K, a, b)
      BY <3>4, UnseenDrive
    <3> QED BY <2>2, <2>3, <3>5 DEF n
  <2>4. CASE ~tourRobot.moving
    <3>1. Route = driven
      BY <2>4 DEF Route
    <3>2. ~Moved(samples, n) /\ Shown
      <4>1. CASE driven = <<>>
        <5>1. Len(driven) = 0
          BY <4>1
        <5>2. K \in Nat /\ LegsAre(samples, n, K, a, b)
          BY <2>2 DEF Seeing, Missing, LegsAre, n
        <5>3. ~Missing(samples, Route, K, a, b)
          BY <3>1, <5>1, <5>2 DEF Missing
        <5>4. K = 0
          BY <2>2, <3>1, <5>1, <5>3 DEF Seeing
        <5>5. ~Moved(samples, n)
          BY <5>2, <5>4 DEF LegsAre
        <5> QED BY <2>2, <5>3, <5>5
      <4>2. CASE driven # <<>>
        <5>1. n >= 2 /\ Held(samples[n - 1], samples[n]) /\ Shown
          BY <1>5, <1>11, <2>4, <4>2 DEF n, LastSample
        <5> QED BY <5>1 DEF Moved
      <4> QED BY <4>1, <4>2
    <3>3. samples[n].x = tourRobot.x
      BY <3>2 DEF Shown, LastSample, n
    <3>4. CASE Missing(samples, Route, K, a, b)
      <4>1. K \in Nat /\ K + 1 = Len(driven) /\ samples[n].x = driven[Len(driven)][1]
        BY <3>1, <3>4 DEF Missing, LegsAre, n
      <4>2. driven # <<>>
        BY <4>1
      <4>3. driven[Len(driven)][1] # driven[Len(driven)][2] /\ driven[Len(driven)][2] = tourRobot.x
        BY <1>2, <2>1, <2>4, <4>2 DEF ToldInv, DrivenInv, EndsAs
      <4> QED BY <3>3, <4>1, <4>3
    <3>5. CASE Seeing(samples, Route, K, a, b)
      <4>1. samples[n].x = then[Len(driven) + 1][1]
        BY <1>2, <1>10, <2>4, <3>3
      <4>2. Missing(samples, then, K, a, b)
        BY <1>9, <1>10, <2>1, <3>1, <3>2, <3>5, <4>1, NextLeg DEF n
      <4> QED BY <4>2
    <3> QED BY <2>2, <3>4, <3>5
  <2> QED BY <2>3, <2>4
<1>12. ASSUME told'
       PROVE  OnSight'
  <2>1. PICK K, a, b : \/ Seeing(samples, then, K, a, b) /\ Moved(samples, n)
                       \/ Missing(samples, then, K, a, b)
    BY <1>11, <1>12
  <2>2. CASE kind = "lost"
    <3>1. samples' = samples
      BY <1>1, <2>2 DEF Seen
    <3> QED BY <1>8, <2>1, <3>1 DEF OnSight, n
  <2>3. CASE kind = "frame"
    <3>1. PICK f : f = Frame("frame")
      OBVIOUS
    <3>2. PICK t : t = Append(samples, f)
      OBVIOUS
    <3>3. samples' = t
      BY <1>1, <2>3, <3>1, <3>2 DEF Seen
    <3>4. f \in Samples /\ f.x = tourRobot'.x /\ f.h = tourRobot'.h
      BY <3>1, FrameIsPlain DEF RunInv
    <3>5. FrameAdded(samples, f, t, n)
      BY <1>9, <3>2, <3>4, NewFrame DEF n
    <3>6. Moved(t, Len(t))
      <4>1. ~Held(samples[n], tourRobot') /\ n > 0
        BY <1>5, <1>9, <1>12, <2>3 DEF LastSample, n
      <4>2. ~Held(samples[n], f)
        BY <3>4, <4>1 DEF Held
      <4> QED BY <3>5, <4>1, <4>2 DEF FrameAdded
    <3>7. \E M, c, d : Seeing(t, then, M, c, d)
      <4>1. CASE Seeing(samples, then, K, a, b) /\ Moved(samples, n)
        <5>1. \E c : Seeing(t, then, K, a, c)
          BY <1>9, <3>2, <3>4, <3>6, <4>1, SeeMore DEF n
        <5> QED BY <5>1
      <4>2. CASE Missing(samples, then, K, a, b)
        <5>1. \E c, d : Seeing(t, then, K + 1, c, d)
          BY <1>9, <3>2, <3>4, <3>6, <4>2, SeeLeg
        <5> QED BY <5>1
      <4> QED BY <2>1, <4>1, <4>2
    <3> QED BY <1>8, <3>3, <3>6, <3>7 DEF OnSight
  <2> QED BY <1>5, <1>12, <2>2, <2>3
<1> QED BY <1>2, <1>3, <1>4, <1>6, <1>12 DEF ToldInv

LEMMA PauseIsTold ==
  ASSUME RunInv, ToldInv, Pause, RobotLike(tourRobot')
  PROVE  ToldInv'
<1>1. PICK kind \in Kinds : Seen(kind) /\ told' = (told /\ LegIsTold /\ kind \in {"frame", "lost"})
  BY DEF Pause
<1>2. /\ tourRobot'.x = tourRobot.x /\ tourRobot'.h = tourRobot.h /\ tourRobot'.moving = FALSE
      /\ driven' = Route /\ capture.on
  <2>1. /\ tourRobot' = [tourRobot EXCEPT !.now = @ + 1, !.moving = FALSE] /\ capture.on
        /\ driven' = Route
    BY DEF Pause, Route
  <2>2. tourRobot'.x = tourRobot.x /\ tourRobot'.h = tourRobot.h /\ tourRobot'.moving = FALSE
    BY <2>1 DEF RunInv, RobotInv, RobotLike
  <2> QED BY <2>1, <2>2
<1>3. capture'.on = capture.on
  BY <1>1 DEF Seen, RunInv, RobotInv
<1>4. ASSUME told'
      PROVE  told /\ LegIsTold /\ kind \in {"frame", "lost"}
  BY <1>1, <1>4
<1>5. (Route)' = Route
  BY <1>2 DEF Route
<1>6. /\ Route \in Seq(LegType)
      /\ Route # <<>> => /\ EndsAs(Route[Len(Route)])
                         /\ told /\ LegIsTold => Route[Len(Route)][1] # Route[Len(Route)][2]
  BY <1>2, RouteIsDriven DEF ToldInv
<1>7. DrivenInv'
  BY <1>2, <1>4, <1>6 DEF DrivenInv, EndsAs
<1>8. ASSUME told'
      PROVE  \A i \in DOMAIN samples' : Plain(samples'[i], capture'.otos)
  BY <1>1, <1>4, <1>8, PlainStays DEF ToldInv
<1> DEFINE n == Len(samples)
           goals == Route
<1>9. samples \in Seq(Samples) /\ n \in Nat /\ Len(goals) \in Nat
  BY <1>6 DEF RunInv, SamplesInv
<1> HIDE DEF n, goals
<1>10. ASSUME told'
       PROVE  OnSight'
  <2>1. PICK K, a, b :
          \/ /\ Seeing(samples, goals, K, a, b)
             /\ Moved(samples, n) \/ (~tourRobot.moving /\ (samples # <<>> => Shown))
          \/ Missing(samples, goals, K, a, b)
    BY <1>2, <1>4, <1>10 DEF ToldInv, OnSight, n, goals
  <2>2. CASE kind = "lost"
    <3>1. samples' = samples
      BY <1>1, <2>2 DEF Seen
    <3>2. Shown => Shown'
      BY <1>2, <3>1 DEF Shown, LastSample
    <3> QED BY <1>2, <1>5, <2>1, <3>1, <3>2 DEF OnSight, n, goals
  <2>3. CASE kind = "frame"
    <3>1. PICK f : f = Frame("frame")
      OBVIOUS
    <3>2. PICK t : t = Append(samples, f)
      OBVIOUS
    <3>3. samples' = t
      BY <1>1, <2>3, <3>1, <3>2 DEF Seen
    <3>4. f \in Samples /\ f.x = tourRobot.x /\ f.h = tourRobot.h
      BY <1>2, <3>1, FrameIsPlain DEF RunInv
    <3>5. FrameAdded(samples, f, t, n)
      BY <1>9, <3>2, <3>4, NewFrame DEF n
    <3>6. Shown'
      BY <1>2, <3>3, <3>4, <3>5 DEF FrameAdded, Shown, LastSample
    <3>7. \E M, c, d : Seeing(t, goals, M, c, d)
      <4>1. CASE Seeing(samples, goals, K, a, b) /\ Moved(samples, n)
        <5>1. K = Len(goals) /\ K > 0
          BY <4>1 DEF Seeing, LegsAre, n
        <5>2. goals # <<>>
          BY <5>1
        <5>3. At(f, goals[K])
          BY <1>6, <3>4, <5>1, <5>2 DEF At, EndsAs, goals
        <5>4. \E c : Seeing(t, goals, K, a, c)
          BY <1>9, <3>2, <3>4, <4>1, <5>3, SeeMore DEF n
        <5> QED BY <5>4
      <4>2. CASE Seeing(samples, goals, K, a, b) /\ ~Moved(samples, n)
        <5>1. samples # <<>> => Shown
          BY <2>1, <4>2 DEF Missing, Seeing
        <5>2. ~Moved(t, Len(t))
          <6>1. CASE n > 0
            <7>1. samples[n] \in Samples /\ samples # <<>>
              BY <1>9, <6>1 DEF n
            <7>2. samples[n].x = f.x /\ samples[n].h = f.h /\ samples[n].h \in Int
              BY <3>4, <5>1, <7>1 DEF Shown, LastSample, n, Samples, Fields, ShortFields, BaseKeys
            <7>3. Held(samples[n], f)
              BY <7>2, StandingStill
            <7> QED BY <3>5, <7>3 DEF FrameAdded
          <6>2. CASE ~(n > 0)
            BY <3>5, <6>2 DEF FrameAdded
          <6> QED BY <6>1, <6>2
        <5>3. Seeing(t, goals, K, a, b)
          BY <1>9, <3>2, <3>4, <4>2, <5>2, SeePause DEF n
        <5> QED BY <5>3
      <4>3. CASE Missing(samples, goals, K, a, b)
        <5>1. /\ K \in Nat /\ K + 1 = Len(goals) /\ n > 0 /\ samples[n].x = goals[Len(goals)][1]
          BY <4>3 DEF Missing, LegsAre, n
        <5>2. goals # <<>>
          BY <5>1
        <5>3. goals[Len(goals)][1] # goals[Len(goals)][2] /\ goals[Len(goals)][2] = tourRobot.x
          BY <1>4, <1>6, <1>10, <5>2 DEF EndsAs, goals
        <5>4. ~Held(samples[n], f)
          BY <3>4, <5>1, <5>3 DEF Held
        <5>5. Moved(t, Len(t))
          BY <3>5, <5>1, <5>4 DEF FrameAdded
        <5>6. \E c, d : Seeing(t, goals, K + 1, c, d)
          BY <1>9, <3>2, <3>4, <4>3, <5>5, SeeLeg
        <5> QED BY <5>6
      <4> QED BY <2>1, <4>1, <4>2, <4>3
    <3> QED BY <1>2, <1>5, <3>3, <3>6, <3>7 DEF OnSight, goals
  <2> QED BY <1>4, <1>10, <2>2, <2>3
<1> QED BY <1>2, <1>3, <1>7, <1>8, <1>10 DEF ToldInv

LEMMA EndIsTold ==
  ASSUME RunInv, ToldInv, EndCapture
  PROVE  ToldInv'
<1>1. /\ tourRobot' = tourRobot /\ samples' = samples /\ driven' = Route /\ capture.on
      /\ told' = (told /\ samples # <<>> /\ Shown /\ LegIsTold)
  BY DEF EndCapture, Route
<1>2. capture'.on = FALSE /\ capture'.otos = capture.otos
  <2>1. \E whole : capture' = [capture EXCEPT !.on = FALSE, !.sidecar = whole]
    BY DEF EndCapture
  <2> QED BY <2>1 DEF RunInv, RobotInv
<1>3. /\ Route \in Seq(LegType)
      /\ Route # <<>> => /\ EndsAs(Route[Len(Route)])
                         /\ told /\ LegIsTold => Route[Len(Route)][1] # Route[Len(Route)][2]
  BY <1>1, RouteIsDriven DEF ToldInv
<1>4. DrivenInv'
  BY <1>1, <1>2, <1>3 DEF DrivenInv
<1> DEFINE n == Len(samples)
           goals == Route
<1>5. samples \in Seq(Samples) /\ n \in Nat /\ Len(goals) \in Nat
  BY <1>3 DEF RunInv, SamplesInv
<1> HIDE DEF n, goals
<1>6. ASSUME told'
      PROVE  AllSeen'
  <2>1. told /\ samples # <<>> /\ Shown /\ LegIsTold
    BY <1>1, <1>6
  <2>2. PICK K, a, b :
          \/ /\ Seeing(samples, goals, K, a, b)
             /\ Moved(samples, n) \/ (~tourRobot.moving /\ (samples # <<>> => Shown))
          \/ Missing(samples, goals, K, a, b)
    BY <1>1, <2>1 DEF ToldInv, OnSight, n, goals
  <2>3. samples[n].x = tourRobot.x /\ samples[n].h = tourRobot.h
    BY <2>1 DEF Shown, LastSample, n
  <2>4. ~Missing(samples, goals, K, a, b)
    <3>1. SUFFICES ASSUME Missing(samples, goals, K, a, b)
                   PROVE  FALSE
      OBVIOUS
    <3>2. /\ K \in Nat /\ K + 1 = Len(goals) /\ samples[n].x = goals[Len(goals)][1]
      BY <3>1 DEF Missing, LegsAre, n
    <3>3. goals # <<>>
      BY <3>2
    <3>4. goals[Len(goals)][1] # goals[Len(goals)][2] /\ goals[Len(goals)][2] = tourRobot.x
      BY <1>3, <2>1, <3>3 DEF EndsAs, goals
    <3> QED BY <2>3, <3>2, <3>4
  <2>5. Seeing(samples, goals, K, a, b)
    BY <2>2, <2>4
  <2>6. K = Len(goals) /\ LegsAre(samples, n, K, a, b)
    BY <2>5 DEF Seeing, n
  <2>7. ASSUME NEW m \in 1 .. K
        PROVE  samples[a[m]].x = goals[m][1] /\ At(samples[b[m]], goals[m])
    <3>1. samples[a[m]].x = goals[m][1]
      BY <2>5 DEF Seeing
    <3>2. CASE m = K /\ Moved(samples, n)
      <4>1. b[m] = n /\ goals # <<>>
        BY <2>6, <3>2 DEF LegsAre
      <4>2. EndsAs(goals[m])
        BY <1>3, <2>6, <3>2, <4>1 DEF goals
      <4> QED BY <2>3, <3>1, <4>1, <4>2 DEF At, EndsAs
    <3>3. CASE ~(m = K /\ Moved(samples, n))
      BY <2>5, <3>1, <3>3 DEF Seeing, n
    <3> QED BY <3>2, <3>3
  <2> QED BY <1>1, <2>6, <2>7 DEF AllSeen, n, goals
<1>7. told' => \A i \in DOMAIN samples' : Plain(samples'[i], capture'.otos)
  BY <1>1, <1>2 DEF ToldInv
<1> QED BY <1>2, <1>4, <1>6, <1>7 DEF ToldInv

LEMMA RobotMoves ==
  ASSUME RunInv, Drive \/ Pause
  PROVE  RobotLike(tourRobot')
<1>1. CASE Drive
  <2>1. PICK x \in Spots \ {tourRobot.x}, off \in Skew :
          tourRobot' = [x |-> x, h |-> BearingTo(tourRobot.x, x) + off, now |-> tourRobot.now + 1,
                        moving |-> TRUE, from |-> IF tourRobot.moving THEN tourRobot.from ELSE tourRobot.x]
    BY <1>1 DEF Drive
  <2>2. tourRobot.now \in Nat /\ tourRobot.x \in Int /\ tourRobot.from \in Int
    BY ReportAssumption DEF RunInv, RobotInv, RobotLike
  <2>3. BearingTo(tourRobot.x, x) + off \in Int
    BY ReportAssumption DEF BearingTo
  <2> QED BY <2>1, <2>2, <2>3 DEF RobotLike
<1>2. CASE Pause
  <2>1. tourRobot' = [tourRobot EXCEPT !.now = @ + 1, !.moving = FALSE] /\ RobotLike(tourRobot)
    BY <1>2 DEF Pause, RunInv, RobotInv
  <2> DEFINE r == tourRobot'
  <2>2. /\ r.x = tourRobot.x /\ r.h = tourRobot.h /\ r.now = tourRobot.now + 1 /\ r.from = tourRobot.from
        /\ r = [x |-> r.x, h |-> r.h, now |-> r.now, moving |-> r.moving, from |-> r.from]
    BY <2>1 DEF RobotLike
  <2> QED BY <2>1, <2>2 DEF RobotLike
<1> QED BY <1>1, <1>2

LEMMA ToldHolds == ReportSpec => []ToldInv
<1>1. ASSUME ReportInit
      PROVE  ToldInv
  <2>1. /\ samples = <<>> /\ driven = <<>> /\ tourRobot.moving = FALSE /\ capture.on = TRUE
    BY <1>1 DEF ReportInit, Recording
  <2>2. DrivenInv
    BY <2>1 DEF DrivenInv
  <2>3. OnSight
    <3>1. Route = <<>> /\ Len(samples) = 0 /\ Len(Route) = 0
      BY <2>1 DEF Route
    <3>2. PICK a, b : LegsAre(samples, 0, 0, a, b)
      BY NoLegs
    <3>3. Seeing(samples, Route, 0, a, b)
      BY <3>1, <3>2 DEF Seeing
    <3> QED BY <2>1, <3>3 DEF OnSight
  <2> QED BY <2>1, <2>2, <2>3 DEF ToldInv
<1>2. ASSUME RunInv, ToldInv, [ReportNext]_reportVars
      PROVE  ToldInv'
  <2>1. CASE Drive
    BY <1>2, <2>1, RobotMoves, DriveIsTold
  <2>2. CASE Pause
    BY <1>2, <2>2, RobotMoves, PauseIsTold
  <2>3. CASE EndCapture
    BY <1>2, <2>3, EndIsTold
  <2>4. ASSUME NEW prog, Report(prog)
        PROVE  ToldInv'
    <3>1. UNCHANGED <<tourRobot, driven, samples, told, capture>>
      BY <2>4 DEF Report
    <3> QED BY <1>2, <3>1 DEF ToldInv, DrivenInv, EndsAs, OnSight, Route, Shown, LastSample, AllSeen
  <2>5. CASE UNCHANGED reportVars
    BY <1>2, <2>5 DEF reportVars, ToldInv, DrivenInv, EndsAs, OnSight, Route, Shown, LastSample, AllSeen
  <2> QED BY <1>2, <2>1, <2>2, <2>3, <2>4, <2>5 DEF ReportNext
<1> QED BY <1>1, <1>2, RunHolds, PTL DEF ReportSpec

-----------------------------------------------------------------------------
(* The table of a run that can be told.                                     *)

\* The rows read are the frames: the wheel speeds aside, nothing is lost.
RowsAreFrames(rows, n) ==
    /\ DOMAIN rows = 1 .. n /\ Len(rows) = n /\ DOMAIN samples = 1 .. n
    /\ \A i \in 1 .. n : \A k \in BaseKeys : rows[i][k] = samples[i][k]

LEMMA WholeFile ==
  ASSUME RunInv, ToldInv, told, report.ok, NEW n, n = Len(samples)
  PROVE  n \in Nat /\ RowsAreFrames(report.rows, n)
<1>1. PICK cols : cols = RecorderColumns(capture.recorder)
  OBVIOUS
<1>2. n \in Nat /\ DOMAIN samples = 1 .. n
  BY DEF RunInv, SamplesInv
<1>3. DOMAIN cols \subseteq Fields
  <2>1. \E s : s = capture.recorder.schema
    OBVIOUS
  <2>2. capture.recorder \in Recorders /\ capture.recorder.schema # 0
    <3>1. capture.recorder.schema # 0
      BY <1>1, ReadRows
    <3> QED BY <3>1 DEF RunInv, RobotInv
  <2>3. DOMAIN cols = BaseKeys \cup
          (IF capture.recorder.wheels \in DOMAIN Schemas[capture.recorder.schema].wheels THEN {"vl"} ELSE {})
    BY <1>1, <2>1, <2>2, Columns
  <2> QED BY <2>3 DEF Fields
<1>4. \A i \in DOMAIN samples : DOMAIN cols \subseteq DOMAIN samples[i]
  BY <1>3 DEF ToldInv, Plain
<1>5. /\ DOMAIN report.rows = DOMAIN samples /\ BaseKeys \subseteq DOMAIN cols
      /\ \A i \in DOMAIN report.rows : \A k \in DOMAIN cols : report.rows[i][k] = samples[i][k]
  BY <1>1, <1>4, ReadRows
<1>6. Len(report.rows) = n
  BY <1>2, <1>5
<1> QED BY <1>2, <1>5, <1>6 DEF RowsAreFrames

\* Legs are told by the pose alone.
LEMMA SameLegs ==
  ASSUME NEW n \in Nat, NEW rows, RowsAreFrames(rows, n), NEW K, NEW a, NEW b, LegsAre(samples, n, K, a, b)
  PROVE  LegsAre(rows, n, K, a, b)
<1>1. \A i \in 1 .. n : rows[i].x = samples[i].x /\ rows[i].h = samples[i].h
  BY DEF RowsAreFrames, BaseKeys
<1>2. ASSUME NEW i \in 0 .. n
      PROVE  Moved(rows, i) <=> Moved(samples, i)
  <2>1. CASE i > 1
    <3>1. i \in 1 .. n /\ i - 1 \in 1 .. n
      BY <2>1
    <3>2. Held(rows[i - 1], rows[i]) <=> Held(samples[i - 1], samples[i])
      BY <1>1, <3>1 DEF Held
    <3> QED BY <3>2 DEF Moved
  <2>2. CASE ~(i > 1)
    BY <2>2 DEF Moved
  <2> QED BY <2>1, <2>2
<1>3. \A i \in 1 .. n : Begins(rows, i) <=> Begins(samples, i)
  <2>1. \A i \in 1 .. n : i \in 0 .. n /\ i - 1 \in 0 .. n
    OBVIOUS
  <2> QED BY <1>2, <2>1 DEF Begins
<1>4. ASSUME NEW i \in 1 .. n, NEW e, Ends(samples, n, i, e)
      PROVE  Ends(rows, n, i, e)
  <2>1. e \in i .. n /\ e \in 0 .. n /\ \A j \in i .. e - 1 : j \in 0 .. n
    BY <1>4 DEF Ends
  <2> QED BY <1>2, <1>4, <2>1 DEF Ends
<1>5. ASSUME NEW m \in 1 .. K
      PROVE  Ends(rows, n, a[m] + 1, b[m])
  <2>1. a[m] \in 1 .. n /\ b[m] \in 1 .. n /\ a[m] < b[m]
    BY InFrames DEF LegsAre
  <2>2. a[m] + 1 \in 1 .. n
    BY <2>1
  <2>3. Ends(samples, n, a[m] + 1, b[m])
    BY DEF LegsAre
  <2> QED BY <1>4, <2>2, <2>3
<1>6. Moved(rows, n) <=> Moved(samples, n)
  BY <1>2
<1> QED BY <1>3, <1>5, <1>6 DEF LegsAre

\* A row of the table against the leg that was driven.
RowOf(row, goal, corner, otos) == \E from, to :
    /\ row = LegRow(from, to, corner) /\ from.x = goal[1] /\ At(to, goal)
    /\ from.x \in Int /\ to.x \in Int /\ to.h \in Int /\ from.oh = 0 /\ to.oh = 0
    /\ from.ox = IF otos = "live" THEN from.x + 3 ELSE IF otos = "frozen" THEN 386 ELSE 0
    /\ to.ox = IF otos = "live" THEN to.x + 3 ELSE IF otos = "frozen" THEN 386 ELSE 0

LEMMA TableOfRun ==
  ASSUME RunInv, ToldInv, told, report.ok, report.tool = "leg_analysis", NEW K, K = Len(driven)
  PROVE  /\ Len(report.legs) = IF K < Len(Corners) THEN K ELSE Len(Corners)
         /\ \A m \in DOMAIN report.legs :
              /\ m \in DOMAIN Corners
              /\ RowOf(report.legs[m], driven[m], Corners[m], capture.otos)
<1>1. PICK n : n = Len(samples)
  OBVIOUS
<1>2. n \in Nat /\ RowsAreFrames(report.rows, n)
  BY <1>1, WholeFile
<1>3. ~capture.on
  BY DEF RunInv, FileInv
<1>4. PICK a, b : /\ LegsAre(samples, n, K, a, b)
                  /\ \A m \in 1 .. K : samples[a[m]].x = driven[m][1] /\ At(samples[b[m]], driven[m])
  BY <1>1, <1>3 DEF ToldInv, AllSeen
<1>5. PICK rows, table : rows = report.rows /\ table = report.legs
  OBVIOUS
<1>6. table = analyze(rows)
  BY <1>5 DEF RunInv, FileInv
<1>7. LegsAre(rows, n, K, a, b)
  BY <1>2, <1>4, <1>5, SameLegs
<1>8. Len(rows) = n /\ DOMAIN rows = 1 .. n
  BY <1>2, <1>5 DEF RowsAreFrames
<1>9. /\ DOMAIN table = 1 .. (IF K < Len(Corners) THEN K ELSE Len(Corners))
      /\ Len(table) = IF K < Len(Corners) THEN K ELSE Len(Corners)
      /\ \A m \in DOMAIN table : m \in 1 .. K /\ table[m] = LegRow(rows[a[m]], rows[b[m]], Corners[m])
  BY <1>2, <1>6, <1>7, <1>8, TableOfLegs
<1>10. ASSUME NEW m \in DOMAIN table
       PROVE  m \in DOMAIN Corners /\ RowOf(table[m], driven[m], Corners[m], capture.otos)
  <2>1. m \in 1 .. K /\ m \in DOMAIN Corners
    <3>1. K \in Nat
      BY <1>4 DEF LegsAre
    <3>2. DOMAIN Corners = 1 .. Len(Corners) /\ Len(Corners) \in Nat
      BY ReportAssumption
    <3> QED BY <1>9, <3>1, <3>2
  <2>2. PICK from, to : from = rows[a[m]] /\ to = rows[b[m]]
    OBVIOUS
  <2>3. a[m] \in 1 .. n /\ b[m] \in 1 .. n
    BY <1>2, <1>4, <2>1, InFrames
  <2>4. ASSUME NEW i \in 1 .. n
        PROVE  /\ rows[i].x = samples[i].x /\ rows[i].h = samples[i].h
               /\ rows[i].x \in Int /\ rows[i].h \in Int /\ rows[i].oh = 0
               /\ rows[i].ox = IF capture.otos = "live" THEN rows[i].x + 3
                               ELSE IF capture.otos = "frozen" THEN 386 ELSE 0
    <3>1. /\ rows[i].x = samples[i].x /\ rows[i].h = samples[i].h
          /\ rows[i].ox = samples[i].ox /\ rows[i].oh = samples[i].oh
      BY <1>2, <1>5 DEF RowsAreFrames, BaseKeys
    <3>2. Plain(samples[i], capture.otos)
      BY <1>2 DEF ToldInv, RowsAreFrames
    <3> QED BY <3>1, <3>2 DEF Plain
  <2>5. from.x = driven[m][1] /\ At(to, driven[m])
    BY <1>4, <2>1, <2>2, <2>3, <2>4 DEF At
  <2>6. table[m] = LegRow(from, to, Corners[m])
    BY <1>9, <2>2
  <2>7. /\ from.x \in Int /\ to.x \in Int /\ to.h \in Int /\ from.oh = 0 /\ to.oh = 0
        /\ from.ox = IF capture.otos = "live" THEN from.x + 3 ELSE IF capture.otos = "frozen" THEN 386 ELSE 0
        /\ to.ox = IF capture.otos = "live" THEN to.x + 3 ELSE IF capture.otos = "frozen" THEN 386 ELSE 0
    BY <2>2, <2>3, <2>4
  <2> QED BY <2>1, <2>5, <2>6, <2>7 DEF RowOf
<1> QED BY <1>5, <1>9, <1>10

LEMMA StaleIsFrozen ==
  ASSUME NEW row, NEW goal, NEW corner, NEW otos, RowOf(row, goal, corner, otos)
  PROVE  row.stale <=> otos = "frozen" /\ Distance(goal[1], goal[2]) >= 20
<1>1. PICK from, to :
        /\ row = LegRow(from, to, corner) /\ from.x = goal[1] /\ At(to, goal)
        /\ from.x \in Int /\ to.x \in Int /\ to.h \in Int /\ from.oh = 0 /\ to.oh = 0
        /\ from.ox = IF otos = "live" THEN from.x + 3 ELSE IF otos = "frozen" THEN 386 ELSE 0
        /\ to.ox = IF otos = "live" THEN to.x + 3 ELSE IF otos = "frozen" THEN 386 ELSE 0
  BY DEF RowOf
<1> DEFINE d == Distance(from.x, to.x)
<1>2. row.stale = detect_otos_staleness(d, from, to)
  BY <1>1 DEF LegRow
<1>3. d = Distance(goal[1], goal[2])
  BY <1>1 DEF At
<1>4. CASE otos = "live"
  <2>1. from.ox = from.x + 3 /\ to.ox = to.x + 3
    BY <1>1, <1>4
  <2>2. Distance(from.ox, to.ox) = d
    BY <1>1, <2>1 DEF Distance
  <2>3. d \in Int /\ ~(d <= 1 /\ d >= 20)
    BY <1>1 DEF Distance
  <2>4. ~detect_otos_staleness(d, from, to)
    BY <2>2, <2>3 DEF detect_otos_staleness
  <2>5. otos # "frozen"
    BY <1>4
  <2> QED BY <1>2, <2>4, <2>5
<1>5. CASE otos = "frozen"
  <2>1. from.ox = 386 /\ to.ox = 386
    BY <1>1, <1>5
  <2>2. Distance(from.ox, to.ox) <= 1
    BY <2>1 DEF Distance
  <2>3. detect_otos_staleness(d, from, to) <=> d >= 20
    BY <2>1, <2>2 DEF detect_otos_staleness
  <2> QED BY <1>2, <1>3, <1>5, <2>3
<1>6. CASE otos # "live" /\ otos # "frozen"
  <2>1. from.ox = 0 /\ to.ox = 0
    BY <1>1, <1>6
  <2>2. ~detect_otos_staleness(d, from, to)
    BY <1>1, <2>1 DEF detect_otos_staleness
  <2> QED BY <1>2, <1>6, <2>2
<1> QED BY <1>4, <1>5, <1>6

LEMMA EarnedTarget ==
  ASSUME NEW row, NEW goal, NEW corner \in Int, NEW otos, RowOf(row, goal, corner, otos),
         row.verdict = "on-target",
         Distance(0, WrapHeading(goal[3] - BearingTo(goal[1], goal[2]))) <= HeadingTol
  PROVE  Distance(goal[2], corner) <= DistanceTol
<1>1. PICK from, to : /\ row = LegRow(from, to, corner) /\ from.x = goal[1] /\ At(to, goal)
                      /\ from.x \in Int /\ to.x \in Int /\ to.h \in Int
  BY DEF RowOf
<1>2. PICK x \in Int, y \in Int, h \in Int : x = from.x /\ y = to.x /\ h = to.h
  BY <1>1
<1>3. x = goal[1] /\ y = goal[2] /\ h = goal[3]
  BY <1>1, <1>2 DEF At
<1>4. classify_leg([distance |-> Distance(x, corner), heading |-> BearingTo(x, corner)],
                   [distance |-> Distance(x, y), heading |-> h]) = "on-target"
  BY <1>1, <1>2 DEF LegRow
<1>5. Distance(0, WrapHeading(h - BearingTo(x, y))) <= HeadingTol
  BY <1>3
<1>6. Distance(y, corner) <= DistanceTol
  BY <1>4, <1>5, OnTargetIsAtTarget
<1> QED BY <1>3, <1>6

(* The table of a capture whose legs can be told is the robot's: leg by leg *)
(* from where it began to where it ended, against its own target            *)
(* (leg_analysis.py).                                                       *)
THEOREM LegsHold == ReportSpec => []LegsAreTheRobots
<1>1. ASSUME RunInv, ToldInv, told, report.ok, report.tool = "leg_analysis"
      PROVE  LegsAreTheRobots
  <2>1. PICK K : K = Len(driven)
    OBVIOUS
  <2>2. /\ Len(report.legs) = IF K < Len(Corners) THEN K ELSE Len(Corners)
        /\ \A m \in DOMAIN report.legs :
             /\ m \in DOMAIN Corners
             /\ RowOf(report.legs[m], driven[m], Corners[m], capture.otos)
    BY <1>1, <2>1, TableOfRun
  <2>3. ASSUME NEW m \in DOMAIN report.legs
        PROVE  /\ report.legs[m].from.x = driven[m][1] /\ report.legs[m].to.x = driven[m][2]
               /\ report.legs[m].to.h = driven[m][3]
    <3>1. RowOf(report.legs[m], driven[m], Corners[m], capture.otos)
      BY <2>2
    <3>2. PICK from, to : /\ report.legs[m] = LegRow(from, to, Corners[m])
                          /\ from.x = driven[m][1] /\ At(to, driven[m])
      BY <3>1 DEF RowOf
    <3>3. report.legs[m].from = from /\ report.legs[m].to = to
      BY <3>2 DEF LegRow
    <3> QED BY <3>2, <3>3 DEF At
  <2> QED BY <2>1, <2>2, <2>3 DEF LegsAreTheRobots
<1>2. RunInv /\ ToldInv => LegsAreTheRobots
  BY <1>1 DEF LegsAreTheRobots
<1> QED BY <1>2, RunHolds, ToldHolds, PTL

(* A leg called on target ended at its target if it ended nose first, and   *)
(* the OTOS is called stale exactly when it was frozen and the wheels drove *)
(* far enough to tell (leg_analysis.py).                                    *)
THEOREM VerdictsHold == ReportSpec => []VerdictsAreEarned
<1>1. ASSUME RunInv, ToldInv, told, report.ok, NEW m \in DOMAIN report.legs
      PROVE  /\ /\ report.legs[m].verdict = "on-target"
                /\ Distance(0, WrapHeading(driven[m][3] - BearingTo(driven[m][1], driven[m][2]))) <= HeadingTol
                => Distance(driven[m][2], Corners[m]) <= DistanceTol
             /\ report.legs[m].stale <=> capture.otos = "frozen" /\ Distance(driven[m][1], driven[m][2]) >= 20
  <2>1. report.tool = "leg_analysis"
    <3>1. SUFFICES ASSUME report.tool # "leg_analysis"
                   PROVE  FALSE
      OBVIOUS
    <3>2. report.legs = <<>>
      BY <1>1, <3>1 DEF RunInv, FileInv
    <3> QED BY <1>1, <3>2
  <2>2. PICK row, goal, corner, otos :
          row = report.legs[m] /\ goal = driven[m] /\ corner = Corners[m] /\ otos = capture.otos
    OBVIOUS
  <2>3. corner \in Int /\ RowOf(row, goal, corner, otos)
    <3>1. PICK K : K = Len(driven)
      OBVIOUS
    <3>2. \A i \in DOMAIN report.legs : /\ i \in DOMAIN Corners
                                        /\ RowOf(report.legs[i], driven[i], Corners[i], capture.otos)
      BY <1>1, <2>1, <3>1, TableOfRun
    <3>3. m \in DOMAIN Corners /\ RowOf(report.legs[m], driven[m], Corners[m], capture.otos)
      BY <1>1, <3>2
    <3>4. Corners[m] \in Int
      BY <3>3, ReportAssumption
    <3> QED BY <2>2, <3>3, <3>4
  <2>4. row.verdict = "on-target" /\ Distance(0, WrapHeading(goal[3] - BearingTo(goal[1], goal[2]))) <= HeadingTol
          => Distance(goal[2], corner) <= DistanceTol
    BY <2>3, EarnedTarget
  <2>5. row.stale <=> otos = "frozen" /\ Distance(goal[1], goal[2]) >= 20
    BY <2>3, StaleIsFrozen
  <2> QED BY <2>2, <2>4, <2>5
<1>2. RunInv /\ ToldInv => VerdictsAreEarned
  BY <1>1 DEF VerdictsAreEarned
<1> QED BY <1>2, RunHolds, ToldHolds, PTL

\* There are no more samples, and no more legs, than steps of the robot.
StepsInv ==
    /\ tourRobot.now \in 0 .. MaxSamples /\ Len(samples) <= tourRobot.now
    /\ Len(driven) + (IF capture.on /\ tourRobot.moving THEN 1 ELSE 0) <= tourRobot.now

BooleanInv == tourRobot.moving \in BOOLEAN /\ told \in BOOLEAN

ToolInv == report.tool \in {None, "leg_analysis", "tour_chart"}

LEMMA StepsHold == ReportSpec => []StepsInv
<1>1. ReportInit => StepsInv
  BY ReportAssumption DEF ReportInit, Recording, StepsInv
<1>2. ASSUME RunInv, ToldInv, StepsInv, [ReportNext]_reportVars
      PROVE  StepsInv'
  <2>1. /\ samples \in Seq(Samples) /\ driven \in Seq(LegType) /\ tourRobot.now \in Nat /\ MaxSamples \in Nat
        /\ Len(samples) \in Nat /\ Len(driven) \in Nat
    BY <1>2, ReportAssumption DEF RunInv, SamplesInv, ToldInv, DrivenInv, StepsInv
  <2>2. ASSUME NEW kind, Seen(kind)
        PROVE  Len(samples') <= Len(samples) + 1 /\ Len(samples') \in Nat /\ capture'.on = capture.on
    <3>1. capture'.on = capture.on
      BY <1>2, <2>2 DEF Seen, RunInv, RobotInv
    <3>2. samples' = samples \/ \E f : samples' = Append(samples, f)
      BY <2>2 DEF Seen
    <3>3. Len(samples') <= Len(samples) + 1 /\ Len(samples') \in Nat
      <4>1. CASE samples' = samples
        BY <2>1, <4>1
      <4>2. ASSUME NEW f, samples' = Append(samples, f)
            PROVE  Len(samples') = Len(samples) + 1
        BY <2>1, <4>2
      <4> QED BY <2>1, <3>2, <4>1, <4>2
    <3> QED BY <3>1, <3>3
  <2>3. CASE Drive
    <3>1. /\ capture.on /\ tourRobot.now < MaxSamples /\ driven' = driven
          /\ tourRobot'.now = tourRobot.now + 1 /\ \E kind : Seen(kind)
          /\ Len(driven) <= tourRobot.now
      BY <1>2, <2>1, <2>3 DEF Drive, StepsInv
    <3>2. Len(samples') <= Len(samples) + 1
      BY <2>2, <3>1
    <3>3. Len(driven') + (IF capture'.on /\ tourRobot'.moving THEN 1 ELSE 0) <= tourRobot.now + 1
      BY <2>1, <3>1
    <3> QED BY <1>2, <2>1, <2>2, <3>1, <3>2, <3>3 DEF StepsInv
  <2>4. CASE Pause
    <3>1. /\ capture.on /\ tourRobot.now < MaxSamples
          /\ driven' = IF tourRobot.moving THEN Append(driven, <<tourRobot.from, tourRobot.x, tourRobot.h>>)
                       ELSE driven
          /\ tourRobot' = [tourRobot EXCEPT !.now = @ + 1, !.moving = FALSE] /\ RobotLike(tourRobot)
          /\ \E kind : Seen(kind)
      BY <1>2, <2>4 DEF Pause, RunInv, RobotInv
    <3>2. tourRobot'.now = tourRobot.now + 1 /\ ~tourRobot'.moving
      BY <3>1 DEF RobotLike
    <3>3. Len(driven') <= Len(driven) + (IF tourRobot.moving THEN 1 ELSE 0) /\ Len(driven') \in Nat
      BY <2>1, <3>1
    <3>4. Len(driven') + (IF capture'.on /\ tourRobot'.moving THEN 1 ELSE 0) <= tourRobot.now + 1
      BY <1>2, <2>1, <3>1, <3>2, <3>3 DEF StepsInv
    <3>5. Len(samples') <= Len(samples) + 1
      BY <2>2, <3>1
    <3> QED BY <1>2, <2>1, <2>2, <3>1, <3>2, <3>4, <3>5 DEF StepsInv
  <2>5. CASE EndCapture
    <3>1. /\ capture.on /\ samples' = samples /\ tourRobot' = tourRobot
          /\ driven' = IF tourRobot.moving THEN Append(driven, <<tourRobot.from, tourRobot.x, tourRobot.h>>)
                       ELSE driven
          /\ capture'.on = FALSE
      <4>1. \E v : capture' = [capture EXCEPT !.on = FALSE, !.sidecar = v]
        BY <2>5 DEF EndCapture
      <4>2. capture'.on = FALSE
        BY <1>2, <4>1 DEF RunInv, RobotInv
      <4> QED BY <2>5, <4>2 DEF EndCapture
    <3>2. Len(driven') <= Len(driven) + (IF tourRobot.moving THEN 1 ELSE 0) /\ Len(driven') \in Nat
      BY <2>1, <3>1
    <3>3. Len(driven') <= tourRobot.now
      BY <1>2, <2>1, <3>1, <3>2 DEF StepsInv
    <3>4. (IF capture'.on /\ tourRobot'.moving THEN 1 ELSE 0) = 0
      BY <3>1
    <3>5. Len(driven') + (IF capture'.on /\ tourRobot'.moving THEN 1 ELSE 0) <= tourRobot'.now
      <4>1. Len(driven') + 0 = Len(driven')
        BY <3>2
      <4> QED BY <3>1, <3>3, <3>4, <4>1
    <3> QED BY <1>2, <3>1, <3>5 DEF StepsInv
  <2>6. ASSUME NEW prog, Report(prog)
        PROVE  StepsInv'
    BY <1>2, <2>6 DEF Report, StepsInv
  <2>7. CASE UNCHANGED reportVars
    BY <1>2, <2>7 DEF reportVars, StepsInv
  <2> QED BY <1>2, <2>3, <2>4, <2>5, <2>6, <2>7 DEF ReportNext
<1> QED BY <1>1, <1>2, RunHolds, ToldHolds, PTL DEF ReportSpec

LEMMA FlagsHold == ReportSpec => [](BooleanInv /\ ToolInv)
<1>1. ReportInit => BooleanInv /\ ToolInv
  <2> SUFFICES ASSUME ReportInit
               PROVE  BooleanInv /\ ToolInv
    OBVIOUS
  <2>1. tourRobot.moving = FALSE /\ told = TRUE /\ report.tool = None
    BY DEF ReportInit
  <2> QED BY <2>1, Zenon DEF BooleanInv, ToolInv
<1>2. ASSUME RunInv, BooleanInv, ToolInv, [ReportNext]_reportVars
      PROVE  BooleanInv' /\ ToolInv'
  <2>1. CASE Drive
    <3>1. told' \in BOOLEAN
      BY <2>1, Zenon DEF Drive
    <3>2. tourRobot'.moving = TRUE /\ report' = report
      BY <2>1 DEF Drive, Seen
    <3> QED BY <1>2, <3>1, <3>2, Zenon DEF BooleanInv, ToolInv
  <2>2. CASE Pause
    <3>1. told' \in BOOLEAN
      BY <2>2, Zenon DEF Pause
    <3>2. tourRobot'.moving = FALSE /\ report' = report
      BY <1>2, <2>2 DEF Pause, Seen, RunInv, RobotInv, RobotLike
    <3> QED BY <1>2, <3>1, <3>2, Zenon DEF BooleanInv, ToolInv
  <2>3. CASE EndCapture
    <3>1. told' \in BOOLEAN
      BY <2>3, Zenon DEF EndCapture
    <3>2. tourRobot' = tourRobot /\ report' = report
      BY <2>3 DEF EndCapture
    <3> QED BY <1>2, <3>1, <3>2, Zenon DEF BooleanInv, ToolInv
  <2>4. ASSUME NEW prog \in {"leg_analysis", "tour_chart"}, Report(prog)
        PROVE  BooleanInv' /\ ToolInv'
    <3>1. tourRobot' = tourRobot /\ told' = told /\ report'.tool = prog
      BY <2>4 DEF Report
    <3> QED BY <1>2, <2>4, <3>1 DEF BooleanInv, ToolInv
  <2>5. CASE UNCHANGED reportVars
    BY <1>2, <2>5 DEF reportVars, BooleanInv, ToolInv
  <2> QED BY <1>2, <2>1, <2>2, <2>3, <2>4, <2>5 DEF ReportNext
<1> QED BY <1>1, <1>2, RunHolds, PTL DEF ReportSpec

(* A capture's robot stays on its spots, and there are no more samples and  *)
(* legs than it made steps.                                                 *)
THEOREM ReportTypesHold == ReportSpec => []ReportTypeOK
<1>1. RunInv /\ ToldInv /\ StepsInv /\ BooleanInv /\ ToolInv => ReportTypeOK
  <2> SUFFICES ASSUME RunInv, ToldInv, StepsInv, BooleanInv, ToolInv
               PROVE  ReportTypeOK
    OBVIOUS
  <2>1. tourRobot.x \in Spots /\ tourRobot.now \in 0 .. MaxSamples
    BY DEF RunInv, RobotInv, RobotLike, StepsInv
  <2>2. Len(samples) <= MaxSamples /\ Len(driven) <= MaxSamples
    <3>1. Len(samples) \in Nat /\ Len(driven) \in Nat /\ MaxSamples \in Nat
      BY ReportAssumption DEF RunInv, SamplesInv, ToldInv, DrivenInv
    <3> QED BY <3>1 DEF StepsInv
  <2> QED BY <2>1, <2>2, Zenon DEF ReportTypeOK, BooleanInv, ToolInv
<1> QED BY <1>1, RunHolds, ToldHolds, StepsHold, FlagsHold, PTL

(* What is said of a run after it is what the run was: the file, the table  *)
(* of legs, its verdicts and the chart.                                     *)
THEOREM ReportsHold == ReportSpec => []ReportsAreFaithful
BY CsvHolds, LegsHold, VerdictsHold, ChartsHold, PTL DEF ReportsAreFaithful

===============================================================================
