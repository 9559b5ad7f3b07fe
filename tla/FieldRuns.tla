------------------------------ MODULE FieldRuns ------------------------------
(***************************************************************************)
(* The programs that run tours on the playfield: tour_run.py and            *)
(* tour_practice.py, over reposition.py, field.py, camlink.py and the       *)
(* sequenced but never resent sends of robotlink.Link.  The robot takes     *)
(* numbered RUN lines, queues the jobs, does them one at a time, and says   *)
(* so with markers the carrier may lose.                                    *)
(*                                                                          *)
(* The field is a line of cells; the middle ones are inside the margin.     *)
(* The robot drives by what it believes: its place plus an offset, which a  *)
(* seed sets to what the camera saw.                                        *)
(***************************************************************************)
EXTENDS Integers, Sequences, FiniteSets

CONSTANTS
    Edge,       \* cells 0 .. Edge, usable 1 .. Edge - 1
    Tries,      \* of a repositioning phase: 3 in the code
    StaleAfter, \* frames without the tag that a fix still trusts: 40
    MaxJobs     \* lines sent in a behaviour

ASSUME FieldAssumption ==
    /\ Edge \in Nat /\ Edge >= 3
    /\ {Tries, StaleAfter, MaxJobs} \subseteq Nat \ {0}

VARIABLES
    place,   \* the robot: where it is and faces, the offset of its belief
    jobs,    \* the number the handler expects, the queue, the job it does
    marks,   \* markers on their way to the host, in order
    camera,  \* Cam: latest, notag, err
    tool     \* the program: where it is, its sequencer, its fix, its verdict

fieldVars == <<place, jobs, marks, camera, tool>>

Cells == 0 .. Edge
Usable == 1 .. Edge - 1
Origin == Edge - 1          \* the NE dot
Turn == 1                  \* where a tour turns back
NoFix == -1
NoJob == [verb |-> "none", arg |-> 0, n |-> 0]

FieldInit ==
    /\ place = [at |-> Origin, faces |-> "west", off |-> 0]
    /\ jobs = [expected |-> 1, queue |-> <<>>, doing |-> NoJob]
    /\ marks = <<>>
    /\ camera = [latest |-> NoFix, notag |-> 0, err |-> FALSE]
    /\ tool = [at |-> "closed", kind |-> "tour_run", seq |-> 0, try |-> 0, fix |-> NoFix,
               sent |-> 0, tour |-> 0, ended |-> 0, trusted |-> TRUE]

-----------------------------------------------------------------------------
(* The camera.  Its reader thread publishes a frame; fix() reads.           *)

frame ==
    /\ ~camera.err
    /\ \/ camera' = [camera EXCEPT !.latest = place.at, !.notag = 0]
       \/ camera.notag <= StaleAfter /\ camera' = [camera EXCEPT !.notag = @ + 1]
    /\ camera' # camera
    /\ UNCHANGED <<place, jobs, marks, tool>>

CamDown ==
    /\ ~camera.err
    /\ camera' = [camera EXCEPT !.err = TRUE, !.latest = NoFix]
    /\ UNCHANGED <<place, jobs, marks, tool>>

fix == IF camera.err \/ camera.notag > StaleAfter THEN NoFix ELSE camera.latest

-----------------------------------------------------------------------------
(* The robot. *)

\* Somebody sets the robot down elsewhere before the first program runs.
Carried ==
    /\ tool.at = "closed" /\ tool.sent = 0 /\ jobs.queue = <<>> /\ jobs.doing = NoJob
    /\ \E c \in Cells, way \in {"west", "east"} :
         /\ place' = [place EXCEPT !.at = c, !.faces = way, !.off = place.at + @ - c]
         /\ place' # place
    /\ UNCHANGED <<jobs, marks, camera, tool>>

Believed == place.at + place.off

dispatchJob ==
    /\ jobs.doing = NoJob /\ jobs.queue # <<>>
    /\ jobs' = [jobs EXCEPT !.doing = Head(jobs.queue), !.queue = Tail(@)]
    /\ UNCHANGED <<place, marks, camera, tool>>

Goal == CASE jobs.doing.verb = "tour out" -> Turn
          [] jobs.doing.verb = "tour back" -> Origin
          [] OTHER -> jobs.doing.arg

Toward(goal) == IF Believed < goal THEN 1 ELSE -1

\* One cell of a drive.
DriveOn ==
    /\ jobs.doing.verb \in {"goto", "tour out", "tour back"}
    /\ Believed # Goal /\ place.at + Toward(Goal) \in Cells
    /\ place' = [place EXCEPT !.at = @ + Toward(Goal)]
    /\ UNCHANGED <<jobs, marks, camera, tool>>

\* A job's last act, and its marker, which may be lost.
Marker == CASE jobs.doing.verb = "seedxy" -> "OCAL:seeded"
            [] jobs.doing.verb = "goto" -> "GOTO:end"
            [] jobs.doing.verb = "face" -> "FACE:end"
            [] OTHER -> "TOUR:end"

Says(what, n) == marks' = Append(marks, [says |-> what, n |-> n]) \/ UNCHANGED marks

\* A drive may end facing any way.
Arrived == Believed = Goal \/ place.at + Toward(Goal) \notin Cells

EndJob ==
    /\ jobs.doing.verb \notin {"none", "tour out"}
    /\ jobs.doing.verb \in {"goto", "tour back"} => Arrived
    /\ jobs' = [jobs EXCEPT !.doing = NoJob]
    /\ CASE jobs.doing.verb = "seedxy" -> place' = [place EXCEPT !.off = jobs.doing.arg - place.at]
         [] jobs.doing.verb = "face" -> place' = [place EXCEPT !.faces = "west"]
         [] OTHER -> \E way \in {"west", "east"} : place' = [place EXCEPT !.faces = way]
    /\ Says(Marker, jobs.doing.n)
    /\ UNCHANGED <<camera, tool>>

TurnBack ==
    /\ jobs.doing.verb = "tour out" /\ Arrived
    /\ jobs' = [jobs EXCEPT !.doing.verb = "tour back"]
    /\ UNCHANGED <<place, marks, camera, tool>>

-----------------------------------------------------------------------------
(* robotlink.Link *)

\* Mutant: the handler takes whatever number comes.
Accepts_AnyNumber(n) == n > 0
Accepts(n) == n = jobs.expected

\* send(): a number of its own, written once, and perhaps lost.
Send(verb, arg) ==
    LET n == tool.seq + 1 IN
    \/ UNCHANGED jobs
    \/ jobs' = IF ~Accepts(n) THEN jobs
               ELSE [jobs EXCEPT !.expected = n + 1,
                       !.queue = IF verb = "TLM" THEN @
                                 ELSE Append(@, [verb |-> verb, arg |-> arg, n |-> tool.sent + 1])]

Left == tool.sent < MaxJobs

\* The program goes on to `where` having sent one line.
Sending(verb, arg, where) ==
    /\ Left /\ Send(verb, arg)
    /\ tool' = [where EXCEPT !.seq = tool.seq + 1, !.sent = tool.sent + 1]
    /\ UNCHANGED <<place, marks, camera>>

Going(where) == tool' = where /\ UNCHANGED <<place, jobs, marks, camera>>

To(where) == [tool EXCEPT !.at = where]

\* lines(): reads on until the marker, or its time is up.  The waits are
\* long enough: nothing the robot still does outlasts one.
Quiet == jobs.queue = <<>> /\ jobs.doing = NoJob /\ marks = <<>>

Await(marker, where) ==
    \/ /\ marks # <<>>
       /\ marks' = Tail(marks)
       /\ tool' = IF Head(marks).says = marker
                    THEN [where EXCEPT !.ended = Head(marks).n] ELSE tool
       /\ UNCHANGED <<place, jobs, camera>>
    \/ Quiet /\ Going([where EXCEPT !.ended = 0])

-----------------------------------------------------------------------------
(* open_link(): hello() resets the sequencer whether the robot heard or not.*)

Tools == {"tour_run", "tour_run --reposition", "tour_practice robot", "tour_practice world"}

open_link ==
    /\ tool.at = "closed" /\ fix # NoFix
    /\ \E kind \in Tools, heard \in BOOLEAN :
         /\ jobs' = IF heard THEN [jobs EXCEPT !.expected = 1] ELSE jobs
         /\ tool' = [tool EXCEPT !.at = "run", !.kind = kind, !.seq = 0, !.trusted = heard]
    /\ UNCHANGED <<place, marks, camera>>

close == tool.at = "run" /\ Quiet /\ Going(To("closed"))

\* tour_run ends where tour_practice skips to its next tour.
Practising == tool.kind \in {"tour_practice robot", "tour_practice world"}
GivesUp == Going(To(IF Practising THEN "run" ELSE "closed"))

next_run ==
    /\ tool.at = "run"
    /\ Going([tool EXCEPT !.try = 0, !.tour = 0, !.ended = 0, !.at =
         CASE tool.kind = "tour_practice robot" -> "position"
           [] tool.kind = "tour_practice world" -> "before"
           [] OTHER -> "subscribe"])

\* RequireStream() subscribes; a robot already streaming satisfies it, and
\* a robot that is silent ends the run.
RequireStream ==
    /\ tool.at = "subscribe"
    /\ \/ Sending("TLM", 0, To(CASE tool.kind = "tour_run" -> "before"
                                [] tool.kind = "tour_run --reposition" -> "position"
                                [] OTHER -> "send tour"))
       \/ Sending("TLM", 0, To(IF Practising THEN "run" ELSE "closed"))

-----------------------------------------------------------------------------
(* Repositioner.go(): position, then heading, each from a fresh fix. *)

\* check_path(): every sampled point of the segment, its ends included.
check_path(from, to) == {c \in Cells : (from <= c /\ c <= to) \/ (to <= c /\ c <= from)} \ Usable

\* Mutant: only the target is checked.
PathClear_TargetOnly(pose) == pose # NoFix /\ Origin \in Usable
PathClear(pose) == check_path(pose, Origin) = {}

AfterPosition == [tool EXCEPT !.at = "heading", !.try = 0]
Fixed(where) == [tool EXCEPT !.at = where, !.fix = fix, !.trusted = @ /\ fix = place.at]
Tried(where) == [Fixed(where) EXCEPT !.try = @ + 1]

position ==
    /\ tool.at = "position"
    /\ IF tool.try = Tries THEN Going(AfterPosition)
       ELSE IF fix = NoFix THEN GivesUp
       ELSE IF fix = Origin THEN Going(AfterPosition)
       ELSE IF ~PathClear(fix) THEN GivesUp       \* PathRefused: nothing sent
       ELSE Sending("seedxy", fix, Tried("seeding goto"))

seeding_goto == tool.at = "seeding goto" /\ Await("OCAL:seeded", To("send goto"))
send_goto == tool.at = "send goto" /\ Sending("goto", Origin, To("going"))
going == tool.at = "going" /\ Await("GOTO:end", To("position"))

\* The heading is within tolerance, or takes another turn.
heading ==
    /\ tool.at = "heading"
    /\ IF tool.try = Tries THEN Going(To("arrived"))
       ELSE IF fix = NoFix THEN GivesUp
       ELSE IF place.faces = "west" THEN Going(To("arrived"))
       ELSE Sending("seedxy", fix, Tried("seeding face"))

seeding_face == tool.at = "seeding face" /\ Await("OCAL:seeded", To("send face"))
send_face == tool.at = "send face" /\ Sending("face", 0, To("facing"))
facing == tool.at = "facing" /\ Await("FACE:end", To("heading"))

-----------------------------------------------------------------------------
(* The tour itself. *)

\* go() returns its last fix, within tolerance or not.
arrived ==
    /\ tool.at = "arrived"
    /\ IF fix = NoFix THEN GivesUp
       ELSE Going(To(IF Practising THEN "subscribe" ELSE "before"))

seed_start ==
    /\ tool.at = "before"
    /\ IF fix = NoFix THEN GivesUp ELSE Sending("seedxy", fix, Fixed("seeding tour"))

seeding_tour ==
    /\ tool.at = "seeding tour"
    /\ Await("OCAL:seeded", To(IF Practising THEN "subscribe" ELSE "send tour"))

send_tour ==
    /\ tool.at = "send tour"
    /\ Sending("tour out", 0, [tool EXCEPT !.at = "touring", !.tour = tool.sent + 1])

touring == tool.at = "touring" /\ Await("TOUR:end", To("score"))

score == tool.at = "score" /\ Going(To("run"))

FieldNext ==
    \/ frame \/ CamDown \/ Carried \/ dispatchJob \/ DriveOn \/ EndJob \/ TurnBack
    \/ open_link \/ next_run \/ close \/ RequireStream
    \/ position \/ seeding_goto \/ send_goto \/ going
    \/ heading \/ seeding_face \/ send_face \/ facing
    \/ arrived \/ seed_start \/ seeding_tour \/ send_tour \/ touring \/ score

FieldSpec == FieldInit /\ [][FieldNext]_fieldVars

-----------------------------------------------------------------------------
(* Types. *)
FieldTypeOK ==
    /\ place.at \in Cells /\ place.off \in -Edge .. Edge
    /\ Len(jobs.queue) <= MaxJobs /\ jobs.expected \in 1 .. MaxJobs + 1
    /\ camera.latest \in Cells \cup {NoFix} /\ camera.notag \in 0 .. StaleAfter + 1
    /\ tool.try \in 0 .. Tries /\ tool.fix \in Cells \cup {NoFix}

\* The session's HELLO arrived, and its fixes told where the robot was.
Trusted == tool.trusted

(* A drive onto the start dot stays inside the margin, whatever lines and   *)
(* markers are lost: a goto whose seed was lost is never accepted.          *)
DrivesInsideTheMargin ==
    Trusted /\ jobs.doing.verb = "goto" => place.at \in Usable

(* A tour that begins by seeding the robot is driven in the field's frame.  *)
ToursAreSeeded ==
    Trusted /\ jobs.doing.verb = "tour out" /\ tool.kind # "tour_practice robot"
        => place.off = 0

(* The end a run waited for is the end of its own tour, not a late one.     *)
EndIsItsOwn == tool.at = "score" => tool.ended \in {0, tool.tour}

FieldRunsAreSound == DrivesInsideTheMargin /\ ToursAreSeeded /\ EndIsItsOwn
=============================================================================
