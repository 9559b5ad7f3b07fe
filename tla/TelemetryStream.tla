--------------------------- MODULE TelemetryStream ---------------------------
(***************************************************************************)
(* Telemetry, from the robot's frames to the files a run leaves behind.     *)
(* The robot numbers its frames modulo SeqModulus and repeats the column    *)
(* header when the columns change or every RefreshFrames frames; carriers   *)
(* lose lines and cut them short.  tools/tlm.py decodes what arrives, and   *)
(* the recorders (tour_run, tour_capture, tour_watch) write it down.        *)
(***************************************************************************)
EXTENDS Integers, Sequences, FiniteSets

CONSTANTS
    SeqModulus,     \* 128 in the code
    RefreshFrames,  \* kHeaderRefreshFrames, 20
    InFlight,       \* lines a carrier holds
    MaxFrames,      \* frames the robot makes in a behaviour
    MaxEvents       \* other consoles' TLM commands, restarts, lines cut short

ASSUME TelemetryAssumption ==
    /\ {SeqModulus, RefreshFrames, InFlight} \subseteq Nat \ {0, 1}
    /\ {MaxFrames, MaxEvents} \subseteq Nat

VARIABLES
    robot,      \* mode_, seq_, the one-shot, the header memo
    made,       \* every frame the robot has made, in order: columns and number
    air,        \* the lines between the robot and the host
    stream,     \* the TlmStream
    recorder,   \* the program that reads it: where it is, and the frames it
                \* had when its run began
    events      \* how many of MaxEvents have happened

tlmVars == <<robot, made, air, stream, recorder, events>>

\* The full set extends the pose set: its first columns are the same ones.
PoseColumns == <<"seq", "x">>
FullColumns == <<"seq", "x", "dutl">>
NoColumns == <<>>
NoSeq == SeqModulus

Booted == [mode |-> "OFF", seq |-> 0, due |-> FALSE, memo |-> NoColumns, since |-> 0]

TlmStream == [columns |-> NoColumns, frames |-> <<>>, orphan_frames |-> 0,
              malformed |-> 0, dropped |-> 0, last_seq |-> NoSeq]

TelemetryInit ==
    /\ robot = Booted /\ made = <<>> /\ air = <<>> /\ stream = TlmStream
    /\ recorder = [at |-> "idle", tool |-> "tour_run", before |-> 0]
    /\ events = 0

-----------------------------------------------------------------------------
(* The robot (wire_adapter.cpp, wire_handler.cpp, protocol.cpp). *)

\* NOW asks for one frame in the present shape; BUFFER is refused.
onTlm(mode) ==
    CASE mode = "NOW" -> [robot EXCEPT !.due = TRUE]
      [] mode = "BUFFER" -> robot
      [] OTHER -> [robot EXCEPT !.mode = mode]

Happens == events < MaxEvents /\ events' = events + 1

\* Somebody's console, on whichever transport.
TlmCommand ==
    /\ \E mode \in {"OFF", "POSE", "FULL", "NOW", "BUFFER"} :
         onTlm(mode) # robot /\ robot' = onTlm(mode)
    /\ Happens
    /\ UNCHANGED <<made, air, stream, recorder>>

buildSnapshot == IF robot.mode = "FULL" THEN FullColumns ELSE PoseColumns

headerChanged == robot.memo # buildSnapshot
HeaderDue == headerChanged \/ robot.since + 1 >= RefreshFrames

NextSeq == (robot.seq + 1) % SeqModulus

\* A line's text; each value of a frame remembers the column it was made for.
FrameText ==
    [i \in DOMAIN buildSnapshot |->
        [of |-> buildSnapshot[i], frame |-> Len(made) + 1,
         n |-> IF buildSnapshot[i] = "seq" THEN NextSeq ELSE 0]]

emitTelemetry ==
    (IF HeaderDue THEN <<[tag |-> "thdr", text |-> buildSnapshot]>> ELSE <<>>)
    \o <<[tag |-> "t", text |-> FrameText]>>

\* One frame.  Its number is spent even if this transport's throttle passes
\* it by (its handler then never sees it); a full queue loses the tail.
MakeFrame(was) ==
    /\ Len(made) < MaxFrames
    /\ made' = Append(made, [columns |-> buildSnapshot, seq |-> NextSeq])
    /\ \/ /\ robot' = [was EXCEPT !.seq = NextSeq] /\ UNCHANGED air
       \/ /\ robot' = [was EXCEPT !.seq = NextSeq, !.memo = buildSnapshot,
                                  !.since = IF HeaderDue THEN 1 ELSE @ + 1]
          /\ LET lines == air \o emitTelemetry IN
             air' = IF Len(lines) <= InFlight THEN lines ELSE SubSeq(lines, 1, InFlight)
    /\ UNCHANGED <<stream, recorder, events>>

periodicTelemetry == robot.mode # "OFF" /\ MakeFrame(robot)
oneShotTelemetry == robot.due /\ MakeFrame([robot EXCEPT !.due = FALSE])

Reboot ==
    /\ robot # Booted /\ robot' = Booted
    /\ Happens
    /\ UNCHANGED <<made, air, stream, recorder>>

-----------------------------------------------------------------------------
(* The carrier, which keeps lines in order: what befalls a line befalls it  *)
(* before it is read.                                                       *)

LineLostInAir ==
    /\ air # <<>>
    /\ air' = Tail(air)
    /\ UNCHANGED <<robot, made, stream, recorder, events>>

LineCutShort ==
    /\ air # <<>>
    /\ \E n \in 1 .. Len(air[1].text) - 1 : air' = [air EXCEPT ![1].text = SubSeq(@, 1, n)]
    /\ Happens
    /\ UNCHANGED <<robot, made, stream, recorder>>

-----------------------------------------------------------------------------
(* The decoder (tlm.py). *)

feed_header(s, names) == [s EXCEPT !.columns = names]

\* Mutant: a gap is the plain difference, so a wrap counts as none.
track_seq_NoWrap(s, seq) ==
    LET delta == seq - s.last_seq
    IN  IF s.last_seq # NoSeq /\ delta > 1 THEN s.dropped + delta - 1 ELSE s.dropped

track_seq(s, seq) ==
    LET delta == (seq - s.last_seq) % SeqModulus
    IN  IF s.last_seq # NoSeq /\ delta > 1 THEN s.dropped + delta - 1 ELSE s.dropped

\* Values are bound to the header's names; a frame that does not fit it, or
\* comes before any, is counted and dropped, and its number is not used.
feed_frame(s, values) ==
    IF s.columns = NoColumns THEN [s EXCEPT !.orphan_frames = @ + 1]
    ELSE IF Len(values) # Len(s.columns) THEN [s EXCEPT !.malformed = @ + 1]
    ELSE LET row == [c \in {s.columns[i] : i \in DOMAIN values} |->
                        values[CHOOSE i \in DOMAIN values : s.columns[i] = c]]
         IN  [s EXCEPT !.frames = Append(@, row), !.dropped = track_seq(s, row["seq"].n),
                       !.last_seq = row["seq"].n]

feed(s, line) ==
    IF line.tag = "thdr" THEN feed_header(s, line.text) ELSE feed_frame(s, line.text)

Decoded(line) == Len(feed(stream, line).frames) > Len(stream.frames)

-----------------------------------------------------------------------------
(* A recorder: require_stream(), what it does before the run with the same  *)
(* link, the run itself, and the files.                                     *)

\* require_stream() sends TLM POSE once, unnumbered: it may be lost.
StartRecording ==
    /\ recorder.at \in {"idle", "refused"}
    /\ \E tool \in {"tour_run", "tour_watch"}, heard \in BOOLEAN :
         /\ robot' = IF heard THEN onTlm("POSE") ELSE robot
         /\ recorder' = [at |-> "require", tool |-> tool, before |-> 0]
    /\ stream' = TlmStream
    /\ UNCHANGED <<made, air, events>>

require_stream ==
    /\ recorder.at = "require" /\ air # <<>>
    /\ stream' = feed(stream, Head(air)) /\ air' = Tail(air)
    /\ recorder' = IF Decoded(Head(air)) THEN [recorder EXCEPT !.at = "staging"] ELSE recorder
    /\ UNCHANGED <<robot, made, events>>

DeadTelemetry ==
    /\ recorder.at = "require"
    /\ recorder' = [recorder EXCEPT !.at = "refused"]
    /\ UNCHANGED <<robot, made, air, stream, events>>

\* Seeding and repositioning read the link for their own markers.
ReadForMarker ==
    /\ recorder.at = "staging" /\ air # <<>>
    /\ air' = Tail(air)
    /\ UNCHANGED <<robot, made, stream, recorder, events>>

\* tour_watch takes a fresh stream when the robot announces a run; the
\* frame that showed the stream alive stays in the others' record.
StartRun ==
    /\ recorder.at = "staging"
    /\ stream' = IF recorder.tool = "tour_watch" THEN TlmStream ELSE stream
    /\ recorder' = [recorder EXCEPT !.at = "capture", !.before = Len(stream'.frames)]
    /\ UNCHANGED <<robot, made, air, events>>

Capture ==
    /\ recorder.at = "capture" /\ air # <<>>
    /\ stream' = feed(stream, Head(air)) /\ air' = Tail(air)
    /\ UNCHANGED <<robot, made, recorder, events>>

PoseRows == SubSeq(stream.frames, recorder.before + 1, Len(stream.frames))

\* write_tlm_csv() refuses an empty capture.  write_pose_csv() stops at a
\* frame that lacks a column it needs, and takes the program with it.
write_csv ==
    /\ recorder.at = "capture"
    /\ recorder' = [recorder EXCEPT !.at =
         IF stream.frames = <<>> THEN "refused"
         ELSE IF \E i \in DOMAIN PoseRows : "x" \notin DOMAIN PoseRows[i] THEN "died"
         ELSE "wrote"]
    /\ UNCHANGED <<robot, made, air, stream, events>>

TelemetryNext ==
    \/ TlmCommand \/ periodicTelemetry \/ oneShotTelemetry \/ Reboot
    \/ LineLostInAir \/ LineCutShort
    \/ StartRecording \/ require_stream \/ DeadTelemetry \/ ReadForMarker
    \/ StartRun \/ Capture \/ write_csv

TelemetrySpec == TelemetryInit /\ [][TelemetryNext]_tlmVars

-----------------------------------------------------------------------------
(* Types of the robot's telemetry state, the air and the stream. *)
TelemetryTypeOK ==
    /\ robot.seq \in 0 .. SeqModulus - 1 /\ robot.since \in 0 .. RefreshFrames
    /\ Len(made) <= MaxFrames /\ Len(air) <= InFlight
    /\ stream.last_seq \in 0 .. SeqModulus
    /\ {stream.dropped, stream.malformed, stream.orphan_frames} \subseteq Nat

Number(row) == row["seq"].frame

(* A decoded value belongs to the column it is filed under, in a frame that *)
(* had that column, whatever headers were lost or cut on the way; and no    *)
(* frame is decoded twice or out of its turn.                               *)
BoundByName ==
    /\ \A i \in DOMAIN stream.frames :
         LET row == stream.frames[i] IN
         \A c \in DOMAIN row :
             /\ row[c].of = c /\ row[c].frame = Number(row)
             /\ \E k \in DOMAIN made[Number(row)].columns : made[Number(row)].columns[k] = c
    /\ \A i \in 2 .. Len(stream.frames) : Number(stream.frames[i - 1]) < Number(stream.frames[i])

\* No reboot between two frames, and fewer than SeqModulus - 1 missing.
Countable(i, j) ==
    /\ j - i < SeqModulus
    /\ \A k \in i + 1 .. j : made[k].seq = (made[k - 1].seq + 1) % SeqModulus

(* What the sidecar reports as dropped, with what was received, accounts    *)
(* for every frame the robot made from the first decoded one to the last,   *)
(* across wraps, header changes, orphans and malformed lines, as long as    *)
(* no gap is a whole turn of the counter and the robot did not restart.     *)
EveryFrameAccounted ==
    LET frames == stream.frames
        N(i) == Number(frames[i])
    IN  frames # <<>> /\ (\A i \in 2 .. Len(frames) : Countable(N(i - 1), N(i)))
            => Len(frames) + stream.dropped = N(Len(frames)) - N(1) + 1

(* A capture that was written holds frames, and a pose in every row of the  *)
(* pose file.                                                               *)
CaptureHoldsFrames ==
    recorder.at = "wrote" =>
        /\ stream.frames # <<>>
        /\ \A i \in DOMAIN PoseRows : {"seq", "x"} \subseteq DOMAIN PoseRows[i]

TelemetryIsHonest == BoundByName /\ EveryFrameAccounted /\ CaptureHoldsFrames
=============================================================================
