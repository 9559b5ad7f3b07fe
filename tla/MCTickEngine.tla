---------------------------- MODULE MCTickEngine ----------------------------
(* Instances of TickEngine for TLC: which entry points a program uses.     *)
EXTENDS TickEngine

CONSTANTS a, b   \* model values: two user fibers

OneFiber  == {a}
TwoFibers == {a, b}

\* Moves, polls, stops and the world sensor; no open-loop pulses.
ClosedLoopOps == AllOps \ {"nudge", "pulse"}

\* Open-loop pulses from a nudge's tick, from isMoving() and from the wire,
\* with every stop.
PulseOps == {"tick", "nudge", "pulse", "poll", "stop", "estop", "estopClear"}

\* A wheels drive and a goal move with the stop and the e-stop.
EstopOps == {"tick", "wheels", "move", "stop", "estop", "estopClear"}

\* A nudge ticked by one fiber and polled with isMoving() by another.
NudgePollOps == {"tick", "nudge", "poll"}

=============================================================================
