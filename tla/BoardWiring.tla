---------------------------- MODULE BoardWiring ----------------------------
(***************************************************************************)
(* configureMotor(): which port of the brick each wheel is on may change    *)
(* while the robot runs, by a block and by the host's SET.  The decision    *)
(* (motor_wiring.h) is taken from the wiring found at the call; the change  *)
(* comes after a soft stop and a wait for the bus guard, port by port, and  *)
(* a port takes up its new motor in begin(), which sleeps.  The brick keeps *)
(* a port turning until somebody writes a zero to that port.                *)
(*                                                                         *)
(* An action is the code between two yields.  A duty is there or not; goals *)
(* and the e-stop latch are TickEngine's.                                   *)
(***************************************************************************)
EXTENDS Integers, Sequences, FiniteSets

CONSTANTS
    Rewirers,       \* fibers that call configureMotor()
    MotorRequests,  \* their calls: [side, port, sign]
    MaxRewires,     \* bounds: calls, times the brick goes deaf, hard faults
    MaxDeaf, MaxHardFaults

Sides == {"left", "right"}
OtherSide(s) == IF s = "left" THEN "right" ELSE "left"
MotorPorts == 1 .. 4
Driver == "driver"      \* the fiber that drives and ticks
NoFiber == "no fiber"

ASSUME WiringAssumption ==
    /\ {MaxRewires, MaxDeaf, MaxHardFaults} \subseteq Nat
    /\ {Driver, NoFiber} \cap Rewirers = {}
    /\ MotorRequests \subseteq [side : Sides, port : Int, sign : Int]

VARIABLES
    board,      \* wired[s]: port_ and fwdSign_; staged[s]; last[s]: lastWritten_;
                \* running: the ports whose motor turns
    deaf,       \* the brick does not acknowledge what is written
    guard,      \* BusGuard, with its holder
    stopStaged, \* Rig::pendingStop_
    driving,    \* the command of engine and kernel is not neutral
    wfiber,     \* where each fiber is parked, and the rest of its plan
    wiringPast  \* history: calls, times deaf, hard faults; the ports left to
                \* turn unheard; quiet: no drive since the last call

wiringVars == <<board, deaf, guard, stopStaged, driving, wfiber, wiringPast>>

Idle == [pc |-> "idle", plan |-> <<>>]
Wiring(port, sign) == [port |-> port, sign |-> sign]
BootWiring == [left |-> Wiring(1, -1), right |-> Wiring(2, 1)]
FreshBoard(turning) ==
    [wired |-> BootWiring, staged |-> [s \in Sides |-> FALSE],
     last |-> [s \in Sides |-> "never"], running |-> turning]

WiringInit ==
    /\ board = FreshBoard({})
    /\ deaf = FALSE /\ guard = NoFiber /\ stopStaged = FALSE /\ driving = FALSE
    /\ wfiber = [f \in Rewirers \cup {Driver} |-> Idle]
    /\ wiringPast = [calls |-> 0, deaf |-> 0, hardFaults |-> 0, unheard |-> {}, quiet |-> FALSE]

ParkAt(f, pc, plan) == wfiber' = [wfiber EXCEPT ![f] = [pc |-> pc, plan |-> plan]]

-----------------------------------------------------------------------------
(* Writes to the brick.  One that is not acknowledged is not remembered as   *)
(* written; a zero already written is written again only while the wheel is  *)
(* seen to turn, which comes to the same in what it leaves running.          *)

\* writeShapedDuty() of what is staged.
ShapedWrite(b, s) ==
    IF deaf THEN b
    ELSE IF b.staged[s]
    THEN [b EXCEPT !.last[s] = "duty", !.running = @ \cup {b.wired[s].port}]
    ELSE [b EXCEPT !.last[s] = "zero", !.running = @ \ {b.wired[s].port}]

\* NezhaMotorPort::emergencyStop(), and that of both ports.
PortStop(b, s) == ShapedWrite([b EXCEPT !.staged[s] = FALSE], s)
BothStop(b) == PortStop(PortStop(b, "left"), "right")

\* kernel.step() up to its first yield: controlStep() stages for both wheels.
StageFor(b) == [b EXCEPT !.staged = [s \in Sides |-> driving]]

-----------------------------------------------------------------------------
(* The fiber that drives: tickDrive(), commands, the stop block.  The two    *)
(* sleeps of a step are "left" and "right"; the same step settles a stop.    *)

Tick ==
    /\ wfiber[Driver] = Idle /\ guard = NoFiber
    /\ guard' = Driver
    /\ board' = StageFor(board)
    /\ ParkAt(Driver, "tick left", <<>>)
    /\ UNCHANGED <<deaf, stopStaged, driving, wiringPast>>

LeftTick(f) ==
    /\ wfiber[f].pc \in {"tick left", "settle left"}
    /\ board' = ShapedWrite(board, "left")
    /\ ParkAt(f, IF wfiber[f].pc = "tick left" THEN "tick right" ELSE "settle right", wfiber[f].plan)
    /\ UNCHANGED <<deaf, guard, stopStaged, driving, wiringPast>>

\* A stop that another fiber staged is delivered before the guard goes.
TickDeliversStop ==
    /\ wfiber[Driver].pc = "tick right" /\ stopStaged
    /\ stopStaged' = FALSE
    /\ board' = StageFor(BothStop(ShapedWrite(board, "right")))
    /\ ParkAt(Driver, "settle left", <<>>)
    /\ UNCHANGED <<deaf, guard, driving, wiringPast>>

TickEnds ==
    /\ wfiber[Driver].pc = "tick right" /\ ~stopStaged
    /\ board' = ShapedWrite(board, "right")
    /\ guard' = NoFiber
    /\ ParkAt(Driver, "idle", <<>>)
    /\ UNCHANGED <<deaf, stopStaged, driving, wiringPast>>

\* settleToRest() takes another step.
SettlesOn(f) ==
    /\ wfiber[f].pc = "settle right"
    /\ board' = StageFor(ShapedWrite(board, "right"))
    /\ ParkAt(f, "settle left", wfiber[f].plan)
    /\ UNCHANGED <<deaf, guard, stopStaged, driving, wiringPast>>

Drives ==
    /\ driving' = TRUE
    /\ wiringPast' = [wiringPast EXCEPT !.quiet = FALSE]
    /\ UNCHANGED <<board, deaf, guard, stopStaged, wfiber>>

\* Rig::softStop() of fiber f, with what it goes on to do.
SoftStop(f, plan) ==
    /\ driving' = FALSE
    /\ IF guard = NoFiber
       THEN /\ guard' = f
            /\ board' = BothStop(board)
            /\ ParkAt(f, "settle left", plan)
            /\ UNCHANGED stopStaged
       ELSE /\ stopStaged' = TRUE
            /\ ParkAt(f, IF plan = <<>> THEN "idle" ELSE "waits", plan)
            /\ UNCHANGED <<board, guard>>

StopBlock ==
    /\ wfiber[Driver] = Idle
    /\ SoftStop(Driver, <<>>)
    /\ UNCHANGED <<deaf, wiringPast>>

\* The driver's own settle is over.
SettlesAndGoes ==
    /\ wfiber[Driver].pc = "settle right"
    /\ board' = ShapedWrite(board, "right")
    /\ guard' = NoFiber
    /\ ParkAt(Driver, "idle", <<>>)
    /\ UNCHANGED <<deaf, stopStaged, driving, wiringPast>>

\* estopAll() writes both ports whoever holds the guard.
EstopAll ==
    /\ driving' = FALSE
    /\ board' = BothStop(board)
    /\ UNCHANGED <<deaf, guard, stopStaged, wfiber, wiringPast>>

-----------------------------------------------------------------------------
(* configureMotor().                                                        *)

\* Mutant: the request whose port the other wheel has is not an exchange.
applyWiringRequest_NoExchange(target, other, port, sign) ==
    IF port \notin MotorPorts \/ sign \notin {1, -1}
    THEN [target |-> target, other |-> other]
    ELSE [target |-> Wiring(port, sign), other |-> other]

applyWiringRequest(target, other, port, sign) ==
    IF port \notin MotorPorts \/ sign \notin {1, -1}
    THEN [target |-> target, other |-> other]
    ELSE [target |-> Wiring(port, sign),
          other |-> IF other.port = port THEN [other EXCEPT !.port = target.port] ELSE other]

\* What q asks for, given the wiring now: the other wheel first.
Plan(q) ==
    LET o == OtherSide(q.side)
        next == applyWiringRequest(board.wired[q.side], board.wired[o], q.port, q.sign)
        Move(s, w) == IF w = board.wired[s] THEN <<>> ELSE <<[side |-> s, to |-> w]>>
    IN IF Move(o, next.other) = <<>> THEN Move(q.side, next.target)
       ELSE <<[side |-> o, to |-> next.other], [side |-> q.side, to |-> next.target]>>

\* A request that changes something stops the robot first.
ConfigureMotor(f, q) ==
    /\ wfiber[f] = Idle /\ Plan(q) # <<>>
    /\ wiringPast.calls < MaxRewires
    /\ wiringPast' = [wiringPast EXCEPT !.calls = @ + 1, !.quiet = TRUE]
    /\ SoftStop(f, Plan(q))
    /\ UNCHANGED deaf

\* NezhaMotorPort::configureWiring(): the port it leaves is stopped while it
\* can still be addressed.
\* Mutant: the new port is in place before the stop.
Rewire_Late(b, move) ==
    LET c == PortStop([b EXCEPT !.wired[move.side] = move.to], move.side)
    IN [c EXCEPT !.last[move.side] = "never"]
Rewire(b, move) ==
    LET c == PortStop(b, move.side)
    IN [c EXCEPT !.wired[move.side] = move.to, !.last[move.side] = "never"]

\* boardConfigureWiring() of a wheel that is wired so already does nothing.
Configure(b, move) == IF move.to = b.wired[move.side] THEN b ELSE Rewire(b, move)
ConfigureAll(b, moves) ==
    LET c == IF moves = <<>> THEN b ELSE Configure(b, moves[1])
    IN IF Len(moves) < 2 THEN c ELSE Configure(c, moves[2])

\* The moves ahead that change nothing return at once.
MovesDue(b, moves) ==
    LET Skip(ms) == IF ms # <<>> /\ Head(ms).to = b.wired[Head(ms).side] THEN Tail(ms) ELSE ms
    IN Skip(Skip(moves))

\* The first that changes something goes as far as the sleep in begin(), with
\* the rest to come.  From a brick that does not acknowledge, begin() returns
\* without a sleep, and a port that turned turns on.
Applies(f, b, moves) ==
    LET due == MovesDue(b, moves)
        abandoned == {b.wired[s].port : s \in {s \in Sides : board'.wired[s] # b.wired[s]}}
    IN IF due = <<>> \/ deaf
       THEN /\ board' = ConfigureAll(b, due)
            /\ guard' = NoFiber
            /\ ParkAt(f, "idle", <<>>)
            /\ wiringPast' = [wiringPast EXCEPT !.unheard = @ \cup (b.running \cap abandoned)]
       ELSE /\ board' = Rewire(b, due[1])
            /\ guard' = f
            /\ ParkAt(f, "begins", Tail(due))
            /\ UNCHANGED wiringPast

\* The soft stop has settled: release and acquire without a yield.
SettlesAndRewires(f) ==
    /\ wfiber[f].pc = "settle right"
    /\ Applies(f, ShapedWrite(board, "right"), wfiber[f].plan)
    /\ UNCHANGED <<deaf, stopStaged, driving>>

AcquiresToRewire(f) ==
    /\ wfiber[f].pc = "waits" /\ guard = NoFiber
    /\ Applies(f, board, wfiber[f].plan)
    /\ UNCHANGED <<deaf, stopStaged, driving>>

BeginsDone(f) ==
    /\ wfiber[f].pc = "begins"
    /\ Applies(f, board, wfiber[f].plan)
    /\ UNCHANGED <<deaf, stopStaged, driving>>

-----------------------------------------------------------------------------
(* What fails.                                                              *)

GoesDeaf ==
    /\ ~deaf /\ wiringPast.deaf < MaxDeaf
    /\ deaf' = TRUE
    /\ wiringPast' = [wiringPast EXCEPT !.deaf = @ + 1]
    /\ UNCHANGED <<board, guard, stopStaged, driving, wfiber>>

HearsAgain ==
    /\ deaf /\ deaf' = FALSE
    /\ UNCHANGED <<board, guard, stopStaged, driving, wfiber, wiringPast>>

\* diffdrive_emergency_motor_stop() writes its zero to ports 1 and 2, then the
\* micro:bit resets and wires the ports as it was built to.
HandlerStops(turning) == IF deaf THEN turning ELSE turning \ {1, 2}
HardFault ==
    /\ wiringPast.hardFaults < MaxHardFaults
    /\ LET left == HandlerStops(board.running)
       IN /\ board' = FreshBoard(left)
          /\ wiringPast' = [wiringPast EXCEPT !.hardFaults = @ + 1, !.quiet = FALSE,
                                              !.unheard = @ \cup left]
    /\ guard' = NoFiber /\ stopStaged' = FALSE /\ driving' = FALSE
    /\ wfiber' = [f \in DOMAIN wfiber |-> Idle]
    /\ UNCHANGED deaf

WiringNext ==
    \/ Tick \/ TickDeliversStop \/ TickEnds \/ Drives \/ StopBlock \/ SettlesAndGoes \/ EstopAll
    \/ \E f \in DOMAIN wfiber : LeftTick(f) \/ SettlesOn(f)
    \/ \E f \in Rewirers :
         \/ \E q \in MotorRequests : ConfigureMotor(f, q)
         \/ SettlesAndRewires(f) \/ AcquiresToRewire(f) \/ BeginsDone(f)
    \/ GoesDeaf \/ HearsAgain \/ HardFault

WiringSpec == WiringInit /\ [][WiringNext]_wiringVars

-----------------------------------------------------------------------------
WiringTypeOK ==
    /\ board.wired \in [Sides -> [port : MotorPorts, sign : {1, -1}]]
    /\ board.staged \in [Sides -> BOOLEAN]
    /\ board.last \in [Sides -> {"never", "zero", "duty"}]
    /\ board.running \subseteq MotorPorts
    /\ {deaf, stopStaged, driving} \subseteq BOOLEAN
    /\ guard \in DOMAIN wfiber \cup {NoFiber}

Wired(b) == {b.wired[s].port : s \in Sides}
Unplanned == \A f \in Rewirers : wfiber[f].pc # "begins"

(* Two wheels are never left on one port ("TWO WHEELS ON ONE PORT IS         *)
(* REFUSED", shims.cpp): while nobody is in the middle of a change, the two  *)
(* sides have two ports.                                                     *)
PairStaysDistinct == Unplanned => Cardinality(Wired(board)) = 2

(* No wheel is orphaned: a motor turns on a port that neither side addresses *)
(* only if the brick did not hear the zero that was meant for it, or no code *)
(* sends one there (the fault handler knows ports 1 and 2).                  *)
OrphansWereUnheard == board.running \ Wired(board) \subseteq wiringPast.unheard

(* A rewiring leaves the robot at rest: when the call has returned and       *)
(* nobody drove since it was made, nothing turns that a fault had not left   *)
(* turning, unless the brick went deaf or the stop is staged for the next    *)
(* tick still.                                                               *)
RewiringEndsAtRest ==
    wiringPast.quiet /\ wiringPast.deaf = 0 /\ ~stopStaged
    /\ (\A f \in Rewirers : wfiber[f] = Idle)
        => board.running \subseteq wiringPast.unheard

WiringIsSound == PairStaysDistinct /\ OrphansWereUnheard /\ RewiringEndsAtRest
=============================================================================
