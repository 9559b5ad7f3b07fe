----------------------------- MODULE TickEngine -----------------------------
(***************************************************************************)
(* The tick engine of src/shims.cpp: every fiber that moves the robot runs *)
(* the kernel on its own stack, one tickDrive() at a time, under BusGuard; *)
(* stops, polls, OTOS transactions and pulses come from other fibers, and  *)
(* the starvation watchdog stops what nobody ticks any more.               *)
(*                                                                         *)
(* CODAL fibers are cooperative: code between two yields is one action.    *)
(* The yields are the two encoder settle sleeps of kernel.step(), BusGuard *)
(* 's spin, the OTOS register gaps and the pacing sleep at the end of a    *)
(* tick.  The service hook of tickDrive() runs with the guard released and *)
(* only the tick's pacing follows it, so what the protocol fiber does in   *)
(* the hook is modelled as what an idle fiber does.                        *)
(***************************************************************************)
EXTENDS Integers, FiniteSets

CONSTANTS
  Fibers,     \* fibers running user code, RUN jobs and the wire protocol
  Watchdog,   \* the starvation watchdog's fiber
  Ops,        \* the entry points the program at hand uses
  MaxSettle,  \* MotionEngine::kSettleMaxSteps
  MaxPulse,   \* widest duty pulse, in kernel steps
  MaxFaults   \* how often a motor brick may stop answering

AllOps == {"tick", "wheels", "move", "nudge", "pulse", "poll", "stop",
           "estop", "estopClear", "otos", "rebase"}

ASSUME FibersAssumption == Watchdog \notin Fibers
ASSUME OpsAssumption    == Ops \subseteq AllOps
ASSUME BoundsAssumption == /\ MaxSettle \in Nat \ {0}
                           /\ MaxPulse \in Nat
                           /\ MaxFaults \in Nat

Actors == Fibers \cup {Watchdog}
Wheels == {"left", "right"}

VARIABLES
  at,              \* where each fiber is parked
  aim,             \* what it is doing there
  remaining,       \* iterations its settle or pulse loop has left
  busy,            \* BusGuard::busy_
  live,            \* the engine's one live command: seg_, hold_ or nudge_
  command,         \* the kernel's command_.mode, "drive" for either kind
  estopLatch,      \* the kernel's estopLatch_
  staged,          \* some port's stagedDuty_ is nonzero
  written,         \* the kernel's writtenLeft_/writtenRight_ are nonzero
  port,            \* per wheel: the port's lastWritten_ is nonzero
  out,             \* the kernel's published Output
  pendingStop,     \* Rig::pendingStop_
  pendingOtosZero, \* Rig::pendingOtosZero
  fresh,           \* Rig::lastTick is at most kWatchdogTimeout old
  deaf,            \* wheels whose brick does not acknowledge writes
  faults,          \* how often a brick went deaf so far
  asked            \* history: the last request was to move or to stop

fiberVars  == <<at, aim, remaining>>
kernelVars == <<staged, written, port, out>>
rigVars    == <<pendingStop, pendingOtosZero, fresh>>
busVars    == <<deaf, faults>>
vars == <<fiberVars, busy, live, command, estopLatch, kernelVars, rigVars,
          busVars, asked>>

-----------------------------------------------------------------------------
(* Where a fiber can be parked, and the loops it can be in.                *)

Settling == {"ended", "staged", "stop", "nudgeRest", "pulseRest", "pollRest"}
Pulsing  == {"nudgeFire", "pulseFire", "pollFire"}
Stepping == {"serve"} \cup Settling \cup Pulsing
Waiting  == {"tick", "otos", "pulse"}

\* The loops updateMove() runs without the guard when it services a nudge.
Unguarded == {"pollFire", "pollRest"}

Park(f, where, why, n) ==
  /\ at'        = [at EXCEPT ![f] = where]
  /\ aim'       = [aim EXCEPT ![f] = why]
  /\ remaining' = [remaining EXCEPT ![f] = n]

GoIdle(f) == Park(f, "idle", "none", 0)

\* Fiber f is inside a bus transaction it took the guard for.
OnBus(f) == \/ at[f] = "otos"
            \/ at[f] \in {"stepLeft", "stepRight"} /\ aim[f] \notin Unguarded

-----------------------------------------------------------------------------
(* The motor ports.  A zero write goes out at once and unshaped; a nonzero *)
(* duty passes dwell, throttle, slew and quantizer, so it may leave the    *)
(* wheel off or as it was.  Only an acknowledged write counts.             *)

Running(p) == \E w \in Wheels : p[w]

Zeroed(p) == [w \in Wheels |-> p[w] /\ w \in deaf]

Shaped(w) == IF w \in deaf THEN {port[w]}
             ELSE IF staged THEN BOOLEAN ELSE {FALSE}

Ticked(w) == {[port EXCEPT ![w] = d] : d \in Shaped(w)}

-----------------------------------------------------------------------------
(* kernel.step() up to its first yield: pick the effective mode, stage the *)
(* duty it gives, select the left encoder.  An expired lease or a stall    *)
(* halt makes a driving command neutral; a profile can also ask for zero.  *)
(* stageDuty() skips a zero when the kernel believes it already staged one *)
(* and the wheels are at rest.                                             *)

\* Seeded fault: the effective mode ignores the e-stop latch.
Demand_IgnoresLatch(mode) == IF mode = "drive" THEN BOOLEAN ELSE {FALSE}

Demand(mode) == IF mode = "drive" /\ ~estopLatch THEN BOOLEAN ELSE {FALSE}

StageDuty(duty, stagedNow) ==
  \/ /\ staged'  = duty
     /\ written' = duty
  \/ /\ ~duty /\ ~written
     /\ staged' = stagedNow
     /\ UNCHANGED written

BeginStep(f, why, n, mode, stagedNow) ==
  /\ Park(f, "stepLeft", why, n)
  /\ \E duty \in Demand(mode) : StageDuty(duty, stagedNow)

\* settleToRest(): at least one step, at most MaxSettle.
BeginSettle(f, why, mode, stagedNow) ==
  BeginStep(f, why, MaxSettle - 1, mode, stagedNow)

\* One turn of firePulseAndSettle(): another duty step, or the hard zero.
PulseTurn(f, fire, rest, n) ==
  IF n > 0
    THEN LET mode == IF estopLatch THEN command ELSE "drive"
         IN  command' = mode /\ BeginStep(f, fire, n - 1, mode, staged)
    ELSE /\ command' = "neutral"
         /\ BeginSettle(f, rest, "neutral", staged)

-----------------------------------------------------------------------------
(* MotionEngine::service() for a Segment or a Hold, given the Output it    *)
(* reads: it ends the command (goal, deadline, stall, wrong way, refusal), *)
(* keeps driving it, or keeps it with the kernel at neutral (a Segment     *)
(* that settles at its goal, or one about to start its second leg).        *)

Ends == live' = "none" /\ command' = "neutral"

Keeps(published, mode) ==
  /\ live \in {"seg", "hold"}
  /\ ~(live = "seg" /\ published.estopped)
  /\ mode = "drive" => ~estopLatch               \* drive() is not refused
  /\ mode = "neutral" => live = "seg"
  /\ command' = mode
  /\ UNCHANGED live

-----------------------------------------------------------------------------
(* Stops.                                                                  *)

\* MotionEngine::endMove() clears seg_ and hold_, never nudge_.
StopEngine == live' = IF live = "nudge" THEN "nudge" ELSE "none"

\* Seeded fault: the ports are written whoever holds the guard.
SoftStop_NeverStages(f) ==
  /\ command' = "neutral"
  /\ busy' = TRUE
  /\ port' = Zeroed(port)
  /\ BeginSettle(f, "stop", "neutral", FALSE)
  /\ UNCHANGED <<pendingStop, out, estopLatch, pendingOtosZero, fresh, busVars>>

\* Seeded fault: the port write is not paired with kernel.neutral().
SoftStop_Unpaired(f) ==
  /\ UNCHANGED command
  /\ IF busy
       THEN /\ pendingStop' = TRUE
            /\ UNCHANGED <<fiberVars, busy, kernelVars>>
       ELSE /\ busy' = TRUE
            /\ port' = Zeroed(port)
            /\ BeginSettle(f, "stop", command, FALSE)
            /\ UNCHANGED <<pendingStop, out>>
  /\ UNCHANGED <<estopLatch, pendingOtosZero, fresh, busVars>>

\* Rig::softStop(): engine and kernel at once; the ports at once and settled
\* when the guard is free, staged for the ticking fiber when it is not.
SoftStop(f) ==
  /\ command' = "neutral"
  /\ IF busy
       THEN /\ pendingStop' = TRUE
            /\ UNCHANGED <<fiberVars, busy, kernelVars>>
       ELSE /\ busy' = TRUE
            /\ port' = Zeroed(port)
            /\ BeginSettle(f, "stop", "neutral", FALSE)
            /\ UNCHANGED <<pendingStop, out>>
  /\ UNCHANGED <<estopLatch, pendingOtosZero, fresh, busVars>>

\* stopAll() and the endMove() shim, from a block or the wire's STOP.
Stop(f) ==
  /\ "stop" \in Ops /\ at[f] = "idle"
  /\ StopEngine
  /\ asked' = "stop"
  /\ SoftStop(f)

\* Seeded fault: the port's emergencyStop() leaves its staged duty alone.
EmergencyStop_KeepsStage(f) ==
  /\ "estop" \in Ops /\ at[f] = "idle"
  /\ StopEngine
  /\ command' = IF live \in {"seg", "hold"} THEN "neutral" ELSE command
  /\ estopLatch' = TRUE
  /\ port' = Zeroed(port)
  /\ asked' = "stop"
  /\ UNCHANGED <<fiberVars, busy, staged, written, out, rigVars, busVars>>

\* estopAll(): takes no guard and never waits.
EmergencyStop(f) ==
  /\ "estop" \in Ops /\ at[f] = "idle"
  /\ StopEngine
  /\ command' = IF live \in {"seg", "hold"} THEN "neutral" ELSE command
  /\ estopLatch' = TRUE
  /\ port' = Zeroed(port)
  /\ staged' = FALSE
  /\ asked' = "stop"
  /\ UNCHANGED <<fiberVars, busy, written, out, rigVars, busVars>>

EstopClear(f) ==
  /\ "estopClear" \in Ops /\ at[f] = "idle"
  /\ estopLatch' = FALSE
  /\ UNCHANGED <<fiberVars, busy, live, command, kernelVars, rigVars,
                 busVars, asked>>

\* Seeded fault: only the engine's commands count, not the applied duty.
LooksActive_EngineOnly == live \in {"seg", "hold"}

\* commandLooksActive(): what the watchdog (and the tick's caller) can see.
LooksActive == live \in {"seg", "hold"} \/ out.duty

\* Seeded fault: the watchdog only commands neutral, as the stop block once
\* did, and leaves the ports to a step that never comes.
WatchdogFires_NeutralOnly ==
  /\ at[Watchdog] = "idle" /\ ~fresh /\ LooksActive
  /\ StopEngine
  /\ asked' = "stop"
  /\ command' = "neutral"
  /\ UNCHANGED <<fiberVars, busy, estopLatch, kernelVars, rigVars, busVars>>

\* watchdogEntry(), the poll that finds motion nobody ticks.
WatchdogFires ==
  /\ at[Watchdog] = "idle" /\ ~fresh /\ LooksActive
  /\ StopEngine
  /\ asked' = "stop"
  /\ SoftStop(Watchdog)

-----------------------------------------------------------------------------
(* Commands.  None of them drives the kernel: service() does, on a tick.   *)

\* wheelsV(): setWheels(), driveTwist(), WHEELS_V, MOVE_V.
StartWheels(f) ==
  /\ "wheels" \in Ops /\ at[f] = "idle"
  /\ live' = "hold"
  /\ asked' = "go"
  /\ UNCHANGED <<fiberVars, busy, command, estopLatch, kernelVars, rigVars,
                 busVars>>

\* beginSegment() or beginNudge(); one without a displacement only stops.
StartGoal(f, op, kind) ==
  /\ op \in Ops /\ at[f] = "idle"
  /\ \/ live' = kind /\ UNCHANGED command
     \/ live' = "none" /\ command' = "neutral"
  /\ asked' = "go"
  /\ UNCHANGED <<fiberVars, busy, estopLatch, kernelVars, rigVars, busVars>>

StartMove(f)  == StartGoal(f, "move", "seg")
StartNudge(f) == StartGoal(f, "nudge", "nudge")

\* cfgSetRebase(): the OTOS write is left to the next tick.
Rebase(f) ==
  /\ "rebase" \in Ops /\ at[f] = "idle"
  /\ pendingOtosZero' = TRUE
  /\ UNCHANGED <<fiberVars, busy, live, command, estopLatch, kernelVars,
                 pendingStop, fresh, busVars, asked>>

-----------------------------------------------------------------------------
(* Entry points that take the guard: BusGuard::acquire() spins, a yield    *)
(* between looks, and claims the bus in the same run that sees it free.    *)

Claim(f, why) ==
  /\ busy' = TRUE
  /\ CASE why = "tick"  -> /\ BeginStep(f, "serve", 0, command, staged)
                           /\ UNCHANGED <<live, command, asked>>
       [] why = "otos"  -> /\ Park(f, "otos", "otos", 0)
                           /\ UNCHANGED <<live, command, staged, written,
                                          asked>>
       [] why = "pulse" -> /\ live' = "none"          \* cancelMove()
                           /\ asked' = "go"
                           /\ \E width \in 0..MaxPulse :
                                PulseTurn(f, "pulseFire", "pulseRest", width)
  /\ UNCHANGED <<port, out>>

Enter(f, why) ==
  /\ why \in Ops /\ at[f] = "idle"
  /\ IF busy
       THEN /\ Park(f, "wait", why, 0)
            /\ UNCHANGED <<busy, live, command, kernelVars, asked>>
       ELSE Claim(f, why)
  /\ fresh' = (fresh \/ why = "tick")         \* tickDrive() stamps lastTick
  /\ UNCHANGED <<estopLatch, pendingStop, pendingOtosZero, busVars>>

Tick(f)       == Enter(f, "tick")
OtosAccess(f) == Enter(f, "otos")
PulseWheels(f) == Enter(f, "pulse")

Acquire(f) ==
  /\ at[f] = "wait" /\ ~busy
  /\ Claim(f, aim[f])
  /\ UNCHANGED <<estopLatch, rigVars, busVars>>

\* The end of an OTOS transaction, the deferred zero of a rebase included.
OtosDone(f) ==
  /\ at[f] = "otos"
  /\ busy' = FALSE
  /\ GoIdle(f)
  /\ UNCHANGED <<live, command, estopLatch, kernelVars, rigVars, busVars,
                 asked>>

-----------------------------------------------------------------------------
(* kernel.step() between its yields.                                       *)

LeftTick(f) ==
  /\ at[f] = "stepLeft"
  /\ at' = [at EXCEPT ![f] = "stepRight"]
  /\ port' \in Ticked("left")
  /\ UNCHANGED <<aim, remaining, busy, live, command, estopLatch, staged,
                 written, out, rigVars, busVars, asked>>

\* Seeded fault: Output is published before the right wheel's tick.
EndStep_PublishesEarly(f, p) ==
  /\ at[f] = "stepRight"
  /\ p \in Ticked("right")
  /\ out' = [duty |-> Running(port), estopped |-> estopLatch]

\* The right wheel's tick and publishOutput(); p is what the ports then run.
EndStep(f, p) ==
  /\ at[f] = "stepRight"
  /\ p \in Ticked("right")
  /\ out' = [duty |-> Running(p), estopped |-> estopLatch]

\* The end of a tick's guarded window, with the ports at p: deliver a staged
\* stop and settle again, or release the guard and write a deferred zero.
Release(f) ==
  /\ IF pendingOtosZero
       THEN UNCHANGED busy /\ Park(f, "otos", "zero", 0)
       ELSE busy' = FALSE /\ GoIdle(f)
  /\ pendingOtosZero' = FALSE

\* Seeded fault: the staged stop is taken for delivered and nothing written.
Deliver_Forgets(f, p, mode) ==
  /\ Release(f)
  /\ port' = p
  /\ pendingStop' = FALSE
  /\ UNCHANGED <<staged, written>>

Deliver(f, p, mode) ==
  IF pendingStop
    THEN /\ pendingStop' = FALSE
         /\ port' = Zeroed(p)
         /\ BeginSettle(f, "staged", mode, FALSE)
         /\ UNCHANGED <<busy, pendingOtosZero>>
    ELSE /\ Release(f)
         /\ port' = p
         /\ UNCHANGED <<pendingStop, staged, written>>

\* The tick's own step, service(), and what they decide: settle a command
\* that ended, pulse a nudge inside service(), or go on to deliver.
ServeTick(f) ==
  /\ aim[f] = "serve"
  /\ \E p \in Ticked("right") :
       /\ EndStep(f, p)
       /\ \/ /\ live = "none"
             /\ UNCHANGED <<live, command>>
             /\ Deliver(f, p, command)
          \/ /\ live \in {"seg", "hold"}
             /\ Ends
             /\ port' = p
             /\ BeginSettle(f, "ended", "neutral", staged)
             /\ UNCHANGED <<busy, pendingStop, pendingOtosZero>>
          \/ \E mode \in {"drive", "neutral"} :
               /\ Keeps(out', mode)
               /\ Deliver(f, p, mode)
          \/ /\ live = "nudge"
             /\ Ends
             /\ Deliver(f, p, "neutral")
          \/ /\ live = "nudge" /\ ~out'.estopped          \* waits for rest
             /\ UNCHANGED <<live, command>>
             /\ Deliver(f, p, command)
          \/ /\ live = "nudge" /\ ~out'.estopped
             /\ \E width \in 0..MaxPulse :
                  PulseTurn(f, "nudgeFire", "nudgeRest", width)
             /\ port' = p
             /\ UNCHANGED <<live, busy, pendingStop, pendingOtosZero>>
  /\ UNCHANGED <<estopLatch, fresh, busVars, asked>>

\* Seeded fault: softStop() returns from its settle without the release.
Settled_KeepsGuard(f, p) ==
  \/ /\ aim[f] \in {"ended", "nudgeRest"}
     /\ Deliver(f, p, command)
  \/ /\ aim[f] = "staged"
     /\ Release(f)
     /\ port' = p
     /\ UNCHANGED <<pendingStop, staged, written>>
  \/ /\ aim[f] \in {"stop", "pulseRest", "pollRest"}
     /\ GoIdle(f)
     /\ port' = p
     /\ UNCHANGED <<busy, pendingStop, pendingOtosZero, staged, written>>

\* A step of settleToRest(); which of its callers goes on is in aim.
Settled(f, p) ==
  \/ /\ aim[f] \in {"ended", "nudgeRest"}
     /\ Deliver(f, p, command)
  \/ /\ aim[f] = "staged"
     /\ Release(f)
     /\ port' = p
     /\ UNCHANGED <<pendingStop, staged, written>>
  \/ /\ aim[f] \in {"stop", "pulseRest", "pollRest"}
     /\ busy' = IF aim[f] = "pollRest" THEN busy ELSE FALSE
     /\ GoIdle(f)
     /\ port' = p
     /\ UNCHANGED <<pendingStop, pendingOtosZero, staged, written>>

\* Seeded fault: the settle loop runs one step too many.
MoreSteps_OneTooMany(f) == remaining[f] >= 0

MoreSteps(f) == remaining[f] > 0

SettleStep(f) ==
  /\ aim[f] \in Settling
  /\ \E p \in Ticked("right") :
       /\ EndStep(f, p)
       /\ \/ Settled(f, p)                       \* both wheels at rest
          \/ /\ MoreSteps(f)
             /\ BeginStep(f, aim[f], remaining[f] - 1, command, staged)
             /\ port' = p
             /\ UNCHANGED <<busy, pendingStop, pendingOtosZero>>
  /\ UNCHANGED <<live, command, estopLatch, fresh, busVars, asked>>

Rest == [nudgeFire |-> "nudgeRest", pulseFire |-> "pulseRest",
         pollFire  |-> "pollRest"]

PulseStep(f) ==
  /\ aim[f] \in Pulsing
  /\ \E p \in Ticked("right") :
       /\ EndStep(f, p)
       /\ port' = p
       /\ PulseTurn(f, aim[f], Rest[aim[f]], remaining[f])
  /\ UNCHANGED <<live, busy, estopLatch, rigVars, busVars, asked>>

-----------------------------------------------------------------------------
(* updateMove(), the polling block's way to service() a move: no step, no  *)
(* guard, and a nudge's pulse runs right here.                             *)

Poll(f) ==
  /\ "poll" \in Ops /\ at[f] = "idle"
  /\ \/ /\ live = "seg"
        /\ live' = "none"
        /\ asked' = "stop"
        /\ SoftStop(f)
     \/ /\ \/ live = "hold" /\ Ends
           \/ live = "nudge" /\ Ends
           \/ \E mode \in {"drive", "neutral"} : Keeps(out, mode)
        /\ UNCHANGED <<fiberVars, busy, estopLatch, kernelVars, rigVars,
                       busVars, asked>>
     \/ /\ live = "nudge" /\ ~out.estopped
        /\ \E width \in 0..MaxPulse :
             PulseTurn(f, "pollFire", "pollRest", width)
        /\ UNCHANGED <<busy, live, estopLatch, port, out, rigVars, busVars,
                       asked>>

-----------------------------------------------------------------------------
(* Time and the bricks.                                                    *)

\* kWatchdogTimeout passes without a tick.
Age ==
  /\ fresh
  /\ fresh' = FALSE
  /\ UNCHANGED <<fiberVars, busy, live, command, estopLatch, kernelVars,
                 pendingStop, pendingOtosZero, busVars, asked>>

Fault(w) ==
  /\ faults < MaxFaults /\ w \notin deaf
  /\ faults' = faults + 1
  /\ deaf' = deaf \cup {w}
  /\ UNCHANGED <<fiberVars, busy, live, command, estopLatch, kernelVars,
                 rigVars, asked>>

Heal(w) ==
  /\ w \in deaf
  /\ deaf' = deaf \ {w}
  /\ UNCHANGED <<fiberVars, busy, live, command, estopLatch, kernelVars,
                 rigVars, faults, asked>>

-----------------------------------------------------------------------------

Init ==
  /\ at = [f \in Actors |-> "idle"]
  /\ aim = [f \in Actors |-> "none"]
  /\ remaining = [f \in Actors |-> 0]
  /\ busy = FALSE
  /\ live = "none" /\ command = "neutral" /\ estopLatch = FALSE
  /\ staged = FALSE /\ written = FALSE
  /\ port = [w \in Wheels |-> FALSE]
  /\ out = [duty |-> FALSE, estopped |-> FALSE]
  /\ pendingStop = FALSE /\ pendingOtosZero = FALSE /\ fresh = FALSE
  /\ deaf = {} /\ faults = 0
  /\ asked = "stop"

\* What a fiber parked at a yield does when it is scheduled again.
Resume(f) == \/ LeftTick(f) \/ ServeTick(f) \/ SettleStep(f) \/ PulseStep(f)
             \/ OtosDone(f) \/ Acquire(f)

Call(f) == \/ Stop(f) \/ EmergencyStop(f) \/ EstopClear(f)
           \/ StartWheels(f) \/ StartMove(f) \/ StartNudge(f) \/ Rebase(f)
           \/ Tick(f) \/ OtosAccess(f) \/ PulseWheels(f) \/ Poll(f)

Next == \/ \E f \in Actors : Resume(f)
        \/ \E f \in Fibers : Call(f)
        \/ WatchdogFires \/ Age
        \/ \E w \in Wheels : Fault(w) \/ Heal(w)

Spec == Init /\ [][Next]_vars

\* The cooperative scheduler runs every parked fiber again, the watchdog's
\* poll recurs, time passes, and a brick that went deaf recovers.  Nothing
\* obliges a user's fiber to call anything.
Fairness == /\ \A f \in Actors : WF_vars(Resume(f))
            /\ WF_vars(WatchdogFires)
            /\ WF_vars(Age)
            /\ \A w \in Wheels : WF_vars(Heal(w))

FairSpec == Spec /\ Fairness

-----------------------------------------------------------------------------
(* Properties.                                                             *)

Labels == {"idle", "wait", "otos", "stepLeft", "stepRight"}
Aims   == {"none", "zero"} \cup Waiting \cup Stepping

\* What a fiber can be doing at each place it can be parked.
Fits(where, why) ==
  \/ where = "idle" /\ why = "none"
  \/ where = "wait" /\ why \in Waiting
  \/ where = "otos" /\ why \in {"otos", "zero"}
  \/ where \in {"stepLeft", "stepRight"} /\ why \in Stepping

FibersOK ==
  /\ at \in [Actors -> Labels]
  /\ aim \in [Actors -> Aims]
  /\ remaining \in [Actors -> Nat]
  /\ \A f \in Actors : Fits(at[f], aim[f])

\* Every variable has its type, and every fiber's aim fits where it is parked.
TypeOK ==
  /\ FibersOK
  /\ busy \in BOOLEAN
  /\ live \in {"none", "seg", "hold", "nudge"}
  /\ command \in {"neutral", "drive"}
  /\ estopLatch \in BOOLEAN /\ staged \in BOOLEAN /\ written \in BOOLEAN
  /\ port \in [Wheels -> BOOLEAN]
  /\ out \in [duty : BOOLEAN, estopped : BOOLEAN]
  /\ pendingStop \in BOOLEAN /\ pendingOtosZero \in BOOLEAN
  /\ fresh \in BOOLEAN
  /\ deaf \in SUBSET Wheels /\ faults \in 0..MaxFaults
  /\ asked \in {"go", "stop"}

\* bus_guard.h: "The bus has exactly one owner at a time."  Whenever a fiber
\* can run, the guard is set exactly when one fiber is parked inside a bus
\* transaction, and no two are, the two loops updateMove() runs included.
BusExclusion ==
  /\ \A f, g \in Actors :
       /\ at[f] \in {"otos", "stepLeft", "stepRight"}
       /\ at[g] \in {"otos", "stepLeft", "stepRight"}
       => f = g
  /\ busy <=> \E f \in Actors : OnBus(f)

\* Under the e-stop latch nothing is staged for the motors, not even by a
\* kernel step that was parked at its settle sleep when the latch was set.
EstopStagesNothing == estopLatch => ~staged

\* No step of any fiber turns a wheel on while the e-stop latch is set.
EstopNeverDrives ==
  [][estopLatch' => \A w \in Wheels : port'[w] => port[w]]_vars

\* commandLooksActive() is an honest proxy: a wheel that is on shows in the
\* published Output, unless a step that will publish it is under way.  It is
\* why the watchdog cannot miss an abandoned wheel.
WatchdogSeesDuty ==
  Running(port) => out.duty \/ \E f \in Actors : at[f] = "stepRight"

\* Once a stop was the last thing asked for, the tick that was in flight
\* cannot re-arm what it ended: no engine command, and the kernel neutral.
StopSticks == asked = "stop" => live = "none" /\ command = "neutral"

\* A stop reaches the wheels: with the guard free and no stop left staged,
\* the wheels are off after a stop.
StopReachesWheels ==
  asked = "stop" /\ ~busy /\ ~pendingStop /\ faults = 0 => ~Running(port)

\* shims.cpp: "the robot only moves while something ticks".  When ticking
\* stops for good, the wheels stop for good.
AbandonedStops == <>[]~fresh => <>[]~Running(port)

\* A stop is not lost: unless a newer command supersedes it, the wheels stop,
\* whether at once, by a tick's delivery or because the watchdog asks again.
StopIsNotLost == asked = "stop" ~> ~Running(port) \/ asked = "go"

\* An e-stop that a deaf brick missed is repeated until the wheels are off,
\* or the latch is cleared.
EstopReachesWheels == estopLatch ~> ~Running(port) \/ ~estopLatch

\* Nobody keeps the guard: every transaction and settle loop ends.
GuardFreed == busy ~> ~busy
=============================================================================
