-------------------------- MODULE TickEngine_proofs --------------------------
(***************************************************************************)
(* Proofs about TickEngine for every set of fibers, every program and      *)
(* every bound.                                                            *)
(***************************************************************************)
EXTENDS TickEngine, TLAPS

(* What the helpers do to the fibers and to the ports.                     *)

LEMMA ParkType ==
  ASSUME FibersOK, NEW f \in Actors, NEW where \in Labels, NEW why \in Aims,
         NEW n \in Nat, Fits(where, why), Park(f, where, why, n)
  PROVE  FibersOK'
BY DEF FibersOK, Park, Fits

LEMMA BeginStepType ==
  ASSUME TypeOK, NEW f \in Actors, NEW why \in Stepping, NEW n \in Nat,
         NEW mode, NEW stagedNow \in BOOLEAN,
         BeginStep(f, why, n, mode, stagedNow)
  PROVE  FibersOK' /\ staged' \in BOOLEAN /\ written' \in BOOLEAN
<1>1. FibersOK'
  BY ParkType DEF TypeOK, BeginStep, Fits, Labels, Aims
<1>2. staged' \in BOOLEAN /\ written' \in BOOLEAN
  BY DEF TypeOK, BeginStep, StageDuty, Demand
<1> QED BY <1>1, <1>2

LEMMA BeginSettleType ==
  ASSUME TypeOK, NEW f \in Actors, NEW why \in Stepping,
         NEW mode, NEW stagedNow \in BOOLEAN,
         BeginSettle(f, why, mode, stagedNow)
  PROVE  FibersOK' /\ staged' \in BOOLEAN /\ written' \in BOOLEAN
<1>1. MaxSettle - 1 \in Nat
  BY BoundsAssumption
<1> QED BY <1>1, BeginStepType DEF BeginSettle

LEMMA PulseTurnType ==
  ASSUME TypeOK, NEW f \in Actors, NEW fire \in Stepping,
         NEW rest \in Stepping, NEW n \in Nat,
         PulseTurn(f, fire, rest, n)
  PROVE  /\ FibersOK' /\ staged' \in BOOLEAN /\ written' \in BOOLEAN
         /\ command' \in {"neutral", "drive"}
<1>1. CASE n > 0
  <2> DEFINE mode == IF estopLatch THEN command ELSE "drive"
  <2>1. n - 1 \in Nat
    BY <1>1
  <2>2. command' = mode /\ BeginStep(f, fire, n - 1, mode, staged)
    BY <1>1 DEF PulseTurn
  <2>3. staged \in BOOLEAN /\ command \in {"neutral", "drive"}
    BY DEF TypeOK
  <2>4. command' \in {"neutral", "drive"}
    BY <2>2, <2>3
  <2> HIDE DEF mode
  <2>5. QED BY <2>1, <2>2, <2>3, <2>4, BeginStepType
<1>2. CASE ~(n > 0)
  <2>1. command' = "neutral" /\ BeginSettle(f, rest, "neutral", staged)
    BY <1>2 DEF PulseTurn
  <2>2. staged \in BOOLEAN
    BY DEF TypeOK
  <2> QED BY <2>1, <2>2, BeginSettleType
<1> QED BY <1>1, <1>2

LEMMA GoIdleType ==
  ASSUME FibersOK, NEW f \in Actors, GoIdle(f)
  PROVE  FibersOK'
BY ParkType DEF GoIdle, Fits, Labels, Aims

LEMMA PortTypes ==
  ASSUME TypeOK
  PROVE  /\ \A p \in [Wheels -> BOOLEAN] : Zeroed(p) \in [Wheels -> BOOLEAN]
         /\ \A w \in Wheels : Ticked(w) \subseteq [Wheels -> BOOLEAN]
         /\ \A p : Running(p) \in BOOLEAN
<1>1. \A p \in [Wheels -> BOOLEAN] : Zeroed(p) \in [Wheels -> BOOLEAN]
  BY DEF Zeroed
<1>2. ASSUME NEW w \in Wheels
      PROVE  Ticked(w) \subseteq [Wheels -> BOOLEAN]
  <2>1. port \in [Wheels -> BOOLEAN]
    BY DEF TypeOK
  <2>2. Shaped(w) \subseteq BOOLEAN
    BY <2>1 DEF Shaped
  <2> QED BY <2>1, <2>2 DEF Ticked
<1>3. \A p : Running(p) \in BOOLEAN
  BY DEF Running
<1> QED BY <1>1, <1>2, <1>3

LEMMA StillType ==
  ASSUME FibersOK, UNCHANGED fiberVars
  PROVE  FibersOK'
BY DEF FibersOK, fiberVars

-----------------------------------------------------------------------------
(* Type correctness, action by action.                                     *)

LEMMA SoftStopType ==
  ASSUME TypeOK, NEW f \in Actors, SoftStop(f),
         live' \in {"none", "seg", "hold", "nudge"}, asked' \in {"go", "stop"}
  PROVE  TypeOK'
<1>1. CASE busy
  BY <1>1 DEF TypeOK, FibersOK, SoftStop, fiberVars, kernelVars, busVars
<1>2. CASE ~busy
  <2>1. /\ busy' = TRUE /\ port' = Zeroed(port) /\ command' = "neutral"
        /\ BeginSettle(f, "stop", "neutral", FALSE)
        /\ UNCHANGED <<pendingStop, out, estopLatch, pendingOtosZero, fresh,
                       deaf, faults>>
    BY <1>2 DEF SoftStop, busVars
  <2>2. FibersOK' /\ staged' \in BOOLEAN /\ written' \in BOOLEAN
    BY <2>1, BeginSettleType DEF Stepping, Settling
  <2>3. port' \in [Wheels -> BOOLEAN]
    BY <2>1, PortTypes DEF TypeOK
  <2> QED BY <2>1, <2>2, <2>3 DEF TypeOK
<1> QED BY <1>1, <1>2

LEMMA ReleaseType ==
  ASSUME TypeOK, NEW f \in Actors, Release(f)
  PROVE  FibersOK' /\ busy' \in BOOLEAN /\ pendingOtosZero' \in BOOLEAN
<1>1. CASE pendingOtosZero
  BY <1>1, ParkType DEF TypeOK, Release, Fits, Labels, Aims
<1>2. CASE ~pendingOtosZero
  BY <1>2, GoIdleType DEF TypeOK, Release
<1> QED BY <1>1, <1>2

LEMMA DeliverType ==
  ASSUME TypeOK, NEW f \in Actors, NEW p \in [Wheels -> BOOLEAN], NEW mode,
         Deliver(f, p, mode)
  PROVE  /\ FibersOK' /\ staged' \in BOOLEAN /\ written' \in BOOLEAN
         /\ port' \in [Wheels -> BOOLEAN]
         /\ pendingStop' \in BOOLEAN /\ pendingOtosZero' \in BOOLEAN
         /\ busy' \in BOOLEAN
<1>1. CASE pendingStop
  <2>1. /\ pendingStop' = FALSE /\ port' = Zeroed(p)
        /\ BeginSettle(f, "staged", mode, FALSE)
        /\ UNCHANGED <<busy, pendingOtosZero>>
    BY <1>1 DEF Deliver
  <2> QED BY <2>1, BeginSettleType, PortTypes DEF TypeOK, Stepping, Settling
<1>2. CASE ~pendingStop
  BY <1>2, ReleaseType DEF Deliver, TypeOK
<1> QED BY <1>1, <1>2

LEMMA EndStepType ==
  ASSUME TypeOK, NEW f \in Actors, NEW p \in Ticked("right"), EndStep(f, p)
  PROVE  /\ p \in [Wheels -> BOOLEAN]
         /\ out' \in [duty : BOOLEAN, estopped : BOOLEAN]
BY PortTypes DEF EndStep, TypeOK, Wheels

LEMMA ClaimType ==
  ASSUME TypeOK, NEW f \in Actors, NEW why \in Waiting, Claim(f, why)
  PROVE  /\ FibersOK' /\ busy' \in BOOLEAN
         /\ live' \in {"none", "seg", "hold", "nudge"}
         /\ command' \in {"neutral", "drive"}
         /\ staged' \in BOOLEAN /\ written' \in BOOLEAN
         /\ port' \in [Wheels -> BOOLEAN]
         /\ out' \in [duty : BOOLEAN, estopped : BOOLEAN]
         /\ asked' \in {"go", "stop"}
<1>1. CASE why = "tick"
  <2>1. /\ BeginStep(f, "serve", 0, command, staged)
        /\ UNCHANGED <<live, command, asked, port, out>> /\ busy' = TRUE
    BY <1>1 DEF Claim
  <2> QED BY <2>1, BeginStepType DEF TypeOK, Stepping
<1>2. CASE why = "otos"
  <2>1. /\ Park(f, "otos", "otos", 0)
        /\ UNCHANGED <<live, command, staged, written, asked, port, out>>
        /\ busy' = TRUE
    BY <1>2 DEF Claim
  <2> QED BY <2>1, ParkType DEF TypeOK, Fits, Labels, Aims, Waiting
<1>3. CASE why = "pulse"
  <2>1. /\ live' = "none" /\ asked' = "go" /\ busy' = TRUE
        /\ UNCHANGED <<port, out>>
        /\ \E width \in 0..MaxPulse :
             PulseTurn(f, "pulseFire", "pulseRest", width)
    BY <1>3 DEF Claim
  <2> QED BY <2>1, PulseTurnType, BoundsAssumption
          DEF TypeOK, Stepping, Settling, Pulsing
<1> QED BY <1>1, <1>2, <1>3 DEF Waiting

LEMMA CallType ==
  ASSUME TypeOK, NEW f \in Fibers, Call(f)
  PROVE  TypeOK'
<1> f \in Actors
  BY DEF Actors
<1>1. CASE Stop(f)
  BY <1>1, SoftStopType DEF Stop, StopEngine
<1>2. CASE EmergencyStop(f)
  <2>1. /\ estopLatch' = TRUE /\ staged' = FALSE /\ asked' = "stop"
        /\ UNCHANGED <<busy, written, out, pendingStop, pendingOtosZero,
                       fresh, deaf, faults>>
    BY <1>2 DEF EmergencyStop, rigVars, busVars
  <2>2. port' \in [Wheels -> BOOLEAN]
    BY <1>2, PortTypes DEF EmergencyStop, TypeOK
  <2>3. /\ live' \in {"none", "seg", "hold", "nudge"}
        /\ command' \in {"neutral", "drive"}
    BY <1>2 DEF EmergencyStop, StopEngine, TypeOK
  <2>4. FibersOK'
    BY <1>2, StillType DEF EmergencyStop, TypeOK
  <2> QED BY <2>1, <2>2, <2>3, <2>4 DEF TypeOK
<1>3. CASE EstopClear(f) \/ StartWheels(f) \/ Rebase(f)
  <2>1. /\ UNCHANGED <<at, aim, remaining, busy, command>>
        /\ UNCHANGED <<staged, written, port, out, pendingStop, fresh, deaf,
                       faults>>
    BY <1>3 DEF EstopClear, StartWheels, Rebase, fiberVars, kernelVars,
                rigVars, busVars
  <2>2. /\ estopLatch' \in BOOLEAN /\ pendingOtosZero' \in BOOLEAN
        /\ live' \in {"none", "seg", "hold", "nudge"}
        /\ asked' \in {"go", "stop"}
    BY <1>3 DEF EstopClear, StartWheels, Rebase, TypeOK, rigVars
  <2>3. FibersOK'
    BY <2>1, StillType DEF TypeOK, fiberVars
  <2> QED BY <2>1, <2>2, <2>3 DEF TypeOK
<1>4. CASE StartMove(f) \/ StartNudge(f)
  BY <1>4 DEF TypeOK, FibersOK, StartMove, StartNudge, StartGoal, fiberVars,
              kernelVars, rigVars, busVars
<1>5. CASE Tick(f) \/ OtosAccess(f) \/ PulseWheels(f)
  <2>1. PICK why \in Waiting : Enter(f, why)
    BY <1>5 DEF Tick, OtosAccess, PulseWheels, Waiting
  <2>2. CASE busy
    <3>1. Park(f, "wait", why, 0)
      BY <2>1, <2>2 DEF Enter
    <3>2. FibersOK'
      BY <3>1, ParkType DEF TypeOK, Fits, Labels, Aims
    <3> QED BY <2>1, <2>2, <3>2 DEF TypeOK, Enter, kernelVars, busVars
  <2>3. CASE ~busy
    BY <2>1, <2>3, ClaimType DEF Enter, TypeOK, busVars
  <2> QED BY <2>2, <2>3
<1>6. CASE Poll(f)
  <2>1. CASE live = "seg" /\ live' = "none" /\ asked' = "stop" /\ SoftStop(f)
    BY <2>1, SoftStopType
  <2>2. CASE /\ \/ live = "hold" /\ Ends
                \/ live = "nudge" /\ Ends
                \/ \E mode \in {"drive", "neutral"} : Keeps(out, mode)
             /\ UNCHANGED <<fiberVars, busy, estopLatch, kernelVars, rigVars,
                            busVars, asked>>
    BY <2>2 DEF TypeOK, FibersOK, Ends, Keeps, fiberVars, kernelVars,
                rigVars, busVars
  <2>3. CASE /\ live = "nudge" /\ ~out.estopped
             /\ \E width \in 0..MaxPulse :
                  PulseTurn(f, "pollFire", "pollRest", width)
             /\ UNCHANGED <<busy, live, estopLatch, port, out, rigVars,
                            busVars, asked>>
    BY <2>3, PulseTurnType, BoundsAssumption
       DEF TypeOK, Stepping, Settling, Pulsing, rigVars, busVars
  <2> QED BY <1>6, <2>1, <2>2, <2>3 DEF Poll
<1> QED BY <1>1, <1>2, <1>3, <1>4, <1>5, <1>6 DEF Call

LEMMA ResumeType ==
  ASSUME TypeOK, NEW f \in Actors, Resume(f)
  PROVE  TypeOK'
<1>1. CASE LeftTick(f)
  <2>1. FibersOK'
    BY <1>1 DEF LeftTick, TypeOK, FibersOK, Fits, Labels
  <2>2. port' \in [Wheels -> BOOLEAN]
    BY <1>1, PortTypes DEF LeftTick, Wheels
  <2> QED BY <1>1, <2>1, <2>2 DEF LeftTick, TypeOK, rigVars, busVars
<1>2. CASE ServeTick(f)
  <2>1. PICK p \in Ticked("right") :
          /\ EndStep(f, p)
          /\ \/ /\ live = "none"
                /\ UNCHANGED <<live, command>>
                /\ Deliver(f, p, command)
             \/ /\ live \in {"seg", "hold"}
                /\ Ends
                /\ port' = p
                /\ BeginSettle(f, "ended", "neutral", staged)
                /\ UNCHANGED <<busy, pendingStop, pendingOtosZero>>
             \/ \E mode \in {"drive", "neutral"} :
                  /\ Keeps(out', mode)
                  /\ Deliver(f, p, mode)
             \/ /\ live = "nudge"
                /\ Ends
                /\ Deliver(f, p, "neutral")
             \/ /\ live = "nudge" /\ ~out'.estopped
                /\ UNCHANGED <<live, command>>
                /\ Deliver(f, p, command)
             \/ /\ live = "nudge" /\ ~out'.estopped
                /\ \E width \in 0..MaxPulse :
                     PulseTurn(f, "nudgeFire", "nudgeRest", width)
                /\ port' = p
                /\ UNCHANGED <<live, busy, pendingStop, pendingOtosZero>>
    BY <1>2 DEF ServeTick
  <2>2. /\ p \in [Wheels -> BOOLEAN]
        /\ out' \in [duty : BOOLEAN, estopped : BOOLEAN]
    BY <2>1, EndStepType
  <2>3. /\ UNCHANGED <<estopLatch, fresh, deaf, faults, asked>>
    BY <1>2 DEF ServeTick, busVars
  <2>4. ASSUME NEW mode, Deliver(f, p, mode),
               live' \in {"none", "seg", "hold", "nudge"},
               command' \in {"neutral", "drive"}
        PROVE  TypeOK'
    BY <2>2, <2>3, <2>4, DeliverType DEF TypeOK
  <2>5. CASE /\ live = "none"
             /\ UNCHANGED <<live, command>>
             /\ Deliver(f, p, command)
    BY <2>4, <2>5 DEF TypeOK
  <2>6. CASE /\ live \in {"seg", "hold"}
             /\ Ends
             /\ port' = p
             /\ BeginSettle(f, "ended", "neutral", staged)
             /\ UNCHANGED <<busy, pendingStop, pendingOtosZero>>
    BY <2>2, <2>3, <2>6, BeginSettleType
       DEF TypeOK, Ends, Stepping, Settling
  <2>7. CASE \E mode \in {"drive", "neutral"} :
               /\ Keeps(out', mode)
               /\ Deliver(f, p, mode)
    BY <2>4, <2>7 DEF TypeOK, Keeps
  <2>8. CASE /\ live = "nudge"
             /\ Ends
             /\ Deliver(f, p, "neutral")
    BY <2>4, <2>8 DEF Ends
  <2>9. CASE /\ live = "nudge" /\ ~out'.estopped
             /\ UNCHANGED <<live, command>>
             /\ Deliver(f, p, command)
    BY <2>4, <2>9 DEF TypeOK
  <2>10. CASE /\ live = "nudge" /\ ~out'.estopped
              /\ \E width \in 0..MaxPulse :
                   PulseTurn(f, "nudgeFire", "nudgeRest", width)
              /\ port' = p
              /\ UNCHANGED <<live, busy, pendingStop, pendingOtosZero>>
    BY <2>2, <2>3, <2>10, PulseTurnType, BoundsAssumption
       DEF TypeOK, Stepping, Settling, Pulsing
  <2> QED BY <2>1, <2>5, <2>6, <2>7, <2>8, <2>9, <2>10
<1>3. CASE SettleStep(f)
  <2>1. PICK p \in Ticked("right") :
          /\ EndStep(f, p)
          /\ \/ Settled(f, p)
             \/ /\ remaining[f] > 0
                /\ BeginStep(f, aim[f], remaining[f] - 1, command, staged)
                /\ port' = p
                /\ UNCHANGED <<busy, pendingStop, pendingOtosZero>>
    BY <1>3 DEF SettleStep, MoreSteps
  <2>2. /\ p \in [Wheels -> BOOLEAN]
        /\ out' \in [duty : BOOLEAN, estopped : BOOLEAN]
    BY <2>1, EndStepType
  <2>3. /\ UNCHANGED <<live, command, estopLatch, fresh, deaf, faults, asked>>
        /\ aim[f] \in Settling
    BY <1>3 DEF SettleStep, busVars
  <2>4. CASE Settled(f, p)
    <3>1. CASE aim[f] \in {"ended", "nudgeRest"} /\ Deliver(f, p, command)
      BY <2>2, <2>3, <3>1, DeliverType DEF TypeOK
    <3>2. CASE /\ aim[f] = "staged" /\ Release(f) /\ port' = p
               /\ UNCHANGED <<pendingStop, staged, written>>
      BY <2>2, <2>3, <3>2, ReleaseType DEF TypeOK
    <3>3. CASE /\ aim[f] \in {"stop", "pulseRest", "pollRest"}
               /\ busy' = (IF aim[f] = "pollRest" THEN busy ELSE FALSE)
               /\ GoIdle(f) /\ port' = p
               /\ UNCHANGED <<pendingStop, pendingOtosZero, staged, written>>
      <4>1. FibersOK' /\ busy' \in BOOLEAN
        BY <3>3, GoIdleType DEF TypeOK
      <4> QED BY <2>2, <2>3, <3>3, <4>1 DEF TypeOK
    <3> QED BY <2>4, <3>1, <3>2, <3>3 DEF Settled
  <2>5. CASE /\ remaining[f] > 0
             /\ BeginStep(f, aim[f], remaining[f] - 1, command, staged)
             /\ port' = p
             /\ UNCHANGED <<busy, pendingStop, pendingOtosZero>>
    <3>1. remaining[f] - 1 \in Nat /\ aim[f] \in Stepping
      BY <2>3, <2>5 DEF TypeOK, FibersOK, Stepping
    <3>2. FibersOK' /\ staged' \in BOOLEAN /\ written' \in BOOLEAN
      BY <2>5, <3>1, BeginStepType DEF TypeOK
    <3> QED BY <2>2, <2>3, <2>5, <3>2 DEF TypeOK
  <2> QED BY <2>1, <2>4, <2>5
<1>4. CASE PulseStep(f)
  <2>1. PICK p \in Ticked("right") :
          /\ EndStep(f, p)
          /\ port' = p
          /\ PulseTurn(f, aim[f], Rest[aim[f]], remaining[f])
    BY <1>4 DEF PulseStep
  <2>2. /\ p \in [Wheels -> BOOLEAN]
        /\ out' \in [duty : BOOLEAN, estopped : BOOLEAN]
    BY <2>1, EndStepType
  <2>3. /\ UNCHANGED <<live, busy, estopLatch, pendingStop, pendingOtosZero,
                       fresh, deaf, faults, asked>>
        /\ aim[f] \in Pulsing
    BY <1>4 DEF PulseStep, rigVars, busVars
  <2>4. /\ remaining[f] \in Nat
        /\ aim[f] \in Stepping /\ Rest[aim[f]] \in Stepping
    BY <2>3 DEF TypeOK, FibersOK, Rest, Pulsing, Settling, Stepping
  <2>5. /\ FibersOK' /\ staged' \in BOOLEAN /\ written' \in BOOLEAN
        /\ command' \in {"neutral", "drive"}
    BY <2>1, <2>4, PulseTurnType
  <2> QED BY <2>1, <2>2, <2>3, <2>5 DEF TypeOK
<1>5. CASE OtosDone(f)
  <2>1. FibersOK' /\ busy' \in BOOLEAN
    BY <1>5, GoIdleType DEF OtosDone, TypeOK
  <2>2. UNCHANGED <<live, command, estopLatch, staged, written, port, out,
                    pendingStop, pendingOtosZero, fresh, deaf, faults, asked>>
    BY <1>5 DEF OtosDone, kernelVars, rigVars, busVars
  <2> QED BY <2>1, <2>2 DEF TypeOK
<1>6. CASE Acquire(f)
  <2>1. aim[f] \in Waiting
    BY <1>6 DEF Acquire, TypeOK, FibersOK, Fits
  <2> QED BY <1>6, <2>1, ClaimType DEF Acquire, TypeOK, rigVars, busVars
<1> QED BY <1>1, <1>2, <1>3, <1>4, <1>5, <1>6 DEF Resume

LEMMA RestType ==
  ASSUME TypeOK, \/ WatchdogFires \/ Age
                 \/ \E w \in Wheels : Fault(w) \/ Heal(w)
                 \/ UNCHANGED vars
  PROVE  TypeOK'
<1>1. CASE WatchdogFires
  BY <1>1, SoftStopType DEF WatchdogFires, StopEngine, Actors
<1>2. CASE Age
  <2>1. /\ fresh' = FALSE
        /\ UNCHANGED <<at, aim, remaining, busy, live, command, estopLatch>>
        /\ UNCHANGED <<staged, written, port, out, pendingStop,
                       pendingOtosZero, deaf, faults, asked>>
    BY <1>2 DEF Age, fiberVars, kernelVars, busVars
  <2>2. FibersOK'
    BY <2>1, StillType DEF TypeOK, fiberVars
  <2>3. fresh' \in BOOLEAN
    BY <2>1
  <2> QED BY <2>1, <2>2, <2>3 DEF TypeOK
<1>3. ASSUME NEW w \in Wheels, Fault(w)
      PROVE  TypeOK'
  <2>1. /\ deaf' = deaf \cup {w} /\ faults' = faults + 1
        /\ faults < MaxFaults
        /\ UNCHANGED <<at, aim, remaining, busy, live, command, estopLatch>>
        /\ UNCHANGED <<staged, written, port, out, pendingStop,
                       pendingOtosZero, fresh, asked>>
    BY <1>3 DEF Fault, fiberVars, kernelVars, rigVars
  <2>2. FibersOK'
    BY <2>1, StillType DEF TypeOK, fiberVars
  <2>3. deaf' \in SUBSET Wheels /\ faults' \in 0..MaxFaults
    BY <1>3, <2>1, BoundsAssumption DEF TypeOK
  <2> QED BY <2>1, <2>2, <2>3 DEF TypeOK
<1>4. ASSUME NEW w \in Wheels, Heal(w)
      PROVE  TypeOK'
  <2>1. /\ deaf' = deaf \ {w}
        /\ UNCHANGED <<at, aim, remaining, busy, live, command, estopLatch>>
        /\ UNCHANGED <<staged, written, port, out, pendingStop,
                       pendingOtosZero, fresh, faults, asked>>
    BY <1>4 DEF Heal, fiberVars, kernelVars, rigVars
  <2>2. FibersOK'
    BY <2>1, StillType DEF TypeOK, fiberVars
  <2> QED BY <2>1, <2>2 DEF TypeOK
<1>5. CASE UNCHANGED vars
  BY <1>5 DEF vars, TypeOK, FibersOK, fiberVars, kernelVars, rigVars, busVars
<1> QED BY <1>1, <1>2, <1>3, <1>4, <1>5

LEMMA TypeInit == Init => TypeOK
<1>1. Init => FibersOK
  BY DEF Init, FibersOK, Fits, Labels, Aims
<1>2. Init => port \in [Wheels -> BOOLEAN]
  BY DEF Init
<1>3. Init => out \in [duty : BOOLEAN, estopped : BOOLEAN]
  BY DEF Init
<1>4. Init => faults \in 0..MaxFaults /\ deaf \in SUBSET Wheels
  BY BoundsAssumption DEF Init
<1> QED BY <1>1, <1>2, <1>3, <1>4 DEF Init, TypeOK

LEMMA TypeStep == TypeOK /\ [Next]_vars => TypeOK'
BY CallType, ResumeType, RestType DEF Next

\* Every variable of the tick engine keeps its type in every behaviour.
THEOREM TypeCorrect == Spec => []TypeOK
BY TypeInit, TypeStep, PTL DEF Spec

-----------------------------------------------------------------------------
(* The e-stop.  The kernel skips a zero it believes already staged, so that *)
(* a latch stages nothing rests on that belief never being wrong.          *)

StagedIsWritten == staged => written

\* How a step may change what is staged: only downwards, or together with
\* the kernel's record of it and never up under the latch.
Staging == \/ (staged' => staged) /\ written' = written
           \/ staged' = written' /\ (estopLatch => ~staged')

LEMMA BeginStepStaging ==
  ASSUME TypeOK, StagedIsWritten, NEW f, NEW why, NEW n, NEW mode,
         NEW stagedNow \in BOOLEAN, stagedNow => staged,
         BeginStep(f, why, n, mode, stagedNow)
  PROVE  Staging
BY DEF TypeOK, StagedIsWritten, Staging, BeginStep, StageDuty, Demand

LEMMA PulseTurnStaging ==
  ASSUME TypeOK, StagedIsWritten, NEW f, NEW fire, NEW rest, NEW n,
         PulseTurn(f, fire, rest, n)
  PROVE  Staging
<1> staged \in BOOLEAN
  BY DEF TypeOK
<1>1. \E why, m, mode : BeginStep(f, why, m, mode, staged)
  BY DEF PulseTurn, BeginSettle
<1> QED BY <1>1, BeginStepStaging

LEMMA SoftStopStaging ==
  ASSUME TypeOK, StagedIsWritten, NEW f, SoftStop(f)
  PROVE  Staging /\ estopLatch' = estopLatch
<1>1. \/ UNCHANGED <<staged, written>>
      \/ BeginSettle(f, "stop", "neutral", FALSE)
  BY DEF SoftStop, kernelVars
<1>2. Staging
  BY <1>1, BeginStepStaging DEF BeginSettle, Staging
<1> QED BY <1>2 DEF SoftStop

LEMMA DeliverStaging ==
  ASSUME TypeOK, StagedIsWritten, NEW f, NEW p, NEW mode, Deliver(f, p, mode)
  PROVE  Staging
<1>1. \/ UNCHANGED <<staged, written>>
      \/ BeginSettle(f, "staged", mode, FALSE)
  BY DEF Deliver
<1> QED BY <1>1, BeginStepStaging DEF BeginSettle, Staging

LEMMA ClaimStaging ==
  ASSUME TypeOK, StagedIsWritten, NEW f, NEW why \in Waiting, Claim(f, why)
  PROVE  Staging
<1> staged \in BOOLEAN
  BY DEF TypeOK
<1>1. \/ UNCHANGED <<staged, written>>
      \/ BeginStep(f, "serve", 0, command, staged)
      \/ \E width \in 0..MaxPulse :
           PulseTurn(f, "pulseFire", "pulseRest", width)
  BY DEF Claim, Waiting
<1> QED BY <1>1, BeginStepStaging, PulseTurnStaging DEF Staging

LEMMA NextStaging ==
  ASSUME TypeOK, StagedIsWritten, [Next]_vars
  PROVE  /\ Staging
         /\ estopLatch' => estopLatch \/ ~staged'
<1> staged \in BOOLEAN
  BY DEF TypeOK
<1>1. ASSUME NEW f \in Fibers, Call(f)
      PROVE  Staging /\ (estopLatch' => estopLatch \/ ~staged')
  <2>1. CASE Stop(f)
    BY <2>1, SoftStopStaging DEF Stop
  <2>2. CASE EmergencyStop(f)
    BY <2>2 DEF EmergencyStop, Staging
  <2>3. CASE EstopClear(f) \/ StartWheels(f) \/ StartMove(f)
             \/ StartNudge(f) \/ Rebase(f)
    BY <2>3 DEF EstopClear, StartWheels, StartMove, StartNudge, StartGoal,
                Rebase, kernelVars, Staging
  <2>4. CASE Tick(f) \/ OtosAccess(f) \/ PulseWheels(f)
    <3>1. PICK why \in Waiting : Enter(f, why)
      BY <2>4 DEF Tick, OtosAccess, PulseWheels, Waiting
    <3> QED BY <3>1, ClaimStaging DEF Enter, kernelVars, Staging
  <2>5. CASE Poll(f)
    <3>1. \/ SoftStop(f)
          \/ UNCHANGED <<staged, written, estopLatch>>
          \/ /\ \E width \in 0..MaxPulse :
                  PulseTurn(f, "pollFire", "pollRest", width)
             /\ UNCHANGED estopLatch
      BY <2>5 DEF Poll, kernelVars
    <3> QED BY <3>1, SoftStopStaging, PulseTurnStaging DEF Staging
  <2> QED BY <1>1, <2>1, <2>2, <2>3, <2>4, <2>5 DEF Call
<1>2. ASSUME NEW f \in Actors, Resume(f)
      PROVE  Staging /\ estopLatch' = estopLatch
  <2>1. CASE LeftTick(f) \/ OtosDone(f)
    BY <2>1 DEF LeftTick, OtosDone, kernelVars, Staging
  <2>2. CASE ServeTick(f)
    <3>1. \/ \E p, mode : Deliver(f, p, mode)
          \/ BeginSettle(f, "ended", "neutral", staged)
          \/ \E width \in 0..MaxPulse :
               PulseTurn(f, "nudgeFire", "nudgeRest", width)
      BY <2>2 DEF ServeTick
    <3>2. Staging
      BY <3>1, DeliverStaging, BeginStepStaging, PulseTurnStaging
         DEF BeginSettle
    <3> QED BY <2>2, <3>2 DEF ServeTick
  <2>3. CASE SettleStep(f)
    <3>1. \/ \E p : Deliver(f, p, command)
          \/ UNCHANGED <<staged, written>>
          \/ BeginStep(f, aim[f], remaining[f] - 1, command, staged)
      BY <2>3 DEF SettleStep, Settled
    <3>2. Staging
      BY <3>1, DeliverStaging, BeginStepStaging DEF Staging
    <3> QED BY <2>3, <3>2 DEF SettleStep
  <2>4. CASE PulseStep(f)
    BY <2>4, PulseTurnStaging DEF PulseStep
  <2>5. CASE Acquire(f)
    <3>1. aim[f] \in Waiting
      BY <2>5 DEF Acquire, TypeOK, FibersOK, Fits
    <3> QED BY <2>5, <3>1, ClaimStaging DEF Acquire
  <2> QED BY <1>2, <2>1, <2>2, <2>3, <2>4, <2>5 DEF Resume
<1>3. CASE WatchdogFires
  BY <1>3, SoftStopStaging DEF WatchdogFires
<1>4. CASE Age \/ (\E w \in Wheels : Fault(w) \/ Heal(w)) \/ UNCHANGED vars
  BY <1>4 DEF Age, Fault, Heal, vars, kernelVars, Staging
<1> QED BY <1>1, <1>2, <1>3, <1>4 DEF Next

EstopInv == TypeOK /\ StagedIsWritten /\ EstopStagesNothing

LEMMA EstopInvariant == Spec => []EstopInv
<1>1. Init => EstopInv
  BY TypeInit DEF Init, EstopInv, StagedIsWritten, EstopStagesNothing
<1>2. EstopInv /\ [Next]_vars => EstopInv'
  <2> SUFFICES ASSUME EstopInv, [Next]_vars PROVE EstopInv'
    OBVIOUS
  <2>1. TypeOK'
    BY TypeStep DEF EstopInv
  <2>2. StagedIsWritten' /\ EstopStagesNothing'
    BY <2>1, NextStaging
       DEF EstopInv, TypeOK, Staging, StagedIsWritten, EstopStagesNothing
  <2> QED BY <2>1, <2>2 DEF EstopInv
<1> QED BY <1>1, <1>2, PTL DEF Spec

\* Under the e-stop latch nothing is staged for the motors, whatever step was
\* in flight when it was set.
THEOREM EstopStaging == Spec => []EstopStagesNothing
<1>1. EstopInv => EstopStagesNothing
  BY DEF EstopInv
<1> QED BY <1>1, EstopInvariant, PTL

-----------------------------------------------------------------------------
(* The ports.  Three kinds of step touch them or the published Output: the *)
(* left wheel's tick, the end of a kernel step, and everything else, which *)
(* at most zeroes them and leaves every other fiber parked in its step.    *)

EndsStep ==
  \E f \in Actors : \E p \in Ticked("right") :
    EndStep(f, p) /\ port' \in {p, Zeroed(p)} /\ UNCHANGED estopLatch

LeavesStepsAlone ==
  /\ port' \in {port, Zeroed(port)} /\ out' = out
  /\ \A g \in Actors : at[g] = "stepRight" => at'[g] = "stepRight"

LEMMA ParkElsewhere ==
  ASSUME FibersOK, NEW f \in Actors, at[f] \in {"idle", "wait", "otos"},
         NEW where, NEW why, NEW n, Park(f, where, why, n)
  PROVE  \A g \in Actors : at[g] = "stepRight" => at'[g] = "stepRight"
BY DEF FibersOK, Park

LEMMA SoftStopPorts ==
  ASSUME TypeOK, NEW f \in Actors, at[f] = "idle", SoftStop(f)
  PROVE  LeavesStepsAlone
<1>1. CASE busy
  BY <1>1 DEF SoftStop, LeavesStepsAlone, fiberVars, kernelVars
<1>2. CASE ~busy
  <2>1. port' = Zeroed(port) /\ out' = out
        /\ Park(f, "stepLeft", "stop", MaxSettle - 1)
    BY <1>2 DEF SoftStop, BeginSettle, BeginStep
  <2> QED BY <2>1, ParkElsewhere DEF LeavesStepsAlone, TypeOK
<1> QED BY <1>1, <1>2

LEMMA ClaimPorts ==
  ASSUME TypeOK, NEW f \in Actors, at[f] \in {"idle", "wait"},
         NEW why \in Waiting, Claim(f, why)
  PROVE  LeavesStepsAlone
<1>1. port' = port /\ out' = out
  BY DEF Claim
<1>2. \E where, aims, n : Park(f, where, aims, n)
  BY DEF Claim, Waiting, BeginStep, PulseTurn, BeginSettle
<1> QED BY <1>1, <1>2, ParkElsewhere DEF LeavesStepsAlone, TypeOK

LEMMA CallPorts ==
  ASSUME TypeOK, NEW f \in Fibers, Call(f)
  PROVE  LeavesStepsAlone
<1> f \in Actors
  BY DEF Actors
<1>1. CASE Stop(f)
  BY <1>1, SoftStopPorts DEF Stop
<1>2. CASE EmergencyStop(f) \/ EstopClear(f) \/ StartWheels(f)
           \/ StartMove(f) \/ StartNudge(f) \/ Rebase(f)
  BY <1>2 DEF EmergencyStop, EstopClear, StartWheels, StartMove, StartNudge,
              StartGoal, Rebase, LeavesStepsAlone, fiberVars, kernelVars
<1>3. CASE Tick(f) \/ OtosAccess(f) \/ PulseWheels(f)
  <2>1. PICK why \in Waiting : Enter(f, why)
    BY <1>3 DEF Tick, OtosAccess, PulseWheels, Waiting
  <2>2. CASE busy
    <3>1. Park(f, "wait", why, 0) /\ port' = port /\ out' = out
          /\ at[f] = "idle"
      BY <2>1, <2>2 DEF Enter, kernelVars
    <3> QED BY <3>1, ParkElsewhere DEF LeavesStepsAlone, TypeOK
  <2>3. CASE ~busy
    BY <2>1, <2>3, ClaimPorts DEF Enter
  <2> QED BY <2>2, <2>3
<1>4. CASE Poll(f)
  <2>1. CASE SoftStop(f)
    BY <1>4, <2>1, SoftStopPorts DEF Poll
  <2>2. CASE UNCHANGED <<fiberVars, kernelVars>>
    BY <2>2 DEF LeavesStepsAlone, fiberVars, kernelVars
  <2>3. CASE /\ \E width \in 0..MaxPulse :
                  PulseTurn(f, "pollFire", "pollRest", width)
             /\ UNCHANGED <<port, out>>
    <3>1. \E where, why, n : Park(f, where, why, n)
      BY <2>3 DEF PulseTurn, BeginSettle, BeginStep
    <3>2. at[f] = "idle"
      BY <1>4 DEF Poll
    <3> QED BY <2>3, <3>1, <3>2, ParkElsewhere DEF LeavesStepsAlone, TypeOK
  <2> QED BY <1>4, <2>1, <2>2, <2>3 DEF Poll
<1> QED BY <1>1, <1>2, <1>3, <1>4 DEF Call

LEMMA NextPorts ==
  ASSUME TypeOK, [Next]_vars
  PROVE  \/ \E f \in Actors : LeftTick(f)
         \/ EndsStep
         \/ LeavesStepsAlone
<1>1. ASSUME NEW f \in Actors, Resume(f), ~LeftTick(f)
      PROVE  EndsStep \/ LeavesStepsAlone
  <2>1. CASE ServeTick(f)
    BY <2>1 DEF ServeTick, Deliver, EndsStep
  <2>2. CASE SettleStep(f)
    BY <2>2 DEF SettleStep, Settled, Deliver, EndsStep
  <2>3. CASE PulseStep(f)
    BY <2>3 DEF PulseStep, EndsStep
  <2>4. CASE OtosDone(f)
    <3>1. Park(f, "idle", "none", 0) /\ port' = port /\ out' = out
          /\ at[f] = "otos"
      BY <2>4 DEF OtosDone, GoIdle, kernelVars
    <3> QED BY <3>1, ParkElsewhere DEF LeavesStepsAlone, TypeOK
  <2>5. CASE Acquire(f)
    <3>1. aim[f] \in Waiting
      BY <2>5 DEF Acquire, TypeOK, FibersOK, Fits
    <3> QED BY <2>5, <3>1, ClaimPorts DEF Acquire
  <2> QED BY <1>1, <2>1, <2>2, <2>3, <2>4, <2>5 DEF Resume
<1>2. CASE WatchdogFires
  BY <1>2, SoftStopPorts DEF WatchdogFires, Actors
<1>3. CASE Age \/ (\E w \in Wheels : Fault(w) \/ Heal(w)) \/ UNCHANGED vars
  BY <1>3 DEF Age, Fault, Heal, vars, fiberVars, kernelVars, LeavesStepsAlone
<1> QED BY <1>1, <1>2, <1>3, CallPorts DEF Next

\* The watchdog's proxy is honest: a wheel that is on shows in the published
\* Output, or a step that will publish it is under way.
THEOREM WatchdogProxy == Spec => []WatchdogSeesDuty
<1>1. Init => WatchdogSeesDuty
  BY DEF Init, WatchdogSeesDuty, Running
<1>2. TypeOK /\ WatchdogSeesDuty /\ [Next]_vars => WatchdogSeesDuty'
  <2> SUFFICES ASSUME TypeOK, WatchdogSeesDuty, [Next]_vars, Running(port)'
               PROVE  out'.duty \/ \E f \in Actors : at'[f] = "stepRight"
    BY DEF WatchdogSeesDuty
  <2>1. CASE \E f \in Actors : LeftTick(f)
    BY <2>1 DEF LeftTick, TypeOK, FibersOK
  <2>2. CASE EndsStep
    <3>1. PICK f \in Actors, p \in Ticked("right") :
            EndStep(f, p) /\ port' \in {p, Zeroed(p)}
      BY <2>2 DEF EndsStep
    <3>2. Running(p)
      BY <3>1 DEF Running, Zeroed
    <3>3. out'.duty = Running(p)
      BY <3>1 DEF EndStep
    <3> QED BY <3>2, <3>3
  <2>3. CASE LeavesStepsAlone
    <3>1. Running(port)
      BY <2>3 DEF LeavesStepsAlone, Running, Zeroed
    <3> QED BY <2>3, <3>1 DEF LeavesStepsAlone, WatchdogSeesDuty
  <2> QED BY <2>1, <2>2, <2>3, NextPorts
<1> QED BY <1>1, <1>2, TypeCorrect, PTL DEF Spec

\* No step of any fiber turns a wheel on while the e-stop latch is set.
THEOREM EstopHolds == Spec => EstopNeverDrives
<1>1. ASSUME EstopInv, [Next]_vars
      PROVE  estopLatch' => \A w \in Wheels : port'[w] => port[w]
  <2> SUFFICES ASSUME estopLatch', NEW w \in Wheels, port'[w]
               PROVE  port[w]
    OBVIOUS
  <2>1. CASE LeavesStepsAlone
    BY <2>1 DEF LeavesStepsAlone, Zeroed
  <2>2. CASE (\E f \in Actors : LeftTick(f)) \/ EndsStep
    <3>1. estopLatch
      BY <2>2 DEF LeftTick, EndsStep
    <3>2. ~staged
      BY <1>1, <3>1 DEF EstopInv, EstopStagesNothing
    <3>3. \A v \in Wheels : \A p \in Ticked(v) : p[w] => port[w]
      BY <1>1, <3>2 DEF Ticked, Shaped, EstopInv, TypeOK
    <3> QED BY <2>2, <3>3 DEF LeftTick, EndsStep, Zeroed, Wheels
  <2> QED BY <1>1, <2>1, <2>2, NextPorts DEF EstopInv
<1>2. EstopInv /\ [Next]_vars
      => [estopLatch' => \A w \in Wheels : port'[w] => port[w]]_vars
  BY <1>1
<1> QED BY <1>2, EstopInvariant, PTL DEF Spec, EstopNeverDrives

-----------------------------------------------------------------------------
(* The bus guard, for programs that do not poll a move beside a nudge.     *)

PollsNoNudge == ~({"nudge", "poll"} \subseteq Ops)

\* No fiber is in the loops that updateMove() runs without the guard.
GuardedLoops == /\ live = "nudge" => "nudge" \in Ops
                /\ \A f \in Actors : aim[f] \notin Unguarded

\* A step of fiber f leaves the others where they are.
Alone(f) == \A g \in Actors \ {f} : at'[g] = at[g] /\ aim'[g] = aim[g]

\* What a step of f can do to the bus: nothing, take it, or give it back.
Keeping(f)   == busy' = busy /\ (OnBus(f)' <=> OnBus(f))
Taking(f)    == ~busy /\ busy' /\ OnBus(f)'
Returning(f) == OnBus(f) /\ ~busy' /\ ~OnBus(f)'

BusStep(f) == Alone(f) /\ (Keeping(f) \/ Taking(f) \/ Returning(f))

LEMMA ParkAlone ==
  ASSUME FibersOK, NEW f \in Actors, NEW where, NEW why, NEW n,
         Park(f, where, why, n)
  PROVE  /\ Alone(f)
         /\ at'[f] = where /\ aim'[f] = why
BY DEF FibersOK, Park, Alone

LEMMA BeginStepAlone ==
  ASSUME FibersOK, NEW f \in Actors, NEW why \in Stepping \ Unguarded, NEW n,
         NEW mode, NEW stagedNow, BeginStep(f, why, n, mode, stagedNow)
  PROVE  Alone(f) /\ aim'[f] \notin Unguarded /\ OnBus(f)'
BY ParkAlone DEF BeginStep, OnBus

LEMMA PulseTurnAlone ==
  ASSUME FibersOK, NEW f \in Actors, NEW fire \in Stepping \ Unguarded,
         NEW rest \in Stepping \ Unguarded, NEW n,
         PulseTurn(f, fire, rest, n)
  PROVE  Alone(f) /\ aim'[f] \notin Unguarded /\ OnBus(f)'
<1>1. \/ \E mode : BeginStep(f, fire, n - 1, mode, staged)
      \/ BeginStep(f, rest, MaxSettle - 1, "neutral", staged)
  BY DEF PulseTurn, BeginSettle
<1> QED BY <1>1, BeginStepAlone

LEMMA SoftStopAlone ==
  ASSUME FibersOK, NEW f \in Actors, at[f] = "idle", aim[f] \notin Unguarded,
         SoftStop(f)
  PROVE  BusStep(f) /\ aim'[f] \notin Unguarded
<1>1. CASE busy
  BY <1>1 DEF SoftStop, BusStep, Alone, Keeping, OnBus, fiberVars
<1>2. CASE ~busy
  <2>1. busy' = TRUE
        /\ BeginStep(f, "stop", MaxSettle - 1, "neutral", FALSE)
    BY <1>2 DEF SoftStop, BeginSettle
  <2>2. "stop" \in Stepping \ Unguarded
    BY DEF Stepping, Settling, Unguarded
  <2> QED BY <1>2, <2>1, <2>2, BeginStepAlone DEF BusStep, Taking
<1> QED BY <1>1, <1>2

LEMMA ReleaseAlone ==
  ASSUME FibersOK, NEW f \in Actors, OnBus(f), Release(f)
  PROVE  BusStep(f) /\ aim'[f] \notin Unguarded
<1>1. CASE pendingOtosZero
  <2>1. busy' = busy /\ Park(f, "otos", "zero", 0)
    BY <1>1 DEF Release
  <2> QED BY <2>1, ParkAlone DEF BusStep, Keeping, OnBus, Unguarded
<1>2. CASE ~pendingOtosZero
  <2>1. busy' = FALSE /\ Park(f, "idle", "none", 0)
    BY <1>2 DEF Release, GoIdle
  <2> QED BY <2>1, ParkAlone DEF BusStep, Returning, OnBus, Unguarded
<1> QED BY <1>1, <1>2

LEMMA DeliverAlone ==
  ASSUME FibersOK, NEW f \in Actors, OnBus(f), NEW p, NEW mode,
         Deliver(f, p, mode)
  PROVE  BusStep(f) /\ aim'[f] \notin Unguarded
<1>1. CASE pendingStop
  <2>1. busy' = busy
        /\ BeginStep(f, "staged", MaxSettle - 1, mode, FALSE)
    BY <1>1 DEF Deliver, BeginSettle
  <2>2. "staged" \in Stepping \ Unguarded
    BY DEF Stepping, Settling, Unguarded
  <2> QED BY <2>1, <2>2, BeginStepAlone DEF BusStep, Keeping
<1>2. CASE ~pendingStop
  BY <1>2, ReleaseAlone DEF Deliver
<1> QED BY <1>1, <1>2

LEMMA ClaimAlone ==
  ASSUME FibersOK, NEW f \in Actors, NEW why \in Waiting, ~busy,
         Claim(f, why)
  PROVE  /\ BusStep(f) /\ aim'[f] \notin Unguarded
         /\ live' \in {live, "none"}
<1> busy' = TRUE
  BY DEF Claim
<1>1. CASE why = "tick"
  <2>1. BeginStep(f, "serve", 0, command, staged) /\ live' = live
    BY <1>1 DEF Claim
  <2>2. "serve" \in Stepping \ Unguarded
    BY DEF Stepping, Unguarded
  <2> QED BY <2>1, <2>2, BeginStepAlone DEF BusStep, Taking
<1>2. CASE why = "otos"
  <2>1. Park(f, "otos", "otos", 0) /\ live' = live
    BY <1>2 DEF Claim
  <2> QED BY <2>1, ParkAlone DEF BusStep, Taking, OnBus, Unguarded
<1>3. CASE why = "pulse"
  <2>1. PICK width \in 0..MaxPulse :
          PulseTurn(f, "pulseFire", "pulseRest", width) /\ live' = "none"
    BY <1>3 DEF Claim
  <2>2. {"pulseFire", "pulseRest"} \subseteq Stepping \ Unguarded
    BY DEF Stepping, Settling, Pulsing, Unguarded
  <2> QED BY <2>1, <2>2, PulseTurnAlone DEF BusStep, Taking
<1> QED BY <1>1, <1>2, <1>3 DEF Waiting

\* The nudge is live only in a program that nudges.
LiveOK == live' = "nudge" => "nudge" \in Ops

LEMMA CallAlone ==
  ASSUME TypeOK, PollsNoNudge, GuardedLoops, NEW f \in Fibers, Call(f)
  PROVE  BusStep(f) /\ aim'[f] \notin Unguarded /\ LiveOK
<1> f \in Actors /\ FibersOK /\ aim[f] \notin Unguarded
  BY DEF Actors, TypeOK, GuardedLoops
<1>1. CASE Stop(f)
  BY <1>1, SoftStopAlone DEF Stop, StopEngine, LiveOK, GuardedLoops
<1>2. CASE EmergencyStop(f) \/ EstopClear(f) \/ StartWheels(f)
           \/ StartMove(f) \/ StartNudge(f) \/ Rebase(f)
  <2>1. UNCHANGED <<at, aim, busy>>
    BY <1>2 DEF EmergencyStop, EstopClear, StartWheels, StartMove, StartNudge,
                StartGoal, Rebase, fiberVars
  <2>2. LiveOK
    BY <1>2 DEF EmergencyStop, EstopClear, StartWheels, StartMove, StartNudge,
                StartGoal, Rebase, StopEngine, LiveOK, GuardedLoops
  <2> QED BY <2>1, <2>2 DEF BusStep, Alone, Keeping, OnBus
<1>3. CASE Tick(f) \/ OtosAccess(f) \/ PulseWheels(f)
  <2>1. PICK why \in Waiting : Enter(f, why)
    BY <1>3 DEF Tick, OtosAccess, PulseWheels, Waiting
  <2>2. CASE busy
    <3>1. Park(f, "wait", why, 0) /\ busy' = busy /\ live' = live
          /\ at[f] = "idle"
      BY <2>1, <2>2 DEF Enter
    <3> QED BY <3>1, ParkAlone
            DEF BusStep, Keeping, OnBus, Unguarded, Waiting, LiveOK,
                GuardedLoops
  <2>3. CASE ~busy
    BY <2>1, <2>3, ClaimAlone DEF Enter, LiveOK, GuardedLoops
  <2> QED BY <2>2, <2>3
<1>4. CASE Poll(f)
  <2>1. at[f] = "idle" /\ live # "nudge"
    BY <1>4 DEF Poll, PollsNoNudge, GuardedLoops
  <2>2. \/ SoftStop(f) /\ live' = "none"
        \/ UNCHANGED <<at, aim, busy>> /\ live' \in {live, "none"}
    BY <1>4, <2>1 DEF Poll, Ends, Keeps, fiberVars
  <2> QED BY <2>1, <2>2, SoftStopAlone
          DEF BusStep, Alone, Keeping, OnBus, LiveOK
<1> QED BY <1>1, <1>2, <1>3, <1>4 DEF Call

LEMMA ResumeAlone ==
  ASSUME TypeOK, GuardedLoops, NEW f \in Actors, Resume(f)
  PROVE  BusStep(f) /\ aim'[f] \notin Unguarded /\ LiveOK
<1> FibersOK /\ aim[f] \notin Unguarded
  BY DEF TypeOK, GuardedLoops
<1>1. CASE LeftTick(f)
  BY <1>1 DEF LeftTick, FibersOK, BusStep, Alone, Keeping, OnBus, LiveOK,
              GuardedLoops
<1>2. CASE ServeTick(f)
  <2>1. OnBus(f) /\ live' \in {live, "none"}
    BY <1>2 DEF ServeTick, EndStep, OnBus, Unguarded, Ends, Keeps
  <2>2. \/ \E p, mode : Deliver(f, p, mode)
        \/ BeginStep(f, "ended", MaxSettle - 1, "neutral", staged)
           /\ busy' = busy
        \/ \E width \in 0..MaxPulse :
             PulseTurn(f, "nudgeFire", "nudgeRest", width) /\ busy' = busy
    BY <1>2 DEF ServeTick, BeginSettle
  <2>3. {"ended", "nudgeFire", "nudgeRest"} \subseteq Stepping \ Unguarded
    BY DEF Stepping, Settling, Pulsing, Unguarded
  <2>4. BusStep(f) /\ aim'[f] \notin Unguarded
    BY <2>1, <2>2, <2>3, DeliverAlone, BeginStepAlone, PulseTurnAlone
       DEF BusStep, Keeping
  <2> QED BY <2>1, <2>4 DEF LiveOK, GuardedLoops
<1>3. CASE SettleStep(f)
  <2>1. OnBus(f) /\ live' = live /\ aim[f] \in Stepping \ Unguarded
    BY <1>3 DEF SettleStep, EndStep, OnBus, Stepping
  <2>2. \/ \E p : Deliver(f, p, command)
        \/ Release(f)
        \/ Park(f, "idle", "none", 0) /\ busy' = FALSE
        \/ BeginStep(f, aim[f], remaining[f] - 1, command, staged)
           /\ busy' = busy
    BY <1>3 DEF SettleStep, Settled, GoIdle, Unguarded
  <2>3. BusStep(f) /\ aim'[f] \notin Unguarded
    <3>1. CASE Park(f, "idle", "none", 0) /\ busy' = FALSE
      BY <2>1, <3>1, ParkAlone DEF BusStep, Returning, OnBus, Unguarded
    <3>2. CASE \/ \E p : Deliver(f, p, command)
               \/ Release(f)
      BY <2>1, <3>2, DeliverAlone, ReleaseAlone
    <3>3. CASE BeginStep(f, aim[f], remaining[f] - 1, command, staged)
               /\ busy' = busy
      BY <2>1, <3>3, BeginStepAlone DEF BusStep, Keeping
    <3> QED BY <2>2, <3>1, <3>2, <3>3
  <2> QED BY <2>1, <2>3 DEF LiveOK, GuardedLoops
<1>4. CASE PulseStep(f)
  <2>1. /\ OnBus(f) /\ live' = live /\ busy' = busy
        /\ aim[f] \in {"nudgeFire", "pulseFire"}
    BY <1>4 DEF PulseStep, EndStep, OnBus, Pulsing, Unguarded
  <2>2. {aim[f], Rest[aim[f]]} \subseteq Stepping \ Unguarded
    BY <2>1 DEF Rest, Stepping, Settling, Pulsing, Unguarded
  <2>3. PulseTurn(f, aim[f], Rest[aim[f]], remaining[f])
    BY <1>4 DEF PulseStep
  <2>4. Alone(f) /\ aim'[f] \notin Unguarded /\ OnBus(f)'
    BY <2>2, <2>3, PulseTurnAlone
  <2> QED BY <2>1, <2>4 DEF LiveOK, GuardedLoops, BusStep, Keeping
<1>5. CASE OtosDone(f)
  <2>1. Park(f, "idle", "none", 0) /\ busy' = FALSE /\ live' = live
        /\ at[f] = "otos"
    BY <1>5 DEF OtosDone, GoIdle
  <2> QED BY <2>1, ParkAlone
          DEF BusStep, Returning, OnBus, Unguarded, LiveOK, GuardedLoops
<1>6. CASE Acquire(f)
  <2>1. aim[f] \in Waiting
    BY <1>6 DEF Acquire, FibersOK, Fits
  <2> QED BY <1>6, <2>1, ClaimAlone DEF Acquire, LiveOK, GuardedLoops
<1> QED BY <1>1, <1>2, <1>3, <1>4, <1>5, <1>6 DEF Resume

LEMMA NextAlone ==
  ASSUME TypeOK, PollsNoNudge, GuardedLoops, [Next]_vars
  PROVE  /\ \/ \E f \in Actors : BusStep(f)
            \/ UNCHANGED <<at, aim, busy>>
         /\ GuardedLoops'
<1>1. ASSUME NEW f \in Actors, BusStep(f), aim'[f] \notin Unguarded, LiveOK
      PROVE  GuardedLoops'
  BY <1>1 DEF BusStep, Alone, GuardedLoops, LiveOK
<1>2. CASE \E f \in Actors : Resume(f)
  BY <1>1, <1>2, ResumeAlone
<1>3. CASE \E f \in Fibers : Call(f)
  BY <1>1, <1>3, CallAlone DEF Actors
<1>4. CASE WatchdogFires
  <2>1. BusStep(Watchdog) /\ aim'[Watchdog] \notin Unguarded
    BY <1>4, SoftStopAlone DEF WatchdogFires, Actors, TypeOK, GuardedLoops
  <2> QED BY <1>1, <1>4, <2>1
          DEF WatchdogFires, Actors, StopEngine, LiveOK, GuardedLoops
<1>5. CASE Age \/ (\E w \in Wheels : Fault(w) \/ Heal(w)) \/ UNCHANGED vars
  BY <1>5 DEF Age, Fault, Heal, vars, fiberVars, GuardedLoops
<1> QED BY <1>2, <1>3, <1>4, <1>5 DEF Next

\* bus_guard.h: the bus has exactly one owner at a time, and the flag says so,
\* in every program that does not poll a move beside a nudge.
THEOREM OneBusOwner ==
  ASSUME PollsNoNudge
  PROVE  Spec => []BusExclusion
<1> DEFINE IInv == TypeOK /\ GuardedLoops /\ BusExclusion
<1>1. Init => IInv
  BY TypeInit DEF Init, GuardedLoops, BusExclusion, OnBus, Unguarded
<1>2. IInv /\ [Next]_vars => IInv'
  <2> SUFFICES ASSUME IInv, [Next]_vars PROVE IInv'
    OBVIOUS
  <2>1. TypeOK' /\ GuardedLoops'
    BY TypeStep, NextAlone, PollsNoNudge
  <2>2. /\ \A f, g \in Actors : OnBus(f) /\ OnBus(g) => f = g
        /\ busy <=> \E f \in Actors : OnBus(f)
    BY DEF BusExclusion, OnBus
  <2>3. /\ \A f, g \in Actors : OnBus(f)' /\ OnBus(g)' => f = g
        /\ busy' <=> \E f \in Actors : OnBus(f)'
    <3>1. CASE UNCHANGED <<at, aim, busy>>
      BY <2>2, <3>1 DEF OnBus
    <3>2. ASSUME NEW f \in Actors, BusStep(f)
          PROVE  /\ \A g, h \in Actors : OnBus(g)' /\ OnBus(h)' => g = h
                 /\ busy' <=> \E g \in Actors : OnBus(g)'
      <4>1. \A g \in Actors \ {f} : OnBus(g)' <=> OnBus(g)
        BY <3>2 DEF BusStep, Alone, OnBus
      <4>2. CASE Keeping(f)
        BY <2>2, <4>1, <4>2 DEF Keeping
      <4>3. CASE Taking(f)
        BY <2>2, <4>1, <4>3 DEF Taking
      <4>4. CASE Returning(f)
        BY <2>2, <4>1, <4>4 DEF Returning
      <4> QED BY <3>2, <4>2, <4>3, <4>4 DEF BusStep
    <3> QED BY <3>1, <3>2, NextAlone, PollsNoNudge
  <2>4. BusExclusion'
    BY <2>1, <2>3 DEF BusExclusion, OnBus, GuardedLoops
  <2> QED BY <2>1, <2>4
<1> QED BY <1>1, <1>2, PTL DEF Spec
-----------------------------------------------------------------------------
(* Stops, for programs without open-loop pulses.  A pulse is a loop that    *)
(* sets the kernel driving again on every turn, whatever was asked since;  *)
(* the run tick_nudge_stop shows what a stop during a nudge comes to.      *)

NoPulses == Ops \cap {"nudge", "pulse"} = {}

(* Without pulses the kernel drives only for a live command of the engine, *)
(* and a stop ends both.                                                   *)
NoLoops == live # "nudge" /\ \A f \in Actors : aim[f] \notin Pulsing \cup {"pulse"}
KernelFollows == command = "drive" => live \in {"seg", "hold"}
StopEnds == asked = "stop" => live = "none"
StopInv == NoLoops /\ KernelFollows /\ StopEnds

\* A step of f that keeps it out of the pulses.
StaysOut(f) == Alone(f) /\ aim'[f] \notin Pulsing \cup {"pulse"}

LEMMA BeginsOutside ==
  ASSUME FibersOK, NEW f \in Actors, NEW why \in {"serve"} \cup Settling, NEW n,
         NEW mode, NEW stagedNow, BeginStep(f, why, n, mode, stagedNow)
  PROVE  StaysOut(f)
BY ParkAlone DEF BeginStep, StaysOut, Settling, Pulsing

LEMMA SettlesOutside ==
  ASSUME FibersOK, NEW f \in Actors, NEW why \in Settling,
         NEW mode, NEW stagedNow, BeginSettle(f, why, mode, stagedNow)
  PROVE  StaysOut(f)
BY BeginsOutside DEF BeginSettle

LEMMA ReleasesOutside ==
  ASSUME FibersOK, NEW f \in Actors, Release(f)
  PROVE  StaysOut(f)
BY ParkAlone DEF Release, GoIdle, StaysOut, Pulsing

LEMMA DeliversOutside ==
  ASSUME FibersOK, NEW f \in Actors, NEW p, NEW mode, Deliver(f, p, mode)
  PROVE  StaysOut(f)
BY SettlesOutside, ReleasesOutside DEF Deliver, Settling

LEMMA StaysNoLoops ==
  ASSUME NoLoops, NEW f \in Actors, StaysOut(f), live' # "nudge"
  PROVE  NoLoops'
BY DEF NoLoops, StaysOut, Alone

LEMMA SoftStopEnds ==
  ASSUME TypeOK, StopInv, NEW f \in Actors, SoftStop(f), live' = "none"
  PROVE  StopInv'
<1>1. StaysOut(f) \/ UNCHANGED fiberVars
  BY SettlesOutside DEF SoftStop, Settling, TypeOK
<1>2. NoLoops'
  BY <1>1, StaysNoLoops DEF StopInv, NoLoops, fiberVars
<1>3. command' = "neutral"
  BY DEF SoftStop
<1> QED BY <1>2, <1>3 DEF StopInv, KernelFollows, StopEnds

LEMMA CallStops ==
  ASSUME TypeOK, NoPulses, StopInv, NEW f \in Fibers, Call(f)
  PROVE  StopInv'
<1> f \in Actors /\ live # "nudge" /\ FibersOK
  BY DEF Actors, StopInv, NoLoops, TypeOK
<1>1. CASE Stop(f)
  BY <1>1, SoftStopEnds DEF Stop, StopEngine
<1>2. CASE EmergencyStop(f) \/ EstopClear(f) \/ StartWheels(f) \/ StartMove(f) \/ Rebase(f)
  <2>1. UNCHANGED aim
    BY <1>2 DEF EmergencyStop, EstopClear, StartWheels, StartMove, StartGoal, Rebase, fiberVars
  <2>2. live' # "nudge" /\ KernelFollows' /\ StopEnds'
    BY <1>2 DEF EmergencyStop, EstopClear, StartWheels, StartMove, StartGoal, Rebase, StopEngine,
                StopInv, KernelFollows, StopEnds, TypeOK
  <2> QED BY <2>1, <2>2 DEF StopInv, NoLoops
<1>3. CASE StartNudge(f) \/ PulseWheels(f)
  BY <1>3 DEF StartNudge, StartGoal, PulseWheels, Enter, NoPulses
<1>4. CASE Tick(f) \/ OtosAccess(f)
  <2>1. PICK why \in {"tick", "otos"} : Enter(f, why)
    BY <1>4 DEF Tick, OtosAccess
  <2>2. UNCHANGED <<live, command, asked>>
    BY <2>1 DEF Enter, Claim
  <2>3. StaysOut(f)
    <3>1. \/ Park(f, "wait", why, 0) \/ Park(f, "otos", "otos", 0)
          \/ BeginStep(f, "serve", 0, command, staged)
      BY <2>1 DEF Enter, Claim
    <3> QED BY <2>1, <3>1, ParkAlone, BeginsOutside DEF StaysOut, Pulsing
  <2> QED BY <2>2, <2>3, StaysNoLoops DEF StopInv, KernelFollows, StopEnds
<1>5. CASE Poll(f)
  <2>1. CASE live = "seg" /\ live' = "none" /\ SoftStop(f)
    BY <2>1, SoftStopEnds
  <2>2. CASE /\ Ends \/ \E mode \in {"drive", "neutral"} : Keeps(out, mode)
             /\ UNCHANGED <<fiberVars, asked>>
    BY <2>2 DEF Ends, Keeps, fiberVars, StopInv, NoLoops, KernelFollows, StopEnds
  <2> QED BY <1>5, <2>1, <2>2 DEF Poll
<1> QED BY <1>1, <1>2, <1>3, <1>4, <1>5 DEF Call

LEMMA ResumeStops ==
  ASSUME TypeOK, StopInv, NEW f \in Actors, Resume(f)
  PROVE  StopInv'
<1> live # "nudge" /\ FibersOK /\ aim[f] \notin Pulsing \cup {"pulse"}
  BY DEF StopInv, NoLoops, TypeOK
<1>1. CASE LeftTick(f)
  BY <1>1 DEF LeftTick, StopInv, NoLoops, KernelFollows, StopEnds
<1>2. CASE ServeTick(f)
  <2>1. \/ UNCHANGED <<live, command>>
        \/ Ends
        \/ \E mode \in {"drive", "neutral"} : Keeps(out', mode)
    BY <1>2 DEF ServeTick
  <2>2. asked' = asked
    BY <1>2 DEF ServeTick
  <2>3. KernelFollows' /\ StopEnds' /\ live' # "nudge"
    BY <2>1, <2>2 DEF Ends, Keeps, StopInv, KernelFollows, StopEnds
  <2>4. \/ \E p, mode : Deliver(f, p, mode)
        \/ BeginSettle(f, "ended", "neutral", staged)
    BY <1>2 DEF ServeTick
  <2>5. StaysOut(f)
    BY <2>4, DeliversOutside, SettlesOutside DEF Settling
  <2> QED BY <2>3, <2>5, StaysNoLoops DEF StopInv
<1>3. CASE SettleStep(f)
  <2>1. UNCHANGED <<live, command, asked>> /\ aim[f] \in Settling
    BY <1>3 DEF SettleStep
  <2>2. \/ \E p : Deliver(f, p, command)
        \/ Release(f) \/ GoIdle(f)
        \/ BeginStep(f, aim[f], remaining[f] - 1, command, staged)
    BY <1>3 DEF SettleStep, Settled
  <2>3. StaysOut(f)
    BY <2>1, <2>2, DeliversOutside, ReleasesOutside, BeginsOutside, ParkAlone
       DEF GoIdle, StaysOut, Pulsing
  <2> QED BY <2>1, <2>3, StaysNoLoops DEF StopInv, KernelFollows, StopEnds
<1>4. CASE PulseStep(f)
  BY <1>4 DEF PulseStep
<1>5. CASE OtosDone(f)
  <2>1. StaysOut(f) /\ UNCHANGED <<live, command, asked>>
    BY <1>5, ParkAlone DEF OtosDone, GoIdle, StaysOut, Pulsing
  <2> QED BY <2>1, StaysNoLoops DEF StopInv, KernelFollows, StopEnds
<1>6. CASE Acquire(f)
  <2>1. aim[f] \in {"tick", "otos"}
    BY <1>6 DEF Acquire, FibersOK, Fits, Waiting
  <2>2. UNCHANGED <<live, command, asked>>
        /\ (Park(f, "otos", "otos", 0) \/ BeginStep(f, "serve", 0, command, staged))
    BY <1>6, <2>1 DEF Acquire, Claim
  <2>3. StaysOut(f)
    BY <2>2, ParkAlone, BeginsOutside DEF StaysOut, Pulsing
  <2> QED BY <2>2, <2>3, StaysNoLoops DEF StopInv, KernelFollows, StopEnds
<1> QED BY <1>1, <1>2, <1>3, <1>4, <1>5, <1>6 DEF Resume

LEMMA StopInvStep ==
  ASSUME TypeOK, NoPulses, StopInv, [Next]_vars
  PROVE  StopInv'
<1>1. CASE WatchdogFires
  BY <1>1, SoftStopEnds DEF WatchdogFires, StopEngine, Actors, StopInv, NoLoops
<1>2. CASE Age \/ (\E w \in Wheels : Fault(w) \/ Heal(w)) \/ UNCHANGED vars
  BY <1>2 DEF Age, Fault, Heal, vars, fiberVars, StopInv, NoLoops, KernelFollows, StopEnds
<1> QED BY <1>1, <1>2, CallStops, ResumeStops DEF Next

LEMMA StopInvInit == Init => StopInv
BY DEF Init, StopInv, NoLoops, KernelFollows, StopEnds, Pulsing

(* Once a stop was the last thing asked for, no tick that was in flight    *)
(* re-arms what it ended: the engine has no command and the kernel is      *)
(* neutral, in every program without open-loop pulses.                     *)
THEOREM StopsStick ==
  ASSUME NoPulses
  PROVE  Spec => []StopSticks
<1>1. StopInv /\ TypeOK => StopSticks
  BY DEF StopInv, StopSticks, KernelFollows, StopEnds, TypeOK
<1>2. TypeOK /\ StopInv /\ [Next]_vars => StopInv'
  BY StopInvStep, NoPulses
<1> QED BY <1>1, <1>2, StopInvInit, TypeCorrect, PTL DEF Spec
(* A stop on the wheels: while no brick was ever deaf, after a stop that is *)
(* not left staged nothing is staged for the motors and no wheel is on.    *)
NeverDeaf == faults = 0 => deaf = {}
Still == ~staged /\ ~Running(port)
StopDone == asked = "stop" /\ ~pendingStop /\ faults = 0 => Still
ReachInv == TypeOK /\ StopInv /\ NeverDeaf /\ StopDone

LEMMA NeutralStages ==
  ASSUME NEW f, NEW why, NEW n, NEW stagedNow, ~stagedNow,
         BeginStep(f, why, n, "neutral", stagedNow)
  PROVE  ~staged'
BY DEF BeginStep, StageDuty, Demand

LEMMA ZeroedIsOff ==
  ASSUME deaf = {}, NEW p
  PROVE  ~Running(Zeroed(p))
BY DEF Running, Zeroed

LEMMA TickedIsOff ==
  ASSUME TypeOK, deaf = {}, Still, NEW w \in Wheels, NEW p \in Ticked(w)
  PROVE  ~Running(p)
<1>1. Shaped(w) = {FALSE}
  BY DEF Shaped, Still
<1>2. p = [port EXCEPT ![w] = FALSE] /\ port \in [Wheels -> BOOLEAN]
  BY <1>1 DEF Ticked, TypeOK
<1> QED BY <1>2 DEF Still, Running

LEMMA SoftStopReaches ==
  ASSUME NeverDeaf, NEW f \in Actors, SoftStop(f)
  PROVE  StopDone'
<1> SUFFICES ASSUME ~pendingStop', faults' = 0 PROVE Still'
  BY DEF StopDone
<1>1. /\ port' = Zeroed(port) /\ faults = 0
      /\ BeginStep(f, "stop", MaxSettle - 1, "neutral", FALSE)
  BY DEF SoftStop, BeginSettle, busVars
<1>2. ~staged'
  BY <1>1, NeutralStages
<1> QED BY <1>1, <1>2, ZeroedIsOff DEF NeverDeaf, Still

\* What is delivered at the end of a neutral step leaves the wheels off: the
\* staged stop if there is one, and otherwise what the step wrote.
LEMMA DeliverReaches ==
  ASSUME deaf = {}, NEW f, NEW p, Deliver(f, p, "neutral"),
         ~pendingStop => ~staged /\ ~Running(p)
  PROVE  Still'
<1>1. CASE pendingStop
  <2>1. port' = Zeroed(p) /\ BeginStep(f, "staged", MaxSettle - 1, "neutral", FALSE)
    BY <1>1 DEF Deliver, BeginSettle
  <2>2. ~staged'
    BY <2>1, NeutralStages
  <2> QED BY <2>1, <2>2, ZeroedIsOff DEF Still
<1>2. CASE ~pendingStop
  BY <1>2 DEF Deliver, Still
<1> QED BY <1>1, <1>2

LEMMA CallReaches ==
  ASSUME ReachInv, NoPulses, NEW f \in Fibers, Call(f)
  PROVE  StopDone'
<1> f \in Actors /\ live # "nudge"
  BY DEF Actors, ReachInv, StopInv, NoLoops
<1>1. CASE Stop(f)
  BY <1>1, SoftStopReaches DEF Stop, ReachInv
<1>2. CASE EmergencyStop(f)
  <2>1. port' = Zeroed(port) /\ staged' = FALSE /\ UNCHANGED <<faults, deaf>>
    BY <1>2 DEF EmergencyStop, busVars
  <2> QED BY <2>1, ZeroedIsOff DEF StopDone, Still, ReachInv, NeverDeaf
<1>3. CASE EstopClear(f) \/ Rebase(f)
  BY <1>3 DEF EstopClear, Rebase, kernelVars, rigVars, busVars, ReachInv, StopDone, Still
<1>4. CASE StartWheels(f) \/ StartMove(f) \/ StartNudge(f)
  BY <1>4 DEF StartWheels, StartMove, StartNudge, StartGoal, StopDone
<1>5. CASE PulseWheels(f)
  BY <1>5 DEF PulseWheels, Enter, NoPulses
<1>6. CASE Tick(f) \/ OtosAccess(f)
  <2>1. PICK why \in {"tick", "otos"} : Enter(f, why)
    BY <1>6 DEF Tick, OtosAccess
  <2>2. UNCHANGED <<asked, pendingStop, faults, port>>
        /\ (staged' = staged \/ BeginStep(f, "serve", 0, command, staged))
    BY <2>1 DEF Enter, Claim, kernelVars, busVars
  <2> SUFFICES ASSUME asked = "stop", ~pendingStop, faults = 0 PROVE Still'
    BY <2>2 DEF StopDone
  <2>3. command = "neutral" /\ Still
    BY DEF ReachInv, StopInv, KernelFollows, StopEnds, StopDone, TypeOK
  <2>4. ~staged'
    BY <2>2, <2>3, NeutralStages DEF Still
  <2> QED BY <2>2, <2>3, <2>4 DEF Still
<1>7. CASE Poll(f)
  <2>1. CASE SoftStop(f)
    BY <2>1, SoftStopReaches DEF ReachInv
  <2>2. CASE UNCHANGED <<kernelVars, rigVars, busVars, asked>>
    BY <2>2 DEF kernelVars, rigVars, busVars, ReachInv, StopDone, Still
  <2> QED BY <1>7, <2>1, <2>2 DEF Poll
<1> QED BY <1>1, <1>2, <1>3, <1>4, <1>5, <1>6, <1>7 DEF Call

LEMMA ResumeReaches ==
  ASSUME ReachInv, NEW f \in Actors, Resume(f)
  PROVE  StopDone'
<1>1. UNCHANGED <<asked, faults>>
  <2>1. CASE Acquire(f)
    BY <2>1 DEF Acquire, Claim, busVars, ReachInv, StopInv, NoLoops, TypeOK, FibersOK, Fits, Waiting
  <2> QED BY <2>1 DEF Resume, LeftTick, ServeTick, SettleStep, PulseStep, OtosDone, busVars
<1> SUFFICES ASSUME asked = "stop", ~pendingStop', faults = 0 PROVE Still'
  BY <1>1 DEF StopDone
<1>2. /\ live = "none" /\ command = "neutral" /\ deaf = {}
      /\ aim[f] \notin Pulsing \cup {"pulse"} /\ (~pendingStop => Still)
  BY DEF ReachInv, StopInv, NoLoops, KernelFollows, StopEnds, NeverDeaf, StopDone, TypeOK
<1>3. \A w \in Wheels : \A p \in Ticked(w) : ~pendingStop => ~Running(p)
  BY <1>2, TickedIsOff DEF ReachInv
<1>4. CASE LeftTick(f)
  BY <1>2, <1>3, <1>4 DEF LeftTick, rigVars, Wheels, Still
<1>5. CASE ServeTick(f)
  <2>1. PICK p \in Ticked("right") : Deliver(f, p, "neutral")
    BY <1>2, <1>5 DEF ServeTick, Keeps
  <2> QED BY <1>2, <1>3, <2>1, DeliverReaches DEF Still, Wheels
<1>6. CASE SettleStep(f)
  <2>1. PICK p \in Ticked("right") :
          \/ Settled(f, p)
          \/ /\ BeginStep(f, aim[f], remaining[f] - 1, "neutral", staged)
             /\ port' = p /\ UNCHANGED pendingStop
    BY <1>2, <1>6 DEF SettleStep
  <2>2. ~pendingStop => ~Running(p) /\ ~staged
    BY <1>2, <1>3 DEF Wheels, Still
  <2>3. CASE Deliver(f, p, command)
    BY <1>2, <2>2, <2>3, DeliverReaches
  <2>4. CASE port' = p /\ UNCHANGED <<pendingStop, staged>>
    BY <2>2, <2>4 DEF Still
  <2>5. CASE /\ BeginStep(f, aim[f], remaining[f] - 1, "neutral", staged)
             /\ port' = p /\ UNCHANGED pendingStop
    <3>1. ~staged'
      BY <2>2, <2>5, NeutralStages
    <3> QED BY <2>2, <2>5, <3>1 DEF Still
  <2> QED BY <2>1, <2>3, <2>4, <2>5 DEF Settled
<1>7. CASE PulseStep(f)
  BY <1>2, <1>7 DEF PulseStep
<1>8. CASE OtosDone(f)
  BY <1>2, <1>8 DEF OtosDone, kernelVars, rigVars, Still
<1>9. CASE Acquire(f)
  <2>1. /\ UNCHANGED <<pendingStop, port>>
        /\ staged' = staged \/ BeginStep(f, "serve", 0, "neutral", staged)
    BY <1>2, <1>9 DEF Acquire, Claim, rigVars, ReachInv, TypeOK, FibersOK, Fits, Waiting
  <2>2. ~staged'
    BY <1>2, <2>1, NeutralStages DEF Still
  <2> QED BY <1>2, <2>1, <2>2 DEF Still
<1> QED BY <1>4, <1>5, <1>6, <1>7, <1>8, <1>9 DEF Resume

LEMMA NeverDeafStep ==
  ASSUME TypeOK, NeverDeaf, [Next]_vars
  PROVE  NeverDeaf'
<1>1. \/ UNCHANGED busVars
      \/ \E w \in Wheels : Fault(w) \/ Heal(w)
  BY DEF Next, vars, Age, WatchdogFires, SoftStop, Resume, LeftTick, ServeTick, SettleStep,
         PulseStep, OtosDone, Acquire, Call, Stop, EmergencyStop, EstopClear, StartWheels,
         StartMove, StartNudge, StartGoal, Rebase, Tick, OtosAccess, PulseWheels, Enter, Poll,
         busVars
<1>2. CASE UNCHANGED busVars
  BY <1>2 DEF NeverDeaf, busVars
<1>3. ASSUME NEW w \in Wheels, Fault(w) \/ Heal(w)
      PROVE  NeverDeaf'
  BY <1>3, BoundsAssumption DEF Fault, Heal, NeverDeaf, TypeOK
<1> QED BY <1>1, <1>2, <1>3

LEMMA ReachStep ==
  ASSUME NoPulses, ReachInv, [Next]_vars
  PROVE  ReachInv'
<1>1. TypeOK' /\ StopInv' /\ NeverDeaf'
  BY TypeStep, StopInvStep, NeverDeafStep, NoPulses DEF ReachInv
<1>2. StopDone'
  <2>1. CASE WatchdogFires
    BY <2>1, SoftStopReaches DEF WatchdogFires, Actors, ReachInv
  <2>2. CASE \E w \in Wheels : Fault(w)
    BY <2>2, BoundsAssumption DEF Fault, StopDone, ReachInv, TypeOK
  <2>3. CASE Age \/ (\E w \in Wheels : Heal(w)) \/ UNCHANGED vars
    BY <2>3 DEF Age, Heal, vars, kernelVars, rigVars, busVars, ReachInv, StopDone, Still
  <2> QED BY <2>1, <2>2, <2>3, CallReaches, ResumeReaches, NoPulses DEF Next
<1> QED BY <1>1, <1>2 DEF ReachInv

(* A stop reaches the wheels: with the guard free and no stop left staged  *)
(* they are off after a stop, whichever fiber's tick was under way when it *)
(* was called, as long as the bricks answer.                               *)
THEOREM StopsReachWheels ==
  ASSUME NoPulses
  PROVE  Spec => []StopReachesWheels
<1>1. Init => ReachInv
  BY TypeInit, StopInvInit DEF Init, ReachInv, NeverDeaf, StopDone, Still, Running
<1>2. ReachInv /\ [Next]_vars => ReachInv'
  BY ReachStep, NoPulses
<1>3. ReachInv => StopReachesWheels
  BY DEF ReachInv, StopDone, Still, StopReachesWheels
<1> QED BY <1>1, <1>2, <1>3, PTL DEF Spec
==============================================================================
