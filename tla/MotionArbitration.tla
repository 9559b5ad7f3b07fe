------------------------- MODULE MotionArbitration -------------------------
(***************************************************************************)
(* Who may move the robot, and what the host is told about it: the owner   *)
(* value of the protocol fiber (comms/protocol.cpp, core/motion_owner.h),  *)
(* its mirror in the wire adapter, the queue of RUN jobs, and the adapter's *)
(* record of the motion that is pending (comms/wire_adapter.cpp).          *)
(*                                                                         *)
(* CODAL's fibers are cooperative, so an action is the code between two    *)
(* yields.  The protocol fiber yields in the write of each ack, which comes *)
(* before the command is handed over, between the two settles of a kernel   *)
(* step, in the pacing sleep of a tick and in its idle sleep.              *)
(*                                                                         *)
(* Times are counted down.  The engine is abstracted to the one command it  *)
(* runs; wheels, guard and staged stops are the subject of TickEngine.     *)
(***************************************************************************)
EXTENDS Integers

CONSTANTS
    Blocks,         \* fibers of the block program (main script, button handlers)
    BlockCalls,     \* the calls they make
    Verbs,          \* the motion verbs the host sends
    MaxTimeout,     \* the longest timeout or lease of a command
    Slots,          \* RunQueue's slots
    Patience,       \* the watchdog's timeout
    LateWrites      \* whether a pass may write again after it handed a command over

AllBlockCalls == {"move", "twist", "wheels", "nudge", "stop", "estop", "clear"}
AllVerbs == {"MOVE_X", "GO_TO_W", "WHEELS_X", "WHEELS_V"}

ASSUME CallsAssumption == BlockCalls \subseteq AllBlockCalls /\ Verbs \subseteq AllVerbs
ASSUME BoundsAssumption ==
    /\ MaxTimeout \in Nat \ {0} /\ Patience \in Nat \ {0} /\ Slots \in Nat \ {0}
    /\ LateWrites \in BOOLEAN

None == "none"

VARIABLES
    owner,      \* Protocol::motionOwner_
    mirror,     \* WireAdapter::externalOwner_
    drive,      \* the engine's live command: its kind, who gave it, its time left
    expired,    \* MotionEngine::lastSegmentEndedByDeadline_
    latch,      \* the kernel's e-stop and stall latches
    out,        \* the two as last published by a step
    pending,    \* pendingActive_
    goal,       \* pendingGoalDirected_
    lease,      \* motionObligationActive_ and the time its deadline leaves
    done,       \* lastDoneReason_ of a goal-directed motion, and what ended it
    pc,         \* where the protocol fiber is
    nested,     \* whether its service pass runs inside a tick
    job,        \* whether it is running a RUN job
    queue,      \* how many jobs RunBridge's queue holds
    block,      \* where each block fiber is
    sinceTick,  \* time since the last tickDrive()
    fate        \* history: what became of the pending motion in the engine;
                \* "detached": it was there at once, or setWheels() took over

engineVars == <<drive, expired, latch, out>>
adapterVars == <<mirror, pending, goal, lease, done, fate>>
fiberVars == <<pc, nested, job, queue, block>>
vars == <<owner, engineVars, adapterVars, fiberVars, sinceTick>>

-----------------------------------------------------------------------------
(* The motion engine and the kernel's latches. *)

Rest == [kind |-> "rest", by |-> None, left |-> 0]
Forever == MaxTimeout + 1       \* a block's drive, which holds for an hour

MoveActive == drive.kind = "segment"                    \* isMoveActive()
Driving == drive.kind \in {"segment", "hold"}           \* isDriving()

(* The fate of the pending motion, when the command that runs is its own. *)
Ended(what) == IF drive.by = "wire" /\ fate = "going" THEN what ELSE fate
FateIs(what) == fate' = IF pending THEN Ended(what) ELSE fate

(* A command of the program itself replaces it, or what is left of it. *)
Overtake(what) == fate' = IF pending THEN what ELSE fate

(* A primitive replaces what runs and gives the kernel a fresh attempt; only *)
(* a segment that starts forgets how the last one ended.                    *)
Begin(kind, by, left) ==
    /\ drive' = [kind |-> kind, by |-> by, left |-> left]
    /\ expired' = (expired /\ kind # "segment")
    /\ latch' = [latch EXCEPT !.stall = FALSE]
    /\ out' = out

(* endMove() forgets a segment or a hold, and not a nudge. *)
EndMove ==
    /\ drive' = IF Driving THEN Rest ELSE drive
    /\ expired' = (expired /\ ~MoveActive)

SoftStop == EndMove /\ UNCHANGED <<latch, out>>

EstopAll == EndMove /\ latch' = [latch EXCEPT !.estop = TRUE] /\ out' = out

(* What service() may find after a step that published `now`: a segment may *)
(* be given up because the robot yaws the wrong way, also when its time is   *)
(* up, and either command when the kernel refuses the drive.                 *)
Outcomes(now) ==
    CASE drive.kind # "rest" /\ now.estop -> {"estop"}
      [] drive.kind = "nudge" /\ ~now.estop -> {"going", "arrived"}
      [] Driving /\ ~now.estop /\ now.stall -> {"stall"}
      [] drive.kind = "segment" /\ ~now.estop /\ ~now.stall ->
           IF drive.left = 0 THEN {"timeout", "wrongway"}
                             ELSE {"going", "arrived", "wrongway", "refused"}
      [] drive.kind = "hold" /\ ~now.estop /\ ~now.stall ->
           IF drive.left = 0 THEN {"timeout"} ELSE {"going", "refused"}
      [] OTHER -> {"going"}

(* The second half of kernel.step(), which may latch a stall while it drives *)
(* and publishes, and service() on what it published, which keeps of a       *)
(* segment's end only whether its deadline was the cause.                    *)
Serve ==
    \E stalls \in IF Driving THEN BOOLEAN ELSE {FALSE} :
        /\ latch' = [latch EXCEPT !.stall = @ \/ stalls]
        /\ out' = latch'
        /\ \E outcome \in Outcomes(latch') :
             IF outcome = "going"
               THEN UNCHANGED <<drive, expired, fate>>
               ELSE /\ drive' = Rest
                    /\ expired' = IF MoveActive THEN outcome = "timeout" ELSE expired
                    /\ FateIs(outcome)

-----------------------------------------------------------------------------
(* Motion ownership. *)

(* protocolTryTakeMotionOwnership(): whether a call may move the robot. *)
MayMove(onProtocolFiber) ==
    \/ onProtocolFiber /\ owner = "job"
    \/ owner \in {None, "block"}

\* Mutant: a live wire motion does not hold the drivetrain.
TakeForBlock_OverWire ==
    /\ owner # "job"
    /\ owner' = "block"
    /\ mirror' = "block"

TakeForBlock ==
    /\ owner \in {None, "block"}
    /\ owner' = "block"
    /\ mirror' = "block"

\* Mutant: the adapter is not told.
ReleaseBlock_KeepsMirror ==
    IF owner = "block" THEN owner' = None /\ mirror' = mirror
                       ELSE UNCHANGED <<owner, mirror>>

ReleaseBlock ==
    IF owner = "block" THEN owner' = None /\ mirror' = None
                       ELSE UNCHANGED <<owner, mirror>>

-----------------------------------------------------------------------------
(* The pending motion. *)

LeaseLive == lease.active /\ lease.left > 0         \* motionObligationDeadlineLive()

\* Mutant: a goal-directed motion is over when its lease is.
Reason_ByLease(moveActive, endedByDeadline) ==
    IF ~pending THEN None
    ELSE IF out.estop THEN "estop"
    ELSE IF out.stall THEN "stall"
    ELSE IF goal /\ ~moveActive /\ LeaseLive THEN "stop"
    ELSE IF LeaseLive THEN None ELSE "timeout"

(* resolvePendingReason(), over an engine whose move is active or not. *)
Reason(moveActive, endedByDeadline) ==
    IF ~pending THEN None
    ELSE IF out.estop THEN "estop"
    ELSE IF out.stall THEN "stall"
    ELSE IF goal THEN IF moveActive THEN None
                      ELSE IF endedByDeadline THEN "timeout" ELSE "stop"
    ELSE IF LeaseLive THEN None ELSE "timeout"

(* The record keeps that a call took the drivetrain, not which call did.     *)
Kept(became) == IF became = "replaced" THEN "detached" ELSE became

Completed(reason, became) ==
    IF pending /\ goal THEN [reason |-> reason, fate |-> Kept(became)] ELSE done

Resolved == /\ pending' = FALSE
            /\ lease' = [active |-> FALSE, left |-> 0]

(* resolvePendingIfDue(): every ack, STATUS and pass of run() asks. *)
ResolveIfDue ==
    LET reason == Reason(MoveActive, expired) IN
    IF reason = None THEN UNCHANGED <<pending, lease, done, fate>>
    ELSE /\ done' = Completed(reason, fate)
         /\ Resolved
         /\ fate' = "going"

(* forceResolvePending(), whose natural reason comes first. *)
Forced(forced, moveActive, endedByDeadline, became) ==
    LET reason == Reason(moveActive, endedByDeadline) IN
    Completed(IF reason = None THEN forced ELSE reason, became)

-----------------------------------------------------------------------------
Init ==
    /\ owner = None /\ mirror = None
    /\ drive = Rest /\ expired = FALSE
    /\ latch = [estop |-> FALSE, stall |-> FALSE] /\ out = latch
    /\ pending = FALSE /\ goal = FALSE /\ fate = "going"
    /\ lease = [active |-> FALSE, left |-> 0]
    /\ done = [reason |-> None, fate |-> "going"]
    /\ pc = "dispatch" /\ nested = FALSE /\ job = FALSE /\ queue = 0
    /\ block = [b \in Blocks |-> "program"]
    /\ sinceTick = 0

(* Other fibers run, and time passes, while the protocol fiber is at a yield: *)
(* a write, a settle, a pacing or idle sleep, whatever a job's handler does.  *)
Parked == pc \notin {"lines", "decide"} /\ ~(pc = "dispatch" /\ nested)
BusFree == pc # "step" /\ \A b \in Blocks : block[b] # "step"

-----------------------------------------------------------------------------
(* The protocol fiber: a pass of serviceOnce(). *)

\* Mutant: a pass inside a job's tick starts the next job.
DispatchJob_Nested ==
    /\ pc = "dispatch" /\ owner \in {None, "job"} /\ queue > 0
    /\ job' = TRUE /\ queue' = queue - 1
    /\ owner' = "job" /\ mirror' = "job"
    /\ pc' = "job"
    /\ UNCHANGED <<engineVars, pending, goal, lease, done, fate, nested, block, sinceTick>>

(* dispatchJob(): the job runs on this fiber until it returns. *)
DispatchJob ==
    /\ pc = "dispatch" /\ owner = None /\ queue > 0
    /\ job' = TRUE /\ queue' = queue - 1
    /\ owner' = "job" /\ mirror' = "job"
    /\ pc' = "job"
    /\ UNCHANGED <<engineVars, pending, goal, lease, done, fate, nested, block,
                   sinceTick>>

NoDispatch ==
    /\ pc = "dispatch" /\ (owner # None \/ queue = 0)
    /\ pc' = "lines"
    /\ UNCHANGED <<owner, engineVars, adapterVars, nested, job, queue, block,
                   sinceTick>>

JobReturns ==
    /\ pc = "job"
    /\ job' = FALSE
    /\ owner' = None /\ mirror' = None
    /\ pc' = "lines"
    /\ UNCHANGED <<engineVars, pending, goal, lease, done, fate, nested, queue, block,
                   sinceTick>>

EndOfPass == IF nested THEN "pace" ELSE "decide"

(* A line has arrived: its ack is formatted and its write yields. *)
WriteAck ==
    /\ pc = "lines"
    /\ ResolveIfDue
    /\ pc' = "ack"
    /\ UNCHANGED <<owner, engineVars, mirror, goal, nested, job, queue, block,
                   sinceTick>>

NoMoreLines ==
    /\ pc = "lines"
    /\ pc' = EndOfPass
    /\ UNCHANGED <<owner, engineVars, adapterVars, nested, job, queue, block,
                   sinceTick>>

(* Then the command is handed to the adapter; unless more is written in this *)
(* pass (a second line, a telemetry frame), the pass ends without a yield.   *)
HandOver ==
    /\ pc = "ack"
    /\ pc' \in IF LateWrites THEN {"lines"} ELSE {EndOfPass}
    /\ UNCHANGED <<nested, job, block, sinceTick>>

(* STATUS, GET, a stale or a refused line: nothing more happens here. *)
OtherLine ==
    /\ HandOver
    /\ UNCHANGED <<owner, engineVars, adapterVars, queue>>

(* A motion verb while a job or a block holds the drivetrain: err busy. *)
RefuseMotion ==
    /\ HandOver
    /\ mirror # None
    /\ UNCHANGED <<owner, engineVars, adapterVars, queue>>

Accept(goalDirected, time) ==
    /\ pending' = TRUE
    /\ goal' = goalDirected
    /\ lease' = [active |-> TRUE, left |-> time]
    /\ UNCHANGED <<owner, mirror, queue>>

Superseded == Ended("superseded")

(* MOVE_X, WHEELS_X, WHEELS_V: the previous motion is resolved first. *)
AcceptMotion(verb, time) ==
    /\ verb \in Verbs \ {"GO_TO_W"}
    /\ HandOver
    /\ mirror = None
    /\ done' = Forced("aborted", MoveActive, expired, Superseded)
    /\ Begin(IF verb = "WHEELS_V" THEN "hold" ELSE "segment", "wire", time)
    /\ fate' = "going"
    /\ Accept(verb = "MOVE_X", time)

(* GO_TO_W resolves it after the dispatch; within the arrival radius the    *)
(* dispatch does nothing and what was running goes on.                     *)
AcceptGoTo(time, far) ==
    /\ "GO_TO_W" \in Verbs
    /\ HandOver
    /\ mirror = None
    /\ IF far THEN Begin("segment", "wire", time) ELSE UNCHANGED engineVars
    /\ done' = Forced("aborted", drive'.kind = "segment", expired', Superseded)
    /\ fate' = IF far THEN "going" ELSE "detached"
    /\ Accept(TRUE, time)

(* STOP: the soft stop first, then the completion, then the obligation. *)
WireStop ==
    /\ HandOver
    /\ SoftStop
    /\ ReleaseBlock
    /\ done' = Forced("stop", FALSE, expired', Ended("stop"))
    /\ Resolved
    /\ fate' = "going"
    /\ UNCHANGED <<goal, queue>>

(* ESTOP is outside the sequence: it executes as it is read, and its reply's *)
(* write yields after it.                                                   *)
WireEstop ==
    /\ pc = "lines"
    /\ EstopAll
    /\ ReleaseBlock
    /\ done' = Completed("estop", Ended("estop"))
    /\ Resolved
    /\ fate' = "going"
    /\ pc' = "told"
    /\ UNCHANGED <<goal, nested, job, queue, block, sinceTick>>

Replied ==
    /\ pc = "told"
    /\ pc' = "lines"
    /\ UNCHANGED <<owner, engineVars, adapterVars, nested, job, queue, block,
                   sinceTick>>

(* SET estop_clear, refused while a wire motion or any move is live. *)
WireClear ==
    /\ HandOver
    /\ ResolveIfDue
    /\ LET busy == (lease'.active /\ lease'.left > 0) \/ MoveActive
       IN  latch' = IF busy THEN latch ELSE [latch EXCEPT !.estop = FALSE]
    /\ UNCHANGED <<owner, mirror, goal, drive, expired, out, queue>>

\* Mutant: the ring is one slot longer than its array.
WireRun_Overfills ==
    /\ HandOver
    /\ queue' = IF queue <= Slots THEN queue + 1 ELSE queue
    /\ UNCHANGED <<owner, engineVars, adapterVars>>

(* RUN: a job is queued, or refused when every slot is taken. *)
WireRun ==
    /\ HandOver
    /\ queue' = IF queue < Slots THEN queue + 1 ELSE queue
    /\ UNCHANGED <<owner, engineVars, adapterVars>>

(* RUN abort is not queued: its handler stops the move there and then. *)
WireAbort ==
    /\ HandOver
    /\ SoftStop
    /\ ReleaseBlock
    /\ FateIs(IF Driving THEN "stop" ELSE fate)
    /\ UNCHANGED <<pending, goal, lease, done, queue>>

(* The end of a pass of run(): tick while the wire's obligation is live. *)
TickForWire ==
    /\ pc = "decide" /\ ResolveIfDue
    /\ lease'.active /\ lease'.left > 0
    /\ owner' = "wire"
    /\ pc' = "acquire"
    /\ sinceTick' = 0
    /\ UNCHANGED <<engineVars, mirror, goal, nested, job, queue, block>>

\* Mutant: the pending motion is only looked at when the host asks.
Idle_NoPoll ==
    /\ pc = "decide" /\ ~(LeaseLive /\ Reason(MoveActive, expired) = None)
    /\ owner' = IF owner = "wire" THEN None ELSE owner
    /\ pc' = "dispatch"
    /\ UNCHANGED <<engineVars, mirror, pending, lease, done, fate, goal, nested, job,
                   queue, block, sinceTick>>

Idle ==
    /\ pc = "decide" /\ ResolveIfDue
    /\ ~(lease'.active /\ lease'.left > 0)
    /\ owner' = IF owner = "wire" THEN None ELSE owner
    /\ pc' = "dispatch"
    /\ UNCHANGED <<engineVars, mirror, goal, nested, job, queue, block,
                   sinceTick>>

(* A tick on this fiber: the guard, the step and service, the nested pass of *)
(* the service hook, the pacing sleep, the release of an idle drivetrain.    *)
Acquire ==
    /\ pc = "acquire" /\ BusFree
    /\ pc' = "step"
    /\ UNCHANGED <<owner, engineVars, adapterVars, nested, job, queue, block,
                   sinceTick>>

ServeTick ==
    /\ pc = "step"
    /\ Serve
    /\ pc' = "dispatch" /\ nested' = TRUE
    /\ UNCHANGED <<owner, mirror, pending, goal, lease, done, job, queue, block,
                   sinceTick>>

EndTick ==
    /\ pc = "pace"
    /\ IF Driving THEN UNCHANGED <<owner, mirror>> ELSE ReleaseBlock
    /\ nested' = FALSE
    /\ pc' = IF job THEN "job" ELSE "dispatch"
    /\ UNCHANGED <<engineVars, pending, goal, lease, done, fate, job, queue, block,
                   sinceTick>>

(* What a job's handler does: move, stop, tick. *)
JobMoves(time) ==
    /\ pc = "job" /\ MayMove(TRUE)
    /\ Overtake("replaced")
    /\ Begin("segment", "job", time)
    /\ UNCHANGED <<owner, mirror, pending, goal, lease, done, fiberVars, sinceTick>>

JobTicks ==
    /\ pc = "job"
    /\ pc' = "acquire"
    /\ sinceTick' = 0
    /\ UNCHANGED <<owner, engineVars, adapterVars, nested, job, queue, block>>

-----------------------------------------------------------------------------
(* The fibers of the block program. *)

BlockIdle(b, call) ==
    /\ Parked /\ call \in BlockCalls
    /\ block[b] = "program"
    /\ UNCHANGED <<pending, goal, lease, done, fiberVars, sinceTick>>

(* startMove(), startGoTo(): refused without a word while another owns. *)
BlockMoves(b, time) ==
    /\ BlockIdle(b, "move")
    /\ TakeForBlock
    /\ Overtake("replaced")
    /\ Begin("segment", "block", time)

BlockTwists(b) ==
    /\ BlockIdle(b, "twist")
    /\ TakeForBlock
    /\ Overtake("replaced")
    /\ Begin("hold", "block", Forever)

BlockNudges(b) ==
    /\ BlockIdle(b, "nudge")
    /\ TakeForBlock
    /\ Overtake("replaced")
    /\ Begin("nudge", "block", Forever)

(* setWheels() asks nobody. *)
BlockSetsWheels(b) ==
    /\ BlockIdle(b, "wheels")
    /\ Overtake("detached")
    /\ Begin("hold", "block", Forever)
    /\ UNCHANGED <<owner, mirror>>

(* stop, stop move. *)
BlockStops(b) ==
    /\ BlockIdle(b, "stop")
    /\ SoftStop
    /\ FateIs(IF Driving THEN "stop" ELSE fate)
    /\ ReleaseBlock

BlockEstops(b) ==
    /\ BlockIdle(b, "estop")
    /\ EstopAll
    /\ FateIs(IF Driving THEN "estop" ELSE fate)
    /\ ReleaseBlock

BlockClears(b) ==
    /\ BlockIdle(b, "clear")
    /\ latch.estop
    /\ latch' = [latch EXCEPT !.estop = FALSE]
    /\ UNCHANGED <<owner, mirror, drive, expired, out, fate>>

(* A tick on a block's fiber; the service hook does nothing there. *)
BlockTicks(b) ==
    /\ Parked /\ block[b] = "program"
    /\ block' = [block EXCEPT ![b] = "acquire"]
    /\ sinceTick' = 0
    /\ UNCHANGED <<owner, engineVars, adapterVars, pc, nested, job, queue>>

BlockAcquires(b) ==
    /\ Parked /\ BusFree /\ block[b] = "acquire"
    /\ block' = [block EXCEPT ![b] = "step"]
    /\ UNCHANGED <<owner, engineVars, adapterVars, pc, nested, job, queue,
                   sinceTick>>

BlockServes(b) ==
    /\ Parked /\ block[b] = "step"
    /\ Serve
    /\ block' = [block EXCEPT ![b] = "pace"]
    /\ UNCHANGED <<owner, mirror, pending, goal, lease, done, pc, nested, job, queue,
                   sinceTick>>

BlockEndsTick(b) ==
    /\ Parked /\ block[b] = "pace"
    /\ IF Driving THEN UNCHANGED <<owner, mirror>> ELSE ReleaseBlock
    /\ block' = [block EXCEPT ![b] = "program"]
    /\ UNCHANGED <<engineVars, pending, goal, lease, done, fate, pc, nested, job, queue,
                   sinceTick>>

-----------------------------------------------------------------------------
(* The watchdog, and time. *)

(* It looks for a live command or a wheel that is published to turn, which   *)
(* this module does not keep: without a command it may stop as well.         *)
WatchdogStops ==
    /\ Parked
    /\ sinceTick > Patience
    /\ SoftStop
    /\ FateIs(IF Driving THEN "watchdog" ELSE fate)
    /\ ReleaseBlock
    /\ UNCHANGED <<pending, goal, lease, done, fiberVars, sinceTick>>

CountDown(n) == IF n \in 1..MaxTimeout THEN n - 1 ELSE n

TimePasses ==
    /\ Parked
    /\ drive' = [drive EXCEPT !.left = CountDown(@)]
    /\ lease' = [lease EXCEPT !.left = CountDown(@)]
    /\ sinceTick' = IF sinceTick > Patience THEN sinceTick ELSE sinceTick + 1
    /\ UNCHANGED <<owner, mirror, expired, latch, out, pending, goal, done, fate,
                   fiberVars>>

-----------------------------------------------------------------------------
Times == 1..MaxTimeout

Accepting(time) ==
    \/ \E verb \in Verbs : AcceptMotion(verb, time)
    \/ \E far \in BOOLEAN : AcceptGoTo(time, far)

Handed ==
    \/ OtherLine \/ RefuseMotion \/ WireStop \/ WireClear \/ WireRun \/ WireAbort
    \/ \E time \in Times : Accepting(time)

Protocol ==
    \/ DispatchJob \/ NoDispatch \/ WriteAck \/ NoMoreLines \/ Handed \/ WireEstop \/ Replied
    \/ TickForWire \/ Idle \/ Acquire \/ ServeTick \/ EndTick
    \/ JobTicks \/ JobReturns \/ \E time \in Times : JobMoves(time)

Block(b) ==
    \/ \E time \in Times : BlockMoves(b, time)
    \/ BlockTwists(b) \/ BlockNudges(b) \/ BlockSetsWheels(b)
    \/ BlockStops(b) \/ BlockEstops(b) \/ BlockClears(b)
    \/ BlockTicks(b) \/ BlockAcquires(b) \/ BlockServes(b) \/ BlockEndsTick(b)

ProgramMoves(time) == JobMoves(time) \/ \E b \in Blocks : BlockMoves(b, time)

Next == Protocol \/ (\E b \in Blocks : Block(b)) \/ WatchdogStops \/ TimePasses

Spec == Init /\ [][Next]_vars

(* CODAL's round robin runs every fiber that is ready, so a fiber at a yield *)
(* goes on; time passes; the watchdog's poll recurs; a handler returns.      *)
ProtocolGoesOn ==
    \/ DispatchJob \/ NoDispatch \/ NoMoreLines \/ Handed \/ Replied
    \/ TickForWire \/ Idle \/ Acquire \/ ServeTick \/ EndTick

Fairness ==
    /\ WF_vars(ProtocolGoesOn) /\ SF_vars(Acquire) /\ SF_vars(JobReturns)
    /\ SF_vars(Driving /\ WatchdogStops) /\ SF_vars(TimePasses)
    /\ \A b \in Blocks :
         SF_vars(BlockAcquires(b)) /\ SF_vars(BlockServes(b)) /\ SF_vars(BlockEndsTick(b))

FairSpec == Spec /\ Fairness

-----------------------------------------------------------------------------
(* What must hold. *)

Owners == {None, "wire", "job", "block"}
Fates == {"going", "detached", "arrived", "timeout", "wrongway", "refused", "stall",
          "estop", "stop", "superseded", "replaced", "watchdog"}
Reasons == {None, "stop", "timeout", "estop", "aborted", "stall"}

(* Types of the owner, the engine, the adapter and the fibers. *)
ArbitrationTypeOK ==
    /\ owner \in Owners /\ mirror \in Owners \ {"wire"}
    /\ drive \in [kind : {"rest", "segment", "hold", "nudge"},
                  by : {None, "wire", "job", "block"}, left : 0..Forever]
    /\ expired \in BOOLEAN
    /\ latch \in [estop : BOOLEAN, stall : BOOLEAN]
    /\ out \in [estop : BOOLEAN, stall : BOOLEAN]
    /\ pending \in BOOLEAN /\ goal \in BOOLEAN /\ fate \in Fates
    /\ lease \in [active : BOOLEAN, left : 0..MaxTimeout]
    /\ done \in [reason : Reasons, fate : Fates]
    /\ pc \in {"dispatch", "job", "lines", "ack", "told", "decide", "acquire", "step",
              "pace"}
    /\ nested \in BOOLEAN
    /\ job \in BOOLEAN /\ queue \in 0..Slots
    /\ block \in [Blocks -> {"program", "acquire", "step", "pace"}]
    /\ sinceTick \in 0..(Patience + 1)

(* The two records of the owner agree, so that a wire motion is refused      *)
(* exactly while a job or a block holds the drivetrain (protocol.h).         *)
OwnersAgree ==
    /\ mirror # None => owner = mirror
    /\ owner \in {"job", "block"} => mirror = owner
    /\ job => owner = "job"

(* While a job runs no other job starts inside it, and nobody who asks for   *)
(* the drivetrain gets it; setWheels() does not ask (dispatchJob()).         *)
JobRunsAlone ==
    [][job =>
         /\ queue' >= queue
         /\ \/ drive'.by = drive.by \/ drive'.by \in {None, "job"}
            \/ drive'.by = "block" /\ drive'.kind = "hold"
      ]_vars

(* A block never takes the place of a wire motion whose obligation is live   *)
(* (motion_owner.h: refuse, never silently supersede).                       *)
BlockWaitsForWire ==
    [][lease.active /\ lease.left > 0 /\ fate = "going" => fate' # "replaced"]_vars

(* The host is told "timeout" of a goal-directed motion only when the        *)
(* engine's deadline ended it, however late it is polled: never of one that  *)
(* arrived, was given up on the wrong way or was refused (a go-to that was   *)
(* there at once, or one whose drivetrain another call took, may inherit     *)
(* it). One the deadline ended is never told as a stop, and one that still   *)
(* runs is only ever told aborted, unless a latch is on. This says nothing   *)
(* of what else "stop" is told of: see StopIsArrivalOrStop                   *)
(* (wire_adapter.cpp, resolvePendingReason()).                              *)
DoneTellsTheTruth ==
    /\ done.reason = "timeout" => done.fate \in {"timeout", "detached"}
    /\ done.fate = "timeout" => done.reason # "stop"
    /\ done.fate \in {"going", "superseded"} =>
          done.reason \in {None, "aborted", "stall", "estop"}

(* A motion told "stop" met its stop condition or was stopped, as            *)
(* wire_handler.h:241 has it. The code tells it too of a segment given up    *)
(* because the robot yaws the wrong way and of one whose drive is refused:   *)
(* service() only keeps whether the deadline was the cause.                  *)
StopIsArrivalOrStop ==
    done.reason = "stop" => done.fate \notin {"wrongway", "refused"}

(* Every accepted motion is reported done in the end, polled or not, ticked  *)
(* to its end or abandoned at its deadline, unless the host always replaces  *)
(* it before that, or the program starts one move after the other (run(),    *)
(* hasLiveMotionObligation(): what is asked is only whether a move runs).    *)
EveryMotionIsReported ==
    []<>(~pending) \/ []<><<\E time \in Times : Accepting(time) \/ ProgramMoves(time)>>_vars

=============================================================================
