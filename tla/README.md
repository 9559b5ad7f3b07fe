# A verification of the pxt-nezha-diffdrive firmware

The repository is a MakeCode extension: C++ firmware (CODAL on a micro:bit) and
block-facing TypeScript that drive a two-wheel robot on a PlanetX Nezha or a
Cutebot Pro brick, with Python host tools that deploy it, command it over USB
serial, radio or Wi-Fi, and measure what it did. This directory holds TLA+
models of the parts whose correctness depends on the order in which fibers,
messages, calls and runs of a tool meet, TLC configurations that check them on
small instances, and TLAPS proofs of results that hold for every instance.

CODAL fibers are cooperative: code runs until it sleeps or yields. There is no
preemption, and no interrupt handler touches the state modelled here, so an
action of a model is the code between two yields.

## 1. Inventory

On the robot:

| Component | State it keeps | Operations | What makes it correct |
|---|---|---|---|
| Tick engine, guard, stops, watchdog (`shims.cpp`, `core/bus_guard.h`) | `BusGuard::busy_`, `Rig::pendingStop_`, `pendingOtosZero`, `lastTick` | `tickDrive`, `stopAll`, `endMove`, `estopAll`, `updateMove`, `enginePulseWheels`, OTOS calls, `watchdogEntry` | one bus owner; a stop ends what was asked and reaches the wheels; abandoned motion stops |
| Control kernel (`core/diffdrive.*`) | command and its lease, e-stop latch, stall latch, staged and published duty, rebase epoch | `step` (yields twice), `drive`, `neutral`, `estop`, `estopClear` | the e-stop latch wins over a command already in flight; `Output` is an honest report |
| Motion engine (`motion/motion_engine.*`) | one live command: `seg_`, `hold_` or `nudge_` | `wheelsV`, `wheelsX`, `moveX`, `beginNudge`, `pulseWheels`, `service`, `endMove`, `settleToRest` | at most one live command; ends at its goal, deadline or stall; a stop ends it |
| Nezha motor ports (`platform/nezha_port.*`) | `stagedDuty_`, `lastWritten_`, encoder history | `stageDuty`, `tick`, `emergencyStop`, `collect`, `configureWiring` | a zero goes out unshaped and is repeated until acknowledged |
| Board wiring (`platform/board_*`, `core/motor_wiring.h`) | which port and sign each wheel has | `configureMotor`, the fault handler | two wheels never share a port; a port that is left is left stopped |
| Motion ownership (`core/motion_owner.h`, `comms/protocol.cpp`) | `motionOwner_`, the adapter's `externalOwner_` | take and release for blocks, jobs, wire motions | one mover at a time; the mirror agrees; nobody keeps the claim for ever |
| Wire adapter (`comms/wire_adapter.*`) | obligation deadline, pending id, last done id and reason | the motion verbs, STOP, ESTOP, STATUS, `lastDone` | every accepted motion is resolved, with the reason it ended for |
| RUN jobs (`comms/run_*`) | ring of payloads, registry of names | `offer`, `dispatchOne` | FIFO, nothing overwritten, no job inside a job |
| Wire reliability layer (`comms/wire_handler.*`) | `expectedNext_`, `gapOutstanding_`, `malformedCount_` | `feed`, `dispatch` per line | commands once and in order; receipts and reminders true |
| Outbound lines (`emit_queue.h`, `reply_backpressure.h`, `transport_sink.h`) | ring of lines | `enqueue`, bounded wait | in order, drops counted, the wait ends |
| Wi-Fi link, join walk, credentials (`comms/wifi_*`, `platform/wifi_flash_port.*`) | AT session, 8-slot transmit ring, reply target, slot being tried, flash records | `service`, `sendLine`, `set`, `clear` | replies go back to who asked; every stored credential gets its turn |
| Serial and radio transports, OTOS and Cutebot ports, numerics | receive ring, pose cache, duty policy | byte and register I/O | covered by the repository's own tests |

On the host:

| Component | State it keeps | What makes it correct |
|---|---|---|
| Sessions and carriers (`link.py`, `fieldlink.py`, `robotlink.py`, `wifilink.py`) | the sequence number, the line being retried, the relay's settings, the UDP peer | an ack is a receipt; a give-up stalls what follows; the session is with the robot asked for |
| rogo (`rogo/rogo.py`) | two threads over one socket | replies come out whole; the exit code says who closed |
| Deployment (`make_deploy.py`) | scratch copy, object cache, hex | what is flashed is this checkout with this robot's facts |
| Publishing (`publish_extension.py`) | the target's branch and tags | a tag names a tree of its own version |
| Telemetry (`tlm.py`, `tour_*`) | column header, sequence tracker, frames | values are filed under their columns; losses are counted |
| Acceptance suite (`wire_acceptance.py`) | its own counter, the cases' results | it passes nothing that did not run |
| Field runs (`field.py`, `camlink.py`, `reposition.py`, `tour_run.py`, `tour_practice.py`, `park.py`) | the last camera fix, the run's markers | drives stay inside the margin; a run waits for its own end |
| Wi-Fi provisioning (`provision_wifi.py`) | a reply window per slot | what is reported stored is stored |
| Reports (`leg_analysis.py`, `tour_chart.py`) | a recording | legs and verdicts are those of the run |
| Bench (`turn_sweep.py`, `pivot_truth.py`, `rotation_check.py`, `arc_capture.py`, `otos_levercal.py`, `test/test.ts`) | a row per movement | a row is about the movement it names |
| Blocks editor and generated sources (`blocks_env.py`, `blocks_toolbox.py`, `gen_config_field_enum.py`) | a project on disk, a server, annotations | nobody's work is lost; the sources follow their table |

How they interact. Every caller that moves the robot runs the kernel on its own
fiber through `tickDrive()`, one at a time under `BusGuard`. Stops come from
other fibers: the engine and the kernel are set at once, and the port write is
done at once if the guard is free or left staged (`pendingStop_`) for the fiber
that holds it. A watchdog fiber repeats the stop while `commandLooksActive()`.
The protocol fiber feeds one `WireHandler` per transport and calls one shared
`WireAdapter`; it ticks wire motions itself and runs RUN jobs inside its own
call chain, where the tick's service hook lets it go on reading lines. A block
asks the protocol fiber's owner value before it moves. A host program numbers
its commands, resends each until it reads an answer, and starts a session with
HELLO; most field tools send a numbered RUN line once and wait for the marker
the job prints.

What is hard here: the two yields in the middle of `kernel.step()`, during
which a stop, an e-stop or a new command finds a command already snapshotted; a
stop handed to another fiber; the watchdog's decision from a value published
one step earlier; a command mode (the nudge) that several paths do not know; a
motion that ends for one of several reasons between two polls; a decision taken
before a wait and applied after it; lost, late, repeated and reordered lines; a
session reset that may be lost, delayed or sent by somebody else; a counter at
its last value; a file or a flash page half written; a tool that starts where
the last run died. `hazards` in PROJECT.json lists them line by line, with the
properties that watch each.

## 2. Plan

Done: the tick engine; the reliability layer, its abstract specification and
the refinement proof; host sessions over four kinds of carrier; ownership,
completion and RUN jobs; the board's wiring; the host tools; and the proofs of
section 5, which cover every safety property of the robot's modules and of the
host tools that speak a protocol or keep something on disk, and the geometry and
the run reports of the field tools.

Left, in order:

1. Proofs of the promises of the host tools that are only model-checked:
   `PathsAreScored`, `MeasurementsAreSound` and `LayoutIsThePlan`.
2. `KernelLatches` (lease, stall, rebase epoch) and `EncoderArmor`, small
   modules under the tick engine.
3. The queue of lines that other fibers emit, and `lastDone` as a second
   transport sees it.

## 3. The modules and the code

### TickEngine

`at[f]` is the yield a fiber is parked at, `aim[f]` the loop it is in there and
`remaining[f]` that loop's counter; the other variables are the fields named in
the module. Duties, poses and times are abstracted: a wheel's port is on or off,
a kernel command is neutral or driving, `fresh` says whether the last tick is
within the watchdog's timeout.

| Actions | Code |
|---|---|
| `Tick`, `OtosAccess`, `PulseWheels` (`Enter`), `Acquire` | entry points that take the guard, and the spin of `BusGuard::acquire()` |
| `LeftTick`, `ServeTick` | `kernel.step()` from its first yield to its second, from there to the end of `service()` |
| `SettleStep`, `PulseStep` | one step of `settleToRest()` and of `firePulseAndSettle()`, and what their caller does next |
| `Deliver`, `Release` | the end of the tick: the staged stop, the release, the deferred OTOS zero |
| `Stop`, `EmergencyStop`, `EstopClear`, `WatchdogFires` | `stopAll()` and `endMove()`, `estopAll()`, `estopClear()`, one poll of `watchdogEntry()` |
| `StartWheels`, `StartMove`, `StartNudge`, `Rebase` | commands, which only set the engine |
| `Poll` | `updateMove()`, the service without a step and without the guard |
| `Age`, `Fault`, `Heal` | time, and a brick that stops answering and recovers |

Nondeterminism stands for data. A shaped duty may leave a wheel off or as it
was (slew, dwell, quantizer). A driving command may still ask for zero
(profile, lease, stall). `service()` may end any command (goal, deadline,
wrong way, stall) or keep it.

### WireHandler and CommandStream

`Receive(line)` is one call of `dispatch()`, split into one action per early
return and per outcome, in the code's order. A line is what tokenizing leaves
of it: verb class, id, whether `decode()` would accept it, and a tag for the
rest. `replies` is what that call writes, in order. `accepted` and `discarded`
are history. Verbs with the same effect on the sequencing state are one class
(PING, HELP, ID, VER, STATUS); what an accepted command then does is the other
modules' subject. `CommandStream` is the promise to the adapter: sessions, and
within each the commands 1, 2, 3, ... once each.

### WireSession

The handler, two lossy channels and a host. `OpenLink` is `open_link()` up to
the first HELLO; `Call` is `seqd()` up to its first send (`format()` allocates
the id once); `HostWindow(k)` is one timed `read()` in which the first k lines
under way arrive, and the loop's decision about them: match, resend or give up.
`Deliver` gives the handler a line and lets any part of its replies through. The
host may be killed and reopen at any point. The constant `Carriers` lists kinds
of carrier and a behaviour picks one, `carrier`: one that `reorders` (UDP) may
hand lines to the robot in another order; on a `shared` one others may send: a
HELLO (a discovery broadcast, another session) resets the handler's counter
(`AnothersHello`), and a command of theirs counts on it like this host's
(`AnothersCommand`; `rivals` remembers that one was accepted); `sessions`,
`holds` and `others` bound what it is used for. `DeliverNext` stands for CODAL's
and the relay's delivery, which are not in the repository, and is marked
external. `trusted` holds the commands of sessions whose `hello()` read the
banner of its own HELLO, until a rival's command is accepted: with two clients
on one counter an ack means nothing (`WireSession_TwoClients.cfg`).
`NoLeftovers` names the one exception a reordering carrier makes: a datagram of
an earlier session that arrives in a later one.

### MotionArbitration

An action is the code between two yields of the protocol fiber, of a block
fiber or of the watchdog. `owner` and `mirror` are the two records of who holds
the drivetrain, `drive` the engine's live command with who gave it, `pending`,
`goal`, `lease` and `done` the adapter's obligation and what it reports, `pc`
the place the protocol fiber yields at, `nested` whether its pass runs inside a
tick's service hook and `job` whether it is inside a RUN job; `fate` is history:
what became of the pending motion in the engine: it arrived, its deadline ended
it, it was given up because the robot yaws the wrong way (`wrongway`), the kernel
refused its drive, a latch ended it, or another command took its place. The
engine keeps of this only whether the deadline was the cause.

| Actions | Code |
|---|---|
| `DispatchJob`, `NoDispatch`, `JobMoves`, `JobTicks`, `JobReturns` | `run()`'s dispatch and a job that calls the motion blocks |
| `WriteAck`, `NoMoreLines`, `OtherLine`, `RefuseMotion`, `AcceptMotion`, `AcceptGoTo`, `WireStop`, `WireClear`, `WireRun`, `WireAbort` | a line: the ack is written first (a yield), then the adapter's verb; a SET is refused while a motion lives |
| `WireEstop`, `Replied` | ESTOP, which is not sequenced: the verb first, its reply (a yield) after it |
| `TickForWire`, `Acquire`, `ServeTick`, `EndTick`, `Idle` | the pass's own tick, with the hook between its two yields, and its idle sleep |
| `BlockMoves`, `BlockTwists`, `BlockNudges`, `BlockSetsWheels`, `BlockStops`, `BlockEstops`, `BlockClears`, `BlockTicks`, ... | the block shims |
| `WatchdogStops`, `TimePasses` | the poll, on a live command or a port that runs; leases, deadlines and time since the last tick count down |

`LateWrites` says whether a pass may yield in a write after it handed a command
over. With it the ownership invariant fails (run `owners_drift`); the other
runs show that everything else stands on that one gap.

### BoardWiring

`configureMotor()` called by any number of fibers beside a driver that ticks,
drives and stops. `Plan` is the decision `applyWiringRequest()` takes at the
call; `SoftStop` writes at once or stages; `Applies` is one pass over the
targets, in which a port that changes is stopped (`Rewire`), left, and begins,
which sleeps. A port keeps turning until a zero written to that port is
acknowledged (`board.running`); the brick may go deaf, and a hard fault zeroes
the ports its handler knows and resets the board to `BootWiring`.

### The host tools

Each module is one program, or the programs that share one mechanism, over the
world it acts on; steps of the program are the code between two points where
something else can happen: a line lost, another publisher's push, a camera frame
missed, a kill.

| Module | Models | Promise |
|---|---|---|
| `MakeDeploy` | scratch copy, injections in order, two attempts at a build over an object cache, flashing | what is flashed is this checkout with the address and the profile of the robot that was asked for; no two different names derive one address |
| `PublishExtension` | workflow and desk publishing to one repository while the checkout is edited | a tag names its version's tree; a published tree is the commit it names if nobody touched the checkout meanwhile |
| `WireAcceptance` | the suite's cases against `WireHandler`, which it extends, over a lossy carrier | on a carrier that loses nothing it fails no correct answer and passes nothing that did not run; whatever is lost, its counter is never ahead |
| `TelemetryStream` | frame numbers modulo the counter, header refresh, cut and lost lines, recorder | values are bound by name; received and dropped account for every frame made |
| `FieldRuns` | camera fixes, repositioning in three tries, seeds, RUN queue, end markers | drives stay inside the margin, tours start seeded, a run's end is its own |
| `FieldAngles`, `FieldGeometry` | `wrap`, `turn_total`, the parking planner, the assignment of camera tracks to corners | compared with reference definitions over all bounded inputs |
| `FieldPaths` | registration of tag mounts, poses from raw and registered tags, deviation from the rectangle, closure, the scores of a run; the calls on them are `FieldGeometry`'s | a registration touches its own tags only; a pose is of the robot's centre and front; deviations equal a count over the edges' points, and republished frames change no score |
| `WifiProvisioning` | tool, lossy link, `SET` with its ack before its write, flash page with a reset in the middle, the join walk | in a session whose HELLO and errs arrive and whose answers are not late, what is reported is stored; no stored credential waits for ever, whatever a reset left in the page |
| `RunReports` | the recorder's schemas, lost frames, legs told apart by holds, verdicts, charts | the file gives back the frames; legs and verdicts are the run's |
| `HostLinks` | relay settings left by others, name resolution with a lease that moves, lines in pieces, jobs resent, UDP keepalive | the session is with the robot asked for; lines are whole; a job runs at most once |
| `RogoLink` | the TCP server's clients, reply target, both rings, the wait for room that pumps the link, and rogo's two threads | a reply goes to its client and is whole, but for the cases the code allows; none stands behind telemetry; the exit code is honest. The wait is forbidden while a wire motion is live; that it also happens inside a RUN job's tick is what `RogoLink_MidTick.cfg` shows |
| `BenchMeasurements` | the five measuring tools with the job of `test.ts` each drives; camera frames come of a turning robot and of one at rest | the camera's turn of a row is the robot's; an OTOS row is of one pivot, a trajectory whole, a calibration one sweep. A row of `turn_sweep.py` need not be of a pivot (`BenchMeasurements_LostRun.cfg`) |
| `BlocksWorkspace` | project on disk, server, editor tabs, an interruption between any two files | no user's work is lost; a run that ends well leaves a complete project; its tab saves to disk if pxt serve is behind it (`open_editor()` reuses whoever listens on the port) |
| `GeneratedSources` | enum generator and toolbox generator with their refusals, a run that stops short, tables edited in between | when the generator is content the enum is the table's; the flyouts have the layout's blocks, subcategories and category order |

`MCHostTools` is these programs and `BoardWiring` in one specification: they
share nothing, and the variable `program` says which one a behaviour is of.

## 4. The runs

| Run | Question | Result |
|---|---|---|
| `tick_safety` | two user fibers and the watchdog, all closed-loop entry points | `BusExclusion`, `EstopStagesNothing`, `WatchdogSeesDuty`, `StopSticks`, `StopReachesWheels` hold |
| `tick_pulses` | nudges, polls and wire pulses, one brick fault | `EstopNeverDrives` holds |
| `tick_live` | fairness, one brick fault | `AbandonedStops`, `StopIsNotLost`, `EstopReachesWheels`, `GuardFreed` hold |
| `tick_nudge_stop` | a stop during a nudge | `StopSticks` fails: the next tick pulses again |
| `wire_safety` | any lines in any order, up to the last id | `SessionInOrder`, `ReceiptsAreTrue`, `ReminderIsTrue` hold, and the handler implements `CommandStream` |
| `session_safety` | retries, give-ups and reconnects over radio; one session over radio or UDP with another client on it, which sends HELLOs and commands | `RunsInIssueOrder` (in order, not shared), `AckIsReceipt`, `NoLegIsSkipped` hold |
| `session_heal` | a host that keeps resending, fair loss | `RetransmitHeals`: every command is executed and acknowledged |
| `arbitration` | wire motions, jobs, one block fiber, watchdog and time | `OwnersAgree`, `DoneTellsTheTruth`, `JobRunsAlone`, `BlockWaitsForWire` hold |
| `arbitration_live` | the same without blocks, under fairness | `EveryMotionIsReported` holds |
| `owners_drift` | a pass that writes after it handed a motion over | `OwnersAgree` fails |
| `wiring_race` | two fibers change the wiring | `PairStaysDistinct` fails: both wheels on one port |
| `host_tools` | every module of the last table, and the wiring with one rewirer | their promises hold |

Six more configurations each show, on the smallest instance, one place where the
code and what the repository says of it part. They are no part of the list of
runs in PROJECT.json; `tlc -config <cfg> <module>` ends each in seconds with the
violation.

| Configuration | Module | What it shows |
|---|---|---|
| `TickEngine_PolledNudge.cfg` | `MCTickEngine` | `BusExclusion` fails with a nudge that a second fiber polls: the poll steps the kernel without the guard |
| `WireSession_TwoClients.cfg` | `MCWireSession` | `StaleWasAccepted` fails with a second client that numbers commands of its own: an ack without execution |
| `MotionArbitration_StopReason.cfg` | `MCMotionArbitration` | `StopIsArrivalOrStop` fails: a motion given up on the wrong way, or refused, is told stop |
| `WireAcceptance_LostAck.cfg` | `MCWireAcceptance` | `PassesOnlyWhatRan` fails after one lost ack: the next case passes without having run |
| `RogoLink_MidTick.cfg` | `MCRogoLink` | `NeverSleepsMidTick` fails: a long reply waits in a pass nested in a RUN job's tick |
| `BenchMeasurements_LostRun.cfg` | `MCBenchMeasurements` | `SweepRowIsOfItsPivot` fails when a RUN line is lost: a row of a pivot that was not driven |

Each passing run also checks the type invariants of its modules, the handler's
inside `SessionTypeOK`. An invariant of `host_tools` is the conjunction of the
named promises of one module; `OutputsAreFaithful` joins those of the tools that
only write something down: `PathsAreScored`, `MeasurementsAreSound`,
`EnumIsTheTable` and `LayoutIsThePlan`.

Bounds and why they are enough.

- Tick engine: two user fibers and the watchdog: every hazard is one fiber
  parked at a yield, one that stops or starts, and the watchdog. `MaxSettle = 2`
  (12 in the code) gives a settle loop that ends early, one that runs out, and a
  step in between; `MaxPulse` of 1 or 2 a pulse with no, one or more steps
  before its zero. `MaxFaults = 1`: one wheel deaf while the other is not.
- `MaxSequenceId = 5` in the wire runs and 201 in the suite's, whose cases use
  the id 200. In the wire runs: 0, the ordinary ids, the last executable
  id and the reserved one, each reachable; a gap of more than one id.
  `MalformedModulus` of 2 in `wire_safety` makes the counter wrap; in
  `session_safety`, whose properties do not read it, it is 1.
- Sessions: three commands in two sessions leave a stale id, a command given up
  and one behind it. Two lines under way in each direction hold a late answer
  besides the current one; where another client sends, there is one session, since
  a second one adds only the leftovers that `NoLeftovers` excludes. Two lines of
  the other client are a HELLO and the #1 behind it. A full channel loses the
  line, which the carrier may do anyway.
- Arbitration: one block fiber, one queue slot, `Patience = 1`: every claim is
  contested by one block, one job and the wire. `MaxTimeout` of 1 (2 for
  liveness) tells a motion that expires from one that does not.
- `FieldPaths`: paths of up to three rows on and off a small rectangle; `analyse()`
  looks at paths of three rows where the code wants twenty, so that a repeated
  frame, a jump and a pause between frames all meet in one path.
- Wiring: one rewirer in `host_tools`, since two race; two calls, one period of
  deafness and one hard fault give a change, a swap back, and either failure in
  the middle.
- Host tools: the numbers of HostTools.cfg. Constants of the code are scaled so
  that their limits are met: `SeqModulus = 3` wraps within a capture,
  `RefreshFrames = 2` (20) repeats a header, `KeepAlive` and `Silence` of 4 and
  16 stand for 15 s and 60 s, rings of 2 for 8, `StaleAfter = 1` for 40 frames.
  Two losses, two builds, two slots and three corners are what the worst case
  of each promise takes. The two command lines of the acceptance suite run
  every section between them, at most two losses in each.
- Symmetry is not used: the bounds are small enough without it.

Deadlock is checked in the tick, handler, arbitration and wiring runs. The
session runs and `host_tools` say `CHECK_DEADLOCK FALSE`: a host that has issued
its commands and a program that has ended are done.

Fairness. `TickEngine`: every parked fiber is scheduled again (CODAL's
round-robin run queue; a sleep ends), the watchdog's poll recurs, time passes,
and a brick that stopped answering recovers. Weak fairness on each suffices. No
user fiber is obliged to call anything, which is exactly the situation the
watchdog is for. `MotionArbitration`: the same round robin, as weak fairness of
the protocol fiber's steps and strong fairness of those that other fibers can
disable for a moment (taking the bus, the watchdog's poll, time); a job returns.
`WireSession`: the robot's loop takes the lines that arrive and the host's read
loop goes on (weak fairness); a line sent again and again gets through some
time, in both directions (strong fairness; the tools quote 66-83% per-line
delivery on the radio).

Every property of a passing run has a mutant: a definition with a plausible bug
(a write that ignores the guard, a stale line executed again, an owner released
without its mirror, a reply sent to the newest client, a wrap with the wrong
closed end, a port left before it is stopped, ...) under which TLC finds the
property violated. They stand beside the definition they alter.

## 5. The proofs

`tlapm` checks 26,800 obligations in eight modules. Each theorem holds for every
value of the constants that the named assumptions of the module allow (`ASSUME`
in the module that declares the constant); a further hypothesis on the program
or the carrier is named below, with what happens without it.

### Tick engine (`TickEngine_proofs`, 1240 obligations)

For any set of fibers, any entry points and any bounds, from `FibersAssumption`,
`OpsAssumption` and `BoundsAssumption`:

- `TypeCorrect`: `Spec => []TypeOK`. `TypeOK` is inductive as it stands,
  because it includes that a fiber's aim fits the yield it is parked at.
- `EstopStaging`: `EstopStagesNothing` is not inductive. A step under the latch
  skips staging a zero when the kernel believes nothing is written, so what is
  staged must be implied by that belief: the invariant adds `StagedIsWritten`.
- `WatchdogProxy`: by a case split on how a step may change the ports: it ends
  a kernel step and publishes what they run, or turns nothing on, or leaves a
  fiber inside a step that will publish.
- `EstopHolds`: the action property `EstopNeverDrives`, from the staging
  invariant: only a staged duty can turn a wheel on.
- `OneBusOwner`: `BusExclusion` for a program that does not both nudge and poll
  (`PollsNoNudge`; `isMoving()` services a live nudge without the guard, see
  section 6, so the assumption is needed). Every step
  either keeps the guard and who is on the bus, or takes it from nobody, or
  gives it back; the invariant adds where a nudge can be live.
- `StopsStick` and `StopsReachWheels`: `StopSticks` and `StopReachesWheels` for a
  program without nudges and pulses (`NoPulses`; with them the first fails, run
  `tick_nudge_stop`). `StopInv` says that no fiber is in a pulse's loop, that the
  kernel drives only while the engine has a live command, and that a stop leaves
  none. `ReachInv` adds that, as long as no port was ever deaf and the stop is not
  left staged, nothing is staged for the motors and no wheel is on.

### Reliability layer and sessions (`WireSession_proofs`, 3600 obligations)

For any width of the sequence space, any contents and refusal codes, from
`MaxSequenceIdAssumption`, `ModulusAssumption` and `ErrCodesAssumption`:

- `Inv` joins the four invariants with `GapIsOpen`: while the stall bit is set a
  refused id is still at or past `expectedNext_`. Without it `ReminderIsTrue`
  speaks of `replies` only and is not inductive. `SessionInOrder` carries the
  arithmetic: `expectedNext_` is one past the number accepted, so the reserved id
  is the only one that could wrap it, and `ReservedId` refuses it.
- `TypeCorrect`, `InOrder`, `TrueReceipts`, `TrueReminders` project `Inv`.
- `Refinement`: `HandlerSpec => ImplementsStream`. `Accept` is `HandOver`, HELLO
  is `NewSession`, every other step stutters.
- `SessionsEndByHello`: the action property `OnlyHelloEndsSession` (in no run).

The sessions' theorems hold for any number of commands, sessions, tries, lines
on their way and other clients, and use the handler's `Inv`, which every step of
a session keeps.

- `HostInvariance`: `HostInv`, the books of the retry loop: which id, try and
  window fit each place of `hello()` and `seqd()`. `SessionTypeCorrect` projects it.
- `OrderInvariance`, hence `RunsInIssueOrderHolds`: on a carrier that keeps
  order and has one client (`Solo`) the lines on their way stand in the order of
  their issue, and none is older than what the robot ran last; a copy of that
  one has no HELLO before it, so the handler still knows its id as stale. The
  same is said of the line the host may send again. A command taken then extends
  an ascending list. `RunsInIssueOrder` itself speaks of such carriers only
  (section 6 has the ones that break it).
- `TrustInvariance`: once `hello()` has read the banner of its own HELLO, a
  command's id and its place in the order of issue differ by a constant
  (`Course`). `Trust` says so of the lines under way, of the robot's list and of
  the acks, what must hold before the banner is read for this to begin
  (`FreshStart`), and what is left of it for trusted commands once the next
  session has begun. All of it ends with the first command of another client's
  that the handler accepts, after which nothing is trusted before the next
  banner. `AckIsReceiptHolds` and `NoLegIsSkippedHolds` follow; on a carrier
  that reorders they are about the first session (`Unmixed`), as the properties
  are (`NoLeftovers`).

### Ownership (`MotionArbitration_proofs`, 1230 obligations)

For any block fibers, queue, clock, watchdog timeout and program.

- `TypeCorrect`; the queue never holds more than its ring.
- `JobOwnsTheFiber` (`FibersInv`): wherever the protocol fiber is while a job
  runs, both records name the job. `JobRunsAloneHolds` is the action property it
  is for. Neither needs an assumption on what a pass writes.
- `OwnersStayInStep`: `OwnersAgree`, if no pass yields in a write between handing
  a command over and `run()`'s decision to tick (`~LateWrites`). `OwnersInv` adds
  that while the wire's obligation is live the wire holds the drivetrain, save
  between the accept and the decision at the end of the same pass. With late
  writes it is false (run `owners_drift`). `BlockWaitsForWireHolds` has the same
  proviso.
- `ReasonsAreTrue`: `DoneTellsTheTruth`, late writes or not, from `FateInv`: while
  a goal is pending, the engine's state still shows whether its deadline ended it,
  so a reason resolved late is not `timeout` for a motion that arrived, was given
  up or was refused, nor `stop` for one that ran out of time. Which of the other
  ends a `stop` was is not kept, and the theorem does not say it is one: a motion
  given up on the wrong way is told `stop` (`MotionArbitration_StopReason.cfg`).

### Wiring (`BoardWiring_proofs`, 1144 obligations)

- `WiringTypeCorrect` and `NoOrphanedWheel`, for any number of fibers that rewire
  and any faults. `SafeInv` is types, `OrphansWereUnheard` (a port no side
  addresses turns only if the brick did not hear its zero) and `RestInv` (after a
  rewiring the command is neutral until somebody drives, and once no stop is staged
  nothing is staged for the ports or turns, unless it was not heard).
- `WiringSound`: all of `WiringIsSound` if at most one fiber rewires
  (`SoleRewirer`): `DistinctInv` says that the rest of the plan in
  hand ends in two different ports. Two rewirers break it (run `wiring_race`).

### Developer tools (`DeveloperTools_proofs`, 2710 obligations)

- `PublishTypeCorrect`, `PublishedIsAuthoredHolds`, for any publishers, options
  and edits. `PublishInv` says what a run holds at each of its places (`Honest`,
  `Placed`), and that commits and tags on the remote are such runs' results
  (`CommitsInv`, `TagNamesItsVersion`).
- `AddressesAreApart`, by arithmetic: 73 and 241 are coprime and 73 * 208 is 1
  modulo 241, so the two remainders that `DeriveRadio` takes give the name's
  number back, which is what `AddressToName` does. It is about different names;
  boards that share one, or whose configurations give one pair, are not compared
  by the program. `DeployTypeCorrect`,
  `DeploysSound`: `DeployInv` says for each step of a build what its scratch copy
  already holds, and that a hex holds that copy in every unit its log names, once
  accepted in every expected unit (`AtStep`).
- `BlocksTypesHold`, `WorkspaceHolds`, from `BlocksAssumption`: for any layout an
  earlier run left, any command lines and number of runs. `BlocksInv` is
  `WorkspaceShapes` (types, and which files a project has), `ScratchInv` (what an
  interrupted run can have left), `PhaseInv` (what a run has done at each of its
  places) and `TabInv` (which tab can save where, and who is behind it). Of a tab
  that was opened on another program's port nothing is claimed.
- `EnumIsCurrent`, from `GenAssumption`: `EnumInv` says that when
  `gen_config_field_enum.py` is content the enum is the rendering of a table it
  did not refuse, and such a rendering has every field and no ordinal twice.

### Links (`HostLinks_proofs`, 2450 obligations)

- `LinkTypesHold`, `CarriersHold`, from `LinkAssumption` and `FleetAssumption`:
  robots have different addresses, a complete calibration entry holds the one
  that was flashed, and the robot's patience is longer than the keepalives that
  may be lost (60 s against three of 15 s in the code). `LinkInv` is `WhoInv`
  (whose settings the relay and the resolver have at each place of `open`),
  `StreamInv` (what was read, the partial line and the rest make up what was
  said, in order), `JobInv` (which id the robot can expect between and during
  the tries of a job, so that it runs one of them at most) and `PeerInv` (how
  much of the patience the lost datagrams have used).
- `RogoTypesHold`, `PipesHold`, from `RogoAssumption`, for any clients, rings and
  waits. `RogoInv` is `ServerInv` (who is open and who is written to), `ModuleInv`
  (the send in flight and what the module still holds), `FiberInv` (what the
  protocol fiber is answering while it waits for room, and how much of it is
  queued) and `PipeInv` (what rogo's two threads know of the socket).

### Field tools (`FieldTools_proofs`, 7770 obligations)

- `FieldTypesHold`, `FieldRunsHold`, from `FieldAssumption`, for any spots,
  camera errors, tries and jobs. `FieldInv`: a program sends one job at a time
  and reads until it is over, so one of the queue, the robot and the last marker
  holds what is under way (`OneJob`, `InOrder`, `EndsAreTold`); a seed under way
  is of the place the robot stands at, and one that arrived leaves its belief no
  offset (`SeedsAreTrue`, `ToursAreInFrame`); what is driven to is inside the
  margin (`GotosAreInside`, `RoutesApart`).
- `GeometryHolds`, from `GeometryAssumption`, for any angles, poses, calibration
  file and tracks of any length over any number of dots. A state is one call, so
  the invariant is what the functions return: `wrap` is the only value in its
  interval that differs by whole turns, `plan` is a case split on its three
  forms, and `Claims` and `register` are recursive functions. Such a function is
  shown to exist by following its iterates (`Iterated`), after which it unfolds as
  it is written, and what it keeps is proved for every argument up to a bound.
  That plates are skewed by at most 20 degrees is assumed; half a turn would
  exchange front and back.
- `ReportTypesHold`, `ReportsHold`, from `ReportAssumption`, for any captures of
  any length. `RunInv` says that the recording is the frames that were received,
  in order, and the file their rows; `ToldInv`, for a run whose holds were all
  recorded (`told`), which samples begin and end each leg that was driven
  (`LegsAre`), from which the legs that `analyze()` tells apart follow one by one.

### Provisioning, telemetry, acceptance (`HostTools_proofs`, 6640 obligations)

- `WifiTypeCorrect`, `ProvisioningSound`: `WireInv` says that in a calm session
  the robot expects no id above the tool's next and nothing of an earlier exchange
  is on its way, so an answer is to this call; `WalkInv` bounds what a stored slot
  has waited by two attempts for each slot that had its turn since.
- `TelemetryTypeCorrect`, `TelemetryHonest`: `TelemetryInv` says that the lines in
  the air are of frames made, in their order, and later than what was decoded,
  that a decoded value is of a column its frame has, and that, with no gap of a
  whole turn of the counter, received and dropped add up to the frames made from
  the first one decoded to the last.
- `SuiteTypesHold`, `AcceptanceHolds`, from `SuiteAssumption` (a sequence space
  above the suite's 200) and the handler's assumptions. Each place of a section
  has a label, and `SuiteInv` says that what the label stands for holds there:
  `Loose(l)` with losses (the suite's counter is at most the robot's),
  `Exact(l)` without (the two are equal, or the robot's has the value the case
  was written for, with its stall bit). `Labelling` shows that the sections'
  lines lead from label to label.

Induction over data is done by hand where it is needed: a property of the
naturals is proved by its least counterexample (`WFMin` of the library, cited
in `LeastOf` and `FirstIsThere`); the library's own induction
theorems take an operator as parameter, which the installed provers do not
instantiate.

Model-checked only:

- all liveness (`AbandonedStops`, `StopIsNotLost`, `EstopReachesWheels`,
  `GuardFreed`, `RetransmitHeals`, `EveryMotionIsReported`): fairness and
  `ENABLED` are outside what the prover handles;
- of `OutputsAreFaithful` all but `EnumIsTheTable`: `PathsAreScored`,
  `MeasurementsAreSound` and `LayoutIsThePlan`, whose references count, sort and
  sum over sequences: each needs induction over the data of a fold, or a
  function the library gives no facts about (`SetToSortSeq`, `FlattenSeq`);
- `HostTypeOK`, which joins the types of all the host tools. The types of every
  tool with a proof module are theorems of their own.

## 6. What was found

With a run or a configuration each (the first three are `findings` in PROJECT.json
and have a run of its list):

- A stop does not end a nudge. `MotionEngine::endMove()` clears `seg_` and
  `hold_` and leaves `nudge_`, so the next tick fires the next pulse
  (`tick_nudge_stop`).
- `run()` writes `kWire` over whatever owner it finds after a pass that yielded
  in a write; the adapter keeps the block (`owners_drift`).
- `configureMotor()` decides from the wiring at the call and applies the decision
  after its soft stop and its wait for the guard; two callers can leave both
  wheels on one port (`wiring_race`).
- `isMoving()` services a live nudge without the guard (`shims.cpp:667`): whole
  kernel steps run beside another fiber's (`TickEngine_PolledNudge.cfg`). The
  runs in which `BusExclusion` holds poll no nudge.
- The handler has one counter for all its clients. A command whose number another
  client has used is acked as a retransmit and never executed
  (`WireSession_TwoClients.cfg`).
- A segment given up because the robot yaws the wrong way, or whose drive the
  kernel refuses, is told `stop`, which `wire_handler.h:241` keeps for a met
  condition or a stop (`MotionArbitration_StopReason.cfg`).
- The acceptance suite passes a command that was re-acked and not executed when
  an earlier ack was lost (`WireAcceptance_LostAck.cfg`).
- A reply longer than the ring waits for room inside a RUN job's tick: only a
  wire motion's obligation forbids the wait (`RogoLink_MidTick.cfg`), against
  `protocol.h:299-302`.
- `turn_sweep.py` counts camera frames of a robot at rest: a lost RUN line yields
  a row of a turn by 0 (`BenchMeasurements_LostRun.cfg`).

Met while modelling, without a run of their own. Tick engine and kernel:

- A staged stop is delivered against a command started after it was staged; the
  settle then steps a driving kernel (`shims.cpp:885`).
- `tickDrive()` looks for a staged stop once; one staged during the settle of
  the delivered one stays staged until the next tick or the watchdog.
- `estopAll()` writes the ports beside a guarded encoder window, on purpose
  (`EmergencyStop` takes no guard), although DESIGN.md:1651 says every I2C caller
  goes through the guard.
- Only `tickDrive()` delivers a staged stop, while an OTOS transaction also holds
  the guard: with `otos` in the program of `tick_live`, `AbandonedStops` fails
  for a fiber that reads the sensor in a loop after its last tick. That is why
  the run's program leaves it out.

Ownership and completion:

- `setWheels()` takes no ownership (`shims.cpp:434`), against
  `motion_owner.h:13-17`; `JobRunsAlone` therefore excepts it.
- A stall of the previous motion, still published, is read as the reason of a
  new one (`wire_adapter.cpp:669`); a stale `lastSegmentEndedByDeadline_` makes a
  GO_TO that starts within its radius report a timeout; GO_TO_W resolves after its
  dispatch, so such a goal is reported aborted.
- A motion abandoned at its deadline resolves as a stop, not a timeout
  (`wire_handler.h:242`); a block may take over after it and that move's end is
  reported as the wire motion's. A block's e-stop during a wire move resolves as
  a stop.
- A nudge's claim is dropped on its first tick. A goal motion that was superseded
  stays pending while the program chains moves.

Wiring (outside what `WiringIsSound` promises):

- During a swap both sides address one port between the two
  `configureWiring()` calls, with a sleep in between, although
  `shims.cpp:1362-1364` says they never do, "not even between two I2C writes".
- `diffdrive_emergency_motor_stop()` zeroes ports 1 and 2 only; a wheel rewired
  to port 3 or 4 goes on turning after a hard fault, and after the reset nothing
  addresses it. A zero that a port did not acknowledge before it was left has
  the same effect, against `nezha_port.cpp:459-463`. `begin()` writes no zero to
  the port it arrives at.
- A stop staged during another's settle is still staged when `configureMotor()`
  returns.

Reliability layer and sessions:

- A lost HELLO leaves the robot's counter where it was while the host restarts
  at 1; re-acks of old ids are taken for receipts of new commands
  (`robotlink.py:227`, `link.py:188`). On UDP a late datagram of an earlier
  session does the same to a session that did hear its banner.
- `seqd()` matches the first number of an `err`, which is its code and not an id
  (`fieldlink.py:87`).
- The stall reminder forgets the ids discarded behind a gap once the missing id
  arrives (`wire_handler.h:771` reads as if it would not).
- A line with the reserved id is answered as a decode failure although it is not
  `expectedNext_` (`wire_handler.cpp:676`), and at the ceiling a nack asks for the
  one id that is never accepted (`robot-connections.md:539`).
- The header's comment on `#0` reads as if it needed no case of its own; the
  code nacks it. `robot-connections.md:534` says a line without an id is dropped
  silently; a known verb is nacked.
- Another client's HELLO between a command and its retransmit makes `#1` run
  twice, against DESIGN.md:624; `RunsInIssueOrder` excepts shared carriers.

Links and Wi-Fi:

- A client that connects while a long reply waits for room takes the rest of it
  ("newest client wins"), and if it closes the tail goes to the UDP host. The
  connect edge is one bit: two clients in one pass get one banner. Replies are
  addressed by link number and parked lines survive a close, so a later client
  on the link gets an earlier one's answer. The wait is per line, so a long reply
  to a silent module holds the protocol fiber for many times two seconds.
- `rogo --wait` leaves before late replies, with exit code 0.
- `open_link` ignores the banner's name: after a lease moved, a session is with
  another robot. A job lost on all its tries leaves a gap that nacks every later
  one. Two lost keepalives in a row are tolerated, not three.
- `lastJoinError_` is reset only when a join is sent, so a configuration failure
  on the next slot counts as a refusal. Once ready, `WifiLink` never notices a
  lost access point. A reset during a flash write can lose neighbouring slots.
- A SET's ack comes before its write and its checks: a lost `err` or a reset
  leaves a reported slot empty, and a late ack of the previous slot is taken for
  this one's (`provision_wifi.py:113`).

Host tools:

- `make_deploy.py`: a `--program` build never injects the motor wiring
  (DESIGN.md of tools, 228-230, says it does); `EXPECTED_CPP_FILES` misses 7 of
  24 units; `--radio-link` is ignored for one program; `--program` beside
  `--testrig` builds the program and says nothing of the rig; two builds can
  share one scratch copy.
- `publish_extension.py`: the tree is copied after the check that the checkout is
  clean and before the commit is named, so `Reproducible` holds only if nobody
  edits in between; a content change without a version goes to the branch only.
- `wire_acceptance.py`: the default order sends ESTOP before the cases that
  move; the full list always ends in a FAIL of its RUN case.
- Telemetry: frames the tool itself discarded while it waited count as lost; a
  gap of a whole turn of the counter is invisible, and so is a line cut inside
  its last value.
- Field runs: a fix is believed for up to 40 frames without a tag; one lost line
  makes the robot refuse the rest of the session without a word
  (`robotlink.send` ignores nacks); a tour starts even if the reposition missed.
  A list of field furniture with an incomplete entry is registered up to it and
  ends in a KeyError (`camlink.py:191`). `mount_yaw_rad()` adds the residual to
  -90 degrees (`camlink.py:91`) and `robot_heading_from_tag_yaw()` adds it to +90
  (`field.py:267`); with a daemon that takes the mount's yaw off the tag's, as
  camlink.py:37 describes it, a registered heading is off by twice the residual.
  The daemon is not in the repository, so `PosesAreTheRobots` only bounds it.
- Reports: a leg driven backwards is on target; a lost hold merges two legs and
  shifts the targets of the rest; moves below 0.1 degree a frame read as a hold.
- Bench: `turn_sweep.py` waits for a `TRN:` that nothing prints; after one lost
  line every later row is of a pivot that was never run; `otos_levercal.py`
  zeroes the sensor's offset and leaves `armApplied` set, so later runs do not arm
  again.
- Blocks: an interruption while a consumer project is made leaves one without
  `main.blocks`; an interrupted write of `pxt.json` makes every later run fail; a
  tab that saves between `clear_history` and `open` sends the new one to memory; a
  stranger on the port is taken for the server, and `--stop` kills it. A function
  dropped from the CSV keeps its old annotations.

## 7. What is not modelled

PROJECT.json lists every part with its status. Numerics (profiles, odometry,
shaping, the control law, the Cutebot's duty policy, least-squares fits, pursuit)
are real arithmetic and stay with the repository's tests. Byte and register I/O
(serial, radio, I2C, AT text), formatting and parsing, field tables and scale
factors have no order to get wrong that the models would see. The blocks are
thin calls of the shims, which are entry points of `TickEngine` and
`MotionArbitration`; the browser simulator is a separate numeric program.
`publish_wiki.py`, `otos_bench.py`, `follow.py` and the scripts kept with old
captures are single loops without state worth a model; the last are copies of
what the tools do now. The kernel's lease, stall latch and rebase epoch, the
encoder armor and the emit queue are planned (section 2). The register
corruption that a context switch causes in floating-point registers
(`vfp_guard.h`) is below the level of the models: they assume that a fiber's
locals survive a yield.
