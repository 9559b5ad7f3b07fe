---------------------- MODULE MotionArbitration_proofs ----------------------
(***************************************************************************)
(* Proofs about MotionArbitration for every set of block fibers, every     *)
(* program, queue, timeout and watchdog.                                   *)
(***************************************************************************)
EXTENDS MotionArbitration, TLAPS

(* What the engine's operations leave behind.                              *)

EngineOK ==
    /\ drive \in [kind : {"rest", "segment", "hold", "nudge"}, by : Owners, left : 0..Forever]
    /\ expired \in BOOLEAN
    /\ latch \in [estop : BOOLEAN, stall : BOOLEAN]
    /\ out \in [estop : BOOLEAN, stall : BOOLEAN]

AdapterOK ==
    /\ pending \in BOOLEAN /\ goal \in BOOLEAN /\ fate \in Fates
    /\ lease \in [active : BOOLEAN, left : 0..MaxTimeout]
    /\ done \in [reason : Reasons, fate : Fates]

FibersOK ==
    /\ pc \in {"dispatch", "job", "lines", "ack", "told", "decide", "acquire", "step",
              "pace"}
    /\ nested \in BOOLEAN
    /\ job \in BOOLEAN /\ queue \in 0..Slots
    /\ block \in [Blocks -> {"program", "acquire", "step", "pace"}]

OwnersOK == owner \in Owners /\ mirror \in Owners \ {"wire"}

LEMMA TypeParts ==
  ArbitrationTypeOK <=> /\ EngineOK /\ AdapterOK /\ FibersOK /\ OwnersOK
                        /\ sinceTick \in 0..(Patience + 1)
BY DEF ArbitrationTypeOK, EngineOK, AdapterOK, FibersOK, OwnersOK, Owners

LEMMA TypeNext ==
  EngineOK' /\ AdapterOK' /\ FibersOK' /\ OwnersOK' /\ sinceTick' \in 0..(Patience + 1)
    => ArbitrationTypeOK'
BY DEF ArbitrationTypeOK, EngineOK, AdapterOK, FibersOK, OwnersOK, Owners

LEMMA RestType ==
  Rest \in [kind : {"rest", "segment", "hold", "nudge"}, by : Owners, left : 0..Forever]
BY BoundsAssumption DEF Rest, Forever, Owners, None

LEMMA BeginType ==
  ASSUME EngineOK, NEW kind \in {"segment", "hold", "nudge"}, NEW by \in Owners,
         NEW left \in 0..Forever, Begin(kind, by, left)
  PROVE  EngineOK'
BY DEF EngineOK, Begin

LEMMA StopTypes ==
  ASSUME EngineOK
  PROVE  (SoftStop => EngineOK') /\ (EstopAll => EngineOK')
<1>1. Rest \in [kind : {"rest", "segment", "hold", "nudge"}, by : Owners, left : 0..Forever]
  BY RestType
<1>2. ASSUME EndMove
      PROVE  /\ drive' \in [kind : {"rest", "segment", "hold", "nudge"}, by : Owners, left : 0..Forever]
             /\ expired' \in BOOLEAN
  <2>1. expired' \in BOOLEAN
    BY <1>2 DEF EndMove
  <2> QED BY <1>1, <1>2, <2>1 DEF EndMove, EngineOK
<1>3. SoftStop => EngineOK'
  BY <1>2 DEF SoftStop, EngineOK
<1>4. EstopAll => EngineOK'
  BY <1>2 DEF EstopAll, EngineOK
<1> QED BY <1>3, <1>4

LEMMA EndedType ==
  ASSUME AdapterOK, NEW what \in Fates
  PROVE  /\ Ended(what) \in Fates
         /\ FateIs(what) => fate' \in Fates
         /\ Overtake(what) => fate' \in Fates
BY DEF AdapterOK, Ended, FateIs, Overtake

LEMMA ServeType ==
  ASSUME EngineOK, AdapterOK, Serve
  PROVE  EngineOK' /\ fate' \in Fates
<1>1. PICK stalls \in BOOLEAN :
        /\ latch' = [latch EXCEPT !.stall = @ \/ stalls]
        /\ out' = latch'
        /\ \E outcome \in Outcomes(latch') :
             IF outcome = "going"
               THEN UNCHANGED <<drive, expired, fate>>
               ELSE /\ drive' = Rest
                    /\ expired' = IF MoveActive THEN outcome = "timeout" ELSE expired
                    /\ FateIs(outcome)
  BY DEF Serve
<1>2. PICK outcome \in Outcomes(latch') :
        IF outcome = "going"
          THEN UNCHANGED <<drive, expired, fate>>
          ELSE /\ drive' = Rest
               /\ expired' = IF MoveActive THEN outcome = "timeout" ELSE expired
               /\ FateIs(outcome)
  BY <1>1
<1>3. outcome \in Fates
  BY <1>2 DEF Outcomes, Fates
<1>4. Rest \in [kind : {"rest", "segment", "hold", "nudge"}, by : Owners, left : 0..Forever]
  BY RestType
<1>5. latch' \in [estop : BOOLEAN, stall : BOOLEAN]
  BY <1>1 DEF EngineOK
<1>6. drive' \in [kind : {"rest", "segment", "hold", "nudge"}, by : Owners, left : 0..Forever]
  BY <1>2, <1>4 DEF EngineOK
<1>7. expired' \in BOOLEAN
  BY <1>2 DEF EngineOK
<1>8. fate' \in Fates
  BY <1>2, <1>3, EndedType DEF AdapterOK
<1> QED BY <1>1, <1>5, <1>6, <1>7, <1>8 DEF EngineOK

LEMMA ReasonType ==
  ASSUME NEW m, NEW e PROVE Reason(m, e) \in {None, "stop", "timeout", "estop", "stall"}
BY DEF Reason

LEMMA CompletedType ==
  ASSUME AdapterOK, NEW reason \in Reasons, NEW became \in Fates
  PROVE  Completed(reason, became) \in [reason : Reasons, fate : Fates]
BY DEF AdapterOK, Completed, Kept, Fates

LEMMA ForcedType ==
  ASSUME AdapterOK, NEW forced \in Reasons, NEW m, NEW e, NEW became \in Fates
  PROVE  Forced(forced, m, e, became) \in [reason : Reasons, fate : Fates]
<1>1. (IF Reason(m, e) = None THEN forced ELSE Reason(m, e)) \in Reasons
  BY ReasonType DEF Reasons
<1> QED BY <1>1, CompletedType DEF Forced

LEMMA ResolveType ==
  ASSUME AdapterOK, ResolveIfDue, UNCHANGED goal
  PROVE  AdapterOK'
<1>1. CASE Reason(MoveActive, expired) = None
  BY <1>1 DEF ResolveIfDue, AdapterOK
<1>2. CASE Reason(MoveActive, expired) # None
  <2>1. Reason(MoveActive, expired) \in Reasons /\ fate \in Fates /\ "going" \in Fates
    BY ReasonType DEF Reasons, AdapterOK, Fates
  <2>2. done' \in [reason : Reasons, fate : Fates]
    BY <1>2, <2>1, CompletedType DEF ResolveIfDue
  <2>3. pending' = FALSE /\ lease' = [active |-> FALSE, left |-> 0] /\ fate' = "going"
    BY <1>2 DEF ResolveIfDue, Resolved
  <2>4. lease' \in [active : BOOLEAN, left : 0..MaxTimeout]
    BY <2>3, BoundsAssumption
  <2> QED BY <2>1, <2>2, <2>3, <2>4 DEF AdapterOK
<1> QED BY <1>1, <1>2

LEMMA OwnerTypes ==
  ASSUME OwnersOK
  PROVE  (TakeForBlock => OwnersOK') /\ (ReleaseBlock => OwnersOK')
BY DEF OwnersOK, TakeForBlock, ReleaseBlock, Owners, None

LEMMA QuietTypes ==
  /\ EngineOK /\ UNCHANGED engineVars => EngineOK'
  /\ AdapterOK /\ UNCHANGED adapterVars => AdapterOK'
  /\ FibersOK /\ UNCHANGED fiberVars => FibersOK'
  /\ OwnersOK /\ UNCHANGED <<owner, mirror>> => OwnersOK'
BY DEF EngineOK, AdapterOK, FibersOK, OwnersOK, engineVars, adapterVars, fiberVars

-----------------------------------------------------------------------------
(* Type correctness, action by action.                                     *)

LEMMA PassTypes ==
  ASSUME ArbitrationTypeOK,
         \/ DispatchJob \/ NoDispatch \/ WriteAck \/ NoMoreLines \/ WireEstop \/ Replied
         \/ TickForWire \/ Idle \/ Acquire \/ ServeTick \/ EndTick
         \/ JobTicks \/ JobReturns \/ \E time \in Times : JobMoves(time)
  PROVE  ArbitrationTypeOK'
<1>t. EngineOK /\ AdapterOK /\ FibersOK /\ OwnersOK /\ sinceTick \in 0..(Patience + 1)
  BY TypeParts
<1> USE <1>t, TypeNext
<1>1. CASE DispatchJob
  <2>1. queue' \in 0..Slots
    BY <1>1, BoundsAssumption DEF DispatchJob, FibersOK
  <2>2. FibersOK' /\ OwnersOK'
    BY <1>1, <2>1 DEF DispatchJob, FibersOK, OwnersOK, Owners, None
  <2> QED BY <1>1, <2>2, QuietTypes DEF DispatchJob, AdapterOK
<1>2. CASE NoDispatch
  <2>1. FibersOK'
    BY <1>2 DEF NoDispatch, FibersOK
  <2> QED BY <1>2, <2>1, QuietTypes DEF NoDispatch, adapterVars
<1>3. CASE WriteAck
  <2>1. FibersOK' /\ AdapterOK' /\ OwnersOK'
    BY <1>3, ResolveType DEF WriteAck, FibersOK, OwnersOK
  <2> QED BY <1>3, <2>1, QuietTypes DEF WriteAck
<1>4. CASE NoMoreLines
  <2>1. FibersOK'
    BY <1>4 DEF NoMoreLines, EndOfPass, FibersOK
  <2> QED BY <1>4, <2>1, QuietTypes DEF NoMoreLines, adapterVars
<1>5. CASE TickForWire
  <2>1. FibersOK' /\ AdapterOK' /\ OwnersOK' /\ sinceTick' \in 0..(Patience + 1)
    BY <1>5, ResolveType, BoundsAssumption DEF TickForWire, FibersOK, OwnersOK, Owners
  <2> QED BY <1>5, <2>1, QuietTypes DEF TickForWire
<1>6. CASE Idle
  <2>1. FibersOK' /\ AdapterOK' /\ OwnersOK'
    BY <1>6, ResolveType DEF Idle, FibersOK, OwnersOK, Owners
  <2> QED BY <1>6, <2>1, QuietTypes DEF Idle
<1>7. CASE Acquire
  <2>1. FibersOK'
    BY <1>7 DEF Acquire, FibersOK
  <2> QED BY <1>7, <2>1, QuietTypes DEF Acquire, adapterVars
<1>8. CASE ServeTick
  <2>1. FibersOK' /\ AdapterOK' /\ OwnersOK'
    BY <1>8, ServeType DEF ServeTick, FibersOK, OwnersOK, AdapterOK
  <2> QED BY <1>8, <2>1, ServeType DEF ServeTick
<1>9. CASE EndTick
  <2>1. OwnersOK'
    BY <1>9, OwnerTypes, QuietTypes DEF EndTick
  <2>2. FibersOK' /\ AdapterOK'
    BY <1>9 DEF EndTick, FibersOK, AdapterOK
  <2> QED BY <1>9, <2>1, <2>2, QuietTypes DEF EndTick
<1>10. CASE JobTicks
  <2>1. FibersOK' /\ sinceTick' \in 0..(Patience + 1)
    BY <1>10, BoundsAssumption DEF JobTicks, FibersOK
  <2> QED BY <1>10, <2>1, QuietTypes DEF JobTicks, adapterVars
<1>11. CASE JobReturns
  <2>1. FibersOK' /\ OwnersOK' /\ AdapterOK'
    BY <1>11 DEF JobReturns, FibersOK, OwnersOK, AdapterOK, Owners, None
  <2> QED BY <1>11, <2>1, QuietTypes DEF JobReturns
<1>12. ASSUME NEW time \in Times, JobMoves(time)
       PROVE  ArbitrationTypeOK'
  <2>1. time \in 0..Forever
    BY BoundsAssumption DEF Times, Forever
  <2>2. EngineOK'
    BY <1>12, <2>1, BeginType DEF JobMoves, Owners
  <2>3. fate' \in Fates
    BY <1>12, EndedType DEF JobMoves, Fates
  <2> QED BY <1>12, <2>2, <2>3, QuietTypes DEF JobMoves, AdapterOK
<1>13. CASE WireEstop
  <2>1. Ended("estop") \in Fates /\ "estop" \in Reasons /\ "going" \in Fates
    BY EndedType DEF Fates, Reasons
  <2>2. done' \in [reason : Reasons, fate : Fates]
    BY <1>13, <2>1, CompletedType DEF WireEstop
  <2>3. lease' \in [active : BOOLEAN, left : 0..MaxTimeout]
    BY <1>13, BoundsAssumption DEF WireEstop, Resolved
  <2>4. AdapterOK'
    BY <1>13, <2>1, <2>2, <2>3 DEF WireEstop, Resolved, AdapterOK
  <2>5. FibersOK' /\ sinceTick' = sinceTick
    BY <1>13 DEF WireEstop, FibersOK
  <2> QED BY <1>13, <2>4, <2>5, StopTypes, OwnerTypes DEF WireEstop
<1>14. CASE Replied
  <2>1. FibersOK'
    BY <1>14 DEF Replied, FibersOK
  <2> QED BY <1>14, <2>1, QuietTypes DEF Replied, adapterVars
<1> QED BY <1>1, <1>2, <1>3, <1>4, <1>5, <1>6, <1>7, <1>8, <1>9, <1>10, <1>11, <1>12, <1>13,
           <1>14

LEMMA HandOverType ==
  ASSUME FibersOK, HandOver, queue' \in 0..Slots
  PROVE  FibersOK'
BY DEF FibersOK, HandOver, EndOfPass

LEMMA HandedTypes ==
  ASSUME ArbitrationTypeOK, Handed
  PROVE  ArbitrationTypeOK'
<1>t. EngineOK /\ AdapterOK /\ FibersOK /\ OwnersOK /\ sinceTick \in 0..(Patience + 1)
  BY TypeParts
<1> USE <1>t, TypeNext
<1>0. sinceTick' = sinceTick /\ (queue' \in 0..Slots => FibersOK') /\ "going" \in Fates
  <2>1. HandOver
    BY DEF Handed, OtherLine, RefuseMotion, WireStop, WireClear, WireRun,
           WireAbort, Accepting, AcceptMotion, AcceptGoTo
  <2> QED BY <2>1, HandOverType DEF HandOver, Fates
<1>1. CASE OtherLine \/ RefuseMotion
  BY <1>0, <1>1, QuietTypes DEF OtherLine, RefuseMotion, FibersOK, adapterVars
<1>2. CASE WireStop
  <2>1. Ended("stop") \in Fates /\ "stop" \in Reasons
    BY EndedType DEF Fates, Reasons
  <2>2. done' \in [reason : Reasons, fate : Fates]
    BY <1>2, <2>1, ForcedType DEF WireStop
  <2>3. lease' \in [active : BOOLEAN, left : 0..MaxTimeout]
    BY <1>2, BoundsAssumption DEF WireStop, Resolved
  <2>4. AdapterOK'
    BY <1>0, <1>2, <2>2, <2>3 DEF WireStop, Resolved, AdapterOK
  <2> QED BY <1>0, <1>2, <2>4, StopTypes, OwnerTypes DEF WireStop, FibersOK
<1>4. CASE WireClear
  <2>1. latch' = latch \/ latch' = [latch EXCEPT !.estop = FALSE]
    BY <1>4 DEF WireClear
  <2>2. EngineOK'
    BY <1>4, <2>1 DEF WireClear, EngineOK
  <2>3. AdapterOK'
    BY <1>4, ResolveType DEF WireClear
  <2> QED BY <1>0, <1>4, <2>2, <2>3, QuietTypes DEF WireClear, FibersOK
<1>5. CASE WireRun
  <2>1. queue' \in 0..Slots
    BY <1>5, BoundsAssumption DEF WireRun, FibersOK
  <2> QED BY <1>0, <1>5, <2>1, QuietTypes DEF WireRun, adapterVars
<1>6. CASE WireAbort
  <2>1. (IF Driving THEN "stop" ELSE fate) \in Fates
    BY DEF Fates, AdapterOK
  <2>2. fate' \in Fates
    BY <1>6, <2>1, EndedType DEF WireAbort
  <2>3. AdapterOK'
    BY <1>6, <2>2 DEF WireAbort, AdapterOK
  <2> QED BY <1>0, <1>6, <2>3, StopTypes, OwnerTypes DEF WireAbort, FibersOK
<1>7. ASSUME NEW time \in Times, Accepting(time)
      PROVE  ArbitrationTypeOK'
  <2>1. time \in 0..Forever /\ time \in 0..MaxTimeout
    BY BoundsAssumption DEF Times, Forever
  <2>2. Superseded \in Fates /\ "aborted" \in Reasons /\ "detached" \in Fates
    BY EndedType DEF Fates, Reasons, Superseded
  <2>3. \A goalDirected \in BOOLEAN : Accept(goalDirected, time) =>
            /\ pending' \in BOOLEAN /\ goal' \in BOOLEAN
            /\ lease' \in [active : BOOLEAN, left : 0..MaxTimeout]
            /\ OwnersOK' /\ queue' \in 0..Slots
    BY <2>1 DEF Accept, OwnersOK, FibersOK
  <2>4. ASSUME NEW verb \in Verbs, AcceptMotion(verb, time)
        PROVE  ArbitrationTypeOK'
    <3>1. done' \in [reason : Reasons, fate : Fates]
      BY <2>2, <2>4, ForcedType DEF AcceptMotion
    <3>2. EngineOK'
      BY <2>1, <2>4, BeginType DEF AcceptMotion, Owners
    <3>3. (verb = "MOVE_X") \in BOOLEAN /\ Accept(verb = "MOVE_X", time) /\ fate' = "going"
      BY <2>4 DEF AcceptMotion
    <3> QED BY <1>0, <2>3, <3>1, <3>2, <3>3 DEF AdapterOK
  <2>5. ASSUME NEW far \in BOOLEAN, AcceptGoTo(time, far)
        PROVE  ArbitrationTypeOK'
    <3>1. done' \in [reason : Reasons, fate : Fates]
      BY <2>2, <2>5, ForcedType DEF AcceptGoTo
    <3>2. EngineOK'
      BY <2>1, <2>5, BeginType, QuietTypes DEF AcceptGoTo, Owners
    <3>3. Accept(TRUE, time) /\ fate' \in Fates
      BY <1>0, <2>2, <2>5 DEF AcceptGoTo
    <3> QED BY <1>0, <2>3, <3>1, <3>2, <3>3 DEF AdapterOK
  <2> QED BY <1>7, <2>4, <2>5 DEF Accepting
<1> QED BY <1>1, <1>2, <1>4, <1>5, <1>6, <1>7 DEF Handed

LEMMA BlockTypes ==
  ASSUME ArbitrationTypeOK, NEW b \in Blocks, Block(b)
  PROVE  ArbitrationTypeOK'
<1>t. EngineOK /\ AdapterOK /\ FibersOK /\ OwnersOK /\ sinceTick \in 0..(Patience + 1)
  BY TypeParts
<1> USE <1>t, TypeNext
<1>1. ASSUME NEW call, BlockIdle(b, call), fate' \in Fates, EngineOK', OwnersOK'
      PROVE  ArbitrationTypeOK'
  BY <1>1, QuietTypes DEF BlockIdle, AdapterOK
<1>2. CASE \/ \E time \in Times : BlockMoves(b, time)
           \/ BlockTwists(b) \/ BlockNudges(b) \/ BlockSetsWheels(b)
  <2>1. Times \subseteq 0..Forever /\ Forever \in 0..Forever
    BY BoundsAssumption DEF Times, Forever
  <2>2. EngineOK'
    BY <1>2, <2>1, BeginType DEF BlockMoves, BlockTwists, BlockNudges, BlockSetsWheels, Owners
  <2>3. fate' \in Fates
    BY <1>2, EndedType DEF BlockMoves, BlockTwists, BlockNudges, BlockSetsWheels, Fates
  <2>4. OwnersOK'
    BY <1>2, OwnerTypes, QuietTypes DEF BlockMoves, BlockTwists, BlockNudges, BlockSetsWheels
  <2>5. \E call : BlockIdle(b, call)
    BY <1>2 DEF BlockMoves, BlockTwists, BlockNudges, BlockSetsWheels
  <2> QED BY <1>1, <2>2, <2>3, <2>4, <2>5
<1>3. CASE BlockStops(b) \/ BlockEstops(b)
  <2>1. EngineOK'
    BY <1>3, StopTypes DEF BlockStops, BlockEstops
  <2>2. (IF Driving THEN "stop" ELSE fate) \in Fates /\ (IF Driving THEN "estop" ELSE fate) \in Fates
    BY DEF Fates, AdapterOK
  <2>3. fate' \in Fates
    BY <1>3, <2>2, EndedType DEF BlockStops, BlockEstops
  <2>4. OwnersOK' /\ \E call : BlockIdle(b, call)
    BY <1>3, OwnerTypes DEF BlockStops, BlockEstops
  <2> QED BY <1>1, <2>1, <2>3, <2>4
<1>4. CASE BlockClears(b)
  <2>1. EngineOK' /\ fate' \in Fates /\ OwnersOK'
    BY <1>4 DEF BlockClears, EngineOK, AdapterOK, OwnersOK
  <2> QED BY <1>1, <1>4, <2>1 DEF BlockClears
<1>5. CASE BlockTicks(b) \/ BlockAcquires(b)
  <2>1. FibersOK' /\ sinceTick' \in 0..(Patience + 1)
    BY <1>5, BoundsAssumption DEF BlockTicks, BlockAcquires, FibersOK
  <2> QED BY <1>5, <2>1, QuietTypes DEF BlockTicks, BlockAcquires, adapterVars
<1>6. CASE BlockServes(b)
  <2>1. EngineOK' /\ fate' \in Fates
    BY <1>6, ServeType DEF BlockServes
  <2>2. FibersOK' /\ AdapterOK' /\ OwnersOK'
    BY <1>6, <2>1 DEF BlockServes, FibersOK, AdapterOK, OwnersOK
  <2> QED BY <1>6, <2>1, <2>2 DEF BlockServes
<1>7. CASE BlockEndsTick(b)
  <2>1. OwnersOK'
    BY <1>7, OwnerTypes, QuietTypes DEF BlockEndsTick
  <2>2. FibersOK' /\ AdapterOK'
    BY <1>7 DEF BlockEndsTick, FibersOK, AdapterOK
  <2> QED BY <1>7, <2>1, <2>2, QuietTypes DEF BlockEndsTick
<1> QED BY <1>2, <1>3, <1>4, <1>5, <1>6, <1>7 DEF Block

LEMMA ClockTypes ==
  ASSUME ArbitrationTypeOK, WatchdogStops \/ TimePasses
  PROVE  ArbitrationTypeOK'
<1>t. EngineOK /\ AdapterOK /\ FibersOK /\ OwnersOK /\ sinceTick \in 0..(Patience + 1)
  BY TypeParts
<1> USE <1>t, TypeNext
<1>1. CASE WatchdogStops
  <2>0. (IF Driving THEN "watchdog" ELSE fate) \in Fates
    BY DEF Fates, AdapterOK
  <2>1. fate' \in Fates
    BY <1>1, <2>0, EndedType DEF WatchdogStops
  <2>2. AdapterOK'
    BY <1>1, <2>1 DEF WatchdogStops, AdapterOK
  <2> QED BY <1>1, <2>2, StopTypes, OwnerTypes, QuietTypes DEF WatchdogStops
<1>2. CASE TimePasses
  <2>1. /\ \A n \in 0..Forever : CountDown(n) \in 0..Forever
        /\ \A n \in 0..MaxTimeout : CountDown(n) \in 0..MaxTimeout
    BY BoundsAssumption DEF CountDown, Forever
  <2>2. EngineOK' /\ AdapterOK' /\ OwnersOK'
    BY <1>2, <2>1 DEF TimePasses, EngineOK, AdapterOK, OwnersOK
  <2>3. sinceTick' \in 0..(Patience + 1)
    BY <1>2, BoundsAssumption DEF TimePasses
  <2> QED BY <1>2, <2>2, <2>3, QuietTypes DEF TimePasses
<1> QED BY <1>1, <1>2

LEMMA TypeInit == Init => ArbitrationTypeOK
<1> SUFFICES ASSUME Init PROVE ArbitrationTypeOK
  OBVIOUS
<1>1. expired \in BOOLEAN /\ pending \in BOOLEAN /\ goal \in BOOLEAN
      /\ nested \in BOOLEAN /\ job \in BOOLEAN
  BY Zenon DEF Init
<1>2. latch \in [estop : BOOLEAN, stall : BOOLEAN] /\ out = latch
  BY DEF Init
<1>3. EngineOK
  BY <1>1, <1>2, RestType DEF Init, EngineOK
<1>4. lease \in [active : BOOLEAN, left : 0..MaxTimeout]
  BY BoundsAssumption DEF Init
<1>5. done \in [reason : Reasons, fate : Fates] /\ fate \in Fates
  BY DEF Init, Fates, Reasons, None
<1>6. AdapterOK
  BY <1>1, <1>4, <1>5 DEF AdapterOK
<1>7. queue \in 0..Slots /\ sinceTick \in 0..(Patience + 1)
  BY BoundsAssumption DEF Init
<1>8. FibersOK /\ OwnersOK
  BY <1>1, <1>7 DEF Init, FibersOK, OwnersOK, Owners, None
<1> QED BY <1>3, <1>6, <1>7, <1>8, TypeParts

LEMMA TypeStep == ArbitrationTypeOK /\ [Next]_vars => ArbitrationTypeOK'
<1> SUFFICES ASSUME ArbitrationTypeOK, [Next]_vars
             PROVE  ArbitrationTypeOK'
  OBVIOUS
<1>1. CASE Protocol
  BY <1>1, PassTypes, HandedTypes DEF Protocol
<1>2. CASE UNCHANGED vars
  BY <1>2, TypeParts, TypeNext, QuietTypes DEF vars, adapterVars
<1> QED BY <1>1, <1>2, BlockTypes, ClockTypes DEF Next

(* The owner, the mirror, the engine's command, the pending motion and the *)
(* fibers stay in their types, whatever the host and the program ask for.  *)
THEOREM TypeCorrect == Spec => []ArbitrationTypeOK
BY TypeInit, TypeStep, PTL DEF Spec

-----------------------------------------------------------------------------
(* A job and the protocol fiber.  Wherever the fiber is, a job that runs    *)
(* owns the drivetrain in both records, and a tick outside a job is the     *)
(* wire's; no assumption on what a pass writes.                            *)
FibersInv ==
    /\ pc \in {"decide", "job", "acquire", "step"} => ~nested
    /\ pc = "pace" => nested
    /\ pc = "job" => job
    /\ job => /\ pc \in {"job", "acquire", "step"} \/ nested
              /\ owner = "job" /\ mirror = "job"
    /\ ~job /\ (nested \/ pc \in {"acquire", "step"}) => owner = "wire"

(* A block takes or gives up the drivetrain only while it is free or its    *)
(* own: neither a job nor the wire notices.                                *)
LEMMA BlockSparesOthers ==
  ASSUME TakeForBlock \/ ReleaseBlock \/ UNCHANGED <<owner, mirror>>
  PROVE  owner \in {"wire", "job"} => owner' = owner /\ mirror' = mirror
BY DEF TakeForBlock, ReleaseBlock, None

LEMMA HandedKeepsFibers ==
  ASSUME Handed
  PROVE  /\ pc = "ack"
         /\ pc' = EndOfPass \/ (LateWrites /\ pc' = "lines")
         /\ UNCHANGED <<nested, job, block, sinceTick>>
         /\ ReleaseBlock \/ UNCHANGED <<owner, mirror>>
         /\ queue' \in {queue, queue + 1}
BY DEF Handed, OtherLine, RefuseMotion, WireStop, WireClear, WireRun, WireAbort,
       Accepting, AcceptMotion, AcceptGoTo, HandOver, Accept, adapterVars

LEMMA BlockKeepsFibers ==
  ASSUME NEW b \in Blocks, Block(b)
  PROVE  /\ Parked
         /\ UNCHANGED <<pc, nested, job, queue>>
         /\ TakeForBlock \/ ReleaseBlock \/ UNCHANGED <<owner, mirror>>
BY DEF Block, BlockMoves, BlockTwists, BlockNudges, BlockSetsWheels, BlockStops, BlockEstops,
       BlockClears, BlockTicks, BlockAcquires, BlockServes, BlockEndsTick, BlockIdle,
       fiberVars, adapterVars

LEMMA FibersInit == Init => FibersInv
BY DEF Init, FibersInv

LEMMA FibersStep ==
  ASSUME ArbitrationTypeOK, FibersInv, [Next]_vars
  PROVE  FibersInv'
<1>1. CASE Handed
  <2>1. pc = "ack" /\ UNCHANGED <<nested, job>> /\ pc' \in {"lines", EndOfPass}
    BY <1>1, HandedKeepsFibers
  <2>2. owner \in {"wire", "job"} => owner' = owner /\ mirror' = mirror
    BY <1>1, HandedKeepsFibers, BlockSparesOthers
  <2> QED BY <2>1, <2>2 DEF FibersInv, EndOfPass
<1>2. ASSUME NEW b \in Blocks, Block(b)
      PROVE  FibersInv'
  BY <1>2, BlockKeepsFibers, BlockSparesOthers DEF FibersInv
<1>3. CASE DispatchJob
  BY <1>3 DEF DispatchJob, FibersInv, None
<1>4. CASE NoDispatch \/ NoMoreLines \/ Acquire \/ JobTicks
  BY <1>4 DEF NoDispatch, NoMoreLines, Acquire, JobTicks, EndOfPass, FibersInv, adapterVars
<1>5. CASE WriteAck \/ JobReturns
  BY <1>5 DEF WriteAck, JobReturns, FibersInv
<1>6. CASE TickForWire \/ Idle
  BY <1>6 DEF TickForWire, Idle, FibersInv
<1>7. CASE ServeTick
  BY <1>7 DEF ServeTick, FibersInv
<1>8. CASE EndTick
  <2>1. UNCHANGED <<owner, mirror>> \/ ReleaseBlock
    BY <1>8 DEF EndTick
  <2> QED BY <1>8, <2>1, BlockSparesOthers DEF EndTick, FibersInv
<1>9. ASSUME NEW time \in Times, JobMoves(time)
      PROVE  FibersInv'
  BY <1>9 DEF JobMoves, FibersInv, fiberVars
<1>10. CASE WatchdogStops \/ TimePasses
  BY <1>10, BlockSparesOthers DEF WatchdogStops, TimePasses, FibersInv, fiberVars
<1>11. CASE UNCHANGED vars
  BY <1>11 DEF vars, fiberVars, adapterVars, FibersInv
<1>12. CASE WireEstop
  BY <1>12, BlockSparesOthers DEF WireEstop, FibersInv
<1>13. CASE Replied
  BY <1>13 DEF Replied, FibersInv, adapterVars
<1> QED BY <1>1, <1>2, <1>3, <1>4, <1>5, <1>6, <1>7, <1>8, <1>9, <1>10, <1>11, <1>12, <1>13
        DEF Next, Protocol

(* A RUN job owns the drivetrain, for the fiber and for the adapter, from   *)
(* its dispatch to its end, also inside its ticks' service passes; a tick  *)
(* outside a job belongs to the wire (protocol.cpp, dispatchJob()).        *)
THEOREM JobOwnsTheFiber == Spec => []FibersInv
BY FibersInit, FibersStep, TypeCorrect, PTL DEF Spec

(* What a step may do to the queue and to the engine's command while a job  *)
(* runs.                                                                   *)
JobStep ==
    job => /\ queue' >= queue
           /\ \/ drive'.by = drive.by \/ drive'.by \in {None, "job"}
              \/ drive'.by = "block" /\ drive'.kind = "hold"

LEMMA StopsKeepTheOwner ==
  ASSUME EndMove \/ Serve
  PROVE  drive'.by \in {drive.by, None}
<1>1. CASE EndMove
  BY <1>1 DEF EndMove, Rest
<1>2. CASE Serve
  <2>1. PICK outcome : IF outcome = "going" THEN UNCHANGED drive ELSE drive' = Rest
    BY <1>2 DEF Serve
  <2> QED BY <2>1 DEF Rest
<1> QED BY <1>1, <1>2

LEMMA TimeKeepsTheOwner ==
  ASSUME EngineOK, TimePasses
  PROVE  drive'.by = drive.by
BY DEF TimePasses, EngineOK

LEMMA JobRunsAloneStep ==
  ASSUME ArbitrationTypeOK, FibersInv, [Next]_vars
  PROVE  JobStep
<1> SUFFICES ASSUME job
             PROVE  /\ queue' >= queue
                    /\ \/ drive'.by = drive.by \/ drive'.by \in {None, "job"}
                       \/ drive'.by = "block" /\ drive'.kind = "hold"
  BY DEF JobStep
<1>0. queue \in Nat /\ owner = "job" /\ mirror = "job"
  BY DEF ArbitrationTypeOK, FibersInv
<1>1. CASE Handed
  <2>1. queue' >= queue
    BY <1>0, <1>1, HandedKeepsFibers
  <2>2. drive'.by \in {drive.by, None}
    BY <1>0, <1>1, StopsKeepTheOwner
       DEF Handed, OtherLine, RefuseMotion, WireStop, WireClear, WireRun, WireAbort,
           Accepting, AcceptMotion, AcceptGoTo, SoftStop, engineVars, None
  <2> QED BY <2>1, <2>2
<1>2. ASSUME NEW b \in Blocks, Block(b)
      PROVE  /\ queue' = queue
             /\ drive'.by \in {drive.by, None} \/ (drive'.by = "block" /\ drive'.kind = "hold")
  <2>1. CASE \/ \E time \in Times : BlockMoves(b, time)
             \/ BlockTwists(b) \/ BlockNudges(b)
    BY <1>0, <2>1 DEF BlockMoves, BlockTwists, BlockNudges, TakeForBlock, None
  <2>2. CASE BlockSetsWheels(b)
    BY <1>2, <2>2, BlockKeepsFibers DEF BlockSetsWheels, Begin
  <2>3. CASE BlockStops(b) \/ BlockEstops(b) \/ BlockServes(b)
    BY <1>2, <2>3, BlockKeepsFibers, StopsKeepTheOwner
       DEF BlockStops, BlockEstops, BlockServes, SoftStop, EstopAll
  <2>4. CASE BlockClears(b) \/ BlockTicks(b) \/ BlockAcquires(b) \/ BlockEndsTick(b)
    BY <1>2, <2>4, BlockKeepsFibers
       DEF BlockClears, BlockTicks, BlockAcquires, BlockEndsTick, engineVars
  <2> QED BY <1>2, <2>1, <2>2, <2>3, <2>4 DEF Block
<1>3. CASE \/ DispatchJob \/ NoDispatch \/ WriteAck \/ NoMoreLines \/ Replied \/ TickForWire
           \/ Idle \/ Acquire \/ EndTick \/ JobTicks \/ JobReturns
  <2>1. ~DispatchJob
    BY <1>0 DEF DispatchJob, None
  <2>2. queue' = queue /\ UNCHANGED drive
    BY <1>3, <2>1 DEF NoDispatch, WriteAck, NoMoreLines, Replied, TickForWire, Idle, Acquire,
                      EndTick, JobTicks, JobReturns, engineVars
  <2> QED BY <1>0, <2>2
<1>4. CASE ServeTick
  BY <1>0, <1>4, StopsKeepTheOwner DEF ServeTick
<1>5. ASSUME NEW time \in Times, JobMoves(time)
      PROVE  queue' = queue /\ drive'.by = "job"
  BY <1>5 DEF JobMoves, Begin, fiberVars
<1>6. CASE WatchdogStops
  BY <1>0, <1>6, StopsKeepTheOwner DEF WatchdogStops, SoftStop, fiberVars
<1>7. CASE TimePasses
  BY <1>0, <1>7, TimeKeepsTheOwner, TypeParts DEF TimePasses, fiberVars
<1>8. CASE UNCHANGED vars
  BY <1>0, <1>8 DEF vars, engineVars, fiberVars
<1>9. CASE WireEstop
  BY <1>0, <1>9, StopsKeepTheOwner DEF WireEstop, EstopAll
<1> QED BY <1>0, <1>1, <1>2, <1>3, <1>4, <1>5, <1>6, <1>7, <1>8, <1>9 DEF Next, Protocol

(* While a RUN job runs no second job is taken off the queue, also not by   *)
(* the service pass inside the job's own tick, and nobody who asks for the  *)
(* drivetrain gets it (protocol.cpp, dispatchJob()); this holds whatever a  *)
(* pass writes after a command.                                            *)
THEOREM JobRunsAloneHolds == Spec => JobRunsAlone
<1>1. ArbitrationTypeOK /\ FibersInv /\ [Next]_vars => [JobStep]_vars
  BY JobRunsAloneStep
<1>2. [][JobStep]_vars => JobRunsAlone
  BY DEF JobStep, JobRunsAlone
<1> QED BY <1>1, <1>2, TypeCorrect, JobOwnsTheFiber, PTL DEF Spec

-----------------------------------------------------------------------------
(* The wire's obligation.  While it is live the wire holds the drivetrain,  *)
(* save between the accept of a command and the decision at the end of the  *)
(* same pass, where no other fiber runs, provided nothing is written there. *)
OwnersInv ==
    /\ OwnersAgree
    /\ LeaseLive => owner = "wire" \/ (pc = "decide" /\ owner = None)

LEMMA BlockKeepsAgreement ==
  ASSUME OwnersAgree, FibersInv, UNCHANGED job,
         TakeForBlock \/ ReleaseBlock \/ UNCHANGED <<owner, mirror>>
  PROVE  OwnersAgree'
BY DEF OwnersAgree, FibersInv, TakeForBlock, ReleaseBlock, None

LEMMA ResolveEndsLease ==
  ASSUME ResolveIfDue
  PROVE  UNCHANGED lease \/ lease' = [active |-> FALSE, left |-> 0]
BY DEF ResolveIfDue, Resolved

LEMMA OwnersInit == Init => OwnersInv
BY DEF Init, OwnersInv, OwnersAgree, LeaseLive

LEMMA OwnersHanded ==
  ASSUME ~LateWrites, ArbitrationTypeOK, FibersInv, OwnersInv, Handed
  PROVE  OwnersInv'
<1>1. pc = "ack" /\ pc' = EndOfPass /\ UNCHANGED <<nested, job>>
  BY HandedKeepsFibers
<1>2. ReleaseBlock \/ UNCHANGED <<owner, mirror>>
  BY HandedKeepsFibers
<1>3. OwnersAgree'
  BY <1>1, <1>2, BlockKeepsAgreement DEF OwnersInv
<1>4. CASE \E time \in Times : Accepting(time)
  <2>1. mirror = None /\ UNCHANGED <<owner, mirror>>
    BY <1>4 DEF Accepting, AcceptMotion, AcceptGoTo, Accept
  <2>2. owner \in {None, "wire"}
    BY <2>1 DEF OwnersInv, OwnersAgree, ArbitrationTypeOK, Owners, None
  <2>3. nested => owner = "wire"
    BY <2>1 DEF FibersInv, None
  <2> QED BY <1>1, <1>3, <2>1, <2>2, <2>3 DEF OwnersInv, EndOfPass
<1>5. CASE WireStop
  <2>1. lease' = [active |-> FALSE, left |-> 0]
    BY <1>5 DEF WireStop, Resolved
  <2>2. ~LeaseLive'
    BY <2>1 DEF LeaseLive
  <2> QED BY <1>3, <2>2 DEF OwnersInv
<1>6. CASE OtherLine \/ RefuseMotion \/ WireClear \/ WireRun \/ WireAbort
  <2>1. UNCHANGED lease \/ lease' = [active |-> FALSE, left |-> 0]
    BY <1>6, ResolveEndsLease
       DEF OtherLine, RefuseMotion, WireClear, WireRun, WireAbort, adapterVars
  <2>2. LeaseLive' => owner = "wire"
    BY <1>1, <2>1 DEF LeaseLive, OwnersInv
  <2> QED BY <1>2, <1>3, <2>2, BlockSparesOthers DEF OwnersInv
<1> QED BY <1>4, <1>5, <1>6 DEF Handed

LEMMA OwnersStep ==
  ASSUME ~LateWrites, ArbitrationTypeOK, FibersInv, OwnersInv, [Next]_vars
  PROVE  OwnersInv'
<1>1. ASSUME NEW b \in Blocks, Block(b)
      PROVE  OwnersInv'
  <2>1. Parked /\ UNCHANGED <<pc, job>> /\ (TakeForBlock \/ ReleaseBlock \/ UNCHANGED <<owner, mirror>>)
    BY <1>1, BlockKeepsFibers
  <2>2. UNCHANGED lease
    BY <1>1 DEF Block, BlockMoves, BlockTwists, BlockNudges, BlockSetsWheels, BlockStops,
                BlockEstops, BlockClears, BlockTicks, BlockAcquires, BlockServes, BlockEndsTick,
                BlockIdle, adapterVars
  <2>3. LeaseLive' => owner = "wire"
    BY <2>1, <2>2 DEF LeaseLive, OwnersInv, Parked
  <2> QED BY <2>1, <2>3, BlockKeepsAgreement, BlockSparesOthers DEF OwnersInv
<1>2. CASE DispatchJob
  BY <1>2 DEF DispatchJob, OwnersInv, OwnersAgree, LeaseLive, None
<1>3. CASE NoDispatch \/ NoMoreLines \/ Replied \/ Acquire \/ JobTicks
  BY <1>3 DEF NoDispatch, NoMoreLines, Replied, Acquire, JobTicks, OwnersInv, OwnersAgree,
              LeaseLive, adapterVars
<1>4. CASE WriteAck
  <2>1. LeaseLive' => LeaseLive
    BY <1>4, ResolveEndsLease DEF WriteAck, LeaseLive
  <2> QED BY <1>4, <2>1 DEF WriteAck, OwnersInv, OwnersAgree
<1>5. CASE TickForWire
  <2>1. LeaseLive /\ pc = "decide"
    BY <1>5, ResolveEndsLease DEF TickForWire, LeaseLive
  <2>2. mirror = None /\ ~job
    BY <2>1 DEF OwnersInv, OwnersAgree, FibersInv, ArbitrationTypeOK, None
  <2> QED BY <1>5, <2>2 DEF TickForWire, OwnersInv, OwnersAgree
<1>6. CASE Idle
  <2>1. ~LeaseLive'
    BY <1>6 DEF Idle, LeaseLive
  <2>2. OwnersAgree'
    BY <1>6 DEF Idle, OwnersInv, OwnersAgree, ArbitrationTypeOK, None
  <2> QED BY <2>1, <2>2 DEF OwnersInv
<1>7. CASE ServeTick
  BY <1>7 DEF ServeTick, OwnersInv, OwnersAgree, LeaseLive
<1>8. CASE EndTick
  <2>1. UNCHANGED <<owner, mirror>> \/ ReleaseBlock
    BY <1>8 DEF EndTick
  <2>2. LeaseLive' => owner = "wire"
    BY <1>8 DEF EndTick, LeaseLive, OwnersInv
  <2> QED BY <1>8, <2>1, <2>2, BlockKeepsAgreement, BlockSparesOthers DEF OwnersInv, EndTick
<1>9. CASE JobReturns
  <2>1. ~LeaseLive
    BY <1>9 DEF JobReturns, OwnersInv, FibersInv, None
  <2> QED BY <1>9, <2>1 DEF JobReturns, OwnersInv, OwnersAgree, LeaseLive, None
<1>10. ASSUME NEW time \in Times, JobMoves(time)
       PROVE  OwnersInv'
  BY <1>10 DEF JobMoves, OwnersInv, OwnersAgree, LeaseLive, fiberVars
<1>11. CASE WatchdogStops
  <2>1. UNCHANGED <<pc, job, lease>> /\ ReleaseBlock /\ Parked
    BY <1>11 DEF WatchdogStops, fiberVars
  <2>2. LeaseLive' => owner = "wire"
    BY <2>1 DEF LeaseLive, OwnersInv, Parked
  <2> QED BY <2>1, <2>2, BlockKeepsAgreement, BlockSparesOthers DEF OwnersInv
<1>12. CASE TimePasses
  <2>1. LeaseLive' => LeaseLive
    BY <1>12, BoundsAssumption DEF TimePasses, LeaseLive, CountDown, ArbitrationTypeOK
  <2> QED BY <1>12, <2>1 DEF TimePasses, OwnersInv, OwnersAgree, fiberVars
<1>13. CASE UNCHANGED vars
  BY <1>13 DEF vars, adapterVars, fiberVars, OwnersInv, OwnersAgree, LeaseLive
<1>14. CASE WireEstop
  <2>1. lease' = [active |-> FALSE, left |-> 0] /\ ReleaseBlock /\ UNCHANGED job
    BY <1>14 DEF WireEstop, Resolved
  <2>2. ~LeaseLive'
    BY <2>1 DEF LeaseLive
  <2> QED BY <2>1, <2>2, BlockKeepsAgreement DEF OwnersInv
<1> QED BY <1>1, <1>2, <1>3, <1>4, <1>5, <1>6, <1>7, <1>8, <1>9, <1>10, <1>11, <1>12, <1>13,
           <1>14, OwnersHanded DEF Next, Protocol

(* The fiber's record of the owner and the adapter's copy of it agree, so a *)
(* motion verb is refused exactly while a job or a block moves the robot    *)
(* (protocol.h, wire_adapter.h), for every program and every host, as long  *)
(* as a pass writes nothing between a command and the decision to tick.     *)
THEOREM OwnersStayInStep ==
  ASSUME ~LateWrites PROVE Spec => []OwnersAgree
<1>1. OwnersInv => OwnersAgree
  BY DEF OwnersInv
<1>2. ArbitrationTypeOK /\ FibersInv /\ OwnersInv /\ [Next]_vars => OwnersInv'
  BY OwnersStep
<1> QED BY <1>1, <1>2, OwnersInit, TypeCorrect, JobOwnsTheFiber, PTL DEF Spec

(* A step that has the program take the robot over, while the wire's        *)
(* obligation is live and its motion goes on.                              *)
WireHolds == lease.active /\ lease.left > 0 /\ fate = "going" => fate' # "replaced"

LEMMA FateOfStop ==
  ASSUME NEW what, FateIs(what), what # "replaced", fate # "replaced"
  PROVE  fate' # "replaced"
BY DEF FateIs, Ended

LEMMA FateOfServe ==
  ASSUME Serve, fate # "replaced"
  PROVE  fate' # "replaced"
<1>1. PICK outcome \in Outcomes(latch') :
        IF outcome = "going" THEN UNCHANGED fate ELSE FateIs(outcome)
  BY DEF Serve
<1>2. outcome # "replaced"
  BY DEF Outcomes
<1> QED BY <1>1, <1>2, FateOfStop

LEMMA WireHoldsStep ==
  ASSUME ~LateWrites, ArbitrationTypeOK, FibersInv, OwnersInv, [Next]_vars
  PROVE  WireHolds
<1> SUFFICES ASSUME LeaseLive, fate = "going"
             PROVE  fate' # "replaced"
  BY DEF WireHolds, LeaseLive
<1>1. owner = "wire" \/ (pc = "decide" /\ owner = None)
  BY DEF OwnersInv
<1>2. ASSUME NEW b \in Blocks, Block(b)
      PROVE  fate' # "replaced"
  <2>1. owner = "wire"
    BY <1>1, <1>2, BlockKeepsFibers DEF Parked
  <2>2. CASE \/ \E time \in Times : BlockMoves(b, time)
             \/ BlockTwists(b) \/ BlockNudges(b)
    BY <2>1, <2>2 DEF BlockMoves, BlockTwists, BlockNudges, TakeForBlock, None
  <2>3. CASE BlockSetsWheels(b)
    BY <2>3 DEF BlockSetsWheels, Overtake
  <2>4. CASE BlockStops(b) \/ BlockEstops(b)
    <3>1. PICK what \in {"stop", "estop", "going"} : FateIs(what)
      BY <2>4 DEF BlockStops, BlockEstops
    <3> QED BY <3>1, FateOfStop
  <2>5. CASE BlockServes(b)
    BY <2>5, FateOfServe DEF BlockServes
  <2>6. CASE BlockClears(b) \/ BlockTicks(b) \/ BlockAcquires(b) \/ BlockEndsTick(b)
    BY <2>6 DEF BlockClears, BlockTicks, BlockAcquires, BlockEndsTick, adapterVars
  <2> QED BY <1>2, <2>2, <2>3, <2>4, <2>5, <2>6 DEF Block
<1>3. CASE Handed
  <2>1. CASE OtherLine \/ RefuseMotion \/ WireClear \/ WireRun
    BY <2>1 DEF OtherLine, RefuseMotion, WireClear, WireRun, ResolveIfDue, adapterVars
  <2>2. CASE WireStop \/ \E time \in Times : Accepting(time)
    BY <2>2 DEF WireStop, Accepting, AcceptMotion, AcceptGoTo
  <2>3. CASE WireAbort
    <3>1. PICK what \in {"stop", "going"} : FateIs(what)
      BY <2>3 DEF WireAbort
    <3> QED BY <3>1, FateOfStop
  <2> QED BY <1>3, <2>1, <2>2, <2>3 DEF Handed
<1>4. CASE WriteAck \/ TickForWire \/ Idle \/ WireEstop
  BY <1>4 DEF WriteAck, TickForWire, Idle, ResolveIfDue, WireEstop
<1>5. CASE \/ DispatchJob \/ NoDispatch \/ NoMoreLines \/ Replied \/ Acquire \/ EndTick
           \/ JobTicks \/ JobReturns \/ TimePasses
  BY <1>5 DEF DispatchJob, NoDispatch, NoMoreLines, Replied, Acquire, EndTick, JobTicks, JobReturns,
              TimePasses, adapterVars
<1>6. CASE ServeTick
  BY <1>6, FateOfServe DEF ServeTick
<1>7. CASE WatchdogStops
  <2>1. PICK what \in {"watchdog", "going"} : FateIs(what)
    BY <1>7 DEF WatchdogStops
  <2> QED BY <2>1, FateOfStop
<1>8. ASSUME NEW time \in Times, JobMoves(time)
      PROVE  FALSE
  BY <1>1, <1>8 DEF JobMoves, FibersInv, None
<1>9. CASE UNCHANGED vars
  BY <1>9 DEF vars, adapterVars
<1> QED BY <1>2, <1>3, <1>4, <1>5, <1>6, <1>7, <1>8, <1>9 DEF Next, Protocol

(* A block never takes the place of a wire motion whose obligation is live, *)
(* however its fiber's moves fall between the protocol fiber's yields       *)
(* (motion_owner.h), under the same proviso.                               *)
THEOREM BlockWaitsForWireHolds ==
  ASSUME ~LateWrites PROVE Spec => BlockWaitsForWire
<1>1. ArbitrationTypeOK /\ FibersInv /\ OwnersInv /\ [Next]_vars => [WireHolds]_vars
  BY WireHoldsStep
<1>2. ArbitrationTypeOK /\ FibersInv /\ OwnersInv /\ [Next]_vars => OwnersInv'
  BY OwnersStep
<1>3. [][WireHolds]_vars => BlockWaitsForWire
  BY DEF WireHolds, BlockWaitsForWire
<1> QED BY <1>1, <1>2, <1>3, OwnersInit, TypeCorrect, JobOwnsTheFiber, PTL DEF Spec

-----------------------------------------------------------------------------
(* What the host is told.  For a pending goal-directed motion, the engine's *)
(* state still shows what became of it, so that the reason resolved from it *)
(* late is the reason that was true at its end.                            *)
FateInv ==
    pending /\ goal =>
      /\ fate = "going" => drive.kind = "segment" /\ drive.by = "wire"
      /\ fate = "timeout" => expired /\ drive.kind # "segment"
      /\ fate \in {"arrived", "wrongway", "refused", "stall", "estop", "stop", "watchdog"} =>
            ~expired /\ drive.kind # "segment"
      /\ fate # "superseded"

(* DoneTellsTheTruth of one record.                                        *)
Truthful(d) ==
    /\ d.fate = "timeout" => d.reason # "stop"
    /\ d.reason = "timeout" => d.fate \in {"timeout", "detached"}
    /\ d.fate \in {"going", "superseded"} => d.reason \in {None, "aborted", "stall", "estop"}

LEMMA TruthfulDone == DoneTellsTheTruth <=> Truthful(done)
BY DEF DoneTellsTheTruth, Truthful

LEMMA TruthfulDoneNext == Truthful(done') => DoneTellsTheTruth'
BY DEF DoneTellsTheTruth, Truthful

(* A reason resolved now from the engine's state is true.                  *)
LEMMA NaturalIsTruthful ==
  ASSUME ArbitrationTypeOK, FateInv, Truthful(done), Reason(MoveActive, expired) # None
  PROVE  Truthful(Completed(Reason(MoveActive, expired), fate))
<1>1. CASE pending /\ goal
  <2>1. Reason(MoveActive, expired) \in {"estop", "stall"}
        \/ (~MoveActive /\ Reason(MoveActive, expired) = IF expired THEN "timeout" ELSE "stop")
    BY <1>1, ZenonT(30) DEF Reason
  <2>2. fate \in Fates
    BY DEF ArbitrationTypeOK
  <2> QED BY <1>1, <2>1, <2>2 DEF FateInv, Truthful, Completed, Kept, MoveActive, Fates, None
<1>2. CASE ~(pending /\ goal)
  BY <1>2 DEF Completed
<1> QED BY <1>1, <1>2

LEMMA FateOfBegun ==
  ASSUME NEW kind, NEW by, NEW left, Begin(kind, by, left), UNCHANGED <<pending, goal>>,
         Overtake("replaced") \/ Overtake("detached")
  PROVE  FateInv'
BY DEF FateInv, Overtake

LEMMA FateOfStopped ==
  ASSUME ArbitrationTypeOK, FateInv, EndMove, UNCHANGED <<pending, goal>>,
         NEW what \in {"stop", "estop", "watchdog"},
         FateIs(IF Driving THEN what ELSE fate)
  PROVE  FateInv'
<1> SUFFICES ASSUME pending, goal PROVE FateInv'
  BY DEF FateInv
<1>1. CASE fate = "going"
  <2>1. drive.kind = "segment" /\ drive.by = "wire" /\ Driving /\ MoveActive
    BY <1>1 DEF FateInv, Driving, MoveActive
  <2>2. drive' = Rest /\ expired' = FALSE
    BY <2>1 DEF EndMove
  <2>3. fate' = what
    BY <1>1, <2>1 DEF FateIs, Ended
  <2> QED BY <2>2, <2>3 DEF FateInv, Rest
<1>2. CASE fate # "going"
  <2>1. fate' = fate
    BY <1>2 DEF FateIs, Ended
  <2>2. drive.kind # "segment" => drive'.kind # "segment" /\ expired' = expired
    BY DEF EndMove, MoveActive, Rest, ArbitrationTypeOK
  <2> QED BY <1>2, <2>1, <2>2 DEF FateInv
<1> QED BY <1>1, <1>2

LEMMA FateOfServed ==
  ASSUME ArbitrationTypeOK, FateInv, Serve, UNCHANGED <<pending, goal>>
  PROVE  FateInv'
<1> SUFFICES ASSUME pending, goal PROVE FateInv'
  BY DEF FateInv
<1>1. PICK outcome \in Outcomes(latch') :
        IF outcome = "going"
          THEN UNCHANGED <<drive, expired, fate>>
          ELSE /\ drive' = Rest
               /\ expired' = IF MoveActive THEN outcome = "timeout" ELSE expired
               /\ FateIs(outcome)
  BY DEF Serve
<1>2. CASE outcome = "going"
  BY <1>1, <1>2 DEF FateInv
<1>3. CASE outcome # "going" /\ fate = "going"
  <2>1. MoveActive /\ drive.by = "wire"
    BY <1>3 DEF FateInv, MoveActive
  <2>2. fate' = outcome /\ outcome \in {"estop", "stall", "timeout", "arrived", "wrongway", "refused"}
    BY <1>1, <1>3, <2>1 DEF FateIs, Ended, Outcomes
  <2>3. expired' <=> outcome = "timeout"
    BY <1>1, <1>3, <2>1
  <2> QED BY <1>1, <1>3, <2>2, <2>3 DEF FateInv, Rest
<1>4. CASE outcome # "going" /\ fate # "going"
  <2>1. fate' = fate
    BY <1>1, <1>4 DEF FateIs, Ended
  <2>2. drive.kind # "segment" => UNCHANGED expired
    BY <1>1, <1>4 DEF MoveActive
  <2>3. drive'.kind # "segment"
    BY <1>1, <1>4 DEF Rest
  <2> QED BY <1>4, <2>1, <2>2, <2>3 DEF FateInv
<1> QED BY <1>2, <1>3, <1>4

LEMMA FateOfResolved ==
  ASSUME ArbitrationTypeOK, FateInv, DoneTellsTheTruth, ResolveIfDue, UNCHANGED <<drive, expired, goal>>
  PROVE  FateInv' /\ DoneTellsTheTruth'
<1>1. CASE Reason(MoveActive, expired) = None
  <2>1. UNCHANGED <<pending, lease, done, fate>>
    BY <1>1 DEF ResolveIfDue
  <2> QED BY <2>1 DEF FateInv, DoneTellsTheTruth
<1>2. CASE Reason(MoveActive, expired) # None
  <2>1. done' = Completed(Reason(MoveActive, expired), fate) /\ pending' = FALSE
    BY <1>2 DEF ResolveIfDue, Resolved
  <2>2. Truthful(done')
    BY <1>2, <2>1, NaturalIsTruthful, TruthfulDone
  <2> QED BY <2>1, <2>2, TruthfulDoneNext DEF FateInv
<1> QED BY <1>1, <1>2

(* A motion that the next one ends: its own reason, or else aborted.        *)
LEMMA ReplacedIsTruthful ==
  ASSUME ArbitrationTypeOK, FateInv, Truthful(done)
  PROVE  /\ Truthful(Forced("aborted", MoveActive, expired, Superseded))
         /\ Truthful(Forced("aborted", TRUE, FALSE, Superseded))
<1>1. fate \in Fates
  BY DEF ArbitrationTypeOK
<1>2. CASE pending /\ goal
  <2>1. Superseded = IF fate = "going" THEN "superseded" ELSE fate
    BY <1>2 DEF Superseded, Ended, FateInv
  <2>2. Reason(TRUE, FALSE) \in {None, "estop", "stall"}
    BY <1>2 DEF Reason
  <2>3. Reason(MoveActive, expired) \in {None, "estop", "stall"}
        \/ (~MoveActive /\ Reason(MoveActive, expired) = IF expired THEN "timeout" ELSE "stop")
    BY <1>2, ZenonT(30) DEF Reason
  <2>4. Truthful(Forced("aborted", TRUE, FALSE, Superseded))
    BY <1>1, <1>2, <2>1, <2>2 DEF Forced, Completed, Kept, Truthful, Fates, None
  <2>5. CASE Reason(MoveActive, expired) \in {None, "estop", "stall"}
    BY <1>1, <1>2, <2>1, <2>4, <2>5 DEF Forced, Completed, Kept, Truthful, Fates, None
  <2>6. CASE ~MoveActive /\ Reason(MoveActive, expired) = IF expired THEN "timeout" ELSE "stop"
    <3>1. fate # "going" /\ Superseded = fate
      BY <1>2, <2>1, <2>6 DEF FateInv, MoveActive
    <3>2. Truthful(Completed(Reason(MoveActive, expired), fate))
      BY <2>6, NaturalIsTruthful DEF None
    <3> QED BY <2>4, <2>6, <3>1, <3>2 DEF Forced, None
  <2> QED BY <2>3, <2>4, <2>5, <2>6
<1>3. CASE ~(pending /\ goal)
  BY <1>3 DEF Forced, Completed
<1> QED BY <1>2, <1>3

(* A stop ends what runs first and asks for the reason afterwards.          *)
LEMMA StoppedIsTruthful ==
  ASSUME ArbitrationTypeOK, FateInv, Truthful(done), EndMove
  PROVE  /\ Truthful(Forced("stop", FALSE, expired', Ended("stop")))
         /\ Truthful(Completed("estop", Ended("estop")))
<1>1. fate \in Fates
  BY DEF ArbitrationTypeOK
<1>2. CASE pending /\ goal
  <2>1. /\ Ended("stop") = IF fate = "going" THEN "stop" ELSE fate
        /\ Ended("estop") = IF fate = "going" THEN "estop" ELSE fate
    BY <1>2 DEF Ended, FateInv
  <2>2. Truthful(Completed("estop", Ended("estop")))
    BY <1>1, <1>2, <2>1 DEF FateInv, Completed, Kept, Truthful, Fates, None
  <2>3. Reason(FALSE, expired') \in {"estop", "stall"}
        \/ Reason(FALSE, expired') = IF expired' THEN "timeout" ELSE "stop"
    BY <1>2, ZenonT(30) DEF Reason
  <2>4. CASE Reason(FALSE, expired') \in {"estop", "stall"}
    BY <1>1, <1>2, <2>1, <2>2, <2>4 DEF FateInv, Forced, Completed, Kept, Truthful, Fates, None
  <2>5. CASE Reason(FALSE, expired') = IF expired' THEN "timeout" ELSE "stop"
    <3>1. expired' <=> expired /\ ~MoveActive
      BY Zenon DEF EndMove
    <3>2. Reason(FALSE, expired') # None
      BY <2>5 DEF None
    <3>3. Forced("stop", FALSE, expired', Ended("stop"))
            = [reason |-> IF expired' THEN "timeout" ELSE "stop", fate |-> Kept(Ended("stop"))]
      BY <1>2, <2>5, <3>2 DEF Forced, Completed
    <3>4. expired' => Kept(fate) \in {"timeout", "detached"}
      BY <1>1, <1>2, <3>1 DEF FateInv, MoveActive, Fates, Kept
    <3>5. ~expired' => fate \notin {"timeout", "superseded"}
      BY <1>2, <3>1 DEF FateInv, MoveActive
    <3>6. Truthful([reason |-> IF expired' THEN "timeout" ELSE "stop", fate |-> Kept(Ended("stop"))])
      BY <2>1, <3>4, <3>5 DEF Truthful, Kept
    <3> QED BY <2>2, <3>3, <3>6
  <2> QED BY <2>3, <2>4, <2>5
<1>3. CASE ~(pending /\ goal)
  BY <1>3 DEF Forced, Completed
<1> QED BY <1>2, <1>3

LEMMA FateOfHalt ==
  ASSUME ArbitrationTypeOK, FateInv, DoneTellsTheTruth, EndMove, pending' = FALSE,
         \/ done' = Forced("stop", FALSE, expired', Ended("stop"))
         \/ done' = Completed("estop", Ended("estop"))
  PROVE  FateInv' /\ DoneTellsTheTruth'
<1>1. Truthful(done')
  BY StoppedIsTruthful, TruthfulDone
<1> QED BY <1>1, TruthfulDoneNext DEF FateInv

LEMMA FateHanded ==
  ASSUME ArbitrationTypeOK, FateInv, DoneTellsTheTruth, Handed
  PROVE  FateInv' /\ DoneTellsTheTruth'
<1> USE TruthfulDone, TruthfulDoneNext
<1>1. CASE OtherLine \/ RefuseMotion \/ WireRun
  <2>1. UNCHANGED <<drive, expired, pending, goal, fate, done>>
    BY <1>1 DEF OtherLine, RefuseMotion, WireRun, adapterVars, engineVars
  <2> QED BY <2>1 DEF FateInv, DoneTellsTheTruth
<1>2. CASE WireStop
  BY <1>2, FateOfHalt DEF WireStop, SoftStop, Resolved
<1>3. CASE WireAbort
  <2>1. FateInv'
    BY <1>3, FateOfStopped DEF WireAbort, SoftStop
  <2>2. done' = done
    BY <1>3 DEF WireAbort
  <2> QED BY <2>1, <2>2
<1>4. ASSUME NEW time \in Times, NEW verb \in Verbs, AcceptMotion(verb, time)
      PROVE  FateInv' /\ DoneTellsTheTruth'
  <2>1. Truthful(done')
    BY <1>4, ReplacedIsTruthful DEF AcceptMotion
  <2>2. fate' = "going" /\ (goal' => verb = "MOVE_X")
    BY <1>4 DEF AcceptMotion, Accept
  <2>3. verb = "MOVE_X" => drive'.kind = "segment" /\ drive'.by = "wire"
    BY <1>4 DEF AcceptMotion, Begin
  <2> QED BY <2>1, <2>2, <2>3 DEF FateInv
<1>5. ASSUME NEW time \in Times, AcceptGoTo(time, TRUE)
      PROVE  FateInv' /\ DoneTellsTheTruth'
  <2>1. drive' = [kind |-> "segment", by |-> "wire", left |-> time] /\ fate' = "going"
    BY <1>5 DEF AcceptGoTo, Begin
  <2>2. expired' = FALSE
    BY <1>5 DEF AcceptGoTo, Begin
  <2>3. done' = Forced("aborted", TRUE, FALSE, Superseded)
    BY <1>5, <2>1, <2>2 DEF AcceptGoTo
  <2> QED BY <2>1, <2>3, ReplacedIsTruthful DEF FateInv
<1>6. ASSUME NEW time \in Times, AcceptGoTo(time, FALSE)
      PROVE  FateInv' /\ DoneTellsTheTruth'
  <2>1. UNCHANGED <<drive, expired>> /\ fate' = "detached"
    BY <1>6 DEF AcceptGoTo, engineVars
  <2>2. done' = Forced("aborted", MoveActive, expired, Superseded)
    BY <1>6, <2>1 DEF AcceptGoTo, MoveActive
  <2> QED BY <2>1, <2>2, ReplacedIsTruthful DEF FateInv
<1>7. ASSUME NEW time \in Times, Accepting(time)
      PROVE  FateInv' /\ DoneTellsTheTruth'
  BY <1>4, <1>5, <1>6, <1>7 DEF Accepting
<1>8. CASE WireClear
  BY <1>8, FateOfResolved DEF WireClear
<1> QED BY <1>1, <1>2, <1>3, <1>7, <1>8 DEF Handed

LEMMA FateStep ==
  ASSUME ArbitrationTypeOK, FateInv, DoneTellsTheTruth, [Next]_vars
  PROVE  FateInv' /\ DoneTellsTheTruth'
<1>0. ASSUME FateInv', UNCHANGED done PROVE FateInv' /\ DoneTellsTheTruth'
  BY <1>0 DEF DoneTellsTheTruth
<1>1. ASSUME NEW b \in Blocks, Block(b)
      PROVE  FateInv' /\ DoneTellsTheTruth'
  <2>1. UNCHANGED <<pending, goal, done>>
    BY <1>1 DEF Block, BlockMoves, BlockTwists, BlockNudges, BlockSetsWheels, BlockStops,
                BlockEstops, BlockClears, BlockTicks, BlockAcquires, BlockServes, BlockEndsTick,
                BlockIdle, adapterVars
  <2>2. CASE \/ \E time \in Times : BlockMoves(b, time)
             \/ BlockTwists(b) \/ BlockNudges(b) \/ BlockSetsWheels(b)
    BY <1>0, <2>1, <2>2, FateOfBegun DEF BlockMoves, BlockTwists, BlockNudges, BlockSetsWheels
  <2>3. CASE BlockStops(b) \/ BlockEstops(b)
    BY <1>0, <2>1, <2>3, FateOfStopped DEF BlockStops, BlockEstops, SoftStop, EstopAll
  <2>4. CASE BlockServes(b)
    BY <1>0, <2>1, <2>4, FateOfServed DEF BlockServes
  <2>5. CASE BlockClears(b) \/ BlockTicks(b) \/ BlockAcquires(b) \/ BlockEndsTick(b)
    <3>1. UNCHANGED <<drive, expired, fate>>
      BY <2>5 DEF BlockClears, BlockTicks, BlockAcquires, BlockEndsTick, engineVars, adapterVars
    <3> QED BY <1>0, <2>1, <3>1 DEF FateInv
  <2> QED BY <1>1, <2>2, <2>3, <2>4, <2>5 DEF Block
<1>2. CASE WriteAck \/ TickForWire \/ Idle
  BY <1>2, FateOfResolved DEF WriteAck, TickForWire, Idle, engineVars
<1>3. CASE \/ DispatchJob \/ NoDispatch \/ NoMoreLines \/ Replied \/ Acquire \/ EndTick
           \/ JobTicks \/ JobReturns \/ UNCHANGED vars
  <2>1. UNCHANGED <<drive, expired, pending, goal, fate, done>>
    BY <1>3 DEF DispatchJob, NoDispatch, NoMoreLines, Replied, Acquire, EndTick, JobTicks,
                JobReturns, vars, engineVars, adapterVars
  <2> QED BY <1>0, <2>1 DEF FateInv
<1>4. CASE ServeTick
  BY <1>0, <1>4, FateOfServed DEF ServeTick
<1>5. ASSUME NEW time \in Times, JobMoves(time)
      PROVE  FateInv' /\ DoneTellsTheTruth'
  BY <1>0, <1>5, FateOfBegun DEF JobMoves
<1>6. CASE WatchdogStops
  BY <1>0, <1>6, FateOfStopped DEF WatchdogStops, SoftStop
<1>7. CASE TimePasses
  <2>1. drive'.kind = drive.kind /\ drive'.by = drive.by
    BY <1>7 DEF TimePasses, ArbitrationTypeOK
  <2>2. UNCHANGED <<expired, pending, goal, fate, done>>
    BY <1>7 DEF TimePasses
  <2> QED BY <1>0, <2>1, <2>2 DEF FateInv
<1>8. CASE WireEstop
  BY <1>8, FateOfHalt DEF WireEstop, EstopAll, Resolved
<1> QED BY <1>1, <1>2, <1>3, <1>4, <1>5, <1>6, <1>7, <1>8, FateHanded DEF Next, Protocol

(* A goal-directed motion is reported done with "timeout" only when its     *)
(* deadline ended it, however late it is polled, never so after an arrival,  *)
(* an abort on the wrong way or a refused drive; one the deadline ended is   *)
(* never a stop, and one that still runs is only ever aborted               *)
(* (wire_adapter.cpp, resolvePendingReason()), whatever a pass writes. That *)
(* a stop is an arrival is not claimed: it is told of aborts as well.       *)
THEOREM ReasonsAreTrue == Spec => []DoneTellsTheTruth
<1>1. Init => FateInv /\ DoneTellsTheTruth
  BY DEF Init, FateInv, DoneTellsTheTruth, None
<1>2. ArbitrationTypeOK /\ FateInv /\ DoneTellsTheTruth /\ [Next]_vars
        => FateInv' /\ DoneTellsTheTruth'
  BY FateStep
<1> QED BY <1>1, <1>2, TypeCorrect, PTL DEF Spec
=============================================================================
