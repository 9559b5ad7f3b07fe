------------------------- MODULE BoardWiring_proofs -------------------------
(***************************************************************************)
(* Proofs about BoardWiring for every set of fibers that rewire, every     *)
(* sequence of requests and every pattern of faults.  Two wheels on one    *)
(* port needs one fiber that rewires: two of them can bring it about (the  *)
(* run of BoardWiring_Race.cfg).                                           *)
(***************************************************************************)
EXTENDS BoardWiring, FiniteSetTheorems, TLAPS

Wirings == [port : MotorPorts, sign : {1, -1}]
Boards == [wired : [Sides -> Wirings], staged : [Sides -> BOOLEAN],
           last : [Sides -> {"never", "zero", "duty"}], running : SUBSET MotorPorts]
Moves == [side : Sides, to : Wirings]
Plans == {<<>>} \cup {<<m>> : m \in Moves} \cup {<<m, n>> : m, n \in Moves}
Places == {"idle", "tick left", "tick right", "settle left", "settle right", "waits", "begins"}
Fibers == Rewirers \cup {Driver}
Pasts == [calls : Nat, deaf : Nat, hardFaults : Nat, unheard : SUBSET MotorPorts, quiet : BOOLEAN]

TypeInv ==
    /\ board \in Boards
    /\ deaf \in BOOLEAN /\ stopStaged \in BOOLEAN /\ driving \in BOOLEAN
    /\ guard \in Fibers \cup {NoFiber}
    /\ wfiber \in [Fibers -> [pc : Places, plan : Plans]]
    /\ wiringPast \in Pasts

-----------------------------------------------------------------------------
(* What a write, a stop and a rewiring do to the ports.                     *)

\* c is b with its ports as wired, and nothing turning that b did not turn.
Quieter(c, b) == c \in Boards /\ c.wired = b.wired /\ c.running \subseteq b.running

LEMMA WriteFacts ==
  ASSUME deaf \in BOOLEAN, NEW b \in Boards, NEW s \in Sides
  PROVE  LET c == ShapedWrite(b, s)
         IN /\ c \in Boards /\ c.wired = b.wired /\ c.staged = b.staged
            /\ c.running \subseteq b.running \cup {b.wired[s].port}
            /\ ~b.staged[s] => /\ c.running \subseteq b.running
                               /\ ~deaf => c.running = b.running \ {b.wired[s].port}
            /\ deaf => c.running = b.running
<1> DEFINE port == b.wired[s].port
<1>1. port \in MotorPorts
  BY DEF Boards, Wirings
<1>2. CASE deaf
  BY <1>2 DEF ShapedWrite
<1>3. CASE ~deaf /\ b.staged[s]
  <2>1. ShapedWrite(b, s) = [b EXCEPT !.last[s] = "duty", !.running = @ \cup {port}]
    BY <1>3 DEF ShapedWrite
  <2>2. ShapedWrite(b, s) = [wired |-> b.wired, staged |-> b.staged,
                             last |-> [b.last EXCEPT ![s] = "duty"],
                             running |-> b.running \cup {port}]
    BY <2>1 DEF Boards
  <2>3. b.running \cup {port} \in SUBSET MotorPorts /\ [b.last EXCEPT ![s] = "duty"] \in [Sides -> {"never", "zero", "duty"}]
    BY <1>1 DEF Boards
  <2> HIDE DEF port
  <2>4. ShapedWrite(b, s) \in Boards
    BY <2>2, <2>3 DEF Boards
  <2>5. b.wired[s].port = port
    BY DEF port
  <2> QED BY <1>3, <2>2, <2>4, <2>5
<1>4. CASE ~deaf /\ ~b.staged[s]
  <2>1. ShapedWrite(b, s) = [b EXCEPT !.last[s] = "zero", !.running = @ \ {port}]
    BY <1>4 DEF ShapedWrite
  <2>2. ShapedWrite(b, s) = [wired |-> b.wired, staged |-> b.staged,
                             last |-> [b.last EXCEPT ![s] = "zero"],
                             running |-> b.running \ {port}]
    BY <2>1 DEF Boards
  <2>3. b.running \ {port} \in SUBSET MotorPorts /\ [b.last EXCEPT ![s] = "zero"] \in [Sides -> {"never", "zero", "duty"}]
    BY <1>1 DEF Boards
  <2> HIDE DEF port
  <2>4. ShapedWrite(b, s) \in Boards
    BY <2>2, <2>3 DEF Boards
  <2>5. b.wired[s].port = port
    BY DEF port
  <2> QED BY <1>4, <2>2, <2>4, <2>5
<1> QED BY <1>2, <1>3, <1>4

LEMMA StageChange ==
  ASSUME NEW b \in Boards, NEW s \in Sides, NEW v
  PROVE  [b EXCEPT !.staged[s] = v] =
           [wired |-> b.wired, staged |-> [b.staged EXCEPT ![s] = v], last |-> b.last,
            running |-> b.running]
BY DEF Boards

LEMMA StopFacts ==
  ASSUME deaf \in BOOLEAN, NEW b \in Boards, NEW s \in Sides
  PROVE  LET c == PortStop(b, s)
         IN /\ Quieter(c, b) /\ c.staged = [b.staged EXCEPT ![s] = FALSE]
            /\ ~deaf => c.running = b.running \ {b.wired[s].port}
            /\ deaf => c.running = b.running
<1> DEFINE d == [b EXCEPT !.staged[s] = FALSE]
<1>0. d = [wired |-> b.wired, staged |-> [b.staged EXCEPT ![s] = FALSE], last |-> b.last,
           running |-> b.running]
  BY StageChange, Zenon
<1>1. /\ d \in Boards /\ d.wired = b.wired /\ d.running = b.running
      /\ d.staged = [b.staged EXCEPT ![s] = FALSE] /\ ~d.staged[s]
  BY <1>0 DEF Boards
<1>2. PortStop(b, s) = ShapedWrite(d, s)
  BY DEF PortStop
<1> HIDE DEF d
<1>3. LET c == ShapedWrite(d, s)
      IN /\ c \in Boards /\ c.wired = d.wired /\ c.staged = d.staged
         /\ c.running \subseteq d.running
         /\ ~deaf => c.running = d.running \ {d.wired[s].port}
         /\ deaf => c.running = d.running
  BY <1>1, WriteFacts
<1> QED BY <1>1, <1>2, <1>3 DEF Quieter

LEMMA BothStopFacts ==
  ASSUME deaf \in BOOLEAN, NEW b \in Boards
  PROVE  LET c == BothStop(b)
         IN /\ Quieter(c, b) /\ \A s \in Sides : ~c.staged[s]
            /\ ~deaf => c.running \cap Wired(b) = {}
<1> DEFINE c == PortStop(b, "left")
<1>1. "left" \in Sides /\ "right" \in Sides
  BY DEF Sides
<1>2. /\ Quieter(c, b) /\ c.staged = [b.staged EXCEPT !["left"] = FALSE]
      /\ ~deaf => c.running = b.running \ {b.wired["left"].port}
  BY <1>1, StopFacts
<1>3. /\ Quieter(BothStop(b), c) /\ BothStop(b).staged = [c.staged EXCEPT !["right"] = FALSE]
      /\ ~deaf => BothStop(b).running = c.running \ {c.wired["right"].port}
  BY <1>1, <1>2, StopFacts DEF BothStop, Quieter
<1> HIDE DEF c
<1>4. \A s \in Sides : ~BothStop(b).staged[s]
  BY <1>2, <1>3 DEF Sides, Boards
<1>5. ~deaf => BothStop(b).running \cap Wired(b) = {}
  BY <1>2, <1>3 DEF Wired, Quieter, Sides
<1> QED BY <1>2, <1>3, <1>4, <1>5 DEF Quieter

LEMMA StageFacts ==
  ASSUME driving \in BOOLEAN, NEW b \in Boards
  PROVE  LET c == StageFor(b)
         IN /\ c \in Boards /\ c.wired = b.wired /\ c.running = b.running
            /\ \A s \in Sides : c.staged[s] <=> driving
BY DEF StageFor, Boards

\* c is b with one side's wiring changed to what the move says.
Rewired(c, b, m) == c.wired = [b.wired EXCEPT ![m.side] = m.to]

LEMMA RewireFacts ==
  ASSUME deaf \in BOOLEAN, NEW b \in Boards, NEW m \in Moves
  PROVE  LET c == Rewire(b, m)
         IN /\ c \in Boards /\ Rewired(c, b, m)
            /\ c.staged = [b.staged EXCEPT ![m.side] = FALSE]
            /\ ~deaf => c.running = b.running \ {b.wired[m.side].port}
            /\ deaf => c.running = b.running
<1> DEFINE d == PortStop(b, m.side)
<1>1. /\ Quieter(d, b) /\ d.staged = [b.staged EXCEPT ![m.side] = FALSE]
      /\ ~deaf => d.running = b.running \ {b.wired[m.side].port}
      /\ deaf => d.running = b.running
  BY StopFacts DEF Moves
<1>2. Rewire(b, m) = [d EXCEPT !.wired[m.side] = m.to, !.last[m.side] = "never"]
  BY DEF Rewire
<1> HIDE DEF d
<1>3. Rewire(b, m) = [wired |-> [d.wired EXCEPT ![m.side] = m.to], staged |-> d.staged,
                      last |-> [d.last EXCEPT ![m.side] = "never"], running |-> d.running]
  BY <1>1, <1>2 DEF Quieter, Boards
<1>4. Rewire(b, m) \in Boards
  BY <1>1, <1>3 DEF Quieter, Boards, Moves
<1> QED BY <1>1, <1>3, <1>4 DEF Quieter, Rewired

\* The wiring once the moves of a plan are made.
Outcome(w, moves) ==
    IF moves = <<>> THEN w
    ELSE LET v == [w EXCEPT ![moves[1].side] = moves[1].to]
         IN IF Len(moves) < 2 THEN v ELSE [v EXCEPT ![moves[2].side] = moves[2].to]

LEMMA PlanShapes ==
  ASSUME NEW moves \in Plans
  PROVE  \/ moves = <<>>
         \/ \E m \in Moves : moves = <<m>>
         \/ \E m, n \in Moves : moves = <<m, n>>
BY DEF Plans

LEMMA TupleFacts ==
  ASSUME NEW m, NEW n
  PROVE  /\ Len(<<>>) = 0
         /\ <<m>> # <<>> /\ Len(<<m>>) = 1 /\ Head(<<m>>) = m /\ Tail(<<m>>) = <<>>
         /\ <<m, n>> # <<>> /\ Len(<<m, n>>) = 2 /\ Head(<<m, n>>) = m /\ Tail(<<m, n>>) = <<n>>
         /\ <<m>>[1] = m /\ <<m, n>>[1] = m /\ <<m, n>>[2] = n
OBVIOUS

LEMMA OutcomeFacts ==
  ASSUME NEW w, NEW m
  PROVE  /\ Outcome(w, <<>>) = w
         /\ Outcome(w, <<m>>) = [w EXCEPT ![m.side] = m.to]
BY TupleFacts DEF Outcome

LEMMA OutcomeOfTwo ==
  ASSUME NEW w, NEW m, NEW n
  PROVE  Outcome(w, <<m, n>>) = Outcome([w EXCEPT ![m.side] = m.to], <<n>>)
BY TupleFacts DEF Outcome

LEMMA SameWiring ==
  ASSUME NEW b \in Boards, NEW m \in Moves, m.to = b.wired[m.side]
  PROVE  [b.wired EXCEPT ![m.side] = m.to] = b.wired
<1>1. b.wired \in [Sides -> Wirings] /\ m.side \in Sides
  BY DEF Boards, Moves
<1> QED BY <1>1

LEMMA ConfigureFacts ==
  ASSUME deaf \in BOOLEAN, NEW b \in Boards, NEW m \in Moves
  PROVE  LET c == Configure(b, m)
         IN /\ c \in Boards /\ Rewired(c, b, m)
            /\ c.running \subseteq b.running /\ (deaf => c.running = b.running)
            /\ \A s \in Sides : c.staged[s] => b.staged[s]
<1>1. CASE m.to = b.wired[m.side]
  BY <1>1, SameWiring DEF Configure, Rewired
<1>2. CASE m.to # b.wired[m.side]
  <2> DEFINE c == Rewire(b, m)
  <2>1. /\ c \in Boards /\ Rewired(c, b, m)
        /\ c.staged = [b.staged EXCEPT ![m.side] = FALSE]
        /\ ~deaf => c.running = b.running \ {b.wired[m.side].port}
        /\ deaf => c.running = b.running
    BY RewireFacts
  <2>2. Configure(b, m) = c
    BY <1>2 DEF Configure
  <2> HIDE DEF c
  <2>3. \A s \in Sides : c.staged[s] => b.staged[s]
    BY <2>1 DEF Boards, Moves
  <2> QED BY <2>1, <2>2, <2>3
<1> QED BY <1>1, <1>2

LEMMA ConfigureAllFacts ==
  ASSUME deaf \in BOOLEAN, NEW b \in Boards, NEW moves \in Plans
  PROVE  LET c == ConfigureAll(b, moves)
         IN /\ c \in Boards /\ c.wired = Outcome(b.wired, moves)
            /\ c.running \subseteq b.running /\ (deaf => c.running = b.running)
            /\ \A s \in Sides : c.staged[s] => b.staged[s]
            /\ moves = <<>> => c = b
<1>1. CASE moves = <<>>
  <2>1. ConfigureAll(b, moves) = b
    BY <1>1, TupleFacts DEF ConfigureAll
  <2> QED BY <1>1, <2>1, OutcomeFacts
<1>2. ASSUME NEW m \in Moves, moves = <<m>>
      PROVE  ConfigureAll(b, moves) = Configure(b, m)
  BY <1>2, TupleFacts DEF ConfigureAll
<1>3. ASSUME NEW m \in Moves, NEW n \in Moves, moves = <<m, n>>
      PROVE  ConfigureAll(b, moves) = Configure(Configure(b, m), n)
  BY <1>3, TupleFacts DEF ConfigureAll
<1>4. ASSUME NEW m \in Moves, moves = <<m>>
      PROVE  LET c == ConfigureAll(b, moves)
             IN /\ c \in Boards /\ c.wired = Outcome(b.wired, moves)
                /\ c.running \subseteq b.running /\ (deaf => c.running = b.running)
                /\ \A s \in Sides : c.staged[s] => b.staged[s]
  <2> DEFINE c == Configure(b, m)
  <2>1. /\ c \in Boards /\ Rewired(c, b, m)
        /\ c.running \subseteq b.running /\ (deaf => c.running = b.running)
        /\ \A s \in Sides : c.staged[s] => b.staged[s]
    BY ConfigureFacts
  <2>2. ConfigureAll(b, moves) = c
    BY <1>2, <1>4
  <2> HIDE DEF c
  <2>3. c.wired = Outcome(b.wired, moves)
    BY <1>4, <2>1, OutcomeFacts DEF Rewired
  <2> QED BY <2>1, <2>2, <2>3
<1>5. ASSUME NEW m \in Moves, NEW n \in Moves, moves = <<m, n>>
      PROVE  LET c == ConfigureAll(b, moves)
             IN /\ c \in Boards /\ c.wired = Outcome(b.wired, moves)
                /\ c.running \subseteq b.running /\ (deaf => c.running = b.running)
                /\ \A s \in Sides : c.staged[s] => b.staged[s]
  <2> DEFINE d == Configure(b, m)
             c == Configure(d, n)
  <2>1. /\ d \in Boards /\ Rewired(d, b, m)
        /\ d.running \subseteq b.running /\ (deaf => d.running = b.running)
        /\ \A s \in Sides : d.staged[s] => b.staged[s]
    BY ConfigureFacts
  <2> HIDE DEF d
  <2>2. /\ c \in Boards /\ Rewired(c, d, n)
        /\ c.running \subseteq d.running /\ (deaf => c.running = d.running)
        /\ \A s \in Sides : c.staged[s] => d.staged[s]
    BY <2>1, ConfigureFacts
  <2> HIDE DEF c
  <2>3. ConfigureAll(b, moves) = c
    BY <1>3, <1>5 DEF c, d
  <2>4. c.wired = Outcome(b.wired, moves)
    <3>1. Outcome(b.wired, moves) = Outcome(d.wired, <<n>>)
      BY <1>5, <2>1, OutcomeOfTwo DEF Rewired
    <3>2. c.wired = Outcome(d.wired, <<n>>)
      BY <2>2, OutcomeFacts DEF Rewired
    <3> QED BY <3>1, <3>2
  <2> QED BY <2>1, <2>2, <2>3, <2>4
<1> QED BY <1>1, <1>4, <1>5, PlanShapes DEF Plans

LEMMA DueFacts ==
  ASSUME NEW b \in Boards, NEW moves \in Plans
  PROVE  /\ MovesDue(b, moves) \in Plans
         /\ Outcome(b.wired, MovesDue(b, moves)) = Outcome(b.wired, moves)
<1>1. ASSUME NEW m \in Moves, m.to = b.wired[m.side]
      PROVE  [b.wired EXCEPT ![m.side] = m.to] = b.wired
  BY <1>1, SameWiring
<1>2. CASE moves = <<>>
  BY <1>2 DEF MovesDue
<1>3. ASSUME NEW m \in Moves, moves = <<m>>
      PROVE  /\ MovesDue(b, moves) \in Plans
             /\ Outcome(b.wired, MovesDue(b, moves)) = Outcome(b.wired, moves)
  <2>1. MovesDue(b, moves) = IF m.to = b.wired[m.side] THEN <<>> ELSE moves
    BY <1>3, TupleFacts DEF MovesDue
  <2>2. <<>> \in Plans
    BY DEF Plans
  <2>3. m.to = b.wired[m.side] => Outcome(b.wired, moves) = Outcome(b.wired, <<>>)
    BY <1>1, <1>3, OutcomeFacts
  <2> QED BY <2>1, <2>2, <2>3
<1>4. ASSUME NEW m \in Moves, NEW n \in Moves, moves = <<m, n>>
      PROVE  /\ MovesDue(b, moves) \in Plans
             /\ Outcome(b.wired, MovesDue(b, moves)) = Outcome(b.wired, moves)
  <2>1. MovesDue(b, moves) = IF m.to # b.wired[m.side] THEN moves
                        ELSE IF n.to # b.wired[n.side] THEN <<n>> ELSE <<>>
    BY <1>4, TupleFacts DEF MovesDue
  <2>2. <<>> \in Plans /\ <<n>> \in Plans
    BY DEF Plans
  <2>3. m.to = b.wired[m.side] => Outcome(b.wired, moves) = Outcome(b.wired, <<n>>)
    <3> SUFFICES ASSUME m.to = b.wired[m.side] PROVE Outcome(b.wired, moves) = Outcome(b.wired, <<n>>)
      OBVIOUS
    <3>1. Outcome(b.wired, moves) = Outcome([b.wired EXCEPT ![m.side] = m.to], <<n>>)
      BY <1>4, OutcomeOfTwo
    <3>2. [b.wired EXCEPT ![m.side] = m.to] = b.wired
      BY <1>1
    <3> QED BY <3>1, <3>2
  <2>4. n.to = b.wired[n.side] => Outcome(b.wired, <<n>>) = Outcome(b.wired, <<>>)
    BY <1>1, OutcomeFacts
  <2> QED BY <2>1, <2>2, <2>3, <2>4
<1> QED BY <1>2, <1>3, <1>4, PlanShapes

-----------------------------------------------------------------------------
(* Types, no orphaned wheel, and rest after a rewiring.  After a rewiring    *)
(* the command is neutral until somebody drives; once no stop is staged any  *)
(* more, nothing is staged for the ports.                                    *)
RestInv ==
    /\ wiringPast.quiet => ~driving
    /\ wiringPast.deaf = 0 => ~deaf
    /\ wiringPast.quiet /\ wiringPast.deaf = 0 /\ ~stopStaged
         => /\ \A s \in Sides : ~board.staged[s]
            /\ board.running \subseteq wiringPast.unheard

SafeInv == TypeInv /\ OrphansWereUnheard /\ RestInv

\* What the write of a port, a stop, or staging do to the board.
Writes(c, b) ==
    /\ c \in Boards /\ c.wired = b.wired
    /\ c.running \subseteq b.running \cup Wired(b)
    /\ (\A s \in Sides : ~b.staged[s]) => c.running \subseteq b.running

Silent(c) == \A s \in Sides : ~c.staged[s]

LEMMA WiredFacts ==
  ASSUME NEW b, NEW s \in Sides
  PROVE  b.wired[s].port \in Wired(b)
BY DEF Wired

LEMMA WriteWrites ==
  ASSUME deaf \in BOOLEAN, NEW b \in Boards, NEW s \in Sides
  PROVE  Writes(ShapedWrite(b, s), b) /\ ShapedWrite(b, s).staged = b.staged
BY WriteFacts, WiredFacts DEF Writes

LEMMA StopWrites ==
  ASSUME deaf \in BOOLEAN, NEW b \in Boards
  PROVE  Writes(BothStop(b), b) /\ Silent(BothStop(b))
         /\ (~deaf => BothStop(b).running \subseteq b.running \ Wired(b))
BY BothStopFacts DEF Writes, Silent, Quieter

LEMMA StageWrites ==
  ASSUME deaf \in BOOLEAN, driving \in BOOLEAN, NEW b \in Boards, NEW c, Writes(c, b)
  PROVE  Writes(StageFor(c), b) /\ (~driving => Silent(StageFor(c)))
BY StageFacts DEF Writes, Silent

\* A step that only writes to the ports, of a fiber that parks as it should.
LEMMA ParkFacts ==
  ASSUME TypeInv, NEW f \in Fibers, NEW pc \in Places, NEW plan \in Plans, ParkAt(f, pc, plan)
  PROVE  /\ wfiber' \in [Fibers -> [pc : Places, plan : Plans]]
         /\ \A g \in Fibers \ {f} : wfiber'[g] = wfiber[g]
         /\ wfiber'[f] = [pc |-> pc, plan |-> plan]
BY DEF TypeInv, ParkAt

LEMMA NoPlan == <<>> \in Plans
BY DEF Plans

LEMMA FiberFacts ==
  ASSUME TypeInv, NEW f \in Fibers
  PROVE  wfiber[f].pc \in Places /\ wfiber[f].plan \in Plans
BY DEF TypeInv

LEMMA WritesSafe ==
  ASSUME SafeInv, Writes(board', board),
         UNCHANGED <<deaf, wiringPast>>, driving' \in BOOLEAN, driving' => driving,
         wiringPast.quiet /\ wiringPast.deaf = 0 /\ ~stopStaged'
           => Silent(board') /\ (stopStaged => board'.running \cap Wired(board) = {}),
         stopStaged' \in BOOLEAN, guard' \in Fibers \cup {NoFiber},
         wfiber' \in [Fibers -> [pc : Places, plan : Plans]]
  PROVE  SafeInv'
<1>1. TypeInv'
  BY DEF SafeInv, TypeInv, Writes
<1>2. Wired(board') = Wired(board)
  BY DEF Writes, Wired
<1>3. OrphansWereUnheard'
  BY <1>2 DEF SafeInv, OrphansWereUnheard, Writes
<1>4. RestInv'
  <2>1. CASE wiringPast.quiet /\ wiringPast.deaf = 0 /\ ~stopStaged'
    <3>1. CASE stopStaged
      BY <1>3, <1>2, <2>1, <3>1 DEF SafeInv, RestInv, OrphansWereUnheard, Silent
    <3>2. CASE ~stopStaged
      BY <2>1, <3>2 DEF SafeInv, RestInv, Writes, Silent
    <3> QED BY <3>1, <3>2
  <2> QED BY <2>1 DEF SafeInv, RestInv
<1> QED BY <1>1, <1>3, <1>4 DEF SafeInv

\* Plan shapes.
LEMMA DueSplits ==
  ASSUME NEW due \in Plans, due # <<>>, NEW w
  PROVE  /\ due[1] \in Moves /\ Tail(due) \in Plans
         /\ Outcome([w EXCEPT ![due[1].side] = due[1].to], Tail(due)) = Outcome(w, due)
<1>1. ASSUME NEW m \in Moves, due = <<m>>
      PROVE  /\ due[1] \in Moves /\ Tail(due) \in Plans
             /\ Outcome([w EXCEPT ![due[1].side] = due[1].to], Tail(due)) = Outcome(w, due)
  <2>1. due[1] = m /\ Tail(due) = <<>>
    BY <1>1, TupleFacts
  <2>2. Outcome([w EXCEPT ![m.side] = m.to], <<>>) = Outcome(w, <<m>>)
    BY OutcomeFacts
  <2> QED BY <1>1, <2>1, <2>2, NoPlan
<1>2. ASSUME NEW m \in Moves, NEW n \in Moves, due = <<m, n>>
      PROVE  /\ due[1] \in Moves /\ Tail(due) \in Plans
             /\ Outcome([w EXCEPT ![due[1].side] = due[1].to], Tail(due)) = Outcome(w, due)
  <2>1. due[1] = m /\ Tail(due) = <<n>>
    BY <1>2, TupleFacts
  <2>2. <<n>> \in Plans
    BY DEF Plans
  <2>3. Outcome([w EXCEPT ![m.side] = m.to], <<n>>) = Outcome(w, <<m, n>>)
    BY OutcomeOfTwo
  <2> QED BY <1>2, <2>1, <2>2, <2>3
<1> QED BY <1>1, <1>2, PlanShapes

\* One move leaves behind no wheel that heard its zero.
LEMMA RewireOrphans ==
  ASSUME deaf \in BOOLEAN, ~deaf, NEW b \in Boards, NEW m \in Moves
  PROVE  LET c == Rewire(b, m)
         IN c.running \ Wired(c) \subseteq b.running \ Wired(b)
<1> DEFINE c == Rewire(b, m)
<1>1. /\ c \in Boards /\ c.wired = [b.wired EXCEPT ![m.side] = m.to]
      /\ c.running = b.running \ {b.wired[m.side].port}
  BY RewireFacts DEF Rewired
<1> HIDE DEF c
<1>2. SUFFICES ASSUME NEW x \in c.running, x \notin Wired(c)
      PROVE  x \in b.running /\ x \notin Wired(b)
  BY DEF c
<1>3. x \in b.running /\ x # b.wired[m.side].port
  BY <1>1, <1>2
<1>4. ASSUME NEW s \in Sides, x = b.wired[s].port PROVE FALSE
  <2>1. s # m.side
    BY <1>3, <1>4
  <2>2. c.wired[s] = b.wired[s]
    BY <1>1, <2>1 DEF Boards
  <2> QED BY <1>2, <1>4, <2>2, WiredFacts
<1> QED BY <1>3, <1>4 DEF Wired

LEMMA AppliesSafe ==
  ASSUME SafeInv, NEW f \in Fibers, NEW b \in Boards, NEW moves \in Plans,
         Writes(b, board), b.staged = board.staged,
         Applies(f, b, moves), UNCHANGED <<deaf, stopStaged, driving>>
  PROVE  SafeInv'
<1> DEFINE due == MovesDue(b, moves)
<1>1. due \in Plans
  BY DueFacts
<1>2. b.running \ Wired(b) \subseteq wiringPast.unheard
  BY DEF SafeInv, OrphansWereUnheard, Writes, Wired
<1>3. deaf \in BOOLEAN /\ wiringPast \in Pasts
  BY DEF SafeInv, TypeInv
<1>4. wiringPast.quiet /\ wiringPast.deaf = 0 /\ ~stopStaged
        => Silent(b) /\ b.running \subseteq wiringPast.unheard
  BY DEF SafeInv, RestInv, Writes, Silent
<1>5. CASE due = <<>> \/ deaf
  <2> DEFINE c == ConfigureAll(b, due)
             abandoned == {b.wired[s].port : s \in {s \in Sides : c.wired[s] # b.wired[s]}}
  <2>1. /\ board' = c /\ guard' = NoFiber /\ ParkAt(f, "idle", <<>>)
        /\ wiringPast' = [wiringPast EXCEPT !.unheard = @ \cup (b.running \cap abandoned)]
    BY <1>5 DEF Applies
  <2>2. /\ c \in Boards /\ c.running \subseteq b.running
        /\ \A s \in Sides : c.staged[s] => b.staged[s]
    BY <1>1, <1>3, ConfigureAllFacts
  <2> HIDE DEF due
  <2>3. wiringPast' = [wiringPast EXCEPT !.unheard = wiringPast.unheard \cup (b.running \cap abandoned)]
    BY <1>3, <2>1 DEF Pasts
  <2>4. b.running \cap abandoned \subseteq MotorPorts
    BY DEF Boards
  <2> HIDE DEF c
  <2>5. /\ wiringPast' \in Pasts /\ wiringPast.unheard \subseteq wiringPast'.unheard
        /\ b.running \cap abandoned \subseteq wiringPast'.unheard
        /\ wiringPast'.quiet = wiringPast.quiet /\ wiringPast'.deaf = wiringPast.deaf
    BY <1>3, <2>3, <2>4 DEF Pasts
  <2>6. wfiber' \in [Fibers -> [pc : Places, plan : Plans]]
    BY <2>1, ParkFacts, NoPlan DEF SafeInv, Places
  <2>7. TypeInv'
    BY <2>1, <2>2, <2>5, <2>6 DEF SafeInv, TypeInv
  <2>8. OrphansWereUnheard'
    <3> SUFFICES ASSUME NEW x \in c.running, x \notin Wired(c) PROVE x \in wiringPast'.unheard
      BY <2>1 DEF OrphansWereUnheard
    <3>1. x \in b.running
      BY <2>2
    <3>2. CASE x \in Wired(b)
      <4>1. PICK s \in Sides : x = b.wired[s].port
        BY <3>2 DEF Wired
      <4>2. c.wired[s] # b.wired[s]
        BY <4>1, WiredFacts
      <4> QED BY <2>5, <3>1, <4>1, <4>2
    <3>3. CASE x \notin Wired(b)
      BY <1>2, <2>5, <3>1, <3>3
    <3> QED BY <3>2, <3>3
  <2>9. RestInv'
    <3>1. wiringPast'.quiet => ~driving'
      BY <2>5 DEF SafeInv, RestInv
    <3>2. wiringPast'.deaf = 0 => ~deaf'
      BY <2>5 DEF SafeInv, RestInv
    <3>3. ASSUME wiringPast'.quiet, wiringPast'.deaf = 0, ~stopStaged'
          PROVE  (\A s \in Sides : ~board'.staged[s]) /\ board'.running \subseteq wiringPast'.unheard
      <4>1. Silent(b) /\ b.running \subseteq wiringPast.unheard
        BY <1>4, <2>5, <3>3
      <4> QED BY <2>1, <2>2, <2>5, <4>1 DEF Silent
    <3> QED BY <3>1, <3>2, <3>3 DEF RestInv
  <2> QED BY <2>7, <2>8, <2>9 DEF SafeInv
<1>6. CASE ~(due = <<>> \/ deaf)
  <2> DEFINE c == Rewire(b, due[1])
  <2>1. /\ board' = c /\ guard' = f /\ ParkAt(f, "begins", Tail(due)) /\ UNCHANGED wiringPast
    BY <1>6 DEF Applies
  <2>2. due[1] \in Moves /\ Tail(due) \in Plans
    BY <1>1, <1>6, DueSplits
  <2>3. /\ c \in Boards /\ c.staged = [b.staged EXCEPT ![due[1].side] = FALSE]
        /\ c.running \subseteq b.running /\ c.running \ Wired(c) \subseteq b.running \ Wired(b)
    BY <1>3, <1>6, <2>2, RewireFacts, RewireOrphans
  <2> HIDE DEF c, due
  <2>4. \A s \in Sides : c.staged[s] => b.staged[s]
    BY <2>2, <2>3 DEF Boards, Moves
  <2>5. wfiber' \in [Fibers -> [pc : Places, plan : Plans]]
    BY <2>1, <2>2, ParkFacts DEF SafeInv, Places
  <2>6. TypeInv'
    BY <2>1, <2>3, <2>5 DEF SafeInv, TypeInv
  <2>7. OrphansWereUnheard'
    BY <1>2, <2>1, <2>3 DEF OrphansWereUnheard
  <2>8. RestInv'
    BY <1>4, <2>1, <2>3, <2>4 DEF SafeInv, RestInv, Silent
  <2> QED BY <2>6, <2>7, <2>8 DEF SafeInv
<1> QED BY <1>5, <1>6

LEMMA SoftStopWrites ==
  ASSUME SafeInv, NEW f \in Fibers, NEW plan \in Plans, SoftStop(f, plan)
  PROVE  /\ Writes(board', board) /\ driving' = FALSE
         /\ guard' \in Fibers \cup {NoFiber} /\ stopStaged' \in BOOLEAN
         /\ wfiber' \in [Fibers -> [pc : Places, plan : Plans]]
         /\ \/ guard = NoFiber /\ board' = BothStop(board) /\ stopStaged' = stopStaged
            \/ stopStaged' = TRUE
<1>1. deaf \in BOOLEAN /\ board \in Boards /\ stopStaged \in BOOLEAN /\ guard \in Fibers \cup {NoFiber}
  BY DEF SafeInv, TypeInv
<1>2. CASE guard = NoFiber
  <2>1. guard' = f /\ board' = BothStop(board) /\ ParkAt(f, "settle left", plan)
        /\ stopStaged' = stopStaged /\ driving' = FALSE
    BY <1>2 DEF SoftStop
  <2> QED BY <1>1, <1>2, <2>1, StopWrites, ParkFacts DEF SafeInv, Places
<1>3. CASE guard # NoFiber
  <2>1. /\ stopStaged' = TRUE /\ UNCHANGED <<board, guard>> /\ driving' = FALSE
        /\ \E pc \in Places : ParkAt(f, pc, plan)
    BY <1>3 DEF SoftStop, Places
  <2>2. wfiber' \in [Fibers -> [pc : Places, plan : Plans]]
    BY <2>1, ParkFacts DEF SafeInv
  <2> QED BY <1>1, <2>1, <2>2 DEF Writes
<1> QED BY <1>2, <1>3

LEMMA WritersSafe ==
  ASSUME SafeInv,
         \/ Tick \/ TickDeliversStop \/ TickEnds \/ StopBlock \/ SettlesAndGoes \/ EstopAll
         \/ \E f \in Fibers : LeftTick(f) \/ SettlesOn(f)
  PROVE  SafeInv'
<1>0. /\ deaf \in BOOLEAN /\ driving \in BOOLEAN /\ stopStaged \in BOOLEAN /\ board \in Boards
      /\ guard \in Fibers \cup {NoFiber} /\ wfiber \in [Fibers -> [pc : Places, plan : Plans]]
      /\ TypeInv /\ Driver \in Fibers /\ "left" \in Sides /\ "right" \in Sides
  BY DEF SafeInv, TypeInv, Fibers, Sides
<1>1. /\ wiringPast.quiet => ~driving
      /\ wiringPast.quiet /\ wiringPast.deaf = 0 /\ ~stopStaged => Silent(board)
      /\ wiringPast.deaf = 0 => ~deaf
  BY DEF SafeInv, RestInv, Silent
<1>2. Writes(board, board)
  BY <1>0 DEF Writes
<1>3. ASSUME NEW s \in Sides, board' = ShapedWrite(board, s), UNCHANGED <<deaf, driving, wiringPast, stopStaged>>,
             guard' \in Fibers \cup {NoFiber}, wfiber' \in [Fibers -> [pc : Places, plan : Plans]]
      PROVE  SafeInv'
  <2>1. Writes(board', board) /\ board'.staged = board.staged
    BY <1>0, <1>3, WriteWrites
  <2>2. wiringPast.quiet /\ wiringPast.deaf = 0 /\ ~stopStaged' => Silent(board') /\ ~stopStaged
    BY <1>1, <1>3, <2>1 DEF Silent
  <2> QED BY <1>0, <1>3, <2>1, <2>2, WritesSafe
<1>4. ASSUME NEW c, Writes(c, board), board' = StageFor(c), UNCHANGED <<deaf, driving, wiringPast>>,
             stopStaged' = stopStaged \/ (~deaf => c.running \cap Wired(board) = {}),
             stopStaged' \in BOOLEAN,
             guard' \in Fibers \cup {NoFiber}, wfiber' \in [Fibers -> [pc : Places, plan : Plans]]
      PROVE  SafeInv'
  <2>1. Writes(board', board) /\ (~driving => Silent(board'))
    BY <1>0, <1>4, StageWrites
  <2>2. board'.running = c.running
    BY <1>0, <1>4, StageFacts DEF Writes
  <2> QED BY <1>0, <1>1, <1>4, <2>1, <2>2, WritesSafe
<1>5. ASSUME NEW f \in Fibers, NEW pc \in Places, ParkAt(f, pc, <<>>) \/ ParkAt(f, pc, wfiber[f].plan)
      PROVE  wfiber' \in [Fibers -> [pc : Places, plan : Plans]]
  BY <1>0, <1>5, NoPlan, FiberFacts, ParkFacts
<1>6. CASE Tick
  <2>1. wfiber' \in [Fibers -> [pc : Places, plan : Plans]]
    BY <1>0, <1>5, <1>6 DEF Tick, Places
  <2> QED BY <1>0, <1>2, <1>4, <1>6, <2>1 DEF Tick
<1>7. CASE TickDeliversStop
  <2> DEFINE d == ShapedWrite(board, "right")
             c == BothStop(d)
  <2>1. wfiber' \in [Fibers -> [pc : Places, plan : Plans]]
    BY <1>0, <1>5, <1>7 DEF TickDeliversStop, Places
  <2>2. Writes(d, board) /\ d.staged = board.staged
    BY <1>0, WriteWrites
  <2>3. Writes(c, d) /\ (~deaf => c.running \subseteq d.running \ Wired(d))
    BY <1>0, <2>2, StopWrites DEF Writes
  <2>4. board' = StageFor(c) /\ stopStaged' = FALSE /\ UNCHANGED <<deaf, guard, driving, wiringPast>>
    BY <1>7 DEF TickDeliversStop
  <2> HIDE DEF c, d
  <2>5. Wired(d) = Wired(board)
    BY <2>2 DEF Writes, Wired
  <2>6. Writes(c, board)
    BY <2>2, <2>3, <2>5 DEF Writes
  <2> QED BY <1>0, <1>4, <2>1, <2>3, <2>4, <2>5, <2>6
<1>8. CASE TickEnds \/ SettlesAndGoes
  <2>1. ParkAt(Driver, "idle", <<>>) /\ guard' = NoFiber /\ board' = ShapedWrite(board, "right")
        /\ UNCHANGED <<deaf, stopStaged, driving, wiringPast>>
    BY <1>8 DEF TickEnds, SettlesAndGoes
  <2>2. wfiber' \in [Fibers -> [pc : Places, plan : Plans]]
    BY <1>0, <1>5, <2>1 DEF Places
  <2> QED BY <1>0, <1>3, <2>1, <2>2
<1>9. CASE StopBlock
  <2>1. SoftStop(Driver, <<>>) /\ UNCHANGED <<deaf, wiringPast>>
    BY <1>9 DEF StopBlock
  <2>2. /\ Writes(board', board) /\ driving' = FALSE
        /\ guard' \in Fibers \cup {NoFiber} /\ stopStaged' \in BOOLEAN
        /\ wfiber' \in [Fibers -> [pc : Places, plan : Plans]]
        /\ (board' = BothStop(board) /\ stopStaged' = stopStaged) \/ stopStaged' = TRUE
    BY <1>0, <2>1, NoPlan, SoftStopWrites
  <2>3. ~stopStaged' => Silent(board') /\ ~stopStaged
    BY <1>0, <2>2, StopWrites
  <2> QED BY <2>1, <2>2, <2>3, WritesSafe
<1>10. CASE EstopAll
  <2>1. board' = BothStop(board) /\ driving' = FALSE /\ UNCHANGED <<deaf, guard, stopStaged, wfiber, wiringPast>>
    BY <1>10 DEF EstopAll
  <2>2. Writes(board', board) /\ Silent(board')
    BY <1>0, <2>1, StopWrites
  <2> QED BY <1>0, <2>1, <2>2, WritesSafe
<1>11. ASSUME NEW f \in Fibers, LeftTick(f)
       PROVE  SafeInv'
  <2>1. \E pc \in Places : ParkAt(f, pc, wfiber[f].plan)
    BY <1>11 DEF LeftTick, Places
  <2>2. wfiber' \in [Fibers -> [pc : Places, plan : Plans]]
    BY <1>5, <2>1
  <2> QED BY <1>0, <1>3, <1>11, <2>2 DEF LeftTick
<1>12. ASSUME NEW f \in Fibers, SettlesOn(f)
       PROVE  SafeInv'
  <2>1. wfiber' \in [Fibers -> [pc : Places, plan : Plans]]
    BY <1>5, <1>12 DEF SettlesOn, Places
  <2>2. Writes(ShapedWrite(board, "right"), board)
    BY <1>0, WriteWrites
  <2>3. board' = StageFor(ShapedWrite(board, "right")) /\ UNCHANGED <<deaf, guard, stopStaged, driving, wiringPast>>
    BY <1>12 DEF SettlesOn
  <2> QED BY <1>0, <1>4, <2>1, <2>2, <2>3
<1> QED BY <1>6, <1>7, <1>8, <1>9, <1>10, <1>11, <1>12

-----------------------------------------------------------------------------
(* The plan of a call: at most the other wheel and then the wheel asked     *)
(* for, and two ports at its end if there were two at its start.            *)
Distinct(w) == w["left"].port # w["right"].port

LEMMA SidesFacts ==
  ASSUME NEW s \in Sides
  PROVE  OtherSide(s) \in Sides /\ OtherSide(s) # s
BY DEF Sides, OtherSide

LEMMA DistinctFacts ==
  ASSUME NEW s \in Sides, NEW w
  PROVE  Distinct(w) <=> w[s].port # w[OtherSide(s)].port
BY DEF Sides, OtherSide, Distinct

LEMMA RequestFacts ==
  ASSUME NEW t \in Wirings, NEW u \in Wirings, NEW port \in Int, NEW sign \in Int
  PROVE  LET next == applyWiringRequest(t, u, port, sign)
         IN /\ next.target \in Wirings /\ next.other \in Wirings
            /\ t.port # u.port => next.target.port # next.other.port
<1>1. CASE port \notin MotorPorts \/ sign \notin {1, -1}
  BY <1>1 DEF applyWiringRequest
<1>2. CASE port \in MotorPorts /\ sign \in {1, -1}
  <2>1. Wiring(port, sign) \in Wirings /\ Wiring(port, sign).port = port
    BY <1>2 DEF Wiring, Wirings
  <2>2. CASE u.port = port
    <3>1. applyWiringRequest(t, u, port, sign) =
            [target |-> Wiring(port, sign), other |-> [u EXCEPT !.port = t.port]]
      BY <1>2, <2>2 DEF applyWiringRequest
    <3>2. [u EXCEPT !.port = t.port] \in Wirings /\ [u EXCEPT !.port = t.port].port = t.port
      BY DEF Wirings
    <3> HIDE DEF applyWiringRequest, Wirings
    <3>3. applyWiringRequest(t, u, port, sign).target = Wiring(port, sign)
          /\ applyWiringRequest(t, u, port, sign).other = [u EXCEPT !.port = t.port]
      BY <3>1
    <3> QED BY <2>1, <2>2, <3>2, <3>3
  <2>3. CASE u.port # port
    <3>1. applyWiringRequest(t, u, port, sign) = [target |-> Wiring(port, sign), other |-> u]
      BY <1>2, <2>3 DEF applyWiringRequest
    <3> QED BY <2>1, <2>3, <3>1
  <2> QED BY <2>2, <2>3
<1> QED BY <1>1, <1>2

LEMMA PlanFacts ==
  ASSUME board \in Boards, NEW q \in MotorRequests
  PROVE  /\ Plan(q) \in Plans
         /\ Distinct(board.wired) => Distinct(Outcome(board.wired, Plan(q)))
<1> DEFINE s == q.side
           o == OtherSide(s)
           w == board.wired
           next == applyWiringRequest(w[s], w[o], q.port, q.sign)
           a == [side |-> o, to |-> next.other]
           z == [side |-> s, to |-> next.target]
<1>1. s \in Sides /\ o \in Sides /\ o # s /\ q.port \in Int /\ q.sign \in Int
  BY WiringAssumption, SidesFacts
<1>2. w \in [Sides -> Wirings] /\ w[s] \in Wirings /\ w[o] \in Wirings
  BY <1>1 DEF Boards
<1>3. /\ next.target \in Wirings /\ next.other \in Wirings
      /\ w[s].port # w[o].port => next.target.port # next.other.port
  BY <1>1, <1>2, RequestFacts
<1>4. Plan(q) = IF next.other = w[o]
                THEN IF next.target = w[s] THEN <<>> ELSE <<z>>
                ELSE <<a, z>>
  BY DEF Plan
<1>5. a \in Moves /\ z \in Moves /\ a.side = o /\ a.to = next.other /\ z.side = s /\ z.to = next.target
  BY <1>1, <1>3 DEF Moves
<1> HIDE DEF a, z, next
<1>7. <<>> \in Plans /\ <<z>> \in Plans /\ <<a, z>> \in Plans
  BY <1>5 DEF Plans
<1>8. ASSUME Distinct(w) PROVE Distinct(Outcome(w, Plan(q)))
  <2>1. next.target.port # next.other.port
    BY <1>1, <1>3, <1>8, DistinctFacts
  <2>2. Outcome(w, <<z>>) = [w EXCEPT ![s] = next.target]
    <3>1. Outcome(w, <<z>>) = [w EXCEPT ![z.side] = z.to]
      BY OutcomeFacts, Zenon
    <3> QED BY <1>5, <3>1
  <2>3. Outcome(w, <<a, z>>) = [[w EXCEPT ![o] = next.other] EXCEPT ![s] = next.target]
    <3>1. Outcome(w, <<a, z>>) = Outcome([w EXCEPT ![o] = next.other], <<z>>)
      BY <1>5, OutcomeOfTwo
    <3> DEFINE v == [w EXCEPT ![o] = next.other]
    <3> HIDE DEF v
    <3>2. Outcome(v, <<z>>) = [v EXCEPT ![z.side] = z.to]
      BY OutcomeFacts, Zenon
    <3> QED BY <1>5, <3>1, <3>2 DEF v
  <2>4. CASE next.other = w[o] /\ next.target # w[s]
    <3> DEFINE v == [w EXCEPT ![s] = next.target]
    <3>1. v[s] = next.target /\ v[o] = w[o]
      BY <1>1, <1>2
    <3>2. Plan(q) = <<z>>
      BY <1>4, <2>4
    <3>3. Outcome(w, Plan(q)) = v
      BY <2>2, <3>2
    <3> HIDE DEF v
    <3> QED BY <1>1, <2>1, <2>4, <3>1, <3>3, DistinctFacts
  <2>5. CASE next.other # w[o]
    <3> DEFINE v == [[w EXCEPT ![o] = next.other] EXCEPT ![s] = next.target]
    <3>1. v[s] = next.target /\ v[o] = next.other
      BY <1>1, <1>2
    <3>2. Plan(q) = <<a, z>>
      BY <1>4, <2>5
    <3>3. Outcome(w, Plan(q)) = v
      BY <2>3, <3>2
    <3> HIDE DEF v
    <3> QED BY <1>1, <2>1, <3>1, <3>3, DistinctFacts
  <2>6. CASE next.other = w[o] /\ next.target = w[s]
    <3>1. Plan(q) = <<>>
      BY <1>4, <2>6
    <3> QED BY <1>8, <3>1, OutcomeFacts
  <2> QED BY <2>4, <2>5, <2>6
<1> QED BY <1>4, <1>7, <1>8

LEMMA ConfigureSafe ==
  ASSUME SafeInv, NEW f \in Rewirers, NEW q \in MotorRequests, ConfigureMotor(f, q)
  PROVE  SafeInv'
<1>1. /\ TypeInv /\ f \in Fibers /\ deaf \in BOOLEAN /\ board \in Boards
      /\ wiringPast \in Pasts /\ stopStaged \in BOOLEAN
  BY DEF SafeInv, TypeInv, Fibers
<1>2. /\ SoftStop(f, Plan(q)) /\ deaf' = deaf
      /\ wiringPast' = [wiringPast EXCEPT !.calls = @ + 1, !.quiet = TRUE]
  BY DEF ConfigureMotor
<1>3. /\ Writes(board', board) /\ driving' = FALSE
      /\ guard' \in Fibers \cup {NoFiber} /\ stopStaged' \in BOOLEAN
      /\ wfiber' \in [Fibers -> [pc : Places, plan : Plans]]
      /\ \/ board' = BothStop(board) /\ stopStaged' = stopStaged
         \/ stopStaged' = TRUE
  BY <1>1, <1>2, PlanFacts, SoftStopWrites
<1>4. /\ wiringPast' \in Pasts /\ wiringPast'.unheard = wiringPast.unheard
      /\ wiringPast'.deaf = wiringPast.deaf
  <2>1. wiringPast' = [calls |-> wiringPast.calls + 1, deaf |-> wiringPast.deaf,
                       hardFaults |-> wiringPast.hardFaults,
                       unheard |-> wiringPast.unheard, quiet |-> TRUE]
    BY <1>1, <1>2 DEF Pasts
  <2>2. /\ wiringPast.calls + 1 \in Nat /\ wiringPast.deaf \in Nat /\ wiringPast.hardFaults \in Nat
        /\ wiringPast.unheard \in SUBSET MotorPorts
    BY <1>1 DEF Pasts
  <2> QED BY <2>1, <2>2 DEF Pasts
<1>5. TypeInv'
  BY <1>1, <1>2, <1>3, <1>4 DEF TypeInv, Writes
<1>6. OrphansWereUnheard'
  BY <1>3, <1>4 DEF SafeInv, OrphansWereUnheard, Writes, Wired
<1>7. RestInv'
  <2>1. wiringPast'.deaf = 0 => ~deaf /\ ~deaf'
    BY <1>2, <1>4 DEF SafeInv, RestInv
  <2>2. ASSUME wiringPast'.deaf = 0, ~stopStaged'
        PROVE  (\A s \in Sides : ~board'.staged[s]) /\ board'.running \subseteq wiringPast'.unheard
    <3>1. Silent(board') /\ board'.running \subseteq board.running \ Wired(board)
      BY <1>1, <1>3, <2>1, <2>2, StopWrites
    <3>2. board.running \ Wired(board) \subseteq wiringPast.unheard
      BY DEF SafeInv, OrphansWereUnheard
    <3> QED BY <1>4, <3>1, <3>2 DEF Silent
  <2> QED BY <1>3, <2>1, <2>2 DEF RestInv
<1> QED BY <1>5, <1>6, <1>7 DEF SafeInv

LEMMA RewiresSafe ==
  ASSUME SafeInv, NEW f \in Rewirers, SettlesAndRewires(f) \/ AcquiresToRewire(f) \/ BeginsDone(f)
  PROVE  SafeInv'
<1>1. f \in Fibers /\ wfiber[f].plan \in Plans /\ board \in Boards /\ deaf \in BOOLEAN
      /\ "right" \in Sides
  BY FiberFacts DEF SafeInv, TypeInv, Fibers, Sides
<1>2. CASE SettlesAndRewires(f)
  <2> DEFINE b == ShapedWrite(board, "right")
  <2>1. b \in Boards /\ Writes(b, board) /\ b.staged = board.staged
    BY <1>1, WriteWrites DEF Writes
  <2>2. Applies(f, b, wfiber[f].plan) /\ UNCHANGED <<deaf, stopStaged, driving>>
    BY <1>2 DEF SettlesAndRewires
  <2> HIDE DEF b
  <2> QED BY <1>1, <2>1, <2>2, AppliesSafe
<1>3. CASE AcquiresToRewire(f) \/ BeginsDone(f)
  <2>1. Writes(board, board)
    BY <1>1 DEF Writes
  <2>2. Applies(f, board, wfiber[f].plan) /\ UNCHANGED <<deaf, stopStaged, driving>>
    BY <1>3 DEF AcquiresToRewire, BeginsDone
  <2> QED BY <1>1, <2>1, <2>2, AppliesSafe
<1> QED BY <1>2, <1>3

LEMMA FreshFacts ==
  ASSUME NEW turning \in SUBSET MotorPorts
  PROVE  /\ FreshBoard(turning) \in Boards /\ FreshBoard(turning).running = turning
         /\ Silent(FreshBoard(turning)) /\ Distinct(FreshBoard(turning).wired)
<1>1. 1 \in MotorPorts /\ 2 \in MotorPorts
  BY DEF MotorPorts
<1>2. BootWiring \in [Sides -> Wirings] /\ Distinct(BootWiring)
  BY <1>1 DEF BootWiring, Wiring, Wirings, Sides, Distinct
<1> QED BY <1>2 DEF FreshBoard, Boards, Silent

LEMMA FaultsSafe ==
  ASSUME SafeInv, Drives \/ GoesDeaf \/ HearsAgain \/ HardFault \/ UNCHANGED wiringVars
  PROVE  SafeInv'
<1>1. wiringPast \in Pasts /\ board \in Boards /\ deaf \in BOOLEAN
  BY DEF SafeInv, TypeInv
<1>2. CASE Drives
  <2>1. /\ wiringPast' = [wiringPast EXCEPT !.quiet = FALSE] /\ driving' = TRUE
        /\ UNCHANGED <<board, deaf, guard, stopStaged, wfiber>>
    BY <1>2 DEF Drives
  <2>2. /\ wiringPast' \in Pasts /\ wiringPast'.unheard = wiringPast.unheard
        /\ wiringPast'.deaf = wiringPast.deaf /\ wiringPast'.quiet = FALSE
    BY <1>1, <2>1 DEF Pasts
  <2> QED BY <2>1, <2>2 DEF SafeInv, TypeInv, OrphansWereUnheard, RestInv
<1>3. CASE GoesDeaf
  <2>1. /\ wiringPast' = [wiringPast EXCEPT !.deaf = @ + 1] /\ deaf' = TRUE
        /\ UNCHANGED <<board, guard, stopStaged, driving, wfiber>>
    BY <1>3 DEF GoesDeaf
  <2>2. /\ wiringPast' \in Pasts /\ wiringPast'.unheard = wiringPast.unheard
        /\ wiringPast'.deaf # 0 /\ wiringPast'.quiet = wiringPast.quiet
    BY <1>1, <2>1 DEF Pasts
  <2> QED BY <2>1, <2>2 DEF SafeInv, TypeInv, OrphansWereUnheard, RestInv
<1>4. CASE HearsAgain
  BY <1>4 DEF HearsAgain, SafeInv, TypeInv, OrphansWereUnheard, RestInv
<1>5. CASE HardFault
  <2> DEFINE left == HandlerStops(board.running)
  <2>1. left \in SUBSET MotorPorts
    BY <1>1 DEF HandlerStops, Boards
  <2>2. /\ board' = FreshBoard(left) /\ guard' = NoFiber /\ stopStaged' = FALSE /\ driving' = FALSE
        /\ wfiber' = [f \in DOMAIN wfiber |-> Idle] /\ deaf' = deaf
        /\ wiringPast' = [wiringPast EXCEPT !.hardFaults = @ + 1, !.quiet = FALSE,
                                            !.unheard = @ \cup left]
    BY <1>5 DEF HardFault
  <2> HIDE DEF left
  <2>3. /\ wiringPast' \in Pasts /\ left \subseteq wiringPast'.unheard
        /\ wiringPast'.deaf = wiringPast.deaf /\ wiringPast'.quiet = FALSE
    <3>1. wiringPast' = [calls |-> wiringPast.calls, deaf |-> wiringPast.deaf,
                         hardFaults |-> wiringPast.hardFaults + 1,
                         unheard |-> wiringPast.unheard \cup left, quiet |-> FALSE]
      BY <1>1, <2>2 DEF Pasts
    <3>2. /\ wiringPast.calls \in Nat /\ wiringPast.deaf \in Nat /\ wiringPast.hardFaults + 1 \in Nat
          /\ wiringPast.unheard \cup left \in SUBSET MotorPorts
      BY <1>1, <2>1 DEF Pasts
    <3> QED BY <3>1, <3>2 DEF Pasts
  <2>4. wfiber' \in [Fibers -> [pc : Places, plan : Plans]]
    <3>1. Idle \in [pc : Places, plan : Plans]
      BY NoPlan DEF Idle, Places
    <3>2. DOMAIN wfiber = Fibers
      BY DEF SafeInv, TypeInv
    <3> QED BY <2>2, <3>1, <3>2
  <2>5. board' \in Boards /\ board'.running = left
    BY <2>1, <2>2, FreshFacts
  <2>6. TypeInv'
    BY <1>1, <2>2, <2>3, <2>4, <2>5 DEF TypeInv
  <2>7. OrphansWereUnheard' /\ RestInv'
    BY <2>2, <2>3, <2>5 DEF SafeInv, OrphansWereUnheard, RestInv
  <2> QED BY <2>6, <2>7 DEF SafeInv
<1>6. CASE UNCHANGED wiringVars
  BY <1>6 DEF wiringVars, SafeInv, TypeInv, OrphansWereUnheard, RestInv, Wired
<1> QED BY <1>2, <1>3, <1>4, <1>5, <1>6

LEMMA SafeInit == WiringInit => SafeInv
<1> SUFFICES ASSUME WiringInit PROVE SafeInv
  OBVIOUS
<1>1. /\ board = FreshBoard({}) /\ deaf = FALSE /\ guard = NoFiber /\ stopStaged = FALSE
      /\ driving = FALSE /\ wfiber = [f \in Fibers |-> Idle]
      /\ wiringPast = [calls |-> 0, deaf |-> 0, hardFaults |-> 0, unheard |-> {}, quiet |-> FALSE]
  BY DEF WiringInit, Fibers
<1>2. board \in Boards /\ board.running = {}
  BY <1>1, FreshFacts
<1>3. Idle \in [pc : Places, plan : Plans]
  BY NoPlan DEF Idle, Places
<1>4. wiringPast \in Pasts /\ wiringPast.quiet = FALSE
  BY <1>1 DEF Pasts
<1>5. TypeInv
  BY <1>1, <1>2, <1>3, <1>4 DEF TypeInv
<1> QED BY <1>1, <1>2, <1>4, <1>5 DEF SafeInv, OrphansWereUnheard, RestInv

LEMMA SafeStep == SafeInv /\ [WiringNext]_wiringVars => SafeInv'
<1> SUFFICES ASSUME SafeInv, [WiringNext]_wiringVars PROVE SafeInv'
  OBVIOUS
<1>1. DOMAIN wfiber = Fibers
  BY DEF SafeInv, TypeInv
<1> QED BY <1>1, WritersSafe, ConfigureSafe, RewiresSafe, FaultsSafe DEF WiringNext

(* No orphaned wheel, and rest after a rewiring, for any number of fibers   *)
(* that rewire at once.                                                     *)
LEMMA SafeInvariance == WiringSpec => []SafeInv
BY SafeInit, SafeStep, PTL DEF WiringSpec

(* The wiring, what is staged and last written, and the guard keep their    *)
(* types: no side is ever wired to a port or a sign that does not exist.    *)
THEOREM WiringTypeCorrect == WiringSpec => []WiringTypeOK
<1>1. SafeInv => WiringTypeOK
  <2> SUFFICES ASSUME SafeInv PROVE WiringTypeOK
    OBVIOUS
  <2>1. DOMAIN wfiber = Fibers
    BY DEF SafeInv, TypeInv
  <2>2. board \in Boards
    BY DEF SafeInv, TypeInv
  <2> QED BY <2>1, <2>2 DEF SafeInv, TypeInv, WiringTypeOK, Boards, Wirings
<1> QED BY <1>1, SafeInvariance, PTL

(* No wheel is orphaned (nezha_port.cpp, configureWiring(): "Zero the port  *)
(* we are LEAVING"): a motor turns on a port neither side addresses only if *)
(* the brick did not hear its zero or a fault left it; and a rewiring that  *)
(* the brick heard leaves the robot at rest.  However many fibers rewire.   *)
THEOREM NoOrphanedWheel == WiringSpec => [](OrphansWereUnheard /\ RewiringEndsAtRest)
<1>1. SafeInv => OrphansWereUnheard /\ RewiringEndsAtRest
  BY DEF SafeInv, RestInv, RewiringEndsAtRest
<1> QED BY <1>1, SafeInvariance, PTL

-----------------------------------------------------------------------------
(* Two wheels on two ports.  Between two moves of a plan the wheels may      *)
(* share a port; the plan in hand leads out of that, as long as nobody else  *)
(* changes the wiring it was made for.                                       *)
SoleRewirer == \A f, g \in Rewirers : f = g

DistinctInv ==
    /\ Unplanned => Distinct(board.wired)
    /\ \A r \in Rewirers :
         wfiber[r].pc # "idle" => Distinct(Outcome(board.wired, wfiber[r].plan))

\* A step that changes no wiring and no plan, and moves no fiber into or out
\* of a call.
LEMMA WiringKept ==
  ASSUME DistinctInv, board'.wired = board.wired,
         \A r \in Rewirers :
           /\ wfiber'[r].plan = wfiber[r].plan
           /\ wfiber'[r].pc = "begins" => wfiber[r].pc = "begins"
           /\ wfiber[r].pc = "begins" => wfiber'[r].pc = "begins"
           /\ wfiber[r].pc = "idle" => wfiber'[r].pc = "idle"
  PROVE  DistinctInv'
<1>1. Unplanned' => Unplanned
  BY DEF Unplanned
<1>2. ASSUME NEW r \in Rewirers, wfiber'[r].pc # "idle"
      PROVE  Distinct(Outcome(board'.wired, wfiber'[r].plan))
  <2>1. Distinct(Outcome(board.wired, wfiber[r].plan))
    BY <1>2 DEF DistinctInv
  <2>2. wfiber'[r].plan = wfiber[r].plan
    OBVIOUS
  <2> QED BY <2>1, <2>2
<1> QED BY <1>1, <1>2 DEF DistinctInv

LEMMA DriverIsNoRewirer ==
  ASSUME TypeInv, NEW pc \in Places, NEW plan \in Plans, ParkAt(Driver, pc, plan)
  PROVE  \A r \in Rewirers : wfiber'[r] = wfiber[r]
<1>1. Driver \in Fibers /\ \A r \in Rewirers : r \in Fibers \ {Driver}
  BY WiringAssumption DEF Fibers
<1> QED BY <1>1, ParkFacts

LEMMA Parked ==
  ASSUME TypeInv, NEW f \in Fibers, NEW pc \in Places, NEW plan \in Plans, ParkAt(f, pc, plan)
  PROVE  /\ wfiber'[f].pc = pc /\ wfiber'[f].plan = plan
         /\ \A g \in Fibers \ {f} : wfiber'[g] = wfiber[g]
<1>1. wfiber'[f] = [pc |-> pc, plan |-> plan]
  BY ParkFacts
<1> QED BY <1>1, ParkFacts

LEMMA SoftStopKeepsWiring ==
  ASSUME SafeInv, NEW f \in Fibers, NEW plan \in Plans, SoftStop(f, plan)
  PROVE  board'.wired = board.wired
BY SoftStopWrites DEF Writes

LEMMA WritersKeepWiring ==
  ASSUME SafeInv, DistinctInv,
         \/ Tick \/ TickDeliversStop \/ TickEnds \/ StopBlock \/ SettlesAndGoes \/ EstopAll
         \/ \E f \in Fibers : LeftTick(f) \/ SettlesOn(f)
  PROVE  DistinctInv'
<1>0. /\ deaf \in BOOLEAN /\ driving \in BOOLEAN /\ board \in Boards /\ TypeInv
      /\ Driver \in Fibers /\ "left" \in Sides /\ "right" \in Sides
  BY DEF SafeInv, TypeInv, Fibers, Sides
<1>1. ASSUME board'.wired = board.wired, NEW pc \in Places, ParkAt(Driver, pc, <<>>)
      PROVE  DistinctInv'
  BY <1>0, <1>1, NoPlan, DriverIsNoRewirer, WiringKept
<1>2. \A s \in Sides : ShapedWrite(board, s) \in Boards /\ ShapedWrite(board, s).wired = board.wired
  BY <1>0, WriteWrites DEF Writes
<1>3. ASSUME NEW b \in Boards
      PROVE  StageFor(b).wired = b.wired /\ BothStop(b) \in Boards /\ BothStop(b).wired = b.wired
  BY <1>0, StageFacts, StopWrites DEF Writes
<1>4. CASE Tick
  BY <1>0, <1>1, <1>3, <1>4 DEF Tick, Places
<1>5. CASE TickDeliversStop
  BY <1>0, <1>1, <1>2, <1>3, <1>5 DEF TickDeliversStop, Places
<1>6. CASE TickEnds \/ SettlesAndGoes
  BY <1>0, <1>1, <1>2, <1>6 DEF TickEnds, SettlesAndGoes, Places
<1>7. CASE StopBlock
  <2>1. SoftStop(Driver, <<>>)
    BY <1>7 DEF StopBlock
  <2>2. \E pc \in Places : ParkAt(Driver, pc, <<>>)
    BY <2>1 DEF SoftStop, Places
  <2> QED BY <1>0, <1>1, <2>1, <2>2, NoPlan, SoftStopKeepsWiring
<1>8. CASE EstopAll
  BY <1>0, <1>3, <1>8, WiringKept DEF EstopAll
<1>9. ASSUME NEW f \in Fibers, LeftTick(f) \/ SettlesOn(f)
      PROVE  DistinctInv'
  <2>1. board'.wired = board.wired
    BY <1>0, <1>2, <1>3, <1>9 DEF LeftTick, SettlesOn
  <2>2. /\ wfiber[f].pc \in {"tick left", "settle left", "settle right"}
        /\ \E pc \in {"tick right", "settle left", "settle right"} : ParkAt(f, pc, wfiber[f].plan)
    BY <1>9 DEF LeftTick, SettlesOn
  <2>3. \A r \in Rewirers : r \in Fibers
    BY DEF Fibers
  <2>4. \A r \in Rewirers :
          /\ wfiber'[r].plan = wfiber[r].plan
          /\ wfiber'[r].pc = "begins" => wfiber[r].pc = "begins"
          /\ wfiber[r].pc = "begins" => wfiber'[r].pc = "begins"
          /\ wfiber[r].pc = "idle" => wfiber'[r].pc = "idle"
    <3>1. PICK pc \in {"tick right", "settle left", "settle right"} : ParkAt(f, pc, wfiber[f].plan)
      BY <2>2
    <3>2. pc \in Places /\ wfiber[f].plan \in Plans
      BY <1>0, FiberFacts DEF Places
    <3>3. /\ wfiber'[f].pc = pc /\ wfiber'[f].plan = wfiber[f].plan
          /\ \A g \in Fibers \ {f} : wfiber'[g] = wfiber[g]
      BY <1>0, <3>1, <3>2, Parked
    <3>4. pc # "begins" /\ pc # "idle" /\ wfiber[f].pc # "begins" /\ wfiber[f].pc # "idle"
      BY <2>2
    <3> SUFFICES ASSUME NEW r \in Rewirers
                 PROVE  /\ wfiber'[r].plan = wfiber[r].plan
                        /\ wfiber'[r].pc = "begins" => wfiber[r].pc = "begins"
                        /\ wfiber[r].pc = "begins" => wfiber'[r].pc = "begins"
                        /\ wfiber[r].pc = "idle" => wfiber'[r].pc = "idle"
      OBVIOUS
    <3>5. CASE r = f
      BY <3>3, <3>4, <3>5
    <3>6. CASE r # f
      BY <2>3, <3>3, <3>6
    <3> QED BY <3>5, <3>6
  <2> QED BY <2>1, <2>4, WiringKept
<1> QED BY <1>4, <1>5, <1>6, <1>7, <1>8, <1>9

\* The call: the plan is made for the wiring it finds.
LEMMA ConfigureKeepsDistinct ==
  ASSUME SafeInv, DistinctInv, SoleRewirer, NEW f \in Rewirers, NEW q \in MotorRequests,
         ConfigureMotor(f, q)
  PROVE  DistinctInv'
<1>1. TypeInv /\ board \in Boards /\ f \in Fibers
  BY DEF SafeInv, TypeInv, Fibers
<1>2. SoftStop(f, Plan(q)) /\ Plan(q) # <<>> /\ wfiber[f] = Idle
  BY DEF ConfigureMotor
<1>3. Plan(q) \in Plans
  BY <1>1, PlanFacts
<1>4. \A r \in Rewirers : r = f
  BY DEF SoleRewirer
<1>5. Unplanned
  BY <1>2, <1>4 DEF Unplanned, Idle
<1>6. Distinct(board.wired) /\ Distinct(Outcome(board.wired, Plan(q)))
  BY <1>1, <1>5, PlanFacts DEF DistinctInv
<1>7. board'.wired = board.wired
  BY <1>1, <1>2, <1>3, SoftStopKeepsWiring
<1>8. \E pc \in {"settle left", "waits"} : ParkAt(f, pc, Plan(q))
  BY <1>2 DEF SoftStop
<1>9. wfiber'[f].plan = Plan(q)
  <2>1. PICK pc \in {"settle left", "waits"} : ParkAt(f, pc, Plan(q))
    BY <1>8
  <2>2. pc \in Places
    BY DEF Places
  <2> QED BY <1>1, <1>3, <2>1, <2>2, Parked
<1>10. Distinct(Outcome(board'.wired, wfiber'[f].plan))
  BY <1>6, <1>7, <1>9
<1> QED BY <1>4, <1>6, <1>7, <1>10 DEF DistinctInv

LEMMA AppliesKeepsDistinct ==
  ASSUME SafeInv, SoleRewirer, NEW f \in Rewirers, NEW b \in Boards, NEW moves \in Plans,
         Distinct(Outcome(b.wired, moves)), Applies(f, b, moves)
  PROVE  DistinctInv'
<1> DEFINE due == MovesDue(b, moves)
<1>1. due \in Plans /\ Outcome(b.wired, due) = Outcome(b.wired, moves)
  BY DueFacts
<1>2. TypeInv /\ deaf \in BOOLEAN /\ f \in Fibers /\ \A r \in Rewirers : r = f
  BY DEF SafeInv, TypeInv, Fibers, SoleRewirer
<1>3. CASE due = <<>> \/ deaf
  <2>1. board' = ConfigureAll(b, due) /\ ParkAt(f, "idle", <<>>)
    BY <1>3 DEF Applies
  <2> HIDE DEF due
  <2>2. board'.wired = Outcome(b.wired, due)
    BY <1>1, <1>2, <2>1, ConfigureAllFacts
  <2>3. wfiber'[f].pc = "idle"
    <3>1. "idle" \in Places
      BY DEF Places
    <3> QED BY <1>2, <2>1, <3>1, NoPlan, Parked
  <2>4. Distinct(board'.wired)
    BY <1>1, <2>2
  <2> QED BY <1>2, <2>3, <2>4 DEF DistinctInv
<1>4. CASE ~(due = <<>> \/ deaf)
  <2>1. board' = Rewire(b, due[1]) /\ ParkAt(f, "begins", Tail(due))
    BY <1>4 DEF Applies
  <2> HIDE DEF due
  <2>2. /\ due[1] \in Moves /\ Tail(due) \in Plans
        /\ Outcome([b.wired EXCEPT ![due[1].side] = due[1].to], Tail(due)) = Outcome(b.wired, due)
    BY <1>1, <1>4, DueSplits
  <2>3. board'.wired = [b.wired EXCEPT ![due[1].side] = due[1].to]
    BY <1>2, <2>1, <2>2, RewireFacts DEF Rewired
  <2>4. wfiber'[f].pc = "begins" /\ wfiber'[f].plan = Tail(due)
    <3>1. "begins" \in Places
      BY DEF Places
    <3> QED BY <1>2, <2>1, <2>2, <3>1, Parked
  <2>5. ~Unplanned'
    BY <2>4 DEF Unplanned
  <2>6. Distinct(Outcome(board'.wired, wfiber'[f].plan))
    BY <1>1, <2>2, <2>3, <2>4
  <2> QED BY <1>2, <2>5, <2>6 DEF DistinctInv
<1> QED BY <1>3, <1>4

LEMMA RewiresKeepDistinct ==
  ASSUME SafeInv, DistinctInv, SoleRewirer, NEW f \in Rewirers,
         SettlesAndRewires(f) \/ AcquiresToRewire(f) \/ BeginsDone(f)
  PROVE  DistinctInv'
<1>1. f \in Fibers /\ wfiber[f].plan \in Plans /\ board \in Boards /\ deaf \in BOOLEAN
      /\ "right" \in Sides
  BY FiberFacts DEF SafeInv, TypeInv, Fibers, Sides
<1>2. Distinct(Outcome(board.wired, wfiber[f].plan))
  BY DEF DistinctInv, SettlesAndRewires, AcquiresToRewire, BeginsDone
<1>3. CASE SettlesAndRewires(f)
  <2> DEFINE b == ShapedWrite(board, "right")
  <2>1. b \in Boards /\ b.wired = board.wired
    BY <1>1, WriteWrites DEF Writes
  <2>2. Applies(f, b, wfiber[f].plan)
    BY <1>3 DEF SettlesAndRewires
  <2> HIDE DEF b
  <2> QED BY <1>1, <1>2, <2>1, <2>2, AppliesKeepsDistinct
<1>4. CASE AcquiresToRewire(f) \/ BeginsDone(f)
  <2>1. Applies(f, board, wfiber[f].plan)
    BY <1>4 DEF AcquiresToRewire, BeginsDone
  <2> QED BY <1>1, <1>2, <2>1, AppliesKeepsDistinct
<1> QED BY <1>3, <1>4

LEMMA FaultsKeepDistinct ==
  ASSUME SafeInv, DistinctInv, Drives \/ GoesDeaf \/ HearsAgain \/ HardFault \/ UNCHANGED wiringVars
  PROVE  DistinctInv'
<1>1. CASE Drives \/ GoesDeaf \/ HearsAgain \/ UNCHANGED wiringVars
  <2>1. board' = board /\ wfiber' = wfiber
    BY <1>1 DEF Drives, GoesDeaf, HearsAgain, wiringVars
  <2> QED BY <2>1, WiringKept
<1>2. CASE HardFault
  <2>1. /\ board' = FreshBoard(HandlerStops(board.running))
        /\ wfiber' = [f \in DOMAIN wfiber |-> Idle]
    BY <1>2 DEF HardFault
  <2>2. HandlerStops(board.running) \in SUBSET MotorPorts
    BY DEF SafeInv, TypeInv, HandlerStops, Boards
  <2>3. Distinct(board'.wired)
    BY <2>1, <2>2, FreshFacts
  <2>4. \A r \in Rewirers : wfiber'[r].pc = "idle"
    BY <2>1 DEF SafeInv, TypeInv, Fibers, Idle
  <2> QED BY <2>3, <2>4 DEF DistinctInv
<1> QED BY <1>1, <1>2

LEMMA DistinctInit == WiringInit => DistinctInv
<1> SUFFICES ASSUME WiringInit PROVE DistinctInv
  OBVIOUS
<1>1. board = FreshBoard({}) /\ wfiber = [f \in Fibers |-> Idle]
  BY DEF WiringInit, Fibers
<1>2. Distinct(board.wired)
  BY <1>1, FreshFacts
<1>3. \A r \in Rewirers : wfiber[r].pc = "idle"
  BY <1>1 DEF Fibers, Idle
<1> QED BY <1>2, <1>3 DEF DistinctInv

LEMMA DistinctStep ==
  ASSUME SoleRewirer
  PROVE  SafeInv /\ DistinctInv /\ [WiringNext]_wiringVars => DistinctInv'
<1> SUFFICES ASSUME SafeInv, DistinctInv, [WiringNext]_wiringVars PROVE DistinctInv'
  OBVIOUS
<1>1. DOMAIN wfiber = Fibers
  BY DEF SafeInv, TypeInv
<1> QED BY <1>1, WritersKeepWiring, ConfigureKeepsDistinct, RewiresKeepDistinct,
           FaultsKeepDistinct DEF WiringNext

LEMMA TwoPorts ==
  ASSUME NEW b, Distinct(b.wired)
  PROVE  Cardinality(Wired(b)) = 2
<1> DEFINE l == b.wired["left"].port
           r == b.wired["right"].port
<1>1. Wired(b) = {l} \cup {r} /\ l # r
  BY DEF Wired, Sides, Distinct
<1> HIDE DEF l, r
<1>2. IsFiniteSet({l}) /\ Cardinality({l}) = 1
  BY FS_Singleton
<1>3. Cardinality({l} \cup {r}) = Cardinality({l}) + 1
  BY <1>1, <1>2, FS_AddElement
<1> QED BY <1>1, <1>2, <1>3

(* The wiring is sound when one fiber at most rewires ("TWO WHEELS ON ONE   *)
(* PORT IS REFUSED", shims.cpp, configureMotor()): between two calls the    *)
(* wheels have two ports, no wheel is orphaned, and a rewiring leaves the   *)
(* robot at rest.                                                           *)
THEOREM WiringSound ==
  ASSUME SoleRewirer
  PROVE  WiringSpec => []WiringIsSound
<1>1. WiringInit => SafeInv /\ DistinctInv
  BY SafeInit, DistinctInit
<1>2. SafeInv /\ DistinctInv /\ [WiringNext]_wiringVars => (SafeInv /\ DistinctInv)'
  BY SafeStep, DistinctStep
<1>3. SafeInv /\ DistinctInv => WiringIsSound
  BY TwoPorts DEF SafeInv, RestInv, DistinctInv, RewiringEndsAtRest, PairStaysDistinct, WiringIsSound
<1> QED BY <1>1, <1>2, <1>3, PTL DEF WiringSpec
=============================================================================
