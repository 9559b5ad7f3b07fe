--------------------------- MODULE WireAcceptance ---------------------------
(***************************************************************************)
(* tools/wire_acceptance.py against the reliability layer of WireHandler:   *)
(* the suite is the list of its cases, each a line, how often it is asked,  *)
(* and what the reply must hold.  The carrier may lose a line or any of its *)
(* replies, MaxLosses times in a run; what a case then concludes is the     *)
(* suite's business.  GET's fields, the telemetry header and the frames     *)
(* come with the ack of the command they answer, when it is executed; the   *)
(* re-ack of a resend brings none of them.                                  *)
(***************************************************************************)
EXTENDS WireHandler, FiniteSets

CONSTANTS
    Modes,      \* command lines, each the set of the sections it asks for
    MaxLosses

\* No run comes near the last id, 2^32 - 1.
ASSUME SuiteAssumption == MaxLosses \in Nat /\ MaxSequenceId > 200

VARIABLE suite
suiteVars == <<handlerVars, suite>>

-----------------------------------------------------------------------------
(* Cases. *)

NextId == -2        \* a line that carries the counter the suite tracks
AnyNumber == -1

Ask(verb, id, tag) == [verb |-> verb, id |-> id, decodes |-> tag # "malformed", tag |-> tag]
Command(tag) == Ask("COMMAND", NextId, tag)
Query == Ask("QUERY", NoId, "query")

Case(kind, line, tries, need, never) ==
    [kind |-> kind, line |-> line, tries |-> tries, need |-> need, never |-> never]

\* record(PASS if has(out, ...) else FAIL, ...)
Judge(line, need) == Case("judge", line, 1, need, {})
Strict(line, need) == Case("judge", line, 1, need, {"err"})
Sends(line) == Case("send", line, 1, {}, {})
Tracked(tag) == Case("judge", Command(tag), 1, {<<"ack", NextId>>}, {})
Clean(tag) == Case("judge", Command(tag), 1, {<<"ack", NextId>>}, {"nack"})
Reset == <<Case("reset", Ask("HELLO", NoId, "hello"), 1, {}, {})>>
Answered(tries) == Case("judge", Query, tries, {<<"answer", AnyNumber>>}, {})

Numbered(n, tag) == Ask("COMMAND", n, tag)

\* main(): HELLO four times, then PING and STATUS.
Opening ==
    <<Case("banner", Ask("HELLO", NoId, "hello"), 4, {<<"device", AnyNumber>>}, {}),
      Case("alive", Query, 1, {<<"answer", AnyNumber>>}, {}),
      Case("status", Query, 4, {<<"answer", AnyNumber>>}, {})>>

BadCases ==
    Reset
    \o [i \in 1..6 |-> Judge(Ask("COMMAND", NoId, "plain"), {<<"nack", AnyNumber>>})]
    \o <<Case("absent", Ask("UNKNOWN", NoId, "plain"), 4, {<<"nack", AnyNumber>>}, {})>>
    \o Reset
    \o <<Judge(Numbered(1, "unknown"), {<<"ack", 1>>, <<"err", 1>>}),
         Judge(Numbered(2, "unknown"), {<<"ack", 2>>, <<"err", 1>>}),
         Judge(Numbered(3, "write_only"), {<<"ack", 3>>, <<"err", 12>>}),
         Judge(Numbered(4, "malformed"), {<<"nack", AnyNumber>>, <<"err", AnyNumber>>})>>
    \o Reset
    \o <<Judge(Numbered(1, "malformed"), {<<"nack", 1>>, <<"err", 2>>})>>
    \o Reset
    \o <<Judge(Numbered(0, "move"), {<<"nack", AnyNumber>>}), Answered(4), Answered(4)>>
    \o Reset
    \o <<Judge(Numbered(MaxSequenceId, "stop"), {<<"nack", AnyNumber>>, <<"err", 3>>}),
         Judge(Numbered(1, "stop"), {<<"ack", 1>>})>>
    \o Reset
    \o <<Sends(Numbered(9, "stop")),
         Judge(Query, {<<"answer", AnyNumber>>, <<"nack", 1>>}),
         Case("judge", Ask("ESTOP", NoId, "estop"), 1, {<<"estop", AnyNumber>>}, {"nack"})>>
    \o Reset
    \o <<Case("judge", Query, 1, {<<"answer", AnyNumber>>}, {"nack"})>>

GoodCases ==
    Reset \o [i \in 1..5 |-> Answered(3)] \o <<Answered(4)>> \o Reset
    \o <<Judge(Numbered(1, "stop"), {<<"ack", 1>>}), Judge(Numbered(2, "stop"), {<<"ack", 2>>}),
         Judge(Numbered(2, "stop"), {<<"ack", AnyNumber>>})>>

\* run_motion(): telemetry first, the move, frames, STOP, telemetry off.
Motion ==
    Reset
    \o <<Case("header", Command("telemetry"), 1, {}, {}),
         Sends(Query),
         Tracked("move"),
         Case("turned", Query, 1, {}, {}),
         Sends(Command("stop")),
         Sends(Command("quiet"))>>

\* motion_case(), for one verb.
MotionCase(tag, moves) ==
    <<Sends(Command("telemetry")), Case("motion", Command(tag), 1, {<<"ack", NextId>>}, {})>>
    \o (IF moves THEN <<Case("turned", Query, 1, {}, {})>> ELSE <<>>)
    \o <<Tracked("stop"), Sends(Command("quiet"))>>

AllVerbs(motion, estop) ==
    Reset
    \o <<Judge(Ask("HELLO", NoId, "hello"), {<<"device", AnyNumber>>})>>
    \o [i \in 1..4 |-> Answered(3)] \o <<Answered(1), Answered(3)>>
    \o <<Strict(Command("funcs"), {<<"ack", NextId>>}), Tracked("get"),
         Case("value", Command("get"), 1, {<<"ack", NextId>>}, {}),
         Case("if_value", Command("set"), 1, {<<"ack", NextId>>}, {"err"}),
         Case("if_value", Command("get"), 1, {<<"ack", NextId>>}, {})>>
    \o <<Tracked("telemetry"), Tracked("telemetry")>>
    \o <<Clean("mode"), Clean("buffer"), Clean("mode")>>
    \o <<Case("judge", Command("quiet"), 1, {<<"ack", AnyNumber>>}, {}), Clean("mode")>>
    \o MotionCase("move", motion) \o MotionCase("move", motion) \o MotionCase("move", motion)
    \o MotionCase("move", motion) \o MotionCase("move", motion) \o MotionCase("goto", motion)
    \o <<Strict(Command("stop"), {<<"ack", NextId>>}),
         Judge(Command("unknown"), {<<"ack", NextId>>, <<"err", 1>>}),
         Case("cleartext", Ask("COMMAND", NoId, "run"), 3, {<<"GAP:", AnyNumber>>}, {})>>
    \o (IF estop THEN <<Judge(Ask("ESTOP", NoId, "estop"), {<<"estop", AnyNumber>>})>> ELSE <<>>)

\* main()'s order: ESTOP latches, so what moves comes before what sends it.
Suite(mode) ==
    Opening
    \o (IF "classic" \in mode
          THEN GoodCases \o (IF "motion" \in mode THEN Motion ELSE <<>>) \o BadCases ELSE <<>>)
    \o (IF "all verbs" \in mode THEN AllVerbs("motion" \in mode, "estop" \in mode) ELSE <<>>)

CasesOf == [mode \in Modes |-> Suite(mode)]

-----------------------------------------------------------------------------
(* The robot above the reliability layer. *)

ExecutesWith(tag) ==
    CASE tag = "unknown" -> {1}
      [] tag = "write_only" -> {12}
      [] tag = "buffer" -> {6}          \* TLM BUFFER, onTlm()
      [] tag = "goto" -> {0, 6, 8}      \* without a pose source
      [] OTHER -> {0}

Executed(line) == line.verb = "COMMAND" /\ expectedNext_' # expectedNext_

AsBuilt(line) ==
    Executed(line) =>
        (IF Len(replies') = 1 THEN 0 ELSE replies'[2].n) \in ExecutesWith(line.tag)

-----------------------------------------------------------------------------
(* One ask(): what is sent, what is read in its window, what is concluded. *)

\* Mutant: the counter is bumped for every line that carries an id.
next_id_Blind(got, line) == IF line.id = NextId THEN suite.seq + 1 ELSE suite.seq

\* next_id(): the first ack or nack read decides; without one, no change.
next_id(got, line) ==
    LET told == {i \in DOMAIN got : got[i].kind \in {"ack", "nack"}}
        first == got[CHOOSE i \in told : \A j \in told : i <= j]
    IN IF line.id # NextId \/ told = {} THEN suite.seq
       ELSE IF first.kind = "nack" THEN first.n ELSE first.n + 1

Matches(reply, pattern) ==
    /\ reply.kind = pattern[1]
    /\ \/ pattern[2] = AnyNumber
       \/ reply.n = IF pattern[2] = NextId THEN suite.seq ELSE pattern[2]

Has(got, pattern) == \E i \in DOMAIN got : Matches(got[i], pattern)
Meets(case, got) ==
    /\ \A pattern \in case.need : Has(got, pattern)
    /\ \A i \in DOMAIN got : got[i].kind \notin case.never

\* motion_case()'s accept_err: a robot without a pose source may refuse GO_TO_W.
accept_err(case) == IF case.line.tag = "goto" THEN {6, 8} ELSE {}

Passes(case, got) ==
    CASE case.kind = "absent" -> ~Meets(case, got)
      [] case.kind = "motion" ->
            /\ Meets(case, got)
            /\ \A i \in DOMAIN got : got[i].kind = "err" => got[i].n \in accept_err(case)
      [] case.kind = "header" -> Has(got, <<"ack", AnyNumber>>)
      [] case.kind = "turned" -> suite.rolling /\ "header" \in suite.knows
      [] OTHER -> Meets(case, got)

\* Why a FAIL is a FAIL.
Reason(case) ==
    CASE case.kind = "cleartext" -> "cleartext"
      [] case.kind = "turned" /\ suite.latch -> "latched"
      [] OTHER -> "wire"

Judged(case) == case.kind \in {"judge", "absent", "motion", "turned", "value", "if_value",
                               "header", "cleartext"}
Again(case, got) ==     \* another try: for ... in range(tries)
    /\ suite.tried + 1 < case.tries
    /\ ~Meets(case, got)

Skip(case) == \/ case.kind = "if_value" /\ "value" \notin suite.knows
              \/ case.kind = "turned" /\ suite.refused

SuiteEnds(case, got) ==
    \/ case.kind = "banner" /\ ~Meets(case, got)
    \/ case.kind = "status" /\ ~Meets(case, got) /\ "alive" \in suite.knows
    \/ case.kind = "header" /\ ~Has(got, <<"ack", AnyNumber>>)

Learnt(case, got) ==
    {fact \in {"alive", "header", "value"} :
        \/ fact = "alive" /\ case.kind = "alive" /\ Meets(case, got)
        \/ fact = "header" /\ case.line.tag = "telemetry" /\ Has(got, <<"ack", AnyNumber>>)
        \/ fact = "value" /\ case.kind = "value" /\ Has(got, <<"ack", AnyNumber>>)}

\* run_motion() gives up without a header: the rest of it is skipped.
After(case, got) ==
    IF case.kind = "header" /\ SuiteEnds(case, got) THEN suite.at + Len(Motion) - 1
    ELSE IF SuiteEnds(case, got) THEN Len(CasesOf[suite.mode]) + 1
    ELSE suite.at + 1

\* Fields and headers are sent by the command's execution, not by its re-ack.
ShownBy(case, got, executed) ==
    IF case.line.tag \in {"get", "telemetry"} /\ ~executed THEN <<>> ELSE got

Conclude(case, line, got, lost, executed) ==
    LET again == Again(case, got)
        shown == ShownBy(case, got, executed)
        passes == Passes(case, shown)
    IN suite' = [suite EXCEPT
         !.at = IF again THEN @ ELSE After(case, shown),
         !.tried = IF again THEN @ + 1 ELSE 0,
         !.seq = IF case.kind = "reset" THEN 1 ELSE next_id(got, case.line),
         !.knows = (IF case.kind = "reset" THEN @ \cap {"alive"} ELSE @) \cup Learnt(case, shown),
         !.losses = @ + lost,
         !.latch = @ \/ (executed /\ line.verb = "ESTOP"),
         !.rolling = CASE executed /\ line.tag \in {"move", "goto"} -> ~suite.latch /\ Len(replies') = 1
                       [] executed /\ line.tag = "stop" -> FALSE
                       [] OTHER -> @,
         !.refused = IF case.kind = "motion"
                       THEN ~Meets(case, got) \/ Has(got, <<"err", AnyNumber>>) ELSE @,
         !.failed = IF Judged(case) /\ ~again /\ ~passes THEN @ \cup {Reason(case)} ELSE @,
         !.blocked = @ \/ (case.kind \in {"status", "header"} /\ SuiteEnds(case, shown)),
         !.lied = @ \/ (/\ case.line.id = NextId /\ Judged(case) /\ passes /\ ~executed)]

Current == CasesOf[suite.mode][suite.at]
Running == suite.at > 0 /\ suite.at <= Len(CasesOf[suite.mode])
Sent(case) == IF case.line.id = NextId THEN [case.line EXCEPT !.id = suite.seq] ELSE case.line

\* The wedged board: its wire stack answers, STATUS needs the adapter.
Wedged(case) == suite.wedged /\ case.kind = "status"

AskAndJudge ==
    /\ Running /\ ~Skip(Current) /\ ~Wedged(Current)
    /\ LET line == Sent(Current) IN
         /\ Receive(line) /\ AsBuilt(line)
         /\ \E heard \in SUBSET DOMAIN replies' :
              LET lost == IF heard = DOMAIN replies' THEN 0 ELSE 1
                  got == [i \in 1..Cardinality(heard) |->
                            replies'[CHOOSE j \in heard : Cardinality({k \in heard : k < j}) = i - 1]]
              IN /\ suite.losses + lost <= MaxLosses
                 /\ Conclude(Current, line, got, lost,
                             Executed(line) \/ line.verb = "ESTOP")

LineLost ==
    /\ Running /\ ~Skip(Current)
    /\ IF Wedged(Current) THEN Conclude(Current, Sent(Current), <<>>, 0, FALSE)
       ELSE /\ suite.losses < MaxLosses
            /\ Conclude(Current, Sent(Current), <<>>, 1, FALSE)
    /\ UNCHANGED handlerVars

SkipCase ==
    /\ Running /\ Skip(Current)
    /\ suite' = [suite EXCEPT !.at = @ + 1]
    /\ UNCHANGED handlerVars

NotStarted == [mode |-> {}, at |-> 0, tried |-> 0, seq |-> 1, knows |-> {}, losses |-> 0,
               latch |-> FALSE, rolling |-> FALSE, refused |-> FALSE, failed |-> {},
               blocked |-> FALSE, lied |-> FALSE, wedged |-> FALSE]

StartSuite ==
    /\ suite.at = 0
    /\ \E mode \in Modes, wedged \in BOOLEAN :
         suite' = [suite EXCEPT !.mode = mode, !.at = 1, !.wedged = wedged]
    /\ UNCHANGED handlerVars

SuiteInit == HandlerInit /\ suite = NotStarted
SuiteNext == StartSuite \/ AskAndJudge \/ LineLost \/ SkipCase
SuiteSpec == SuiteInit /\ [][SuiteNext]_suiteVars

-----------------------------------------------------------------------------
(* Types of the suite's own state. *)
SuiteTypeOK ==
    /\ suite.mode \in Modes \cup {{}}
    /\ suite.at \in Nat /\ suite.tried \in 0..4 /\ suite.seq \in Ids
    /\ suite.knows \subseteq {"alive", "header", "value"}
    /\ suite.failed \subseteq {"wire", "latched", "cleartext"}
    /\ suite.losses \in 0..MaxLosses

(* On a carrier that loses nothing the suite judges fairly: it fails no     *)
(* case of a robot whose reliability layer is the modelled one, and passes  *)
(* none whose command was not executed; what it reports FAIL is a motion    *)
(* after its own ESTOP, and the cleartext RUN, which the handler has not    *)
(* got (wire_acceptance.py, "PASS, FAIL, BLOCKED"). With a loss it may do   *)
(* either: PassesOnlyWhatRan.                                               *)
JudgesFairly ==
    suite.losses = 0 => "wire" \notin suite.failed /\ ~suite.lied

(* And whatever is lost, the counter it tracks never runs ahead of the      *)
(* robot's: the suite opens no gap of its own (next_id()).                  *)
NeverAhead ==
    Running /\ Current.line.id = NextId => suite.seq <= expectedNext_

(* PASS means the behaviour is correct (wire_acceptance.py:34), so a command *)
(* that is passed was executed. When an ack is lost the suite uses its id   *)
(* again for the next command, which the robot takes for a resend: it acks  *)
(* without executing, and the suite passes it.                              *)
PassesOnlyWhatRan == ~suite.lied

AcceptanceIsSound == JudgesFairly /\ NeverAhead
=============================================================================
