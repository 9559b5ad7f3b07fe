---------------------------- MODULE WireSession ----------------------------
(***************************************************************************)
(* A host program talking to the WireHandler of one carrier.  The host is  *)
(* src/tools: link.py's Sequencer under the retry loop of fieldlink.py.    *)
(* The carrier loses lines in both directions, and may reorder them (a UDP *)
(* socket).  Between two sends the host reads for a fixed time: HostWindow *)
(* is that read and what the loop does next, and how much of what is on    *)
(* its way arrives in time is left open.                                   *)
(*                                                                         *)
(* The host may end, or be killed, at any point and open a new session.    *)
(* On a shared carrier a broadcast discovery (wifilink.py's HELLO to every *)
(* robot of the subnet) resets the handler meanwhile, and a second client  *)
(* may number commands of its own on the handler's one counter.            *)
(***************************************************************************)
EXTENDS WireHandler

CONSTANTS MaxCalls, MaxSessions, \* bounds: commands issued, sessions opened
          Tries, HelloTries,     \* sends of one command, of one HELLO
          Persistent,            \* the host never gives a command up
          CallDecodes,           \* whether commands may be undecodable
          Carriers,              \* [reorders, shared: with other clients,
                                 \*  sessions, holds, others: bounds on the
                                 \*  sessions, on the lines on their way and
                                 \*  on the lines of other clients]
          MaxOthers              \* the most of the latter

ASSUME BoundsAssumption ==
    /\ {MaxCalls, MaxSessions, Tries, HelloTries} \subseteq Nat \ {0}
    /\ MaxCalls < MaxSequenceId /\ MaxOthers \in Nat
    /\ 0 .. MaxCalls + MaxSessions \subseteq Tags
    /\ CallDecodes \subseteq BOOLEAN
    /\ Persistent \in BOOLEAN
    /\ Carriers \subseteq [reorders : BOOLEAN, shared : BOOLEAN,
                    sessions : 1 .. MaxSessions, holds : Nat \ {0},
                    others : 0 .. MaxOthers]

VARIABLES carrier,         \* the link in use; it stays the same
          toRobot, toHost, \* lines on their way
          hpc,             \* "closed", "hello", "idle" or "await"
          seq,             \* Sequencer.seq, the last id handed out
          wire,            \* the line being sent: formatted once, resent as is
          triesLeft,
          session, calls,  \* history: sessions opened, commands issued
          result,          \* what each command's caller was told
          rivals,          \* history: another client's command was accepted
                           \* since the link was opened
          ownBanner,       \* history: hello() read the banner of its own HELLO,
                           \* and no rivals since
          trusted,         \* history: the commands issued with ownBanner, until
                           \* a rival's is accepted
          robotSession,    \* history: whose HELLO the handler took last
          others,          \* history: lines of other clients
          trace            \* history: commands executed, over all sessions; 0
                           \* for one of another client

hostVars    == <<hpc, seq, wire, triesLeft, session, calls, result, rivals,
                 ownBanner, trusted>>
channelVars == <<toRobot, toHost>>
robotVars   == <<expectedNext_, gapOutstanding_, malformedCount_, accepted,
                 discarded, robotSession, others, trace>>
vars == <<handlerVars, carrier, channelVars, hostVars, robotSession, others, trace>>

HelloLine(s) == [verb |-> "HELLO", id |-> NoId, decodes |-> TRUE, tag |-> s]
Command(i, c, d) == [verb |-> "COMMAND", id |-> i, decodes |-> d, tag |-> c]

SendLine(line) == \/ /\ Len(toRobot) < carrier.holds
                     /\ toRobot' = Append(toRobot, line)
                  \/ UNCHANGED toRobot          \* lost, or no room for it
----------------------------------------------------------------------------
(* The host.                                                               *)

\* A new Link, its sequencer at 0, sends HELLO.
OpenLink ==
    /\ session < carrier.sessions
    /\ session' = session + 1
    /\ seq' = 0
    /\ ownBanner' = FALSE /\ rivals' = FALSE
    /\ wire' = HelloLine(session')
    /\ triesLeft' = HelloTries - 1
    /\ hpc' = "hello"
    /\ SendLine(wire')
    /\ replies' = <<>>
    /\ UNCHANGED <<carrier, robotVars, toHost, calls, result, trusted>>

\* seqd()/send(): format() allocates one id, however often the line is sent.
Call ==
    /\ hpc = "idle"
    /\ calls < MaxCalls
    /\ calls' = calls + 1
    /\ seq' = seq + 1
    /\ \E d \in CallDecodes : wire' = Command(seq', calls', d)
    /\ triesLeft' = Tries - 1
    /\ hpc' = "await"
    /\ result' = [result EXCEPT ![calls'] = "pending"]
    /\ trusted' = IF ownBanner THEN trusted \cup {calls'} ELSE trusted
    /\ SendLine(wire')
    /\ replies' = <<>>
    /\ UNCHANGED <<carrier, robotVars, toHost, session, rivals, ownBanner>>

First(indices) == CHOOSE i \in indices : \A j \in indices : i <= j
Having(window, kinds) == {i \in DOMAIN window : window[i].kind \in kinds}
\* A mutant: whatever ack or err comes first is taken for the answer.
Answers_AnyId(window) == Having(window, {"ack", "err"})
Answers(window) ==                                \* ^(ack|err)\s+<seq>\b
    {i \in Having(window, {"ack", "err"}) : window[i].n = seq}

\* What the lines read in one window say of the command in flight.
Verdict(window) ==
    IF Answers(window) # {} THEN window[First(Answers(window))].kind ELSE "none"

\* A mutant: the number of tries is not checked.
Resend_Always == /\ triesLeft' = triesLeft - 1
                 /\ SendLine(wire)
                 /\ UNCHANGED <<hpc, seq, wire, session, calls, result,
                                rivals, ownBanner, trusted>>
Resend == /\ Persistent \/ triesLeft > 0
          /\ triesLeft' = IF Persistent THEN triesLeft ELSE triesLeft - 1
          /\ SendLine(wire)
          /\ UNCHANGED <<hpc, seq, wire, session, calls, result, rivals, ownBanner, trusted>>

\* hello() resets the sequencer whether it has read a banner or not.
HelloReturns(own) == /\ hpc' = "idle"
                     /\ seq' = 0
                     /\ ownBanner' = own
                     /\ triesLeft' = 0
                     /\ UNCHANGED <<wire, session, calls, result, rivals, trusted, toRobot>>

HelloWindow(window) ==
    /\ hpc = "hello"
    /\ IF Having(window, {"device"}) # {}
       THEN HelloReturns(~rivals /\ window[First(Having(window, {"device"}))].of = session)
       ELSE Resend \/ (triesLeft = 0 /\ HelloReturns(FALSE))

CallReturns(verdict) ==
    /\ hpc' = "idle"
    /\ result' = [result EXCEPT ![calls] = verdict]
    /\ triesLeft' = 0
    /\ UNCHANGED <<seq, wire, session, calls, rivals, ownBanner, trusted, toRobot>>

CallWindow(window) ==
    /\ hpc = "await"
    /\ IF Verdict(window) # "none"
       THEN CallReturns(Verdict(window))
       ELSE Resend \/ (triesLeft = 0 /\ ~Persistent /\ CallReturns("none"))

\* The k lines that arrive in time are read; all are consumed, matched or not.
HostWindow(k) ==
    /\ LET window == SubSeq(toHost, 1, k)
       IN  HelloWindow(window) \/ CallWindow(window)
    /\ toHost' = SubSeq(toHost, k + 1, Len(toHost))
    /\ replies' = <<>>
    /\ UNCHANGED <<carrier, robotVars>>
----------------------------------------------------------------------------
(* The carrier and the robot.                                              *)

Stamp(r) == [kind |-> r.kind, n |-> r.n, id |-> r.id, of |-> robotSession']

Heard(j, kept) == IF j \in kept THEN <<Stamp(replies'[j])>> ELSE <<>>

\* The handler takes a line; of its replies, at most two, those in `kept`
\* reach the host.
Deliver(i, kept) ==
    /\ Receive(toRobot[i])
    /\ toRobot' = SubSeq(toRobot, 1, i - 1) \o SubSeq(toRobot, i + 1, Len(toRobot))
    /\ robotSession' = IF toRobot[i].verb = "HELLO" THEN toRobot[i].tag ELSE robotSession
    /\ trace' = IF Len(accepted') > Len(accepted)
                THEN Append(trace, accepted'[Len(accepted')].tag) ELSE trace
    /\ kept \subseteq DOMAIN replies'
    /\ toHost' = toHost \o Heard(1, kept) \o Heard(2, kept)
    /\ Len(toHost') <= carrier.holds
    /\ UNCHANGED <<carrier, hostVars, others>>

DeliverNext(kept) == toRobot # <<>> /\ Deliver(1, kept)
DeliverAny(kept)  == carrier.reorders /\ \E i \in 2 .. Len(toRobot) : Deliver(i, kept)

\* What other clients send arrives, and is answered, on their own way.
AnothersHello ==
    /\ carrier.shared /\ others < carrier.others
    /\ handleHello(HelloLine(0))
    /\ others' = others + 1
    /\ robotSession' = 0
    /\ UNCHANGED <<carrier, hostVars, channelVars, trace>>

\* Their sequencer counts as this host's does: whichever numbers they send,
\* the handler has one expectedNext_ for all of its clients.
AnothersCommand(line) ==
    /\ carrier.shared /\ others < carrier.others
    /\ Receive(line)
    /\ others' = others + 1
    /\ IF accepted' = accepted
       THEN UNCHANGED <<trace, rivals, ownBanner, trusted>>
       ELSE /\ trace' = Append(trace, 0)
            /\ rivals' = TRUE /\ ownBanner' = FALSE /\ trusted' = {}
    /\ UNCHANGED <<carrier, channelVars, robotSession,
                   hpc, seq, wire, triesLeft, session, calls, result>>
----------------------------------------------------------------------------
Init == /\ HandlerInit
        /\ carrier \in Carriers /\ toRobot = <<>> /\ toHost = <<>>
        /\ hpc = "closed" /\ seq = 0 /\ triesLeft = 0 /\ wire = HelloLine(0)
        /\ session = 0 /\ calls = 0
        /\ result = [c \in 1 .. MaxCalls |-> "unissued"]
        /\ rivals = FALSE /\ ownBanner = FALSE /\ trusted = {}
        /\ robotSession = 0 /\ others = 0 /\ trace = <<>>

Next == \/ OpenLink
        \/ Call
        \/ \E k \in 0 .. Len(toHost) : HostWindow(k)
        \/ \E kept \in SUBSET (1 .. 2) : DeliverNext(kept) \/ DeliverAny(kept)
        \/ AnothersHello
        \/ \E i \in 1 .. MaxCalls, d \in CallDecodes : AnothersCommand(Command(i, 0, d))

Spec == Init /\ [][Next]_vars

\* Nothing is lost: what was read, resent and answered got through.
ResendArrives   == /\ \E k \in 0 .. Len(toHost) : HostWindow(k)
                   /\ Len(toRobot') > Len(toRobot)
AnswerArrives   == /\ \E kept \in SUBSET (1 .. 2) : DeliverNext(kept)
                   /\ Len(toHost') = Len(toHost) + Len(replies')
LineIsTaken     == \E kept \in SUBSET (1 .. 2) : DeliverNext(kept)
WindowCatchesUp == HostWindow(Len(toHost))

(* The firmware's loop and the host's read loop keep running; a line sent  *)
(* again and again gets through some time, in both directions (fieldlink.py*)
(* quotes 66-83% per-line delivery on the radio).                          *)
FairSpec == /\ Spec
            /\ WF_vars(LineIsTaken) /\ WF_vars(WindowCatchesUp)
            /\ SF_vars(ResendArrives) /\ SF_vars(AnswerArrives)
----------------------------------------------------------------------------
(* The type invariant of the host and of the channels.                     *)
SessionTypeOK ==
    /\ HandlerTypeOK
    /\ carrier \in Carriers
    /\ toRobot \in Seq(Lines) /\ Len(toRobot) <= carrier.holds
    /\ toHost \in Seq([kind : {"ack", "nack", "err", "device"}, n : Nat,
                       id : Ids \cup {NoId}, of : 0 .. MaxSessions])
    /\ Len(toHost) <= carrier.holds
    /\ hpc \in {"closed", "hello", "idle", "await"}
    /\ seq \in 0 .. MaxCalls
    /\ wire \in Lines
    /\ triesLeft \in Nat
    /\ session \in 0 .. MaxSessions /\ calls \in 0 .. MaxCalls
    /\ result \in [1 .. MaxCalls -> {"unissued", "pending", "ack", "err", "none"}]
    /\ rivals \in BOOLEAN /\ ownBanner \in BOOLEAN /\ trusted \subseteq 1 .. MaxCalls
    /\ robotSession \in 0 .. MaxSessions /\ others \in 0 .. carrier.others
    /\ trace \in Seq(0 .. MaxCalls)

Executed(c) == \E i \in DOMAIN trace : trace[i] = c

(* On a carrier that keeps order and has one client, over all sessions,    *)
(* retransmits, lost lines and killed hosts, the robot runs the host's     *)
(* commands in the order they were issued and none twice.                  *)
RunsInIssueOrder ==
    ~carrier.reorders /\ ~carrier.shared =>
        \A i, j \in DOMAIN trace : i < j => trace[i] < trace[j]

\* A datagram of an earlier session may still be on its way.
NoLeftovers == carrier.reorders => session = 1

(* An ack that names the command's id is a receipt: once hello() has read  *)
(* the banner of its own HELLO, a caller told "ack" has had its command    *)
(* executed, whatever other clients send, HELLOs among it, as long as the  *)
(* handler accepts no command of theirs; on a carrier that reorders, as    *)
(* long as no datagram of an earlier session can come late.                *)
AckIsReceipt == NoLeftovers => \A c \in trusted : result[c] = "ack" => Executed(c)

(* No leg of a routine is skipped: in a session that read its own banner,  *)
(* and in which no other client's command ran, a command runs only right   *)
(* behind the one issued before it; one that was lost and given up stalls  *)
(* everything after it.                                                    *)
NoLegIsSkipped ==
    NoLeftovers =>
        \A i, j \in DOMAIN accepted :
            i < j /\ accepted[j].tag \in trusted
                => accepted[j].tag - accepted[i].tag = j - i

(* What the handler says of a stale line, that it is one it has accepted   *)
(* before: the command a stale line carries has been executed. With two    *)
(* clients on the one counter it need not have been.                       *)
StaleWasAccepted ==
    [][\A i \in 1 .. Len(toRobot), kept \in SUBSET (1 .. 2) :
          Deliver(i, kept) /\ StaleRetransmit(toRobot[i])
              => Executed(toRobot[i].tag)]_vars

(* A host that keeps resending gets its command executed and acknowledged, *)
(* whatever the radio loses on the way (self-healing by retransmit).       *)
RetransmitHeals ==
    \A c \in 1 .. MaxCalls :
        result[c] = "pending" /\ session = carrier.sessions /\ c \in trusted
            ~> result[c] = "ack" /\ Executed(c)

============================================================================
