------------------------------ MODULE RogoLink ------------------------------
(***************************************************************************)
(* tools/rogo pipes a terminal to the robot's TCP server.  Behind it one    *)
(* fiber serves every client through one reply target and one transmit      *)
(* ring; a reply longer than the ring waits while the fiber pumps the link, *)
(* and the pump takes in whatever the module reports meanwhile.             *)
(***************************************************************************)
EXTENDS Integers, Sequences

CONSTANTS
    Clients,        \* TCP links
    Stdin,          \* what a client may send: sequences of verbs
    ReplyLines,     \* lines the robot answers a verb with
    TxSlots,        \* kTxSlots
    RxSlots,        \* kRxSlots
    DrainPerPass,   \* kRxDrainPerPass
    ReplyWait,      \* pumps in kWifiReplyWait
    UartHolds,      \* bound: what the module says between two reads of it
    StdinLines      \* bound: lines on the standard input of a rogo

Udp == "udp"

ASSUME RogoAssumption ==
    /\ Udp \notin Clients
    /\ {TxSlots, RxSlots, DrainPerPass, ReplyWait} \subseteq Nat \ {0}
    /\ \A c \in Clients : Stdin[c] \subseteq Seq(DOMAIN ReplyLines)
    /\ \A verb \in DOMAIN ReplyLines : ReplyLines[verb] \in Nat

VARIABLES
    tcpServer,  \* WifiLink: open clients, reply target, rings, a send in flight
    wifiFiber,  \* the protocol fiber inside serviceWifi()
    uart,       \* what the module has said and the fiber has not read
    client,     \* the TCP clients of the module
    rogo        \* the threads of one pipe(), and its socket

rogoVars == <<tcpServer, wifiFiber, uart, client, rogo>>

-----------------------------------------------------------------------------
(* WifiLink. *)

\* The newest client is the reply target from its CONNECT line onward.
Connected(s, c) == [s EXCEPT !.open = @ \cup {c}, !.replyTo = c, !.newest = c, !.edge = TRUE]

\* Mutant: any client's end takes the reply target away.
Disconnected_Any(s, c) == [s EXCEPT !.open = @ \ {c}, !.replyTo = Udp]
Disconnected(s, c) == [s EXCEPT !.open = @ \ {c}, !.replyTo = IF @ = c THEN Udp ELSE @]

pushRxLine(s, line) == IF Len(s.rx) >= RxSlots THEN s ELSE [s EXCEPT !.rx = Append(@, line)]

\* pumpIncoming(): one thing the module said, in its order.
ModuleSaid(s, event) ==
    CASE event.says = "CONNECT" -> Connected(s, event.link)
      [] event.says = "CLOSED" -> Disconnected(s, event.link)
      [] event.says = "sent" -> [s EXCEPT !.sending = FALSE]
      [] OTHER -> IF event.link \in s.open
                    THEN pushRxLine(s, [from |-> event.link, verb |-> event.says]) ELSE s

popNextSend(s) ==
    IF s.sending \/ s.tx = <<>> THEN s
    ELSE [s EXCEPT !.sending = TRUE, !.tx = Tail(@)]

\* All it said since the last pass.
AllSaid(s) ==
    LET after[i \in 0 .. Len(uart)] == IF i = 0 THEN s ELSE ModuleSaid(after[i - 1], uart[i])
    IN after[Len(uart)]

\* A pass that ends a send does not start the next one.
Service(s) == IF s.sending THEN AllSaid(s) ELSE popNextSend(AllSaid(s))

HasRoom == Len(tcpServer.tx) < TxSlots

\* Where a line goes now: a client that is gone falls back to the UDP host.
ReplyTarget == IF tcpServer.replyTo \in tcpServer.open THEN tcpServer.replyTo ELSE Udp
Reachable == ReplyTarget # Udp \/ tcpServer.udpPeer

\* Mutant: a reply queues behind what is there.
Purged_Kept(tx) == tx
Purged(tx) ==
    LET kept[i \in 0 .. Len(tx)] ==
          IF i = 0 THEN <<>> ELSE IF tx[i].tel THEN kept[i - 1] ELSE Append(kept[i - 1], tx[i])
    IN kept[Len(tx)]

\* sendLine(): a reply throws the telemetry out and is dropped if the ring
\* is full all the same.
Queued(e) ==
    LET tx == IF e.tel THEN tcpServer.tx ELSE Purged(tcpServer.tx) IN
    IF ~Reachable THEN [tcpServer EXCEPT !.replyTo = ReplyTarget]
    ELSE [tcpServer EXCEPT !.replyTo = ReplyTarget,
                           !.tx = IF Len(tx) >= TxSlots THEN tx ELSE Append(tx, e)]

-----------------------------------------------------------------------------
(* serviceWifi(). *)

Banner == "banner"      \* device ..., then DBG:wifi
LinesOf(verb) == IF verb = Banner THEN 2 ELSE ReplyLines[verb]

Replying(f, for, verb, barged) ==
    [f EXCEPT !.at = "write", !.for = for, !.verb = verb, !.left = LinesOf(verb),
              !.queued = 0, !.waited = 0, !.excuses = IF barged THEN {"barged"} ELSE {}]

\* The edge has no name: the banner goes to the target of the moment, which
\* may have spoken since the newest client connected.  A pass is run()'s own,
\* or nested in a tick of the RUN job that this fiber dispatched, which no wire
\* motion shares the drivetrain with (serviceHookEntry(), dispatchJob()).
ServicePass ==
    /\ wifiFiber.at = "poll"
    /\ LET s == Service(tcpServer) IN
       /\ tcpServer' = [s EXCEPT !.edge = FALSE]
       /\ \E motion \in {wifiFiber.motion, FALSE}, job \in BOOLEAN :
            LET f == [wifiFiber EXCEPT !.motion = motion, !.job = job, !.budget = DrainPerPass] IN
            /\ ~(job /\ motion)
            /\ wifiFiber' = IF s.edge THEN Replying(f, s.newest, Banner, s.replyTo # s.newest)
                            ELSE [f EXCEPT !.at = "drain"]
    /\ uart' = <<>>
    /\ UNCHANGED <<client, rogo>>

\* Mutant: the target stays with the client that connected last.
TargetOfLine_Newest(line) == tcpServer.replyTo
TargetOfLine(line) == line.from

\* tryReceiveLine(), routeLine(): the replies go back the way the line came.
TakeLine ==
    /\ wifiFiber.at = "drain" /\ wifiFiber.budget > 0 /\ tcpServer.rx # <<>>
    /\ LET line == Head(tcpServer.rx) IN
       /\ tcpServer' = [tcpServer EXCEPT !.rx = Tail(@), !.replyTo = TargetOfLine(line)]
       /\ wifiFiber' = Replying([wifiFiber EXCEPT !.budget = @ - 1], line.from, line.verb, FALSE)
    /\ UNCHANGED <<uart, client, rogo>>

\* hasLiveMotionObligation() is the wire's: a job's motion does not forbid it.
MayWait == ~HasRoom /\ ~wifiFiber.motion /\ wifiFiber.waited < ReplyWait

\* waitForTxRoom(): one pump and one yield.
PumpWhileWaiting ==
    /\ wifiFiber.at = "write" /\ wifiFiber.left > 0 /\ MayWait
    /\ tcpServer' = Service(tcpServer)
    /\ wifiFiber' = [wifiFiber EXCEPT !.waited = @ + 1,
                       !.excuses = @ \cup (IF \E i \in DOMAIN uart : uart[i].says = "CONNECT"
                                             THEN {"barged"} ELSE {})]
    /\ uart' = <<>>
    /\ UNCHANGED <<client, rogo>>

\* writeWifi(), once it need not or may not wait.
WriteLine ==
    /\ wifiFiber.at = "write" /\ wifiFiber.left > 0 /\ ~MayWait
    /\ tcpServer' = Queued([to |-> ReplyTarget, for |-> wifiFiber.for, tel |-> FALSE,
                            barged |-> "barged" \in wifiFiber.excuses])
    /\ wifiFiber' = [wifiFiber EXCEPT !.left = @ - 1, !.waited = 0,
            !.queued = IF Len(tcpServer'.tx) > Len(Purged(tcpServer.tx)) /\ ReplyTarget = wifiFiber.for
                         THEN @ + 1 ELSE @,
            !.excuses = @ \cup (IF wifiFiber.for \notin tcpServer.open THEN {"gone"} ELSE {})
                          \cup (IF wifiFiber.motion THEN {"motion"} ELSE {})
                          \cup (IF wifiFiber.waited = ReplyWait THEN {"waited"} ELSE {})]
    /\ UNCHANGED <<uart, client, rogo>>

\* The reply of a motion verb is its ack; the motion is live after it, unless
\* a job has the drivetrain, and the verb was refused.
ReplyEnds ==
    /\ wifiFiber.at = "write" /\ wifiFiber.left = 0
    /\ wifiFiber' = [wifiFiber EXCEPT !.at = "drain",
                       !.motion = @ \/ (wifiFiber.verb = "MOVE_TO" /\ ~wifiFiber.job),
                       !.for = Udp, !.verb = Banner, !.queued = 0, !.excuses = {}]
    /\ UNCHANGED <<tcpServer, uart, client, rogo>>

telemetryAllowed == Reachable /\ tcpServer.tx = <<>> /\ ~tcpServer.sending

\* The rest of serviceOnce(), with a telemetry frame if one is due.
PassEnds ==
    /\ wifiFiber.at = "drain" /\ (wifiFiber.budget = 0 \/ tcpServer.rx = <<>>)
    /\ \E due \in BOOLEAN :
         tcpServer' = IF due /\ telemetryAllowed
                        THEN Queued([to |-> ReplyTarget, for |-> Udp, tel |-> TRUE, barged |-> FALSE])
                        ELSE tcpServer
    /\ wifiFiber' = [wifiFiber EXCEPT !.at = "poll"]
    /\ UNCHANGED <<uart, client, rogo>>

\* The module: SEND OK, or an ERROR or its silence past the timeout.
ModuleAnswers ==
    /\ tcpServer.sending /\ Len(uart) < UartHolds /\ \A i \in DOMAIN uart : uart[i].says # "sent"
    /\ uart' = Append(uart, [says |-> "sent", link |-> Udp])
    /\ UNCHANGED <<tcpServer, wifiFiber, client, rogo>>

-----------------------------------------------------------------------------
(* The clients, as the module reports them. *)

Reports(c, what) == Len(uart) < UartHolds /\ uart' = Append(uart, [says |-> what, link |-> c])

Connects(c) ==
    /\ client[c].at = "idle" /\ Reports(c, "CONNECT")
    /\ \E input \in Stdin[c] : client' = [client EXCEPT ![c] = [at |-> "open", input |-> input]]
    /\ UNCHANGED <<tcpServer, wifiFiber, rogo>>

Speaks(c) ==
    /\ client[c].at = "open" /\ client[c].input # <<>> /\ Reports(c, Head(client[c].input))
    /\ client' = [client EXCEPT ![c].input = Tail(@)]
    /\ UNCHANGED <<tcpServer, wifiFiber, rogo>>

\* Either side, at any time.
Closes(c) ==
    /\ client[c].at = "open" /\ Reports(c, "CLOSED")
    /\ client' = [client EXCEPT ![c] = [at |-> "ended", input |-> <<>>]]
    /\ UNCHANGED <<tcpServer, wifiFiber, rogo>>

-----------------------------------------------------------------------------
(* One rogo: the main thread, the reader and the feeder of pipe(). *)

Pipes(r) == rogo' = r /\ UNCHANGED <<tcpServer, wifiFiber, uart, client>>

\* send(): a socket the peer has closed takes the line or raises.
SendsLine ==
    /\ rogo.feeder = "reading" /\ ~rogo.closed /\ rogo.sent < StdinLines
    /\ \E raises \in IF rogo.socket = "open" THEN {FALSE} ELSE BOOLEAN :
         Pipes([rogo EXCEPT !.sent = @ + 1, !.closed = raises])

\* The end of the input, or the event seen before the next line.
FeederEnds == rogo.feeder = "reading" /\ Pipes([rogo EXCEPT !.feeder = "ended"])

\* reader(): the end of the stream, however it came.
ReaderSeesEnd == rogo.socket # "open" /\ ~rogo.closed /\ Pipes([rogo EXCEPT !.closed = TRUE])

PeerCloses ==
    rogo.socket = "open" /\ Pipes([rogo EXCEPT !.socket = "closed by peer", !.byPeer = TRUE])

\* closed.wait(wait) returns: the time is up or the event is set.
PipeWaitEnds ==
    /\ rogo.at = "piping" /\ (rogo.feeder = "ended" \/ rogo.closed)
    /\ Pipes([rogo EXCEPT !.at = "decided", !.peerClosed = rogo.closed])

ShutsDown ==
    rogo.at = "decided" /\ Pipes([rogo EXCEPT !.at = "left", !.socket = "shut"])

\* Mutant: the event as it is after the shutdown.
ExitCode_Late(r) == IF r.closed THEN 1 ELSE 0
ExitCode(r) == IF r.peerClosed THEN 1 ELSE 0

\* rt.join(1.0): the reader may or may not have ended.
PipeExits == rogo.at = "left" /\ Pipes([rogo EXCEPT !.at = "done", !.feeder = "ended", !.rc = ExitCode(rogo)])

-----------------------------------------------------------------------------

RogoInit ==
    /\ \E peer \in BOOLEAN :
         tcpServer = [open |-> {}, replyTo |-> Udp, newest |-> Udp, edge |-> FALSE, rx |-> <<>>,
                      tx |-> <<>>, sending |-> FALSE, udpPeer |-> peer]
    /\ wifiFiber = [at |-> "poll", for |-> Udp, verb |-> Banner, left |-> 0, queued |-> 0,
                    waited |-> 0, budget |-> DrainPerPass, motion |-> FALSE, job |-> FALSE, excuses |-> {}]
    /\ uart = <<>>
    /\ client = [c \in Clients |-> [at |-> "idle", input |-> <<>>]]
    /\ rogo = [at |-> "piping", feeder |-> "reading", sent |-> 0, socket |-> "open",
               closed |-> FALSE, byPeer |-> FALSE, peerClosed |-> FALSE, rc |-> 0]

ServerNext ==
    \/ ServicePass \/ TakeLine \/ PumpWhileWaiting \/ WriteLine \/ ReplyEnds \/ PassEnds \/ ModuleAnswers
    \/ \E c \in Clients : Connects(c) \/ Speaks(c) \/ Closes(c)

PipeNext ==
    \/ SendsLine \/ FeederEnds \/ ReaderSeesEnd \/ PeerCloses \/ PipeWaitEnds \/ ShutsDown \/ PipeExits

RogoSpec == RogoInit /\ [][ServerNext \/ PipeNext]_rogoVars

-----------------------------------------------------------------------------
(* Types. *)
RogoTypeOK ==
    /\ tcpServer.open \subseteq Clients /\ tcpServer.replyTo \in Clients \cup {Udp}
    /\ Len(tcpServer.tx) <= TxSlots /\ Len(tcpServer.rx) <= RxSlots
    /\ wifiFiber.at \in {"poll", "write", "drain"} /\ wifiFiber.waited \in 0 .. ReplyWait

(* A reply goes to the client whose line it answers, and to the UDP host    *)
(* only once that client is gone: unless another one connected while it was *)
(* waiting for room, or, for a banner, spoke before it was written.         *)
RepliesGoBack ==
    \A i \in DOMAIN tcpServer.tx :
        LET e == tcpServer.tx[i] IN
        e.tel \/ e.barged \/ e.to = e.for \/ e.to = Udp

(* A written reply is whole, but for the four ways the code lets it lose    *)
(* lines: a client that barged in, one that is gone, a live motion, and a   *)
(* line that waited its whole time.                                         *)
RepliesAreWhole ==
    wifiFiber.at = "write" /\ wifiFiber.left = 0 /\ wifiFiber.excuses = {} =>
        wifiFiber.queued = LinesOf(wifiFiber.verb)

(* No reply stands behind a telemetry frame.                                *)
NoReplyBehindTelemetry ==
    \A i, j \in DOMAIN tcpServer.tx : tcpServer.tx[i].tel => tcpServer.tx[j].tel

(* A pass nested in a job's tick never sleeps (protocol.h, serviceOnce():   *)
(* the tick that called it would stand still). It does: a reply longer than *)
(* the ring waits for room, and the job's motion is not ticked meanwhile.   *)
NeverSleepsMidTick == wifiFiber.job => wifiFiber.waited = 0

(* rogo reports a closed connection only if the peer closed it first.       *)
ExitCodeIsHonest == rogo.at = "done" /\ rogo.rc = 1 => rogo.byPeer

PipesAreSound ==
    RepliesGoBack /\ RepliesAreWhole /\ NoReplyBehindTelemetry /\ ExitCodeIsHonest
=============================================================================
