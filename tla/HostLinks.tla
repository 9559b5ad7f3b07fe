----------------------------- MODULE HostLinks -----------------------------
(***************************************************************************)
(* How the tools get and keep a line to one robot: link.py, robotlink.py,   *)
(* fieldlink.py and wifilink.py.  A relay keeps the settings of whoever     *)
(* used it last; a name is resolved through a cache that outlives a lease;  *)
(* bytes arrive in pieces; a job's receipt may be lost; and the robot       *)
(* forgets a UDP peer it has not heard for a while.                         *)
(***************************************************************************)
EXTENDS Integers, Sequences, FiniteSets

CONSTANTS
    Robots, OnWifi,     \* the fleet, and those of it that join the network
    AddressOf,          \* robot -> the radio address it is flashed with
    Calibration,        \* robot -> [channel, group] of field_calibration.json
    NoEntry,            \* a field that is not there
    ProbeTries,
    SaidLines,          \* lines the robot says in a session
    Attempts,           \* send_until()'s tries
    Jobs,               \* jobs of a session
    KeepAlive, Silence, \* KEEPALIVE_S and kPeerSilence, in steps of the clock
    LossesInARow        \* datagrams lost one after the other

ASSUME LinkAssumption ==
    /\ OnWifi \subseteq Robots
    /\ ProbeTries \in Nat \ {0} /\ SaidLines \in Nat \ {0} /\ Attempts \in Nat /\ Jobs \in Nat
    /\ KeepAlive \in Nat /\ Silence \in Nat /\ LossesInARow \in Nat

\* Every robot has an address of its own, a complete calibration entry names
\* the one the robot is flashed with, and the robot's patience has room for the
\* datagrams that are lost.
ASSUME FleetAssumption ==
    /\ NoEntry \notin Robots
    /\ \A r, s \in Robots : AddressOf[r] = AddressOf[s] => r = s
    /\ \A r \in Robots :
         Calibration[r].channel # NoEntry /\ Calibration[r].group # NoEntry
           => AddressOf[r] = <<Calibration[r].channel, Calibration[r].group>>
    /\ (LossesInARow + 1) * (KeepAlive + 1) < Silence

VARIABLES
    relayBoard,     \* the relay's settings, which it saves
    addressOfName,  \* <name>.local in the resolver's cache, and the leases
    hostLink,       \* the tool: where it is, and with whom it speaks
    lineStream,     \* bytes on their way, the partial line, the lines given out
    linkJobs,           \* send_until() and the robot's counter
    udpPeer         \* the keepalive and the robot's memory of its peer

linkVars == <<relayBoard, addressOfName, hostLink, lineStream, linkJobs, udpPeer>>

Addresses == {AddressOf[r] : r \in Robots}

-----------------------------------------------------------------------------
(* The radio: an address, a relay, and its tuning. *)

\* The relay is shared, set by hand, and saves what it was last set to.
RelaySettings == [ECHO : BOOLEAN, MODE : {"RAW250", "MAKECODE"}, CG : Addresses, P : {3, 7}]

\* radio_address(): the override if both are there, else what make_deploy.py
\* derives from the name, which is what it flashes.
Half(r) == (Calibration[r].channel = NoEntry) # (Calibration[r].group = NoEntry)
radio_address(r) ==
    IF Calibration[r].channel = NoEntry THEN AddressOf[r]
    ELSE <<Calibration[r].channel, Calibration[r].group>>

\* Mutant: what a relay fresh from its box would need.
relay_setup_lines_AddressOnly(address) == << <<"CG", address>> >>
relay_setup_lines(address) == << <<"ECHO", FALSE>>, <<"MODE", "RAW250">>, <<"CG", address>>, <<"P", 7>> >>

Obeys(line) == [relayBoard EXCEPT ![line[1]] = line[2]]

OpenRadio ==
    /\ hostLink.at = "closed"
    /\ \E r \in Robots :
         hostLink' = IF Half(r) THEN [hostLink EXCEPT !.at = "refused"]
                     ELSE [hostLink EXCEPT !.at = "probing", !.robot = r, !.carrier = "radio"]
    /\ UNCHANGED <<relayBoard, addressOfName, lineStream, linkJobs, udpPeer>>

\* probe_port(): a board that is there is missed now and then.
Probe ==
    /\ hostLink.at = "probing"
    /\ \/ hostLink' = [hostLink EXCEPT !.at = "tuning", !.todo = relay_setup_lines(radio_address(hostLink.robot))]
       \/ hostLink' = [hostLink EXCEPT !.tries = @ + 1,
                                       !.at = IF hostLink.tries + 1 = ProbeTries THEN "refused" ELSE @]
    /\ UNCHANGED <<relayBoard, addressOfName, lineStream, linkJobs, udpPeer>>

SetupLine ==
    /\ hostLink.at = "tuning" /\ hostLink.todo # <<>>
    /\ relayBoard' = Obeys(Head(hostLink.todo))
    /\ hostLink' = [hostLink EXCEPT !.todo = Tail(@)]
    /\ UNCHANGED <<addressOfName, lineStream, linkJobs, udpPeer>>

\* A session reads, or sends linkJobs, or sits there; what was in the air when
\* its input was flushed begins in the middle of a line.
Piece(line, part) == <<line, part>>
Newline == <<0, 0>>
BytesOf(torn) ==
    LET whole == [n \in 1 .. 3 * SaidLines |-> IF n % 3 = 0 THEN Newline ELSE Piece((n + 2) \div 3, n % 3)]
    IN IF torn THEN Tail(whole) ELSE whole
Opened(with) ==
    /\ \E use \in {"read", "jobs", "idle"}, torn \in BOOLEAN :
         /\ (use = "idle") <=> (hostLink.carrier = "udp")
         /\ hostLink' = [hostLink EXCEPT !.at = use, !.with = with]
         /\ lineStream' = [coming |-> IF use = "read" THEN BytesOf(torn) ELSE <<>>, torn |-> torn,
                           partial |-> <<>>, got |-> <<>>]
    /\ UNCHANGED <<relayBoard, addressOfName, linkJobs, udpPeer>>

\* !GO: the data plane; a robot hears a relay on its address and mode.
GoRadio ==
    /\ hostLink.at = "tuning" /\ hostLink.todo = <<>>
    /\ Opened(IF relayBoard.MODE = "RAW250" /\ ~relayBoard.ECHO
                THEN {r \in Robots : AddressOf[r] = relayBoard.CG} ELSE {})

-----------------------------------------------------------------------------
(* Wi-Fi: the name, then the address. *)

\* A lease changes hands; the cache learns of it later, or not at all.
LeaseMoves ==
    /\ hostLink.at = "closed"
    /\ \E r, s \in OnWifi :
         addressOfName' = [addressOfName EXCEPT !.lease[r] = addressOfName.lease[s],
                                                !.lease[s] = addressOfName.lease[r]]
    /\ UNCHANGED <<relayBoard, hostLink, lineStream, linkJobs, udpPeer>>
Announce ==
    /\ hostLink.at = "closed"
    /\ \E r \in OnWifi : addressOfName' = [addressOfName EXCEPT !.cache[r] = addressOfName.lease[r]]
    /\ UNCHANGED <<relayBoard, hostLink, lineStream, linkJobs, udpPeer>>

OpenWifi ==
    /\ hostLink.at = "closed"
    /\ \E r \in OnWifi, carrier \in {"tcp", "udp"} :
         hostLink' = [hostLink EXCEPT !.at = "resolving", !.robot = r, !.carrier = carrier]
    /\ UNCHANGED <<relayBoard, addressOfName, lineStream, linkJobs, udpPeer>>

Holder(address) == {r \in OnWifi : addressOfName.lease[r] = address}

\* discover_broadcast(): every robot answers; the banner has its name.
\* Mutant: the first answer will do.
Answers_Any(robot) == OnWifi
Answers(robot) == {robot}

discover ==
    /\ hostLink.at = "resolving"
    /\ IF addressOfName.cache[hostLink.robot] # NoEntry
         THEN Opened(Holder(addressOfName.cache[hostLink.robot]))
         ELSE \/ \E r \in Answers(hostLink.robot) : Opened(Holder(addressOfName.lease[r]))
              \/ /\ hostLink' = [hostLink EXCEPT !.at = "refused"]
                 /\ UNCHANGED <<relayBoard, addressOfName, lineStream, linkJobs, udpPeer>>

\* rogo: what the cache has, and nothing is asked of the robots.
rogo_target ==
    /\ hostLink.at = "closed"
    /\ \E r \in OnWifi :
         LET address == addressOfName.cache[r] IN
         hostLink' = [hostLink EXCEPT !.robot = r, !.carrier = "tcp",
                        !.at = IF address = NoEntry THEN "refused" ELSE "piped",
                        !.with = IF address = NoEntry THEN {} ELSE Holder(address)]
    /\ UNCHANGED <<relayBoard, addressOfName, lineStream, linkJobs, udpPeer>>

-----------------------------------------------------------------------------
(* Lines out of bytes. *)

\* Where the line begins that position n of the text is in: the text is split
\* at its newlines.
Begin(text, n) ==
    LET before == {0} \cup {m \in 1 .. n - 1 : text[m] = Newline}
    IN 1 + CHOOSE m \in before : \A k \in before : k <= m

\* Mutant: what a read leaves over is thrown away.
Leftover_Dropped(text) == <<>>
\* What follows the last newline.
Leftover(text) == SubSeq(text, Begin(text, Len(text) + 1), Len(text))

\* feed(): the lines that end in the text, but for the empty ones.
Complete(text) ==
    LET ends == {n \in 1 .. Len(text) : text[n] = Newline /\ Begin(text, n) < n}
        nth(k) == CHOOSE n \in ends : Cardinality({m \in ends : m <= n}) = k
    IN [k \in 1 .. Cardinality(ends) |-> SubSeq(text, Begin(text, nth(k)), nth(k) - 1)]

\* A socket returns any piece; readline() one line, or what came in time.
Read ==
    /\ hostLink.at = "read" /\ lineStream.coming # <<>>
    /\ \E n \in DOMAIN lineStream.coming :
         /\ hostLink.carrier = "radio" => \A m \in 1 .. n - 1 : lineStream.coming[m] # Newline
         /\ LET text == lineStream.partial \o SubSeq(lineStream.coming, 1, n)
            IN lineStream' = [lineStream EXCEPT !.coming = SubSeq(@, n + 1, Len(@)),
                                !.partial = Leftover(text), !.got = @ \o Complete(text)]
    /\ UNCHANGED <<relayBoard, addressOfName, hostLink, linkJobs, udpPeer>>

-----------------------------------------------------------------------------
(* send_until(): one id for all the tries of a job. *)

\* Mutant: every try is a command of its own.
IdOfTry_Fresh(first, try) == first + try
IdOfTry(first, try) == first

SendJob ==
    /\ hostLink.at = "jobs" /\ linkJobs.at = "ready" /\ linkJobs.job < Jobs
    /\ linkJobs' = [linkJobs EXCEPT !.at = "trying", !.job = @ + 1, !.try = 0]
    /\ UNCHANGED <<relayBoard, addressOfName, hostLink, lineStream, udpPeer>>

\* One try: the line arrives or not, the robot runs it or acks it again, and
\* the receipt of a job it runs arrives or not.
Try ==
    /\ linkJobs.at = "trying"
    /\ LET id == IdOfTry(linkJobs.seq + 1, linkJobs.try)
           runs == id = linkJobs.expected
           last == linkJobs.try + 1 = Attempts
       IN \E arrives, receipt \in BOOLEAN :
            /\ receipt => arrives /\ runs
            /\ linkJobs' = [linkJobs EXCEPT
                 !.expected = IF arrives /\ runs THEN @ + 1 ELSE @,
                 !.ran[linkJobs.job] = IF arrives /\ runs THEN @ + 1 ELSE @,
                 !.receipt = IF receipt THEN @ \cup {linkJobs.job} ELSE @,
                 !.at = IF receipt \/ last THEN "ready" ELSE @,
                 !.try = IF receipt \/ last THEN 0 ELSE @ + 1,
                 !.seq = IF receipt \/ last THEN id ELSE @]
    /\ UNCHANGED <<relayBoard, addressOfName, hostLink, lineStream, udpPeer>>

-----------------------------------------------------------------------------
(* The keepalive: checked once a step, and at the latest a step late. *)

\* Mutant: due when the robot's patience is.
Due_Late(since) == since >= Silence
Due(since) == since >= KeepAlive

Datagram(kind) ==
    /\ hostLink.at = "idle"
    /\ kind = "keepalive" => Due(udpPeer.since)
    /\ \E heard \in BOOLEAN :
         /\ heard \/ udpPeer.lost < LossesInARow
         /\ udpPeer' = [udpPeer EXCEPT !.since = 0, !.silent = IF heard THEN 0 ELSE @,
                                       !.lost = IF heard THEN 0 ELSE @ + 1,
                                       !.known = IF heard THEN TRUE ELSE @]
    /\ UNCHANGED <<relayBoard, addressOfName, hostLink, lineStream, linkJobs>>

\* peerKnown(): the robot forgets who it has not heard for kPeerSilence.
ClockStep ==
    /\ hostLink.at = "idle" /\ ~Due(udpPeer.since - 1)
    /\ udpPeer' = [udpPeer EXCEPT !.since = @ + 1, !.silent = @ + 1,
                                  !.known = @ /\ udpPeer.silent + 1 < Silence]
    /\ UNCHANGED <<relayBoard, addressOfName, hostLink, lineStream, linkJobs>>

-----------------------------------------------------------------------------

LinkInit ==
    /\ relayBoard \in RelaySettings
    /\ addressOfName = [lease |-> [r \in OnWifi |-> r], cache |-> [r \in OnWifi |-> NoEntry]]
    /\ hostLink = [at |-> "closed", robot |-> NoEntry, carrier |-> "none", with |-> {},
                   tries |-> 0, todo |-> <<>>]
    /\ lineStream = [coming |-> <<>>, torn |-> FALSE, partial |-> <<>>, got |-> <<>>]
    /\ linkJobs = [at |-> "ready", job |-> 0, try |-> 0, seq |-> 0, expected |-> 1,
               ran |-> [j \in 1 .. Jobs |-> 0], receipt |-> {}]
    /\ udpPeer = [since |-> 0, silent |-> 0, lost |-> 0, known |-> TRUE]

LinkNext ==
    \/ OpenRadio \/ Probe \/ SetupLine \/ GoRadio
    \/ LeaseMoves \/ Announce \/ OpenWifi \/ discover \/ rogo_target
    \/ Read \/ SendJob \/ Try
    \/ Datagram("command") \/ Datagram("keepalive") \/ ClockStep

LinkSpec == LinkInit /\ [][LinkNext]_linkVars

-----------------------------------------------------------------------------
(* Types. *)
LinkTypeOK ==
    /\ relayBoard \in RelaySettings
    /\ hostLink.tries \in 0 .. ProbeTries /\ hostLink.with \subseteq Robots
    /\ linkJobs.seq \in 0 .. Jobs /\ linkJobs.expected \in 1 .. Jobs + 1
    /\ udpPeer.since \in 0 .. KeepAlive + 1

InSession == hostLink.at \in {"read", "jobs", "idle", "piped"}

(* A session is with the robot it was opened for and nobody else, whatever  *)
(* the relay was left at; over Wi-Fi unless the resolver gave an address    *)
(* that has since changed hands, which nothing compares with the banner.    *)
SessionIsItsRobots ==
    InSession =>
        \/ hostLink.with = {hostLink.robot}
        \/ /\ hostLink.carrier # "radio"
           /\ addressOfName.cache[hostLink.robot] \notin {NoEntry, addressOfName.lease[hostLink.robot]}

(* However the bytes were cut, the lines given out are whole, in order and  *)
(* without a gap, but for the rest of the one that was cut by the flush.    *)
LinesAreWhole ==
    \A n \in DOMAIN lineStream.got :
        \/ lineStream.got[n] = <<Piece(n, 1), Piece(n, 2)>>
        \/ n = 1 /\ lineStream.torn /\ lineStream.got[n] = <<Piece(1, 2)>>

(* A job runs at most once however often it was sent, and one whose receipt *)
(* came has run.                                                            *)
JobsRunOnce ==
    \A j \in 1 .. Jobs : linkJobs.ran[j] <= 1 /\ (j \in linkJobs.receipt => linkJobs.ran[j] = 1)

(* The robot does not forget a peer that is there while fewer datagrams are *)
(* lost in a row than its patience has room for.                            *)
PeerIsKept == udpPeer.known

CarriersAreSound == SessionIsItsRobots /\ LinesAreWhole /\ JobsRunOnce /\ PeerIsKept
=============================================================================
