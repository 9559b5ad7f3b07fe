--------------------------- MODULE HostLinks_proofs ---------------------------
(***************************************************************************)
(* Theorems about the host's carriers, for any robots, relays, losses and  *)
(* clients.                                                                *)
(*                                                                         *)
(* robotlink.py, wifilink.py and link.py, the host's session with one      *)
(* robot: LinkInv ties who answers to whom the session was opened for      *)
(* (WhoInv), the streams to the replies of the lines sent (StreamInv), the *)
(* job to the tries of it (JobInv) and the datagrams to their addresses    *)
(* (PeerInv).                                                              *)
(*                                                                         *)
(* rogo and the robot's TCP server: RogoInv has the one connection the     *)
(* module serves (ModuleInv), the server's states (ServerInv), the lines   *)
(* in the ring (FiberInv), and what every client has sent and was told     *)
(* (PipeInv).                                                              *)
(***************************************************************************)
EXTENDS HostLinks, RogoLink, NaturalsInduction, WellFoundedInduction,
        FiniteSetTheorems, SequenceTheorems, TLAPS

-----------------------------------------------------------------------------
(* The host's session.                                                       *)

(* The invariant, in parts of one piece of the state each. *)

Sessions == {"read", "jobs", "idle", "piped"}
LinkStates == {"closed", "refused", "probing", "tuning", "resolving"} \cup Sessions
(* Who is spoken to: a radio that is being tuned has a whole address, and   *)
(* what is still to be sent is all that can be wrong with the relay.        *)
Echo == <<"ECHO", FALSE>>
Mode == <<"MODE", "RAW250">>
Tune(r) == <<"CG", AddressOf[r]>>
Power == <<"P", 7>>
Tuned(r) ==
    \/ hostLink.todo = <<Echo, Mode, Tune(r), Power>>
    \/ hostLink.todo = <<Mode, Tune(r), Power>> /\ relayBoard.ECHO = FALSE
    \/ hostLink.todo = <<Tune(r), Power>> /\ relayBoard.ECHO = FALSE /\ relayBoard.MODE = "RAW250"
    \/ /\ hostLink.todo \in {<<Power>>, <<>>}
       /\ relayBoard.ECHO = FALSE /\ relayBoard.MODE = "RAW250" /\ relayBoard.CG = AddressOf[r]

LinkShape ==
    /\ relayBoard \in RelaySettings
    /\ hostLink = [at |-> hostLink.at, robot |-> hostLink.robot, carrier |-> hostLink.carrier,
                   with |-> hostLink.with, tries |-> hostLink.tries, todo |-> hostLink.todo]
    /\ hostLink.at \in LinkStates /\ hostLink.with \subseteq Robots
    /\ hostLink.tries \in 0 .. ProbeTries
    /\ hostLink.at \in {"closed", "probing"} => hostLink.tries < ProbeTries

Leased ==
    /\ addressOfName = [lease |-> addressOfName.lease, cache |-> addressOfName.cache]
    /\ addressOfName.lease \in [OnWifi -> OnWifi]
    /\ \A r, s \in OnWifi : addressOfName.lease[r] = addressOfName.lease[s] => r = s
    /\ addressOfName.cache \in [OnWifi -> OnWifi \cup {NoEntry}]

Opening ==
    /\ hostLink.at \in {"probing", "tuning"} =>
         hostLink.robot \in Robots /\ ~Half(hostLink.robot) /\ hostLink.carrier = "radio"
    /\ hostLink.at = "tuning" => Tuned(hostLink.robot)
    /\ hostLink.at = "resolving" => hostLink.robot \in OnWifi /\ hostLink.carrier \in {"tcp", "udp"}

(* send_until(): the robot expects the number of the job being sent, the    *)
(* next one once it ran it, or an old one if it never heard the last.       *)
JobInv ==
    LET l == linkJobs IN
    /\ l = [at |-> l.at, job |-> l.job, try |-> l.try, seq |-> l.seq, expected |-> l.expected,
            ran |-> l.ran, receipt |-> l.receipt]
    /\ l.at \in {"ready", "trying"} /\ l.job \in 0 .. Jobs /\ l.expected \in Nat \ {0}
    /\ l.ran \in [1 .. Jobs -> {0, 1}]
    /\ \A j \in 1 .. Jobs : (j > l.job => l.ran[j] = 0) /\ (j \in l.receipt => l.ran[j] = 1)
    /\ l.at = "ready" => l.seq = l.job /\ l.expected <= l.seq + 1
    /\ l.at = "trying" =>
         /\ l.job = l.seq + 1 /\ l.expected <= l.seq + 2 /\ l.seq \in Nat
         /\ l.expected = l.seq + 1 => l.ran[l.job] = 0

(* A session is with its robot, and the pieces above.                       *)
WhoInv == LinkShape /\ Leased /\ Opening /\ SessionIsItsRobots

(* The keepalive: since the robot heard one, there were at most `lost`      *)
(* datagrams, each at most KeepAlive + 1 steps after the one before.        *)
Patience == KeepAlive + 1
PeerInv ==
    /\ udpPeer = [since |-> udpPeer.since, silent |-> udpPeer.silent, lost |-> udpPeer.lost,
                  known |-> udpPeer.known]
    /\ udpPeer.since \in 0 .. Patience /\ udpPeer.silent \in Nat /\ udpPeer.lost \in 0 .. LossesInARow
    /\ udpPeer.silent <= udpPeer.lost * Patience + udpPeer.since
    /\ udpPeer.known = TRUE

-----------------------------------------------------------------------------

LEMMA LinkConstants ==
  /\ OnWifi \subseteq Robots /\ ProbeTries \in Nat /\ ProbeTries > 0
  /\ SaidLines \in Nat /\ Attempts \in Nat /\ Jobs \in Nat
  /\ KeepAlive \in Nat /\ Silence \in Nat /\ LossesInARow \in Nat
  /\ NoEntry \notin Robots
  /\ \A r, s \in Robots : AddressOf[r] = AddressOf[s] => r = s
  /\ (LossesInARow + 1) * (KeepAlive + 1) < Silence
BY LinkAssumption, FleetAssumption

-----------------------------------------------------------------------------
(* The keepalive. *)

LEMMA PeerSteps ==
  ASSUME PeerInv, ClockStep \/ \E kind : Datagram(kind)
  PROVE  PeerInv'
<1> DEFINE u == udpPeer
<1>1. /\ u.since \in Nat /\ u.since <= Patience /\ u.silent \in Nat /\ u.lost \in Nat
      /\ u.lost <= LossesInARow /\ u.silent <= u.lost * Patience + u.since /\ u.known = TRUE
      /\ Patience \in Nat /\ Patience = KeepAlive + 1
  BY LinkConstants DEF PeerInv, Patience
<1>2. (u.lost + 1) * Patience = u.lost * Patience + Patience /\ u.lost * Patience \in Nat
  BY <1>1
<1>3. (u.lost + 1) * Patience <= (LossesInARow + 1) * Patience
  <2>1. \A a, b, c \in Nat : a <= b => a * c <= b * c
    OBVIOUS
  <2>2. u.lost + 1 \in Nat /\ LossesInARow + 1 \in Nat /\ u.lost + 1 <= LossesInARow + 1
    BY <1>1, LinkConstants
  <2> QED BY <1>1, <2>1, <2>2
<1>4. CASE ClockStep
  <2>1. /\ ~Due(u.since - 1)
        /\ udpPeer' = [udpPeer EXCEPT !.since = @ + 1, !.silent = @ + 1,
                                      !.known = @ /\ udpPeer.silent + 1 < Silence]
    BY <1>4 DEF ClockStep
  <2>2. u.since + 1 \in 0 .. Patience
    BY <1>1, <2>1, LinkConstants DEF Due
  <2>3. u.silent + 1 <= u.lost * Patience + (u.since + 1) /\ u.silent + 1 \in Nat
    BY <1>1, <1>2
  <2>4. u.silent + 1 < Silence
    <3>1. u.silent + 1 <= (u.lost + 1) * Patience
      BY <1>1, <1>2, <2>2, <2>3
    <3>2. (LossesInARow + 1) * Patience < Silence
      BY <1>1, LinkConstants
    <3>3. (u.lost + 1) * Patience \in Nat /\ (LossesInARow + 1) * Patience \in Nat
      BY <1>1, LinkConstants
    <3> HIDE DEF u
    <3>4. \A a, b, c, d \in Nat : a <= b /\ b <= c /\ c < d => a < d
      OBVIOUS
    <3> QED BY <1>3, <2>3, <3>1, <3>2, <3>3, <3>4, LinkConstants
  <2>5. /\ udpPeer'.since = u.since + 1 /\ udpPeer'.silent = u.silent + 1 /\ udpPeer'.lost = u.lost
        /\ udpPeer'.known = TRUE
        /\ udpPeer' = [since |-> udpPeer'.since, silent |-> udpPeer'.silent, lost |-> udpPeer'.lost,
                       known |-> udpPeer'.known]
    BY <1>1, <2>1, <2>4 DEF PeerInv
  <2> QED BY <1>1, <2>2, <2>3, <2>5, LinkConstants DEF PeerInv
<1>5. CASE \E kind : Datagram(kind)
  <2>1. PICK heard \in BOOLEAN :
          /\ heard \/ u.lost < LossesInARow
          /\ udpPeer' = [udpPeer EXCEPT !.since = 0, !.silent = IF heard THEN 0 ELSE @,
                                        !.lost = IF heard THEN 0 ELSE @ + 1,
                                        !.known = IF heard THEN TRUE ELSE @]
    BY <1>5 DEF Datagram
  <2>2. /\ udpPeer'.since = 0 /\ udpPeer'.silent = (IF heard THEN 0 ELSE u.silent)
        /\ udpPeer'.lost = (IF heard THEN 0 ELSE u.lost + 1) /\ udpPeer'.known = TRUE
        /\ udpPeer' = [since |-> udpPeer'.since, silent |-> udpPeer'.silent, lost |-> udpPeer'.lost,
                       known |-> udpPeer'.known]
    BY <1>1, <2>1 DEF PeerInv
  <2>3. CASE heard
    <3>1. 0 * Patience = 0
      BY <1>1
    <3> QED BY <1>1, <2>2, <2>3, <3>1, LinkConstants DEF PeerInv
  <2>4. CASE ~heard
    <3>1. u.silent <= (u.lost + 1) * Patience + 0 /\ u.lost + 1 \in 0 .. LossesInARow
      BY <1>1, <1>2, <2>1, <2>4, LinkConstants
    <3> QED BY <1>1, <2>2, <2>4, <3>1, LinkConstants DEF PeerInv
  <2> QED BY <2>3, <2>4
<1> QED BY <1>4, <1>5

-----------------------------------------------------------------------------
(* send_until(). *)

LEMMA SendJobStep ==
  ASSUME JobInv, SendJob
  PROVE  JobInv'
<1> DEFINE l == linkJobs
<1>1. /\ l.at = "ready" /\ l.job < Jobs
      /\ linkJobs' = [linkJobs EXCEPT !.at = "trying", !.job = @ + 1, !.try = 0]
  BY DEF SendJob
<1>2. /\ linkJobs'.at = "trying" /\ linkJobs'.job = l.job + 1 /\ linkJobs'.try = 0
      /\ linkJobs'.seq = l.seq /\ linkJobs'.expected = l.expected /\ linkJobs'.ran = l.ran
      /\ linkJobs'.receipt = l.receipt
      /\ linkJobs' = [at |-> linkJobs'.at, job |-> linkJobs'.job, try |-> linkJobs'.try,
                      seq |-> linkJobs'.seq, expected |-> linkJobs'.expected,
                      ran |-> linkJobs'.ran, receipt |-> linkJobs'.receipt]
  BY <1>1 DEF JobInv
<1>3. /\ l.job \in 0 .. Jobs /\ l.seq = l.job /\ l.expected \in Nat \ {0} /\ l.expected <= l.seq + 1
      /\ l.ran \in [1 .. Jobs -> {0, 1}]
      /\ \A j \in 1 .. Jobs : (j > l.job => l.ran[j] = 0) /\ (j \in l.receipt => l.ran[j] = 1)
  BY <1>1 DEF JobInv
<1>4. /\ l.job + 1 \in 0 .. Jobs /\ l.job + 1 \in 1 .. Jobs /\ l.job + 1 > l.job
      /\ l.seq \in Nat /\ l.expected <= l.seq + 2 /\ l.job + 1 = l.seq + 1
  <2>1. l.job \in Nat /\ l.job < Jobs /\ Jobs \in Nat /\ l.expected \in Nat /\ l.seq = l.job
    BY <1>1, <1>3, LinkConstants
  <2> HIDE DEF l
  <2>2. l.job + 1 \in 0 .. Jobs /\ l.job + 1 \in 1 .. Jobs /\ l.job + 1 > l.job
    BY <2>1
  <2>3. l.expected <= l.seq + 1 => l.expected <= l.seq + 2
    BY <2>1
  <2> QED BY <1>3, <2>1, <2>2, <2>3
<1>5. l.ran[l.job + 1] = 0
  BY <1>3, <1>4
<1>6. \A j \in 1 .. Jobs : j > l.job + 1 => l.ran[j] = 0
  <2> TAKE j \in 1 .. Jobs
  <2> HAVE j > l.job + 1
  <2>1. j > l.job
    <3>1. l.job \in Nat /\ j \in Nat
      BY <1>3, LinkConstants
    <3> HIDE DEF l
    <3> QED BY <3>1
  <2> QED BY <1>3, <2>1
<1> QED BY <1>2, <1>3, <1>4, <1>5, <1>6 DEF JobInv

LEMMA TryStep ==
  ASSUME JobInv, Try
  PROVE  JobInv'
<1> DEFINE l == linkJobs
           runs == l.seq + 1 = l.expected
           last == l.try + 1 = Attempts
<1>1. PICK arrives \in BOOLEAN, receipt \in BOOLEAN :
        /\ receipt => arrives /\ runs
        /\ linkJobs' = [linkJobs EXCEPT
             !.expected = IF arrives /\ runs THEN @ + 1 ELSE @,
             !.ran[linkJobs.job] = IF arrives /\ runs THEN @ + 1 ELSE @,
             !.receipt = IF receipt THEN @ \cup {linkJobs.job} ELSE @,
             !.at = IF receipt \/ last THEN "ready" ELSE @,
             !.try = IF receipt \/ last THEN 0 ELSE @ + 1,
             !.seq = IF receipt \/ last THEN linkJobs.seq + 1 ELSE @]
  BY DEF Try, IdOfTry
<1>2. l.at = "trying"
  BY DEF Try
<1>3. /\ l.job \in 0 .. Jobs /\ l.job = l.seq + 1 /\ l.seq \in Nat
      /\ l.expected \in Nat \ {0} /\ l.expected <= l.seq + 2
      /\ l.ran \in [1 .. Jobs -> {0, 1}]
      /\ \A j \in 1 .. Jobs : (j > l.job => l.ran[j] = 0) /\ (j \in l.receipt => l.ran[j] = 1)
      /\ l.expected = l.seq + 1 => l.ran[l.job] = 0
  BY <1>2 DEF JobInv
<1>4. l.job \in 1 .. Jobs
  BY <1>3, LinkConstants
<1> DEFINE did == arrives /\ runs
           ends == receipt \/ last
<1>5. /\ linkJobs'.at = (IF ends THEN "ready" ELSE "trying") /\ linkJobs'.job = l.job
      /\ linkJobs'.seq = (IF ends THEN l.seq + 1 ELSE l.seq)
      /\ linkJobs'.expected = (IF did THEN l.expected + 1 ELSE l.expected)
      /\ linkJobs'.ran = [l.ran EXCEPT ![l.job] = IF did THEN l.ran[l.job] + 1 ELSE l.ran[l.job]]
      /\ linkJobs'.receipt = (IF receipt THEN l.receipt \cup {l.job} ELSE l.receipt)
      /\ linkJobs' = [at |-> linkJobs'.at, job |-> linkJobs'.job, try |-> linkJobs'.try,
                      seq |-> linkJobs'.seq, expected |-> linkJobs'.expected,
                      ran |-> linkJobs'.ran, receipt |-> linkJobs'.receipt]
  <2>1. l = [at |-> l.at, job |-> l.job, try |-> l.try, seq |-> l.seq, expected |-> l.expected,
             ran |-> l.ran, receipt |-> l.receipt]
    BY DEF JobInv
  <2>2. linkJobs'.at = (IF ends THEN "ready" ELSE "trying") /\ linkJobs'.job = l.job
    BY <1>1, <1>2, <2>1
  <2>3. linkJobs'.seq = (IF ends THEN l.seq + 1 ELSE l.seq)
    BY <1>1, <2>1
  <2>4. linkJobs'.expected = (IF did THEN l.expected + 1 ELSE l.expected)
    BY <1>1, <2>1
  <2>5. linkJobs'.ran = [l.ran EXCEPT ![l.job] = IF did THEN l.ran[l.job] + 1 ELSE l.ran[l.job]]
    BY <1>1, <2>1
  <2>6. linkJobs'.receipt = (IF receipt THEN l.receipt \cup {l.job} ELSE l.receipt)
    BY <1>1, <2>1
  <2>7. linkJobs' = [at |-> linkJobs'.at, job |-> linkJobs'.job, try |-> linkJobs'.try,
                     seq |-> linkJobs'.seq, expected |-> linkJobs'.expected,
                     ran |-> linkJobs'.ran, receipt |-> linkJobs'.receipt]
    BY <1>1, <2>1
  <2> QED BY <2>2, <2>3, <2>4, <2>5, <2>6, <2>7
<1>6. /\ linkJobs'.ran \in [1 .. Jobs -> {0, 1}]
      /\ did => linkJobs'.ran = [l.ran EXCEPT ![l.job] = 1]
      /\ ~did => linkJobs'.ran = l.ran
  <2>1. did => l.ran[l.job] = 0 /\ l.ran[l.job] + 1 = 1
    BY <1>3
  <2>2. CASE did
    BY <1>3, <1>4, <1>5, <2>1, <2>2
  <2>3. CASE ~did
    <3>1. [l.ran EXCEPT ![l.job] = l.ran[l.job]] = l.ran
      BY <1>3, <1>4
    <3> QED BY <1>3, <1>5, <2>3, <3>1
  <2> QED BY <2>2, <2>3
<1>7. \A j \in 1 .. Jobs : (j > l.job => linkJobs'.ran[j] = 0)
                           /\ (j \in linkJobs'.receipt => linkJobs'.ran[j] = 1)
  <2> TAKE j \in 1 .. Jobs
  <2>1. CASE j = l.job
    <3>1. ~(l.job > l.job)
      BY <1>4
    <3>2. did => linkJobs'.ran[l.job] = 1
      BY <1>3, <1>4, <1>6
    <3>3. ~did => ~receipt
      BY <1>1
    <3> HIDE DEF did
    <3> QED BY <1>3, <1>5, <1>6, <2>1, <3>1, <3>2, <3>3
  <2>2. CASE j # l.job
    <3>1. linkJobs'.ran[j] = l.ran[j] /\ (j \in linkJobs'.receipt => j \in l.receipt)
      <4> HIDE DEF did
      <4> QED BY <1>3, <1>4, <1>5, <1>6, <2>2
    <3> QED BY <1>3, <3>1
  <2> QED BY <2>1, <2>2
<1>8. CASE ends
  <2>1. /\ linkJobs'.seq = l.job /\ linkJobs'.expected \in Nat \ {0}
        /\ linkJobs'.expected <= linkJobs'.seq + 1
    BY <1>3, <1>5, <1>8
  <2>2. linkJobs'.at = "ready"
    BY <1>5, <1>8
  <2> QED BY <1>3, <1>5, <1>6, <1>7, <2>1, <2>2 DEF JobInv
<1>9. CASE ~ends
  <2>1. /\ linkJobs'.seq = l.seq /\ linkJobs'.expected \in Nat \ {0}
        /\ linkJobs'.expected <= l.seq + 2
        /\ linkJobs'.expected = l.seq + 1 => ~did /\ l.expected = l.seq + 1
    BY <1>3, <1>5, <1>9
  <2>2. linkJobs'.at = "trying"
    BY <1>5, <1>9
  <2>3. linkJobs'.expected = l.seq + 1 => linkJobs'.ran[l.job] = 0
    BY <1>3, <1>6, <2>1
  <2> QED BY <1>3, <1>5, <1>6, <1>7, <2>1, <2>2, <2>3 DEF JobInv
<1> QED BY <1>8, <1>9

-----------------------------------------------------------------------------
(* Who a session is with. *)

LEMMA WholeAddress ==
  ASSUME NEW r \in Robots, ~Half(r)
  PROVE  radio_address(r) = AddressOf[r]
BY FleetAssumption DEF Half, radio_address

LEMMA LeaseHolder ==
  ASSUME Leased, NEW r \in OnWifi
  PROVE  /\ Holder(addressOfName.lease[r]) = {r}
         /\ \A a : Holder(a) \subseteq Robots
BY LinkConstants DEF Leased, Holder

LEMMA OpenRadioStep ==
  ASSUME WhoInv, OpenRadio
  PROVE  WhoInv'
<1>1. PICK r \in Robots :
        hostLink' = IF Half(r) THEN [hostLink EXCEPT !.at = "refused"]
                    ELSE [hostLink EXCEPT !.at = "probing", !.robot = r, !.carrier = "radio"]
  BY DEF OpenRadio
<1>2. hostLink.at = "closed" /\ UNCHANGED <<relayBoard, addressOfName>>
  BY DEF OpenRadio
<1>3. /\ hostLink'.with = hostLink.with /\ hostLink'.tries = hostLink.tries
      /\ hostLink' = [at |-> hostLink'.at, robot |-> hostLink'.robot, carrier |-> hostLink'.carrier,
                      with |-> hostLink'.with, tries |-> hostLink'.tries, todo |-> hostLink'.todo]
      /\ \/ hostLink'.at = "refused"
         \/ hostLink'.at = "probing" /\ ~Half(r) /\ hostLink'.robot = r /\ hostLink'.carrier = "radio"
  BY <1>1 DEF WhoInv, LinkShape
<1>4. LinkShape' /\ Leased'
  BY <1>2, <1>3 DEF WhoInv, LinkShape, Leased, LinkStates
<1>5. Opening'
  BY <1>3 DEF Opening, Half
<1>6. SessionIsItsRobots'
  BY <1>3 DEF SessionIsItsRobots, InSession
<1> QED BY <1>4, <1>5, <1>6 DEF WhoInv

LEMMA ProbeStep ==
  ASSUME WhoInv, Probe
  PROVE  WhoInv'
<1> DEFINE r == hostLink.robot
<1>1. hostLink.at = "probing" /\ UNCHANGED <<relayBoard, addressOfName>>
  BY DEF Probe
<1>2. r \in Robots /\ ~Half(r) /\ hostLink.carrier = "radio" /\ hostLink.tries \in 0 .. ProbeTries
      /\ hostLink.tries < ProbeTries
  BY <1>1 DEF WhoInv, Opening, LinkShape
<1>3. Leased'
  BY <1>1 DEF WhoInv, Leased
<1>4. CASE hostLink' = [hostLink EXCEPT !.at = "tuning", !.todo = relay_setup_lines(radio_address(r))]
  <2>1. relay_setup_lines(radio_address(r)) = <<Echo, Mode, Tune(r), Power>>
    BY <1>2, WholeAddress, Zenon DEF relay_setup_lines, Echo, Mode, Tune, Power
  <2>2. /\ hostLink'.at = "tuning" /\ hostLink'.robot = r /\ hostLink'.carrier = "radio"
        /\ hostLink'.with = hostLink.with /\ hostLink'.tries = hostLink.tries
        /\ hostLink'.todo = <<Echo, Mode, Tune(r), Power>>
        /\ hostLink' = [at |-> hostLink'.at, robot |-> hostLink'.robot, carrier |-> hostLink'.carrier,
                      with |-> hostLink'.with, tries |-> hostLink'.tries, todo |-> hostLink'.todo]
    BY <1>2, <1>4, <2>1 DEF WhoInv, LinkShape
  <2>3. LinkShape'
    BY <1>1, <1>2, <2>2 DEF WhoInv, LinkShape, LinkStates
  <2>4. Opening'
    <3>1. Tuned(r)'
      BY <2>2 DEF Tuned, Echo, Mode, Tune, Power
    <3> QED BY <1>2, <2>2, <3>1 DEF Opening, Half
  <2>5. SessionIsItsRobots'
    BY <2>2 DEF SessionIsItsRobots, InSession
  <2> QED BY <1>3, <2>3, <2>4, <2>5 DEF WhoInv
<1>5. CASE hostLink' = [hostLink EXCEPT !.tries = @ + 1,
                          !.at = IF hostLink.tries + 1 = ProbeTries THEN "refused" ELSE @]
  <2>1. /\ hostLink'.at = (IF hostLink.tries + 1 = ProbeTries THEN "refused" ELSE "probing")
        /\ hostLink'.robot = r /\ hostLink'.carrier = "radio"
        /\ hostLink'.with = hostLink.with /\ hostLink'.tries = hostLink.tries + 1
        /\ hostLink' = [at |-> hostLink'.at, robot |-> hostLink'.robot, carrier |-> hostLink'.carrier,
                      with |-> hostLink'.with, tries |-> hostLink'.tries, todo |-> hostLink'.todo]
    BY <1>1, <1>2, <1>5 DEF WhoInv, LinkShape
  <2>2. hostLink'.tries \in 0 .. ProbeTries /\ (hostLink'.at = "probing" => hostLink'.tries < ProbeTries)
    <3>1. \A t \in 0 .. ProbeTries : t < ProbeTries => t + 1 \in 0 .. ProbeTries
                                     /\ (t + 1 # ProbeTries => t + 1 < ProbeTries)
      BY LinkConstants
    <3> QED BY <1>2, <2>1, <3>1
  <2>3. LinkShape'
    BY <1>1, <2>1, <2>2 DEF WhoInv, LinkShape, LinkStates
  <2>4. Opening' /\ SessionIsItsRobots'
    BY <1>2, <2>1 DEF Opening, Half, SessionIsItsRobots, InSession
  <2> QED BY <1>3, <2>3, <2>4 DEF WhoInv
<1> QED BY <1>1, <1>4, <1>5 DEF Probe

LEMMA SetupStep ==
  ASSUME WhoInv, SetupLine
  PROVE  WhoInv'
<1> DEFINE r == hostLink.robot
<1>1. /\ hostLink.at = "tuning" /\ hostLink.todo # <<>>
      /\ relayBoard' = [relayBoard EXCEPT ![Head(hostLink.todo)[1]] = Head(hostLink.todo)[2]]
      /\ hostLink' = [hostLink EXCEPT !.todo = Tail(@)] /\ UNCHANGED addressOfName
  BY DEF SetupLine, Obeys
<1>2. r \in Robots /\ ~Half(r) /\ hostLink.carrier = "radio" /\ Tuned(r)
  BY <1>1 DEF WhoInv, Opening
<1>3. /\ hostLink'.at = "tuning" /\ hostLink'.robot = r /\ hostLink'.carrier = "radio"
      /\ hostLink'.with = hostLink.with /\ hostLink'.tries = hostLink.tries
      /\ hostLink'.todo = Tail(hostLink.todo)
      /\ hostLink' = [at |-> hostLink'.at, robot |-> hostLink'.robot, carrier |-> hostLink'.carrier,
                      with |-> hostLink'.with, tries |-> hostLink'.tries, todo |-> hostLink'.todo]
  BY <1>1, <1>2 DEF WhoInv, LinkShape
<1>4. relayBoard \in RelaySettings /\ AddressOf[r] \in Addresses
  BY <1>2 DEF WhoInv, LinkShape, Addresses
<1>5. Tuned(r)' /\ relayBoard' \in RelaySettings
  <2>1. CASE hostLink.todo = <<Echo, Mode, Tune(r), Power>>
    <3>1. Head(hostLink.todo) = Echo /\ Tail(hostLink.todo) = <<Mode, Tune(r), Power>>
      BY <2>1
    <3>2. relayBoard' = [relayBoard EXCEPT !.ECHO = FALSE]
      <4>1. Head(hostLink.todo)[1] = "ECHO" /\ Head(hostLink.todo)[2] = FALSE
        <5>1. Echo[1] = "ECHO"
          BY DEF Echo
        <5>2. Echo[2] = FALSE
          BY Zenon DEF Echo
        <5> QED BY <3>1, <5>1, <5>2, Zenon
      <4> QED BY <1>1, <1>4, <4>1 DEF RelaySettings
    <3>3. relayBoard'.ECHO = FALSE /\ relayBoard' \in RelaySettings
      BY <1>4, <3>2 DEF RelaySettings
    <3> QED BY <1>3, <3>1, <3>3 DEF Tuned, Mode, Tune, Power
  <2>2. CASE hostLink.todo = <<Mode, Tune(r), Power>> /\ relayBoard.ECHO = FALSE
    <3>1. Head(hostLink.todo) = Mode /\ Tail(hostLink.todo) = <<Tune(r), Power>>
      BY <2>2
    <3>2. relayBoard' = [relayBoard EXCEPT !.MODE = "RAW250"]
      <4>1. Head(hostLink.todo)[1] = "MODE" /\ Head(hostLink.todo)[2] = "RAW250"
        BY <3>1 DEF Mode
      <4> QED BY <1>1, <1>4, <4>1 DEF RelaySettings
    <3>3. relayBoard'.ECHO = FALSE /\ relayBoard'.MODE = "RAW250" /\ relayBoard' \in RelaySettings
      BY <1>4, <2>2, <3>2 DEF RelaySettings
    <3> QED BY <1>3, <3>1, <3>3 DEF Tuned, Tune, Power
  <2>3. CASE hostLink.todo = <<Tune(r), Power>> /\ relayBoard.ECHO = FALSE /\ relayBoard.MODE = "RAW250"
    <3>1. Head(hostLink.todo) = Tune(r) /\ Tail(hostLink.todo) = <<Power>>
      BY <2>3
    <3>2. relayBoard' = [relayBoard EXCEPT !.CG = AddressOf[r]]
      <4>1. Head(hostLink.todo)[1] = "CG" /\ Head(hostLink.todo)[2] = AddressOf[r]
        BY <3>1 DEF Tune
      <4> QED BY <1>1, <1>4, <4>1 DEF RelaySettings
    <3>3. relayBoard'.ECHO = FALSE /\ relayBoard'.MODE = "RAW250" /\ relayBoard'.CG = AddressOf[r]
          /\ relayBoard' \in RelaySettings
      BY <1>4, <2>3, <3>2 DEF RelaySettings
    <3> QED BY <1>3, <3>1, <3>3 DEF Tuned, Power
  <2>4. CASE /\ hostLink.todo = <<Power>>
             /\ relayBoard.ECHO = FALSE /\ relayBoard.MODE = "RAW250" /\ relayBoard.CG = AddressOf[r]
    <3>1. Head(hostLink.todo) = Power /\ Tail(hostLink.todo) = <<>>
      BY <2>4
    <3>2. relayBoard' = [relayBoard EXCEPT !.P = 7]
      <4>1. Head(hostLink.todo)[1] = "P" /\ Head(hostLink.todo)[2] = 7
        BY <3>1 DEF Power
      <4> QED BY <1>1, <1>4, <4>1 DEF RelaySettings
    <3>3. relayBoard'.ECHO = FALSE /\ relayBoard'.MODE = "RAW250" /\ relayBoard'.CG = AddressOf[r]
          /\ relayBoard' \in RelaySettings
      BY <1>4, <2>4, <3>2 DEF RelaySettings
    <3> QED BY <1>3, <3>1, <3>3 DEF Tuned
  <2> QED BY <1>1, <1>2, <2>1, <2>2, <2>3, <2>4 DEF Tuned
<1>6. LinkShape' /\ Leased'
  BY <1>1, <1>3, <1>5 DEF WhoInv, LinkShape, Leased, LinkStates
<1>7. Opening' /\ SessionIsItsRobots'
  BY <1>2, <1>3, <1>5 DEF Opening, Half, SessionIsItsRobots, InSession
<1> QED BY <1>6, <1>7 DEF WhoInv

\* Every session that is opened goes through here.
LEMMA OpenedStep ==
  ASSUME WhoInv, hostLink.at \in {"tuning", "resolving"}, NEW with \in SUBSET Robots, Opened(with),
         \/ with = {hostLink.robot}
         \/ /\ hostLink.carrier # "radio"
            /\ addressOfName.cache[hostLink.robot] \notin {NoEntry, addressOfName.lease[hostLink.robot]}
  PROVE  WhoInv'
<1>1. PICK use \in {"read", "jobs", "idle"} : hostLink' = [hostLink EXCEPT !.at = use, !.with = with]
  BY DEF Opened
<1>2. UNCHANGED <<relayBoard, addressOfName>>
  BY DEF Opened
<1>3. /\ hostLink'.at = use /\ hostLink'.with = with /\ hostLink'.robot = hostLink.robot
      /\ hostLink'.carrier = hostLink.carrier /\ hostLink'.tries = hostLink.tries
      /\ hostLink' = [at |-> hostLink'.at, robot |-> hostLink'.robot, carrier |-> hostLink'.carrier,
                      with |-> hostLink'.with, tries |-> hostLink'.tries, todo |-> hostLink'.todo]
  BY <1>1 DEF WhoInv, LinkShape
<1>4. LinkShape' /\ Leased'
  BY <1>2, <1>3 DEF WhoInv, LinkShape, Leased, LinkStates, Sessions
<1>5. Opening' /\ SessionIsItsRobots'
  BY <1>2, <1>3 DEF Opening, SessionIsItsRobots, InSession
<1> QED BY <1>4, <1>5 DEF WhoInv

LEMMA GoRadioStep ==
  ASSUME WhoInv, GoRadio
  PROVE  WhoInv'
<1> DEFINE r == hostLink.robot
           hears == {q \in Robots : AddressOf[q] = relayBoard.CG}
<1>1. hostLink.at = "tuning" /\ hostLink.todo = <<>>
  BY DEF GoRadio
<1>2. r \in Robots /\ relayBoard.ECHO = FALSE /\ relayBoard.MODE = "RAW250" /\ relayBoard.CG = AddressOf[r]
  <2>1. Tuned(r) /\ r \in Robots
    BY <1>1 DEF WhoInv, Opening
  <2>2. <<Echo, Mode, Tune(r), Power>> # <<>> /\ <<Mode, Tune(r), Power>> # <<>> /\ <<Tune(r), Power>> # <<>>
    OBVIOUS
  <2> QED BY <1>1, <2>1, <2>2 DEF Tuned
<1>3. hears = {r}
  BY <1>2, LinkConstants
<1>4. Opened(hears)
  BY <1>2 DEF GoRadio
<1> HIDE DEF hears
<1> QED BY <1>1, <1>2, <1>3, <1>4, OpenedStep

LEMMA DiscoverStep ==
  ASSUME WhoInv, discover
  PROVE  WhoInv'
<1> DEFINE r == hostLink.robot
<1>1. hostLink.at = "resolving" /\ r \in OnWifi /\ hostLink.carrier # "radio" /\ Leased
  BY DEF discover, WhoInv, Opening
<1>2. Holder(addressOfName.lease[r]) = {r} /\ \A a : Holder(a) \in SUBSET Robots
  BY <1>1, LeaseHolder
<1>3. CASE addressOfName.cache[r] # NoEntry
  <2> DEFINE with == Holder(addressOfName.cache[r])
  <2>1. Opened(with) /\ with \in SUBSET Robots
    BY <1>2, <1>3 DEF discover
  <2>2. addressOfName.cache[r] = addressOfName.lease[r] => with = {r}
    BY <1>2
  <2> HIDE DEF with
  <2> QED BY <1>1, <1>3, <2>1, <2>2, OpenedStep
<1>4. CASE addressOfName.cache[r] = NoEntry /\ \E q \in Answers(r) : Opened(Holder(addressOfName.lease[q]))
  <2> DEFINE with == Holder(addressOfName.lease[r])
  <2>1. Opened(with) /\ with \in SUBSET Robots /\ with = {r}
    BY <1>2, <1>4 DEF Answers
  <2> HIDE DEF with
  <2> QED BY <1>1, <2>1, OpenedStep
<1>5. CASE hostLink' = [hostLink EXCEPT !.at = "refused"] /\ UNCHANGED <<relayBoard, addressOfName>>
  <2>1. /\ hostLink'.at = "refused" /\ hostLink'.with = hostLink.with /\ hostLink'.tries = hostLink.tries
        /\ hostLink' = [at |-> hostLink'.at, robot |-> hostLink'.robot, carrier |-> hostLink'.carrier,
                        with |-> hostLink'.with, tries |-> hostLink'.tries, todo |-> hostLink'.todo]
    BY <1>5 DEF WhoInv, LinkShape
  <2>2. LinkShape' /\ Leased'
    BY <1>5, <2>1 DEF WhoInv, LinkShape, Leased, LinkStates
  <2>3. Opening' /\ SessionIsItsRobots'
    BY <2>1 DEF Opening, SessionIsItsRobots, InSession
  <2> QED BY <2>2, <2>3 DEF WhoInv
<1> QED BY <1>3, <1>4, <1>5 DEF discover

LEMMA OpenWifiStep ==
  ASSUME WhoInv, OpenWifi \/ rogo_target
  PROVE  WhoInv'
<1>1. UNCHANGED <<relayBoard, addressOfName>> /\ Leased /\ Leased'
  BY DEF OpenWifi, rogo_target, WhoInv, Leased
<1>2. CASE OpenWifi
  <2>1. PICK r \in OnWifi, carrier \in {"tcp", "udp"} :
          hostLink' = [hostLink EXCEPT !.at = "resolving", !.robot = r, !.carrier = carrier]
    BY <1>2 DEF OpenWifi
  <2>2. /\ hostLink'.at = "resolving" /\ hostLink'.robot = r /\ hostLink'.carrier = carrier
        /\ hostLink'.with = hostLink.with /\ hostLink'.tries = hostLink.tries
        /\ hostLink' = [at |-> hostLink'.at, robot |-> hostLink'.robot, carrier |-> hostLink'.carrier,
                        with |-> hostLink'.with, tries |-> hostLink'.tries, todo |-> hostLink'.todo]
    BY <2>1 DEF WhoInv, LinkShape
  <2>3. LinkShape'
    BY <1>1, <2>2 DEF WhoInv, LinkShape, LinkStates
  <2>4. Opening' /\ SessionIsItsRobots'
    BY <2>2 DEF Opening, SessionIsItsRobots, InSession
  <2> QED BY <1>1, <2>3, <2>4 DEF WhoInv
<1>3. CASE rogo_target
  <2>1. PICK r \in OnWifi :
          LET address == addressOfName.cache[r] IN
          hostLink' = [hostLink EXCEPT !.robot = r, !.carrier = "tcp",
                         !.at = IF address = NoEntry THEN "refused" ELSE "piped",
                         !.with = IF address = NoEntry THEN {} ELSE Holder(address)]
    BY <1>3 DEF rogo_target
  <2> DEFINE at == IF addressOfName.cache[r] = NoEntry THEN "refused" ELSE "piped"
             with == IF addressOfName.cache[r] = NoEntry THEN {} ELSE Holder(addressOfName.cache[r])
  <2>2. hostLink' = [hostLink EXCEPT !.robot = r, !.carrier = "tcp", !.at = at, !.with = with]
    BY <2>1
  <2>3. /\ at \in {"refused", "piped"} /\ with \in SUBSET Robots
        /\ at = "piped" => \/ with = {r}
                           \/ addressOfName.cache[r] \notin {NoEntry, addressOfName.lease[r]}
    BY <1>1, LeaseHolder
  <2> HIDE DEF at, with
  <2>4. /\ hostLink'.at = at /\ hostLink'.robot = r /\ hostLink'.carrier = "tcp"
        /\ hostLink'.with = with /\ hostLink'.tries = hostLink.tries
        /\ hostLink' = [at |-> hostLink'.at, robot |-> hostLink'.robot, carrier |-> hostLink'.carrier,
                        with |-> hostLink'.with, tries |-> hostLink'.tries, todo |-> hostLink'.todo]
    BY <2>2 DEF WhoInv, LinkShape
  <2>5. LinkShape'
    BY <1>1, <2>3, <2>4 DEF WhoInv, LinkShape, LinkStates, Sessions
  <2>6. Opening' /\ SessionIsItsRobots'
    BY <1>1, <2>3, <2>4 DEF Opening, SessionIsItsRobots, InSession
  <2> QED BY <1>1, <2>5, <2>6 DEF WhoInv
<1> QED BY <1>2, <1>3

\* The network's steps, between sessions.
LEMMA NameSteps ==
  ASSUME WhoInv, LeaseMoves \/ Announce
  PROVE  WhoInv'
<1>1. hostLink.at = "closed" /\ UNCHANGED <<relayBoard, hostLink>>
  BY DEF LeaseMoves, Announce
<1>2. LinkShape'
  BY <1>1 DEF WhoInv, LinkShape
<1>3. Opening' /\ SessionIsItsRobots'
  BY <1>1 DEF Opening, SessionIsItsRobots, InSession
<1>4. CASE Announce
  <2>1. PICK r \in OnWifi : addressOfName' = [addressOfName EXCEPT !.cache[r] = addressOfName.lease[r]]
    BY <1>4 DEF Announce
  <2>2. /\ addressOfName'.lease = addressOfName.lease
        /\ addressOfName'.cache = [addressOfName.cache EXCEPT ![r] = addressOfName.lease[r]]
        /\ addressOfName' = [lease |-> addressOfName'.lease, cache |-> addressOfName'.cache]
    BY <2>1 DEF WhoInv, Leased
  <2>3. Leased'
    BY <2>2 DEF WhoInv, Leased
  <2> QED BY <1>2, <1>3, <2>3 DEF WhoInv
<1>5. CASE LeaseMoves
  <2>1. PICK r \in OnWifi, s \in OnWifi :
          addressOfName' = [addressOfName EXCEPT !.lease[r] = addressOfName.lease[s],
                                                 !.lease[s] = addressOfName.lease[r]]
    BY <1>5 DEF LeaseMoves
  <2> DEFINE old == addressOfName.lease
             new == [[old EXCEPT ![r] = old[s]] EXCEPT ![s] = old[r]]
  <2>2. /\ addressOfName'.lease = new /\ addressOfName'.cache = addressOfName.cache
        /\ addressOfName' = [lease |-> addressOfName'.lease, cache |-> addressOfName'.cache]
    BY <2>1 DEF WhoInv, Leased
  <2>3. old \in [OnWifi -> OnWifi] /\ \A p, q \in OnWifi : old[p] = old[q] => p = q
    BY DEF WhoInv, Leased
  <2>4. /\ new \in [OnWifi -> OnWifi]
        /\ \A q \in OnWifi : new[q] = IF q = s THEN old[r] ELSE IF q = r THEN old[s] ELSE old[q]
    BY <2>3
  <2> HIDE DEF new
  <2>5. \A p, q \in OnWifi : new[p] = new[q] => p = q
    BY <2>3, <2>4
  <2>6. Leased'
    BY <2>2, <2>4, <2>5 DEF WhoInv, Leased
  <2> QED BY <1>2, <1>3, <2>6 DEF WhoInv
<1> QED BY <1>4, <1>5

-----------------------------------------------------------------------------
(* The stream of bytes is three to a line: two pieces and the newline.      *)
Chars == Nat \X Nat
ByteAt(n) == IF n % 3 = 0 THEN Newline ELSE Piece((n + 2) \div 3, n % 3)
\* s is what the stream has from its byte b + 1 to its byte e.
Spells(s, b, e) ==
    /\ s \in Seq(Chars) /\ Len(s) = e - b
    /\ \A k \in 1 .. e - b : s[k] = ByteAt(b + k)
\* The byte before line g + 1, and what is given out as line i.
LineStart(torn, g) == IF torn /\ g = 0 THEN 1 ELSE 3 * g
LineAt(torn, i) == IF torn /\ i = 1 THEN <<Piece(1, 2)>> ELSE <<Piece(i, 1), Piece(i, 2)>>

LEMMA ByThree ==
  ASSUME NEW n \in Nat
  PROVE  n = 3 * (n \div 3) + (n % 3)
OBVIOUS

LEMMA ThreeToALine ==
  /\ \A n \in Nat : n % 3 \in 0 .. 2 /\ (n + 2) \div 3 \in Nat
  /\ \A n \in Nat : n % 3 = 0 <=> \E i \in Nat : n = 3 * i
  /\ \A i \in Nat : (3 * i) % 3 = 0 /\ (3 * i + 1) % 3 = 1 /\ (3 * i + 2) % 3 = 2
  /\ \A i \in Nat : (3 * i + 1 + 2) \div 3 = i + 1 /\ (3 * i + 2 + 2) \div 3 = i + 1
  /\ \A n \in Nat : \E i \in Nat : 3 * i <= n /\ n < 3 * i + 3
<1>1. \A n \in Nat : n % 3 \in 0 .. 2 /\ (n + 2) \div 3 \in Nat
  OBVIOUS
<1>2. \A n \in Nat : n = 3 * (n \div 3) + (n % 3) /\ n \div 3 \in Nat
  <2> TAKE n \in Nat
  <2>1. n = 3 * (n \div 3) + (n % 3)
    BY ByThree
  <2>2. n \div 3 \in Nat
    OBVIOUS
  <2> QED BY <2>1, <2>2
<1>3. \A i \in Nat : (3 * i) % 3 = 0 /\ (3 * i + 1) % 3 = 1 /\ (3 * i + 2) % 3 = 2
  OBVIOUS
<1>4. \A i \in Nat : (3 * i + 1 + 2) \div 3 = i + 1 /\ (3 * i + 2 + 2) \div 3 = i + 1
  OBVIOUS
<1>5. \A n \in Nat : n % 3 = 0 <=> \E i \in Nat : n = 3 * i
  <2> TAKE n \in Nat
  <2>1. n % 3 = 0 => n = 3 * (n \div 3) /\ n \div 3 \in Nat
    BY <1>2
  <2> QED BY <1>3, <2>1
<1>6. \A n \in Nat : \E i \in Nat : 3 * i <= n /\ n < 3 * i + 3
  <2> TAKE n \in Nat
  <2>1. n \div 3 \in Nat /\ 3 * (n \div 3) <= n /\ n < 3 * (n \div 3) + 3
    BY <1>1, <1>2
  <2> QED BY <2>1
<1> QED BY <1>1, <1>3, <1>4, <1>5, <1>6

LEMMA Bytes ==
  /\ \A n \in Nat : ByteAt(n) \in Chars
  /\ \A n \in Nat : ByteAt(n) = Newline <=> \E i \in Nat : n = 3 * i
  /\ \A i \in Nat : ByteAt(3 * i + 1) = Piece(i + 1, 1) /\ ByteAt(3 * i + 2) = Piece(i + 1, 2)
<1>1. \A n \in Nat : ByteAt(n) \in Chars
  BY ThreeToALine DEF ByteAt, Chars, Newline, Piece
<1>2. \A n \in Nat : ByteAt(n) = Newline <=> n % 3 = 0
  BY ThreeToALine DEF ByteAt, Newline, Piece
<1>3. \A i \in Nat : ByteAt(3 * i + 1) = Piece(i + 1, 1) /\ ByteAt(3 * i + 2) = Piece(i + 1, 2)
  <2> TAKE i \in Nat
  <2>1. /\ (3 * i + 1) % 3 = 1 /\ (3 * i + 2) % 3 = 2
        /\ (3 * i + 1 + 2) \div 3 = i + 1 /\ (3 * i + 2 + 2) \div 3 = i + 1
    BY ThreeToALine
  <2> QED BY <2>1 DEF ByteAt
<1> QED BY <1>1, <1>2, <1>3, ThreeToALine

\* Evenly spaced numbers are counted by their places.
LEMMA Spaced ==
  ASSUME NEW a \in Int, NEW k \in Nat
  PROVE  Cardinality({3 * q + a : q \in 1 .. k}) = k
<1> DEFINE T == {3 * q + a : q \in 1 .. k}
           f == [q \in 1 .. k |-> 3 * q + a]
<1>1. f \in [1 .. k -> T]
  OBVIOUS
<1>2. \A p, q \in 1 .. k : f[p] = f[q] => p = q
  OBVIOUS
<1>3. \A t \in T : \E q \in 1 .. k : f[q] = t
  OBVIOUS
<1>4. ExistsBijection(1 .. k, T)
  BY <1>1, <1>2, <1>3 DEF ExistsBijection, Bijection, Injection, Surjection, IsInjective
<1> QED BY <1>4, FS_CountingElements

\* A sequence is its elements.
LEMMA OneOrTwo ==
  ASSUME NEW S, NEW l \in Seq(S)
  PROVE  /\ Len(l) = 1 => l = <<l[1]>>
         /\ Len(l) = 2 => l = <<l[1], l[2]>>
<1>1. ASSUME Len(l) = 1 PROVE l = <<l[1]>>
  <2>1. l[1] \in S
    BY <1>1, ElementOfSeq
  <2>2. <<l[1]>> \in Seq(S) /\ Len(<<l[1]>>) = 1
    BY <2>1
  <2> QED BY <1>1, <2>2, SeqEqual
<1>2. ASSUME Len(l) = 2 PROVE l = <<l[1], l[2]>>
  <2>1. l[1] \in S /\ l[2] \in S
    BY <1>2, ElementOfSeq
  <2>2. <<l[1], l[2]>> \in Seq(S) /\ Len(<<l[1], l[2]>>) = 2
    BY <2>1
  <2> QED BY <1>2, <2>2, SeqEqual
<1> QED BY <1>1, <1>2

\* Where lines begin in a piece of the stream.
LEMMA BeginsAfter ==
  ASSUME NEW g \in Nat, NEW torn \in BOOLEAN, NEW b \in Nat, b = LineStart(torn, g),
         NEW e \in Nat, b <= e, NEW text, Spells(text, b, e),
         NEW n \in 1 .. e - b + 1, NEW i \in Nat, 3 * i < b + n, b + n <= 3 * i + 3
  PROVE  Begin(text, n) = 1 + (IF i > g THEN 3 * i - b ELSE 0)
<1> DEFINE before == {0} \cup {m \in 1 .. n - 1 : text[m] = Newline}
           top == IF i > g THEN 3 * i - b ELSE 0
<1>1. n \in Nat /\ n >= 1 /\ b + n <= e + 1
  OBVIOUS
<1>2. \A m \in 1 .. n - 1 : text[m] = Newline <=> \E j \in Nat : b + m = 3 * j
  <2> TAKE m \in 1 .. n - 1
  <2>1. m \in 1 .. e - b /\ b + m \in Nat
    BY <1>1
  <2>2. text[m] = ByteAt(b + m)
    BY <2>1 DEF Spells
  <2> QED BY <2>1, <2>2, Bytes
<1>3. b = IF torn /\ g = 0 THEN 1 ELSE 3 * g
  BY DEF LineStart
<1>4. top \in before
  <2>1. CASE i > g
    <3>1. 3 * i - b \in 1 .. n - 1 /\ b + (3 * i - b) = 3 * i
      BY <1>1, <1>3, <2>1
    <3> QED BY <1>2, <2>1, <3>1
  <2> QED BY <2>1
<1>5. \A m \in before : m <= top /\ m \in Nat
  <2> TAKE m \in before
  <2>1. CASE m = 0
    BY <1>1, <1>3, <2>1
  <2>2. CASE m \in 1 .. n - 1 /\ text[m] = Newline
    <3>1. PICK j \in Nat : b + m = 3 * j
      BY <1>2, <2>2
    <3>2. j <= i
      BY <1>1, <2>2, <3>1
    <3>3. j > g
      BY <1>1, <1>3, <2>2, <3>1
    <3> QED BY <1>1, <2>2, <3>1, <3>2, <3>3
  <2> QED BY <2>1, <2>2
<1>6. (CHOOSE m \in before : \A k \in before : k <= m) = top
  <2> HIDE DEF before, top
  <2>1. \A m \in before : (\A k \in before : k <= m) => m = top
    BY <1>4, <1>5
  <2> QED BY <1>4, <1>5, <2>1
<1> QED BY <1>6 DEF Begin

\* The positions complete lines end at, and the k-th of them: what feed()'s
\* lines are made of.
Ends(text) == {n \in 1 .. Len(text) : text[n] = Newline /\ Begin(text, n) < n}
End(text, k) == CHOOSE n \in Ends(text) : Cardinality({m \in Ends(text) : m <= n}) = k

LEMMA CompleteLines ==
  ASSUME NEW text
  PROVE  Complete(text) = [k \in 1 .. Cardinality(Ends(text)) |->
                             SubSeq(text, Begin(text, End(text, k)), End(text, k) - 1)]
BY DEF Complete, Ends, End

\* Where the lines of such a piece end, and how they are counted.
LEMMA EndsOf ==
  ASSUME NEW g \in Nat, NEW torn \in BOOLEAN, NEW b \in Nat, b = LineStart(torn, g),
         NEW e \in Nat, b <= e, NEW text, Spells(text, b, e),
         NEW h \in Nat, 3 * h <= e, e < 3 * h + 3, g <= h
  PROVE  /\ Ends(text) = {3 * q + (3 * g - b) : q \in 1 .. h - g}
         /\ Cardinality(Ends(text)) = h - g
         /\ \A k \in 1 .. h - g : End(text, k) = 3 * k + (3 * g - b)
<1> DEFINE ends == {n \in 1 .. Len(text) : text[n] = Newline /\ Begin(text, n) < n}
           a == 3 * g - b
           spaced(k) == {3 * q + a : q \in 1 .. k}
<1>1. b = IF torn /\ g = 0 THEN 1 ELSE 3 * g
  BY DEF LineStart
<1>2. a \in Int /\ a \in {0, -1} /\ h - g \in Nat /\ Len(text) = e - b
  BY <1>1 DEF Spells
<1>3. ends \subseteq spaced(h - g)
  <2> SUFFICES ASSUME NEW n \in ends PROVE n \in spaced(h - g)
    OBVIOUS
  <2>1. n \in 1 .. e - b /\ text[n] = Newline /\ b + n \in Nat
    BY <1>2
  <2>2. ByteAt(b + n) = Newline
    BY <2>1 DEF Spells
  <2>3. PICK j \in Nat : b + n = 3 * j
    BY <2>1, <2>2, Bytes
  <2>4. j - g \in 1 .. h - g /\ n = 3 * (j - g) + a
    <3> HIDE DEF ends
    <3> QED BY <1>1, <2>1, <2>3
  <2> QED BY <2>4
<1>4. spaced(h - g) \subseteq ends
  <2> SUFFICES ASSUME NEW q \in 1 .. h - g PROVE 3 * q + a \in ends
    OBVIOUS
  <2> DEFINE n == 3 * q + a
             i == g + q - 1
  <2>1. n \in 1 .. e - b /\ b + n \in Nat /\ b + n = 3 * (g + q) /\ g + q \in Nat /\ i \in Nat
        /\ 3 * i < b + n /\ b + n <= 3 * i + 3 /\ n \in 1 .. e - b + 1
    BY <1>1, <1>2
  <2>2. text[n] = Newline
    <3>1. ByteAt(b + n) = Newline
      BY <2>1, Bytes
    <3> QED BY <2>1, <3>1 DEF Spells
  <2>3. Begin(text, n) = 1 + (IF i > g THEN 3 * i - b ELSE 0)
    <3> HIDE DEF n, i
    <3> QED BY <2>1, BeginsAfter
  <2>4. 1 + (IF i > g THEN 3 * i - b ELSE 0) < n
    BY <1>1, <1>2
  <2> HIDE DEF n, i
  <2>5. n \in ends
    BY <1>2, <2>1, <2>2, <2>3, <2>4
  <2> QED BY <2>5 DEF n
<1>5. ends = spaced(h - g)
  BY <1>3, <1>4
<1>6. Cardinality(ends) = h - g
  BY <1>2, <1>5, Spaced
<1>7. \A k \in 1 .. h - g : {m \in ends : m <= 3 * k + a} = spaced(k)
  <2> HIDE DEF ends
  <2> TAKE k \in 1 .. h - g
  <2>1. {m \in ends : m <= 3 * k + a} \subseteq spaced(k)
    BY <1>2, <1>5
  <2>2. spaced(k) \subseteq {m \in ends : m <= 3 * k + a}
    BY <1>2, <1>5
  <2> QED BY <2>1, <2>2
<1>8. \A k \in 1 .. h - g : Cardinality({m \in ends : m <= 3 * k + a}) = k
  <2> TAKE k \in 1 .. h - g
  <2>1. k \in Nat /\ a \in Int
    BY <1>2
  <2>2. Cardinality(spaced(k)) = k
    BY <2>1, Spaced
  <2> QED BY <1>7, <2>2
<1> HIDE DEF ends
<1>9. ASSUME NEW k \in 1 .. h - g
      PROVE  (CHOOSE n \in ends : Cardinality({m \in ends : m <= n}) = k) = 3 * k + a
  <2>1. 3 * k + a \in ends /\ Cardinality({m \in ends : m <= 3 * k + a}) = k
    BY <1>5, <1>8
  <2>2. \A n \in ends : Cardinality({m \in ends : m <= n}) = k => n = 3 * k + a
    <3> TAKE n \in ends
    <3>1. PICK q \in 1 .. h - g : n = 3 * q + a
      BY <1>5
    <3>2. Cardinality({m \in ends : m <= n}) = q
      BY <1>8, <3>1
    <3> QED BY <3>1, <3>2
  <2> QED BY <2>1, <2>2
<1>10. Ends(text) = ends
  BY DEF Ends, ends
<1> HIDE DEF spaced
<1>11. \A k \in 1 .. h - g : End(text, k) = 3 * k + a
  BY <1>9, <1>10 DEF End
<1> QED BY <1>5, <1>6, <1>10, <1>11 DEF spaced

\* What is left of a text of e - b bytes from its f-th on.
LEMMA LeftOf ==
  ASSUME NEW e \in Int, NEW b \in Int, NEW f \in Int, NEW s \in Int, b + f = s + 1
  PROVE  /\ e - b - f + 1 = e - s
         /\ f <= e - b + 1 => (IF f <= e - b THEN e - b - f + 1 ELSE 0) = e - s
  OBVIOUS

\* feed() gives out the lines that end in its text and holds the rest back.
LEMMA FeedLines ==
  ASSUME NEW g \in Nat, NEW torn \in BOOLEAN, NEW b \in Nat, b = LineStart(torn, g),
         NEW e \in Nat, b <= e, NEW text, Spells(text, b, e),
         NEW h \in Nat, 3 * h <= e, e < 3 * h + 3, g <= h
  PROVE  /\ Complete(text) \in Seq(Seq(Chars)) /\ Len(Complete(text)) = h - g
         /\ \A k \in 1 .. h - g : Complete(text)[k] = LineAt(torn, g + k)
         /\ Spells(Leftover(text), LineStart(torn, h), e)
<1> DEFINE line(k) == SubSeq(text, Begin(text, End(text, k)), End(text, k) - 1)
           lines == [k \in 1 .. Cardinality(Ends(text)) |-> line(k)]
           a == 3 * g - b
<1>1. b = IF torn /\ g = 0 THEN 1 ELSE 3 * g
  BY DEF LineStart
<1>2. text \in Seq(Chars) /\ Len(text) = e - b /\ e - b \in Nat /\ h - g \in Nat
  BY DEF Spells
<1>3. Cardinality(Ends(text)) = h - g /\ \A k \in 1 .. h - g : End(text, k) = 3 * k + a
  BY EndsOf
<1>4. Complete(text) = lines
  BY CompleteLines, Zenon
<1>5. ASSUME NEW k \in 1 .. h - g
      PROVE  line(k) = LineAt(torn, g + k) /\ line(k) \in Seq(Chars)
  <2> DEFINE n == 3 * k + a
             i == g + k - 1
             from == 1 + (IF i > g THEN 3 * i - b ELSE 0)
  <2>1. n \in 1 .. e - b + 1 /\ b + n = 3 * (g + k) /\ i \in Nat /\ 3 * i < b + n /\ b + n <= 3 * i + 3
        /\ g + k = i + 1 /\ n - 1 <= e - b /\ n \in Int
    BY <1>1, <1>2
  <2>2. Begin(text, n) = from
    <3> HIDE DEF n, i
    <3> QED BY <2>1, BeginsAfter
  <2>3. line(k) = SubSeq(text, from, n - 1)
    BY <1>3, <2>2
  <2>4. /\ torn /\ i = 0 => from = 1 /\ n - 1 = 1 /\ b = 1
        /\ ~(torn /\ i = 0) => from = 3 * i - b + 1 /\ n - 1 = from + 1 /\ b + from = 3 * i + 1
        /\ from \in 1 .. e - b /\ n - 1 \in from .. e - b
    BY <1>1, <2>1
  <2> DEFINE l == SubSeq(text, from, n - 1)
  <2>5. /\ l \in Seq(Chars) /\ Len(l) = n - 1 - from + 1
        /\ \A q \in 1 .. n - 1 - from + 1 : l[q] = text[from + q - 1]
    <3>1. \A q \in from .. n - 1 : text[q] \in Chars
      <4> TAKE q \in from .. n - 1
      <4>1. q \in 1 .. Len(text)
        <5>1. from \in Nat /\ from >= 1 /\ n - 1 \in Nat /\ n - 1 <= e - b
          <6> HIDE DEF from, n
          <6>1. from \in 1 .. e - b /\ n - 1 \in from .. e - b
            BY <2>4
          <6> QED BY <6>1
        <5> HIDE DEF from, n
        <5> QED BY <1>2, <5>1
      <4> QED BY <1>2, <4>1, ElementOfSeq
    <3>2. from \in Int /\ n - 1 \in Int /\ from <= n - 1
      BY <2>4, <1>2
    <3> HIDE DEF from, n
    <3> QED BY <3>1, <3>2, SubSeqProperties
  <2>6. CASE torn /\ i = 0
    <3>1. Len(l) = 1 /\ l[1] = text[1] /\ 1 \in 1 .. e - b
      <4>1. n - 1 - from + 1 = 1 /\ from + 1 - 1 = 1 /\ 1 \in 1 .. 1 /\ 1 \in 1 .. e - b
        <5>1. from = 1 /\ n - 1 = 1 /\ from \in 1 .. e - b
          BY <2>4, <2>6
        <5> HIDE DEF from, n
        <5> QED BY <5>1
      <4> HIDE DEF l, from, n
      <4> QED BY <2>5, <4>1
    <3>2. text[1] = ByteAt(1 + 1)
      BY <2>4, <2>6, <3>1 DEF Spells
    <3>3. ByteAt(1 + 1) = Piece(1, 2)
      BY Bytes
    <3> HIDE DEF l, from, n
    <3>4. l = <<Piece(1, 2)>>
      BY <2>5, <3>1, <3>2, <3>3, OneOrTwo
    <3>5. g + k = 1
      BY <2>1, <2>6
    <3> QED BY <2>3, <2>5, <2>6, <3>4, <3>5 DEF l, LineAt
  <2>7. CASE ~(torn /\ i = 0)
    <3>1. /\ Len(l) = 2 /\ l[1] = text[from] /\ l[2] = text[from + 1]
          /\ from \in 1 .. e - b /\ from + 1 \in 1 .. e - b
      <4>1. n - 1 - from + 1 = 2 /\ from + 1 - 1 = from /\ from + 2 - 1 = from + 1
            /\ 1 \in 1 .. 2 /\ 2 \in 1 .. 2
        BY <2>4, <2>7
      <4>2. from + 1 \in 1 .. e - b
        BY <2>4, <2>7
      <4> HIDE DEF l, from, n
      <4> QED BY <2>4, <2>5, <4>1, <4>2
    <3>2. b + from = 3 * i + 1 /\ b + (from + 1) = 3 * i + 2
      BY <2>4, <2>7
    <3>3. text[from] = ByteAt(3 * i + 1) /\ text[from + 1] = ByteAt(3 * i + 2)
      <4> HIDE DEF from, i
      <4> QED BY <3>1, <3>2 DEF Spells
    <3>4. l[1] = Piece(i + 1, 1) /\ l[2] = Piece(i + 1, 2)
      BY <2>1, <3>1, <3>3, Bytes
    <3> HIDE DEF l, from, n, i
    <3>5. l = <<Piece(i + 1, 1), Piece(i + 1, 2)>>
      BY <2>5, <3>1, <3>4, OneOrTwo
    <3>6. ~(torn /\ g + k = 1)
      BY <2>1, <2>7
    <3> QED BY <2>1, <2>3, <2>5, <3>5, <3>6 DEF l, LineAt
  <2> QED BY <2>6, <2>7
<1>6. /\ Complete(text) \in Seq(Seq(Chars)) /\ Len(Complete(text)) = h - g
      /\ \A k \in 1 .. h - g : Complete(text)[k] = LineAt(torn, g + k)
  <2> HIDE DEF line
  <2> QED BY <1>2, <1>3, <1>4, <1>5
<1>7. Spells(Leftover(text), LineStart(torn, h), e)
  <2> DEFINE n == e - b + 1
             from == 1 + (IF h > g THEN 3 * h - b ELSE 0)
             left == SubSeq(text, from, Len(text))
  <2>1. n \in 1 .. e - b + 1 /\ 3 * h < b + n /\ b + n <= 3 * h + 3 /\ n = Len(text) + 1
    <3>1. b + n = e + 1 /\ n \in Nat /\ n >= 1
      BY <1>2
    <3> QED BY <1>2, <3>1
  <2>2. Begin(text, n) = from
    <3> HIDE DEF n
    <3>1. n \in 1 .. e - b + 1
      BY <2>1
    <3>2. 3 * h < b + n /\ b + n <= 3 * h + 3
      BY <2>1
    <3>3. \A i \in Nat : 3 * i < b + n /\ b + n <= 3 * i + 3
                           => Begin(text, n) = 1 + (IF i > g THEN 3 * i - b ELSE 0)
      BY <3>1, BeginsAfter
    <3> QED BY <3>2, <3>3, Zenon
  <2>3. Leftover(text) = left
    BY <2>1, <2>2 DEF Leftover
  <2>4. from \in 1 .. e - b + 1 /\ b + from = LineStart(torn, h) + 1 /\ LineStart(torn, h) \in Nat
        /\ Len(text) \in Int /\ from \in Int
    BY <1>1, <1>2 DEF LineStart
  <2>5. /\ left \in Seq(Chars) /\ Len(left) = e - LineStart(torn, h)
        /\ \A k \in 1 .. Len(text) - from + 1 : left[k] = text[from + k - 1]
    <3>1. \A q \in from .. Len(text) : text[q] \in Chars
      <4> TAKE q \in from .. Len(text)
      <4>1. q \in 1 .. Len(text)
        BY <1>2, <2>4
      <4> QED BY <1>2, <4>1, ElementOfSeq
    <3>2. (IF from <= Len(text) THEN Len(text) - from + 1 ELSE 0) = e - LineStart(torn, h)
      <4> DEFINE start == LineStart(torn, h)
      <4>1. from \in Int /\ start \in Int /\ b + from = start + 1 /\ from <= e - b + 1
        BY <1>2, <2>4
      <4> HIDE DEF from, start
      <4>2. (IF from <= e - b THEN e - b - from + 1 ELSE 0) = e - start
        BY <4>1, LeftOf
      <4>3. Len(text) = e - b
        BY <1>2
      <4> QED BY <4>2, <4>3 DEF start
    <3>3. from \in Int /\ Len(text) \in Int
      BY <2>4
    <3> HIDE DEF from
    <3>4. /\ left \in Seq(Chars)
          /\ Len(left) = IF from <= Len(text) THEN Len(text) - from + 1 ELSE 0
          /\ \A k \in 1 .. Len(text) - from + 1 : left[k] = text[from + k - 1]
      BY <3>1, <3>3, SubSeqProperties
    <3> HIDE DEF left
    <3> QED BY <3>2, <3>4
  <2>6. ASSUME NEW k \in 1 .. e - LineStart(torn, h)
        PROVE  left[k] = ByteAt(LineStart(torn, h) + k)
    <3>1. k \in 1 .. Len(text) - from + 1 /\ from + k - 1 \in 1 .. e - b
          /\ b + (from + k - 1) = LineStart(torn, h) + k
      <4> DEFINE start == LineStart(torn, h)
      <4>1. /\ from \in Int /\ from >= 1 /\ start \in Nat /\ b + from = start + 1
            /\ Len(text) = e - b /\ k \in Nat /\ k >= 1 /\ k <= e - start
        BY <1>2, <2>4
      <4> HIDE DEF from, start
      <4>2. k \in 1 .. Len(text) - from + 1 /\ from + k - 1 \in 1 .. e - b
            /\ b + (from + k - 1) = start + k
        <5>1. Len(text) - from + 1 = e - start
          <6>1. from \in Int /\ start \in Int /\ b + from = start + 1
            BY <4>1
          <6>2. e - b - from + 1 = e - start
            BY <6>1, LeftOf
          <6> QED BY <4>1, <6>2
        <5>2. from + k - 1 >= 1 /\ from + k - 1 <= e - b /\ from + k - 1 \in Int
          BY <4>1
        <5>3. b + (from + k - 1) = start + k
          BY <4>1
        <5> QED BY <4>1, <5>1, <5>2, <5>3
      <4> QED BY <4>2 DEF start
    <3> HIDE DEF left, from
    <3> QED BY <2>5, <3>1 DEF Spells
  <2> HIDE DEF left
  <2> QED BY <2>3, <2>5, <2>6 DEF Spells
<1> QED BY <1>6, <1>7

LEMMA Joined ==
  ASSUME NEW a \in Nat, NEW b \in Nat, NEW c \in Nat, a <= b, b <= c,
         NEW s, Spells(s, a, b), NEW t, Spells(t, b, c)
  PROVE  Spells(s \o t, a, c)
<1>1. /\ s \in Seq(Chars) /\ Len(s) = b - a /\ t \in Seq(Chars) /\ Len(t) = c - b
      /\ b - a \in Nat /\ c - b \in Nat /\ c - a \in Nat
  BY DEF Spells
<1>2. /\ s \o t \in Seq(Chars) /\ Len(s \o t) = Len(s) + Len(t)
      /\ \A i \in 1 .. Len(s) + Len(t) : (s \o t)[i] = IF i <= Len(s) THEN s[i] ELSE t[i - Len(s)]
  BY <1>1, ConcatProperties
<1>3. Len(s \o t) = c - a
  <2>1. (b - a) + (c - b) = c - a
    OBVIOUS
  <2> QED BY <1>1, <1>2, <2>1
<1>4. ASSUME NEW k \in 1 .. c - a PROVE (s \o t)[k] = ByteAt(a + k)
  <2>1. k \in 1 .. Len(s) + Len(t)
    BY <1>2, <1>3
  <2>2. CASE k <= b - a
    <3>1. k \in 1 .. b - a
      BY <2>2
    <3>2. (s \o t)[k] = s[k]
      BY <1>1, <1>2, <2>1, <2>2
    <3> QED BY <3>1, <3>2 DEF Spells
  <2>3. CASE ~(k <= b - a)
    <3>1. k - (b - a) \in 1 .. c - b /\ b + (k - (b - a)) = a + k
      BY <2>3
    <3>2. (s \o t)[k] = t[k - (b - a)]
      BY <1>1, <1>2, <2>1, <2>3
    <3> QED BY <3>1, <3>2 DEF Spells
  <2> QED BY <2>2, <2>3
<1> QED BY <1>2, <1>3, <1>4 DEF Spells

LEMMA Cut ==
  ASSUME NEW a \in Nat, NEW m \in Nat, NEW c \in Nat, a <= m, m <= c, NEW s, Spells(s, a, c)
  PROVE  Spells(SubSeq(s, 1, m - a), a, m) /\ Spells(SubSeq(s, m - a + 1, Len(s)), m, c)
<1>1. s \in Seq(Chars) /\ Len(s) = c - a /\ c - a \in Nat /\ m - a \in Nat /\ m - a <= c - a
  BY DEF Spells
<1> DEFINE l == SubSeq(s, 1, m - a)
           r == SubSeq(s, m - a + 1, Len(s))
<1>2. \A i \in 1 .. c - a : s[i] \in Chars
  BY <1>1, ElementOfSeq
<1>3. Spells(l, a, m)
  <2>1. \A i \in 1 .. m - a : s[i] \in Chars /\ i \in 1 .. c - a
    BY <1>1, <1>2
  <2>2. /\ l \in Seq(Chars) /\ Len(l) = IF 1 <= m - a THEN m - a - 1 + 1 ELSE 0
        /\ \A i \in 1 .. m - a - 1 + 1 : l[i] = s[1 + i - 1]
    <3>1. 1 \in Int /\ m - a \in Int
      BY <1>1
    <3> QED BY <2>1, <3>1, SubSeqProperties
  <2>3. (IF 1 <= m - a THEN m - a - 1 + 1 ELSE 0) = m - a /\ m - a - 1 + 1 = m - a
        /\ \A i \in 1 .. m - a : 1 + i - 1 = i
    BY <1>1
  <2> HIDE DEF l
  <2>4. Len(l) = m - a /\ \A i \in 1 .. m - a : l[i] = s[i]
    BY <2>2, <2>3
  <2> QED BY <2>1, <2>2, <2>4 DEF Spells
<1>4. Spells(r, m, c)
  <2>1. Len(s) = c - a /\ m - a + 1 \in Int /\ c - a \in Int /\ \A i \in m - a + 1 .. c - a : i \in 1 .. c - a
    BY <1>1
  <2>2. /\ r \in Seq(Chars)
        /\ Len(r) = IF m - a + 1 <= c - a THEN c - a - (m - a + 1) + 1 ELSE 0
        /\ \A i \in 1 .. c - a - (m - a + 1) + 1 : r[i] = s[m - a + 1 + i - 1]
    BY <1>2, <2>1, SubSeqProperties
  <2>3. /\ (IF m - a + 1 <= c - a THEN c - a - (m - a + 1) + 1 ELSE 0) = c - m
        /\ c - a - (m - a + 1) + 1 = c - m
        /\ \A i \in 1 .. c - m : m - a + 1 + i - 1 \in 1 .. c - a /\ a + (m - a + 1 + i - 1) = m + i
    BY <1>1
  <2> HIDE DEF r
  <2>4. Len(r) = c - m /\ \A i \in 1 .. c - m : r[i] = s[m - a + 1 + i - 1]
    BY <2>2, <2>3
  <2>5. \A i \in 1 .. c - m : r[i] = ByteAt(m + i)
    <3> TAKE i \in 1 .. c - m
    <3> DEFINE j == m - a + 1 + i - 1
    <3>1. j \in 1 .. c - a /\ a + j = m + i /\ r[i] = s[j]
      BY <2>3, <2>4
    <3> HIDE DEF j
    <3> QED BY <3>1 DEF Spells
  <2> QED BY <2>2, <2>4, <2>5 DEF Spells
<1> QED BY <1>3, <1>4

-----------------------------------------------------------------------------
(* The reader.  Of the stream, p bytes have been read and g lines given out. *)

Said == 3 * SaidLines
Streams(g, p) ==
    /\ g \in Nat /\ p \in Nat /\ 3 * g <= p /\ p < 3 * g + 3 /\ p <= Said
    /\ LineStart(lineStream.torn, g) <= p
    /\ Spells(lineStream.coming, p, Said)
    /\ Spells(lineStream.partial, LineStart(lineStream.torn, g), p)
    /\ lineStream.got \in Seq(Seq(Chars)) /\ Len(lineStream.got) = g
    /\ \A n \in 1 .. g : lineStream.got[n] = LineAt(lineStream.torn, n)

StreamInv ==
    /\ lineStream = [coming |-> lineStream.coming, torn |-> lineStream.torn,
                     partial |-> lineStream.partial, got |-> lineStream.got]
    /\ lineStream.torn \in BOOLEAN
    /\ IF hostLink.at = "read" THEN \E g, p : Streams(g, p) ELSE lineStream.got = <<>>

LEMMA StreamLines ==
  ASSUME StreamInv
  PROVE  LinesAreWhole
<1>1. CASE hostLink.at = "read"
  <2>1. PICK g, p : Streams(g, p)
    BY <1>1 DEF StreamInv
  <2>2. /\ DOMAIN lineStream.got = 1 .. g
        /\ \A n \in 1 .. g : lineStream.got[n] = LineAt(lineStream.torn, n)
    BY <2>1, LenProperties DEF Streams
  <2> QED BY <2>2 DEF LinesAreWhole, LineAt
<1>2. CASE hostLink.at # "read"
  BY <1>2 DEF StreamInv, LinesAreWhole
<1> QED BY <1>1, <1>2

\* What is on its way when a session opens is the stream, without the byte
\* that was lost if one was.
LEMMA OpenedStream ==
  ASSUME NEW torn \in BOOLEAN
  PROVE  Spells(BytesOf(torn), LineStart(torn, 0), Said)
<1> DEFINE whole == [n \in 1 .. Said |-> ByteAt(n)]
<1>1. BytesOf(torn) = IF torn THEN Tail(whole) ELSE whole
  BY DEF BytesOf, ByteAt, Said
<1>2. Said \in Nat /\ Said >= 3
  BY LinkAssumption DEF Said
<1>3. whole \in Seq(Chars) /\ Len(whole) = Said /\ \A n \in 1 .. Said : whole[n] = ByteAt(n)
  <2>1. \A n \in 1 .. Said : ByteAt(n) \in Chars
    BY <1>2, Bytes
  <2>2. whole \in Seq(Chars)
    BY <1>2, <2>1, IsASeq
  <2>3. DOMAIN whole = 1 .. Said
    OBVIOUS
  <2> QED BY <1>2, <2>2, <2>3
<1> HIDE DEF whole
<1>4. CASE ~torn
  <2>1. \A n \in 1 .. Said : 0 + n = n
    BY <1>2
  <2> QED BY <1>1, <1>2, <1>3, <1>4, <2>1 DEF Spells, LineStart
<1>5. CASE torn
  <2>1. whole # <<>>
    BY <1>2, <1>3
  <2>2. /\ Tail(whole) \in Seq(Chars) /\ Len(Tail(whole)) = Said - 1
        /\ \A i \in 1 .. Said - 1 : Tail(whole)[i] = whole[i + 1]
    BY <1>2, <1>3, <2>1, HeadTailProperties
  <2>3. \A i \in 1 .. Said - 1 : Tail(whole)[i] = ByteAt(1 + i)
    <3> TAKE i \in 1 .. Said - 1
    <3>1. i + 1 \in 1 .. Said /\ i + 1 = 1 + i
      BY <1>2
    <3> QED BY <1>3, <2>2, <3>1
  <2> QED BY <1>1, <1>5, <2>2, <2>3 DEF Spells, LineStart
<1> QED BY <1>4, <1>5

LEMMA OpenStream ==
  ASSUME LinkShape, NEW with, Opened(with)
  PROVE  StreamInv'
<1>1. PICK use \in {"read", "jobs", "idle"}, torn \in BOOLEAN :
        /\ hostLink' = [hostLink EXCEPT !.at = use, !.with = with]
        /\ lineStream' = [coming |-> IF use = "read" THEN BytesOf(torn) ELSE <<>>, torn |-> torn,
                          partial |-> <<>>, got |-> <<>>]
  BY DEF Opened
<1>2. /\ hostLink'.at = use
      /\ lineStream'.coming = (IF use = "read" THEN BytesOf(torn) ELSE <<>>)
      /\ lineStream'.torn = torn /\ lineStream'.partial = <<>> /\ lineStream'.got = <<>>
      /\ lineStream' = [coming |-> lineStream'.coming, torn |-> lineStream'.torn,
                        partial |-> lineStream'.partial, got |-> lineStream'.got]
  BY <1>1 DEF LinkShape
<1>3. ASSUME use = "read" PROVE Streams(0, LineStart(torn, 0))'
  <2> DEFINE p == LineStart(torn, 0)
  <2>1. Said \in Nat /\ Said >= 3
    BY LinkAssumption DEF Said
  <2>2. p \in {0, 1} /\ p \in Nat
    BY DEF LineStart
  <2>3. 3 * 0 <= p /\ p < 3 * 0 + 3 /\ p <= Said
    BY <2>1, <2>2
  <2>4. Spells(lineStream'.coming, p, Said)
    BY <1>2, <1>3, OpenedStream
  <2>5. Spells(<<>>, p, p)
    <3>1. <<>> \in Seq(Chars) /\ Len(<<>>) = 0 /\ p - p = 0
      BY <2>2, EmptySeq
    <3> QED BY <3>1, <2>2 DEF Spells
  <2>6. <<>> \in Seq(Seq(Chars)) /\ Len(<<>>) = 0
    BY EmptySeq
  <2>7. p <= p /\ 0 \in Nat /\ \A n \in 1 .. 0 : FALSE
    BY <2>2
  <2> HIDE DEF p
  <2> QED BY <1>2, <2>2, <2>3, <2>4, <2>5, <2>6, <2>7 DEF Streams, p, Said
<1> QED BY <1>1, <1>2, <1>3 DEF StreamInv

LEMMA ReadStep ==
  ASSUME StreamInv, Read
  PROVE  StreamInv'
<1> DEFINE coming == lineStream.coming
           partial == lineStream.partial
           torn == lineStream.torn
           got == lineStream.got
<1>1. PICK n \in DOMAIN coming :
        LET text == partial \o SubSeq(coming, 1, n)
        IN lineStream' = [lineStream EXCEPT !.coming = SubSeq(@, n + 1, Len(@)),
                            !.partial = Leftover(text), !.got = @ \o Complete(text)]
  BY DEF Read
<1>2. hostLink.at = "read" /\ hostLink'.at = "read"
  BY DEF Read
<1>3. PICK g, p : Streams(g, p)
  BY <1>2 DEF StreamInv
<1> DEFINE text == partial \o SubSeq(coming, 1, n)
           e == p + n
           b == LineStart(torn, g)
<1>4. /\ g \in Nat /\ p \in Nat /\ 3 * g <= p /\ p < 3 * g + 3 /\ p <= Said /\ b <= p
      /\ Spells(coming, p, Said) /\ Spells(partial, b, p)
      /\ got \in Seq(Seq(Chars)) /\ Len(got) = g
      /\ \A i \in 1 .. g : got[i] = LineAt(torn, i)
      /\ torn \in BOOLEAN
  BY <1>3 DEF Streams, StreamInv
<1>5. Said \in Nat /\ b \in Nat
  BY <1>4, LinkAssumption DEF Said, LineStart
<1>6. e \in Nat /\ p <= e /\ e <= Said /\ n = e - p /\ n + 1 = e - p + 1
  <2>1. coming \in Seq(Chars) /\ Len(coming) = Said - p
    BY <1>4 DEF Spells
  <2>2. n \in 1 .. Said - p
    BY <2>1, LenProperties
  <2>3. n \in Nat /\ n <= Said - p
    BY <1>4, <1>5, <2>2
  <2> QED BY <1>4, <1>5, <2>3
<1>7. /\ lineStream'.coming = SubSeq(coming, n + 1, Len(coming)) /\ lineStream'.torn = torn
      /\ lineStream'.partial = Leftover(text) /\ lineStream'.got = got \o Complete(text)
      /\ lineStream' = [coming |-> lineStream'.coming, torn |-> lineStream'.torn,
                        partial |-> lineStream'.partial, got |-> lineStream'.got]
  BY <1>1 DEF StreamInv
<1> HIDE DEF e
<1>8. Spells(SubSeq(coming, 1, n), p, e) /\ Spells(lineStream'.coming, e, Said)
  <2>1. /\ Spells(SubSeq(coming, 1, e - p), p, e)
        /\ Spells(SubSeq(coming, e - p + 1, Len(coming)), e, Said)
    <3> HIDE DEF coming
    <3> QED BY <1>4, <1>5, <1>6, Cut
  <2> QED BY <1>6, <1>7, <2>1
<1>9. Spells(text, b, e)
  <2> HIDE DEF b, partial, coming
  <2> QED BY <1>4, <1>5, <1>6, <1>8, Joined
<1>10. PICK h \in Nat : 3 * h <= e /\ e < 3 * h + 3
  BY <1>6, ThreeToALine
<1>11. g <= h /\ b <= e
  BY <1>4, <1>5, <1>6, <1>10
<1>12. /\ Complete(text) \in Seq(Seq(Chars)) /\ Len(Complete(text)) = h - g
       /\ \A k \in 1 .. h - g : Complete(text)[k] = LineAt(torn, g + k)
       /\ Spells(Leftover(text), LineStart(torn, h), e)
  <2>1. \A x \in Nat : x = LineStart(torn, g) /\ x <= e /\ Spells(text, x, e)
          => /\ Complete(text) \in Seq(Seq(Chars)) /\ Len(Complete(text)) = h - g
             /\ \A k \in 1 .. h - g : Complete(text)[k] = LineAt(torn, g + k)
             /\ Spells(Leftover(text), LineStart(torn, h), e)
    <3> HIDE DEF text, torn, b
    <3> TAKE x \in Nat
    <3> HAVE x = LineStart(torn, g) /\ x <= e /\ Spells(text, x, e)
    <3>1. torn \in BOOLEAN /\ g \in Nat /\ e \in Nat /\ h \in Nat /\ g <= h
      BY <1>4, <1>6, <1>10, <1>11
    <3>2. 3 * h <= e /\ e < 3 * h + 3
      BY <1>10
    <3> QED BY <3>1, <3>2, FeedLines
  <2> QED BY <1>5, <1>9, <1>11, <2>1
<1> HIDE DEF text, coming, partial
<1>13. LineStart(torn, h) <= e
  <2>1. h = 0 => g = 0
    BY <1>4, <1>11
  <2> QED BY <1>4, <1>6, <1>10, <2>1 DEF LineStart
<1> DEFINE lines == got \o Complete(text)
<1>14. /\ lines \in Seq(Seq(Chars)) /\ Len(lines) = h
       /\ \A i \in 1 .. h : lines[i] = LineAt(torn, i)
  <2> DEFINE c == Complete(text)
  <2>1. /\ lines \in Seq(Seq(Chars)) /\ Len(lines) = Len(got) + Len(c)
        /\ \A i \in 1 .. Len(got) + Len(c) : lines[i] = IF i <= Len(got) THEN got[i] ELSE c[i - Len(got)]
    <3> HIDE DEF got, c
    <3>1. got \in Seq(Seq(Chars)) /\ c \in Seq(Seq(Chars))
      BY <1>4, <1>12 DEF c
    <3> QED BY <3>1, ConcatProperties DEF c
  <2>2. Len(got) = g /\ Len(c) = h - g /\ g + (h - g) = h
    BY <1>4, <1>11, <1>12
  <2>3. \A k \in 1 .. h - g : c[k] = LineAt(torn, g + k)
    BY <1>12
  <2> HIDE DEF lines, c, got
  <2>4. /\ Len(lines) = h
        /\ \A i \in 1 .. h : lines[i] = IF i <= g THEN got[i] ELSE c[i - g]
    BY <2>1, <2>2
  <2>5. \A i \in 1 .. h : lines[i] = LineAt(torn, i)
    <3> TAKE i \in 1 .. h
    <3>1. CASE i <= g
      <4>1. i \in 1 .. g
        BY <1>4, <3>1
      <4> QED BY <1>4, <2>4, <3>1, <4>1 DEF got
    <3>2. CASE ~(i <= g)
      <4>1. i - g \in 1 .. h - g /\ g + (i - g) = i
        BY <1>4, <1>11, <3>2
      <4> QED BY <2>3, <2>4, <3>2, <4>1
    <3> QED BY <3>1, <3>2
  <2> QED BY <2>1, <2>4, <2>5
<1> HIDE DEF lines
<1>15. Streams(h, e)'
  <2>1. lineStream'.got = lines
    BY <1>7 DEF lines
  <2> HIDE DEF got, torn
  <2> QED BY <1>6, <1>7, <1>8, <1>10, <1>12, <1>13, <1>14, <2>1 DEF Streams, Said
<1> QED BY <1>2, <1>4, <1>7, <1>15 DEF StreamInv

-----------------------------------------------------------------------------
(* The invariant, and each action's part in it. *)

LinkInv == WhoInv /\ StreamInv /\ JobInv /\ PeerInv

LEMMA WhoStays ==
  ASSUME WhoInv, UNCHANGED <<relayBoard, addressOfName, hostLink>>
  PROVE  WhoInv'
<1>1. LinkShape' /\ Leased'
  BY DEF WhoInv, LinkShape, Leased
<1>2. Opening' /\ SessionIsItsRobots'
  BY DEF WhoInv, Opening, Tuned, SessionIsItsRobots, InSession, Half, Echo, Mode, Tune, Power
<1> QED BY <1>1, <1>2 DEF WhoInv

LEMMA StreamStays ==
  ASSUME StreamInv, UNCHANGED lineStream, hostLink'.at = "read" <=> hostLink.at = "read"
  PROVE  StreamInv'
BY DEF StreamInv, Streams

LEMMA OthersStay ==
  /\ JobInv /\ UNCHANGED linkJobs => JobInv'
  /\ PeerInv /\ UNCHANGED udpPeer => PeerInv'
BY DEF JobInv, PeerInv

LEMMA LinkInit_ == LinkInit => LinkInv
<1> SUFFICES ASSUME LinkInit PROVE LinkInv
  OBVIOUS
<1>1. WhoInv
  <2>1. LinkShape
    BY LinkConstants DEF LinkInit, LinkShape, LinkStates
  <2>2. Leased
    BY DEF LinkInit, Leased
  <2>3. Opening /\ SessionIsItsRobots
    BY DEF LinkInit, Opening, SessionIsItsRobots, InSession
  <2> QED BY <2>1, <2>2, <2>3 DEF WhoInv
<1>2. StreamInv
  BY DEF LinkInit, StreamInv
<1>3. JobInv
  <2>1. [j \in 1 .. Jobs |-> 0] \in [1 .. Jobs -> {0, 1}] /\ 0 \in 0 .. Jobs
    BY LinkConstants
  <2> QED BY <2>1 DEF LinkInit, JobInv
<1>4. PeerInv
  <2>1. Patience \in Nat /\ 0 * Patience = 0
    BY LinkConstants DEF Patience
  <2>2. udpPeer = [since |-> 0, silent |-> 0, lost |-> 0, known |-> TRUE]
    BY DEF LinkInit
  <2> QED BY <2>1, <2>2, LinkConstants DEF PeerInv
<1> QED BY <1>1, <1>2, <1>3, <1>4 DEF LinkInv

LEMMA LinkStep == LinkInv /\ [LinkNext]_linkVars => LinkInv'
<1> SUFFICES ASSUME LinkInv, [LinkNext]_linkVars PROVE LinkInv'
  OBVIOUS
<1> USE DEF LinkInv
<1>1. CASE OpenRadio
  <2>1. hostLink.at # "read" /\ hostLink'.at # "read"
    BY <1>1 DEF OpenRadio, WhoInv, LinkShape
  <2>2. UNCHANGED lineStream /\ UNCHANGED linkJobs /\ UNCHANGED udpPeer
    BY <1>1 DEF OpenRadio
  <2> QED BY <1>1, <2>1, <2>2, OpenRadioStep, StreamStays, OthersStay
<1>2. CASE Probe
  <2>1. hostLink.at # "read" /\ hostLink'.at # "read"
    BY <1>2 DEF Probe, WhoInv, LinkShape
  <2>2. UNCHANGED lineStream /\ UNCHANGED linkJobs /\ UNCHANGED udpPeer
    BY <1>2 DEF Probe
  <2> QED BY <1>2, <2>1, <2>2, ProbeStep, StreamStays, OthersStay
<1>3. CASE SetupLine
  <2>1. hostLink.at # "read" /\ hostLink'.at # "read"
    BY <1>3 DEF SetupLine, WhoInv, LinkShape
  <2>2. UNCHANGED lineStream /\ UNCHANGED linkJobs /\ UNCHANGED udpPeer
    BY <1>3 DEF SetupLine
  <2> QED BY <1>3, <2>1, <2>2, SetupStep, StreamStays, OthersStay
<1>4. CASE GoRadio
  <2>1. StreamInv'
    <3>1. PICK with : Opened(with)
      BY <1>4, Zenon DEF GoRadio
    <3> QED BY <3>1, OpenStream DEF WhoInv
  <2>2. UNCHANGED linkJobs /\ UNCHANGED udpPeer
    BY <1>4 DEF GoRadio, Opened
  <2> QED BY <1>4, <2>1, <2>2, GoRadioStep, OthersStay
<1>5. CASE LeaseMoves \/ Announce
  <2>1. UNCHANGED hostLink /\ UNCHANGED lineStream /\ UNCHANGED linkJobs /\ UNCHANGED udpPeer
    BY <1>5 DEF LeaseMoves, Announce
  <2> QED BY <1>5, <2>1, NameSteps, StreamStays, OthersStay
<1>6. CASE OpenWifi \/ rogo_target
  <2>1. hostLink.at # "read" /\ hostLink'.at # "read"
    BY <1>6 DEF OpenWifi, rogo_target, WhoInv, LinkShape
  <2>2. UNCHANGED lineStream /\ UNCHANGED linkJobs /\ UNCHANGED udpPeer
    BY <1>6 DEF OpenWifi, rogo_target
  <2> QED BY <1>6, <2>1, <2>2, OpenWifiStep, StreamStays, OthersStay
<1>7. CASE discover
  <2>1. \/ \E with : Opened(with)
        \/ /\ hostLink' = [hostLink EXCEPT !.at = "refused"]
           /\ UNCHANGED lineStream /\ UNCHANGED linkJobs /\ UNCHANGED udpPeer
    BY <1>7, Zenon DEF discover
  <2>2. hostLink.at # "read"
    BY <1>7 DEF discover
  <2>3. StreamInv' /\ UNCHANGED linkJobs /\ UNCHANGED udpPeer
    <3>1. CASE \E with : Opened(with)
      <4>1. PICK with : Opened(with)
        BY <3>1
      <4> QED BY <4>1, OpenStream DEF WhoInv, Opened
    <3>2. CASE /\ hostLink' = [hostLink EXCEPT !.at = "refused"]
               /\ UNCHANGED lineStream /\ UNCHANGED linkJobs /\ UNCHANGED udpPeer
      <4>1. hostLink'.at # "read"
        BY <3>2 DEF WhoInv, LinkShape
      <4> QED BY <2>2, <3>2, <4>1, StreamStays
    <3> QED BY <2>1, <3>1, <3>2
  <2> QED BY <1>7, <2>3, DiscoverStep, OthersStay
<1>8. CASE Read
  <2>1. UNCHANGED <<relayBoard, addressOfName, hostLink>> /\ UNCHANGED linkJobs /\ UNCHANGED udpPeer
    BY <1>8 DEF Read
  <2> QED BY <1>8, <2>1, ReadStep, WhoStays, OthersStay
<1>9. CASE SendJob \/ Try
  <2>1. UNCHANGED <<relayBoard, addressOfName, hostLink>> /\ UNCHANGED hostLink /\ UNCHANGED lineStream
        /\ UNCHANGED udpPeer
    BY <1>9 DEF SendJob, Try
  <2> QED BY <1>9, <2>1, SendJobStep, TryStep, WhoStays, StreamStays, OthersStay
<1>10. CASE Datagram("command") \/ Datagram("keepalive") \/ ClockStep
  <2>1. UNCHANGED <<relayBoard, addressOfName, hostLink>> /\ UNCHANGED hostLink /\ UNCHANGED lineStream
        /\ UNCHANGED linkJobs
    BY <1>10 DEF Datagram, ClockStep
  <2>2. PeerInv'
    BY <1>10, PeerSteps
  <2> QED BY <2>1, <2>2, WhoStays, StreamStays, OthersStay
<1>11. CASE UNCHANGED linkVars
  <2>1. UNCHANGED <<relayBoard, addressOfName, hostLink>> /\ UNCHANGED hostLink /\ UNCHANGED lineStream
        /\ UNCHANGED linkJobs /\ UNCHANGED udpPeer
    BY <1>11 DEF linkVars
  <2> QED BY <2>1, WhoStays, StreamStays, OthersStay
<1> QED BY <1>1, <1>2, <1>3, <1>4, <1>5, <1>6, <1>7, <1>8, <1>9, <1>10, <1>11 DEF LinkNext

LEMMA LinkInvSuffices == LinkInv => CarriersAreSound /\ LinkTypeOK
<1> SUFFICES ASSUME LinkInv PROVE CarriersAreSound /\ LinkTypeOK
  OBVIOUS
<1>1. SessionIsItsRobots /\ LinesAreWhole
  BY StreamLines DEF LinkInv, WhoInv
<1>2. JobsRunOnce
  <2>1. /\ linkJobs.ran \in [1 .. Jobs -> {0, 1}]
        /\ \A j \in 1 .. Jobs : j \in linkJobs.receipt => linkJobs.ran[j] = 1
    BY DEF LinkInv, JobInv
  <2>2. \A j \in 1 .. Jobs : linkJobs.ran[j] \in {0, 1} /\ linkJobs.ran[j] <= 1
    <3> TAKE j \in 1 .. Jobs
    <3>1. linkJobs.ran[j] \in {0, 1}
      BY <2>1
    <3> DEFINE x == linkJobs.ran[j]
    <3> HIDE DEF x
    <3>2. x \in {0, 1} => x <= 1
      OBVIOUS
    <3> QED BY <3>1, <3>2 DEF x
  <2> QED BY <2>1, <2>2 DEF JobsRunOnce
<1>3. PeerIsKept
  BY DEF LinkInv, PeerInv, PeerIsKept
<1>4. linkJobs.seq \in 0 .. Jobs /\ linkJobs.expected \in 1 .. Jobs + 1
  <2> DEFINE seq == linkJobs.seq
             job == linkJobs.job
             expected == linkJobs.expected
  <2>1. /\ job \in 0 .. Jobs /\ expected \in Nat /\ expected # 0
        /\ \/ seq = job /\ expected <= seq + 1
           \/ job = seq + 1 /\ expected <= seq + 2 /\ seq \in Nat
    BY DEF LinkInv, JobInv
  <2> HIDE DEF seq, job, expected
  <2>2. seq \in 0 .. Jobs /\ expected \in 1 .. Jobs + 1
    BY <2>1, LinkConstants
  <2> QED BY <2>2 DEF seq, expected
<1>5. LinkTypeOK
  BY <1>4 DEF LinkTypeOK, LinkInv, WhoInv, LinkShape, PeerInv, Patience
<1> QED BY <1>1, <1>2, <1>3, <1>5 DEF CarriersAreSound

(* The settings and counters of every carrier keep their ranges.            *)
THEOREM LinkTypesHold == LinkSpec => []LinkTypeOK
<1>1. LinkInv => LinkTypeOK
  BY LinkInvSuffices
<1> QED BY <1>1, LinkInit_, LinkStep, PTL DEF LinkSpec

(* Every session a tool opens is with its robot, whatever the relay was     *)
(* left at; the lines it reads are whole and in order; a job runs at most   *)
(* once; and the robot keeps a UDP peer that is there: for every fleet,     *)
(* every number of tries and jobs, and every stretch of the stream.         *)
THEOREM CarriersHold == LinkSpec => []CarriersAreSound
<1>1. LinkInv => CarriersAreSound
  BY LinkInvSuffices
<1> QED BY <1>1, LinkInit_, LinkStep, PTL DEF LinkSpec


-----------------------------------------------------------------------------
(* rogo and the TCP server.                                                  *)

(* What is built one step after another. *)

\* Every nonempty set of naturals has a least element.
LEMMA LeastOf ==
  ASSUME NEW T, T \subseteq Nat, T # {}
  PROVE  \E x \in T : \A y \in T : x <= y
<1>1. \E r : IsWellFoundedOn(r, Nat) /\ \A x, y \in Nat : y < x => <<y, x>> \in r
  <2> DEFINE R == OpToRel(<, Nat)
  <2>1. IsWellFoundedOn(R, Nat)
    BY NatLessThanWellFounded
  <2>2. \A x, y \in Nat : y < x => <<y, x>> \in R
    BY DEF OpToRel
  <2> HIDE DEF R
  <2> QED BY <2>1, <2>2
<1>2. PICK r : IsWellFoundedOn(r, Nat) /\ \A x, y \in Nat : y < x => <<y, x>> \in r
  BY <1>1
<1>3. PICK x \in T : \A y \in T : ~(<<y, x>> \in r)
  BY <1>2, WFMin
<1>4. ASSUME NEW y \in T
      PROVE  x <= y
  <2>1. x \in Nat /\ y \in Nat
    OBVIOUS
  <2>2. ~(y < x)
    BY <1>2, <1>3, <2>1
  <2> QED BY <2>1, <2>2
<1> QED BY <1>4

\* What begins at 0 and passes from each number to the next reaches n.
LEMMA UpTo ==
  ASSUME NEW n \in Nat, NEW T, 0 \in T, \A i \in 1 .. n : i - 1 \in T => i \in T
  PROVE  \A i \in 0 .. n : i \in T
<1> DEFINE Out == {i \in 0 .. n : i \notin T}
<1> SUFFICES ASSUME Out # {} PROVE FALSE
  OBVIOUS
<1>1. PICK x \in Out : \A y \in Out : x <= y
  <2>1. Out \subseteq Nat
    OBVIOUS
  <2> HIDE DEF Out
  <2> QED BY <2>1, LeastOf
<1>2. x \in 1 .. n /\ x \notin T /\ x - 1 \in 0 .. n /\ ~(x <= x - 1)
  BY <1>1
<1>3. x - 1 \in T
  BY <1>1, <1>2
<1> QED BY <1>2, <1>3

\* A step that can always be taken can be taken n times.
StaysIn(n, S, step) == \A x \in S, i \in 1 .. n : step[<<x, i>>] \in S
TakenFrom(s0, n, S, step, h) ==
    /\ h \in [0 .. n -> S] /\ h[0] = s0
    /\ \A i \in 1 .. n : h[i] = step[<<h[i - 1], i>>]

LEMMA Iterated ==
  ASSUME NEW n \in Nat, NEW S, NEW s0 \in S, NEW step, StaysIn(n, S, step)
  PROVE  \E h : TakenFrom(s0, n, S, step, h)
<1> USE DEF StaysIn, TakenFrom
<1> DEFINE Is(h, m) == /\ h \in [0 .. m -> S] /\ h[0] = s0
                       /\ \A i \in 1 .. m : h[i] = step[<<h[i - 1], i>>]
           T == {m \in 0 .. n : \E h : Is(h, m)}
<1>1. 0 \in T
  <2> DEFINE h == [i \in 0 .. 0 |-> s0]
  <2>1. Is(h, 0)
    OBVIOUS
  <2> HIDE DEF h
  <2>2. 0 \in 0 .. n
    OBVIOUS
  <2> QED BY <2>1, <2>2
<1>2. ASSUME NEW m \in 1 .. n, m - 1 \in T PROVE m \in T
  <2>1. PICK h : Is(h, m - 1)
    BY <1>2
  <2> DEFINE f == [i \in 0 .. m |-> IF i = m THEN step[<<h[m - 1], m>>] ELSE h[i]]
  <2>2. m - 1 \in 0 .. m - 1 /\ m \in 0 .. m /\ 0 # m /\ 0 \in 0 .. m
        /\ \A i \in 0 .. m : i # m => i \in 0 .. m - 1
    OBVIOUS
  <2>3. h \in [0 .. m - 1 -> S] /\ step[<<h[m - 1], m>>] \in S
    BY <2>1, <2>2
  <2>4. f \in [0 .. m -> S] /\ f[0] = s0
    BY <2>1, <2>2, <2>3
  <2>5. ASSUME NEW i \in 1 .. m PROVE f[i] = step[<<f[i - 1], i>>]
    <3>1. i \in 0 .. m /\ i - 1 \in 0 .. m /\ i - 1 # m
      OBVIOUS
    <3>2. f[i - 1] = h[i - 1]
      BY <3>1
    <3>3. CASE i = m
      BY <3>1, <3>2, <3>3
    <3>4. CASE i # m
      <4>1. i \in 1 .. m - 1
        BY <3>4
      <4> QED BY <2>1, <3>1, <3>2, <3>4, <4>1
    <3> QED BY <3>3, <3>4
  <2> HIDE DEF f
  <2>6. Is(f, m)
    BY <2>4, <2>5
  <2> QED BY <2>6
<1>3. n \in T
  <2> HIDE DEF T
  <2>1. \A i \in 0 .. n : i \in T
    BY <1>1, <1>2, UpTo
  <2> QED BY <2>1
<1> QED BY <1>3

-----------------------------------------------------------------------------
(* What is in the rings, and what the module says. *)

Verbs == DOMAIN ReplyLines
LastOf == Clients \cup {Udp}
Events == [says : Verbs \cup {"CONNECT", "CLOSED"}, link : Clients] \cup {[says |-> "sent", link |-> Udp]}
TxLines == [to : LastOf, for : LastOf, tel : BOOLEAN, barged : BOOLEAN]
Frames == {e \in TxLines : e.tel = TRUE}
Replies == {e \in TxLines : e.tel = FALSE /\ (e.barged = TRUE \/ e.to = e.for \/ e.to = Udp)}
Queues == Seq(Frames) \cup Seq(Replies)
Servers == [open : SUBSET Clients, replyTo : LastOf, newest : LastOf, edge : BOOLEAN,
            rx : Seq([from : Clients, verb : Verbs]), tx : Queues, sending : BOOLEAN, udpPeer : BOOLEAN]

LEMMA RogoConstants ==
  /\ Udp \notin Clients
  /\ TxSlots \in Nat /\ TxSlots > 0 /\ RxSlots \in Nat /\ ReplyWait \in Nat /\ ReplyWait > 0
  /\ DrainPerPass \in Nat
  /\ \A c \in Clients : Stdin[c] \subseteq Seq(Verbs)
  /\ \A verb \in Verbs : ReplyLines[verb] \in Nat
BY RogoAssumption DEF Verbs

\* A reply throws the telemetry out and keeps the replies.
LEMMA PurgedIsReplies ==
  ASSUME NEW tx \in Queues
  PROVE  Purged(tx) \in Seq(Replies) /\ Len(Purged(tx)) <= Len(tx) /\ Len(Purged(tx)) \in Nat
<1> DEFINE n == Len(tx)
           S == Seq(Replies)
           after(x, i) == IF tx[i].tel THEN x ELSE Append(x, tx[i])
           step == [a \in S \X (1 .. n) |-> after(a[1], a[2])]
           Kept(f) == f = [i \in 0 .. n |-> IF i = 0 THEN <<>> ELSE after(f[i - 1], i)]
           kept == CHOOSE f : Kept(f)
<1>1. n \in Nat /\ \A i \in 1 .. n : tx[i] \in Frames \cup Replies
  <2>1. tx \in Seq(Frames) \/ tx \in Seq(Replies)
    BY DEF Queues
  <2> QED BY <2>1, LenProperties, ElementOfSeq
<1>2. \A i \in 1 .. n : tx[i].tel = TRUE \/ (tx[i].tel = FALSE /\ tx[i] \in Replies)
  BY <1>1 DEF Frames, Replies
<1>3. \A x \in S, i \in 1 .. n : after(x, i) \in S /\ Len(after(x, i)) <= Len(x) + 1
  <2> TAKE x \in S, i \in 1 .. n
  <2>1. CASE tx[i].tel = TRUE
    BY <2>1, LenProperties
  <2>2. CASE tx[i].tel = FALSE /\ tx[i] \in Replies
    BY <2>2, AppendProperties, LenProperties
  <2> QED BY <1>2, <2>1, <2>2
<1> HIDE DEF after, n
<1>4. \A x \in S, i \in 1 .. n : step[<<x, i>>] = after(x, i)
  OBVIOUS
<1>5. \E f : Kept(f)
  <2> HIDE DEF step, S
  <2>1. <<>> \in S
    BY EmptySeq DEF S
  <2>2. \E h : TakenFrom(<<>>, n, S, step, h)
    <3>1. StaysIn(n, S, step)
      BY <1>3, <1>4 DEF S, StaysIn
    <3> QED BY <1>1, <2>1, <3>1, Iterated
  <2> PICK h : TakenFrom(<<>>, n, S, step, h)
    BY <2>2
  <2>3. \A i \in 1 .. n : h[i] = after(h[i - 1], i)
    <3> TAKE i \in 1 .. n
    <3>1. i - 1 \in 0 .. n
      BY <1>1
    <3>2. h[i - 1] \in S
      BY <3>1 DEF TakenFrom
    <3> QED BY <1>4, <3>2 DEF S, TakenFrom
  <2>4. h = [i \in 0 .. n |-> IF i = 0 THEN <<>> ELSE after(h[i - 1], i)]
    BY <1>1, <2>3 DEF TakenFrom
  <2> QED BY <2>4
<1>6. Kept(kept)
  BY <1>5
<1>7. Purged(tx) = kept[n]
  BY DEF Purged, after, n
<1> HIDE DEF kept
<1>8. kept[0] = <<>> /\ \A i \in 1 .. n : kept[i] = after(kept[i - 1], i)
  BY <1>1, <1>6
<1> DEFINE T == {i \in 0 .. n : kept[i] \in S /\ Len(kept[i]) <= i}
<1>9. 0 \in T
  <2>1. <<>> \in S /\ Len(<<>>) <= 0 /\ 0 \in 0 .. n
    BY <1>1, EmptySeq
  <2> QED BY <1>8, <2>1
<1>10. ASSUME NEW i \in 1 .. n, i - 1 \in T PROVE i \in T
  <2>1. kept[i - 1] \in S /\ Len(kept[i - 1]) <= i - 1 /\ Len(kept[i - 1]) \in Nat
    BY <1>10, LenProperties
  <2>2. kept[i] \in S /\ Len(kept[i]) <= Len(kept[i - 1]) + 1 /\ Len(kept[i]) \in Nat
    BY <1>3, <1>8, <2>1, LenProperties
  <2>3. Len(kept[i]) <= i /\ i \in 0 .. n
    BY <1>1, <2>1, <2>2
  <2> QED BY <2>2, <2>3
<1>11. n \in T
  <2> HIDE DEF T
  <2>1. \A i \in 0 .. n : i \in T
    BY <1>1, <1>9, <1>10, UpTo
  <2> QED BY <1>1, <2>1
<1> QED BY <1>7, <1>11, LenProperties DEF n

\* What every report of the module keeps, all of them keep.
LEMMA AllSaidKeeps ==
  ASSUME NEW P, NEW s \in P, Len(uart) \in Nat,
         \A x \in P, i \in 1 .. Len(uart) : ModuleSaid(x, uart[i]) \in P
  PROVE  AllSaid(s) \in P
<1> DEFINE n == Len(uart)
           step == [a \in P \X (1 .. n) |-> ModuleSaid(a[1], uart[a[2]])]
           Is(f) == f = [i \in 0 .. n |-> IF i = 0 THEN s ELSE ModuleSaid(f[i - 1], uart[i])]
           after == CHOOSE f : Is(f)
<1>1. \A x \in P, i \in 1 .. n : step[<<x, i>>] = ModuleSaid(x, uart[i])
  OBVIOUS
<1>2. \E f : Is(f)
  <2> HIDE DEF step, n
  <2>1. \E h : TakenFrom(s, n, P, step, h)
    <3>1. StaysIn(n, P, step)
      BY <1>1 DEF n, StaysIn
    <3>2. n \in Nat
      BY DEF n
    <3> QED BY <3>1, <3>2, Iterated
  <2> PICK h : TakenFrom(s, n, P, step, h)
    BY <2>1
  <2>2. \A i \in 1 .. n : h[i] = ModuleSaid(h[i - 1], uart[i])
    <3> TAKE i \in 1 .. n
    <3>1. i - 1 \in 0 .. n
      BY DEF n
    <3>2. h[i - 1] \in P
      BY <3>1 DEF TakenFrom
    <3> QED BY <1>1, <3>2 DEF TakenFrom
  <2>3. h = [i \in 0 .. n |-> IF i = 0 THEN s ELSE ModuleSaid(h[i - 1], uart[i])]
    BY <2>2 DEF n, TakenFrom
  <2> QED BY <2>3
<1>3. Is(after)
  BY <1>2
<1>4. AllSaid(s) = after[n]
  BY DEF AllSaid
<1> HIDE DEF after
<1>5. after[0] = s /\ \A i \in 1 .. n : after[i] = ModuleSaid(after[i - 1], uart[i])
  BY <1>3
<1> DEFINE T == {i \in 0 .. n : after[i] \in P}
<1>6. n \in T
  <2>1. 0 \in T /\ \A i \in 1 .. n : i - 1 \in T => i \in T
    BY <1>5
  <2> HIDE DEF T
  <2>2. \A i \in 0 .. n : i \in T
    BY <2>1, UpTo
  <2> QED BY <2>2
<1> QED BY <1>4, <1>6

-----------------------------------------------------------------------------
(* The invariant. *)

ServerInv ==
    /\ tcpServer \in Servers
    /\ Len(tcpServer.tx) <= TxSlots /\ Len(tcpServer.rx) <= RxSlots

ModuleInv ==
    /\ uart \in Seq(Events)
    /\ client \in [Clients -> [at : {"idle", "open", "ended"}, input : Seq(Verbs)]]

\* What a reply to c would meet: c, or nobody because c is gone.
Faces(s, c) == s.replyTo = c \/ (s.replyTo = Udp /\ c \notin s.open)

Excuses == {"barged", "gone", "motion", "waited"}
Fibers == [at : {"poll", "write", "drain"}, for : LastOf, verb : Verbs \cup {Banner}, left : Nat,
           queued : Nat, waited : 0 .. ReplyWait, budget : Nat, motion : BOOLEAN, job : BOOLEAN,
           excuses : SUBSET Excuses]

(* While a reply is written, the target is the client it is for; what of it *)
(* is queued and what is left are the whole of it; and only a reply that    *)
(* has lines left, with no wire motion live, is waiting.                    *)
FiberInv ==
    /\ wifiFiber \in Fibers
    /\ wifiFiber.at = "write" /\ wifiFiber.excuses = {} =>
         wifiFiber.queued + wifiFiber.left = LinesOf(wifiFiber.verb)
    /\ wifiFiber.at = "write" /\ "barged" \notin wifiFiber.excuses => Faces(tcpServer, wifiFiber.for)
    /\ wifiFiber.waited # 0 => wifiFiber.at = "write" /\ wifiFiber.left > 0 /\ wifiFiber.motion = FALSE

(* Until the tool itself shuts the socket down, only the peer can have      *)
(* closed it.                                                               *)
PipeInv ==
    /\ rogo \in [at : {"piping", "decided", "left", "done"}, feeder : {"reading", "ended"}, sent : Nat,
                 socket : {"open", "closed by peer", "shut"}, closed : BOOLEAN, byPeer : BOOLEAN,
                 peerClosed : BOOLEAN, rc : {0, 1}]
    /\ rogo.at \in {"piping", "decided"} /\ (rogo.socket # "open" \/ rogo.closed = TRUE) => rogo.byPeer = TRUE
    /\ rogo.peerClosed = TRUE => rogo.byPeer = TRUE
    /\ rogo.rc = 1 => rogo.byPeer = TRUE

RogoInv == ServerInv /\ ModuleInv /\ FiberInv /\ PipeInv

-----------------------------------------------------------------------------
(* WifiLink. *)

\* What a pass keeps of the server: its transmit ring, and, for a reply to c
\* while nobody connects, whom it would meet.
Served(tx, c, facing) ==
    {s \in Servers : Len(s.rx) <= RxSlots /\ s.tx = tx /\ (facing => Faces(s, c))}

LEMMA SaidStep ==
  ASSUME NEW tx, NEW c, NEW facing \in BOOLEAN, NEW s \in Served(tx, c, facing), NEW event \in Events,
         facing => event.says # "CONNECT"
  PROVE  ModuleSaid(s, event) \in Served(tx, c, facing)
<1>1. s \in Servers /\ Len(s.rx) <= RxSlots /\ s.tx = tx /\ (facing => Faces(s, c))
  BY DEF Served
<1>2. event.says = "sent" \/ (event.link \in Clients /\ event.says \in Verbs \cup {"CONNECT", "CLOSED"})
  BY DEF Events
<1>3. CASE event.says = "CONNECT"
  <2>1. ModuleSaid(s, event) = Connected(s, event.link)
    BY <1>3, Zenon DEF ModuleSaid
  <2>2. event.link \in Clients /\ facing = FALSE
    BY <1>2, <1>3
  <2> DEFINE t == Connected(s, event.link)
  <2>3. t \in Servers /\ t.rx = s.rx /\ t.tx = s.tx
    BY <1>1, <2>2 DEF Connected, Servers, LastOf
  <2> HIDE DEF t
  <2> QED BY <1>1, <2>1, <2>2, <2>3 DEF Served, t
<1>4. CASE event.says = "CLOSED"
  <2>1. ModuleSaid(s, event) = Disconnected(s, event.link)
    BY <1>4 DEF ModuleSaid
  <2>2. event.link \in Clients
    BY <1>2, <1>4
  <2> DEFINE t == Disconnected(s, event.link)
  <2>3. /\ t \in Servers /\ t.rx = s.rx /\ t.tx = s.tx
        /\ t.open = s.open \ {event.link}
        /\ t.replyTo = IF s.replyTo = event.link THEN Udp ELSE s.replyTo
    BY <1>1, <2>2 DEF Disconnected, Servers, LastOf
  <2> HIDE DEF t
  <2>4. facing => Faces(t, c)
    BY <1>1, <2>2, <2>3, RogoConstants DEF Faces
  <2> QED BY <1>1, <2>1, <2>3, <2>4 DEF Served, t
<1>5. CASE event.says = "sent"
  <2>1. ModuleSaid(s, event) = [s EXCEPT !.sending = FALSE]
    BY <1>5 DEF ModuleSaid
  <2> DEFINE t == [s EXCEPT !.sending = FALSE]
  <2>2. /\ t \in Servers /\ t.rx = s.rx /\ t.tx = s.tx /\ t.open = s.open /\ t.replyTo = s.replyTo
    BY <1>1 DEF Servers
  <2> HIDE DEF t
  <2>3. facing => Faces(t, c)
    BY <1>1, <2>2 DEF Faces
  <2> QED BY <1>1, <2>1, <2>2, <2>3 DEF Served, t
<1>6. CASE event.says \notin {"CONNECT", "CLOSED", "sent"}
  <2> DEFINE line == [from |-> event.link, verb |-> event.says]
             t == [s EXCEPT !.rx = Append(@, line)]
  <2>1. ModuleSaid(s, event) = IF event.link \in s.open THEN pushRxLine(s, line) ELSE s
    BY <1>6 DEF ModuleSaid
  <2>2. line \in [from : Clients, verb : Verbs] /\ s.rx \in Seq([from : Clients, verb : Verbs])
    BY <1>1, <1>2, <1>6 DEF Servers
  <2>3. Append(s.rx, line) \in Seq([from : Clients, verb : Verbs]) /\ Len(Append(s.rx, line)) = Len(s.rx) + 1
        /\ Len(s.rx) \in Nat
    BY <2>2, AppendProperties, LenProperties
  <2> HIDE DEF line
  <2>4. t \in Servers /\ t.rx = Append(s.rx, line) /\ t.tx = s.tx /\ t.open = s.open /\ t.replyTo = s.replyTo
    BY <1>1, <2>3 DEF Servers
  <2>5. CASE event.link \in s.open /\ Len(s.rx) < RxSlots
    <3>1. ModuleSaid(s, event) = t
      BY <2>1, <2>3, <2>5, RogoConstants DEF pushRxLine
    <3> HIDE DEF t
    <3>2. Len(t.rx) <= RxSlots /\ (facing => Faces(t, c))
      BY <1>1, <2>3, <2>4, <2>5, RogoConstants DEF Faces
    <3> QED BY <1>1, <2>4, <3>1, <3>2 DEF Served
  <2>6. CASE ~(event.link \in s.open /\ Len(s.rx) < RxSlots)
    <3>1. ModuleSaid(s, event) = s
      BY <2>1, <2>3, <2>6, RogoConstants DEF pushRxLine
    <3> QED BY <3>1
  <2> QED BY <2>5, <2>6
<1> QED BY <1>3, <1>4, <1>5, <1>6

LEMMA QueueTail ==
  ASSUME NEW tx \in Queues, tx # <<>>
  PROVE  Tail(tx) \in Queues /\ Len(Tail(tx)) <= Len(tx)
<1>1. ASSUME NEW S, tx \in Seq(S) PROVE Tail(tx) \in Seq(S) /\ Len(Tail(tx)) <= Len(tx)
  BY <1>1, HeadTailProperties, LenProperties
<1> QED BY <1>1 DEF Queues

LEMMA ServiceKeeps ==
  ASSUME ServerInv, ModuleInv, NEW c, NEW facing \in BOOLEAN,
         facing => Faces(tcpServer, c) /\ \A i \in DOMAIN uart : uart[i].says # "CONNECT"
  PROVE  LET s == Service(tcpServer) IN
         /\ s \in Servers /\ Len(s.tx) <= TxSlots /\ Len(s.rx) <= RxSlots
         /\ facing => Faces(s, c)
<1> DEFINE P == Served(tcpServer.tx, c, facing)
           heard == AllSaid(tcpServer)
<1>1. tcpServer \in P
  BY DEF ServerInv, Served
<1>2. Len(uart) \in Nat /\ \A i \in 1 .. Len(uart) : uart[i] \in Events /\ (facing => uart[i].says # "CONNECT")
  BY LenProperties, ElementOfSeq DEF ModuleInv
<1>3. \A x \in P, i \in 1 .. Len(uart) : ModuleSaid(x, uart[i]) \in P
  BY <1>2, SaidStep
<1>4. heard \in P
  <2> HIDE DEF P
  <2> QED BY <1>1, <1>2, <1>3, AllSaidKeeps
<1> HIDE DEF heard
<1>5. /\ heard \in Servers /\ Len(heard.rx) <= RxSlots /\ heard.tx = tcpServer.tx
      /\ facing => Faces(heard, c)
  BY <1>4 DEF Served
<1>6. tcpServer.tx \in Queues /\ Len(tcpServer.tx) <= TxSlots
  BY DEF ServerInv, Servers
<1>7. Service(tcpServer) = heard \/ Service(tcpServer) = popNextSend(heard)
  BY DEF Service, heard
<1>8. CASE Service(tcpServer) = heard
  BY <1>5, <1>6, <1>8
<1>9. CASE Service(tcpServer) # heard /\ Service(tcpServer) = popNextSend(heard)
  <2> DEFINE s == [heard EXCEPT !.sending = TRUE, !.tx = Tail(@)]
  <2>1. Service(tcpServer) = s /\ heard.tx # <<>>
    BY <1>9 DEF popNextSend
  <2>2. Tail(heard.tx) \in Queues /\ Len(Tail(heard.tx)) <= TxSlots
    <3>1. Tail(tcpServer.tx) \in Queues /\ Len(Tail(tcpServer.tx)) <= Len(tcpServer.tx)
      BY <1>5, <1>6, <2>1, QueueTail
    <3>2. Len(tcpServer.tx) \in Nat /\ Len(Tail(tcpServer.tx)) \in Nat
      BY <1>6, <3>1, LenProperties DEF Queues
    <3> QED BY <1>5, <1>6, <3>1, <3>2, RogoConstants
  <2>3. /\ s \in Servers /\ s.tx = Tail(heard.tx) /\ s.rx = heard.rx /\ s.open = heard.open
        /\ s.replyTo = heard.replyTo
    BY <1>5, <2>2 DEF Servers
  <2> HIDE DEF s
  <2> QED BY <1>5, <2>1, <2>2, <2>3 DEF Faces
<1> QED BY <1>7, <1>8, <1>9

-----------------------------------------------------------------------------
(* serviceWifi(). *)

LEMMA LinesOfVerbs ==
  ASSUME NEW verb \in Verbs \cup {Banner}
  PROVE  LinesOf(verb) \in Nat
BY RogoConstants DEF LinesOf

\* A reply is begun.
LEMMA ReplyingOK ==
  ASSUME NEW f \in Fibers, NEW for \in LastOf, NEW verb \in Verbs \cup {Banner}, NEW barged \in BOOLEAN
  PROVE  LET r == Replying(f, for, verb, barged) IN
         /\ r \in Fibers /\ r.for = for /\ r.waited = 0
         /\ r.queued + r.left = LinesOf(r.verb)
         /\ "barged" \notin r.excuses => barged = FALSE
<1> DEFINE r == Replying(f, for, verb, barged)
           excuses == IF barged THEN {"barged"} ELSE {}
<1>1. LinesOf(verb) \in Nat /\ 0 + LinesOf(verb) = LinesOf(verb)
  BY LinesOfVerbs
<1>2. excuses \in SUBSET Excuses /\ ("barged" \notin excuses => barged = FALSE)
  BY DEF Excuses
<1>3. 0 \in 0 .. ReplyWait
  BY RogoConstants
<1> HIDE DEF excuses
<1>4. r = [f EXCEPT !.at = "write", !.for = for, !.verb = verb, !.left = LinesOf(verb),
                    !.queued = 0, !.waited = 0, !.excuses = excuses]
  BY DEF Replying, excuses
<1>5. r \in Fibers /\ r.for = for /\ r.waited = 0 /\ r.queued = 0 /\ r.left = LinesOf(verb)
      /\ r.verb = verb /\ r.excuses = excuses
  <2> DEFINE lines == LinesOf(verb)
  <2>1. r = [f EXCEPT !.at = "write", !.for = for, !.verb = verb, !.left = lines,
                      !.queued = 0, !.waited = 0, !.excuses = excuses]
    BY <1>4
  <2>2. lines \in Nat /\ 0 \in Nat
    BY <1>1
  <2> HIDE DEF r, lines
  <2>3. r \in Fibers
    BY <1>2, <1>3, <2>1, <2>2 DEF Fibers
  <2>4. /\ r.for = for /\ r.waited = 0 /\ r.queued = 0 /\ r.left = lines
        /\ r.verb = verb /\ r.excuses = excuses
    BY <2>1 DEF Fibers
  <2> QED BY <2>3, <2>4 DEF lines
<1> HIDE DEF r
<1> QED BY <1>1, <1>2, <1>5 DEF r

LEMMA ServicePassStep ==
  ASSUME ServerInv, ModuleInv, FiberInv, ServicePass
  PROVE  ServerInv' /\ ModuleInv' /\ FiberInv'
<1> DEFINE s == Service(tcpServer)
<1>1. s \in Servers /\ Len(s.tx) <= TxSlots /\ Len(s.rx) <= RxSlots
  BY ServiceKeeps
<1>2. PICK motion \in {wifiFiber.motion, FALSE}, job \in BOOLEAN :
        LET f == [wifiFiber EXCEPT !.motion = motion, !.job = job, !.budget = DrainPerPass] IN
        wifiFiber' = IF s.edge THEN Replying(f, s.newest, Banner, s.replyTo # s.newest)
                     ELSE [f EXCEPT !.at = "drain"]
  BY DEF ServicePass
<1>3. wifiFiber.at = "poll" /\ tcpServer' = [s EXCEPT !.edge = FALSE] /\ uart' = <<>> /\ client' = client
  BY DEF ServicePass
<1> HIDE DEF s
<1>4. /\ tcpServer' \in Servers /\ tcpServer'.tx = s.tx /\ tcpServer'.rx = s.rx
      /\ tcpServer'.replyTo = s.replyTo /\ s.newest \in LastOf /\ s.edge \in BOOLEAN
  BY <1>1, <1>3 DEF Servers
<1>5. ServerInv'
  BY <1>1, <1>4 DEF ServerInv
<1>6. ModuleInv'
  BY <1>3, EmptySeq DEF ModuleInv
<1> DEFINE f == [wifiFiber EXCEPT !.motion = motion, !.job = job, !.budget = DrainPerPass]
<1>7. wifiFiber \in Fibers /\ wifiFiber.waited = 0
  BY <1>3 DEF FiberInv
<1>8. f \in Fibers /\ f.waited = 0
  BY <1>7, RogoConstants DEF Fibers
<1> HIDE DEF f
<1>9. CASE s.edge
  <2> DEFINE barged == s.replyTo # s.newest
  <2>1. wifiFiber' = Replying(f, s.newest, Banner, barged) /\ barged \in BOOLEAN
    BY <1>2, <1>9 DEF f
  <2> HIDE DEF barged
  <2>2. /\ wifiFiber' \in Fibers /\ wifiFiber'.for = s.newest /\ wifiFiber'.waited = 0
        /\ wifiFiber'.queued + wifiFiber'.left = LinesOf(wifiFiber'.verb)
        /\ "barged" \notin wifiFiber'.excuses => barged = FALSE
    <3>1. Banner \in Verbs \cup {Banner}
      OBVIOUS
    <3>2. LET r == Replying(f, s.newest, Banner, barged) IN
          /\ r \in Fibers /\ r.for = s.newest /\ r.waited = 0
          /\ r.queued + r.left = LinesOf(r.verb)
          /\ "barged" \notin r.excuses => barged = FALSE
      BY <1>4, <1>8, <2>1, <3>1, ReplyingOK
    <3> QED BY <2>1, <3>2
  <2>3. barged = FALSE => Faces(tcpServer', s.newest)
    BY <1>4 DEF Faces, barged
  <2>4. FiberInv'
    BY <2>2, <2>3 DEF FiberInv
  <2> QED BY <1>5, <1>6, <2>4
<1>10. CASE ~s.edge
  <2>1. wifiFiber' = [f EXCEPT !.at = "drain"]
    BY <1>2, <1>10 DEF f
  <2>2. wifiFiber' \in Fibers /\ wifiFiber'.at = "drain" /\ wifiFiber'.waited = 0
    BY <1>8, <2>1 DEF Fibers
  <2> QED BY <1>5, <1>6, <2>2 DEF FiberInv
<1> QED BY <1>9, <1>10

LEMMA TakeLineStep ==
  ASSUME ServerInv, FiberInv, TakeLine
  PROVE  ServerInv' /\ FiberInv'
<1> DEFINE line == Head(tcpServer.rx)
           f == [wifiFiber EXCEPT !.budget = @ - 1]
<1>1. /\ wifiFiber.at = "drain" /\ wifiFiber.budget > 0 /\ tcpServer.rx # <<>>
      /\ tcpServer' = [tcpServer EXCEPT !.rx = Tail(@), !.replyTo = line.from]
      /\ wifiFiber' = Replying(f, line.from, line.verb, FALSE)
  BY DEF TakeLine, TargetOfLine
<1>2. /\ tcpServer \in Servers /\ Len(tcpServer.tx) <= TxSlots /\ Len(tcpServer.rx) <= RxSlots
      /\ tcpServer.rx \in Seq([from : Clients, verb : Verbs])
  BY DEF ServerInv, Servers
<1>3. line \in [from : Clients, verb : Verbs]
      /\ Tail(tcpServer.rx) \in Seq([from : Clients, verb : Verbs])
      /\ Len(Tail(tcpServer.rx)) = Len(tcpServer.rx) - 1 /\ Len(tcpServer.rx) \in Nat
  BY <1>1, <1>2, HeadTailProperties, LenProperties
<1>4. line.from \in Clients /\ line.from \in LastOf /\ line.verb \in Verbs
  BY <1>3 DEF LastOf
<1> HIDE DEF line
<1>5. /\ tcpServer' \in Servers /\ tcpServer'.tx = tcpServer.tx /\ tcpServer'.rx = Tail(tcpServer.rx)
      /\ tcpServer'.replyTo = line.from
  BY <1>1, <1>2, <1>3, <1>4 DEF Servers
<1>6. ServerInv'
  BY <1>2, <1>3, <1>5, RogoConstants DEF ServerInv
<1>7. wifiFiber \in Fibers
  BY DEF FiberInv
<1>8. f \in Fibers
  BY <1>1, <1>7 DEF Fibers
<1> HIDE DEF f
<1>9. /\ wifiFiber' \in Fibers /\ wifiFiber'.for = line.from /\ wifiFiber'.waited = 0
      /\ wifiFiber'.queued + wifiFiber'.left = LinesOf(wifiFiber'.verb)
  BY <1>1, <1>4, <1>8, ReplyingOK
<1>10. Faces(tcpServer', wifiFiber'.for)
  BY <1>5, <1>9 DEF Faces
<1> QED BY <1>6, <1>9, <1>10 DEF FiberInv

LEMMA PumpStep ==
  ASSUME ServerInv, ModuleInv, FiberInv, PumpWhileWaiting
  PROVE  ServerInv' /\ ModuleInv' /\ FiberInv'
<1> DEFINE connect == \E i \in DOMAIN uart : uart[i].says = "CONNECT"
           more == IF connect THEN {"barged"} ELSE {}
           facing == ~connect /\ "barged" \notin wifiFiber.excuses
           s == Service(tcpServer)
<1>1. /\ wifiFiber.at = "write" /\ wifiFiber.left > 0 /\ MayWait
      /\ tcpServer' = s
      /\ wifiFiber' = [wifiFiber EXCEPT !.waited = @ + 1, !.excuses = @ \cup more]
      /\ uart' = <<>> /\ client' = client
  BY DEF PumpWhileWaiting
<1>2. wifiFiber \in Fibers /\ wifiFiber.excuses \in SUBSET Excuses /\ wifiFiber.waited \in 0 .. ReplyWait
      /\ wifiFiber.motion \in BOOLEAN
  BY DEF FiberInv, Fibers
<1>3. facing \in BOOLEAN
      /\ (facing => Faces(tcpServer, wifiFiber.for) /\ \A i \in DOMAIN uart : uart[i].says # "CONNECT")
  BY <1>1 DEF FiberInv
<1>4. /\ s \in Servers /\ Len(s.tx) <= TxSlots /\ Len(s.rx) <= RxSlots
      /\ facing => Faces(s, wifiFiber.for)
  <2> HIDE DEF facing
  <2> QED BY <1>3, ServiceKeeps
<1>5. more \in SUBSET Excuses /\ ("barged" \notin wifiFiber.excuses \cup more => facing)
  BY DEF Excuses
<1> HIDE DEF s, more, facing
<1>6. ServerInv'
  BY <1>1, <1>4 DEF ServerInv
<1>7. ModuleInv'
  BY <1>1, EmptySeq DEF ModuleInv
<1>8. wifiFiber.waited + 1 \in 0 .. ReplyWait /\ wifiFiber.motion = FALSE
  BY <1>1, <1>2, RogoConstants DEF MayWait
<1>9. /\ wifiFiber' \in Fibers /\ wifiFiber'.at = "write" /\ wifiFiber'.left = wifiFiber.left
      /\ wifiFiber'.motion = FALSE /\ wifiFiber'.queued = wifiFiber.queued
      /\ wifiFiber'.verb = wifiFiber.verb /\ wifiFiber'.for = wifiFiber.for
      /\ wifiFiber'.excuses = wifiFiber.excuses \cup more
  BY <1>1, <1>2, <1>5, <1>8 DEF Fibers
<1>10. "barged" \notin wifiFiber'.excuses => Faces(tcpServer', wifiFiber'.for)
  BY <1>1, <1>4, <1>5, <1>9
<1>11. wifiFiber'.excuses = {} => wifiFiber.excuses = {}
  BY <1>9
<1> QED BY <1>1, <1>6, <1>7, <1>9, <1>10, <1>11 DEF FiberInv

\* Whom a line goes to, and what became of the ring.
LEMMA QueuedKeeps ==
  ASSUME ServerInv, NEW e \in Replies
  PROVE  LET s == Queued(e) IN
         /\ s \in Servers /\ Len(s.tx) <= TxSlots /\ s.rx = tcpServer.rx /\ s.open = tcpServer.open
         /\ s.replyTo = ReplyTarget
         /\ Reachable /\ HasRoom => Len(s.tx) > Len(Purged(tcpServer.tx))
<1> DEFINE tx == Purged(tcpServer.tx)
           new == IF Len(tx) >= TxSlots THEN tx ELSE Append(tx, e)
           s == Queued(e)
<1>1. tcpServer \in Servers /\ tcpServer.tx \in Queues /\ Len(tcpServer.tx) <= TxSlots
  BY DEF ServerInv, Servers
<1>2. tx \in Seq(Replies) /\ Len(tx) <= Len(tcpServer.tx) /\ Len(tx) \in Nat /\ Len(tcpServer.tx) \in Nat
  BY <1>1, PurgedIsReplies, LenProperties DEF Queues
<1> HIDE DEF tx
<1>3. ReplyTarget \in LastOf
  BY <1>1 DEF ReplyTarget, Servers, LastOf
<1>4. e.tel = FALSE
  BY DEF Replies
<1>5. new \in Queues /\ Len(new) <= TxSlots /\ (HasRoom => Len(new) > Len(tx))
  <2>1. Append(tx, e) \in Seq(Replies) /\ Len(Append(tx, e)) = Len(tx) + 1
    BY <1>2, AppendProperties
  <2>2. CASE Len(tx) >= TxSlots
    BY <1>1, <1>2, <2>2, RogoConstants DEF Queues, HasRoom
  <2>3. CASE ~(Len(tx) >= TxSlots)
    BY <1>1, <1>2, <2>1, <2>3, RogoConstants DEF Queues, HasRoom
  <2> QED BY <2>2, <2>3
<1>6. CASE Reachable
  <2>1. s = [tcpServer EXCEPT !.replyTo = ReplyTarget, !.tx = new]
    BY <1>4, <1>6, Zenon DEF Queued, tx
  <2> HIDE DEF new
  <2>2. s \in Servers /\ s.tx = new /\ s.rx = tcpServer.rx /\ s.open = tcpServer.open
        /\ s.replyTo = ReplyTarget
    BY <1>1, <1>3, <1>5, <2>1 DEF Servers
  <2> HIDE DEF s
  <2> QED BY <1>5, <2>2 DEF s, tx
<1>7. CASE ~Reachable
  <2>1. s = [tcpServer EXCEPT !.replyTo = ReplyTarget]
    BY <1>7 DEF Queued
  <2>2. s \in Servers /\ s.tx = tcpServer.tx /\ s.rx = tcpServer.rx /\ s.open = tcpServer.open
        /\ s.replyTo = ReplyTarget
    BY <1>1, <1>3, <2>1 DEF Servers
  <2> HIDE DEF s
  <2> QED BY <1>1, <1>7, <2>2 DEF s
<1> QED BY <1>6, <1>7

LEMMA WriteLineStep ==
  ASSUME ServerInv, FiberInv, WriteLine
  PROVE  ServerInv' /\ FiberInv'
<1> DEFINE f == wifiFiber
           e == [to |-> ReplyTarget, for |-> f.for, tel |-> FALSE, barged |-> "barged" \in f.excuses]
           counted == Len(tcpServer'.tx) > Len(Purged(tcpServer.tx)) /\ ReplyTarget = f.for
           more == (IF f.for \notin tcpServer.open THEN {"gone"} ELSE {})
                     \cup (IF f.motion THEN {"motion"} ELSE {})
                     \cup (IF f.waited = ReplyWait THEN {"waited"} ELSE {})
<1>1. /\ f.at = "write" /\ f.left > 0 /\ ~MayWait /\ tcpServer' = Queued(e)
  BY DEF WriteLine
<1>2. wifiFiber' = [wifiFiber EXCEPT !.left = @ - 1, !.waited = 0,
                      !.queued = IF counted THEN @ + 1 ELSE @, !.excuses = @ \cup more]
  <2>1. wifiFiber' = [wifiFiber EXCEPT !.left = @ - 1, !.waited = 0,
            !.queued = IF counted THEN @ + 1 ELSE @,
            !.excuses = @ \cup (IF f.for \notin tcpServer.open THEN {"gone"} ELSE {})
                          \cup (IF f.motion THEN {"motion"} ELSE {})
                          \cup (IF f.waited = ReplyWait THEN {"waited"} ELSE {})]
    BY DEF WriteLine
  <2>2. f.excuses \cup more = f.excuses \cup (IF f.for \notin tcpServer.open THEN {"gone"} ELSE {})
                          \cup (IF f.motion THEN {"motion"} ELSE {})
                          \cup (IF f.waited = ReplyWait THEN {"waited"} ELSE {})
    OBVIOUS
  <2> HIDE DEF counted, more
  <2> QED BY <2>1, <2>2, Zenon
<1>3. /\ f \in Fibers /\ f.for \in LastOf /\ f.left \in Nat /\ f.queued \in Nat /\ f.waited \in 0 .. ReplyWait
      /\ f.motion \in BOOLEAN /\ f.excuses \in SUBSET Excuses /\ f.verb \in Verbs \cup {Banner}
      /\ "barged" \notin f.excuses => Faces(tcpServer, f.for)
      /\ f.excuses = {} => f.queued + f.left = LinesOf(f.verb)
  BY <1>1 DEF FiberInv, Fibers
<1>4. /\ tcpServer \in Servers /\ tcpServer.open \subseteq Clients /\ tcpServer.replyTo \in LastOf
      /\ Len(tcpServer.rx) <= RxSlots /\ ReplyTarget \in LastOf
  BY DEF ServerInv, Servers, ReplyTarget, LastOf
<1>5. Faces(tcpServer, f.for) => ReplyTarget = f.for \/ ReplyTarget = Udp
  BY DEF Faces, ReplyTarget
<1>6. e \in Replies
  <2>1. e \in TxLines
    <3>1. ("barged" \in f.excuses) \in BOOLEAN
      OBVIOUS
    <3> HIDE DEF f
    <3> QED BY <1>3, <1>4, <3>1, Zenon DEF TxLines
  <2>2. e.tel = FALSE /\ (e.to = e.for \/ e.to = Udp \/ "barged" \in f.excuses)
    BY <1>3, <1>5
  <2>3. "barged" \in f.excuses => e.barged = TRUE
    BY Zenon
  <2> HIDE DEF e
  <2> QED BY <2>1, <2>2, <2>3 DEF Replies
<1> HIDE DEF e, counted, more
<1>7. /\ tcpServer' \in Servers /\ Len(tcpServer'.tx) <= TxSlots /\ tcpServer'.rx = tcpServer.rx
      /\ tcpServer'.open = tcpServer.open /\ tcpServer'.replyTo = ReplyTarget
      /\ Reachable /\ HasRoom => Len(tcpServer'.tx) > Len(Purged(tcpServer.tx))
  BY <1>1, <1>6, QueuedKeeps
<1>8. ServerInv'
  BY <1>4, <1>7 DEF ServerInv
<1>9. more \in SUBSET Excuses /\ "barged" \notin more
  BY DEF more, Excuses
<1>10. /\ wifiFiber' \in Fibers /\ wifiFiber'.left = f.left - 1 /\ wifiFiber'.waited = 0
       /\ wifiFiber'.queued = (IF counted THEN f.queued + 1 ELSE f.queued)
       /\ wifiFiber'.excuses = f.excuses \cup more /\ wifiFiber'.verb = f.verb /\ wifiFiber'.for = f.for
  <2>1. f.left - 1 \in Nat /\ 0 \in 0 .. ReplyWait /\ (IF counted THEN f.queued + 1 ELSE f.queued) \in Nat
        /\ f.excuses \cup more \in SUBSET Excuses
    BY <1>1, <1>3, <1>9, RogoConstants
  <2> QED BY <1>2, <1>3, <2>1 DEF Fibers
<1>11. f.excuses \cup more = {} => counted
  <2> SUFFICES ASSUME f.excuses = {}, more = {} PROVE counted
    OBVIOUS
  <2>1. f.for \in tcpServer.open /\ f.motion = FALSE /\ f.waited # ReplyWait
    BY <1>3 DEF more
  <2>2. ReplyTarget = f.for /\ f.for # Udp
    BY <1>3, <1>4, <2>1, RogoConstants DEF Faces, ReplyTarget
  <2>3. HasRoom
    <3>1. f.waited < ReplyWait
      BY <1>3, <2>1, RogoConstants
    <3> QED BY <1>1, <2>1, <3>1 DEF MayWait
  <2>4. Reachable
    BY <2>2 DEF Reachable
  <2> QED BY <1>7, <2>2, <2>3, <2>4 DEF counted
<1>12. wifiFiber'.excuses = {} => wifiFiber'.queued + wifiFiber'.left = LinesOf(wifiFiber'.verb)
  <2>1. (f.queued + 1) + (f.left - 1) = f.queued + f.left
    BY <1>3
  <2> QED BY <1>3, <1>10, <1>11, <2>1
<1>13. "barged" \notin wifiFiber'.excuses => Faces(tcpServer', wifiFiber'.for)
  <2>1. Faces(tcpServer, f.for) => Faces(tcpServer', f.for)
    BY <1>4, <1>7, RogoConstants DEF Faces, ReplyTarget
  <2> QED BY <1>3, <1>10, <2>1
<1> QED BY <1>8, <1>10, <1>12, <1>13 DEF FiberInv

LEMMA ReplyEndsStep ==
  ASSUME FiberInv, ReplyEnds
  PROVE  FiberInv'
<1>1. /\ wifiFiber.at = "write" /\ wifiFiber.left = 0
      /\ wifiFiber' = [wifiFiber EXCEPT !.at = "drain",
                         !.motion = @ \/ (wifiFiber.verb = "MOVE_TO" /\ ~wifiFiber.job), !.for = Udp, !.verb = Banner, !.queued = 0, !.excuses = {}]
  BY DEF ReplyEnds
<1>2. wifiFiber \in Fibers /\ wifiFiber.waited = 0
  BY <1>1 DEF FiberInv
<1> DEFINE motion == wifiFiber.motion \/ (wifiFiber.verb = "MOVE_TO" /\ ~wifiFiber.job)
<1>3. motion \in BOOLEAN /\ Udp \in LastOf /\ Banner \in Verbs \cup {Banner}
  BY DEF LastOf
<1>4. wifiFiber' = [wifiFiber EXCEPT !.at = "drain", !.motion = motion,
                         !.for = Udp, !.verb = Banner, !.queued = 0, !.excuses = {}]
  BY <1>1
<1> HIDE DEF motion
<1>5. wifiFiber' \in Fibers /\ wifiFiber'.at = "drain" /\ wifiFiber'.waited = 0
  BY <1>2, <1>3, <1>4 DEF Fibers, Excuses
<1> QED BY <1>5 DEF FiberInv

LEMMA PassEndsStep ==
  ASSUME ServerInv, FiberInv, PassEnds
  PROVE  ServerInv' /\ FiberInv'
<1> DEFINE e == [to |-> ReplyTarget, for |-> Udp, tel |-> TRUE, barged |-> FALSE]
<1>1. /\ wifiFiber.at = "drain" /\ wifiFiber' = [wifiFiber EXCEPT !.at = "poll"]
      /\ tcpServer' = tcpServer \/ (telemetryAllowed /\ tcpServer' = Queued(e))
  BY DEF PassEnds
<1>2. wifiFiber \in Fibers /\ wifiFiber.waited = 0
  BY <1>1 DEF FiberInv
<1>3. wifiFiber' \in Fibers /\ wifiFiber'.at = "poll" /\ wifiFiber'.waited = 0
  BY <1>1, <1>2 DEF Fibers
<1>4. CASE tcpServer' = tcpServer
  BY <1>3, <1>4 DEF ServerInv, FiberInv
<1>5. CASE telemetryAllowed /\ tcpServer' = Queued(e)
  <2>1. /\ tcpServer \in Servers /\ Len(tcpServer.rx) <= RxSlots /\ ReplyTarget \in LastOf /\ Udp \in LastOf
    BY DEF ServerInv, Servers, ReplyTarget, LastOf
  <2>2. e \in Frames
    BY <2>1, Zenon DEF Frames, TxLines
  <2>3. tcpServer.tx = <<>> /\ Reachable
    BY <1>5 DEF telemetryAllowed
  <2>4. Append(<<>>, e) \in Seq(Frames) /\ Len(Append(<<>>, e)) = 1 /\ Len(<<>>) = 0
    <3>1. <<>> \in Seq(Frames) /\ Len(<<>>) = 0
      BY EmptySeq
    <3> QED BY <2>2, <3>1, AppendProperties
  <2>5. e.tel = TRUE
    OBVIOUS
  <2> DEFINE ring == Append(<<>>, e)
  <2>6. tcpServer' = [tcpServer EXCEPT !.replyTo = ReplyTarget, !.tx = ring]
    <3>1. Queued(e) = [tcpServer EXCEPT !.replyTo = ReplyTarget,
                          !.tx = IF Len(tcpServer.tx) >= TxSlots THEN tcpServer.tx ELSE Append(tcpServer.tx, e)]
      BY <2>3, <2>5, Zenon DEF Queued
    <3>2. ~(Len(tcpServer.tx) >= TxSlots)
      BY <2>3, <2>4, RogoConstants
    <3> HIDE DEF e
    <3> QED BY <1>5, <2>3, <3>1, <3>2
  <2>7. ring \in Queues /\ Len(ring) <= TxSlots
    BY <2>4, RogoConstants DEF Queues
  <2> HIDE DEF ring
  <2>8. tcpServer' \in Servers /\ tcpServer'.tx = ring /\ tcpServer'.rx = tcpServer.rx
    BY <2>1, <2>6, <2>7 DEF Servers
  <2>9. ServerInv'
    BY <2>1, <2>7, <2>8 DEF ServerInv
  <2> QED BY <1>3, <2>9 DEF FiberInv
<1> QED BY <1>1, <1>3, <1>4, <1>5 DEF FiberInv

\* The module and its clients.
LEMMA ModuleSteps ==
  ASSUME ModuleInv, ModuleAnswers \/ \E c \in Clients : Connects(c) \/ Speaks(c) \/ Closes(c)
  PROVE  ModuleInv'
<1> DEFINE States == [at : {"idle", "open", "ended"}, input : Seq(Verbs)]
<1>1. uart \in Seq(Events) /\ client \in [Clients -> States]
  BY DEF ModuleInv
<1>2. ASSUME NEW event \in Events, uart' = Append(uart, event) PROVE uart' \in Seq(Events)
  BY <1>1, <1>2, AppendProperties
<1>3. CASE ModuleAnswers
  <2>1. [says |-> "sent", link |-> Udp] \in Events
    BY DEF Events
  <2> QED BY <1>1, <1>2, <1>3, <2>1 DEF ModuleAnswers, ModuleInv
<1>4. ASSUME NEW c \in Clients, Connects(c) PROVE ModuleInv'
  <2>1. PICK input \in Stdin[c] : client' = [client EXCEPT ![c] = [at |-> "open", input |-> input]]
    BY <1>4 DEF Connects
  <2>2. [at |-> "open", input |-> input] \in States
    BY RogoConstants
  <2>3. [says |-> "CONNECT", link |-> c] \in Events
    BY DEF Events
  <2>4. uart' \in Seq(Events)
    BY <1>2, <1>4, <2>3 DEF Connects, Reports
  <2> HIDE DEF States
  <2>5. client' \in [Clients -> States]
    BY <1>1, <2>1, <2>2
  <2> QED BY <2>4, <2>5 DEF ModuleInv, States
<1>5. ASSUME NEW c \in Clients, Speaks(c) PROVE ModuleInv'
  <2>1. client[c] \in States /\ client[c].input # <<>>
    BY <1>1, <1>5 DEF Speaks
  <2>2. Head(client[c].input) \in Verbs /\ Tail(client[c].input) \in Seq(Verbs)
    BY <2>1, HeadTailProperties
  <2>3. client' = [client EXCEPT ![c].input = Tail(@)]
    BY <1>5 DEF Speaks
  <2>4. [says |-> Head(client[c].input), link |-> c] \in Events
    BY <2>2 DEF Events
  <2>5. uart' \in Seq(Events)
    BY <1>2, <1>5, <2>4 DEF Speaks, Reports
  <2>6. [client[c] EXCEPT !.input = Tail(client[c].input)] \in States
    BY <2>1, <2>2
  <2> HIDE DEF States
  <2>7. client' \in [Clients -> States]
    BY <1>1, <2>3, <2>6
  <2> QED BY <2>5, <2>7 DEF ModuleInv, States
<1>6. ASSUME NEW c \in Clients, Closes(c) PROVE ModuleInv'
  <2>1. client' = [client EXCEPT ![c] = [at |-> "ended", input |-> <<>>]]
    BY <1>6 DEF Closes
  <2>2. [at |-> "ended", input |-> <<>>] \in States
    BY EmptySeq
  <2>3. [says |-> "CLOSED", link |-> c] \in Events
    BY DEF Events
  <2>4. uart' \in Seq(Events)
    BY <1>2, <1>6, <2>3 DEF Closes, Reports
  <2> HIDE DEF States
  <2>5. client' \in [Clients -> States]
    BY <1>1, <2>1, <2>2
  <2> QED BY <2>4, <2>5 DEF ModuleInv, States
<1> QED BY <1>3, <1>4, <1>5, <1>6

-----------------------------------------------------------------------------
(* rogo. *)

LEMMA PipeStep ==
  ASSUME PipeInv, PipeNext
  PROVE  PipeInv'
<1>1. /\ rogo \in [at : {"piping", "decided", "left", "done"}, feeder : {"reading", "ended"}, sent : Nat,
                   socket : {"open", "closed by peer", "shut"}, closed : BOOLEAN, byPeer : BOOLEAN,
                   peerClosed : BOOLEAN, rc : {0, 1}]
  BY DEF PipeInv
<1>2. CASE SendsLine
  <2>1. PICK raises \in IF rogo.socket = "open" THEN {FALSE} ELSE BOOLEAN :
          rogo' = [rogo EXCEPT !.sent = @ + 1, !.closed = raises]
    BY <1>2 DEF SendsLine, Pipes
  <2>2. raises \in BOOLEAN /\ (raises = TRUE => rogo.socket # "open")
    BY <2>1
  <2>3. /\ rogo' \in [at : {"piping", "decided", "left", "done"}, feeder : {"reading", "ended"}, sent : Nat,
                      socket : {"open", "closed by peer", "shut"}, closed : BOOLEAN, byPeer : BOOLEAN,
                      peerClosed : BOOLEAN, rc : {0, 1}]
        /\ rogo'.at = rogo.at /\ rogo'.socket = rogo.socket /\ rogo'.byPeer = rogo.byPeer
        /\ rogo'.peerClosed = rogo.peerClosed /\ rogo'.rc = rogo.rc /\ rogo'.closed = raises
    <3> DEFINE sent == rogo.sent + 1
    <3>1. sent \in Nat
      <4>1. rogo.sent \in Nat
        BY <1>1
      <4> QED BY <4>1
    <3>2. rogo' = [rogo EXCEPT !.sent = sent, !.closed = raises]
      BY <2>1
    <3> HIDE DEF sent
    <3> QED BY <1>1, <2>2, <3>1, <3>2
  <2> QED BY <2>2, <2>3 DEF PipeInv
<1>3. CASE FeederEnds
  BY <1>1, <1>3 DEF FeederEnds, Pipes, PipeInv
<1>4. CASE ReaderSeesEnd
  BY <1>1, <1>4 DEF ReaderSeesEnd, Pipes, PipeInv
<1>5. CASE PeerCloses
  BY <1>1, <1>5 DEF PeerCloses, Pipes, PipeInv
<1>6. CASE PipeWaitEnds
  BY <1>1, <1>6 DEF PipeWaitEnds, Pipes, PipeInv
<1>7. CASE ShutsDown
  BY <1>1, <1>7 DEF ShutsDown, Pipes, PipeInv
<1>8. CASE PipeExits
  <2>1. ExitCode(rogo) \in {0, 1} /\ (ExitCode(rogo) = 1 => rogo.peerClosed = TRUE)
    <3>1. rogo.peerClosed = TRUE \/ rogo.peerClosed = FALSE
      BY <1>1
    <3>2. CASE rogo.peerClosed = TRUE
      BY <3>2 DEF ExitCode
    <3>3. CASE rogo.peerClosed = FALSE
      <4>1. ExitCode(rogo) = 0
        BY <3>3 DEF ExitCode
      <4> QED BY <4>1
    <3> QED BY <3>1, <3>2, <3>3
  <2>2. rogo' = [rogo EXCEPT !.at = "done", !.feeder = "ended", !.rc = ExitCode(rogo)]
    BY <1>8 DEF PipeExits, Pipes
  <2> QED BY <1>1, <2>1, <2>2 DEF PipeInv
<1> QED BY <1>2, <1>3, <1>4, <1>5, <1>6, <1>7, <1>8 DEF PipeNext

-----------------------------------------------------------------------------
(* Together. *)

LEMMA RogoInit_ == RogoInit => RogoInv
<1> SUFFICES ASSUME RogoInit PROVE RogoInv
  OBVIOUS
<1>1. ServerInv
  <2>1. <<>> \in Seq(Frames) /\ <<>> \in Seq([from : Clients, verb : Verbs]) /\ Len(<<>>) = 0
    BY EmptySeq
  <2>2. tcpServer \in Servers /\ tcpServer.tx = <<>> /\ tcpServer.rx = <<>>
    BY <2>1 DEF RogoInit, Servers, Queues, LastOf
  <2> QED BY <2>1, <2>2, RogoConstants DEF ServerInv
<1>2. ModuleInv
  BY EmptySeq DEF RogoInit, ModuleInv
<1>3. FiberInv
  <2>1. 0 \in 0 .. ReplyWait /\ DrainPerPass \in Nat
    BY RogoConstants
  <2>2. wifiFiber = [at |-> "poll", for |-> Udp, verb |-> Banner, left |-> 0, queued |-> 0,
                     waited |-> 0, budget |-> DrainPerPass, motion |-> FALSE, job |-> FALSE, excuses |-> {}]
    BY DEF RogoInit
  <2>3. wifiFiber \in Fibers
    BY <2>1, <2>2 DEF Fibers, LastOf, Excuses
  <2> QED BY <2>2, <2>3 DEF FiberInv
<1>4. PipeInv
  BY DEF RogoInit, PipeInv
<1> QED BY <1>1, <1>2, <1>3, <1>4 DEF RogoInv

LEMMA RogoStep == RogoInv /\ [ServerNext \/ PipeNext]_rogoVars => RogoInv'
<1> SUFFICES ASSUME RogoInv, [ServerNext \/ PipeNext]_rogoVars PROVE RogoInv'
  OBVIOUS
<1> USE DEF RogoInv
<1>1. /\ UNCHANGED tcpServer => ServerInv'
      /\ UNCHANGED <<uart, client>> => ModuleInv'
      /\ UNCHANGED <<tcpServer, wifiFiber>> => FiberInv'
      /\ UNCHANGED rogo => PipeInv'
  BY DEF ServerInv, ModuleInv, FiberInv, PipeInv, Faces
<1>2. CASE ServicePass \/ PumpWhileWaiting
  <2>1. UNCHANGED rogo
    BY <1>2 DEF ServicePass, PumpWhileWaiting
  <2> QED BY <1>1, <1>2, <2>1, ServicePassStep, PumpStep
<1>3. CASE TakeLine \/ WriteLine \/ PassEnds
  <2>1. UNCHANGED rogo /\ UNCHANGED <<uart, client>>
    BY <1>3 DEF TakeLine, WriteLine, PassEnds
  <2> QED BY <1>1, <1>3, <2>1, TakeLineStep, WriteLineStep, PassEndsStep
<1>4. CASE ReplyEnds
  <2>1. UNCHANGED rogo /\ UNCHANGED <<uart, client>> /\ UNCHANGED tcpServer
    BY <1>4 DEF ReplyEnds
  <2> QED BY <1>1, <1>4, <2>1, ReplyEndsStep
<1>5. CASE ModuleAnswers \/ \E c \in Clients : Connects(c) \/ Speaks(c) \/ Closes(c)
  <2>1. UNCHANGED rogo /\ UNCHANGED <<tcpServer, wifiFiber>> /\ UNCHANGED tcpServer
    BY <1>5 DEF ModuleAnswers, Connects, Speaks, Closes
  <2> QED BY <1>1, <1>5, <2>1, ModuleSteps
<1>6. CASE PipeNext
  <2>1. UNCHANGED tcpServer /\ UNCHANGED <<uart, client>> /\ UNCHANGED <<tcpServer, wifiFiber>>
    BY <1>6 DEF PipeNext, SendsLine, FeederEnds, ReaderSeesEnd, PeerCloses, PipeWaitEnds, ShutsDown,
                PipeExits, Pipes
  <2> QED BY <1>1, <1>6, <2>1, PipeStep
<1>7. CASE UNCHANGED rogoVars
  BY <1>1, <1>7 DEF rogoVars
<1> QED BY <1>2, <1>3, <1>4, <1>5, <1>6, <1>7 DEF ServerNext

LEMMA RogoInvSuffices == RogoInv => PipesAreSound /\ RogoTypeOK
<1> SUFFICES ASSUME RogoInv PROVE PipesAreSound /\ RogoTypeOK
  OBVIOUS
<1>1. tcpServer.tx \in Queues /\ tcpServer.open \subseteq Clients /\ tcpServer.replyTo \in LastOf
  BY DEF RogoInv, ServerInv, Servers
<1>2. \/ \A i \in DOMAIN tcpServer.tx : tcpServer.tx[i] \in Frames
      \/ \A i \in DOMAIN tcpServer.tx : tcpServer.tx[i] \in Replies
  BY <1>1, LenProperties, ElementOfSeq DEF Queues
<1>3. RepliesGoBack /\ NoReplyBehindTelemetry
  BY <1>2 DEF RepliesGoBack, NoReplyBehindTelemetry, Frames, Replies
<1>4. RepliesAreWhole
  <2>1. wifiFiber.queued \in Nat /\ \A q \in Nat : q + 0 = q
    BY DEF RogoInv, FiberInv, Fibers
  <2> QED BY <2>1 DEF RogoInv, FiberInv, RepliesAreWhole
<1>5. ExitCodeIsHonest
  BY DEF RogoInv, PipeInv, ExitCodeIsHonest
<1>6. RogoTypeOK
  BY <1>1 DEF RogoTypeOK, RogoInv, ServerInv, FiberInv, Fibers, LastOf
<1> QED BY <1>3, <1>4, <1>5, <1>6 DEF PipesAreSound

(* The server's rings and the fiber keep their bounds.                      *)
THEOREM RogoTypesHold == RogoSpec => []RogoTypeOK
<1>1. RogoInv => RogoTypeOK
  BY RogoInvSuffices
<1> QED BY <1>1, RogoInit_, RogoStep, PTL DEF RogoSpec

(* The one reply target and transmit ring behind every TCP client: whatever *)
(* the clients do and whenever they connect, speak or leave, a reply goes   *)
(* to the client it answers, and is whole, but for the excuses the code     *)
(* has; no reply stands behind telemetry, and rogo's exit code tells who    *)
(* closed the connection.                                                   *)
THEOREM PipesHold == RogoSpec => []PipesAreSound
<1>1. RogoInv => PipesAreSound
  BY RogoInvSuffices
<1> QED BY <1>1, RogoInit_, RogoStep, PTL DEF RogoSpec
===============================================================================
