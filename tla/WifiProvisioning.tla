-------------------------- MODULE WifiProvisioning --------------------------
(***************************************************************************)
(* tools/provision_wifi.py writes credentials into the robot's flash store  *)
(* over a sequenced link that loses lines and answers late, while the       *)
(* robot's join sequencer walks that store.  The ack of a SET says that the *)
(* line arrived; a refusal follows it as an err, and the write comes after. *)
(***************************************************************************)
EXTENDS Integers, Sequences, FiniteSets

CONSTANTS
    NSlots,         \* kSlots
    Networks,       \* credentials: ssid and password
    Right,          \* those the access point takes
    TooLong,        \* those set() refuses
    CommandLists,   \* what the tool is started with: --slot, --manifest, --clear
    InAir,          \* replies the carrier holds at once
    MaxCalls        \* lines sent in a behaviour

Slots == 0 .. NSlots - 1
Empty == "empty"

ASSUME WifiAssumption ==
    /\ NSlots \in Nat \ {0}
    /\ Right \subseteq Networks /\ TooLong \subseteq Networks
    /\ Empty \notin Networks
    /\ CommandLists \subseteq Seq([verb : {"set", "clear", "list"}, slot : Nat,
                                   cred : Networks \cup {Empty}])
    /\ InAir \in Nat /\ MaxCalls \in Nat

VARIABLES
    creds,      \* the store, flash and cache
    robotIds,   \* expectedNext_
    replies_,   \* lines on their way back
    walk,       \* WifiJoinSequencer and the state of its WifiLink
    wifiTool,   \* provision_wifi.py
    calls

wifiVars == <<creds, robotIds, replies_, walk, wifiTool, calls>>

kMaxAttemptsPerSlot == 2

Occupied(store) == {s \in Slots : store[s] # Empty}

-----------------------------------------------------------------------------
(* The join walk. *)

\* beginSlot(): history counts the failed attempts since each slot's turn.
beginSlot(w, slot) ==
    [w EXCEPT !.walking = TRUE, !.slot = slot, !.held = creds[slot], !.attempts = 0,
              !.link = "bring-up", !.waited = [@ EXCEPT ![slot] = 0]]

\* Mutant: the scan starts over at slot 0.
advanceTo_FromZero(w, from) ==
    IF Occupied(creds) = {} THEN w
    ELSE beginSlot(w, CHOOSE s \in Occupied(creds) : \A r \in Occupied(creds) : s <= r)

\* The first occupied slot from `from` on, around the end.
advanceTo(w, from) ==
    IF Occupied(creds) = {} THEN w
    ELSE beginSlot(w, CHOOSE s \in Occupied(creds) :
                        \A r \in Occupied(creds) : (s - from) % NSlots <= (r - from) % NSlots)

Unbegun == [begun |-> FALSE, walking |-> FALSE, slot |-> 0, attempts |-> 0, held |-> Empty,
            link |-> "disabled", error |-> 0, waited |-> [s \in Slots |-> 0]]

Walks(w) == walk' = w /\ UNCHANGED <<creds, robotIds, replies_, wifiTool, calls>>

FirstService == walk.begun /\ ~walk.walking /\ Occupied(creds) # {} /\ Walks(advanceTo(walk, 0))

Joins ==
    /\ walk.link = "bring-up" /\ walk.held \in Right
    /\ Walks([walk EXCEPT !.link = "joined", !.error = 0])

\* "ready" is final: WifiLink does not notice an access point that goes away.
SocketOpens == walk.link = "joined" /\ Walks([walk EXCEPT !.link = "ready"])

Refusal == 2        \* +CWJAP:2, a wrong password

\* The link enters its back-off.  A join that was refused leaves its code;
\* a failed configure step leaves the code of the join before it.  Attempts
\* past the second (the store was emptied meanwhile) all count as it.
IntoBackoff(error) ==
    LET w == [walk EXCEPT !.link = "backoff", !.error = error,
                !.attempts = IF @ < kMaxAttemptsPerSlot THEN @ + 1 ELSE @,
                !.waited = [s \in Slots |->
                              IF s \in Occupied(creds) /\ s # walk.slot THEN walk.waited[s] + 1
                              ELSE 0]]
    IN Walks(IF error = Refusal \/ w.attempts >= kMaxAttemptsPerSlot
               THEN advanceTo(w, (w.slot + 1) % NSlots) ELSE w)

JoinRefused == walk.link = "bring-up" /\ walk.held \notin Right /\ IntoBackoff(Refusal)
JoinFails == walk.link = "bring-up" /\ IntoBackoff(0)
ConfigureFails == walk.link = "bring-up" /\ IntoBackoff(walk.error)
SocketFails == walk.link = "joined" /\ IntoBackoff(walk.error)

serviceBackoff == walk.link = "backoff" /\ Walks([walk EXCEPT !.link = "bring-up"])

-----------------------------------------------------------------------------
(* The wire. *)

SetFits(entry) == entry.cred \notin TooLong /\ entry.slot \in Slots

\* WIFICRED alone: the ack, and a line per occupied slot, in their order.
ListSlots ==
    /\ \E listed \in [1 .. Cardinality(Occupied(creds)) -> Occupied(creds)] :
         /\ \A i, j \in DOMAIN listed : i < j => listed[i] < listed[j]
         /\ replies_' = replies_ \o <<[says |-> "ack", slot |-> 0]>> \o
              [i \in DOMAIN listed |-> [says |-> "wificred", slot |-> listed[i]]]
    /\ UNCHANGED creds

\* SET and CLEAR: the ack, and then the write or its refusal.
WriteSlot(entry) ==
    IF SetFits(entry) THEN
        /\ replies_' = Append(replies_, [says |-> "ack", slot |-> 0])
        /\ creds' = [creds EXCEPT ![entry.slot] = entry.cred]
    ELSE
        /\ replies_' = replies_ \o <<[says |-> "ack", slot |-> 0], [says |-> "err", slot |-> 0]>>
        /\ UNCHANGED creds

\* A line that arrives: executed in order, re-acked if stale, else nacked.
ReceiveCred(n, entry) ==
    IF n > robotIds THEN
        /\ replies_' = Append(replies_, [says |-> "nack", slot |-> 0])
        /\ UNCHANGED <<creds, robotIds>>
    ELSE IF n < robotIds THEN
        /\ replies_' = Append(replies_, [says |-> "ack", slot |-> 0])
        /\ UNCHANGED <<creds, robotIds>>
    ELSE
        /\ robotIds' = n + 1
        /\ IF entry.verb = "list" THEN ListSlots ELSE WriteSlot(entry)

\* A reset of the board.  In the middle of a write it finds the page erased
\* and only the first of its records written back.
BoardReset ==
    /\ calls < MaxCalls /\ calls' = calls + 1
    /\ \E kept \in {NSlots} \cup 0 .. NSlots - 1 :
         creds' = [s \in Slots |-> IF s < kept THEN creds[s] ELSE Empty]
    /\ robotIds' = 1
    /\ walk' = [Unbegun EXCEPT !.begun = Occupied(creds') # {}]
    /\ wifiTool' = [wifiTool EXCEPT !.calm = FALSE]
    /\ UNCHANGED replies_

ReplyLost ==
    /\ replies_ # <<>>
    /\ replies_' = Tail(replies_)
    /\ wifiTool' = [wifiTool EXCEPT !.lost = @ \cup {Head(replies_).says}]
    /\ UNCHANGED <<creds, robotIds, walk, calls>>

-----------------------------------------------------------------------------
(* The tool: open_link(), then one exchange after the other. *)

NoReport == [verb |-> "none", slot |-> 0, cred |-> Empty, ok |-> FALSE, listed |-> {},
             stored |-> Empty, occupied |-> {}, trusted |-> FALSE]

\* hello(): the ids are reset whether or not the robot heard.  calm: it did,
\* and no reply of an earlier exchange is still on its way.
OpenLink ==
    /\ wifiTool.at = "closed" /\ calls < MaxCalls
    /\ \E todo \in CommandLists, heard \in BOOLEAN :
         /\ robotIds' = IF heard THEN 1 ELSE robotIds
         /\ wifiTool' = [at |-> "open", todo |-> todo, seq |-> 0, lines |-> {}, lost |-> {},
                         calm |-> heard /\ replies_ = <<>>, report |-> NoReport]
    /\ calls' = calls + 1
    /\ UNCHANGED <<creds, replies_, walk>>

\* _wificred_exchange(): sent once, with a number of its own.
wificred_exchange ==
    /\ wifiTool.at = "open" /\ wifiTool.todo # <<>> /\ calls < MaxCalls
    /\ Len(replies_) + NSlots < InAir
    /\ wifiTool' = [wifiTool EXCEPT !.at = "reading", !.seq = @ + 1, !.lines = {}, !.lost = {}]
    /\ \/ ReceiveCred(wifiTool.seq + 1, Head(wifiTool.todo))
       \/ UNCHANGED <<creds, robotIds, replies_>>
    /\ calls' = calls + 1
    /\ UNCHANGED walk

ReadReply ==
    /\ wifiTool.at = "reading" /\ replies_ # <<>>
    /\ wifiTool' = [wifiTool EXCEPT !.lines = @ \cup {Head(replies_)}]
    /\ replies_' = Tail(replies_)
    /\ UNCHANGED <<creds, robotIds, walk, calls>>

SaysBack(word) == \E r \in wifiTool.lines : r.says = word

\* Mutant: the first word of the robot decides, and that is the ack.
_report_AckOnly == SaysBack("ack")
_report == SaysBack("ack") /\ ~SaysBack("err")

\* wificred_list(): the lines that have the shape of an entry.
wificred_list == {r.slot : r \in {l \in wifiTool.lines : l.says = "wificred"}}

\* The window closes, whatever is still on its way, and the slot is reported.
\* provision_manifest() goes on to its next entry in any case.
WindowCloses ==
    /\ wifiTool.at = "reading"
    /\ LET entry == Head(wifiTool.todo) IN
       wifiTool' = [wifiTool EXCEPT !.at = "open", !.todo = Tail(@), !.calm = @ /\ replies_ = <<>>,
           !.report = [verb |-> entry.verb, slot |-> entry.slot, cred |-> entry.cred,
                       ok |-> entry.verb # "list" /\ _report,
                       listed |-> IF entry.verb = "list" THEN wificred_list ELSE {},
                       stored |-> IF entry.slot \in Slots THEN creds[entry.slot] ELSE Empty,
                       occupied |-> Occupied(creds),
                       trusted |-> wifiTool.calm /\ wifiTool.lost = {} /\ replies_ = <<>>]]
    /\ UNCHANGED <<creds, robotIds, replies_, walk, calls>>

CloseLink ==
    /\ wifiTool.at = "open" /\ wifiTool.todo = <<>>
    /\ wifiTool' = [wifiTool EXCEPT !.at = "closed"]
    /\ UNCHANGED <<creds, robotIds, replies_, walk, calls>>

-----------------------------------------------------------------------------

WifiInit ==
    /\ creds \in [Slots -> {Empty} \cup (Networks \ TooLong)]
    /\ robotIds = 1 /\ replies_ = <<>> /\ calls = 0
    /\ walk = [Unbegun EXCEPT !.begun = Occupied(creds) # {}]
    /\ wifiTool = [at |-> "closed", todo |-> <<>>, seq |-> 0, lines |-> {}, lost |-> {},
                   calm |-> FALSE, report |-> NoReport]

WifiNext ==
    \/ FirstService \/ Joins \/ JoinRefused \/ JoinFails \/ ConfigureFails
    \/ SocketOpens \/ SocketFails \/ serviceBackoff \/ BoardReset \/ ReplyLost
    \/ OpenLink \/ wificred_exchange \/ ReadReply \/ WindowCloses \/ CloseLink

WifiSpec == WifiInit /\ [][WifiNext]_wifiVars

-----------------------------------------------------------------------------
(* Types. *)
WifiTypeOK ==
    /\ creds \in [Slots -> {Empty} \cup (Networks \ TooLong)]
    /\ robotIds \in 1 .. MaxCalls + 1 /\ Len(replies_) <= InAir
    /\ walk.slot \in Slots /\ walk.attempts \in 0 .. kMaxAttemptsPerSlot
    /\ wifiTool.at \in {"closed", "open", "reading"}

(* A slot reported ok holds what was to be written, if the robot heard this *)
(* session's HELLO and no reply was lost or came after its window: the ack  *)
(* alone, which the robot sends before it looks at the content, says less.  *)
ReportedIsStored ==
    wifiTool.report.trusted /\ wifiTool.report.ok =>
        wifiTool.report.stored = wifiTool.report.cred

(* No stored credential is left out of the walk: between two turns of an    *)
(* occupied slot every other one gets at most its two attempts.             *)
EveryNetworkGetsItsTurn ==
    walk.walking =>
        \A s \in Occupied(creds) : walk.waited[s] <= kMaxAttemptsPerSlot * (NSlots - 1)

(* What the list shows is in the store.                                     *)
ListedIsOccupied ==
    wifiTool.report.trusted => wifiTool.report.listed \subseteq wifiTool.report.occupied

ProvisioningIsSound == ReportedIsStored /\ EveryNetworkGetsItsTurn /\ ListedIsOccupied
=============================================================================
