--------------------------- MODULE HostTools_proofs ---------------------------
(***************************************************************************)
(* Theorems about three of the host's programs, for any number of slots,   *)
(* networks, calls, frames, lines in flight and lost replies.              *)
(*                                                                         *)
(* provision_wifi.py and the robot's credential store and join walk:       *)
(* WireInv ties what the tool was told to what the store holds, WalkInv    *)
(* how long a stored slot has waited to how far the walk still is from it. *)
(*                                                                         *)
(* tlm.py and the recorders that use it: TelemetryInv says which lines can *)
(* be in the air, that they are of later frames than what was decoded, and *)
(* what the decoder's drop count adds up to so far.                        *)
(*                                                                         *)
(* wire_acceptance.py: every place of a suite has a label, what the case   *)
(* there needs of the robot and of the counter the suite tracks; SuiteInv  *)
(* says that the label of the place the suite has come to holds.           *)
(***************************************************************************)
EXTENDS WifiProvisioning, TelemetryStream, WireAcceptance, FiniteSetTheorems, SequenceTheorems, TLAPS

\* The remainder of a number at most one turn away from its range.
LEMMA ModOfTurn ==
  \A n \in Nat \ {0}, x \in Int : 1 - n <= x /\ x <= 2 * n - 1 =>
    x % n = IF x < 0 THEN x + n ELSE IF x < n THEN x ELSE x - n
<1> TAKE n \in Nat \ {0}, x \in Int
<1> HAVE 1 - n <= x /\ x <= 2 * n - 1
<1>1. \A y \in 1 - n .. -1 : y % n = y + n
  OBVIOUS
<1>2. \A y \in 0 .. n - 1 : y % n = y
  OBVIOUS
<1>3. \A y \in n .. 2 * n - 1 : y % n = y - n
  OBVIOUS
<1> QED BY <1>1, <1>2, <1>3

\* Every nonempty set of naturals has a least element.
LEMMA LeastOf ==
  ASSUME NEW T, T \subseteq Nat, T # {}
  PROVE  \E x \in T : \A y \in T : x <= y
<1>1. \E r : IsWellFoundedOn(r, Nat) /\ \A x, y \in Nat : y < x => <<y, x>> \in r
  <2> DEFINE R == OpToRel(<, Nat)
  <2>1. IsWellFoundedOn(R, Nat)
    BY NatLessThanWellFounded
  <2>2. \A x, y \in Nat : y < x => <<y, x>> \in R
    BY DEF OpToRel
  <2> HIDE DEF R
  <2> QED BY <2>1, <2>2
<1>2. PICK r : IsWellFoundedOn(r, Nat) /\ \A x, y \in Nat : y < x => <<y, x>> \in r
  BY <1>1
<1>3. \E x \in T : \A y \in T : ~(<<y, x>> \in r)
  BY <1>2, WFMin
<1>4. PICK x \in T : \A y \in T : ~(<<y, x>> \in r)
  BY <1>3
<1>5. ASSUME NEW y \in T
      PROVE  x <= y
  <2>1. x \in Nat /\ y \in Nat
    OBVIOUS
  <2>2. ~(y < x)
    BY <1>2, <1>4, <2>1
  <2> QED BY <2>1, <2>2
<1> QED BY <1>5

-----------------------------------------------------------------------------
(* The walk. *)

\* Slots from `from` on to s, around the end.
Ahead(s, from) == IF s < from THEN s - from + NSlots ELSE s - from
NextSlot(s) == IF s = NSlots - 1 THEN 0 ELSE s + 1

\* The distance of two slots around the end, without the remainder.
LEMMA AheadIsMod ==
  ASSUME NEW s \in Slots, NEW from \in Slots
  PROVE  (s - from) % NSlots = Ahead(s, from) /\ Ahead(s, from) \in Slots
<1>1. PICK n \in Nat \ {0} : n = NSlots
  BY WifiAssumption
<1>2. PICK x \in Int : x = s - from
  BY DEF Slots
<1>3. /\ s \in Int /\ from \in Int /\ 0 <= s /\ s < n /\ 0 <= from /\ from < n
  BY <1>1 DEF Slots
<1>4. 1 - n <= x /\ x <= 2 * n - 1
  BY <1>2, <1>3
<1>5. x % n = IF x < 0 THEN x + n ELSE IF x < n THEN x ELSE x - n
  BY <1>4, ModOfTurn
<1>6. x % n = Ahead(s, from) /\ Ahead(s, from) \in 0 .. n - 1
  BY <1>1, <1>2, <1>3, <1>5 DEF Ahead
<1> QED BY <1>1, <1>2, <1>6 DEF Slots

\* The slot after another, without the remainder.
LEMMA NextIsMod ==
  ASSUME NEW s \in Slots
  PROVE  (s + 1) % NSlots = NextSlot(s) /\ NextSlot(s) \in Slots
<1>1. PICK n \in Nat \ {0} : n = NSlots
  BY WifiAssumption
<1>2. PICK x \in Int : x = s + 1
  BY DEF Slots
<1>3. s \in Int /\ 0 <= s /\ s < n
  BY <1>1 DEF Slots
<1>4. 1 - n <= x /\ x <= 2 * n - 1
  BY <1>2, <1>3
<1>5. x % n = IF x < 0 THEN x + n ELSE IF x < n THEN x ELSE x - n
  BY <1>4, ModOfTurn
<1>6. x % n = NextSlot(s) /\ NextSlot(s) \in 0 .. n - 1
  BY <1>1, <1>2, <1>3, <1>5 DEF NextSlot
<1> QED BY <1>1, <1>2, <1>6 DEF Slots

\* Where advanceTo() goes: the occupied slot that is the least ahead.
LEMMA Advances ==
  ASSUME NEW w, NEW from \in Slots
  PROVE  \/ Occupied(creds) = {} /\ advanceTo(w, from) = w
         \/ \E t \in Occupied(creds) :
              /\ advanceTo(w, from) = beginSlot(w, t)
              /\ \A r \in Occupied(creds) : Ahead(t, from) <= Ahead(r, from)
<1> DEFINE First(t) == \A r \in Occupied(creds) : (t - from) % NSlots <= (r - from) % NSlots
<1>1. CASE Occupied(creds) = {}
  BY <1>1 DEF advanceTo
<1>2. CASE Occupied(creds) # {}
  <2> DEFINE T == {Ahead(s, from) : s \in Occupied(creds)}
  <2>1. Occupied(creds) \subseteq Slots
    BY DEF Occupied
  <2>2. T \subseteq Nat /\ T # {}
    <3>1. \A s \in Occupied(creds) : Ahead(s, from) \in Slots
      BY <2>1, AheadIsMod
    <3>2. Slots \subseteq Nat
      BY WifiAssumption DEF Slots
    <3> QED BY <1>2, <3>1, <3>2
  <2>3. PICK x \in T : \A y \in T : x <= y
    BY <2>2, LeastOf
  <2>4. PICK s \in Occupied(creds) : x = Ahead(s, from)
    BY <2>3
  <2>5. \E t \in Occupied(creds) : First(t)
    BY <2>1, <2>3, <2>4, AheadIsMod
  <2>6. /\ (CHOOSE t \in Occupied(creds) : First(t)) \in Occupied(creds)
        /\ First(CHOOSE t \in Occupied(creds) : First(t))
    <3> HIDE DEF First
    <3> QED BY <2>5
  <2>7. advanceTo(w, from) = beginSlot(w, CHOOSE t \in Occupied(creds) : First(t))
    BY <1>2 DEF advanceTo
  <2> DEFINE t == CHOOSE q \in Occupied(creds) : First(q)
  <2>8. t \in Occupied(creds) /\ First(t) /\ advanceTo(w, from) = beginSlot(w, t)
    BY <2>6, <2>7
  <2> HIDE DEF t
  <2>9. \A r \in Occupied(creds) : Ahead(t, from) <= Ahead(r, from)
    BY <2>1, <2>8, AheadIsMod
  <2> QED BY <2>8, <2>9
<1> QED BY <1>1, <1>2
\* A slot whose turn comes no sooner than t's is further behind t than it
\* was behind the slot before.
LEMMA TurnsPass ==
  ASSUME NEW slot \in Slots, NEW t \in Slots, NEW s \in Slots, s # slot, s # t,
         Ahead(t, NextSlot(slot)) <= Ahead(s, NextSlot(slot))
  PROVE  Ahead(slot, s) + 1 <= Ahead(t, s) /\ 1 <= Ahead(slot, s)
<1>1. PICK n \in Nat \ {0} : n = NSlots
  BY WifiAssumption
<1>2. slot \in 0 .. n - 1 /\ t \in 0 .. n - 1 /\ s \in 0 .. n - 1
  BY <1>1 DEF Slots
<1> QED BY <1>1, <1>2 DEF Ahead, NextSlot

WalkTypes ==
    [begun : BOOLEAN, walking : BOOLEAN, slot : Slots, attempts : 0 .. kMaxAttemptsPerSlot,
     held : Networks \cup {Empty},
     link : {"disabled", "bring-up", "joined", "ready", "backoff"}, error : {0, Refusal},
     waited : [Slots -> Nat]]

\* What a slot has waited is at most two attempts for each slot that had its
\* turn since, and those of the slot that has it now.  The attempts come to
\* two only while the store is empty, and then nobody waits.
WalkFair(w) ==
    /\ ~w.walking => w.link = "disabled" /\ w.attempts = 0 /\ \A s \in Slots : w.waited[s] = 0
    /\ w.waited[w.slot] = 0
    /\ \A s \in Slots : s # w.slot =>
         w.waited[s] <= kMaxAttemptsPerSlot * (Ahead(w.slot, s) - 1) + w.attempts
    /\ w.attempts = kMaxAttemptsPerSlot => \A s \in Slots : w.waited[s] = 0

StoreTyped == creds \in [Slots -> {Empty} \cup (Networks \ TooLong)]
WalkInv == walk \in WalkTypes /\ WalkFair(walk)

\* A slot that is not the current one is at least one turn behind.
LEMMA OneBehind ==
  ASSUME NEW slot \in Slots, NEW s \in Slots, s # slot
  PROVE  Ahead(slot, s) \in 1 .. NSlots - 1
<1>1. PICK n \in Nat \ {0} : n = NSlots
  BY WifiAssumption
<1>2. slot \in 0 .. n - 1 /\ s \in 0 .. n - 1
  BY <1>1 DEF Slots
<1> QED BY <1>1, <1>2 DEF Ahead

\* beginSlot() is on an occupied slot, has served it and starts over.
LEMMA Begins ==
  ASSUME StoreTyped, NEW w \in WalkTypes, NEW t \in Slots
  PROVE  /\ beginSlot(w, t) \in WalkTypes
         /\ beginSlot(w, t).walking /\ beginSlot(w, t).slot = t /\ beginSlot(w, t).attempts = 0
         /\ beginSlot(w, t).waited[t] = 0
         /\ \A s \in Slots : s # t => beginSlot(w, t).waited[s] = w.waited[s]
<1> DEFINE held == creds[t]
           waited == [w.waited EXCEPT ![t] = 0]
<1>1. beginSlot(w, t) = [begun |-> w.begun, walking |-> TRUE, slot |-> t, attempts |-> 0,
                         held |-> held, link |-> "bring-up", error |-> w.error,
                         waited |-> waited]
  <2>1. /\ beginSlot(w, t) = [w EXCEPT !.walking = TRUE, !.slot = t, !.held = held, !.attempts = 0,
                                       !.link = "bring-up", !.waited = waited]
        /\ w = [begun |-> w.begun, walking |-> w.walking, slot |-> w.slot,
                attempts |-> w.attempts, held |-> w.held, link |-> w.link, error |-> w.error,
                waited |-> w.waited]
    BY DEF beginSlot, WalkTypes
  <2> HIDE DEF held, waited
  <2> QED BY <2>1
<1>2. held \in Networks \cup {Empty}
  BY DEF StoreTyped
<1>3. /\ w.waited \in [Slots -> Nat] /\ waited \in [Slots -> Nat] /\ waited[t] = 0
      /\ \A s \in Slots : s # t => waited[s] = w.waited[s]
  BY DEF WalkTypes
<1> HIDE DEF held, waited
<1> QED BY <1>1, <1>2, <1>3 DEF WalkTypes, kMaxAttemptsPerSlot

\* Serving a slot leaves no other one waiting longer than its turn.
LEMMA BeginsFair ==
  ASSUME StoreTyped, NEW w \in WalkTypes, NEW t \in Slots,
         \A s \in Slots : s # t => w.waited[s] <= kMaxAttemptsPerSlot * (Ahead(t, s) - 1)
  PROVE  beginSlot(w, t) \in WalkTypes /\ WalkFair(beginSlot(w, t))
<1> DEFINE b == beginSlot(w, t)
<1>1. /\ b \in WalkTypes /\ b.walking /\ b.slot = t /\ b.attempts = 0
      /\ b.waited[t] = 0 /\ \A s \in Slots : s # t => b.waited[s] = w.waited[s]
  BY Begins
<1> HIDE DEF b
<1>2. \A s \in Slots : s # t => Ahead(t, s) \in Int
  BY OneBehind
<1>3. b \in WalkTypes /\ WalkFair(b)
  BY <1>1, <1>2 DEF WalkFair, kMaxAttemptsPerSlot
<1> QED BY <1>3 DEF b

\* The service that first finds a stored network is fair.
LEMMA FirstServiceKeeps ==
  ASSUME StoreTyped, WalkInv, FirstService
  PROVE  WalkInv'
<1>1. /\ ~walk.walking /\ walk' = advanceTo(walk, 0) /\ walk \in WalkTypes
      /\ \A s \in Slots : walk.waited[s] = 0
  BY DEF FirstService, Walks, WalkInv, WalkFair
<1>2. 0 \in Slots
  BY WifiAssumption DEF Slots
<1>3. Occupied(creds) \subseteq Slots
  BY DEF Occupied
<1>4. CASE walk' = walk
  BY <1>1, <1>4 DEF WalkInv, WalkFair
<1>5. ASSUME NEW t \in Slots, walk' = beginSlot(walk, t)
      PROVE  WalkInv'
  <2>1. \A s \in Slots : s # t => walk.waited[s] <= kMaxAttemptsPerSlot * (Ahead(t, s) - 1)
    BY <1>1, OneBehind DEF kMaxAttemptsPerSlot
  <2> QED BY <1>1, <1>5, <2>1, BeginsFair DEF WalkInv
<1> QED BY <1>1, <1>2, <1>3, <1>4, <1>5, Advances
\* The state of the walk once the link is in its back-off, before it moves on.
WalkFailed(error) ==
    [walk EXCEPT !.link = "backoff", !.error = error,
       !.attempts = IF @ < kMaxAttemptsPerSlot THEN @ + 1 ELSE @,
       !.waited = [s \in Slots |->
                     IF s \in Occupied(creds) /\ s # walk.slot THEN walk.waited[s] + 1 ELSE 0]]

\* What a failed attempt leaves of the walk.
LEMMA FailedIs ==
  ASSUME WalkInv, NEW error \in {0, Refusal}
  PROVE  /\ WalkFailed(error) \in WalkTypes
         /\ WalkFailed(error).walking = walk.walking /\ WalkFailed(error).slot = walk.slot
         /\ WalkFailed(error).attempts = IF walk.attempts < kMaxAttemptsPerSlot
                                       THEN walk.attempts + 1 ELSE walk.attempts
         /\ \A s \in Slots : WalkFailed(error).waited[s] =
               IF s \in Occupied(creds) /\ s # walk.slot THEN walk.waited[s] + 1 ELSE 0
<1> DEFINE attempts ==
         IF walk.attempts < kMaxAttemptsPerSlot THEN walk.attempts + 1 ELSE walk.attempts
           waited == [s \in Slots |->
                        IF s \in Occupied(creds) /\ s # walk.slot THEN walk.waited[s] + 1 ELSE 0]
<1>1. /\ walk = [begun |-> walk.begun, walking |-> walk.walking, slot |-> walk.slot,
                 attempts |-> walk.attempts, held |-> walk.held, link |-> walk.link,
                 error |-> walk.error, waited |-> walk.waited]
      /\ walk.waited \in [Slots -> Nat] /\ walk.attempts \in 0 .. kMaxAttemptsPerSlot
      /\ walk.begun \in BOOLEAN /\ walk.walking \in BOOLEAN /\ walk.slot \in Slots
      /\ walk.held \in Networks \cup {Empty}
  BY DEF WalkInv, WalkTypes
<1>2. WalkFailed(error) = [begun |-> walk.begun, walking |-> walk.walking, slot |-> walk.slot,
                       attempts |-> attempts, held |-> walk.held, link |-> "backoff",
                       error |-> error, waited |-> waited]
  <2>1. WalkFailed(error) = [walk EXCEPT !.link = "backoff", !.error = error,
                                     !.attempts = attempts, !.waited = waited]
    BY DEF WalkFailed
  <2> HIDE DEF attempts, waited
  <2> QED BY <1>1, <2>1
<1>3. waited \in [Slots -> Nat] /\ attempts \in 0 .. kMaxAttemptsPerSlot
  BY <1>1 DEF kMaxAttemptsPerSlot
<1>4. WalkFailed(error) \in WalkTypes
  <2> HIDE DEF attempts, waited
  <2> QED BY <1>1, <1>2, <1>3 DEF WalkTypes
<1> QED BY <1>2, <1>4

\* Counting an attempt at the slot in turn keeps the walk fair.
LEMMA IntoBackoffKeeps ==
  ASSUME StoreTyped, WalkInv, walk.walking, NEW error \in {0, Refusal}, IntoBackoff(error)
  PROVE  WalkInv'
<1> DEFINE w == WalkFailed(error)
           from == NextSlot(walk.slot)
<1>1. walk' = IF error = Refusal \/ w.attempts >= kMaxAttemptsPerSlot
                THEN advanceTo(w, (w.slot + 1) % NSlots) ELSE w
  BY DEF IntoBackoff, Walks, WalkFailed
<1>2. /\ w \in WalkTypes /\ w.walking /\ w.slot = walk.slot
      /\ w.attempts = IF walk.attempts < kMaxAttemptsPerSlot
                        THEN walk.attempts + 1 ELSE walk.attempts
      /\ \A s \in Slots : w.waited[s] =
            IF s \in Occupied(creds) /\ s # walk.slot THEN walk.waited[s] + 1 ELSE 0
  BY FailedIs
<1> HIDE DEF w
<1>3. /\ walk.slot \in Slots /\ walk.attempts \in 0 .. 2 /\ walk.waited \in [Slots -> Nat]
      /\ walk.waited[walk.slot] = 0
      /\ \A s \in Slots : s # walk.slot =>
           walk.waited[s] <= 2 * (Ahead(walk.slot, s) - 1) + walk.attempts
      /\ walk.attempts = 2 => \A s \in Slots : walk.waited[s] = 0
  BY DEF WalkInv, WalkTypes, WalkFair, kMaxAttemptsPerSlot
<1>4. (w.slot + 1) % NSlots = from /\ from \in Slots
  BY <1>2, <1>3, NextIsMod
<1>5. \A s \in Slots : s # walk.slot => Ahead(walk.slot, s) \in Int /\ Ahead(walk.slot, s) >= 1
  BY <1>3, OneBehind
<1>6. CASE walk' = w /\ (w.attempts < 2 \/ Occupied(creds) = {})
  <2>1. \A s \in Slots : s # w.slot =>
          w.waited[s] <= 2 * (Ahead(w.slot, s) - 1) + w.attempts
    BY <1>2, <1>3, <1>5, <1>6 DEF kMaxAttemptsPerSlot
  <2>2. w.attempts = 2 => \A s \in Slots : w.waited[s] = 0
    BY <1>2, <1>6
  <2>3. w.waited[w.slot] = 0
    BY <1>2, <1>3
  <2> QED BY <1>2, <1>6, <2>1, <2>2, <2>3 DEF WalkInv, WalkFair, kMaxAttemptsPerSlot
<1>7. ASSUME NEW t \in Occupied(creds), walk' = beginSlot(w, t),
             \A r \in Occupied(creds) : Ahead(t, from) <= Ahead(r, from)
      PROVE  WalkInv'
  <2>1. t \in Slots
    BY DEF Occupied
  <2>2. ASSUME NEW s \in Slots, s # t
        PROVE  w.waited[s] <= kMaxAttemptsPerSlot * (Ahead(t, s) - 1)
    <3>1. Ahead(t, s) \in Int /\ Ahead(t, s) >= 1
      BY <2>1, <2>2, OneBehind
    <3>2. CASE s \notin Occupied(creds) \/ s = walk.slot
      BY <1>2, <3>1, <3>2 DEF kMaxAttemptsPerSlot
    <3>3. CASE s \in Occupied(creds) /\ s # walk.slot
      <4>1. Ahead(walk.slot, s) + 1 <= Ahead(t, s) /\ 1 <= Ahead(walk.slot, s)
        BY <1>3, <1>7, <2>1, <2>2, <3>3, TurnsPass
      <4>2. w.waited[s] = walk.waited[s] + 1 /\ walk.waited[s] \in Nat
        BY <1>2, <1>3, <3>3
      <4>3. Ahead(walk.slot, s) \in Int
        BY <1>5, <3>3
      <4>4. walk.waited[s] <= 2 * (Ahead(walk.slot, s) - 1) + walk.attempts
        BY <1>3, <3>3
      <4>5. CASE walk.attempts = 2
        BY <1>3, <3>1, <4>1, <4>2, <4>3, <4>5 DEF kMaxAttemptsPerSlot
      <4>6. CASE walk.attempts # 2
        BY <1>3, <3>1, <4>1, <4>2, <4>3, <4>4, <4>6 DEF kMaxAttemptsPerSlot
      <4> QED BY <4>5, <4>6
    <3> QED BY <3>2, <3>3
  <2> QED BY <1>2, <1>7, <2>1, <2>2, BeginsFair DEF WalkInv
<1> QED
  <2>1. CASE walk' = w /\ ~(w.attempts >= kMaxAttemptsPerSlot)
    <3>1. w.attempts < 2
      BY <1>2, <1>3, <2>1 DEF kMaxAttemptsPerSlot
    <3> QED BY <1>6, <2>1, <3>1
  <2>2. CASE walk' = advanceTo(w, from)
    BY <1>4, <1>6, <1>7, <2>2, Advances
  <2> QED BY <1>1, <1>4, <2>1, <2>2
-----------------------------------------------------------------------------
(* The wire. *)

ReplyWords == {"ack", "nack", "err", "wificred"}
WifiReplies == [says : ReplyWords, slot : Slots]
ProvisionEntries == [verb : {"set", "clear", "list"}, slot : Nat, cred : Networks \cup {Empty}]
WordReply(word) == [says |-> word, slot |-> 0]

\* What the answer to one line is, and what it says of the store.
AnswerTo(n, entry, new) ==
    /\ new \in Seq(WifiReplies) /\ Len(new) <= NSlots + 1
    /\ replies_' = replies_ \o new
    /\ StoreTyped'
    /\ robotIds' \in {robotIds, n + 1} /\ (robotIds' # robotIds => n = robotIds)
    /\ n > robotIds => \A i \in 1 .. Len(new) : new[i].says # "ack"
    /\ n = robotIds /\ entry.verb # "list" =>
         \/ \E i \in 1 .. Len(new) : new[i].says = "err"
         \/ entry.slot \in Slots /\ creds'[entry.slot] = entry.cred
    /\ \A i \in 1 .. Len(new) : new[i].says = "wificred" => creds'[new[i].slot] # Empty

\* An answer of one word.
LEMMA OneReply ==
  ASSUME NEW word \in ReplyWords
  PROVE  /\ <<WordReply(word)>> \in Seq(WifiReplies) /\ Len(<<WordReply(word)>>) = 1
         /\ <<WordReply(word)>>[1] = WordReply(word) /\ WordReply(word).says = word
<1>1. WordReply(word) \in WifiReplies /\ WordReply(word).says = word
  BY WifiAssumption DEF WordReply, WifiReplies, Slots
<1> QED BY <1>1

\* A stale or early line gets its word and changes nothing.
LEMMA RefusedLine ==
  ASSUME StoreTyped, NEW n \in Nat, robotIds \in Nat, NEW entry \in ProvisionEntries, n # robotIds,
         NEW word \in {"ack", "nack"}, n > robotIds => word = "nack",
         replies_ \in Seq(WifiReplies),
         replies_' = Append(replies_, WordReply(word)), UNCHANGED <<creds, robotIds>>
  PROVE  AnswerTo(n, entry, <<WordReply(word)>>)
<1>1. /\ <<WordReply(word)>> \in Seq(WifiReplies) /\ Len(<<WordReply(word)>>) = 1
      /\ <<WordReply(word)>>[1] = WordReply(word) /\ WordReply(word).says = word
  BY OneReply DEF ReplyWords
<1>2. replies_' = replies_ \o <<WordReply(word)>>
  <2>1. WordReply(word) \in WifiReplies
    BY WifiAssumption DEF WordReply, WifiReplies, Slots, ReplyWords
  <2> QED BY <2>1, AppendIsConcat
<1>3. NSlots \in Nat
  BY WifiAssumption
<1>4. \A i \in 1 .. Len(<<WordReply(word)>>) : <<WordReply(word)>>[i].says = word
  BY <1>1
<1>5. word # "wificred"
  OBVIOUS
<1> QED BY <1>1, <1>2, <1>3, <1>4, <1>5 DEF AnswerTo, StoreTyped

\* A line in turn that sets or clears writes its slot or says err.
LEMMA WrittenSlot ==
  ASSUME StoreTyped, robotIds \in Nat, NEW entry \in ProvisionEntries, entry.verb # "list",
         replies_ \in Seq(WifiReplies), robotIds' = robotIds + 1, WriteSlot(entry)
  PROVE  \E new : AnswerTo(robotIds, entry, new)
<1>1. CASE SetFits(entry)
  <2>1. /\ replies_' = Append(replies_, WordReply("ack"))
        /\ creds' = [creds EXCEPT ![entry.slot] = entry.cred]
    BY <1>1 DEF WriteSlot, WordReply
  <2>2. /\ <<WordReply("ack")>> \in Seq(WifiReplies) /\ Len(<<WordReply("ack")>>) = 1
        /\ <<WordReply("ack")>>[1] = WordReply("ack") /\ WordReply("ack").says = "ack"
    BY OneReply DEF ReplyWords
  <2>3. replies_' = replies_ \o <<WordReply("ack")>>
    <3>1. WordReply("ack") \in WifiReplies
      BY WifiAssumption DEF WordReply, WifiReplies, Slots, ReplyWords
    <3> QED BY <2>1, <3>1, AppendIsConcat
  <2>4. StoreTyped' /\ entry.slot \in Slots /\ creds'[entry.slot] = entry.cred
    BY <1>1, <2>1 DEF StoreTyped, SetFits, ProvisionEntries
  <2>5. \A i \in 1 .. Len(<<WordReply("ack")>>) : <<WordReply("ack")>>[i].says = "ack"
    BY <2>2
  <2>6. NSlots \in Nat
    BY WifiAssumption
  <2>7. AnswerTo(robotIds, entry, <<WordReply("ack")>>)
    BY <2>2, <2>3, <2>4, <2>5, <2>6 DEF AnswerTo
  <2> QED BY <2>7
<1>2. CASE ~SetFits(entry)
  <2> DEFINE new == <<WordReply("ack"), WordReply("err")>>
  <2>1. replies_' = replies_ \o new /\ creds' = creds
    BY <1>2 DEF WriteSlot, WordReply
  <2>2. WordReply("ack") \in WifiReplies /\ WordReply("err") \in WifiReplies
    BY WifiAssumption DEF WordReply, WifiReplies, Slots, ReplyWords
  <2>3. /\ new \in Seq(WifiReplies) /\ Len(new) = 2
        /\ new[1] = WordReply("ack") /\ new[2] = WordReply("err")
    BY <2>2
  <2>4. WordReply("ack").says = "ack" /\ WordReply("err").says = "err"
    BY DEF WordReply
  <2>5. NSlots \in Nat /\ NSlots >= 1
    BY WifiAssumption
  <2> HIDE DEF new
  <2>6. \A i \in 1 .. Len(new) : new[i].says \in {"ack", "err"}
    BY <2>3, <2>4
  <2>7. \E i \in 1 .. Len(new) : new[i].says = "err"
    BY <2>3, <2>4
  <2>8. AnswerTo(robotIds, entry, new)
    BY <2>1, <2>3, <2>5, <2>6, <2>7 DEF AnswerTo, StoreTyped
  <2> QED BY <2>8
<1> QED BY <1>1, <1>2

\* A line in turn that lists is answered with the stored slots alone.
LEMMA ListedSlots ==
  ASSUME StoreTyped, robotIds \in Nat, NEW entry \in ProvisionEntries, entry.verb = "list",
         replies_ \in Seq(WifiReplies), robotIds' = robotIds + 1, ListSlots
  PROVE  \E new : AnswerTo(robotIds, entry, new)
<1> DEFINE k == Cardinality(Occupied(creds))
<1>1. k \in Nat /\ k <= NSlots
  <2>1. /\ NSlots - 1 \in Int /\ 0 \in Int /\ NSlots \in Nat \ {0}
        /\ Slots = 0 .. NSlots - 1
    BY WifiAssumption DEF Slots
  <2>2. IsFiniteSet(Slots) /\ Cardinality(Slots) = NSlots
    BY <2>1, FS_Interval
  <2>3. Occupied(creds) \in SUBSET Slots
    BY DEF Occupied
  <2>4. IsFiniteSet(Occupied(creds)) /\ Cardinality(Occupied(creds)) <= NSlots
    BY <2>2, <2>3, FS_Subset
  <2> QED BY <2>4, FS_CardinalityType
<1> HIDE DEF k
<1>2. PICK listed \in [1 .. k -> Occupied(creds)] :
        replies_' = replies_ \o <<WordReply("ack")>> \o
                      [i \in DOMAIN listed |-> [says |-> "wificred", slot |-> listed[i]]]
  BY DEF ListSlots, WordReply, k
<1> DEFINE lines == [i \in 1 .. k |-> [says |-> "wificred", slot |-> listed[i]]]
           new == <<WordReply("ack")>> \o lines
<1>3. creds' = creds
  BY DEF ListSlots
<1>4. Occupied(creds) \subseteq Slots /\ \A s \in Occupied(creds) : creds[s] # Empty
  BY DEF Occupied
<1>5. /\ lines \in Seq(WifiReplies) /\ Len(lines) = k
      /\ \A i \in 1 .. k : lines[i].says = "wificred" /\ creds[lines[i].slot] # Empty
  <2>1. \A i \in 1 .. k : lines[i] \in WifiReplies
    BY <1>4 DEF WifiReplies, ReplyWords
  <2>2. lines \in [1 .. k -> WifiReplies]
    BY <2>1
  <2>3. lines \in Seq(WifiReplies) /\ Len(lines) = k
    BY <1>1, <2>2
  <2> QED BY <1>4, <2>3
<1>6. /\ <<WordReply("ack")>> \in Seq(WifiReplies) /\ Len(<<WordReply("ack")>>) = 1
      /\ <<WordReply("ack")>>[1] = WordReply("ack") /\ WordReply("ack").says = "ack"
  BY OneReply DEF ReplyWords
<1>7. replies_' = replies_ \o new
  <2>1. DOMAIN listed = 1 .. k
    BY <1>2
  <2>2. replies_' = replies_ \o <<WordReply("ack")>> \o lines
    BY <1>2, <2>1
  <2> HIDE DEF lines
  <2> QED BY <1>5, <1>6, <2>2, ConcatAssociative
<1> HIDE DEF lines
<1>8. /\ new \in Seq(WifiReplies) /\ Len(new) = k + 1
      /\ \A i \in 1 .. Len(new) : new[i] = IF i = 1 THEN WordReply("ack") ELSE lines[i - 1]
  BY <1>1, <1>5, <1>6
<1> HIDE DEF new
<1>9. \A i \in 1 .. Len(new) : new[i].says = "wificred" => creds[new[i].slot] # Empty
  BY <1>1, <1>5, <1>6, <1>8
<1>10. NSlots \in Nat
  BY WifiAssumption
<1>11. AnswerTo(robotIds, entry, new)
  <2>1. Len(new) <= NSlots + 1
    BY <1>1, <1>8, <1>10
  <2>2. StoreTyped'
    BY <1>3 DEF StoreTyped
  <2>3. robotIds' = robotIds + 1 /\ ~(robotIds > robotIds)
    OBVIOUS
  <2>4. \A i \in 1 .. Len(new) : new[i].says = "wificred" => creds'[new[i].slot] # Empty
    BY <1>3, <1>9
  <2> QED BY <1>7, <1>8, <2>1, <2>2, <2>3, <2>4 DEF AnswerTo
<1> QED BY <1>11

\* Whatever line arrives, its answer tells what the store then holds.
LEMMA ReceiveAnswers ==
  ASSUME StoreTyped, NEW n \in Nat, robotIds \in Nat, NEW entry \in ProvisionEntries,
         replies_ \in Seq(WifiReplies), ReceiveCred(n, entry)
  PROVE  \E new : AnswerTo(n, entry, new)
<1>1. CASE n > robotIds
  <2>1. replies_' = Append(replies_, WordReply("nack")) /\ UNCHANGED <<creds, robotIds>>
    BY <1>1 DEF ReceiveCred, WordReply
  <2>2. AnswerTo(n, entry, <<WordReply("nack")>>)
    BY <1>1, <2>1, RefusedLine
  <2> QED BY <2>2
<1>2. CASE n < robotIds
  <2>1. replies_' = Append(replies_, WordReply("ack")) /\ UNCHANGED <<creds, robotIds>>
    BY <1>2 DEF ReceiveCred, WordReply
  <2>2. AnswerTo(n, entry, <<WordReply("ack")>>)
    BY <1>2, <2>1, RefusedLine
  <2> QED BY <2>2
<1>3. CASE n = robotIds
  <2>1. robotIds' = robotIds + 1 /\ IF entry.verb = "list" THEN ListSlots ELSE WriteSlot(entry)
    BY <1>3 DEF ReceiveCred
  <2> QED BY <1>3, <2>1, ListedSlots, WrittenSlot
<1> QED BY <1>1, <1>2, <1>3
-----------------------------------------------------------------------------
(* The invariant of the wire and the tool. *)

ToolReports == [verb : {"none", "set", "clear", "list"}, slot : Nat, cred : Networks \cup {Empty},
            ok : BOOLEAN, listed : SUBSET Slots, stored : Networks \cup {Empty},
            occupied : SUBSET Slots, trusted : BOOLEAN]
ToolTypes == [at : {"closed", "open", "reading"}, todo : Seq(ProvisionEntries), seq : Nat,
              lines : SUBSET WifiReplies, lost : SUBSET ReplyWords, calm : BOOLEAN,
              report : ToolReports]

\* The robot's word on this exchange, read or still on its way.
ToolSaid(word) == \/ SaysBack(word)
              \/ \E i \in 1 .. Len(replies_) : replies_[i].says = word

\* An ack without an err beside it is of a write that is in the store, and
\* what is listed is occupied.
AnswerIsTrue ==
    /\ ToolSaid("ack") /\ Head(wifiTool.todo).verb # "list" =>
         \/ ToolSaid("err")
         \/ /\ Head(wifiTool.todo).slot \in Slots
            /\ creds[Head(wifiTool.todo).slot] = Head(wifiTool.todo).cred
    /\ \A r \in wifiTool.lines : r.says = "wificred" => creds[r.slot] # Empty
    /\ \A i \in 1 .. Len(replies_) :
         replies_[i].says = "wificred" => creds[replies_[i].slot] # Empty

\* In a calm session the robot expects no number above the tool's next, and
\* nothing of an earlier exchange is on its way.
WireInv ==
    /\ StoreTyped
    /\ calls \in 0 .. MaxCalls /\ robotIds \in 1 .. calls + 1
    /\ replies_ \in Seq(WifiReplies) /\ Len(replies_) <= InAir
    /\ wifiTool \in ToolTypes
    /\ wifiTool.at = "reading" => wifiTool.todo # <<>>
    /\ wifiTool.calm => robotIds <= wifiTool.seq + 1
    /\ wifiTool.calm /\ wifiTool.at # "reading" => replies_ = <<>>
    /\ wifiTool.calm /\ wifiTool.at = "reading" /\ wifiTool.lost = {} => AnswerIsTrue
    /\ ReportedIsStored /\ ListedIsOccupied

\* What WireInv speaks of stays the same.
LEMMA WireStutters ==
  ASSUME WireInv, UNCHANGED <<creds, robotIds, replies_, wifiTool, calls>>
  PROVE  WireInv'
BY DEF WireInv, StoreTyped, AnswerIsTrue, ToolSaid, SaysBack, ReportedIsStored, ListedIsOccupied

\* After a reset the session is no longer calm, so WireInv claims less.
LEMMA BoardResetWire ==
  ASSUME WireInv, BoardReset
  PROVE  WireInv'
<1>1. /\ calls < MaxCalls /\ calls' = calls + 1 /\ robotIds' = 1 /\ replies_' = replies_
      /\ wifiTool' = [wifiTool EXCEPT !.calm = FALSE]
  BY DEF BoardReset
<1>2. PICK kept \in {NSlots} \cup 0 .. NSlots - 1 :
        creds' = [s \in Slots |-> IF s < kept THEN creds[s] ELSE Empty]
  BY DEF BoardReset
<1>3. StoreTyped'
  BY <1>2 DEF WireInv, StoreTyped
<1>4. /\ wifiTool' \in ToolTypes /\ ~wifiTool'.calm /\ wifiTool'.at = wifiTool.at
      /\ wifiTool'.todo = wifiTool.todo /\ wifiTool'.report = wifiTool.report
  BY <1>1 DEF WireInv, ToolTypes
<1>5. calls' \in 0 .. MaxCalls /\ robotIds' \in 1 .. calls' + 1
  BY <1>1, WifiAssumption DEF WireInv
<1> QED BY <1>1, <1>3, <1>4, <1>5 DEF WireInv, ReportedIsStored, ListedIsOccupied

\* A lost reply is counted as lost, and claims nothing.
LEMMA ReplyLostWire ==
  ASSUME WireInv, ReplyLost
  PROVE  WireInv'
<1>1. /\ replies_ # <<>> /\ replies_' = Tail(replies_)
      /\ wifiTool' = [wifiTool EXCEPT !.lost = @ \cup {Head(replies_).says}]
      /\ UNCHANGED <<creds, robotIds, walk, calls>>
  BY DEF ReplyLost
<1>2. /\ replies_' \in Seq(WifiReplies) /\ Len(replies_') <= InAir
      /\ Head(replies_).says \in ReplyWords
  <2>1. /\ Len(replies_) \in Nat /\ Len(replies_') = Len(replies_) - 1
        /\ replies_' \in Seq(WifiReplies)
    BY <1>1 DEF WireInv
  <2>2. Head(replies_) \in WifiReplies
    BY <1>1 DEF WireInv
  <2> QED BY <2>1, <2>2, WifiAssumption DEF WireInv, WifiReplies
<1>3. /\ wifiTool' \in ToolTypes /\ wifiTool'.calm = wifiTool.calm /\ wifiTool'.at = wifiTool.at
      /\ wifiTool'.todo = wifiTool.todo /\ wifiTool'.report = wifiTool.report
      /\ wifiTool'.seq = wifiTool.seq /\ wifiTool'.lost # {}
  BY <1>1, <1>2 DEF WireInv, ToolTypes
<1>4. wifiTool.calm => wifiTool.at = "reading"
  BY <1>1 DEF WireInv
<1> QED BY <1>1, <1>2, <1>3, <1>4 DEF WireInv, StoreTyped, ReportedIsStored, ListedIsOccupied

\* A fresh link hears nothing of an earlier one.
LEMMA OpenLinkWire ==
  ASSUME WireInv, OpenLink
  PROVE  WireInv'
<1>1. PICK todo \in CommandLists, heard \in BOOLEAN :
        /\ robotIds' = IF heard THEN 1 ELSE robotIds
        /\ wifiTool' = [at |-> "open", todo |-> todo, seq |-> 0, lines |-> {}, lost |-> {},
                        calm |-> heard /\ replies_ = <<>>, report |-> NoReport]
  BY DEF OpenLink
<1>2. calls < MaxCalls /\ calls' = calls + 1 /\ UNCHANGED <<creds, replies_, walk>>
  BY DEF OpenLink
<1>3. calls' \in 0 .. MaxCalls /\ robotIds' \in 1 .. calls' + 1
  BY <1>1, <1>2, WifiAssumption DEF WireInv
<1>4. NoReport \in ToolReports /\ ~NoReport.trusted
  BY DEF NoReport, ToolReports
<1>5. todo \in Seq(ProvisionEntries)
  BY WifiAssumption DEF ProvisionEntries
<1> DEFINE calm == heard /\ replies_ = <<>>
<1>6. calm \in BOOLEAN
  OBVIOUS
<1>7. /\ wifiTool' \in ToolTypes /\ wifiTool'.at = "open" /\ wifiTool'.seq = 0
      /\ wifiTool'.calm = calm /\ wifiTool'.report = NoReport
  <2> HIDE DEF calm, NoReport
  <2>1. wifiTool' = [at |-> "open", todo |-> todo, seq |-> 0, lines |-> {}, lost |-> {},
                     calm |-> calm, report |-> NoReport]
    BY <1>1 DEF calm
  <2> QED BY <1>4, <1>5, <1>6, <2>1 DEF ToolTypes
<1>8. wifiTool'.calm => replies_' = <<>> /\ robotIds' = 1
  BY <1>1, <1>2, <1>7
<1>9. ReportedIsStored' /\ ListedIsOccupied'
  BY <1>4, <1>7 DEF ReportedIsStored, ListedIsOccupied
<1> QED BY <1>2, <1>3, <1>7, <1>8, <1>9 DEF WireInv, StoreTyped

\* A closed link keeps its report.
LEMMA CloseLinkWire ==
  ASSUME WireInv, CloseLink
  PROVE  WireInv'
<1>1. /\ wifiTool.at = "open" /\ wifiTool' = [wifiTool EXCEPT !.at = "closed"]
      /\ UNCHANGED <<creds, robotIds, replies_, walk, calls>>
  BY DEF CloseLink
<1>2. /\ wifiTool' \in ToolTypes /\ wifiTool'.calm = wifiTool.calm /\ wifiTool'.at = "closed"
      /\ wifiTool'.report = wifiTool.report /\ wifiTool'.seq = wifiTool.seq
  BY <1>1 DEF WireInv, ToolTypes
<1> QED BY <1>1, <1>2 DEF WireInv, StoreTyped, ReportedIsStored, ListedIsOccupied

\* One call: the line it sends is answered truly, or not at all.
LEMMA ExchangeWire ==
  ASSUME WireInv, wificred_exchange
  PROVE  WireInv'
<1> DEFINE n == wifiTool.seq + 1
           entry == Head(wifiTool.todo)
<1>1. /\ wifiTool.at = "open" /\ wifiTool.todo # <<>> /\ calls < MaxCalls
      /\ Len(replies_) + NSlots < InAir /\ calls' = calls + 1
      /\ wifiTool' = [wifiTool EXCEPT !.at = "reading", !.seq = @ + 1, !.lines = {}, !.lost = {}]
      /\ ReceiveCred(n, entry) \/ UNCHANGED <<creds, robotIds, replies_>>
  BY DEF wificred_exchange
<1>2. /\ wifiTool' \in ToolTypes /\ wifiTool'.at = "reading" /\ wifiTool'.seq = n
      /\ wifiTool'.lines = {} /\ wifiTool'.calm = wifiTool.calm /\ wifiTool'.lost = {}
      /\ wifiTool'.todo = wifiTool.todo /\ wifiTool'.report = wifiTool.report
  <2>1. wifiTool \in ToolTypes /\ wifiTool.seq \in Nat /\ n \in Nat
    BY DEF WireInv, ToolTypes
  <2>2. wifiTool' = [wifiTool EXCEPT !.at = "reading", !.seq = n, !.lines = {}, !.lost = {}]
    BY <1>1
  <2> HIDE DEF n
  <2> QED BY <2>1, <2>2 DEF ToolTypes
<1>3. n \in Nat \ {0} /\ entry \in ProvisionEntries /\ robotIds \in Nat /\ wifiTool.seq \in Nat
  <2>1. wifiTool.seq \in Nat /\ wifiTool.todo \in Seq(ProvisionEntries)
    BY DEF WireInv, ToolTypes
  <2>2. calls \in Nat /\ robotIds \in 1 .. calls + 1
    BY WifiAssumption DEF WireInv
  <2> QED BY <1>1, <2>1, <2>2
<1>4. calls \in Nat /\ calls' \in 0 .. MaxCalls
  BY <1>1, WifiAssumption DEF WireInv
<1>5. wifiTool.calm => robotIds <= n /\ replies_ = <<>>
  BY <1>1 DEF WireInv
<1>6. ReportedIsStored' /\ ListedIsOccupied'
  BY <1>2 DEF WireInv, ReportedIsStored, ListedIsOccupied
<1>7. ASSUME UNCHANGED <<creds, robotIds, replies_>>
      PROVE  WireInv'
  <2>1. wifiTool'.calm => AnswerIsTrue'
    <3>1. SUFFICES ASSUME wifiTool'.calm
                   PROVE  AnswerIsTrue'
      OBVIOUS
    <3>2. replies_' = <<>>
      BY <1>2, <1>5, <1>7, <3>1
    <3>3. 1 .. Len(replies_') = {}
      BY <3>2
    <3> QED BY <1>2, <3>3 DEF AnswerIsTrue, ToolSaid, SaysBack
  <2>2. robotIds' \in 1 .. calls' + 1 /\ (wifiTool'.calm => robotIds' <= wifiTool'.seq + 1)
    BY <1>1, <1>2, <1>3, <1>4, <1>5, <1>7 DEF WireInv
  <2> QED BY <1>1, <1>2, <1>4, <1>6, <1>7, <2>1, <2>2 DEF WireInv, StoreTyped
<1>8. ASSUME ReceiveCred(n, entry)
      PROVE  WireInv'
  <2>1. PICK new : AnswerTo(n, entry, new)
    BY <1>3, <1>8, ReceiveAnswers DEF WireInv
  <2>2. /\ new \in Seq(WifiReplies) /\ Len(new) <= NSlots + 1 /\ replies_' = replies_ \o new
        /\ StoreTyped' /\ robotIds' \in {robotIds, n + 1} /\ (robotIds' # robotIds => n = robotIds)
    BY <2>1 DEF AnswerTo
  <2>3. replies_' \in Seq(WifiReplies) /\ Len(replies_') <= InAir
    <3>1. Len(replies_) \in Nat /\ Len(new) \in Nat /\ Len(replies_') = Len(replies_) + Len(new)
          /\ replies_' \in Seq(WifiReplies)
      BY <2>2 DEF WireInv
    <3> QED BY <1>1, <2>2, <3>1, WifiAssumption
  <2>4. robotIds' \in 1 .. calls' + 1 /\ (wifiTool'.calm => robotIds' <= wifiTool'.seq + 1)
    BY <1>1, <1>2, <1>3, <1>4, <1>5, <2>2 DEF WireInv
  <2>5. ASSUME wifiTool'.calm
        PROVE  AnswerIsTrue'
    <3>1. replies_' = new
      BY <1>2, <1>5, <2>2, <2>5, ConcatEmptySeq
    <3>2. /\ n > robotIds => \A i \in 1 .. Len(new) : new[i].says # "ack"
          /\ n = robotIds /\ entry.verb # "list" =>
               \/ \E i \in 1 .. Len(new) : new[i].says = "err"
               \/ entry.slot \in Slots /\ creds'[entry.slot] = entry.cred
          /\ \A i \in 1 .. Len(new) : new[i].says = "wificred" => creds'[new[i].slot] # Empty
      BY <2>1 DEF AnswerTo
    <3>3. n > robotIds \/ n = robotIds
      BY <1>2, <1>3, <1>5, <2>5
    <3>4. \A word : ToolSaid(word)' <=> \E i \in 1 .. Len(new) : new[i].says = word
      BY <1>2, <3>1 DEF ToolSaid, SaysBack
    <3>5. Head(wifiTool'.todo) = entry
      BY <1>2
    <3> HIDE DEF n, entry
    <3>6. ToolSaid("ack")' /\ entry.verb # "list" =>
            ToolSaid("err")' \/ (entry.slot \in Slots /\ creds'[entry.slot] = entry.cred)
      BY <3>2, <3>3, <3>4
    <3>7. \A i \in 1 .. Len(replies_') : replies_'[i].says = "wificred" =>
            creds'[replies_'[i].slot] # Empty
      BY <3>1, <3>2
    <3> QED BY <1>2, <3>5, <3>6, <3>7 DEF AnswerIsTrue
  <2> QED BY <1>1, <1>2, <1>4, <1>6, <2>2, <2>3, <2>4, <2>5 DEF WireInv
<1> QED BY <1>1, <1>7, <1>8

\* A reply that is read was in the air, and is as true as it was there.
LEMMA ReadReplyWire ==
  ASSUME WireInv, ReadReply
  PROVE  WireInv'
<1> DEFINE head == Head(replies_)
<1>1. /\ wifiTool.at = "reading" /\ replies_ # <<>> /\ replies_' = Tail(replies_)
      /\ wifiTool' = [wifiTool EXCEPT !.lines = @ \cup {head}]
      /\ UNCHANGED <<creds, robotIds, walk, calls>>
  BY DEF ReadReply
<1>2. /\ Len(replies_) \in Nat \ {0} /\ Len(replies_') = Len(replies_) - 1
      /\ replies_' \in Seq(WifiReplies) /\ head \in WifiReplies /\ head = replies_[1]
      /\ \A i \in 1 .. Len(replies_') : replies_'[i] = replies_[i + 1]
  BY <1>1 DEF WireInv
<1>3. /\ wifiTool' \in ToolTypes /\ wifiTool'.calm = wifiTool.calm /\ wifiTool'.at = wifiTool.at
      /\ wifiTool'.todo = wifiTool.todo /\ wifiTool'.report = wifiTool.report
      /\ wifiTool'.seq = wifiTool.seq /\ wifiTool'.lost = wifiTool.lost
      /\ wifiTool'.lines = wifiTool.lines \cup {head}
  BY <1>1, <1>2 DEF WireInv, ToolTypes
<1> HIDE DEF head
<1>4. \A word : ToolSaid(word)' <=> ToolSaid(word)
  <2>1. \A i \in 1 .. Len(replies_) : i = 1 \/ (i - 1 \in 1 .. Len(replies_') /\ i = (i - 1) + 1)
    BY <1>2
  <2>2. \A i \in 1 .. Len(replies_') : i + 1 \in 1 .. Len(replies_)
    BY <1>2
  <2>3. 1 \in 1 .. Len(replies_)
    BY <1>2
  <2> TAKE word
  <2>4. ASSUME ToolSaid(word)'
        PROVE  ToolSaid(word)
    <3>1. CASE head.says = word
      BY <1>2, <2>3, <3>1 DEF ToolSaid
    <3>2. CASE SaysBack(word)
      BY <3>2 DEF ToolSaid
    <3>3. CASE \E i \in 1 .. Len(replies_') : replies_'[i].says = word
      BY <1>2, <2>2, <3>3 DEF ToolSaid
    <3> QED BY <1>3, <2>4, <3>1, <3>2, <3>3 DEF ToolSaid, SaysBack
  <2>5. ASSUME ToolSaid(word)
        PROVE  ToolSaid(word)'
    <3>1. CASE SaysBack(word)
      BY <1>3, <3>1 DEF ToolSaid, SaysBack
    <3>2. ASSUME NEW i \in 1 .. Len(replies_), replies_[i].says = word
          PROVE  ToolSaid(word)'
      <4>1. CASE i = 1
        BY <1>2, <1>3, <3>2, <4>1 DEF ToolSaid, SaysBack
      <4>2. CASE i # 1
        <5>1. i - 1 \in 1 .. Len(replies_') /\ replies_'[i - 1] = replies_[i]
          BY <1>2, <2>1, <4>2
        <5> QED BY <3>2, <5>1 DEF ToolSaid
      <4> QED BY <4>1, <4>2
    <3> QED BY <2>5, <3>1, <3>2 DEF ToolSaid
  <2> QED BY <2>4, <2>5
<1>5. AnswerIsTrue => AnswerIsTrue'
  <2>1. \A i \in 1 .. Len(replies_') : i + 1 \in 1 .. Len(replies_)
    BY <1>2
  <2>2. 1 \in 1 .. Len(replies_)
    BY <1>2
  <2> QED BY <1>1, <1>2, <1>3, <1>4, <2>1, <2>2 DEF AnswerIsTrue
<1>6. Len(replies_') <= InAir
  BY <1>2, WifiAssumption DEF WireInv
<1> QED BY <1>1, <1>2, <1>3, <1>5, <1>6 DEF WireInv, StoreTyped, ReportedIsStored, ListedIsOccupied

\* A report is trusted only on what the robot answered to this call.
LEMMA WindowClosesWire ==
  ASSUME WireInv, WindowCloses
  PROVE  WireInv'
<1> DEFINE entry == Head(wifiTool.todo)
           ok == entry.verb # "list" /\ _report
           listed == IF entry.verb = "list" THEN wificred_list ELSE {}
           stored == IF entry.slot \in Slots THEN creds[entry.slot] ELSE Empty
           trusted == wifiTool.calm /\ wifiTool.lost = {} /\ replies_ = <<>>
           calm == wifiTool.calm /\ replies_ = <<>>
           report == [verb |-> entry.verb, slot |-> entry.slot, cred |-> entry.cred, ok |-> ok,
                      listed |-> listed, stored |-> stored, occupied |-> Occupied(creds),
                      trusted |-> trusted]
<1>1. /\ wifiTool.at = "reading" /\ UNCHANGED <<creds, robotIds, replies_, walk, calls>>
      /\ wifiTool' = [wifiTool EXCEPT !.at = "open", !.todo = Tail(@), !.calm = calm,
                                      !.report = report]
  BY DEF WindowCloses
<1>2. /\ entry \in ProvisionEntries /\ Tail(wifiTool.todo) \in Seq(ProvisionEntries)
      /\ wifiTool.lines \subseteq WifiReplies
      /\ wifiTool.calm \in BOOLEAN
  BY <1>1 DEF WireInv, ToolTypes
<1>3. /\ ok \in BOOLEAN /\ trusted \in BOOLEAN /\ calm \in BOOLEAN
      /\ listed \in SUBSET Slots /\ Occupied(creds) \in SUBSET Slots
      /\ stored \in Networks \cup {Empty}
  <2>1. wificred_list \subseteq Slots
    BY <1>2 DEF wificred_list, WifiReplies
  <2>2. Occupied(creds) \subseteq Slots
    BY DEF Occupied
  <2>3. stored \in Networks \cup {Empty}
    BY DEF WireInv, StoreTyped
  <2> QED BY <1>2, <2>1, <2>2, <2>3 DEF _report
<1>4. trusted /\ ok => stored = entry.cred
  <2>1. SUFFICES ASSUME trusted, ok
                 PROVE  stored = entry.cred
    OBVIOUS
  <2>2. AnswerIsTrue /\ replies_ = <<>>
    BY <1>1, <2>1 DEF WireInv
  <2>3. SaysBack("ack") /\ ~SaysBack("err") /\ entry.verb # "list"
    BY <2>1 DEF _report
  <2>4. ToolSaid("ack") /\ ~ToolSaid("err")
    BY <2>2, <2>3 DEF ToolSaid
  <2> QED BY <2>2, <2>3, <2>4 DEF AnswerIsTrue
<1>5. trusted => listed \subseteq Occupied(creds)
  <2>1. SUFFICES ASSUME trusted
                 PROVE  wificred_list \subseteq Occupied(creds)
    OBVIOUS
  <2>2. AnswerIsTrue
    BY <1>1, <2>1 DEF WireInv
  <2> QED BY <1>2, <2>2 DEF AnswerIsTrue, wificred_list, Occupied, WifiReplies
<1> HIDE DEF ok, listed, stored, trusted, calm
<1>6. /\ report \in ToolReports /\ report.ok = ok
      /\ report.trusted = trusted /\ report.stored = stored
      /\ report.cred = entry.cred /\ report.listed = listed /\ report.occupied = Occupied(creds)
  <2> HIDE DEF entry
  <2>1. /\ entry.verb \in {"set", "clear", "list"} /\ entry.slot \in Nat
        /\ entry.cred \in Networks \cup {Empty}
    BY <1>2 DEF ProvisionEntries
  <2> QED BY <1>3, <2>1 DEF ToolReports
<1> HIDE DEF report, entry
<1>7. /\ wifiTool' \in ToolTypes /\ wifiTool'.at = "open" /\ wifiTool'.calm = calm
      /\ wifiTool'.report = report /\ wifiTool'.seq = wifiTool.seq
  BY <1>1, <1>2, <1>3, <1>6 DEF WireInv, ToolTypes
<1>8. ReportedIsStored' /\ ListedIsOccupied'
  BY <1>4, <1>5, <1>6, <1>7 DEF ReportedIsStored, ListedIsOccupied
<1>9. wifiTool'.calm => wifiTool.calm /\ replies_' = <<>>
  BY <1>1, <1>7 DEF calm
<1> QED BY <1>1, <1>7, <1>8, <1>9 DEF WireInv, StoreTyped
-----------------------------------------------------------------------------
(* The inductive invariant, step by step. *)

WifiInv == WireInv /\ WalkInv

\* The invariant holds at first, whatever the store holds then.
LEMMA WifiInitInv == WifiInit => WifiInv
<1> SUFFICES ASSUME WifiInit
             PROVE  WifiInv
  OBVIOUS
<1>1. StoreTyped /\ robotIds = 1 /\ replies_ = <<>> /\ calls = 0
  BY DEF WifiInit, StoreTyped
<1>2. NoReport \in ToolReports /\ ~NoReport.trusted
  BY DEF NoReport, ToolReports
<1>3. /\ wifiTool \in ToolTypes /\ wifiTool.at = "closed" /\ ~wifiTool.calm
      /\ wifiTool.report = NoReport
  <2> HIDE DEF NoReport
  <2>1. wifiTool = [at |-> "closed", todo |-> <<>>, seq |-> 0, lines |-> {}, lost |-> {},
                    calm |-> FALSE, report |-> NoReport]
    BY DEF WifiInit
  <2>2. <<>> \in Seq(ProvisionEntries)
    OBVIOUS
  <2> QED BY <1>2, <2>1, <2>2 DEF ToolTypes
<1>4. WireInv
  BY <1>1, <1>2, <1>3, WifiAssumption DEF WireInv, ReportedIsStored, ListedIsOccupied
<1> DEFINE begun == Occupied(creds) # {}
<1>5. begun \in BOOLEAN /\ 0 \in Slots /\ walk = [Unbegun EXCEPT !.begun = begun]
  BY WifiAssumption DEF WifiInit, Slots
<1> HIDE DEF begun
<1>6. WalkInv
  <2>1. walk = [begun |-> begun, walking |-> FALSE, slot |-> 0, attempts |-> 0, held |-> Empty,
                link |-> "disabled", error |-> 0, waited |-> [s \in Slots |-> 0]]
    BY <1>5 DEF Unbegun
  <2>2. \A s \in Slots : s # 0 => Ahead(0, s) \in Int /\ Ahead(0, s) >= 1
    BY <1>5, OneBehind
  <2> DEFINE zeros == [s \in Slots |-> 0]
  <2>3. zeros \in [Slots -> Nat] /\ 0 \in 0 .. kMaxAttemptsPerSlot
    BY DEF kMaxAttemptsPerSlot
  <2>4. walk \in WalkTypes
    <3> HIDE DEF zeros
    <3>1. walk = [begun |-> begun, walking |-> FALSE, slot |-> 0, attempts |-> 0, held |-> Empty,
                  link |-> "disabled", error |-> 0, waited |-> zeros]
      BY <2>1 DEF zeros
    <3>2. begun \in BOOLEAN /\ 0 \in Slots
      BY <1>5
    <3> QED BY <2>3, <3>1, <3>2 DEF WalkTypes
  <2> QED BY <1>5, <2>1, <2>2, <2>4 DEF WalkInv, WalkFair, kMaxAttemptsPerSlot
<1> QED BY <1>4, <1>6 DEF WifiInv

\* The link's own steps leave the walk where it is.
LEMMA LinkKeepsWalk ==
  ASSUME WalkInv, walk.walking,
         NEW link \in {"bring-up", "joined", "ready"}, NEW error \in {0, Refusal},
         walk' = [walk EXCEPT !.link = link, !.error = error]
  PROVE  WalkInv'
<1>1. /\ walk' \in WalkTypes /\ walk'.walking /\ walk'.slot = walk.slot
      /\ walk'.attempts = walk.attempts /\ walk'.waited = walk.waited
  BY DEF WalkInv, WalkTypes
<1> QED BY <1>1 DEF WalkInv, WalkFair

\* A reset starts the walk over, with nobody waiting.
LEMMA BoardResetWalk ==
  ASSUME BoardReset
  PROVE  WalkInv'
<1> DEFINE begun == Occupied(creds') # {}
<1>1. begun \in BOOLEAN /\ 0 \in Slots /\ walk' = [Unbegun EXCEPT !.begun = begun]
  BY WifiAssumption DEF BoardReset, Slots
<1> HIDE DEF begun
<1>2. walk' = [begun |-> begun, walking |-> FALSE, slot |-> 0, attempts |-> 0, held |-> Empty,
               link |-> "disabled", error |-> 0, waited |-> [s \in Slots |-> 0]]
  BY <1>1 DEF Unbegun
<1>3. \A s \in Slots : s # 0 => Ahead(0, s) \in Int /\ Ahead(0, s) >= 1
  BY <1>1, OneBehind
<1> DEFINE zeros == [s \in Slots |-> 0]
<1>4. walk' \in WalkTypes
  <2>1. zeros \in [Slots -> Nat] /\ 0 \in 0 .. kMaxAttemptsPerSlot
    BY DEF kMaxAttemptsPerSlot
  <2> HIDE DEF zeros
  <2>2. walk' = [begun |-> begun, walking |-> FALSE, slot |-> 0, attempts |-> 0, held |-> Empty,
                 link |-> "disabled", error |-> 0, waited |-> zeros]
    BY <1>2 DEF zeros
  <2>3. begun \in BOOLEAN /\ 0 \in Slots
    BY <1>1
  <2> QED BY <2>1, <2>2, <2>3 DEF WalkTypes
<1> QED BY <1>1, <1>2, <1>3, <1>4 DEF WalkInv, WalkFair, kMaxAttemptsPerSlot

\* A step of the walk.
WalkStep ==
    \/ FirstService \/ Joins \/ JoinRefused \/ JoinFails \/ ConfigureFails
    \/ SocketOpens \/ SocketFails \/ serviceBackoff

\* Every step of the walk is fair to the slots it passes.
LEMMA WalkSteps ==
  ASSUME StoreTyped, WalkInv, WalkStep
  PROVE  WalkInv' /\ UNCHANGED <<creds, robotIds, replies_, wifiTool, calls>>
<1>1. UNCHANGED <<creds, robotIds, replies_, wifiTool, calls>>
  BY DEF WalkStep, FirstService, Joins, JoinRefused, JoinFails, ConfigureFails, SocketOpens,
         SocketFails, serviceBackoff, IntoBackoff, Walks
<1>2. walk.link # "disabled" => walk.walking
  BY DEF WalkInv, WalkFair
<1>3. walk.error \in {0, Refusal} /\ walk \in WalkTypes
  BY DEF WalkInv, WalkTypes
<1>4. WalkInv'
  <2>1. CASE FirstService
    BY <2>1, FirstServiceKeeps
  <2>2. CASE Joins
    <3>1. walk.walking /\ walk' = [walk EXCEPT !.link = "joined", !.error = 0]
      BY <1>2, <2>2 DEF Joins, Walks
    <3> QED BY <3>1, LinkKeepsWalk
  <2>3. CASE SocketOpens
    <3>1. walk.walking /\ walk' = [walk EXCEPT !.link = "ready"]
      BY <1>2, <2>3 DEF SocketOpens, Walks
    <3>2. walk' = [walk EXCEPT !.link = "ready", !.error = walk.error]
      BY <1>3, <3>1 DEF WalkTypes
    <3> QED BY <1>3, <3>1, <3>2, LinkKeepsWalk
  <2>4. CASE serviceBackoff
    <3>1. walk.walking /\ walk' = [walk EXCEPT !.link = "bring-up"]
      BY <1>2, <2>4 DEF serviceBackoff, Walks
    <3>2. walk' = [walk EXCEPT !.link = "bring-up", !.error = walk.error]
      BY <1>3, <3>1 DEF WalkTypes
    <3> QED BY <1>3, <3>1, <3>2, LinkKeepsWalk
  <2>5. CASE JoinRefused
    <3>1. walk.walking /\ IntoBackoff(Refusal)
      BY <1>2, <2>5 DEF JoinRefused
    <3> QED BY <3>1, IntoBackoffKeeps
  <2>6. CASE JoinFails
    <3>1. walk.walking /\ IntoBackoff(0)
      BY <1>2, <2>6 DEF JoinFails
    <3> QED BY <3>1, IntoBackoffKeeps
  <2>7. CASE ConfigureFails \/ SocketFails
    <3>1. walk.walking /\ IntoBackoff(walk.error)
      BY <1>2, <2>7 DEF ConfigureFails, SocketFails
    <3> QED BY <1>3, <3>1, IntoBackoffKeeps
  <2> QED BY <2>1, <2>2, <2>3, <2>4, <2>5, <2>6, <2>7 DEF WalkStep
<1> QED BY <1>1, <1>4

\* Every step keeps both parts of the invariant.
LEMMA WifiStepInv == WifiInv /\ [WifiNext]_wifiVars => WifiInv'
<1> SUFFICES ASSUME WifiInv, [WifiNext]_wifiVars
             PROVE  WifiInv'
  OBVIOUS
<1>1. WireInv /\ WalkInv /\ StoreTyped
  BY DEF WifiInv, WireInv
<1>2. UNCHANGED walk => WalkInv'
  BY <1>1 DEF WalkInv, WalkFair
<1>3. CASE WalkStep
  BY <1>1, <1>3, WalkSteps, WireStutters DEF WifiInv
<1>4. CASE BoardReset
  BY <1>1, <1>4, BoardResetWire, BoardResetWalk DEF WifiInv
<1>5. CASE ReplyLost
  BY <1>1, <1>2, <1>5, ReplyLostWire DEF WifiInv, ReplyLost
<1>6. CASE OpenLink
  BY <1>1, <1>2, <1>6, OpenLinkWire DEF WifiInv, OpenLink
<1>7. CASE wificred_exchange
  BY <1>1, <1>2, <1>7, ExchangeWire DEF WifiInv, wificred_exchange
<1>8. CASE ReadReply
  BY <1>1, <1>2, <1>8, ReadReplyWire DEF WifiInv, ReadReply
<1>9. CASE WindowCloses
  BY <1>1, <1>2, <1>9, WindowClosesWire DEF WifiInv, WindowCloses
<1>10. CASE CloseLink
  BY <1>1, <1>2, <1>10, CloseLinkWire DEF WifiInv, CloseLink
<1>11. CASE UNCHANGED wifiVars
  BY <1>1, <1>2, <1>11, WireStutters DEF WifiInv, wifiVars
<1> QED BY <1>3, <1>4, <1>5, <1>6, <1>7, <1>8, <1>9, <1>10, <1>11 DEF WifiNext, WalkStep

\* The invariant of the store, the walk and the tool.
LEMMA WifiInvariance == WifiSpec => []WifiInv
BY WifiInitInv, WifiStepInv, PTL DEF WifiSpec

(* What the credential store, the walk, the replies on their way and the    *)
(* tool can be: the types of wifi_credential_store, wifi_join_sequencer and *)
(* provision_wifi.py hold however lines are lost and boards reset.          *)
THEOREM WifiTypeCorrect == WifiSpec => []WifiTypeOK
<1>1. WifiInv => WifiTypeOK
  <2> SUFFICES ASSUME WifiInv
               PROVE  WifiTypeOK
    OBVIOUS
  <2>1. robotIds \in 1 .. MaxCalls + 1
    BY WifiAssumption DEF WifiInv, WireInv
  <2>2. walk.slot \in Slots /\ walk.attempts \in 0 .. kMaxAttemptsPerSlot
    BY DEF WifiInv, WalkInv, WalkTypes
  <2>3. wifiTool.at \in {"closed", "open", "reading"}
    BY DEF WifiInv, WireInv, ToolTypes
  <2> QED BY <2>1, <2>2, <2>3 DEF WifiInv, WireInv, StoreTyped, WifiTypeOK
<1> QED BY <1>1, WifiInvariance, PTL

(* A slot provision_wifi.py reports ok is stored if the session was calm,   *)
(* no stored network waits longer than two attempts for each of the others, *)
(* and the list shows only what is stored: for any number of slots, any     *)
(* credentials and any order of failures, losses and resets.                *)
THEOREM ProvisioningSound == WifiSpec => []ProvisioningIsSound
<1>1. WifiInv => ProvisioningIsSound
  <2> SUFFICES ASSUME WifiInv
               PROVE  ProvisioningIsSound
    OBVIOUS
  <2>1. EveryNetworkGetsItsTurn
    <3>1. SUFFICES ASSUME NEW s \in Occupied(creds)
                   PROVE  walk.waited[s] <= kMaxAttemptsPerSlot * (NSlots - 1)
      BY DEF EveryNetworkGetsItsTurn
    <3>2. s \in Slots /\ walk.slot \in Slots /\ walk.waited \in [Slots -> Nat]
          /\ walk.attempts \in 0 .. 2
      BY <3>1 DEF Occupied, WifiInv, WalkInv, WalkTypes, kMaxAttemptsPerSlot
    <3>3. PICK n \in Nat \ {0} : n = NSlots
      BY WifiAssumption
    <3>4. CASE s = walk.slot
      BY <3>3, <3>4 DEF WifiInv, WalkInv, WalkFair, kMaxAttemptsPerSlot
    <3>5. CASE s # walk.slot
      <4>1. Ahead(walk.slot, s) \in 1 .. n - 1
        BY <3>2, <3>3, <3>5, OneBehind
      <4>2. walk.waited[s] <= 2 * (Ahead(walk.slot, s) - 1) + walk.attempts
        BY <3>2, <3>5 DEF WifiInv, WalkInv, WalkFair, kMaxAttemptsPerSlot
      <4> QED BY <3>2, <3>3, <4>1, <4>2 DEF kMaxAttemptsPerSlot
    <3> QED BY <3>4, <3>5
  <2> QED BY <2>1 DEF WifiInv, WireInv, ProvisioningIsSound
<1> QED BY <1>1, WifiInvariance, PTL

-----------------------------------------------------------------------------
(* Lines and rows.  Both column sets are prefixes of the full one, cut or   *)
(* whole, so position i always means column FullColumns[i].                 *)

Prefix(n) == [i \in 1 .. n |-> FullColumns[i]]
ColumnsOf(n) == {FullColumns[i] : i \in 1 .. n}
FieldValue(md, c, f) == [of |-> c, frame |-> f, n |-> IF c = "seq" THEN md[f].seq ELSE 0]
TlmText(md, f, n) == [i \in 1 .. n |-> FieldValue(md, FullColumns[i], f)]
TlmRow(md, f, n) == [c \in ColumnsOf(n) |-> FieldValue(md, c, f)]

TlmModes == {"OFF", "POSE", "FULL"}
TlmFrames == [columns : {PoseColumns, FullColumns}, seq : 0 .. SeqModulus - 1]
HeaderLine(n) == [tag |-> "thdr", text |-> Prefix(n)]
FrameLine(md, f, n) == [tag |-> "t", text |-> TlmText(md, f, n)]
AirLines(md) == {HeaderLine(n) : n \in 1 .. 3}
                \cup {FrameLine(md, f, n) : f \in 1 .. Len(md), n \in 1 .. 3}
TlmRows(md) == {TlmRow(md, f, n) : f \in 1 .. Len(md), n \in 1 .. 3}
TlmStreams(md) == [columns : {Prefix(n) : n \in 0 .. 3}, frames : Seq(TlmRows(md)),
                orphan_frames : Nat, malformed : Nat, dropped : Nat, last_seq : 0 .. SeqModulus]
Recorders == [at : {"idle", "refused", "require", "staging", "capture", "wrote", "died"},
              tool : {"tour_run", "tour_watch"}, before : Nat]
RobotTypes == [mode : TlmModes, seq : 0 .. SeqModulus - 1, due : BOOLEAN,
               memo : {NoColumns, PoseColumns, FullColumns}, since : 0 .. RefreshFrames]

FrameNo(line) == line.text[1].frame

\* The two column sets, as beginnings of the full one.
LEMMA PrefixIs ==
  /\ Prefix(0) = <<>> /\ Prefix(2) = PoseColumns /\ Prefix(3) = FullColumns
  /\ \A n \in 0 .. 3 : Len(Prefix(n)) = n /\ DOMAIN Prefix(n) = 1 .. n
  /\ \A n \in 0 .. 3 : \A i \in 1 .. n : Prefix(n)[i] = FullColumns[i]
  /\ FullColumns[1] = "seq" /\ FullColumns[2] = "x" /\ FullColumns[3] = "dutl"
<1>1. /\ FullColumns[1] = "seq" /\ FullColumns[2] = "x" /\ FullColumns[3] = "dutl"
      /\ Len(FullColumns) = 3
  BY DEF FullColumns
<1>2. \A n \in 0 .. 3 : Len(Prefix(n)) = n /\ DOMAIN Prefix(n) = 1 .. n
  BY DEF Prefix
<1>3. \A n \in 0 .. 3 : \A i \in 1 .. n : Prefix(n)[i] = FullColumns[i]
  BY DEF Prefix
<1>4. Prefix(0) = <<>>
  BY DEF Prefix
<1>5. Prefix(2) = PoseColumns
  <2>1. PoseColumns[1] = "seq" /\ PoseColumns[2] = "x" /\ Len(PoseColumns) = 2
    BY DEF PoseColumns
  <2>2. PoseColumns = [i \in 1 .. 2 |-> PoseColumns[i]]
    BY DEF PoseColumns
  <2>3. \A i \in 1 .. 2 : i = 1 \/ i = 2
    OBVIOUS
  <2>4. \A i \in 1 .. 2 : PoseColumns[i] = FullColumns[i]
    BY <1>1, <2>1, <2>3
  <2> HIDE DEF PoseColumns, FullColumns
  <2> QED BY <2>2, <2>4 DEF Prefix
<1>6. Prefix(3) = FullColumns
  <2>1. FullColumns = [i \in 1 .. 3 |-> FullColumns[i]]
    BY DEF FullColumns
  <2> QED BY <2>1 DEF Prefix
<1> QED BY <1>1, <1>2, <1>3, <1>4, <1>5, <1>6

\* No two columns have one name.
LEMMA ColumnsDiffer ==
  \A i, j \in 1 .. 3 : FullColumns[i] = FullColumns[j] => i = j
<1>1. \A i \in 1 .. 3 : i = 1 \/ i = 2 \/ i = 3
  OBVIOUS
<1> QED BY <1>1, PrefixIs

\* A row as the decoder makes it: each value under the name the header has there.
BindByName(cols, text) ==
    [c \in {cols[i] : i \in DOMAIN text} |-> text[CHOOSE i \in DOMAIN text : cols[i] = c]]

\* Values bound to a header of their own length make the row of their frame.
LEMMA BoundRow ==
  \A md, f, n, cols, text : n \in 1 .. 3 /\ cols = Prefix(n) /\ text = TlmText(md, f, n) =>
    BindByName(cols, text) = TlmRow(md, f, n)
<1> TAKE md, f, n, cols, text
<1> HAVE n \in 1 .. 3 /\ cols = Prefix(n) /\ text = TlmText(md, f, n)
<1>1. DOMAIN text = 1 .. n /\ \A i \in 1 .. n : text[i] = FieldValue(md, FullColumns[i], f)
  BY DEF TlmText
<1>2. \A i \in 1 .. n : cols[i] = FullColumns[i]
  BY PrefixIs
<1>3. {cols[i] : i \in 1 .. n} = ColumnsOf(n)
  BY <1>2 DEF ColumnsOf
<1>4. ASSUME NEW c \in ColumnsOf(n)
      PROVE  text[CHOOSE i \in 1 .. n : cols[i] = c] = FieldValue(md, c, f)
  <2>1. PICK j \in 1 .. n : c = FullColumns[j]
    BY <1>4 DEF ColumnsOf
  <2>2. (CHOOSE i \in 1 .. n : cols[i] = c) \in 1 .. n
        /\ cols[CHOOSE i \in 1 .. n : cols[i] = c] = c
    BY <1>2, <2>1
  <2> QED BY <1>1, <1>2, <2>2
<1> QED BY <1>1, <1>3, <1>4 DEF BindByName, TlmRow
-----------------------------------------------------------------------------
(* The counter. *)

Wrap(x) == IF x < SeqModulus THEN x ELSE x - SeqModulus

\* The modulus is a number above one.
LEMMA ModulusIs == SeqModulus \in Nat /\ SeqModulus > 1
BY TelemetryAssumption

\* Fewer than a turn of unbroken frames later the number is that much on.
LEMMA SeqOfRun ==
  ASSUME NEW md \in Seq(TlmFrames), NEW i \in 1 .. Len(md), NEW j \in i .. Len(md),
         j - i < SeqModulus,
         \A k \in i + 1 .. j : md[k].seq = (md[k - 1].seq + 1) % SeqModulus
  PROVE  md[j].seq = Wrap(md[i].seq + (j - i))
<1> DEFINE Bad == {d \in 0 .. j - i : md[i + d].seq # Wrap(md[i].seq + d)}
<1>1. PICK m \in Nat \ {0} : m = SeqModulus
  BY ModulusIs
<1>2. /\ i \in Int /\ j \in Int /\ i <= j /\ j - i < m /\ Len(md) \in Nat
      /\ \A k \in 1 .. Len(md) : md[k].seq \in 0 .. m - 1
  <2>1. Len(md) \in Nat
    OBVIOUS
  <2>2. \A k \in 1 .. Len(md) : md[k] \in TlmFrames
    OBVIOUS
  <2>3. \A k \in 1 .. Len(md) : md[k].seq \in 0 .. m - 1
    BY <1>1, <2>2 DEF TlmFrames
  <2>4. i \in Int /\ j \in Int /\ i <= j
    BY <2>1
  <2> QED BY <1>1, <2>1, <2>3, <2>4
<1>3. Bad = {}
  <2>1. SUFFICES ASSUME Bad # {}
                 PROVE  FALSE
    OBVIOUS
  <2>2. Bad \subseteq Nat
    BY <1>2
  <2>3. PICK d \in Bad : \A e \in Bad : d <= e
    BY <2>1, <2>2, LeastOf
  <2>4. d \in Nat /\ d <= j - i /\ md[i + d].seq # Wrap(md[i].seq + d)
    BY <1>2, <2>3
  <2>5. md[i].seq \in 0 .. m - 1
    BY <1>2
  <2>6. d # 0
    BY <1>1, <1>2, <2>4, <2>5 DEF Wrap
  <2>7. /\ d - 1 \in 0 .. j - i /\ i + (d - 1) \in 1 .. Len(md) /\ i + d \in i + 1 .. j
        /\ (i + d) - 1 = i + (d - 1)
    BY <1>2, <2>4, <2>6
  <2>8. md[i + (d - 1)].seq = Wrap(md[i].seq + (d - 1))
    <3>1. d - 1 \notin Bad
      BY <2>2, <2>3, <2>4
    <3> QED BY <2>7, <3>1
  <2>9. md[i + d].seq = (Wrap(md[i].seq + (d - 1)) + 1) % m
    BY <1>1, <2>7, <2>8
  <2> DEFINE s == md[i].seq
             x == Wrap(s + (d - 1)) + 1
  <2>10. s \in 0 .. m - 1 /\ d \in 1 .. m - 1
    BY <1>1, <1>2, <2>4, <2>5, <2>6
  <2> HIDE DEF s
  <2>11. x \in Int /\ 1 <= x /\ x <= m
    BY <1>1, <2>10 DEF Wrap
  <2>12. x % m = IF x < m THEN x ELSE x - m
    <3>1. 1 - m <= x /\ x <= 2 * m - 1
      BY <2>11
    <3>2. x % m = IF x < 0 THEN x + m ELSE IF x < m THEN x ELSE x - m
      <4> HIDE DEF x
      <4> QED BY <2>11, <3>1, ModOfTurn
    <3> HIDE DEF x
    <3> QED BY <2>11, <3>2
  <2>13. (IF x < m THEN x ELSE x - m) = Wrap(s + d)
    BY <1>1, <2>10 DEF Wrap
  <2>14. md[i + d].seq = Wrap(s + d)
    BY <2>9, <2>12, <2>13 DEF s
  <2> QED BY <2>4, <2>14 DEF s
<1>4. j - i \in 0 .. j - i /\ i + (j - i) = j
  BY <1>2
<1>5. j - i \notin Bad
  BY <1>3
<1> HIDE DEF Bad
<1> QED
  <2>1. md[i + (j - i)].seq = Wrap(md[i].seq + (j - i))
    BY <1>4, <1>5 DEF Bad
  <2> QED BY <1>4, <2>1

\* ... and the distance of the numbers, taken modulo, is that of the frames.
LEMMA GapOfRun ==
  ASSUME NEW md \in Seq(TlmFrames), NEW i \in 1 .. Len(md), NEW j \in i + 1 .. Len(md),
         j - i < SeqModulus,
         \A k \in i + 1 .. j : md[k].seq = (md[k - 1].seq + 1) % SeqModulus
  PROVE  (md[j].seq - md[i].seq) % SeqModulus = j - i
<1>1. PICK m \in Nat \ {0} : m = SeqModulus
  BY ModulusIs
<1>2. PICK d \in Int : d = j - i
  OBVIOUS
<1>3. PICK s \in 0 .. m - 1 : s = md[i].seq
  <2>1. md[i] \in TlmFrames
    OBVIOUS
  <2>2. md[i].seq \in 0 .. m - 1
    BY <1>1, <2>1 DEF TlmFrames
  <2> QED BY <2>2
<1>4. d \in 1 .. m - 1
  BY <1>1, <1>2
<1>5. md[j].seq = Wrap(s + d)
  <2>1. j \in i .. Len(md)
    OBVIOUS
  <2> QED BY <1>2, <1>3, <2>1, SeqOfRun
<1>6. PICK x \in Int : x = Wrap(s + d) - s
  <2>1. s \in Int /\ d \in Int /\ SeqModulus \in Int
    BY <1>1
  <2>2. Wrap(s + d) - s \in Int
    BY <2>1 DEF Wrap
  <2> QED BY <2>2
<1>7. x = d \/ x = d - m
  BY <1>1, <1>4, <1>6 DEF Wrap
<1>8. 1 - m <= x /\ x <= 2 * m - 1
  BY <1>4, <1>7
<1>9. x % m = IF x < 0 THEN x + m ELSE IF x < m THEN x ELSE x - m
  BY <1>8, ModOfTurn
<1>10. x % m = d
  BY <1>4, <1>7, <1>9
<1> QED BY <1>1, <1>2, <1>3, <1>5, <1>6, <1>10
-----------------------------------------------------------------------------
(* The inductive invariant. *)

\* The lines in the air are of frames that were made, in their order.
AirFits(md, lines) ==
    /\ lines \in Seq(AirLines(md))
    /\ \A i \in 1 .. Len(lines) : lines[i].tag = "t" =>
         Len(lines[i].text) <= Len(md[FrameNo(lines[i])].columns)
    /\ \A i, j \in 1 .. Len(lines) : i < j /\ lines[i].tag = "t" /\ lines[j].tag = "t" =>
         FrameNo(lines[i]) < FrameNo(lines[j])

\* They are of later frames than what was decoded.
ComesAfter(frames, lines) ==
    \A k \in 1 .. Len(frames), i \in 1 .. Len(lines) :
        lines[i].tag = "t" => Number(frames[k]) < FrameNo(lines[i])

FramesInOrder(frames) == \A i \in 2 .. Len(frames) : Number(frames[i - 1]) < Number(frames[i])
HasColumns(md, frames) ==
    \A i \in 1 .. Len(frames) : \A c \in DOMAIN frames[i] :
        \E k \in DOMAIN md[Number(frames[i])].columns : md[Number(frames[i])].columns[k] = c

Unbroken(md, i, j) ==
    /\ j - i < SeqModulus
    /\ \A k \in i + 1 .. j : md[k].seq = (md[k - 1].seq + 1) % SeqModulus
NoGap(md, frames) ==
    \A i \in 2 .. Len(frames) : Unbroken(md, Number(frames[i - 1]), Number(frames[i]))
Accounted(md, frames, dropped) ==
    frames # <<>> /\ NoGap(md, frames) =>
        Len(frames) + dropped = Number(frames[Len(frames)]) - Number(frames[1]) + 1

StreamFits(md, s) ==
    /\ s \in TlmStreams(md)
    /\ FramesInOrder(s.frames) /\ HasColumns(md, s.frames) /\ Accounted(md, s.frames, s.dropped)
    /\ s.frames = <<>> => s.last_seq = NoSeq /\ s.dropped = 0
    /\ s.frames # <<>> => s.last_seq = md[Number(s.frames[Len(s.frames)])].seq

TelemetryInv ==
    /\ robot \in RobotTypes /\ recorder \in Recorders
    /\ made \in Seq(TlmFrames) /\ Len(made) <= MaxFrames
    /\ AirFits(made, air) /\ Len(air) <= InFlight
    /\ StreamFits(made, stream) /\ ComesAfter(stream.frames, air)
    /\ recorder.before <= Len(stream.frames)
    /\ CaptureHoldsFrames

\* What a line is, and which frame's.
LEMMA LineIs ==
  ASSUME NEW md \in Seq(TlmFrames), NEW line \in AirLines(md)
  PROVE  \/ \E n \in 1 .. 3 : line = HeaderLine(n) /\ line.tag = "thdr" /\ line.text = Prefix(n)
         \/ \E f \in 1 .. Len(md), n \in 1 .. 3 :
              /\ line = FrameLine(md, f, n) /\ line.tag = "t" /\ line.text = TlmText(md, f, n)
              /\ Len(line.text) = n /\ FrameNo(line) = f
<1>1. ASSUME NEW n \in 1 .. 3, line = HeaderLine(n)
      PROVE  line.tag = "thdr" /\ line.text = Prefix(n)
  BY <1>1 DEF HeaderLine
<1>2. ASSUME NEW f \in 1 .. Len(md), NEW n \in 1 .. 3, line = FrameLine(md, f, n)
      PROVE  /\ line.tag = "t" /\ line.text = TlmText(md, f, n)
             /\ Len(line.text) = n /\ FrameNo(line) = f
  <2>1. line.tag = "t" /\ line.text = TlmText(md, f, n)
    BY <1>2 DEF FrameLine
  <2>2. Len(TlmText(md, f, n)) = n /\ TlmText(md, f, n)[1] = FieldValue(md, FullColumns[1], f)
    BY DEF TlmText
  <2> QED BY <2>1, <2>2 DEF FrameNo, FieldValue
<1> QED BY <1>1, <1>2 DEF AirLines

\* What a row is, and which frame's.
LEMMA RowIs ==
  ASSUME NEW md \in Seq(TlmFrames), NEW row \in TlmRows(md)
  PROVE  \E f \in 1 .. Len(md), n \in 1 .. 3 :
           /\ row = TlmRow(md, f, n) /\ Number(row) = f /\ DOMAIN row = ColumnsOf(n)
           /\ "seq" \in DOMAIN row /\ row["seq"].n = md[f].seq
           /\ \A c \in DOMAIN row : row[c].of = c /\ row[c].frame = f
<1>1. PICK f \in 1 .. Len(md), n \in 1 .. 3 : row = TlmRow(md, f, n)
  BY DEF TlmRows
<1>2. "seq" \in ColumnsOf(n)
  <2>1. 1 \in 1 .. n /\ FullColumns[1] = "seq"
    BY PrefixIs
  <2> QED BY <2>1 DEF ColumnsOf
<1>3. DOMAIN row = ColumnsOf(n) /\ \A c \in ColumnsOf(n) : row[c] = FieldValue(md, c, f)
  BY <1>1 DEF TlmRow
<1>4. \A c : FieldValue(md, c, f).of = c /\ FieldValue(md, c, f).frame = f
  BY DEF FieldValue
<1>5. FieldValue(md, "seq", f).n = md[f].seq
  BY DEF FieldValue
<1> QED BY <1>1, <1>2, <1>3, <1>4, <1>5 DEF Number

\* One more frame changes nothing about the frames made before it.
LEMMA MoreMade ==
  \A md \in Seq(TlmFrames) : \A fr \in TlmFrames : \A more : more = Append(md, fr) =>
    /\ more \in Seq(TlmFrames) /\ Len(more) = Len(md) + 1 /\ more[Len(md) + 1] = fr
    /\ \A f \in 1 .. Len(md) : more[f] = md[f]
    /\ AirLines(md) \subseteq AirLines(more) /\ TlmRows(md) \subseteq TlmRows(more)
    /\ Len(md) \in Nat
<1> TAKE md \in Seq(TlmFrames)
<1> TAKE fr \in TlmFrames
<1> TAKE more
<1> HAVE more = Append(md, fr)
<1>1. /\ more \in Seq(TlmFrames) /\ Len(more) = Len(md) + 1 /\ more[Len(md) + 1] = fr
      /\ \A f \in 1 .. Len(md) : more[f] = md[f]
      /\ Len(md) \in Nat
  OBVIOUS
<1>2. \A f \in 1 .. Len(md) : \A c : FieldValue(more, c, f) = FieldValue(md, c, f)
  BY <1>1 DEF FieldValue
<1>3. \A f \in 1 .. Len(md), n \in 1 .. 3 :
        /\ f \in 1 .. Len(more) /\ FrameLine(more, f, n) = FrameLine(md, f, n)
        /\ TlmRow(more, f, n) = TlmRow(md, f, n)
  BY <1>1, <1>2 DEF FrameLine, TlmText, TlmRow
<1> QED BY <1>1, <1>3 DEF AirLines, TlmRows
-----------------------------------------------------------------------------
(* The decoder. *)

\* One more row keeps the account, if nothing was missed unseen.
LEMMA TrackSeq ==
  ASSUME NEW md \in Seq(TlmFrames), NEW s, StreamFits(md, s), NEW f \in 1 .. Len(md),
         NEW row \in TlmRows(md), Number(row) = f,
         \A k \in 1 .. Len(s.frames) : Number(s.frames[k]) < f
  PROVE  /\ track_seq(s, md[f].seq) \in Nat
         /\ Accounted(md, Append(s.frames, row), track_seq(s, md[f].seq))
<1> DEFINE dropped == track_seq(s, md[f].seq)
           fs == s.frames
           more == Append(fs, row)
           L == Len(fs)
<1>1. /\ fs \in Seq(TlmRows(md)) /\ L \in Nat /\ s.dropped \in Nat /\ s.last_seq \in 0 .. SeqModulus
      /\ more \in Seq(TlmRows(md)) /\ Len(more) = L + 1 /\ more[L + 1] = row
      /\ \A i \in 1 .. L : more[i] = fs[i]
  BY DEF StreamFits, TlmStreams
<1>2. PICK m \in Nat \ {0} : m = SeqModulus
  BY ModulusIs
<1>3. md[f].seq \in 0 .. m - 1
  <2>1. md[f] \in TlmFrames
    OBVIOUS
  <2> QED BY <1>2, <2>1 DEF TlmFrames
<1>4. \A i \in 1 .. L : Number(fs[i]) \in 1 .. Len(md)
  <2>1. \A i \in 1 .. L : fs[i] \in TlmRows(md)
    BY <1>1
  <2> QED BY <2>1, RowIs
<1>5. Len(md) \in Nat /\ f \in Int
  OBVIOUS
<1>6. CASE fs = <<>>
  <2>1. L = 0
    BY <1>6
  <2>2. s.last_seq = NoSeq /\ s.dropped = 0
    BY <1>6 DEF StreamFits
  <2>3. dropped = 0
    BY <2>2 DEF track_seq
  <2>4. Len(more) = 1 /\ more[1] = row
    BY <1>1, <2>1
  <2> HIDE DEF dropped, more
  <2>5. Accounted(md, more, dropped)
    BY <1>5, <2>3, <2>4 DEF Accounted
  <2> QED BY <2>3, <2>5 DEF dropped, more
<1>7. CASE fs # <<>>
  <2>1. L \in 1 .. L /\ L >= 1
    BY <1>1, <1>7
  <2> DEFINE a == Number(fs[L])
             delta == (md[f].seq - s.last_seq) % SeqModulus
  <2>2. a \in 1 .. Len(md) /\ a < f /\ s.last_seq = md[a].seq
    BY <1>4, <1>7, <2>1 DEF StreamFits
  <2>3. md[a].seq \in 0 .. m - 1
    <3>1. md[a] \in TlmFrames
      BY <2>2
    <3> QED BY <1>2, <3>1 DEF TlmFrames
  <2>4. s.last_seq # NoSeq
    BY <1>2, <2>2, <2>3 DEF NoSeq
  <2>5. delta \in 0 .. m - 1
    <3>1. \A x \in Int : x % m \in 0 .. m - 1
      BY <1>2
    <3>2. md[f].seq - s.last_seq \in Int
      BY <1>3, <2>2, <2>3
    <3> QED BY <1>2, <3>1, <3>2
  <2>6. dropped = IF delta > 1 THEN s.dropped + delta - 1 ELSE s.dropped
    BY <2>4 DEF track_seq
  <2>7. dropped \in Nat
    <3> HIDE DEF delta, dropped
    <3> QED BY <1>1, <2>5, <2>6
  <2>8. ASSUME NoGap(md, more)
        PROVE  Len(more) + dropped = Number(more[Len(more)]) - Number(more[1]) + 1
    <3>1. NoGap(md, fs)
      <4>1. \A i \in 2 .. L : /\ i \in 2 .. Len(more)
                              /\ more[i - 1] = fs[i - 1] /\ more[i] = fs[i]
        BY <1>1
      <4> HIDE DEF more, fs
      <4> QED BY <2>8, <4>1 DEF NoGap
    <3>2. L + s.dropped = a - Number(fs[1]) + 1
      BY <1>7, <3>1 DEF StreamFits, Accounted
    <3>3. Unbroken(md, a, f)
      <4>1. L + 1 \in 2 .. Len(more) /\ more[(L + 1) - 1] = fs[L]
        BY <1>1, <2>1
      <4> QED BY <1>1, <2>8, <4>1 DEF NoGap
    <3>4. delta = f - a
      <4>1. f \in a + 1 .. Len(md)
        BY <1>5, <2>2
      <4> QED BY <2>2, <3>3, <4>1, GapOfRun DEF Unbroken
    <3>5. more[1] = fs[1] /\ Number(fs[1]) \in Int /\ more[Len(more)] = row
      BY <1>1, <1>4, <2>1
    <3>6. dropped = s.dropped + (f - a) - 1
      <4> HIDE DEF delta, dropped, a
      <4> QED BY <1>1, <1>5, <2>2, <2>6, <3>4
    <3>7. Len(more) = L + 1 /\ Number(more[Len(more)]) = f /\ Number(more[1]) = Number(fs[1])
      BY <1>1, <3>5
    <3>8. L \in Nat /\ s.dropped \in Nat /\ f \in Int /\ a \in Int /\ Number(fs[1]) \in Int
      BY <1>1, <1>5, <2>2, <3>5
    <3>9. PICK l \in Int, dr \in Int, ff \in Int, aa \in Int, n1 \in Int :
            l = L /\ dr = s.dropped /\ ff = f /\ aa = a /\ n1 = Number(fs[1])
      BY <3>8
    <3>10. PICK dd \in Int : dd = dropped
      <4> HIDE DEF dropped
      <4> QED BY <2>7
    <3>11. l + dr = aa - n1 + 1
      BY <3>2, <3>9
    <3>12. dd = dr + (ff - aa) - 1
      BY <3>6, <3>9, <3>10
    <3>13. (l + 1) + dd = ff - n1 + 1
      BY <3>11, <3>12
    <3>14. Len(more) = l + 1 /\ Number(more[Len(more)]) = ff /\ Number(more[1]) = n1
      BY <3>7, <3>9
    <3> HIDE DEF delta, dropped, a, more, L, fs
    <3> QED BY <3>13, <3>14, <3>10
  <2>9. Accounted(md, more, dropped)
    BY <2>8 DEF Accounted
  <2> QED BY <2>7, <2>9
<1> QED BY <1>6, <1>7

\* The row that a frame's text makes has only columns that frame had.
LEMMA RowHasColumns ==
  ASSUME NEW md \in Seq(TlmFrames), NEW f \in 1 .. Len(md), NEW n \in 1 .. 3,
         n <= Len(md[f].columns)
  PROVE  \A c \in ColumnsOf(n) : \E k \in DOMAIN md[f].columns : md[f].columns[k] = c
<1>1. PICK l \in 2 .. 3 : md[f].columns = Prefix(l)
  <2>1. md[f] \in TlmFrames
    OBVIOUS
  <2>2. md[f].columns = Prefix(2) \/ md[f].columns = Prefix(3)
    BY <2>1, PrefixIs DEF TlmFrames
  <2> QED BY <2>2
<1>2. /\ Len(Prefix(l)) = l /\ DOMAIN Prefix(l) = 1 .. l
      /\ \A i \in 1 .. l : Prefix(l)[i] = FullColumns[i]
  <2>1. l \in 0 .. 3
    BY <1>1
  <2> QED BY <2>1, PrefixIs
<1>3. n <= l
  BY <1>1, <1>2
<1>4. ASSUME NEW c \in ColumnsOf(n)
      PROVE  \E k \in DOMAIN md[f].columns : md[f].columns[k] = c
  <2>1. PICK i \in 1 .. n : c = FullColumns[i]
    BY DEF ColumnsOf
  <2>2. i \in 1 .. l
    BY <1>3
  <2> QED BY <1>1, <1>2, <2>1, <2>2
<1> QED BY <1>4

\* One line read leaves the stream fit, and adds at most its own frame.
LEMMA FeedFits ==
  ASSUME NEW md \in Seq(TlmFrames), NEW s, StreamFits(md, s), NEW line \in AirLines(md),
         line.tag = "t" =>
           /\ Len(line.text) <= Len(md[FrameNo(line)].columns)
           /\ \A k \in 1 .. Len(s.frames) : Number(s.frames[k]) < FrameNo(line)
  PROVE  /\ StreamFits(md, feed(s, line))
         /\ \/ feed(s, line).frames = s.frames
            \/ /\ line.tag = "t"
               /\ \E row \in TlmRows(md) :
                    Number(row) = FrameNo(line) /\ feed(s, line).frames = Append(s.frames, row)
<1>1. s \in TlmStreams(md)
  BY DEF StreamFits
<1>2. CASE \E n \in 1 .. 3 : line.tag = "thdr" /\ line.text = Prefix(n)
  <2>1. PICK n \in 1 .. 3 : line.tag = "thdr" /\ line.text = Prefix(n)
    BY <1>2
  <2>2. feed(s, line) = [s EXCEPT !.columns = Prefix(n)]
    BY <2>1 DEF feed, feed_header
  <2> DEFINE r == feed(s, line)
  <2>3. Prefix(n) \in {Prefix(q) : q \in 0 .. 3}
    OBVIOUS
  <2>4. /\ r \in TlmStreams(md) /\ r.frames = s.frames /\ r.dropped = s.dropped
        /\ r.last_seq = s.last_seq
    BY <1>1, <2>2, <2>3 DEF TlmStreams
  <2> HIDE DEF r
  <2>5. StreamFits(md, r)
    BY <2>4 DEF StreamFits
  <2> QED BY <2>4, <2>5 DEF r
<1>3. CASE \E f \in 1 .. Len(md), n \in 1 .. 3 :
             /\ line.tag = "t" /\ line.text = TlmText(md, f, n)
             /\ Len(line.text) = n /\ FrameNo(line) = f
  <2>1. PICK f \in 1 .. Len(md), n \in 1 .. 3 :
          line.tag = "t" /\ line.text = TlmText(md, f, n) /\ Len(line.text) = n /\ FrameNo(line) = f
    BY <1>3
  <2>2. n <= Len(md[f].columns) /\ \A k \in 1 .. Len(s.frames) : Number(s.frames[k]) < f
    BY <2>1
  <2>3. feed(s, line) = feed_frame(s, line.text)
    BY <2>1 DEF feed
  <2>4. PICK q \in 0 .. 3 : s.columns = Prefix(q)
    BY <1>1 DEF TlmStreams
  <2> DEFINE r == feed(s, line)
  <2>5. CASE s.columns = NoColumns \/ Len(line.text) # Len(s.columns)
    <3>1. \/ r = [s EXCEPT !.orphan_frames = @ + 1]
          \/ r = [s EXCEPT !.malformed = @ + 1]
      BY <2>3, <2>5 DEF feed_frame
    <3>2. /\ r \in TlmStreams(md) /\ r.frames = s.frames /\ r.dropped = s.dropped
          /\ r.last_seq = s.last_seq
      <4> HIDE DEF r
      <4> QED BY <1>1, <3>1 DEF TlmStreams
    <3> HIDE DEF r
    <3>3. StreamFits(md, r)
      BY <3>2 DEF StreamFits
    <3> QED BY <3>2, <3>3 DEF r
  <2>6. CASE s.columns # NoColumns /\ Len(line.text) = Len(s.columns)
    <3>1. q = n
      <4>1. Len(Prefix(q)) = q
        BY PrefixIs
      <4> QED BY <2>1, <2>4, <2>6, <4>1
    <3> DEFINE row == TlmRow(md, f, n)
               seen == BindByName(s.columns, line.text)
    <3>2. seen = row
      <4>1. s.columns = Prefix(n) /\ line.text = TlmText(md, f, n)
        BY <2>1, <2>4, <3>1
      <4>2. n \in 1 .. 3
        OBVIOUS
      <4> QED BY <4>1, <4>2, BoundRow, Zenon
    <3>3. row \in TlmRows(md)
      BY DEF TlmRows
    <3>4. Number(row) = f /\ row["seq"].n = md[f].seq /\ DOMAIN row = ColumnsOf(n)
      <4>1. "seq" \in ColumnsOf(n)
        <5>1. 1 \in 1 .. n /\ FullColumns[1] = "seq"
          BY PrefixIs
        <5> QED BY <5>1 DEF ColumnsOf
      <4>2. row["seq"] = FieldValue(md, "seq", f)
        BY <4>1 DEF TlmRow
      <4>3. FieldValue(md, "seq", f).frame = f /\ FieldValue(md, "seq", f).n = md[f].seq
        BY DEF FieldValue
      <4> QED BY <4>2, <4>3 DEF Number, TlmRow
    <3>5. r = [s EXCEPT !.frames = Append(@, seen), !.dropped = track_seq(s, seen["seq"].n),
                        !.last_seq = seen["seq"].n]
      BY <2>3, <2>6, Zenon DEF feed_frame, BindByName
    <3> HIDE DEF r, seen, row
    <3> DEFINE d == track_seq(s, md[f].seq)
               q9 == md[f].seq
    <3>6. r = [s EXCEPT !.frames = Append(@, row), !.dropped = d, !.last_seq = q9]
      BY <3>2, <3>4, <3>5
    <3>7. d \in Nat /\ Accounted(md, Append(s.frames, row), d)
      BY <2>2, <3>3, <3>4, TrackSeq
    <3>8. q9 \in 0 .. SeqModulus
      <4>1. md[f] \in TlmFrames
        OBVIOUS
      <4> QED BY <4>1, ModulusIs DEF TlmFrames
    <3> HIDE DEF d, q9
    <3>9. s.frames \in Seq(TlmRows(md))
      BY <1>1 DEF TlmStreams
    <3>10. /\ r \in TlmStreams(md) /\ r.frames = Append(s.frames, row) /\ r.dropped = d
           /\ r.last_seq = q9
      <4> DEFINE fr == Append(s.frames, row)
      <4>1. fr \in Seq(TlmRows(md))
        BY <3>3, <3>9
      <4>2. r = [s EXCEPT !.frames = fr, !.dropped = d, !.last_seq = q9]
        BY <3>6
      <4> HIDE DEF fr
      <4>3. r \in TlmStreams(md) /\ r.frames = fr /\ r.dropped = d /\ r.last_seq = q9
        BY <1>1, <3>7, <3>8, <4>1, <4>2 DEF TlmStreams
      <4> QED BY <4>3 DEF fr
    <3> DEFINE L == Len(s.frames)
               more == Append(s.frames, row)
    <3>11. /\ L \in Nat /\ Len(more) = L + 1 /\ more[L + 1] = row /\ more # <<>>
           /\ \A i \in 1 .. L : more[i] = s.frames[i]
      BY <3>9
    <3>12. FramesInOrder(s.frames) /\ HasColumns(md, s.frames)
      BY DEF StreamFits
    <3> HIDE DEF L, more
    <3>13. FramesInOrder(more)
      <4>1. ASSUME NEW i \in 2 .. Len(more)
            PROVE  Number(more[i - 1]) < Number(more[i])
        <5>1. CASE i = L + 1
          <6>1. i - 1 = L /\ L \in 1 .. L
            BY <3>11, <5>1
          <6> QED BY <2>2, <3>4, <3>11, <5>1, <6>1 DEF L
        <5>2. CASE i # L + 1
          <6>1. i \in 2 .. L /\ i \in 1 .. L /\ i - 1 \in 1 .. L
            BY <3>11, <5>2
          <6>2. Number(s.frames[i - 1]) < Number(s.frames[i])
            BY <3>12, <6>1 DEF FramesInOrder, L
          <6> QED BY <3>11, <6>1, <6>2
        <5> QED BY <5>1, <5>2
      <4> QED BY <4>1 DEF FramesInOrder
    <3>14. HasColumns(md, more)
      <4>1. ASSUME NEW i \in 1 .. Len(more), NEW c \in DOMAIN more[i]
            PROVE  \E k \in DOMAIN md[Number(more[i])].columns : md[Number(more[i])].columns[k] = c
        <5>1. CASE i = L + 1
          <6>1. more[i] = row /\ Number(more[i]) = f /\ c \in ColumnsOf(n)
            BY <3>4, <3>11, <4>1, <5>1
          <6>2. \E k \in DOMAIN md[f].columns : md[f].columns[k] = c
            BY <2>2, <6>1, RowHasColumns
          <6> QED BY <6>1, <6>2, Zenon
        <5>2. CASE i # L + 1
          <6>1. i \in 1 .. L
            BY <3>11, <5>2
          <6>2. more[i] = s.frames[i] /\ i \in 1 .. Len(s.frames)
            BY <3>11, <6>1 DEF L
          <6>3. c \in DOMAIN s.frames[i]
            BY <4>1, <6>2
          <6>4. \E k \in DOMAIN md[Number(s.frames[i])].columns :
                   md[Number(s.frames[i])].columns[k] = c
            BY <3>12, <6>2, <6>3, Zenon DEF HasColumns
          <6> QED BY <6>2, <6>4
        <5> QED BY <5>1, <5>2
      <4> QED BY <4>1 DEF HasColumns
    <3>15. StreamFits(md, r)
      <4>1. Number(more[Len(more)]) = f
        BY <3>4, <3>11
      <4>2. r.last_seq = md[Number(r.frames[Len(r.frames)])].seq
        BY <3>10, <4>1 DEF q9, more
      <4>3. r.frames # <<>>
        BY <3>10, <3>11 DEF more
      <4>4. Accounted(md, r.frames, r.dropped)
        BY <3>7, <3>10
      <4>5. FramesInOrder(r.frames) /\ HasColumns(md, r.frames)
        BY <3>10, <3>13, <3>14 DEF more
      <4> QED BY <3>10, <4>2, <4>3, <4>4, <4>5 DEF StreamFits
    <3> QED BY <2>1, <3>3, <3>4, <3>10, <3>15 DEF r
  <2> QED BY <2>5, <2>6
<1> QED BY <1>2, <1>3, LineIs
-----------------------------------------------------------------------------
(* The air. *)

\* What is left of the lines in the air still fits.
LEMMA AirThinned ==
  \A md, lines, sub : \A off \in Nat :
    /\ AirFits(md, lines) /\ sub \in Seq(AirLines(md)) /\ Len(sub) + off <= Len(lines)
    /\ \A i \in 1 .. Len(sub) : sub[i] = lines[i + off]
    => /\ AirFits(md, sub)
       /\ \A frames : ComesAfter(frames, lines) => ComesAfter(frames, sub)
<1> TAKE md, lines, sub
<1> TAKE off \in Nat
<1> HAVE /\ AirFits(md, lines) /\ sub \in Seq(AirLines(md)) /\ Len(sub) + off <= Len(lines)
         /\ \A i \in 1 .. Len(sub) : sub[i] = lines[i + off]
<1>1. Len(lines) \in Nat /\ Len(sub) \in Nat
  BY DEF AirFits
<1>2. \A i \in 1 .. Len(sub) : i + off \in 1 .. Len(lines)
  BY <1>1
<1>3. AirFits(md, sub)
  <2>1. \A i \in 1 .. Len(sub) : sub[i].tag = "t" =>
          Len(sub[i].text) <= Len(md[FrameNo(sub[i])].columns)
    BY <1>2 DEF AirFits
  <2>2. ASSUME NEW i \in 1 .. Len(sub), NEW j \in 1 .. Len(sub), i < j,
               sub[i].tag = "t", sub[j].tag = "t"
        PROVE  FrameNo(sub[i]) < FrameNo(sub[j])
    <3>1. i + off < j + off /\ sub[i] = lines[i + off] /\ sub[j] = lines[j + off]
      BY <2>2
    <3> QED BY <1>2, <2>2, <3>1 DEF AirFits
  <2> QED BY <2>1, <2>2 DEF AirFits
<1>4. ASSUME NEW frames, ComesAfter(frames, lines)
      PROVE  ComesAfter(frames, sub)
  BY <1>2, <1>4 DEF ComesAfter
<1> QED BY <1>3, <1>4

\* The air without its first line.
LEMMA AirTail ==
  ASSUME NEW md, NEW lines, AirFits(md, lines), lines # <<>>
  PROVE  /\ AirFits(md, Tail(lines)) /\ Len(Tail(lines)) < Len(lines)
         /\ \A frames : ComesAfter(frames, lines) => ComesAfter(frames, Tail(lines))
<1> DEFINE sub == Tail(lines)
<1>1. lines \in Seq(AirLines(md))
  BY DEF AirFits
<1>2. /\ sub \in Seq(AirLines(md)) /\ Len(sub) + 1 = Len(lines) /\ Len(sub) \in Nat
      /\ \A i \in 1 .. Len(sub) : sub[i] = lines[i + 1]
  BY <1>1
<1> HIDE DEF sub
<1>3. AirFits(md, sub) /\ \A frames : ComesAfter(frames, lines) => ComesAfter(frames, sub)
  <2>1. Len(sub) + 1 <= Len(lines)
    BY <1>2
  <2> QED BY <1>2, <2>1, AirThinned
<1> QED BY <1>2, <1>3 DEF sub

\* The air without what no longer fitted in the queue.
LEMMA AirCropped ==
  ASSUME NEW md, NEW lines, AirFits(md, lines), NEW n \in Nat, n < Len(lines)
  PROVE  /\ AirFits(md, SubSeq(lines, 1, n)) /\ Len(SubSeq(lines, 1, n)) = n
         /\ \A frames : ComesAfter(frames, lines) => ComesAfter(frames, SubSeq(lines, 1, n))
<1> DEFINE sub == SubSeq(lines, 1, n)
<1>1. lines \in Seq(AirLines(md)) /\ Len(lines) \in Nat
  BY DEF AirFits
<1>2. sub \in Seq(AirLines(md)) /\ Len(sub) = n /\ \A i \in 1 .. n : sub[i] = lines[i]
  BY <1>1
<1> HIDE DEF sub
<1>3. Len(sub) + 0 <= Len(lines) /\ \A i \in 1 .. Len(sub) : sub[i] = lines[i + 0]
  BY <1>1, <1>2
<1>4. AirFits(md, sub) /\ \A frames : ComesAfter(frames, lines) => ComesAfter(frames, sub)
  BY <1>2, <1>3, AirThinned
<1> QED BY <1>2, <1>4 DEF sub

\* A line put behind the others.
LEMMA AirGrows ==
  ASSUME NEW md \in Seq(TlmFrames), NEW lines, AirFits(md, lines), NEW line \in AirLines(md),
         line.tag = "t" =>
           /\ Len(line.text) <= Len(md[FrameNo(line)].columns)
           /\ \A i \in 1 .. Len(lines) : lines[i].tag = "t" => FrameNo(lines[i]) < FrameNo(line)
  PROVE  /\ AirFits(md, Append(lines, line))
         /\ \A frames : /\ ComesAfter(frames, lines)
                        /\ line.tag = "t" =>
                             \A k \in 1 .. Len(frames) : Number(frames[k]) < FrameNo(line)
                        => ComesAfter(frames, Append(lines, line))
<1> DEFINE more == Append(lines, line)
           L == Len(lines)
<1>1. lines \in Seq(AirLines(md))
  BY DEF AirFits
<1>2. /\ more \in Seq(AirLines(md)) /\ L \in Nat /\ Len(more) = L + 1 /\ more[L + 1] = line
      /\ \A i \in 1 .. L : more[i] = lines[i]
  BY <1>1
<1> HIDE DEF more, L
<1>3. \A i \in 1 .. Len(more) : i = L + 1 \/ i \in 1 .. L
  BY <1>2
<1>4. AirFits(md, more)
  <2>1. ASSUME NEW i \in 1 .. Len(more), more[i].tag = "t"
        PROVE  Len(more[i].text) <= Len(md[FrameNo(more[i])].columns)
    <3>1. CASE i = L + 1
      BY <1>2, <2>1, <3>1
    <3>2. CASE i \in 1 .. L
      BY <1>2, <2>1, <3>2 DEF AirFits, L
    <3> QED BY <1>3, <3>1, <3>2
  <2>2. ASSUME NEW i \in 1 .. Len(more), NEW j \in 1 .. Len(more), i < j,
               more[i].tag = "t", more[j].tag = "t"
        PROVE  FrameNo(more[i]) < FrameNo(more[j])
    <3>1. i \in 1 .. L /\ more[i] = lines[i]
      BY <1>2, <2>2
    <3>2. CASE j = L + 1
      BY <1>2, <2>2, <3>1, <3>2 DEF L
    <3>3. CASE j \in 1 .. L
      BY <1>2, <2>2, <3>1, <3>3 DEF AirFits, L
    <3> QED BY <1>3, <3>2, <3>3
  <2> QED BY <1>2, <2>1, <2>2 DEF AirFits
<1>5. ASSUME NEW frames, ComesAfter(frames, lines),
             line.tag = "t" => \A k \in 1 .. Len(frames) : Number(frames[k]) < FrameNo(line)
      PROVE  ComesAfter(frames, more)
  <2>1. ASSUME NEW k \in 1 .. Len(frames), NEW i \in 1 .. Len(more), more[i].tag = "t"
        PROVE  Number(frames[k]) < FrameNo(more[i])
    <3>1. CASE i = L + 1
      BY <1>2, <1>5, <2>1, <3>1
    <3>2. CASE i \in 1 .. L
      BY <1>2, <1>5, <2>1, <3>2 DEF ComesAfter, L
    <3> QED BY <1>3, <3>1, <3>2
  <2> QED BY <2>1 DEF ComesAfter
<1> QED BY <1>4, <1>5 DEF more

\* A line cut short is still a line of its frame.
LEMMA CutLine ==
  ASSUME NEW md \in Seq(TlmFrames), NEW line \in AirLines(md), NEW n \in 1 .. Len(line.text) - 1
  PROVE  LET cut == [line EXCEPT !.text = SubSeq(@, 1, n)] IN
         /\ cut \in AirLines(md) /\ cut.tag = line.tag
         /\ line.tag = "t" => FrameNo(cut) = FrameNo(line) /\ Len(cut.text) <= Len(line.text)
<1> DEFINE cut == [line EXCEPT !.text = SubSeq(@, 1, n)]
<1>1. CASE \E l \in 1 .. 3 : line = HeaderLine(l) /\ line.tag = "thdr" /\ line.text = Prefix(l)
  <2>1. PICK l \in 1 .. 3 : line = HeaderLine(l) /\ line.tag = "thdr" /\ line.text = Prefix(l)
    BY <1>1
  <2>2. Len(Prefix(l)) = l
    <3>1. l \in 0 .. 3
      OBVIOUS
    <3> QED BY <3>1, PrefixIs
  <2>3. n \in 1 .. 3 /\ n < l
    BY <2>1, <2>2
  <2>4. SubSeq(Prefix(l), 1, n) = Prefix(n)
    BY <2>3 DEF Prefix
  <2>5. cut = HeaderLine(n)
    <3> DEFINE p == Prefix(l)
               q == Prefix(n)
    <3>1. line = [tag |-> "thdr", text |-> p] /\ SubSeq(p, 1, n) = q
      BY <2>1, <2>4 DEF HeaderLine
    <3> HIDE DEF p, q
    <3>2. cut = [tag |-> "thdr", text |-> q]
      <4>1. SubSeq(line.text, 1, n) = q
        BY <3>1
      <4>2. cut = [line EXCEPT !.text = q]
        BY <4>1, Zenon
      <4> HIDE DEF cut
      <4> QED BY <3>1, <4>2
    <3> QED BY <3>2 DEF HeaderLine, q
  <2>6. cut \in AirLines(md) /\ cut.tag = "thdr"
    BY <2>3, <2>5 DEF AirLines, HeaderLine
  <2> QED BY <2>1, <2>6
<1>2. CASE \E f \in 1 .. Len(md), l \in 1 .. 3 :
              /\ line = FrameLine(md, f, l) /\ line.tag = "t" /\ line.text = TlmText(md, f, l)
              /\ Len(line.text) = l /\ FrameNo(line) = f
  <2>1. PICK f \in 1 .. Len(md), l \in 1 .. 3 :
              /\ line = FrameLine(md, f, l) /\ line.tag = "t" /\ line.text = TlmText(md, f, l)
              /\ Len(line.text) = l /\ FrameNo(line) = f
    BY <1>2
  <2>2. n \in 1 .. 3 /\ n < l
    BY <2>1
  <2>3. SubSeq(TlmText(md, f, l), 1, n) = TlmText(md, f, n)
    BY <2>2 DEF TlmText
  <2>4. cut = FrameLine(md, f, n)
    <3> DEFINE p == TlmText(md, f, l)
               q == TlmText(md, f, n)
    <3>1. line = [tag |-> "t", text |-> p] /\ SubSeq(p, 1, n) = q
      BY <2>1, <2>3 DEF FrameLine
    <3> HIDE DEF p, q
    <3>2. cut = [tag |-> "t", text |-> q]
      <4>1. SubSeq(line.text, 1, n) = q
        BY <3>1
      <4>2. cut = [line EXCEPT !.text = q]
        BY <4>1, Zenon
      <4> HIDE DEF cut
      <4> QED BY <3>1, <4>2
    <3> QED BY <3>2 DEF FrameLine, q
  <2>5. cut \in AirLines(md)
    BY <2>2, <2>4 DEF AirLines
  <2>6. cut.tag = "t" /\ cut.text = TlmText(md, f, n)
    BY <2>4 DEF FrameLine
  <2>7. Len(TlmText(md, f, n)) = n /\ TlmText(md, f, n)[1] = FieldValue(md, FullColumns[1], f)
    BY <2>2 DEF TlmText
  <2>8. FrameNo(cut) = f
    BY <2>6, <2>7 DEF FrameNo, FieldValue
  <2> QED BY <2>1, <2>2, <2>5, <2>6, <2>7, <2>8
<1> QED BY <1>1, <1>2, LineIs
-----------------------------------------------------------------------------
(* The robot makes a frame. *)

\* What the robot reports has two or three columns.
LEMMA SnapshotIs == \E l \in 2 .. 3 : buildSnapshot = Prefix(l) /\ Len(Prefix(l)) = l
<1>1. buildSnapshot = Prefix(2) \/ buildSnapshot = Prefix(3)
  BY PrefixIs DEF buildSnapshot
<1>2. Len(Prefix(2)) = 2 /\ Len(Prefix(3)) = 3
  BY PrefixIs
<1> QED BY <1>1, <1>2

\* The next number is below the modulus.
LEMMA NextSeqIs == robot \in RobotTypes => NextSeq \in 0 .. SeqModulus - 1
<1> HAVE robot \in RobotTypes
<1>1. PICK m \in Nat \ {0} : m = SeqModulus
  BY ModulusIs
<1>2. \A x \in Int : x % m \in 0 .. m - 1
  OBVIOUS
<1>3. robot.seq + 1 \in Int
  BY <1>1 DEF RobotTypes
<1> QED BY <1>1, <1>2, <1>3 DEF NextSeq

\* What was fit for the frames made so far is fit when there is one more.
LEMMA StreamKeeps ==
  ASSUME NEW md \in Seq(TlmFrames), NEW fr \in TlmFrames, NEW more, more = Append(md, fr),
         NEW s, StreamFits(md, s)
  PROVE  StreamFits(more, s)
<1> DEFINE fs == s.frames
           L == Len(fs)
<1>1. /\ more \in Seq(TlmFrames) /\ \A f \in 1 .. Len(md) : more[f] = md[f]
      /\ TlmRows(md) \subseteq TlmRows(more) /\ Len(md) \in Nat
  <2>1. md \in Seq(TlmFrames) /\ fr \in TlmFrames /\ more = Append(md, fr)
    OBVIOUS
  <2>2. /\ more \in Seq(TlmFrames) /\ Len(more) = Len(md) + 1 /\ more[Len(md) + 1] = fr
        /\ \A f \in 1 .. Len(md) : more[f] = md[f]
        /\ AirLines(md) \subseteq AirLines(more) /\ TlmRows(md) \subseteq TlmRows(more)
        /\ Len(md) \in Nat
    BY <2>1, MoreMade, Zenon
  <2> QED BY <2>2
<1>2. fs \in Seq(TlmRows(md)) /\ L \in Nat
  BY DEF StreamFits, TlmStreams
<1>3. \A i \in 1 .. L : Number(fs[i]) \in 1 .. Len(md)
  <2>1. \A i \in 1 .. L : fs[i] \in TlmRows(md)
    BY <1>2
  <2> QED BY <2>1, RowIs
<1>4. s \in TlmStreams(more)
  <2>1. fs \in Seq(TlmRows(more))
    <3>1. \A i \in 1 .. L : fs[i] \in TlmRows(more)
      BY <1>1, <1>2
    <3> QED BY <1>2, <3>1
  <2>2. s \in TlmStreams(md)
    BY DEF StreamFits
  <2> QED BY <2>1, <2>2 DEF TlmStreams
<1>5. HasColumns(more, fs)
  <2>1. HasColumns(md, fs)
    BY DEF StreamFits
  <2>2. ASSUME NEW i \in 1 .. L
        PROVE  more[Number(fs[i])] = md[Number(fs[i])]
    BY <1>1, <1>3
  <2> HIDE DEF fs
  <2>3. \A i \in 1 .. Len(fs) : more[Number(fs[i])] = md[Number(fs[i])]
    BY <2>2
  <2>4. ASSUME NEW i \in 1 .. Len(fs), NEW c \in DOMAIN fs[i]
        PROVE  \E k \in DOMAIN more[Number(fs[i])].columns : more[Number(fs[i])].columns[k] = c
    <3>1. \E k \in DOMAIN md[Number(fs[i])].columns : md[Number(fs[i])].columns[k] = c
      BY <2>1, Zenon DEF HasColumns
    <3> QED BY <2>3, <3>1
  <2> QED BY <2>4, Zenon DEF HasColumns
<1>6. ASSUME NoGap(more, fs)
      PROVE  NoGap(md, fs)
  <2>1. ASSUME NEW i \in 2 .. L
        PROVE  Unbroken(md, Number(fs[i - 1]), Number(fs[i]))
    <3> DEFINE a == Number(fs[i - 1])
               b == Number(fs[i])
    <3>1. i \in 1 .. L /\ i - 1 \in 1 .. L
      BY <1>2
    <3>2. a \in 1 .. Len(md) /\ b \in 1 .. Len(md)
      BY <1>3, <3>1
    <3>3. Unbroken(more, a, b)
      BY <1>6 DEF NoGap
    <3> HIDE DEF a, b
    <3>4. \A k \in a + 1 .. b : k \in 1 .. Len(md) /\ k - 1 \in 1 .. Len(md)
      BY <1>1, <3>2
    <3>5. Unbroken(md, a, b)
      BY <1>1, <3>3, <3>4 DEF Unbroken
    <3> QED BY <3>5 DEF a, b
  <2> QED BY <2>1 DEF NoGap
<1>7. Accounted(more, fs, s.dropped)
  <2>1. Accounted(md, fs, s.dropped)
    BY DEF StreamFits
  <2> QED BY <1>6, <2>1 DEF Accounted
<1>8. ASSUME fs # <<>>
      PROVE  s.last_seq = more[Number(fs[L])].seq
  <2>1. L \in 1 .. L
    BY <1>2, <1>8
  <2>2. s.last_seq = md[Number(fs[L])].seq
    BY <1>8 DEF StreamFits
  <2> QED BY <1>1, <1>3, <2>1, <2>2
<1> QED BY <1>4, <1>5, <1>7, <1>8 DEF StreamFits

\* Lines that fit the frames made so far fit when there is one more.
LEMMA AirKeeps ==
  ASSUME NEW md \in Seq(TlmFrames), NEW fr \in TlmFrames, NEW more, more = Append(md, fr),
         NEW lines, AirFits(md, lines)
  PROVE  /\ AirFits(more, lines)
         /\ \A i \in 1 .. Len(lines) : lines[i].tag = "t" => FrameNo(lines[i]) \in 1 .. Len(md)
<1>1. /\ \A f \in 1 .. Len(md) : more[f] = md[f]
      /\ AirLines(md) \subseteq AirLines(more) /\ Len(md) \in Nat
  <2>1. md \in Seq(TlmFrames) /\ fr \in TlmFrames /\ more = Append(md, fr)
    OBVIOUS
  <2>2. /\ more \in Seq(TlmFrames) /\ Len(more) = Len(md) + 1 /\ more[Len(md) + 1] = fr
        /\ \A f \in 1 .. Len(md) : more[f] = md[f]
        /\ AirLines(md) \subseteq AirLines(more) /\ TlmRows(md) \subseteq TlmRows(more)
        /\ Len(md) \in Nat
    BY <2>1, MoreMade, Zenon
  <2> QED BY <2>2
<1>2. lines \in Seq(AirLines(md)) /\ Len(lines) \in Nat
  BY DEF AirFits
<1>3. \A i \in 1 .. Len(lines) : lines[i] \in AirLines(md)
  BY <1>2
<1>4. \A i \in 1 .. Len(lines) : lines[i].tag = "t" => FrameNo(lines[i]) \in 1 .. Len(md)
  BY <1>3, LineIs
<1>5. lines \in Seq(AirLines(more))
  <2>1. \A i \in 1 .. Len(lines) : lines[i] \in AirLines(more)
    BY <1>1, <1>3
  <2> QED BY <1>2, <2>1
<1> QED BY <1>1, <1>4, <1>5 DEF AirFits

\* What the robot sends for a new frame: a header, if one is due, and the frame.
LEMMA EmitIs ==
  ASSUME made \in Seq(TlmFrames),
         NEW more, more = Append(made, [columns |-> buildSnapshot, seq |-> NextSeq]),
         NEW l \in 2 .. 3, buildSnapshot = Prefix(l)
  PROVE  \/ emitTelemetry = <<HeaderLine(l), FrameLine(more, Len(made) + 1, l)>>
         \/ emitTelemetry = <<FrameLine(more, Len(made) + 1, l)>>
<1> DEFINE fr == [columns |-> buildSnapshot, seq |-> NextSeq]
           N == Len(made) + 1
<1>1. N \in Nat /\ more[N] = fr
  OBVIOUS
<1>2. more[N].seq = NextSeq
  BY <1>1
<1>3. DOMAIN Prefix(l) = 1 .. l /\ \A i \in 1 .. l : Prefix(l)[i] = FullColumns[i]
  <2>1. l \in 0 .. 3
    OBVIOUS
  <2> QED BY <2>1, PrefixIs
<1> HIDE DEF N
<1>4. FrameText = TlmText(more, N, l)
  BY <1>2, <1>3 DEF FrameText, TlmText, FieldValue, N
<1>5. [tag |-> "t", text |-> FrameText] = FrameLine(more, N, l)
  BY <1>4 DEF FrameLine
<1>6. [tag |-> "thdr", text |-> buildSnapshot] = HeaderLine(l)
  BY DEF HeaderLine
<1> DEFINE h == HeaderLine(l)
           fl == FrameLine(more, N, l)
<1>7. emitTelemetry = (IF HeaderDue THEN <<h>> ELSE <<>>) \o <<fl>>
  BY <1>5, <1>6, Zenon DEF emitTelemetry
<1> HIDE DEF h, fl
<1>8. <<h>> \o <<fl>> = <<h, fl>> /\ <<>> \o <<fl>> = <<fl>>
  <2>1. <<h>> \in Seq({h, fl}) /\ <<fl>> \in Seq({h, fl}) /\ <<>> \in Seq({h, fl})
    OBVIOUS
  <2>2. <<>> \o <<fl>> = <<fl>>
    BY <2>1
  <2>3. Append(<<h>>, fl) = <<h>> \o <<fl>>
    BY <2>1
  <2>4. Append(<<h>>, fl) = <<h, fl>>
    <3> DEFINE x == Append(<<h>>, fl)
               y == <<h, fl>>
    <3>1. x \in Seq({h, fl}) /\ Len(x) = 2 /\ x[1] = h /\ x[2] = fl
      OBVIOUS
    <3>2. y \in Seq({h, fl}) /\ Len(y) = 2 /\ y[1] = h /\ y[2] = fl
      OBVIOUS
    <3> HIDE DEF x, y
    <3>3. \A i \in 1 .. 2 : i = 1 \/ i = 2
      OBVIOUS
    <3>4. \A i \in 1 .. 2 : x[i] = y[i]
      BY <3>1, <3>2, <3>3
    <3>5. x = y
      BY <3>1, <3>2, <3>4
    <3> QED BY <3>5 DEF x, y
  <2> QED BY <2>2, <2>3, <2>4
<1> QED BY <1>7, <1>8 DEF h, fl, N

\* With the lines of a new frame behind the others, all still fits.
LEMMA EmitFits ==
  ASSUME TelemetryInv, NEW more, more = Append(made, [columns |-> buildSnapshot, seq |-> NextSeq])
  PROVE  /\ more \in Seq(TlmFrames) /\ StreamFits(more, stream) /\ AirFits(more, air)
         /\ AirFits(more, air \o emitTelemetry) /\ ComesAfter(stream.frames, air \o emitTelemetry)
<1> DEFINE fr == [columns |-> buildSnapshot, seq |-> NextSeq]
           N == Len(made) + 1
<1>1. /\ made \in Seq(TlmFrames) /\ robot \in RobotTypes /\ AirFits(made, air)
      /\ StreamFits(made, stream) /\ ComesAfter(stream.frames, air)
  BY DEF TelemetryInv
<1>2. PICK l \in 2 .. 3 : buildSnapshot = Prefix(l) /\ Len(Prefix(l)) = l
  BY SnapshotIs
<1>3. fr \in TlmFrames
  <2>1. buildSnapshot \in {PoseColumns, FullColumns} /\ NextSeq \in 0 .. SeqModulus - 1
    BY <1>1, NextSeqIs DEF buildSnapshot
  <2> QED BY <2>1 DEF TlmFrames
<1>4. more[N] = fr /\ N \in Nat /\ Len(more) = N
  BY <1>1, <1>3, MoreMade
<1>5. more[N].columns = Prefix(l)
  BY <1>2, <1>4
<1> HIDE DEF fr
<1>6. more = Append(made, fr)
  BY DEF fr
<1>7. more \in Seq(TlmFrames)
  BY <1>1, <1>3, <1>6, MoreMade
<1>8. StreamFits(more, stream)
  BY <1>1, <1>3, <1>6, StreamKeeps
<1>9. /\ AirFits(more, air)
      /\ \A i \in 1 .. Len(air) : air[i].tag = "t" => FrameNo(air[i]) \in 1 .. Len(made)
  BY <1>1, <1>3, <1>6, AirKeeps
<1>10. \A k \in 1 .. Len(stream.frames) : Number(stream.frames[k]) \in 1 .. Len(made)
  <2>1. stream.frames \in Seq(TlmRows(made))
    BY <1>1 DEF StreamFits, TlmStreams
  <2>2. \A k \in 1 .. Len(stream.frames) : stream.frames[k] \in TlmRows(made)
    BY <2>1
  <2> QED BY <1>1, <2>2, RowIs
<1> DEFINE h == HeaderLine(l)
           fl == FrameLine(more, N, l)
<1>11. h \in AirLines(more) /\ h.tag = "thdr"
  <2>1. l \in 1 .. 3
    OBVIOUS
  <2> QED BY <2>1 DEF AirLines, HeaderLine
<1>12. /\ fl \in AirLines(more) /\ fl.tag = "t" /\ FrameNo(fl) = N
       /\ Len(fl.text) <= Len(more[FrameNo(fl)].columns)
  <2>1. l \in 1 .. 3 /\ N \in 1 .. Len(more)
    BY <1>1, <1>4
  <2>2. fl \in AirLines(more)
    BY <2>1 DEF AirLines
  <2>3. fl.tag = "t" /\ fl.text = TlmText(more, N, l)
    BY DEF FrameLine
  <2>4. Len(TlmText(more, N, l)) = l /\ TlmText(more, N, l)[1] = FieldValue(more, FullColumns[1], N)
    BY DEF TlmText
  <2>5. FrameNo(fl) = N
    BY <2>3, <2>4 DEF FrameNo, FieldValue
  <2> QED BY <1>2, <1>5, <2>2, <2>3, <2>4, <2>5
<1>13. Len(made) \in Nat /\ N = Len(made) + 1
  BY <1>1
<1> HIDE DEF h, fl, N
<1>14. ASSUME NEW lines, AirFits(more, lines), ComesAfter(stream.frames, lines),
              \A i \in 1 .. Len(lines) : lines[i].tag = "t" => FrameNo(lines[i]) \in 1 .. Len(made)
       PROVE  AirFits(more, Append(lines, fl)) /\ ComesAfter(stream.frames, Append(lines, fl))
  <2>1. \A i \in 1 .. Len(lines) : lines[i].tag = "t" => FrameNo(lines[i]) < FrameNo(fl)
    BY <1>12, <1>13, <1>14
  <2>2. \A k \in 1 .. Len(stream.frames) : Number(stream.frames[k]) < FrameNo(fl)
    BY <1>10, <1>12, <1>13
  <2> QED BY <1>7, <1>12, <1>14, <2>1, <2>2, AirGrows
<1>15. AirFits(more, Append(air, fl)) /\ ComesAfter(stream.frames, Append(air, fl))
  BY <1>1, <1>9, <1>14
<1>16. AirFits(more, Append(air, h)) /\ ComesAfter(stream.frames, Append(air, h))
  BY <1>1, <1>7, <1>9, <1>11, AirGrows
<1>17. \A i \in 1 .. Len(Append(air, h)) :
         Append(air, h)[i].tag = "t" => FrameNo(Append(air, h)[i]) \in 1 .. Len(made)
  <2> DEFINE g == Append(air, h)
             L == Len(air)
  <2>1. air \in Seq(AirLines(made))
    BY <1>1 DEF AirFits
  <2>2. L \in Nat /\ Len(g) = L + 1 /\ g[L + 1] = h /\ \A i \in 1 .. L : g[i] = air[i]
    BY <2>1
  <2> HIDE DEF g, L
  <2>3. \A i \in 1 .. Len(g) : g[i].tag = "t" => FrameNo(g[i]) \in 1 .. Len(made)
    <3>1. ASSUME NEW i \in 1 .. Len(g), g[i].tag = "t"
          PROVE  FrameNo(g[i]) \in 1 .. Len(made)
      <4>1. i # L + 1
        BY <1>11, <2>2, <3>1
      <4>2. i \in 1 .. L
        BY <2>2, <4>1
      <4> QED BY <1>9, <2>2, <3>1, <4>2 DEF L
    <3> QED BY <3>1
  <2> QED BY <2>3 DEF g
<1>18. /\ AirFits(more, Append(Append(air, h), fl))
       /\ ComesAfter(stream.frames, Append(Append(air, h), fl))
  BY <1>14, <1>16, <1>17
<1>19. emitTelemetry = <<h, fl>> \/ emitTelemetry = <<fl>>
  BY <1>1, <1>2, EmitIs DEF h, fl, N
<1>20. air \o <<fl>> = Append(air, fl) /\ air \o <<h, fl>> = Append(Append(air, h), fl)
  <2>1. air \in Seq(AirLines(made) \cup {h, fl})
    <3>1. air \in Seq(AirLines(made))
      BY <1>1 DEF AirFits
    <3> QED BY <3>1
  <2>2. h \in AirLines(made) \cup {h, fl} /\ fl \in AirLines(made) \cup {h, fl}
    OBVIOUS
  <2> QED BY <2>1, <2>2
<1> QED BY <1>7, <1>8, <1>9, <1>15, <1>18, <1>19, <1>20
-----------------------------------------------------------------------------
(* The steps. *)

\* Steps that leave the record alone and do not write it.
LEMMA RobotStep ==
  ASSUME TelemetryInv, robot' \in RobotTypes, UNCHANGED <<made, air, stream, recorder>>
  PROVE  TelemetryInv'
BY DEF TelemetryInv, CaptureHoldsFrames, PoseRows

\* Steps of the carrier alone.
LEMMA AirStep ==
  ASSUME TelemetryInv, AirFits(made, air'), Len(air') <= InFlight,
         ComesAfter(stream.frames, air'), UNCHANGED <<robot, made, stream, recorder>>
  PROVE  TelemetryInv'
BY DEF TelemetryInv, CaptureHoldsFrames, PoseRows

\* Steps after which nothing counts as written.
LEMMA RecorderStep ==
  ASSUME TelemetryInv, recorder' \in Recorders, recorder'.at # "wrote",
         StreamFits(made, stream'), AirFits(made, air'), Len(air') <= InFlight,
         ComesAfter(stream'.frames, air'), recorder'.before <= Len(stream'.frames),
         robot' \in RobotTypes, UNCHANGED made
  PROVE  TelemetryInv'
BY DEF TelemetryInv, CaptureHoldsFrames

\* A TLM command leaves the robot a mode it knows.
LEMMA OnTlmIs ==
  ASSUME robot \in RobotTypes, NEW mode \in {"OFF", "POSE", "FULL", "NOW", "BUFFER"}
  PROVE  onTlm(mode) \in RobotTypes
<1>1. CASE mode = "NOW"
  BY <1>1 DEF onTlm, RobotTypes
<1>2. CASE mode = "BUFFER"
  BY <1>2 DEF onTlm, RobotTypes
<1>3. CASE mode \in TlmModes
  <2>1. onTlm(mode) = [robot EXCEPT !.mode = mode]
    BY <1>3 DEF onTlm, TlmModes
  <2> QED BY <1>3, <2>1 DEF RobotTypes
<1> QED BY <1>1, <1>2, <1>3 DEF TlmModes

\* The robot as it boots.
LEMMA BootedIs == Booted \in RobotTypes
<1>1. SeqModulus \in Nat /\ SeqModulus > 1 /\ RefreshFrames \in Nat
  BY TelemetryAssumption
<1> QED BY <1>1 DEF Booted, RobotTypes, TlmModes, NoColumns

\* A new TlmStream fits anything.
LEMMA FreshStream ==
  ASSUME NEW md, NEW lines
  PROVE  /\ StreamFits(md, TlmStream) /\ ComesAfter(TlmStream.frames, lines)
         /\ Len(TlmStream.frames) = 0
<1>1. SeqModulus \in Nat
  BY TelemetryAssumption
<1>2. NoColumns \in {Prefix(n) : n \in 0 .. 3}
  <2>1. 0 \in 0 .. 3 /\ Prefix(0) = NoColumns
    BY PrefixIs DEF NoColumns
  <2> QED BY <2>1
<1>3. <<>> \in Seq(TlmRows(md)) /\ Len(<<>>) = 0
  OBVIOUS
<1> DEFINE s == TlmStream
<1>4. s \in TlmStreams(md)
  BY <1>1, <1>2, <1>3 DEF TlmStream, TlmStreams, NoSeq
<1>5. s.frames = <<>> /\ s.last_seq = NoSeq /\ s.dropped = 0
  BY DEF TlmStream
<1> HIDE DEF s
<1>6. FramesInOrder(s.frames) /\ HasColumns(md, s.frames) /\ Accounted(md, s.frames, s.dropped)
  BY <1>3, <1>5 DEF FramesInOrder, HasColumns, Accounted
<1>7. StreamFits(md, s) /\ ComesAfter(s.frames, lines) /\ Len(s.frames) = 0
  BY <1>3, <1>4, <1>5, <1>6 DEF StreamFits, ComesAfter
<1> QED BY <1>7 DEF s

\* A frame is made; its lines reach this carrier, in part or not at all.
LEMMA MakeFrameStep ==
  ASSUME TelemetryInv, NEW was, was = robot \/ was = [robot EXCEPT !.due = FALSE], MakeFrame(was)
  PROVE  TelemetryInv'
<1> DEFINE fr == [columns |-> buildSnapshot, seq |-> NextSeq]
<1>1. made' = Append(made, fr) /\ UNCHANGED <<stream, recorder, events>> /\ Len(made) < MaxFrames
  BY DEF MakeFrame
<1>2. robot \in RobotTypes /\ made \in Seq(TlmFrames) /\ AirFits(made, air) /\ Len(air) <= InFlight
  BY DEF TelemetryInv
<1>3. was \in RobotTypes /\ was.since = robot.since
  BY <1>2 DEF RobotTypes
<1>4. NextSeq \in 0 .. SeqModulus - 1
  BY <1>2, NextSeqIs
<1>5. buildSnapshot \in {PoseColumns, FullColumns}
  BY DEF buildSnapshot
<1>6. RefreshFrames \in Nat /\ RefreshFrames > 1 /\ InFlight \in Nat
  BY TelemetryAssumption
<1>7. /\ made' \in Seq(TlmFrames) /\ StreamFits(made', stream) /\ AirFits(made', air)
      /\ AirFits(made', air \o emitTelemetry) /\ ComesAfter(stream.frames, air \o emitTelemetry)
  BY <1>1, EmitFits
<1>8. Len(made') <= MaxFrames
  <2>1. fr \in TlmFrames
    BY <1>4, <1>5 DEF TlmFrames
  <2>2. MaxFrames \in Nat /\ Len(made) \in Nat
    BY <1>2, TelemetryAssumption
  <2>3. Len(made') = Len(made) + 1
    BY <1>1, <1>2
  <2> QED BY <1>1, <2>2, <2>3
<1>9. /\ robot' \in RobotTypes /\ AirFits(made', air') /\ Len(air') <= InFlight
      /\ ComesAfter(stream.frames, air')
  <2>1. CASE robot' = [was EXCEPT !.seq = NextSeq] /\ UNCHANGED air
    <3>1. robot' \in RobotTypes
      BY <1>3, <1>4, <2>1 DEF RobotTypes
    <3>2. ComesAfter(stream.frames, air)
      BY DEF TelemetryInv
    <3> QED BY <1>2, <1>7, <2>1, <3>1, <3>2
  <2>2. CASE /\ robot' = [was EXCEPT !.seq = NextSeq, !.memo = buildSnapshot,
                                    !.since = IF HeaderDue THEN 1 ELSE @ + 1]
             /\ LET lines == air \o emitTelemetry IN
                air' = IF Len(lines) <= InFlight THEN lines ELSE SubSeq(lines, 1, InFlight)
    <3> DEFINE lines == air \o emitTelemetry
               since == IF HeaderDue THEN 1 ELSE was.since + 1
    <3>1. since \in 0 .. RefreshFrames
      <4>1. was.since \in 0 .. RefreshFrames
        BY <1>3 DEF RobotTypes
      <4>2. HeaderDue \/ was.since + 1 < RefreshFrames
        BY <1>3, <1>6, <4>1 DEF HeaderDue
      <4> QED BY <1>6, <4>1, <4>2
    <3>2. robot' = [was EXCEPT !.seq = NextSeq, !.memo = buildSnapshot, !.since = since]
      BY <2>2
    <3> HIDE DEF since
    <3>3. robot' \in RobotTypes
      BY <1>3, <1>4, <1>5, <3>1, <3>2 DEF RobotTypes
    <3>4. air' = IF Len(lines) <= InFlight THEN lines ELSE SubSeq(lines, 1, InFlight)
      BY <2>2
    <3>5. AirFits(made', lines) /\ ComesAfter(stream.frames, lines)
      BY <1>7
    <3> HIDE DEF lines
    <3>6. Len(lines) \in Nat
      BY <3>5 DEF AirFits
    <3>7. CASE Len(lines) <= InFlight
      BY <3>3, <3>4, <3>5, <3>7
    <3>8. CASE InFlight < Len(lines)
      <4>1. /\ AirFits(made', SubSeq(lines, 1, InFlight))
            /\ Len(SubSeq(lines, 1, InFlight)) = InFlight
            /\ ComesAfter(stream.frames, SubSeq(lines, 1, InFlight))
        BY <1>6, <3>5, <3>8, AirCropped
      <4>2. air' = SubSeq(lines, 1, InFlight)
        BY <1>6, <3>4, <3>6, <3>8
      <4> QED BY <1>6, <3>3, <4>1, <4>2
    <3> QED BY <1>6, <3>6, <3>7, <3>8
  <2> QED BY <2>1, <2>2 DEF MakeFrame
<1> HIDE DEF fr
<1> QED BY <1>1, <1>7, <1>8, <1>9 DEF TelemetryInv, CaptureHoldsFrames, PoseRows

\* A line cut short is of the same frame, in the same place.
LEMMA LineCutShortStep == TelemetryInv /\ LineCutShort => TelemetryInv'
<1> SUFFICES ASSUME TelemetryInv, LineCutShort
             PROVE  TelemetryInv'
  OBVIOUS
<1>1. /\ air # <<>> /\ AirFits(made, air) /\ Len(air) <= InFlight /\ ComesAfter(stream.frames, air)
      /\ made \in Seq(TlmFrames)
  BY DEF LineCutShort, TelemetryInv
<1>2. PICK n \in 1 .. Len(air[1].text) - 1 : air' = [air EXCEPT ![1].text = SubSeq(@, 1, n)]
  BY DEF LineCutShort
<1> DEFINE cut == [air[1] EXCEPT !.text = SubSeq(@, 1, n)]
           L == Len(air)
<1>3. air \in Seq(AirLines(made)) /\ L \in Nat /\ 1 \in 1 .. L
  BY <1>1 DEF AirFits
<1>4. air[1] \in AirLines(made)
  BY <1>3
<1>5. /\ cut \in AirLines(made) /\ cut.tag = air[1].tag
      /\ air[1].tag = "t" => FrameNo(cut) = FrameNo(air[1]) /\ Len(cut.text) <= Len(air[1].text)
  BY <1>1, <1>4, CutLine
<1>6. air' = [air EXCEPT ![1] = cut]
  BY <1>2
<1> HIDE DEF cut, L
<1>7. /\ air' \in Seq(AirLines(made)) /\ Len(air') = L /\ air'[1] = cut
      /\ \A i \in 2 .. L : air'[i] = air[i]
  BY <1>3, <1>5, <1>6 DEF L
<1>8. \A i \in 1 .. L : air'[i].tag = air[i].tag
  BY <1>3, <1>5, <1>7
<1>9. \A i \in 1 .. L : air[i].tag = "t" =>
        FrameNo(air'[i]) = FrameNo(air[i]) /\ Len(air'[i].text) <= Len(air[i].text)
  <2>1. ASSUME NEW i \in 1 .. L, air[i].tag = "t"
        PROVE  FrameNo(air'[i]) = FrameNo(air[i]) /\ Len(air'[i].text) <= Len(air[i].text)
    <3>1. CASE i = 1
      BY <1>5, <1>7, <2>1, <3>1
    <3>2. CASE i # 1
      <4>1. air'[i] = air[i]
        BY <1>3, <1>7, <3>2
      <4>2. Len(air[i].text) \in Nat
        <5>1. air[i] \in AirLines(made)
          BY <1>3 DEF L
        <5>2. \E q \in 1 .. 3 : Len(air[i].text) = q
          BY <1>1, <2>1, <5>1, LineIs
        <5> QED BY <5>2
      <4> QED BY <4>1, <4>2
    <3> QED BY <3>1, <3>2
  <2> QED BY <2>1
<1>10. AirFits(made, air')
  <2>1. ASSUME NEW i \in 1 .. Len(air'), air'[i].tag = "t"
        PROVE  Len(air'[i].text) <= Len(made[FrameNo(air'[i])].columns)
    <3>1. i \in 1 .. Len(air) /\ air[i].tag = "t"
      BY <1>7, <1>8, <2>1 DEF L
    <3>2. /\ FrameNo(air'[i]) = FrameNo(air[i]) /\ Len(air'[i].text) <= Len(air[i].text)
          /\ Len(air[i].text) <= Len(made[FrameNo(air[i])].columns)
      BY <1>1, <1>9, <3>1 DEF AirFits, L
    <3>3. air[i] \in AirLines(made) /\ air'[i] \in AirLines(made)
      BY <1>3, <1>7, <2>1, <3>1
    <3>4. \E p, q \in 1 .. 3 : Len(air[i].text) = p /\ Len(air'[i].text) = q
      <4>1. \E p \in 1 .. 3 : Len(air[i].text) = p
        BY <1>1, <3>1, <3>3, LineIs
      <4>2. \E q \in 1 .. 3 : Len(air'[i].text) = q
        BY <1>1, <2>1, <3>3, LineIs
      <4> QED BY <4>1, <4>2
    <3>5. FrameNo(air[i]) \in 1 .. Len(made)
      BY <1>1, <3>1, <3>3, LineIs
    <3>6. Len(made[FrameNo(air[i])].columns) \in Nat
      <4>1. made[FrameNo(air[i])] \in TlmFrames
        BY <1>1, <3>5
      <4>2. \A f \in TlmFrames : Len(f.columns) \in Nat
        BY DEF TlmFrames, PoseColumns, FullColumns
      <4> QED BY <4>1, <4>2
    <3> QED BY <3>2, <3>4, <3>6
  <2>2. ASSUME NEW i \in 1 .. Len(air'), NEW j \in 1 .. Len(air'), i < j,
               air'[i].tag = "t", air'[j].tag = "t"
        PROVE  FrameNo(air'[i]) < FrameNo(air'[j])
    <3>1. i \in 1 .. Len(air) /\ air[i].tag = "t" /\ j \in 1 .. Len(air) /\ air[j].tag = "t"
      BY <1>7, <1>8, <2>2 DEF L
    <3>2. FrameNo(air[i]) < FrameNo(air[j])
      BY <1>1, <2>2, <3>1 DEF AirFits
    <3> QED BY <1>9, <3>1, <3>2 DEF L
  <2> QED BY <1>7, <2>1, <2>2 DEF AirFits
<1>11. ComesAfter(stream.frames, air')
  <2>1. ASSUME NEW k \in 1 .. Len(stream.frames), NEW i \in 1 .. Len(air'), air'[i].tag = "t"
        PROVE  Number(stream.frames[k]) < FrameNo(air'[i])
    <3>1. i \in 1 .. Len(air) /\ air[i].tag = "t"
      BY <1>7, <1>8, <2>1 DEF L
    <3> QED BY <1>1, <1>9, <3>1 DEF ComesAfter, L
  <2> QED BY <2>1 DEF ComesAfter
<1>12. Len(air') <= InFlight
  BY <1>1, <1>7 DEF L
<1> QED BY <1>10, <1>11, <1>12, AirStep DEF LineCutShort

\* One line is read: what it decodes to is later than all before it.
LEMMA FeedStep ==
  ASSUME TelemetryInv, air # <<>>, stream' = feed(stream, Head(air)), air' = Tail(air),
         recorder' \in Recorders, recorder'.at # "wrote", recorder'.before = recorder.before,
         UNCHANGED <<robot, made>>
  PROVE  TelemetryInv'
<1> DEFINE line == air[1]
           fs == stream.frames
           now == stream'.frames
           L == Len(air)
<1>1. /\ AirFits(made, air) /\ Len(air) <= InFlight /\ ComesAfter(fs, air)
      /\ made \in Seq(TlmFrames) /\ StreamFits(made, stream) /\ robot \in RobotTypes
      /\ recorder \in Recorders /\ recorder.before <= Len(fs)
  BY DEF TelemetryInv
<1>2. /\ air \in Seq(AirLines(made)) /\ L \in Nat /\ 1 \in 1 .. L /\ Head(air) = line
      /\ \A i \in 1 .. Len(Tail(air)) : Tail(air)[i] = air[i + 1] /\ i + 1 \in 1 .. L /\ 1 < i + 1
  BY <1>1 DEF AirFits
<1>3. line \in AirLines(made)
  BY <1>2
<1>4. line.tag = "t" =>
           /\ Len(line.text) <= Len(made[FrameNo(line)].columns)
           /\ \A k \in 1 .. Len(fs) : Number(fs[k]) < FrameNo(line)
  BY <1>1, <1>2 DEF AirFits, ComesAfter
<1>5. /\ StreamFits(made, stream')
      /\ \/ now = fs
         \/ /\ line.tag = "t"
            /\ \E row \in TlmRows(made) : Number(row) = FrameNo(line) /\ now = Append(fs, row)
  BY <1>1, <1>2, <1>3, <1>4, FeedFits
<1>6. AirFits(made, Tail(air)) /\ ComesAfter(fs, Tail(air)) /\ Len(Tail(air)) < L
  BY <1>1, AirTail
<1>7. fs \in Seq(TlmRows(made))
  BY <1>1 DEF StreamFits, TlmStreams
<1>8. ComesAfter(now, Tail(air)) /\ recorder.before <= Len(now)
  <2>1. CASE now = fs
    BY <1>1, <1>6, <2>1
  <2>2. CASE /\ line.tag = "t"
             /\ \E row \in TlmRows(made) : Number(row) = FrameNo(line) /\ now = Append(fs, row)
    <3>1. PICK row \in TlmRows(made) : Number(row) = FrameNo(line) /\ now = Append(fs, row)
      BY <2>2
    <3> HIDE DEF now, fs
    <3>2. /\ Len(fs) \in Nat /\ Len(now) = Len(fs) + 1 /\ now[Len(fs) + 1] = row
          /\ \A k \in 1 .. Len(fs) : now[k] = fs[k]
      BY <1>7, <3>1
    <3>3. ASSUME NEW k \in 1 .. Len(now), NEW i \in 1 .. Len(Tail(air)), Tail(air)[i].tag = "t"
          PROVE  Number(now[k]) < FrameNo(Tail(air)[i])
      <4>1. CASE k = Len(fs) + 1
        <5>1. FrameNo(line) < FrameNo(air[i + 1])
          BY <1>1, <1>2, <2>2, <3>3 DEF AirFits
        <5> QED BY <1>2, <3>1, <3>2, <4>1, <5>1
      <4>2. CASE k # Len(fs) + 1
        <5>1. k \in 1 .. Len(fs)
          BY <3>2, <4>2
        <5> QED BY <1>6, <3>2, <3>3, <5>1 DEF ComesAfter
      <4> QED BY <4>1, <4>2
    <3>4. recorder.before \in Nat
      BY <1>1 DEF Recorders
    <3> QED BY <1>1, <3>2, <3>3, <3>4 DEF ComesAfter
  <2> QED BY <1>5, <2>1, <2>2
<1>9. Len(Tail(air)) <= InFlight
  <2>1. InFlight \in Nat /\ Len(Tail(air)) \in Nat
    BY <1>1, <1>6, TelemetryAssumption DEF AirFits
  <2> QED BY <1>1, <1>2, <1>6, <2>1
<1> HIDE DEF fs, L, line
<1> QED BY <1>1, <1>5, <1>6, <1>8, <1>9, RecorderStep

\* A recorder starts with a stream of its own.
LEMMA StartRecordingStep == TelemetryInv /\ StartRecording => TelemetryInv'
<1> SUFFICES ASSUME TelemetryInv, StartRecording
             PROVE  TelemetryInv'
  OBVIOUS
<1>1. PICK by \in {"tour_run", "tour_watch"}, heard \in BOOLEAN :
         /\ robot' = IF heard THEN onTlm("POSE") ELSE robot
         /\ recorder' = [at |-> "require", tool |-> by, before |-> 0]
  BY DEF StartRecording
<1>2. recorder' \in Recorders /\ recorder'.at # "wrote" /\ recorder'.before = 0
  BY <1>1 DEF Recorders
<1>3. robot' \in RobotTypes
  <2>1. robot \in RobotTypes
    BY DEF TelemetryInv
  <2> QED BY <1>1, <2>1, OnTlmIs
<1>4. stream' = TlmStream /\ UNCHANGED <<made, air, events>>
  BY DEF StartRecording
<1>5. StreamFits(made, stream') /\ ComesAfter(stream'.frames, air') /\ Len(stream'.frames) = 0
  BY <1>4, FreshStream
<1>6. AirFits(made, air') /\ Len(air') <= InFlight
  BY <1>4 DEF TelemetryInv
<1> QED BY <1>2, <1>3, <1>4, <1>5, <1>6, RecorderStep

\* The run begins behind the frames decoded so far.
LEMMA StartRunStep == TelemetryInv /\ StartRun => TelemetryInv'
<1> SUFFICES ASSUME TelemetryInv, StartRun
             PROVE  TelemetryInv'
  OBVIOUS
<1>1. /\ UNCHANGED <<robot, made, air, events>>
      /\ recorder' = [recorder EXCEPT !.at = "capture", !.before = Len(stream'.frames)]
      /\ stream' = IF recorder.tool = "tour_watch" THEN TlmStream ELSE stream
  BY DEF StartRun
<1>2. /\ StreamFits(made, stream) /\ ComesAfter(stream.frames, air) /\ AirFits(made, air)
      /\ Len(air) <= InFlight /\ robot \in RobotTypes /\ recorder \in Recorders
  BY DEF TelemetryInv
<1>3. StreamFits(made, stream') /\ ComesAfter(stream'.frames, air')
  BY <1>1, <1>2, FreshStream
<1>4. Len(stream'.frames) \in Nat
  BY <1>3 DEF StreamFits, TlmStreams
<1>5. recorder' \in Recorders /\ recorder'.at # "wrote" /\ recorder'.before = Len(stream'.frames)
  <2> DEFINE n == Len(stream'.frames)
  <2>1. recorder' = [recorder EXCEPT !.at = "capture", !.before = n] /\ n \in Nat
    BY <1>1, <1>4
  <2> HIDE DEF n
  <2>2. recorder' \in Recorders /\ recorder'.at # "wrote" /\ recorder'.before = n
    BY <1>2, <2>1 DEF Recorders
  <2> QED BY <2>2 DEF n
<1>6. recorder'.before <= Len(stream'.frames)
  BY <1>4, <1>5
<1> QED BY <1>1, <1>2, <1>3, <1>5, <1>6, RecorderStep

\* A refused recorder writes nothing.
LEMMA DeadTelemetryStep == TelemetryInv /\ DeadTelemetry => TelemetryInv'
<1> SUFFICES ASSUME TelemetryInv, DeadTelemetry
             PROVE  TelemetryInv'
  OBVIOUS
<1>1. /\ recorder' = [recorder EXCEPT !.at = "refused"]
      /\ UNCHANGED <<robot, made, air, stream, events>>
  BY DEF DeadTelemetry
<1>2. recorder' \in Recorders /\ recorder'.at # "wrote" /\ recorder'.before = recorder.before
  BY <1>1 DEF TelemetryInv, Recorders
<1>3. /\ StreamFits(made, stream') /\ AirFits(made, air') /\ Len(air') <= InFlight
      /\ ComesAfter(stream'.frames, air') /\ recorder'.before <= Len(stream'.frames)
      /\ robot' \in RobotTypes
  BY <1>1, <1>2 DEF TelemetryInv
<1> QED BY <1>1, <1>2, <1>3, RecorderStep

\* Only a capture with frames, and a pose in every one of the run, is written.
LEMMA WriteCsvStep == TelemetryInv /\ write_csv => TelemetryInv'
<1> SUFFICES ASSUME TelemetryInv, write_csv
             PROVE  TelemetryInv'
  OBVIOUS
<1> DEFINE at == IF stream.frames = <<>> THEN "refused"
                 ELSE IF \E i \in DOMAIN PoseRows : "x" \notin DOMAIN PoseRows[i] THEN "died"
                 ELSE "wrote"
<1>1. recorder' = [recorder EXCEPT !.at = at] /\ UNCHANGED <<robot, made, air, stream, events>>
  BY DEF write_csv
<1>2. recorder \in Recorders /\ StreamFits(made, stream) /\ recorder.before <= Len(stream.frames)
      /\ made \in Seq(TlmFrames)
  BY DEF TelemetryInv
<1>3. at \in {"refused", "died", "wrote"}
  OBVIOUS
<1>4. at = "wrote" => /\ stream.frames # <<>>
                      /\ \A i \in DOMAIN PoseRows : "x" \in DOMAIN PoseRows[i]
  OBVIOUS
<1> HIDE DEF at
<1>5. recorder' \in Recorders /\ recorder'.at = at /\ recorder'.before = recorder.before
  BY <1>1, <1>2, <1>3 DEF Recorders
<1>6. \A i \in DOMAIN PoseRows : "seq" \in DOMAIN PoseRows[i]
  <2> DEFINE fs == stream.frames
             b == recorder.before
  <2>1. fs \in Seq(TlmRows(made)) /\ b \in Nat /\ b <= Len(fs)
    BY <1>2 DEF StreamFits, TlmStreams, Recorders
  <2>2. \A i \in DOMAIN SubSeq(fs, b + 1, Len(fs)) : SubSeq(fs, b + 1, Len(fs))[i] \in TlmRows(made)
    <3> HIDE DEF fs, b
    <3>1. SubSeq(fs, b + 1, Len(fs)) \in Seq(TlmRows(made))
      BY <2>1
    <3> QED BY <3>1
  <2>3. \A i \in DOMAIN PoseRows : PoseRows[i] \in TlmRows(made)
    BY <2>2 DEF PoseRows
  <2> QED BY <1>2, <2>3, RowIs
<1>7. CaptureHoldsFrames'
  <2>1. PoseRows' = PoseRows
    BY <1>1, <1>5 DEF PoseRows
  <2> HIDE DEF PoseRows
  <2> QED BY <1>1, <1>4, <1>5, <1>6, <2>1 DEF CaptureHoldsFrames
<1> QED BY <1>1, <1>5, <1>7 DEF TelemetryInv

\* The invariant of the robot, the air, the stream and the recorder.
LEMMA TelemetryInvHolds == TelemetrySpec => []TelemetryInv
<1>1. TelemetryInit => TelemetryInv
  <2> SUFFICES ASSUME TelemetryInit
               PROVE  TelemetryInv
    OBVIOUS
  <2>1. robot \in RobotTypes
    BY BootedIs DEF TelemetryInit
  <2>2. recorder \in Recorders /\ recorder.at # "wrote" /\ recorder.before = 0
    BY DEF TelemetryInit, Recorders
  <2>3. made \in Seq(TlmFrames) /\ Len(made) = 0 /\ air \in Seq(AirLines(made)) /\ Len(air) = 0
    BY DEF TelemetryInit
  <2>4. MaxFrames \in Nat /\ InFlight \in Nat
    BY TelemetryAssumption
  <2>5. AirFits(made, air)
    BY <2>3 DEF AirFits
  <2>6. StreamFits(made, stream) /\ ComesAfter(stream.frames, air) /\ Len(stream.frames) = 0
    BY FreshStream DEF TelemetryInit
  <2>7. CaptureHoldsFrames
    BY <2>2 DEF CaptureHoldsFrames
  <2> QED BY <2>1, <2>2, <2>3, <2>4, <2>5, <2>6, <2>7 DEF TelemetryInv
<1>2. TelemetryInv /\ [TelemetryNext]_tlmVars => TelemetryInv'
  <2> SUFFICES ASSUME TelemetryInv, [TelemetryNext]_tlmVars
               PROVE  TelemetryInv'
    OBVIOUS
  <2>1. CASE TlmCommand
    <3>1. robot \in RobotTypes
      BY DEF TelemetryInv
    <3>2. robot' \in RobotTypes
      BY <2>1, <3>1, OnTlmIs DEF TlmCommand
    <3> QED BY <2>1, <3>2, RobotStep DEF TlmCommand
  <2>2. CASE periodicTelemetry
    BY <2>2, MakeFrameStep DEF periodicTelemetry
  <2>3. CASE oneShotTelemetry
    BY <2>3, MakeFrameStep DEF oneShotTelemetry
  <2>4. CASE Reboot
    BY <2>4, BootedIs, RobotStep DEF Reboot
  <2>5. CASE LineLostInAir \/ ReadForMarker
    <3>1. air # <<>> /\ air' = Tail(air) /\ UNCHANGED <<robot, made, stream, recorder>>
      BY <2>5 DEF LineLostInAir, ReadForMarker
    <3>2. AirFits(made, air) /\ Len(air) <= InFlight /\ ComesAfter(stream.frames, air)
      BY DEF TelemetryInv
    <3>3. /\ AirFits(made, Tail(air)) /\ Len(Tail(air)) < Len(air)
          /\ ComesAfter(stream.frames, Tail(air))
      BY <3>1, <3>2, AirTail
    <3>4. Len(Tail(air)) <= InFlight
      <4>1. InFlight \in Nat /\ Len(Tail(air)) \in Nat /\ Len(air) \in Nat
        BY <3>2, <3>3, TelemetryAssumption DEF AirFits
      <4> QED BY <3>2, <3>3, <4>1
    <3> QED BY <3>1, <3>3, <3>4, AirStep
  <2>6. CASE LineCutShort
    BY <2>6, LineCutShortStep
  <2>7. CASE StartRecording
    BY <2>7, StartRecordingStep
  <2>8. CASE require_stream
    <3>1. recorder \in Recorders
      BY DEF TelemetryInv
    <3>2. /\ air # <<>> /\ stream' = feed(stream, Head(air)) /\ air' = Tail(air)
          /\ recorder' = recorder \/ recorder' = [recorder EXCEPT !.at = "staging"]
          /\ recorder.at = "require" /\ UNCHANGED <<robot, made>>
      BY <2>8 DEF require_stream
    <3>3. recorder' \in Recorders /\ recorder'.at # "wrote" /\ recorder'.before = recorder.before
      BY <3>1, <3>2 DEF Recorders
    <3> QED BY <3>2, <3>3, FeedStep
  <2>9. CASE DeadTelemetry
    BY <2>9, DeadTelemetryStep
  <2>10. CASE StartRun
    BY <2>10, StartRunStep
  <2>11. CASE Capture
    <3>1. recorder \in Recorders
      BY DEF TelemetryInv
    <3>2. /\ air # <<>> /\ stream' = feed(stream, Head(air)) /\ air' = Tail(air)
          /\ recorder' = recorder /\ recorder.at = "capture" /\ UNCHANGED <<robot, made>>
      BY <2>11 DEF Capture
    <3> QED BY <3>1, <3>2, FeedStep
  <2>12. CASE write_csv
    BY <2>12, WriteCsvStep
  <2>13. CASE UNCHANGED tlmVars
    BY <2>13 DEF tlmVars, TelemetryInv, CaptureHoldsFrames, PoseRows
  <2> QED BY <2>1, <2>2, <2>3, <2>4, <2>5, <2>6, <2>7, <2>8, <2>9, <2>10, <2>11, <2>12, <2>13
          DEF TelemetryNext
<1> QED BY <1>1, <1>2, PTL DEF TelemetrySpec

-----------------------------------------------------------------------------
\* The robot's telemetry state, the air and the stream keep their types.
THEOREM TelemetryTypeCorrect == TelemetrySpec => []TelemetryTypeOK
<1>1. TelemetryInv => TelemetryTypeOK
  BY DEF TelemetryInv, TelemetryTypeOK, RobotTypes, StreamFits, TlmStreams
<1> QED BY <1>1, TelemetryInvHolds, PTL

\* Every decoded value is of its own column and frame, the dropped count
\* accounts for every frame in between, and a written capture holds poses.
THEOREM TelemetryHonest == TelemetrySpec => []TelemetryIsHonest
<1>1. TelemetryInv => TelemetryIsHonest
  <2> SUFFICES ASSUME TelemetryInv
               PROVE  TelemetryIsHonest
    OBVIOUS
  <2> DEFINE fs == stream.frames
  <2>1. /\ made \in Seq(TlmFrames) /\ fs \in Seq(TlmRows(made))
        /\ FramesInOrder(fs) /\ HasColumns(made, fs)
        /\ Accounted(made, fs, stream.dropped) /\ CaptureHoldsFrames
    BY DEF TelemetryInv, StreamFits, TlmStreams
  <2>2. DOMAIN fs = 1 .. Len(fs) /\ \A i \in 1 .. Len(fs) : fs[i] \in TlmRows(made)
    BY <2>1
  <2>3. BoundByName
    <3>1. ASSUME NEW i \in DOMAIN fs, NEW c \in DOMAIN fs[i]
          PROVE  /\ fs[i][c].of = c /\ fs[i][c].frame = Number(fs[i])
                 /\ \E k \in DOMAIN made[Number(fs[i])].columns : made[Number(fs[i])].columns[k] = c
      <4>1. i \in 1 .. Len(fs) /\ fs[i] \in TlmRows(made)
        BY <2>2
      <4>2. fs[i][c].of = c /\ fs[i][c].frame = Number(fs[i])
        <5> DEFINE row == fs[i]
        <5>1. row \in TlmRows(made) /\ c \in DOMAIN row
          BY <4>1
        <5> HIDE DEF row
        <5>2. \E f \in 1 .. Len(made) :
                Number(row) = f /\ \A d \in DOMAIN row : row[d].of = d /\ row[d].frame = f
          BY <2>1, <5>1, RowIs
        <5>3. row[c].of = c /\ row[c].frame = Number(row)
          BY <5>1, <5>2
        <5> QED BY <5>3 DEF row
      <4>3. \E k \in DOMAIN made[Number(fs[i])].columns : made[Number(fs[i])].columns[k] = c
        <5> HIDE DEF fs
        <5> QED BY <2>1, <4>1, Zenon DEF HasColumns
      <4> QED BY <4>2, <4>3
    <3>2. \A i \in 2 .. Len(fs) : Number(fs[i - 1]) < Number(fs[i])
      BY <2>1 DEF FramesInOrder
    <3> QED BY <3>1, <3>2, Zenon DEF BoundByName
  <2>4. EveryFrameAccounted
    <3>1. (\A i \in 2 .. Len(fs) : Countable(Number(fs[i - 1]), Number(fs[i]))) => NoGap(made, fs)
      BY DEF NoGap, Unbroken, Countable
    <3>2. fs # <<>> /\ (\A i \in 2 .. Len(fs) : Countable(Number(fs[i - 1]), Number(fs[i])))
            => Len(fs) + stream.dropped = Number(fs[Len(fs)]) - Number(fs[1]) + 1
      BY <2>1, <3>1 DEF Accounted
    <3> QED BY <3>2 DEF EveryFrameAccounted
  <2> QED BY <2>1, <2>3, <2>4 DEF TelemetryIsHonest
<1> QED BY <1>1, TelemetryInvHolds, PTL

-----------------------------------------------------------------------------
(* wire_acceptance.py.  What a case needs of the robot and of the suite's   *)
(* counter is a label of the place before it; Allowed is which case may     *)
(* stand between two labels, and a suite is Labelled if its places can be.  *)

Following == {"fresh", "tracked", "headed", "ready"}
InMotion == {"m3", "m4", "m5", "m6", "m7"}
InNumbers == {"n2", "n3", "n4", "one", "gap1"}
Plain == {"any"} \cup InNumbers \cup Following
Outside == Plain \cup {"over"}
Labels == Outside \cup InMotion

\* Cases that leave the handler's stream and the suite's counter alone.
Remark == {Sends(Query), Case("alive", Query, 1, {<<"answer", AnyNumber>>}, {}),
           Case("status", Query, 4, {<<"answer", AnyNumber>>}, {}),
           Answered(1), Answered(3), Answered(4),
           Judge(Ask("COMMAND", NoId, "plain"), {<<"nack", AnyNumber>>}),
           Case("absent", Ask("UNKNOWN", NoId, "plain"), 4, {<<"nack", AnyNumber>>}, {}),
           Case("cleartext", Ask("COMMAND", NoId, "run"), 3, {<<"GAP:", AnyNumber>>}, {}),
           Judge(Ask("ESTOP", NoId, "estop"), {<<"estop", AnyNumber>>}),
           Case("judge", Ask("ESTOP", NoId, "estop"), 1, {<<"estop", AnyNumber>>}, {"nack"}),
           Judge(Numbered(0, "move"), {<<"nack", AnyNumber>>})}
Silent == Case("judge", Query, 1, {<<"answer", AnyNumber>>}, {"nack"})
Reminded == Judge(Query, {<<"answer", AnyNumber>>, <<"nack", 1>>})
Resets == Case("reset", Ask("HELLO", NoId, "hello"), 1, {}, {})
Greeting == {Case("banner", Ask("HELLO", NoId, "hello"), 4, {<<"device", AnyNumber>>}, {}),
             Judge(Ask("HELLO", NoId, "hello"), {<<"device", AnyNumber>>})}

\* Lines with the tracked id, and what may be refused on its merits.
Stepping == {Tracked("get"), Tracked("telemetry"), Tracked("stop"), Clean("mode"), Clean("buffer"),
             Case("value", Command("get"), 1, {<<"ack", NextId>>}, {}),
             Case("if_value", Command("set"), 1, {<<"ack", NextId>>}, {"err"}),
             Case("if_value", Command("get"), 1, {<<"ack", NextId>>}, {}),
             Case("judge", Command("quiet"), 1, {<<"ack", AnyNumber>>}, {}),
             Strict(Command("funcs"), {<<"ack", NextId>>}),
             Strict(Command("stop"), {<<"ack", NextId>>}),
             Judge(Command("unknown"), {<<"ack", NextId>>, <<"err", 1>>}),
             Sends(Command("quiet")), Sends(Command("telemetry"))}
Moving == {Case("motion", Command("move"), 1, {<<"ack", NextId>>}, {}),
           Case("motion", Command("goto"), 1, {<<"ack", NextId>>}, {})}
Turned == Case("turned", Query, 1, {}, {})
Header == Case("header", Command("telemetry"), 1, {}, {})

Counting(a, c, b) ==
    \/ a = "fresh" /\ b = "n2" /\ c = Judge(Numbered(1, "unknown"), {<<"ack", 1>>, <<"err", 1>>})
    \/ a = "n2" /\ b = "n3" /\ c = Judge(Numbered(2, "unknown"), {<<"ack", 2>>, <<"err", 1>>})
    \/ a = "n3" /\ b = "n4" /\ c = Judge(Numbered(3, "write_only"), {<<"ack", 3>>, <<"err", 12>>})
    \/ a = "n4" /\ b = "any"
       /\ c = Judge(Numbered(4, "malformed"), {<<"nack", AnyNumber>>, <<"err", AnyNumber>>})
    \/ a = "fresh" /\ b = "any" /\ c = Judge(Numbered(1, "malformed"), {<<"nack", 1>>, <<"err", 2>>})
    \/ a = "fresh" /\ b = "one"
       /\ c = Judge(Numbered(MaxSequenceId, "stop"), {<<"nack", AnyNumber>>, <<"err", 3>>})
    \/ a \in {"one", "fresh"} /\ b = "n2" /\ c = Judge(Numbered(1, "stop"), {<<"ack", 1>>})
    \/ a = "n2" /\ b = "n3" /\ c = Judge(Numbered(2, "stop"), {<<"ack", 2>>})
    \/ a = "n3" /\ b = "any" /\ c = Judge(Numbered(2, "stop"), {<<"ack", AnyNumber>>})
    \/ a = "fresh" /\ b = "gap1" /\ c = Sends(Numbered(9, "stop"))

Driving(a, c, b) ==
    \/ a \in Following /\ b = "headed" /\ c = Sends(Command("telemetry"))
    \/ a = "headed" /\ b = "ready" /\ c \in Moving
    \/ a = "ready" /\ b = "tracked" /\ c = Turned
    \/ a = "fresh" /\ b = "m3" /\ c = Header
    \/ a = "m3" /\ b = "m4" /\ c = Sends(Query)
    \/ a = "m4" /\ b = "m5" /\ c = Tracked("move")
    \/ a = "m5" /\ b = "m6" /\ c = Turned
    \/ a = "m6" /\ b = "m7" /\ c = Sends(Command("stop"))
    \/ a = "m7" /\ b = "over" /\ c = Sends(Command("quiet"))

Allowed(a, c, b) ==
    \/ a \in Outside /\ b = "fresh" /\ c = Resets
    \/ a = "fresh" /\ b = "fresh" /\ c \in Greeting
    \/ a \in Plain /\ b = a /\ c \in Remark
    \/ a = "fresh" /\ b = "any" /\ c = Silent
    \/ a = "gap1" /\ b = "gap1" /\ c = Reminded
    \/ a \in Following /\ b = "tracked" /\ c \in Stepping
    \/ Counting(a, c, b)
    \/ Driving(a, c, b)

\* The cases of the suites.
Counted == {Judge(Numbered(1, "unknown"), {<<"ack", 1>>, <<"err", 1>>}),
            Judge(Numbered(2, "unknown"), {<<"ack", 2>>, <<"err", 1>>}),
            Judge(Numbered(3, "write_only"), {<<"ack", 3>>, <<"err", 12>>}),
            Judge(Numbered(4, "malformed"), {<<"nack", AnyNumber>>, <<"err", AnyNumber>>}),
            Judge(Numbered(1, "malformed"), {<<"nack", 1>>, <<"err", 2>>}),
            Judge(Numbered(MaxSequenceId, "stop"), {<<"nack", AnyNumber>>, <<"err", 3>>}),
            Judge(Numbered(1, "stop"), {<<"ack", 1>>}),
            Judge(Numbered(2, "stop"), {<<"ack", 2>>}),
            Judge(Numbered(2, "stop"), {<<"ack", AnyNumber>>}),
            Sends(Numbered(9, "stop"))}
AllCases == Remark \cup Greeting \cup Stepping \cup Moving \cup Counted
            \cup {Silent, Reminded, Resets, Turned, Header, Tracked("move"), Sends(Command("stop"))}

\* lab labels the places of s, from a to b; s has n cases.
Labelling(lab, s, a, b, n) ==
    /\ s \in Seq(AllCases) /\ Len(s) = n /\ n \in Nat
    /\ lab \in [1 .. n + 1 -> Labels] /\ lab[1] = a /\ lab[n + 1] = b
    /\ \A i \in 1 .. n : Allowed(lab[i], s[i], lab[i + 1])
Labelled(s, a, b, n) == \E lab : Labelling(lab, s, a, b, n)

LEMMA LabelledEmpty ==
  ASSUME NEW a \in Labels
  PROVE  Labelled(<<>>, a, a, 0)
<1> DEFINE lab == [i \in 1 .. 1 |-> a]
<1>1. Labelling(lab, <<>>, a, a, 0)
  <2>1. <<>> \in Seq(AllCases) /\ Len(<<>>) = 0
    OBVIOUS
  <2>2. lab \in [1 .. 0 + 1 -> Labels] /\ lab[1] = a /\ lab[0 + 1] = a
    OBVIOUS
  <2> HIDE DEF lab
  <2> QED BY <2>1, <2>2 DEF Labelling
<1> QED BY <1>1 DEF Labelled

LEMMA LabelledOne ==
  ASSUME NEW a \in Labels, NEW b \in Labels, NEW c \in AllCases, Allowed(a, c, b)
  PROVE  Labelled(<<c>>, a, b, 1)
<1> DEFINE lab == [i \in 1 .. 2 |-> IF i = 1 THEN a ELSE b]
<1>1. Labelling(lab, <<c>>, a, b, 1)
  <2>1. <<c>> \in Seq(AllCases) /\ Len(<<c>>) = 1 /\ <<c>>[1] = c
    OBVIOUS
  <2>2. lab \in [1 .. 1 + 1 -> Labels] /\ lab[1] = a /\ lab[1 + 1] = b
    OBVIOUS
  <2> HIDE DEF lab
  <2>3. \A i \in 1 .. 1 : Allowed(lab[i], <<c>>[i], lab[i + 1])
    <3> TAKE i \in 1 .. 1
    <3>1. i = 1
      OBVIOUS
    <3>2. Allowed(lab[1], <<c>>[1], lab[1 + 1])
      BY <2>1, <2>2
    <3> QED BY <3>1, <3>2
  <2> QED BY <2>1, <2>2, <2>3 DEF Labelling
<1> QED BY <1>1 DEF Labelled

LEMMA LabelledJoin ==
  ASSUME NEW s, NEW t, NEW a, NEW b, NEW c, NEW n, NEW m,
         Labelled(s, a, b, n), Labelled(t, b, c, m)
  PROVE  Labelled(s \o t, a, c, n + m)
<1>1. PICK f : Labelling(f, s, a, b, n)
  BY DEF Labelled
<1>2. PICK g : Labelling(g, t, b, c, m)
  BY DEF Labelled
<1> DEFINE lab == [i \in 1 .. n + m + 1 |-> IF i <= n THEN f[i] ELSE g[i - n]]
<1>3. /\ s \in Seq(AllCases) /\ Len(s) = n /\ n \in Nat
      /\ f \in [1 .. n + 1 -> Labels] /\ f[1] = a /\ f[n + 1] = b
      /\ t \in Seq(AllCases) /\ Len(t) = m /\ m \in Nat
      /\ g \in [1 .. m + 1 -> Labels] /\ g[1] = b /\ g[m + 1] = c
  BY <1>1, <1>2 DEF Labelling
<1>4. s \o t \in Seq(AllCases) /\ Len(s \o t) = n + m
  BY <1>3
<1>5. \A i \in 1 .. n + m : (s \o t)[i] = IF i <= n THEN s[i] ELSE t[i - n]
  BY <1>3, ConcatProperties
<1>6. lab \in [1 .. n + m + 1 -> Labels]
  BY <1>3
<1>7. \A i \in 1 .. n + m + 1 : lab[i] = IF i <= n THEN f[i] ELSE g[i - n]
  OBVIOUS
<1> HIDE DEF lab
<1>8. lab[1] = a /\ lab[n + m + 1] = c
  <2>1. lab[1] = a
    <3>1. CASE n = 0
      BY <1>3, <1>7, <3>1
    <3>2. CASE n # 0
      BY <1>3, <1>7, <3>2
    <3> QED BY <3>1, <3>2
  <2>2. lab[n + m + 1] = g[m + 1]
    <3>1. n \in Nat /\ m \in Nat
      BY <1>3
    <3>2. /\ n + m + 1 \in 1 .. n + m + 1 /\ ~(n + m + 1 <= n)
          /\ (n + m + 1) - n = m + 1
      BY <3>1
    <3> QED BY <1>7, <3>2
  <2> QED BY <1>3, <2>1, <2>2
<1>9. \A i \in 1 .. n + m : Allowed(lab[i], (s \o t)[i], lab[i + 1])
  <2> TAKE i \in 1 .. n + m
  <2>1. CASE i < n
    <3>1. lab[i] = f[i] /\ lab[i + 1] = f[i + 1] /\ (s \o t)[i] = s[i] /\ i \in 1 .. n
      BY <1>3, <1>5, <1>7, <2>1
    <3> QED BY <1>1, <3>1 DEF Labelling
  <2>2. CASE i = n
    <3>1. lab[i] = f[n] /\ lab[i + 1] = f[n + 1] /\ (s \o t)[i] = s[n] /\ n \in 1 .. n /\ i = n
      BY <1>3, <1>5, <1>7, <2>2
    <3> QED BY <1>1, <3>1 DEF Labelling
  <2>3. CASE i > n
    <3>1. lab[i] = g[i - n] /\ lab[i + 1] = g[(i - n) + 1] /\ (s \o t)[i] = t[i - n] /\ i - n \in 1 .. m
      BY <1>3, <1>5, <1>7, <2>3
    <3> QED BY <1>2, <3>1 DEF Labelling
  <2> QED BY <1>3, <2>1, <2>2, <2>3
<1>10. Labelling(lab, s \o t, a, c, n + m)
  BY <1>3, <1>4, <1>6, <1>8, <1>9 DEF Labelling
<1> QED BY <1>10 DEF Labelled

LEMMA LabelledRun ==
  ASSUME NEW a \in Labels, NEW c \in AllCases, NEW k \in Nat, Allowed(a, c, a)
  PROVE  Labelled([i \in 1 .. k |-> c], a, a, k)
<1> DEFINE lab == [i \in 1 .. k + 1 |-> a]
           s == [i \in 1 .. k |-> c]
<1>1. s \in Seq(AllCases) /\ Len(s) = k /\ \A i \in 1 .. k : s[i] = c
  OBVIOUS
<1>2. lab \in [1 .. k + 1 -> Labels] /\ \A i \in 1 .. k + 1 : lab[i] = a
  OBVIOUS
<1> HIDE DEF lab, s
<1>3. \A i \in 1 .. k : Allowed(lab[i], s[i], lab[i + 1])
  BY <1>1, <1>2
<1>4. Labelling(lab, s, a, a, k)
  BY <1>1, <1>2, <1>3 DEF Labelling
<1>5. Labelled(s, a, a, k)
  BY <1>4 DEF Labelled
<1> QED BY <1>5 DEF s

-----------------------------------------------------------------------------
(* The cases of the suite are cases. *)

LEMMA SomeCases ==
  /\ Remark \subseteq AllCases /\ Stepping \subseteq AllCases /\ Moving \subseteq AllCases
  /\ Greeting \subseteq AllCases
  /\ {Silent, Reminded, Resets, Turned, Header, Tracked("move"), Sends(Command("stop"))} \subseteq AllCases
BY DEF AllCases

LEMMA CountingCases ==
  ASSUME NEW a, NEW b, NEW c, Counting(a, c, b)
  PROVE  c \in AllCases
<1>1. c \in Counted
  BY DEF Counting, Counted
<1> QED BY <1>1 DEF AllCases

-----------------------------------------------------------------------------
(* Steps of a labelling. *)

LEMMA OneRemark ==
  ASSUME NEW a \in Plain, NEW c \in Remark
  PROVE  Labelled(<<c>>, a, a, 1)
BY LabelledOne, SomeCases DEF Allowed, Labels, Outside

LEMMA OneReset ==
  ASSUME NEW a \in Outside
  PROVE  Labelled(Reset, a, "fresh", 1)
<1>1. Allowed(a, Resets, "fresh") /\ "fresh" \in Labels
  BY DEF Allowed, Labels, Outside, Plain, Following
<1>2. a \in Labels
  BY DEF Labels
<1>3. Labelled(<<Resets>>, a, "fresh", 1)
  BY <1>1, <1>2, LabelledOne, SomeCases
<1> QED BY <1>3 DEF Reset, Resets

LEMMA OneStep ==
  ASSUME NEW a \in Following, NEW c \in Stepping
  PROVE  Labelled(<<c>>, a, "tracked", 1)
<1>1. Allowed(a, c, "tracked") /\ a \in Labels /\ "tracked" \in Labels
  BY DEF Allowed, Labels, Outside, Plain, Following
<1> QED BY <1>1, LabelledOne, SomeCases

LEMMA OneCount ==
  ASSUME NEW a \in Labels, NEW b \in Labels, NEW c, Counting(a, c, b)
  PROVE  Labelled(<<c>>, a, b, 1)
BY LabelledOne, CountingCases DEF Allowed

LEMMA OneDrive ==
  ASSUME NEW a \in Labels, NEW b \in Labels, NEW c \in AllCases, Driving(a, c, b)
  PROVE  Labelled(<<c>>, a, b, 1)
BY LabelledOne DEF Allowed

-----------------------------------------------------------------------------
(* The lists of cases that are written out. *)

\* One case more.
LEMMA LabelledMore ==
  ASSUME NEW S, NEW s \in Seq(S), NEW t \in Seq(S), NEW n \in Nat, NEW z \in S,
         NEW a, NEW b, NEW c,
         Len(s) = n, Len(t) = n + 1, t[n + 1] = z, \A i \in 1 .. n : t[i] = s[i],
         Labelled(s, a, b, n), Labelled(<<z>>, b, c, 1)
  PROVE  Labelled(t, a, c, n + 1)
<1>1. Labelled(s \o <<z>>, a, c, n + 1)
  BY LabelledJoin
<1>2. <<z>> \in Seq(S) /\ Len(<<z>>) = 1 /\ <<z>>[1] = z
  OBVIOUS
<1>3. /\ s \o <<z>> \in Seq(S) /\ Len(s \o <<z>>) = n + 1
      /\ \A i \in 1 .. n + 1 : (s \o <<z>>)[i] = IF i <= n THEN s[i] ELSE <<z>>[i - n]
  BY <1>2, ConcatProperties
<1>4. \A i \in 1 .. n + 1 : (s \o <<z>>)[i] = t[i]
  <2> TAKE i \in 1 .. n + 1
  <2>1. CASE i <= n
    BY <1>3, <2>1
  <2>2. CASE i = n + 1
    BY <1>2, <1>3, <2>2
  <2> QED BY <2>1, <2>2
<1>5. s \o <<z>> = t
  BY <1>3, <1>4, SeqEqual
<1> QED BY <1>1, <1>5

LEMMA LabelledTwo ==
  ASSUME NEW y, NEW z, NEW a, NEW b, NEW c,
         Labelled(<<y>>, a, b, 1), Labelled(<<z>>, b, c, 1)
  PROVE  Labelled(<<y, z>>, a, c, 2)
<1> DEFINE s == <<y>>
           t == <<y, z>>
           S == {y, z}
<1>1. s \in Seq(S) /\ t \in Seq(S) /\ z \in S
  OBVIOUS
<1>2. Len(s) = 1 /\ Len(t) = 1 + 1 /\ t[1 + 1] = z
  OBVIOUS
<1>3. t[1] = s[1]
  OBVIOUS
<1>4. Labelled(s, a, b, 1)
  OBVIOUS
<1> HIDE DEF s, t, S
<1>5. \A i \in 1 .. 1 : t[i] = s[i]
  BY <1>3
<1>6. Labelled(t, a, c, 1 + 1)
  BY <1>1, <1>2, <1>4, <1>5, LabelledMore
<1> QED BY <1>6 DEF t

LEMMA LabelledThree ==
  ASSUME NEW x, NEW y, NEW z, NEW a, NEW b, NEW c,
         Labelled(<<x, y>>, a, b, 2), Labelled(<<z>>, b, c, 1)
  PROVE  Labelled(<<x, y, z>>, a, c, 3)
<1> DEFINE s == <<x, y>>
           t == <<x, y, z>>
           S == {x, y, z}
<1>1. s \in Seq(S) /\ t \in Seq(S) /\ z \in S
  OBVIOUS
<1>2. Len(s) = 2 /\ Len(t) = 2 + 1 /\ t[2 + 1] = z
  OBVIOUS
<1>3. t[1] = s[1] /\ t[2] = s[2]
  OBVIOUS
<1>4. Labelled(s, a, b, 2)
  OBVIOUS
<1> HIDE DEF s, t, S
<1>5. \A i \in 1 .. 2 : t[i] = s[i]
  BY <1>3
<1>6. Labelled(t, a, c, 2 + 1)
  BY <1>1, <1>2, <1>4, <1>5, LabelledMore
<1> QED BY <1>6 DEF t

LEMMA LabelledFour ==
  ASSUME NEW w, NEW x, NEW y, NEW z, NEW a, NEW b, NEW c,
         Labelled(<<w, x, y>>, a, b, 3), Labelled(<<z>>, b, c, 1)
  PROVE  Labelled(<<w, x, y, z>>, a, c, 4)
<1> DEFINE s == <<w, x, y>>
           t == <<w, x, y, z>>
           S == {w, x, y, z}
<1>1. s \in Seq(S) /\ t \in Seq(S) /\ z \in S
  OBVIOUS
<1>2. Len(s) = 3 /\ Len(t) = 3 + 1 /\ t[3 + 1] = z
  OBVIOUS
<1>3. t[1] = s[1] /\ t[2] = s[2] /\ t[3] = s[3]
  OBVIOUS
<1>4. Labelled(s, a, b, 3)
  OBVIOUS
<1> HIDE DEF s, t, S
<1>5. \A i \in 1 .. 3 : t[i] = s[i]
  BY <1>3
<1>6. Labelled(t, a, c, 3 + 1)
  BY <1>1, <1>2, <1>4, <1>5, LabelledMore
<1> QED BY <1>6 DEF t

LEMMA LabelledFive ==
  ASSUME NEW v, NEW w, NEW x, NEW y, NEW z, NEW a, NEW b, NEW c,
         Labelled(<<v, w, x, y>>, a, b, 4), Labelled(<<z>>, b, c, 1)
  PROVE  Labelled(<<v, w, x, y, z>>, a, c, 5)
<1> DEFINE s == <<v, w, x, y>>
           t == <<v, w, x, y, z>>
           S == {v, w, x, y, z}
<1>1. s \in Seq(S) /\ t \in Seq(S) /\ z \in S
  OBVIOUS
<1>2. Len(s) = 4 /\ Len(t) = 4 + 1 /\ t[4 + 1] = z
  OBVIOUS
<1>3. t[1] = s[1] /\ t[2] = s[2] /\ t[3] = s[3] /\ t[4] = s[4]
  OBVIOUS
<1>4. Labelled(s, a, b, 4)
  OBVIOUS
<1> HIDE DEF s, t, S
<1>5. \A i \in 1 .. 4 : t[i] = s[i]
  BY <1>3
<1>6. Labelled(t, a, c, 4 + 1)
  BY <1>1, <1>2, <1>4, <1>5, LabelledMore
<1> QED BY <1>6 DEF t

LEMMA LabelledSix ==
  ASSUME NEW u, NEW v, NEW w, NEW x, NEW y, NEW z, NEW a, NEW b, NEW c,
         Labelled(<<u, v, w, x, y>>, a, b, 5), Labelled(<<z>>, b, c, 1)
  PROVE  Labelled(<<u, v, w, x, y, z>>, a, c, 6)
<1> DEFINE s == <<u, v, w, x, y>>
           t == <<u, v, w, x, y, z>>
           S == {u, v, w, x, y, z}
<1>1. s \in Seq(S) /\ t \in Seq(S) /\ z \in S
  OBVIOUS
<1>2. Len(s) = 5 /\ Len(t) = 5 + 1 /\ t[5 + 1] = z
  OBVIOUS
<1>3. t[1] = s[1] /\ t[2] = s[2] /\ t[3] = s[3] /\ t[4] = s[4] /\ t[5] = s[5]
  OBVIOUS
<1>4. Labelled(s, a, b, 5)
  OBVIOUS
<1> HIDE DEF s, t, S
<1>5. \A i \in 1 .. 5 : t[i] = s[i]
  BY <1>3
<1>6. Labelled(t, a, c, 5 + 1)
  BY <1>1, <1>2, <1>4, <1>5, LabelledMore
<1> QED BY <1>6 DEF t

-----------------------------------------------------------------------------
(* The sections of the suite. *)

LEMMA LabelSets ==
  /\ Plain \subseteq Labels /\ Following \subseteq Plain /\ InNumbers \subseteq Plain
  /\ {"fresh", "tracked", "headed", "ready"} \subseteq Following
  /\ {"n2", "n3", "n4", "one", "gap1"} \subseteq InNumbers
  /\ {"m3", "m4", "m5", "m6", "m7", "over", "any"} \subseteq Labels /\ "any" \in Plain
  /\ Plain \subseteq Outside /\ "over" \in Outside /\ Outside \subseteq Labels
BY DEF Labels, Outside, Plain, Following, InNumbers, InMotion

LEMMA OpeningLabels == Labelled(Opening, "fresh", "fresh", 3)
<1> DEFINE x == Case("banner", Ask("HELLO", NoId, "hello"), 4, {<<"device", AnyNumber>>}, {})
           y == Case("alive", Query, 1, {<<"answer", AnyNumber>>}, {})
           z == Case("status", Query, 4, {<<"answer", AnyNumber>>}, {})
<1>1. x \in Greeting /\ y \in Remark /\ z \in Remark /\ Opening = <<x, y, z>>
  BY DEF Greeting, Remark, Opening
<1> HIDE DEF x, y, z
<1>2. Allowed("fresh", x, "fresh")
  BY <1>1 DEF Allowed
<1>3. Labelled(<<x>>, "fresh", "fresh", 1)
  BY <1>1, <1>2, LabelledOne, SomeCases, LabelSets
<1>4. Labelled(<<y>>, "fresh", "fresh", 1) /\ Labelled(<<z>>, "fresh", "fresh", 1)
  BY <1>1, OneRemark, LabelSets
<1>5. Labelled(<<x, y>>, "fresh", "fresh", 2)
  BY <1>3, <1>4, LabelledTwo
<1>6. Labelled(<<x, y, z>>, "fresh", "fresh", 3)
  BY <1>4, <1>5, LabelledThree
<1> QED BY <1>1, <1>6

LEMMA GoodLabels ==
  ASSUME NEW a \in Outside
  PROVE  Labelled(GoodCases, a, "any", 11)
<1> DEFINE good == [i \in 1 .. 5 |-> Answered(3)]
           x == Judge(Numbered(1, "stop"), {<<"ack", 1>>})
           y == Judge(Numbered(2, "stop"), {<<"ack", 2>>})
           z == Judge(Numbered(2, "stop"), {<<"ack", AnyNumber>>})
<1>1. GoodCases = Reset \o good \o <<Answered(4)>> \o Reset \o <<x, y, z>>
  BY DEF GoodCases
<1>2. Labelled(good, "fresh", "fresh", 5)
  <2>1. Answered(3) \in Remark /\ Answered(3) \in AllCases
    BY SomeCases DEF Remark
  <2>2. Allowed("fresh", Answered(3), "fresh")
    BY <2>1, LabelSets DEF Allowed
  <2>3. \A k \in Nat : Labelled([i \in 1 .. k |-> Answered(3)], "fresh", "fresh", k)
    BY <2>1, <2>2, LabelledRun, LabelSets
  <2> QED BY <2>3
<1>3. Labelled(<<Answered(4)>>, "fresh", "fresh", 1)
  <2>1. Answered(4) \in Remark
    BY DEF Remark
  <2> QED BY <2>1, OneRemark, LabelSets
<1>4. /\ Counting("fresh", x, "n2") /\ Counting("n2", y, "n3") /\ Counting("n3", z, "any")
  BY DEF Counting
<1> HIDE DEF good, x, y, z
<1>5. /\ Labelled(<<x>>, "fresh", "n2", 1) /\ Labelled(<<y>>, "n2", "n3", 1)
      /\ Labelled(<<z>>, "n3", "any", 1)
  BY <1>4, OneCount, LabelSets
<1>6. Labelled(<<x, y>>, "fresh", "n3", 2)
  BY <1>5, LabelledTwo
<1>7. Labelled(<<x, y, z>>, "fresh", "any", 3)
  BY <1>5, <1>6, LabelledThree
<1>8. Labelled(Reset, a, "fresh", 1) /\ Labelled(Reset, "fresh", "fresh", 1)
  BY OneReset, LabelSets
<1>9. Labelled(Reset \o good, a, "fresh", 1 + 5)
  BY <1>2, <1>8, LabelledJoin
<1>10. Labelled(Reset \o good \o <<Answered(4)>>, a, "fresh", 1 + 5 + 1)
  BY <1>3, <1>9, LabelledJoin
<1>11. Labelled(Reset \o good \o <<Answered(4)>> \o Reset, a, "fresh", 1 + 5 + 1 + 1)
  BY <1>8, <1>10, LabelledJoin
<1>12. Labelled(Reset \o good \o <<Answered(4)>> \o Reset \o <<x, y, z>>, a, "any", 1 + 5 + 1 + 1 + 3)
  BY <1>7, <1>11, LabelledJoin
<1>13. 1 + 5 + 1 + 1 + 3 = 11
  OBVIOUS
<1> QED BY <1>1, <1>12, <1>13

LEMMA MotionLabels ==
  ASSUME NEW a \in Outside
  PROVE  Labelled(Motion, a, "over", 7)
<1> DEFINE u == Header
           v == Sends(Query)
           w == Tracked("move")
           x == Turned
           y == Sends(Command("stop"))
           z == Sends(Command("quiet"))
<1>1. Motion = Reset \o <<u, v, w, x, y, z>>
  BY DEF Motion, Header, Turned
<1>2. /\ Driving("fresh", u, "m3") /\ Driving("m3", v, "m4") /\ Driving("m4", w, "m5")
      /\ Driving("m5", x, "m6") /\ Driving("m6", y, "m7") /\ Driving("m7", z, "over")
  BY DEF Driving
<1>3. /\ u \in AllCases /\ v \in AllCases /\ w \in AllCases
      /\ x \in AllCases /\ y \in AllCases /\ z \in AllCases
  BY DEF AllCases, Remark, Stepping
<1> HIDE DEF u, v, w, x, y, z
<1>4. /\ Labelled(<<u>>, "fresh", "m3", 1) /\ Labelled(<<v>>, "m3", "m4", 1)
      /\ Labelled(<<w>>, "m4", "m5", 1) /\ Labelled(<<x>>, "m5", "m6", 1)
      /\ Labelled(<<y>>, "m6", "m7", 1) /\ Labelled(<<z>>, "m7", "over", 1)
  BY <1>2, <1>3, OneDrive, LabelSets
<1>5. Labelled(<<u, v>>, "fresh", "m4", 2)
  BY <1>4, LabelledTwo
<1>6. Labelled(<<u, v, w>>, "fresh", "m5", 3)
  BY <1>4, <1>5, LabelledThree
<1>7. Labelled(<<u, v, w, x>>, "fresh", "m6", 4)
  BY <1>4, <1>6, LabelledFour
<1>8. Labelled(<<u, v, w, x, y>>, "fresh", "m7", 5)
  BY <1>4, <1>7, LabelledFive
<1>9. Labelled(<<u, v, w, x, y, z>>, "fresh", "over", 6)
  BY <1>4, <1>8, LabelledSix
<1>10. Labelled(Reset, a, "fresh", 1)
  BY OneReset
<1>11. Labelled(Reset \o <<u, v, w, x, y, z>>, a, "over", 1 + 6)
  BY <1>9, <1>10, LabelledJoin
<1> QED BY <1>1, <1>11

LEMMA BadLabels ==
  ASSUME NEW a \in Outside
  PROVE  Labelled(BadCases, a, "any", 28)
<1> DEFINE idless == Judge(Ask("COMMAND", NoId, "plain"), {<<"nack", AnyNumber>>})
           bad == [i \in 1 .. 6 |-> idless]
           absent == Case("absent", Ask("UNKNOWN", NoId, "plain"), 4, {<<"nack", AnyNumber>>}, {})
           n1 == Judge(Numbered(1, "unknown"), {<<"ack", 1>>, <<"err", 1>>})
           n2 == Judge(Numbered(2, "unknown"), {<<"ack", 2>>, <<"err", 1>>})
           n3 == Judge(Numbered(3, "write_only"), {<<"ack", 3>>, <<"err", 12>>})
           n4 == Judge(Numbered(4, "malformed"), {<<"nack", AnyNumber>>, <<"err", AnyNumber>>})
           cut == Judge(Numbered(1, "malformed"), {<<"nack", 1>>, <<"err", 2>>})
           zero == Judge(Numbered(0, "move"), {<<"nack", AnyNumber>>})
           query == Answered(4)
           last == Judge(Numbered(MaxSequenceId, "stop"), {<<"nack", AnyNumber>>, <<"err", 3>>})
           one == Judge(Numbered(1, "stop"), {<<"ack", 1>>})
           nine == Sends(Numbered(9, "stop"))
           estop == Case("judge", Ask("ESTOP", NoId, "estop"), 1, {<<"estop", AnyNumber>>}, {"nack"})
<1>1. BadCases = Reset \o bad \o <<absent>> \o Reset \o <<n1, n2, n3, n4>> \o Reset \o <<cut>>
                 \o Reset \o <<zero, query, query>> \o Reset \o <<last, one>>
                 \o Reset \o <<nine, Reminded, estop>> \o Reset \o <<Silent>>
  BY DEF BadCases, Reminded, Silent
<1>2. Labelled(bad, "fresh", "fresh", 6)
  <2>1. idless \in Remark /\ idless \in AllCases
    BY SomeCases DEF Remark
  <2> HIDE DEF idless
  <2>2. Allowed("fresh", idless, "fresh")
    BY <2>1, LabelSets DEF Allowed
  <2>3. \A k \in Nat : Labelled([i \in 1 .. k |-> idless], "fresh", "fresh", k)
    BY <2>1, <2>2, LabelledRun, LabelSets
  <2> QED BY <2>3
<1>3. /\ Labelled(<<absent>>, "fresh", "fresh", 1) /\ Labelled(<<query>>, "fresh", "fresh", 1)
      /\ Labelled(<<zero>>, "fresh", "fresh", 1) /\ Labelled(<<estop>>, "gap1", "gap1", 1)
  <2>1. absent \in Remark /\ query \in Remark /\ zero \in Remark /\ estop \in Remark
    BY DEF Remark
  <2> HIDE DEF absent, query, zero, estop
  <2> QED BY <2>1, OneRemark, LabelSets
<1>4. /\ Counting("fresh", n1, "n2") /\ Counting("n2", n2, "n3") /\ Counting("n3", n3, "n4")
      /\ Counting("n4", n4, "any") /\ Counting("fresh", cut, "any") /\ Counting("fresh", last, "one")
      /\ Counting("one", one, "n2") /\ Counting("fresh", nine, "gap1")
  BY DEF Counting
<1> HIDE DEF bad, absent, n1, n2, n3, n4, cut, zero, query, last, one, nine, estop
<1>5. /\ Labelled(<<n1>>, "fresh", "n2", 1) /\ Labelled(<<n2>>, "n2", "n3", 1)
      /\ Labelled(<<n3>>, "n3", "n4", 1) /\ Labelled(<<n4>>, "n4", "any", 1)
  BY <1>4, OneCount, LabelSets
<1>6. /\ Labelled(<<cut>>, "fresh", "any", 1) /\ Labelled(<<last>>, "fresh", "one", 1)
      /\ Labelled(<<one>>, "one", "n2", 1) /\ Labelled(<<nine>>, "fresh", "gap1", 1)
  BY <1>4, OneCount, LabelSets
<1>7. Labelled(<<Silent>>, "fresh", "any", 1) /\ Labelled(<<Reminded>>, "gap1", "gap1", 1)
  <2>1. Allowed("fresh", Silent, "any") /\ Allowed("gap1", Reminded, "gap1")
    BY DEF Allowed
  <2> QED BY <2>1, LabelledOne, SomeCases, LabelSets
<1>8. /\ Labelled(Reset, a, "fresh", 1) /\ Labelled(Reset, "fresh", "fresh", 1)
      /\ Labelled(Reset, "any", "fresh", 1) /\ Labelled(Reset, "n2", "fresh", 1)
      /\ Labelled(Reset, "gap1", "fresh", 1)
  BY OneReset, LabelSets
<1>9. Labelled(<<n1, n2>>, "fresh", "n3", 2)
  BY <1>5, LabelledTwo
<1>10. Labelled(<<n1, n2, n3>>, "fresh", "n4", 3)
  BY <1>5, <1>9, LabelledThree
<1>11. Labelled(<<zero, query>>, "fresh", "fresh", 2) /\ Labelled(<<nine, Reminded>>, "fresh", "gap1", 2)
  BY <1>3, <1>6, <1>7, LabelledTwo
<1>12. Labelled(<<n1, n2, n3, n4>>, "fresh", "any", 4)
  BY <1>5, <1>10, LabelledFour
<1>13. Labelled(<<zero, query, query>>, "fresh", "fresh", 3)
  BY <1>3, <1>11, LabelledThree
<1>14. Labelled(<<last, one>>, "fresh", "n2", 2)
  BY <1>6, LabelledTwo
<1>15. Labelled(<<nine, Reminded, estop>>, "fresh", "gap1", 3)
  BY <1>3, <1>11, LabelledThree
<1>20. Labelled(Reset \o bad, a, "fresh", 1 + 6)
  BY <1>2, <1>8, LabelledJoin
<1>21. Labelled(Reset \o bad \o <<absent>>, a, "fresh", 1 + 6 + 1)
  BY <1>3, <1>20, LabelledJoin
<1>22. Labelled(Reset \o bad \o <<absent>> \o Reset, a, "fresh", 1 + 6 + 1 + 1)
  BY <1>8, <1>21, LabelledJoin
<1>23. Labelled(Reset \o bad \o <<absent>> \o Reset \o <<n1, n2, n3, n4>>, a, "any", 1 + 6 + 1 + 1 + 4)
  BY <1>12, <1>22, LabelledJoin
<1>24. Labelled(Reset \o bad \o <<absent>> \o Reset \o <<n1, n2, n3, n4>> \o Reset, a, "fresh", 1 + 6 + 1 + 1 + 4 + 1)
  BY <1>8, <1>23, LabelledJoin
<1>25. Labelled(Reset \o bad \o <<absent>> \o Reset \o <<n1, n2, n3, n4>> \o Reset \o <<cut>>, a, "any", 1 + 6 + 1 + 1 + 4 + 1 + 1)
  BY <1>6, <1>24, LabelledJoin
<1>26. Labelled(Reset \o bad \o <<absent>> \o Reset \o <<n1, n2, n3, n4>> \o Reset \o <<cut>> \o Reset, a, "fresh", 1 + 6 + 1 + 1 + 4 + 1 + 1 + 1)
  BY <1>8, <1>25, LabelledJoin
<1>27. Labelled(Reset \o bad \o <<absent>> \o Reset \o <<n1, n2, n3, n4>> \o Reset \o <<cut>> \o Reset \o <<zero, query, query>>, a, "fresh", 1 + 6 + 1 + 1 + 4 + 1 + 1 + 1 + 3)
  BY <1>13, <1>26, LabelledJoin
<1>28. Labelled(Reset \o bad \o <<absent>> \o Reset \o <<n1, n2, n3, n4>> \o Reset \o <<cut>> \o Reset \o <<zero, query, query>> \o Reset, a, "fresh", 1 + 6 + 1 + 1 + 4 + 1 + 1 + 1 + 3 + 1)
  BY <1>8, <1>27, LabelledJoin
<1>29. Labelled(Reset \o bad \o <<absent>> \o Reset \o <<n1, n2, n3, n4>> \o Reset \o <<cut>> \o Reset \o <<zero, query, query>> \o Reset \o <<last, one>>, a, "n2", 1 + 6 + 1 + 1 + 4 + 1 + 1 + 1 + 3 + 1 + 2)
  BY <1>14, <1>28, LabelledJoin
<1>30. Labelled(Reset \o bad \o <<absent>> \o Reset \o <<n1, n2, n3, n4>> \o Reset \o <<cut>> \o Reset \o <<zero, query, query>> \o Reset \o <<last, one>> \o Reset, a, "fresh", 1 + 6 + 1 + 1 + 4 + 1 + 1 + 1 + 3 + 1 + 2 + 1)
  BY <1>8, <1>29, LabelledJoin
<1>31. Labelled(Reset \o bad \o <<absent>> \o Reset \o <<n1, n2, n3, n4>> \o Reset \o <<cut>> \o Reset \o <<zero, query, query>> \o Reset \o <<last, one>> \o Reset \o <<nine, Reminded, estop>>, a, "gap1", 1 + 6 + 1 + 1 + 4 + 1 + 1 + 1 + 3 + 1 + 2 + 1 + 3)
  BY <1>15, <1>30, LabelledJoin
<1>32. Labelled(Reset \o bad \o <<absent>> \o Reset \o <<n1, n2, n3, n4>> \o Reset \o <<cut>> \o Reset \o <<zero, query, query>> \o Reset \o <<last, one>> \o Reset \o <<nine, Reminded, estop>> \o Reset, a, "fresh", 1 + 6 + 1 + 1 + 4 + 1 + 1 + 1 + 3 + 1 + 2 + 1 + 3 + 1)
  BY <1>8, <1>31, LabelledJoin
<1>33. Labelled(Reset \o bad \o <<absent>> \o Reset \o <<n1, n2, n3, n4>> \o Reset \o <<cut>> \o Reset \o <<zero, query, query>> \o Reset \o <<last, one>> \o Reset \o <<nine, Reminded, estop>> \o Reset \o <<Silent>>, a, "any", 1 + 6 + 1 + 1 + 4 + 1 + 1 + 1 + 3 + 1 + 2 + 1 + 3 + 1 + 1)
  BY <1>7, <1>32, LabelledJoin
<1>34. 1 + 6 + 1 + 1 + 4 + 1 + 1 + 1 + 3 + 1 + 2 + 1 + 3 + 1 + 1 = 28
  OBVIOUS
<1> QED BY <1>1, <1>33, <1>34

LEMMA MotionCaseLabels ==
  ASSUME NEW a \in Following, NEW tag \in {"move", "goto"}, NEW moves
  PROVE  \E n \in 4 .. 5 : Labelled(MotionCase(tag, moves), a, "tracked", n)
<1> DEFINE x == Sends(Command("telemetry"))
           y == Case("motion", Command(tag), 1, {<<"ack", NextId>>}, {})
           v == Tracked("stop")
           z == Sends(Command("quiet"))
<1>1. /\ MotionCase(tag, TRUE) = <<x, y>> \o <<Turned>> \o <<v, z>>
      /\ MotionCase(tag, FALSE) = <<x, y>> \o <<>> \o <<v, z>>
  BY DEF MotionCase, Turned
<1>2. MotionCase(tag, moves) = MotionCase(tag, IF moves THEN TRUE ELSE FALSE)
  BY DEF MotionCase
<1>3. Driving(a, x, "headed") /\ Driving("headed", y, "ready") /\ Driving("ready", Turned, "tracked")
  BY DEF Driving, Moving
<1>4. x \in AllCases /\ y \in AllCases /\ v \in Stepping /\ z \in Stepping
  BY DEF AllCases, Moving, Stepping
<1> HIDE DEF x, y, v, z
<1>5. /\ Labelled(<<x>>, a, "headed", 1) /\ Labelled(<<y>>, "headed", "ready", 1)
      /\ Labelled(<<Turned>>, "ready", "tracked", 1)
  BY <1>3, <1>4, OneDrive, LabelSets, SomeCases
<1>6. /\ Labelled(<<v>>, "tracked", "tracked", 1) /\ Labelled(<<z>>, "tracked", "tracked", 1)
      /\ Labelled(<<v>>, "ready", "tracked", 1)
  BY <1>4, OneStep, LabelSets
<1>7. /\ Labelled(<<x, y>>, a, "ready", 2) /\ Labelled(<<v, z>>, "tracked", "tracked", 2)
      /\ Labelled(<<v, z>>, "ready", "tracked", 2)
  BY <1>5, <1>6, LabelledTwo
<1>8. Labelled(<<x, y>> \o <<Turned>>, a, "tracked", 2 + 1)
  BY <1>5, <1>7, LabelledJoin
<1>9. Labelled(<<x, y>> \o <<Turned>> \o <<v, z>>, a, "tracked", 2 + 1 + 2)
  BY <1>7, <1>8, LabelledJoin
<1>10. Labelled(<<>>, "ready", "ready", 0)
  BY LabelledEmpty, LabelSets
<1>11. Labelled(<<x, y>> \o <<>>, a, "ready", 2 + 0)
  BY <1>7, <1>10, LabelledJoin
<1>12. Labelled(<<x, y>> \o <<>> \o <<v, z>>, a, "tracked", 2 + 0 + 2)
  BY <1>7, <1>11, LabelledJoin
<1>13. 2 + 1 + 2 = 5 /\ 2 + 0 + 2 = 4
  OBVIOUS
<1>14. CASE moves
  <2>1. MotionCase(tag, moves) = MotionCase(tag, TRUE)
    BY <1>2, <1>14
  <2>2. Labelled(MotionCase(tag, moves), a, "tracked", 5)
    BY <1>1, <1>9, <1>13, <2>1
  <2> QED BY <2>2
<1>15. CASE ~moves
  <2>1. MotionCase(tag, moves) = MotionCase(tag, FALSE)
    BY <1>2, <1>15
  <2>2. Labelled(MotionCase(tag, moves), a, "tracked", 4)
    BY <1>1, <1>12, <1>13, <2>1
  <2> QED BY <2>2
<1> QED BY <1>14, <1>15

LEMMA AllVerbsLabels ==
  ASSUME NEW a \in Outside, NEW motion, NEW estop
  PROVE  \E n \in 0 .. 60 : Labelled(AllVerbs(motion, estop), a, "tracked", n)
<1> DEFINE hello == Judge(Ask("HELLO", NoId, "hello"), {<<"device", AnyNumber>>})
           asked == [i \in 1 .. 4 |-> Answered(3)]
           v == Strict(Command("funcs"), {<<"ack", NextId>>})
           w == Tracked("get")
           x == Case("value", Command("get"), 1, {<<"ack", NextId>>}, {})
           y == Case("if_value", Command("set"), 1, {<<"ack", NextId>>}, {"err"})
           z == Case("if_value", Command("get"), 1, {<<"ack", NextId>>}, {})
           tel == Tracked("telemetry")
           cleaned == Clean("mode")
           full == Clean("buffer")
           clean == <<cleaned, full, cleaned>>
           quiet == Case("judge", Command("quiet"), 1, {<<"ack", AnyNumber>>}, {})
           move == MotionCase("move", motion)
           goto == MotionCase("goto", motion)
           stop == Strict(Command("stop"), {<<"ack", NextId>>})
           name == Judge(Command("unknown"), {<<"ack", NextId>>, <<"err", 1>>})
           run == Case("cleartext", Ask("COMMAND", NoId, "run"), 3, {<<"GAP:", AnyNumber>>}, {})
           halt == <<Judge(Ask("ESTOP", NoId, "estop"), {<<"estop", AnyNumber>>})>>
           begin == Reset \o <<hello>> \o asked \o <<Answered(1), Answered(3)>> \o <<v, w, x, y, z>>
                    \o <<tel, tel>> \o clean \o <<quiet, cleaned>>
<1>1. AllVerbs(motion, estop) = begin \o move \o move \o move \o move \o move \o goto
                                \o <<stop, name, run>> \o (IF estop THEN halt ELSE <<>>)
  BY DEF AllVerbs
<1>2. /\ hello \in Greeting /\ Answered(1) \in Remark /\ Answered(3) \in Remark /\ run \in Remark
      /\ v \in Stepping /\ w \in Stepping /\ x \in Stepping /\ y \in Stepping /\ z \in Stepping
      /\ tel \in Stepping /\ cleaned \in Stepping /\ full \in Stepping /\ quiet \in Stepping /\ stop \in Stepping
      /\ name \in Stepping /\ Judge(Ask("ESTOP", NoId, "estop"), {<<"estop", AnyNumber>>}) \in Remark
  BY DEF Greeting, Remark, Stepping
<1>3. Labelled(<<hello>>, "fresh", "fresh", 1)
  <2> HIDE DEF hello
  <2>1. Allowed("fresh", hello, "fresh")
    BY <1>2 DEF Allowed
  <2> QED BY <1>2, <2>1, LabelledOne, SomeCases, LabelSets
<1>4. Labelled(asked, "fresh", "fresh", 4)
  <2>1. Allowed("fresh", Answered(3), "fresh")
    BY <1>2, LabelSets DEF Allowed
  <2>2. \A k \in Nat : Labelled([i \in 1 .. k |-> Answered(3)], "fresh", "fresh", k)
    BY <1>2, <2>1, LabelledRun, LabelSets, SomeCases
  <2> QED BY <2>2
<1>5. Labelled(<<Answered(1), Answered(3)>>, "fresh", "fresh", 2)
  <2>1. Labelled(<<Answered(1)>>, "fresh", "fresh", 1) /\ Labelled(<<Answered(3)>>, "fresh", "fresh", 1)
    BY <1>2, OneRemark, LabelSets
  <2> QED BY <2>1, LabelledTwo
<1>6. Labelled(clean, "tracked", "tracked", 3)
  <2> HIDE DEF cleaned, full
  <2>1. Labelled(<<cleaned>>, "tracked", "tracked", 1) /\ Labelled(<<full>>, "tracked", "tracked", 1)
    BY <1>2, OneStep, LabelSets
  <2>2. Labelled(<<cleaned, full>>, "tracked", "tracked", 2)
    BY <2>1, LabelledTwo
  <2> QED BY <2>1, <2>2, LabelledThree
<1>7. Labelled(IF estop THEN halt ELSE <<>>, "tracked", "tracked", IF estop THEN 1 ELSE 0)
  <2>1. Labelled(halt, "tracked", "tracked", 1)
    BY <1>2, OneRemark, LabelSets
  <2>2. Labelled(<<>>, "tracked", "tracked", 0)
    BY LabelledEmpty, LabelSets
  <2> QED BY <2>1, <2>2
<1>8. \E n \in 4 .. 5 : Labelled(move, "tracked", "tracked", n)
  BY MotionCaseLabels, LabelSets
<1>9. \E n \in 4 .. 5 : Labelled(goto, "tracked", "tracked", n)
  BY MotionCaseLabels, LabelSets
<1> HIDE DEF hello, asked, v, w, x, y, z, tel, clean, cleaned, full, quiet, move, goto, stop, name, run, halt
<1>10. Labelled(<<v, w, x, y, z>>, "fresh", "tracked", 5)
  <2>1. /\ Labelled(<<v>>, "fresh", "tracked", 1) /\ Labelled(<<w>>, "tracked", "tracked", 1)
        /\ Labelled(<<x>>, "tracked", "tracked", 1) /\ Labelled(<<y>>, "tracked", "tracked", 1)
        /\ Labelled(<<z>>, "tracked", "tracked", 1)
    BY <1>2, OneStep, LabelSets
  <2>2. Labelled(<<v, w>>, "fresh", "tracked", 2)
    BY <2>1, LabelledTwo
  <2>3. Labelled(<<v, w, x>>, "fresh", "tracked", 3)
    BY <2>1, <2>2, LabelledThree
  <2>4. Labelled(<<v, w, x, y>>, "fresh", "tracked", 4)
    BY <2>1, <2>3, LabelledFour
  <2> QED BY <2>1, <2>4, LabelledFive
<1>11. Labelled(<<tel, tel>>, "tracked", "tracked", 2) /\ Labelled(<<quiet, cleaned>>, "tracked", "tracked", 2)
  <2>1. /\ Labelled(<<tel>>, "tracked", "tracked", 1) /\ Labelled(<<quiet>>, "tracked", "tracked", 1)
        /\ Labelled(<<cleaned>>, "tracked", "tracked", 1)
    BY <1>2, OneStep, LabelSets
  <2> QED BY <2>1, LabelledTwo
<1>12. Labelled(clean, "tracked", "tracked", 3)
  BY <1>6
<1>13. Labelled(<<stop, name, run>>, "tracked", "tracked", 3)
  <2>1. /\ Labelled(<<stop>>, "tracked", "tracked", 1) /\ Labelled(<<name>>, "tracked", "tracked", 1)
        /\ Labelled(<<run>>, "tracked", "tracked", 1)
    BY <1>2, OneStep, OneRemark, LabelSets
  <2>2. Labelled(<<stop, name>>, "tracked", "tracked", 2)
    BY <2>1, LabelledTwo
  <2> QED BY <2>1, <2>2, LabelledThree
<1>14. PICK p \in 4 .. 5, q \in 4 .. 5 :
         Labelled(move, "tracked", "tracked", p) /\ Labelled(goto, "tracked", "tracked", q)
  BY <1>8, <1>9
<1>15. Labelled(Reset, a, "fresh", 1)
  BY OneReset
<1>20. Labelled(Reset \o <<hello>>, a, "fresh", 1 + 1)
  BY <1>3, OneReset, LabelledJoin
<1>21. Labelled(Reset \o <<hello>> \o asked, a, "fresh", 1 + 1 + 4)
  BY <1>4, <1>20, LabelledJoin
<1>22. Labelled(Reset \o <<hello>> \o asked \o <<Answered(1), Answered(3)>>, a, "fresh", 1 + 1 + 4 + 2)
  BY <1>5, <1>21, LabelledJoin
<1>23. Labelled(Reset \o <<hello>> \o asked \o <<Answered(1), Answered(3)>> \o <<v, w, x, y, z>>, a, "tracked", 1 + 1 + 4 + 2 + 5)
  BY <1>10, <1>22, LabelledJoin
<1>24. Labelled(Reset \o <<hello>> \o asked \o <<Answered(1), Answered(3)>> \o <<v, w, x, y, z>> \o <<tel, tel>>, a, "tracked", 1 + 1 + 4 + 2 + 5 + 2)
  BY <1>11, <1>23, LabelledJoin
<1>25. Labelled(Reset \o <<hello>> \o asked \o <<Answered(1), Answered(3)>> \o <<v, w, x, y, z>> \o <<tel, tel>> \o clean, a, "tracked", 1 + 1 + 4 + 2 + 5 + 2 + 3)
  BY <1>12, <1>24, LabelledJoin
<1>26. Labelled(Reset \o <<hello>> \o asked \o <<Answered(1), Answered(3)>> \o <<v, w, x, y, z>> \o <<tel, tel>> \o clean \o <<quiet, cleaned>>, a, "tracked", 1 + 1 + 4 + 2 + 5 + 2 + 3 + 2)
  BY <1>11, <1>25, LabelledJoin
<1>27. 1 + 1 + 4 + 2 + 5 + 2 + 3 + 2 = 20
  OBVIOUS
<1>30. Labelled(begin, a, "tracked", 20)
  BY <1>26, <1>27
<1> HIDE DEF begin
<1>31. Labelled(begin \o move, a, "tracked", 20 + p)
  BY <1>14, <1>30, LabelledJoin
<1>32. Labelled(begin \o move \o move, a, "tracked", 20 + p + p)
  BY <1>14, <1>31, LabelledJoin
<1>33. Labelled(begin \o move \o move \o move, a, "tracked", 20 + p + p + p)
  BY <1>14, <1>32, LabelledJoin
<1>34. Labelled(begin \o move \o move \o move \o move, a, "tracked", 20 + p + p + p + p)
  BY <1>14, <1>33, LabelledJoin
<1>35. Labelled(begin \o move \o move \o move \o move \o move, a, "tracked", 20 + p + p + p + p + p)
  BY <1>14, <1>34, LabelledJoin
<1>36. Labelled(begin \o move \o move \o move \o move \o move \o goto, a, "tracked", 20 + p + p + p + p + p + q)
  BY <1>14, <1>35, LabelledJoin
<1>37. Labelled(begin \o move \o move \o move \o move \o move \o goto \o <<stop, name, run>>, a, "tracked", 20 + p + p + p + p + p + q + 3)
  BY <1>13, <1>36, LabelledJoin
<1>38. Labelled(begin \o move \o move \o move \o move \o move \o goto \o <<stop, name, run>> \o (IF estop THEN halt ELSE <<>>), a, "tracked", 20 + p + p + p + p + p + q + 3 + (IF estop THEN 1 ELSE 0))
  BY <1>7, <1>37, LabelledJoin
<1>39. 20 + p + p + p + p + p + q + 3 + (IF estop THEN 1 ELSE 0) \in 0 .. 60
  OBVIOUS
<1> DEFINE total == 20 + p + p + p + p + p + q + 3 + (IF estop THEN 1 ELSE 0)
<1>40. total \in 0 .. 60 /\ Labelled(AllVerbs(motion, estop), a, "tracked", total)
  BY <1>1, <1>38, <1>39
<1> HIDE DEF total
<1> QED BY <1>40

LEMMA SuiteLabels ==
  ASSUME NEW mode
  PROVE  \E b \in Labels : \E n \in 0 .. 200 : Labelled(Suite(mode), "fresh", b, n)
<1> DEFINE driven == IF "motion" \in mode THEN Motion ELSE <<>>
           classic == IF "classic" \in mode THEN GoodCases \o driven \o BadCases ELSE <<>>
           verbs == IF "all verbs" \in mode THEN AllVerbs("motion" \in mode, "estop" \in mode) ELSE <<>>
<1>1. Suite(mode) = Opening \o classic \o verbs
  BY DEF Suite
<1>2. \E b \in Outside : \E n \in 0 .. 7 : Labelled(driven, "any", b, n)
  <2>1. Labelled(Motion, "any", "over", 7) /\ Labelled(<<>>, "any", "any", 0)
    BY MotionLabels, LabelledEmpty, LabelSets
  <2>2. CASE "motion" \in mode
    BY <2>1, <2>2, LabelSets
  <2>3. CASE "motion" \notin mode
    BY <2>1, <2>3, LabelSets
  <2> QED BY <2>2, <2>3
<1>3. PICK d \in Outside, k \in 0 .. 7 : Labelled(driven, "any", d, k)
  BY <1>2
<1>4. \E b \in Outside : \E n \in 0 .. 60 : Labelled(classic, "fresh", b, n)
  <2>1. Labelled(GoodCases, "fresh", "any", 11) /\ Labelled(BadCases, d, "any", 28)
    BY GoodLabels, BadLabels, LabelSets
  <2> HIDE DEF driven
  <2>2. Labelled(GoodCases \o driven, "fresh", d, 11 + k)
    BY <1>3, <2>1, LabelledJoin
  <2>3. Labelled(GoodCases \o driven \o BadCases, "fresh", "any", 11 + k + 28)
    BY <2>1, <2>2, LabelledJoin
  <2>4. 11 + k + 28 \in 0 .. 60
    OBVIOUS
  <2>5. CASE "classic" \in mode
    <3>1. Labelled(classic, "fresh", "any", 11 + k + 28)
      BY <2>3, <2>5
    <3> QED BY <2>4, <3>1, LabelSets
  <2>6. CASE "classic" \notin mode
    <3>1. Labelled(classic, "fresh", "fresh", 0)
      BY <2>6, LabelledEmpty, LabelSets
    <3> QED BY <3>1, LabelSets
  <2> QED BY <2>5, <2>6
<1> HIDE DEF driven, classic
<1>5. PICK b \in Outside, n \in 0 .. 60 : Labelled(classic, "fresh", b, n)
  BY <1>4
<1>6. \E e \in Labels : \E m \in 0 .. 60 : Labelled(verbs, b, e, m)
  <2>1. CASE "all verbs" \in mode
    <3>1. \E m \in 0 .. 60 : Labelled(AllVerbs("motion" \in mode, "estop" \in mode), b, "tracked", m)
      BY AllVerbsLabels
    <3> QED BY <2>1, <3>1, LabelSets
  <2>2. CASE "all verbs" \notin mode
    <3>1. Labelled(verbs, b, b, 0)
      BY <2>2, LabelledEmpty, LabelSets
    <3> HIDE DEF verbs
    <3>2. 0 \in 0 .. 60
      OBVIOUS
    <3> QED BY <3>1, <3>2, LabelSets
  <2> QED BY <2>1, <2>2
<1> HIDE DEF verbs
<1>7. PICK e \in Labels, m \in 0 .. 60 : Labelled(verbs, b, e, m)
  BY <1>6
<1>8. Labelled(Opening \o classic, "fresh", b, 3 + n)
  BY <1>5, OpeningLabels, LabelledJoin
<1>9. Labelled(Opening \o classic \o verbs, "fresh", e, 3 + n + m)
  BY <1>7, <1>8, LabelledJoin
<1>10. 3 + n + m \in 0 .. 200
  OBVIOUS
<1> QED BY <1>1, <1>9, <1>10

-----------------------------------------------------------------------------
(* What the handler answers. *)

Numbers == /\ expectedNext_ \in Nat /\ expectedNext_ >= 1 /\ expectedNext_ < MaxSequenceId
           /\ gapOutstanding_ \in BOOLEAN

\* A reply tells where the stream stands after the line.
Tells(r, n) == /\ r.kind = "ack" => r.n = n - 1
               /\ r.kind = "nack" => r.n = n

ShortReplies ==
    \/ replies' = <<>>
    \/ \E r : replies' = <<r>> /\ Tells(r, expectedNext_')
    \/ \E r, q : replies' = <<r, q>> /\ Tells(r, expectedNext_') /\ Tells(q, expectedNext_')

\* A query's answer with and without the reminder behind it.
LEMMA Concatenations ==
  ASSUME NEW a, NEW b
  PROVE  <<a>> \o <<>> = <<a>> /\ <<a>> \o <<b>> = <<a, b>>
<1>1. <<a>> \in Seq({a, b}) /\ <<b>> \in Seq({a, b}) /\ <<>> \in Seq({a, b})
  OBVIOUS
<1>2. <<a>> \o <<>> = <<a>> BY <1>1, ConcatEmptySeq
<1>3. <<a>> \o <<b>> \in Seq({a, b}) /\ <<a, b>> \in Seq({a, b}) BY <1>1
<1>4. /\ Len(<<a>> \o <<b>>) = Len(<<a, b>>)
      /\ \A i \in 1 .. Len(<<a>> \o <<b>>) : (<<a>> \o <<b>>)[i] = <<a, b>>[i]
  BY <1>1
<1>5. <<a>> \o <<b>> = <<a, b>> BY <1>3, <1>4, SeqEqual
<1> QED BY <1>2, <1>5

LEMMA Kinds ==
  /\ \A n : Ack(n).kind = "ack" /\ Ack(n).n = n
  /\ \A n : Nack(n).kind = "nack" /\ Nack(n).n = n
  /\ \A n, id : Err(n, id).kind = "err" /\ Err(n, id).n = n
  /\ \A w : Word(w).kind = w /\ Word(w).n = 0
BY DEF Ack, Nack, Err, Word

\* Every other line leaves the stream where it is, or moves it by one.
LEMMA AnswersAreTrue ==
  ASSUME Numbers, NEW line, line.id \in Ids \cup {NoId}, Receive(line)
  PROVE  /\ ShortReplies
         /\ expectedNext_' \in Nat /\ expectedNext_' >= 1 /\ gapOutstanding_' \in BOOLEAN
         /\ line.verb # "HELLO" => expectedNext_' \in {expectedNext_, expectedNext_ + 1}
         /\ line.verb = "HELLO" => expectedNext_' = 1 /\ gapOutstanding_' = FALSE
                                   /\ replies' = <<Word("device")>>
<1>1. MaxSequenceId \in Nat /\ expectedNext_ \in Nat /\ expectedNext_ >= 1 /\ gapOutstanding_ \in BOOLEAN
  BY MaxSequenceIdAssumption DEF Numbers
<1> DEFINE Conclusion ==
       /\ ShortReplies
       /\ expectedNext_' \in Nat /\ expectedNext_' >= 1 /\ gapOutstanding_' \in BOOLEAN
       /\ line.verb # "HELLO" => expectedNext_' \in {expectedNext_, expectedNext_ + 1}
       /\ line.verb = "HELLO" => expectedNext_' = 1 /\ gapOutstanding_' = FALSE
                                 /\ replies' = <<Word("device")>>
<1>2. \A code, id : Tells(Err(code, id), expectedNext_')
  BY Kinds DEF Tells
<1>3. \A w \in {"answer", "device", "estop"} : Tells(Word(w), expectedNext_')
  BY Kinds DEF Tells
<1>4. \A n : Tells(Nack(n), n) /\ Tells(Ack(n - 1), n)
  BY Kinds DEF Tells
<1>5. CASE ReceiveNoise(line)
  BY <1>1, <1>5 DEF ReceiveNoise, Noise, seqVars, ShortReplies
<1>6. CASE handleEstop(line)
  BY <1>1, <1>3, <1>6 DEF handleEstop, seqVars, ShortReplies
<1>7. CASE ReceiveQuery(line)
  <2>1. line.verb # "HELLO" /\ expectedNext_' = expectedNext_ /\ gapOutstanding_' = gapOutstanding_
    BY <1>7 DEF ReceiveQuery, seqVars
  <2>2. replies' = <<Word("answer")>> \/ replies' = <<Word("answer"), Nack(expectedNext_)>>
    BY <1>7, Concatenations DEF ReceiveQuery, emitReminderIfStalled
  <2>3. ShortReplies
    BY <1>3, <1>4, <2>1, <2>2 DEF ShortReplies
  <2> QED BY <1>1, <2>1, <2>3
<1>8. CASE handleHello(line)
  <2>1. replies' = <<Word("device")>> /\ expectedNext_' = 1 /\ gapOutstanding_' = FALSE
    BY <1>8 DEF handleHello
  <2>2. ShortReplies
    <3>1. Tells(Word("device"), expectedNext_')
      BY <1>3
    <3>2. \E r : replies' = <<r>> /\ Tells(r, expectedNext_')
      BY <2>1, <3>1
    <3> QED BY <3>2 DEF ShortReplies
  <2>3. line.verb = "HELLO"
    BY <1>8 DEF handleHello
  <2>4. gapOutstanding_' \in BOOLEAN
    BY <2>1, Zenon
  <2>5. expectedNext_' \in Nat /\ expectedNext_' >= 1
    BY <2>1
  <2> QED BY <2>1, <2>2, <2>3, <2>4, <2>5, Zenon
<1>9. CASE HelloWrongArity(line)
  BY <1>1, <1>9 DEF HelloWrongArity, seqVars, ShortReplies
<1>10. CASE MissingId(line)
  <2>1. line.verb # "HELLO" /\ expectedNext_' = expectedNext_ /\ gapOutstanding_' = gapOutstanding_
    BY <1>10 DEF MissingId, seqVars, Sequenced
  <2>2. ShortReplies
    BY <1>4, <1>10, <2>1 DEF MissingId, ShortReplies
  <2> QED BY <1>1, <2>1, <2>2
<1>11. CASE IdZero(line)
  <2>1. line.verb # "HELLO" /\ expectedNext_' = expectedNext_ /\ gapOutstanding_' = gapOutstanding_
    BY <1>11 DEF IdZero, seqVars, Sequenced
  <2>2. ShortReplies
    BY <1>4, <1>11, <2>1 DEF IdZero, ShortReplies
  <2> QED BY <1>1, <2>1, <2>2
<1>12. ASSUME NEW id, NEW code, handleDecodeFailure(id, code), line.verb \in Sequenced
       PROVE  Conclusion
  <2>1. line.verb # "HELLO" /\ expectedNext_' = expectedNext_ /\ gapOutstanding_' = TRUE
    BY <1>12 DEF handleDecodeFailure, Sequenced
  <2>2. ShortReplies
    BY <1>2, <1>4, <1>12, <2>1 DEF handleDecodeFailure, ShortReplies
  <2> QED BY <1>1, <2>1, <2>2
<1>13. CASE ReservedId(line)
  BY <1>12, <1>13 DEF ReservedId
<1>14. CASE StaleRetransmit(line)
  <2>1. line.verb # "HELLO" /\ expectedNext_' = expectedNext_ /\ gapOutstanding_' = gapOutstanding_
    BY <1>14 DEF StaleRetransmit, seqVars, Executable, Sequenced
  <2>2. ShortReplies
    BY <1>4, <1>14, <2>1 DEF StaleRetransmit, ShortReplies
  <2> QED BY <1>1, <2>1, <2>2
<1>15. CASE NumericGap(line)
  <2>1. line.verb # "HELLO" /\ expectedNext_' = expectedNext_ /\ gapOutstanding_' = TRUE
    BY <1>15 DEF NumericGap, Executable, Sequenced
  <2>2. ShortReplies
    BY <1>4, <1>15, <2>1 DEF NumericGap, ShortReplies
  <2> QED BY <1>1, <2>1, <2>2
<1>16. CASE DecodeFailure(line)
  BY <1>12, <1>16 DEF DecodeFailure, Executable
<1>17. CASE Accept(line)
  <2>1. line.verb # "HELLO" /\ expectedNext_' = expectedNext_ + 1 /\ gapOutstanding_' = FALSE
        /\ line.id = expectedNext_' - 1
    BY <1>1, <1>17 DEF Accept, Executable, Sequenced, Successor, sequenceIdIsExecutable
  <2>2. Tells(Ack(line.id), expectedNext_')
    BY <1>4, <2>1
  <2>3. ShortReplies
    BY <1>2, <1>17, <2>2 DEF Accept, ShortReplies
  <2>4. expectedNext_ + 1 \in Nat /\ expectedNext_ + 1 >= 1
    BY <1>1
  <2> QED BY <2>1, <2>3, <2>4
<1> QED BY <1>5, <1>6, <1>7, <1>8, <1>9, <1>10, <1>11, <1>13, <1>14, <1>15, <1>16, <1>17 DEF Receive

-----------------------------------------------------------------------------
(* What the suite hears of it. *)

Got(rs, heard) ==
    [i \in 1 .. Cardinality(heard) |->
        rs[CHOOSE j \in heard : Cardinality({k \in heard : k < j}) = i - 1]]

LEMMA SmallSets ==
  /\ Cardinality({}) = 0
  /\ \A x : Cardinality({x}) = 1
  /\ Cardinality({1, 2}) = 2
<1>1. Cardinality({}) = 0
  BY FS_EmptySet
<1>2. \A x : Cardinality({x}) = 1
  BY FS_Singleton
<1>3. Cardinality({1, 2}) = 2
  <2>1. IsFiniteSet({1}) /\ Cardinality({1}) = 1
    BY FS_Singleton
  <2>2. 2 \notin {1} /\ {1} \cup {2} = {1, 2}
    OBVIOUS
  <2>3. Cardinality({1} \cup {2}) = Cardinality({1}) + 1
    BY <2>1, <2>2, FS_AddElement
  <2> QED BY <2>1, <2>2, <2>3
<1> QED BY <1>1, <1>2, <1>3

\* All of two replies, one of them, or none.
LEMMA GotNone == \A rs : Got(rs, {}) = <<>>
<1>1. 1 .. 0 = {}
  OBVIOUS
<1> QED BY <1>1, SmallSets DEF Got

LEMMA GotOne ==
  ASSUME NEW rs, NEW x \in {1, 2}
  PROVE  Got(rs, {x}) = <<rs[x]>>
<1> DEFINE place(i) == CHOOSE j \in {x} : Cardinality({k \in {x} : k < j}) = i - 1
<1>1. {k \in {x} : k < x} = {}
  OBVIOUS
<1>2. place(1) = x
  BY <1>1, SmallSets
<1>3. Got(rs, {x}) = [i \in 1 .. 1 |-> rs[x]]
  <2>1. Got(rs, {x}) = [i \in 1 .. 1 |-> rs[place(i)]]
    BY SmallSets DEF Got
  <2> HIDE DEF place
  <2>2. [i \in 1 .. 1 |-> rs[place(i)]] = [i \in 1 .. 1 |-> rs[x]]
    BY <1>2
  <2> QED BY <2>1, <2>2
<1>4. <<rs[x]>> = [i \in 1 .. 1 |-> rs[x]]
  OBVIOUS
<1> QED BY <1>3, <1>4

LEMMA GotTwo ==
  ASSUME NEW rs
  PROVE  Got(rs, {1, 2}) = <<rs[1], rs[2]>>
<1> DEFINE place(i) == CHOOSE j \in {1, 2} : Cardinality({k \in {1, 2} : k < j}) = i - 1
<1>1. {k \in {1, 2} : k < 1} = {} /\ {k \in {1, 2} : k < 2} = {1}
  OBVIOUS
<1>2. Cardinality({k \in {1, 2} : k < 1}) = 0 /\ Cardinality({k \in {1, 2} : k < 2}) = 1
  BY <1>1, SmallSets
<1>3. place(1) = 1
  <2>1. \A j \in {1, 2} : Cardinality({k \in {1, 2} : k < j}) = 1 - 1 <=> j = 1
    BY <1>2
  <2> QED BY <2>1
<1>4. place(2) = 2
  <2>1. \A j \in {1, 2} : Cardinality({k \in {1, 2} : k < j}) = 2 - 1 <=> j = 2
    BY <1>2
  <2> QED BY <2>1
<1>5. Got(rs, {1, 2}) = [i \in 1 .. 2 |-> rs[place(i)]]
  BY SmallSets DEF Got
<1> HIDE DEF place
<1>6. [i \in 1 .. 2 |-> rs[place(i)]] = [i \in 1 .. 2 |-> IF i = 1 THEN rs[1] ELSE rs[2]]
  BY <1>3, <1>4
<1>7. [i \in 1 .. 2 |-> IF i = 1 THEN rs[1] ELSE rs[2]] = <<rs[1], rs[2]>>
  OBVIOUS
<1> QED BY <1>5, <1>6, <1>7

\* What was heard: nothing lost, or some of the replies.
LEMMA Hearing ==
  ASSUME ShortReplies, NEW heard \in SUBSET DOMAIN replies'
  PROVE  /\ heard = DOMAIN replies' => Got(replies', heard) = replies'
         /\ \/ Got(replies', heard) = <<>>
            \/ \E r : Got(replies', heard) = <<r>> /\ Tells(r, expectedNext_')
            \/ \E r, q : /\ Got(replies', heard) = <<r, q>>
                         /\ Tells(r, expectedNext_') /\ Tells(q, expectedNext_')
<1> DEFINE rs == replies'
<1>1. CASE rs = <<>>
  <2>1. DOMAIN rs = {} /\ heard = {}
    BY <1>1
  <2>2. Got(rs, heard) = <<>>
    BY <2>1, GotNone
  <2> QED BY <1>1, <2>2
<1>2. CASE \E r : rs = <<r>> /\ Tells(r, expectedNext_')
  <2>1. PICK r : rs = <<r>> /\ Tells(r, expectedNext_')
    BY <1>2
  <2>2. DOMAIN rs = {1} /\ rs[1] = r
    BY <2>1
  <2>3. heard = {} \/ heard = {1}
    BY <2>2
  <2>4. Got(rs, {}) = <<>> /\ Got(rs, {1}) = <<r>>
    BY <2>2, GotNone, GotOne
  <2>5. {} # {1}
    OBVIOUS
  <2> HIDE DEF rs
  <2>6. /\ heard = DOMAIN rs => Got(rs, heard) = rs
        /\ Got(rs, heard) = <<>> \/ (Got(rs, heard) = <<r>> /\ Tells(r, expectedNext_'))
    BY <2>1, <2>2, <2>3, <2>4, <2>5
  <2> QED BY <2>6 DEF rs
<1>3. CASE \E r, q : rs = <<r, q>> /\ Tells(r, expectedNext_') /\ Tells(q, expectedNext_')
  <2>1. PICK r, q : rs = <<r, q>> /\ Tells(r, expectedNext_') /\ Tells(q, expectedNext_')
    BY <1>3
  <2>2. DOMAIN rs = {1, 2} /\ rs[1] = r /\ rs[2] = q
    BY <2>1
  <2>3. heard = {} \/ heard = {1} \/ heard = {2} \/ heard = {1, 2}
    BY <2>2
  <2>4. /\ Got(rs, {}) = <<>> /\ Got(rs, {1}) = <<r>> /\ Got(rs, {2}) = <<q>>
        /\ Got(rs, {1, 2}) = <<r, q>>
    BY <2>2, GotNone, GotOne, GotTwo
  <2>5. {} # {1, 2} /\ {1} # {1, 2} /\ {2} # {1, 2}
    OBVIOUS
  <2> HIDE DEF rs
  <2>6. /\ heard = DOMAIN rs => Got(rs, heard) = rs
        /\ \/ Got(rs, heard) = <<>>
           \/ Got(rs, heard) = <<r>> /\ Tells(r, expectedNext_')
           \/ Got(rs, heard) = <<q>> /\ Tells(q, expectedNext_')
           \/ Got(rs, heard) = <<r, q>> /\ Tells(r, expectedNext_') /\ Tells(q, expectedNext_')
    BY <2>1, <2>2, <2>3, <2>4, <2>5
  <2> QED BY <2>6 DEF rs
<1> QED BY <1>1, <1>2, <1>3 DEF ShortReplies

-----------------------------------------------------------------------------
(* What the suite makes of it. *)

SuiteRecords ==
    [mode : Modes \cup {{}}, at : Nat, tried : 0 .. 4, seq : Ids,
     knows : SUBSET {"alive", "header", "value"}, losses : 0 .. MaxLosses, latch : BOOLEAN,
     rolling : BOOLEAN, refused : BOOLEAN, failed : SUBSET {"wire", "latched", "cleartext"},
     blocked : BOOLEAN, lied : BOOLEAN, wedged : BOOLEAN]

LEMMA NothingHeard ==
  /\ \A p : ~Has(<<>>, p)
  /\ \A line : next_id(<<>>, line) = suite.seq
<1>1. DOMAIN <<>> = {}
  OBVIOUS
<1> QED BY <1>1 DEF Has, next_id

LEMMA OneHeard ==
  ASSUME NEW r
  PROVE  /\ \A p : Has(<<r>>, p) <=> Matches(r, p)
         /\ \A case : Meets(case, <<r>>) <=> /\ \A p \in case.need : Matches(r, p)
                                             /\ r.kind \notin case.never
         /\ \A line : next_id(<<r>>, line) =
                IF line.id # NextId \/ r.kind \notin {"ack", "nack"} THEN suite.seq
                ELSE IF r.kind = "nack" THEN r.n ELSE r.n + 1
<1>1. DOMAIN <<r>> = {1} /\ <<r>>[1] = r
  OBVIOUS
<1>2. \A p : Has(<<r>>, p) <=> Matches(r, p)
  BY <1>1 DEF Has
<1>3. \A case : Meets(case, <<r>>) <=> /\ \A p \in case.need : Matches(r, p)
                                       /\ r.kind \notin case.never
  BY <1>1, <1>2 DEF Meets
<1> DEFINE told == {i \in DOMAIN <<r>> : <<r>>[i].kind \in {"ack", "nack"}}
           first == <<r>>[CHOOSE i \in told : \A j \in told : i <= j]
<1>4. \A line : next_id(<<r>>, line) =
        IF line.id # NextId \/ told = {} THEN suite.seq
        ELSE IF first.kind = "nack" THEN first.n ELSE first.n + 1
  BY DEF next_id
<1>5. CASE r.kind \in {"ack", "nack"}
  <2>1. told = {1}
    BY <1>1, <1>5
  <2>2. (CHOOSE i \in {1} : \A j \in {1} : i <= j) = 1
    OBVIOUS
  <2>3. first = r
    BY <1>1, <2>1, <2>2
  <2> HIDE DEF told, first
  <2> QED BY <1>2, <1>3, <1>4, <1>5, <2>1, <2>3
<1>6. CASE r.kind \notin {"ack", "nack"}
  <2>1. told = {}
    BY <1>1, <1>6
  <2> HIDE DEF told, first
  <2> QED BY <1>2, <1>3, <1>4, <1>6, <2>1
<1> QED BY <1>5, <1>6

LEMMA TwoHeard ==
  ASSUME NEW r, NEW q
  PROVE  /\ \A p : Has(<<r, q>>, p) <=> Matches(r, p) \/ Matches(q, p)
         /\ \A case : Meets(case, <<r, q>>) <=> /\ \A p \in case.need : Matches(r, p) \/ Matches(q, p)
                                                /\ r.kind \notin case.never /\ q.kind \notin case.never
         /\ \A line : next_id(<<r, q>>, line) =
                IF line.id # NextId \/ (r.kind \notin {"ack", "nack"} /\ q.kind \notin {"ack", "nack"})
                THEN suite.seq
                ELSE LET d == IF r.kind \in {"ack", "nack"} THEN r ELSE q
                     IN IF d.kind = "nack" THEN d.n ELSE d.n + 1
<1>1. DOMAIN <<r, q>> = {1, 2} /\ <<r, q>>[1] = r /\ <<r, q>>[2] = q
  OBVIOUS
<1>2. \A p : Has(<<r, q>>, p) <=> Matches(r, p) \/ Matches(q, p)
  BY <1>1 DEF Has
<1>3. \A case : Meets(case, <<r, q>>) <=> /\ \A p \in case.need : Matches(r, p) \/ Matches(q, p)
                                          /\ r.kind \notin case.never /\ q.kind \notin case.never
  BY <1>1, <1>2 DEF Meets
<1> DEFINE told == {i \in DOMAIN <<r, q>> : <<r, q>>[i].kind \in {"ack", "nack"}}
           first == <<r, q>>[CHOOSE i \in told : \A j \in told : i <= j]
<1>4. \A line : next_id(<<r, q>>, line) =
        IF line.id # NextId \/ told = {} THEN suite.seq
        ELSE IF first.kind = "nack" THEN first.n ELSE first.n + 1
  BY DEF next_id
<1>5. CASE r.kind \in {"ack", "nack"}
  <2>1. 1 \in told /\ told \subseteq {1, 2}
    BY <1>1, <1>5
  <2>2. (CHOOSE i \in told : \A j \in told : i <= j) = 1
    BY <2>1
  <2>3. first = r /\ told # {}
    BY <1>1, <2>1, <2>2
  <2> HIDE DEF told, first
  <2> QED BY <1>2, <1>3, <1>4, <1>5, <2>3
<1>6. CASE r.kind \notin {"ack", "nack"} /\ q.kind \in {"ack", "nack"}
  <2>1. told = {2}
    BY <1>1, <1>6
  <2>2. (CHOOSE i \in {2} : \A j \in {2} : i <= j) = 2
    OBVIOUS
  <2>3. first = q /\ told # {}
    BY <1>1, <2>1, <2>2
  <2> HIDE DEF told, first
  <2> QED BY <1>2, <1>3, <1>4, <1>6, <2>3
<1>7. CASE r.kind \notin {"ack", "nack"} /\ q.kind \notin {"ack", "nack"}
  <2>1. told = {}
    BY <1>1, <1>7
  <2> HIDE DEF told, first
  <2> QED BY <1>2, <1>3, <1>4, <1>7, <2>1
<1> QED BY <1>5, <1>6, <1>7

\* The counter follows what was heard.
LEMMA CounterFollows ==
  ASSUME NEW got, NEW line, NEW n \in Int,
         \/ got = <<>>
         \/ \E r : got = <<r>> /\ Tells(r, n)
         \/ \E r, q : got = <<r, q>> /\ Tells(r, n) /\ Tells(q, n)
  PROVE  next_id(got, line) \in {suite.seq, n}
<1>1. CASE got = <<>>
  BY <1>1, NothingHeard
<1>2. ASSUME NEW r, got = <<r>>, Tells(r, n)
      PROVE  next_id(got, line) \in {suite.seq, n}
  BY <1>2, OneHeard DEF Tells
<1>3. ASSUME NEW r, NEW q, got = <<r, q>>, Tells(r, n), Tells(q, n)
      PROVE  next_id(got, line) \in {suite.seq, n}
  BY <1>3, TwoHeard DEF Tells
<1> QED BY <1>1, <1>2, <1>3

\* The fields of the conclusion.
Concluded(case, line, got, lost, executed) ==
    /\ suite' = [mode |-> suite.mode, at |-> suite'.at, tried |-> suite'.tried, seq |-> suite'.seq,
                 knows |-> suite'.knows, losses |-> suite'.losses, latch |-> suite'.latch,
                 rolling |-> suite'.rolling, refused |-> suite'.refused, failed |-> suite'.failed,
                 blocked |-> suite'.blocked, lied |-> suite'.lied, wedged |-> suite.wedged]
    /\ suite'.at = IF Again(case, got) THEN suite.at ELSE After(case, ShownBy(case, got, executed))
    /\ suite'.tried = IF Again(case, got) THEN suite.tried + 1 ELSE 0
    /\ suite'.seq = IF case.kind = "reset" THEN 1 ELSE next_id(got, case.line)
    /\ suite'.knows = (IF case.kind = "reset" THEN suite.knows \cap {"alive"} ELSE suite.knows)
                      \cup Learnt(case, ShownBy(case, got, executed))
    /\ suite'.losses = suite.losses + lost
    /\ suite'.latch = (suite.latch \/ (executed /\ line.verb = "ESTOP"))
    /\ suite'.rolling = CASE executed /\ line.tag \in {"move", "goto"} -> ~suite.latch /\ Len(replies') = 1
                          [] executed /\ line.tag = "stop" -> FALSE
                          [] OTHER -> suite.rolling
    /\ suite'.refused = IF case.kind = "motion"
                          THEN ~Meets(case, got) \/ Has(got, <<"err", AnyNumber>>) ELSE suite.refused
    /\ suite'.failed = IF Judged(case) /\ ~Again(case, got) /\ ~Passes(case, ShownBy(case, got, executed))
                       THEN suite.failed \cup {Reason(case)} ELSE suite.failed
    /\ suite'.blocked = (suite.blocked \/ (/\ case.kind \in {"status", "header"}
                                          /\ SuiteEnds(case, ShownBy(case, got, executed))))
    /\ suite'.lied = (suite.lied \/ (/\ case.line.id = NextId /\ Judged(case)
                                    /\ Passes(case, ShownBy(case, got, executed)) /\ ~executed))

LEMMA Fields ==
  ASSUME suite \in SuiteRecords, NEW case, NEW line, NEW got, NEW lost, NEW executed,
         Conclude(case, line, got, lost, executed)
  PROVE  Concluded(case, line, got, lost, executed)
<1> QED BY DEF Conclude, Concluded, SuiteRecords

\* All that was heard is shown of a command that ran, and of the other lines.
LEMMA AllShown ==
  ASSUME NEW case, NEW got, NEW ran, ran \/ case.line.tag \notin {"get", "telemetry"}
  PROVE  ShownBy(case, got, ran) = got
BY DEF ShownBy

-----------------------------------------------------------------------------
(* The answer to each kind of line. *)

LEMMA AnswerQuery ==
  ASSUME NEW line, line.verb = "QUERY", Receive(line)
  PROVE  /\ expectedNext_' = expectedNext_ /\ gapOutstanding_' = gapOutstanding_
         /\ gapOutstanding_ => replies' = <<Word("answer"), Nack(expectedNext_)>>
         /\ ~gapOutstanding_ => replies' = <<Word("answer")>>
<1>1. ReceiveQuery(line)
  BY DEF Receive, ReceiveNoise, handleEstop, handleHello, HelloWrongArity, MissingId, IdZero, ReservedId,
         StaleRetransmit, NumericGap, DecodeFailure, Accept, Executable, Noise, Sequenced
<1> QED BY <1>1, Concatenations DEF ReceiveQuery, emitReminderIfStalled, seqVars

LEMMA AnswerEstop ==
  ASSUME NEW line, line.verb = "ESTOP", Receive(line)
  PROVE  /\ expectedNext_' = expectedNext_ /\ gapOutstanding_' = gapOutstanding_
         /\ replies' = <<Word("estop")>>
<1>1. handleEstop(line)
  BY DEF Receive, ReceiveNoise, ReceiveQuery, handleHello, HelloWrongArity, MissingId, IdZero, ReservedId,
         StaleRetransmit, NumericGap, DecodeFailure, Accept, Executable, Noise, Sequenced
<1> QED BY <1>1 DEF handleEstop, seqVars

\* The lines of the sequenced verbs meet one of these.
LEMMA SequencedLine ==
  ASSUME NEW line, line.verb \in Sequenced, Receive(line)
  PROVE  \/ MissingId(line) \/ IdZero(line) \/ ReservedId(line) \/ StaleRetransmit(line)
         \/ NumericGap(line) \/ DecodeFailure(line) \/ Accept(line)
BY DEF Receive, ReceiveNoise, handleEstop, ReceiveQuery, handleHello, HelloWrongArity, Noise, Sequenced

LEMMA AnswerNoId ==
  ASSUME NEW line, line.verb \in Sequenced, line.id = NoId, Receive(line)
  PROVE  /\ expectedNext_' = expectedNext_ /\ gapOutstanding_' = gapOutstanding_
         /\ line.verb = "COMMAND" => replies' = <<Nack(expectedNext_)>>
         /\ line.verb = "UNKNOWN" => replies' = <<>>
<1>0. MissingId(line) \/ IdZero(line) \/ ReservedId(line) \/ StaleRetransmit(line) \/ NumericGap(line) \/ DecodeFailure(line) \/ Accept(line)
  BY SequencedLine
<1>1. MissingId(line)
  BY <1>0 DEF Executable, IdZero, ReservedId, StaleRetransmit, NumericGap, DecodeFailure, Accept, NoId
<1> QED BY <1>1 DEF MissingId, seqVars

LEMMA AnswerZero ==
  ASSUME NEW line, line.verb \in Sequenced, line.id = 0, Receive(line)
  PROVE  /\ expectedNext_' = expectedNext_ /\ gapOutstanding_' = gapOutstanding_
         /\ replies' = <<Nack(expectedNext_)>>
<1>0. MissingId(line) \/ IdZero(line) \/ ReservedId(line) \/ StaleRetransmit(line) \/ NumericGap(line) \/ DecodeFailure(line) \/ Accept(line)
  BY SequencedLine
<1>1. IdZero(line)
  BY <1>0 DEF Executable, MissingId, ReservedId, StaleRetransmit, NumericGap, DecodeFailure, Accept, NoId
<1> QED BY <1>1 DEF IdZero, seqVars

LEMMA AnswerReserved ==
  ASSUME Numbers, NEW line, line.verb \in Sequenced, line.id = MaxSequenceId, Receive(line)
  PROVE  /\ expectedNext_' = expectedNext_ /\ gapOutstanding_' = TRUE
         /\ replies' = <<Nack(expectedNext_), Err(3, MaxSequenceId)>>
<1>0. MissingId(line) \/ IdZero(line) \/ ReservedId(line) \/ StaleRetransmit(line) \/ NumericGap(line) \/ DecodeFailure(line) \/ Accept(line)
  BY SequencedLine
<1>1. MaxSequenceId \in Nat /\ MaxSequenceId >= 2
  BY MaxSequenceIdAssumption
<1>2. ReservedId(line)
  BY <1>1, <1>0 DEF Executable, MissingId, IdZero, StaleRetransmit, NumericGap, DecodeFailure, Accept,
                            NoId, sequenceIdIsExecutable
<1> QED BY <1>2 DEF ReservedId, handleDecodeFailure, kRange

LEMMA AnswerStale ==
  ASSUME Numbers, NEW line, line.verb \in Sequenced, line.id \in Nat, line.id >= 1,
         line.id < expectedNext_, Receive(line)
  PROVE  /\ expectedNext_' = expectedNext_ /\ gapOutstanding_' = gapOutstanding_
         /\ replies' = <<Ack(expectedNext_ - 1)>>
<1>0. MissingId(line) \/ IdZero(line) \/ ReservedId(line) \/ StaleRetransmit(line) \/ NumericGap(line) \/ DecodeFailure(line) \/ Accept(line)
  BY SequencedLine
<1>1. line.id # NoId /\ line.id # 0 /\ line.id # MaxSequenceId
  BY MaxSequenceIdAssumption DEF Numbers, NoId
<1>2. StaleRetransmit(line)
  BY <1>1, <1>0 DEF Executable, MissingId, IdZero, ReservedId, NumericGap, DecodeFailure, Accept,
                            sequenceIdIsExecutable, Numbers
<1> QED BY <1>2 DEF StaleRetransmit, seqVars

LEMMA AnswerGap ==
  ASSUME Numbers, NEW line, line.verb \in Sequenced, line.id \in Nat, line.id > expectedNext_,
         line.id < MaxSequenceId, Receive(line)
  PROVE  /\ expectedNext_' = expectedNext_ /\ gapOutstanding_' = TRUE
         /\ replies' = <<Nack(expectedNext_)>>
<1>0. MissingId(line) \/ IdZero(line) \/ ReservedId(line) \/ StaleRetransmit(line) \/ NumericGap(line) \/ DecodeFailure(line) \/ Accept(line)
  BY SequencedLine
<1>1. line.id # NoId /\ line.id # 0 /\ line.id # MaxSequenceId
  BY MaxSequenceIdAssumption DEF Numbers, NoId
<1>2. NumericGap(line)
  BY <1>1, <1>0 DEF Executable, MissingId, IdZero, ReservedId, StaleRetransmit, DecodeFailure, Accept,
                            sequenceIdIsExecutable, Numbers
<1> QED BY <1>2 DEF NumericGap

LEMMA AnswerCut ==
  ASSUME Numbers, NEW line, line.verb = "COMMAND", line.id = expectedNext_, ~line.decodes, Receive(line)
  PROVE  /\ expectedNext_' = expectedNext_ /\ gapOutstanding_' = TRUE
         /\ replies' = <<Nack(expectedNext_), Err(2, expectedNext_)>>
<1>1. line.id # NoId /\ line.id # 0 /\ line.id # MaxSequenceId /\ line.verb \in Sequenced
  BY MaxSequenceIdAssumption DEF Numbers, NoId, Sequenced
<1>0. MissingId(line) \/ IdZero(line) \/ ReservedId(line) \/ StaleRetransmit(line) \/ NumericGap(line) \/ DecodeFailure(line) \/ Accept(line)
  BY <1>1, SequencedLine
<1>2. DecodeFailure(line)
  BY <1>1, <1>0 DEF Executable, MissingId, IdZero, ReservedId, StaleRetransmit, NumericGap, Accept,
                            sequenceIdIsExecutable, Numbers
<1> QED BY <1>2 DEF DecodeFailure, handleDecodeFailure, kBadArg

\* The next command is executed; what it was refused with comes behind its ack.
LEMMA AnswerNext ==
  ASSUME Numbers, NEW line, line.verb = "COMMAND", line.id = expectedNext_, line.decodes, Receive(line),
         AsBuilt(line)
  PROVE  /\ expectedNext_' = expectedNext_ + 1 /\ gapOutstanding_' = FALSE /\ Executed(line)
         /\ \/ 0 \in ExecutesWith(line.tag) /\ replies' = <<Ack(expectedNext_)>>
            \/ \E code \in ExecutesWith(line.tag) \ {0} :
                 replies' = <<Ack(expectedNext_), Err(code, expectedNext_)>>
<1>1. line.id # NoId /\ line.id # 0 /\ line.id # MaxSequenceId /\ line.verb \in Sequenced
  BY MaxSequenceIdAssumption DEF Numbers, NoId, Sequenced
<1>0. MissingId(line) \/ IdZero(line) \/ ReservedId(line) \/ StaleRetransmit(line) \/ NumericGap(line) \/ DecodeFailure(line) \/ Accept(line)
  BY <1>1, SequencedLine
<1>2. Accept(line)
  BY <1>1, <1>0 DEF Executable, MissingId, IdZero, ReservedId, StaleRetransmit, NumericGap, DecodeFailure,
                            sequenceIdIsExecutable, Numbers
<1>3. expectedNext_' = expectedNext_ + 1 /\ gapOutstanding_' = FALSE
  BY <1>1, <1>2 DEF Accept, Successor
<1>4. Executed(line)
  BY <1>3 DEF Executed, Numbers
<1>5. (IF Len(replies') = 1 THEN 0 ELSE replies'[2].n) \in ExecutesWith(line.tag)
  BY <1>4 DEF AsBuilt
<1>6. CASE replies' = <<Ack(line.id)>>
  <2>1. Len(<<Ack(line.id)>>) = 1
    OBVIOUS
  <2> QED BY <1>3, <1>4, <1>5, <1>6, <2>1
<1>7. ASSUME NEW code \in ErrCodes, replies' = <<Ack(line.id), Err(code, line.id)>>
      PROVE  /\ code \in ExecutesWith(line.tag) \ {0}
             /\ replies' = <<Ack(expectedNext_), Err(code, expectedNext_)>>
  <2>1. Len(replies') = 2 /\ replies'[2].n = code
    BY <1>7, Kinds
  <2>2. code # 0
    BY ErrCodesAssumption
  <2> QED BY <1>5, <1>7, <2>1, <2>2
<1>8. replies' = <<Ack(line.id)>> \/ \E code \in ErrCodes : replies' = <<Ack(line.id), Err(code, line.id)>>
  BY <1>2 DEF Accept
<1> QED BY <1>3, <1>4, <1>6, <1>7, <1>8

-----------------------------------------------------------------------------
(* What holds at a label: with losses, and without. *)

Trailing == Following \cup InMotion \cup {"over"}

Loose(l) == /\ l = "fresh" => suite.seq = 1
            /\ l \in Trailing => suite.seq <= expectedNext_

Exact(l) == /\ l = "fresh" => expectedNext_ = 1
            /\ l \in Trailing => suite.seq = expectedNext_ /\ gapOutstanding_ = FALSE
            /\ l = "n2" => expectedNext_ = 2
            /\ l = "n3" => expectedNext_ = 3
            /\ l = "n4" => expectedNext_ = 4
            /\ l = "one" => expectedNext_ = 1
            /\ l = "gap1" => expectedNext_ = 1 /\ gapOutstanding_ = TRUE
            /\ l \in {"headed", "m3", "m4"} => "header" \in suite.knows
            /\ l \in {"ready", "m5"} =>
                 suite.refused \/ suite.latch \/ (suite.rolling /\ "header" \in suite.knows)

\* A line the robot gets, none of whose replies is lost.
Ran(line) == Executed(line) \/ line.verb = "ESTOP"
Perfect(case) ==
    /\ suite \in SuiteRecords /\ Numbers
    /\ Receive(Sent(case)) /\ AsBuilt(Sent(case))
    /\ Conclude(case, Sent(case), replies', 0, Ran(Sent(case)))

\* The case is not failed on the wire, nor passed for a command that never ran.
Fair(case, got, ran) ==
    /\ Judged(case) => Again(case, got) \/ Passes(case, got) \/ Reason(case) # "wire"
    /\ case.line.id = NextId => ran

\* Nothing that a label speaks of has changed.
Unmoved ==
    /\ expectedNext_' = expectedNext_ /\ gapOutstanding_' = gapOutstanding_
    /\ suite'.seq = suite.seq /\ suite.knows \subseteq suite'.knows
    /\ suite'.rolling = suite.rolling /\ suite'.refused = suite.refused
    /\ suite.latch => suite'.latch

LEMMA ExactCarried ==
  ASSUME NEW l \in Plain, Exact(l), Unmoved
  PROVE  Exact(l)'
<1>1. (l = "fresh" => expectedNext_ = 1)'
  BY DEF Exact, Unmoved
<1>2. (l \in Trailing => suite.seq = expectedNext_ /\ gapOutstanding_ = FALSE)'
  BY DEF Exact, Unmoved
<1>3. (/\ l = "n2" => expectedNext_ = 2
       /\ l = "n3" => expectedNext_ = 3
       /\ l = "n4" => expectedNext_ = 4
       /\ l = "one" => expectedNext_ = 1
       /\ l = "gap1" => expectedNext_ = 1 /\ gapOutstanding_ = TRUE)'
  BY DEF Exact, Unmoved
<1>4. (l \in {"headed", "m3", "m4"} => "header" \in suite.knows)'
  BY DEF Exact, Unmoved
<1>5. (l \in {"ready", "m5"} =>
          suite.refused \/ suite.latch \/ (suite.rolling /\ "header" \in suite.knows))'
  BY DEF Exact, Unmoved
<1> QED BY <1>1, <1>2, <1>3, <1>4, <1>5 DEF Exact

LEMMA FairlyJudged ==
  ASSUME suite \in SuiteRecords, JudgesFairly, NEW case, NEW line, NEW got, NEW lost \in Nat, NEW ran,
         Conclude(case, line, got, lost, ran), suite.losses = 0 /\ lost = 0 => Fair(case, got, ran),
         case.line.tag \in {"get", "telemetry"} => case.line.id = NextId
  PROVE  JudgesFairly'
<1>1. suite.losses \in Nat
  BY SuiteAssumption DEF SuiteRecords
<1>0. Concluded(case, line, got, lost, ran)
  BY Fields
<1>2. /\ suite'.losses = suite.losses + lost
      /\ suite'.failed = IF Judged(case) /\ ~Again(case, got) /\ ~Passes(case, ShownBy(case, got, ran))
                         THEN suite.failed \cup {Reason(case)} ELSE suite.failed
      /\ suite'.lied = (suite.lied \/ (/\ case.line.id = NextId /\ Judged(case)
                                      /\ Passes(case, ShownBy(case, got, ran)) /\ ~ran))
  BY <1>0 DEF Concluded
<1>3. SUFFICES ASSUME suite'.losses = 0
               PROVE  "wire" \notin suite'.failed /\ ~suite'.lied
  BY DEF JudgesFairly
<1>4. suite.losses = 0 /\ lost = 0
  BY <1>1, <1>2, <1>3
<1>5. "wire" \notin suite.failed /\ ~suite.lied /\ Fair(case, got, ran)
  BY <1>4 DEF JudgesFairly
<1>8. ShownBy(case, got, ran) = got
  BY <1>5, AllShown DEF Fair
<1>6. "wire" \notin suite'.failed
  BY <1>2, <1>5, <1>8 DEF Fair
<1>7. ~suite'.lied
  BY <1>2, <1>5 DEF Fair
<1> QED BY <1>6, <1>7

\* The number of the line a case is asked with.
LEMMA LineSent ==
  ASSUME NEW case
  PROVE  /\ case.line.id # NextId => Sent(case) = case.line
         /\ \A tag : case.line = Command(tag) =>
              /\ case.line.id = NextId /\ Sent(case).id = suite.seq
              /\ Sent(case).verb = "COMMAND" /\ Sent(case).tag = tag
              /\ Sent(case).decodes = (tag # "malformed")
<1>1. case.line.id # NextId => Sent(case) = case.line
  BY DEF Sent
<1>2. ASSUME NEW tag, case.line = Command(tag)
      PROVE  /\ case.line.id = NextId /\ Sent(case).id = suite.seq
             /\ Sent(case).verb = "COMMAND" /\ Sent(case).tag = tag
             /\ Sent(case).decodes = (tag # "malformed")
  BY <1>2 DEF Sent, Command, Ask
<1> QED BY <1>1, <1>2

\* Asked with no id, or an id of its own: the suite's counter stays.
LEMMA CounterStays ==
  ASSUME NEW case, NEW got, case.line.id # NextId
  PROVE  next_id(got, case.line) = suite.seq
BY DEF next_id

\* The remarks by their lines.
QueryRemark(c) == /\ c.line = Query /\ c.kind \in {"send", "alive", "status", "judge"}
                  /\ c.need \subseteq {<<"answer", AnyNumber>>} /\ c.never = {}
PlainRemark(c) == /\ c.line \in {Ask("COMMAND", NoId, "plain"), Numbered(0, "move")} /\ c.kind = "judge"
                  /\ c.need = {<<"nack", AnyNumber>>} /\ c.never = {}
AbsentRemark(c) == /\ c.line = Ask("UNKNOWN", NoId, "plain") /\ c.kind = "absent"
                   /\ c.need = {<<"nack", AnyNumber>>}
CleartextRemark(c) == c.line = Ask("COMMAND", NoId, "run") /\ c.kind = "cleartext"
EstopRemark(c) == /\ c.line = Ask("ESTOP", NoId, "estop") /\ c.kind = "judge"
                  /\ c.need = {<<"estop", AnyNumber>>} /\ c.never \subseteq {"nack"}

LEMMA RemarkFields ==
  ASSUME NEW c \in Remark
  PROVE  QueryRemark(c) \/ PlainRemark(c) \/ AbsentRemark(c) \/ CleartextRemark(c) \/ EstopRemark(c)
<1>1. CASE c \in {Sends(Query), Case("alive", Query, 1, {<<"answer", AnyNumber>>}, {}),
                  Case("status", Query, 4, {<<"answer", AnyNumber>>}, {}),
                  Answered(1), Answered(3), Answered(4)}
  <2>1. QueryRemark(c)
    BY <1>1 DEF QueryRemark, Sends, Case, Answered
  <2> QED BY <2>1
<1>2. CASE c \in {Judge(Ask("COMMAND", NoId, "plain"), {<<"nack", AnyNumber>>}),
                  Judge(Numbered(0, "move"), {<<"nack", AnyNumber>>})}
  <2>1. PlainRemark(c)
    BY <1>2 DEF PlainRemark, Judge, Case
  <2> QED BY <2>1
<1>3. CASE c = Case("absent", Ask("UNKNOWN", NoId, "plain"), 4, {<<"nack", AnyNumber>>}, {})
  <2>1. AbsentRemark(c)
    BY <1>3 DEF AbsentRemark, Case
  <2> QED BY <2>1
<1>4. CASE c = Case("cleartext", Ask("COMMAND", NoId, "run"), 3, {<<"GAP:", AnyNumber>>}, {})
  <2>1. CleartextRemark(c)
    BY <1>4 DEF CleartextRemark, Case
  <2> QED BY <2>1
<1>5. CASE c \in {Judge(Ask("ESTOP", NoId, "estop"), {<<"estop", AnyNumber>>}),
                  Case("judge", Ask("ESTOP", NoId, "estop"), 1, {<<"estop", AnyNumber>>}, {"nack"})}
  <2>1. EstopRemark(c)
    BY <1>5 DEF EstopRemark, Judge, Case
  <2> QED BY <2>1
<1> QED BY <1>1, <1>2, <1>3, <1>4, <1>5 DEF Remark

LEMMA RemarkLines ==
  ASSUME NEW c \in Remark
  PROVE  /\ c.line \in {Query, Ask("COMMAND", NoId, "plain"), Numbered(0, "move"),
                        Ask("UNKNOWN", NoId, "plain"), Ask("COMMAND", NoId, "run"),
                        Ask("ESTOP", NoId, "estop")}
         /\ c.kind \in {"send", "alive", "status", "judge", "absent", "cleartext"}
BY RemarkFields DEF QueryRemark, PlainRemark, AbsentRemark, CleartextRemark, EstopRemark

LEMMA CaseFields ==
  \A kind, line, tries, need, never :
    LET c == Case(kind, line, tries, need, never)
    IN c.kind = kind /\ c.line = line /\ c.tries = tries /\ c.need = need /\ c.never = never
BY DEF Case

LEMMA KindFields ==
  /\ \A line, need : LET c == Judge(line, need)
       IN c.kind = "judge" /\ c.line = line /\ c.tries = 1 /\ c.need = need /\ c.never = {}
  /\ \A line, need : LET c == Strict(line, need)
       IN c.kind = "judge" /\ c.line = line /\ c.tries = 1 /\ c.need = need /\ c.never = {"err"}
  /\ \A line : LET c == Sends(line)
       IN c.kind = "send" /\ c.line = line /\ c.tries = 1 /\ c.need = {} /\ c.never = {}
  /\ \A tag : LET c == Tracked(tag)
       IN c.kind = "judge" /\ c.line = Command(tag) /\ c.tries = 1 /\ c.need = {<<"ack", NextId>>} /\ c.never = {}
  /\ \A tag : LET c == Clean(tag)
       IN c.kind = "judge" /\ c.line = Command(tag) /\ c.tries = 1 /\ c.need = {<<"ack", NextId>>} /\ c.never = {"nack"}
BY DEF Judge, Strict, Sends, Tracked, Clean, Case

LEMMA JudgeFields ==
  ASSUME NEW line, NEW need
  PROVE  /\ Judge(line, need).kind = "judge" /\ Judge(line, need).line = line
         /\ Judge(line, need).tries = 1 /\ Judge(line, need).need = need /\ Judge(line, need).never = {}
BY DEF Judge, Case

LEMMA CommandTags ==
  ASSUME NEW a, NEW b, Command(a) = Command(b)
  PROVE  a = b
<1>1. Command(a).tag = a /\ Command(b).tag = b
  BY DEF Command, Ask
<1> QED BY <1>1

LEMMA ErrMatches ==
  ASSUME NEW n
  PROVE  /\ Matches(Err(1, n), <<"err", 1>>) /\ Matches(Err(2, n), <<"err", 2>>)
         /\ Matches(Err(3, n), <<"err", 3>>) /\ Matches(Err(12, n), <<"err", 12>>)
BY DEF Matches, AnyNumber, NextId, Err

LEMMA LineFields ==
  /\ \A tag : Command(tag).tag = tag /\ Command(tag).id = NextId /\ Command(tag).verb = "COMMAND"
  /\ Query.verb = "QUERY" /\ Query.id = NoId /\ Query.tag = "query"
  /\ \A verb, id, tag : /\ Ask(verb, id, tag).verb = verb /\ Ask(verb, id, tag).id = id
                        /\ Ask(verb, id, tag).tag = tag
                        /\ Ask(verb, id, tag).decodes = (tag # "malformed")
  /\ \A n, tag : /\ Numbered(n, tag).verb = "COMMAND" /\ Numbered(n, tag).id = n
                 /\ Numbered(n, tag).tag = tag /\ Numbered(n, tag).decodes = (tag # "malformed")
  /\ NoId # NextId /\ 0 # NextId /\ NoId = -1 /\ NextId = -2
BY DEF Query, Ask, Numbered, NoId, NextId, Command

\* The patterns of the cases whose line is not numbered.
LEMMA Patterns ==
  /\ \A r : Matches(r, <<"answer", AnyNumber>>) <=> r.kind = "answer"
  /\ \A r : Matches(r, <<"nack", AnyNumber>>) <=> r.kind = "nack"
  /\ \A r : Matches(r, <<"ack", AnyNumber>>) <=> r.kind = "ack"
  /\ \A r : Matches(r, <<"err", AnyNumber>>) <=> r.kind = "err"
  /\ \A r : Matches(r, <<"estop", AnyNumber>>) <=> r.kind = "estop"
  /\ \A r : Matches(r, <<"device", AnyNumber>>) <=> r.kind = "device"
  /\ \A r : Matches(r, <<"GAP:", AnyNumber>>) <=> r.kind = "GAP:"
  /\ \A r : Matches(r, <<"ack", NextId>>) <=> r.kind = "ack" /\ r.n = suite.seq
  /\ \A r : \A n \in Nat : Matches(r, <<"ack", n>>) <=> r.kind = "ack" /\ r.n = n
  /\ \A r : \A n \in Nat : Matches(r, <<"nack", n>>) <=> r.kind = "nack" /\ r.n = n
  /\ \A r : \A n \in Nat : Matches(r, <<"err", n>>) <=> r.kind = "err" /\ r.n = n
BY DEF Matches, AnyNumber, NextId

\* A remark moves neither the stream nor the counter.
LEMMA RemarkUnmoved ==
  ASSUME NEW c \in Remark, suite \in SuiteRecords, Numbers, NEW got, NEW lost, Receive(Sent(c)),
         Conclude(c, Sent(c), got, lost, Ran(Sent(c)))
  PROVE  Unmoved
<1>1. /\ c.line \in {Query, Ask("COMMAND", NoId, "plain"), Numbered(0, "move"),
                     Ask("UNKNOWN", NoId, "plain"), Ask("COMMAND", NoId, "run"),
                     Ask("ESTOP", NoId, "estop")}
      /\ c.kind \in {"send", "alive", "status", "judge", "absent", "cleartext"}
  BY RemarkLines
<1>2. c.line.id # NextId /\ Sent(c) = c.line
  BY <1>1, LineSent, LineFields
<1>3. expectedNext_' = expectedNext_ /\ gapOutstanding_' = gapOutstanding_
  <2>1. CASE c.line = Query
    BY <1>2, <2>1, AnswerQuery, LineFields
  <2>2. CASE c.line \in {Ask("COMMAND", NoId, "plain"), Ask("UNKNOWN", NoId, "plain"),
                         Ask("COMMAND", NoId, "run")}
    <3>1. Sent(c).verb \in Sequenced /\ Sent(c).id = NoId
      BY <1>2, <2>2, LineFields DEF Sequenced
    <3> QED BY <3>1, AnswerNoId
  <2>3. CASE c.line = Numbered(0, "move")
    <3>1. Sent(c).verb \in Sequenced /\ Sent(c).id = 0
      BY <1>2, <2>3, LineFields DEF Sequenced
    <3> QED BY <3>1, AnswerZero
  <2>4. CASE c.line = Ask("ESTOP", NoId, "estop")
    <3>1. Sent(c).verb = "ESTOP"
      BY <1>2, <2>4, LineFields
    <3> QED BY <3>1, AnswerEstop
  <2> QED BY <1>1, <2>1, <2>2, <2>3, <2>4
<1>4. Concluded(c, Sent(c), got, lost, Ran(Sent(c)))
  BY Fields
<1>5. suite'.seq = suite.seq
  BY <1>1, <1>2, <1>4, CounterStays DEF Concluded
<1>6. suite.knows \subseteq suite'.knows
  BY <1>1, <1>4 DEF Concluded
<1>7. suite'.rolling = suite.rolling
  <2>1. ~Executed(Sent(c))
    BY <1>3 DEF Executed
  <2>2. Ran(Sent(c)) => Sent(c).tag \notin {"move", "goto", "stop"}
    BY <1>1, <1>2, <2>1, LineFields DEF Ran
  <2> QED BY <1>4, <2>2 DEF Concluded
<1>8. suite'.refused = suite.refused
  BY <1>1, <1>4 DEF Concluded
<1>9. suite.latch => suite'.latch
  BY <1>4 DEF Concluded
<1> QED BY <1>3, <1>5, <1>6, <1>7, <1>8, <1>9 DEF Unmoved

LEMMA RemarkFair ==
  ASSUME NEW c \in Remark, Receive(Sent(c)), NEW ran
  PROVE  Fair(c, replies', ran)
<1>1. c.line \in {Query, Ask("COMMAND", NoId, "plain"), Numbered(0, "move"),
                  Ask("UNKNOWN", NoId, "plain"), Ask("COMMAND", NoId, "run"),
                  Ask("ESTOP", NoId, "estop")}
  BY RemarkLines
<1>2. c.line.id # NextId /\ Sent(c) = c.line
  BY <1>1, LineSent, LineFields
<1>3. CASE QueryRemark(c)
  <2>1. Sent(c).verb = "QUERY"
    BY <1>2, <1>3, LineFields DEF QueryRemark
  <2>2. replies' = <<Word("answer")>> \/ replies' = <<Word("answer"), Nack(expectedNext_)>>
    BY <2>1, AnswerQuery
  <2>3. Matches(Word("answer"), <<"answer", AnyNumber>>)
    BY Kinds, Patterns
  <2>4. \A p \in c.need : p = <<"answer", AnyNumber>>
    BY <1>3 DEF QueryRemark
  <2>5. c.never = {}
    BY <1>3 DEF QueryRemark
  <2>6. Meets(c, <<Word("answer")>>)
    BY <2>3, <2>4, <2>5, OneHeard
  <2>7. Meets(c, <<Word("answer"), Nack(expectedNext_)>>)
    BY <2>3, <2>4, <2>5, TwoHeard
  <2>8. Meets(c, replies')
    BY <2>2, <2>6, <2>7
  <2>9. Passes(c, replies')
    BY <1>3, <2>8 DEF Passes, QueryRemark
  <2> QED BY <1>2, <2>9 DEF Fair
<1>4. CASE PlainRemark(c)
  <2>1. Sent(c).verb = "COMMAND" /\ (Sent(c).id = NoId \/ Sent(c).id = 0)
    BY <1>2, <1>4, LineFields DEF PlainRemark
  <2>2. Sent(c).verb \in Sequenced
    BY <2>1 DEF Sequenced
  <2>3. replies' = <<Nack(expectedNext_)>>
    BY <2>1, <2>2, AnswerNoId, AnswerZero
  <2>4. Matches(Nack(expectedNext_), <<"nack", AnyNumber>>)
    BY Kinds, Patterns
  <2>5. c.need = {<<"nack", AnyNumber>>} /\ c.never = {}
    BY <1>4 DEF PlainRemark
  <2>6. Meets(c, <<Nack(expectedNext_)>>)
    BY <2>4, <2>5, OneHeard
  <2>7. Passes(c, replies')
    BY <1>4, <2>3, <2>6 DEF Passes, PlainRemark
  <2> QED BY <1>2, <2>7 DEF Fair
<1>5. CASE AbsentRemark(c)
  <2>1. Sent(c).verb = "UNKNOWN" /\ Sent(c).id = NoId
    BY <1>2, <1>5, LineFields DEF AbsentRemark
  <2>2. Sent(c).verb \in Sequenced
    BY <2>1 DEF Sequenced
  <2>3. replies' = <<>>
    BY <2>1, <2>2, AnswerNoId
  <2>4. ~Has(<<>>, <<"nack", AnyNumber>>)
    BY NothingHeard
  <2>5. <<"nack", AnyNumber>> \in c.need
    BY <1>5 DEF AbsentRemark
  <2>6. ~Meets(c, replies')
    BY <2>3, <2>4, <2>5 DEF Meets
  <2>7. Passes(c, replies')
    BY <1>5, <2>6 DEF Passes, AbsentRemark
  <2> QED BY <1>2, <2>7 DEF Fair
<1>6. CASE CleartextRemark(c)
  <2>1. Reason(c) # "wire"
    BY <1>6 DEF Reason, CleartextRemark
  <2> QED BY <1>2, <2>1 DEF Fair
<1>7. CASE EstopRemark(c)
  <2>1. Sent(c).verb = "ESTOP"
    BY <1>2, <1>7, LineFields DEF EstopRemark
  <2>2. replies' = <<Word("estop")>>
    BY <2>1, AnswerEstop
  <2>3. Matches(Word("estop"), <<"estop", AnyNumber>>) /\ Word("estop").kind \notin {"nack"}
    BY Kinds, Patterns
  <2>4. c.need = {<<"estop", AnyNumber>>} /\ Word("estop").kind \notin c.never
    BY <1>7, <2>3 DEF EstopRemark
  <2>5. Meets(c, <<Word("estop")>>)
    BY <2>3, <2>4, OneHeard
  <2>6. Passes(c, replies')
    BY <1>7, <2>2, <2>5 DEF Passes, EstopRemark
  <2> QED BY <1>2, <2>6 DEF Fair
<1> QED BY <1>3, <1>4, <1>5, <1>6, <1>7, RemarkFields

-----------------------------------------------------------------------------
(* A case with the tracked id, its counter in step with the robot's. *)

Tracks(c) == \E tag : c.line = Command(tag)
InStep == suite.seq = expectedNext_

LEMMA Executing ==
  ASSUME NEW c, NEW tag, c.line = Command(tag), tag # "malformed", InStep, Perfect(c)
  PROVE  /\ expectedNext_' = expectedNext_ + 1 /\ gapOutstanding_' = FALSE
         /\ suite'.seq = IF c.kind = "reset" THEN 1 ELSE expectedNext_ + 1
         /\ Ran(Sent(c)) /\ Executed(Sent(c)) /\ Sent(c).tag = tag
         /\ \/ 0 \in ExecutesWith(tag) /\ replies' = <<Ack(expectedNext_)>>
            \/ \E code \in ExecutesWith(tag) \ {0} :
                 replies' = <<Ack(expectedNext_), Err(code, expectedNext_)>>
         /\ Has(replies', <<"ack", AnyNumber>>) /\ Has(replies', <<"ack", NextId>>)
<1> DEFINE line == Sent(c)
           n == expectedNext_
<1>1. /\ c.line.id = NextId /\ line.id = n /\ line.verb = "COMMAND" /\ line.tag = tag /\ line.decodes
  BY LineSent DEF InStep
<1>2. Receive(line) /\ AsBuilt(line) /\ Numbers /\ suite \in SuiteRecords
      /\ Conclude(c, line, replies', 0, Ran(line))
  BY DEF Perfect
<1> HIDE DEF line
<1>3. /\ expectedNext_' = n + 1 /\ gapOutstanding_' = FALSE /\ Executed(line)
      /\ \/ 0 \in ExecutesWith(line.tag) /\ replies' = <<Ack(n)>>
         \/ \E code \in ExecutesWith(line.tag) \ {0} : replies' = <<Ack(n), Err(code, n)>>
  BY <1>1, <1>2, AnswerNext
<1>4. Matches(Ack(n), <<"ack", AnyNumber>>) /\ Matches(Ack(n), <<"ack", NextId>>)
  BY Kinds, Patterns DEF InStep
<1>5. /\ Has(replies', <<"ack", AnyNumber>>) /\ Has(replies', <<"ack", NextId>>)
      /\ next_id(replies', c.line) = n + 1
  <2>1. CASE replies' = <<Ack(n)>>
    <3>1. Has(<<Ack(n)>>, <<"ack", AnyNumber>>) /\ Has(<<Ack(n)>>, <<"ack", NextId>>)
      BY <1>4, OneHeard
    <3>2. next_id(<<Ack(n)>>, c.line) = n + 1
      <4>1. next_id(<<Ack(n)>>, c.line) =
              IF c.line.id # NextId \/ Ack(n).kind \notin {"ack", "nack"} THEN suite.seq
              ELSE IF Ack(n).kind = "nack" THEN Ack(n).n ELSE Ack(n).n + 1
        BY OneHeard
      <4> QED BY <1>1, <4>1, Kinds
    <3> QED BY <2>1, <3>1, <3>2
  <2>2. ASSUME NEW code, replies' = <<Ack(n), Err(code, n)>>
        PROVE  /\ Has(replies', <<"ack", AnyNumber>>) /\ Has(replies', <<"ack", NextId>>)
               /\ next_id(replies', c.line) = n + 1
    <3> DEFINE e == Err(code, n)
    <3>0. replies' = <<Ack(n), e>>
      BY <2>2
    <3> HIDE DEF e
    <3>1. Has(<<Ack(n), e>>, <<"ack", AnyNumber>>) /\ Has(<<Ack(n), e>>, <<"ack", NextId>>)
      BY <1>4, TwoHeard
    <3>2. next_id(<<Ack(n), e>>, c.line) = n + 1
      <4>1. next_id(<<Ack(n), e>>, c.line) =
              IF c.line.id # NextId \/ (Ack(n).kind \notin {"ack", "nack"} /\ e.kind \notin {"ack", "nack"})
              THEN suite.seq
              ELSE LET d == IF Ack(n).kind \in {"ack", "nack"} THEN Ack(n) ELSE e
                   IN IF d.kind = "nack" THEN d.n ELSE d.n + 1
        BY TwoHeard
      <4> QED BY <1>1, <4>1, Kinds
    <3> QED BY <3>0, <3>1, <3>2
  <2> QED BY <1>3, <2>1, <2>2
<1>6. suite'.seq = IF c.kind = "reset" THEN 1 ELSE n + 1
  <2>1. Concluded(c, line, replies', 0, Ran(line))
    BY <1>2, Fields
  <2> QED BY <1>5, <2>1 DEF Concluded
<1>7. Ran(line)
  BY <1>3 DEF Ran
<1> QED BY <1>1, <1>3, <1>5, <1>6, <1>7 DEF line

LEMMA ExactTrailing ==
  ASSUME NEW l \in Trailing, l # "fresh", suite'.seq = expectedNext_', gapOutstanding_' = FALSE,
         l \in {"headed", "m3", "m4"} => "header" \in suite'.knows,
         l \in {"ready", "m5"} =>
           suite'.refused \/ suite'.latch \/ (suite'.rolling /\ "header" \in suite'.knows)
  PROVE  Exact(l)'
<1>1. l \notin {"n2", "n3", "n4", "one", "gap1"}
  BY DEF Trailing, Following, InMotion
<1> QED BY <1>1 DEF Exact

LEMMA ExactInStep ==
  ASSUME NEW l \in Trailing, Exact(l), Loose(l)
  PROVE  InStep
BY DEF Exact, InStep

LEMMA Results ==
  /\ \A tag \in {"get", "telemetry", "stop", "set", "quiet", "funcs", "mode", "move"} : ExecutesWith(tag) = {0}
  /\ ExecutesWith("unknown") = {1} /\ ExecutesWith("write_only") = {12} /\ ExecutesWith("buffer") = {6}
  /\ ExecutesWith("goto") = {0, 6, 8}
BY DEF ExecutesWith

LEMMA Refusals ==
  0 \notin ExecutesWith("unknown") /\ 0 \notin ExecutesWith("write_only") /\ 0 \notin ExecutesWith("buffer")
BY DEF ExecutesWith

\* An accepted command, one refused on its merits, and one whose refusal is not looked at.
Accepting(c) == /\ \E tag \in {"get", "telemetry", "stop", "set", "quiet", "funcs", "mode"} : c.line = Command(tag)
                /\ c.need \subseteq {<<"ack", NextId>>, <<"ack", AnyNumber>>}
                /\ c.never \subseteq {"err", "nack"}
Refusing(c) == /\ c.line = Command("unknown") /\ c.need = {<<"ack", NextId>>, <<"err", 1>>}
               /\ c.never = {}
Buffered(c) == c.line = Command("buffer") /\ c.need = {<<"ack", NextId>>} /\ c.never = {"nack"}

LEMMA StepFields ==
  ASSUME NEW c \in Stepping
  PROVE  /\ c.kind \in {"judge", "value", "if_value", "send"} /\ c.tries = 1
         /\ Accepting(c) \/ Refusing(c) \/ Buffered(c)
<1>1. CASE c \in {Tracked("get"), Tracked("telemetry"), Tracked("stop"), Clean("mode"),
                  Sends(Command("quiet")), Sends(Command("telemetry"))}
  <2>1. Accepting(c)
    BY <1>1, KindFields DEF Accepting
  <2>2. c.kind \in {"judge", "send"} /\ c.tries = 1
    BY <1>1, KindFields
  <2> QED BY <2>1, <2>2
<1>2. CASE c = Case("value", Command("get"), 1, {<<"ack", NextId>>}, {})
  BY <1>2 DEF Accepting, Case
<1>3. CASE c = Case("if_value", Command("set"), 1, {<<"ack", NextId>>}, {"err"})
  BY <1>3 DEF Accepting, Case
<1>4. CASE c = Case("if_value", Command("get"), 1, {<<"ack", NextId>>}, {})
  BY <1>4 DEF Accepting, Case
<1>5. CASE c = Case("judge", Command("quiet"), 1, {<<"ack", AnyNumber>>}, {})
  BY <1>5 DEF Accepting, Case
<1>6. CASE c \in {Strict(Command("funcs"), {<<"ack", NextId>>}),
                  Strict(Command("stop"), {<<"ack", NextId>>})}
  <2>1. Accepting(c)
    BY <1>6, KindFields DEF Accepting
  <2>2. c.kind = "judge" /\ c.tries = 1
    BY <1>6, KindFields
  <2> QED BY <2>1, <2>2
<1>7. CASE c = Judge(Command("unknown"), {<<"ack", NextId>>, <<"err", 1>>})
  BY <1>7 DEF Refusing, Judge, Case
<1>8. CASE c = Clean("buffer")
  BY <1>8, KindFields DEF Buffered
<1> QED BY <1>1, <1>2, <1>3, <1>4, <1>5, <1>6, <1>7, <1>8 DEF Stepping

\* The command is executed and the case passes.
LEMMA StepRule ==
  ASSUME NEW c \in Stepping, InStep, Perfect(c)
  PROVE  /\ Fair(c, replies', Ran(Sent(c)))
         /\ suite'.seq = expectedNext_' /\ gapOutstanding_' = FALSE
         /\ c.line = Command("telemetry") => "header" \in suite'.knows
<1>1. /\ c.kind \in {"judge", "value", "if_value", "send"} /\ c.tries = 1
      /\ Accepting(c) \/ Refusing(c) \/ Buffered(c)
  BY StepFields
<1>2. PICK tag \in {"get", "telemetry", "stop", "set", "quiet", "funcs", "mode", "unknown", "buffer"} :
        c.line = Command(tag)
  BY <1>1 DEF Accepting, Refusing, Buffered
<1>3. tag # "malformed"
  BY <1>2
<1> DEFINE n == expectedNext_
<1>4. /\ expectedNext_' = n + 1 /\ gapOutstanding_' = FALSE
      /\ suite'.seq = IF c.kind = "reset" THEN 1 ELSE n + 1
      /\ Ran(Sent(c)) /\ Executed(Sent(c)) /\ Sent(c).tag = tag
      /\ \/ 0 \in ExecutesWith(tag) /\ replies' = <<Ack(n)>>
         \/ \E code \in ExecutesWith(tag) \ {0} : replies' = <<Ack(n), Err(code, n)>>
      /\ Has(replies', <<"ack", AnyNumber>>) /\ Has(replies', <<"ack", NextId>>)
  BY <1>2, <1>3, Executing
<1>5. suite'.seq = expectedNext_' /\ gapOutstanding_' = FALSE
  BY <1>1, <1>4
<1>6. Meets(c, replies')
  <2>1. CASE Accepting(c)
    <3>1. tag # "unknown" /\ tag # "buffer"
      BY <1>2, <2>1, CommandTags DEF Accepting
    <3>2. ExecutesWith(tag) = {0}
      BY <3>1, Results
    <3>3. replies' = <<Ack(n)>>
      BY <1>4, <3>2
    <3>7. Matches(Ack(n), <<"ack", AnyNumber>>) /\ Matches(Ack(n), <<"ack", NextId>>)
      BY Kinds, Patterns DEF InStep
    <3>4. \A p \in c.need : Matches(Ack(n), p)
      BY <2>1, <3>7 DEF Accepting
    <3>5. Ack(n).kind \notin c.never
      BY <2>1, Kinds DEF Accepting
    <3>6. Meets(c, <<Ack(n)>>)
      BY <3>4, <3>5, OneHeard
    <3> QED BY <3>3, <3>6
  <2>2. CASE Refusing(c)
    <3>1. tag = "unknown"
      BY <1>2, <2>2, CommandTags DEF Refusing
    <3>2. replies' = <<Ack(n), Err(1, n)>>
      <4>1. ExecutesWith(tag) = {1}
        BY <3>1, Results
      <4>2. 0 \notin ExecutesWith(tag)
        BY <3>1, Refusals
      <4>3. PICK code \in ExecutesWith(tag) \ {0} : replies' = <<Ack(n), Err(code, n)>>
        BY <1>4, <4>2
      <4>4. code = 1
        BY <4>1
      <4> QED BY <4>3, <4>4
    <3>7. Matches(Ack(n), <<"ack", NextId>>)
      BY Kinds, Patterns DEF InStep
    <3>3. Matches(Err(1, n), <<"err", 1>>)
      BY ErrMatches
    <3>4. c.need = {<<"ack", NextId>>, <<"err", 1>>} /\ c.never = {}
      BY <2>2 DEF Refusing
    <3>5. \A p \in c.need : Matches(Ack(n), p) \/ Matches(Err(1, n), p)
      BY <3>3, <3>4, <3>7
    <3>6. Meets(c, <<Ack(n), Err(1, n)>>)
      BY <3>4, <3>5, TwoHeard
    <3> QED BY <3>2, <3>6
  <2>3. CASE Buffered(c)
    <3>1. tag = "buffer"
      BY <1>2, <2>3, CommandTags DEF Buffered
    <3>2. 0 \notin ExecutesWith(tag)
      BY <3>1, Refusals
    <3>3. PICK code \in ExecutesWith(tag) \ {0} : replies' = <<Ack(n), Err(code, n)>>
      BY <1>4, <3>2
    <3> DEFINE e == Err(code, n)
    <3>4. e.kind = "err" /\ Ack(n).kind = "ack" /\ replies' = <<Ack(n), e>>
      BY <3>3, Kinds
    <3>5. Matches(Ack(n), <<"ack", NextId>>)
      BY Kinds, Patterns DEF InStep
    <3>6. c.need = {<<"ack", NextId>>} /\ c.never = {"nack"}
      BY <2>3 DEF Buffered
    <3> HIDE DEF e
    <3>7. Meets(c, <<Ack(n), e>>)
      BY <3>4, <3>5, <3>6, TwoHeard
    <3> QED BY <3>4, <3>7
  <2> QED BY <1>1, <2>1, <2>2, <2>3
<1>7. Passes(c, replies')
  BY <1>1, <1>6 DEF Passes
<1>8. Fair(c, replies', Ran(Sent(c)))
  BY <1>4, <1>7 DEF Fair
<1>9. ASSUME c.line = Command("telemetry")
      PROVE  "header" \in suite'.knows
  <2>1. "header" \in Learnt(c, ShownBy(c, replies', Ran(Sent(c))))
    <3>1. c.line.tag = "telemetry"
      BY <1>9, LineFields
    <3>2. ShownBy(c, replies', Ran(Sent(c))) = replies'
      BY <1>4, AllShown
    <3> QED BY <1>4, <3>1, <3>2 DEF Learnt
  <2>2. Concluded(c, Sent(c), replies', 0, Ran(Sent(c)))
    BY Fields DEF Perfect
  <2> QED BY <2>1, <2>2 DEF Concluded
<1> QED BY <1>5, <1>8, <1>9

\* A line that is sent and not judged.
LEMMA SendRule ==
  ASSUME NEW tag, tag # "malformed", InStep, Perfect(Sends(Command(tag)))
  PROVE  /\ Fair(Sends(Command(tag)), replies', Ran(Sent(Sends(Command(tag)))))
         /\ suite'.seq = expectedNext_' /\ gapOutstanding_' = FALSE
<1> DEFINE c == Sends(Command(tag))
<1>1. c.line = Command(tag) /\ c.kind = "send"
  BY KindFields
<1>2. Perfect(c)
  OBVIOUS
<1> HIDE DEF c
<1>3. /\ expectedNext_' = expectedNext_ + 1 /\ gapOutstanding_' = FALSE
      /\ suite'.seq = IF c.kind = "reset" THEN 1 ELSE expectedNext_ + 1
      /\ Ran(Sent(c))
  BY <1>1, <1>2, Executing
<1>4. ~Judged(c)
  BY <1>1 DEF Judged
<1>5. Fair(c, replies', Ran(Sent(c)))
  BY <1>3, <1>4 DEF Fair
<1> QED BY <1>1, <1>3, <1>5 DEF c

\* A query moves neither the stream nor the counter.
LEMMA QueryUnmoved ==
  ASSUME NEW c, c.line = Query, c.kind \notin {"reset", "motion"},
         suite \in SuiteRecords, Numbers, NEW got, NEW lost, Receive(Sent(c)),
         Conclude(c, Sent(c), got, lost, Ran(Sent(c)))
  PROVE  Unmoved /\ c.line.id # NextId
<1>1. c.line.id # NextId /\ Sent(c) = c.line
  BY LineSent, LineFields
<1>2. Sent(c).verb = "QUERY" /\ Sent(c).tag = "query"
  BY <1>1, LineFields
<1>3. expectedNext_' = expectedNext_ /\ gapOutstanding_' = gapOutstanding_
  BY <1>2, AnswerQuery
<1>4. Concluded(c, Sent(c), got, lost, Ran(Sent(c)))
  BY Fields
<1>5. suite'.seq = suite.seq
  BY <1>1, <1>4, CounterStays DEF Concluded
<1>6. suite.knows \subseteq suite'.knows /\ suite'.refused = suite.refused
  BY <1>4 DEF Concluded
<1>7. suite'.rolling = suite.rolling
  BY <1>2, <1>4 DEF Concluded
<1>8. suite.latch => suite'.latch
  BY <1>4 DEF Concluded
<1> QED BY <1>1, <1>3, <1>5, <1>6, <1>7, <1>8 DEF Unmoved

LEMMA TurnedFields ==
  Turned.kind = "turned" /\ Turned.line = Query /\ Turned.tries = 1
BY CaseFields DEF Turned

\* What turned is known from the frames, or the robot is latched.
LEMMA TurnedRule ==
  ASSUME NEW a \in {"ready", "m5"}, Exact(a), Loose(a), ~Skip(Turned), Perfect(Turned)
  PROVE  /\ Fair(Turned, replies', Ran(Sent(Turned)))
         /\ suite'.seq = expectedNext_' /\ gapOutstanding_' = FALSE
<1>1. Unmoved /\ Turned.line.id # NextId
  BY TurnedFields, QueryUnmoved DEF Perfect
<1>2. suite.seq = expectedNext_ /\ gapOutstanding_ = FALSE
  BY DEF Exact, Trailing, Following, InMotion
<1>3. suite.latch \/ (suite.rolling /\ "header" \in suite.knows)
  BY TurnedFields DEF Exact, Skip
<1>4. Passes(Turned, replies') \/ Reason(Turned) # "wire"
  BY <1>3, TurnedFields DEF Passes, Reason
<1>5. Fair(Turned, replies', Ran(Sent(Turned)))
  BY <1>1, <1>4 DEF Fair
<1> QED BY <1>1, <1>2, <1>5 DEF Unmoved

LEMMA HeaderFields ==
  Header.kind = "header" /\ Header.line = Command("telemetry") /\ Header.tries = 1
BY CaseFields DEF Header

LEMMA HeaderRule ==
  ASSUME InStep, Perfect(Header)
  PROVE  /\ Fair(Header, replies', Ran(Sent(Header))) /\ ~SuiteEnds(Header, ShownBy(Header, replies', Ran(Sent(Header))))
         /\ suite'.seq = expectedNext_' /\ gapOutstanding_' = FALSE /\ "header" \in suite'.knows
<1>1. /\ expectedNext_' = expectedNext_ + 1 /\ gapOutstanding_' = FALSE
      /\ suite'.seq = IF Header.kind = "reset" THEN 1 ELSE expectedNext_ + 1
      /\ Ran(Sent(Header)) /\ Has(replies', <<"ack", AnyNumber>>)
  <2>1. "telemetry" # "malformed"
    OBVIOUS
  <2> QED BY <2>1, HeaderFields, Executing
<1>2. Passes(Header, replies') /\ ~SuiteEnds(Header, replies')
  BY <1>1, HeaderFields DEF Passes, SuiteEnds
<1>3. Fair(Header, replies', Ran(Sent(Header)))
  BY <1>1, <1>2 DEF Fair
<1>7. ShownBy(Header, replies', Ran(Sent(Header))) = replies'
  BY <1>1, AllShown
<1>4. "header" \in Learnt(Header, ShownBy(Header, replies', Ran(Sent(Header))))
  BY <1>1, <1>7, HeaderFields, LineFields DEF Learnt
<1>5. Concluded(Header, Sent(Header), replies', 0, Ran(Sent(Header)))
  BY Fields DEF Perfect
<1>6. "header" \in suite'.knows
  BY <1>4, <1>5 DEF Concluded
<1> QED BY <1>1, <1>2, <1>3, <1>6, <1>7, HeaderFields

LEMMA MovingFields ==
  ASSUME NEW c \in Moving
  PROVE  /\ \E tag \in {"move", "goto"} : c.line = Command(tag)
         /\ c.kind = "motion" /\ c.tries = 1 /\ c.need = {<<"ack", NextId>>} /\ c.never = {}
<1>1. CASE c = Case("motion", Command("move"), 1, {<<"ack", NextId>>}, {})
  BY <1>1 DEF Case
<1>2. CASE c = Case("motion", Command("goto"), 1, {<<"ack", NextId>>}, {})
  BY <1>2 DEF Case
<1> QED BY <1>1, <1>2 DEF Moving

\* A motion is started, refused, or held by the latch.
LEMMA MovingRule ==
  ASSUME NEW c \in Moving, InStep, Perfect(c), "header" \in suite.knows
  PROVE  /\ Fair(c, replies', Ran(Sent(c)))
         /\ suite'.seq = expectedNext_' /\ gapOutstanding_' = FALSE
         /\ suite'.refused \/ suite'.latch \/ (suite'.rolling /\ "header" \in suite'.knows)
<1>1. PICK tag \in {"move", "goto"} : c.line = Command(tag)
  BY MovingFields
<1> DEFINE n == expectedNext_
<1>2. c.kind = "motion" /\ c.tries = 1 /\ c.need = {<<"ack", NextId>>} /\ c.never = {}
  BY MovingFields
<1>3. /\ expectedNext_' = n + 1 /\ gapOutstanding_' = FALSE
      /\ suite'.seq = IF c.kind = "reset" THEN 1 ELSE n + 1
      /\ Ran(Sent(c)) /\ Sent(c).tag = tag
      /\ \/ 0 \in ExecutesWith(tag) /\ replies' = <<Ack(n)>>
         \/ \E code \in ExecutesWith(tag) \ {0} : replies' = <<Ack(n), Err(code, n)>>
      /\ Has(replies', <<"ack", NextId>>)
  BY <1>1, Executing
<1>4. Meets(c, replies')
  BY <1>2, <1>3 DEF Meets
<1>5. Concluded(c, Sent(c), replies', 0, Ran(Sent(c)))
  BY Fields DEF Perfect
<1>6. CASE replies' = <<Ack(n)>>
  <2>1. \A i \in DOMAIN <<Ack(n)>> : <<Ack(n)>>[i].kind = "ack"
    BY Kinds
  <2>2. Passes(c, replies')
    BY <1>2, <1>4, <1>6, <2>1 DEF Passes
  <2>3. Len(replies') = 1
    BY <1>6
  <2>4. suite'.rolling = ~suite.latch
    BY <1>3, <1>5, <2>3 DEF Concluded
  <2>5. (suite.latch => suite'.latch) /\ suite.knows \subseteq suite'.knows
    BY <1>2, <1>5 DEF Concluded
  <2>6. Fair(c, replies', Ran(Sent(c)))
    BY <1>3, <2>2 DEF Fair
  <2> QED BY <1>2, <1>3, <2>4, <2>5, <2>6
<1>7. ASSUME NEW code \in ExecutesWith(tag) \ {0}, replies' = <<Ack(n), Err(code, n)>>
      PROVE  Fair(c, replies', Ran(Sent(c))) /\ suite'.refused
  <2>1. code \in accept_err(c)
    <3>1. CASE tag = "move"
      BY <1>7, <3>1, Results
    <3>2. CASE tag = "goto"
      <4>1. accept_err(c) = {6, 8}
        BY <1>1, <3>2, LineFields DEF accept_err
      <4> QED BY <1>7, <3>2, <4>1, Results
    <3> QED BY <3>1, <3>2
  <2> DEFINE e == Err(code, n)
  <2>2. e.kind = "err" /\ e.n = code
    BY Kinds
  <2>3. Ack(n).kind = "ack" /\ replies' = <<Ack(n), e>>
    BY <1>7, Kinds
  <2> HIDE DEF e
  <2>4. \A i \in DOMAIN replies' : replies'[i].kind = "err" => replies'[i].n \in accept_err(c)
    BY <2>1, <2>2, <2>3
  <2>5. Passes(c, replies')
    BY <1>2, <1>4, <2>4 DEF Passes
  <2>6. Has(replies', <<"err", AnyNumber>>)
    BY <2>2, <2>3, Patterns, TwoHeard
  <2>7. suite'.refused
    BY <1>2, <1>5, <2>6 DEF Concluded
  <2>8. Fair(c, replies', Ran(Sent(c)))
    BY <1>3, <2>5 DEF Fair
  <2> QED BY <2>7, <2>8
<1> QED BY <1>2, <1>3, <1>6, <1>7

\* The move of run_motion().
LEMMA MoveRule ==
  ASSUME InStep, Perfect(Tracked("move")), "header" \in suite.knows
  PROVE  /\ Fair(Tracked("move"), replies', Ran(Sent(Tracked("move"))))
         /\ suite'.seq = expectedNext_' /\ gapOutstanding_' = FALSE
         /\ suite'.latch \/ (suite'.rolling /\ "header" \in suite'.knows)
<1> DEFINE c == Tracked("move")
           n == expectedNext_
<1>1. /\ c.line = Command("move") /\ c.kind = "judge" /\ c.need = {<<"ack", NextId>>}
      /\ c.never = {}
  BY KindFields
<1>2. Perfect(c)
  OBVIOUS
<1> HIDE DEF c
<1>3. /\ expectedNext_' = n + 1 /\ gapOutstanding_' = FALSE
      /\ suite'.seq = IF c.kind = "reset" THEN 1 ELSE n + 1
      /\ Ran(Sent(c)) /\ Sent(c).tag = "move"
      /\ \/ 0 \in ExecutesWith("move") /\ replies' = <<Ack(n)>>
         \/ \E code \in ExecutesWith("move") \ {0} : replies' = <<Ack(n), Err(code, n)>>
      /\ Has(replies', <<"ack", NextId>>)
  BY <1>1, <1>2, Executing
<1>4. Len(replies') = 1
  <2>1. replies' = <<Ack(n)>>
    BY <1>3, Results
  <2> QED BY <2>1
<1>5. Passes(c, replies')
  BY <1>1, <1>3 DEF Passes, Meets
<1>6. Concluded(c, Sent(c), replies', 0, Ran(Sent(c)))
  BY <1>2, Fields DEF Perfect
<1>7. suite'.rolling = ~suite.latch
  BY <1>3, <1>4, <1>6 DEF Concluded
<1>8. (suite.latch => suite'.latch) /\ suite.knows \subseteq suite'.knows
  BY <1>1, <1>6 DEF Concluded
<1>9. Fair(c, replies', Ran(Sent(c)))
  BY <1>3, <1>5 DEF Fair
<1>10. suite'.seq = expectedNext_' /\ gapOutstanding_' = FALSE
  BY <1>1, <1>3
<1> QED BY <1>7, <1>8, <1>9, <1>10 DEF c

LEMMA HelloFields ==
  /\ Resets.kind = "reset" /\ Resets.line = Ask("HELLO", NoId, "hello") /\ Resets.tries = 1
  /\ \A c \in Greeting : /\ c.kind \in {"banner", "judge"} /\ c.line = Ask("HELLO", NoId, "hello")
                         /\ c.need = {<<"device", AnyNumber>>} /\ c.never = {}
BY DEF Resets, Greeting, Judge, Case

\* HELLO resets the stream.
LEMMA HelloAnswered ==
  ASSUME Numbers, NEW line, line = Ask("HELLO", NoId, "hello"), Receive(line)
  PROVE  expectedNext_' = 1 /\ gapOutstanding_' = FALSE /\ replies' = <<Word("device")>>
<1>1. line.verb = "HELLO" /\ line.id \in Ids \cup {NoId}
  BY LineFields
<1> QED BY <1>1, AnswersAreTrue

LEMMA ResetRule ==
  ASSUME Perfect(Resets)
  PROVE  /\ Fair(Resets, replies', Ran(Sent(Resets)))
         /\ suite'.seq = 1 /\ expectedNext_' = 1 /\ gapOutstanding_' = FALSE
<1>1. Resets.line.id # NextId /\ Sent(Resets) = Ask("HELLO", NoId, "hello")
  BY HelloFields, LineSent, LineFields
<1>2. expectedNext_' = 1 /\ gapOutstanding_' = FALSE
  BY <1>1, HelloAnswered DEF Perfect
<1>3. Concluded(Resets, Sent(Resets), replies', 0, Ran(Sent(Resets)))
  BY Fields DEF Perfect
<1>4. suite'.seq = 1
  BY <1>3, HelloFields DEF Concluded
<1>5. Fair(Resets, replies', Ran(Sent(Resets)))
  BY <1>1, HelloFields DEF Fair, Judged
<1> QED BY <1>2, <1>4, <1>5

LEMMA GreetingRule ==
  ASSUME NEW c \in Greeting, Perfect(c), suite.seq = 1
  PROVE  /\ Fair(c, replies', Ran(Sent(c)))
         /\ suite'.seq = 1 /\ expectedNext_' = 1 /\ gapOutstanding_' = FALSE
<1>1. c.line.id # NextId /\ Sent(c) = Ask("HELLO", NoId, "hello")
  BY HelloFields, LineSent, LineFields
<1>2. expectedNext_' = 1 /\ gapOutstanding_' = FALSE /\ replies' = <<Word("device")>>
  BY <1>1, HelloAnswered DEF Perfect
<1>3. Concluded(c, Sent(c), replies', 0, Ran(Sent(c)))
  BY Fields DEF Perfect
<1>4. suite'.seq = 1
  BY <1>1, <1>3, HelloFields, CounterStays DEF Concluded
<1>5. c.need = {<<"device", AnyNumber>>} /\ c.never = {}
  BY HelloFields
<1>6. Matches(Word("device"), <<"device", AnyNumber>>)
  BY Kinds, Patterns
<1>7. Meets(c, <<Word("device")>>)
  BY <1>5, <1>6, OneHeard
<1>8. Passes(c, replies')
  BY <1>2, <1>7, HelloFields DEF Passes
<1> QED BY <1>1, <1>2, <1>4, <1>8 DEF Fair

LEMMA QueryFields ==
  /\ Silent.kind = "judge" /\ Silent.line = Query /\ Silent.need = {<<"answer", AnyNumber>>}
  /\ Silent.never = {"nack"}
  /\ Reminded.kind = "judge" /\ Reminded.line = Query /\ Reminded.never = {}
  /\ Reminded.need = {<<"answer", AnyNumber>>, <<"nack", 1>>}
BY DEF Silent, Reminded, Judge, Case

\* A query is answered alone, and with the reminder behind a gap.
LEMMA SilentRule ==
  ASSUME Exact("fresh"), Loose("fresh"), Perfect(Silent)
  PROVE  Fair(Silent, replies', Ran(Sent(Silent)))
<1>1. Silent.line.id # NextId /\ Sent(Silent) = Query
  BY QueryFields, LineSent, LineFields
<1>2. gapOutstanding_ = FALSE
  BY DEF Exact, Trailing, Following
<1>3. replies' = <<Word("answer")>>
  BY <1>1, <1>2, AnswerQuery, LineFields DEF Perfect
<1>4. Matches(Word("answer"), <<"answer", AnyNumber>>) /\ Word("answer").kind \notin {"nack"}
  BY Kinds, Patterns
<1>5. Meets(Silent, <<Word("answer")>>)
  BY <1>4, QueryFields, OneHeard
<1>6. Passes(Silent, replies')
  BY <1>3, <1>5, QueryFields DEF Passes
<1> QED BY <1>1, <1>6 DEF Fair

LEMMA RemindedRule ==
  ASSUME Exact("gap1"), Perfect(Reminded)
  PROVE  Fair(Reminded, replies', Ran(Sent(Reminded))) /\ Unmoved
<1>1. Reminded.line.id # NextId /\ Sent(Reminded) = Query
  BY QueryFields, LineSent, LineFields
<1>2. gapOutstanding_ = TRUE /\ expectedNext_ = 1
  BY DEF Exact
<1>3. replies' = <<Word("answer"), Nack(expectedNext_)>>
  BY <1>1, <1>2, AnswerQuery, LineFields DEF Perfect
<1> DEFINE r == Nack(expectedNext_)
           patterns == {<<"answer", AnyNumber>>, <<"nack", 1>>}
<1>4. Matches(Word("answer"), <<"answer", AnyNumber>>)
  BY Kinds, Patterns
<1>5. Matches(r, <<"nack", 1>>)
  BY <1>2 DEF Matches, Nack, AnyNumber, NextId
<1>6. Reminded.need = patterns /\ Reminded.never = {}
  BY QueryFields
<1>7. \A p \in patterns : Matches(Word("answer"), p) \/ Matches(r, p)
  BY <1>4, <1>5
<1> HIDE DEF r, patterns
<1>8. Meets(Reminded, <<Word("answer"), r>>)
  BY <1>6, <1>7, TwoHeard
<1>9. Passes(Reminded, replies')
  BY <1>3, <1>8, QueryFields DEF Passes, r
<1>10. Unmoved
  <2>1. Reminded.kind \notin {"reset", "motion"}
    BY QueryFields
  <2> QED BY <2>1, QueryFields, QueryUnmoved DEF Perfect
<1> QED BY <1>1, <1>9, <1>10 DEF Fair

LEMMA ExactNumbers ==
  ASSUME NEW l \in {"n2", "n3", "n4", "one", "gap1", "any"},
         l = "n2" => expectedNext_' = 2, l = "n3" => expectedNext_' = 3, l = "n4" => expectedNext_' = 4,
         l = "one" => expectedNext_' = 1, l = "gap1" => expectedNext_' = 1 /\ gapOutstanding_' = TRUE
  PROVE  Exact(l)' /\ Loose(l)'
<1>1. l \notin Trailing /\ l # "fresh" /\ l \notin {"headed", "m3", "m4", "ready", "m5"}
  BY DEF Trailing, Following, InMotion
<1>2. Loose(l)'
  BY <1>1 DEF Loose
<1>3. Exact(l)'
  BY <1>1 DEF Exact
<1> QED BY <1>2, <1>3

\* A judged line with an id of its own.
LEMMA NumberedJudged ==
  ASSUME NEW c, c.line.id # NextId, c.kind \in {"judge", "send"}, Meets(c, replies'), NEW ran
  PROVE  Fair(c, replies', ran)
BY DEF Fair, Passes

LEMMA NumberedLines ==
  ASSUME NEW n \in Nat, NEW tag, NEW need, NEW c, c = Judge(Numbered(n, tag), need)
  PROVE  /\ c.line.id # NextId /\ Sent(c) = Numbered(n, tag) /\ c.kind = "judge"
         /\ c.need = need /\ c.never = {}
<1>1. c.line = Numbered(n, tag) /\ c.kind = "judge" /\ c.need = need /\ c.never = {}
  BY DEF Judge, Case
<1>2. c.line.id = n
  BY <1>1, LineFields
<1>3. c.line.id # NextId
  BY <1>2 DEF NextId
<1>4. Sent(c) = c.line
  BY <1>3, LineSent
<1> QED BY <1>1, <1>3, <1>4

\* The next id, accepted; with what it was refused with.
LEMMA NumberedNext ==
  ASSUME Numbers, NEW n \in Nat, NEW tag, tag # "malformed", n = expectedNext_,
         Receive(Numbered(n, tag)), AsBuilt(Numbered(n, tag))
  PROVE  /\ expectedNext_' = expectedNext_ + 1
         /\ tag = "stop" => replies' = <<Ack(n)>>
         /\ tag = "unknown" => replies' = <<Ack(n), Err(1, n)>>
         /\ tag = "write_only" => replies' = <<Ack(n), Err(12, n)>>
<1> DEFINE line == Numbered(n, tag)
<1>1. line.verb = "COMMAND" /\ line.id = expectedNext_ /\ line.tag = tag /\ line.decodes
  BY DEF Numbered, Ask
<1>2. Receive(line) /\ AsBuilt(line)
  OBVIOUS
<1> HIDE DEF line
<1>3. /\ expectedNext_' = expectedNext_ + 1
      /\ \/ 0 \in ExecutesWith(line.tag) /\ replies' = <<Ack(expectedNext_)>>
         \/ \E code \in ExecutesWith(line.tag) \ {0} :
              replies' = <<Ack(expectedNext_), Err(code, expectedNext_)>>
  BY <1>1, <1>2, AnswerNext
<1>4. /\ expectedNext_' = expectedNext_ + 1
      /\ \/ 0 \in ExecutesWith(tag) /\ replies' = <<Ack(n)>>
         \/ \E code \in ExecutesWith(tag) \ {0} : replies' = <<Ack(n), Err(code, n)>>
  BY <1>1, <1>3
<1>5. ASSUME tag = "stop"
      PROVE  replies' = <<Ack(n)>>
  <2>1. ExecutesWith(tag) = {0}
    BY <1>5, Results
  <2> QED BY <1>4, <2>1
<1>6. ASSUME tag = "unknown"
      PROVE  replies' = <<Ack(n), Err(1, n)>>
  <2>1. ExecutesWith(tag) = {1}
    BY <1>6, Results
  <2>2. 0 \notin ExecutesWith(tag)
    BY <1>6, Refusals
  <2>3. PICK code \in ExecutesWith(tag) \ {0} : replies' = <<Ack(n), Err(code, n)>>
    BY <1>4, <2>2
  <2>4. code = 1
    BY <2>1
  <2> QED BY <2>3, <2>4
<1>7. ASSUME tag = "write_only"
      PROVE  replies' = <<Ack(n), Err(12, n)>>
  <2>1. ExecutesWith(tag) = {12}
    BY <1>7, Results
  <2>2. 0 \notin ExecutesWith(tag)
    BY <1>7, Refusals
  <2>3. PICK code \in ExecutesWith(tag) \ {0} : replies' = <<Ack(n), Err(code, n)>>
    BY <1>4, <2>2
  <2>4. code = 12
    BY <2>1
  <2> QED BY <2>3, <2>4
<1> QED BY <1>4, <1>5, <1>6, <1>7

LEMMA AckMatches ==
  ASSUME NEW n \in Nat
  PROVE  Matches(Ack(n), <<"ack", n>>) /\ Matches(Nack(n), <<"nack", n>>)
BY DEF Matches, AnyNumber, NextId, Ack, Nack

\* What two patterns need, two replies give.
LEMMA TwoMet ==
  ASSUME NEW c, NEW r, NEW q, NEW p1, NEW p2, c.need = {p1, p2}, c.never = {},
         Matches(r, p1), Matches(q, p2)
  PROVE  Meets(c, <<r, q>>)
<1>1. \A p \in c.need : Matches(r, p) \/ Matches(q, p)
  OBVIOUS
<1>2. r.kind \notin c.never /\ q.kind \notin c.never
  OBVIOUS
<1> QED BY <1>1, <1>2, TwoHeard

LEMMA OneMet ==
  ASSUME NEW c, NEW r, NEW p1, c.need = {p1}, c.never = {}, Matches(r, p1)
  PROVE  Meets(c, <<r>>)
<1>1. \A p \in c.need : Matches(r, p)
  OBVIOUS
<1>2. r.kind \notin c.never
  OBVIOUS
<1> QED BY <1>1, <1>2, OneHeard

\* The ten numbered cases.
Refused(a, c, b) ==
    \/ a = "fresh" /\ b = "n2" /\ c = Judge(Numbered(1, "unknown"), {<<"ack", 1>>, <<"err", 1>>})
    \/ a = "n2" /\ b = "n3" /\ c = Judge(Numbered(2, "unknown"), {<<"ack", 2>>, <<"err", 1>>})
    \/ a = "n3" /\ b = "n4" /\ c = Judge(Numbered(3, "write_only"), {<<"ack", 3>>, <<"err", 12>>})

LEMMA CountingRefused ==
  ASSUME NEW a, NEW b, NEW c, Exact(a), Perfect(c), Refused(a, c, b)
  PROVE  Fair(c, replies', Ran(Sent(c))) /\ Exact(b)' /\ Loose(b)'
<1>1. ASSUME NEW n \in Nat, NEW p1, NEW p2, c = Judge(Numbered(n, "unknown"), {p1, p2}),
             expectedNext_ = n, Matches(Ack(n), p1), Matches(Err(1, n), p2)
      PROVE  Fair(c, replies', Ran(Sent(c))) /\ expectedNext_' = n + 1
  <2> DEFINE need == {p1, p2}
             line == Numbered(n, "unknown")
  <2>0. n \in Nat /\ line = Numbered(n, "unknown")
    OBVIOUS
  <2>1. c = Judge(line, need)
    BY <1>1
  <2> HIDE DEF need, line
  <2>2. /\ c.line.id # NextId /\ Sent(c) = line /\ c.kind = "judge"
        /\ c.need = need /\ c.never = {}
    BY <2>0, <2>1, NumberedLines
  <2>3. Numbers /\ Receive(line) /\ AsBuilt(line) /\ "unknown" # "malformed"
    BY <2>2 DEF Perfect, line
  <2>4. expectedNext_' = n + 1 /\ replies' = <<Ack(n), Err(1, n)>>
    BY <1>1, <2>0, <2>3, NumberedNext
  <2>5. Meets(c, <<Ack(n), Err(1, n)>>)
    BY <1>1, <2>2, TwoMet DEF need
  <2>6. Fair(c, replies', Ran(Sent(c)))
    BY <2>2, <2>4, <2>5, NumberedJudged
  <2> QED BY <2>4, <2>6
<1>2. ASSUME NEW n \in Nat, NEW p1, NEW p2, c = Judge(Numbered(n, "write_only"), {p1, p2}),
             expectedNext_ = n, Matches(Ack(n), p1), Matches(Err(12, n), p2)
      PROVE  Fair(c, replies', Ran(Sent(c))) /\ expectedNext_' = n + 1
  <2> DEFINE need == {p1, p2}
             line == Numbered(n, "write_only")
  <2>0. n \in Nat /\ line = Numbered(n, "write_only")
    OBVIOUS
  <2>1. c = Judge(line, need)
    BY <1>2
  <2> HIDE DEF need, line
  <2>2. /\ c.line.id # NextId /\ Sent(c) = line /\ c.kind = "judge"
        /\ c.need = need /\ c.never = {}
    BY <2>0, <2>1, NumberedLines
  <2>3. Numbers /\ Receive(line) /\ AsBuilt(line) /\ "write_only" # "malformed"
    BY <2>2 DEF Perfect, line
  <2>4. expectedNext_' = n + 1 /\ replies' = <<Ack(n), Err(12, n)>>
    BY <1>2, <2>0, <2>3, NumberedNext
  <2>5. Meets(c, <<Ack(n), Err(12, n)>>)
    BY <1>2, <2>2, TwoMet DEF need
  <2>6. Fair(c, replies', Ran(Sent(c)))
    BY <2>2, <2>4, <2>5, NumberedJudged
  <2> QED BY <2>4, <2>6
<1>3. CASE a = "fresh" /\ b = "n2" /\ c = Judge(Numbered(1, "unknown"), {<<"ack", 1>>, <<"err", 1>>})
  <2>1. expectedNext_ = 1 /\ b = "n2"
    BY <1>3 DEF Exact
  <2>2. Matches(Ack(1), <<"ack", 1>>) /\ Matches(Err(1, 1), <<"err", 1>>)
    BY AckMatches, ErrMatches
  <2>3. Fair(c, replies', Ran(Sent(c))) /\ expectedNext_' = 1 + 1
    BY <1>1, <1>3, <2>1, <2>2
  <2>4. expectedNext_' = 2
    BY <2>3
  <2> QED BY <2>1, <2>3, <2>4, ExactNumbers
<1>4. CASE a = "n2" /\ b = "n3" /\ c = Judge(Numbered(2, "unknown"), {<<"ack", 2>>, <<"err", 1>>})
  <2>1. expectedNext_ = 2 /\ b = "n3"
    BY <1>4 DEF Exact
  <2>2. Matches(Ack(2), <<"ack", 2>>) /\ Matches(Err(1, 2), <<"err", 1>>)
    BY AckMatches, ErrMatches
  <2>3. Fair(c, replies', Ran(Sent(c))) /\ expectedNext_' = 2 + 1
    BY <1>1, <1>4, <2>1, <2>2
  <2>4. expectedNext_' = 3
    BY <2>3
  <2> QED BY <2>1, <2>3, <2>4, ExactNumbers
<1>5. CASE a = "n3" /\ b = "n4" /\ c = Judge(Numbered(3, "write_only"), {<<"ack", 3>>, <<"err", 12>>})
  <2>1. expectedNext_ = 3 /\ b = "n4"
    BY <1>5 DEF Exact
  <2>2. Matches(Ack(3), <<"ack", 3>>) /\ Matches(Err(12, 3), <<"err", 12>>)
    BY AckMatches, ErrMatches
  <2>3. Fair(c, replies', Ran(Sent(c))) /\ expectedNext_' = 3 + 1
    BY <1>2, <1>5, <2>1, <2>2
  <2>4. expectedNext_' = 4
    BY <2>3
  <2> QED BY <2>1, <2>3, <2>4, ExactNumbers
<1> QED BY <1>3, <1>4, <1>5 DEF Refused

LEMMA CountingStops ==
  ASSUME NEW a, NEW b, NEW c, Exact(a), Perfect(c),
         \/ a \in {"one", "fresh"} /\ b = "n2" /\ c = Judge(Numbered(1, "stop"), {<<"ack", 1>>})
         \/ a = "n2" /\ b = "n3" /\ c = Judge(Numbered(2, "stop"), {<<"ack", 2>>})
  PROVE  Fair(c, replies', Ran(Sent(c))) /\ Exact(b)' /\ Loose(b)'
<1>1. ASSUME NEW n \in Nat, c = Judge(Numbered(n, "stop"), {<<"ack", n>>}), expectedNext_ = n
      PROVE  Fair(c, replies', Ran(Sent(c))) /\ expectedNext_' = n + 1
  <2> DEFINE need == {<<"ack", n>>}
  <2>1. c = Judge(Numbered(n, "stop"), need)
    BY <1>1
  <2> HIDE DEF need
  <2>2. /\ c.line.id # NextId /\ Sent(c) = Numbered(n, "stop") /\ c.kind = "judge"
        /\ c.need = need /\ c.never = {}
    BY <2>1, NumberedLines
  <2>3. Numbers /\ Receive(Numbered(n, "stop")) /\ AsBuilt(Numbered(n, "stop")) /\ "stop" # "malformed"
    BY <2>2 DEF Perfect
  <2>4. expectedNext_' = n + 1 /\ replies' = <<Ack(n)>>
    BY <1>1, <2>3, NumberedNext
  <2>5. Matches(Ack(n), <<"ack", n>>)
    BY AckMatches
  <2>6. Meets(c, <<Ack(n)>>)
    BY <2>2, <2>5, OneMet DEF need
  <2>7. Fair(c, replies', Ran(Sent(c)))
    BY <2>2, <2>4, <2>6, NumberedJudged
  <2> QED BY <2>4, <2>7
<1>2. CASE a \in {"one", "fresh"} /\ b = "n2" /\ c = Judge(Numbered(1, "stop"), {<<"ack", 1>>})
  <2>1. expectedNext_ = 1
    BY <1>2 DEF Exact
  <2>2. Fair(c, replies', Ran(Sent(c))) /\ expectedNext_' = 1 + 1
    BY <1>1, <1>2, <2>1
  <2> QED BY <1>2, <2>2, ExactNumbers
<1>3. CASE a = "n2" /\ b = "n3" /\ c = Judge(Numbered(2, "stop"), {<<"ack", 2>>})
  <2>1. expectedNext_ = 2
    BY <1>3 DEF Exact
  <2>2. Fair(c, replies', Ran(Sent(c))) /\ expectedNext_' = 2 + 1
    BY <1>1, <1>3, <2>1
  <2> QED BY <1>3, <2>2, ExactNumbers
<1> QED BY <1>2, <1>3

LEMMA CountingCut ==
  ASSUME NEW a, NEW b, NEW c, Exact(a), Perfect(c),
         \/ a = "n4" /\ b = "any"
            /\ c = Judge(Numbered(4, "malformed"), {<<"nack", AnyNumber>>, <<"err", AnyNumber>>})
         \/ a = "fresh" /\ b = "any" /\ c = Judge(Numbered(1, "malformed"), {<<"nack", 1>>, <<"err", 2>>})
  PROVE  Fair(c, replies', Ran(Sent(c))) /\ Exact(b)' /\ Loose(b)'
<1>1. ASSUME NEW n \in Nat, NEW p1, NEW p2, c = Judge(Numbered(n, "malformed"), {p1, p2}),
             expectedNext_ = n, Matches(Nack(n), p1), Matches(Err(2, n), p2)
      PROVE  Fair(c, replies', Ran(Sent(c)))
  <2> DEFINE need == {p1, p2}
             line == Numbered(n, "malformed")
  <2>1. c = Judge(line, need)
    BY <1>1
  <2>2. line.verb = "COMMAND" /\ line.id = n /\ ~line.decodes
    BY DEF Numbered, Ask
  <2> HIDE DEF need
  <2>3. /\ c.line.id # NextId /\ Sent(c) = line /\ c.kind = "judge"
        /\ c.need = need /\ c.never = {}
    BY <2>1, NumberedLines
  <2> HIDE DEF line
  <2>4. Numbers /\ Receive(line)
    BY <2>3 DEF Perfect
  <2>5. replies' = <<Nack(n), Err(2, n)>>
    BY <1>1, <2>2, <2>4, AnswerCut
  <2>6. Meets(c, <<Nack(n), Err(2, n)>>)
    BY <1>1, <2>3, TwoMet DEF need
  <2> QED BY <2>3, <2>5, <2>6, NumberedJudged
<1>2. CASE a = "n4" /\ b = "any"
           /\ c = Judge(Numbered(4, "malformed"), {<<"nack", AnyNumber>>, <<"err", AnyNumber>>})
  <2>1. expectedNext_ = 4
    BY <1>2 DEF Exact
  <2>2. Matches(Nack(4), <<"nack", AnyNumber>>) /\ Matches(Err(2, 4), <<"err", AnyNumber>>)
    BY Kinds, Patterns
  <2>3. Fair(c, replies', Ran(Sent(c)))
    BY <1>1, <1>2, <2>1, <2>2
  <2> QED BY <1>2, <2>3, ExactNumbers
<1>3. CASE a = "fresh" /\ b = "any" /\ c = Judge(Numbered(1, "malformed"), {<<"nack", 1>>, <<"err", 2>>})
  <2>1. expectedNext_ = 1
    BY <1>3 DEF Exact
  <2>2. Matches(Nack(1), <<"nack", 1>>) /\ Matches(Err(2, 1), <<"err", 2>>)
    BY AckMatches, ErrMatches
  <2>3. Fair(c, replies', Ran(Sent(c)))
    BY <1>1, <1>3, <2>1, <2>2
  <2> QED BY <1>3, <2>3, ExactNumbers
<1> QED BY <1>2, <1>3

LEMMA CountingElse ==
  ASSUME NEW a, NEW b, NEW c, Exact(a), Perfect(c),
         \/ a = "fresh" /\ b = "one"
            /\ c = Judge(Numbered(MaxSequenceId, "stop"), {<<"nack", AnyNumber>>, <<"err", 3>>})
         \/ a = "n3" /\ b = "any" /\ c = Judge(Numbered(2, "stop"), {<<"ack", AnyNumber>>})
         \/ a = "fresh" /\ b = "gap1" /\ c = Sends(Numbered(9, "stop"))
  PROVE  Fair(c, replies', Ran(Sent(c))) /\ Exact(b)' /\ Loose(b)'
<1>0. MaxSequenceId \in Nat /\ MaxSequenceId > 200
  BY SuiteAssumption, MaxSequenceIdAssumption
<1>1. CASE a = "fresh" /\ b = "one"
           /\ c = Judge(Numbered(MaxSequenceId, "stop"), {<<"nack", AnyNumber>>, <<"err", 3>>})
  <2> DEFINE need == {<<"nack", AnyNumber>>, <<"err", 3>>}
             line == Numbered(MaxSequenceId, "stop")
             n == expectedNext_
  <2>1. c = Judge(line, need)
    BY <1>1
  <2>2. line.verb = "COMMAND" /\ line.id = MaxSequenceId
    BY DEF Numbered, Ask
  <2>3. Matches(Nack(n), <<"nack", AnyNumber>>) /\ Matches(Err(3, MaxSequenceId), <<"err", 3>>)
    BY Kinds, Patterns, ErrMatches
  <2> HIDE DEF need
  <2>4. /\ c.line.id # NextId /\ Sent(c) = line /\ c.kind = "judge"
        /\ c.need = need /\ c.never = {}
    BY <1>0, <2>1, NumberedLines
  <2> HIDE DEF line
  <2>5. Numbers /\ Receive(line) /\ line.verb \in Sequenced
    BY <2>2, <2>4 DEF Perfect, Sequenced
  <2>6. replies' = <<Nack(n), Err(3, MaxSequenceId)>> /\ expectedNext_' = expectedNext_
    BY <2>2, <2>5, AnswerReserved
  <2>7. Meets(c, <<Nack(n), Err(3, MaxSequenceId)>>)
    BY <2>3, <2>4, TwoMet DEF need
  <2>8. Fair(c, replies', Ran(Sent(c)))
    BY <2>4, <2>6, <2>7, NumberedJudged
  <2>9. expectedNext_' = 1
    BY <1>1, <2>6 DEF Exact
  <2> QED BY <1>1, <2>8, <2>9, ExactNumbers
<1>2. CASE a = "n3" /\ b = "any" /\ c = Judge(Numbered(2, "stop"), {<<"ack", AnyNumber>>})
  <2> DEFINE need == {<<"ack", AnyNumber>>}
             line == Numbered(2, "stop")
             r == Ack(expectedNext_ - 1)
  <2>1. c = Judge(line, need)
    BY <1>2
  <2>2. line.verb = "COMMAND" /\ line.id = 2
    BY DEF Numbered, Ask
  <2>3. Matches(r, <<"ack", AnyNumber>>)
    BY Kinds, Patterns
  <2> HIDE DEF need
  <2>4. /\ c.line.id # NextId /\ Sent(c) = line /\ c.kind = "judge"
        /\ c.need = need /\ c.never = {}
    BY <2>1, NumberedLines
  <2> HIDE DEF line
  <2>5. Numbers /\ Receive(line) /\ line.verb \in Sequenced
    BY <2>2, <2>4 DEF Perfect, Sequenced
  <2>6. expectedNext_ = 3
    BY <1>2 DEF Exact
  <2>7. replies' = <<r>>
    BY <2>2, <2>5, <2>6, AnswerStale
  <2> HIDE DEF r
  <2>8. Meets(c, <<r>>)
    BY <2>3, <2>4, OneMet DEF need
  <2>9. Fair(c, replies', Ran(Sent(c)))
    BY <2>4, <2>7, <2>8, NumberedJudged
  <2> QED BY <1>2, <2>9, ExactNumbers
<1>3. CASE a = "fresh" /\ b = "gap1" /\ c = Sends(Numbered(9, "stop"))
  <2> DEFINE line == Numbered(9, "stop")
  <2>1. c.kind = "send" /\ c.line = line
    BY <1>3, KindFields
  <2>2. line.verb = "COMMAND" /\ line.id = 9
    BY DEF Numbered, Ask
  <2> HIDE DEF line
  <2>3. c.line.id # NextId /\ Sent(c) = line
    BY <2>1, <2>2, LineSent DEF NextId
  <2>4. Numbers /\ Receive(line) /\ line.verb \in Sequenced
    BY <2>2, <2>3 DEF Perfect, Sequenced
  <2>5. expectedNext_ = 1
    BY <1>3 DEF Exact
  <2>8. line.id \in Nat /\ line.id > expectedNext_ /\ line.id < MaxSequenceId
    BY <1>0, <2>2, <2>5
  <2>6. expectedNext_' = expectedNext_ /\ gapOutstanding_' = TRUE
    BY <2>4, <2>8, AnswerGap
  <2>7. Fair(c, replies', Ran(Sent(c)))
    BY <2>1, <2>3 DEF Fair, Judged
  <2> QED BY <1>3, <2>5, <2>6, <2>7, ExactNumbers
<1> QED BY <1>1, <1>2, <1>3

-----------------------------------------------------------------------------
(* One case, from a label to the next. *)

LEMMA DrivingFields ==
  ASSUME NEW a, NEW b, NEW c, Driving(a, c, b)
  PROVE  /\ a \in Trailing /\ b \in Trailing /\ b # "fresh" /\ c.tries = 1
         /\ c.kind \in {"send", "motion", "turned", "header", "judge"}
         /\ c.line.verb \in {"COMMAND", "QUERY"}
<1>1. /\ {"fresh", "headed", "ready", "m3", "m4", "m5", "m6", "m7"} \cup Following \subseteq Trailing
      /\ {"headed", "ready", "tracked", "m3", "m4", "m5", "m6", "m7", "over"} \subseteq Trailing
  BY DEF Trailing, Following, InMotion
<1>2. CASE a \in Following /\ b = "headed" /\ c = Sends(Command("telemetry"))
  BY <1>1, <1>2, KindFields, LineFields
<1>3. CASE a = "headed" /\ b = "ready" /\ c \in Moving
  BY <1>1, <1>3, MovingFields, LineFields
<1>4. CASE (a = "ready" /\ b = "tracked" /\ c = Turned) \/ (a = "m5" /\ b = "m6" /\ c = Turned)
  BY <1>1, <1>4, TurnedFields, LineFields
<1>5. CASE a = "fresh" /\ b = "m3" /\ c = Header
  BY <1>1, <1>5, HeaderFields, LineFields
<1>6. CASE a = "m3" /\ b = "m4" /\ c = Sends(Query)
  BY <1>1, <1>6, KindFields, LineFields
<1>7. CASE a = "m4" /\ b = "m5" /\ c = Tracked("move")
  BY <1>1, <1>7, KindFields, LineFields
<1>8. CASE a = "m6" /\ b = "m7" /\ c = Sends(Command("stop"))
  BY <1>1, <1>8, KindFields, LineFields
<1>9. CASE a = "m7" /\ b = "over" /\ c = Sends(Command("quiet"))
  BY <1>1, <1>9, KindFields, LineFields
<1> QED BY <1>2, <1>3, <1>4, <1>5, <1>6, <1>7, <1>8, <1>9 DEF Driving

LEMMA CountingFields ==
  ASSUME NEW a, NEW b, NEW c, Counting(a, c, b)
  PROVE  /\ b \in {"n2", "n3", "n4", "one", "gap1", "any"} /\ c.tries = 1
         /\ c.kind \in {"judge", "send"} /\ c.line.verb = "COMMAND" /\ c.line.id # NextId
<1>0. \A n, tag, need : LET j == Judge(Numbered(n, tag), need)
                        IN j.tries = 1 /\ j.kind = "judge" /\ j.line = Numbered(n, tag)
  BY DEF Judge, Case
<1>1. b \in {"n2", "n3", "n4", "one", "gap1", "any"}
  BY DEF Counting
<1>2. \E n, tag, need : n \in Nat /\ (c = Judge(Numbered(n, tag), need) \/ c = Sends(Numbered(n, tag)))
  <2>1. MaxSequenceId \in Nat
    BY MaxSequenceIdAssumption
  <2> QED BY <2>1 DEF Counting
<1>3. PICK n, tag, need : n \in Nat /\ (c = Judge(Numbered(n, tag), need) \/ c = Sends(Numbered(n, tag)))
  BY <1>2
<1>4. c.tries = 1 /\ c.kind \in {"judge", "send"} /\ c.line = Numbered(n, tag)
  BY <1>0, <1>3, KindFields
<1>5. c.line.verb = "COMMAND" /\ c.line.id = n
  BY <1>4, LineFields
<1>6. c.line.id # NextId
  BY <1>3, <1>5 DEF NextId
<1> QED BY <1>1, <1>4, <1>5, <1>6

\* A case asked again leaves the label.
LEMMA Retried ==
  ASSUME NEW a, NEW b, NEW c, Allowed(a, c, b), c.tries # 1
  PROVE  a = b
<1>1. ~Driving(a, c, b) /\ ~Counting(a, c, b)
  BY DrivingFields, CountingFields
<1>2. c \notin Stepping /\ c # Resets
  BY StepFields, HelloFields
<1>3. c # Silent /\ c # Reminded
  BY DEF Silent, Reminded, Judge, Case
<1> QED BY <1>1, <1>2, <1>3 DEF Allowed

\* What the suite's counter and the robot's do in one case, whatever is lost.
Counters(c) ==
    /\ suite.seq \in Nat /\ expectedNext_ \in Nat /\ expectedNext_' \in Nat /\ expectedNext_' >= 1
    /\ c.kind = "reset" => suite'.seq = 1
    /\ c.kind # "reset" => suite'.seq \in {suite.seq, expectedNext_'}
    /\ c.kind # "reset" /\ c.line.id # NextId => suite'.seq = suite.seq
    /\ c.line.verb # "HELLO" => expectedNext_' >= expectedNext_

LEMMA LooseStep ==
  ASSUME NEW a \in Labels, NEW b \in Labels, NEW c, Allowed(a, c, b), Loose(a), Counters(c)
  PROVE  Loose(b)'
<1>1. CASE a \in Outside /\ b = "fresh" /\ c = Resets
  <2>1. suite'.seq = 1 /\ expectedNext_' \in Nat /\ expectedNext_' >= 1
    BY <1>1, HelloFields DEF Counters
  <2> QED BY <1>1, <2>1 DEF Loose
<1>2. CASE a = "fresh" /\ b = "fresh" /\ c \in Greeting
  <2>1. c.kind # "reset" /\ c.line.id # NextId
    BY <1>2, HelloFields, LineFields
  <2>2. suite'.seq = 1 /\ expectedNext_' \in Nat /\ expectedNext_' >= 1
    BY <1>2, <2>1 DEF Counters, Loose
  <2> QED BY <1>2, <2>2 DEF Loose
<1>3. CASE a \in Plain /\ b = a /\ c \in Remark
  <2>1. c.kind # "reset" /\ c.line.id # NextId /\ c.line.verb # "HELLO"
    BY <1>3, RemarkLines, LineFields
  <2>2. /\ suite'.seq = suite.seq /\ suite.seq \in Nat /\ expectedNext_ \in Nat
        /\ expectedNext_' \in Nat /\ expectedNext_' >= expectedNext_
    BY <2>1 DEF Counters
  <2> QED BY <1>3, <2>2 DEF Loose
<1>4. CASE b \in {"n2", "n3", "n4", "one", "gap1", "any"}
  BY <1>4 DEF Loose, Trailing, Following, InMotion
<1>5. ASSUME a \in Trailing, b # "fresh", c.kind # "reset", c.line.verb # "HELLO"
      PROVE  Loose(b)'
  <2>1. suite.seq <= expectedNext_
    BY <1>5 DEF Loose
  <2>2. suite'.seq <= expectedNext_'
    BY <1>5, <2>1 DEF Counters
  <2> QED BY <1>5, <2>2 DEF Loose
<1>6. CASE a \in Following /\ b = "tracked" /\ c \in Stepping
  <2>1. c.kind # "reset" /\ c.line.verb # "HELLO"
    BY <1>6, StepFields, LineFields DEF Accepting, Refusing, Buffered
  <2>2. a \in Trailing /\ b # "fresh"
    BY <1>6 DEF Trailing
  <2> QED BY <1>5, <2>1, <2>2
<1>7. CASE Driving(a, c, b)
  <2>1. c.kind # "reset" /\ c.line.verb # "HELLO" /\ a \in Trailing /\ b # "fresh"
    BY <1>7, DrivingFields
  <2> QED BY <1>5, <2>1
<1>8. CASE Counting(a, c, b)
  BY <1>4, <1>8, CountingFields
<1>9. CASE (a = "fresh" /\ b = "any" /\ c = Silent) \/ (a = "gap1" /\ b = "gap1" /\ c = Reminded)
  BY <1>4, <1>9
<1> QED BY <1>1, <1>2, <1>3, <1>6, <1>7, <1>8, <1>9 DEF Allowed

LEMMA ExactFresh ==
  ASSUME suite'.seq = 1, expectedNext_' = 1, gapOutstanding_' = FALSE
  PROVE  Exact("fresh")'
<1>1. "fresh" \notin {"headed", "m3", "m4", "ready", "m5", "n2", "n3", "n4", "one", "gap1"}
  OBVIOUS
<1> QED BY <1>1 DEF Exact

\* On a carrier that loses nothing.
LEMMA PerfectStep ==
  ASSUME NEW a \in Labels, NEW b \in Labels, NEW c, Allowed(a, c, b), Loose(a), Exact(a),
         ~Skip(c), Perfect(c)
  PROVE  /\ Fair(c, replies', Ran(Sent(c))) /\ Exact(b)'
         /\ c.kind = "header" => ~SuiteEnds(c, ShownBy(c, replies', Ran(Sent(c))))
<1>1. CASE a \in Outside /\ b = "fresh" /\ c = Resets
  BY <1>1, ResetRule, HelloFields, ExactFresh
<1>2. CASE a = "fresh" /\ b = "fresh" /\ c \in Greeting
  <2>1. suite.seq = 1
    BY <1>2 DEF Loose
  <2>2. c.kind # "header"
    BY <1>2, HelloFields
  <2> QED BY <1>2, <2>1, <2>2, GreetingRule, ExactFresh
<1>3. CASE a \in Plain /\ b = a /\ c \in Remark
  <2>1. Fair(c, replies', Ran(Sent(c)))
    BY <1>3, RemarkFair DEF Perfect
  <2>2. Unmoved
    BY <1>3, RemarkUnmoved DEF Perfect
  <2>3. Exact(b)'
    BY <1>3, <2>2, ExactCarried
  <2>4. c.kind # "header"
    BY <1>3, RemarkLines
  <2> QED BY <2>1, <2>3, <2>4
<1>4. CASE a = "fresh" /\ b = "any" /\ c = Silent
  <2>1. Fair(c, replies', Ran(Sent(c)))
    BY <1>4, SilentRule
  <2> QED BY <1>4, <2>1, ExactNumbers, QueryFields
<1>5. CASE a = "gap1" /\ b = "gap1" /\ c = Reminded
  <2>1. Fair(c, replies', Ran(Sent(c))) /\ Unmoved
    BY <1>5, RemindedRule
  <2>2. a \in Plain
    BY <1>5, LabelSets
  <2>3. Exact(b)'
    BY <1>5, <2>1, <2>2, ExactCarried
  <2> QED BY <1>5, <2>1, <2>3, QueryFields
<1>6. CASE a \in Following /\ b = "tracked" /\ c \in Stepping
  <2>1. InStep
    BY <1>6, ExactInStep DEF Trailing
  <2>2. Fair(c, replies', Ran(Sent(c))) /\ suite'.seq = expectedNext_' /\ gapOutstanding_' = FALSE
    BY <1>6, <2>1, StepRule
  <2>3. b \in Trailing /\ b \notin {"fresh", "headed", "m3", "m4", "ready", "m5"}
    BY <1>6 DEF Trailing, Following
  <2>4. Exact(b)'
    BY <2>2, <2>3, ExactTrailing
  <2>5. c.kind # "header"
    BY <1>6, StepFields
  <2> QED BY <2>2, <2>4, <2>5
<1>7. CASE Counting(a, c, b)
  <2>1. Fair(c, replies', Ran(Sent(c))) /\ Exact(b)'
    BY <1>7, CountingRefused, CountingStops, CountingCut, CountingElse DEF Counting, Refused
  <2>2. c.kind # "header"
    BY <1>7, CountingFields
  <2> QED BY <2>1, <2>2
<1>8. CASE Driving(a, c, b)
  <2>1. a \in Trailing /\ b \in Trailing /\ b # "fresh"
    BY <1>8, DrivingFields
  <2>2. InStep
    BY <2>1, ExactInStep
  <2>3. CASE a \in Following /\ b = "headed" /\ c = Sends(Command("telemetry"))
    <3>1. c \in Stepping
      BY <2>3 DEF Stepping
    <3>2. c.line = Command("telemetry") /\ c.kind = "send"
      BY <2>3, KindFields
    <3>3. /\ Fair(c, replies', Ran(Sent(c))) /\ suite'.seq = expectedNext_' /\ gapOutstanding_' = FALSE
          /\ "header" \in suite'.knows
      BY <2>2, <3>1, <3>2, StepRule
    <3>4. b \notin {"ready", "m5"}
      BY <2>3
    <3>5. Exact(b)'
      BY <2>1, <3>3, <3>4, ExactTrailing
    <3> QED BY <3>2, <3>3, <3>5
  <2>4. CASE a = "headed" /\ b = "ready" /\ c \in Moving
    <3>1. "header" \in suite.knows
      BY <2>4 DEF Exact
    <3>2. /\ Fair(c, replies', Ran(Sent(c))) /\ suite'.seq = expectedNext_' /\ gapOutstanding_' = FALSE
          /\ suite'.refused \/ suite'.latch \/ (suite'.rolling /\ "header" \in suite'.knows)
      BY <2>2, <2>4, <3>1, MovingRule
    <3>3. b \notin {"headed", "m3", "m4"} /\ c.kind # "header"
      BY <2>4, MovingFields
    <3>4. Exact(b)'
      BY <2>1, <3>2, <3>3, ExactTrailing
    <3> QED BY <3>2, <3>3, <3>4
  <2>5. CASE (a = "ready" /\ b = "tracked" /\ c = Turned) \/ (a = "m5" /\ b = "m6" /\ c = Turned)
    <3>1. Fair(c, replies', Ran(Sent(c))) /\ suite'.seq = expectedNext_' /\ gapOutstanding_' = FALSE
      BY <2>5, TurnedRule
    <3>2. b \notin {"headed", "m3", "m4", "ready", "m5"} /\ c.kind # "header"
      BY <2>5, TurnedFields
    <3>3. Exact(b)'
      BY <2>1, <3>1, <3>2, ExactTrailing
    <3> QED BY <3>1, <3>2, <3>3
  <2>6. CASE a = "fresh" /\ b = "m3" /\ c = Header
    <3>1. /\ Fair(c, replies', Ran(Sent(c))) /\ suite'.seq = expectedNext_' /\ gapOutstanding_' = FALSE
          /\ "header" \in suite'.knows /\ ~SuiteEnds(c, ShownBy(c, replies', Ran(Sent(c))))
      BY <2>2, <2>6, HeaderRule
    <3>2. b \notin {"ready", "m5"}
      BY <2>6
    <3>3. Exact(b)'
      BY <2>1, <3>1, <3>2, ExactTrailing
    <3> QED BY <3>1, <3>3
  <2>7. CASE a = "m3" /\ b = "m4" /\ c = Sends(Query)
    <3>1. c.line = Query /\ c.kind = "send"
      BY <2>7, KindFields
    <3>2. Unmoved /\ c.line.id # NextId
      BY <3>1, QueryUnmoved DEF Perfect
    <3>3. Fair(c, replies', Ran(Sent(c)))
      BY <3>1, <3>2 DEF Fair, Judged
    <3>4. suite.seq = expectedNext_ /\ gapOutstanding_ = FALSE /\ "header" \in suite.knows
      BY <2>1, <2>7 DEF Exact
    <3>5. suite'.seq = expectedNext_' /\ gapOutstanding_' = FALSE /\ "header" \in suite'.knows
      BY <3>2, <3>4 DEF Unmoved
    <3>6. b \notin {"ready", "m5"}
      BY <2>7
    <3>7. Exact(b)'
      BY <2>1, <3>5, <3>6, ExactTrailing
    <3> QED BY <3>1, <3>3, <3>7
  <2>8. CASE a = "m4" /\ b = "m5" /\ c = Tracked("move")
    <3>1. "header" \in suite.knows
      BY <2>8 DEF Exact
    <3>2. /\ Fair(c, replies', Ran(Sent(c))) /\ suite'.seq = expectedNext_' /\ gapOutstanding_' = FALSE
          /\ suite'.latch \/ (suite'.rolling /\ "header" \in suite'.knows)
      BY <2>2, <2>8, <3>1, MoveRule
    <3>3. b \notin {"headed", "m3", "m4"} /\ c.kind # "header"
      BY <2>8, KindFields
    <3>4. Exact(b)'
      BY <2>1, <3>2, <3>3, ExactTrailing
    <3> QED BY <3>2, <3>3, <3>4
  <2>9. CASE a = "m6" /\ b = "m7" /\ c = Sends(Command("stop"))
    <3>1. Fair(c, replies', Ran(Sent(c))) /\ suite'.seq = expectedNext_' /\ gapOutstanding_' = FALSE
      BY <2>2, <2>9, SendRule
    <3>2. b \notin {"headed", "m3", "m4", "ready", "m5"} /\ c.kind # "header"
      BY <2>9, KindFields
    <3>3. Exact(b)'
      BY <2>1, <3>1, <3>2, ExactTrailing
    <3> QED BY <3>1, <3>2, <3>3
  <2>10. CASE a = "m7" /\ b = "over" /\ c = Sends(Command("quiet"))
    <3>1. Fair(c, replies', Ran(Sent(c))) /\ suite'.seq = expectedNext_' /\ gapOutstanding_' = FALSE
      BY <2>2, <2>10, SendRule
    <3>2. b \notin {"headed", "m3", "m4", "ready", "m5"} /\ c.kind # "header"
      BY <2>10, KindFields
    <3>3. Exact(b)'
      BY <2>1, <3>1, <3>2, ExactTrailing
    <3> QED BY <3>1, <3>2, <3>3
  <2> QED BY <1>8, <2>3, <2>4, <2>5, <2>6, <2>7, <2>8, <2>9, <2>10 DEF Driving
<1> QED BY <1>1, <1>2, <1>3, <1>4, <1>5, <1>6, <1>7, <1>8 DEF Allowed

-----------------------------------------------------------------------------
(* The invariant. *)

LabelsOf(mode) ==
    CHOOSE lab : \E b \in Labels : \E n \in 0 .. 200 : Labelling(lab, Suite(mode), "fresh", b, n)
Place == LabelsOf(suite.mode)[suite.at]

LEMMA Placed ==
  ASSUME NEW mode
  PROVE  /\ Len(Suite(mode)) \in 0 .. 200 /\ LabelsOf(mode)[1] = "fresh"
         /\ \A i \in 1 .. Len(Suite(mode)) :
              /\ LabelsOf(mode)[i] \in Labels /\ LabelsOf(mode)[i + 1] \in Labels
              /\ Suite(mode)[i] \in AllCases
              /\ Allowed(LabelsOf(mode)[i], Suite(mode)[i], LabelsOf(mode)[i + 1])
<1>1. \E b \in Labels : \E n \in 0 .. 200 : \E lab : Labelling(lab, Suite(mode), "fresh", b, n)
  BY SuiteLabels DEF Labelled
<1>2. \E lab : \E b \in Labels : \E n \in 0 .. 200 : Labelling(lab, Suite(mode), "fresh", b, n)
  BY <1>1
<1>3. \E b \in Labels : \E n \in 0 .. 200 : Labelling(LabelsOf(mode), Suite(mode), "fresh", b, n)
  BY <1>2 DEF LabelsOf
<1>4. PICK b \in Labels, n \in 0 .. 200 : Labelling(LabelsOf(mode), Suite(mode), "fresh", b, n)
  BY <1>3
<1> DEFINE lab == LabelsOf(mode)
           s == Suite(mode)
<1>5. /\ s \in Seq(AllCases) /\ Len(s) = n /\ lab \in [1 .. n + 1 -> Labels] /\ lab[1] = "fresh"
      /\ \A i \in 1 .. n : Allowed(lab[i], s[i], lab[i + 1])
  BY <1>4 DEF Labelling
<1> HIDE DEF lab, s
<1>6. \A i \in 1 .. n : i \in 1 .. n + 1 /\ i + 1 \in 1 .. n + 1
  OBVIOUS
<1>7. \A i \in 1 .. Len(s) : /\ lab[i] \in Labels /\ lab[i + 1] \in Labels /\ s[i] \in AllCases
                             /\ Allowed(lab[i], s[i], lab[i + 1])
  BY <1>5, <1>6
<1>8. Len(s) \in 0 .. 200 /\ lab[1] = "fresh"
  BY <1>5
<1> QED BY <1>7, <1>8 DEF lab, s

\* Only what follows the counter carries it.
LEMMA Carrying ==
  ASSUME NEW a, NEW b, NEW c, Allowed(a, c, b), c.line.id = NextId
  PROVE  a \in Trailing
<1>1. c # Resets /\ c \notin Greeting /\ c \notin Remark
  BY HelloFields, RemarkLines, LineFields
<1>2. c # Silent /\ c # Reminded
  BY QueryFields, LineFields
<1>3. ~Counting(a, c, b)
  BY CountingFields
<1>4. a \in Following \/ Driving(a, c, b)
  BY <1>1, <1>2, <1>3 DEF Allowed
<1> QED BY <1>4, DrivingFields DEF Trailing

LEMMA Tries ==
  ASSUME NEW a, NEW b, NEW c, Allowed(a, c, b)
  PROVE  c.tries \in {1, 3, 4} /\ (c.tries # 1 => c \in Remark \/ c \in Greeting)
<1>1. \A d \in Remark \cup Greeting : d.tries \in {1, 3, 4}
  BY DEF Remark, Greeting, Sends, Answered, Judge, Case
<1>2. \A d : Driving(a, d, b) \/ Counting(a, d, b) => d.tries = 1
  BY DrivingFields, CountingFields
<1>3. \A d \in Stepping : d.tries = 1
  BY StepFields
<1>4. Silent.tries = 1 /\ Reminded.tries = 1 /\ Resets.tries = 1
  BY DEF Silent, Reminded, Judge, Case, Resets
<1> QED BY <1>1, <1>2, <1>3, <1>4 DEF Allowed

\* The header's case is the only one of its kind.
LEMMA HeaderOnly ==
  ASSUME NEW a, NEW b, NEW c, Allowed(a, c, b), c.kind = "header"
  PROVE  a = "fresh" /\ b = "m3"
<1>1. c # Resets /\ c \notin Greeting /\ c \notin Remark /\ c # Silent /\ c # Reminded /\ c \notin Stepping
  BY HelloFields, RemarkLines, QueryFields, StepFields
<1>2. ~Counting(a, c, b)
  BY CountingFields
<1>3. Driving(a, c, b)
  BY <1>1, <1>2 DEF Allowed
<1>4. /\ c \notin Moving /\ c # Turned /\ c # Tracked("move")
      /\ \A line : c # Sends(line)
  BY MovingFields, TurnedFields, KindFields
<1> QED BY <1>3, <1>4 DEF Driving

\* Once the telemetry of run_motion() is on, its cases follow in order.
LEMMA MotionOrder ==
  ASSUME NEW a, NEW b, NEW c, Allowed(a, c, b), a \in InMotion
  PROVE  /\ a = "m3" => b = "m4"
         /\ a = "m4" => b = "m5"
         /\ a = "m5" => b = "m6"
         /\ a = "m6" => b = "m7"
         /\ a = "m7" => b = "over"
<1>1. a \notin Outside
  BY DEF InMotion, Outside, Plain, InNumbers, Following
<1>2. a \notin Plain /\ a \notin Following /\ a # "fresh" /\ a # "gap1"
  BY DEF InMotion, Plain, InNumbers, Following
<1>3. ~Counting(a, c, b)
  BY DEF Counting, InMotion
<1>4. Driving(a, c, b)
  BY <1>1, <1>2, <1>3 DEF Allowed
<1> QED BY <1>2, <1>4 DEF Driving

LEMMA MotionSkipped ==
  ASSUME NEW mode, NEW i \in Nat, i >= 1, LabelsOf(mode)[i] = "m3", i + 5 <= Len(Suite(mode))
  PROVE  LabelsOf(mode)[i + 5] = "over"
<1> DEFINE lab == LabelsOf(mode)
           n == Len(Suite(mode))
<1>1. n \in Nat /\ \A j \in 1 .. n : Allowed(lab[j], Suite(mode)[j], lab[j + 1])
  BY Placed
<1>2. \A j \in 1 .. n : lab[j] \in InMotion =>
        /\ lab[j] = "m3" => lab[j + 1] = "m4"
        /\ lab[j] = "m4" => lab[j + 1] = "m5"
        /\ lab[j] = "m5" => lab[j + 1] = "m6"
        /\ lab[j] = "m6" => lab[j + 1] = "m7"
        /\ lab[j] = "m7" => lab[j + 1] = "over"
  BY <1>1, MotionOrder
<1>3. lab[i] = "m3" /\ i + 5 <= n
  OBVIOUS
<1> HIDE DEF lab, n
<1>4. {"m3", "m4", "m5", "m6", "m7"} \subseteq InMotion
  BY DEF InMotion
<1>5. /\ i \in 1 .. n /\ i + 1 \in 1 .. n /\ i + 2 \in 1 .. n /\ i + 3 \in 1 .. n /\ i + 4 \in 1 .. n
      /\ (i + 1) + 1 = i + 2 /\ (i + 2) + 1 = i + 3 /\ (i + 3) + 1 = i + 4 /\ (i + 4) + 1 = i + 5
  BY <1>1, <1>3
<1>6. lab[i + 1] = "m4"
  BY <1>2, <1>3, <1>4, <1>5
<1>7. lab[i + 2] = "m5"
  BY <1>2, <1>4, <1>5, <1>6
<1>8. lab[i + 3] = "m6"
  BY <1>2, <1>4, <1>5, <1>7
<1>9. lab[i + 4] = "m7"
  BY <1>2, <1>4, <1>5, <1>8
<1>10. lab[i + 5] = "over"
  BY <1>2, <1>4, <1>5, <1>9
<1> QED BY <1>10 DEF lab

LEMMA MotionLength == Len(Motion) = 7
<1>1. Labelled(Motion, "fresh", "over", 7)
  BY MotionLabels, LabelSets
<1> QED BY <1>1 DEF Labelled, Labelling

Sound(l) == Loose(l) /\ (suite.losses = 0 => Exact(l))

SuiteInv ==
    /\ suite \in SuiteRecords
    /\ expectedNext_ \in Nat /\ expectedNext_ >= 1 /\ gapOutstanding_ \in BOOLEAN
    /\ suite.at = 0 => suite.seq = 1 /\ expectedNext_ = 1 /\ gapOutstanding_ = FALSE
    /\ suite.at # 0 => suite.mode \in Modes
    /\ Running => expectedNext_ <= suite.at /\ Sound(Place)
    /\ JudgesFairly

\* What the invariant says of the case at hand.
LEMMA Here ==
  ASSUME SuiteInv, Running
  PROVE  /\ suite.at \in 1 .. Len(Suite(suite.mode)) /\ Len(Suite(suite.mode)) \in 0 .. 200
         /\ CasesOf[suite.mode] = Suite(suite.mode) /\ Current = Suite(suite.mode)[suite.at]
         /\ Place \in Labels /\ LabelsOf(suite.mode)[suite.at + 1] \in Labels
         /\ Allowed(Place, Current, LabelsOf(suite.mode)[suite.at + 1])
         /\ Numbers /\ expectedNext_ <= suite.at /\ Sound(Place)
<1>1. suite.at \in Nat /\ suite.at > 0 /\ suite.mode \in Modes
  BY DEF SuiteInv, SuiteRecords, Running
<1>2. CasesOf[suite.mode] = Suite(suite.mode)
  BY <1>1 DEF CasesOf
<1>3. Len(Suite(suite.mode)) \in 0 .. 200
  BY Placed
<1>4. suite.at \in 1 .. Len(Suite(suite.mode))
  BY <1>1, <1>2, <1>3 DEF Running
<1>5. Current = Suite(suite.mode)[suite.at]
  BY <1>2 DEF Current
<1>6. /\ Place \in Labels /\ LabelsOf(suite.mode)[suite.at + 1] \in Labels
      /\ Allowed(Place, Current, LabelsOf(suite.mode)[suite.at + 1])
  BY <1>4, <1>5, Placed DEF Place
<1>7. expectedNext_ <= suite.at /\ Sound(Place)
  BY DEF SuiteInv
<1>8. Numbers
  <2>1. MaxSequenceId \in Nat /\ MaxSequenceId > 200
    BY SuiteAssumption, MaxSequenceIdAssumption
  <2>2. expectedNext_ \in Nat /\ expectedNext_ >= 1 /\ gapOutstanding_ \in BOOLEAN
    BY DEF SuiteInv
  <2>3. suite.at <= 200
    <3> DEFINE n == Len(Suite(suite.mode))
    <3>1. n \in 0 .. 200 /\ suite.at \in 1 .. n
      BY <1>3, <1>4
    <3> HIDE DEF n
    <3> QED BY <3>1
  <2>4. suite.at \in Nat
    BY <1>1
  <2>5. expectedNext_ < MaxSequenceId
    BY <1>7, <2>1, <2>2, <2>3, <2>4
  <2> QED BY <2>2, <2>5 DEF Numbers
<1> QED BY <1>2, <1>3, <1>4, <1>5, <1>6, <1>7, <1>8

LEMMA Reasons ==
  ASSUME NEW c
  PROVE  Reason(c) \in {"wire", "latched", "cleartext"} /\ Learnt(c, <<>>) \subseteq {"alive", "header", "value"}
         /\ \A got : Learnt(c, got) \subseteq {"alive", "header", "value"}
BY DEF Reason, Learnt

Whole(r) == r = [mode |-> r.mode, at |-> r.at, tried |-> r.tried, seq |-> r.seq, knows |-> r.knows,
                 losses |-> r.losses, latch |-> r.latch, rolling |-> r.rolling, refused |-> r.refused,
                 failed |-> r.failed, blocked |-> r.blocked, lied |-> r.lied, wedged |-> r.wedged]
Counts(r) == /\ r.mode \in Modes \cup {{}} /\ r.at \in Nat /\ r.tried \in 0 .. 4 /\ r.seq \in Ids
             /\ r.losses \in 0 .. MaxLosses
             /\ r.knows \in SUBSET {"alive", "header", "value"}
             /\ r.failed \in SUBSET {"wire", "latched", "cleartext"}
Flags(r) == /\ r.latch \in BOOLEAN /\ r.rolling \in BOOLEAN /\ r.refused \in BOOLEAN
            /\ r.blocked \in BOOLEAN /\ r.lied \in BOOLEAN /\ r.wedged \in BOOLEAN

LEMMA SuiteRecordTyped ==
  ASSUME NEW r, Whole(r), Counts(r), Flags(r)
  PROVE  r \in SuiteRecords
BY DEF Whole, Counts, Flags, SuiteRecords

LEMMA SuiteTyped ==
  ASSUME suite \in SuiteRecords, NEW c, NEW line, NEW got, NEW lost, NEW ran,
         Concluded(c, line, got, lost, ran), suite'.at \in Nat, suite'.tried \in 0 .. 4,
         suite'.seq \in Ids, suite'.losses \in 0 .. MaxLosses
  PROVE  suite' \in SuiteRecords
<1>1. /\ suite.mode \in Modes \cup {{}} /\ suite.knows \subseteq {"alive", "header", "value"}
      /\ suite.failed \subseteq {"wire", "latched", "cleartext"} /\ suite.wedged \in BOOLEAN
      /\ suite.refused \in BOOLEAN /\ suite.rolling \in BOOLEAN /\ suite.latch \in BOOLEAN
      /\ suite.blocked \in BOOLEAN /\ suite.lied \in BOOLEAN
  BY DEF SuiteRecords
<1>2. suite'.knows \subseteq {"alive", "header", "value"}
  BY <1>1, Reasons DEF Concluded
<1>3. suite'.failed \subseteq {"wire", "latched", "cleartext"}
  BY <1>1, Reasons DEF Concluded
<1>4. suite'.latch = (suite.latch \/ (ran /\ line.verb = "ESTOP"))
  BY DEF Concluded
<1>5. suite'.latch \in BOOLEAN
  BY <1>4, Zenon
<1>6. suite'.blocked = (suite.blocked \/ (/\ c.kind \in {"status", "header"}
                                         /\ SuiteEnds(c, ShownBy(c, got, ran))))
  BY DEF Concluded
<1>7. suite'.blocked \in BOOLEAN
  BY <1>6, Zenon
<1>8. suite'.lied = (suite.lied \/ (/\ c.line.id = NextId /\ Judged(c)
                                      /\ Passes(c, ShownBy(c, got, ran)) /\ ~ran))
  BY DEF Concluded
<1>9. suite'.lied \in BOOLEAN
  BY <1>8, Zenon
<1>10. suite'.refused = IF c.kind = "motion"
                        THEN ~Meets(c, got) \/ Has(got, <<"err", AnyNumber>>) ELSE suite.refused
  BY DEF Concluded
<1>11. suite'.refused \in BOOLEAN
  <2>1. CASE c.kind = "motion"
    <3>1. suite'.refused = (~Meets(c, got) \/ Has(got, <<"err", AnyNumber>>))
      BY <1>10, <2>1
    <3> QED BY <3>1, Zenon
  <2>2. CASE c.kind # "motion"
    BY <1>1, <1>10, <2>2
  <2> QED BY <2>1, <2>2
<1>12. suite'.rolling \in BOOLEAN
  <2>1. suite'.rolling = CASE ran /\ line.tag \in {"move", "goto"} -> ~suite.latch /\ Len(replies') = 1
                           [] ran /\ line.tag = "stop" -> FALSE
                           [] OTHER -> suite.rolling
    BY DEF Concluded
  <2>2. CASE ran /\ line.tag \in {"move", "goto"}
    <3>1. suite'.rolling = (~suite.latch /\ Len(replies') = 1)
      BY <2>1, <2>2
    <3> QED BY <3>1, Zenon
  <2>3. CASE ran /\ line.tag = "stop"
    <3>1. suite'.rolling = FALSE
      BY <2>1, <2>3
    <3> QED BY <3>1, Zenon
  <2>4. CASE ~ran \/ line.tag \notin {"move", "goto", "stop"}
    BY <1>1, <2>1, <2>4
  <2> QED BY <2>2, <2>3, <2>4
<1>13. Whole(suite')
  BY DEF Concluded, Whole
<1>14. suite'.mode = suite.mode /\ suite'.wedged = suite.wedged
  BY DEF Concluded
<1>15. Counts(suite')
  BY <1>1, <1>2, <1>3, <1>14 DEF Counts
<1>16. Flags(suite')
  BY <1>1, <1>5, <1>7, <1>9, <1>11, <1>12, <1>14 DEF Flags
<1> QED BY <1>13, <1>15, <1>16, SuiteRecordTyped

LEMMA CountedLines ==
  ASSUME NEW c \in Counted
  PROVE  \E id \in {1, 2, 3, 4, 9, MaxSequenceId} :
           \E tag \in {"unknown", "write_only", "malformed", "stop"} : c.line = Numbered(id, tag)
<1>1. \A id, tag, need : Judge(Numbered(id, tag), need).line = Numbered(id, tag)
  BY JudgeFields
<1>2. \A id, tag : Sends(Numbered(id, tag)).line = Numbered(id, tag)
  BY KindFields
<1>3. c = Judge(Numbered(1, "unknown"), {<<"ack", 1>>, <<"err", 1>>}) => c.line = Numbered(1, "unknown")
  BY <1>1, Zenon
<1>4. c = Judge(Numbered(2, "unknown"), {<<"ack", 2>>, <<"err", 1>>}) => c.line = Numbered(2, "unknown")
  BY <1>1, Zenon
<1>5. c = Judge(Numbered(3, "write_only"), {<<"ack", 3>>, <<"err", 12>>}) => c.line = Numbered(3, "write_only")
  BY <1>1, Zenon
<1>6. c = Judge(Numbered(4, "malformed"), {<<"nack", AnyNumber>>, <<"err", AnyNumber>>}) => c.line = Numbered(4, "malformed")
  BY <1>1, Zenon
<1>7. c = Judge(Numbered(1, "malformed"), {<<"nack", 1>>, <<"err", 2>>}) => c.line = Numbered(1, "malformed")
  BY <1>1, Zenon
<1>8. c = Judge(Numbered(MaxSequenceId, "stop"), {<<"nack", AnyNumber>>, <<"err", 3>>}) => c.line = Numbered(MaxSequenceId, "stop")
  BY <1>1, Zenon
<1>9. c = Judge(Numbered(1, "stop"), {<<"ack", 1>>}) => c.line = Numbered(1, "stop")
  BY <1>1, Zenon
<1>10. c = Judge(Numbered(2, "stop"), {<<"ack", 2>>}) => c.line = Numbered(2, "stop")
  BY <1>1, Zenon
<1>11. c = Judge(Numbered(2, "stop"), {<<"ack", AnyNumber>>}) => c.line = Numbered(2, "stop")
  BY <1>1, Zenon
<1>12. c = Sends(Numbered(9, "stop")) => c.line = Numbered(9, "stop")
  BY <1>2, Zenon
<1>13. \/ c.line = Numbered(1, "unknown") \/ c.line = Numbered(2, "unknown")
      \/ c.line = Numbered(3, "write_only") \/ c.line = Numbered(4, "malformed")
      \/ c.line = Numbered(1, "malformed") \/ c.line = Numbered(MaxSequenceId, "stop")
      \/ c.line = Numbered(1, "stop") \/ c.line = Numbered(2, "stop") \/ c.line = Numbered(9, "stop")
  BY <1>3, <1>4, <1>5, <1>6, <1>7, <1>8, <1>9, <1>10, <1>11, <1>12, Zenon DEF Counted
<1> HIDE DEF Numbered
<1> QED BY <1>13

\* What shows fields or a header is asked with the tracked id.
LEMMA ShowsTracked ==
  ASSUME NEW c \in AllCases
  PROVE  c.line.tag \in {"get", "telemetry"} => c.line.id = NextId
<1>1. CASE c \in Remark \cup Greeting \cup {Silent, Reminded, Resets, Turned}
  <2>1. c.line \in {Query, Ask("COMMAND", NoId, "plain"), Numbered(0, "move"),
                    Ask("UNKNOWN", NoId, "plain"), Ask("COMMAND", NoId, "run"),
                    Ask("ESTOP", NoId, "estop"), Ask("HELLO", NoId, "hello")}
    <3>1. CASE c \in Remark
      BY <3>1, RemarkLines
    <3>2. CASE c \in Greeting
      BY <3>2, HelloFields
    <3>3. CASE c \in {Silent, Reminded, Resets, Turned}
      BY <3>3, HelloFields, QueryFields, TurnedFields
    <3> QED BY <1>1, <3>1, <3>2, <3>3
  <2> QED BY <2>1, LineFields
<1>2. CASE c \in Counted
  <2>1. PICK id \in {1, 2, 3, 4, 9, MaxSequenceId} :
          \E tag \in {"unknown", "write_only", "malformed", "stop"} : c.line = Numbered(id, tag)
    BY <1>2, CountedLines
  <2> QED BY <2>1, LineFields
<1>3. CASE c \in Stepping \cup Moving \cup {Header, Tracked("move"), Sends(Command("stop"))}
  <2>1. \E tag : c.line = Command(tag)
    BY <1>3, StepFields, MovingFields, HeaderFields, KindFields DEF Accepting, Refusing, Buffered
  <2> QED BY <2>1, LineFields
<1> QED BY <1>1, <1>2, <1>3 DEF AllCases

\* A case that has been asked, whatever was heard of the answer.
Ended(c, b, line, got, lost, ran) ==
    /\ Conclude(c, line, got, lost, ran)
    /\ lost \in {0, 1} /\ suite.losses + lost <= MaxLosses
    /\ Counters(c) /\ gapOutstanding_' \in BOOLEAN
    /\ expectedNext_' <= expectedNext_ + 1
    /\ c.tries # 1 => expectedNext_' <= expectedNext_
    /\ suite.losses = 0 /\ lost = 0 => /\ Fair(c, got, ran) /\ Exact(b)'
                                       /\ c.kind = "header" => ~SuiteEnds(c, ShownBy(c, got, ran))

\* What Concluded says of where the suite stands and of what was lost.
LEMMA Standing ==
  ASSUME NEW c, NEW line, NEW got, NEW lost, NEW ran, Concluded(c, line, got, lost, ran)
  PROVE  /\ suite'.mode = suite.mode /\ suite'.losses = suite.losses + lost
         /\ suite'.tried = IF Again(c, got) THEN suite.tried + 1 ELSE 0
         /\ suite'.at = IF Again(c, got) THEN suite.at
                        ELSE IF c.kind = "header" /\ SuiteEnds(c, ShownBy(c, got, ran)) THEN suite.at + 6
                        ELSE IF SuiteEnds(c, ShownBy(c, got, ran)) THEN Len(CasesOf[suite.mode]) + 1
                        ELSE suite.at + 1
<1>1. Len(Motion) = 7
  BY MotionLength
<1>2. After(c, ShownBy(c, got, ran)) = IF c.kind = "header" /\ SuiteEnds(c, ShownBy(c, got, ran)) THEN suite.at + Len(Motion) - 1
                      ELSE IF SuiteEnds(c, ShownBy(c, got, ran)) THEN Len(CasesOf[suite.mode]) + 1
                      ELSE suite.at + 1
  BY DEF After
<1>3. suite.at + 7 - 1 = suite.at + 6 \/ suite.at \notin Nat
  OBVIOUS
<1> QED BY <1>1, <1>2, <1>3 DEF Concluded

LEMMA Landing ==
  ASSUME NEW b, Place' = b, Loose(b)', suite'.losses = 0 => Exact(b)'
  PROVE  Sound(Place)'
BY DEF Sound, Loose, Exact

\* The invariant outlives a case that has been asked.
LEMMA CaseEnds ==
  ASSUME SuiteInv, Running, NEW b, b = LabelsOf(suite.mode)[suite.at + 1],
         NEW line, NEW got, NEW lost, NEW ran, Ended(Current, b, line, got, lost, ran)
  PROVE  SuiteInv'
<1> DEFINE c == Current
           n == Len(Suite(suite.mode))
<1>1. /\ Conclude(c, line, got, lost, ran) /\ lost \in {0, 1} /\ suite.losses + lost <= MaxLosses
      /\ Counters(c) /\ gapOutstanding_' \in BOOLEAN /\ expectedNext_' <= expectedNext_ + 1
      /\ c.tries # 1 => expectedNext_' <= expectedNext_
  BY DEF Ended
<1>2. suite.losses = 0 /\ lost = 0 => /\ Fair(c, got, ran) /\ Exact(b)'
                                      /\ c.kind = "header" => ~SuiteEnds(c, ShownBy(c, got, ran))
  BY DEF Ended
<1>3. /\ suite \in SuiteRecords /\ suite.mode \in Modes /\ expectedNext_ \in Nat /\ expectedNext_ >= 1
      /\ JudgesFairly
  BY DEF SuiteInv, Running
<1>4. /\ suite.at \in Nat /\ suite.tried \in 0 .. 4 /\ suite.losses \in 0 .. MaxLosses /\ suite.seq \in Ids
      /\ suite.at > 0
  BY <1>3 DEF SuiteRecords, Running
<1>5. /\ suite.at \in 1 .. n /\ n \in 0 .. 200 /\ CasesOf[suite.mode] = Suite(suite.mode)
      /\ Place \in Labels /\ b \in Labels /\ Allowed(Place, c, b)
      /\ expectedNext_ <= suite.at /\ Sound(Place)
  BY Here
<1>6. Concluded(c, line, got, lost, ran)
  BY <1>1, <1>3, Fields
<1>7. c.tries \in {1, 3, 4} /\ (c.tries # 1 => Place = b)
  BY <1>5, Tries, Retried
<1>8. Loose(b)'
  BY <1>1, <1>5, LooseStep DEF Sound
<1>9. JudgesFairly'
  <2>1. lost \in Nat
    BY <1>1
  <2>2. suite.losses = 0 /\ lost = 0 => Fair(c, got, ran)
    BY <1>2
  <2>3. c.line.tag \in {"get", "telemetry"} => c.line.id = NextId
    <3>1. c = Suite(suite.mode)[suite.at] /\ suite.at \in 1 .. Len(Suite(suite.mode))
      BY Here
    <3>2. c \in AllCases
      BY <3>1, Placed
    <3> QED BY <3>2, ShowsTracked
  <2> HIDE DEF c
  <2> QED BY <1>1, <1>3, <2>1, <2>2, <2>3, FairlyJudged
<1>10. /\ suite'.mode = suite.mode /\ suite'.losses = suite.losses + lost
       /\ suite'.tried = IF Again(c, got) THEN suite.tried + 1 ELSE 0
       /\ suite'.at = IF Again(c, got) THEN suite.at
                      ELSE IF c.kind = "header" /\ SuiteEnds(c, ShownBy(c, got, ran)) THEN suite.at + 6
                      ELSE IF SuiteEnds(c, ShownBy(c, got, ran)) THEN n + 1 ELSE suite.at + 1
  <2> HIDE DEF c
  <2> QED BY <1>5, <1>6, Standing
<1>11. Again(c, got) => suite.tried + 1 < c.tries
  BY DEF Again
<1>12. /\ expectedNext_' \in Nat /\ expectedNext_' >= 1 /\ suite'.seq \in {1, suite.seq, expectedNext_'}
  BY <1>1 DEF Counters
<1>13. MaxSequenceId \in Nat /\ MaxSequenceId > 200 /\ MaxLosses \in Nat
  BY SuiteAssumption, MaxSequenceIdAssumption
<1> HIDE DEF c, n
<1>14. suite'.at \in Nat /\ suite'.at >= suite.at
  BY <1>4, <1>5, <1>10
<1>15. suite'.tried \in 0 .. 4
  BY <1>4, <1>7, <1>10, <1>11
<1>16. suite'.seq \in Ids
  <2>1. expectedNext_' <= 201
    BY <1>1, <1>3, <1>5, <1>12
  <2> QED BY <1>4, <1>12, <1>13, <2>1 DEF Ids
<1>17. suite'.losses \in 0 .. MaxLosses
  BY <1>1, <1>4, <1>10, <1>13
<1>18. suite' \in SuiteRecords
  BY <1>3, <1>6, <1>14, <1>15, <1>16, <1>17, SuiteTyped
<1>19. suite'.losses = 0 => suite.losses = 0 /\ lost = 0
  BY <1>1, <1>4, <1>10
<1>20. ASSUME Running' PROVE expectedNext_' <= suite'.at /\ Sound(Place)'
  <2>1. suite'.at <= n
    <3>1. suite'.at <= Len(CasesOf[suite'.mode])
      BY <1>20 DEF Running
    <3> QED BY <1>5, <1>10, <3>1 DEF n
  <2>2. Place' = LabelsOf(suite.mode)[suite'.at]
    BY <1>10 DEF Place
  <2>3. CASE Again(c, got)
    <3>1. c.tries # 1
      BY <1>4, <1>11, <2>3
    <3>2. suite'.at = suite.at
      BY <1>10, <2>3
    <3>3. Place' = b
      BY <1>7, <2>2, <3>1, <3>2 DEF Place
    <3>4. expectedNext_' <= suite'.at
      BY <1>1, <1>3, <1>4, <1>5, <1>12, <3>1, <3>2
    <3>5. Sound(Place)'
      BY <1>2, <1>8, <1>19, <3>3, Landing
    <3> QED BY <3>4, <3>5
  <2>4. CASE ~Again(c, got) /\ c.kind = "header" /\ SuiteEnds(c, ShownBy(c, got, ran))
    <3>1. suite'.at = suite.at + 6
      BY <1>10, <2>4
    <3>2. b = "m3"
      BY <1>5, <2>4, HeaderOnly
    <3>3. LabelsOf(suite.mode)[(suite.at + 1) + 5] = "over"
      <4>1. (suite.at + 1) + 5 <= Len(Suite(suite.mode))
        BY <1>4, <2>1, <3>1 DEF n
      <4>2. suite.at + 1 \in Nat /\ suite.at + 1 >= 1
        BY <1>4
      <4> QED BY <3>2, <4>1, <4>2, MotionSkipped
    <3>4. Place' = "over"
      <4>1. (suite.at + 1) + 5 = suite'.at
        BY <1>4, <3>1
      <4> QED BY <2>2, <3>3, <4>1
    <3>5. suite'.seq <= expectedNext_'
      BY <1>8, <3>2 DEF Loose, Trailing, InMotion
    <3>6. Sound("over")'
      <4>1. suite'.losses # 0
        BY <1>2, <1>19, <2>4
      <4> QED BY <3>5, <4>1 DEF Sound, Loose, Trailing
    <3>7. Sound(Place)'
      BY <3>4, <3>6 DEF Sound, Loose, Exact
    <3>8. expectedNext_' <= suite'.at
      BY <1>1, <1>3, <1>4, <1>5, <1>12, <3>1
    <3> QED BY <3>7, <3>8
  <2>5. CASE ~Again(c, got) /\ ~SuiteEnds(c, ShownBy(c, got, ran))
    <3>1. suite'.at = suite.at + 1
      BY <1>10, <2>5
    <3>2. Place' = b
      BY <2>2, <3>1
    <3>3. expectedNext_' <= suite'.at
      BY <1>1, <1>3, <1>4, <1>5, <1>12, <3>1
    <3>4. Sound(Place)'
      BY <1>2, <1>8, <1>19, <3>2, Landing
    <3> QED BY <3>3, <3>4
  <2>6. CASE ~Again(c, got) /\ c.kind # "header" /\ SuiteEnds(c, ShownBy(c, got, ran))
    <3>1. suite'.at = n + 1
      BY <1>10, <2>6
    <3> QED BY <1>5, <2>1, <3>1
  <2> QED BY <2>3, <2>4, <2>5, <2>6
<1>21. suite'.at # 0 /\ suite'.mode \in Modes
  BY <1>3, <1>4, <1>10, <1>14
<1> QED BY <1>1, <1>9, <1>12, <1>18, <1>20, <1>21 DEF SuiteInv

\* What a case sends is a line of the protocol, with the verb it was written with.
LEMMA SentIds ==
  ASSUME NEW c \in AllCases, suite \in SuiteRecords
  PROVE  Sent(c).id \in Ids \cup {NoId} /\ Sent(c).verb = c.line.verb
<1>1. suite.seq \in Ids /\ MaxSequenceId \in Nat /\ MaxSequenceId > 200
  BY SuiteAssumption, MaxSequenceIdAssumption DEF SuiteRecords
<1>2. ASSUME NEW tag, c.line = Command(tag)
      PROVE  Sent(c).id \in Ids \cup {NoId} /\ Sent(c).verb = c.line.verb
  <2>1. Sent(c).id = suite.seq /\ Sent(c).verb = "COMMAND"
    BY <1>2, LineSent
  <2>2. c.line.verb = "COMMAND"
    BY <1>2, LineFields
  <2> QED BY <1>1, <2>1, <2>2
<1>3. ASSUME NEW id \in {NoId, 0, 1, 2, 3, 4, 9, MaxSequenceId}, c.line.id = id
      PROVE  Sent(c).id \in Ids \cup {NoId} /\ Sent(c).verb = c.line.verb
  <2>1. c.line.id # NextId
    BY <1>1, <1>3 DEF NoId, NextId
  <2>2. Sent(c) = c.line
    BY <2>1, LineSent
  <2>3. id \in Ids \cup {NoId}
    BY <1>1 DEF Ids
  <2> QED BY <1>3, <2>2, <2>3
<1>4. CASE c \in Remark \cup Greeting \cup {Silent, Reminded, Resets, Turned}
  <2>1. c.line \in {Query, Ask("COMMAND", NoId, "plain"), Numbered(0, "move"),
                    Ask("UNKNOWN", NoId, "plain"), Ask("COMMAND", NoId, "run"),
                    Ask("ESTOP", NoId, "estop"), Ask("HELLO", NoId, "hello")}
    <3>1. CASE c \in Remark
      BY <3>1, RemarkLines
    <3>2. CASE c \in Greeting
      BY <3>2, HelloFields
    <3>3. CASE c \in {Silent, Reminded, Resets, Turned}
      BY <3>3, HelloFields, QueryFields, TurnedFields
    <3> QED BY <1>4, <3>1, <3>2, <3>3
  <2>2. c.line.id \in {NoId, 0}
    BY <2>1, LineFields
  <2> QED BY <1>3, <2>2
<1>5. CASE c \in Counted
  <2>1. PICK id \in {1, 2, 3, 4, 9, MaxSequenceId} :
          \E tag \in {"unknown", "write_only", "malformed", "stop"} : c.line = Numbered(id, tag)
    BY <1>5, CountedLines
  <2>2. c.line.id = id
    BY <2>1, LineFields
  <2> QED BY <1>3, <2>2
<1>6. CASE c \in Stepping
  <2>1. \E tag : c.line = Command(tag)
    BY <1>6, StepFields DEF Accepting, Refusing, Buffered
  <2> QED BY <1>2, <2>1
<1>7. CASE c \in Moving
  <2>1. \E tag : c.line = Command(tag)
    BY <1>7, MovingFields
  <2> QED BY <1>2, <2>1
<1>8. CASE c \in {Header, Tracked("move"), Sends(Command("stop"))}
  <2>1. \E tag : c.line = Command(tag)
    BY <1>8, HeaderFields, KindFields
  <2> QED BY <1>2, <2>1
<1> QED BY <1>4, <1>5, <1>6, <1>7, <1>8 DEF AllCases

\* Why the stream does not move under a line that is asked again.
LEMMA AgainStays ==
  ASSUME NEW c \in Remark \cup Greeting, suite \in SuiteRecords, Numbers, NEW got, NEW lost,
         Receive(Sent(c)), Conclude(c, Sent(c), got, lost, Ran(Sent(c)))
  PROVE  expectedNext_' <= expectedNext_
<1>1. CASE c \in Remark
  <2>1. Unmoved
    BY <1>1, RemarkUnmoved
  <2> QED BY <2>1 DEF Unmoved, Numbers
<1>2. CASE c \in Greeting
  <2>1. Sent(c) = Ask("HELLO", NoId, "hello")
    BY <1>2, HelloFields, LineFields, LineSent
  <2>2. expectedNext_' = 1
    BY <2>1, HelloAnswered
  <2> QED BY <2>2 DEF Numbers
<1> QED BY <1>1, <1>2

\* The counter the suite tracks, after any answer, whole or not.
LEMMA CounterTold ==
  ASSUME NEW c, suite \in SuiteRecords, Numbers, Sent(c).id \in Ids \cup {NoId},
         Sent(c).verb = c.line.verb, Receive(Sent(c)),
         NEW heard \in SUBSET DOMAIN replies', NEW lost, NEW ran,
         Concluded(c, Sent(c), Got(replies', heard), lost, ran)
  PROVE  /\ Counters(c) /\ gapOutstanding_' \in BOOLEAN /\ expectedNext_' <= expectedNext_ + 1
         /\ heard = DOMAIN replies' => Got(replies', heard) = replies'
<1> DEFINE got == Got(replies', heard)
<1>1. /\ ShortReplies /\ expectedNext_' \in Nat /\ expectedNext_' >= 1 /\ gapOutstanding_' \in BOOLEAN
      /\ Sent(c).verb # "HELLO" => expectedNext_' \in {expectedNext_, expectedNext_ + 1}
      /\ Sent(c).verb = "HELLO" => expectedNext_' = 1
  BY AnswersAreTrue
<1>2. /\ heard = DOMAIN replies' => got = replies'
      /\ \/ got = <<>>
         \/ \E r : got = <<r>> /\ Tells(r, expectedNext_')
         \/ \E r, q : got = <<r, q>> /\ Tells(r, expectedNext_') /\ Tells(q, expectedNext_')
  BY <1>1, Hearing
<1>3. suite.seq \in Nat
  BY SuiteAssumption, MaxSequenceIdAssumption DEF SuiteRecords, Ids
<1>4. suite'.seq = IF c.kind = "reset" THEN 1 ELSE next_id(got, c.line)
  BY DEF Concluded
<1> HIDE DEF got
<1>5. next_id(got, c.line) \in {suite.seq, expectedNext_'}
  <2>1. expectedNext_' \in Int
    BY <1>1
  <2> QED BY <1>2, <2>1, CounterFollows
<1>6. c.line.id # NextId => next_id(got, c.line) = suite.seq
  BY CounterStays
<1>7. c.line.verb # "HELLO" => expectedNext_' >= expectedNext_
  BY <1>1 DEF Numbers
<1>8. Counters(c)
  BY <1>1, <1>3, <1>4, <1>5, <1>6, <1>7 DEF Counters, Numbers
<1>9. expectedNext_' <= expectedNext_ + 1
  BY <1>1 DEF Numbers
<1> QED BY <1>1, <1>2, <1>8, <1>9 DEF got

LEMMA AskHolds ==
  ASSUME SuiteInv, AskAndJudge
  PROVE  SuiteInv'
<1> DEFINE c == Current
           line == Sent(Current)
<1>1. Running /\ ~Skip(c) /\ Receive(line) /\ AsBuilt(line)
  BY DEF AskAndJudge
<1>2. PICK heard \in SUBSET DOMAIN replies' :
         /\ suite.losses + (IF heard = DOMAIN replies' THEN 0 ELSE 1) <= MaxLosses
         /\ Conclude(c, line, Got(replies', heard), IF heard = DOMAIN replies' THEN 0 ELSE 1, Ran(line))
  BY DEF AskAndJudge, Got, Ran
<1>3. PICK lost \in {0, 1} : lost = IF heard = DOMAIN replies' THEN 0 ELSE 1
  OBVIOUS
<1>4. PICK got : got = Got(replies', heard)
  OBVIOUS
<1>5. PICK b : b = LabelsOf(suite.mode)[suite.at + 1]
  OBVIOUS
<1>6. /\ suite \in SuiteRecords /\ Numbers /\ c \in AllCases /\ b \in Labels /\ Place \in Labels
      /\ Allowed(Place, c, b) /\ Loose(Place) /\ (suite.losses = 0 => Exact(Place))
  <2>1. suite.at \in 1 .. Len(Suite(suite.mode)) /\ c = Suite(suite.mode)[suite.at]
    BY <1>1, Here
  <2>2. c \in AllCases
    BY <2>1, Placed
  <2> QED BY <1>1, <1>5, <2>2, Here DEF Sound, SuiteInv
<1>7. Conclude(c, line, got, lost, Ran(line)) /\ suite.losses + lost <= MaxLosses
  BY <1>2, <1>3, <1>4
<1>8. Concluded(c, line, got, lost, Ran(line))
  BY <1>6, <1>7, Fields
<1>9. line.id \in Ids \cup {NoId} /\ line.verb = c.line.verb
  BY <1>6, SentIds
<1>10. Concluded(c, line, Got(replies', heard), lost, Ran(line))
  BY <1>4, <1>8
<1>11. /\ Counters(c) /\ gapOutstanding_' \in BOOLEAN /\ expectedNext_' <= expectedNext_ + 1
       /\ heard = DOMAIN replies' => Got(replies', heard) = replies'
  BY <1>1, <1>6, <1>9, <1>10, CounterTold
<1>12. c.tries # 1 => expectedNext_' <= expectedNext_
  BY <1>1, <1>6, <1>7, AgainStays, Tries
<1>13. ASSUME suite.losses = 0, lost = 0
       PROVE  Fair(c, got, Ran(line)) /\ Exact(b)' /\ (c.kind = "header" => ~SuiteEnds(c, ShownBy(c, got, Ran(line))))
  <2>1. got = replies'
    BY <1>3, <1>4, <1>11, <1>13
  <2>2. Perfect(c)
    BY <1>1, <1>6, <1>7, <1>13, <2>1 DEF Perfect
  <2> QED BY <1>1, <1>6, <1>13, <2>1, <2>2, PerfectStep
<1>14. Ended(c, b, line, got, lost, Ran(line))
  BY <1>7, <1>11, <1>12, <1>13 DEF Ended
<1> QED BY <1>1, <1>5, <1>14, CaseEnds

\* The cases that can be skipped, and where they stand.
LEMMA SkippedPlaces ==
  ASSUME NEW a, NEW b, NEW c, Allowed(a, c, b), c.kind \in {"if_value", "turned"}
  PROVE  a \in Trailing /\ b \in {"tracked", "m6"}
<1>1. ASSUME c = Resets PROVE FALSE
  BY <1>1, HelloFields
<1>2. ASSUME c \in Greeting PROVE FALSE
  BY <1>2, HelloFields
<1>3. ASSUME c \in Remark PROVE FALSE
  BY <1>3, RemarkLines
<1>4. ASSUME c \in {Silent, Reminded} PROVE FALSE
  BY <1>4, QueryFields
<1>5. ASSUME Counting(a, c, b) PROVE FALSE
  BY <1>5, CountingFields
<1>6. CASE Driving(a, c, b)
  <2>1. \A tag : Sends(Command(tag)).kind = "send"
    BY KindFields
  <2>2. Sends(Query).kind = "send" /\ Tracked("move").kind = "judge" /\ Header.kind = "header"
    BY KindFields, HeaderFields
  <2>3. c \in Moving => c.kind = "motion"
    BY MovingFields
  <2>4. c # Sends(Command("telemetry")) /\ c # Sends(Command("stop")) /\ c # Sends(Command("quiet"))
    BY <2>1
  <2>5. c # Sends(Query) /\ c # Tracked("move") /\ c # Header /\ c \notin Moving
    BY <2>2, <2>3
  <2>6. (a = "ready" /\ b = "tracked") \/ (a = "m5" /\ b = "m6")
    BY <1>6, <2>4, <2>5 DEF Driving
  <2> QED BY <2>6 DEF Trailing, Following, InMotion
<1>7. CASE a \in Following /\ b = "tracked" /\ c \in Stepping
  BY <1>7 DEF Trailing
<1> QED BY <1>1, <1>2, <1>3, <1>4, <1>5, <1>6, <1>7, Zenon DEF Allowed

\* STATUS, the one case the wedged board leaves without an answer.
LEMMA StatusPlaces ==
  ASSUME NEW a, NEW b, NEW c, Allowed(a, c, b), c.kind = "status"
  PROVE  a \in Plain /\ b = a /\ c \in Remark
<1>1. c # Resets /\ c \notin Greeting /\ c \notin {Silent, Reminded}
  BY HelloFields, QueryFields
<1>2. c \notin Stepping
  BY StepFields
<1>3. ~Counting(a, c, b)
  BY CountingFields
<1>4. ~Driving(a, c, b)
  BY DrivingFields
<1> QED BY <1>1, <1>2, <1>3, <1>4 DEF Allowed

LEMMA SkipHolds ==
  ASSUME SuiteInv, SkipCase
  PROVE  SuiteInv'
<1> DEFINE c == Current
           n == Len(Suite(suite.mode))
<1>1. Running /\ Skip(c) /\ suite' = [suite EXCEPT !.at = @ + 1]
  BY DEF SkipCase
<1>2. expectedNext_' = expectedNext_ /\ gapOutstanding_' = gapOutstanding_
  BY DEF SkipCase, handlerVars
<1>3. PICK b : b = LabelsOf(suite.mode)[suite.at + 1]
  OBVIOUS
<1>4. /\ suite \in SuiteRecords /\ suite.mode \in Modes /\ expectedNext_ \in Nat /\ expectedNext_ >= 1
      /\ gapOutstanding_ \in BOOLEAN /\ suite.at \in Nat /\ suite.at > 0 /\ JudgesFairly
  BY <1>1 DEF SuiteInv, Running, SuiteRecords
<1>5. /\ Allowed(Place, c, b) /\ Loose(Place) /\ (suite.losses = 0 => Exact(Place))
      /\ expectedNext_ <= suite.at
  BY <1>1, <1>3, Here DEF Sound
<1>6. Place \in Trailing /\ b \in {"tracked", "m6"}
  <2>1. c.kind \in {"if_value", "turned"}
    BY <1>1 DEF Skip
  <2> QED BY <1>5, <2>1, SkippedPlaces
<1> HIDE DEF c
<1>7. /\ suite'.mode = suite.mode /\ suite'.at = suite.at + 1 /\ suite'.seq = suite.seq
      /\ suite'.losses = suite.losses /\ suite'.failed = suite.failed /\ suite'.lied = suite.lied
      /\ suite' \in SuiteRecords
  BY <1>1, <1>4 DEF SuiteRecords
<1>8. Place' = b
  BY <1>3, <1>7 DEF Place
<1>9. suite.seq <= expectedNext_ /\ b \in Trailing /\ b \notin {"fresh", "headed", "m3", "m4", "ready", "m5"}
  BY <1>5, <1>6 DEF Loose, Trailing, Following, InMotion
<1>10. Loose(b)'
  BY <1>2, <1>7, <1>9 DEF Loose
<1>11. suite'.losses = 0 => Exact(b)'
  <2>1. suite'.losses = 0 => suite'.seq = expectedNext_' /\ gapOutstanding_' = FALSE
    BY <1>2, <1>5, <1>6, <1>7 DEF Exact
  <2> QED BY <1>9, <2>1, ExactTrailing
<1>12. Sound(Place)'
  BY <1>8, <1>10, <1>11, Landing
<1>13. expectedNext_' <= suite'.at
  BY <1>2, <1>4, <1>5, <1>7
<1>14. JudgesFairly'
  BY <1>4, <1>7 DEF JudgesFairly
<1>15. suite'.at # 0
  BY <1>4, <1>7
<1> QED BY <1>2, <1>4, <1>7, <1>12, <1>13, <1>14, <1>15 DEF SuiteInv

\* Nothing is heard: only the suite's own bookkeeping moves.
LEMMA SilenceCounts ==
  ASSUME NEW c, suite \in SuiteRecords, Numbers, NEW line, NEW lost, NEW ran,
         expectedNext_' = expectedNext_, gapOutstanding_' = gapOutstanding_,
         Concluded(c, line, <<>>, lost, ran)
  PROVE  Counters(c)
<1>1. suite.seq \in Nat
  BY SuiteAssumption, MaxSequenceIdAssumption DEF SuiteRecords, Ids
<1>2. next_id(<<>>, c.line) = suite.seq
  BY NothingHeard
<1>3. suite'.seq = IF c.kind = "reset" THEN 1 ELSE suite.seq
  BY <1>2 DEF Concluded
<1> QED BY <1>1, <1>3 DEF Counters, Numbers

LEMMA LineLostHolds ==
  ASSUME SuiteInv, LineLost
  PROVE  SuiteInv'
<1> DEFINE c == Current
<1>1. Running
  BY DEF LineLost
<1>2. expectedNext_' = expectedNext_ /\ gapOutstanding_' = gapOutstanding_
  BY DEF LineLost, handlerVars
<1>3. PICK b : b = LabelsOf(suite.mode)[suite.at + 1]
  OBVIOUS
<1>4. /\ suite \in SuiteRecords /\ Numbers /\ Allowed(Place, c, b) /\ Loose(Place)
      /\ (suite.losses = 0 => Exact(Place))
  BY <1>1, <1>3, Here DEF Sound, SuiteInv
<1>5. suite.losses \in 0 .. MaxLosses /\ MaxLosses \in Nat
  BY <1>4, SuiteAssumption DEF SuiteRecords
<1>6. \/ Conclude(c, Sent(c), <<>>, 0, FALSE) /\ c.kind = "status"
      \/ Conclude(c, Sent(c), <<>>, 1, FALSE) /\ suite.losses < MaxLosses
  <2>1. CASE Wedged(c)
    BY <2>1, Zenon DEF LineLost, Wedged
  <2>2. CASE ~Wedged(c)
    BY <2>2, Zenon DEF LineLost
  <2> QED BY <2>1, <2>2
<1> HIDE DEF c
<1>7. ASSUME NEW lost \in {0, 1}, Conclude(c, Sent(c), <<>>, lost, FALSE),
             (lost = 0 /\ c.kind = "status") \/ (lost = 1 /\ suite.losses < MaxLosses)
      PROVE  Ended(c, b, Sent(c), <<>>, lost, FALSE)
  <2>1. suite.losses + lost <= MaxLosses
    BY <1>5, <1>7
  <2>2. Concluded(c, Sent(c), <<>>, lost, FALSE)
    BY <1>4, <1>7, Fields
  <2>3. Counters(c)
    BY <1>2, <1>4, <2>2, SilenceCounts
  <2>4. ASSUME lost = 0, suite.losses = 0
         PROVE  Fair(c, <<>>, FALSE) /\ Exact(b)' /\ c.kind # "header"
    <3>1. c.kind = "status"
      BY <1>7, <2>4
    <3>2. Place \in Plain /\ b = Place /\ c \in Remark
      BY <1>4, <3>1, StatusPlaces
    <3>3. c.line.id # NextId
      BY <3>2, RemarkLines, LineFields
    <3>4. Fair(c, <<>>, FALSE)
      BY <3>1, <3>3 DEF Fair, Judged
    <3>5. next_id(<<>>, c.line) = suite.seq
      BY NothingHeard
    <3>6. suite'.seq = suite.seq /\ suite.knows \subseteq suite'.knows /\ suite'.refused = suite.refused
      BY <2>2, <3>1, <3>5 DEF Concluded
    <3>7. suite'.rolling = suite.rolling
      BY <2>2 DEF Concluded
    <3>8. suite.latch => suite'.latch
      <4>1. suite'.latch = (suite.latch \/ (FALSE /\ Sent(c).verb = "ESTOP"))
        BY <2>2 DEF Concluded
      <4> QED BY <4>1, Zenon
    <3>9. Unmoved
      BY <1>2, <3>6, <3>7, <3>8 DEF Unmoved
    <3>10. Exact(b)'
      <4>1. b \in Plain /\ Exact(b)
        BY <1>4, <2>4, <3>2
      <4> QED BY <3>9, <4>1, ExactCarried
    <3> QED BY <3>1, <3>4, <3>10
  <2>5. Ended(c, b, Sent(c), <<>>, lost, FALSE)
    <3>1. gapOutstanding_' \in BOOLEAN /\ expectedNext_' <= expectedNext_ /\ expectedNext_' <= expectedNext_ + 1
      BY <1>2, <1>4 DEF Numbers
    <3> QED BY <1>7, <2>1, <2>3, <2>4, <3>1 DEF Ended
  <2> QED BY <2>5
<1>8. \E lost : Ended(c, b, Sent(c), <<>>, lost, FALSE)
  <2>1. CASE Conclude(c, Sent(c), <<>>, 0, FALSE) /\ c.kind = "status"
    BY <1>7, <2>1, Zenon
  <2>2. CASE Conclude(c, Sent(c), <<>>, 1, FALSE) /\ suite.losses < MaxLosses
    BY <1>7, <2>2, Zenon
  <2> QED BY <1>6, <2>1, <2>2
<1> QED BY <1>1, <1>3, <1>8, CaseEnds DEF c

LEMMA StartHolds ==
  ASSUME SuiteInv, StartSuite
  PROVE  SuiteInv'
<1>1. PICK mode \in Modes, wedged \in BOOLEAN :
         suite' = [suite EXCEPT !.mode = mode, !.at = 1, !.wedged = wedged]
  BY DEF StartSuite
<1>2. expectedNext_' = expectedNext_ /\ gapOutstanding_' = gapOutstanding_ /\ suite.at = 0
  BY DEF StartSuite, handlerVars
<1>3. /\ suite \in SuiteRecords /\ suite.seq = 1 /\ expectedNext_ = 1 /\ gapOutstanding_ = FALSE
      /\ JudgesFairly
  BY <1>2 DEF SuiteInv
<1>4. /\ suite'.mode = mode /\ suite'.at = 1 /\ suite'.seq = 1 /\ suite'.losses = suite.losses
      /\ suite'.failed = suite.failed /\ suite'.lied = suite.lied /\ suite' \in SuiteRecords
  BY <1>1, <1>3 DEF SuiteRecords
<1>5. Place' = "fresh"
  <2>1. Place' = LabelsOf(mode)[1]
    BY <1>4 DEF Place
  <2> QED BY <2>1, Placed
<1>6. Loose("fresh")' /\ Exact("fresh")'
  <2>1. suite'.seq = 1 /\ expectedNext_' = 1 /\ gapOutstanding_' = FALSE
    BY <1>2, <1>3, <1>4
  <2>2. Loose("fresh")'
    BY <2>1 DEF Loose
  <2> QED BY <2>1, <2>2, ExactFresh
<1>7. Sound(Place)'
  BY <1>5, <1>6 DEF Sound, Loose, Exact
<1>8. JudgesFairly'
  BY <1>3, <1>4 DEF JudgesFairly
<1> QED BY <1>2, <1>3, <1>4, <1>7, <1>8 DEF SuiteInv

LEMMA SuiteHolds == SuiteSpec => []SuiteInv
<1>1. SuiteInit => SuiteInv
  <2> SUFFICES ASSUME SuiteInit PROVE SuiteInv
    OBVIOUS
  <2>1. suite = NotStarted /\ expectedNext_ = 1 /\ gapOutstanding_ = FALSE
    BY DEF SuiteInit, HandlerInit
  <2>2. suite \in SuiteRecords
    <3>1. 1 \in Ids /\ 0 \in 0 .. MaxLosses
      BY SuiteAssumption, MaxSequenceIdAssumption DEF Ids
    <3> QED BY <2>1, <3>1 DEF NotStarted, SuiteRecords
  <2>3. suite.at = 0 /\ suite.seq = 1 /\ suite.failed = {} /\ suite.lied = FALSE
    BY <2>1 DEF NotStarted
  <2>4. ~(suite.at > 0)
    BY <2>3
  <2>5. ~Running
    BY <2>4 DEF Running
  <2>6. JudgesFairly
    BY <2>3 DEF JudgesFairly
  <2>7. expectedNext_ \in Nat /\ expectedNext_ >= 1
    <3>1. expectedNext_ = 1
      BY <2>1
    <3> QED BY <3>1
  <2>8. gapOutstanding_ \in BOOLEAN
    BY <2>1, Zenon
  <2> QED BY <2>1, <2>2, <2>3, <2>5, <2>6, <2>7, <2>8, Zenon DEF SuiteInv
<1>2. ASSUME SuiteInv, [SuiteNext]_suiteVars
      PROVE  SuiteInv'
  <2>1. CASE StartSuite
    BY <1>2, <2>1, StartHolds
  <2>2. CASE AskAndJudge
    BY <1>2, <2>2, AskHolds
  <2>3. CASE LineLost
    BY <1>2, <2>3, LineLostHolds
  <2>4. CASE SkipCase
    BY <1>2, <2>4, SkipHolds
  <2>5. CASE UNCHANGED suiteVars
    <3>1. suite' = suite /\ expectedNext_' = expectedNext_ /\ gapOutstanding_' = gapOutstanding_
      BY <2>5 DEF suiteVars, handlerVars
    <3>2. Running' <=> Running
      BY <3>1 DEF Running
    <3>3. Sound(Place)' <=> Sound(Place)
      BY <3>1 DEF Sound, Place, Loose, Exact
    <3>4. JudgesFairly' <=> JudgesFairly
      BY <3>1 DEF JudgesFairly
    <3> QED BY <1>2, <3>1, <3>2, <3>3, <3>4 DEF SuiteInv
  <2> QED BY <1>2, <2>1, <2>2, <2>3, <2>4, <2>5 DEF SuiteNext
<1> QED BY <1>1, <1>2, PTL DEF SuiteSpec

(* What the suite records of a case and of its carrier stays in its types.  *)
THEOREM SuiteTypesHold == SuiteSpec => []SuiteTypeOK
<1>1. SuiteInv => SuiteTypeOK
  BY DEF SuiteInv, SuiteRecords, SuiteTypeOK
<1> QED BY <1>1, SuiteHolds, PTL

(* On a carrier that loses nothing the suite fails no case on the wire and  *)
(* passes none whose command did not run; whatever is lost, the id it is    *)
(* about to use is never ahead of the robot's (next_id(), PASS and FAIL).   *)
THEOREM AcceptanceHolds == SuiteSpec => []AcceptanceIsSound
<1>1. SuiteInv => AcceptanceIsSound
  <2> SUFFICES ASSUME SuiteInv, Running, Current.line.id = NextId
               PROVE  suite.seq <= expectedNext_
    BY DEF AcceptanceIsSound, NeverAhead, SuiteInv
  <2>1. Allowed(Place, Current, LabelsOf(suite.mode)[suite.at + 1]) /\ Loose(Place)
    BY Here DEF Sound
  <2>2. Place \in Trailing
    BY <2>1, Carrying
  <2> QED BY <2>1, <2>2 DEF Loose
<1> QED BY <1>1, SuiteHolds, PTL
=============================================================================
