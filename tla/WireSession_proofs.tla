-------------------------- MODULE WireSession_proofs --------------------------
(***************************************************************************)
(* Proofs about the wire.                                                  *)
(*                                                                         *)
(* The robot's end (WireHandler), for every size of the sequence space,    *)
(* every set of contents and refusal codes, and any lines in any order.    *)
(*                                                                         *)
(* A host and a robot (WireSession) over a carrier that loses, reorders    *)
(* and is shared, for any number of commands, sessions, resends and lines  *)
(* on their way. They rest on the handler's own invariant, which the       *)
(* session's steps keep.                                                   *)
(***************************************************************************)
EXTENDS WireSession, WellFoundedInduction, SequenceTheorems, TLAPS

-----------------------------------------------------------------------------
(* The robot's end.                                                          *)

(* The gap predicate is what ReminderIsTrue needs to be inductive: while   *)
(* it is set, some refused id is still at or past expectedNext_.           *)
GapIsOpen == gapOutstanding_ => \E id \in discarded : id >= expectedNext_

Inv == /\ HandlerTypeOK
       /\ SessionInOrder
       /\ ReceiptsAreTrue
       /\ ReminderIsTrue
       /\ GapIsOpen

(* Every reply dispatch() can write, as a list of one or two of them, is   *)
(* in the range of `replies`.                                              *)
LEMMA ReplySeqs ==
    /\ <<>> \in Seq(Replies)
    /\ \A a \in Replies : <<a>> \in Seq(Replies)
    /\ \A a, b \in Replies : <<a, b>> \in Seq(Replies)
  OBVIOUS

(* A query's answer with and without the reminder behind it.               *)
LEMMA Concatenations ==
    ASSUME NEW a, NEW b PROVE <<a>> \o <<>> = <<a>> /\ <<a>> \o <<b>> = <<a, b>>
  <1>1. <<a>> \in Seq({a, b}) /\ <<b>> \in Seq({a, b}) /\ <<>> \in Seq({a, b})
    OBVIOUS
  <1>2. <<a>> \o <<>> = <<a>> BY <1>1, ConcatEmptySeq
  <1>3. <<a>> \o <<b>> \in Seq({a, b}) /\ <<a, b>> \in Seq({a, b}) BY <1>1
  <1>4. /\ Len(<<a>> \o <<b>>) = Len(<<a, b>>)
        /\ \A i \in 1 .. Len(<<a>> \o <<b>>) : (<<a>> \o <<b>>)[i] = <<a, b>>[i]
    BY <1>1
  <1>5. <<a>> \o <<b>> = <<a, b>> BY <1>3, <1>4, SeqEqual
  <1> QED BY <1>2, <1>5

(* The constructors of replies make replies.                               *)
LEMMA ReplyTypes ==
    ASSUME NEW n \in Nat, NEW id \in Ids, NEW w \in {"answer", "device", "estop"}
    PROVE  Ack(n) \in Replies /\ Nack(n) \in Replies /\ Err(n, id) \in Replies
           /\ Word(w) \in Replies
  BY MaxSequenceIdAssumption DEF Ack, Nack, Err, Word, Replies, Ids, NoId

(* In a state of the invariant expectedNext_ is a number a nack may carry. *)
LEMMA ExpectedNextRange ==
    ASSUME Inv PROVE expectedNext_ \in Nat /\ expectedNext_ \in Ids /\ expectedNext_ >= 1
  <1>1. expectedNext_ \in Ids /\ expectedNext_ = Len(accepted) + 1 /\ Len(accepted) \in Nat
    BY DEF Inv, HandlerTypeOK, SessionInOrder
  <1> QED BY <1>1, MaxSequenceIdAssumption DEF Ids

(* Counting a malformed line keeps the counter within its width.           *)
LEMMA CountStaysInWidth ==
    ASSUME malformedCount_ \in 0 .. MalformedModulus - 1, CountMalformed
    PROVE  malformedCount_' \in 0 .. MalformedModulus - 1
  <1>1. malformedCount_ + 1 \in Int BY ModulusAssumption
  <1>2. \A a \in Int, m \in Nat \ {0} : a % m \in 0 .. m - 1 BY SMT
  <1> QED BY <1>1, <1>2, ModulusAssumption DEF CountMalformed

\* The invariant holds at first.
THEOREM InvInit == HandlerInit => Inv
  <1> SUFFICES ASSUME HandlerInit PROVE Inv OBVIOUS
  <1> USE DEF HandlerInit
  <1>1. HandlerTypeOK
    <2>1. 1 \in Ids BY MaxSequenceIdAssumption DEF Ids
    <2>2. 0 \in 0 .. MalformedModulus - 1 BY ModulusAssumption
    <2>3. <<>> \in Seq(Replies) /\ <<>> \in Seq([id : Ids, tag : Tags]) OBVIOUS
    <2> QED BY <2>1, <2>2, <2>3 DEF HandlerTypeOK
  <1>2. SessionInOrder BY DEF SessionInOrder
  <1>3. ReceiptsAreTrue /\ ReminderIsTrue BY DEF ReceiptsAreTrue, ReminderIsTrue
  <1> QED BY <1>1, <1>2, <1>3 DEF Inv, GapIsOpen

(* The lines that leave the sequence alone: noise, unsequenced verbs but   *)
(* HELLO, a missing or illegal id, a stale retransmit.                     *)
LEMMA QuietStep ==
    ASSUME Inv, NEW line \in Lines,
           \/ ReceiveNoise(line) \/ handleEstop(line) \/ ReceiveQuery(line)
           \/ HelloWrongArity(line) \/ MissingId(line) \/ IdZero(line)
           \/ StaleRetransmit(line)
    PROVE  Inv'
  <1> DEFINE Silence == <<>>
             Estopped == <<Word("estop")>>
             Answer == <<Word("answer")>>
             Reminder == <<Word("answer"), Nack(expectedNext_)>>
             Asked == <<Nack(expectedNext_)>>
             Again == <<Ack(expectedNext_ - 1)>>
  <1>1. UNCHANGED seqVars
    BY DEF ReceiveNoise, handleEstop, ReceiveQuery, HelloWrongArity, MissingId,
           IdZero, StaleRetransmit
  <1>2. malformedCount_' \in 0 .. MalformedModulus - 1
    BY CountStaysInWidth DEF Inv, HandlerTypeOK, ReceiveNoise, handleEstop,
       ReceiveQuery, HelloWrongArity, MissingId, IdZero, StaleRetransmit
  <1>3. \/ replies' \in {Silence, Estopped, Answer, Asked}
        \/ gapOutstanding_ /\ replies' = Reminder
        \/ expectedNext_ > 1 /\ replies' = Again
    <2>1. CASE ReceiveNoise(line) \/ handleEstop(line) \/ HelloWrongArity(line)
               \/ MissingId(line) \/ IdZero(line)
      BY <2>1 DEF ReceiveNoise, handleEstop, HelloWrongArity, MissingId, IdZero
    <2>2. CASE ReceiveQuery(line)
      <3>1. CASE gapOutstanding_
        <4>1. replies' = Answer \o <<Nack(expectedNext_)>>
          BY <2>2, <3>1 DEF ReceiveQuery, emitReminderIfStalled
        <4>2. replies' = Reminder BY <4>1, Concatenations
        <4> QED BY <3>1, <4>2
      <3>2. CASE ~gapOutstanding_
        <4>1. replies' = Answer \o <<>>
          BY <2>2, <3>2 DEF ReceiveQuery, emitReminderIfStalled
        <4>2. replies' = Answer BY <4>1, Concatenations
        <4> QED BY <4>2
      <3> QED BY <3>1, <3>2
    <2>3. CASE StaleRetransmit(line)
      <3>1. line.id \in Ids \ {0} /\ line.id < expectedNext_
        BY <2>3, MaxSequenceIdAssumption DEF StaleRetransmit, Executable, Lines, Ids, NoId
      <3> QED BY <2>3, <3>1, ExpectedNextRange, MaxSequenceIdAssumption
              DEF StaleRetransmit, Ids
    <2> QED BY <2>1, <2>2, <2>3
  <1>4. replies' \in Seq(Replies)
    <2>1. expectedNext_ \in Nat /\ expectedNext_ >= 1 BY ExpectedNextRange
    <2>2. expectedNext_ - 1 \in Nat BY <2>1
    <2>3. /\ Nack(expectedNext_) \in Replies /\ Ack(expectedNext_ - 1) \in Replies
          /\ Word("answer") \in Replies /\ Word("estop") \in Replies
      BY <2>1, <2>2, MaxSequenceIdAssumption DEF Replies, Ack, Nack, Word, Ids, NoId
    <2> QED BY <1>3, <2>3, ReplySeqs
  <1>5. HandlerTypeOK' BY <1>1, <1>2, <1>4 DEF Inv, HandlerTypeOK, seqVars
  <1>6. SessionInOrder' /\ GapIsOpen'
    BY <1>1 DEF Inv, SessionInOrder, GapIsOpen, seqVars
  <1>7. ReceiptsAreTrue'
    <2>1. /\ Len(accepted) \in Nat /\ expectedNext_ = Len(accepted) + 1
          /\ accepted' = accepted /\ DOMAIN accepted = 1 .. Len(accepted)
      BY <1>1 DEF Inv, HandlerTypeOK, SessionInOrder, seqVars
    <2>2. \A i \in DOMAIN replies' :
            \/ replies'[i].kind \in {"answer", "estop"}
            \/ replies'[i] = Nack(expectedNext_)
            \/ expectedNext_ > 1 /\ replies'[i] = Ack(expectedNext_ - 1)
      BY <1>3 DEF Word
    <2> QED BY <2>1, <2>2 DEF ReceiptsAreTrue, Ack, Nack
  <1>8. ReminderIsTrue'
    <2>1. CASE gapOutstanding_
      BY <1>1, <2>1 DEF Inv, GapIsOpen, ReminderIsTrue, seqVars
    <2>2. CASE ~gapOutstanding_
      <3>1. \A i, j \in DOMAIN replies' :
              ~(replies'[i].kind = "answer" /\ replies'[j].kind = "nack")
        BY <1>3, <2>2 DEF Word, Nack, Ack
      <3> QED BY <3>1 DEF ReminderIsTrue
    <2> QED BY <2>1, <2>2
  <1> QED BY <1>5, <1>6, <1>7, <1>8 DEF Inv

(* A decode failure and a numeric gap set the predicate and record an id   *)
(* that is not below expectedNext_.                                        *)
LEMMA RefusalStep ==
    ASSUME Inv, NEW line \in Lines,
           ReservedId(line) \/ NumericGap(line) \/ DecodeFailure(line)
    PROVE  Inv'
  <1>1. expectedNext_ \in Nat /\ expectedNext_ \in Ids /\ expectedNext_ >= 1
    BY ExpectedNextRange
  <1>2. UNCHANGED <<expectedNext_, accepted>>
    BY DEF ReservedId, NumericGap, DecodeFailure, handleDecodeFailure
  <1>3. line.id \in Ids /\ line.id >= expectedNext_
    BY <1>1, MaxSequenceIdAssumption
    DEF ReservedId, NumericGap, DecodeFailure, Executable, sequenceIdIsExecutable,
        Lines, Ids, NoId
  <1>4. discarded' = discarded \cup {line.id}
    BY DEF ReservedId, NumericGap, DecodeFailure, handleDecodeFailure
  <1>5. gapOutstanding_' = TRUE
    BY DEF ReservedId, NumericGap, DecodeFailure, handleDecodeFailure
  <1>6. malformedCount_' \in 0 .. MalformedModulus - 1
    BY CountStaysInWidth DEF Inv, HandlerTypeOK, ReservedId, NumericGap,
       DecodeFailure, handleDecodeFailure
  <1>7. \/ replies' = <<Nack(expectedNext_)>>
        \/ \E code \in {1, 2, 3} : replies' = <<Nack(expectedNext_), Err(code, line.id)>>
    BY DEF ReservedId, NumericGap, DecodeFailure, handleDecodeFailure,
           kUnknown, kBadArg, kRange
  <1>8. replies' \in Seq(Replies)
    <2>1. Nack(expectedNext_) \in Replies /\ \A code \in {1, 2, 3} : Err(code, line.id) \in Replies
      BY <1>1, <1>3 DEF Replies, Nack, Err
    <2> QED BY <1>7, <2>1, ReplySeqs
  <1>9. HandlerTypeOK'
    BY <1>2, <1>3, <1>4, <1>5, <1>6, <1>8 DEF Inv, HandlerTypeOK
  <1>10. SessionInOrder' BY <1>2 DEF Inv, SessionInOrder
  <1>11. GapIsOpen' BY <1>2, <1>3, <1>4 DEF GapIsOpen
  <1>12. ReceiptsAreTrue'
    <2>1. /\ Len(accepted) \in Nat /\ expectedNext_ = Len(accepted) + 1
          /\ DOMAIN accepted = 1 .. Len(accepted)
      BY DEF Inv, HandlerTypeOK, SessionInOrder
    <2>2. \A i \in DOMAIN replies' :
            replies'[i].kind = "err" \/ replies'[i] = Nack(expectedNext_)
      BY <1>7 DEF Err
    <2> QED BY <1>2, <2>1, <2>2 DEF ReceiptsAreTrue, Nack
  <1>13. ReminderIsTrue' BY <1>2, <1>3, <1>4 DEF ReminderIsTrue
  <1> QED BY <1>9, <1>10, <1>11, <1>12, <1>13 DEF Inv

(* HELLO starts from scratch.                                              *)
LEMMA HelloStep ==
    ASSUME Inv, NEW line \in Lines, handleHello(line) PROVE Inv'
  <1>1. replies' = <<Word("device")>> BY DEF handleHello
  <1>2. Word("device") \in Replies BY DEF Word, Replies
  <1>3. replies' \in Seq(Replies) BY <1>1, <1>2, ReplySeqs
  <1>4. HandlerTypeOK'
    <2>1. expectedNext_' \in Ids BY MaxSequenceIdAssumption DEF handleHello, Ids
    <2>2. accepted' \in Seq([id : Ids, tag : Tags]) BY DEF handleHello
    <2> QED BY <1>3, <2>1, <2>2 DEF Inv, HandlerTypeOK, handleHello
  <1>5. SessionInOrder' BY DEF SessionInOrder, handleHello
  <1>6. ReceiptsAreTrue' /\ ReminderIsTrue'
    BY <1>1 DEF ReceiptsAreTrue, ReminderIsTrue, Word
  <1>7. GapIsOpen' BY DEF GapIsOpen, handleHello
  <1> QED BY <1>4, <1>5, <1>6, <1>7 DEF Inv

(* An accepted command is the next one, and its successor does not wrap.   *)
LEMMA AcceptStep ==
    ASSUME Inv, NEW line \in Lines, Accept(line) PROVE Inv'
  <1>1. expectedNext_ \in Nat /\ expectedNext_ \in Ids /\ expectedNext_ >= 1
    BY ExpectedNextRange
  <1>2. line.id = expectedNext_ /\ line.id # MaxSequenceId
    BY DEF Accept, Executable, sequenceIdIsExecutable
  <1>3. expectedNext_' = expectedNext_ + 1 /\ expectedNext_' \in Ids
    BY <1>1, <1>2, MaxSequenceIdAssumption DEF Accept, Successor, Ids
  <1>4. accepted' = Append(accepted, [id |-> expectedNext_, tag |-> line.tag])
    BY <1>2 DEF Accept
  <1>5. /\ accepted \in Seq([id : Ids, tag : Tags]) /\ Len(accepted) \in Nat
        /\ expectedNext_ = Len(accepted) + 1
    BY DEF Inv, HandlerTypeOK, SessionInOrder
  <1>6. [id |-> expectedNext_, tag |-> line.tag] \in [id : Ids, tag : Tags]
    BY <1>1 DEF Lines
  <1>7. /\ accepted' \in Seq([id : Ids, tag : Tags])
        /\ Len(accepted') = Len(accepted) + 1
        /\ DOMAIN accepted' = 1 .. Len(accepted) + 1
        /\ \A i \in 1 .. Len(accepted) : accepted'[i] = accepted[i]
        /\ accepted'[Len(accepted) + 1] = [id |-> expectedNext_, tag |-> line.tag]
    BY <1>4, <1>5, <1>6
  <1>8. \/ replies' = <<Ack(line.id)>>
        \/ \E errCode \in ErrCodes : replies' = <<Ack(line.id), Err(errCode, line.id)>>
    BY DEF Accept
  <1>9. replies' \in Seq(Replies)
    <2>1. Ack(line.id) \in Replies BY <1>1, <1>2 DEF Ack, Replies
    <2>2. \A errCode \in ErrCodes : Err(errCode, line.id) \in Replies
      BY <1>1, <1>2, ErrCodesAssumption DEF Err, Replies
    <2> QED BY <1>8, <2>1, <2>2, ReplySeqs
  <1>10. HandlerTypeOK'
    BY <1>3, <1>7, <1>9 DEF Inv, HandlerTypeOK, Accept
  <1>11. SessionInOrder'
    <2>1. \A i \in 1 .. Len(accepted) : accepted[i].id = i
      BY <1>5 DEF Inv, SessionInOrder
    <2> QED BY <1>3, <1>5, <1>7, <2>1 DEF SessionInOrder
  <1>12. ReceiptsAreTrue'
    <2>1. \A i \in DOMAIN replies' :
            replies'[i].kind = "err" \/ replies'[i] = Ack(expectedNext_)
      BY <1>2, <1>8 DEF Err
    <2> QED BY <1>5, <1>7, <2>1 DEF ReceiptsAreTrue, Ack
  <1>13. ReminderIsTrue'
    <2>1. \A i \in DOMAIN replies' : replies'[i].kind \in {"ack", "err"}
      BY <1>8 DEF Ack, Err
    <2> QED BY <2>1 DEF ReminderIsTrue
  <1>14. GapIsOpen' BY DEF GapIsOpen, Accept
  <1> QED BY <1>10, <1>11, <1>12, <1>13, <1>14 DEF Inv

\* Every step of the handler keeps the invariant.
THEOREM InvStep == Inv /\ [HandlerNext]_handlerVars => Inv'
  <1> SUFFICES ASSUME Inv, [HandlerNext]_handlerVars PROVE Inv' OBVIOUS
  <1>1. CASE UNCHANGED handlerVars
    BY <1>1 DEF handlerVars, Inv, HandlerTypeOK, SessionInOrder, ReceiptsAreTrue,
       ReminderIsTrue, GapIsOpen
  <1>2. CASE HandlerNext
    <2>1. PICK line \in Lines : Receive(line) BY <1>2 DEF HandlerNext
    <2> QED BY <2>1, QuietStep, RefusalStep, HelloStep, AcceptStep DEF Receive
  <1> QED BY <1>1, <1>2

\* The inductive invariant, for every number of lines and every window.
THEOREM Invariance == HandlerSpec => []Inv
  BY InvInit, InvStep, PTL DEF HandlerSpec

(* The state of the handler keeps its types, for every sequence width.     *)
THEOREM TypeCorrect == HandlerSpec => []HandlerTypeOK
  <1>1. Inv => HandlerTypeOK BY DEF Inv
  <1> QED BY <1>1, Invariance, PTL

(* Each session hands the adapter #1, #2, #3, ... in order, each once, and *)
(* expectedNext_ never wraps: whatever lines a carrier delivers.           *)
THEOREM InOrder == HandlerSpec => []SessionInOrder
  <1>1. Inv => SessionInOrder BY DEF Inv
  <1> QED BY <1>1, Invariance, PTL

(* An ack names the latest accepted command, a nack one not yet accepted.  *)
THEOREM TrueReceipts == HandlerSpec => []ReceiptsAreTrue
  <1>1. Inv => ReceiptsAreTrue BY DEF Inv
  <1> QED BY <1>1, Invariance, PTL

(* A query is answered with a reminder only if a refused command is still  *)
(* missing.                                                                *)
THEOREM TrueReminders == HandlerSpec => []ReminderIsTrue
  <1>1. Inv => ReminderIsTrue BY DEF Inv
  <1> QED BY <1>1, Invariance, PTL
----------------------------------------------------------------------------
(* What a step does to the list of accepted commands: nothing, or it adds  *)
(* the next one, or it is HELLO.                                           *)
LEMMA StepOnAccepted ==
    ASSUME Inv, NEW line \in Lines, Receive(line)
    PROVE  \/ accepted' = accepted
           \/ accepted' = <<>> /\ replies' = <<Word("device")>>
           \/ /\ Len(accepted) < MaxSequenceId - 1
              /\ line.tag \in Tags
              /\ accepted' = Append(accepted, [id |-> Len(accepted) + 1, tag |-> line.tag])
  <1>1. CASE Accept(line)
    <2>1. line.id = expectedNext_ /\ line.id # MaxSequenceId
      BY <1>1 DEF Accept, Executable, sequenceIdIsExecutable
    <2>2. expectedNext_ \in Ids /\ expectedNext_ = Len(accepted) + 1 /\ Len(accepted) \in Nat
      BY DEF Inv, HandlerTypeOK, SessionInOrder
    <2>3. Len(accepted) < MaxSequenceId - 1
      BY <2>1, <2>2, MaxSequenceIdAssumption DEF Ids
    <2> QED BY <1>1, <2>1, <2>2, <2>3 DEF Accept, Lines
  <1>2. CASE handleHello(line) BY <1>2 DEF handleHello
  <1>3. CASE \/ ReceiveNoise(line) \/ handleEstop(line) \/ ReceiveQuery(line)
             \/ HelloWrongArity(line) \/ MissingId(line) \/ IdZero(line)
             \/ StaleRetransmit(line)
    BY <1>3 DEF ReceiveNoise, handleEstop, ReceiveQuery, HelloWrongArity,
       MissingId, IdZero, StaleRetransmit, seqVars
  <1>4. CASE ReservedId(line) \/ NumericGap(line) \/ DecodeFailure(line)
    BY <1>4 DEF ReservedId, NumericGap, DecodeFailure, handleDecodeFailure
  <1> QED BY <1>1, <1>2, <1>3, <1>4 DEF Receive

(* The handler implements the abstract stream: its adapter cannot tell the *)
(* noisy, lossy carrier from a perfect one that sometimes starts over.     *)
THEOREM Refinement == HandlerSpec => ImplementsStream
  <1>1. HandlerInit => Stream!Init BY DEF HandlerInit, Stream!Init
  <1>2. Inv /\ [HandlerNext]_handlerVars => [Stream!Next]_accepted
    <2> SUFFICES ASSUME Inv, [HandlerNext]_handlerVars PROVE [Stream!Next]_accepted
      OBVIOUS
    <2>1. CASE UNCHANGED handlerVars BY <2>1 DEF handlerVars
    <2>2. CASE HandlerNext
      <3>1. PICK line \in Lines : Receive(line) BY <2>2 DEF HandlerNext
      <3> QED BY <3>1, StepOnAccepted
              DEF Stream!Next, Stream!HandOver, Stream!NewSession
    <2> QED BY <2>1, <2>2
  <1> QED BY <1>1, <1>2, Invariance, PTL DEF HandlerSpec, ImplementsStream, Stream!Spec

(* Nothing but HELLO, answered by the banner, ends a session.              *)
THEOREM SessionsEndByHello == HandlerSpec => OnlyHelloEndsSession
  <1> DEFINE Step == \/ replies' = <<Word("device")>>
                     \/ /\ Len(accepted') >= Len(accepted)
                        /\ \A i \in DOMAIN accepted : accepted'[i] = accepted[i]
  <1>1. Inv /\ [HandlerNext]_handlerVars => [Step]_handlerVars
    <2> SUFFICES ASSUME Inv, HandlerNext PROVE Step OBVIOUS
    <2>1. PICK line \in Lines : Receive(line) BY DEF HandlerNext
    <2>2. accepted \in Seq([id : Ids, tag : Tags]) BY DEF Inv, HandlerTypeOK
    <2>3. CASE accepted' = accepted BY <2>2, <2>3
    <2>4. CASE \E e : accepted' = Append(accepted, e) BY <2>2, <2>4
    <2> QED BY <2>1, <2>3, <2>4, StepOnAccepted
  <1> HIDE DEF Step
  <1>2. HandlerSpec => [][Step]_handlerVars BY <1>1, Invariance, PTL DEF HandlerSpec
  <1> QED BY <1>2 DEF Step, OnlyHelloEndsSession


-----------------------------------------------------------------------------
(* The session.                                                              *)

(* The first line that matches is one of those that do.                    *)
LEMMA FirstIsThere ==
  ASSUME NEW S, S \subseteq Nat, S # {}
  PROVE  First(S) \in S
<1> DEFINE Less == {pair \in Nat \X Nat : pair[1] < pair[2]}
<1>1. IsWellFoundedOn(Less, Nat)
  BY NatLessThanWellFounded DEF OpToRel
<1>2. \E i \in S : \A j \in S : ~(<<j, i>> \in Less)
  BY <1>1, WFMin
<1>3. \A i, j \in Nat : <<j, i>> \in Less <=> j < i
  OBVIOUS
<1> HIDE DEF Less
<1>4. \E i \in S : \A j \in S : i <= j
  <2>1. PICK i \in S : \A j \in S : ~(<<j, i>> \in Less)
    BY <1>2
  <2>2. \A j \in S : i \in Nat /\ j \in Nat /\ ~(j < i)
    BY <1>3, <2>1
  <2> QED BY <2>2
<1> QED BY <1>4 DEF First

(* A line taken out of a queue, and the rest of a queue.                    *)
Without(s, i) == SubSeq(s, 1, i - 1) \o SubSeq(s, i + 1, Len(s))
LEMMA Removed ==
  ASSUME NEW S, NEW s \in Seq(S), NEW i \in 1 .. Len(s), NEW q, q = Without(s, i)
  PROVE  /\ q \in Seq(S) /\ Len(q) = Len(s) - 1
         /\ \A p \in 1 .. Len(q) : q[p] = IF p < i THEN s[p] ELSE s[p + 1]
<1> DEFINE front == SubSeq(s, 1, i - 1)
           back == SubSeq(s, i + 1, Len(s))
<1>1. Len(s) \in Nat /\ i \in Nat /\ \A p \in 1 .. Len(s) : s[p] \in S
  OBVIOUS
<1>2. /\ front \in Seq(S) /\ Len(front) = i - 1
      /\ \A p \in 1 .. i - 1 : front[p] = s[p]
  <2>1. \A p \in 1 .. i - 1 : s[p] \in S
    BY <1>1
  <2>2. /\ front \in Seq(S) /\ Len(front) = IF 1 <= i - 1 THEN (i - 1) - 1 + 1 ELSE 0
        /\ \A p \in 1 .. (i - 1) - 1 + 1 : front[p] = s[1 + p - 1]
    BY <1>1, <2>1, SubSeqProperties
  <2> QED BY <1>1, <2>2
<1>3. /\ back \in Seq(S) /\ Len(back) = Len(s) - i
      /\ \A p \in 1 .. Len(s) - i : back[p] = s[p + i]
  <2>1. \A p \in i + 1 .. Len(s) : s[p] \in S
    BY <1>1
  <2>2. /\ back \in Seq(S)
        /\ Len(back) = IF i + 1 <= Len(s) THEN Len(s) - (i + 1) + 1 ELSE 0
        /\ \A p \in 1 .. Len(s) - (i + 1) + 1 : back[p] = s[(i + 1) + p - 1]
    BY <1>1, <2>1, SubSeqProperties
  <2> QED BY <1>1, <2>2
<1> HIDE DEF front, back
<1>4. /\ q \in Seq(S) /\ Len(q) = Len(front) + Len(back)
      /\ \A p \in 1 .. Len(front) + Len(back) :
           q[p] = IF p <= Len(front) THEN front[p] ELSE back[p - Len(front)]
  BY <1>2, <1>3, ConcatProperties DEF front, back, Without
<1>5. Len(q) = Len(s) - 1
  <2>1. Len(q) = (i - 1) + (Len(s) - i)
    BY <1>2, <1>3, <1>4
  <2>2. PICK n \in Nat, k \in Nat : n = Len(s) /\ k = i
    BY <1>1
  <2>3. (k - 1) + (n - k) = n - 1
    OBVIOUS
  <2>4. (i - 1) + (Len(s) - i) = Len(s) - 1
    BY <2>2, <2>3, Zenon
  <2> QED BY <2>1, <2>4, Zenon
<1>6. ASSUME NEW p \in 1 .. Len(s) - 1
      PROVE  q[p] = IF p < i THEN s[p] ELSE s[p + 1]
  <2>1. CASE p < i
    <3>1. p \in 1 .. Len(front) + Len(back) /\ p <= Len(front) /\ p \in 1 .. i - 1
      BY <1>1, <1>2, <1>3, <2>1
    <3> QED BY <1>2, <1>4, <2>1, <3>1
  <2>2. CASE ~(p < i)
    <3>0. p \in Nat /\ p <= Len(s) - 1 /\ p >= i /\ Len(front) = i - 1
      BY <1>1, <1>2, <2>2
    <3>1. p - Len(front) \in 1 .. Len(s) - i /\ ~(p <= Len(front))
      BY <1>1, <3>0
    <3>2. q[p] = back[p - Len(front)]
      BY <1>1, <1>2, <1>3, <1>4, <1>5, <3>1
    <3>3. back[p - Len(front)] = s[(p - Len(front)) + i]
      BY <1>3, <3>1
    <3>4. (p - Len(front)) + i = p + 1
      BY <1>1, <1>2, <1>5
    <3> QED BY <2>2, <3>2, <3>3, <3>4
  <2> QED BY <2>1, <2>2
<1> QED BY <1>4, <1>5, <1>6

LEMMA Rest ==
  ASSUME NEW S, NEW s \in Seq(S), NEW k \in 0 .. Len(s)
  PROVE  /\ SubSeq(s, k + 1, Len(s)) \in Seq(S)
         /\ Len(SubSeq(s, k + 1, Len(s))) = Len(s) - k
         /\ \A p \in 1 .. Len(s) - k : SubSeq(s, k + 1, Len(s))[p] = s[p + k]
<1>1. Len(s) \in Nat /\ \A p \in k + 1 .. Len(s) : s[p] \in S
  OBVIOUS
<1>2. /\ SubSeq(s, k + 1, Len(s)) \in Seq(S)
      /\ Len(SubSeq(s, k + 1, Len(s))) = IF k + 1 <= Len(s) THEN Len(s) - (k + 1) + 1 ELSE 0
      /\ \A p \in 1 .. Len(s) - (k + 1) + 1 : SubSeq(s, k + 1, Len(s))[p] = s[(k + 1) + p - 1]
  BY <1>1, SubSeqProperties
<1> QED BY <1>1, <1>2

LEMMA Window ==
  ASSUME NEW S, NEW s \in Seq(S), NEW k \in 0 .. Len(s)
  PROVE  DOMAIN SubSeq(s, 1, k) = 1 .. k /\ \A p \in 1 .. k : SubSeq(s, 1, k)[p] = s[p]
<1>1. Len(s) \in Nat /\ \A p \in 1 .. k : s[p] \in S
  OBVIOUS
<1>2. /\ SubSeq(s, 1, k) \in Seq(S)
      /\ Len(SubSeq(s, 1, k)) = IF 1 <= k THEN k - 1 + 1 ELSE 0
      /\ \A p \in 1 .. k - 1 + 1 : SubSeq(s, 1, k)[p] = s[1 + p - 1]
  BY <1>1, SubSeqProperties
<1> QED BY <1>1, <1>2

(* Two more pieces behind a queue.                                         *)
Elements(t) == {t[r] : r \in 1 .. Len(t)}

LEMMA Joined ==
  ASSUME NEW S, NEW s \in Seq(S), NEW one \in Seq(S), NEW two \in Seq(S), NEW q,
         q = s \o one \o two
  PROVE  /\ q \in Seq(S) /\ Len(q) >= Len(s)
         /\ \A p \in 1 .. Len(s) : q[p] = s[p]
         /\ \A p \in Len(s) + 1 .. Len(q) : q[p] \in Elements(one) \cup Elements(two)
<1> DEFINE both == s \o one
<1>1. Len(s) \in Nat /\ Len(one) \in Nat /\ Len(two) \in Nat
  OBVIOUS
<1>2. /\ both \in Seq(S) /\ Len(both) = Len(s) + Len(one)
      /\ \A p \in 1 .. Len(s) + Len(one) : both[p] = IF p <= Len(s) THEN s[p] ELSE one[p - Len(s)]
  BY ConcatProperties
<1> HIDE DEF both
<1>3. q = both \o two
  BY DEF both
<1>4. /\ q \in Seq(S) /\ Len(q) = Len(both) + Len(two)
      /\ \A p \in 1 .. Len(both) + Len(two) : q[p] = IF p <= Len(both) THEN both[p] ELSE two[p - Len(both)]
  <2>1. ASSUME NEW t \in Seq(S)
        PROVE  /\ t \o two \in Seq(S) /\ Len(t \o two) = Len(t) + Len(two)
               /\ \A p \in 1 .. Len(t) + Len(two) :
                    (t \o two)[p] = IF p <= Len(t) THEN t[p] ELSE two[p - Len(t)]
    BY ConcatProperties
  <2>2. both \in Seq(S)
    BY <1>2
  <2> HIDE DEF both
  <2> QED BY <1>3, <2>1, <2>2, Zenon
<1>5. ASSUME NEW p \in 1 .. Len(s)
      PROVE  q[p] = s[p]
  <2>1. p \in 1 .. Len(both) + Len(two) /\ p <= Len(both) /\ p \in 1 .. Len(s) + Len(one) /\ p <= Len(s)
    BY <1>1, <1>2
  <2> QED BY <1>2, <1>4, <2>1
<1>6. ASSUME NEW p \in Len(s) + 1 .. Len(q)
      PROVE  q[p] \in Elements(one) \cup Elements(two)
  <2>1. p \in 1 .. Len(both) + Len(two) /\ p > Len(s) /\ p \in Int
    BY <1>1, <1>2, <1>4
  <2>2. CASE p <= Len(both)
    <3>1. p \in 1 .. Len(s) + Len(one) /\ ~(p <= Len(s)) /\ p - Len(s) \in 1 .. Len(one)
      BY <1>1, <1>2, <2>1, <2>2
    <3> QED BY <1>2, <1>4, <2>1, <2>2, <3>1 DEF Elements
  <2>3. CASE ~(p <= Len(both))
    <3>1. p - Len(both) \in 1 .. Len(two)
      BY <1>1, <1>2, <2>1, <2>3
    <3> QED BY <1>4, <2>1, <2>3, <3>1 DEF Elements
  <2> QED BY <2>2, <2>3
<1>7. Len(q) >= Len(s)
  BY <1>1, <1>2, <1>4
<1> QED BY <1>4, <1>5, <1>6, <1>7

-----------------------------------------------------------------------------
(* The handler, as the session sees it: a HELLO, a command it does not run  *)
(* (stale, past a gap, undecodable, with the reserved id), or the next one. *)
LEMMA HandlerRests ==
  ASSUME Inv, replies' = <<>>, UNCHANGED <<seqVars, malformedCount_>>
  PROVE  Inv'
<1>1. replies' \in Seq(Replies)
  BY ReplySeqs
<1> QED BY <1>1 DEF Inv, HandlerTypeOK, SessionInOrder, ReceiptsAreTrue, ReminderIsTrue, GapIsOpen,
                    seqVars

Answered(kinds) == \A j \in DOMAIN replies' : replies'[j].kind \in kinds

Greets(line) ==
  /\ line.verb = "HELLO"
  /\ accepted' = <<>> /\ expectedNext_' = 1
  /\ Answered({"device"})

Turns(line) ==
  /\ line.verb = "COMMAND"
  /\ UNCHANGED <<accepted, expectedNext_>>
  /\ Answered({"ack", "nack", "err"})

Runs(line) ==
  /\ line.verb = "COMMAND"
  /\ line.id = expectedNext_ /\ line.id = Len(accepted) + 1
  /\ accepted' = Append(accepted, [id |-> line.id, tag |-> line.tag])
  /\ expectedNext_' = line.id + 1
  /\ Answered({"ack", "nack", "err"})

LEMMA Handles ==
  ASSUME Inv, NEW line \in Lines, Receive(line),
         line.verb = "HELLO" \/ (line.verb = "COMMAND" /\ line.id \notin {NoId, 0})
  PROVE  /\ Inv'
         /\ Greets(line) \/ Turns(line) \/ Runs(line)
         /\ DOMAIN replies' \in {{1}, {1, 2}}
<1>1. Inv'
  <2>1. HandlerNext
    BY DEF HandlerNext
  <2> QED BY <2>1, InvStep
<1>2. CASE line.verb = "HELLO"
  <2>1. handleHello(line)
    BY <1>2 DEF Receive, ReceiveNoise, handleEstop, ReceiveQuery, HelloWrongArity, MissingId,
                IdZero, ReservedId, StaleRetransmit, NumericGap, DecodeFailure, Accept, Executable,
                Noise, Sequenced
  <2>2. replies' = <<Word("device")>>
    BY <2>1 DEF handleHello
  <2> QED BY <1>1, <1>2, <2>1, <2>2 DEF handleHello, Greets, Answered, Word
<1>3. CASE line.verb = "COMMAND" /\ line.id \notin {NoId, 0}
  <2>1. ReservedId(line) \/ StaleRetransmit(line) \/ NumericGap(line) \/ DecodeFailure(line)
        \/ Accept(line)
    BY <1>3 DEF Receive, ReceiveNoise, handleEstop, ReceiveQuery, handleHello, HelloWrongArity,
                MissingId, IdZero, Noise
  <2>2. CASE StaleRetransmit(line)
    <3>1. replies' = <<Ack(expectedNext_ - 1)>>
      BY <2>2 DEF StaleRetransmit
    <3> QED BY <1>1, <1>3, <2>2, <3>1 DEF StaleRetransmit, seqVars, Turns, Answered, Ack
  <2>3. CASE ReservedId(line) \/ NumericGap(line) \/ DecodeFailure(line)
    <3>1. \/ replies' = <<Nack(expectedNext_)>>
          \/ \E code : replies' = <<Nack(expectedNext_), Err(code, line.id)>>
      BY <2>3 DEF ReservedId, NumericGap, DecodeFailure, handleDecodeFailure
    <3>2. UNCHANGED <<accepted, expectedNext_>>
      BY <2>3 DEF ReservedId, NumericGap, DecodeFailure, handleDecodeFailure
    <3> QED BY <1>1, <1>3, <3>1, <3>2 DEF Turns, Answered, Nack, Err
  <2>4. CASE Accept(line)
    <3>1. \/ replies' = <<Ack(line.id)>>
          \/ \E code : replies' = <<Ack(line.id), Err(code, line.id)>>
      BY <2>4 DEF Accept
    <3>2. line.id = expectedNext_ /\ expectedNext_ = Len(accepted) + 1
          /\ expectedNext_' = line.id + 1
      BY <2>4 DEF Accept, Executable, sequenceIdIsExecutable, Successor, Inv, SessionInOrder
    <3>3. accepted' = Append(accepted, [id |-> line.id, tag |-> line.tag])
      BY <2>4 DEF Accept
    <3>4. Answered({"ack", "nack", "err"}) /\ DOMAIN replies' \in {{1}, {1, 2}}
      BY <3>1 DEF Answered, Ack, Err
    <3> QED BY <1>1, <1>3, <3>2, <3>3, <3>4 DEF Runs
  <2> QED BY <2>1, <2>2, <2>3, <2>4
<1> QED BY <1>2, <1>3

-----------------------------------------------------------------------------
(* What the host's bookkeeping keeps true: the lines on their way to the    *)
(* robot are HELLOs of the sessions opened and commands issued so far.      *)
Cmd(p) == toRobot[p].verb = "COMMAND"
Greeting(p) == toRobot[p].verb = "HELLO"
Tag(p) == toRobot[p].tag
Number(p) == toRobot[p].id

Known(p) == \/ Cmd(p) /\ Tag(p) \in 1 .. calls /\ Number(p) \in 1 .. MaxCalls
            \/ Greeting(p) /\ Tag(p) \in 1 .. session

Phases ==
  /\ hpc = "closed" <=> session = 0
  /\ hpc = "closed" => calls = 0
  /\ hpc = "hello" => ~ownBanner /\ wire = HelloLine(session)
  /\ hpc = "await" => /\ wire.verb = "COMMAND" /\ wire.id = seq /\ wire.tag = calls
                      /\ seq >= 1
                      /\ calls \in trusted <=> ownBanner

HostInv ==
  /\ SessionTypeOK
  /\ Inv
  /\ seq <= calls /\ session <= carrier.sessions
  /\ \A p \in DOMAIN toRobot : Known(p)
  /\ \A i \in DOMAIN toHost : toHost[i].of <= session
  /\ robotSession <= session
  /\ Phases
  /\ trusted \subseteq 1 .. calls
  /\ \A i \in DOMAIN trace : trace[i] <= calls
  /\ \A i \in DOMAIN accepted : Executed(accepted[i].tag)

Incoming == [kind : {"ack", "nack", "err", "device"}, n : Nat, id : Ids \cup {NoId},
             of : 0 .. MaxSessions]

(* The bounds, as the proofs use them.                                     *)
LEMMA Bounds ==
  /\ MaxCalls \in Nat \ {0} /\ MaxSessions \in Nat \ {0} /\ Tries \in Nat \ {0}
  /\ HelloTries \in Nat \ {0} /\ MaxOthers \in Nat /\ MaxCalls < MaxSequenceId
  /\ \A c \in Carriers : /\ c.sessions \in 1 .. MaxSessions /\ c.holds \in Nat \ {0}
                         /\ c.reorders \in BOOLEAN /\ c.shared \in BOOLEAN
                         /\ c.others \in Nat
BY BoundsAssumption

LEMMA LineTypes ==
  /\ \A s \in 0 .. MaxSessions : HelloLine(s) \in Lines
  /\ \A n \in 1 .. MaxCalls, c \in 0 .. MaxCalls, d \in CallDecodes : Command(n, c, d) \in Lines
<1>1. ASSUME NEW s \in 0 .. MaxSessions
      PROVE  HelloLine(s) \in Lines
  <2>1. s \in Tags
    BY Bounds, BoundsAssumption
  <2> QED BY <2>1 DEF HelloLine, Lines, Unsequenced
<1>2. ASSUME NEW n \in 1 .. MaxCalls, NEW c \in 0 .. MaxCalls, NEW d \in CallDecodes
      PROVE  Command(n, c, d) \in Lines
  <2>1. c \in Tags /\ n \in Ids /\ d \in BOOLEAN
    BY Bounds, BoundsAssumption, MaxSequenceIdAssumption DEF Ids
  <2> QED BY <2>1 DEF Command, Lines, Sequenced
<1> QED BY <1>1, <1>2

(* A line put on its way, or lost.                                         *)
Queued(line) ==
  /\ toRobot' \in Seq(Lines) /\ Len(toRobot') <= carrier.holds
  /\ Len(toRobot') \in {Len(toRobot), Len(toRobot) + 1}
  /\ \A p \in 1 .. Len(toRobot) : toRobot'[p] = toRobot[p]
  /\ Len(toRobot') = Len(toRobot) + 1 => toRobot'[Len(toRobot) + 1] = line

LEMMA Sends ==
  ASSUME SessionTypeOK, NEW line \in Lines, SendLine(line)
  PROVE  Queued(line)
<1>1. toRobot \in Seq(Lines) /\ Len(toRobot) \in Nat /\ Len(toRobot) <= carrier.holds
      /\ carrier.holds \in Nat
  BY Bounds DEF SessionTypeOK
<1>2. CASE UNCHANGED toRobot
  BY <1>1, <1>2 DEF Queued
<1>3. CASE Len(toRobot) < carrier.holds /\ toRobot' = Append(toRobot, line)
  <2>1. /\ Append(toRobot, line) \in Seq(Lines)
        /\ Len(Append(toRobot, line)) = Len(toRobot) + 1
        /\ \A p \in 1 .. Len(toRobot) : Append(toRobot, line)[p] = toRobot[p]
        /\ Append(toRobot, line)[Len(toRobot) + 1] = line
    BY <1>1, AppendProperties
  <2> QED BY <1>1, <1>3, <2>1 DEF Queued
<1> QED BY <1>2, <1>3 DEF SendLine

(* A window read: what is left of the lines, and what the host makes of it. *)
Read(k) ==
  /\ toHost' \in Seq(Incoming) /\ Len(toHost') = Len(toHost) - k
  /\ \A p \in 1 .. Len(toHost) - k : toHost'[p] = toHost[p + k]

LEMMA Reads ==
  ASSUME SessionTypeOK, NEW k \in 0 .. Len(toHost), HostWindow(k)
  PROVE  /\ Read(k)
         /\ \/ hpc \in {"hello", "await"} /\ Resend
            \/ /\ hpc = "hello"
               /\ \E own \in BOOLEAN :
                    /\ HelloReturns(own)
                    /\ own => ~rivals /\ \E i \in 1 .. k : /\ toHost[i].kind = "device"
                                                           /\ toHost[i].of = session
            \/ /\ hpc = "await"
               /\ \E verdict \in {"ack", "err", "none"} :
                    /\ CallReturns(verdict)
                    /\ verdict = "ack" => \E i \in 1 .. k : /\ toHost[i].kind = "ack"
                                                            /\ toHost[i].n = seq
<1> DEFINE window == SubSeq(toHost, 1, k)
<1>1. toHost \in Seq(Incoming)
  BY DEF SessionTypeOK, Incoming
<1>2. DOMAIN window = 1 .. k /\ \A p \in 1 .. k : window[p] = toHost[p]
  BY <1>1, Window
<1>3. Read(k)
  BY <1>1, Rest DEF HostWindow, Read
<1>4. HelloWindow(window) \/ CallWindow(window)
  BY DEF HostWindow
<1> HIDE DEF window
<1>5. \A kinds : Having(window, kinds) \subseteq Nat
  BY <1>2 DEF Having
<1>6. CASE HelloWindow(window)
  <2> DEFINE f == First(Having(window, {"device"}))
  <2>1. CASE Having(window, {"device"}) # {}
    <3>1. f \in Having(window, {"device"})
      BY <1>5, <2>1, FirstIsThere
    <3>2. f \in 1 .. k /\ toHost[f].kind = "device" /\ window[f] = toHost[f]
      BY <1>2, <3>1 DEF Having
    <3>3. hpc = "hello" /\ HelloReturns(~rivals /\ toHost[f].of = session)
      BY <1>6, <2>1, <3>2 DEF HelloWindow
    <3> QED BY <1>3, <3>2, <3>3
  <2>2. CASE Having(window, {"device"}) = {}
    BY <1>3, <1>6, <2>2 DEF HelloWindow
  <2> QED BY <2>1, <2>2
<1>7. CASE CallWindow(window)
  <2> DEFINE f == First(Answers(window))
  <2>1. CASE Answers(window) # {}
    <3>1. f \in Answers(window)
      BY <1>5, <2>1, FirstIsThere DEF Answers
    <3>2. f \in 1 .. k /\ toHost[f].kind \in {"ack", "err"} /\ toHost[f].n = seq
          /\ window[f] = toHost[f]
      BY <1>2, <3>1 DEF Answers, Having
    <3>3. Verdict(window) = toHost[f].kind
      BY <2>1, <3>2 DEF Verdict
    <3>4. hpc = "await" /\ CallReturns(toHost[f].kind)
      BY <1>7, <3>2, <3>3 DEF CallWindow
    <3> QED BY <1>3, <3>2, <3>4
  <2>2. CASE Answers(window) = {}
    BY <1>3, <1>7, <2>2 DEF CallWindow, Verdict
  <2> QED BY <2>1, <2>2
<1> QED BY <1>4, <1>6, <1>7

(* A line taken by the robot: the handler's part, the queue without it, and *)
(* the replies that get through behind what was on its way already.         *)
Taken(i) ==
  /\ Inv'
  /\ \/ Greets(toRobot[i]) /\ trace' = trace /\ robotSession' = Tag(i)
     \/ Turns(toRobot[i]) /\ trace' = trace /\ robotSession' = robotSession
     \/ Runs(toRobot[i]) /\ trace' = Append(trace, Tag(i)) /\ robotSession' = robotSession
  /\ toRobot' \in Seq(Lines) /\ Len(toRobot') = Len(toRobot) - 1
  /\ \A p \in 1 .. Len(toRobot') : toRobot'[p] = IF p < i THEN toRobot[p] ELSE toRobot[p + 1]

Answer ==
  /\ toHost' \in Seq(Incoming) /\ Len(toHost') <= carrier.holds
  /\ Len(toHost) <= Len(toHost')
  /\ \A p \in 1 .. Len(toHost) : toHost'[p] = toHost[p]
  /\ \A p \in Len(toHost) + 1 .. Len(toHost') : \E j \in DOMAIN replies' : toHost'[p] = Stamp(replies'[j])

LEMMA Takes ==
  ASSUME HostInv, NEW i \in 1 .. Len(toRobot), NEW kept, Deliver(i, kept)
  PROVE  Taken(i)
<1>1. toRobot \in Seq(Lines) /\ toRobot[i] \in Lines /\ Len(toRobot) \in Nat
  BY DEF HostInv, SessionTypeOK
<1>2. Known(i) /\ (Cmd(i) => Number(i) \notin {NoId, 0})
  <2>1. Known(i)
    BY <1>1 DEF HostInv
  <2>2. Number(i) \in 1 .. MaxCalls => Number(i) \notin {NoId, 0}
    BY Bounds DEF NoId
  <2>3. Cmd(i) => Number(i) \in 1 .. MaxCalls
    BY <2>1 DEF Known, Cmd, Greeting
  <2> QED BY <2>1, <2>2, <2>3
<1>3. /\ Inv'
      /\ Greets(toRobot[i]) \/ Turns(toRobot[i]) \/ Runs(toRobot[i])
  BY <1>1, <1>2, Handles DEF HostInv, Deliver, Known, Cmd, Greeting, Number
<1>4. accepted \in Seq([id : Ids, tag : Tags]) /\ Len(accepted) \in Nat
  BY DEF HostInv, Inv, HandlerTypeOK
<1>5. toRobot' = Without(toRobot, i)
  BY DEF Deliver, Without
<1>6. /\ toRobot' \in Seq(Lines) /\ Len(toRobot') = Len(toRobot) - 1
      /\ \A p \in 1 .. Len(toRobot') : toRobot'[p] = IF p < i THEN toRobot[p] ELSE toRobot[p + 1]
  BY <1>1, <1>5, Removed
<1>7. CASE Greets(toRobot[i])
  <2>1. trace' = trace /\ robotSession' = Tag(i)
    BY <1>4, <1>7 DEF Greets, Deliver, Tag
  <2> QED BY <1>3, <1>6, <1>7, <2>1 DEF Taken
<1>8. CASE Turns(toRobot[i])
  <2>1. trace' = trace /\ robotSession' = robotSession
    BY <1>4, <1>8 DEF Turns, Deliver
  <2> QED BY <1>3, <1>6, <1>8, <2>1 DEF Taken
<1>9. CASE Runs(toRobot[i])
  <2>1. [id |-> toRobot[i].id, tag |-> toRobot[i].tag] \in [id : Ids \cup {NoId}, tag : Tags]
        /\ accepted \in Seq([id : Ids \cup {NoId}, tag : Tags])
    BY <1>1, <1>4, SeqMonotonic DEF Lines
  <2>2. /\ Len(accepted') = Len(accepted) + 1
        /\ accepted'[Len(accepted) + 1] = [id |-> toRobot[i].id, tag |-> toRobot[i].tag]
    BY <1>9, <2>1, AppendProperties DEF Runs
  <2>3. accepted'[Len(accepted')].tag = Tag(i) /\ Len(accepted') > Len(accepted)
    BY <1>4, <2>2 DEF Tag
  <2>4. trace' = Append(trace, Tag(i)) /\ robotSession' = robotSession
    BY <1>9, <2>3 DEF Runs, Deliver
  <2> QED BY <1>3, <1>6, <1>9, <2>4 DEF Taken
<1> QED BY <1>3, <1>7, <1>8, <1>9

LEMMA HeardTypes ==
  ASSUME HostInv, NEW i \in 1 .. Len(toRobot), NEW kept, Deliver(i, kept), NEW j \in {1, 2}
  PROVE  /\ Heard(j, kept) \in Seq(Incoming) /\ Len(Heard(j, kept)) \in {0, 1}
         /\ \A p \in 1 .. Len(Heard(j, kept)) : \E r \in DOMAIN replies' : Heard(j, kept)[p] = Stamp(replies'[r])
<1>1. CASE j \notin kept
  <2>1. Heard(j, kept) = <<>>
    BY <1>1 DEF Heard
  <2> QED BY <2>1, EmptySeq
<1>2. CASE j \in kept
  <2>1. j \in DOMAIN replies' /\ Heard(j, kept) = <<Stamp(replies'[j])>>
    BY <1>2 DEF Deliver, Heard
  <2>2. Taken(i)
    BY Takes
  <2>3. replies' \in Seq(Replies)
    BY <2>2 DEF Taken, Inv, HandlerTypeOK
  <2>4. replies'[j] \in Replies
    BY <2>1, <2>3
  <2>5. replies'[j].kind \in {"ack", "nack", "err", "device"}
    BY <2>1, <2>2 DEF Taken, Greets, Turns, Runs, Answered
  <2>6. robotSession' \in 0 .. MaxSessions
    <3>1. CASE robotSession' = robotSession
      BY <3>1 DEF HostInv, SessionTypeOK
    <3>2. CASE Greets(toRobot[i]) /\ robotSession' = Tag(i)
      <4>1. Known(i)
        BY DEF HostInv
      <4>2. Tag(i) \in 1 .. session /\ session \in 0 .. MaxSessions
        BY <3>2, <4>1 DEF Known, Cmd, Greets, HostInv, SessionTypeOK
      <4> QED BY <3>2, <4>2, Bounds
    <3> QED BY <2>2, <3>1, <3>2 DEF Taken
  <2>7. Stamp(replies'[j]) \in Incoming
    BY <2>4, <2>5, <2>6 DEF Stamp, Incoming, Replies
  <2> QED BY <2>1, <2>7
<1> QED BY <1>1, <1>2

LEMMA Hears ==
  ASSUME HostInv, NEW i \in 1 .. Len(toRobot), NEW kept, Deliver(i, kept)
  PROVE  Answer
<1> DEFINE one == Heard(1, kept)
           two == Heard(2, kept)
<1>1. toHost \in Seq(Incoming)
  BY DEF HostInv, SessionTypeOK, Incoming
<1>2. /\ one \in Seq(Incoming) /\ Len(one) \in {0, 1}
      /\ \A p \in 1 .. Len(one) : \E r \in DOMAIN replies' : one[p] = Stamp(replies'[r])
  BY HeardTypes
<1>3. /\ two \in Seq(Incoming) /\ Len(two) \in {0, 1}
      /\ \A p \in 1 .. Len(two) : \E r \in DOMAIN replies' : two[p] = Stamp(replies'[r])
  BY HeardTypes
<1>4. toHost' = toHost \o one \o two /\ Len(toHost') <= carrier.holds
  BY DEF Deliver
<1> HIDE DEF one, two
<1>5. /\ toHost' \in Seq(Incoming) /\ Len(toHost') >= Len(toHost)
      /\ \A p \in 1 .. Len(toHost) : toHost'[p] = toHost[p]
      /\ \A p \in Len(toHost) + 1 .. Len(toHost') : toHost'[p] \in Elements(one) \cup Elements(two)
  <2>1. ASSUME NEW a \in Seq(Incoming), NEW b \in Seq(Incoming), NEW q, q = toHost \o a \o b
        PROVE  /\ q \in Seq(Incoming) /\ Len(q) >= Len(toHost)
               /\ \A p \in 1 .. Len(toHost) : q[p] = toHost[p]
               /\ \A p \in Len(toHost) + 1 .. Len(q) : q[p] \in Elements(a) \cup Elements(b)
    <3>1. \A p \in Len(toHost) + 1 .. Len(q) : q[p] \in Elements(a) \cup Elements(b)
      BY <1>1, <2>1, Joined, Zenon
    <3>2. /\ q \in Seq(Incoming) /\ Len(q) >= Len(toHost)
          /\ \A p \in 1 .. Len(toHost) : q[p] = toHost[p]
      BY <1>1, <2>1, Joined
    <3> QED BY <3>1, <3>2
  <2>2. one \in Seq(Incoming) /\ two \in Seq(Incoming)
    BY <1>2, <1>3
  <2> QED BY <1>4, <2>1, <2>2, Zenon
<1>6. \A p \in Len(toHost) + 1 .. Len(toHost') : \E j \in DOMAIN replies' : toHost'[p] = Stamp(replies'[j])
  <2>1. \A x \in Elements(one) \cup Elements(two) : \E j \in DOMAIN replies' : x = Stamp(replies'[j])
    BY <1>2, <1>3 DEF Elements
  <2> QED BY <1>5, <2>1
<1> QED BY <1>4, <1>5, <1>6 DEF Answer
-----------------------------------------------------------------------------
(* The host's bookkeeping is kept by every step.                           *)
LEMMA HostFacts ==
  ASSUME HostInv
  PROVE  /\ carrier \in Carriers /\ carrier.sessions \in 1 .. MaxSessions
         /\ carrier.holds \in Nat \ {0} /\ carrier.reorders \in BOOLEAN /\ carrier.shared \in BOOLEAN
         /\ toRobot \in Seq(Lines) /\ Len(toRobot) \in Nat
         /\ toHost \in Seq(Incoming) /\ Len(toHost) \in Nat
         /\ session \in Nat /\ calls \in Nat /\ seq \in Nat
         /\ MaxCalls \in Nat \ {0} /\ MaxSessions \in Nat \ {0}
         /\ trace \in Seq(0 .. MaxCalls) /\ Len(trace) \in Nat
         /\ accepted \in Seq([id : Ids, tag : Tags]) /\ Len(accepted) \in Nat
<1>1. carrier \in Carriers /\ toRobot \in Seq(Lines) /\ toHost \in Seq(Incoming)
      /\ session \in 0 .. MaxSessions /\ calls \in 0 .. MaxCalls /\ seq \in 0 .. MaxCalls
      /\ trace \in Seq(0 .. MaxCalls)
  BY DEF HostInv, SessionTypeOK, Incoming
<1>2. accepted \in Seq([id : Ids, tag : Tags])
  BY DEF HostInv, Inv, HandlerTypeOK
<1>3. Len(toRobot) \in Nat /\ Len(toHost) \in Nat /\ Len(trace) \in Nat /\ Len(accepted) \in Nat
  BY <1>1, <1>2
<1>4. /\ carrier.sessions \in 1 .. MaxSessions
      /\ carrier.holds \in Nat \ {0} /\ carrier.reorders \in BOOLEAN /\ carrier.shared \in BOOLEAN
      /\ MaxCalls \in Nat \ {0} /\ MaxSessions \in Nat \ {0}
  BY <1>1, Bounds
<1>5. session \in Nat /\ calls \in Nat /\ seq \in Nat
  BY <1>1, <1>4
<1> QED BY <1>1, <1>2, <1>3, <1>4, <1>5

LEMMA HostElements ==
  ASSUME HostInv
  PROVE  /\ DOMAIN toHost = 1 .. Len(toHost) /\ DOMAIN trace = 1 .. Len(trace)
         /\ DOMAIN accepted = 1 .. Len(accepted) /\ DOMAIN toRobot = 1 .. Len(toRobot)
         /\ \A i \in DOMAIN toHost : /\ toHost[i] \in Incoming /\ toHost[i].n \in Nat
                                   /\ toHost[i].of \in Nat /\ toHost[i].of <= session
         /\ \A i \in DOMAIN trace : trace[i] \in 0 .. MaxCalls /\ trace[i] \in Nat /\ trace[i] <= calls
         /\ \A i \in DOMAIN accepted : accepted[i].id = i
         /\ \A p \in DOMAIN toRobot : Known(p) /\ toRobot[p] \in Lines
         /\ robotSession \in Nat /\ robotSession <= session /\ robotSession \in 0 .. MaxSessions
<1>1. toHost \in Seq(Incoming) /\ trace \in Seq(0 .. MaxCalls) /\ MaxCalls \in Nat
      /\ accepted \in Seq([id : Ids, tag : Tags]) /\ toRobot \in Seq(Lines) /\ MaxSessions \in Nat
  BY HostFacts
<1>2. ASSUME NEW i \in DOMAIN toHost
      PROVE  /\ toHost[i] \in Incoming /\ toHost[i].n \in Nat
             /\ toHost[i].of \in Nat /\ toHost[i].of <= session
  <2>1. toHost[i] \in Incoming
    BY <1>1
  <2> QED BY <1>1, <2>1 DEF Incoming, HostInv
<1>3. \A i \in DOMAIN trace : trace[i] \in 0 .. MaxCalls /\ trace[i] \in Nat /\ trace[i] <= calls
  BY <1>1 DEF HostInv
<1>4. robotSession \in Nat /\ robotSession <= session /\ robotSession \in 0 .. MaxSessions
  BY <1>1 DEF HostInv, SessionTypeOK
<1>5. \A i \in DOMAIN accepted : accepted[i].id = i
  BY DEF HostInv, Inv, SessionInOrder
<1>6. \A p \in DOMAIN toRobot : Known(p) /\ toRobot[p] \in Lines
  BY <1>1 DEF HostInv
<1> QED BY <1>1, <1>2, <1>3, <1>4, <1>5, <1>6

\* A line the host may send: of this session, or of a command issued.
Sendable(line, c, s) ==
  \/ line.verb = "COMMAND" /\ line.tag \in 1 .. c /\ line.id \in 1 .. MaxCalls
  \/ line.verb = "HELLO" /\ line.tag \in 1 .. s

LEMMA QueuedLine ==
  ASSUME HostInv, NEW line, Queued(line)
  PROVE  /\ DOMAIN toRobot' = 1 .. Len(toRobot') /\ DOMAIN toRobot = 1 .. Len(toRobot)
         /\ \A p \in 1 .. Len(toRobot') :
              \/ p \in 1 .. Len(toRobot) /\ toRobot'[p] = toRobot[p]
              \/ p = Len(toRobot) + 1 /\ Len(toRobot') = Len(toRobot) + 1 /\ toRobot'[p] = line
         /\ \A p \in 1 .. Len(toRobot) : p \in DOMAIN toRobot' /\ toRobot'[p] = toRobot[p]
<1>1. toRobot' \in Seq(Lines) /\ toRobot \in Seq(Lines) /\ Len(toRobot) \in Nat
  BY HostFacts DEF Queued
<1>2. Len(toRobot') = Len(toRobot) \/ Len(toRobot') = Len(toRobot) + 1
  BY DEF Queued
<1>3. ASSUME NEW p \in 1 .. Len(toRobot')
      PROVE  \/ p \in 1 .. Len(toRobot) /\ toRobot'[p] = toRobot[p]
             \/ p = Len(toRobot) + 1 /\ Len(toRobot') = Len(toRobot) + 1 /\ toRobot'[p] = line
  <2>1. CASE p \in 1 .. Len(toRobot)
    BY <2>1 DEF Queued
  <2>2. CASE p \notin 1 .. Len(toRobot)
    <3>1. p = Len(toRobot) + 1 /\ Len(toRobot') = Len(toRobot) + 1
      BY <1>1, <1>2, <2>2
    <3> QED BY <3>1 DEF Queued
  <2> QED BY <2>1, <2>2
<1>4. ASSUME NEW p \in 1 .. Len(toRobot)
      PROVE  p \in DOMAIN toRobot' /\ toRobot'[p] = toRobot[p]
  <2>1. DOMAIN toRobot' = 1 .. Len(toRobot')
    BY <1>1
  <2>2. p \in 1 .. Len(toRobot')
    BY <1>1, <1>2
  <2> QED BY <2>1, <2>2 DEF Queued
<1> QED BY <1>1, <1>3, <1>4

LEMMA QueuedKnown ==
  ASSUME HostInv, NEW line, Queued(line), Sendable(line, calls', session'),
         calls' \in {calls, calls + 1}, session' \in {session, session + 1}
  PROVE  \A p \in DOMAIN toRobot' : Known(p)'
<1>1. calls \in Nat /\ session \in Nat
  BY HostFacts
<1>2. ASSUME NEW p \in 1 .. Len(toRobot')
      PROVE  Known(p)'
  <2>1. CASE p \in 1 .. Len(toRobot) /\ toRobot'[p] = toRobot[p]
    <3>1. Known(p)
      BY <2>1, QueuedLine DEF HostInv
    <3> QED BY <1>1, <2>1, <3>1 DEF Known, Cmd, Greeting, Tag, Number
  <2>2. CASE toRobot'[p] = line
    BY <2>2 DEF Known, Cmd, Greeting, Tag, Number, Sendable
  <2> QED BY <2>1, <2>2, QueuedLine
<1> QED BY <1>2, QueuedLine

LEMMA OpenLinkKeeps ==
  ASSUME HostInv, OpenLink
  PROVE  HostInv' /\ Queued(HelloLine(session + 1))
<1>1. Inv'
  BY HandlerRests DEF HostInv, OpenLink, robotVars, seqVars
<1>2. session' = session + 1 /\ session' \in 1 .. carrier.sessions /\ session' \in 0 .. MaxSessions
  <2>1. session \in Nat /\ carrier.sessions \in 1 .. MaxSessions /\ MaxSessions \in Nat
    BY HostFacts
  <2>2. session' = session + 1 /\ session < carrier.sessions
    BY DEF OpenLink
  <2> QED BY <2>1, <2>2
<1>3. wire' = HelloLine(session + 1) /\ wire' \in Lines
  BY <1>2, LineTypes DEF OpenLink
<1>4. Queued(HelloLine(session + 1))
  BY <1>3, Sends DEF OpenLink, HostInv
<1>5. \A p \in DOMAIN toRobot' : Known(p)'
  <2>1. Sendable(HelloLine(session + 1), calls', session')
    BY <1>2, HostFacts DEF Sendable, HelloLine
  <2>2. calls' \in {calls, calls + 1} /\ session' \in {session, session + 1}
    BY <1>2 DEF OpenLink
  <2> QED BY <1>4, <2>1, <2>2, QueuedKnown
<1>6. SessionTypeOK'
  <2>1. triesLeft' \in Nat
    BY Bounds DEF OpenLink
  <2>2. seq' \in 0 .. MaxCalls
    BY HostFacts DEF OpenLink
  <2>3. HandlerTypeOK'
    BY <1>1 DEF Inv
  <2>4. toRobot' \in Seq(Lines) /\ Len(toRobot') <= carrier.holds
    BY <1>4 DEF Queued
  <2> QED BY <1>2, <1>3, <2>1, <2>2, <2>3, <2>4 DEF HostInv, SessionTypeOK, OpenLink, robotVars
<1>7. Phases'
  BY <1>2, <1>3, HostFacts DEF HostInv, Phases, OpenLink
<1>8. seq' <= calls' /\ session' <= carrier'.sessions /\ robotSession' <= session'
      /\ \A i \in DOMAIN toHost' : toHost'[i].of <= session'
  <2>1. seq' = 0 /\ calls' = calls /\ calls \in Nat
    BY HostFacts DEF OpenLink
  <2>2. carrier' = carrier /\ robotSession' = robotSession /\ toHost' = toHost
    BY DEF OpenLink, robotVars
  <2>3. session \in Nat /\ robotSession \in Nat /\ robotSession <= session
        /\ \A i \in DOMAIN toHost : toHost[i].of \in Nat /\ toHost[i].of <= session
    BY HostFacts, HostElements
  <2>4. robotSession' <= session'
    BY <1>2, <2>2, <2>3
  <2>5. \A i \in DOMAIN toHost' : toHost'[i].of <= session'
    BY <1>2, <2>2, <2>3
  <2> QED BY <1>2, <2>1, <2>2, <2>4, <2>5
<1>9. trusted' \subseteq 1 .. calls' /\ \A i \in DOMAIN trace' : trace'[i] <= calls'
  BY DEF HostInv, OpenLink, robotVars
<1>10. (\A i \in DOMAIN accepted : Executed(accepted[i].tag))'
  BY DEF HostInv, OpenLink, robotVars, Executed
<1> QED BY <1>1, <1>4, <1>5, <1>6, <1>7, <1>8, <1>9, <1>10 DEF HostInv

LEMMA CallKeeps ==
  ASSUME HostInv, Call
  PROVE  /\ HostInv'
         /\ \E d \in CallDecodes : /\ wire' = Command(seq + 1, calls + 1, d)
                                 /\ Queued(Command(seq + 1, calls + 1, d))
<1>1. Inv'
  BY HandlerRests DEF HostInv, Call, robotVars, seqVars
<1>2. calls' = calls + 1 /\ calls' \in 1 .. MaxCalls /\ seq' = seq + 1 /\ seq' \in 1 .. MaxCalls
      /\ session' = session /\ session # 0 /\ seq' <= calls'
  <2>1. calls' = calls + 1 /\ seq' = seq + 1 /\ session' = session /\ hpc = "idle" /\ calls < MaxCalls
    BY DEF Call
  <2>2. seq <= calls /\ session # 0
    BY <2>1 DEF HostInv, Phases
  <2> QED BY <2>1, <2>2, HostFacts
<1>3. PICK d \in CallDecodes : wire' = Command(seq + 1, calls + 1, d)
  BY <1>2 DEF Call
<1>4. wire' \in Lines /\ Queued(Command(seq + 1, calls + 1, d))
  <2>1. Command(seq + 1, calls + 1, d) \in Lines
    BY <1>2, LineTypes
  <2>2. SendLine(Command(seq + 1, calls + 1, d))
    BY <1>3 DEF Call
  <2> QED BY <1>3, <2>1, <2>2, Sends DEF HostInv
<1>5. \A p \in DOMAIN toRobot' : Known(p)'
  <2>1. Sendable(Command(seq + 1, calls + 1, d), calls', session')
    BY <1>2, HostFacts DEF Sendable, Command
  <2>2. calls' \in {calls, calls + 1} /\ session' \in {session, session + 1}
    BY <1>2
  <2> QED BY <1>4, <2>1, <2>2, QueuedKnown
<1>6. SessionTypeOK'
  <2>1. triesLeft' \in Nat
    BY Bounds DEF Call
  <2>2. result' \in [1 .. MaxCalls -> {"unissued", "pending", "ack", "err", "none"}]
    BY DEF Call, HostInv, SessionTypeOK
  <2>3. HandlerTypeOK'
    BY <1>1 DEF Inv
  <2>4. toRobot' \in Seq(Lines) /\ Len(toRobot') <= carrier.holds
    BY <1>4 DEF Queued
  <2>5. trusted' \subseteq 1 .. MaxCalls
    BY <1>2 DEF Call, HostInv, SessionTypeOK
  <2>6. seq' \in 0 .. MaxCalls /\ calls' \in 0 .. MaxCalls
    BY <1>2, HostFacts
  <2> QED BY <1>2, <1>4, <2>1, <2>2, <2>3, <2>4, <2>5, <2>6 DEF HostInv, SessionTypeOK, Call, robotVars
<1>7. Phases'
  <2>1. wire'.verb = "COMMAND" /\ wire'.id = seq' /\ wire'.tag = calls'
    BY <1>2, <1>3 DEF Command
  <2>2. calls + 1 \notin trusted
    BY HostFacts DEF HostInv
  <2>3. calls' \in trusted' <=> ownBanner'
    BY <1>2, <2>2 DEF Call
  <2> QED BY <1>2, <2>1, <2>3, HostFacts DEF Phases, Call
<1>8. /\ session' <= carrier'.sessions /\ robotSession' <= session'
      /\ \A i \in DOMAIN toHost' : toHost'[i].of <= session'
  BY DEF Call, robotVars, HostInv
<1>9. trusted' \subseteq 1 .. calls' /\ \A i \in DOMAIN trace' : trace'[i] <= calls'
  <2>1. trusted' \subseteq 1 .. calls'
    <3>1. trusted' \subseteq trusted \cup {calls + 1}
      BY <1>2 DEF Call
    <3>2. trusted \subseteq 1 .. calls
      BY DEF HostInv
    <3>3. 1 .. calls \subseteq 1 .. calls' /\ calls + 1 \in 1 .. calls'
      BY <1>2, HostFacts
    <3> QED BY <3>1, <3>2, <3>3
  <2>2. \A i \in DOMAIN trace' : trace'[i] <= calls'
    <3>1. trace' = trace
      BY DEF Call, robotVars
    <3>2. calls \in Nat /\ \A i \in DOMAIN trace : trace[i] \in Nat /\ trace[i] <= calls
      BY HostFacts, HostElements
    <3> QED BY <1>2, <3>1, <3>2
  <2> QED BY <2>1, <2>2
<1>10. (\A i \in DOMAIN accepted : Executed(accepted[i].tag))'
  BY DEF HostInv, Call, robotVars, Executed
<1>11. HostInv'
  BY <1>1, <1>2, <1>5, <1>6, <1>7, <1>8, <1>9, <1>10 DEF HostInv
<1> QED BY <1>3, <1>4, <1>11

(* What the three outcomes of a window share: the robot and its lines.     *)
LEMMA WindowKeeps ==
  ASSUME HostInv, NEW k \in 0 .. Len(toHost), HostWindow(k)
  PROVE  /\ Inv' /\ HandlerTypeOK'
         /\ toHost' \in Seq(Incoming) /\ Len(toHost') <= carrier'.holds
         /\ \A i \in DOMAIN toHost' : /\ i + k \in DOMAIN toHost /\ toHost'[i] = toHost[i + k]
                                      /\ toHost'[i].of <= session
         /\ UNCHANGED <<carrier, robotVars>>
<1>1. UNCHANGED <<carrier, robotVars>> /\ replies' = <<>>
  BY DEF HostWindow
<1>2. Inv'
  BY <1>1, HandlerRests DEF HostInv, robotVars, seqVars
<1>3. SessionTypeOK
  BY DEF HostInv
<1>4. Read(k)
  BY <1>3, Reads
<1>5. DOMAIN toHost' = 1 .. Len(toHost) - k /\ Len(toHost) \in Nat
  BY <1>4, HostFacts DEF Read
<1>6. \A i \in DOMAIN toHost' : /\ i + k \in DOMAIN toHost /\ toHost'[i] = toHost[i + k]
                              /\ toHost'[i].of <= session
  <2> SUFFICES ASSUME NEW i \in DOMAIN toHost'
               PROVE  /\ i + k \in DOMAIN toHost /\ toHost'[i] = toHost[i + k]
                      /\ toHost'[i].of <= session
    OBVIOUS
  <2>1. DOMAIN toHost = 1 .. Len(toHost)
    BY HostElements
  <2>2. i + k \in DOMAIN toHost
    BY <1>5, <2>1
  <2>3. toHost'[i] = toHost[i + k]
    BY <1>4, <1>5 DEF Read
  <2>4. toHost[i + k].of <= session
    BY <2>2, HostElements, Zenon
  <2> QED BY <2>2, <2>3, <2>4
<1>7. Len(toHost') <= carrier.holds
  <2>1. Len(toHost') = Len(toHost) - k /\ Len(toHost) <= carrier.holds /\ carrier.holds \in Nat
    BY <1>3, <1>4, HostFacts DEF Read, SessionTypeOK
  <2> QED BY <1>5, <2>1
<1> QED BY <1>1, <1>2, <1>4, <1>6, <1>7 DEF Read, Inv

LEMMA ResendKeeps ==
  ASSUME HostInv, NEW k \in 0 .. Len(toHost), HostWindow(k), hpc \in {"hello", "await"}, Resend
  PROVE  HostInv' /\ Queued(wire)
<1>1. Queued(wire)
  <2>1. SessionTypeOK /\ wire \in Lines
    BY DEF HostInv, SessionTypeOK
  <2> QED BY <2>1, Sends DEF Resend
<1>2. UNCHANGED <<hpc, seq, wire, session, calls, result, rivals, ownBanner, trusted>>
  BY DEF Resend
<1>3. \A p \in DOMAIN toRobot' : Known(p)'
  <2>1. CASE hpc = "hello"
    <3>1. wire = HelloLine(session) /\ session \in 1 .. session
      BY <2>1, HostFacts DEF HostInv, Phases
    <3>2. Sendable(wire, calls', session')
      BY <1>2, <3>1 DEF Sendable, HelloLine
    <3> QED BY <1>1, <1>2, <3>2, QueuedKnown
  <2>2. CASE hpc = "await"
    <3>1. wire.verb = "COMMAND" /\ wire.id = seq /\ wire.tag = calls /\ seq >= 1 /\ seq <= calls
          /\ calls \in 0 .. MaxCalls
      BY <2>2 DEF HostInv, Phases, SessionTypeOK
    <3>2. Sendable(wire, calls', session')
      BY <1>2, <3>1, HostFacts DEF Sendable
    <3> QED BY <1>1, <1>2, <3>2, QueuedKnown
  <2> QED BY <2>1, <2>2
<1>4. SessionTypeOK'
  <2>1. triesLeft' \in Nat
    <3>1. triesLeft \in Nat
      BY DEF HostInv, SessionTypeOK
    <3> QED BY <3>1 DEF Resend
  <2>2. toRobot' \in Seq(Lines) /\ Len(toRobot') <= carrier.holds
    BY <1>1 DEF Queued
  <2> QED BY <1>2, <2>1, <2>2, WindowKeeps DEF HostInv, SessionTypeOK, robotVars, Incoming
<1>5. Phases'
  BY <1>2 DEF HostInv, Phases
<1>6. seq' <= calls' /\ session' <= carrier'.sessions /\ robotSession' <= session'
      /\ \A i \in DOMAIN toHost' : toHost'[i].of <= session'
  BY <1>2, WindowKeeps DEF HostInv, robotVars
<1>7. trusted' \subseteq 1 .. calls' /\ \A i \in DOMAIN trace' : trace'[i] <= calls'
  BY <1>2, WindowKeeps DEF HostInv, robotVars
<1>8. (\A i \in DOMAIN accepted : Executed(accepted[i].tag))'
  BY WindowKeeps DEF HostInv, robotVars, Executed
<1> QED BY <1>1, <1>3, <1>4, <1>5, <1>6, <1>7, <1>8, WindowKeeps DEF HostInv

LEMMA ReturnKeeps ==
  ASSUME HostInv, NEW k \in 0 .. Len(toHost), HostWindow(k),
         \/ hpc = "hello" /\ \E own \in BOOLEAN : HelloReturns(own)
         \/ hpc = "await" /\ \E verdict \in {"ack", "err", "none"} : CallReturns(verdict)
  PROVE  HostInv'
<1>1. UNCHANGED <<wire, session, calls, rivals, trusted, toRobot>> /\ hpc' = "idle" /\ triesLeft' = 0
      /\ seq' \in {0, seq}
  BY DEF HelloReturns, CallReturns
<1>2. ownBanner' \in BOOLEAN
      /\ result' \in [1 .. MaxCalls -> {"unissued", "pending", "ack", "err", "none"}]
  <2>1. ownBanner \in BOOLEAN
        /\ result \in [1 .. MaxCalls -> {"unissued", "pending", "ack", "err", "none"}]
    BY DEF HostInv, SessionTypeOK
  <2>2. CASE \E own \in BOOLEAN : HelloReturns(own)
    BY <2>1, <2>2 DEF HelloReturns
  <2>3. CASE \E verdict \in {"ack", "err", "none"} : CallReturns(verdict)
    BY <2>1, <2>3 DEF CallReturns
  <2> QED BY <2>2, <2>3
<1>3. \A p \in DOMAIN toRobot' : Known(p)'
  BY <1>1 DEF HostInv, Known, Cmd, Greeting, Tag, Number
<1>4. SessionTypeOK'
  <2>1. seq' \in 0 .. MaxCalls
    BY <1>1, HostFacts DEF HostInv, SessionTypeOK
  <2>2. triesLeft' \in Nat
    BY <1>1
  <2> QED BY <1>1, <1>2, <2>1, <2>2, WindowKeeps DEF HostInv, SessionTypeOK, robotVars, Incoming
<1>5. Phases'
  BY <1>1 DEF HostInv, Phases
<1>6. seq' <= calls' /\ session' <= carrier'.sessions /\ robotSession' <= session'
      /\ \A i \in DOMAIN toHost' : toHost'[i].of <= session'
  BY <1>1, HostFacts, WindowKeeps DEF HostInv, robotVars
<1>7. trusted' \subseteq 1 .. calls' /\ \A i \in DOMAIN trace' : trace'[i] <= calls'
  BY <1>1, WindowKeeps DEF HostInv, robotVars
<1>8. (\A i \in DOMAIN accepted : Executed(accepted[i].tag))'
  BY WindowKeeps DEF HostInv, robotVars, Executed
<1> QED BY <1>1, <1>3, <1>4, <1>5, <1>6, <1>7, <1>8, WindowKeeps DEF HostInv

\* The lists of commands grow by one entry.
LEMMA Longer ==
  ASSUME HostInv, NEW line, accepted' = Append(accepted, [id |-> line.id, tag |-> line.tag]),
         trace' = Append(trace, line.tag), line.id \in Ids, line.tag \in Tags,
         line.tag \in 0 .. calls
  PROVE  /\ trace' \in Seq(0 .. MaxCalls)
         /\ \A n \in DOMAIN trace' : trace'[n] <= calls
         /\ (\A n \in DOMAIN accepted : Executed(accepted[n].tag))'
<1>0. Len(trace) \in Nat /\ Len(accepted) \in Nat /\ calls \in Nat /\ calls <= MaxCalls /\ MaxCalls \in Nat
  BY HostFacts DEF HostInv, SessionTypeOK
<1>1. /\ trace' \in Seq(0 .. MaxCalls) /\ DOMAIN trace' = 1 .. Len(trace) + 1
      /\ \A n \in 1 .. Len(trace) : trace'[n] = trace[n]
      /\ trace'[Len(trace) + 1] = line.tag
  <2>1. line.tag \in 0 .. MaxCalls
    BY <1>0
  <2> QED BY <2>1, HostFacts, AppendProperties
<1>2. /\ DOMAIN accepted' = 1 .. Len(accepted) + 1
      /\ \A n \in 1 .. Len(accepted) : accepted'[n] = accepted[n]
      /\ accepted'[Len(accepted) + 1].tag = line.tag
  <2>1. [id |-> line.id, tag |-> line.tag] \in [id : Ids, tag : Tags]
    OBVIOUS
  <2> QED BY <2>1, HostFacts, AppendProperties
<1>3. ASSUME NEW n \in DOMAIN trace'
      PROVE  trace'[n] <= calls
  <2>1. n \in 1 .. Len(trace) \/ n = Len(trace) + 1
    BY <1>0, <1>1
  <2> QED BY <1>0, <1>1, <2>1, HostElements
<1>4. ASSUME NEW n \in DOMAIN accepted'
      PROVE  \E m \in DOMAIN trace' : trace'[m] = accepted'[n].tag
  <2>1. CASE n \in 1 .. Len(accepted)
    <3>1. \E m \in DOMAIN trace : trace[m] = accepted[n].tag
      BY <2>1, HostElements DEF HostInv, Executed
    <3>2. PICK m \in 1 .. Len(trace) : trace[m] = accepted[n].tag
      BY <3>1, HostElements
    <3>3. m \in DOMAIN trace' /\ trace'[m] = trace[m] /\ accepted'[n] = accepted[n]
      BY <1>0, <1>1, <1>2, <2>1
    <3> QED BY <3>2, <3>3
  <2>2. CASE n \notin 1 .. Len(accepted)
    <3>1. n = Len(accepted) + 1 /\ Len(trace) + 1 \in DOMAIN trace'
      BY <1>0, <1>1, <1>2, <2>2
    <3> QED BY <1>1, <1>2, <3>1
  <2> QED BY <2>1, <2>2
<1> QED BY <1>1, <1>3, <1>4 DEF Executed

LEMMA DeliverKeeps ==
  ASSUME HostInv, NEW i \in 1 .. Len(toRobot), NEW kept, Deliver(i, kept)
  PROVE  HostInv'
<1>1. Taken(i) /\ Answer
  BY Takes, Hears
<1>2. UNCHANGED <<carrier, hostVars, others>>
  BY DEF Deliver
<1>3. Known(i) /\ toRobot[i] \in Lines /\ DOMAIN toRobot = 1 .. Len(toRobot)
  BY HostElements
<1>4. robotSession' \in Nat /\ robotSession' <= session /\ robotSession' \in 0 .. MaxSessions
  <2>1. CASE robotSession' = robotSession
    BY <2>1, HostElements
  <2>2. CASE Greets(toRobot[i]) /\ robotSession' = Tag(i)
    <3>1. Tag(i) \in 1 .. session /\ session \in 0 .. MaxSessions
      BY <1>3, <2>2 DEF Known, Cmd, Greets, HostInv, SessionTypeOK
    <3> QED BY <2>2, <3>1, HostFacts
  <2> QED BY <1>1, <2>1, <2>2 DEF Taken
<1>5. /\ trace' \in Seq(0 .. MaxCalls) /\ \A n \in DOMAIN trace' : trace'[n] <= calls
      /\ (\A n \in DOMAIN accepted : Executed(accepted[n].tag))'
  <2>1. CASE trace' = trace /\ (accepted' = <<>> \/ accepted' = accepted)
    <3>1. (\A n \in DOMAIN accepted : Executed(accepted[n].tag))'
      BY <2>1 DEF HostInv, Executed
    <3> QED BY <2>1, <3>1, HostFacts DEF HostInv
  <2>2. CASE Runs(toRobot[i]) /\ trace' = Append(trace, Tag(i))
    <3>1. Tag(i) \in 1 .. calls /\ Tag(i) \in 1 .. MaxCalls
      <4>1. Tag(i) \in 1 .. calls /\ calls \in 0 .. MaxCalls
        BY <1>3, <2>2 DEF Known, Greeting, Runs, HostInv, SessionTypeOK
      <4> QED BY <4>1, HostFacts
    <3>2. toRobot[i].id \in Ids /\ toRobot[i].tag \in Tags /\ toRobot[i].tag \in 0 .. calls
      BY <1>3, <2>2, <3>1, ExpectedNextRange, HostFacts DEF Runs, Lines, HostInv, Tag
    <3> QED BY <2>2, <3>2, Longer DEF Runs, Tag
  <2> QED BY <1>1, <2>1, <2>2 DEF Taken, Greets, Turns
<1>6. \A p \in DOMAIN toRobot' : Known(p)' /\ toRobot' \in Seq(Lines)
  <2>1. toRobot' \in Seq(Lines) /\ Len(toRobot') = Len(toRobot) - 1 /\ DOMAIN toRobot' = 1 .. Len(toRobot) - 1
    BY <1>1, HostFacts DEF Taken
  <2>2. ASSUME NEW p \in 1 .. Len(toRobot) - 1
        PROVE  Known(p)'
    <3>1. p \in DOMAIN toRobot /\ p + 1 \in DOMAIN toRobot
          /\ (toRobot'[p] = toRobot[p] \/ toRobot'[p] = toRobot[p + 1])
      <4>1. Len(toRobot) \in Nat /\ Len(toRobot') = Len(toRobot) - 1
            /\ \A m \in 1 .. Len(toRobot') :
                 toRobot'[m] = IF m < i THEN toRobot[m] ELSE toRobot[m + 1]
        BY <1>1, HostFacts DEF Taken
      <4>2. PICK n \in Nat : n = Len(toRobot)
        BY <4>1
      <4>3. DOMAIN toRobot = 1 .. n /\ p \in 1 .. n - 1
        BY <4>2, HostElements
      <4>4. p \in 1 .. n /\ p + 1 \in 1 .. n
        BY <4>2, <4>3
      <4> QED BY <4>1, <4>2, <4>3, <4>4
    <3>2. Known(p) /\ Known(p + 1)
      BY <3>1, HostElements
    <3> QED BY <1>2, <3>1, <3>2 DEF Known, Cmd, Greeting, Tag, Number, hostVars
  <2> QED BY <2>1, <2>2
<1>7. Len(toRobot') <= carrier.holds /\ toRobot' \in Seq(Lines)
  <2>1. Len(toRobot) <= carrier.holds /\ Len(toRobot') = Len(toRobot) - 1
    BY <1>1 DEF Taken, HostInv, SessionTypeOK
  <2> QED BY <1>1, <2>1, HostFacts DEF Taken
<1>8. SessionTypeOK'
  <2>1. HandlerTypeOK'
    BY <1>1 DEF Taken, Inv
  <2>2. toHost' \in Seq(Incoming) /\ Len(toHost') <= carrier.holds
    BY <1>1 DEF Answer
  <2> QED BY <1>2, <1>4, <1>5, <1>7, <2>1, <2>2 DEF HostInv, SessionTypeOK, Incoming, hostVars
<1>9. ASSUME NEW n \in DOMAIN toHost'
      PROVE  toHost'[n].of <= session
  <2>1. n \in 1 .. Len(toHost) \/ n \in Len(toHost) + 1 .. Len(toHost')
    <3>1. n \in 1 .. Len(toHost') /\ Len(toHost') \in Nat
      BY <1>1 DEF Answer
    <3> QED BY <3>1, HostFacts
  <2>2. CASE n \in 1 .. Len(toHost)
    BY <1>1, <2>2, HostElements DEF Answer
  <2>3. CASE n \in Len(toHost) + 1 .. Len(toHost')
    <3>1. \E j : toHost'[n] = Stamp(replies'[j])
      BY <1>1, <2>3 DEF Answer
    <3>2. toHost'[n].of = robotSession'
      BY <3>1 DEF Stamp
    <3> QED BY <1>4, <3>2
  <2> QED BY <2>1, <2>2, <2>3
<1>10. Phases' /\ trusted' \subseteq 1 .. calls' /\ seq' <= calls' /\ session' <= carrier'.sessions
  BY <1>2 DEF HostInv, Phases, hostVars
<1>11. robotSession' <= session' /\ Inv'
       /\ (\A n \in DOMAIN toHost' : toHost'[n].of <= session')
       /\ (\A n \in DOMAIN trace' : trace'[n] <= calls')
  BY <1>1, <1>2, <1>4, <1>5, <1>9 DEF Taken, hostVars
<1> QED BY <1>5, <1>6, <1>8, <1>10, <1>11 DEF HostInv

LEMMA OthersKeep ==
  ASSUME HostInv, AnothersHello
  PROVE  HostInv' /\ accepted' = <<>> /\ expectedNext_' = 1
<1>1. HelloLine(0) \in Lines
  BY HostFacts, LineTypes
<1>2. handleHello(HelloLine(0)) /\ UNCHANGED <<carrier, hostVars, channelVars, trace>>
      /\ robotSession' = 0 /\ others' = others + 1 /\ others < carrier.others
  BY DEF AnothersHello
<1>3. Inv'
  <2>1. HandlerNext
    BY <1>1, <1>2 DEF HandlerNext, Receive
  <2> QED BY <2>1, InvStep DEF HostInv
<1>4. accepted' = <<>> /\ expectedNext_' = 1
  BY <1>2 DEF handleHello
<1>5. SessionTypeOK'
  <2>1. others' \in 0 .. carrier.others /\ robotSession' \in 0 .. MaxSessions
    <3>1. others \in 0 .. carrier.others /\ carrier.others \in Nat /\ MaxSessions \in Nat
      BY Bounds DEF HostInv, SessionTypeOK
    <3> QED BY <1>2, <3>1
  <2>2. HandlerTypeOK'
    BY <1>3 DEF Inv
  <2> QED BY <1>2, <2>1, <2>2 DEF HostInv, SessionTypeOK, hostVars, channelVars
<1>6. \A p \in DOMAIN toRobot' : Known(p)'
  BY <1>2 DEF HostInv, Known, Cmd, Greeting, Tag, Number, hostVars, channelVars
<1>7. Phases' /\ trusted' \subseteq 1 .. calls' /\ seq' <= calls' /\ session' <= carrier'.sessions
      /\ (\A n \in DOMAIN toHost' : toHost'[n].of <= session')
      /\ (\A n \in DOMAIN trace' : trace'[n] <= calls')
  BY <1>2 DEF HostInv, Phases, hostVars, channelVars
<1>8. robotSession' <= session'
  BY <1>2, HostFacts DEF hostVars
<1>9. (\A n \in DOMAIN accepted : Executed(accepted[n].tag))'
  BY <1>4
<1> QED BY <1>3, <1>4, <1>5, <1>6, <1>7, <1>8, <1>9 DEF HostInv

\* A command of another client: not run, or the next one run.
LEMMA RivalKeeps ==
  ASSUME HostInv, NEW n \in 1 .. MaxCalls, NEW d \in CallDecodes, AnothersCommand(Command(n, 0, d))
  PROVE  /\ HostInv'
         /\ UNCHANGED <<carrier, channelVars, robotSession, hpc, seq, wire, session, calls, result>>
         /\ \/ UNCHANGED <<accepted, trace, rivals, ownBanner, trusted>>
            \/ rivals' = TRUE /\ ownBanner' = FALSE /\ trusted' = {}
<1> DEFINE line == Command(n, 0, d)
<1>1. line \in Lines /\ line.verb = "COMMAND" /\ line.id = n /\ line.tag = 0
  <2>1. 0 \in 0 .. MaxCalls
    BY HostFacts
  <2> QED BY <2>1, LineTypes DEF Command
<1>2. /\ Receive(line) /\ others' = others + 1 /\ others < carrier.others
      /\ UNCHANGED <<carrier, channelVars, robotSession, hpc, seq, wire, triesLeft, session, calls, result>>
      /\ IF accepted' = accepted
         THEN UNCHANGED <<trace, rivals, ownBanner, trusted>>
         ELSE /\ trace' = Append(trace, 0)
              /\ rivals' = TRUE /\ ownBanner' = FALSE /\ trusted' = {}
  BY DEF AnothersCommand
<1>3. line.id \notin {NoId, 0} /\ line.id \in Ids /\ line.tag \in Tags
  BY <1>1, Bounds, BoundsAssumption, MaxSequenceIdAssumption DEF Ids, NoId
<1> HIDE DEF line
<1>4. Inv' /\ (Greets(line) \/ Turns(line) \/ Runs(line))
  BY <1>1, <1>2, <1>3, Handles DEF HostInv
<1>5. others' \in 0 .. carrier.others
  <2>1. others \in 0 .. carrier.others /\ carrier.others \in Nat
    BY Bounds DEF HostInv, SessionTypeOK
  <2> QED BY <1>2, <2>1
<1>6. /\ \A p \in DOMAIN toRobot' : Known(p)'
      /\ seq' <= calls' /\ session' <= carrier'.sessions
      /\ \A i \in DOMAIN toHost' : toHost'[i].of <= session'
      /\ robotSession' <= session'
  BY <1>2 DEF HostInv, Known, Cmd, Greeting, Tag, Number, channelVars
<1>7. HandlerTypeOK'
  BY <1>4 DEF Inv
<1>8. CASE accepted' = accepted
  <2>1. UNCHANGED <<trace, rivals, ownBanner, trusted>>
    BY <1>2, <1>8
  <2>2. SessionTypeOK'
    BY <1>2, <1>5, <1>7, <2>1 DEF HostInv, SessionTypeOK, channelVars
  <2>3. Phases' /\ trusted' \subseteq 1 .. calls' /\ (\A i \in DOMAIN trace' : trace'[i] <= calls')
    BY <1>2, <2>1 DEF HostInv, Phases
  <2>4. (\A i \in DOMAIN accepted : Executed(accepted[i].tag))'
    BY <1>8, <2>1 DEF HostInv, Executed
  <2> QED BY <1>2, <1>4, <1>6, <1>8, <2>1, <2>2, <2>3, <2>4 DEF HostInv
<1>9. CASE accepted' # accepted
  <2>1. trace' = Append(trace, 0) /\ rivals' = TRUE /\ ownBanner' = FALSE /\ trusted' = {}
    BY <1>2, <1>9
  <2>2. Runs(line)
    BY <1>1, <1>4, <1>9 DEF Greets, Turns
  <2>3. line.tag \in 0 .. calls
    BY <1>1, HostFacts
  <2>4. /\ trace' \in Seq(0 .. MaxCalls) /\ \A i \in DOMAIN trace' : trace'[i] <= calls
        /\ (\A i \in DOMAIN accepted : Executed(accepted[i].tag))'
    BY <1>1, <1>3, <2>1, <2>2, <2>3, Longer DEF Runs
  <2>5. ownBanner' \in BOOLEAN /\ rivals' \in BOOLEAN /\ ~ownBanner'
    BY <2>1
  <2>6. SessionTypeOK'
    BY <1>2, <1>5, <1>7, <2>1, <2>4, <2>5 DEF HostInv, SessionTypeOK, channelVars
  <2>7. Phases'
    BY <1>2, <2>1, <2>5 DEF HostInv, Phases
  <2> QED BY <1>2, <1>4, <1>6, <2>1, <2>4, <2>6, <2>7 DEF HostInv
<1> QED BY <1>8, <1>9

LEMMA HostStutter ==
  ASSUME HostInv, UNCHANGED vars
  PROVE  HostInv'
<1>1. Inv'
  BY DEF HostInv, vars, handlerVars, Inv, HandlerTypeOK, SessionInOrder, ReceiptsAreTrue,
         ReminderIsTrue, GapIsOpen
<1>2. SessionTypeOK'
  <2>1. HandlerTypeOK'
    BY <1>1 DEF Inv
  <2> QED BY <2>1 DEF HostInv, SessionTypeOK, vars, hostVars, channelVars
<1>3. \A p \in DOMAIN toRobot' : Known(p)'
  BY DEF HostInv, Known, Cmd, Greeting, Tag, Number, vars, hostVars, channelVars
<1>4. Phases' /\ trusted' \subseteq 1 .. calls' /\ seq' <= calls' /\ session' <= carrier'.sessions
      /\ (\A n \in DOMAIN toHost' : toHost'[n].of <= session')
      /\ (\A n \in DOMAIN trace' : trace'[n] <= calls') /\ robotSession' <= session'
  BY DEF HostInv, Phases, vars, hostVars, channelVars
<1>5. (\A n \in DOMAIN accepted : Executed(accepted[n].tag))'
  BY DEF HostInv, vars, handlerVars, Executed
<1> QED BY <1>1, <1>2, <1>3, <1>4, <1>5 DEF HostInv

LEMMA HostStarts == Init => HostInv
<1> SUFFICES ASSUME Init PROVE HostInv
  OBVIOUS
<1>1. Inv
  BY InvInit DEF Init
<1>2. carrier \in Carriers /\ carrier.sessions \in 1 .. MaxSessions /\ carrier.holds \in Nat \ {0}
  BY Bounds DEF Init
<1>3. ownBanner \in BOOLEAN /\ rivals \in BOOLEAN
  <2>1. ownBanner = FALSE /\ rivals = FALSE
    BY DEF Init
  <2> QED BY <2>1
<1>4. SessionTypeOK
  <2>1. HandlerTypeOK
    BY <1>1 DEF Inv
  <2>2. /\ toRobot = <<>> /\ toHost = <<>> /\ hpc = "closed" /\ seq = 0 /\ triesLeft = 0
        /\ wire = HelloLine(0) /\ session = 0 /\ calls = 0 /\ trusted = {} /\ robotSession = 0
        /\ others = 0 /\ trace = <<>> /\ result = [c \in 1 .. MaxCalls |-> "unissued"]
    BY DEF Init
  <2>3. HelloLine(0) \in Lines
    BY LineTypes, Bounds
  <2>4. /\ 0 \in 0 .. MaxCalls /\ 0 \in 0 .. MaxSessions /\ 0 \in 0 .. carrier.others
        /\ Len(toRobot) <= carrier.holds /\ Len(toHost) <= carrier.holds
    BY <1>2, <2>2, Bounds
  <2>5. result \in [1 .. MaxCalls -> {"unissued", "pending", "ack", "err", "none"}]
    BY <2>2
  <2>6. toRobot \in Seq(Lines) /\ toHost \in Seq(Incoming) /\ trace \in Seq(0 .. MaxCalls)
    BY <2>2
  <2> QED BY <1>2, <1>3, <2>1, <2>2, <2>3, <2>4, <2>5, <2>6 DEF SessionTypeOK, Incoming
<1>5. Phases
  BY DEF Init, Phases
<1>6. /\ seq <= calls /\ session <= carrier.sessions /\ robotSession <= session
      /\ DOMAIN toRobot = {} /\ DOMAIN toHost = {} /\ DOMAIN trace = {} /\ DOMAIN accepted = {}
      /\ trusted = {}
  BY <1>2 DEF Init, HandlerInit
<1> QED BY <1>1, <1>4, <1>5, <1>6 DEF HostInv

\* What a step can be: a line is delivered, or the host or another client acts.
LEMMA StepCases ==
  ASSUME HostInv, Next
  PROVE  \/ OpenLink
         \/ Call
         \/ \E k \in 0 .. Len(toHost) : HostWindow(k)
         \/ \E i \in 1 .. Len(toRobot) : \E kept : Deliver(i, kept) /\ (i = 1 \/ carrier.reorders)
         \/ AnothersHello
         \/ \E n \in 1 .. MaxCalls, d \in CallDecodes : AnothersCommand(Command(n, 0, d))
<1>1. Len(toRobot) \in Nat /\ toRobot \in Seq(Lines)
  BY HostFacts
<1>2. ASSUME NEW kept, DeliverNext(kept)
      PROVE  1 \in 1 .. Len(toRobot) /\ Deliver(1, kept)
  BY <1>1, <1>2 DEF DeliverNext
<1>3. ASSUME NEW kept, DeliverAny(kept)
      PROVE  \E i \in 1 .. Len(toRobot) : Deliver(i, kept) /\ carrier.reorders
  BY <1>1, <1>3 DEF DeliverAny
<1>4. CASE \E kept \in SUBSET (1 .. 2) : DeliverNext(kept) \/ DeliverAny(kept)
  BY <1>2, <1>3, <1>4
<1> QED BY <1>4 DEF Next

LEMMA HostSteps == HostInv /\ [Next]_vars => HostInv'
<1> SUFFICES ASSUME HostInv, [Next]_vars PROVE HostInv'
  OBVIOUS
<1>1. CASE UNCHANGED vars
  BY <1>1, HostStutter
<1>2. CASE OpenLink
  BY <1>2, OpenLinkKeeps
<1>3. CASE Call
  BY <1>3, CallKeeps
<1>4. ASSUME NEW k \in 0 .. Len(toHost), HostWindow(k)
      PROVE  HostInv'
  <2>1. SessionTypeOK
    BY DEF HostInv
  <2>2. CASE hpc \in {"hello", "await"} /\ Resend
    BY <1>4, <2>2, ResendKeeps
  <2>3. CASE \/ hpc = "hello" /\ \E own \in BOOLEAN : HelloReturns(own)
             \/ hpc = "await" /\ \E verdict \in {"ack", "err", "none"} : CallReturns(verdict)
    BY <1>4, <2>3, ReturnKeeps
  <2> QED BY <1>4, <2>1, <2>2, <2>3, Reads
<1>5. ASSUME NEW i \in 1 .. Len(toRobot), NEW kept, Deliver(i, kept)
      PROVE  HostInv'
  BY <1>5, DeliverKeeps
<1>6. CASE AnothersHello
  BY <1>6, OthersKeep
<1>7. ASSUME NEW n \in 1 .. MaxCalls, NEW d \in CallDecodes, AnothersCommand(Command(n, 0, d))
      PROVE  HostInv'
  BY <1>7, RivalKeeps
<1> QED BY <1>1, <1>2, <1>3, <1>4, <1>5, <1>6, <1>7, StepCases

(* The host's bookkeeping holds in every state, on every carrier.          *)
THEOREM HostInvariance == Spec => []HostInv
BY HostStarts, HostSteps, PTL DEF Spec

(* The types of the host and of the channels are kept: ids stay within the *)
(* commands issued, the lines on their way within the carrier's bound.     *)
THEOREM SessionTypeCorrect == Spec => []SessionTypeOK
<1>1. HostInv => SessionTypeOK
  BY DEF HostInv
<1> QED BY <1>1, HostInvariance, PTL
-----------------------------------------------------------------------------
(* Why commands run in the order they were issued: on a carrier that keeps  *)
(* order and has one client, the lines on their way are in order of issue,  *)
(* all of them behind the last command executed, or copies of it the        *)
(* handler knows to be stale because no HELLO comes before them.            *)
Solo == ~carrier.reorders /\ ~carrier.shared
Free(p, q) == \A m \in DOMAIN toRobot : p < m /\ m < q => ~Greeting(m)
Last == IF trace = <<>> THEN 0 ELSE trace[Len(trace)]

QueueInOrder ==
  \A p, q \in DOMAIN toRobot :
    Cmd(p) /\ Cmd(q) /\ p < q =>
      Tag(p) < Tag(q) \/ (Tag(p) = Tag(q) /\ Number(p) = Number(q) /\ Free(p, q))

QueueIsAhead ==
  \A p \in DOMAIN toRobot :
    Cmd(p) => Tag(p) > Last \/ (Tag(p) = Last /\ Number(p) < expectedNext_ /\ Free(0, p))

WireIsLatest ==
  hpc = "await" =>
    /\ \A p \in DOMAIN toRobot :
         Cmd(p) /\ Tag(p) = calls => Number(p) = wire.id /\ Free(p, Len(toRobot) + 1)
    /\ Last = calls => wire.id < expectedNext_ /\ Free(0, Len(toRobot) + 1)

Ascends == \A i, j \in DOMAIN trace : i < j => trace[i] < trace[j]

Ordered == QueueInOrder /\ QueueIsAhead /\ WireIsLatest /\ Ascends
OrderInv == Solo => Ordered

LEMMA LastFacts ==
  ASSUME HostInv
  PROVE  /\ Last \in Nat /\ Last <= calls
         /\ Ascends => \A i \in DOMAIN trace : trace[i] <= Last
<1>1. trace \in Seq(0 .. MaxCalls) /\ Len(trace) \in Nat /\ calls \in Nat
  BY HostFacts
<1>2. CASE trace = <<>>
  BY <1>1, <1>2 DEF Last
<1>3. CASE trace # <<>>
  <2>1. Len(trace) \in DOMAIN trace /\ DOMAIN trace = 1 .. Len(trace)
    BY <1>1, <1>3, EmptySeq
  <2>2. trace[Len(trace)] \in Nat /\ trace[Len(trace)] <= calls /\ Last = trace[Len(trace)]
    BY <1>3, <2>1, HostElements DEF Last
  <2>3. ASSUME Ascends, NEW i \in DOMAIN trace
        PROVE  trace[i] <= Last
    <3>1. CASE i = Len(trace)
      BY <2>2, <3>1
    <3>2. CASE i # Len(trace)
      <4>1. i < Len(trace)
        BY <1>1, <2>1, <3>2
      <4>2. trace[i] < trace[Len(trace)] /\ trace[i] \in Nat
        BY <2>1, <2>3, <4>1, HostElements DEF Ascends
      <4> QED BY <2>2, <4>2
    <3> QED BY <3>1, <3>2
  <2> QED BY <2>2, <2>3
<1> QED BY <1>2, <1>3

LEMMA FreeExtends ==
  ASSUME HostInv, NEW line, Queued(line), NEW p \in Nat
  PROVE  /\ \A q \in Nat : q <= Len(toRobot) + 1 /\ Free(p, q) => Free(p, q)'
         /\ line.verb # "HELLO" /\ Free(p, Len(toRobot) + 1) => Free(p, Len(toRobot) + 1)'
<1>1. Len(toRobot) \in Nat
  BY HostFacts
<1>2. ASSUME NEW q \in Nat, q <= Len(toRobot) + 1, Free(p, q), NEW m \in DOMAIN toRobot', p < m, m < q
      PROVE  toRobot'[m].verb # "HELLO"
  <2>1. m \in 1 .. Len(toRobot) /\ toRobot'[m] = toRobot[m]
    BY <1>1, <1>2, QueuedLine
  <2> QED BY <1>2, <2>1, QueuedLine DEF Free, Greeting
<1>3. ASSUME line.verb # "HELLO", Free(p, Len(toRobot) + 1), NEW m \in DOMAIN toRobot', p < m
      PROVE  toRobot'[m].verb # "HELLO"
  <2>1. CASE m \in 1 .. Len(toRobot) /\ toRobot'[m] = toRobot[m]
    <3>1. m < Len(toRobot) + 1 /\ m \in DOMAIN toRobot
      BY <1>1, <2>1, QueuedLine
    <3> QED BY <1>3, <2>1, <3>1 DEF Free, Greeting
  <2>2. CASE toRobot'[m] = line
    BY <1>3, <2>2
  <2> QED BY <2>1, <2>2, QueuedLine
<1> QED BY <1>2, <1>3 DEF Free, Greeting

\* A line the host may put behind those on their way.
Latest(line) ==
  \/ line.verb = "HELLO"
  \/ /\ line.verb = "COMMAND"
     /\ \A p \in DOMAIN toRobot : Cmd(p) =>
          Tag(p) < line.tag \/ (Tag(p) = line.tag /\ Number(p) = line.id /\ Free(p, Len(toRobot) + 1))
     /\ line.tag > Last \/ (line.tag = Last /\ line.id < expectedNext_ /\ Free(0, Len(toRobot) + 1))

LEMMA SendsInOrder ==
  ASSUME HostInv, QueueInOrder, QueueIsAhead, NEW line, Queued(line), Latest(line),
         UNCHANGED <<trace, expectedNext_>>
  PROVE  QueueInOrder' /\ QueueIsAhead'
<1>1. Len(toRobot) \in Nat /\ Last' = Last
  BY HostFacts DEF Last
<1>2. ASSUME NEW p \in DOMAIN toRobot', NEW q \in DOMAIN toRobot', Cmd(p)', Cmd(q)', p < q
      PROVE  Tag(p)' < Tag(q)' \/ (Tag(p)' = Tag(q)' /\ Number(p)' = Number(q)' /\ Free(p, q)')
  <2>1. p \in 1 .. Len(toRobot) /\ p \in Nat /\ q \in Nat /\ toRobot'[p] = toRobot[p]
    BY <1>1, <1>2, QueuedLine
  <2>2. CASE q \in 1 .. Len(toRobot) /\ toRobot'[q] = toRobot[q]
    <3>1. Cmd(p) /\ Cmd(q) /\ q <= Len(toRobot) + 1 /\ p \in DOMAIN toRobot /\ q \in DOMAIN toRobot
      BY <1>1, <1>2, <2>1, <2>2, QueuedLine DEF Cmd
    <3>2. Tag(p) < Tag(q) \/ (Tag(p) = Tag(q) /\ Number(p) = Number(q) /\ Free(p, q))
      BY <1>2, <3>1 DEF QueueInOrder
    <3>3. Free(p, q) => Free(p, q)'
      BY <2>1, <3>1, FreeExtends
    <3> QED BY <2>1, <2>2, <3>2, <3>3 DEF Tag, Number
  <2>3. CASE q = Len(toRobot) + 1 /\ toRobot'[q] = line
    <3>1. Cmd(p) /\ line.verb = "COMMAND" /\ p \in DOMAIN toRobot
      BY <1>2, <2>1, <2>3, QueuedLine DEF Cmd
    <3>2. Tag(p) < line.tag \/ (Tag(p) = line.tag /\ Number(p) = line.id /\ Free(p, q))
      BY <2>3, <3>1 DEF Latest
    <3>3. Free(p, q) => Free(p, q)'
      BY <1>1, <2>1, <2>3, FreeExtends
    <3> QED BY <2>1, <2>3, <3>2, <3>3 DEF Tag, Number
  <2> QED BY <2>2, <2>3, QueuedLine
<1>3. ASSUME NEW p \in DOMAIN toRobot', Cmd(p)'
      PROVE  Tag(p)' > Last \/ (Tag(p)' = Last /\ Number(p)' < expectedNext_ /\ Free(0, p)')
  <2>1. CASE p \in 1 .. Len(toRobot) /\ toRobot'[p] = toRobot[p]
    <3>1. Cmd(p) /\ p \in Nat /\ p <= Len(toRobot) + 1 /\ p \in DOMAIN toRobot
      BY <1>1, <1>3, <2>1, QueuedLine DEF Cmd
    <3>2. Tag(p) > Last \/ (Tag(p) = Last /\ Number(p) < expectedNext_ /\ Free(0, p))
      BY <3>1 DEF QueueIsAhead
    <3>3. Free(0, p) => Free(0, p)'
      BY <3>1, FreeExtends
    <3> QED BY <2>1, <3>2, <3>3 DEF Tag, Number
  <2>2. CASE p = Len(toRobot) + 1 /\ toRobot'[p] = line
    <3>1. line.verb = "COMMAND"
      BY <1>3, <2>2 DEF Cmd
    <3>2. line.tag > Last \/ (line.tag = Last /\ line.id < expectedNext_ /\ Free(0, p))
      BY <2>2, <3>1 DEF Latest
    <3>3. Free(0, p) => Free(0, p)'
      BY <1>1, <2>2, FreeExtends
    <3> QED BY <2>2, <3>2, <3>3 DEF Tag, Number
  <2> QED BY <2>1, <2>2, QueuedLine
<1>4. QueueInOrder'
  BY <1>2 DEF QueueInOrder
<1>5. QueueIsAhead'
  <2>1. UNCHANGED <<Last, expectedNext_>>
    BY <1>1
  <2> QED BY <1>3, <2>1 DEF QueueIsAhead
<1> QED BY <1>4, <1>5

\* The queue without its first line.
LEMMA Shifted ==
  ASSUME HostInv, Len(toRobot) >= 1, Taken(1)
  PROVE  /\ DOMAIN toRobot' = 1 .. Len(toRobot) - 1 /\ Len(toRobot') = Len(toRobot) - 1
         /\ \A p \in 1 .. Len(toRobot) - 1 :
              /\ p + 1 \in DOMAIN toRobot /\ toRobot'[p] = toRobot[p + 1]
              /\ 1 < p + 1 /\ 1 \in DOMAIN toRobot
         /\ \A p, q \in Nat : Free(p + 1, q + 1) => Free(p, q)'
         /\ \A p \in Nat : Free(p + 1, Len(toRobot) + 1) => Free(p, Len(toRobot) + 1)'
<1>1. /\ toRobot' \in Seq(Lines) /\ Len(toRobot') = Len(toRobot) - 1
      /\ \A p \in 1 .. Len(toRobot') : toRobot'[p] = IF p < 1 THEN toRobot[p] ELSE toRobot[p + 1]
  BY DEF Taken
<1>2. Len(toRobot) \in Nat /\ DOMAIN toRobot = 1 .. Len(toRobot)
  BY HostFacts, HostElements
<1>3. DOMAIN toRobot' = 1 .. Len(toRobot) - 1
  BY <1>1
<1>4. ASSUME NEW p \in 1 .. Len(toRobot) - 1
      PROVE  /\ p + 1 \in DOMAIN toRobot /\ toRobot'[p] = toRobot[p + 1]
             /\ 1 < p + 1 /\ 1 \in DOMAIN toRobot
  BY <1>1, <1>2
<1>5. ASSUME NEW p \in Nat, NEW q \in Nat, Free(p + 1, q + 1), NEW m \in DOMAIN toRobot', p < m, m < q
      PROVE  toRobot'[m].verb # "HELLO"
  <2>1. m + 1 \in DOMAIN toRobot /\ toRobot'[m] = toRobot[m + 1] /\ p + 1 < m + 1 /\ m + 1 < q + 1
    BY <1>2, <1>3, <1>4, <1>5
  <2> QED BY <1>5, <2>1 DEF Free, Greeting
<1>6. \A p, q \in Nat : Free(p + 1, q + 1) => Free(p, q)'
  BY <1>5 DEF Free, Greeting
<1>7. ASSUME NEW p \in Nat, Free(p + 1, Len(toRobot) + 1)
      PROVE  Free(p, Len(toRobot) + 1)'
  <2>1. \A m \in DOMAIN toRobot' : p < m => toRobot'[m].verb # "HELLO"
    BY <1>2, <1>3, <1>4, <1>7 DEF Free, Greeting
  <2> QED BY <2>1 DEF Free, Greeting
<1> QED BY <1>1, <1>3, <1>4, <1>6, <1>7

LEMMA OrderedOpenLink ==
  ASSUME HostInv, Ordered, OpenLink
  PROVE  Ordered'
<1>1. Queued(HelloLine(session + 1)) /\ Latest(HelloLine(session + 1))
  BY OpenLinkKeeps DEF Latest, HelloLine
<1>2. UNCHANGED <<trace, expectedNext_>> /\ hpc' = "hello"
  BY DEF OpenLink, robotVars
<1>3. QueueInOrder' /\ QueueIsAhead'
  BY <1>1, <1>2, SendsInOrder DEF Ordered
<1> QED BY <1>2, <1>3 DEF Ordered, WireIsLatest, Ascends

LEMMA OrderedCall ==
  ASSUME HostInv, Ordered, Call
  PROVE  Ordered'
<1>1. PICK d \in CallDecodes : /\ wire' = Command(seq + 1, calls + 1, d)
                             /\ Queued(Command(seq + 1, calls + 1, d))
  BY CallKeeps
<1> DEFINE line == Command(seq + 1, calls + 1, d)
<1>2. line.verb = "COMMAND" /\ line.tag = calls + 1 /\ line.id = seq + 1
  BY DEF Command
<1>3. UNCHANGED <<trace, expectedNext_>> /\ hpc' = "await" /\ calls' = calls + 1 /\ wire' = line
  BY <1>1 DEF Call, robotVars
<1> HIDE DEF line
<1>4. calls \in Nat /\ Last \in Nat /\ Last <= calls /\ Last' = Last /\ Len(toRobot) \in Nat
  BY <1>3, HostFacts, LastFacts DEF Last
<1>5. \A p \in DOMAIN toRobot : Cmd(p) => Tag(p) \in Nat /\ Tag(p) < calls + 1
  BY <1>4, HostElements DEF Known, Cmd, Greeting
<1>6. Latest(line)
  BY <1>2, <1>4, <1>5 DEF Latest
<1>7. QueueInOrder' /\ QueueIsAhead'
  BY <1>1, <1>3, <1>6, SendsInOrder DEF Ordered, line
<1>8. ASSUME NEW p \in DOMAIN toRobot', Cmd(p)', Tag(p)' = calls'
      PROVE  Number(p)' = wire'.id /\ Free(p, Len(toRobot) + 1)'
  <2>1. CASE p \in 1 .. Len(toRobot) /\ toRobot'[p] = toRobot[p]
    BY <1>3, <1>4, <1>5, <1>8, <2>1, QueuedLine DEF Cmd, Tag
  <2>2. CASE p = Len(toRobot) + 1 /\ Len(toRobot') = Len(toRobot) + 1 /\ toRobot'[p] = line
    <3>1. \A m \in DOMAIN toRobot' : ~(p < m)
      BY <1>1, <1>4, <2>2, QueuedLine
    <3> QED BY <1>2, <1>3, <2>2, <3>1 DEF Free, Number
  <2> QED BY <1>1, <2>1, <2>2, QueuedLine DEF line
<1>9. Last' # calls'
  BY <1>3, <1>4
<1>10. WireIsLatest'
  BY <1>8, <1>9 DEF WireIsLatest
<1> QED BY <1>3, <1>7, <1>10 DEF Ordered, Ascends

LEMMA OrderedResend ==
  ASSUME HostInv, Ordered, NEW k \in 0 .. Len(toHost), HostWindow(k), hpc \in {"hello", "await"}, Resend
  PROVE  Ordered'
<1>1. Queued(wire)
  BY ResendKeeps
<1>2. UNCHANGED <<trace, expectedNext_, hpc, calls, wire>> /\ Last' = Last
  BY DEF Resend, HostWindow, robotVars, Last
<1>3. CASE hpc = "hello"
  <2>1. Latest(wire)
    BY <1>3 DEF HostInv, Phases, Latest, HelloLine
  <2>2. QueueInOrder' /\ QueueIsAhead'
    BY <1>1, <1>2, <2>1, SendsInOrder DEF Ordered
  <2> QED BY <1>2, <1>3, <2>2 DEF Ordered, WireIsLatest, Ascends
<1>4. CASE hpc = "await"
  <2>1. wire.verb = "COMMAND" /\ wire.tag = calls
    BY <1>4 DEF HostInv, Phases
  <2>2. calls \in Nat /\ Last \in Nat /\ Last <= calls /\ Len(toRobot) \in Nat
    BY HostFacts, LastFacts
  <2>3. ASSUME NEW p \in DOMAIN toRobot, Cmd(p)
        PROVE  /\ Tag(p) \in Nat /\ Tag(p) <= calls
               /\ Tag(p) = calls => Number(p) = wire.id /\ Free(p, Len(toRobot) + 1)
    <3>1. Tag(p) \in Nat /\ Tag(p) <= calls
      BY <2>2, <2>3, HostElements DEF Known, Cmd, Greeting
    <3> QED BY <1>4, <2>3, <3>1 DEF Ordered, WireIsLatest
  <2>4. Latest(wire)
    BY <1>4, <2>1, <2>2, <2>3 DEF Latest, Ordered, WireIsLatest
  <2>5. QueueInOrder' /\ QueueIsAhead'
    BY <1>1, <1>2, <2>4, SendsInOrder DEF Ordered
  <2>6. ASSUME NEW p \in DOMAIN toRobot', Cmd(p)', Tag(p)' = calls'
        PROVE  Number(p)' = wire'.id /\ Free(p, Len(toRobot) + 1)'
    <3>1. CASE p \in 1 .. Len(toRobot) /\ toRobot'[p] = toRobot[p]
      <4>1. p \in DOMAIN toRobot /\ p \in Nat /\ Cmd(p) /\ Tag(p) = calls
        BY <1>1, <1>2, <2>2, <2>6, <3>1, QueuedLine DEF Cmd, Tag
      <4>2. Number(p) = wire.id /\ Free(p, Len(toRobot) + 1)
        BY <2>3, <4>1
      <4>3. Free(p, Len(toRobot) + 1)'
        BY <1>1, <2>1, <4>1, <4>2, FreeExtends
      <4> QED BY <1>2, <3>1, <4>2, <4>3 DEF Number
    <3>2. CASE p = Len(toRobot) + 1 /\ Len(toRobot') = Len(toRobot) + 1 /\ toRobot'[p] = wire
      <4>1. \A m \in DOMAIN toRobot' : ~(p < m)
        BY <1>1, <2>2, <3>2, QueuedLine
      <4> QED BY <1>2, <3>2, <4>1 DEF Free, Number
    <3> QED BY <1>1, <3>1, <3>2, QueuedLine
  <2>7. Last' = calls' => wire'.id < expectedNext_' /\ Free(0, Len(toRobot) + 1)'
    <3>1. Last = calls => wire.id < expectedNext_ /\ Free(0, Len(toRobot) + 1)
      BY <1>4 DEF Ordered, WireIsLatest
    <3>2. Free(0, Len(toRobot) + 1) => Free(0, Len(toRobot) + 1)'
      BY <1>1, <2>1, FreeExtends
    <3> QED BY <1>2, <3>1, <3>2
  <2>8. WireIsLatest'
    BY <2>6, <2>7 DEF WireIsLatest
  <2> QED BY <1>2, <2>5, <2>8 DEF Ordered, Ascends
<1> QED BY <1>3, <1>4

LEMMA OrderedReturn ==
  ASSUME HostInv, Ordered, NEW k \in 0 .. Len(toHost), HostWindow(k),
         \/ \E own \in BOOLEAN : HelloReturns(own)
         \/ \E verdict \in {"ack", "err", "none"} : CallReturns(verdict)
  PROVE  Ordered'
<1>1. UNCHANGED <<trace, expectedNext_, toRobot>> /\ hpc' = "idle"
  BY DEF HelloReturns, CallReturns, HostWindow, robotVars
<1>2. Last' = Last /\ \A p, q : Free(p, q)' = Free(p, q)
  BY <1>1 DEF Last, Free, Greeting
<1> QED BY <1>1, <1>2 DEF Ordered, QueueInOrder, QueueIsAhead, WireIsLatest, Ascends, Cmd, Tag, Number

LEMMA OrderedDeliver ==
  ASSUME HostInv, Ordered, Len(toRobot) >= 1, NEW kept, Deliver(1, kept)
  PROVE  Ordered'
<1>1. 1 \in 1 .. Len(toRobot) /\ Len(toRobot) \in Nat /\ DOMAIN toRobot = 1 .. Len(toRobot)
  BY HostFacts, HostElements
<1>2. Taken(1)
  BY <1>1, Takes
<1>3. UNCHANGED <<hpc, calls, wire>>
  BY DEF Deliver, hostVars
<1>4. calls \in Nat /\ Last \in Nat /\ Last <= calls /\ expectedNext_ \in Nat
  BY HostFacts, LastFacts, ExpectedNextRange DEF HostInv
<1>5. /\ DOMAIN toRobot' = 1 .. Len(toRobot) - 1 /\ Len(toRobot') = Len(toRobot) - 1
      /\ \A p \in 1 .. Len(toRobot) - 1 :
           /\ p + 1 \in DOMAIN toRobot /\ toRobot'[p] = toRobot[p + 1]
           /\ 1 < p + 1 /\ 1 \in DOMAIN toRobot
      /\ \A p, q \in Nat : Free(p + 1, q + 1) => Free(p, q)'
      /\ \A p \in Nat : Free(p + 1, Len(toRobot) + 1) => Free(p, Len(toRobot) + 1)'
  BY <1>2, Shifted
\* Each line of the new queue is one of the old, a place further.
<1>6. ASSUME NEW p \in DOMAIN toRobot', Cmd(p)'
      PROVE  /\ p \in Nat /\ p + 1 \in DOMAIN toRobot /\ 1 < p + 1 /\ 1 \in DOMAIN toRobot
             /\ Cmd(p + 1) /\ Tag(p)' = Tag(p + 1) /\ Number(p)' = Number(p + 1)
             /\ Tag(p + 1) \in Nat /\ Number(p + 1) \in Nat
  <2>1. p \in 1 .. Len(toRobot) - 1
    BY <1>5
  <2>2. p + 1 \in DOMAIN toRobot /\ toRobot'[p] = toRobot[p + 1] /\ 1 < p + 1 /\ 1 \in DOMAIN toRobot
        /\ p \in Nat
    BY <1>1, <1>5, <2>1
  <2>3. Known(p + 1) /\ Cmd(p + 1)
    BY <1>6, <2>2, HostElements DEF Cmd
  <2>4. Tag(p + 1) \in Nat /\ Number(p + 1) \in Nat
    BY <2>3, HostFacts DEF Known, Cmd, Greeting
  <2> QED BY <2>2, <2>3, <2>4 DEF Tag, Number
<1>7. QueueInOrder'
  <2>1. ASSUME NEW p \in DOMAIN toRobot', NEW q \in DOMAIN toRobot', Cmd(p)', Cmd(q)', p < q
        PROVE  Tag(p)' < Tag(q)' \/ (Tag(p)' = Tag(q)' /\ Number(p)' = Number(q)' /\ Free(p, q)')
    <3>1. /\ p + 1 \in DOMAIN toRobot /\ Cmd(p + 1) /\ Tag(p)' = Tag(p + 1) /\ Number(p)' = Number(p + 1)
          /\ p \in Nat
      BY <1>6, <2>1
    <3>2. /\ q + 1 \in DOMAIN toRobot /\ Cmd(q + 1) /\ Tag(q)' = Tag(q + 1) /\ Number(q)' = Number(q + 1)
          /\ q \in Nat /\ p + 1 < q + 1
      BY <1>6, <2>1, <3>1
    <3>3. Tag(p + 1) < Tag(q + 1)
          \/ (Tag(p + 1) = Tag(q + 1) /\ Number(p + 1) = Number(q + 1) /\ Free(p + 1, q + 1))
      BY <3>1, <3>2 DEF Ordered, QueueInOrder
    <3> QED BY <1>5, <3>1, <3>2, <3>3
  <2> QED BY <2>1 DEF QueueInOrder
<1>8. ASSUME hpc = "await", NEW p \in DOMAIN toRobot', Cmd(p)', Tag(p)' = calls
      PROVE  Number(p)' = wire.id /\ Free(p, Len(toRobot) + 1)'
  <2>1. /\ p + 1 \in DOMAIN toRobot /\ Cmd(p + 1) /\ Tag(p)' = Tag(p + 1) /\ Number(p)' = Number(p + 1)
        /\ p \in Nat
    BY <1>6, <1>8
  <2>2. Number(p + 1) = wire.id /\ Free(p + 1, Len(toRobot) + 1)
    BY <1>8, <2>1 DEF Ordered, WireIsLatest
  <2>3. Free(p, Len(toRobot) + 1)'
    BY <1>5, <2>1, <2>2
  <2> QED BY <2>1, <2>2, <2>3
\* The line itself: a HELLO, one that does not run, or the next command.
<1>9. CASE Greets(toRobot[1]) /\ trace' = trace
  <2>1. Greeting(1) /\ Last' = Last /\ 1 \in DOMAIN toRobot
    BY <1>1, <1>9 DEF Greets, Greeting, Last
  <2>2. \A q \in Nat : 1 < q => ~Free(0, q)
    BY <2>1 DEF Free
  <2>3. ASSUME NEW p \in DOMAIN toRobot', Cmd(p)'
        PROVE  Tag(p)' > Last'
    <3>1. /\ p + 1 \in DOMAIN toRobot /\ 1 < p + 1 /\ Cmd(p + 1) /\ Tag(p)' = Tag(p + 1) /\ p + 1 \in Nat
      BY <1>6, <2>3
    <3>2. Tag(p + 1) > Last \/ Free(0, p + 1)
      BY <3>1 DEF Ordered, QueueIsAhead
    <3> QED BY <2>1, <2>2, <3>1, <3>2
  <2>4. hpc = "await" => Last # calls
    <3>1. 1 < Len(toRobot) + 1 /\ Len(toRobot) + 1 \in Nat
      BY <1>1
    <3> QED BY <2>2, <3>1 DEF Ordered, WireIsLatest
  <2>5. QueueIsAhead' /\ WireIsLatest' /\ Ascends'
    BY <1>3, <1>8, <1>9, <2>1, <2>3, <2>4 DEF QueueIsAhead, WireIsLatest, Ascends, Ordered
  <2> QED BY <1>7, <2>5 DEF Ordered
<1>10. CASE Turns(toRobot[1]) /\ trace' = trace
  <2>1. Last' = Last /\ expectedNext_' = expectedNext_
    BY <1>10 DEF Turns, Last
  <2>2. ASSUME NEW p \in DOMAIN toRobot', Cmd(p)'
        PROVE  Tag(p)' > Last \/ (Tag(p)' = Last /\ Number(p)' < expectedNext_ /\ Free(0, p)')
    <3>1. /\ p + 1 \in DOMAIN toRobot /\ Cmd(p + 1) /\ Tag(p)' = Tag(p + 1) /\ Number(p)' = Number(p + 1)
          /\ p \in Nat
      BY <1>6, <2>2
    <3>2. Tag(p + 1) > Last \/ (Tag(p + 1) = Last /\ Number(p + 1) < expectedNext_ /\ Free(0, p + 1))
      BY <3>1 DEF Ordered, QueueIsAhead
    <3>3. Free(0, p + 1) => Free(0, p)'
      <4>1. Free(0, p + 1) => Free(0 + 1, p + 1)
        BY <1>1 DEF Free
      <4> QED BY <1>5, <3>1, <4>1
    <3> QED BY <3>1, <3>2, <3>3
  <2>3. hpc = "await" /\ Last = calls => wire.id < expectedNext_ /\ Free(0, Len(toRobot) + 1)'
    <3>1. Free(0, Len(toRobot) + 1) => Free(0 + 1, Len(toRobot) + 1)
      BY <1>1 DEF Free
    <3>2. Free(0, Len(toRobot) + 1) => Free(0, Len(toRobot) + 1)'
      BY <1>5, <3>1
    <3> QED BY <3>2 DEF Ordered, WireIsLatest
  <2>4. QueueIsAhead'
    BY <2>1, <2>2 DEF QueueIsAhead
  <2>5. WireIsLatest' /\ Ascends'
    BY <1>3, <1>8, <1>10, <2>1, <2>3 DEF WireIsLatest, Ascends, Ordered
  <2> QED BY <1>7, <2>4, <2>5 DEF Ordered
<1>11. CASE Runs(toRobot[1]) /\ trace' = Append(trace, Tag(1))
  <2>1. Cmd(1) /\ 1 \in DOMAIN toRobot /\ Number(1) = expectedNext_ /\ expectedNext_' = Number(1) + 1
        /\ Tag(1) \in 1 .. calls /\ Tag(1) \in 1 .. MaxCalls
    <3>1. Cmd(1) /\ 1 \in DOMAIN toRobot /\ Number(1) = expectedNext_ /\ expectedNext_' = Number(1) + 1
      BY <1>1, <1>11 DEF Runs, Cmd, Number
    <3>2. Tag(1) \in 1 .. calls /\ calls \in 0 .. MaxCalls
      BY <3>1, HostElements DEF Known, Cmd, Greeting, HostInv, SessionTypeOK
    <3> QED BY <1>4, <3>1, <3>2, HostFacts
  <2>2. Tag(1) > Last
    BY <1>4, <2>1 DEF Ordered, QueueIsAhead
  <2>3. /\ trace' \in Seq(0 .. MaxCalls) /\ Len(trace') = Len(trace) + 1
        /\ DOMAIN trace' = 1 .. Len(trace) + 1
        /\ \A n \in 1 .. Len(trace) : trace'[n] = trace[n]
        /\ trace'[Len(trace) + 1] = Tag(1)
    BY <1>11, <2>1, HostFacts, AppendProperties
  <2>4. Last' = Tag(1)
    <3>1. trace' # <<>> /\ trace'[Len(trace')] = Tag(1)
      BY <2>3, HostFacts
    <3> QED BY <3>1 DEF Last
  <2>5. Ascends'
    <3>1. ASSUME NEW m \in DOMAIN trace', NEW n \in DOMAIN trace', m < n
          PROVE  trace'[m] < trace'[n]
      <4>0. Len(trace) \in Nat
        BY HostFacts
      <4>1. m \in 1 .. Len(trace) /\ m \in DOMAIN trace /\ (n \in 1 .. Len(trace) \/ n = Len(trace) + 1)
        BY <2>3, <3>1, <4>0, HostElements
      <4>2. CASE n \in 1 .. Len(trace)
        BY <2>3, <3>1, <4>1, <4>2, HostElements DEF Ordered, Ascends
      <4>3. CASE n = Len(trace) + 1
        <5>1. trace[m] \in Nat /\ trace[m] <= Last
          BY <4>1, HostElements, LastFacts DEF Ordered
        <5> QED BY <1>4, <2>1, <2>2, <2>3, <4>1, <4>3, <5>1
      <4> QED BY <4>1, <4>2, <4>3
    <3> QED BY <3>1 DEF Ascends
  <2>6. ASSUME NEW p \in DOMAIN toRobot', Cmd(p)'
        PROVE  Tag(p)' > Tag(1) \/ (Tag(p)' = Tag(1) /\ Number(p)' < expectedNext_' /\ Free(0, p)')
    <3>1. /\ p + 1 \in DOMAIN toRobot /\ Cmd(p + 1) /\ Tag(p)' = Tag(p + 1) /\ Number(p)' = Number(p + 1)
          /\ p \in Nat /\ 1 < p + 1 /\ Tag(p + 1) \in Nat
      BY <1>6, <2>6
    <3>2. Tag(1) < Tag(p + 1) \/ (Tag(1) = Tag(p + 1) /\ Number(1) = Number(p + 1) /\ Free(1, p + 1))
      BY <2>1, <3>1 DEF Ordered, QueueInOrder
    <3>3. Free(1, p + 1) => Free(0, p)'
      <4>1. Free(1, p + 1) => Free(0 + 1, p + 1)
        OBVIOUS
      <4> QED BY <1>5, <3>1, <4>1
    <3> QED BY <1>4, <2>1, <3>1, <3>2, <3>3
  <2>7. hpc = "await" /\ Tag(1) = calls => wire.id < expectedNext_' /\ Free(0, Len(toRobot) + 1)'
    <3>1. hpc = "await" /\ Tag(1) = calls => Number(1) = wire.id /\ Free(1, Len(toRobot) + 1)
      BY <2>1 DEF Ordered, WireIsLatest
    <3>2. Free(1, Len(toRobot) + 1) => Free(0 + 1, Len(toRobot) + 1)
      OBVIOUS
    <3>3. Free(1, Len(toRobot) + 1) => Free(0, Len(toRobot) + 1)'
      BY <1>5, <3>2
    <3> QED BY <1>4, <2>1, <3>1, <3>3
  <2>8. QueueIsAhead'
    BY <2>4, <2>6 DEF QueueIsAhead
  <2>9. WireIsLatest'
    BY <1>3, <1>8, <2>4, <2>7 DEF WireIsLatest
  <2> QED BY <1>7, <2>5, <2>8, <2>9 DEF Ordered
<1> QED BY <1>2, <1>9, <1>10, <1>11 DEF Taken

LEMMA OrderSteps == HostInv /\ OrderInv /\ [Next]_vars => OrderInv'
<1> SUFFICES ASSUME HostInv, OrderInv, [Next]_vars, Solo' PROVE Ordered'
  BY DEF OrderInv
<1>1. Solo
  BY DEF Solo, Next, OpenLink, Call, HostWindow, Deliver, DeliverNext, DeliverAny, AnothersHello, AnothersCommand, vars
<1>2. Ordered
  BY <1>1 DEF OrderInv
<1>3. CASE UNCHANGED vars
  <2>1. Last' = Last /\ \A p, q : Free(p, q)' = Free(p, q)
    BY <1>3 DEF Last, Free, Greeting, vars, channelVars
  <2> QED BY <1>2, <1>3, <2>1
      DEF Ordered, QueueInOrder, QueueIsAhead, WireIsLatest, Ascends, Cmd, Tag, Number, vars,
          handlerVars, channelVars, hostVars
<1>4. CASE OpenLink
  BY <1>2, <1>4, OrderedOpenLink
<1>5. CASE Call
  BY <1>2, <1>5, OrderedCall
<1>6. ASSUME NEW k \in 0 .. Len(toHost), HostWindow(k)
      PROVE  Ordered'
  <2>1. SessionTypeOK
    BY DEF HostInv
  <2>2. CASE hpc \in {"hello", "await"} /\ Resend
    BY <1>2, <1>6, <2>2, OrderedResend
  <2>3. CASE \/ \E own \in BOOLEAN : HelloReturns(own)
             \/ \E verdict \in {"ack", "err", "none"} : CallReturns(verdict)
    BY <1>2, <1>6, <2>3, OrderedReturn
  <2> QED BY <1>6, <2>1, <2>2, <2>3, Reads
<1>7. ASSUME NEW i \in 1 .. Len(toRobot), NEW kept, Deliver(i, kept), i = 1 \/ carrier.reorders
      PROVE  Ordered'
  <2>1. i = 1 /\ Len(toRobot) >= 1
    BY <1>1, <1>7, HostFacts DEF Solo
  <2> QED BY <1>2, <1>7, <2>1, OrderedDeliver
<1>8. ~AnothersHello /\ \A line : ~AnothersCommand(line)
  BY <1>1 DEF AnothersHello, AnothersCommand, Solo
<1> QED BY <1>3, <1>4, <1>5, <1>6, <1>7, <1>8, StepCases

LEMMA OrderStarts == Init => OrderInv
<1> SUFFICES ASSUME Init PROVE Ordered
  BY DEF OrderInv
<1>1. toRobot = <<>> /\ trace = <<>> /\ hpc = "closed"
  BY DEF Init
<1> QED BY <1>1 DEF Ordered, QueueInOrder, QueueIsAhead, WireIsLatest, Ascends

(* On a carrier with one client that keeps order, at every moment: the     *)
(* commands on their way to the robot stand in the order of their issue,   *)
(* none of them is older than what the robot ran last, the one the host    *)
(* still sends again is the latest, and what ran so far ran in order.      *)
THEOREM OrderInvariance == Spec => []OrderInv
BY HostInvariance, OrderStarts, OrderSteps, PTL DEF Spec

(* Over all sessions, resends, losses and killed hosts, the robot runs the *)
(* host's commands in the order they were issued and none twice, on every  *)
(* carrier that keeps order and has one client.                            *)
THEOREM RunsInIssueOrderHolds == Spec => []RunsInIssueOrder
<1>1. OrderInv => RunsInIssueOrder
  BY DEF OrderInv, Ordered, Ascends, Solo, RunsInIssueOrder
<1> QED BY <1>1, OrderInvariance, PTL
-----------------------------------------------------------------------------
(* Why an ack is a receipt and no leg is skipped.  A host that has read the *)
(* banner of its own HELLO is on course: from there on a command's id and  *)
(* its place in the order of issue differ by a constant, in the queue, in  *)
(* the handler's list and in the acks on their way.  On a carrier that     *)
(* reorders this needs that no line of an earlier session is on its way.   *)
Fifo == ~carrier.reorders
Unmixed == carrier.reorders => session <= 1
Course == calls - seq

QueueOnCourse    == \A p \in DOMAIN toRobot : Cmd(p) => Tag(p) - Number(p) = Course
AcceptedOnCourse == \A i \in DOMAIN accepted : accepted[i].tag - i = Course
AcksOnCourse     == \A i \in DOMAIN toHost : toHost[i].kind = "ack" => Executed(Course + toHost[i].n)

\* Once the handler took the HELLO of this session, its list is empty, but for
\* what another client sent, and no command is on its way, until the host
\* reads the banner; nor is an ack behind that banner.
OwnBannerAt(i) == toHost[i].kind = "device" /\ toHost[i].of = session
OwnHelloTaken == robotSession = session \/ \E i \in DOMAIN toHost : OwnBannerAt(i)
FreshStart ==
  hpc = "hello" /\ OwnHelloTaken =>
    (rivals \/ accepted = <<>>) /\ \A p \in DOMAIN toRobot : ~Cmd(p)
NoAckBehindBanner ==
  hpc = "hello" => \A i, j \in DOMAIN toHost : i < j /\ OwnBannerAt(i) => toHost[j].kind # "ack"
NoCommandBehindHello ==
  hpc = "hello" /\ Fifo =>
    \A p, q \in DOMAIN toRobot : p < q /\ Greeting(p) /\ Tag(p) = session => ~Cmd(q)
FirstSession ==
  session <= 1 => (hpc = "hello" => calls = 0) /\ (~ownBanner => trusted = {})

\* Of later sessions, on a carrier that keeps order: trusted commands keep
\* the offset of what the handler runs before them.
NextFollows ==
  Fifo => \A p \in DOMAIN toRobot :
            Cmd(p) /\ Tag(p) \in trusted /\ Free(0, p) =>
              \A i \in DOMAIN accepted : accepted[i].tag - i = Tag(p) - Number(p)
QueueFollows ==
  Fifo => \A p, q \in DOMAIN toRobot :
            p < q /\ Cmd(p) /\ Cmd(q) /\ Tag(q) \in trusted /\ Free(p, q) =>
              Tag(p) - Number(p) = Tag(q) - Number(q)

Receipts == \A c \in trusted : result[c] = "ack" => Executed(c)
NoSkips  == \A i, j \in DOMAIN accepted :
              i < j /\ accepted[j].tag \in trusted => accepted[j].tag - accepted[i].tag = j - i

Trust ==
  /\ ownBanner => QueueOnCourse /\ AcceptedOnCourse /\ AcksOnCourse
  /\ FreshStart /\ NoAckBehindBanner /\ NoCommandBehindHello /\ FirstSession
  /\ NextFollows /\ QueueFollows
  /\ Receipts /\ NoSkips
TrustInv == Unmixed => Trust

\* What a delivery does to the handler's list and to the list of all sessions.
LEMMA Grows ==
  ASSUME HostInv, NEW i \in 1 .. Len(toRobot), Taken(i)
  PROVE  /\ \/ /\ Greets(toRobot[i]) /\ Greeting(i) /\ accepted' = <<>>
               /\ robotSession' = Tag(i)
            \/ /\ Turns(toRobot[i]) /\ Cmd(i) /\ accepted' = accepted
               /\ robotSession' = robotSession
            \/ /\ Runs(toRobot[i]) /\ Cmd(i) /\ Number(i) = Len(accepted) + 1
               /\ DOMAIN accepted' = 1 .. Len(accepted) + 1
               /\ \A n \in 1 .. Len(accepted) : accepted'[n] = accepted[n]
               /\ accepted'[Len(accepted) + 1].tag = Tag(i)
               /\ robotSession' = robotSession
         /\ \A c : Executed(c) => Executed(c)'
<1>1. Known(i) /\ toRobot[i] \in Lines /\ trace \in Seq(0 .. MaxCalls) /\ Len(trace) \in Nat
      /\ DOMAIN trace = 1 .. Len(trace)
  BY HostFacts, HostElements
<1>2. CASE Greets(toRobot[i]) /\ trace' = trace /\ robotSession' = Tag(i)
  BY <1>2 DEF Greets, Greeting, Executed
<1>3. CASE Turns(toRobot[i]) /\ trace' = trace /\ robotSession' = robotSession
  BY <1>3 DEF Turns, Cmd, Executed
<1>4. CASE Runs(toRobot[i]) /\ trace' = Append(trace, Tag(i)) /\ robotSession' = robotSession
  <2>1. Cmd(i) /\ Number(i) = Len(accepted) + 1
    BY <1>4 DEF Runs, Cmd, Number
  <2>2. [id |-> toRobot[i].id, tag |-> toRobot[i].tag] \in [id : Ids, tag : Tags]
    BY <1>1, <1>4, ExpectedNextRange DEF Runs, Lines, HostInv
  <2>3. /\ DOMAIN accepted' = 1 .. Len(accepted) + 1
        /\ \A n \in 1 .. Len(accepted) : accepted'[n] = accepted[n]
        /\ accepted'[Len(accepted) + 1].tag = Tag(i)
    BY <1>4, <2>2, HostFacts, AppendProperties DEF Runs, Tag
  <2>4. Tag(i) \in 1 .. MaxCalls
    <3>1. Tag(i) \in 1 .. calls /\ calls \in 0 .. MaxCalls
      BY <1>1, <2>1 DEF Known, Greeting, Cmd, HostInv, SessionTypeOK
    <3> QED BY <3>1, HostFacts
  <2>5. DOMAIN trace' = 1 .. Len(trace) + 1 /\ \A n \in 1 .. Len(trace) : trace'[n] = trace[n]
    BY <1>1, <1>4, <2>4, AppendProperties
  <2>6. ASSUME NEW c, Executed(c)
        PROVE  Executed(c)'
    <3>1. PICK m \in 1 .. Len(trace) : trace[m] = c
      BY <1>1, <2>6 DEF Executed
    <3>2. m \in DOMAIN trace' /\ trace'[m] = c
      BY <1>1, <2>5, <3>1
    <3> QED BY <3>2 DEF Executed
  <2> QED BY <1>4, <2>1, <2>3, <2>6
<1> QED BY <1>2, <1>3, <1>4 DEF Taken

\* Where a line of the queue stood before line i was taken.
Before(p, i) == IF p < i THEN p ELSE p + 1

LEMMA Stood ==
  ASSUME HostInv, NEW i \in 1 .. Len(toRobot), Taken(i)
  PROVE  /\ \A p \in DOMAIN toRobot' : /\ p \in Nat /\ Before(p, i) \in DOMAIN toRobot /\ Before(p, i) # i
                                       /\ toRobot'[p] = toRobot[Before(p, i)]
         /\ \A p, q \in Nat : p < q => Before(p, i) < Before(q, i)
<1>1. Len(toRobot) \in Nat /\ DOMAIN toRobot = 1 .. Len(toRobot)
  BY HostFacts, HostElements
<1>2. /\ DOMAIN toRobot' = 1 .. Len(toRobot) - 1
      /\ \A p \in 1 .. Len(toRobot) - 1 : toRobot'[p] = IF p < i THEN toRobot[p] ELSE toRobot[p + 1]
  BY DEF Taken
<1>3. ASSUME NEW p \in 1 .. Len(toRobot) - 1
      PROVE  /\ p \in Nat /\ Before(p, i) \in DOMAIN toRobot /\ Before(p, i) # i
             /\ toRobot'[p] = toRobot[Before(p, i)]
  BY <1>1, <1>2 DEF Before
<1>4. \A p, q \in Nat : p < q => Before(p, i) < Before(q, i)
  BY <1>1 DEF Before
<1> QED BY <1>2, <1>3, <1>4

\* The lines on their way to the host: the old ones, and true answers.
LEMMA Replied ==
  ASSUME HostInv, NEW i \in 1 .. Len(toRobot), NEW kept, Deliver(i, kept), NEW p \in DOMAIN toHost'
  PROVE  \/ p \in DOMAIN toHost /\ toHost'[p] = toHost[p]
         \/ /\ p \notin DOMAIN toHost /\ \A j \in DOMAIN toHost : j < p
            /\ toHost'[p].of = robotSession'
            /\ toHost'[p].kind = "ack" => toHost'[p].n \in DOMAIN accepted'
            /\ Greeting(i) => toHost'[p].kind = "device"
            /\ Cmd(i) => toHost'[p].kind # "device"
<1>1. Taken(i) /\ Answer
  BY Takes, Hears
<1>2. Len(toHost) \in Nat /\ DOMAIN toHost = 1 .. Len(toHost)
  BY HostFacts, HostElements
<1>3. DOMAIN toHost' = 1 .. Len(toHost') /\ Len(toHost') \in Nat
  BY <1>1 DEF Answer
<1>4. CASE p \in 1 .. Len(toHost)
  BY <1>1, <1>2, <1>4 DEF Answer
<1>5. CASE p \notin 1 .. Len(toHost)
  <2>1. p \in Len(toHost) + 1 .. Len(toHost') /\ \A j \in DOMAIN toHost : j < p
    BY <1>2, <1>3, <1>5
  <2>2. PICK j \in DOMAIN replies' : toHost'[p] = Stamp(replies'[j])
    BY <1>1, <2>1 DEF Answer
  <2>3. toHost'[p].of = robotSession' /\ toHost'[p].kind = replies'[j].kind /\ toHost'[p].n = replies'[j].n
    BY <2>2 DEF Stamp
  <2>4. replies'[j].kind = "ack" => replies'[j].n \in DOMAIN accepted'
    BY <1>1 DEF Taken, Inv, ReceiptsAreTrue
  <2>5. (Greeting(i) => replies'[j].kind = "device") /\ (Cmd(i) => replies'[j].kind # "device")
    BY <1>1 DEF Taken, Greets, Turns, Runs, Answered, Greeting, Cmd
  <2> QED BY <1>2, <1>5, <2>1, <2>3, <2>4, <2>5
<1> QED BY <1>4, <1>5

LEMMA TrustTypes ==
  ASSUME HostInv
  PROVE  /\ \A p \in DOMAIN toRobot : Cmd(p) => /\ Tag(p) \in 1 .. calls /\ Tag(p) \in Nat
                                             /\ Number(p) \in Nat /\ ~Greeting(p)
         /\ \A i \in DOMAIN accepted : /\ accepted[i].tag \in 0 .. calls /\ accepted[i].tag \in Nat
                                       /\ i \in Nat
         /\ trusted \subseteq 1 .. calls
<1>1. calls \in Nat /\ MaxCalls \in Nat /\ DOMAIN accepted = 1 .. Len(accepted) /\ Len(accepted) \in Nat
  BY HostFacts, HostElements
<1>2. ASSUME NEW p \in DOMAIN toRobot, Cmd(p)
      PROVE  Tag(p) \in 1 .. calls /\ Tag(p) \in Nat /\ Number(p) \in Nat /\ ~Greeting(p)
  <2>1. Tag(p) \in 1 .. calls /\ Number(p) \in 1 .. MaxCalls /\ ~Greeting(p)
    BY <1>2, HostElements DEF Known, Cmd, Greeting
  <2> QED BY <1>1, <2>1
<1>3. ASSUME NEW i \in DOMAIN accepted
      PROVE  accepted[i].tag \in 0 .. calls /\ accepted[i].tag \in Nat /\ i \in Nat
  <2>1. PICK m \in DOMAIN trace : trace[m] = accepted[i].tag
    BY DEF HostInv, Executed
  <2>2. trace[m] \in 0 .. MaxCalls /\ trace[m] <= calls
    BY <2>1, HostElements
  <2> QED BY <1>1, <2>1, <2>2
<1> QED BY <1>2, <1>3 DEF HostInv

LEMMA FollowsSend ==
  ASSUME HostInv, NextFollows, QueueFollows, NEW line, Queued(line), UNCHANGED <<carrier, accepted>>,
         trusted' \cap 1 .. calls \subseteq trusted,
         \/ line.verb = "HELLO"
         \/ /\ line.verb = "COMMAND"
            /\ line.tag \in trusted' =>
                 QueueOnCourse /\ AcceptedOnCourse /\ line.tag - line.id = Course
  PROVE  NextFollows' /\ QueueFollows'
<1>1. Len(toRobot) \in Nat /\ DOMAIN toRobot = 1 .. Len(toRobot)
  BY HostFacts, HostElements
\* Where a queued command stood: as before, or it is the new one.
<1>2. ASSUME NEW p \in DOMAIN toRobot', Cmd(p)'
      PROVE  \/ /\ p \in DOMAIN toRobot /\ p \in 1 .. Len(toRobot) /\ toRobot'[p] = toRobot[p] /\ Cmd(p)
                /\ Tag(p)' = Tag(p) /\ Number(p)' = Number(p) /\ (Tag(p) \in trusted' => Tag(p) \in trusted)
             \/ /\ p = Len(toRobot) + 1 /\ line.verb = "COMMAND"
                /\ Tag(p)' = line.tag /\ Number(p)' = line.id
  <2>1. CASE p \in 1 .. Len(toRobot) /\ toRobot'[p] = toRobot[p]
    <3>1. Cmd(p) /\ Tag(p)' = Tag(p) /\ Number(p)' = Number(p) /\ p \in DOMAIN toRobot
      BY <1>1, <1>2, <2>1 DEF Cmd, Tag, Number
    <3>2. Tag(p) \in 1 .. calls
      BY <3>1, TrustTypes
    <3> QED BY <2>1, <3>1, <3>2
  <2>2. CASE p = Len(toRobot) + 1 /\ toRobot'[p] = line
    BY <1>2, <2>2 DEF Cmd, Tag, Number
  <2> QED BY <2>1, <2>2, QueuedLine
<1>3. ASSUME NEW p, NEW q, Free(p, q)'
      PROVE  Free(p, q)
  <2>1. ASSUME NEW m \in DOMAIN toRobot, p < m, m < q
        PROVE  toRobot[m].verb # "HELLO"
    <3>1. m \in DOMAIN toRobot' /\ toRobot'[m] = toRobot[m]
      BY <1>1, QueuedLine
    <3> QED BY <1>3, <2>1, <3>1 DEF Free, Greeting
  <2> QED BY <2>1 DEF Free, Greeting
<1>4. ASSUME Fifo, NEW p \in DOMAIN toRobot', Cmd(p)', Tag(p)' \in trusted', Free(0, p)',
             NEW i \in DOMAIN accepted
      PROVE  accepted[i].tag - i = Tag(p)' - Number(p)'
  <2>1. Free(0, p)
    BY <1>3, <1>4
  <2>2. CASE p \in DOMAIN toRobot /\ Cmd(p) /\ Tag(p)' = Tag(p) /\ Number(p)' = Number(p)
             /\ Tag(p) \in trusted
    BY <1>4, <2>1, <2>2 DEF NextFollows
  <2>3. CASE line.verb = "COMMAND" /\ Tag(p)' = line.tag /\ Number(p)' = line.id
    BY <1>4, <2>3 DEF AcceptedOnCourse
  <2> QED BY <1>2, <1>4, <2>2, <2>3
<1>5. ASSUME Fifo, NEW p \in DOMAIN toRobot', NEW q \in DOMAIN toRobot', p < q, Cmd(p)', Cmd(q)',
             Tag(q)' \in trusted', Free(p, q)'
      PROVE  Tag(p)' - Number(p)' = Tag(q)' - Number(q)'
  <2>1. p \in DOMAIN toRobot /\ Cmd(p) /\ Tag(p)' = Tag(p) /\ Number(p)' = Number(p)
    <3>1. p # Len(toRobot) + 1
      <4>1. q \in 1 .. Len(toRobot) + 1
        BY <1>1, QueuedLine
      <4>2. p \in 1 .. Len(toRobot) + 1
        BY <1>1, QueuedLine
      <4> QED BY <1>1, <1>5, <4>1, <4>2
    <3> QED BY <1>2, <1>5, <3>1
  <2>2. Free(p, q)
    BY <1>3, <1>5
  <2>3. CASE q \in DOMAIN toRobot /\ Cmd(q) /\ Tag(q)' = Tag(q) /\ Number(q)' = Number(q)
             /\ Tag(q) \in trusted
    BY <1>5, <2>1, <2>2, <2>3 DEF QueueFollows
  <2>4. CASE line.verb = "COMMAND" /\ Tag(q)' = line.tag /\ Number(q)' = line.id
    <3>1. QueueOnCourse /\ line.tag - line.id = Course
      BY <1>5, <2>4
    <3>2. Tag(p) - Number(p) = Course
      BY <2>1, <3>1 DEF QueueOnCourse
    <3> QED BY <2>1, <2>4, <3>1, <3>2
  <2> QED BY <1>2, <1>5, <2>3, <2>4
<1>6. NextFollows'
  BY <1>4 DEF NextFollows, Fifo
<1>7. QueueFollows'
  BY <1>5 DEF QueueFollows, Fifo
<1> QED BY <1>6, <1>7

LEMMA TrustOpenLink ==
  ASSUME HostInv, Trust, OpenLink
  PROVE  Trust'
<1>1. Queued(HelloLine(session + 1)) /\ HelloLine(session + 1).verb = "HELLO"
      /\ HelloLine(session + 1).tag = session + 1
  BY OpenLinkKeeps DEF HelloLine
<1>2. /\ UNCHANGED <<carrier, accepted, trace, toHost, robotSession, calls, result, trusted>>
      /\ session' = session + 1 /\ hpc' = "hello" /\ ownBanner' = FALSE
  BY DEF OpenLink, robotVars
<1>3. session \in Nat /\ robotSession \in Nat /\ robotSession <= session
      /\ \A i \in DOMAIN toHost : toHost[i].of \in Nat /\ toHost[i].of <= session
  BY HostFacts, HostElements
<1>4. NextFollows' /\ QueueFollows'
  <2>1. trusted' \cap 1 .. calls \subseteq trusted
    BY <1>2
  <2> QED BY <1>1, <1>2, <2>1, FollowsSend DEF Trust
<1>5. ~OwnHelloTaken' /\ \A i \in DOMAIN toHost' : ~OwnBannerAt(i)'
  <2>1. \A i \in DOMAIN toHost' : ~OwnBannerAt(i)'
    BY <1>2, <1>3 DEF OwnBannerAt
  <2> QED BY <1>2, <1>3, <2>1 DEF OwnHelloTaken
<1>6. FreshStart' /\ NoAckBehindBanner'
  BY <1>5 DEF FreshStart, NoAckBehindBanner
<1>7. NoCommandBehindHello'
  <2>1. ASSUME NEW p \in DOMAIN toRobot', NEW q \in DOMAIN toRobot', p < q, Greeting(p)', Tag(p)' = session'
        PROVE  ~Cmd(q)'
    <3>0. Len(toRobot) \in Nat
      BY HostFacts
    <3>1. p \in 1 .. Len(toRobot) + 1 /\ q \in 1 .. Len(toRobot) + 1
      BY <1>1, <3>0, QueuedLine
    <3>2. p \in 1 .. Len(toRobot) /\ toRobot'[p] = toRobot[p] /\ p \in DOMAIN toRobot
      BY <1>1, <2>1, <3>0, <3>1, QueuedLine
    <3>3. Tag(p) \in 1 .. session
      <4>1. Greeting(p)
        BY <2>1, <3>2 DEF Greeting
      <4> QED BY <3>2, <4>1, HostElements DEF Known, Cmd, Greeting
    <3> QED BY <1>2, <1>3, <2>1, <3>2, <3>3 DEF Tag
  <2> QED BY <2>1 DEF NoCommandBehindHello
<1>8. FirstSession'
  <2>1. session' <= 1 => calls = 0 /\ trusted = {}
    <3>1. session' <= 1 => session = 0
      BY <1>2, <1>3
    <3>2. session = 0 => calls = 0
      BY DEF HostInv, Phases
    <3>3. calls = 0 => trusted = {}
      BY TrustTypes
    <3> QED BY <3>1, <3>2, <3>3
  <2> QED BY <1>2, <2>1 DEF FirstSession
<1>9. Receipts' /\ NoSkips'
  BY <1>2 DEF Trust, Receipts, NoSkips, Executed
<1> QED BY <1>2, <1>4, <1>6, <1>7, <1>8, <1>9 DEF Trust

LEMMA TrustCall ==
  ASSUME HostInv, Trust, Call
  PROVE  Trust'
<1>1. PICK d \in CallDecodes : /\ wire' = Command(seq + 1, calls + 1, d)
                             /\ Queued(Command(seq + 1, calls + 1, d))
  BY CallKeeps
<1> DEFINE line == Command(seq + 1, calls + 1, d)
<1>2. line.verb = "COMMAND" /\ line.tag = calls + 1 /\ line.id = seq + 1 /\ Queued(line)
  BY <1>1 DEF Command
<1>3. /\ UNCHANGED <<carrier, accepted, trace, toHost, session, ownBanner>>
      /\ calls' = calls + 1 /\ seq' = seq + 1 /\ hpc' = "await" /\ hpc = "idle" /\ calls < MaxCalls
      /\ trusted' = IF ownBanner THEN trusted \cup {calls + 1} ELSE trusted
      /\ result' = [result EXCEPT ![calls + 1] = "pending"]
  BY DEF Call, robotVars
<1> HIDE DEF line
<1>4. calls \in Nat /\ seq \in Nat /\ MaxCalls \in Nat /\ Course' = Course /\ line.tag - line.id = Course
  <2>1. calls \in Nat /\ seq \in Nat /\ MaxCalls \in Nat
    BY HostFacts
  <2> QED BY <1>2, <1>3, <2>1 DEF Course
<1>5. calls + 1 \notin trusted /\ calls + 1 \in 1 .. MaxCalls /\ trusted' \subseteq trusted \cup {calls + 1}
      /\ trusted \subseteq 1 .. calls
  BY <1>3, <1>4, TrustTypes
<1>6. NextFollows' /\ QueueFollows'
  <2>1. trusted' \cap 1 .. calls \subseteq trusted
    BY <1>4, <1>5
  <2>2. line.tag \in trusted' => QueueOnCourse /\ AcceptedOnCourse /\ line.tag - line.id = Course
    BY <1>2, <1>3, <1>4, <1>5 DEF Trust
  <2> QED BY <1>2, <1>3, <2>1, <2>2, FollowsSend DEF Trust
<1>7. ASSUME ownBanner
      PROVE  QueueOnCourse' /\ AcceptedOnCourse' /\ AcksOnCourse'
  <2>1. QueueOnCourse'
    <3>1. ASSUME NEW p \in DOMAIN toRobot', Cmd(p)'
          PROVE  Tag(p)' - Number(p)' = Course
      <4>1. CASE p \in 1 .. Len(toRobot) /\ toRobot'[p] = toRobot[p]
        <5>1. p \in DOMAIN toRobot /\ Cmd(p)
          BY <1>2, <3>1, <4>1, QueuedLine DEF Cmd
        <5>2. Tag(p) - Number(p) = Course
          BY <1>7, <5>1 DEF Trust, QueueOnCourse
        <5> QED BY <4>1, <5>2 DEF Tag, Number
      <4>2. CASE toRobot'[p] = line
        BY <1>4, <4>2 DEF Tag, Number
      <4> QED BY <1>2, <4>1, <4>2, QueuedLine
    <3> QED BY <1>4, <3>1 DEF QueueOnCourse
  <2>2. AcceptedOnCourse'
    BY <1>3, <1>4, <1>7 DEF Trust, AcceptedOnCourse
  <2>3. AcksOnCourse'
    BY <1>3, <1>4, <1>7 DEF Trust, AcksOnCourse, Executed
  <2> QED BY <2>1, <2>2, <2>3
<1>8. FreshStart' /\ NoAckBehindBanner' /\ NoCommandBehindHello'
  BY <1>3 DEF FreshStart, NoAckBehindBanner, NoCommandBehindHello
<1>9. FirstSession'
  BY <1>3 DEF Trust, FirstSession
<1>10. Receipts'
  <2>1. result \in [1 .. MaxCalls -> {"unissued", "pending", "ack", "err", "none"}]
    BY DEF HostInv, SessionTypeOK
  <2>2. ASSUME NEW c \in trusted', result'[c] = "ack"
        PROVE  Executed(c)
    <3>1. c # calls + 1
      BY <1>3, <1>5, <2>1, <2>2
    <3>2. c \in trusted /\ result[c] = "ack"
      BY <1>3, <1>5, <2>1, <2>2, <3>1
    <3> QED BY <3>2 DEF Trust, Receipts
  <2> QED BY <1>3, <2>2 DEF Receipts, Executed
<1>11. NoSkips'
  <2>1. \A j \in DOMAIN accepted : accepted[j].tag \in trusted' => accepted[j].tag \in trusted
    BY <1>4, <1>5, TrustTypes
  <2> QED BY <1>3, <2>1 DEF Trust, NoSkips
<1> QED BY <1>3, <1>6, <1>7, <1>8, <1>9, <1>10, <1>11 DEF Trust

LEMMA TrustResend ==
  ASSUME HostInv, Trust, NEW k \in 0 .. Len(toHost), HostWindow(k), hpc \in {"hello", "await"}, Resend
  PROVE  Trust'
<1>1. Queued(wire)
  BY ResendKeeps
<1>2. /\ UNCHANGED <<hpc, seq, session, calls, result, rivals, ownBanner, trusted>>
      /\ UNCHANGED <<carrier, accepted, trace, robotSession>> /\ Course' = Course
  BY DEF Resend, HostWindow, robotVars, Course
<1>3. \A i \in DOMAIN toHost' : i + k \in DOMAIN toHost /\ toHost'[i] = toHost[i + k]
  BY WindowKeeps
<1>4. k \in Nat /\ DOMAIN toHost' \subseteq Nat
  <2>1. Len(toHost) \in Nat
    BY HostFacts
  <2>2. toHost' \in Seq(Incoming)
    BY WindowKeeps
  <2> QED BY <2>1, <2>2
<1>5. hpc = "hello" => wire.verb = "HELLO"
  BY DEF HostInv, Phases, HelloLine
<1>6. hpc = "await" => /\ wire.verb = "COMMAND" /\ wire.tag - wire.id = Course
                       /\ (wire.tag \in trusted => ownBanner)
  BY DEF HostInv, Phases, Course
<1>7. NextFollows' /\ QueueFollows'
  <2>1. trusted' \cap 1 .. calls \subseteq trusted
    BY <1>2
  <2>2. \/ wire.verb = "HELLO"
        \/ /\ wire.verb = "COMMAND"
           /\ wire.tag \in trusted' => QueueOnCourse /\ AcceptedOnCourse /\ wire.tag - wire.id = Course
    BY <1>2, <1>5, <1>6 DEF Trust
  <2> QED BY <1>1, <1>2, <2>1, <2>2, FollowsSend DEF Trust
<1>8. ASSUME ownBanner
      PROVE  QueueOnCourse' /\ AcceptedOnCourse' /\ AcksOnCourse'
  <2>0. hpc = "await"
    BY <1>8 DEF HostInv, Phases
  <2>1. QueueOnCourse'
    <3>1. ASSUME NEW p \in DOMAIN toRobot', Cmd(p)'
          PROVE  Tag(p)' - Number(p)' = Course
      <4>1. CASE p \in 1 .. Len(toRobot) /\ toRobot'[p] = toRobot[p]
        <5>1. p \in DOMAIN toRobot /\ Cmd(p)
          BY <1>1, <3>1, <4>1, QueuedLine DEF Cmd
        <5>2. Tag(p) - Number(p) = Course
          BY <1>8, <5>1 DEF Trust, QueueOnCourse
        <5> QED BY <4>1, <5>2 DEF Tag, Number
      <4>2. CASE toRobot'[p] = wire
        BY <1>6, <2>0, <4>2 DEF Tag, Number
      <4> QED BY <1>1, <4>1, <4>2, QueuedLine
    <3> QED BY <1>2, <3>1 DEF QueueOnCourse
  <2>2. AcceptedOnCourse'
    BY <1>2, <1>8 DEF Trust, AcceptedOnCourse
  <2>3. AcksOnCourse'
    BY <1>2, <1>3, <1>8 DEF Trust, AcksOnCourse, Executed
  <2> QED BY <2>1, <2>2, <2>3
<1>9. FreshStart'
  <2>1. ASSUME hpc = "hello", OwnHelloTaken'
        PROVE  (rivals \/ accepted = <<>>) /\ \A p \in DOMAIN toRobot' : ~Cmd(p)'
    <3>1. OwnHelloTaken
      BY <1>2, <1>3, <2>1 DEF OwnHelloTaken, OwnBannerAt
    <3>2. (rivals \/ accepted = <<>>) /\ \A p \in DOMAIN toRobot : ~Cmd(p)
      BY <2>1, <3>1 DEF Trust, FreshStart
    <3>3. ASSUME NEW p \in DOMAIN toRobot'
          PROVE  ~Cmd(p)'
      <4>1. CASE p \in 1 .. Len(toRobot) /\ toRobot'[p] = toRobot[p]
        BY <1>1, <3>2, <4>1, QueuedLine DEF Cmd
      <4>2. CASE toRobot'[p] = wire
        BY <1>5, <2>1, <4>2 DEF Cmd
      <4> QED BY <1>1, <4>1, <4>2, QueuedLine
    <3> QED BY <3>2, <3>3
  <2> QED BY <1>2, <2>1 DEF FreshStart
<1>10. NoAckBehindBanner'
  <2>1. ASSUME hpc = "hello", NEW i \in DOMAIN toHost', NEW j \in DOMAIN toHost', i < j, OwnBannerAt(i)'
        PROVE  toHost'[j].kind # "ack"
    <3>1. i + k < j + k
      BY <1>4, <2>1
    <3>2. OwnBannerAt(i + k)
      BY <1>2, <1>3, <2>1 DEF OwnBannerAt
    <3> QED BY <1>3, <2>1, <3>1, <3>2 DEF Trust, NoAckBehindBanner
  <2> QED BY <1>2, <2>1 DEF NoAckBehindBanner
<1>11. NoCommandBehindHello'
  <2>1. ASSUME hpc = "hello", Fifo, NEW p \in DOMAIN toRobot', NEW q \in DOMAIN toRobot', p < q,
               Greeting(p)', Tag(p)' = session
        PROVE  ~Cmd(q)'
    <3>0. Len(toRobot) \in Nat
      BY HostFacts
    <3>1. CASE toRobot'[q] = wire
      BY <1>5, <2>1, <3>1 DEF Cmd
    <3>2. CASE q \in 1 .. Len(toRobot) /\ toRobot'[q] = toRobot[q]
      <4>1. p \in 1 .. Len(toRobot) /\ toRobot'[p] = toRobot[p]
        BY <1>1, <2>1, <3>0, <3>2, QueuedLine
      <4>2. p \in DOMAIN toRobot /\ q \in DOMAIN toRobot /\ Greeting(p) /\ Tag(p) = session
        BY <1>1, <2>1, <3>2, <4>1, QueuedLine DEF Greeting, Tag
      <4>3. ~Cmd(q)
        BY <2>1, <4>2 DEF Trust, NoCommandBehindHello
      <4> QED BY <3>2, <4>3 DEF Cmd
    <3> QED BY <1>1, <3>1, <3>2, QueuedLine
  <2> QED BY <1>2, <2>1 DEF NoCommandBehindHello, Fifo
<1>12. FirstSession' /\ Receipts' /\ NoSkips'
  BY <1>2 DEF Trust, FirstSession, Receipts, NoSkips, Executed
<1> QED BY <1>2, <1>7, <1>8, <1>9, <1>10, <1>11, <1>12 DEF Trust

\* What any return leaves to the later lines: nothing queued, nothing run.
LEMMA ReturnLeaves ==
  ASSUME HostInv, Trust, NEW k \in 0 .. Len(toHost), HostWindow(k), hpc' = "idle",
         UNCHANGED <<session, calls, trusted, toRobot>>
  PROVE  /\ UNCHANGED <<carrier, accepted, trace, robotSession>>
         /\ NextFollows' /\ QueueFollows' /\ NoSkips'
         /\ FreshStart' /\ NoAckBehindBanner' /\ NoCommandBehindHello'
<1>1. UNCHANGED <<carrier, accepted, trace, robotSession>>
  BY DEF HostWindow, robotVars
<1>2. NextFollows' /\ QueueFollows'
  <2>1. \A p, q : Free(p, q)' = Free(p, q)
    BY DEF Free, Greeting
  <2> QED BY <1>1, <2>1 DEF Trust, NextFollows, QueueFollows, Fifo, Cmd, Tag, Number
<1>3. NoSkips'
  BY <1>1 DEF Trust, NoSkips
<1>4. FreshStart' /\ NoAckBehindBanner' /\ NoCommandBehindHello'
  BY DEF FreshStart, NoAckBehindBanner, NoCommandBehindHello
<1> QED BY <1>1, <1>2, <1>3, <1>4

LEMMA TrustHelloReturns ==
  ASSUME HostInv, Trust, NEW k \in 0 .. Len(toHost), HostWindow(k), hpc = "hello",
         NEW own \in BOOLEAN, HelloReturns(own),
         own => ~rivals /\ \E i \in 1 .. k : toHost[i].kind = "device" /\ toHost[i].of = session
  PROVE  Trust'
<1>1. /\ UNCHANGED <<session, calls, result, trusted, toRobot>>
      /\ hpc' = "idle" /\ seq' = 0 /\ ownBanner' = own
  BY DEF HelloReturns
<1>2. /\ UNCHANGED <<carrier, accepted, trace, robotSession>>
      /\ NextFollows' /\ QueueFollows' /\ NoSkips'
      /\ FreshStart' /\ NoAckBehindBanner' /\ NoCommandBehindHello'
  BY <1>1, ReturnLeaves
<1>3. ASSUME own
      PROVE  QueueOnCourse' /\ AcceptedOnCourse' /\ AcksOnCourse'
  <2>1. PICK i \in 1 .. k : toHost[i].kind = "device" /\ toHost[i].of = session
    BY <1>3
  <2>2. Len(toHost) \in Nat /\ DOMAIN toHost = 1 .. Len(toHost)
    BY HostFacts, HostElements
  <2>3. i \in DOMAIN toHost /\ OwnBannerAt(i)
    BY <2>1, <2>2 DEF OwnBannerAt
  <2>4. accepted = <<>> /\ \A p \in DOMAIN toRobot : ~Cmd(p)
    BY <1>3, <2>3 DEF Trust, FreshStart, OwnHelloTaken
  <2>5. ASSUME NEW j \in DOMAIN toHost'
        PROVE  toHost'[j].kind # "ack"
    <3>1. j + k \in DOMAIN toHost /\ toHost'[j] = toHost[j + k]
      BY WindowKeeps
    <3>2. j \in Nat /\ j >= 1
      <4>1. toHost' \in Seq(Incoming)
        BY WindowKeeps
      <4> QED BY <4>1
    <3>3. i < j + k
      BY <2>2, <3>2
    <3> QED BY <2>3, <3>1, <3>3 DEF Trust, NoAckBehindBanner
  <2> QED BY <1>1, <1>2, <2>4, <2>5 DEF QueueOnCourse, AcceptedOnCourse, AcksOnCourse, Cmd
<1>4. FirstSession' /\ Receipts'
  <2>1. ~ownBanner
    BY DEF HostInv, Phases
  <2> QED BY <1>1, <1>2, <2>1 DEF Trust, FirstSession, Receipts, Executed
<1> QED BY <1>1, <1>2, <1>3, <1>4 DEF Trust

LEMMA TrustCallReturns ==
  ASSUME HostInv, Trust, NEW k \in 0 .. Len(toHost), HostWindow(k), hpc = "await",
         NEW verdict \in {"ack", "err", "none"}, CallReturns(verdict),
         verdict = "ack" => \E i \in 1 .. k : toHost[i].kind = "ack" /\ toHost[i].n = seq
  PROVE  Trust'
<1>1. /\ UNCHANGED <<session, seq, calls, trusted, toRobot, ownBanner>>
      /\ hpc' = "idle" /\ result' = [result EXCEPT ![calls] = verdict]
  BY DEF CallReturns
<1>2. /\ UNCHANGED <<carrier, accepted, trace, robotSession>>
      /\ NextFollows' /\ QueueFollows' /\ NoSkips'
      /\ FreshStart' /\ NoAckBehindBanner' /\ NoCommandBehindHello'
  BY <1>1, ReturnLeaves
<1>3. ASSUME ownBanner
      PROVE  QueueOnCourse' /\ AcceptedOnCourse' /\ AcksOnCourse'
  <2>1. Course' = Course
    BY <1>1 DEF Course
  <2>2. QueueOnCourse' /\ AcceptedOnCourse'
    BY <1>1, <1>2, <1>3, <2>1 DEF Trust, QueueOnCourse, AcceptedOnCourse, Cmd, Tag, Number
  <2>3. AcksOnCourse'
    <3>1. \A j \in DOMAIN toHost' : j + k \in DOMAIN toHost /\ toHost'[j] = toHost[j + k]
      BY WindowKeeps
    <3> QED BY <1>2, <1>3, <2>1, <3>1 DEF Trust, AcksOnCourse, Executed
  <2> QED BY <2>2, <2>3
<1>4. FirstSession'
  BY <1>1 DEF Trust, FirstSession
<1>5. Receipts'
  <2>1. result \in [1 .. MaxCalls -> {"unissued", "pending", "ack", "err", "none"}]
    BY DEF HostInv, SessionTypeOK
  <2>2. ASSUME NEW c \in trusted, result'[c] = "ack"
        PROVE  Executed(c)
    <3>1. CASE c # calls
      <4>1. result[c] = "ack"
        <5>1. c \in 1 .. MaxCalls
          BY DEF HostInv, SessionTypeOK
        <5> QED BY <1>1, <2>1, <2>2, <3>1, <5>1
      <4> QED BY <4>1 DEF Trust, Receipts
    <3>2. CASE c = calls
      <4>1. ownBanner /\ c \in 1 .. MaxCalls
        BY <3>2 DEF HostInv, Phases, SessionTypeOK
      <4>2. verdict = "ack"
        BY <1>1, <2>1, <2>2, <3>2, <4>1
      <4>3. PICK i \in 1 .. k : toHost[i].kind = "ack" /\ toHost[i].n = seq
        BY <4>2
      <4>4. i \in DOMAIN toHost
        <5>1. Len(toHost) \in Nat /\ DOMAIN toHost = 1 .. Len(toHost)
          BY HostFacts, HostElements
        <5> QED BY <5>1
      <4>5. Executed(Course + seq)
        BY <4>1, <4>3, <4>4 DEF Trust, AcksOnCourse
      <4>6. Course + seq = calls
        <5>1. calls \in Nat /\ seq \in Nat
          BY HostFacts
        <5> QED BY <5>1 DEF Course
      <4> QED BY <3>2, <4>5, <4>6
    <3> QED BY <3>1, <3>2
  <2> QED BY <1>1, <1>2, <2>2 DEF Receipts, Executed
<1> QED BY <1>1, <1>2, <1>3, <1>4, <1>5 DEF Trust

LEMMA TrustOthers ==
  ASSUME HostInv, Trust, AnothersHello
  PROVE  Trust'
<1>1. UNCHANGED <<carrier, hostVars, channelVars, trace>> /\ robotSession' = 0 /\ accepted' = <<>>
  BY OthersKeep DEF AnothersHello
<1>2. FreshStart'
  <2>1. hpc = "hello" => session # 0 /\ session \in Nat
    BY HostFacts DEF HostInv, Phases
  <2> QED BY <1>1, <2>1 DEF Trust, FreshStart, OwnHelloTaken, OwnBannerAt, Cmd, hostVars, channelVars
<1>3. NoAckBehindBanner' /\ NoCommandBehindHello' /\ FirstSession'
  BY <1>1 DEF Trust, NoAckBehindBanner, NoCommandBehindHello, FirstSession, OwnBannerAt, Cmd, Tag,
              Greeting, Fifo, hostVars, channelVars
<1>4. NextFollows' /\ QueueFollows'
  <2>1. \A p, q : Free(p, q)' = Free(p, q)
    BY <1>1 DEF Free, Greeting, channelVars
  <2> QED BY <1>1, <2>1 DEF Trust, NextFollows, QueueFollows, Fifo, Cmd, Tag, Number, hostVars, channelVars
<1>5. Receipts' /\ NoSkips'
  BY <1>1 DEF Trust, Receipts, NoSkips, Executed, hostVars
<1>6. ownBanner' => QueueOnCourse' /\ AcceptedOnCourse' /\ AcksOnCourse'
  <2>1. Course' = Course
    BY <1>1 DEF Course, hostVars
  <2> QED BY <1>1, <2>1 DEF Trust, QueueOnCourse, AcceptedOnCourse, AcksOnCourse, Executed, Cmd, Tag,
                            Number, hostVars, channelVars
<1> QED BY <1>2, <1>3, <1>4, <1>5, <1>6 DEF Trust

LEMMA TrustRival ==
  ASSUME HostInv, Trust, NEW n \in 1 .. MaxCalls, NEW d \in CallDecodes,
         AnothersCommand(Command(n, 0, d))
  PROVE  Trust'
<1>1. /\ UNCHANGED <<carrier, channelVars, robotSession, hpc, seq, wire, session, calls, result>>
      /\ \/ UNCHANGED <<accepted, trace, rivals, ownBanner, trusted>>
         \/ rivals' = TRUE /\ ownBanner' = FALSE /\ trusted' = {}
  BY RivalKeeps
<1>2. Course' = Course /\ \A p, q : Free(p, q)' = Free(p, q)
  BY <1>1 DEF Course, Free, Greeting, channelVars
<1>3. NoAckBehindBanner' /\ NoCommandBehindHello' /\ (OwnHelloTaken' = OwnHelloTaken)
  BY <1>1 DEF Trust, NoAckBehindBanner, NoCommandBehindHello, OwnHelloTaken, OwnBannerAt, Cmd, Tag,
              Greeting, Fifo, channelVars
<1>4. CASE UNCHANGED <<accepted, trace, rivals, ownBanner, trusted>>
  <2>1. ownBanner' => QueueOnCourse' /\ AcceptedOnCourse' /\ AcksOnCourse'
    BY <1>1, <1>2, <1>4 DEF Trust, QueueOnCourse, AcceptedOnCourse, AcksOnCourse, Executed, Cmd, Tag,
                            Number, channelVars
  <2>2. FreshStart' /\ FirstSession'
    BY <1>1, <1>3, <1>4 DEF Trust, FreshStart, FirstSession, Cmd, channelVars
  <2>3. NextFollows' /\ QueueFollows'
    BY <1>1, <1>2, <1>4 DEF Trust, NextFollows, QueueFollows, Fifo, Cmd, Tag, Number, channelVars
  <2>4. Receipts' /\ NoSkips'
    BY <1>1, <1>4 DEF Trust, Receipts, NoSkips, Executed
  <2> QED BY <1>3, <2>1, <2>2, <2>3, <2>4 DEF Trust
<1>5. CASE rivals' = TRUE /\ ownBanner' = FALSE /\ trusted' = {}
  <2>1. FreshStart' /\ FirstSession'
    BY <1>1, <1>3, <1>5 DEF Trust, FreshStart, FirstSession, Cmd, channelVars
  <2>2. NextFollows' /\ QueueFollows' /\ Receipts' /\ NoSkips'
    BY <1>5 DEF NextFollows, QueueFollows, Receipts, NoSkips
  <2> QED BY <1>3, <1>5, <2>1, <2>2 DEF Trust
<1> QED BY <1>1, <1>4, <1>5

LEMMA TrustStutter ==
  ASSUME Trust, UNCHANGED vars
  PROVE  Trust'
<1>1. Course' = Course /\ \A p, q : Free(p, q)' = Free(p, q)
  BY DEF Course, Free, Greeting, vars, hostVars, channelVars
<1>2. ownBanner' => QueueOnCourse' /\ AcceptedOnCourse' /\ AcksOnCourse'
  BY <1>1 DEF Trust, QueueOnCourse, AcceptedOnCourse, AcksOnCourse, Executed, Cmd, Tag, Number, vars,
              handlerVars, hostVars, channelVars
<1>3. FreshStart' /\ NoAckBehindBanner' /\ NoCommandBehindHello' /\ FirstSession'
  BY DEF Trust, FreshStart, OwnHelloTaken, OwnBannerAt, NoAckBehindBanner, NoCommandBehindHello,
         FirstSession, Fifo, Cmd, Tag, Greeting, vars, handlerVars, hostVars, channelVars
<1>4. NextFollows' /\ QueueFollows'
  BY <1>1 DEF Trust, NextFollows, QueueFollows, Fifo, Cmd, Tag, Number, vars, handlerVars, hostVars,
              channelVars
<1>5. Receipts' /\ NoSkips'
  BY DEF Trust, Receipts, NoSkips, Executed, vars, handlerVars, hostVars
<1> QED BY <1>2, <1>3, <1>4, <1>5 DEF Trust

LEMMA CourseDeliver ==
  ASSUME HostInv, Trust, NEW i \in 1 .. Len(toRobot), NEW kept, Deliver(i, kept), ownBanner
  PROVE  QueueOnCourse' /\ AcceptedOnCourse' /\ AcksOnCourse'
<1>1. Taken(i) /\ DOMAIN toRobot = 1 .. Len(toRobot)
  BY Takes, HostElements
<1>2. Course' = Course /\ HostInv'
  BY DeliverKeeps DEF Deliver, hostVars, Course
<1>3. QueueOnCourse'
  <2>1. ASSUME NEW p \in DOMAIN toRobot', Cmd(p)'
        PROVE  Tag(p)' - Number(p)' = Course
    <3>1. Before(p, i) \in DOMAIN toRobot /\ toRobot'[p] = toRobot[Before(p, i)]
      BY <1>1, Stood
    <3>2. Cmd(Before(p, i))
      BY <2>1, <3>1 DEF Cmd
    <3>3. Tag(Before(p, i)) - Number(Before(p, i)) = Course
      BY <3>1, <3>2 DEF Trust, QueueOnCourse
    <3> QED BY <3>1, <3>3 DEF Tag, Number
  <2> QED BY <1>2, <2>1 DEF QueueOnCourse
<1>4. AcceptedOnCourse'
  <2>1. CASE accepted' = <<>>
    BY <2>1 DEF AcceptedOnCourse
  <2>2. CASE accepted' = accepted
    BY <1>2, <2>2 DEF Trust, AcceptedOnCourse
  <2>3. CASE /\ Cmd(i) /\ Number(i) = Len(accepted) + 1
             /\ DOMAIN accepted' = 1 .. Len(accepted) + 1
             /\ \A n \in 1 .. Len(accepted) : accepted'[n] = accepted[n]
             /\ accepted'[Len(accepted) + 1].tag = Tag(i)
    <3>1. Tag(i) - Number(i) = Course
      BY <1>1, <2>3 DEF Trust, QueueOnCourse
    <3>2. ASSUME NEW n \in DOMAIN accepted'
          PROVE  accepted'[n].tag - n = Course
      <4>0. Len(accepted) \in Nat /\ DOMAIN accepted = 1 .. Len(accepted)
        BY HostFacts, HostElements
      <4>1. CASE n \in 1 .. Len(accepted)
        BY <2>3, <4>0, <4>1 DEF Trust, AcceptedOnCourse
      <4>2. CASE n \notin 1 .. Len(accepted)
        <5>1. n = Len(accepted) + 1
          BY <2>3, <4>0, <4>2
        <5> QED BY <2>3, <3>1, <5>1
      <4> QED BY <4>1, <4>2
    <3> QED BY <1>2, <3>2 DEF AcceptedOnCourse
  <2> QED BY <1>1, <2>1, <2>2, <2>3, Grows
<1>5. AcksOnCourse'
  <2>1. \A c : Executed(c) => \E m \in DOMAIN trace' : trace'[m] = c
    BY <1>1, Grows DEF Executed
  <2>2. ASSUME NEW n \in DOMAIN toHost', toHost'[n].kind = "ack"
        PROVE  \E m \in DOMAIN trace' : trace'[m] = Course + toHost'[n].n
    <3>1. CASE n \in DOMAIN toHost /\ toHost'[n] = toHost[n]
      <4>1. Executed(Course + toHost[n].n)
        BY <2>2, <3>1 DEF Trust, AcksOnCourse
      <4> QED BY <2>1, <3>1, <4>1
    <3>2. CASE toHost'[n].n \in DOMAIN accepted'
      <4> DEFINE place == toHost'[n].n
      <4>1. PICK m \in DOMAIN trace' : trace'[m] = accepted'[place].tag
        BY <1>2, <3>2 DEF HostInv, Executed
      <4>2. accepted'[place].tag - place = Course
        BY <1>2, <1>4, <3>2 DEF AcceptedOnCourse
      <4>3. accepted'[place].tag \in Int
        <5>1. trace' \in Seq(0 .. MaxCalls) /\ MaxCalls \in Nat
          BY <1>2, HostFacts DEF HostInv, SessionTypeOK
        <5>2. trace'[m] \in 0 .. MaxCalls
          BY <5>1
        <5> QED BY <4>1, <5>2
      <4>4. place \in Int
        <5>1. accepted' \in Seq([id : Ids, tag : Tags])
          BY <1>2 DEF HostInv, Inv, HandlerTypeOK
        <5> QED BY <3>2, <5>1
      <4> HIDE DEF place
      <4>5. accepted'[place].tag = Course + place
        BY <4>2, <4>3, <4>4
      <4> QED BY <4>1, <4>5 DEF place
    <3> QED BY <2>2, <3>1, <3>2, Replied
  <2> QED BY <1>2, <2>2 DEF AcksOnCourse, Executed
<1> QED BY <1>3, <1>4, <1>5

LEMMA HelloDeliver ==
  ASSUME HostInv, Trust, Unmixed, NEW i \in 1 .. Len(toRobot), NEW kept, Deliver(i, kept),
         i = 1 \/ carrier.reorders
  PROVE  FreshStart' /\ NoAckBehindBanner' /\ NoCommandBehindHello' /\ FirstSession'
<1>1. Taken(i) /\ DOMAIN toRobot = 1 .. Len(toRobot) /\ i \in DOMAIN toRobot
  BY Takes, HostElements
<1>2. UNCHANGED <<carrier, hostVars>>
  BY DEF Deliver
<1>3. \A p \in DOMAIN toRobot' : /\ p \in Nat /\ Before(p, i) \in DOMAIN toRobot /\ Before(p, i) # i
                               /\ toRobot'[p] = toRobot[Before(p, i)]
  BY <1>1, Stood
<1>4. \A p, q \in Nat : p < q => Before(p, i) < Before(q, i)
  BY <1>1, Stood
\* While the banner is awaited, a HELLO taken before keeps commands away.
<1>5. ASSUME hpc = "hello", OwnHelloTaken
      PROVE  /\ Greeting(i) /\ accepted' = <<>> /\ \A p \in DOMAIN toRobot' : ~Cmd(p)'
             /\ \A j \in DOMAIN toHost' : j \notin DOMAIN toHost => toHost'[j].kind # "ack"
  <2>1. \A p \in DOMAIN toRobot : ~Cmd(p)
    BY <1>5 DEF Trust, FreshStart
  <2>2. ~Cmd(i)
    BY <1>1, <2>1
  <2>3. Greeting(i) /\ accepted' = <<>>
    BY <1>1, <2>2, Grows
  <2>4. \A p \in DOMAIN toRobot' : ~Cmd(p)'
    BY <1>3, <2>1 DEF Cmd
  <2>5. \A j \in DOMAIN toHost' : j \notin DOMAIN toHost => toHost'[j].kind # "ack"
    BY <2>3, Replied
  <2> QED BY <2>3, <2>4, <2>5
<1>6. FreshStart'
  <2>1. ASSUME hpc = "hello", OwnHelloTaken', ~OwnHelloTaken
        PROVE  accepted' = <<>> /\ \A p \in DOMAIN toRobot' : ~Cmd(p)'
    <3>1. robotSession' = session /\ robotSession # session
      <4>1. CASE robotSession' = session'
        BY <1>2, <2>1, <4>1 DEF OwnHelloTaken, hostVars
      <4>2. ASSUME NEW j \in DOMAIN toHost', toHost'[j].kind = "device", toHost'[j].of = session
            PROVE  robotSession' = session /\ robotSession # session
        <5>1. ~(j \in DOMAIN toHost /\ toHost'[j] = toHost[j])
          BY <2>1, <4>2 DEF OwnHelloTaken, OwnBannerAt
        <5>2. toHost'[j].of = robotSession'
          BY <5>1, Replied
        <5> QED BY <2>1, <4>2, <5>2 DEF OwnHelloTaken
      <4> QED BY <1>2, <2>1, <4>1, <4>2 DEF OwnHelloTaken, OwnBannerAt, hostVars
    <3>2. Greeting(i) /\ accepted' = <<>> /\ Tag(i) = session
      BY <1>1, <3>1, Grows
    <3>3. CASE carrier.reorders
      <4>1. calls = 0
        BY <2>1, <3>3 DEF Unmixed, Trust, FirstSession
      <4>2. \A p \in DOMAIN toRobot : ~Cmd(p)
        BY <4>1, TrustTypes
      <4> QED BY <1>3, <3>2, <4>2 DEF Cmd
    <3>4. CASE Fifo
      <4>1. i = 1
        BY <3>4 DEF Fifo
      <4>2. ASSUME NEW q \in DOMAIN toRobot, q # 1
            PROVE  ~Cmd(q)
        <5>1. 1 < q
          <6>1. Len(toRobot) \in Nat
            BY HostFacts
          <6> QED BY <1>1, <4>2, <6>1
        <5> QED BY <1>1, <2>1, <3>2, <3>4, <4>1, <5>1 DEF Trust, NoCommandBehindHello
      <4> QED BY <1>3, <3>2, <4>1, <4>2 DEF Cmd
    <3> QED BY <3>3, <3>4 DEF Fifo
  <2> QED BY <1>2, <1>5, <2>1 DEF FreshStart, hostVars
<1>7. NoAckBehindBanner'
  <2>1. ASSUME hpc = "hello", NEW m \in DOMAIN toHost', NEW n \in DOMAIN toHost', m < n,
               toHost'[m].kind = "device", toHost'[m].of = session
        PROVE  toHost'[n].kind # "ack"
    <3>1. CASE m \in DOMAIN toHost /\ toHost'[m] = toHost[m]
      <4>1. OwnBannerAt(m) /\ OwnHelloTaken
        BY <2>1, <3>1 DEF OwnBannerAt, OwnHelloTaken
      <4>2. CASE n \in DOMAIN toHost /\ toHost'[n] = toHost[n]
        BY <2>1, <3>1, <4>1, <4>2 DEF Trust, NoAckBehindBanner
      <4>3. CASE n \notin DOMAIN toHost
        BY <1>5, <2>1, <4>1, <4>3
      <4> QED BY <4>2, <4>3, Replied
    <3>2. CASE \A j \in DOMAIN toHost : j < m
      <4>1. Greeting(i)
        <5>1. ~(m \in DOMAIN toHost)
          <6>1. DOMAIN toHost = 1 .. Len(toHost) /\ Len(toHost) \in Nat
            BY HostElements, HostFacts
          <6> QED BY <3>2, <6>1
        <5>2. ~Cmd(i)
          BY <2>1, <5>1, Replied
        <5> QED BY <1>1, <5>2, Grows
      <4>2. n \notin DOMAIN toHost
        <5>1. DOMAIN toHost = 1 .. Len(toHost) /\ Len(toHost) \in Nat
          BY HostElements, HostFacts
        <5>2. m \in Nat
          <6>1. toHost' \in Seq(Incoming)
            BY Hears DEF Answer
          <6> QED BY <6>1
        <5> QED BY <2>1, <3>2, <5>1, <5>2
      <4>3. toHost'[n].kind = "device"
        BY <4>1, <4>2, Replied
      <4> QED BY <4>3
    <3> QED BY <3>1, <3>2, Replied
  <2> QED BY <1>2, <2>1 DEF NoAckBehindBanner, OwnBannerAt, hostVars
<1>8. NoCommandBehindHello'
  <2>1. ASSUME hpc = "hello", Fifo, NEW p \in DOMAIN toRobot', NEW q \in DOMAIN toRobot', p < q,
               Greeting(p)', Tag(p)' = session
        PROVE  ~Cmd(q)'
    <3>1. Greeting(Before(p, i)) /\ Tag(Before(p, i)) = session /\ Before(p, i) < Before(q, i)
      BY <1>3, <1>4, <2>1 DEF Greeting, Tag
    <3>2. ~Cmd(Before(q, i))
      BY <1>3, <2>1, <3>1 DEF Trust, NoCommandBehindHello
    <3> QED BY <1>3, <3>2 DEF Cmd
  <2> QED BY <1>2, <2>1 DEF NoCommandBehindHello, Fifo, hostVars
<1>9. FirstSession'
  BY <1>2 DEF Trust, FirstSession, hostVars
<1> QED BY <1>6, <1>7, <1>8, <1>9

LEMMA FollowsDeliver ==
  ASSUME HostInv, Trust, NEW i \in 1 .. Len(toRobot), NEW kept, Deliver(i, kept),
         i = 1 \/ carrier.reorders
  PROVE  NextFollows' /\ QueueFollows'
<1>1. UNCHANGED <<carrier, hostVars>>
  BY DEF Deliver
<1>2. CASE carrier.reorders
  BY <1>1, <1>2 DEF NextFollows, QueueFollows, Fifo
<1>3. CASE ~carrier.reorders
  <2>1. i = 1 /\ Taken(1) /\ 1 \in DOMAIN toRobot /\ DOMAIN toRobot = 1 .. Len(toRobot)
        /\ Len(toRobot) \in Nat /\ Len(toRobot) >= 1 /\ Fifo
    <3>1. i = 1 /\ Len(toRobot) \in Nat /\ DOMAIN toRobot = 1 .. Len(toRobot)
      BY <1>3, HostFacts, HostElements
    <3> QED BY <1>3, <3>1, Takes DEF Fifo
  <2>2. /\ DOMAIN toRobot' = 1 .. Len(toRobot) - 1
        /\ \A p \in 1 .. Len(toRobot) - 1 : p + 1 \in DOMAIN toRobot /\ toRobot'[p] = toRobot[p + 1]
    BY <2>1, Shifted
  <2>3. ASSUME NEW p \in DOMAIN toRobot', Cmd(p)'
        PROVE  /\ p \in Nat /\ p + 1 \in DOMAIN toRobot /\ Cmd(p + 1) /\ 1 < p + 1
               /\ Tag(p)' = Tag(p + 1) /\ Number(p)' = Number(p + 1)
    <3>1. p \in 1 .. Len(toRobot) - 1
      BY <2>2
    <3> QED BY <2>1, <2>2, <2>3, <3>1 DEF Cmd, Tag, Number
  <2>4. ASSUME NEW p \in Nat, NEW q \in Nat, Free(p, q)'
        PROVE  Free(p + 1, q + 1)
    <3>1. ASSUME NEW m \in DOMAIN toRobot, p + 1 < m, m < q + 1
          PROVE  toRobot[m].verb # "HELLO"
      <4>1. m \in 1 .. Len(toRobot) /\ m - 1 \in 1 .. Len(toRobot) - 1 /\ (m - 1) + 1 = m
            /\ p < m - 1 /\ m - 1 < q
        BY <2>1, <3>1
      <4>2. m - 1 \in DOMAIN toRobot' /\ toRobot'[m - 1] = toRobot[m]
        BY <2>2, <4>1
      <4> QED BY <2>4, <4>1, <4>2 DEF Free, Greeting
    <3> QED BY <3>1 DEF Free, Greeting
  <2>5. ASSUME NEW p \in DOMAIN toRobot', Cmd(p)', Tag(p)' \in trusted, Free(0, p)',
               NEW n \in DOMAIN accepted'
        PROVE  accepted'[n].tag - n = Tag(p)' - Number(p)'
    <3>1. /\ p \in Nat /\ p + 1 \in DOMAIN toRobot /\ Cmd(p + 1) /\ 1 < p + 1
          /\ Tag(p)' = Tag(p + 1) /\ Number(p)' = Number(p + 1)
      BY <2>3, <2>5
    <3>2. Free(1, p + 1)
      <4>1. Free(0 + 1, p + 1)
        BY <2>4, <2>5, <3>1
      <4> QED BY <4>1
    <3>3. ASSUME Cmd(1)
          PROVE  \A m \in DOMAIN accepted : accepted[m].tag - m = Tag(p + 1) - Number(p + 1)
      <4>1. Free(0, p + 1)
        <5>1. ~Greeting(1)
          BY <2>1, <3>3, TrustTypes
        <5>2. \A m \in DOMAIN toRobot : 0 < m => m = 1 \/ 1 < m
          BY <2>1
        <5> QED BY <3>2, <5>1, <5>2 DEF Free
      <4> QED BY <2>1, <2>5, <3>1, <4>1 DEF Trust, NextFollows
    <3>4. CASE accepted' = <<>>
      BY <2>5, <3>4
    <3>5. CASE Cmd(1) /\ accepted' = accepted
      BY <2>5, <3>1, <3>3, <3>5
    <3>6. CASE /\ Cmd(1) /\ Number(1) = Len(accepted) + 1
               /\ DOMAIN accepted' = 1 .. Len(accepted) + 1
               /\ \A m \in 1 .. Len(accepted) : accepted'[m] = accepted[m]
               /\ accepted'[Len(accepted) + 1].tag = Tag(1)
      <4>0. Len(accepted) \in Nat /\ DOMAIN accepted = 1 .. Len(accepted)
        BY HostFacts, HostElements
      <4>1. CASE n \in 1 .. Len(accepted)
        BY <3>1, <3>3, <3>6, <4>0, <4>1
      <4>2. CASE n \notin 1 .. Len(accepted)
        <5>1. n = Len(accepted) + 1
          BY <3>6, <4>0, <4>2
        <5>2. Tag(1) - Number(1) = Tag(p + 1) - Number(p + 1)
          BY <2>1, <2>5, <3>1, <3>2, <3>6 DEF Trust, QueueFollows
        <5> QED BY <3>1, <3>6, <5>1, <5>2
      <4> QED BY <4>1, <4>2
    <3> QED BY <2>1, <3>4, <3>5, <3>6, Grows
  <2>6. ASSUME NEW p \in DOMAIN toRobot', NEW q \in DOMAIN toRobot', p < q, Cmd(p)', Cmd(q)',
               Tag(q)' \in trusted, Free(p, q)'
        PROVE  Tag(p)' - Number(p)' = Tag(q)' - Number(q)'
    <3>1. /\ p \in Nat /\ p + 1 \in DOMAIN toRobot /\ Cmd(p + 1)
          /\ Tag(p)' = Tag(p + 1) /\ Number(p)' = Number(p + 1)
      BY <2>3, <2>6
    <3>2. /\ q \in Nat /\ q + 1 \in DOMAIN toRobot /\ Cmd(q + 1)
          /\ Tag(q)' = Tag(q + 1) /\ Number(q)' = Number(q + 1)
      BY <2>3, <2>6
    <3>3. Free(p + 1, q + 1) /\ p + 1 < q + 1
      BY <2>4, <2>6, <3>1, <3>2
    <3> QED BY <2>1, <2>6, <3>1, <3>2, <3>3 DEF Trust, QueueFollows
  <2>7. NextFollows'
    BY <1>1, <2>5 DEF NextFollows, hostVars
  <2>8. QueueFollows'
    BY <1>1, <2>6 DEF QueueFollows, hostVars
  <2> QED BY <2>7, <2>8
<1> QED BY <1>2, <1>3

LEMMA LogDeliver ==
  ASSUME HostInv, Trust, Unmixed, NEW i \in 1 .. Len(toRobot), NEW kept, Deliver(i, kept),
         i = 1 \/ carrier.reorders
  PROVE  Receipts' /\ NoSkips'
<1>1. UNCHANGED <<carrier, hostVars>> /\ Taken(i) /\ i \in DOMAIN toRobot
  BY Takes, HostElements DEF Deliver
<1>2. Receipts'
  <2>1. \A c : Executed(c) => Executed(c)'
    BY <1>1, Grows
  <2> QED BY <1>1, <2>1 DEF Trust, Receipts, hostVars
<1>3. NoSkips'
  <2>1. CASE accepted' = <<>>
    BY <2>1 DEF NoSkips
  <2>2. CASE accepted' = accepted
    BY <1>1, <2>2 DEF Trust, NoSkips, hostVars
  <2>3. CASE /\ Cmd(i) /\ Number(i) = Len(accepted) + 1
             /\ DOMAIN accepted' = 1 .. Len(accepted) + 1
             /\ \A m \in 1 .. Len(accepted) : accepted'[m] = accepted[m]
             /\ accepted'[Len(accepted) + 1].tag = Tag(i)
    <3>0. Len(accepted) \in Nat /\ DOMAIN accepted = 1 .. Len(accepted)
      BY HostFacts, HostElements
    <3>1. ASSUME Tag(i) \in trusted, NEW m \in DOMAIN accepted
          PROVE  accepted[m].tag - m = Tag(i) - Number(i)
      <4>1. CASE carrier.reorders
        <5>1. ownBanner
          BY <3>1, <4>1 DEF Unmixed, Trust, FirstSession
        <5> QED BY <1>1, <2>3, <5>1 DEF Trust, QueueOnCourse, AcceptedOnCourse
      <4>2. CASE Fifo
        <5>1. i = 1 /\ Free(0, 1)
          <6>1. i = 1 /\ \A n \in DOMAIN toRobot : ~(n < 1)
            BY <4>2, HostElements, HostFacts DEF Fifo
          <6>2. Free(0, 1)
            BY <6>1 DEF Free
          <6> QED BY <6>1, <6>2
        <5> QED BY <1>1, <2>3, <3>1, <4>2, <5>1 DEF Trust, NextFollows
      <4> QED BY <4>1, <4>2 DEF Fifo
    <3>2. ASSUME NEW m \in DOMAIN accepted', NEW n \in DOMAIN accepted', m < n, accepted'[n].tag \in trusted
          PROVE  accepted'[n].tag - accepted'[m].tag = n - m
      <4>1. m \in 1 .. Len(accepted) /\ accepted'[m] = accepted[m] /\ m \in DOMAIN accepted
        BY <2>3, <3>0, <3>2
      <4>2. CASE n \in 1 .. Len(accepted)
        BY <2>3, <3>0, <3>2, <4>1, <4>2 DEF Trust, NoSkips
      <4>3. CASE n \notin 1 .. Len(accepted)
        <5>1. n = Len(accepted) + 1 /\ accepted'[n].tag = Tag(i) /\ Number(i) = n
          BY <2>3, <3>0, <4>3
        <5>2. accepted[m].tag - m = Tag(i) - n
          BY <3>1, <3>2, <4>1, <5>1
        <5>3. accepted[m].tag \in Nat /\ Tag(i) \in Nat /\ m \in Nat /\ n \in Nat
          BY <1>1, <2>3, <3>0, <4>1, <5>1, TrustTypes
        <5> QED BY <4>1, <5>1, <5>2, <5>3
      <4> QED BY <4>2, <4>3
    <3> QED BY <1>1, <3>2 DEF NoSkips, hostVars
  <2> QED BY <1>1, <2>1, <2>2, <2>3, Grows
<1> QED BY <1>2, <1>3

LEMMA TrustDeliver ==
  ASSUME HostInv, Trust, Unmixed, NEW i \in 1 .. Len(toRobot), NEW kept, Deliver(i, kept),
         i = 1 \/ carrier.reorders
  PROVE  Trust'
<1>1. ownBanner' = ownBanner
  BY DEF Deliver, hostVars
<1>2. ownBanner => QueueOnCourse' /\ AcceptedOnCourse' /\ AcksOnCourse'
  BY CourseDeliver
<1>3. FreshStart' /\ NoAckBehindBanner' /\ NoCommandBehindHello' /\ FirstSession'
  BY HelloDeliver
<1>4. NextFollows' /\ QueueFollows' /\ Receipts' /\ NoSkips'
  BY FollowsDeliver, LogDeliver
<1> QED BY <1>1, <1>2, <1>3, <1>4 DEF Trust

LEMMA TrustStarts == Init => TrustInv
<1> SUFFICES ASSUME Init PROVE Trust
  BY DEF TrustInv
<1>1. toRobot = <<>> /\ toHost = <<>> /\ trace = <<>> /\ hpc = "closed" /\ trusted = {} /\ accepted = <<>>
  BY DEF Init, HandlerInit
<1>2. ~ownBanner
  <2>1. ownBanner = FALSE
    BY DEF Init
  <2> QED BY <2>1
<1> QED BY <1>1, <1>2 DEF Trust, FreshStart, NoAckBehindBanner, NoCommandBehindHello, FirstSession,
                          NextFollows, QueueFollows, Receipts, NoSkips

LEMMA TrustSteps == HostInv /\ TrustInv /\ [Next]_vars => TrustInv'
<1> SUFFICES ASSUME HostInv, TrustInv, [Next]_vars, Unmixed' PROVE Trust'
  BY DEF TrustInv
<1>1. Unmixed
  <2>1. carrier' = carrier
    BY DEF Next, OpenLink, Call, HostWindow, Deliver, DeliverNext, DeliverAny, AnothersHello, AnothersCommand, vars
  <2>2. session' = session \/ session' = session + 1
    BY DEF Next, OpenLink, Call, HostWindow, HelloWindow, CallWindow, Resend, HelloReturns, CallReturns,
           Deliver, DeliverNext, DeliverAny, AnothersHello, AnothersCommand, vars, hostVars
  <2>3. session \in Nat
    BY HostFacts
  <2> QED BY <2>1, <2>2, <2>3 DEF Unmixed
<1>2. Trust
  BY <1>1 DEF TrustInv
<1>3. CASE UNCHANGED vars
  BY <1>2, <1>3, TrustStutter
<1>4. CASE OpenLink
  BY <1>2, <1>4, TrustOpenLink
<1>5. CASE Call
  BY <1>2, <1>5, TrustCall
<1>6. ASSUME NEW k \in 0 .. Len(toHost), HostWindow(k)
      PROVE  Trust'
  <2>1. SessionTypeOK
    BY DEF HostInv
  <2>2. CASE hpc \in {"hello", "await"} /\ Resend
    BY <1>2, <1>6, <2>2, TrustResend
  <2>3. ASSUME hpc = "hello", NEW own \in BOOLEAN, HelloReturns(own),
               own => ~rivals /\ \E i \in 1 .. k : toHost[i].kind = "device" /\ toHost[i].of = session
        PROVE  Trust'
    BY <1>2, <1>6, <2>3, TrustHelloReturns
  <2>4. ASSUME hpc = "await", NEW verdict \in {"ack", "err", "none"}, CallReturns(verdict),
               verdict = "ack" => \E i \in 1 .. k : toHost[i].kind = "ack" /\ toHost[i].n = seq
        PROVE  Trust'
    BY <1>2, <1>6, <2>4, TrustCallReturns
  <2> QED BY <1>6, <2>1, <2>2, <2>3, <2>4, Reads
<1>7. ASSUME NEW i \in 1 .. Len(toRobot), NEW kept, Deliver(i, kept), i = 1 \/ carrier.reorders
      PROVE  Trust'
  BY <1>1, <1>2, <1>7, TrustDeliver
<1>8. CASE AnothersHello
  BY <1>2, <1>8, TrustOthers
<1>9. ASSUME NEW n \in 1 .. MaxCalls, NEW d \in CallDecodes, AnothersCommand(Command(n, 0, d))
      PROVE  Trust'
  BY <1>2, <1>9, TrustRival
<1> QED BY <1>3, <1>4, <1>5, <1>6, <1>7, <1>8, <1>9, StepCases

(* What a session that read its own banner may rely on, at every moment:   *)
(* the queue, the robot's list and the answers still on their way speak of *)
(* this session's commands; the number the robot expects next continues    *)
(* what it ran; no command overtook its HELLO.                             *)
THEOREM TrustInvariance == Spec => []TrustInv
BY HostInvariance, TrustStarts, TrustSteps, PTL DEF Spec

(* Once hello() has read the banner of its own HELLO, a caller told "ack"  *)
(* has had its command executed, whatever the carrier loses and whatever   *)
(* other clients reset, until a command of theirs is accepted; on a carrier*)
(* that reorders, in the first session.                                    *)
THEOREM AckIsReceiptHolds == Spec => []AckIsReceipt
<1>1. HostInv /\ TrustInv => AckIsReceipt
  BY HostFacts DEF TrustInv, Trust, Unmixed, Receipts, NoLeftovers, AckIsReceipt
<1> QED BY <1>1, HostInvariance, TrustInvariance, PTL

(* No leg is skipped: in a session that read its own banner, and until     *)
(* another client's command is accepted, a command runs only right behind  *)
(* the one issued before it.                                               *)
THEOREM NoLegIsSkippedHolds == Spec => []NoLegIsSkipped
<1>1. HostInv /\ TrustInv => NoLegIsSkipped
  BY HostFacts DEF TrustInv, Trust, Unmixed, NoSkips, NoLeftovers, NoLegIsSkipped
<1> QED BY <1>1, HostInvariance, TrustInvariance, PTL
===============================================================================
