---------------------------- MODULE WireHandler ----------------------------
(***************************************************************************)
(* The reliability layer of the robot's line protocol: one WireHandler     *)
(* (src/src/comms/wire_handler.cpp), the object every transport owns one   *)
(* of.  Its whole sequencing state is expectedNext_ and gapOutstanding_;   *)
(* a line is handled in one call of dispatch(), so one action Receive per  *)
(* line is the grain of the code.  The replies of that call, in the order  *)
(* they are written to the sink, are in `replies`.                         *)
(*                                                                         *)
(* A line is what tokenizing leaves of it: the class of its verb, the      *)
(* trailing #id (NoId if there is none), whether the verb's own decode()   *)
(* would accept the fields, and a tag standing for the rest of its         *)
(* content.  `accepted` and `discarded` are history variables.             *)
(***************************************************************************)
EXTENDS Integers, Sequences

CONSTANTS MaxSequenceId,    \* kMaxSequenceId, 2^32 - 1 in the code
          MalformedModulus, \* 2^32: malformedCount_ is a uint32_t
          ErrCodes,         \* the codes execute() may refuse a command with
          Tags              \* contents a line can carry

ASSUME MaxSequenceIdAssumption == MaxSequenceId \in Nat /\ MaxSequenceId >= 2
ASSUME ModulusAssumption == MalformedModulus \in Nat /\ MalformedModulus > 0
ASSUME ErrCodesAssumption == ErrCodes \subseteq Nat \ {0}

VARIABLES expectedNext_,   \* next sequence id expected from the host
          gapOutstanding_, \* a gap or a decode failure stalls the stream
          malformedCount_, \* lines that could not be classified
          replies,         \* what the last line was answered with
          accepted,        \* history: commands accepted since the last HELLO
          discarded        \* history: ids refused since then, not yet accepted

handlerVars == <<expectedNext_, gapOutstanding_, malformedCount_, replies,
                 accepted, discarded>>
seqVars == <<expectedNext_, gapOutstanding_, accepted, discarded>>

NoId == -1
Ids  == 0 .. MaxSequenceId

\* PING, HELP, ID, VER and STATUS are one class: each answers and reminds.
Unsequenced == {"QUERY", "HELLO", "HELLO_WITH_FIELDS", "ESTOP"}
Noise       == {"lowercase", "blank", "overlong"}
Sequenced   == {"COMMAND", "UNKNOWN"}   \* a row of kCommandTable, or not
Lines == [verb : Sequenced \cup Unsequenced \cup Noise, id : Ids \cup {NoId},
          decodes : BOOLEAN, tag : Tags]

Ack(n)        == [kind |-> "ack", n |-> n, id |-> NoId]
Nack(n)       == [kind |-> "nack", n |-> n, id |-> NoId]
Err(code, id) == [kind |-> "err", n |-> code, id |-> id]
Word(w)       == [kind |-> w, n |-> 0, id |-> NoId]

kUnknown == 1   \* resultCode() of the three results dispatch() itself uses
kBadArg  == 2
kRange   == 3

Replies == [kind : {"ack", "nack", "err", "answer", "device", "estop"},
            n : Nat, id : Ids \cup {NoId}]

\* A mutant: the counter does not wrap with its width.
CountMalformed_Wide == malformedCount_' = malformedCount_ + 1
CountMalformed == malformedCount_' = (malformedCount_ + 1) % MalformedModulus
----------------------------------------------------------------------------
(* dispatch(), one action per outcome, in the order of its early returns. *)

\* A reply of another robot, a terminal artifact, or an over-long line.
ReceiveNoise(line) ==
    /\ line.verb \in Noise
    /\ replies' = <<>>
    /\ IF line.verb = "overlong" THEN CountMalformed ELSE UNCHANGED malformedCount_
    /\ UNCHANGED seqVars

handleEstop(line) ==
    /\ line.verb = "ESTOP"
    /\ replies' = <<Word("estop")>>
    /\ UNCHANGED <<seqVars, malformedCount_>>

emitReminderIfStalled == IF gapOutstanding_ THEN <<Nack(expectedNext_)>> ELSE <<>>

ReceiveQuery(line) ==
    /\ line.verb = "QUERY"
    /\ replies' = <<Word("answer")>> \o emitReminderIfStalled
    /\ UNCHANGED <<seqVars, malformedCount_>>

\* A mutant: the reset forgets the reply predicate.
handleHello_KeepsGap(line) ==
    /\ line.verb = "HELLO"
    /\ expectedNext_' = 1
    /\ replies' = <<Word("device")>>
    /\ accepted' = <<>>
    /\ discarded' = {}
    /\ UNCHANGED <<gapOutstanding_, malformedCount_>>

handleHello(line) ==
    /\ line.verb = "HELLO"
    /\ expectedNext_' = 1
    /\ gapOutstanding_' = FALSE
    /\ replies' = <<Word("device")>>
    /\ accepted' = <<>>
    /\ discarded' = {}
    /\ UNCHANGED malformedCount_

HelloWrongArity(line) ==
    /\ line.verb = "HELLO_WITH_FIELDS"
    /\ CountMalformed
    /\ replies' = <<>>
    /\ UNCHANGED seqVars

\* No usable id: only a verb of the table is answered, and nothing moves.
MissingId(line) ==
    /\ line.verb \in Sequenced
    /\ line.id = NoId
    /\ CountMalformed
    /\ replies' = IF line.verb = "COMMAND" THEN <<Nack(expectedNext_)>> ELSE <<>>
    /\ UNCHANGED seqVars

\* A mutant: #0 taken for a stale retransmit.
IdZero_Acks(line) ==
    /\ line.verb \in Sequenced
    /\ line.id = 0
    /\ replies' = <<Ack(expectedNext_ - 1)>>
    /\ UNCHANGED <<seqVars, malformedCount_>>

IdZero(line) ==
    /\ line.verb \in Sequenced
    /\ line.id = 0
    /\ CountMalformed
    /\ replies' = <<Nack(expectedNext_)>>
    /\ UNCHANGED seqVars

handleDecodeFailure(id, code) ==
    /\ CountMalformed
    /\ gapOutstanding_' = TRUE
    /\ replies' = <<Nack(expectedNext_), Err(code, id)>>
    /\ discarded' = discarded \cup {id}
    /\ UNCHANGED <<expectedNext_, accepted>>

\* A mutant: no id is reserved, so the last one is accepted and wraps.
sequenceIdIsExecutable_Always(id) == id \in Ids
sequenceIdIsExecutable(id) == id # MaxSequenceId
Successor(id) == IF id = MaxSequenceId THEN 0 ELSE id + 1   \* id + 1, uint32_t

ReservedId(line) ==
    /\ line.verb \in Sequenced
    /\ line.id \notin {NoId, 0}
    /\ ~sequenceIdIsExecutable(line.id)
    /\ handleDecodeFailure(line.id, kRange)

\* What the rest of dispatch() may assume of the id.
Executable(line) == /\ line.verb \in Sequenced
                    /\ line.id \notin {NoId, 0}
                    /\ sequenceIdIsExecutable(line.id)

\* A mutant: a stale line is acked and executed again.
StaleRetransmit_Runs(line) ==
    /\ Executable(line)
    /\ line.id < expectedNext_
    /\ line.verb = "COMMAND" /\ line.decodes
    /\ replies' = <<Ack(expectedNext_ - 1)>>
    /\ accepted' = Append(accepted, [id |-> line.id, tag |-> line.tag])
    /\ UNCHANGED <<expectedNext_, gapOutstanding_, discarded, malformedCount_>>

\* A mutant: a stale line is dropped in silence.
StaleRetransmit_Silent(line) ==
    /\ Executable(line)
    /\ line.id < expectedNext_
    /\ replies' = <<>>
    /\ UNCHANGED <<seqVars, malformedCount_>>

StaleRetransmit(line) ==
    /\ Executable(line)
    /\ line.id < expectedNext_
    /\ replies' = <<Ack(expectedNext_ - 1)>>
    /\ UNCHANGED <<seqVars, malformedCount_>>

\* A mutant: the command past the gap is executed and the gap forgotten.
NumericGap_Jumps(line) ==
    /\ Executable(line)
    /\ line.id > expectedNext_
    /\ expectedNext_' = line.id + 1
    /\ gapOutstanding_' = FALSE
    /\ replies' = <<Ack(line.id)>>
    /\ accepted' = Append(accepted, [id |-> line.id, tag |-> line.tag])
    /\ UNCHANGED <<discarded, malformedCount_>>

\* A mutant: the gap is acked like a stale line.
NumericGap_Acks(line) ==
    /\ Executable(line)
    /\ line.id > expectedNext_
    /\ replies' = <<Ack(line.id)>>
    /\ UNCHANGED <<seqVars, malformedCount_>>

NumericGap(line) ==
    /\ Executable(line)
    /\ line.id > expectedNext_
    /\ gapOutstanding_' = TRUE
    /\ replies' = <<Nack(expectedNext_)>>
    /\ discarded' = discarded \cup {line.id}
    /\ UNCHANGED <<expectedNext_, malformedCount_, accepted>>

DecodeFailure(line) ==
    /\ Executable(line)
    /\ line.id = expectedNext_
    /\ \/ line.verb = "UNKNOWN" /\ handleDecodeFailure(line.id, kUnknown)
       \/ /\ line.verb = "COMMAND" /\ ~line.decodes
          /\ handleDecodeFailure(line.id, kBadArg)

\* The sequence advances and the ack goes out before execute(); a refusal on
\* the command's merits (a non-zero errCode) only adds an err behind the ack.
Accept(line) ==
    /\ Executable(line)
    /\ line.id = expectedNext_
    /\ line.verb = "COMMAND" /\ line.decodes
    /\ expectedNext_' = Successor(line.id)
    /\ gapOutstanding_' = FALSE
    /\ \/ replies' = <<Ack(line.id)>>
       \/ \E errCode \in ErrCodes : replies' = <<Ack(line.id), Err(errCode, line.id)>>
    /\ accepted' = Append(accepted, [id |-> line.id, tag |-> line.tag])
    /\ discarded' = discarded \ {line.id}
    /\ UNCHANGED malformedCount_

Receive(line) ==
    \/ ReceiveNoise(line)
    \/ handleEstop(line)
    \/ ReceiveQuery(line)
    \/ handleHello(line)
    \/ HelloWrongArity(line)
    \/ MissingId(line)
    \/ IdZero(line)
    \/ ReservedId(line)
    \/ StaleRetransmit(line)
    \/ NumericGap(line)
    \/ DecodeFailure(line)
    \/ Accept(line)
----------------------------------------------------------------------------
HandlerInit == /\ expectedNext_ = 1
               /\ gapOutstanding_ = FALSE
               /\ malformedCount_ = 0
               /\ replies = <<>>
               /\ accepted = <<>>
               /\ discarded = {}

\* Any line at any time: what a shared, noisy carrier can feed the handler.
HandlerNext == \E line \in Lines : Receive(line)

HandlerSpec == HandlerInit /\ [][HandlerNext]_handlerVars
----------------------------------------------------------------------------
(* The type invariant: what each field of the handler and each history     *)
(* variable ranges over.                                                   *)
HandlerTypeOK ==
    /\ expectedNext_ \in Ids
    /\ gapOutstanding_ \in BOOLEAN
    /\ malformedCount_ \in 0 .. MalformedModulus - 1
    /\ replies \in Seq(Replies)
    /\ accepted \in Seq([id : Ids, tag : Tags])
    /\ discarded \subseteq Ids

(* Within a session the commands handed to the adapter are #1, #2, #3, ... *)
(* in that order, none skipped, none twice, whatever lines arrive, and     *)
(* expectedNext_ is the one after the last of them (it never wraps to 0).  *)
SessionInOrder ==
    /\ expectedNext_ = Len(accepted) + 1
    /\ \A i \in DOMAIN accepted : accepted[i].id = i

(* The receipts are true: an ack names a command that was accepted in this *)
(* session, and the latest one, and a nack names the first that was not.   *)
ReceiptsAreTrue ==
    \A i \in DOMAIN replies :
        /\ replies[i].kind = "ack" => /\ replies[i].n \in DOMAIN accepted
                                      /\ replies[i].n = Len(accepted)
        /\ replies[i].kind = "nack" => /\ replies[i].n >= 1
                                       /\ replies[i].n \notin DOMAIN accepted

(* The reminder speaks only when something is wrong: a query answered with *)
(* a nack means a command that is still needed was refused earlier in this *)
(* session (emitReminderIfStalled: "silent on a clean stream").            *)
ReminderIsTrue ==
    \A i, j \in DOMAIN replies :
        replies[i].kind = "answer" /\ replies[j].kind = "nack" =>
            \E id \in discarded : id >= expectedNext_

(* Refinement: whatever lines arrive, the adapter sees CommandStream.      *)
Stream == INSTANCE CommandStream WITH
    log <- accepted, Limit <- MaxSequenceId - 1, Contents <- Tags
ImplementsStream == Stream!Spec

(* A session ends only by HELLO: until the banner is sent, no line shrinks *)
(* or rewrites the list of accepted commands.                              *)
OnlyHelloEndsSession ==
    [][\/ replies' = <<Word("device")>>
       \/ /\ Len(accepted') >= Len(accepted)
          /\ \A i \in DOMAIN accepted : accepted'[i] = accepted[i]]_handlerVars
============================================================================
