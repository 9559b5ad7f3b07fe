--------------------------- MODULE CommandStream ---------------------------
(***************************************************************************)
(* What the reliability layer promises the adapter behind it, without ids, *)
(* acks or gaps on the wire: a sequence of sessions, in each of which      *)
(* commands 1, 2, 3, ... are handed over in that order, each exactly once, *)
(* up to the Limit of the numbering.                                       *)
(***************************************************************************)
EXTENDS Naturals, Sequences

CONSTANTS Limit, Contents

VARIABLE log   \* the commands of the current session handed over so far

Init == log = <<>>

HandOver == /\ Len(log) < Limit
            /\ \E c \in Contents : log' = Append(log, [id |-> Len(log) + 1, tag |-> c])

NewSession == log' = <<>>

Next == HandOver \/ NewSession

Spec == Init /\ [][Next]_log
============================================================================
