------------------------- MODULE MCWireAcceptance -------------------------
(* The acceptance suite alone, with the every-verb section and one loss.   *)
EXTENDS WireAcceptance

SuiteModes == {{"all verbs"}}
SuiteErrCodes == {1, 6, 8, 12}
=============================================================================
