----------------------------- MODULE MCRogoLink -----------------------------
(* The TCP server alone: one client asks for a list longer than the ring.   *)
EXTENDS RogoLink, TLC

ClientInputs == ("c1" :> {<<"FUNCS">>})
VerbReplies == [FUNCS |-> 3, MOVE_TO |-> 1]

ServerSpec == RogoInit /\ [][ServerNext]_rogoVars
=============================================================================
