------------------------ MODULE MCMotionArbitration ------------------------
(* Small instances of MotionArbitration for TLC. *)
EXTENDS MotionArbitration

CONSTANT a      \* a block fiber

NoFiber == {}
OneFiber == {a}
=============================================================================
