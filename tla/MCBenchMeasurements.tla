------------------------- MODULE MCBenchMeasurements -------------------------
(* One cell of turn_sweep.py: a pivot of half a turn, its RUN line and the  *)
(* answers lost or not.                                                     *)
EXTENDS BenchMeasurements

OneSweep == {[tool |-> "turn_sweep", cells |-> <<180>>]}
AnArc == {<<0, 90, 180>>}
=============================================================================
