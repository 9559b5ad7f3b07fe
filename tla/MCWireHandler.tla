--------------------------- MODULE MCWireHandler ---------------------------
EXTENDS WireHandler, FiniteSets

CONSTANTS x, y

(* Execution refuses with kRange or kFull; the tags tell two contents apart. *)
Codes    == {3, 4}
Contents == {x, y}
============================================================================
