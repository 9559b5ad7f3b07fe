--------------------------- MODULE MCBoardWiring ---------------------------
(* A block program and the host's SET rewire the same robot.                *)
EXTENDS BoardWiring

Ask(side, port, sign) == [side |-> side, port |-> port, sign |-> sign]
\* An exchange, a wheel reversed, a free port for either, and a wrong port.
FewRequests == {Ask("left", 2, 1), Ask("right", 2, -1), Ask("left", 3, 1),
                Ask("right", 3, 1), Ask("left", 5, 1)}
=============================================================================
