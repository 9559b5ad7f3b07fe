--------------------------- MODULE MCWireSession ---------------------------
EXTENDS WireSession

NoRefusals == {}
Numbers    == 0 .. MaxCalls + MaxSessions
OnlyGood   == {TRUE}
GoodAndBad == BOOLEAN

\* The radio relay or USB; either it or a UDP socket with another client on it.
Radio     == [reorders |-> FALSE, shared |-> FALSE, sessions |-> 2, holds |-> 2, others |-> 0]
Shared    == [reorders |-> FALSE, shared |-> TRUE,  sessions |-> 1, holds |-> 2, others |-> 2]
SharedUdp == [reorders |-> TRUE,  shared |-> TRUE,  sessions |-> 1, holds |-> 2, others |-> 1]
AllCarriers == {Radio, Shared, SharedUdp}
OnlyShared  == {Shared}
OneSession  == {[Radio EXCEPT !.sessions = 1]}
============================================================================
