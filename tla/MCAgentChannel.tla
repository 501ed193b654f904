--------------------------- MODULE MCAgentChannel ---------------------------
(* Small instances of AgentChannel for TLC: one device with several          *)
(* connections, another one that shares nothing with it but the lock.        *)
EXTENDS AgentChannel, TLC

CONSTANTS d1, d2, c1, c2, c3, e1

ThreeAndOne == {c1, c2, c3, e1}
TwoAndOne == {c1, c2, e1}

\* e1 is the connection of d2, all others belong to d1.
MCDeviceOf == [c \in Conn |-> IF c = e1 THEN d2 ELSE d1]

\* The connections of d1 are interchangeable.
ConnSymmetry == Permutations({c1, c2, c3})
=============================================================================
