------------------------- MODULE MCDeviceRegistry -------------------------
(* Instances of DeviceRegistry for TLC: a slot is the pair of its machine   *)
(* and a number.                                                            *)
EXTENDS DeviceRegistry, TLC

CONSTANTS m1, m2, a1, a2, a3

TwoAndOne == {<<m1, 1>>, <<m1, 2>>, <<m2, 1>>}
OneEach == {<<m1, 1>>, <<m2, 1>>}
Two == {<<m1, 1>>, <<m1, 2>>}
Owner == [s \in Sender |-> s[1]]
\* getLocalIP takes the first interface, which may be a host-only adapter with
\* the same address on every machine.
Together == [m \in Machine |-> a1]
Apart == [m \in Machine |-> IF m = m1 THEN a1 ELSE a2]

Bounds(installs, moves, edits, deletes, faults) ==
    [k \in Counted |-> CASE k = "installs" -> installs [] k = "moves" -> moves
                         [] k = "edits" -> edits [] k = "deletes" -> deletes
                         [] k = "faults" -> faults]
StaticBounds == Bounds(2, 0, 0, 2, 1)
AdminBounds == Bounds(1, 1, 2, 1, 1)
LivenessBounds == Bounds(2, 0, 1, 0, 1)

IdSymmetry == Permutations(Id)
=============================================================================
