------------------------------ MODULE MCBoard -------------------------------
(***************************************************************************)
(* Two pins, two names for groups and sources alike, one device name: a    *)
(* group that is there, one that is not, and a name used twice.            *)
(***************************************************************************)
EXTENDS Board, TLC

CONSTANTS p1, p2, s1, s2

MCPinName == {p1, p2}
MCSourceName == {s1, s2}
MCDeviceName == {"I2C1"}
MCNode == {1, 4}

NameSymmetry == Permutations(MCPinName) \cup Permutations(MCSourceName)

\* A bound: of the four managers, which keep their devices alike and apart, any
\* one has devices.
OneKind == \A k1, k2 \in Kind :
             devices[k1] = EmptyMap \/ devices[k2] = EmptyMap \/ k1 = k2
=============================================================================
