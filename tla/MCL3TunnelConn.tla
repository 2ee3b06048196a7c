--------------------------- MODULE MCL3TunnelConn ---------------------------
(* Small instances of L3TunnelConn.                                        *)
EXTENDS L3TunnelConn, TLC

CONSTANTS k1, k2

Flows == {k1, k2}
OneFlow == {k1}
TwoTwins == Flows \X Flows  \* the two flows are of one address pair
NoTwins == {}
Symm == Permutations(Flows)
=============================================================================
