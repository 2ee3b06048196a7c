---------------------------- MODULE MCConntrack ----------------------------
(* A small instance of Conntrack: three flows compete for two places.      *)
EXTENDS Conntrack, TLC

CONSTANTS k1, k2, k3

ThreeFlows == {k1, k2, k3}
Symm == Permutations(ThreeFlows)

\* Three conntracks until the table is closed, two over a time that passes and after
\* the close.
Bounded == (now = 1 /\ ~closed) \/ nextAuthID <= 2
=============================================================================
