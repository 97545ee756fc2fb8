---------------------------- MODULE MCLifecycle ----------------------------
EXTENDS Lifecycle, TLC

CONSTANTS w1, s1, s2

OneOwner == [s \in Sessions |-> w1]

ConnSymmetry == Permutations(Conns)
=============================================================================
