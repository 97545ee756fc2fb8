---------------------------- MODULE MCSearchHub ----------------------------
EXTENDS SearchHub

CONSTANTS w1, w2, r1, r2

\* r1 asks both wrappers; r2 one of them, twice.
MCTargets == (r1 :> <<w1, w2>>) @@ (r2 :> <<w1, w1>>)
=============================================================================
