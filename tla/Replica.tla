------------------------------ MODULE Replica ------------------------------
(***************************************************************************)
(* What a cache of the server's answers promises: a view of each key that  *)
(* is some version the server has had, and that never goes back to an      *)
(* earlier one unless it was forgotten altogether.                         *)
(***************************************************************************)
EXTENDS Naturals

CONSTANT Keys

VARIABLES
  master,  \* master[k]: the server's version of k
  view     \* view[k]: the version that is shown, 0 for none

vars == <<master, view>>

Init == master = [k \in Keys |-> 1] /\ view = [k \in Keys |-> 0]

Write(K) ==
  /\ master' = [k \in Keys |-> IF k \in K THEN master[k] + 1 ELSE master[k]]
  /\ UNCHANGED view

Read(k) ==
  /\ \E v \in (IF view[k] = 0 THEN 1 ELSE view[k])..master[k] : view' = [view EXCEPT ![k] = v]
  /\ UNCHANGED master

Forget(K) ==
  /\ view' = [k \in Keys |-> IF k \in K THEN 0 ELSE view[k]]
  /\ UNCHANGED master

Next ==
  \/ \E K \in SUBSET Keys : Write(K) \/ Forget(K)
  \/ \E k \in Keys : Read(k)

Spec == Init /\ [][Next]_vars
=============================================================================
