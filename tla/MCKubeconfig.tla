---------------------------- MODULE MCKubeconfig ----------------------------
(* Names are interchangeable: nothing tells them apart.  Of the two users p has a token,
   so that AddContext takes either for one that exists while p does. *)
EXTENDS Kubeconfig, TLC

CONSTANTS p, q, x, y

MCClusters == {x, y}
MCUsers == {p, q}
MCLink == {[cluster |-> x, user |-> p], [cluster |-> y, user |-> q]}
MCVouches == [v \in MCUsers |-> IF v = p THEN MCUsers ELSE {}]

Symmetry == Permutations(Names)
=============================================================================
