----------------------------- MODULE MCInetPar -----------------------------
(* Depths standing for the 6 of VM 0 and the 6, 5, 4 of the importing VMs. *)
EXTENDS InetPar

Given(a, b, c) == [v \in 0 .. 2 |-> CASE v = 0 -> a [] v = 1 -> b [] v = 2 -> c]

(* A smaller tree serialized over a larger one; a tree that is too large    *)
(* for a pool, where it is built and where it is imported.                  *)
ThreeVMs == {Given(1, 2, 1), Given(3, 1, 1), Given(1, 3, 1)}

(* What AcceptedRunsAreComplete and EnoughIsAccepted ask of a ring.         *)
ASSUME RingHolds == RingFits

(* VM 0 alone with the tree of par-run, 64 leaves. *)
OneVM == {[v \in {0} |-> 6]}
=============================================================================
