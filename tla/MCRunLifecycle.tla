--------------------------- MODULE MCRunLifecycle ---------------------------
(* RunLifecycle on small instances. *)
EXTENDS RunLifecycle, TLC

Symmetry == Permutations(Runs)
=============================================================================
