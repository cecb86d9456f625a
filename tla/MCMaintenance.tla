--------------------------- MODULE MCMaintenance ---------------------------
(* Maintenance with one helper and one "gocachez prune". *)
EXTENDS Maintenance

CONSTANTS h1, c1
=============================================================================
