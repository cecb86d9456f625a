--------------------------- MODULE MCCatalogPass ---------------------------
(* CatalogPass on outputs of which two are of a size. *)
EXTENDS CatalogPass

CONSTANTS o1, o2, o3

Ids == [o \in Outputs |-> IF o = o1 THEN 1 ELSE IF o = o2 THEN 2 ELSE 3]
Sizes == [o \in Outputs |-> IF o = o3 THEN 2 ELSE 1]
=============================================================================
