---------------------------- MODULE MCBlobCache ----------------------------
(* One helper with one handler or two.                                     *)
EXTENDS BlobCache, TLC

CONSTANTS h1, h2, p1, a1, a2, o1, o2, t1

OneHelper == [h \in Handlers |-> p1]

(* Tags are four bytes of a digest: distinct outputs usually differ in     *)
(* them, but nothing makes them.                                           *)
DistinctTags  == [o \in Outputs |-> o]
CollidingTags == [o \in Outputs |-> t1]

SymmetricOutputs == Permutations({a1, a2}) \cup Permutations({o1, o2})
=============================================================================
