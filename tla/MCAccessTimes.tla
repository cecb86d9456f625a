--------------------------- MODULE MCAccessTimes ---------------------------
(* Two helpers that use the same entry, each with one get at a time.       *)
EXTENDS AccessTimes

CONSTANTS h1, h2, p1, p2, a1, o1

OneGetEach == [h \in Handlers |-> IF h = h1 THEN p1 ELSE p2]
SameOutput == [a \in Entries |-> o1]

(* Helpers are interchangeable together with their handlers.               *)
SwapHelpers == {[x \in {h1, h2, p1, p2} |->
    IF x = h1 THEN h2 ELSE IF x = h2 THEN h1 ELSE IF x = p1 THEN p2 ELSE p1]}
=============================================================================
