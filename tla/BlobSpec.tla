------------------------------- MODULE BlobSpec -------------------------------
(***************************************************************************)
(* What becomes of one output's blob and row, with no locks, no files and  *)
(* no clock.  A put places the blob, leaves it installed, and records the  *)
(* row.  Three things unlink a blob, none while a put is placing it: a get *)
(* that has looked its row up, an eviction that has deleted its row, and   *)
(* collection, which takes it in one step and only while nothing refers to *)
(* it or is about to.                                                      *)
(***************************************************************************)
CONSTANTS Puts, Gets

VARIABLES blob,      \* whether the output has a blob
          row,       \* whether it has a row
          put,       \* how far each put has come
          get,       \* how far each get has come
          evicting   \* whether an eviction has deleted the row

vars == <<blob, row, put, get, evicting>>

Init ==
    /\ blob = FALSE
    /\ row = FALSE
    /\ put = [p \in Puts |-> "away"]
    /\ get = [g \in Gets |-> "away"]
    /\ evicting = FALSE

PutBecomes(p, s) == put' = [put EXCEPT ![p] = s]

(* The put finds a blob or brings its own. *)
Place(p) ==
    /\ put[p] = "away"
    /\ PutBecomes(p, "placed")
    /\ blob' = TRUE
    /\ UNCHANGED <<row, get, evicting>>

(* It may fail to, but once it has placed the blob it finds it there.      *)
FailToPlace(p) ==
    /\ put[p] = "away"
    /\ PutBecomes(p, "failed")
    /\ UNCHANGED <<blob, row, get, evicting>>

Leave(p) ==
    /\ put[p] = "placed"
    /\ PutBecomes(p, "installed")
    /\ UNCHANGED <<blob, row, get, evicting>>

Record(p) ==
    /\ put[p] = "installed"
    /\ PutBecomes(p, "away")
    /\ row' = TRUE
    /\ UNCHANGED <<blob, get, evicting>>

GiveUp(p) ==
    /\ put[p] = "installed"
    /\ PutBecomes(p, "away")
    /\ UNCHANGED <<blob, row, get, evicting>>

Die(p) ==
    /\ PutBecomes(p, "dead")
    /\ UNCHANGED <<blob, row, get, evicting>>

GetBecomes(g, from, to) ==
    /\ get[g] = from
    /\ get' = [get EXCEPT ![g] = to]

LookUp(g) ==
    /\ GetBecomes(g, "away", "found")
    /\ row
    /\ UNCHANGED <<blob, row, put, evicting>>

Hit(g) ==
    /\ GetBecomes(g, "found", "away")
    /\ UNCHANGED <<blob, row, put, evicting>>

Unlink ==
    /\ \A p \in Puts : put[p] # "placed"
    /\ blob' = FALSE

Drop(g) ==
    /\ GetBecomes(g, "found", "dropping")
    /\ Unlink
    /\ UNCHANGED <<row, put, evicting>>

DropRow(g) ==
    /\ GetBecomes(g, "dropping", "away")
    /\ row' = FALSE
    /\ UNCHANGED <<blob, put, evicting>>

Expire ==
    /\ row' = FALSE
    /\ UNCHANGED <<blob, put, get, evicting>>

Evict ==
    /\ row
    /\ row' = FALSE
    /\ evicting' = TRUE
    /\ UNCHANGED <<blob, put, get>>

EvictBlob ==
    /\ evicting
    /\ Unlink
    /\ evicting' = FALSE
    /\ UNCHANGED <<row, put, get>>

LeaveBlob ==
    /\ evicting
    /\ evicting' = FALSE
    /\ UNCHANGED <<blob, row, put, get>>

(* What is collected is an orphan when it goes. *)
Collect ==
    /\ ~row
    /\ \A p \in Puts : put[p] # "installed"
    /\ Unlink
    /\ UNCHANGED <<row, put, get, evicting>>

Next ==
    \/ \E p \in Puts :
        \/ Place(p) \/ FailToPlace(p) \/ Leave(p) \/ Record(p) \/ GiveUp(p) \/ Die(p)
    \/ \E g \in Gets : LookUp(g) \/ Hit(g) \/ Drop(g) \/ DropRow(g)
    \/ Expire \/ Evict \/ EvictBlob \/ LeaveBlob \/ Collect

Spec == Init /\ [][Next]_vars
=============================================================================
