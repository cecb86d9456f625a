----------------------------- MODULE Maintenance -----------------------------
(***************************************************************************)
(* Which maintenance runs, and when (prune and what it calls, src/cache.go;*)
(* the stamps, src/store.go).                                              *)
(*                                                                         *)
(* A helper that closes its store, and "gocachez prune", look at how long  *)
(* ago each pass was last stamped, take maintenance.lock if it is free,    *)
(* and make the passes that were due: the sweep, the expiry of retained    *)
(* files, which wants no build registered, and the scan, which evicts.     *)
(* Passes fail, processes are killed, hours pass and clocks are set.       *)
(*                                                                         *)
(* What the passes do is the concern of ShardFiles, RunLifecycle and       *)
(* CatalogPass.                                                            *)
(***************************************************************************)
EXTENDS Naturals

CONSTANTS Helpers,    \* builds that open and close a store
          Prunes,     \* runs of "gocachez prune"
          None,
          MaxFaults   \* bound: passes that fail and processes killed

ASSUME MaintenanceAssumption ==
    /\ Helpers \cap Prunes = {} /\ None \notin Helpers \cup Prunes
    /\ MaxFaults \in Nat

VARIABLES pc,      \* next step of each process
          due,     \* the passes it found due and has still to make
          big,     \* whether it installed more than maxSize/pruneOvershootDivisor
          stamp,   \* the age of each pass's stamp
          lock,    \* who holds maintenance.lock
          faults,
          awaited, \* history: the passes each process is yet to see done
          recent   \* history: the passes done in the last pruneInterval

vars == <<pc, due, big, stamp, lock, faults, awaited, recent>>

Procs == Helpers \cup Prunes
Passes == {"sweep", "retained", "scan"}

(* "none" is a stamp that does not exist, "future" one dated past now, and *)
(* "old" one of pruneInterval ago or more.                                 *)
Ages == {"none", "future", "fresh", "old"}

Clearing == {"clearScan", "clearSweep", "clearRetained"}
Checking == {"check", "checkScan", "checkRetained"}
Marking == [sweep |-> "markSwept", retained |-> "markRetained", scan |-> "markPruned"]
Locked == {"sweep", "probe", "confirm", "plan", "apply", "unlock"}
              \cup {Marking[x] : x \in Passes}
Steps == {"away", "building", "lock", "ran"} \cup Clearing \cup Checking \cup Locked

TypeOK ==
    /\ pc \in [Procs -> Steps]
    /\ due \in [Procs -> SUBSET Passes]
    /\ big \in [Procs -> BOOLEAN]
    /\ stamp \in [Passes -> Ages]
    /\ lock \in Procs \cup {None}
    /\ \A p \in Procs : pc[p] \in Locked <=> lock = p
    /\ faults \in 0..MaxFaults
    /\ awaited \in [Procs -> SUBSET Passes]
    /\ recent \subseteq Passes

(* A cache whose stamps are of any age.                                    *)
Init ==
    /\ pc = [p \in Procs |-> "away"]
    /\ due = [p \in Procs |-> {}]
    /\ big = [p \in Procs |-> FALSE]
    /\ stamp \in [Passes -> Ages]
    /\ lock = None
    /\ faults = 0
    /\ awaited = [p \in Procs |-> {}]
    /\ recent = {x \in Passes : stamp[x] = "fresh"}

Goto(p, from, to) ==
    /\ pc[p] = from
    /\ pc' = [pc EXCEPT ![p] = to]
-----------------------------------------------------------------------------
(* A build, and "gocachez prune".                                          *)

OpenStore(p) ==
    /\ p \in Helpers
    /\ pc[p] \in {"away", "ran"}
    /\ pc' = [pc EXCEPT ![p] = "building"]
    /\ big' = [big EXCEPT ![p] = FALSE]
    /\ UNCHANGED <<due, stamp, lock, faults, awaited, recent>>

Put(p) ==
    /\ pc[p] = "building"
    /\ big' = [big EXCEPT ![p] = TRUE]
    /\ UNCHANGED <<pc, due, stamp, lock, faults, awaited, recent>>

(* The run is unregistered before maintenance.                             *)
CloseStore(p) ==
    /\ Goto(p, "building", "check")
    /\ UNCHANGED <<due, big, stamp, lock, faults, awaited, recent>>

StartPrune(p) ==
    /\ p \in Prunes
    /\ pc[p] \in {"away", "ran"}
    /\ pc' = [pc EXCEPT ![p] = "clearScan"]
    /\ awaited' = [awaited EXCEPT ![p] = Passes]
    /\ UNCHANGED <<due, big, stamp, lock, faults, recent>>

(* clearMaintenanceStamps, one stamp after another.                        *)
ClearStamp(p, x, from, to) ==
    /\ Goto(p, from, to)
    /\ stamp' = [stamp EXCEPT ![x] = "none"]
    /\ UNCHANGED <<due, big, lock, faults, awaited, recent>>

ClearStamps(p) ==
    \/ ClearStamp(p, "scan", "clearScan", "clearSweep")
    \/ ClearStamp(p, "sweep", "clearSweep", "clearRetained")
    \/ ClearStamp(p, "retained", "clearRetained", "check")
-----------------------------------------------------------------------------
(* prune.                                                                  *)

(* sweepDue, retainedExpiryDue: anything but a stamp of the last hour.     *)
Elapsed(x) == stamp[x] # "fresh"

(* pruneDue: a build that installed much does not wait for the stamp.      *)
DueFor(p) == {x \in Passes : Elapsed(x) \/ (x = "scan" /\ big[p])}

(* One stamp after another, like clearMaintenanceStamps.  A helper is to   *)
(* see done what is due for it when it asks.                               *)
SeenDue(p, x) == {x} \cap DueFor(p)

CheckStamp(p, x, from, to) ==
    /\ Goto(p, from, to)
    /\ due' = [due EXCEPT ![p] = @ \cup SeenDue(p, x)]
    /\ awaited' = [awaited EXCEPT ![p] = IF p \in Helpers THEN @ \cup SeenDue(p, x) ELSE @]
    /\ UNCHANGED <<big, stamp, lock, faults, recent>>

CheckStamps(p) ==
    \/ CheckStamp(p, "sweep", "check", "checkScan")
    \/ CheckStamp(p, "scan", "checkScan", "checkRetained")
    \/ CheckStamp(p, "retained", "checkRetained",
                  IF due[p] \cup SeenDue(p, "retained") = {} THEN "ran" ELSE "lock")

(* The passes in their order, each if it was due.                          *)
AfterRetained(p) == IF "scan" \in due[p] THEN "plan" ELSE "unlock"
AfterSweep(p) == IF "retained" \in due[p] THEN "probe" ELSE AfterRetained(p)
AfterLock(p) == IF "sweep" \in due[p] THEN "sweep" ELSE AfterSweep(p)

(* Whoever finds the lock taken leaves the work to the one that holds it.  *)
TryMaintenance(p) ==
    \/ /\ lock = None
       /\ Goto(p, "lock", AfterLock(p))
       /\ lock' = p
       /\ UNCHANGED <<due, big, stamp, faults, awaited, recent>>
    \/ /\ lock # None
       /\ Goto(p, "lock", "away")
       /\ due' = [due EXCEPT ![p] = {}]
       /\ awaited' = [awaited EXCEPT ![p] = {}]
       /\ UNCHANGED <<big, stamp, lock, faults, recent>>

(* A pass has done its work; its stamp comes next.                         *)
Finish(p, x, from) ==
    /\ Goto(p, from, Marking[x])
    /\ recent' = recent \cup {x}
    /\ UNCHANGED <<due, big, stamp, lock, faults, awaited>>

Mark(p, x, to) ==
    /\ Goto(p, Marking[x], to)
    /\ stamp' = [stamp EXCEPT ![x] = "fresh"]
    /\ awaited' = [q \in Procs |-> awaited[q] \ {x}]
    /\ big' = [big EXCEPT ![p] = x # "scan" /\ @]
    /\ due' = [due EXCEPT ![p] = @ \ {x}]
    /\ UNCHANGED <<lock, faults, recent>>

Sweep(p) ==
    \/ Finish(p, "sweep", "sweep")
    \/ Mark(p, "sweep", AfterSweep(p))

(* expireRetainedWhenIdle: probe, walk the tree, and look again.           *)
Idle == \A q \in Helpers : pc[q] # "building"

Retained(p) ==
    \/ /\ Goto(p, "probe", "confirm")
       /\ Idle
       /\ UNCHANGED <<due, big, stamp, lock, faults, awaited, recent>>
    \/ Idle /\ Finish(p, "retained", "confirm")
    \/ Mark(p, "retained", AfterRetained(p))

(* Mutant of Deferred: the attempt is stamped.                             *)
DeferredStamped(p) == "markRetained"

(* Mutant of Deferred: an error is returned rather than logged.            *)
DeferredReturned(p) == "unlock"

Deferred(p) == AfterRetained(p)

(* A build is registered, another process holds lifecycle.lock, or         *)
(* something fails and is logged.                                          *)
DeferRetained(p) ==
    /\ pc[p] \in {"probe", "confirm"}
    /\ pc' = [pc EXCEPT ![p] = Deferred(p)]
    /\ awaited' = [awaited EXCEPT ![p] = @ \ {"retained"}]
    /\ due' = [due EXCEPT ![p] = @ \ {"retained"}]
    /\ UNCHANGED <<big, stamp, lock, faults, recent>>

(* Mutant of StillDue: only the stamp is looked at again.                  *)
StampElapsed(p) == Elapsed("scan")

(* applyPrune: another process may have finished a scan meanwhile.         *)
StillDue(p) == "scan" \in DueFor(p)

Scan(p) ==
    \/ /\ Goto(p, "plan", "apply")
       /\ UNCHANGED <<due, big, stamp, lock, faults, awaited, recent>>
    \/ StillDue(p) /\ Finish(p, "scan", "apply")
    \/ /\ ~StillDue(p)
       /\ Goto(p, "apply", "unlock")
       /\ due' = [due EXCEPT ![p] = @ \ {"scan"}]
       /\ UNCHANGED <<big, stamp, lock, faults, awaited, recent>>
    \/ Mark(p, "scan", "unlock")

UnlockMaintenance(p) ==
    /\ Goto(p, "unlock", "ran")
    /\ lock' = None
    /\ UNCHANGED <<due, big, stamp, faults, awaited, recent>>

(* Mutant of LockAfter: a failed pass leaves the lock held.                *)
LockKept(p) == lock

LockAfter(p) == IF lock = p THEN None ELSE lock

(* The sweep or the scan fails, or the process is killed.                  *)
Stop(p) ==
    /\ faults < MaxFaults
    /\ pc[p] # "away"
    /\ pc' = [pc EXCEPT ![p] = "away"]
    /\ lock' = LockAfter(p)
    /\ faults' = faults + 1
    /\ due' = [due EXCEPT ![p] = {}]
    /\ awaited' = [awaited EXCEPT ![p] = {}]
    /\ UNCHANGED <<big, stamp, recent>>
-----------------------------------------------------------------------------
(* Hours pass, or a clock is set: a stamp is of another age.  One that has *)
(* become fresh this way passes for one that was just written.             *)
TimePasses(x) ==
    /\ stamp[x] # "none"
    /\ \E age \in Ages \ {"none", stamp[x]} :
        /\ stamp' = [stamp EXCEPT ![x] = age]
        /\ awaited' = [q \in Procs |-> IF age = "fresh" THEN awaited[q] \ {x} ELSE awaited[q]]
        /\ recent' = CASE age = "fresh" -> recent \cup {x}
                        [] \E p \in Procs : pc[p] = Marking[x] -> recent
                        [] OTHER -> recent \ {x}
    /\ UNCHANGED <<pc, due, big, lock, faults>>

Work(p) ==
    \/ ClearStamps(p) \/ CheckStamps(p) \/ TryMaintenance(p)
    \/ Sweep(p) \/ Retained(p) \/ DeferRetained(p) \/ Scan(p)
    \/ UnlockMaintenance(p)

Next ==
    \/ \E p \in Procs : Work(p) \/ Stop(p)
    \/ \E p \in Helpers : OpenStore(p) \/ Put(p) \/ CloseStore(p)
    \/ \E p \in Prunes : StartPrune(p)
    \/ \E x \in Passes : TimePasses(x)

(* Builds come and go, and a process that began maintenance gets on with   *)
(* it.  Nobody has to run "gocachez prune".                                *)
Fairness ==
    /\ \A p \in Procs : WF_vars(Work(p))
    /\ \A p \in Helpers : WF_vars(OpenStore(p)) /\ WF_vars(CloseStore(p))

Spec == Init /\ [][Next]_vars /\ Fairness
-----------------------------------------------------------------------------
(* Properties.                                                             *)

(* A stamp of the last pruneInterval is that of a pass that was done, not  *)
(* of one that was skipped because the cache was busy, or that failed      *)
(* ("it is written when the pass runs, not when it is attempted").         *)
StampsEarned == \A x \in Passes : stamp[x] = "fresh" => x \in recent

(* A helper or a "gocachez prune" that got the lock, or found nothing to   *)
(* do, and came to its end has seen everything done since it asked that    *)
(* was due when it asked - for "gocachez prune", everything - by itself or *)
(* another, but for an expiry of retained files that had to be deferred    *)
(* (prune, applyPrune, clearMaintenanceStamps).                            *)
DueIsDone == \A p \in Procs : pc[p] = "ran" => awaited[p] = {}

(* The invariant that makes it so: a pass about to be stamped was done;    *)
(* what a process is yet to see done is due for it, and among the passes   *)
(* it has still to make; and a stamp that was cleared is made again only   *)
(* by a pass that was done.                                                *)
MarksEarned == \A p \in Procs, x \in Passes : pc[p] = Marking[x] => x \in recent

Cleared(p, x) == x \in awaited[p] => stamp[x] = "none"

StampsCleared == \A p \in Prunes :
    /\ pc[p] \in {"clearSweep", "clearRetained"} => Cleared(p, "scan")
    /\ pc[p] = "clearRetained" => Cleared(p, "sweep")

AwaitedDue == \A p \in Procs :
    pc[p] \in Checking \cup Locked \cup {"lock"} => awaited[p] \subseteq DueFor(p)

AwaitedAhead == \A p \in Procs :
    /\ pc[p] \in {"away", "building"} => awaited[p] = {}
    /\ pc[p] \in Clearing => p \in Prunes
    /\ pc[p] = "check" /\ p \in Helpers => awaited[p] = {}
    /\ pc[p] = "checkScan" => awaited[p] \ due[p] \subseteq
                                  IF p \in Helpers THEN {} ELSE {"scan", "retained"}
    /\ pc[p] = "checkRetained" => awaited[p] \ due[p] \subseteq
                                  IF p \in Helpers THEN {} ELSE {"retained"}
    /\ pc[p] \in Locked \cup {"lock"} => awaited[p] \subseteq due[p]
    /\ pc[p] \in {"probe", "confirm", "markRetained"} => "sweep" \notin due[p]
    /\ pc[p] \in {"plan", "apply", "markPruned"} => due[p] \subseteq {"scan"}
    /\ pc[p] = "unlock" => due[p] = {}
    /\ pc[p] = "ran" => awaited[p] = {}

MaintenanceInvariant ==
    /\ TypeOK /\ StampsEarned /\ MarksEarned
    /\ StampsCleared /\ AwaitedDue /\ AwaitedAhead

(* No stamp, not one dated in the future either, and no retained files     *)
(* that cannot be expired keep the scan, which comes last, from being done *)
(* again ("a bad timestamp can never lock maintenance out permanently").   *)
ScanRecurs == stamp["scan"] # "fresh" ~> stamp["scan"] = "fresh"
=============================================================================
