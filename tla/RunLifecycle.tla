---------------------------- MODULE RunLifecycle ----------------------------
(***************************************************************************)
(* The live run directories of gocachez and the locks around them: how a   *)
(* helper opens its run and closes it (src/store.go), how runs that died   *)
(* are reclaimed, how maintenance sweeps old run directories and expires   *)
(* retained files (src/cache.go), and how "gocachez clean" removes it all  *)
(* (src/clean.go).                                                         *)
(*                                                                         *)
(* The processes are the helpers, one run each, a maintenance pass, which  *)
(* any helper may run, one at a time, after it has closed its run, and a   *)
(* "gocachez clean".  Ages are fresh or old; one file, with its directory  *)
(* and its stripe, stands for the retained files; what else a run          *)
(* directory holds is not represented.  retainedAge is positive: set to    *)
(* zero or less, it turns the sweep and the expiry of retained files off.  *)
(***************************************************************************)
EXTENDS Naturals, FiniteSets

CONSTANTS Runs,          \* the helpers
          Maint, Clean,  \* the maintenance pass and the clean
          None,
          WithClean,     \* whether "gocachez clean" is run
          KilledHalfway, \* whether a process may die "making" a directory,
                         \* or "removing" one, that is without its run.lock
          MaxFaults      \* bound: how many processes are killed, and calls
                         \* of a close fail

ASSUME RunAssumption ==
    /\ {Maint, Clean, None} \cap Runs = {}
    /\ Maint # Clean /\ Maint # None /\ Clean # None
    /\ WithClean \in BOOLEAN /\ KilledHalfway \subseteq {"making", "removing"}
    /\ MaxFaults \in Nat

Procs == Runs \cup {Maint, Clean}

VARIABLES pc,        \* next step of each process
          todo,      \* runs it has listed and not looked at yet
          target,    \* the run it is reclaiming or removing
          dir,       \* live/xx/run-*: "none", "bare" (no run.lock) or "full"
          runLock,   \* who holds the lock on its run.lock
          stamp,     \* the age of its run.lock, if it has one
          row,       \* runs: whether it is registered
          kept,      \* whether its close is to keep the directory
          closed,    \* how long ago a directory was kept and stamped, or
                     \* that it was not stamped: history
          escaped,   \* whether it has a file worth retaining: history
          retained,  \* the retained file: "none", "fresh" or "old"
          shard,     \* whether the directory it goes to exists
          planned,   \* whether the walk of a pass found it expired
          lifecycle, \* who holds lifecycle.lock
          active,    \* whether clean has met a locked directory
          faults

dirs == <<dir, runLock, stamp>>
file == <<retained, shard, planned>>
vars == <<pc, todo, target, dir, runLock, stamp, row, kept, closed, escaped,
          retained, shard, planned, lifecycle, active, faults>>

Opening == {"mkdir", "lock", "register"}
Reclaiming == {"list", "next", "try", "forget", "release", "remove"}
Removing == {"remove", "sweepRemove", "visitRemove", "closeRemove"}
Retaining == {"install", "link"}
Closing == {"prepare", "unregister", "stamp", "unlock"} \cup Retaining
MaintSteps == {"idle", "sweep", "stat", "sweepRemove", "orphans", "emptyDirs",
               "probe", "count", "walk", "confirm", "recount", "recheck",
               "unlink"} \cup Reclaiming
HelperSteps == {"new", "serve", "closeRemove", "done", "dead"}
                   \cup Opening \cup Reclaiming \cup Closing
CleanSteps == {"idle", "listDirs", "visit", "visitRemove", "orphans", "emptyDirs",
               "count", "wipeLive", "wipeRest", "done"} \cup Reclaiming

Init ==
    /\ pc = [p \in Procs |-> IF p \in Runs THEN "new" ELSE "idle"]
    /\ todo = [p \in Procs |-> {}]
    /\ target = [p \in Procs |-> None]
    /\ dir = [r \in Runs |-> "none"]
    /\ runLock = [r \in Runs |-> None]
    /\ stamp = [r \in Runs |-> "fresh"]
    /\ row = [r \in Runs |-> FALSE]
    /\ kept = [r \in Runs |-> FALSE]
    /\ closed = [r \in Runs |-> "no"]
    /\ escaped = [r \in Runs |-> FALSE]
    /\ retained \in {"none", "old"}
    /\ shard = (retained # "none")
    /\ planned = FALSE
    /\ lifecycle = None
    /\ active = FALSE
    /\ faults = 0

Goto(p, from, to) ==
    /\ pc[p] = from
    /\ pc' = [pc EXCEPT ![p] = to]

(* lifecycle.lock, waited for by helpers and clean, tried by maintenance. *)
TakeLifecycle(p) ==
    /\ lifecycle = None
    /\ lifecycle' = p

DropLifecycle(p) ==
    /\ lifecycle = p
    /\ lifecycle' = None

Unlocked(p, r) ==
    IF runLock[r] = p THEN [runLock EXCEPT ![r] = None] ELSE runLock
-----------------------------------------------------------------------------
(* A helper opens its run, under lifecycle.lock. *)

OpenStore(r) ==
    /\ Goto(r, "new", "mkdir")
    /\ TakeLifecycle(r)
    /\ UNCHANGED <<todo, target, dirs, row, kept, closed, file, active>>

MakeRunDir(r) ==
    /\ Goto(r, "mkdir", "lock")
    /\ dir' = [dir EXCEPT ![r] = "bare"]
    /\ UNCHANGED <<todo, target, runLock, stamp, row, kept, closed, file,
                   lifecycle, active>>

LockRun(r) ==
    /\ Goto(r, "lock", "register")
    /\ runLock[r] = None
    /\ runLock' = [runLock EXCEPT ![r] = r]
    /\ dir' = [dir EXCEPT ![r] = "full"]
    /\ stamp' = [stamp EXCEPT ![r] = "fresh"]
    /\ UNCHANGED <<todo, target, row, kept, closed, file, lifecycle,
                   active>>

(* The lock is given up once the run is registered; the helper reclaims    *)
(* abandoned runs next, without it.                                        *)
RegisterRun(r) ==
    /\ Goto(r, "register", "list")
    /\ row' = [row EXCEPT ![r] = TRUE]
    /\ DropLifecycle(r)
    /\ UNCHANGED <<todo, target, dirs, kept, closed, file, active>>
-----------------------------------------------------------------------------
(* cleanupAbandonedRuns, of a helper that opened, of cacheIdle and of      *)
(* clean, the last two under lifecycle.lock.                               *)

AfterReclaim(p) ==
    CASE p = Maint -> "count"
      [] p = Clean -> "listDirs"
      [] OTHER -> "serve"

ListRuns(p) ==
    /\ Goto(p, "list", "next")
    /\ todo' = [todo EXCEPT ![p] = {t \in Runs \ {p} : row[t]}]
    /\ UNCHANGED <<target, dirs, row, kept, closed, file, lifecycle,
                   active>>

(* A row whose directory is gone is deleted. *)
StatRun(p, t) ==
    /\ t \in todo[p]
    /\ todo' = [todo EXCEPT ![p] = @ \ {t}]
    /\ IF dir[t] = "none"
       THEN /\ Goto(p, "next", "next")
            /\ row' = [row EXCEPT ![t] = FALSE]
            /\ UNCHANGED target
       ELSE /\ Goto(p, "next", "try")
            /\ target' = [target EXCEPT ![p] = t]
            /\ UNCHANGED row
    /\ UNCHANGED <<dirs, kept, closed, file, lifecycle, active>>

(* Mutant of TryLockRun: the lock is taken whoever holds it. *)
TryLockAnyway(p, t) ==
    /\ t = target[p]
    /\ Goto(p, "try", "forget")
    /\ runLock' = [runLock EXCEPT ![t] = p]
    /\ UNCHANGED <<todo, target, dir, stamp, row, kept, closed, file,
                   lifecycle, active>>

(* TryLock makes run.lock if the directory has none; it fails if somebody  *)
(* holds it, or the directory is gone.                                     *)
TryLockRun(p, t) ==
    /\ t = target[p]
    /\ IF dir[t] = "none" \/ runLock[t] # None
       THEN /\ Goto(p, "try", "next")
            /\ target' = [target EXCEPT ![p] = None]
            /\ UNCHANGED dirs
       ELSE /\ Goto(p, "try", "forget")
            /\ runLock' = [runLock EXCEPT ![t] = p]
            /\ dir' = [dir EXCEPT ![t] = "full"]
            /\ stamp' = IF dir[t] = "bare"
                        THEN [stamp EXCEPT ![t] = "fresh"] ELSE stamp
            /\ UNCHANGED target
    /\ UNCHANGED <<todo, row, kept, closed, file, lifecycle,
                   active>>

ForgetRun(p, t) ==
    /\ t = target[p]
    /\ Goto(p, "forget", "release")
    /\ row' = [row EXCEPT ![t] = FALSE]
    /\ UNCHANGED <<todo, target, dirs, kept, closed, file, lifecycle,
                   active>>

ReleaseRun(p, t) ==
    /\ t = target[p]
    /\ Goto(p, "release", "remove")
    /\ runLock' = Unlocked(p, t)
    /\ UNCHANGED <<todo, target, dir, stamp, row, kept, closed, file, lifecycle,
                   active>>

EndReclaim(p) ==
    /\ Goto(p, "next", AfterReclaim(p))
    /\ todo[p] = {}
    /\ UNCHANGED <<todo, target, dirs, row, kept, closed, file, lifecycle,
                   active>>

(* os.RemoveAll, of files in any order. A lock on a removed run.lock is a  *)
(* lock on nothing.                                                        *)
AfterRemove(step) ==
    CASE step = "remove" -> "next"
      [] step = "sweepRemove" -> "sweep"
      [] step = "visitRemove" -> "visit"
      [] step = "closeRemove" -> "done"

RemoveLockFile(p, t) ==
    /\ t = target[p]
    /\ pc[p] \in Removing
    /\ dir[t] = "full"
    /\ dir' = [dir EXCEPT ![t] = "bare"]
    /\ runLock' = [runLock EXCEPT ![t] = None]
    /\ UNCHANGED <<pc, todo, target, stamp, row, kept, closed, file, lifecycle,
                   active>>

RemoveRunDir(p, t) ==
    /\ t = target[p]
    /\ pc[p] \in Removing
    /\ Goto(p, pc[p], AfterRemove(pc[p]))
    /\ dir' = [dir EXCEPT ![t] = "none"]
    /\ runLock' = [runLock EXCEPT ![t] = None]
    /\ stamp' = [stamp EXCEPT ![t] = "fresh"]
    /\ target' = [target EXCEPT ![p] = None]
    /\ UNCHANGED <<todo, row, kept, closed, file, lifecycle, active>>
-----------------------------------------------------------------------------
(* A helper closes its run. *)

BeginClose(r) ==
    /\ Goto(r, "serve", "prepare")
    /\ UNCHANGED <<todo, target, dirs, row, kept, closed, file, lifecycle,
                   active>>

(* No live file is worth retaining; the directory is kept all the same if  *)
(* that could not be made sure of.                                         *)
RetainNothing(r) ==
    /\ Goto(r, "prepare", "unregister")
    /\ \E failed \in BOOLEAN : kept' = [kept EXCEPT ![r] = failed]
    /\ UNCHANGED <<todo, target, dirs, row, closed, file, lifecycle,
                   active>>

(* The stripe of the file's output, held until the file is linked back.    *)
StripeFree == \A r \in Runs : pc[r] \notin Retaining

(* A live file whose path has escaped to the build: under the stripe, the  *)
(* directory it goes to is made.                                           *)
RetainFile(r) ==
    /\ Goto(r, "prepare", "install")
    /\ StripeFree
    /\ shard' = TRUE
    /\ escaped' = [escaped EXCEPT ![r] = TRUE]
    /\ UNCHANGED <<todo, target, dirs, row, kept, closed, retained, planned,
                   lifecycle, active>>

(* It is installed under retained/, or the file that is there stands in    *)
(* for it and is marked used; then it is linked back.                      *)
InstallRetained(r) ==
    /\ Goto(r, "install", "link")
    /\ shard
    /\ retained' = "fresh"
    /\ kept' = [kept EXCEPT ![r] = TRUE]
    /\ UNCHANGED <<todo, target, dirs, row, closed, shard, planned, lifecycle,
                   active>>

(* Mutant of InstallFails: the failed file is left out of account. *)
ForgetFailed(r) ==
    /\ Goto(r, "install", "unregister")
    /\ ~shard
    /\ UNCHANGED <<todo, target, dirs, row, kept, closed, file, lifecycle, active>>

(* The directory was removed as empty: the file stays where it is, and so  *)
(* does the run's directory.                                               *)
InstallFails(r) ==
    /\ Goto(r, "install", "unregister")
    /\ ~shard
    /\ kept' = [kept EXCEPT ![r] = TRUE]
    /\ UNCHANGED <<todo, target, dirs, row, closed, file, lifecycle, active>>

LinkRetained(r) ==
    /\ Goto(r, "link", "unregister")
    /\ UNCHANGED <<todo, target, dirs, row, kept, closed, file, lifecycle,
                   active>>

UnregisterRun(r) ==
    /\ Goto(r, "unregister", "stamp")
    /\ row' = [row EXCEPT ![r] = FALSE]
    /\ UNCHANGED <<todo, target, dirs, kept, closed, file, lifecycle,
                   active>>

(* A catalog that cannot be written leaves the row to whoever reclaims it. *)
UnregisterFails(r) ==
    /\ Goto(r, "unregister", "stamp")
    /\ UNCHANGED <<todo, target, dirs, row, kept, closed, file, lifecycle,
                   active>>

(* Mutant of StampRun: a kept directory keeps the time the run opened. *)
SkipStamp(r) ==
    /\ Goto(r, "stamp", "unlock")
    /\ UNCHANGED <<todo, target, dirs, row, kept, closed, file, lifecycle,
                   active>>

StampRun(r) ==
    /\ Goto(r, "stamp", "unlock")
    /\ stamp' = IF kept[r] THEN [stamp EXCEPT ![r] = "fresh"] ELSE stamp
    /\ UNCHANGED <<todo, target, dir, runLock, row, kept, closed, file,
                   lifecycle, active>>

(* The kept directory is unlocked all the same.                            *)
StampFails(r) ==
    /\ kept[r]
    /\ Goto(r, "stamp", "unlock")
    /\ closed' = [closed EXCEPT ![r] = "unstamped"]
    /\ UNCHANGED <<todo, target, dirs, row, kept, file, lifecycle, active>>

UnlockRun(r) ==
    /\ runLock' = Unlocked(r, r)
    /\ IF kept[r]
       THEN /\ Goto(r, "unlock", "done")
            /\ closed' = [closed EXCEPT ![r] = IF @ = "no" THEN "recently" ELSE @]
            /\ UNCHANGED target
       ELSE /\ Goto(r, "unlock", "closeRemove")
            /\ target' = [target EXCEPT ![r] = r]
            /\ UNCHANGED closed
    /\ kept' = [kept EXCEPT ![r] = FALSE]
    /\ UNCHANGED <<todo, dir, stamp, row, file, lifecycle, active>>
-----------------------------------------------------------------------------
(* Maintenance.  sweepLiveRuns removes closed run directories by age.      *)

(* Mutant of BeginPass: only registered runs are swept. *)
SweepRegistered ==
    /\ Goto(Maint, "idle", "sweep")
    /\ todo' = [todo EXCEPT ![Maint] = {t \in Runs : row[t]}]
    /\ UNCHANGED <<target, dirs, row, kept, closed, file, lifecycle,
                   active>>

BeginPass ==
    /\ Goto(Maint, "idle", "sweep")
    /\ todo' = [todo EXCEPT ![Maint] = {t \in Runs : dir[t] # "none"}]
    /\ UNCHANGED <<target, dirs, row, kept, closed, file, lifecycle,
                   active>>

(* Here TryLock makes no run.lock: a directory without one is let be. *)
SweepTry(t) ==
    /\ t \in todo[Maint]
    /\ todo' = [todo EXCEPT ![Maint] = @ \ {t}]
    /\ IF dir[t] = "full" /\ runLock[t] = None
       THEN /\ Goto(Maint, "sweep", "stat")
            /\ runLock' = [runLock EXCEPT ![t] = Maint]
            /\ target' = [target EXCEPT ![Maint] = t]
       ELSE Goto(Maint, "sweep", "sweep") /\ UNCHANGED <<runLock, target>>
    /\ UNCHANGED <<dir, stamp, row, kept, closed, file, lifecycle, active>>

SweepStat(t) ==
    /\ t = target[Maint]
    /\ IF dir[t] = "full" /\ stamp[t] = "old"
       THEN Goto(Maint, "stat", "sweepRemove") /\ UNCHANGED target
       ELSE /\ Goto(Maint, "stat", "sweep")
            /\ target' = [target EXCEPT ![Maint] = None]
    /\ runLock' = Unlocked(Maint, t)
    /\ UNCHANGED <<todo, dir, stamp, row, kept, closed, file, lifecycle,
                   active>>

EndSweep ==
    /\ Goto(Maint, "sweep", "orphans")
    /\ todo[Maint] = {}
    /\ UNCHANGED <<todo, target, dirs, row, kept, closed, file, lifecycle,
                   active>>

(* removeOrphans, of maintenance and of clean: the file goes, whatever is  *)
(* running, if its output has been evicted.                                *)
CollectRetained(p) ==
    /\ Goto(p, "orphans", "emptyDirs")
    /\ StripeFree
    /\ retained' \in {retained, "none"}
    /\ UNCHANGED <<todo, target, dirs, row, kept, closed, shard, planned, lifecycle,
                   active>>

(* removeEmptyDirs, of retained/.                                          *)
RemoveEmptyDir(p) ==
    /\ Goto(p, "emptyDirs", IF p = Maint THEN "probe" ELSE "count")
    /\ shard' = (shard /\ retained # "none")
    /\ UNCHANGED <<todo, target, dirs, row, kept, closed, retained, planned, lifecycle,
                   active>>

(* expireRetainedWhenIdle: is anybody there?  cacheIdle, under the lock.   *)
ProbeIdle ==
    /\ \/ Goto(Maint, "probe", "list") /\ TakeLifecycle(Maint)
       \/ /\ Goto(Maint, "probe", "idle")
          /\ lifecycle # None
          /\ UNCHANGED lifecycle
    /\ UNCHANGED <<todo, target, dirs, row, kept, closed, file, active>>

Idle == \A r \in Runs : ~row[r]

(* Mutant of CountRuns: the lock is not given up when somebody is there. *)
CountHolding ==
    /\ Goto(Maint, "count", IF Idle THEN "walk" ELSE "idle")
    /\ IF Idle THEN DropLifecycle(Maint) ELSE UNCHANGED lifecycle
    /\ UNCHANGED <<todo, target, dirs, row, kept, closed, file, active>>

CountRuns ==
    /\ Goto(Maint, "count", IF Idle THEN "walk" ELSE "idle")
    /\ DropLifecycle(Maint)
    /\ UNCHANGED <<todo, target, dirs, row, kept, closed, file, active>>

WalkRetained ==
    /\ Goto(Maint, "walk", "confirm")
    /\ planned' = (retained = "old")
    /\ UNCHANGED <<todo, target, dirs, row, kept, closed, retained, shard,
                   lifecycle, active>>

ConfirmIdle ==
    /\ \/ Goto(Maint, "confirm", "recount") /\ TakeLifecycle(Maint) /\ UNCHANGED planned
       \/ /\ Goto(Maint, "confirm", "idle") /\ planned' = FALSE
          /\ lifecycle # None
          /\ UNCHANGED lifecycle
    /\ UNCHANGED <<todo, target, dirs, row, kept, closed, retained, shard, active>>

EndExpiry(from) ==
    /\ Goto(Maint, from, "idle")
    /\ planned' = FALSE
    /\ DropLifecycle(Maint)

(* Mutant of Recount: the probe is taken to hold still. *)
TrustProbe ==
    /\ Goto(Maint, "recount", "recheck")
    /\ UNCHANGED <<todo, target, dirs, row, kept, closed, file, lifecycle,
                   active>>

Recount ==
    /\ IF Idle
       THEN Goto(Maint, "recount", "recheck") /\ UNCHANGED <<planned, lifecycle>>
       ELSE EndExpiry("recount")
    /\ UNCHANGED <<todo, target, dirs, row, kept, closed, retained, shard, active>>

Recheck ==
    /\ IF planned /\ retained = "old"
       THEN Goto(Maint, "recheck", "unlink") /\ UNCHANGED <<planned, lifecycle>>
       ELSE EndExpiry("recheck")
    /\ UNCHANGED <<todo, target, dirs, row, kept, closed, retained, shard, active>>

UnlinkRetained ==
    /\ EndExpiry("unlink")
    /\ retained' = "none"
    /\ UNCHANGED <<todo, target, dirs, row, kept, closed, shard, active>>
-----------------------------------------------------------------------------
(* "gocachez clean", under lifecycle.lock throughout. *)

BeginClean ==
    /\ WithClean
    /\ Goto(Clean, "idle", "list")
    /\ TakeLifecycle(Clean)
    /\ UNCHANGED <<todo, target, dirs, row, kept, closed, file, active>>

ListDirs ==
    /\ Goto(Clean, "listDirs", "visit")
    /\ todo' = [todo EXCEPT ![Clean] = {t \in Runs : dir[t] # "none"}]
    /\ UNCHANGED <<target, dirs, row, kept, closed, file, lifecycle,
                   active>>

(* removeUnusedLiveDirs; TryLock makes the run.lock that is missing. *)
VisitLocked(t) ==
    /\ t \in todo[Clean]
    /\ Goto(Clean, "visit", "visit")
    /\ runLock[t] # None
    /\ active' = TRUE
    /\ todo' = [todo EXCEPT ![Clean] = @ \ {t}]
    /\ UNCHANGED <<target, dirs, row, kept, closed, file, lifecycle>>

VisitUnused(t) ==
    /\ t \in todo[Clean]
    /\ Goto(Clean, "visit", "visitRemove")
    /\ dir[t] # "none" /\ runLock[t] = None
    /\ dir' = [dir EXCEPT ![t] = "full"]
    /\ target' = [target EXCEPT ![Clean] = t]
    /\ todo' = [todo EXCEPT ![Clean] = @ \ {t}]
    /\ UNCHANGED <<runLock, stamp, row, kept, closed, file, lifecycle, active>>

(* A directory its owner has removed meanwhile makes clean give up. *)
VisitGone(t) ==
    /\ t \in todo[Clean]
    /\ Goto(Clean, "visit", "done")
    /\ dir[t] = "none"
    /\ DropLifecycle(Clean)
    /\ UNCHANGED <<todo, target, dirs, row, kept, closed, file, active>>

EndVisit ==
    /\ Goto(Clean, "visit", "orphans")
    /\ todo[Clean] = {}
    /\ UNCHANGED <<todo, target, dirs, row, kept, closed, file, lifecycle,
                   active>>

(* Mutant of CountForClean: the rows alone tell whether the cache is used. *)
CountRowsOnly ==
    /\ IF Idle
       THEN Goto(Clean, "count", "wipeLive") /\ UNCHANGED lifecycle
       ELSE Goto(Clean, "count", "done") /\ DropLifecycle(Clean)
    /\ UNCHANGED <<todo, target, dirs, row, kept, closed, file, active>>

CountForClean ==
    /\ IF active \/ ~Idle
       THEN Goto(Clean, "count", "done") /\ DropLifecycle(Clean)
       ELSE Goto(Clean, "count", "wipeLive") /\ UNCHANGED lifecycle
    /\ UNCHANGED <<todo, target, dirs, row, kept, closed, file, active>>

WipeLive ==
    /\ Goto(Clean, "wipeLive", "wipeRest")
    /\ dir' = [r \in Runs |-> "none"]
    /\ runLock' = [r \in Runs |-> None]
    /\ stamp' = [r \in Runs |-> "fresh"]
    /\ UNCHANGED <<todo, target, row, kept, closed, file, lifecycle,
                   active>>

WipeRest ==
    /\ Goto(Clean, "wipeRest", "done")
    /\ retained' = "none"
    /\ shard' = FALSE
    /\ row' = [r \in Runs |-> FALSE]
    /\ DropLifecycle(Clean)
    /\ UNCHANGED <<todo, target, dirs, kept, closed, planned, active>>
-----------------------------------------------------------------------------
(* Time, failures and death. *)

(* retainedAge goes by.  A close is far quicker: none that has stamped its *)
(* directory, or retained a file, is still at it by then.                  *)
Age ==
    /\ \A r \in Runs : pc[r] \notin Closing
    /\ stamp' = [r \in Runs |-> IF dir[r] = "full" THEN "old" ELSE stamp[r]]
    /\ retained' = IF retained = "fresh" THEN "old" ELSE retained
    /\ closed' = [r \in Runs |->
                    IF closed[r] = "recently" THEN "long" ELSE closed[r]]
    /\ UNCHANGED <<pc, todo, target, dir, runLock, row, kept, escaped, shard,
                   planned, lifecycle, active, faults>>

CallFails(r) ==
    /\ UnregisterFails(r) \/ StampFails(r)
    /\ faults < MaxFaults
    /\ faults' = faults + 1
    /\ UNCHANGED escaped

Running(p) == pc[p] \notin {"new", "done", "dead", "idle"}

MayDieHere(p) ==
    /\ pc[p] = "lock" => "making" \in KilledHalfway
    /\ pc[p] \in Removing /\ dir[target[p]] = "bare"
        => "removing" \in KilledHalfway

(* The locks of a process die with it; another pass may be begun. *)
Kill(p) ==
    /\ Running(p)
    /\ faults < MaxFaults
    /\ MayDieHere(p)
    /\ faults' = faults + 1
    /\ pc' = [pc EXCEPT ![p] = IF p = Maint THEN "idle"
                               ELSE IF p = Clean THEN "done" ELSE "dead"]
    /\ lifecycle' = IF lifecycle = p THEN None ELSE lifecycle
    /\ runLock' = [r \in Runs |-> IF runLock[r] = p THEN None ELSE runLock[r]]
    /\ todo' = [todo EXCEPT ![p] = {}]
    /\ target' = [target EXCEPT ![p] = None]
    /\ kept' = [r \in Runs |-> kept[r] /\ r # p]
    /\ escaped' = [r \in Runs |-> escaped[r] /\ r # p]
    /\ planned' = (planned /\ p # Maint)
    /\ UNCHANGED <<dir, stamp, row, closed, retained, shard, active>>
-----------------------------------------------------------------------------
Reclaim(p) ==
    \/ ListRuns(p) \/ EndReclaim(p)
    \/ \E t \in Runs :
        \/ StatRun(p, t) \/ TryLockRun(p, t) \/ ForgetRun(p, t)
        \/ ReleaseRun(p, t) \/ RemoveLockFile(p, t) \/ RemoveRunDir(p, t)

Open(r) == OpenStore(r) \/ MakeRunDir(r) \/ LockRun(r) \/ RegisterRun(r)

Close(r) ==
    \/ BeginClose(r) \/ RetainNothing(r) \/ InstallRetained(r) \/ InstallFails(r)
    \/ LinkRetained(r) \/ UnregisterRun(r) \/ StampRun(r) \/ UnlockRun(r)

MaintPass ==
    \/ BeginPass \/ EndSweep \/ ProbeIdle \/ CountRuns \/ WalkRetained
    \/ ConfirmIdle \/ Recount \/ Recheck \/ UnlinkRetained
    \/ CollectRetained(Maint) \/ RemoveEmptyDir(Maint)
    \/ \E t \in Runs : SweepTry(t) \/ SweepStat(t)

CleanAll ==
    \/ BeginClean \/ ListDirs \/ EndVisit \/ CountForClean \/ WipeLive \/ WipeRest
    \/ CollectRetained(Clean) \/ RemoveEmptyDir(Clean)
    \/ \E t \in Runs : VisitLocked(t) \/ VisitUnused(t) \/ VisitGone(t)

HelperStep(r) ==
    /\ \/ RetainFile(r)
       \/ (Open(r) \/ Close(r) \/ Reclaim(r)) /\ UNCHANGED escaped
    /\ UNCHANGED faults
MaintStep == (MaintPass \/ Reclaim(Maint)) /\ UNCHANGED <<escaped, faults>>
CleanStep == (CleanAll \/ Reclaim(Clean)) /\ UNCHANGED <<escaped, faults>>

Next ==
    \/ \E r \in Runs : HelperStep(r) \/ CallFails(r)
    \/ MaintStep
    \/ CleanStep
    \/ Age
    \/ \E p \in Procs : Kill(p)

(* Builds end, what has begun goes on, and maintenance is run again and    *)
(* again, time going by.                                                   *)
Fairness ==
    /\ \A r \in Runs : WF_vars(HelperStep(r))
    /\ WF_vars(MaintStep)
    /\ WF_vars(CleanStep)
    /\ WF_vars(Age)

Spec == Init /\ [][Next]_vars
FairSpec == Spec /\ Fairness
-----------------------------------------------------------------------------
(* Properties.                                                             *)

Opened(r) == pc[r] \notin {"new"} \cup Opening

Serving(r) ==
    \/ pc[r] \in {"serve", "prepare"} \cup Retaining
    \/ pc[r] \in Reclaiming

Owning(r) == Serving(r) \/ pc[r] \in Closing
Ended(r) == pc[r] \in {"closeRemove", "done", "dead"}

HoldsLifecycle(p) ==
    \/ p \in Runs /\ pc[p] \in Opening
    \/ p = Maint /\ \/ pc[p] \in {"count", "recount", "recheck", "unlink"}
                    \/ pc[p] \in Reclaiming
    \/ p = Clean /\ pc[p] \in CleanSteps \ {"idle", "done"}

LifecycleHeld == \A p \in Procs : lifecycle = p <=> HoldsLifecycle(p)

(* Every variable has its type, and lifecycle.lock is held by the process  *)
(* that is in a part of the code it guards, and by no other.               *)
TypeOK ==
    /\ pc \in [Procs -> HelperSteps \cup MaintSteps \cup CleanSteps]
    /\ \A r \in Runs : pc[r] \in HelperSteps
    /\ pc[Maint] \in MaintSteps
    /\ pc[Clean] \in CleanSteps
    /\ todo \in [Procs -> SUBSET Runs]
    /\ target \in [Procs -> Runs \cup {None}]
    /\ dir \in [Runs -> {"none", "bare", "full"}]
    /\ runLock \in [Runs -> Procs \cup {None}]
    /\ stamp \in [Runs -> {"fresh", "old"}]
    /\ row \in [Runs -> BOOLEAN]
    /\ kept \in [Runs -> BOOLEAN]
    /\ closed \in [Runs -> {"no", "recently", "long", "unstamped"}]
    /\ escaped \in [Runs -> BOOLEAN]
    /\ retained \in {"none", "fresh", "old"}
    /\ shard \in BOOLEAN /\ (retained # "none" => shard)
    /\ planned \in BOOLEAN
    /\ lifecycle \in Procs \cup {None}
    /\ active \in BOOLEAN
    /\ faults \in 0..MaxFaults
    /\ LifecycleHeld

(* While a helper serves, nobody takes its directory, its lock or its row: *)
(* run.lock is what tells reclaim, sweep and clean that it is alive, and   *)
(* its row what tells expiry.  The directory and the lock stay until it    *)
(* gives up the lock itself, the row gone or not.                          *)
LiveRunKept ==
    \A r \in Runs :
        /\ Serving(r) => row[r]
        /\ Owning(r) => dir[r] = "full" /\ runLock[r] = r

(* The retained file a closing helper has installed, or taken for          *)
(* installed, is there when it links it into its run: files are expired    *)
(* only when no run is registered, and a run is until it has linked its    *)
(* own ("that registration is what defers retained-file expiry"); those of *)
(* evicted outputs are collected under the stripe it holds ("it is         *)
(* ungated, so the run registration cannot defer it").                     *)
RetentionSucceeds == \A r \in Runs : pc[r] = "link" => retained # "none"

(* A helper that had a file worth retaining keeps its directory, though    *)
(* the sweep takes the place the file was going to from under it ("the     *)
(* paths already retained have escaped to the build").                     *)
EscapedPathsKept == \A r \in Runs : pc[r] = "closeRemove" => ~escaped[r]

(* The sweep takes no directory that a close has kept recently: the paths  *)
(* in it may be in use for as long as retainedAge ("Stamped whenever the   *)
(* directory is kept, including when it is kept because something failed").*)
(* A directory whose stamping failed has the age of its run.               *)
SweepSparesRecent ==
    pc[Maint] = "sweepRemove" => closed[target[Maint]] # "recently"

(* Clean removes what is left only if no helper is between having opened   *)
(* its run and having closed it.                                           *)
CleanWaitsForRuns ==
    pc[Clean] \in {"wipeLive", "wipeRest"}
        => \A r \in Runs : ~Owning(r)

(* The invariant that makes these so, part by part.  Until a run is opened *)
(* nobody else knows of it, and whoever lists one lists an opened one.     *)
OpeningAlone ==
    \A r \in Runs :
        /\ pc[r] \in {"new", "mkdir"} => dir[r] = "none"
        /\ pc[r] = "lock" => dir[r] = "bare"
        /\ pc[r] = "register" => dir[r] = "full" /\ runLock[r] = r
        /\ row[r] => Opened(r)

ListedOpened ==
    \A p \in Procs :
        /\ pc[p] \in Reclaiming \ {"list"} => \A t \in todo[p] : Opened(t)
        /\ pc[p] = "try" => target[p] \in Runs /\ Opened(target[p])

(* Whoever has had the lock of another run, or removes one, is at a run    *)
(* whose helper is gone or is removing it itself.                          *)
TargetsEnded ==
    \A p \in Procs :
        pc[p] \in {"forget", "release", "stat"} \cup Removing
            => target[p] \in Runs /\ Ended(target[p])

(* Clean has met every run that is open, or has it still to visit.         *)
VisitedOrListed ==
    pc[Clean] \in {"visit", "visitRemove", "orphans", "emptyDirs", "count"}
        => /\ pc[Clean] \in {"orphans", "emptyDirs", "count"} => todo[Clean] = {}
           /\ \A r \in Runs : Owning(r) => active \/ r \in todo[Clean]

(* No helper serves while a file expires.                                  *)
ExpiryAlone ==
    pc[Maint] \in {"recheck", "unlink"} => \A r \in Runs : ~Serving(r)

(* A close that has a file worth retaining keeps its directory.            *)
EscapesKept ==
    \A r \in Runs :
        escaped[r] => \/ pc[r] = "done" \/ pc[r] = "install"
                      \/ pc[r] \in {"link", "unregister", "stamp", "unlock"} /\ kept[r]

(* A directory that was kept recently is stamped, unless that failed.      *)
KeptStamped ==
    \A r \in Runs :
        /\ closed[r] = "recently" => stamp[r] = "fresh"
        /\ pc[r] = "unlock" /\ kept[r] /\ closed[r] # "unstamped" => stamp[r] = "fresh"

LifecycleInvariant ==
    /\ TypeOK /\ OpeningAlone /\ ListedOpened /\ TargetsEnded /\ LiveRunKept
    /\ VisitedOrListed /\ ExpiryAlone /\ EscapesKept /\ KeptStamped
    /\ RetentionSucceeds /\ EscapedPathsKept /\ SweepSparesRecent
    /\ CleanWaitsForRuns

(* A directory that a close has kept stays for as long as retainedAge ("A  *)
(* clean exit that retains a go-list file leaves its directory behind on   *)
(* purpose").                                                              *)
KeptDirStays == \A r \in Runs : closed[r] = "recently" => dir[r] = "full"

(* What a killed helper has left is removed in the end: by reclaim while   *)
(* it is registered, and by the sweep otherwise ("This is the backstop for *)
(* the ones it cannot see, whose runs row was already deleted").           *)
DeadRunRemoved == \A r \in Runs : pc[r] = "dead" ~> dir[r] = "none"
=============================================================================
