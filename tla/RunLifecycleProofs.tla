-------------------------- MODULE RunLifecycleProofs --------------------------
(* Proofs about RunLifecycle, for any number of helpers, kills and failing *)
(* calls, with or without "gocachez clean".                                *)
EXTENDS RunLifecycle, TLAPS

(* The sets of steps, the types and the parts of the invariant: each of    *)
(* them speaks of the program counters, so that a step is checked against  *)
(* them all.                                                               *)
USE RunAssumption DEF RunAssumption, Procs, Opening, Reclaiming, Removing, Retaining,
    Closing, HelperSteps, MaintSteps, CleanSteps, Opened, Serving, Owning, Ended,
    Goto, TakeLifecycle, DropLifecycle, dirs, file

LEMMA InitInvariant == Init => LifecycleInvariant
<1> SUFFICES ASSUME Init PROVE LifecycleInvariant
    OBVIOUS
<1>1. LifecycleHeld
    BY DEF Init, LifecycleHeld, HoldsLifecycle
<1>2. pc \in [Procs -> HelperSteps \cup MaintSteps \cup CleanSteps]
    BY DEF Init
<1>3. faults \in 0..MaxFaults
    BY DEF Init
<1>4. TypeOK
    BY <1>1, <1>2, <1>3 DEF Init, TypeOK
<1> QED
    BY <1>4 DEF Init, LifecycleInvariant, OpeningAlone, ListedOpened, TargetsEnded, LiveRunKept,
       VisitedOrListed, ExpiryAlone, EscapesKept, KeptStamped, RetentionSucceeds,
       EscapedPathsKept, SweepSparesRecent, CleanWaitsForRuns

(* A helper that opens its run holds lifecycle.lock until the run is       *)
(* registered: it can belong to nobody else before.                        *)
LEMMA OpenStep ==
    ASSUME LifecycleInvariant, NEW r \in Runs, Open(r), UNCHANGED <<escaped, faults>>
    PROVE  LifecycleInvariant'
<1> USE DEF LifecycleInvariant, TypeOK, LifecycleHeld, HoldsLifecycle, OpeningAlone,
            ListedOpened, TargetsEnded, LiveRunKept, VisitedOrListed, ExpiryAlone, EscapesKept,
            KeptStamped, RetentionSucceeds, EscapedPathsKept, SweepSparesRecent, CleanWaitsForRuns
<1>1. ASSUME OpenStore(r) PROVE LifecycleInvariant'
    BY <1>1 DEF OpenStore
<1>2. ASSUME MakeRunDir(r) PROVE LifecycleInvariant'
    BY <1>2 DEF MakeRunDir
<1>3. ASSUME LockRun(r) PROVE LifecycleInvariant'
    BY <1>3 DEF LockRun
<1>4. ASSUME RegisterRun(r) PROVE LifecycleInvariant'
    BY <1>4 DEF RegisterRun
<1> QED
    BY <1>1, <1>2, <1>3, <1>4 DEF Open

(* The last step of a close that can fail to keep what it should.          *)
LEMMA UnlockStep ==
    ASSUME LifecycleInvariant, NEW r \in Runs, UnlockRun(r),
           UNCHANGED <<escaped, faults>>
    PROVE  LifecycleInvariant'
<1> USE DEF LifecycleInvariant, UnlockRun, Unlocked
<1>1. LifecycleHeld'
    BY DEF TypeOK, LifecycleHeld, HoldsLifecycle
<1>2. TypeOK'
    BY <1>1 DEF TypeOK
<1>3. OpeningAlone' /\ LiveRunKept'
    BY DEF TypeOK, OpeningAlone, LiveRunKept, ListedOpened
<1>4. ListedOpened' /\ TargetsEnded'
    <2>1. \A p \in Procs \ {r} : pc'[p] = pc[p] /\ target'[p] = target[p]
        BY DEF TypeOK
    <2>2. \A t \in Runs : (Opened(t) => Opened(t)') /\ (Ended(t) => Ended(t)')
        BY DEF TypeOK
    <2>3. \/ pc'[r] = "done"
          \/ pc'[r] = "closeRemove" /\ target'[r] = r
        BY DEF TypeOK
    <2>4. ListedOpened'
        BY <2>1, <2>2, <2>3 DEF TypeOK, ListedOpened
    <2>5. TargetsEnded'
        BY <2>1, <2>2, <2>3 DEF TypeOK, TargetsEnded
    <2> QED
        BY <2>4, <2>5
<1>5. VisitedOrListed' /\ ExpiryAlone' /\ CleanWaitsForRuns'
    BY DEF TypeOK, VisitedOrListed, ExpiryAlone, CleanWaitsForRuns
<1>6. KeptStamped'
    <2>1. ASSUME NEW t \in Runs, t # r PROVE closed'[t] = closed[t] /\ pc'[t] = pc[t] /\ kept'[t] = kept[t]
        BY <2>1 DEF TypeOK
    <2>2. ~kept'[r]
        BY DEF TypeOK
    <2>3. closed'[r] = "recently" => stamp[r] = "fresh"
        BY DEF TypeOK, KeptStamped
    <2> QED
        BY <2>1, <2>2, <2>3 DEF KeptStamped
<1>7. EscapesKept' /\ RetentionSucceeds' /\ EscapedPathsKept'
    BY DEF TypeOK, EscapesKept, RetentionSucceeds, EscapedPathsKept
<1>8. SweepSparesRecent'
    BY DEF TypeOK, SweepSparesRecent, TargetsEnded
<1> QED
    BY <1>2, <1>3, <1>4, <1>5, <1>6, <1>7, <1>8

(* A helper that closes its run keeps what it holds until it gives up its  *)
(* lock, and its row until its file is linked back.                        *)
LEMMA CloseStep ==
    ASSUME LifecycleInvariant, NEW r \in Runs,
           RetainFile(r) \/ (Close(r) /\ UNCHANGED escaped), UNCHANGED faults
    PROVE  LifecycleInvariant'
<1> USE DEF LifecycleInvariant, TypeOK, LifecycleHeld, HoldsLifecycle, OpeningAlone,
            ListedOpened, TargetsEnded, LiveRunKept, VisitedOrListed, ExpiryAlone, EscapesKept,
            KeptStamped, RetentionSucceeds, EscapedPathsKept, SweepSparesRecent, CleanWaitsForRuns
<1>1. ASSUME BeginClose(r), UNCHANGED escaped PROVE LifecycleInvariant'
    BY <1>1 DEF BeginClose
<1>2. ASSUME RetainNothing(r), UNCHANGED escaped PROVE LifecycleInvariant'
    BY <1>2 DEF RetainNothing
<1>3. ASSUME RetainFile(r) PROVE LifecycleInvariant'
    BY <1>3 DEF RetainFile
<1>4. ASSUME InstallRetained(r), UNCHANGED escaped PROVE LifecycleInvariant'
    BY <1>4 DEF InstallRetained
<1>5. ASSUME InstallFails(r), UNCHANGED escaped PROVE LifecycleInvariant'
    BY <1>5, SMTT(30) DEF InstallFails
<1>6. ASSUME LinkRetained(r), UNCHANGED escaped PROVE LifecycleInvariant'
    BY <1>6 DEF LinkRetained
<1>7. ASSUME UnregisterRun(r), UNCHANGED escaped PROVE LifecycleInvariant'
    BY <1>7 DEF UnregisterRun
<1>8. ASSUME StampRun(r), UNCHANGED escaped PROVE LifecycleInvariant'
    BY <1>8 DEF StampRun
<1>9. ASSUME UnlockRun(r), UNCHANGED escaped PROVE LifecycleInvariant'
    BY <1>9, UnlockStep
<1> QED
    BY <1>1, <1>2, <1>3, <1>4, <1>5, <1>6, <1>7, <1>8, <1>9 DEF Close

(* A close whose row or whose stamp could not be written goes on.          *)
LEMMA FailStep ==
    ASSUME LifecycleInvariant, NEW r \in Runs, CallFails(r)
    PROVE  LifecycleInvariant'
<1> USE DEF LifecycleInvariant, TypeOK, LifecycleHeld, HoldsLifecycle, OpeningAlone,
            ListedOpened, TargetsEnded, LiveRunKept, VisitedOrListed, ExpiryAlone, EscapesKept,
            KeptStamped, RetentionSucceeds, EscapedPathsKept, SweepSparesRecent, CleanWaitsForRuns
<1>1. ASSUME UnregisterFails(r) PROVE LifecycleInvariant'
    BY <1>1 DEF CallFails, UnregisterFails
<1>2. ASSUME StampFails(r) PROVE LifecycleInvariant'
    BY <1>2 DEF CallFails, StampFails
<1> QED
    BY <1>1, <1>2 DEF CallFails

(* A row is deleted of a run that has no directory, thus of none that is   *)
(* open.                                                                   *)
LEMMA StatStep ==
    ASSUME LifecycleInvariant, NEW p \in Procs, NEW t \in Runs, StatRun(p, t),
           UNCHANGED <<escaped, faults>>
    PROVE  LifecycleInvariant'
<1> USE DEF LifecycleInvariant, StatRun
<1>1. LifecycleHeld'
    BY DEF TypeOK, LifecycleHeld, HoldsLifecycle
<1>2. TypeOK'
    <2>1. CASE dir[t] = "none"
        <3>1. /\ pc' \in [Procs -> HelperSteps \cup MaintSteps \cup CleanSteps]
              /\ \A r \in Runs : pc'[r] \in HelperSteps
              /\ pc'[Maint] \in MaintSteps /\ pc'[Clean] \in CleanSteps
            BY <2>1 DEF TypeOK
        <3>2. row' \in [Runs -> BOOLEAN] /\ todo' \in [Procs -> SUBSET Runs]
            BY <2>1 DEF TypeOK
        <3> QED
            BY <1>1, <3>1, <3>2 DEF TypeOK
    <2>2. CASE dir[t] # "none"
        BY <1>1, <2>2 DEF TypeOK
    <2> QED
        BY <2>1, <2>2
<1>3. OpeningAlone' /\ LiveRunKept'
    <2>1. ASSUME NEW r \in Runs, row'[r] # row[r] PROVE ~Serving(r) /\ ~row'[r]
        BY <2>1 DEF TypeOK, LiveRunKept
    <2> QED
        BY <2>1, SMTT(20) DEF TypeOK, OpeningAlone, LiveRunKept, ListedOpened
<1>4. ListedOpened' /\ TargetsEnded'
    BY DEF TypeOK, OpeningAlone, LiveRunKept, ListedOpened, TargetsEnded
<1>5. VisitedOrListed' /\ ExpiryAlone' /\ CleanWaitsForRuns'
    BY DEF TypeOK, VisitedOrListed, ExpiryAlone, CleanWaitsForRuns
<1>6. EscapesKept' /\ KeptStamped' /\ RetentionSucceeds' /\ EscapedPathsKept'
    BY DEF TypeOK, EscapesKept, KeptStamped, RetentionSucceeds, EscapedPathsKept
<1>7. SweepSparesRecent'
    BY DEF TypeOK, SweepSparesRecent, TargetsEnded
<1> QED
    BY <1>2, <1>3, <1>4, <1>5, <1>6, <1>7

(* The lock of a listed run is free only if its helper is gone.            *)
LEMMA TryLockStep ==
    ASSUME LifecycleInvariant, NEW p \in Procs, NEW t \in Runs, TryLockRun(p, t),
           UNCHANGED <<escaped, faults>>
    PROVE  LifecycleInvariant'
<1> USE DEF LifecycleInvariant, TryLockRun
<1>1. LifecycleHeld'
    BY DEF TypeOK, LifecycleHeld, HoldsLifecycle
<1>2. TypeOK'
    BY <1>1 DEF TypeOK
<1>3. OpeningAlone' /\ LiveRunKept'
    BY DEF TypeOK, OpeningAlone, LiveRunKept, ListedOpened
<1>4. ListedOpened' /\ TargetsEnded'
    BY DEF TypeOK, OpeningAlone, LiveRunKept, ListedOpened, TargetsEnded
<1>5. VisitedOrListed' /\ ExpiryAlone' /\ CleanWaitsForRuns'
    BY DEF TypeOK, VisitedOrListed, ExpiryAlone, CleanWaitsForRuns
<1>6. EscapesKept' /\ KeptStamped' /\ RetentionSucceeds' /\ EscapedPathsKept'
    BY DEF TypeOK, EscapesKept, KeptStamped, RetentionSucceeds, EscapedPathsKept
<1>7. SweepSparesRecent'
    BY DEF TypeOK, SweepSparesRecent, TargetsEnded
<1> QED
    BY <1>2, <1>3, <1>4, <1>5, <1>6, <1>7

(* A directory is removed of a run that is removed by its own helper, or   *)
(* whose helper is gone.                                                   *)
LEMMA RemoveStep ==
    ASSUME LifecycleInvariant, NEW p \in Procs, NEW t \in Runs, RemoveRunDir(p, t),
           UNCHANGED <<escaped, faults>>
    PROVE  LifecycleInvariant'
<1> USE DEF LifecycleInvariant, RemoveRunDir
<1>1. Ended(t)
    BY DEF TargetsEnded
<1>2. /\ AfterRemove("remove") = "next" /\ AfterRemove("sweepRemove") = "sweep"
      /\ AfterRemove("visitRemove") = "visit" /\ AfterRemove("closeRemove") = "done"
    BY DEF AfterRemove
<1>3. LifecycleHeld'
    BY <1>2 DEF TypeOK, LifecycleHeld, HoldsLifecycle
<1>4. TypeOK'
    <2>1. /\ pc' \in [Procs -> HelperSteps \cup MaintSteps \cup CleanSteps]
          /\ \A r \in Runs : pc'[r] \in HelperSteps
          /\ pc'[Maint] \in MaintSteps /\ pc'[Clean] \in CleanSteps
        BY <1>2 DEF TypeOK
    <2> QED
        BY <1>3, <2>1 DEF TypeOK
<1>5. OpeningAlone' /\ LiveRunKept'
    BY <1>1, <1>2 DEF TypeOK, OpeningAlone, LiveRunKept
<1>6. ListedOpened' /\ TargetsEnded'
    BY <1>2 DEF TypeOK, ListedOpened, TargetsEnded
<1>7. VisitedOrListed' /\ ExpiryAlone' /\ CleanWaitsForRuns'
    BY <1>2 DEF TypeOK, VisitedOrListed, ExpiryAlone, CleanWaitsForRuns
<1>8. EscapesKept' /\ KeptStamped' /\ RetentionSucceeds' /\ EscapedPathsKept'
    BY <1>2 DEF TypeOK, EscapesKept, KeptStamped, RetentionSucceeds, EscapedPathsKept
<1>9. SweepSparesRecent'
    BY <1>2 DEF TypeOK, SweepSparesRecent
<1> QED
    BY <1>3, <1>4, <1>5, <1>6, <1>7, <1>8, <1>9

(* A run is reclaimed only once its lock is free, which it is of no run    *)
(* that is open.                                                           *)
LEMMA ReclaimStep ==
    ASSUME LifecycleInvariant, NEW p \in Procs, Reclaim(p), UNCHANGED <<escaped, faults>>
    PROVE  LifecycleInvariant'
<1> USE DEF LifecycleInvariant, TypeOK, LifecycleHeld, HoldsLifecycle, OpeningAlone,
            ListedOpened, TargetsEnded, LiveRunKept, VisitedOrListed, ExpiryAlone, EscapesKept,
            KeptStamped, RetentionSucceeds, EscapedPathsKept, SweepSparesRecent, CleanWaitsForRuns
<1>1. ASSUME ListRuns(p) PROVE LifecycleInvariant'
    BY <1>1 DEF ListRuns
<1>2. ASSUME EndReclaim(p) PROVE LifecycleInvariant'
    BY <1>2 DEF EndReclaim, AfterReclaim
<1>3. ASSUME NEW t \in Runs, StatRun(p, t) PROVE LifecycleInvariant'
    BY <1>3, StatStep
<1>4. ASSUME NEW t \in Runs, TryLockRun(p, t) PROVE LifecycleInvariant'
    BY <1>4, TryLockStep
<1>5. ASSUME NEW t \in Runs, ForgetRun(p, t) PROVE LifecycleInvariant'
    BY <1>5 DEF ForgetRun
<1>6. ASSUME NEW t \in Runs, ReleaseRun(p, t) PROVE LifecycleInvariant'
    BY <1>6 DEF ReleaseRun, Unlocked
<1>7. ASSUME NEW t \in Runs, RemoveLockFile(p, t) PROVE LifecycleInvariant'
    BY <1>7 DEF RemoveLockFile
<1>8. ASSUME NEW t \in Runs, RemoveRunDir(p, t) PROVE LifecycleInvariant'
    BY <1>8, RemoveStep
<1> QED
    BY <1>1, <1>2, <1>3, <1>4, <1>5, <1>6, <1>7, <1>8 DEF Reclaim

(* So it is for the sweep, which lists directories and not rows.           *)
LEMMA SweepTryStep ==
    ASSUME LifecycleInvariant, NEW t \in Runs, SweepTry(t),
           UNCHANGED <<escaped, faults>>
    PROVE  LifecycleInvariant'
<1> USE DEF LifecycleInvariant, SweepTry
<1>1. LifecycleHeld'
    BY DEF TypeOK, LifecycleHeld, HoldsLifecycle
<1>2. TypeOK'
    BY <1>1 DEF TypeOK
<1>3. OpeningAlone' /\ LiveRunKept'
    BY DEF TypeOK, OpeningAlone, LiveRunKept, ListedOpened
<1>4. ListedOpened' /\ TargetsEnded'
    BY DEF TypeOK, OpeningAlone, LiveRunKept, ListedOpened, TargetsEnded
<1>5. VisitedOrListed' /\ ExpiryAlone' /\ CleanWaitsForRuns'
    BY DEF TypeOK, VisitedOrListed, ExpiryAlone, CleanWaitsForRuns
<1>6. EscapesKept' /\ KeptStamped' /\ RetentionSucceeds' /\ EscapedPathsKept'
    BY DEF TypeOK, EscapesKept, KeptStamped, RetentionSucceeds, EscapedPathsKept
<1>7. SweepSparesRecent'
    BY DEF TypeOK, SweepSparesRecent, TargetsEnded
<1> QED
    BY <1>2, <1>3, <1>4, <1>5, <1>6, <1>7

(* Expiry confirms that nobody is there under lifecycle.lock.              *)
LEMMA ConfirmStep ==
    ASSUME LifecycleInvariant, ConfirmIdle,
           UNCHANGED <<escaped, faults>>
    PROVE  LifecycleInvariant'
<1> USE DEF LifecycleInvariant, ConfirmIdle
<1>1. LifecycleHeld'
    BY DEF TypeOK, LifecycleHeld, HoldsLifecycle
<1>2. TypeOK'
    <2>1. /\ pc' \in [Procs -> HelperSteps \cup MaintSteps \cup CleanSteps]
          /\ \A r \in Runs : pc'[r] \in HelperSteps
          /\ pc'[Maint] \in MaintSteps /\ pc'[Clean] \in CleanSteps
        BY DEF TypeOK
    <2>2. planned' \in BOOLEAN /\ lifecycle' \in Procs \cup {None}
        BY DEF TypeOK
    <2> QED
        BY <1>1, <2>1, <2>2 DEF TypeOK
<1>3. OpeningAlone' /\ LiveRunKept'
    BY DEF TypeOK, OpeningAlone, LiveRunKept, ListedOpened
<1>4. ListedOpened' /\ TargetsEnded'
    BY DEF TypeOK, OpeningAlone, LiveRunKept, ListedOpened, TargetsEnded
<1>5. VisitedOrListed' /\ ExpiryAlone' /\ CleanWaitsForRuns'
    BY DEF TypeOK, VisitedOrListed, ExpiryAlone, CleanWaitsForRuns
<1>6. EscapesKept' /\ KeptStamped' /\ RetentionSucceeds' /\ EscapedPathsKept'
    BY DEF TypeOK, EscapesKept, KeptStamped, RetentionSucceeds, EscapedPathsKept
<1>7. SweepSparesRecent'
    BY DEF TypeOK, SweepSparesRecent, TargetsEnded
<1> QED
    BY <1>2, <1>3, <1>4, <1>5, <1>6, <1>7

(* Expiry ends, with the file or without it.                               *)
LEMMA EndExpiryStep ==
    ASSUME LifecycleInvariant, NEW s \in {"recount", "recheck", "unlink"}, EndExpiry(s),
           retained' = retained \/ (s = "unlink" /\ retained' = "none"),
           UNCHANGED <<todo, target, dirs, row, kept, closed, shard, active>>,
           UNCHANGED <<escaped, faults>>
    PROVE  LifecycleInvariant'
<1> USE DEF LifecycleInvariant, EndExpiry
<1>1. LifecycleHeld'
    BY DEF TypeOK, LifecycleHeld, HoldsLifecycle
<1>2. TypeOK'
    <2>1. CASE s = "unlink"
        BY <1>1, <2>1 DEF TypeOK
    <2>2. CASE s # "unlink"
        BY <1>1, <2>2 DEF TypeOK
    <2> QED
        BY <2>1, <2>2
<1>3. OpeningAlone' /\ LiveRunKept'
    BY DEF TypeOK, OpeningAlone, LiveRunKept, ListedOpened
<1>4. ListedOpened' /\ TargetsEnded'
    BY DEF TypeOK, OpeningAlone, LiveRunKept, ListedOpened, TargetsEnded
<1>5. VisitedOrListed' /\ ExpiryAlone' /\ CleanWaitsForRuns'
    BY DEF TypeOK, VisitedOrListed, ExpiryAlone, CleanWaitsForRuns
<1>6. EscapesKept' /\ KeptStamped' /\ RetentionSucceeds' /\ EscapedPathsKept'
    BY DEF TypeOK, EscapesKept, KeptStamped, RetentionSucceeds, EscapedPathsKept, ExpiryAlone
<1>7. SweepSparesRecent'
    BY DEF TypeOK, SweepSparesRecent, TargetsEnded
<1> QED
    BY <1>2, <1>3, <1>4, <1>5, <1>6, <1>7

(* Maintenance takes a directory whose lock is free, and files when no run *)
(* has a row and none can get one.                                         *)
LEMMA MaintenanceStep ==
    ASSUME LifecycleInvariant, MaintPass, UNCHANGED <<escaped, faults>>
    PROVE  LifecycleInvariant'
<1> USE DEF LifecycleInvariant, TypeOK, LifecycleHeld, HoldsLifecycle, OpeningAlone,
            ListedOpened, TargetsEnded, LiveRunKept, VisitedOrListed, ExpiryAlone, EscapesKept,
            KeptStamped, RetentionSucceeds, EscapedPathsKept, SweepSparesRecent, CleanWaitsForRuns
<1>1. ASSUME BeginPass PROVE LifecycleInvariant'
    BY <1>1 DEF BeginPass
<1>2. ASSUME NEW t \in Runs, SweepTry(t) PROVE LifecycleInvariant'
    BY <1>2, SweepTryStep
<1>3. ASSUME NEW t \in Runs, SweepStat(t) PROVE LifecycleInvariant'
    BY <1>3 DEF SweepStat, Unlocked
<1>4. ASSUME EndSweep PROVE LifecycleInvariant'
    BY <1>4 DEF EndSweep
<1>5. ASSUME CollectRetained(Maint) PROVE LifecycleInvariant'
    BY <1>5 DEF CollectRetained, StripeFree
<1>6. ASSUME RemoveEmptyDir(Maint) PROVE LifecycleInvariant'
    BY <1>6 DEF RemoveEmptyDir
<1>7. ASSUME ProbeIdle PROVE LifecycleInvariant'
    BY <1>7 DEF ProbeIdle
<1>8. ASSUME CountRuns PROVE LifecycleInvariant'
    BY <1>8 DEF CountRuns
<1>9. ASSUME WalkRetained PROVE LifecycleInvariant'
    BY <1>9 DEF WalkRetained
<1>10. ASSUME ConfirmIdle PROVE LifecycleInvariant'
    BY <1>10, ConfirmStep
<1>11. ASSUME Recount PROVE LifecycleInvariant'
    <2>1. CASE Idle
        <3>1. \A r \in Runs : ~Serving(r)
            BY <2>1 DEF Idle
        <3> QED
            BY <1>11, <2>1, <3>1 DEF Recount
    <2>2. CASE ~Idle
        BY <1>11, <2>2, EndExpiryStep DEF Recount
    <2> QED
        BY <2>1, <2>2
<1>12. ASSUME Recheck PROVE LifecycleInvariant'
    <2>1. CASE planned /\ retained = "old"
        BY <1>12, <2>1 DEF Recheck
    <2>2. CASE ~(planned /\ retained = "old")
        BY <1>12, <2>2, EndExpiryStep DEF Recheck
    <2> QED
        BY <2>1, <2>2
<1>13. ASSUME UnlinkRetained PROVE LifecycleInvariant'
    BY <1>13, EndExpiryStep DEF UnlinkRetained
<1> QED
    BY <1>1, <1>2, <1>3, <1>4, <1>5, <1>6, <1>7, <1>8, <1>9, <1>10, <1>11, <1>12, <1>13 DEF MaintPass

(* What clean wipes last are rows of runs that have ended.                 *)
LEMMA WipeStep ==
    ASSUME LifecycleInvariant, WipeRest,
           UNCHANGED <<escaped, faults>>
    PROVE  LifecycleInvariant'
<1> USE DEF LifecycleInvariant, WipeRest
<1>1. LifecycleHeld'
    BY DEF TypeOK, LifecycleHeld, HoldsLifecycle
<1>2. TypeOK'
    BY <1>1 DEF TypeOK
<1>3. OpeningAlone' /\ LiveRunKept'
    BY DEF TypeOK, OpeningAlone, LiveRunKept, CleanWaitsForRuns
<1>4. ListedOpened' /\ TargetsEnded'
    BY DEF TypeOK, OpeningAlone, LiveRunKept, ListedOpened, TargetsEnded
<1>5. VisitedOrListed' /\ ExpiryAlone' /\ CleanWaitsForRuns'
    BY DEF TypeOK, VisitedOrListed, ExpiryAlone, CleanWaitsForRuns
<1>6. EscapesKept' /\ KeptStamped' /\ RetentionSucceeds' /\ EscapedPathsKept'
    BY DEF TypeOK, EscapesKept, KeptStamped, RetentionSucceeds, EscapedPathsKept, CleanWaitsForRuns
<1>7. SweepSparesRecent'
    BY DEF TypeOK, SweepSparesRecent, TargetsEnded
<1> QED
    BY <1>2, <1>3, <1>4, <1>5, <1>6, <1>7

(* Clean has met every open run when it decides, and holds lifecycle.lock, *)
(* so that none opens from its listing on.                                 *)
LEMMA CleanStepped ==
    ASSUME LifecycleInvariant, CleanAll, UNCHANGED <<escaped, faults>>
    PROVE  LifecycleInvariant'
<1> USE DEF LifecycleInvariant, TypeOK, LifecycleHeld, HoldsLifecycle, OpeningAlone,
            ListedOpened, TargetsEnded, LiveRunKept, VisitedOrListed, ExpiryAlone, EscapesKept,
            KeptStamped, RetentionSucceeds, EscapedPathsKept, SweepSparesRecent, CleanWaitsForRuns
<1>1. ASSUME BeginClean PROVE LifecycleInvariant'
    BY <1>1 DEF BeginClean
<1>2. ASSUME ListDirs PROVE LifecycleInvariant'
    BY <1>2 DEF ListDirs
<1>3. ASSUME NEW t \in Runs, VisitLocked(t) PROVE LifecycleInvariant'
    BY <1>3 DEF VisitLocked
<1>4. ASSUME NEW t \in Runs, VisitUnused(t) PROVE LifecycleInvariant'
    BY <1>4 DEF VisitUnused
<1>5. ASSUME NEW t \in Runs, VisitGone(t) PROVE LifecycleInvariant'
    BY <1>5 DEF VisitGone
<1>6. ASSUME EndVisit PROVE LifecycleInvariant'
    BY <1>6 DEF EndVisit
<1>7. ASSUME CollectRetained(Clean) PROVE LifecycleInvariant'
    BY <1>7 DEF CollectRetained, StripeFree
<1>8. ASSUME RemoveEmptyDir(Clean) PROVE LifecycleInvariant'
    BY <1>8 DEF RemoveEmptyDir
<1>9. ASSUME CountForClean PROVE LifecycleInvariant'
    BY <1>9 DEF CountForClean
<1>10. ASSUME WipeLive PROVE LifecycleInvariant'
    BY <1>10 DEF WipeLive
<1>11. ASSUME WipeRest PROVE LifecycleInvariant'
    BY <1>11, WipeStep
<1> QED
    BY <1>1, <1>2, <1>3, <1>4, <1>5, <1>6, <1>7, <1>8, <1>9, <1>10, <1>11 DEF CleanAll

(* Directories age only when no close is under way.                        *)
LEMMA AgeStep == LifecycleInvariant /\ Age => LifecycleInvariant'
BY DEF Age, LifecycleInvariant, TypeOK, LifecycleHeld, HoldsLifecycle, OpeningAlone,
       ListedOpened, TargetsEnded, LiveRunKept, VisitedOrListed, ExpiryAlone, EscapesKept,
       KeptStamped, RetentionSucceeds, EscapedPathsKept, SweepSparesRecent, CleanWaitsForRuns

(* Death frees the locks of the dead and moves nobody else.                *)
LEMMA KillStep ==
    ASSUME LifecycleInvariant, NEW p \in Procs, Kill(p)
    PROVE  LifecycleInvariant'
<1> USE DEF Kill, Running, LifecycleInvariant, TypeOK
<1>1. TypeOK'
    BY DEF LifecycleHeld, HoldsLifecycle
<1>2. OpeningAlone' /\ LiveRunKept'
    BY DEF OpeningAlone, LiveRunKept
<1>3. ListedOpened' /\ TargetsEnded'
    BY DEF ListedOpened, TargetsEnded
<1>4. VisitedOrListed' /\ ExpiryAlone' /\ CleanWaitsForRuns'
    BY DEF VisitedOrListed, ExpiryAlone, CleanWaitsForRuns
<1>5. EscapesKept' /\ KeptStamped' /\ RetentionSucceeds' /\ EscapedPathsKept'
    BY DEF EscapesKept, KeptStamped, RetentionSucceeds, EscapedPathsKept
<1>6. SweepSparesRecent'
    BY DEF SweepSparesRecent
<1> QED
    BY <1>1, <1>2, <1>3, <1>4, <1>5, <1>6

LEMMA InvariantStep == LifecycleInvariant /\ [Next]_vars => LifecycleInvariant'
<1> SUFFICES ASSUME LifecycleInvariant, [Next]_vars PROVE LifecycleInvariant'
    OBVIOUS
<1>1. ASSUME NEW r \in Runs, HelperStep(r) PROVE LifecycleInvariant'
    BY <1>1, OpenStep, CloseStep, ReclaimStep DEF HelperStep
<1>2. ASSUME MaintStep PROVE LifecycleInvariant'
    BY <1>2, MaintenanceStep, ReclaimStep DEF MaintStep
<1>3. ASSUME CleanStep PROVE LifecycleInvariant'
    BY <1>3, CleanStepped, ReclaimStep DEF CleanStep
<1>4. CASE UNCHANGED vars
    BY <1>4 DEF vars, LifecycleInvariant, TypeOK, LifecycleHeld, HoldsLifecycle, OpeningAlone,
       ListedOpened, TargetsEnded, LiveRunKept, VisitedOrListed, ExpiryAlone, EscapesKept,
       KeptStamped, RetentionSucceeds, EscapedPathsKept, SweepSparesRecent, CleanWaitsForRuns
<1> QED
    BY <1>1, <1>2, <1>3, <1>4, FailStep, AgeStep, KillStep DEF Next

LEMMA SpecInvariant == Spec => []LifecycleInvariant
BY InitInvariant, InvariantStep, PTL DEF Spec

(* Every variable has its type, and lifecycle.lock is held by whoever is   *)
(* in a part of the code it guards: an open, a count of the runs and the   *)
(* expiry that follows, a clean.                                           *)
THEOREM Typing == Spec => []TypeOK
<1>1. LifecycleInvariant => TypeOK
    BY DEF LifecycleInvariant
<1> QED
    BY <1>1, SpecInvariant, PTL

(* While a helper serves, its directory, its lock and its row are its own, *)
(* whatever reclaim, sweep, expiry and clean do beside it, and whoever is  *)
(* killed.                                                                 *)
THEOREM LiveKept == Spec => []LiveRunKept
<1>1. LifecycleInvariant => LiveRunKept
    BY DEF LifecycleInvariant
<1> QED
    BY <1>1, SpecInvariant, PTL

(* A close links back the retained file it has installed: neither expiry   *)
(* nor the collection of orphans nor clean takes it in between.            *)
THEOREM Retention == Spec => []RetentionSucceeds
<1>1. LifecycleInvariant => RetentionSucceeds
    BY DEF LifecycleInvariant
<1> QED
    BY <1>1, SpecInvariant, PTL

(* A helper with a file worth retaining does not remove its directory,     *)
(* whether the file could be installed or not.                             *)
THEOREM EscapedKept == Spec => []EscapedPathsKept
<1>1. LifecycleInvariant => EscapedPathsKept
    BY DEF LifecycleInvariant
<1> QED
    BY <1>1, SpecInvariant, PTL

(* The sweep removes no directory that a close has kept recently.          *)
THEOREM SweepSpares == Spec => []SweepSparesRecent
<1>1. LifecycleInvariant => SweepSparesRecent
    BY DEF LifecycleInvariant
<1> QED
    BY <1>1, SpecInvariant, PTL

(* Clean wipes the cache only when no helper is between having opened its  *)
(* run and having closed it.                                               *)
THEOREM CleanWaits == Spec => []CleanWaitsForRuns
<1>1. LifecycleInvariant => CleanWaitsForRuns
    BY DEF LifecycleInvariant
<1> QED
    BY <1>1, SpecInvariant, PTL
=============================================================================
