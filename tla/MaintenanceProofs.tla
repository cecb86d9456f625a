-------------------------- MODULE MaintenanceProofs --------------------------
(* Proofs about Maintenance, for any number of builds and of runs of       *)
(* "gocachez prune", and any number of faults.                             *)
EXTENDS Maintenance, TLAPS

(* Each pass has a step of its own at which it is stamped.                 *)
LEMMA Markings ==
    /\ Marking["sweep"] = "markSwept"
    /\ Marking["retained"] = "markRetained"
    /\ Marking["scan"] = "markPruned"
    /\ Locked = {"sweep", "probe", "confirm", "plan", "apply", "unlock",
                 "markSwept", "markRetained", "markPruned"}
<1>1. /\ Marking["sweep"] = "markSwept"
      /\ Marking["retained"] = "markRetained"
      /\ Marking["scan"] = "markPruned"
    BY DEF Marking
<1> QED
    BY <1>1 DEF Locked, Passes

(* Where the passes lead.                                                  *)
LEMMA Order ==
    ASSUME NEW p \in Procs
    PROVE  /\ AfterRetained(p) \in {"plan", "unlock"}
           /\ AfterSweep(p) \in {"probe", "plan", "unlock"}
           /\ AfterLock(p) \in {"sweep", "probe", "plan", "unlock"}
BY DEF AfterRetained, AfterSweep, AfterLock

LEMMA TypeStep == TypeOK /\ [Next]_vars => TypeOK'
<1> SUFFICES ASSUME TypeOK, [Next]_vars PROVE TypeOK'
    OBVIOUS
<1> USE MaintenanceAssumption, Markings DEF Steps, Clearing, Checking, Ages, Goto
<1>0. \A p \in Procs : DueFor(p) \in SUBSET Passes
    BY DEF DueFor
<1>1. ASSUME NEW p \in Procs, ClearStamps(p) PROVE TypeOK'
    <2>1. ASSUME NEW x \in Passes, NEW s \in Clearing, NEW t \in Clearing \cup {"check"},
                 ClearStamp(p, x, s, t)
          PROVE  TypeOK'
        BY <2>1 DEF ClearStamp, TypeOK
    <2> QED
        BY <1>1, <2>1 DEF ClearStamps, Passes
<1>2. ASSUME NEW p \in Procs, CheckStamps(p) PROVE TypeOK'
    <2>1. ASSUME NEW x \in Passes, NEW s \in Checking, NEW t \in Checking \cup {"ran", "lock"},
                 CheckStamp(p, x, s, t)
          PROVE  TypeOK'
        <3>1. SeenDue(p, x) \subseteq Passes
            BY DEF SeenDue
        <3>2. due' \in [Procs -> SUBSET Passes] /\ awaited' \in [Procs -> SUBSET Passes]
            BY <2>1, <3>1 DEF CheckStamp, TypeOK
        <3> QED
            BY <2>1, <3>2 DEF CheckStamp, TypeOK
    <2> QED
        BY <1>2, <2>1 DEF CheckStamps, Passes
<1>3. ASSUME NEW p \in Procs, TryMaintenance(p) PROVE TypeOK'
    <2>1. AfterLock(p) \in Locked
        BY Order
    <2>2. CASE lock = None
        BY <1>3, <2>1, <2>2 DEF TryMaintenance, TypeOK, Procs
    <2>3. CASE lock # None
        BY <1>3, <2>3 DEF TryMaintenance, TypeOK, Procs
    <2> QED
        BY <2>2, <2>3
<1>4. ASSUME NEW p \in Procs, NEW x \in Passes, NEW s, Finish(p, x, s), s \in Locked PROVE TypeOK'
    BY <1>4 DEF Finish, TypeOK, Passes
<1>5. ASSUME NEW p \in Procs, NEW x \in Passes, NEW s \in Locked, Mark(p, x, s) PROVE TypeOK'
    BY <1>5 DEF Mark, TypeOK, Passes
<1>6. ASSUME NEW p \in Procs, Retained(p) \/ DeferRetained(p) \/ Scan(p) \/ Sweep(p) PROVE TypeOK'
    <2>1. ASSUME NEW s \in Locked, NEW t \in Locked, Goto(p, s, t),
                 UNCHANGED <<due, big, stamp, lock, faults, awaited, recent>>
          PROVE  TypeOK'
        BY <2>1 DEF TypeOK
    <2>2. CASE DeferRetained(p)
        BY <2>2, Order DEF DeferRetained, Deferred, TypeOK
    <2>3. CASE /\ Goto(p, "apply", "unlock")
               /\ due' = [due EXCEPT ![p] = @ \ {"scan"}]
               /\ UNCHANGED <<big, stamp, lock, faults, awaited, recent>>
        BY <2>3 DEF TypeOK
    <2>4. CASE Retained(p) \/ Scan(p) \/ Sweep(p)
        BY <2>1, <2>3, <2>4, <1>4, <1>5, Order DEF Retained, Scan, Sweep, Passes
    <2> QED
        BY <1>6, <2>2, <2>4
<1>7. ASSUME NEW p \in Procs, UnlockMaintenance(p) PROVE TypeOK'
    BY <1>7 DEF UnlockMaintenance, TypeOK, Procs
<1>8. ASSUME NEW p \in Procs, Stop(p) PROVE TypeOK'
    BY <1>8 DEF Stop, LockAfter, TypeOK, Procs
<1>9. ASSUME NEW p \in Procs, OpenStore(p) \/ Put(p) \/ CloseStore(p) \/ StartPrune(p) PROVE TypeOK'
    <2>1. CASE OpenStore(p)
        BY <2>1 DEF OpenStore, TypeOK
    <2>2. CASE Put(p) \/ CloseStore(p)
        BY <2>2 DEF Put, CloseStore, TypeOK
    <2>3. CASE StartPrune(p)
        BY <2>3 DEF StartPrune, TypeOK
    <2> QED
        BY <1>9, <2>1, <2>2, <2>3
<1>10. ASSUME NEW x \in Passes, TimePasses(x) PROVE TypeOK'
    <2>1. stamp' \in [Passes -> Ages] /\ recent' \subseteq Passes
        BY <1>10 DEF TimePasses, TypeOK
    <2>2. awaited' \in [Procs -> SUBSET Passes]
        BY <1>10 DEF TimePasses, TypeOK
    <2> QED
        BY <1>10, <2>1, <2>2 DEF TimePasses, TypeOK
<1>11. CASE UNCHANGED vars
    BY <1>11 DEF vars, TypeOK
<1> QED
    BY <1>1, <1>2, <1>3, <1>6, <1>7, <1>8, <1>9, <1>10, <1>11 DEF Next, Work, Procs

LEMMA TypeInit == Init => TypeOK
<1> SUFFICES ASSUME Init PROVE TypeOK
    OBVIOUS
<1>1. pc \in [Procs -> Steps] /\ \A p \in Procs : pc[p] \in Locked <=> lock = p
    BY MaintenanceAssumption, Markings DEF Init, Steps, Procs
<1>2. faults \in 0..MaxFaults
    BY MaintenanceAssumption DEF Init
<1> QED
    BY <1>1, <1>2 DEF Init, TypeOK

(* Every step of every behaviour keeps the state well typed, and           *)
(* maintenance.lock with the process that makes the passes.                *)
THEOREM TypeCorrect == Spec => []TypeOK
BY TypeInit, TypeStep, PTL DEF Spec
-----------------------------------------------------------------------------
(* What is stamped was done.                                               *)

LEMMA EarnedStep ==
    ASSUME TypeOK, StampsEarned, MarksEarned, [Next]_vars
    PROVE  StampsEarned' /\ MarksEarned'
<1> USE Markings DEF StampsEarned, MarksEarned, Goto, TypeOK, Passes
<1>1. ASSUME UNCHANGED <<stamp, recent>>,
             NEW p \in Procs, pc' = [pc EXCEPT ![p] = pc'[p]],
             pc'[p] \notin {"markSwept", "markRetained", "markPruned"}
      PROVE  StampsEarned' /\ MarksEarned'
    BY <1>1
<1>2. ASSUME NEW p \in Procs, ClearStamps(p) PROVE StampsEarned' /\ MarksEarned'
    BY <1>2 DEF ClearStamps, ClearStamp
<1>3. ASSUME NEW p \in Procs, NEW x \in Passes, NEW s, Finish(p, x, s)
      PROVE  StampsEarned' /\ MarksEarned'
    BY <1>3 DEF Finish
<1>4. ASSUME NEW p \in Procs, NEW x \in Passes, NEW s, Mark(p, x, s),
             s \notin {"markSwept", "markRetained", "markPruned"}
      PROVE  StampsEarned' /\ MarksEarned'
    BY <1>4 DEF Mark
<1>5. ASSUME NEW p \in Procs, Sweep(p) \/ Retained(p) \/ Scan(p)
      PROVE  StampsEarned' /\ MarksEarned'
    BY <1>1, <1>3, <1>4, <1>5, Order DEF Sweep, Retained, Scan
<1>6. ASSUME NEW p \in Procs,
             \/ CheckStamps(p) \/ TryMaintenance(p) \/ DeferRetained(p) \/ UnlockMaintenance(p)
             \/ Stop(p) \/ OpenStore(p) \/ Put(p) \/ CloseStore(p) \/ StartPrune(p)
      PROVE  StampsEarned' /\ MarksEarned'
    <2>1. UNCHANGED <<stamp, recent>> /\ pc' = [pc EXCEPT ![p] = pc'[p]]
        BY <1>6 DEF CheckStamps, CheckStamp, TryMaintenance, DeferRetained, UnlockMaintenance, Stop,
            OpenStore, Put, CloseStore, StartPrune
    <2>2. pc'[p] \notin {"markSwept", "markRetained", "markPruned"}
        BY <1>6, Order DEF CheckStamps, CheckStamp, TryMaintenance, DeferRetained, Deferred,
            UnlockMaintenance, Stop, OpenStore, Put, CloseStore, StartPrune
    <2> QED
        BY <1>1, <2>1, <2>2
<1>7. ASSUME NEW x \in Passes, TimePasses(x) PROVE StampsEarned' /\ MarksEarned'
    <2>1. pc' = pc /\ \A y \in Passes : y # x => stamp'[y] = stamp[y] /\ (y \in recent => y \in recent')
        BY <1>7 DEF TimePasses
    <2>2. stamp'[x] = "fresh" => x \in recent'
        BY <1>7 DEF TimePasses
    <2>3. ASSUME NEW p \in Procs, pc[p] = Marking[x] PROVE x \in recent'
        BY <1>7, <2>3 DEF TimePasses
    <2> QED
        BY <2>1, <2>2, <2>3
<1>8. CASE UNCHANGED vars
    BY <1>8 DEF vars
<1> QED
    BY <1>2, <1>5, <1>6, <1>7, <1>8 DEF Next, Work, Procs
-----------------------------------------------------------------------------
(* What each process is yet to see done.                                   *)

Own(p) ==
    \/ Work(p) \/ Stop(p)
    \/ p \in Helpers /\ (OpenStore(p) \/ Put(p) \/ CloseStore(p))
    \/ p \in Prunes /\ StartPrune(p)

(* A stamp some process still awaits becomes neither fresh nor, once it    *)
(* was cleared, anything else.                                             *)
Steady(q) ==
    \A x \in awaited'[q] :
        \/ stamp'[x] = stamp[x] \/ stamp'[x] = "none"
        \/ stamp[x] # "none" /\ stamp'[x] # "fresh"

LEMMA MarkEffect ==
    ASSUME TypeOK, NEW p \in Procs, NEW x \in Passes, NEW t, Mark(p, x, t), NEW q \in Procs
    PROVE  /\ awaited'[q] = awaited[q] \ {x}
           /\ \A y \in Passes \ {x} : stamp'[y] = stamp[y]
           /\ q # p => big'[q] = big[q]
           /\ big'[q] = big[q] \/ x = "scan"
           /\ q # p => due'[q] = due[q]
           /\ due'[p] = due[p] \ {x}
           /\ pc' = [pc EXCEPT ![p] = t] /\ pc[p] = Marking[x]
BY DEF Mark, Goto, TypeOK

LEMMA OwnStep ==
    ASSUME TypeOK, NEW p \in Procs, Own(p), NEW q \in Procs
    PROVE  /\ q # p => pc'[q] = pc[q] /\ due'[q] = due[q] /\ big'[q] = big[q]
           /\ q # p => awaited'[q] \subseteq awaited[q]
           /\ Steady(q)
<1> USE DEF Goto, TypeOK, Passes, Steady
<1>1. ASSUME NEW x \in Passes, NEW t, Mark(p, x, t)
      PROVE  /\ q # p => pc'[q] = pc[q] /\ due'[q] = due[q] /\ big'[q] = big[q]
             /\ q # p => awaited'[q] \subseteq awaited[q]
             /\ Steady(q)
    <2>1. /\ awaited'[q] = awaited[q] \ {x}
          /\ \A y \in Passes \ {x} : stamp'[y] = stamp[y]
          /\ q # p => big'[q] = big[q] /\ due'[q] = due[q]
          /\ pc' = [pc EXCEPT ![p] = t]
        BY <1>1, MarkEffect
    <2>2. awaited[q] \subseteq Passes
        OBVIOUS
    <2> QED
        BY <2>1, <2>2
<1>2. CASE ClearStamps(p)
    BY <1>2 DEF ClearStamps, ClearStamp
<1>3. CASE CheckStamps(p) \/ TryMaintenance(p)
    BY <1>3 DEF CheckStamps, CheckStamp, TryMaintenance
<1>4. CASE Sweep(p) \/ Retained(p) \/ DeferRetained(p) \/ Scan(p)
    BY <1>1, <1>4 DEF Sweep, Retained, DeferRetained, Scan, Finish
<1>5. CASE UnlockMaintenance(p) \/ Stop(p)
    BY <1>5 DEF UnlockMaintenance, Stop
<1>6. CASE OpenStore(p) \/ Put(p) \/ CloseStore(p) \/ StartPrune(p)
    BY <1>6 DEF OpenStore, Put, CloseStore, StartPrune
<1> QED
    BY <1>2, <1>3, <1>4, <1>5, <1>6 DEF Own, Work

LEMMA TimeStep ==
    ASSUME TypeOK, NEW x \in Passes, TimePasses(x), NEW q \in Procs
    PROVE  /\ pc' = pc /\ due' = due /\ big' = big
           /\ awaited'[q] \subseteq awaited[q]
           /\ Steady(q)
BY DEF TimePasses, TypeOK, Steady

(* What is awaited and due stays so.                                       *)
LEMMA DueStays ==
    ASSUME NEW q \in Procs, awaited[q] \subseteq DueFor(q), Steady(q),
           awaited'[q] \subseteq awaited[q],
           big'[q] = big[q] \/ "scan" \notin awaited'[q]
    PROVE  awaited'[q] \subseteq DueFor(q)'
BY DEF DueFor, Elapsed, Steady, Passes

(* The conjuncts of the invariant about one process.                       *)
AwaitedOK(q) ==
    /\ q \in Prunes =>
        /\ pc[q] \in {"clearSweep", "clearRetained"} => Cleared(q, "scan")
        /\ pc[q] = "clearRetained" => Cleared(q, "sweep")
    /\ pc[q] \in Checking \cup Locked \cup {"lock"} => awaited[q] \subseteq DueFor(q)
    /\ pc[q] \in {"away", "building"} => awaited[q] = {}
    /\ pc[q] \in Clearing => q \in Prunes
    /\ pc[q] = "check" /\ q \in Helpers => awaited[q] = {}
    /\ pc[q] = "checkScan" => awaited[q] \ due[q] \subseteq
                                  IF q \in Helpers THEN {} ELSE {"scan", "retained"}
    /\ pc[q] = "checkRetained" => awaited[q] \ due[q] \subseteq
                                  IF q \in Helpers THEN {} ELSE {"retained"}
    /\ pc[q] \in Locked \cup {"lock"} => awaited[q] \subseteq due[q]
    /\ pc[q] \in {"probe", "confirm", "markRetained"} => "sweep" \notin due[q]
    /\ pc[q] \in {"plan", "apply", "markPruned"} => due[q] \subseteq {"scan"}
    /\ pc[q] = "unlock" => due[q] = {}
    /\ pc[q] = "ran" => awaited[q] = {}

LEMMA AwaitedAll ==
    (StampsCleared /\ AwaitedDue /\ AwaitedAhead) <=> \A q \in Procs : AwaitedOK(q)
BY DEF StampsCleared, AwaitedDue, AwaitedAhead, AwaitedOK, Procs

(* It holds of a process that takes no step.                               *)
LEMMA AwaitedRests ==
    ASSUME TypeOK, NEW q \in Procs, AwaitedOK(q), Steady(q),
           pc'[q] = pc[q], due'[q] = due[q], big'[q] = big[q],
           awaited'[q] \subseteq awaited[q]
    PROVE  AwaitedOK(q)'
<1>1. pc[q] \in Checking \cup Locked \cup {"lock"} => awaited'[q] \subseteq DueFor(q)'
    BY DueStays DEF AwaitedOK
<1>2. \A x : Cleared(q, x) => Cleared(q, x)'
    BY DEF Cleared, Steady
<1> QED
    BY <1>1, <1>2 DEF AwaitedOK, Locked, Checking, Clearing

(* It holds after a step of the process itself.                            *)
LEMMA AwaitedOwn ==
    ASSUME TypeOK, NEW p \in Procs, AwaitedOK(p), Own(p)
    PROVE  AwaitedOK(p)'
<1> USE Markings DEF Goto, Checking, Clearing
<1>a. awaited[p] \subseteq Passes /\ due[p] \subseteq Passes /\ Steady(p)
    BY OwnStep DEF TypeOK
<1>b. p \in Prunes => p \notin Helpers
    BY MaintenanceAssumption
<1>1. CASE ClearStamps(p)
    <2>1. UNCHANGED <<awaited, due>> /\ p \in Procs /\ stamp \in [Passes -> Ages]
        BY <1>1 DEF ClearStamps, ClearStamp, TypeOK
    <2>2. CASE ClearStamp(p, "scan", "clearScan", "clearSweep")
        <3>1. pc[p] = "clearScan" /\ pc'[p] = "clearSweep" /\ stamp'["scan"] = "none"
            BY <2>1, <2>2 DEF ClearStamp, TypeOK, Passes
        <3> QED
            BY <2>1, <3>1 DEF AwaitedOK, Cleared
    <2>3. CASE ClearStamp(p, "sweep", "clearSweep", "clearRetained")
        <3>1. pc[p] = "clearSweep" /\ pc'[p] = "clearRetained"
              /\ stamp'["sweep"] = "none" /\ stamp'["scan"] = stamp["scan"]
            BY <2>1, <2>3 DEF ClearStamp, TypeOK, Passes
        <3> QED
            BY <2>1, <3>1 DEF AwaitedOK, Cleared
    <2>4. CASE ClearStamp(p, "retained", "clearRetained", "check")
        <3>1. pc[p] = "clearRetained" /\ pc'[p] = "check" /\ stamp'["retained"] = "none"
              /\ stamp'["sweep"] = stamp["sweep"] /\ stamp'["scan"] = stamp["scan"]
            BY <2>1, <2>4 DEF ClearStamp, TypeOK, Passes
        <3>2. p \in Prunes /\ \A x \in awaited'[p] : stamp'[x] = "none"
            BY <1>a, <2>1, <3>1 DEF AwaitedOK, Cleared, Passes
        <3>3. awaited'[p] \subseteq DueFor(p)'
            BY <1>a, <2>1, <3>2 DEF DueFor, Elapsed
        <3> QED
            BY <1>b, <3>1, <3>2, <3>3 DEF AwaitedOK
    <2> QED
        BY <1>1, <2>2, <2>3, <2>4 DEF ClearStamps
<1>2. CASE CheckStamps(p)
    <2>1. ASSUME NEW x \in Passes, NEW s, NEW t, CheckStamp(p, x, s, t), s \in Checking
          PROVE  /\ pc[p] = s /\ pc'[p] = t
                 /\ due'[p] = due[p] \cup SeenDue(p, x)
                 /\ awaited'[p] = awaited[p] \cup (IF p \in Helpers THEN SeenDue(p, x) ELSE {})
                 /\ SeenDue(p, x) \subseteq {x}
                 /\ x \in awaited[p] => x \in due'[p]
                 /\ awaited'[p] \subseteq DueFor(p)'
        <3>1. DueFor(p)' = DueFor(p)
            BY <2>1 DEF CheckStamp, DueFor, Elapsed
        <3>2. /\ pc[p] = s /\ pc'[p] = t
              /\ due'[p] = due[p] \cup SeenDue(p, x)
              /\ awaited'[p] = awaited[p] \cup (IF p \in Helpers THEN SeenDue(p, x) ELSE {})
            BY <2>1 DEF CheckStamp, TypeOK
        <3>3. awaited[p] \subseteq DueFor(p)
            BY <2>1, <3>2 DEF AwaitedOK
        <3> QED
            BY <3>1, <3>2, <3>3 DEF SeenDue
    <2>2. CASE CheckStamp(p, "sweep", "check", "checkScan")
        <3>1. /\ pc[p] = "check" /\ pc'[p] = "checkScan"
              /\ due'[p] = due[p] \cup SeenDue(p, "sweep")
              /\ awaited'[p] = awaited[p] \cup (IF p \in Helpers THEN SeenDue(p, "sweep") ELSE {})
              /\ "sweep" \in awaited[p] => "sweep" \in due'[p]
              /\ awaited'[p] \subseteq DueFor(p)'
            BY <2>1, <2>2 DEF Passes
        <3>2. awaited'[p] \ due'[p] \subseteq IF p \in Helpers THEN {} ELSE {"scan", "retained"}
            BY <1>a, <3>1 DEF AwaitedOK, Passes
        <3> QED
            BY <3>1, <3>2 DEF AwaitedOK
    <2>3. CASE CheckStamp(p, "scan", "checkScan", "checkRetained")
        <3>1. /\ pc[p] = "checkScan" /\ pc'[p] = "checkRetained"
              /\ due'[p] = due[p] \cup SeenDue(p, "scan")
              /\ awaited'[p] = awaited[p] \cup (IF p \in Helpers THEN SeenDue(p, "scan") ELSE {})
              /\ "scan" \in awaited[p] => "scan" \in due'[p]
              /\ awaited'[p] \subseteq DueFor(p)'
            BY <2>1, <2>3 DEF Passes
        <3>2. awaited'[p] \ due'[p] \subseteq IF p \in Helpers THEN {} ELSE {"retained"}
            BY <1>a, <3>1 DEF AwaitedOK, Passes
        <3> QED
            BY <3>1, <3>2 DEF AwaitedOK
    <2>4. CASE CheckStamp(p, "retained", "checkRetained",
                          IF due[p] \cup SeenDue(p, "retained") = {} THEN "ran" ELSE "lock")
        <3>1. /\ pc[p] = "checkRetained"
              /\ pc'[p] = IF due'[p] = {} THEN "ran" ELSE "lock"
              /\ due'[p] = due[p] \cup SeenDue(p, "retained")
              /\ awaited'[p] = awaited[p] \cup (IF p \in Helpers THEN SeenDue(p, "retained") ELSE {})
              /\ "retained" \in awaited[p] => "retained" \in due'[p]
              /\ awaited'[p] \subseteq DueFor(p)'
            BY <2>1, <2>4 DEF Passes
        <3>2. awaited'[p] \subseteq due'[p]
            BY <1>a, <3>1 DEF AwaitedOK, Passes
        <3> QED
            BY <3>1, <3>2 DEF AwaitedOK
    <2> QED
        BY <1>2, <2>2, <2>3, <2>4 DEF CheckStamps
<1>3. CASE TryMaintenance(p)
    <2>1. CASE lock = None
        <3>1. /\ UNCHANGED <<due, awaited, stamp, big>>
              /\ pc[p] = "lock" /\ pc'[p] = AfterLock(p)
            BY <1>3, <2>1 DEF TryMaintenance, TypeOK
        <3>2. awaited'[p] \subseteq DueFor(p)'
            BY <1>a, <3>1, DueStays DEF AwaitedOK
        <3> QED
            BY <1>a, <3>1, <3>2 DEF AwaitedOK, AfterLock, AfterSweep, AfterRetained, Passes
    <2>2. CASE lock # None
        BY <1>3, <2>2 DEF TryMaintenance, TypeOK, AwaitedOK
    <2> QED
        BY <2>1, <2>2
<1>4. CASE \/ Finish(p, "sweep", "sweep") \/ Finish(p, "retained", "confirm")
           \/ Finish(p, "scan", "apply")
    <2>1. /\ UNCHANGED <<due, awaited, stamp, big>>
          /\ \/ pc[p] = "sweep" /\ pc'[p] = "markSwept"
             \/ pc[p] = "confirm" /\ pc'[p] = "markRetained"
             \/ pc[p] = "apply" /\ pc'[p] = "markPruned"
        BY <1>4 DEF Finish, TypeOK
    <2>2. awaited'[p] \subseteq DueFor(p)'
        BY <1>a, <2>1, DueStays DEF AwaitedOK
    <2> QED
        BY <2>1, <2>2 DEF AwaitedOK
<1>5. ASSUME \/ Mark(p, "sweep", AfterSweep(p)) \/ Mark(p, "retained", AfterRetained(p))
             \/ Mark(p, "scan", "unlock")
      PROVE  AwaitedOK(p)'
    <2>1. \/ /\ pc[p] = "markSwept" /\ pc'[p] = AfterSweep(p) /\ due'[p] = due[p] \ {"sweep"}
             /\ awaited'[p] = awaited[p] \ {"sweep"} /\ big'[p] = big[p]
          \/ /\ pc[p] = "markRetained" /\ pc'[p] = AfterRetained(p) /\ due'[p] = due[p] \ {"retained"}
             /\ awaited'[p] = awaited[p] \ {"retained"} /\ big'[p] = big[p]
          \/ /\ pc[p] = "markPruned" /\ pc'[p] = "unlock" /\ due'[p] = due[p] \ {"scan"}
             /\ awaited'[p] = awaited[p] \ {"scan"}
        BY <1>5, MarkEffect DEF TypeOK, Passes
    <2>2. CASE pc[p] = "markPruned"
        <3>1. awaited'[p] = {} /\ due'[p] = {} /\ pc'[p] = "unlock"
            BY <1>a, <2>1, <2>2 DEF AwaitedOK
        <3> QED
            BY <3>1 DEF AwaitedOK, Cleared
    <2>3. CASE pc[p] # "markPruned"
        <3>1. awaited'[p] \subseteq DueFor(p)'
            BY <1>a, <2>1, <2>3, DueStays DEF AwaitedOK
        <3> QED
            BY <1>a, <2>1, <2>3, <3>1 DEF AwaitedOK, AfterSweep, AfterRetained, Passes
    <2> QED
        BY <2>2, <2>3
<1>6. CASE /\ UNCHANGED <<due, big, stamp, lock, faults, awaited, recent>>
           /\ Goto(p, "probe", "confirm") \/ Goto(p, "plan", "apply")
    <2>0. pc \in [Procs -> Steps]
        BY DEF TypeOK
    <2>1. \/ pc[p] = "probe" /\ pc'[p] = "confirm"
          \/ pc[p] = "plan" /\ pc'[p] = "apply"
        BY ONLY <1>6, <2>0 DEF Goto
    <2>2. DueFor(p)' = DueFor(p) /\ UNCHANGED <<awaited, due>>
        BY <1>6 DEF DueFor, Elapsed
    <2> QED
        BY <2>1, <2>2 DEF AwaitedOK
<1>7. CASE /\ Goto(p, "apply", "unlock") /\ ~StillDue(p)
            /\ due' = [due EXCEPT ![p] = @ \ {"scan"}]
            /\ UNCHANGED <<big, stamp, lock, faults, awaited, recent>>
    <2>1. pc[p] = "apply" /\ pc'[p] = "unlock" /\ due'[p] = due[p] \ {"scan"}
        BY <1>7 DEF TypeOK
    <2>2. due'[p] = {} /\ awaited[p] = {} /\ awaited' = awaited
        BY <1>7, <2>1 DEF AwaitedOK, StillDue
    <2> QED
        BY <2>1, <2>2 DEF AwaitedOK
<1>8. CASE DeferRetained(p)
    <2>1. /\ awaited'[p] = awaited[p] \ {"retained"} /\ due'[p] = due[p] \ {"retained"}
          /\ UNCHANGED <<stamp, big>>
          /\ pc[p] \in {"probe", "confirm"} /\ pc'[p] = AfterRetained(p)
        BY <1>8 DEF DeferRetained, Deferred, TypeOK
    <2>2. awaited'[p] \subseteq DueFor(p)'
        BY <1>a, <2>1, DueStays DEF AwaitedOK
    <2> QED
        BY <1>a, <2>1, <2>2 DEF AwaitedOK, AfterRetained, Passes
<1>9. CASE Sweep(p) \/ Retained(p) \/ Scan(p)
    BY ONLY <1>4, <1>5, <1>6, <1>9, <1>7 DEF Sweep, Retained, Scan
<1>10. CASE UnlockMaintenance(p)
    BY <1>10 DEF UnlockMaintenance, TypeOK, AwaitedOK
<1>11. CASE Stop(p)
    BY <1>11 DEF Stop, TypeOK, AwaitedOK
<1>12. CASE p \in Helpers /\ (OpenStore(p) \/ Put(p) \/ CloseStore(p))
    <2>1. /\ pc'[p] \in {"building", "check"}
          /\ pc[p] \in {"away", "ran", "building"} /\ awaited' = awaited
        BY <1>12 DEF OpenStore, Put, CloseStore, TypeOK
    <2>2. awaited'[p] = {}
        BY <2>1 DEF AwaitedOK
    <2> QED
        BY <1>12, <1>b, <2>1, <2>2 DEF AwaitedOK
<1>13. CASE p \in Prunes /\ StartPrune(p)
    <2>1. pc'[p] = "clearScan"
        BY <1>13 DEF StartPrune, TypeOK
    <2> QED
        BY <1>13, <2>1 DEF AwaitedOK
<1> QED
    BY <1>1, <1>2, <1>3, <1>8, <1>9, <1>10, <1>11, <1>12, <1>13 DEF Own, Work
-----------------------------------------------------------------------------
(* The results.                                                            *)

LEMMA InvariantInit == Init => MaintenanceInvariant
<1> SUFFICES ASSUME Init PROVE MaintenanceInvariant
    OBVIOUS
<1>1. TypeOK
    BY TypeInit
<1>2. \A p \in Procs : pc[p] = "away" /\ AwaitedOK(p)
    BY Markings DEF Init, AwaitedOK, Checking, Clearing
<1>3. StampsEarned /\ MarksEarned
    BY <1>2, Markings DEF Init, StampsEarned, MarksEarned, Passes
<1> QED
    BY <1>1, <1>2, <1>3, AwaitedAll DEF MaintenanceInvariant

LEMMA InvariantStep == MaintenanceInvariant /\ [Next]_vars => MaintenanceInvariant'
<1> SUFFICES ASSUME MaintenanceInvariant, [Next]_vars PROVE MaintenanceInvariant'
    OBVIOUS
<1> USE DEF MaintenanceInvariant
<1>1. TypeOK' /\ StampsEarned' /\ MarksEarned'
    BY TypeStep, EarnedStep
<1>2. ASSUME NEW q \in Procs PROVE AwaitedOK(q)'
    <2>0. AwaitedOK(q)
        BY AwaitedAll
    <2>1. ASSUME NEW p \in Procs, Own(p) PROVE AwaitedOK(q)'
        BY <2>0, <2>1, OwnStep, AwaitedRests, AwaitedOwn
    <2>2. ASSUME NEW x \in Passes, TimePasses(x) PROVE AwaitedOK(q)'
        BY <2>0, <2>2, TimeStep, AwaitedRests
    <2>3. CASE UNCHANGED vars
        BY <2>0, <2>3, AwaitedRests DEF vars, Steady
    <2> QED
        BY <2>1, <2>2, <2>3 DEF Next, Own, Procs
<1>3. StampsCleared' /\ AwaitedDue' /\ AwaitedAhead'
    BY ONLY <1>2 DEF StampsCleared, AwaitedDue, AwaitedAhead, AwaitedOK, Procs
<1> QED
    BY <1>1, <1>3

(* What holds in every state.                                              *)
LEMMA InvariantHolds == Spec => []MaintenanceInvariant
<1>1. Init => MaintenanceInvariant
    BY InvariantInit
<1>2. MaintenanceInvariant /\ [Next]_vars => MaintenanceInvariant'
    BY InvariantStep
<1> QED
    BY <1>1, <1>2, PTL DEF Spec

(* A stamp of the last pruneInterval is that of a pass that was done, not  *)
(* of one that was skipped or failed (markSwept, markRetainedExpired,      *)
(* markPruned).                                                            *)
THEOREM StampsAreEarned == Spec => []StampsEarned
<1>1. MaintenanceInvariant => StampsEarned
    BY DEF MaintenanceInvariant
<1> QED
    BY <1>1, InvariantHolds, PTL

(* A process that came to the end of prune with the lock, or had nothing   *)
(* to do, leaves nothing undone of what was due when it asked, but for an  *)
(* expiry it had to defer.                                                 *)
THEOREM WhatIsDueIsDone == Spec => []DueIsDone
<1>1. MaintenanceInvariant => DueIsDone
    BY DEF MaintenanceInvariant, AwaitedAhead, DueIsDone
<1> QED
    BY <1>1, InvariantHolds, PTL
=============================================================================
