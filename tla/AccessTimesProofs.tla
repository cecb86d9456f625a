-------------------------- MODULE AccessTimesProofs --------------------------
(* Proofs about AccessTimes, for any number of helpers, gets and rows and  *)
(* any ages, provided the slack is no less than the delay of a hit.        *)
EXTENDS AccessTimes, TLAPS

(* One step per action: each keeps the types.                              *)
LEMMA TypeStep == TypeOK /\ [Next]_vars => TypeOK'
<1> SUFFICES ASSUME TypeOK, [Next]_vars PROVE TypeOK'
    OBVIOUS
<1> USE AccessTimesAssumption DEF TypeOK, Times, Never, Nothing, PassSteps, helperVars, passVars
<1>1. ASSUME NEW h \in Handlers, NEW a \in Entries, Hit(h, a) PROVE TypeOK'
    <2> DEFINE p == HelperOf[h]
               Marked(F, t) == [k \in Keys |-> IF k \in Marks(a) THEN t ELSE F[k]]
    <2>1. p \in Helpers /\ h \in Flushers
        BY DEF Flushers
    <2>0. PICK t \in 1..clock :
              /\ accessed' = [accessed EXCEPT ![p] = Marked(accessed[p], t)]
              /\ hit' = [hit EXCEPT ![p] = Marked(hit[p], t)]
              /\ \/ UNCHANGED <<accessFlushed, pc>>
                 \/ /\ accessFlushed' = [accessFlushed EXCEPT ![p] = t]
                    /\ pc' = [pc EXCEPT ![h] = "take"]
        BY ONLY <1>1, Zenon DEF Hit
    <2>t. t \in 1..MaxTime /\ t \in Times
        OBVIOUS
    <2>2. Marked(accessed[p], t) \in [Keys -> Times] /\ Marked(hit[p], t) \in [Keys -> Times]
        BY <2>1, <2>t
    <2>3. accessed' = [accessed EXCEPT ![p] = Marked(accessed[p], t)] /\ hit' = [hit EXCEPT ![p] = Marked(hit[p], t)]
        BY <2>0
    <2>4. accessed' \in [Helpers -> [Keys -> Times]] /\ hit' \in [Helpers -> [Keys -> Times]]
        BY <2>1, <2>2, <2>3
    <2>5. accessFlushed' \in [Helpers -> 1..MaxTime] /\ pc' \in [Flushers -> {"idle", "take", "write"}]
        <3>1. \/ UNCHANGED <<accessFlushed, pc>>
              \/ /\ accessFlushed' = [accessFlushed EXCEPT ![p] = t]
                 /\ pc' = [pc EXCEPT ![h] = "take"]
            BY <2>0
        <3>2. accessFlushed \in [Helpers -> 1..MaxTime] /\ t \in 1..MaxTime
            BY <2>t
        <3>3. accessFlushed' \in [Helpers -> 1..MaxTime]
            BY ONLY <3>1, <3>2
        <3>4. pc' \in [Flushers -> {"idle", "take", "write"}]
            BY <3>1
        <3> QED
            BY <3>3, <3>4
    <2> QED
        BY <1>1, <2>4, <2>5 DEF Hit
<1>2. ASSUME NEW f \in Flushers, FlushNext(f) PROVE TypeOK'
    <2>1. ProcOf(f) \in Helpers
        BY DEF Flushers, ProcOf
    <2>2. CASE TakeBatch(f)
        BY <2>1, <2>2 DEF TakeBatch
    <2>3. CASE CommitBatch(f)
        BY <2>1, <2>3 DEF CommitBatch, Touched
    <2>4. CASE FlushFails(f)
        <3>1. Restored(ProcOf(f), batch[f]) \in [Keys -> Times]
            BY <2>1 DEF Restored
        <3> QED
            BY <2>1, <2>4, <3>1 DEF FlushFails
    <2> QED
        BY <1>2, <2>2, <2>3, <2>4 DEF FlushNext
<1>3. ASSUME NEW p \in Helpers, Close(p) \/ Exit(p) \/ Kill(p) PROVE TypeOK'
    <2>1. CASE Close(p)
        <3>1. phase' \in [Helpers -> {"running", "closing", "signalled", "failed"}]
            BY <2>1 DEF Close
        <3> QED
            BY <2>1, <3>1 DEF Close, Flushers
    <2>2. ASSUME NEW e \in BOOLEAN, Replace(p, e) PROVE TypeOK'
        <3>1. pc' \in [Flushers -> {"idle", "take", "write"}] /\ batch' \in [Flushers -> [Keys -> Times]]
            BY <2>2 DEF Replace
        <3>2. hit' \in [Helpers -> [Keys -> Times]] /\ accessed' \in [Helpers -> [Keys -> Times]]
            BY <2>2 DEF Replace
        <3> QED
            BY <2>2, <3>1, <3>2 DEF Replace
    <2> QED
        BY <1>3, <2>1, <2>2 DEF Exit, Kill
<1>4. ASSUME NEW a \in Entries, Put(a) PROVE TypeOK'
    BY <1>4 DEF Put
<1>5. CASE PassNext
    <2> USE DEF PassStep
    <2>1. UNCHANGED <<clock, accessed, accessFlushed, phase, pc, batch, hit>>
        BY <1>5 DEF PassNext, BeginPass, NextTable, EndPass, ChooseStale, PlanEviction,
            ExpireChosen, EvictOutput, UnchangedByPass
    <2>2. CASE BeginPass \/ NextTable \/ EndPass
        BY <2>1, <2>2 DEF BeginPass, Cutoff, NextTable, EndPass
    <2>3. CASE ChooseStale \/ PlanEviction
        BY <2>1, <2>3 DEF ChooseStale, PlanEviction, Cutoff
    <2>4. CASE ExpireChosen
        BY <2>1, <2>4 DEF ExpireChosen
    <2>5. ASSUME NEW o \in Outputs, EvictOutput(o) PROVE TypeOK'
        <3>1. o \in Keys /\ row' \in [Keys -> Times] /\ chosen' \in [Keys -> Times] /\ mpc' = mpc /\ cutoff' = cutoff
            BY <2>5 DEF EvictOutput, Keys, StillCold
        <3> QED
            BY <2>1, <3>1
    <2> QED
        BY <1>5, <2>2, <2>3, <2>4, <2>5 DEF PassNext
<1>6. CASE Tick
    BY <1>6 DEF Tick
<1>7. CASE UNCHANGED vars
    BY <1>7 DEF vars
<1> QED
    BY <1>1, <1>2, <1>3, <1>4, <1>5, <1>6, <1>7 DEF Next

LEMMA TypeInit == Init => TypeOK
BY AccessTimesAssumption
DEF Init, TypeOK, Times, Never, Nothing, PassSteps

(* Every step of every behaviour keeps the state well typed.               *)
THEOREM TypeCorrect == Spec => []TypeOK
BY TypeInit, TypeStep, PTL DEF Spec
-----------------------------------------------------------------------------
(* What the flush, the pass and the end of a helper leave alone.           *)

LEMMA PassFrame ==
    PassNext => UNCHANGED <<clock, accessed, accessFlushed, phase, pc, batch, hit>>
BY DEF PassNext, BeginPass, NextTable, EndPass, ChooseStale, PlanEviction,
    ExpireChosen, EvictOutput, UnchangedByPass, helperVars

LEMMA FlusherProc == \A f \in Flushers : ProcOf(f) \in Helpers
BY AccessTimesAssumption DEF Flushers, ProcOf

LEMMA HelperFlushes ==
    /\ \A p \in Helpers : p \in Flushers /\ ProcOf(p) = p
    /\ \A h \in Handlers : h \in Flushers /\ ProcOf(h) = HelperOf[h]
BY AccessTimesAssumption DEF Flushers, ProcOf

(* The times a flush can put back are among those it found or took.        *)
LEMMA RestoredFrom ==
    ASSUME TypeOK, NEW p \in Helpers, NEW f \in Flushers, NEW k \in Keys
    PROVE  LET r == Restored(p, batch[f])[k] IN
           /\ r >= accessed[p][k] /\ r >= batch[f][k]
           /\ r = accessed[p][k] \/ r = batch[f][k]
BY DEF TypeOK, Restored, Times, Never

(* What an action does to the memory of one helper and to one flush, row   *)
(* by row.                                                                 *)
LEMMA HitEffect ==
    ASSUME TypeOK, NEW h \in Handlers, NEW a \in Entries, Hit(h, a),
           NEW p \in Helpers, NEW k \in Keys
    PROVE  /\ \/ /\ accessed'[p][k] = hit'[p][k]
                 /\ accessed'[p][k] \in 1..clock
                 /\ PromptFlush => clock - accessed'[p][k] <= Delay
              \/ accessed'[p][k] = accessed[p][k] /\ hit'[p][k] = hit[p][k]
           /\ UNCHANGED <<clock, phase, batch, row, mpc, cutoff, chosen>>
<1>1. HelperOf[h] \in Helpers
    BY AccessTimesAssumption
<1>2. PICK t \in 1..clock :
      /\ PromptFlush => clock - t <= Delay
      /\ accessed' = [accessed EXCEPT ![HelperOf[h]] =
              [x \in Keys |-> IF x \in Marks(a) THEN t ELSE @[x]]]
      /\ hit' = [hit EXCEPT ![HelperOf[h]] =
              [x \in Keys |-> IF x \in Marks(a) THEN t ELSE @[x]]]
      /\ UNCHANGED <<clock, phase, batch, row, mpc, cutoff, chosen>>
    BY DEF Hit, passVars
<1> QED
    BY <1>1, <1>2 DEF TypeOK

LEMMA TakeEffect ==
    ASSUME TypeOK, NEW f \in Flushers, TakeBatch(f), NEW k \in Keys
    PROVE  /\ \A g \in Flushers :
                  batch'[g][k] = IF g = f THEN accessed[ProcOf(f)][k] ELSE batch[g][k]
           /\ \A p \in Helpers :
                  accessed'[p][k] = IF p = ProcOf(f) THEN Never ELSE accessed[p][k]
BY FlusherProc DEF TypeOK, TakeBatch, Nothing

LEMMA FailEffect ==
    ASSUME TypeOK, NEW f \in Flushers, FlushFails(f), NEW k \in Keys
    PROVE  /\ \A g \in Flushers :
                  batch'[g][k] = IF g = f THEN Never ELSE batch[g][k]
           /\ \A p \in Helpers :
                  accessed'[p][k] = IF p = ProcOf(f) THEN Restored(p, batch[f])[k]
                                                     ELSE accessed[p][k]
BY FlusherProc DEF TypeOK, FlushFails, Nothing

LEMMA CommitEffect ==
    ASSUME TypeOK, NEW f \in Flushers, CommitBatch(f), NEW k \in Keys
    PROVE  /\ \A g \in Flushers :
                  batch'[g][k] = IF g = f THEN Never ELSE batch[g][k]
           /\ row'[k] = IF batch[f][k] # Never /\ row[k] # Never THEN batch[f][k] ELSE row[k]
BY DEF TypeOK, CommitBatch, Nothing, Touched

LEMMA ReplaceEffect ==
    ASSUME TypeOK, NEW p \in Helpers, NEW e \in BOOLEAN, Replace(p, e), NEW k \in Keys
    PROVE  /\ \A f \in Flushers :
                  batch'[f][k] = IF ProcOf(f) = p THEN Never ELSE batch[f][k]
           /\ \A q \in Helpers :
                  /\ accessed'[q][k] = IF q = p THEN Never ELSE accessed[q][k]
                  /\ hit'[q][k] = IF q = p /\ e THEN Never ELSE hit[q][k]
BY DEF TypeOK, Replace, Nothing
-----------------------------------------------------------------------------
(* The invariant, conjunct by conjunct.                                    *)

LEMMA PastStep ==
    ASSUME TypeOK, TimesPast, [Next]_vars PROVE TimesPast'
<1> USE DEF TimesPast
<1>0. clock \in Nat /\ Never <= clock
    BY DEF TypeOK, Never
<1>1. ASSUME NEW h \in Handlers, NEW a \in Entries, Hit(h, a) PROVE TimesPast'
    <2>1. \A p \in Helpers, k \in Keys :
              \/ accessed'[p][k] = hit'[p][k] /\ accessed'[p][k] <= clock
              \/ accessed'[p][k] = accessed[p][k] /\ hit'[p][k] = hit[p][k]
        BY <1>1, HitEffect
    <2>2. UNCHANGED <<clock, batch>>
        BY <1>1 DEF Hit
    <2> QED
        BY <1>0, <2>1, <2>2
<1>2. ASSUME NEW f \in Flushers, FlushNext(f) PROVE TimesPast'
    <2>1. CASE TakeBatch(f)
        <3>1. UNCHANGED <<clock, hit>>
            BY <2>1 DEF TakeBatch
        <3> QED
            BY <1>0, <2>1, <3>1, TakeEffect, FlusherProc
    <2>2. CASE CommitBatch(f)
        <3>1. UNCHANGED <<clock, hit, accessed>>
            BY <2>2 DEF CommitBatch
        <3> QED
            BY <1>0, <2>2, <3>1, CommitEffect
    <2>3. CASE FlushFails(f)
        <3>1. UNCHANGED <<clock, hit>>
            BY <2>3 DEF FlushFails
        <3> QED
            BY <1>0, <2>3, <3>1, FailEffect, RestoredFrom
    <2> QED
        BY <1>2, <2>1, <2>2, <2>3 DEF FlushNext
<1>3. ASSUME NEW p \in Helpers, Close(p) \/ Exit(p) \/ Kill(p) PROVE TimesPast'
    <2>1. CASE Close(p)
        BY <2>1 DEF Close
    <2>2. ASSUME NEW e \in BOOLEAN, Replace(p, e) PROVE TimesPast'
        <3>1. UNCHANGED clock
            BY <2>2 DEF Replace
        <3> QED
            BY <1>0, <2>2, <3>1, ReplaceEffect
    <2> QED
        BY <1>3, <2>1, <2>2 DEF Exit, Kill
<1>4. ASSUME NEW a \in Entries, Put(a) PROVE TimesPast'
    BY <1>4 DEF Put, helperVars
<1>5. CASE PassNext
    BY <1>5, PassFrame
<1>6. CASE Tick
    BY <1>0, <1>6 DEF Tick, helperVars, TypeOK, Times, Never
<1>7. CASE UNCHANGED vars
    BY <1>7 DEF vars
<1> QED
    BY <1>1, <1>2, <1>3, <1>4, <1>5, <1>6, <1>7 DEF Next

LEMMA RecentStep ==
    ASSUME TypeOK, StillRecent, [Next]_vars PROVE StillRecent'
<1> SUFFICES ASSUME PromptFlush PROVE StillRecent'
    BY DEF StillRecent
<1> USE DEF StillRecent, Recent
<1>0. clock \in Nat /\ clock - clock <= Delay
    BY AccessTimesAssumption DEF TypeOK
<1>1. ASSUME NEW h \in Handlers, NEW a \in Entries, Hit(h, a) PROVE StillRecent'
    <2>1. \A p \in Helpers, k \in Keys :
              clock - accessed'[p][k] <= Delay \/ accessed'[p][k] = accessed[p][k]
        BY <1>1, HitEffect
    <2>2. UNCHANGED <<clock, batch>>
        BY <1>1 DEF Hit
    <2> QED
        BY <1>0, <2>1, <2>2
<1>2. ASSUME NEW f \in Flushers, FlushNext(f) PROVE StillRecent'
    <2>1. CASE TakeBatch(f)
        <3>1. UNCHANGED clock
            BY <2>1 DEF TakeBatch
        <3> QED
            BY <2>1, <3>1, TakeEffect, FlusherProc
    <2>2. CASE CommitBatch(f)
        <3>1. UNCHANGED <<clock, accessed>>
            BY <2>2 DEF CommitBatch
        <3> QED
            BY <2>2, <3>1, CommitEffect
    <2>3. CASE FlushFails(f)
        <3>1. UNCHANGED clock
            BY <2>3 DEF FlushFails
        <3> QED
            BY <2>3, <3>1, FailEffect, RestoredFrom
    <2> QED
        BY <1>2, <2>1, <2>2, <2>3 DEF FlushNext
<1>3. ASSUME NEW p \in Helpers, Close(p) \/ Exit(p) \/ Kill(p) PROVE StillRecent'
    <2>1. CASE Close(p)
        BY <2>1 DEF Close
    <2>2. ASSUME NEW e \in BOOLEAN, Replace(p, e) PROVE StillRecent'
        <3>1. UNCHANGED clock
            BY <2>2 DEF Replace
        <3> QED
            BY <2>2, <3>1, ReplaceEffect
    <2> QED
        BY <1>3, <2>1, <2>2 DEF Exit, Kill
<1>4. ASSUME NEW a \in Entries, Put(a) PROVE StillRecent'
    BY <1>4 DEF Put, helperVars
<1>5. CASE PassNext
    BY <1>5, PassFrame
<1>6. CASE Tick
    <2>1. UNCHANGED <<accessed, batch>> /\ clock' = clock + 1
        BY <1>6 DEF Tick, helperVars
    <2>2. ASSUME NEW t \in Times, Arriving(t) PROVE Recent(t)'
        BY <2>1, <2>2, <1>0, AccessTimesAssumption DEF Arriving, Times, Never
    <2>3. /\ \A p \in Helpers, k \in Keys : accessed[p][k] \in Times
          /\ \A f \in Flushers, k \in Keys : batch[f][k] \in Times
        BY DEF TypeOK
    <2> QED
        BY <1>6, <2>1, <2>2, <2>3 DEF Tick
<1>7. CASE UNCHANGED vars
    BY <1>7 DEF vars
<1> QED
    BY <1>1, <1>2, <1>3, <1>4, <1>5, <1>6, <1>7 DEF Next

LEMMA HeldStep ==
    ASSUME TypeOK, BatchesHeld, [Next]_vars PROVE BatchesHeld'
<1> USE DEF BatchesHeld
<1>1. ASSUME NEW h \in Handlers, NEW a \in Entries, Hit(h, a) PROVE BatchesHeld'
    <2>1. UNCHANGED batch /\ pc[h] = "idle" /\ h \in Flushers
        BY <1>1, HelperFlushes DEF Hit
    <2>2. \A f \in Flushers : f # h => pc'[f] = pc[f]
        BY <1>1 DEF Hit, TypeOK
    <2> QED
        BY <2>1, <2>2
<1>2. ASSUME NEW f \in Flushers, FlushNext(f) PROVE BatchesHeld'
    <2>1. CASE TakeBatch(f)
        <3>1. \A k \in Keys : accessed[ProcOf(f)] = Nothing => accessed[ProcOf(f)][k] = Never
            BY DEF Nothing
        <3>2. /\ pc'[f] = IF accessed[ProcOf(f)] = Nothing THEN "idle" ELSE "write"
              /\ \A g \in Flushers : g # f => pc'[g] = pc[g]
            BY <2>1 DEF TakeBatch, TypeOK
        <3>3. \A g \in Flushers, k \in Keys :
                  batch'[g][k] = IF g = f THEN accessed[ProcOf(f)][k] ELSE batch[g][k]
            BY <2>1, TakeEffect
        <3> QED
            BY ONLY <3>1, <3>2, <3>3, BatchesHeld DEF BatchesHeld
    <2>2. CASE CommitBatch(f)
        BY <2>2, CommitEffect DEF CommitBatch, TypeOK
    <2>3. CASE FlushFails(f)
        BY <2>3, FailEffect DEF FlushFails, TypeOK
    <2> QED
        BY <1>2, <2>1, <2>2, <2>3 DEF FlushNext
<1>3. ASSUME NEW p \in Helpers, Close(p) \/ Exit(p) \/ Kill(p) PROVE BatchesHeld'
    <2>1. CASE Close(p)
        BY <2>1 DEF Close, TypeOK
    <2>2. ASSUME NEW e \in BOOLEAN, Replace(p, e) PROVE BatchesHeld'
        <3>1. \A f \in Flushers : pc'[f] = IF ProcOf(f) = p THEN "idle" ELSE pc[f]
            BY <2>2 DEF Replace
        <3>2. \A f \in Flushers, k \in Keys :
                  batch'[f][k] = IF ProcOf(f) = p THEN Never ELSE batch[f][k]
            BY <2>2, ReplaceEffect
        <3> QED
            BY ONLY <3>1, <3>2, BatchesHeld DEF BatchesHeld
    <2> QED
        BY <1>3, <2>1, <2>2 DEF Exit, Kill
<1>4. ASSUME NEW a \in Entries, Put(a) PROVE BatchesHeld'
    BY <1>4 DEF Put, helperVars
<1>5. CASE PassNext
    BY <1>5, PassFrame
<1>6. CASE Tick
    BY <1>6 DEF Tick, helperVars
<1>7. CASE UNCHANGED vars
    BY <1>7 DEF vars
<1> QED
    BY <1>1, <1>2, <1>3, <1>4, <1>5, <1>6, <1>7 DEF Next

LEMMA ClosingStep ==
    ASSUME TypeOK, ClosingFlushed, [Next]_vars PROVE ClosingFlushed'
<1> USE DEF ClosingFlushed
<1>1. ASSUME NEW h \in Handlers, NEW a \in Entries, Hit(h, a) PROVE ClosingFlushed'
    <2> DEFINE q == HelperOf[h]
    <2>1. UNCHANGED phase /\ phase[q] # "closing" /\ pc[h] = "idle"
        BY <1>1 DEF Hit
    <2>2. h \in Flushers /\ h \notin Helpers
        BY HelperFlushes, AccessTimesAssumption
    <2>3. \A f \in Flushers : f # h => pc'[f] = pc[f]
        BY <1>1 DEF Hit, TypeOK
    <2>4. \A p \in Helpers : p # q => accessed'[p] = accessed[p]
        BY <1>1 DEF Hit, TypeOK
    <2> QED
        BY <2>1, <2>2, <2>3, <2>4, HelperFlushes
<1>2. ASSUME NEW f \in Flushers, FlushNext(f) PROVE ClosingFlushed'
    <2> SUFFICES ASSUME NEW p \in Helpers, phase'[p] = "closing"
                 PROVE  /\ \A h \in Handlers : HelperOf[h] = p => pc'[h] = "idle"
                        /\ pc'[p] # "take" => \A k \in Keys : accessed'[p][k] = Never
        OBVIOUS
    <2>1. phase[p] = "closing" /\ pc[f] # "idle" /\ (phase' # phase => p # ProcOf(f) \/ f # p)
        BY <1>2, FlusherProc, HelperFlushes DEF FlushNext, TakeBatch, CommitBatch, FlushFails, TypeOK
    <2>2. f \notin Handlers \/ HelperOf[f] # p
        BY <2>1
    <2>3. \A g \in Flushers : g # f => pc'[g] = pc[g]
        BY <1>2 DEF FlushNext, TakeBatch, CommitBatch, FlushFails, TypeOK
    <2>4. \A h \in Handlers : HelperOf[h] = p => pc'[h] = "idle"
        BY <2>1, <2>2, <2>3, HelperFlushes
    <2>5. CASE f # p
        <3>1. ProcOf(f) # p
            BY <2>2, <2>5 DEF ProcOf, Flushers
        <3>2. accessed'[p] = accessed[p]
            BY <1>2, <3>1, FlusherProc DEF FlushNext, TakeBatch, CommitBatch, FlushFails, TypeOK
        <3> QED
            BY <2>1, <2>3, <2>4, <2>5, <3>2, HelperFlushes
    <2>6. CASE f = p
        <3>1. ~FlushFails(f)
            BY <2>6, HelperFlushes DEF FlushFails, TypeOK
        <3>2. CASE TakeBatch(f)
            BY <2>4, <2>6, <3>2, TakeEffect, HelperFlushes
        <3>3. CASE CommitBatch(f)
            BY <2>1, <2>4, <2>6, <3>3 DEF CommitBatch
        <3> QED
            BY <1>2, <3>1, <3>2, <3>3 DEF FlushNext
    <2> QED
        BY <2>5, <2>6
<1>3. ASSUME NEW p \in Helpers, Close(p) \/ Exit(p) \/ Kill(p) PROVE ClosingFlushed'
    <2>1. CASE Close(p)
        <3>1. UNCHANGED accessed /\ (\A q \in Helpers : q # p => phase'[q] = phase[q])
              /\ (\A f \in Flushers : f # p => pc'[f] = pc[f])
              /\ pc'[p] = "take"
            BY <2>1, HelperFlushes DEF Close, TypeOK
        <3>2. phase'[p] = "closing" => \A h \in Handlers : HelperOf[h] = p => pc[h] = "idle"
            BY <2>1 DEF Close, TypeOK
        <3>3. p \notin Handlers
            BY AccessTimesAssumption
        <3> QED
            BY <3>1, <3>2, <3>3, HelperFlushes
    <2>2. ASSUME NEW e \in BOOLEAN, Replace(p, e) PROVE ClosingFlushed'
        <3>1. /\ \A f \in Flushers : ProcOf(f) # p => pc'[f] = pc[f]
              /\ \A q \in Helpers : q # p => phase'[q] = phase[q] /\ accessed'[q] = accessed[q]
              /\ phase'[p] = "running"
            BY <2>2 DEF Replace, TypeOK
        <3> QED
            BY <3>1, HelperFlushes
    <2> QED
        BY <1>3, <2>1, <2>2 DEF Exit, Kill
<1>4. ASSUME NEW a \in Entries, Put(a) PROVE ClosingFlushed'
    BY <1>4 DEF Put, helperVars
<1>5. CASE PassNext
    BY <1>5, PassFrame
<1>6. CASE Tick
    BY <1>6 DEF Tick, helperVars
<1>7. CASE UNCHANGED vars
    BY <1>7 DEF vars
<1> QED
    BY <1>1, <1>2, <1>3, <1>4, <1>5, <1>6, <1>7 DEF Next

LEMMA CutoffStep ==
    ASSUME TypeOK, CutoffPast, [Next]_vars PROVE CutoffPast'
<1> USE AccessTimesAssumption DEF CutoffPast, Cutoff
<1>1. CASE PassNext
    <2>1. UNCHANGED clock
        BY <1>1, PassFrame
    <2>2. CASE BeginPass \/ PlanEviction
        BY <2>1, <2>2 DEF BeginPass, PlanEviction, Cutoff, TypeOK
    <2>3. CASE EndPass
        BY <2>3 DEF EndPass
    <2>4. CASE ChooseStale \/ ExpireChosen \/ NextTable \/ \E o \in Outputs : EvictOutput(o)
        <3>1. UNCHANGED cutoff /\ mpc # "off"
            BY <2>4 DEF ChooseStale, ExpireChosen, NextTable, EvictOutput, PassStep
        <3> QED
            BY <2>1, <3>1
    <2> QED
        BY <1>1, <2>2, <2>3, <2>4 DEF PassNext
<1>2. CASE Tick
    BY <1>2 DEF Tick, passVars, TypeOK
<1>3. ASSUME UNCHANGED <<clock, mpc, cutoff>> PROVE CutoffPast'
    BY <1>3
<1> QED
    BY <1>1, <1>2, <1>3
    DEF Next, vars, Hit, FlushNext, TakeBatch, CommitBatch, FlushFails, Close,
        Exit, Kill, Replace, Put, passVars

(* The heart of it: where each hit is after a step.                        *)
LEMMA KeptStep ==
    ASSUME TypeOK, TimesPast, StillRecent, BatchesHeld, ClosingFlushed, HitsKept, [Next]_vars
    PROVE  HitsKept'
<1> SUFFICES ASSUME PromptFlush, NEW p \in Helpers, NEW k \in Keys
             PROVE  (OnItsWay(p, k) \/ row[k] = Never \/ hit[p][k] <= row[k] + Delay)'
    BY DEF HitsKept
<1> DEFINE Kept == OnItsWay(p, k) \/ row[k] = Never \/ hit[p][k] <= row[k] + Delay
<1>0. Kept
    BY DEF HitsKept
<1>t. /\ clock \in Nat /\ Delay \in Nat /\ Never = 0
      /\ \A q \in Helpers : accessed[q][k] \in Nat /\ hit[q][k] \in Nat
      /\ \A f \in Flushers : batch[f][k] \in Nat
      /\ row[k] \in Nat
    BY AccessTimesAssumption DEF TypeOK, Times, Never
<1>p. hit[p][k] <= clock
    BY DEF TimesPast
<1>1. ASSUME NEW h \in Handlers, NEW a \in Entries, Hit(h, a) PROVE Kept'
    <2>1. UNCHANGED <<batch, row>>
        BY <1>1 DEF Hit
    <2>2. \/ accessed'[p][k] = hit'[p][k] /\ accessed'[p][k] \in Nat
          \/ accessed'[p][k] = accessed[p][k] /\ hit'[p][k] = hit[p][k]
        BY <1>1, HitEffect
    <2> QED
        BY <1>0, <1>t, <2>1, <2>2 DEF OnItsWay
<1>2. ASSUME NEW f \in Flushers, TakeBatch(f) PROVE Kept'
    <2>1. UNCHANGED <<hit, row>> /\ batch[f][k] = Never
        BY <1>2 DEF TakeBatch, BatchesHeld
    <2>2. /\ \A g \in Flushers :
                 batch'[g][k] = IF g = f THEN accessed[ProcOf(f)][k] ELSE batch[g][k]
          /\ accessed'[p][k] = IF p = ProcOf(f) THEN Never ELSE accessed[p][k]
        BY <1>2, TakeEffect
    <2>3. CASE hit[p][k] = 0
        BY <1>t, <2>1, <2>3
    <2>4. CASE hit[p][k] # 0
        BY <1>0, <1>t, <2>1, <2>2, <2>4 DEF OnItsWay
    <2> QED
        BY <2>3, <2>4
<1>3. ASSUME NEW f \in Flushers, CommitBatch(f) PROVE Kept'
    <2>1. UNCHANGED <<hit, accessed>>
        BY <1>3 DEF CommitBatch
    <2>2. /\ \A g \in Flushers :
                 batch'[g][k] = IF g = f THEN Never ELSE batch[g][k]
          /\ row'[k] = IF batch[f][k] # Never /\ row[k] # Never THEN batch[f][k] ELSE row[k]
        BY <1>3, CommitEffect
    <2>3. batch[f][k] = Never \/ clock - batch[f][k] <= Delay
        BY DEF StillRecent, Recent
    <2>4. CASE batch[f][k] = Never
        <3>1. CASE hit[p][k] = 0
            BY <1>t, <2>1, <2>2, <2>4, <3>1
        <3>2. CASE hit[p][k] # 0
            BY <1>0, <1>t, <2>1, <2>2, <2>4, <3>2 DEF OnItsWay
        <3> QED
            BY <3>1, <3>2
    <2>5. CASE batch[f][k] # Never
        BY <1>t, <1>p, <2>1, <2>2, <2>3, <2>5
    <2> QED
        BY <2>4, <2>5
<1>4. ASSUME NEW f \in Flushers, FlushFails(f) PROVE Kept'
    <2>1. UNCHANGED <<hit, row>>
        BY <1>4 DEF FlushFails
    <2>2. /\ \A g \in Flushers :
                 batch'[g][k] = IF g = f THEN Never ELSE batch[g][k]
          /\ accessed'[p][k] = IF p = ProcOf(f) THEN Restored(p, batch[f])[k]
                                                ELSE accessed[p][k]
        BY <1>4, FailEffect
    <2>3. /\ Restored(p, batch[f])[k] >= accessed[p][k]
          /\ Restored(p, batch[f])[k] >= batch[f][k]
          /\ Restored(p, batch[f])[k] \in Nat
        BY <1>t, RestoredFrom
    <2> QED
        BY <1>0, <1>t, <2>1, <2>2, <2>3 DEF OnItsWay
<1>5. CASE Close(p) \/ Kill(p) \/ Exit(p)
    <2>1. CASE Close(p)
        BY <1>0, <2>1 DEF Close, OnItsWay
    <2>2. CASE Replace(p, TRUE)
        <3>1. accessed'[p][k] = Never /\ hit'[p][k] = Never
            BY <2>2, ReplaceEffect
        <3> QED
            BY <1>t, <3>1 DEF OnItsWay
    <2>3. CASE Exit(p) /\ phase[p] = "closing"
        <3>1. UNCHANGED row /\ pc[p] = "idle"
            BY <2>3 DEF Exit, Replace
        <3>2. hit'[p][k] = hit[p][k]
            BY <2>3, ReplaceEffect DEF Exit
        <3>3. accessed[p][k] = Never
            BY <2>3, <3>1 DEF ClosingFlushed
        <3>4. \A f \in Flushers : ProcOf(f) = p => batch[f][k] = Never
            BY <2>3, <3>1 DEF ClosingFlushed, BatchesHeld, Flushers, ProcOf
        <3>5. hit[p][k] = 0 \/ row[k] = Never \/ hit[p][k] <= row[k] + Delay
            BY <1>0, <1>t, <3>3, <3>4 DEF OnItsWay
        <3> QED
            BY <1>t, <3>1, <3>2, <3>5
    <2> QED
        BY <1>5, <2>1, <2>2, <2>3 DEF Exit, Kill
<1>6. ASSUME NEW q \in Helpers, q # p, Close(q) \/ Exit(q) \/ Kill(q) PROVE Kept'
    <2>1. CASE Close(q)
        BY <1>0, <2>1 DEF Close, OnItsWay
    <2>2. ASSUME NEW e \in BOOLEAN, Replace(q, e) PROVE Kept'
        <3>1. UNCHANGED row
            BY <2>2 DEF Replace
        <3>2. /\ \A f \in Flushers : ProcOf(f) = p => batch'[f][k] = batch[f][k]
              /\ accessed'[p][k] = accessed[p][k] /\ hit'[p][k] = hit[p][k]
            BY <1>6, <2>2, ReplaceEffect
        <3> QED
            BY <1>0, <3>1, <3>2 DEF OnItsWay
    <2> QED
        BY <1>6, <2>1, <2>2 DEF Exit, Kill
<1>7. ASSUME NEW a \in Entries, Put(a) PROVE Kept'
    <2>1. UNCHANGED <<accessed, batch, hit>>
        BY <1>7 DEF Put, helperVars
    <2>2. PICK t \in 1..clock : clock - t <= Delay /\ (row'[k] = t \/ row'[k] = row[k])
        BY <1>7 DEF Put
    <2> QED
        BY <1>0, <1>t, <1>p, <2>1, <2>2 DEF OnItsWay
<1>8. CASE PassNext
    <2>1. UNCHANGED <<accessed, batch, hit>>
        BY <1>8, PassFrame
    <2>2. row'[k] = row[k] \/ row'[k] = Never
        BY <1>8 DEF PassNext, BeginPass, NextTable, EndPass, ChooseStale,
            PlanEviction, ExpireChosen, EvictOutput, TypeOK
    <2> QED
        BY <1>0, <2>1, <2>2 DEF OnItsWay
<1>9. CASE UNCHANGED <<accessed, batch, hit, row>>
    BY <1>0, <1>9 DEF OnItsWay
<1> QED
    BY <1>1, <1>2, <1>3, <1>4, <1>5, <1>6, <1>7, <1>8, <1>9
    DEF Next, FlushNext, Tick, vars, helperVars
-----------------------------------------------------------------------------
(* The results.                                                            *)

LEMMA InvariantInit == Init => AccessInvariant
<1> SUFFICES ASSUME Init PROVE AccessInvariant
    OBVIOUS
<1>1. TypeOK
    BY TypeInit
<1>2. TimesPast /\ StillRecent /\ BatchesHeld /\ ClosingFlushed /\ CutoffPast
    BY AccessTimesAssumption, HelperFlushes
    DEF Init, TimesPast, StillRecent, Recent, BatchesHeld, ClosingFlushed, CutoffPast, Never, Nothing
<1>3. HitsKept
    BY DEF Init, HitsKept, OnItsWay, Never, Nothing
<1> QED
    BY <1>1, <1>2, <1>3 DEF AccessInvariant

LEMMA InvariantStep == AccessInvariant /\ [Next]_vars => AccessInvariant'
BY TypeStep, PastStep, RecentStep, HeldStep, ClosingStep, CutoffStep, KeptStep
DEF AccessInvariant

LEMMA InvariantHolds == Spec => []AccessInvariant
BY InvariantInit, InvariantStep, PTL DEF Spec

(* No hit of a helper that is not killed is lost on its way to the         *)
(* catalog.                                                                *)
THEOREM HitsSurvive == Spec => []HitsKept
<1>1. AccessInvariant => HitsKept
    BY DEF AccessInvariant
<1> QED
    BY <1>1, InvariantHolds, PTL

LEMMA ExpiryStep ==
    ASSUME PromptFlush, AccessInvariant, NEW k \in Keys, Expired(k), [Next]_vars,
           NEW p \in Helpers
    PROVE  hit[p][k] < clock - MaxAge \/ OnItsWay(p, k)
<1>1. /\ TypeOK
      /\ OnItsWay(p, k) \/ row[k] = Never \/ hit[p][k] <= row[k] + Delay
      /\ mpc # "off" => cutoff <= clock - MaxAge - Slack
    BY DEF AccessInvariant, HitsKept, CutoffPast, Cutoff
<1>2. mpc # "off" /\ row[k] # Never /\ row'[k] = Never /\ ExpireChosen
    <2>1. PassNext
        BY DEF Next, vars, Expired, Hit, FlushNext, TakeBatch, CommitBatch, FlushFails,
            Close, Exit, Kill, Replace, Put, Tick, passVars
    <2> QED
        BY <2>1 DEF Expired, Removed, PassNext, BeginPass, NextTable, EndPass, ChooseStale,
            PlanEviction, EvictOutput, PassStep
<1>3. row[k] < cutoff
    BY <1>2 DEF ExpireChosen, MayExpire, IsStale
<1> QED
    BY <1>1, <1>2, <1>3, AccessTimesAssumption, SlackAssumption DEF TypeOK, Times, Never

(* While helpers flush their hits in time, age expiry deletes no row that  *)
(* the catalog could know was used within maxAge.                          *)
THEOREM ExpiryIsSafe == PromptFlush /\ Spec => ExpirySparesUsed
<1> SUFFICES ASSUME PromptFlush PROVE Spec => ExpirySparesUsed
    OBVIOUS
<1> DEFINE Spared == \A k \in Keys : Expired(k) => \A p \in Helpers :
                         hit[p][k] < clock - MaxAge \/ OnItsWay(p, k)
<1>1. AccessInvariant /\ [Next]_vars => Spared
    BY ExpiryStep
<1> QED
    BY <1>1, InvariantHolds, PTL DEF Spec, ExpirySparesUsed

LEMMA EvictionStep ==
    ASSUME PromptFlush, AccessInvariant, NEW o \in Outputs, Evicted(o), [Next]_vars,
           NEW p \in Helpers
    PROVE  hit[p][o] <= chosen[o] + Delay \/ OnItsWay(p, o)
<1>1. /\ TypeOK /\ o \in Keys
      /\ OnItsWay(p, o) \/ row[o] = Never \/ hit[p][o] <= row[o] + Delay
    BY DEF AccessInvariant, HitsKept, Keys
<1>2. row[o] # Never /\ row'[o] = Never /\ chosen[o] # Never /\ mpc = "evict" /\ chosen'[o] = Never
    BY DEF Evicted, Removed
<1>3. EvictOutput(o)
    <2>1. PassNext
        BY <1>2 DEF Next, vars, Hit, FlushNext, TakeBatch, CommitBatch, FlushFails,
            Close, Exit, Kill, Replace, Put, Tick, passVars
    <2>2. ASSUME NEW x \in Outputs, EvictOutput(x) PROVE x = o
        <3>1. row' = row \/ row' = [row EXCEPT ![x] = Never]
            BY <2>2, <1>1 DEF EvictOutput, TypeOK, Keys
        <3> QED
            BY <3>1, <1>1, <1>2 DEF TypeOK, Keys
    <2> QED
        BY <1>2, <2>1, <2>2 DEF PassNext, BeginPass, NextTable, EndPass, ChooseStale,
            PlanEviction, ExpireChosen, PassStep
<1>4. row[o] <= chosen[o]
    BY <1>1, <1>2, <1>3 DEF EvictOutput, StillCold, TypeOK
<1> QED
    BY <1>1, <1>2, <1>4, AccessTimesAssumption DEF TypeOK, Times, Never

(* While helpers flush their hits in time, eviction removes no output used *)
(* since it was chosen, as far as the catalog could know.                  *)
THEOREM EvictionIsSafe == PromptFlush /\ Spec => EvictsOnlyCold
<1> SUFFICES ASSUME PromptFlush PROVE Spec => EvictsOnlyCold
    OBVIOUS
<1> DEFINE Spared == \A o \in Outputs : Evicted(o) => \A p \in Helpers :
                         hit[p][o] <= chosen[o] + Delay \/ OnItsWay(p, o)
<1>1. AccessInvariant /\ [Next]_vars => Spared
    BY EvictionStep
<1> QED
    BY <1>1, InvariantHolds, PTL DEF Spec, EvictsOnlyCold
=============================================================================
