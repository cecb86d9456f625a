--------------------------- MODULE ShardFilesProofs ---------------------------
(* Proofs about ShardFiles, for any number of puts and gets and any grace, *)
(* provided puts are as prompt as the code takes them to be.               *)
EXTENDS ShardFiles, TLAPS

(* One step per action: each keeps the types and the stripe's holder.      *)
LEMMA TypeStep == TypeOK /\ [Next]_vars => TypeOK'
<1> SUFFICES ASSUME TypeOK, [Next]_vars PROVE TypeOK'
    OBVIOUS
<1> USE ShardFilesAssumption DEF TypeOK, StripeOK, Times, NoFile, FileTimes, InstallSteps,
PutSteps,
       GetSteps, PassSteps, putVars, passVars, Exists
<1>1. ASSUME NEW p \in Puts, PutNext(p) PROVE TypeOK'
    <2> USE DEF PutStep
    <2>1. CASE MakeShardDir(p)
        BY <2>1 DEF MakeShardDir
    <2>2. CASE CreatePending(p)
        BY <2>2 DEF CreatePending
    <2>3. CASE CreateFails(p)
        BY <2>3 DEF CreateFails
    <2>4. CASE FinishWrite(p)
        BY <2>4 DEF FinishWrite
    <2>5. CASE LockStripe(p)
        BY <2>5 DEF LockStripe
    <2>6. CASE CheckBlob(p)
        BY <2>6 DEF CheckBlob
    <2>7. CASE StampBlob(p)
        BY <2>7 DEF StampBlob
    <2>8. CASE RenamePending(p)
        BY <2>8 DEF RenamePending
    <2>9. CASE RenameFails(p)
        BY <2>9 DEF RenameFails
    <2>10. CASE SizeBlob(p)
        BY <2>10 DEF SizeBlob
    <2>11. CASE RecordPut(p) \/ PutFails(p)
        BY <2>11 DEF RecordPut, PutFails
    <2>12. CASE NextPut(p)
        BY <2>12 DEF NextPut
    <2>13. CASE Kill(p)
        BY <2>13 DEF Kill
    <2> QED
        BY <1>1, <2>1, <2>2, <2>3, <2>4, <2>5, <2>6, <2>7, <2>8, <2>9, <2>10, <2>11, <2>12, <2>13
        DEF PutNext
<1>2. ASSUME NEW g \in Gets, GetNext(g) PROVE TypeOK'
    BY <1>2 DEF GetNext, GetStep, Lookup, OpenBlob, DropBlob, DropRow, Unlink
<1>3. CASE PassNext
    <2> USE DEF PassStep
    <2>1. CASE BeginPass
        BY <2>1 DEF BeginPass
    <2>6. CASE ExpireRow \/ EvictRow
        BY <2>6 DEF ExpireRow, EvictRow
    <2>2. CASE QueryReferenced \/ WalkShard \/ Requery
        BY <2>2 DEF QueryReferenced, WalkShard, Requery
    <2>3. CASE UnlinkOrphan \/ EvictUnlink
        BY <2>3 DEF UnlinkOrphan, EvictUnlink, Unlink
    <2>4. CASE RemoveStalePending
        BY <2>4 DEF RemoveStalePending
    <2>5. CASE RemoveEmptyDir \/ EndPass
        BY <2>5 DEF RemoveEmptyDir, EndPass
    <2> QED
        BY <1>3, <2>1, <2>2, <2>3, <2>4, <2>5, <2>6 DEF PassNext
<1>4. CASE Tick
    BY <1>4 DEF Tick
<1>5. CASE UNCHANGED vars
    BY <1>5 DEF vars
<1> QED
    BY <1>1, <1>2, <1>3, <1>4, <1>5 DEF Next

(* Nothing has happened yet. *)
LEMMA TypeInit == Init => TypeOK
<1> SUFFICES ASSUME Init PROVE TypeOK
    OBVIOUS
<1>1. StripeOK
    BY ShardFilesAssumption DEF Init, StripeOK, InstallSteps
<1>2. clock \in Times /\ began \in Times /\ passes \in 0..MaxPasses
    BY ShardFilesAssumption DEF Init, Times
<1>3. blob \in FileTimes /\ pending \in [Puts -> FileTimes] /\ since \in [Puts -> Times]
    BY ShardFilesAssumption DEF Init, Times, FileTimes
<1>4. ppc \in [Puts -> PutSteps] /\ gpc \in [Gets -> GetSteps] /\ mpc \in PassSteps
    BY DEF Init, PutSteps, GetSteps, PassSteps
<1> QED
    BY <1>1, <1>2, <1>3, <1>4 DEF Init, TypeOK

(* Every behaviour keeps every variable's type, and the stripe is held by  *)
(* the put that is inside its critical section and by no other.            *)
THEOREM TypeCorrect == Spec => []TypeOK
    BY TypeInit, TypeStep, PTL DEF Spec
-----------------------------------------------------------------------------
(* Times.                                                                  *)

(* Time only grows, and a put that is out of time lets none pass. *)
LEMMA DatedStep ==
    ASSUME TypeOK, Dated, OnTime, PendingDated, [Next]_vars
    PROVE  Dated' /\ OnTime' /\ PendingDated'
<1> USE ShardFilesAssumption DEF TypeOK, Times, NoFile, FileTimes, InstallSteps, Dated, OnTime,
       PendingDated, putVars, passVars, Exists
<1>1. ASSUME NEW p \in Puts, PutNext(p) PROVE Dated' /\ OnTime' /\ PendingDated'
    <2> USE DEF PutStep
    <2>1. CASE MakeShardDir(p) \/ CreateFails(p)
        BY <2>1 DEF MakeShardDir, CreateFails
    <2>2. CASE CreatePending(p)
        BY <2>2 DEF CreatePending
    <2>3. CASE FinishWrite(p)
        BY <2>3 DEF FinishWrite
    <2>4. CASE LockStripe(p) \/ CheckBlob(p)
        BY <2>4 DEF LockStripe, CheckBlob
    <2>5. CASE StampBlob(p)
        BY <2>5 DEF StampBlob
    <2>6. CASE RenamePending(p)
        BY <2>6 DEF RenamePending
    <2>7. CASE RenameFails(p)
        BY <2>7 DEF RenameFails
    <2>8. CASE SizeBlob(p)
        BY <2>8 DEF SizeBlob
    <2>9. CASE RecordPut(p) \/ PutFails(p)
        BY <2>9 DEF RecordPut, PutFails
    <2>10. CASE NextPut(p) \/ Kill(p)
        BY <2>10 DEF NextPut, Kill
    <2> QED
        BY <1>1, <2>1, <2>2, <2>3, <2>4, <2>5, <2>6, <2>7, <2>8, <2>9, <2>10 DEF PutNext
<1>2. ASSUME NEW g \in Gets, GetNext(g) PROVE Dated' /\ OnTime' /\ PendingDated'
    BY <1>2 DEF GetNext, GetStep, Lookup, OpenBlob, DropBlob, DropRow, Unlink
<1>3. CASE PassNext
    <2>1. CASE BeginPass
        BY <2>1 DEF BeginPass
    <2>2. CASE UnlinkOrphan \/ EvictUnlink
        BY <2>2 DEF UnlinkOrphan, EvictUnlink, Unlink
    <2>3. CASE RemoveStalePending
        BY <2>3 DEF RemoveStalePending
    <2> QED
        BY <1>3, <2>1, <2>2, <2>3 DEF PassNext, ExpireRow, QueryReferenced, WalkShard, Requery,
           RemoveEmptyDir, EvictRow, EndPass
<1>4. CASE Tick
    BY <1>4 DEF Tick, InTime
<1>5. CASE UNCHANGED vars
    BY <1>5 DEF vars
<1> QED
    BY <1>1, <1>2, <1>3, <1>4, <1>5 DEF Next

(* The steps that give the blob a new time, and those that only remove it. *)
LEMMA BlobDatedStep ==
    ASSUME TypeOK, Dated, OnTime, PendingDated, BlobDated, [Next]_vars
    PROVE  BlobDated'
<1> USE ShardFilesAssumption DEF TypeOK, StripeOK, Times, NoFile, FileTimes, InstallSteps, Dated,
       OnTime, PendingDated, BlobDated, putVars, passVars, Exists
<1>1. ASSUME NEW p \in Puts, PutNext(p) PROVE BlobDated'
    <2> USE DEF PutStep
    <2>1. CASE StampBlob(p)
        BY <2>1 DEF StampBlob
    <2>2. CASE RenamePending(p)
        BY <2>2 DEF RenamePending
    <2>3. CASE RenameFails(p)
        BY <2>3 DEF RenameFails
    <2>4. CASE SizeBlob(p)
        BY <2>4 DEF SizeBlob
    <2>5. CASE MakeShardDir(p) \/ CreatePending(p) \/ CreateFails(p) \/ FinishWrite(p)
        BY <2>5 DEF MakeShardDir, CreatePending, CreateFails, FinishWrite
    <2>6. CASE LockStripe(p) \/ CheckBlob(p) \/ RecordPut(p) \/ PutFails(p) \/ NextPut(p) \/ Kill(p)
        BY <2>6 DEF LockStripe, CheckBlob, RecordPut, PutFails, NextPut, Kill
    <2> QED
        BY <1>1, <2>1, <2>2, <2>3, <2>4, <2>5, <2>6 DEF PutNext
<1>2. ASSUME NEW g \in Gets, GetNext(g) PROVE BlobDated'
    BY <1>2 DEF GetNext, GetStep, Lookup, OpenBlob, DropBlob, DropRow, Unlink
<1>3. CASE PassNext
    BY <1>3 DEF PassNext, BeginPass, ExpireRow, QueryReferenced, WalkShard, Requery, UnlinkOrphan,
       RemoveStalePending, RemoveEmptyDir, EvictRow, EvictUnlink, EndPass, Unlink
<1>4. CASE Tick \/ UNCHANGED vars
    BY <1>4 DEF Tick, vars
<1> QED
    BY <1>1, <1>2, <1>3, <1>4 DEF Next

(* A row that appears late comes with a blob stamped or renamed in time. *)
LEMMA LateRowStep ==
    ASSUME PromptRecords, OrphanInvariant, [Next]_vars
    PROVE  LateRowYoungBlob'
<1> USE ShardFilesAssumption DEF OrphanInvariant, PromptRecords, TypeOK, StripeOK, Times, NoFile,
       FileTimes, InstallSteps, Dated, OnTime, PendingDated, BlobDated, LateRowYoungBlob, putVars,
       passVars, Exists
<1>1. ASSUME NEW p \in Puts, PutNext(p) PROVE LateRowYoungBlob'
    <2> USE DEF PutStep
    <2>1. CASE StampBlob(p)
        BY <2>1 DEF StampBlob
    <2>2. CASE RenamePending(p)
        BY <2>2 DEF RenamePending
    <2>3. CASE RenameFails(p)
        BY <2>3 DEF RenameFails
    <2>4. CASE RecordPut(p)
        BY <2>4 DEF RecordPut
    <2>5. CASE UNCHANGED <<blob, row, passVars>>
        BY <2>5
    <2> QED
        BY <1>1, <2>1, <2>2, <2>3, <2>4, <2>5 DEF PutNext, MakeShardDir, CreatePending,
           CreateFails,
           FinishWrite, LockStripe, CheckBlob, SizeBlob, PutFails, NextPut, Kill
<1>2. ASSUME NEW g \in Gets, GetNext(g) PROVE LateRowYoungBlob'
    BY <1>2 DEF GetNext, GetStep, Lookup, OpenBlob, DropBlob, DropRow, Unlink
<1>3. CASE PassNext
    BY <1>3 DEF PassNext, PassStep, BeginPass, ExpireRow, QueryReferenced, WalkShard, Requery,
       UnlinkOrphan, RemoveStalePending, RemoveEmptyDir, EvictRow, EvictUnlink, EndPass
<1>4. CASE Tick \/ UNCHANGED vars
    BY <1>4 DEF Tick, vars
<1> QED
    BY <1>1, <1>2, <1>3, <1>4 DEF Next

(* The conjuncts together are inductive, for puts that record in time. *)
LEMMA OrphanInvariantStep ==
    PromptRecords /\ OrphanInvariant /\ [Next]_vars => OrphanInvariant'
    BY TypeStep, DatedStep, BlobDatedStep, LateRowStep DEF OrphanInvariant

(* There is no blob, no row and no put to begin with. *)
LEMMA OrphanInvariantInit == Init => OrphanInvariant
    BY TypeInit, ShardFilesAssumption DEF Init, OrphanInvariant, Dated, OnTime, PendingDated,
       BlobDated, LateRowYoungBlob, NoFile, Exists, InstallSteps

(* What the pass unlinks is an orphan: its rows may have been read long    *)
(* ago, but the blob is too old for a row that has appeared since and for  *)
(* one that is to come.                                                    *)
LEMMA OrphanAtUnlink ==
    ASSUME PromptRecords, OrphanInvariant, mpc = "unlink", ~refd, ~TooRecent, Exists(blob)
    PROVE  ~row /\ \A p \in Puts : ppc[p] # "record"
<1>1. ~row
    BY DEF OrphanInvariant, LateRowYoungBlob, TooRecent
<1>2. ASSUME NEW p \in Puts, ppc[p] = "record" PROVE FALSE
    BY <1>2, ShardFilesAssumption DEF OrphanInvariant, TypeOK, Times, FileTimes, NoFile, Dated,
       OnTime, BlobDated, PromptRecords, TooRecent
<1> QED
    BY <1>1, <1>2

(* If every put records its row within the grace of its last write, no     *)
(* pass ever collects a blob that a row refers to or that a put is about   *)
(* to record, though neither it nor the put holds a lock across the two.   *)
THEOREM OrphansOnly == PromptRecords => (Spec => OnlyOrphansRemoved)
<1> SUFFICES ASSUME PromptRecords PROVE Spec => OnlyOrphansRemoved
    OBVIOUS
<1>1. ASSUME OrphanInvariant, [Next]_vars, OrphanRemoved
      PROVE  ~row /\ \A p \in Puts : ppc[p] # "record"
    <2>1. UnlinkOrphan
        BY <1>1 DEF OrphanRemoved, Next, PassNext, PassStep, PutNext, GetNext, passVars, vars,
           MakeShardDir, CreatePending, CreateFails, FinishWrite, LockStripe, CheckBlob,
           StampBlob,
           RenamePending, RenameFails, SizeBlob, RecordPut, PutFails, NextPut, Kill, Lookup, OpenBlob,
           DropBlob, DropRow, BeginPass, ExpireRow, QueryReferenced, WalkShard, Requery,
           RemoveStalePending, RemoveEmptyDir, EvictRow, EvictUnlink, EndPass, Tick
    <2>2. ~refd /\ ~TooRecent
        BY <1>1, <2>1 DEF UnlinkOrphan, OrphanRemoved
    <2> QED
        BY <1>1, <2>2, OrphanAtUnlink DEF OrphanRemoved
<1>2. OrphanInvariant /\ [Next]_vars =>
          [OrphanRemoved => ~row /\ \A p \in Puts : ppc[p] # "record"]_vars
    BY <1>1
<1> QED
    BY <1>2, OrphanInvariantInit, OrphanInvariantStep, PTL DEF Spec, OnlyOrphansRemoved
-----------------------------------------------------------------------------
(* Installing.                                                             *)

(* No pending file of a put still at work is stale.                        *)
LEMMA NoneStale ==
    ASSUME PromptPuts, TypeOK, Dated, OnTime, PendingDated, NEW p \in Puts,
           ppc[p] \in {"write"} \cup InstallSteps
    PROVE  ~Stale(pending[p])
BY ShardFilesAssumption DEF PromptPuts, TypeOK, Times, NoFile, FileTimes, Dated, OnTime,
   PendingDated,
   Stale, Exists

(* The stripe keeps the blob from the check until it is given back. *)
LEMMA InstalledStep ==
    TypeOK /\ InstalledBlobStays /\ [Next]_vars => InstalledBlobStays'
<1> SUFFICES ASSUME TypeOK, InstalledBlobStays, [Next]_vars PROVE InstalledBlobStays'
    OBVIOUS
<1> USE ShardFilesAssumption DEF InstalledBlobStays, TypeOK, StripeOK, Times, NoFile,
       FileTimes, InstallSteps, putVars, passVars, Exists
<1>1. ASSUME NEW p \in Puts, PutNext(p) PROVE InstalledBlobStays'
    <2> USE DEF PutStep
    <2>1. CASE MakeShardDir(p) \/ CreatePending(p) \/ CreateFails(p) \/ FinishWrite(p)
        BY <2>1 DEF MakeShardDir, CreatePending, CreateFails, FinishWrite
    <2>2. CASE LockStripe(p) \/ CheckBlob(p) \/ StampBlob(p)
        BY <2>2 DEF LockStripe, CheckBlob, StampBlob
    <2>3. CASE RenamePending(p) \/ RenameFails(p)
        BY <2>3 DEF RenamePending, RenameFails
    <2>4. CASE SizeBlob(p)
        BY <2>4 DEF SizeBlob
    <2>5. CASE RecordPut(p) \/ PutFails(p) \/ NextPut(p) \/ Kill(p)
        BY <2>5 DEF RecordPut, PutFails, NextPut, Kill
    <2> QED
        BY <1>1, <2>1, <2>2, <2>3, <2>4, <2>5 DEF PutNext
<1>2. ASSUME NEW g \in Gets, GetNext(g) PROVE InstalledBlobStays'
    BY <1>2 DEF GetNext, GetStep, Lookup, OpenBlob, DropBlob, DropRow, Unlink
<1>3. CASE UnlinkOrphan \/ EvictUnlink
    BY <1>3 DEF UnlinkOrphan, EvictUnlink, Unlink
<1>4. CASE UNCHANGED <<blob, ppc>>
    BY <1>4
<1> QED
    BY <1>1, <1>2, <1>3, <1>4 DEF Next, PassNext, BeginPass, ExpireRow, QueryReferenced,
       WalkShard, Requery, RemoveStalePending, RemoveEmptyDir, EvictRow, EndPass, Tick, vars

(* However slow puts are, none finds the blob gone that it has just found, *)
(* or installed, under the stripe.                                         *)
THEOREM InstalledStays == Spec => []InstalledBlobStays
<1>1. Init => TypeOK /\ InstalledBlobStays
    BY TypeInit DEF Init, InstalledBlobStays
<1>2. TypeOK /\ [Next]_vars => TypeOK'
    BY TypeStep
<1> QED
    BY <1>1, <1>2, InstalledStep, PTL DEF Spec

(* A pending file stays until it is renamed, so no rename fails. *)
LEMMA InstallStep ==
    PromptPuts /\ InstallInvariant /\ [Next]_vars => InstallInvariant'
<1> SUFFICES ASSUME PromptPuts, InstallInvariant, [Next]_vars PROVE InstallInvariant'
    OBVIOUS
<1>1. TypeOK' /\ Dated' /\ OnTime' /\ PendingDated'
    BY TypeStep, DatedStep DEF InstallInvariant
<1>2. InstalledBlobStays'
    BY InstalledStep DEF InstallInvariant
<1> DEFINE Ready ==
        /\ \A p \in Puts :
            ppc[p] \in {"write", "lock", "check", "stamp", "rename"} => Exists(pending[p])
        /\ InstallNeverFails
<1>3. Ready'
    <2> USE ShardFilesAssumption DEF InstallInvariant, InstallNeverFails, TypeOK, Times,
           NoFile, FileTimes, InstallSteps, putVars, passVars, Exists
    <2>1. ASSUME NEW p \in Puts, PutNext(p) PROVE Ready'
        <3> USE DEF PutStep
        <3>1. CASE MakeShardDir(p) \/ CreatePending(p) \/ CreateFails(p)
            BY <3>1 DEF MakeShardDir, CreatePending, CreateFails
        <3>2. CASE FinishWrite(p)
            BY <3>2 DEF FinishWrite
        <3>3. CASE LockStripe(p) \/ CheckBlob(p) \/ StampBlob(p)
            BY <3>3 DEF LockStripe, CheckBlob, StampBlob
        <3>4. CASE RenamePending(p) \/ RenameFails(p)
            BY <3>4 DEF RenamePending, RenameFails
        <3>5. CASE SizeBlob(p)
            BY <3>5 DEF SizeBlob, InstalledBlobStays
        <3>6. CASE RecordPut(p) \/ PutFails(p) \/ NextPut(p) \/ Kill(p)
            BY <3>6 DEF RecordPut, PutFails, NextPut, Kill
        <3> QED
            BY <2>1, <3>1, <3>2, <3>3, <3>4, <3>5, <3>6 DEF PutNext
    <2>2. ASSUME NEW g \in Gets, GetNext(g) PROVE Ready'
        BY <2>2 DEF GetNext, Lookup, OpenBlob, DropBlob, DropRow
    <2>3. CASE RemoveStalePending
        BY <2>3, NoneStale DEF RemoveStalePending
    <2>4. CASE UNCHANGED putVars
        BY <2>4
    <2> QED
        BY <2>1, <2>2, <2>3, <2>4 DEF Next, PassNext, BeginPass, ExpireRow, QueryReferenced,
           WalkShard, Requery, UnlinkOrphan, RemoveEmptyDir, EvictRow, EvictUnlink, EndPass,
           Tick, vars
<1> QED
    BY <1>1, <1>2, <1>3 DEF InstallInvariant

(* No put has begun. *)
LEMMA InstallInit == Init => InstallInvariant
    BY TypeInit, ShardFilesAssumption DEF Init, InstallInvariant, InstalledBlobStays,
       InstallNeverFails, Dated, OnTime, PendingDated, NoFile, Exists, InstallSteps

(* If no put writes or waits longer than pending files are left alone, no  *)
(* put fails between its last write and giving its stripe back.            *)
THEOREM InstallSucceeds == PromptPuts => (Spec => []InstallNeverFails)
<1> SUFFICES ASSUME PromptPuts PROVE Spec => []InstallNeverFails
    OBVIOUS
<1>1. InstallInvariant => InstallNeverFails
    BY DEF InstallInvariant
<1> QED
    BY <1>1, InstallInit, InstallStep, PTL DEF Spec
-----------------------------------------------------------------------------
(* The abstract specification.                                             *)

(* A step of one put changes only what that put is to the blob.            *)
LEMMA OnePut ==
    ASSUME TypeOK, NEW p \in Puts, NEW s, ppc' = [ppc EXCEPT ![p] = s]
    PROVE  Blob!PutBecomes(p, AbsPut'[p])
<1>1. \A q \in Puts \ {p} : AbsPut'[q] = AbsPut[q]
    BY DEF TypeOK, AbsPut
<1> QED
    BY <1>1 DEF Blob!PutBecomes, AbsPut

(* The same of a get. *)
LEMMA OneGet ==
    ASSUME TypeOK, NEW g \in Gets, NEW s, NEW t, GetStep(g, s, t)
    PROVE  Blob!GetBecomes(g, AbsGet[g], AbsGet'[g])
<1>1. \A h \in Gets \ {g} : AbsGet'[h] = AbsGet[h]
    BY DEF TypeOK, GetStep, AbsGet
<1> QED
    BY <1>1 DEF Blob!GetBecomes, AbsGet

(* Each step of a put is the abstract step named beside it, or is unseen.  *)
LEMMA PutRefines ==
    ASSUME TypeOK, InstalledBlobStays, NEW p \in Puts, PutNext(p)
    PROVE  [Blob!Next]_(Blob!vars)
<1> USE DEF PutStep, passVars
<1>1. ASSUME \/ MakeShardDir(p) \/ CreatePending(p) \/ CreateFails(p) \/ FinishWrite(p)
             \/ LockStripe(p) \/ CheckBlob(p) \/ NextPut(p)
      PROVE  UNCHANGED Blob!vars
    BY <1>1 DEF MakeShardDir, CreatePending, CreateFails, FinishWrite, LockStripe, CheckBlob,
       NextPut, TypeOK, AbsPut, AbsGet, Blob!vars
<1>2. ASSUME StampBlob(p) PROVE Blob!Place(p)
    <2>1. ppc[p] = "stamp" /\ Exists(blob) /\ ppc' = [ppc EXCEPT ![p] = "size"]
        BY <1>2 DEF StampBlob, InstalledBlobStays
    <2>2. AbsPut[p] = "away" /\ AbsPut'[p] = "placed"
        BY <2>1 DEF AbsPut, TypeOK
    <2>3. Exists(blob') /\ UNCHANGED <<row, AbsGet, mpc>>
        BY <1>2, <2>1, ShardFilesAssumption DEF StampBlob, TypeOK, Times, NoFile, Exists, AbsGet
    <2> QED
        BY <2>1, <2>2, <2>3, OnePut DEF Blob!Place
<1>3. ASSUME RenamePending(p) PROVE Blob!Place(p)
    <2>1. ppc[p] = "rename" /\ ppc' = [ppc EXCEPT ![p] = "size"]
        BY <1>3 DEF RenamePending
    <2>2. AbsPut[p] = "away" /\ AbsPut'[p] = "placed"
        BY <2>1 DEF AbsPut, TypeOK
    <2>3. Exists(blob') /\ UNCHANGED <<row, AbsGet, mpc>>
        BY <1>3 DEF RenamePending, Exists, AbsGet
    <2> QED
        BY <2>1, <2>2, <2>3, OnePut DEF Blob!Place
<1>4. ASSUME RenameFails(p) PROVE Blob!Place(p) \/ Blob!FailToPlace(p)
    <2>1. ppc[p] = "rename" /\ UNCHANGED <<row, AbsGet, mpc>>
        BY <1>4 DEF RenameFails, AbsGet
    <2>2. CASE Exists(blob)
        <3>1. ppc' = [ppc EXCEPT ![p] = "size"]
            BY <1>4, <2>2 DEF RenameFails
        <3>2. AbsPut[p] = "away" /\ AbsPut'[p] = "placed"
            BY <2>1, <3>1 DEF AbsPut, TypeOK
        <3>3. Exists(blob')
            BY <1>4, <2>2, ShardFilesAssumption DEF RenameFails, TypeOK, Times, NoFile, Exists
        <3> QED
            BY <2>1, <3>1, <3>2, <3>3, OnePut DEF Blob!Place
    <2>3. CASE ~Exists(blob)
        <3>1. ppc' = [ppc EXCEPT ![p] = "failedInstall"] /\ UNCHANGED blob
            BY <1>4, <2>3 DEF RenameFails
        <3>2. AbsPut[p] = "away" /\ AbsPut'[p] = "failed"
            BY <2>1, <3>1 DEF AbsPut, TypeOK
        <3> QED
            BY <2>1, <3>1, <3>2, OnePut DEF Blob!FailToPlace
    <2> QED
        BY <2>2, <2>3
<1>5. ASSUME SizeBlob(p) PROVE Blob!Leave(p)
    <2>1. ppc[p] = "size" /\ ppc' = [ppc EXCEPT ![p] = "record"]
        BY <1>5 DEF SizeBlob, InstalledBlobStays
    <2>2. AbsPut[p] = "placed" /\ AbsPut'[p] = "installed"
        BY <2>1 DEF AbsPut, TypeOK
    <2>3. UNCHANGED <<blob, row, AbsGet, mpc>>
        BY <1>5 DEF SizeBlob, AbsGet
    <2> QED
        BY <2>1, <2>2, <2>3, OnePut DEF Blob!Leave
<1>6. ASSUME RecordPut(p) PROVE Blob!Record(p)
    <2>1. ppc[p] = "record" /\ ppc' = [ppc EXCEPT ![p] = "done"]
        BY <1>6 DEF RecordPut
    <2>2. AbsPut[p] = "installed" /\ AbsPut'[p] = "away"
        BY <2>1 DEF AbsPut, TypeOK
    <2>3. row' /\ UNCHANGED <<blob, AbsGet, mpc>>
        BY <1>6 DEF RecordPut, AbsGet
    <2> QED
        BY <1>6, <2>1, <2>2, <2>3, OnePut DEF RecordPut, Blob!Record
<1>7. ASSUME PutFails(p) PROVE Blob!GiveUp(p) \/ UNCHANGED Blob!vars
    <2>1. UNCHANGED <<blob, row, AbsGet, mpc>> /\ ppc' = [ppc EXCEPT ![p] = "done"]
        BY <1>7 DEF PutFails, AbsGet
    <2>2. CASE ppc[p] = "record"
        <3>1. AbsPut[p] = "installed" /\ AbsPut'[p] = "away"
            BY <2>1, <2>2 DEF AbsPut, TypeOK
        <3> QED
            BY <2>1, <3>1, OnePut DEF Blob!GiveUp
    <2>3. CASE ppc[p] = "write"
        <3>1. UNCHANGED AbsPut
            BY <2>1, <2>3 DEF AbsPut, TypeOK
        <3> QED
            BY <2>1, <3>1 DEF Blob!vars
    <2> QED
        BY <1>7, <2>2, <2>3 DEF PutFails
<1>8. ASSUME Kill(p) PROVE Blob!Die(p)
    <2>1. UNCHANGED <<blob, row, AbsGet, mpc>> /\ ppc' = [ppc EXCEPT ![p] = "dead"]
        BY <1>8 DEF Kill, AbsGet
    <2>2. AbsPut'[p] = "dead"
        BY <2>1 DEF AbsPut, TypeOK
    <2> QED
        BY <2>1, <2>2, OnePut DEF Blob!Die
<1> QED
    BY <1>1, <1>2, <1>3, <1>4, <1>5, <1>6, <1>7, <1>8 DEF PutNext, Blob!Next

(* While the stripe is free no put is placing the blob.                    *)
LEMMA UnlinkRefines ==
    ASSUME TypeOK, stripe = Nobody, blob' = NoFile
    PROVE  Blob!Unlink
    BY ShardFilesAssumption DEF TypeOK, StripeOK, InstallSteps, AbsPut, Exists, Blob!Unlink

(* The steps of a get. *)
LEMMA GetRefines ==
    ASSUME TypeOK, NEW g \in Gets, GetNext(g)
    PROVE  [Blob!Next]_(Blob!vars)
<1> UNCHANGED <<AbsPut, mpc>>
    BY DEF GetNext, Lookup, OpenBlob, DropBlob, DropRow, AbsPut, putVars, passVars
<1>1. ASSUME Lookup(g) PROVE Blob!LookUp(g)
    <2>1. AbsGet[g] = "away" /\ AbsGet'[g] = "found"
        BY <1>1 DEF Lookup, GetStep, TypeOK, AbsGet
    <2> QED
        BY <1>1, <2>1, OneGet DEF Lookup, Blob!LookUp
<1>2. ASSUME OpenBlob(g) PROVE Blob!Hit(g) \/ UNCHANGED Blob!vars
    <2>1. CASE GetStep(g, "open", "idle")
        <3>1. AbsGet[g] = "found" /\ AbsGet'[g] = "away"
            BY <2>1 DEF GetStep, TypeOK, AbsGet
        <3> QED
            BY <1>2, <2>1, <3>1, OneGet DEF OpenBlob, Blob!Hit
    <2>2. CASE GetStep(g, "open", "unlink")
        <3>1. UNCHANGED AbsGet
            BY <2>2 DEF GetStep, TypeOK, AbsGet
        <3> QED
            BY <1>2, <3>1 DEF OpenBlob, Blob!vars
    <2> QED
        BY <1>2, <2>1, <2>2 DEF OpenBlob
<1>3. ASSUME DropBlob(g) PROVE Blob!Drop(g)
    <2>1. AbsGet[g] = "found" /\ AbsGet'[g] = "dropping"
        BY <1>3 DEF DropBlob, GetStep, TypeOK, AbsGet
    <2> QED
        BY <1>3, <2>1, OneGet, UnlinkRefines DEF DropBlob, Unlink, Blob!Drop
<1>4. ASSUME DropRow(g) PROVE Blob!DropRow(g)
    <2>1. AbsGet[g] = "dropping" /\ AbsGet'[g] = "away"
        BY <1>4 DEF DropRow, GetStep, TypeOK, AbsGet
    <2> QED
        BY <1>4, <2>1, OneGet DEF DropRow, Blob!DropRow
<1> QED
    BY <1>1, <1>2, <1>3, <1>4 DEF GetNext, Blob!Next

(* The steps of maintenance.  Collection takes nothing but an orphan, which *)
(* is what its times are for.                                              *)
LEMMA PassRefines ==
    ASSUME PromptRecords, OrphanInvariant, PassNext
    PROVE  [Blob!Next]_(Blob!vars)
<1> TypeOK
    BY DEF OrphanInvariant
<1> UNCHANGED <<AbsPut, AbsGet>>
    BY DEF PassNext, BeginPass, ExpireRow, QueryReferenced, WalkShard, Requery, UnlinkOrphan,
       RemoveStalePending, RemoveEmptyDir, EvictRow, EvictUnlink, EndPass, putVars, AbsPut, AbsGet
<1> USE DEF PassStep
<1>1. ASSUME \/ BeginPass \/ QueryReferenced \/ WalkShard \/ Requery
             \/ RemoveStalePending \/ RemoveEmptyDir
      PROVE  UNCHANGED Blob!vars
    BY <1>1 DEF BeginPass, QueryReferenced, WalkShard, Requery, RemoveStalePending, RemoveEmptyDir,
       Blob!vars
<1>2. ASSUME ExpireRow PROVE Blob!Expire \/ UNCHANGED Blob!vars
    BY <1>2 DEF ExpireRow, Blob!Expire, Blob!vars
<1>3. ASSUME UnlinkOrphan PROVE Blob!Collect \/ UNCHANGED Blob!vars
    <2>1. CASE refd \/ TooRecent
        BY <1>3, <2>1 DEF UnlinkOrphan, Blob!vars
    <2>2. CASE ~Exists(blob)
        BY <1>3, <2>2 DEF UnlinkOrphan, Exists, Blob!vars
    <2>3. CASE ~refd /\ ~TooRecent /\ Exists(blob)
        <3>1. ~row /\ \A p \in Puts : ppc[p] # "record"
            BY <1>3, <2>3, OrphanAtUnlink DEF UnlinkOrphan
        <3>2. \A p \in Puts : AbsPut[p] # "installed"
            BY <3>1 DEF AbsPut
        <3> QED
            BY <1>3, <2>3, <3>1, <3>2, UnlinkRefines DEF UnlinkOrphan, Blob!Collect
    <2> QED
        BY <2>1, <2>2, <2>3
<1>4. ASSUME EvictRow PROVE Blob!Evict
    BY <1>4 DEF EvictRow, Blob!Evict
<1>5. ASSUME EvictUnlink PROVE Blob!EvictBlob
    BY <1>5, UnlinkRefines DEF EvictUnlink, Unlink, Blob!EvictBlob
<1>6. ASSUME EndPass PROVE Blob!LeaveBlob \/ UNCHANGED Blob!vars
    BY <1>6 DEF EndPass, Blob!LeaveBlob, Blob!vars
<1> QED
    BY <1>1, <1>2, <1>3, <1>4, <1>5, <1>6 DEF PassNext, Blob!Next

(* The steps together. *)
LEMMA StepRefines ==
    PromptRecords /\ OrphanInvariant /\ InstalledBlobStays /\ [Next]_vars
        => [Blob!Next]_(Blob!vars)
<1> SUFFICES ASSUME PromptRecords, OrphanInvariant, InstalledBlobStays, [Next]_vars
             PROVE  [Blob!Next]_(Blob!vars)
    OBVIOUS
<1>1. CASE Tick \/ UNCHANGED vars
    BY <1>1 DEF Tick, vars, putVars, passVars, AbsPut, AbsGet, Blob!vars
<1> QED
    BY <1>1, PutRefines, GetRefines, PassRefines DEF Next, OrphanInvariant

(* A blob and its row lead the life BlobSpec describes, for any number of  *)
(* puts and gets, as long as puts record within the grace.                 *)
THEOREM Implements == PromptRecords => (Spec => BlobRefinement)
<1> SUFFICES ASSUME PromptRecords PROVE Spec => BlobRefinement
    OBVIOUS
<1>1. Init => Blob!Init
    BY DEF Init, Blob!Init, AbsPut, AbsGet, Exists, NoFile
<1> QED
    BY <1>1, InstalledStays, OrphanInvariantInit, OrphanInvariantStep, StepRefines, PTL
       DEF Spec, Blob!Spec, BlobRefinement
=============================================================================
