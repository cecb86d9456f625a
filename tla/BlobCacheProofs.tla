--------------------------- MODULE BlobCacheProofs ---------------------------
(* Proofs about BlobCache, for every set of handlers, helpers, actions and *)
(* outputs and every bound on ids.                                         *)
EXTENDS BlobCache, TLAPS

(* Every step of a get keeps every variable's type. *)
LEMMA GetTyped == ASSUME TypeOK, NEW h \in Handlers, GetNext(h) PROVE TypeOK'
<1> USE BlobCacheAssumption, CatalogAssumption DEF TypeOK, CatalogTypeOK, RequestOK, Files,
       GetSteps, PutSteps, Steps, PassSteps, catalogVars, blobVars, handlerVars, passVars
<1>1. ASSUME NEW a \in Actions, BeginGet(h, a) PROVE TypeOK'
    BY <1>1 DEF BeginGet, Step
<1>2. ASSUME LookupMiss(h) PROVE TypeOK'
    BY <1>2 DEF LookupMiss, Step, UnchangedRequest
<1>3. ASSUME LookupMismatch(h) PROVE TypeOK'
    BY <1>3 DEF LookupMismatch, Step, UnchangedRequest
<1>4. ASSUME LookupHit(h) PROVE TypeOK'
    BY <1>4 DEF LookupHit, Step
<1>5. ASSUME ForgetMismatch(h) PROVE TypeOK'
    BY <1>5 DEF ForgetMismatch, Step, UnchangedRequest, DeleteEntries, NoEntry
<1>6. ASSUME ReuseLive(h) PROVE TypeOK'
    BY <1>6 DEF ReuseLive, Step, UnchangedRequest
<1>7. ASSUME NeedLive(h) PROVE TypeOK'
    BY <1>7 DEF NeedLive, Step, UnchangedRequest
<1>8. ASSUME OpenBlob(h) PROVE TypeOK'
    BY <1>8 DEF OpenBlob, Step
<1>9. ASSUME OpenFails(h) PROVE TypeOK'
    BY <1>9 DEF OpenFails, Step, UnchangedRequest
<1>10. ASSUME Decode(h) PROVE TypeOK'
    BY <1>10 DEF Decode, Step, UnchangedRequest, Intact
<1>11. ASSUME DecodeFails(h) PROVE TypeOK'
    BY <1>11 DEF DecodeFails, Step
<1>12. ASSUME DropBlob(h) PROVE TypeOK'
    BY <1>12 DEF DropBlob, Step, UnchangedRequest
<1>13. ASSUME DropRow(h) PROVE TypeOK'
    BY <1>13 DEF DropRow, Step, UnchangedRequest, DeleteOutputs
<1>14. ASSUME DropEntry(h) PROVE TypeOK'
    BY <1>14 DEF DropEntry, Step, UnchangedRequest, DeleteEntries, NoEntry
<1>15. ASSUME DropLive(h) PROVE TypeOK'
    BY <1>15 DEF DropLive, Step, UnchangedRequest
<1>16. ASSUME DropFails(h) PROVE TypeOK'
    BY <1>16 DEF DropFails, Step, UnchangedRequest
<1> QED
    BY <1>1, <1>2, <1>3, <1>4, <1>5, <1>6, <1>7, <1>8, <1>9, <1>10, <1>11, <1>12, <1>13, <1>14,
       <1>15, <1>16 DEF GetNext

(* Every step of a put keeps every variable's type. *)
LEMMA PutTyped == ASSUME TypeOK, NEW h \in Handlers, PutNext(h) PROVE TypeOK'
<1> USE BlobCacheAssumption, CatalogAssumption DEF TypeOK, CatalogTypeOK, RequestOK, Files,
       GetSteps, PutSteps, Steps, PassSteps, catalogVars, blobVars, handlerVars, passVars
<1>1. ASSUME NEW a \in Actions, NEW o \in Outputs, BeginPut(h, a, o) PROVE TypeOK'
    BY <1>1 DEF BeginPut, Step
<1>2. ASSUME InstallBlob(h) PROVE TypeOK'
    BY <1>2 DEF InstallBlob, Step, UnchangedRequest
<1>3. ASSUME RecordPut(h) PROVE TypeOK'
    BY <1>3 DEF RecordPut, UpsertEntry, NextId, HasRow, Step, UnchangedRequest
<1>4. ASSUME KeepLive(h) PROVE TypeOK'
    BY <1>4 DEF KeepLive, Step, UnchangedRequest
<1> QED
    BY <1>1, <1>2, <1>3, <1>4 DEF PutNext

(* Every step of a maintenance pass keeps every variable's type. *)
LEMMA PassTyped == ASSUME TypeOK, PassNext PROVE TypeOK'
<1> USE BlobCacheAssumption, CatalogAssumption DEF TypeOK, CatalogTypeOK, RequestOK, Files,
       GetSteps, PutSteps, Steps, PassSteps, catalogVars, blobVars, handlerVars, passVars
<1>1. ASSUME BeginPass PROVE TypeOK'
    BY <1>1 DEF BeginPass, PassStep
<1>2. ASSUME ExpireEntries PROVE TypeOK'
    BY <1>2 DEF ExpireEntries, PassStep, DeleteEntries, NoEntry
<1>3. ASSUME ExpireOutputs PROVE TypeOK'
    BY <1>3 DEF ExpireOutputs, PassStep, DeleteOutputs
<1>4. ASSUME UnlinkOrphan PROVE TypeOK'
    BY <1>4 DEF UnlinkOrphan, PassStep
<1>5. ASSUME EndSweep PROVE TypeOK'
    BY <1>5 DEF EndSweep, PassStep
<1>6. ASSUME EvictUnlink PROVE TypeOK'
    BY <1>6 DEF EvictUnlink, PassStep
<1>7. ASSUME EndPass PROVE TypeOK'
    BY <1>7 DEF EndPass
<1>8. ASSUME NEW o \in Outputs, Requery(o) PROVE TypeOK'
    BY <1>8 DEF Requery, PassStep, HasRow
<1>9. ASSUME NEW o \in Outputs, EvictRow(o) PROVE TypeOK'
    BY <1>9 DEF EvictRow, PassStep, DeleteOutputs
<1> QED
    BY <1>1, <1>2, <1>3, <1>4, <1>5, <1>6, <1>7, <1>8, <1>9 DEF PassNext

(* A fault keeps every variable's type, and so does the end of a request.  *)
LEMMA OtherTyped ==
    ASSUME TypeOK,
           \/ \E h \in Handlers : Reply(h) \/ Fail(h)
           \/ \E p \in Helpers : Crash(p)
           \/ \E o \in Outputs : Corrupt(o)
           \/ ResetSequence
           \/ UNCHANGED vars
    PROVE  TypeOK'
<1> USE BlobCacheAssumption, CatalogAssumption DEF TypeOK, CatalogTypeOK, RequestOK, Files,
       GetSteps, PutSteps, Steps, PassSteps, catalogVars, blobVars, handlerVars, passVars
<1>1. ASSUME NEW h \in Handlers, Reply(h) PROVE TypeOK'
    BY <1>1 DEF Reply, Release
<1>2. ASSUME NEW h \in Handlers, Fail(h) PROVE TypeOK'
    BY <1>2 DEF Fail, Release
<1>3. ASSUME NEW p \in Helpers, Crash(p) PROVE TypeOK'
    BY <1>3 DEF Crash, Release
<1>4. ASSUME NEW o \in Outputs, Corrupt(o) PROVE TypeOK'
    BY <1>4 DEF Corrupt
<1>5. CASE ResetSequence
    BY <1>5 DEF ResetSequence, LoseSequence
<1>6. CASE UNCHANGED vars
    BY <1>6 DEF vars
<1> QED
    BY <1>1, <1>2, <1>3, <1>4, <1>5, <1>6

(* One conjunct of Next at a time. *)
LEMMA TypeStep == TypeOK /\ [Next]_vars => TypeOK'
    BY GetTyped, PutTyped, PassTyped, OtherTyped DEF Next

(* Every behaviour of the system keeps every variable's type.              *)
THEOREM TypeCorrect == Spec => []TypeOK
<1>1. ASSUME Init PROVE TypeOK
    <2>1. CatalogTypeOK
        BY <1>1, CatalogAssumption DEF Init, CatalogInit, NoEntry, CatalogTypeOK
    <2>2. RequestOK
        BY <1>1 DEF Init, RequestOK, GetSteps, PutSteps
    <2> QED
        BY <1>1, <2>1, <2>2 DEF Init, TypeOK, Files, Steps, PassSteps
<1> QED
    BY <1>1, TypeStep, PTL DEF Spec
-----------------------------------------------------------------------------
(* What each catalog operation does to the tie between entries, ids and    *)
(* the outputs the actions name.                                           *)

(* The heart of the matter: a put that inserts a row takes an id no entry  *)
(* refers to, so no dangling entry comes to life as another output's.      *)
LEMMA UpsertSound ==
    ASSUME TypeOK, CatalogSound, NEW a \in Actions, NEW o \in Outputs,
           UpsertEntry(a, o), named' = [named EXCEPT ![a] = o]
    PROVE  CatalogSound'
<1> USE CatalogAssumption DEF TypeOK, CatalogTypeOK, HasRow, NextId
<1>1. CASE HasRow(o)
    <2>1. rowid' = rowid /\ seq' = seq
        BY <1>1 DEF UpsertEntry
    <2>2. entries' = [entries EXCEPT ![a] = [ref |-> rowid[o], tag |-> Tag[o]]]
        BY <1>1 DEF UpsertEntry
    <2>3. IdsDistinct' /\ IdsBounded'
        BY <2>1, <2>2 DEF CatalogSound, IdsDistinct, IdsBounded
    <2>4. EntriesTagged'
        BY <2>2 DEF CatalogSound, EntriesTagged
    <2>5. RefsKept'
        BY <1>1, <2>1, <2>2 DEF CatalogSound, RefsKept, IdsDistinct, Joins
    <2> QED
        BY <2>3, <2>4, <2>5 DEF CatalogSound
<1>2. CASE ~HasRow(o)
    <2>1. /\ rowid' = [rowid EXCEPT ![o] = seq + 1]
          /\ seq' = seq + 1
          /\ entries' = [entries EXCEPT ![a] = [ref |-> seq + 1, tag |-> Tag[o]]]
        BY <1>2 DEF UpsertEntry
    <2>2. IdsBounded'
        BY <2>1 DEF CatalogSound, IdsBounded
    <2>3. IdsDistinct'
        BY <2>1 DEF CatalogSound, IdsBounded, IdsDistinct
    <2>4. EntriesTagged'
        BY <2>1 DEF CatalogSound, EntriesTagged
    <2>5. RefsKept'
        <3> SUFFICES ASSUME ~MayLoseSequence, NEW b \in Actions, NEW q \in Outputs, Joins(b, q)'
                     PROVE  named'[b] = q
            BY DEF RefsKept
        <3>1. CASE b = a
            BY <2>1, <2>3, <3>1 DEF IdsDistinct, Joins
        <3>2. CASE b # a
            <4>1. entries'[b].ref = entries[b].ref /\ entries[b].ref <= seq
                BY <2>1, <3>2 DEF CatalogSound, IdsBounded
            <4>2. q # o
                BY <2>1, <4>1 DEF Joins
            <4> QED
                BY <2>1, <3>2, <4>1, <4>2 DEF CatalogSound, RefsKept, Joins
        <3> QED
            BY <3>1, <3>2
    <2> QED
        BY <2>2, <2>3, <2>4, <2>5 DEF CatalogSound
<1> QED
    BY <1>1, <1>2

(* Evicting, expiring or dropping rows leaves entries dangling, no more.   *)
LEMMA DeleteOutputsSound ==
    ASSUME TypeOK, CatalogSound, NEW S, DeleteOutputs(S), UNCHANGED named
    PROVE  CatalogSound'
    BY CatalogAssumption DEF TypeOK, CatalogTypeOK, CatalogSound, DeleteOutputs, IdsDistinct,
       IdsBounded, EntriesTagged, RefsKept, Joins, HasRow

(* Deleting entries leaves fewer to tie. *)
LEMMA DeleteEntriesSound ==
    ASSUME TypeOK, CatalogSound, NEW S, DeleteEntries(S), UNCHANGED named
    PROVE  CatalogSound'
    BY CatalogAssumption DEF TypeOK, CatalogTypeOK, CatalogSound, DeleteEntries, NoEntry,
       IdsDistinct, IdsBounded, EntriesTagged, RefsKept, Joins, HasRow

(* A reset sequence stays above the ids in use; the tags are left to tie.  *)
LEMMA LoseSequenceSound ==
    ASSUME TypeOK, CatalogSound, LoseSequence, UNCHANGED named
    PROVE  CatalogSound'
    BY CatalogAssumption DEF TypeOK, CatalogTypeOK, CatalogSound, LoseSequence, IdsDistinct,
       IdsBounded, EntriesTagged, RefsKept, Joins, HasRow

(* Steps that leave the tables and their history alone. *)
LEMMA UnchangedSound ==
    ASSUME CatalogSound, UNCHANGED <<catalogVars, named>>
    PROVE  CatalogSound'
    BY DEF catalogVars, CatalogSound, IdsDistinct, IdsBounded, EntriesTagged, RefsKept, Joins,
       HasRow

(* No step of a get, a put, a pass or a fault breaks that tie.             *)
LEMMA CatalogStep == TypeOK /\ CatalogSound /\ [Next]_vars => CatalogSound'
<1> SUFFICES ASSUME TypeOK, CatalogSound, [Next]_vars PROVE CatalogSound'
    OBVIOUS
<1>1. ASSUME NEW h \in Handlers, GetNext(h) PROVE CatalogSound'
    <2>1. CASE ForgetMismatch(h) \/ DropEntry(h)
        BY <2>1, DeleteEntriesSound DEF ForgetMismatch, DropEntry
    <2>2. CASE DropRow(h)
        BY <2>2, DeleteOutputsSound DEF DropRow
    <2>3. CASE UNCHANGED <<catalogVars, named>>
        BY <2>3, UnchangedSound
    <2> QED
        BY <1>1, <2>1, <2>2, <2>3 DEF GetNext, BeginGet, LookupMiss, LookupMismatch, LookupHit,
           ReuseLive, NeedLive, OpenBlob, OpenFails, Decode, DecodeFails, DropBlob, DropLive,
           DropFails
<1>2. ASSUME NEW h \in Handlers, PutNext(h) PROVE CatalogSound'
    <2>1. CASE RecordPut(h)
        <3>1. act[h] \in Actions /\ out[h] \in Outputs
            BY <2>1 DEF RecordPut, Step, TypeOK, RequestOK, PutSteps
        <3> QED
            BY <2>1, <3>1, UpsertSound DEF RecordPut
    <2>2. CASE UNCHANGED <<catalogVars, named>>
        BY <2>2, UnchangedSound
    <2> QED
        BY <1>2, <2>1, <2>2 DEF PutNext, BeginPut, InstallBlob, KeepLive
<1>3. CASE PassNext
    <2>1. CASE ExpireEntries
        BY <2>1, DeleteEntriesSound DEF ExpireEntries
    <2>2. CASE ExpireOutputs \/ \E o \in Outputs : EvictRow(o)
        BY <2>2, DeleteOutputsSound DEF ExpireOutputs, EvictRow
    <2>3. CASE UNCHANGED <<catalogVars, named>>
        BY <2>3, UnchangedSound
    <2> QED
        BY <1>3, <2>1, <2>2, <2>3 DEF PassNext, BeginPass, UnlinkOrphan, EndSweep, EvictUnlink,
           EndPass, Requery
<1>4. CASE ResetSequence
    BY <1>4, LoseSequenceSound DEF ResetSequence
<1>5. CASE UNCHANGED <<catalogVars, named>>
    BY <1>5, UnchangedSound
<1> QED
    BY <1>1, <1>2, <1>3, <1>4, <1>5 DEF Next, Reply, Fail, Crash, Corrupt, vars, catalogVars

(* What the invariant is for: an entry that resolves names the output its  *)
(* action names, by its id or, once ids repeat, by its tag.                *)
LEMMA SoundResolves ==
    ASSUME TypeOK, CatalogSound
    PROVE  NoWrongArtifact
<1> SUFFICES ASSUME NEW a \in Actions, NEW o \in Outputs, Resolves(a, o)
             PROVE  named[a] = o
    BY DEF NoWrongArtifact
<1>1. CASE MayLoseSequence
    <2>1. entries[a].ref # 0 /\ entries[a].tag = Tag[o]
        BY DEF Resolves, Joins, TagMatches, HasRow
    <2>2. named[a] \in Outputs /\ Tag[named[a]] = Tag[o]
        BY <2>1 DEF CatalogSound, EntriesTagged
    <2> QED
        BY <1>1, <2>2, WitnessAssumption
<1>2. CASE ~MayLoseSequence
    BY <1>2 DEF CatalogSound, RefsKept, Resolves
<1> QED
    BY <1>1, <1>2

(* An empty catalog ties nothing. *)
LEMMA InitSound == Init => CatalogSound
    BY DEF Init, CatalogInit, NoEntry, CatalogSound, IdsDistinct, IdsBounded, EntriesTagged,
       RefsKept, Joins, HasRow

(* An action never resolves to an output other than the one last put under *)
(* it: with any tags while ids are never handed out twice, and with tags   *)
(* that tell outputs apart even when they are.                             *)
THEOREM RightArtifact == Spec => []NoWrongArtifact
    BY InitSound, TypeCorrect, CatalogStep, SoundResolves, PTL DEF Spec
=============================================================================
