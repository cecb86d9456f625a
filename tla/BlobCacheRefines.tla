--------------------------- MODULE BlobCacheRefines ---------------------------
(* Proof that BlobCache implements CacheSpec: every step of a handler, of  *)
(* maintenance or of a fault is a step of the promise or changes nothing a *)
(* client can see.                                                         *)
EXTENDS BlobCacheProofs

(* A step of one handler changes only what that handler's client sees.     *)
LEMMA OneClient ==
    ASSUME NEW h \in Handlers, TypeOK, TypeOK',
           \A g \in Handlers \ {h} :
               pc'[g] = pc[g] /\ act'[g] = act[g] /\ out'[g] = out[g] /\ buf'[g] = buf[g]
    PROVE  Cache!Become(h, AbsState'[h], act'[h], AbsAnswer'[h])
<1>1. act' = [act EXCEPT ![h] = act'[h]]
    BY DEF TypeOK
<1>2. AbsState' = [AbsState EXCEPT ![h] = AbsState'[h]]
    BY DEF AbsState
<1>3. AbsAnswer' = [AbsAnswer EXCEPT ![h] = AbsAnswer'[h]]
    <2>1. ASSUME NEW g \in Handlers \ {h} PROVE AbsState'[g] = AbsState[g]
        BY DEF AbsState
    <2>2. ASSUME NEW g \in Handlers \ {h} PROVE AbsAnswer'[g] = AbsAnswer[g]
        BY <2>1 DEF AbsAnswer
    <2> QED
        BY <2>2 DEF AbsAnswer
<1> QED
    BY <1>1, <1>2, <1>3 DEF Cache!Become

(* Maintenance and faults outside the helpers are invisible to clients.    *)
LEMMA Invisible ==
    ASSUME UNCHANGED <<handlerVars, named>>
    PROVE  UNCHANGED Cache!vars
    BY DEF handlerVars, Cache!vars, AbsState, AbsAnswer

(* The same of a handler's own step, when it leaves its client's view.     *)
LEMMA Unseen ==
    ASSUME NEW h \in Handlers, NEW s, NEW b, TypeOK, UNCHANGED <<act, out, named>>,
           pc' = [pc EXCEPT ![h] = s], buf' = [buf EXCEPT ![h] = b],
           AbsState'[h] = AbsState[h], AbsAnswer'[h] = AbsAnswer[h]
    PROVE  UNCHANGED Cache!vars
    BY DEF Cache!vars, AbsState, AbsAnswer, TypeOK

(* Each step of a get is the abstract step named beside it, or is unseen.  *)
LEMMA GetRefines ==
    ASSUME TypeOK, CatalogSound, NEW h \in Handlers, GetNext(h)
    PROVE  [Cache!Next]_(Cache!vars)
<1>1. ASSUME NEW a \in Actions, BeginGet(h, a) PROVE Cache!Ask(h, a)
    <2>1. Cache!Become(h, AbsState'[h], act'[h], AbsAnswer'[h])
        BY <1>1, TypeStep, OneClient DEF Next, TypeOK, BeginGet, Step
    <2>2. AbsState[h] = "idle" /\ AbsState'[h] = "asked"
        BY <1>1 DEF BeginGet, Step, TypeOK, RequestOK, GetSteps, PutSteps, AbsState, AbsAnswer
    <2>3. act'[h] = a /\ AbsAnswer'[h] = None /\ UNCHANGED named
        BY <1>1 DEF BeginGet, Step, TypeOK, RequestOK, GetSteps, PutSteps, AbsState, AbsAnswer
    <2> QED
        BY <2>1, <2>2, <2>3 DEF Cache!Ask
<1>2. ASSUME LookupMiss(h) \/ LookupMismatch(h) PROVE Cache!Miss(h)
    <2>1. Cache!Become(h, AbsState'[h], act'[h], AbsAnswer'[h])
        BY <1>2, TypeStep, OneClient DEF Next, TypeOK, LookupMiss, LookupMismatch, Step,
           UnchangedRequest
    <2>2. AbsState[h] \in {"asked", "found"} /\ AbsState'[h] = "missed"
        BY <1>2 DEF LookupMiss, LookupMismatch, Step, UnchangedRequest, TypeOK, RequestOK,
           GetSteps, PutSteps, AbsState, AbsAnswer
    <2>3. act'[h] = act[h] /\ AbsAnswer'[h] = None /\ UNCHANGED named
        BY <1>2 DEF LookupMiss, LookupMismatch, Step, UnchangedRequest, TypeOK, RequestOK,
           GetSteps, PutSteps, AbsState, AbsAnswer
    <2> QED
        BY <2>1, <2>2, <2>3 DEF Cache!Miss
<1>3. ASSUME LookupHit(h) PROVE Cache!Find(h)
    <2>1. PICK o \in Outputs : Resolves(act[h], o) /\ out' = [out EXCEPT ![h] = o]
        BY <1>3 DEF LookupHit
    <2>2. act[h] \in Actions /\ named[act[h]] = o
        BY <1>3, <2>1, SoundResolves DEF LookupHit, Step, NoWrongArtifact, TypeOK, RequestOK,
           GetSteps
    <2>3. Cache!Become(h, AbsState'[h], act'[h], AbsAnswer'[h])
        BY <1>3, TypeStep, OneClient DEF Next, TypeOK, LookupHit, Step
    <2>4. AbsState[h] = "asked" /\ AbsState'[h] = "found" /\ act'[h] = act[h] /\ AbsAnswer'[h] = o
        BY <1>3, <2>1 DEF LookupHit, Step, TypeOK, RequestOK, GetSteps, AbsState, AbsAnswer
    <2> QED
        BY <1>3, <2>2, <2>3, <2>4, BlobCacheAssumption DEF LookupHit, Cache!Find
<1>4. ASSUME ReuseLive(h) \/ Decode(h) PROVE Cache!Hit(h)
    <2>1. Cache!Become(h, AbsState'[h], act'[h], AbsAnswer'[h])
        BY <1>4, TypeStep, OneClient DEF Next, TypeOK, ReuseLive, Decode, Intact, Step,
           UnchangedRequest
    <2>2. AbsState[h] = "found" /\ AbsState'[h] = "hit"
        BY <1>4 DEF ReuseLive, Decode, Intact, Step, UnchangedRequest, TypeOK, RequestOK,
           GetSteps, PutSteps, AbsState, AbsAnswer
    <2>3. act'[h] = act[h] /\ AbsAnswer'[h] = AbsAnswer[h] /\ UNCHANGED named
        BY <1>4 DEF ReuseLive, Decode, Intact, Step, UnchangedRequest, TypeOK, RequestOK,
           GetSteps, PutSteps, AbsState, AbsAnswer
    <2> QED
        BY <2>1, <2>2, <2>3 DEF Cache!Hit
<1>5. ASSUME OpenFails(h) \/ DecodeFails(h) PROVE Cache!Miss(h)
    <2>1. Cache!Become(h, AbsState'[h], act'[h], AbsAnswer'[h])
        BY <1>5, TypeStep, OneClient DEF Next, TypeOK, OpenFails, DecodeFails, Step,
           UnchangedRequest
    <2>2. AbsState[h] \in {"asked", "found"} /\ AbsState'[h] = "missed"
        BY <1>5 DEF OpenFails, DecodeFails, Step, UnchangedRequest, TypeOK, RequestOK,
           GetSteps, PutSteps, AbsState, AbsAnswer
    <2>3. act'[h] = act[h] /\ AbsAnswer'[h] = None /\ UNCHANGED named
        BY <1>5 DEF OpenFails, DecodeFails, Step, UnchangedRequest, TypeOK, RequestOK,
           GetSteps, PutSteps, AbsState, AbsAnswer
    <2> QED
        BY <2>1, <2>2, <2>3 DEF Cache!Miss
<1>6. ASSUME NeedLive(h) \/ OpenBlob(h) PROVE UNCHANGED Cache!vars
    BY <1>6, Unseen DEF NeedLive, OpenBlob, Step, UnchangedRequest, TypeOK, RequestOK,
       GetSteps, PutSteps, AbsState, AbsAnswer
<1>7. ASSUME \/ ForgetMismatch(h) \/ DropBlob(h) \/ DropRow(h)
               \/ DropEntry(h) \/ DropLive(h) \/ DropFails(h) PROVE UNCHANGED Cache!vars
    BY <1>7, Unseen DEF ForgetMismatch, DropBlob, DropRow, DropEntry, DropLive, DropFails, Step,
       UnchangedRequest, TypeOK, RequestOK, GetSteps, PutSteps, AbsState, AbsAnswer
<1> QED
    BY <1>1, <1>2, <1>3, <1>4, <1>5, <1>6, <1>7 DEF GetNext, Cache!Next

(* A put takes effect when it is recorded.                                 *)
LEMMA PutRefines ==
    ASSUME TypeOK, NEW h \in Handlers, PutNext(h)
    PROVE  [Cache!Next]_(Cache!vars)
<1>1. ASSUME NEW a \in Actions, NEW o \in Outputs, BeginPut(h, a, o)
      PROVE  Cache!BeginStore(h, a, o)
    <2>1. Cache!Become(h, AbsState'[h], act'[h], AbsAnswer'[h])
        BY <1>1, TypeStep, OneClient DEF Next, TypeOK, BeginPut, Step
    <2>2. AbsState[h] = "idle" /\ AbsState'[h] = "storing"
        BY <1>1 DEF BeginPut, Step, TypeOK, RequestOK, GetSteps, PutSteps, AbsState, AbsAnswer
    <2>3. act'[h] = a /\ AbsAnswer'[h] = o /\ UNCHANGED named
        BY <1>1 DEF BeginPut, Step, TypeOK, RequestOK, GetSteps, PutSteps, AbsState, AbsAnswer
    <2> QED
        BY <2>1, <2>2, <2>3 DEF Cache!BeginStore
<1>2. ASSUME RecordPut(h) PROVE Cache!Store(h)
    <2>1. Cache!Become(h, AbsState'[h], act'[h], AbsAnswer'[h])
        BY <1>2, TypeStep, OneClient DEF Next, TypeOK, RecordPut, Step, UnchangedRequest
    <2>2. AbsState[h] = "storing" /\ AbsState'[h] = "stored"
        BY <1>2 DEF RecordPut, Step, UnchangedRequest, TypeOK, RequestOK, GetSteps, PutSteps,
           AbsState, AbsAnswer
    <2>3. act'[h] = act[h] /\ AbsAnswer'[h] = AbsAnswer[h] /\ AbsAnswer[h] = out[h]
          /\ named' = [named EXCEPT ![act[h]] = AbsAnswer[h]]
        BY <1>2 DEF RecordPut, Step, UnchangedRequest, TypeOK, RequestOK, GetSteps, PutSteps,
           AbsState, AbsAnswer
    <2> QED
        BY <2>1, <2>2, <2>3 DEF Cache!Store
<1>3. ASSUME InstallBlob(h) \/ KeepLive(h) PROVE UNCHANGED Cache!vars
    BY <1>3, Unseen DEF InstallBlob, KeepLive, Step, UnchangedRequest, TypeOK, RequestOK,
       GetSteps, PutSteps, AbsState, AbsAnswer
<1> QED
    BY <1>1, <1>2, <1>3 DEF PutNext, Cache!Next

(* An answer, an error and a crash end requests.                           *)
LEMMA ReleaseRefines ==
    ASSUME NEW S \in SUBSET Handlers, Release(S), UNCHANGED named, TypeOK
    PROVE  Cache!End(S)
    BY DEF Release, Cache!End, AbsState, AbsAnswer, GetSteps, TypeOK

(* The steps together. *)
LEMMA StepRefines ==
    TypeOK /\ CatalogSound /\ [Next]_vars => [Cache!Next]_(Cache!vars)
<1> SUFFICES ASSUME TypeOK, CatalogSound, [Next]_vars PROVE [Cache!Next]_(Cache!vars)
    OBVIOUS
<1>1. ASSUME NEW h \in Handlers, GetNext(h) \/ PutNext(h) PROVE [Cache!Next]_(Cache!vars)
    BY <1>1, GetRefines, PutRefines
<1>2. ASSUME NEW h \in Handlers, Reply(h) \/ Fail(h) PROVE Cache!Next
    BY <1>2, ReleaseRefines DEF Reply, Fail, Cache!Next
<1>3. ASSUME NEW p \in Helpers, Crash(p) PROVE Cache!Next
    <2> DEFINE S == {h \in Handlers : HelperOf[h] = p}
    <2>1. Cache!End(S)
        BY <1>3, ReleaseRefines DEF Crash
    <2> QED
        BY <2>1 DEF Cache!Next
<1>4. ASSUME PassNext \/ ResetSequence \/ \E o \in Outputs : Corrupt(o)
      PROVE  UNCHANGED Cache!vars
    BY <1>4, Invisible DEF PassNext, BeginPass, ExpireEntries, ExpireOutputs, UnlinkOrphan,
       EndSweep, EvictUnlink, EndPass, Requery, EvictRow, ResetSequence, Corrupt
<1>5. ASSUME UNCHANGED vars PROVE UNCHANGED Cache!vars
    BY <1>5, Invisible DEF vars, handlerVars
<1> QED
    BY <1>1, <1>2, <1>3, <1>4, <1>5 DEF Next

(* The cache keeps its promise: a get answers a miss or the output its     *)
(* action named while it was served, with its bytes intact, and a put that *)
(* is answered is recorded, whatever runs in between.                      *)
THEOREM Implements == Spec => CacheRefinement
<1>1. Init => Cache!Init
    BY DEF Init, Cache!Init, AbsState, AbsAnswer, GetSteps
<1>2. Init => CatalogSound
    BY InitSound
<1> QED
    BY <1>1, <1>2, TypeCorrect, CatalogStep, StepRefines, PTL DEF Spec, Cache!Spec,
       CacheRefinement
=============================================================================
