------------------------------ MODULE BlobCache ------------------------------
(***************************************************************************)
(* Gets, puts and maintenance of gocachez over one cache directory         *)
(* (src/cache.go), step by step against the catalog and the blob files.    *)
(*                                                                         *)
(* A handler is a goroutine serving one request of its helper process.     *)
(* Between two of its steps any other handler, any other helper and the    *)
(* process that holds the maintenance lock may run: the catalog is locked  *)
(* only for one statement or transaction, a blob only while its stripe is  *)
(* held.  What happens under one stripe is one step here; ShardFiles takes *)
(* those steps apart.                                                      *)
(*                                                                         *)
(* Ages and sizes are not represented: which rows are old enough, whether  *)
(* a file is recent and how much must be evicted are left open.            *)
(***************************************************************************)
EXTENDS Catalog

CONSTANTS Handlers, Helpers,
          HelperOf,   \* the process each handler belongs to
          None        \* no action, or no output

ASSUME BlobCacheAssumption ==
    /\ HelperOf \in [Handlers -> Helpers]
    /\ None \notin Actions \cup Outputs

(* Four bytes cannot identify an output.  They are asked to only once ids  *)
(* are no longer unique, and then no two outputs in use may share them.    *)
ASSUME WitnessAssumption ==
    MayLoseSequence => \A o, p \in Outputs : Tag[o] = Tag[p] => o = p

VARIABLES blob,     \* what is at each output's blob path
          live,     \* materialized: outputs with a live file, per helper
          pc,       \* next step of each handler
          act,      \* the ActionID of its request
          out,      \* the OutputID it was given or has looked up
          buf,      \* what the blob it opened holds
          mpc,      \* next step of the maintenance pass
          mout,     \* the output whose files it is about to remove
          mkept,    \* whether it has read that output as referenced
          named     \* history: the output last put under each action

blobVars == <<blob, live>>
handlerVars == <<pc, act, out, buf>>
passVars == <<mpc, mout, mkept>>
vars == <<rowid, entries, seq, blob, live, pc, act, out, buf, mpc, mout, mkept, named>>

Files == {"absent", "good", "bad"}

GetSteps == {"lookup", "forget", "path", "open", "decode",
             "dropBlob", "dropRow", "dropEntry", "dropLive"}
PutSteps == {"install", "record", "keep"}
Steps == {"idle", "hit", "miss", "stored"} \cup GetSteps \cup PutSteps

PassSteps == {"off", "entries", "outputs", "orphans", "unlink",
              "evict", "evictUnlink"}

(* A request being served has its action, and, once looked up, its output; *)
(* bytes found bad are not kept.                                           *)
RequestOK ==
    \A h \in Handlers :
        /\ pc[h] \in GetSteps \cup PutSteps => act[h] \in Actions
        /\ pc[h] \in (GetSteps \ {"lookup", "forget"}) \cup PutSteps => out[h] \in Outputs
        /\ buf[h] = "bad" => pc[h] = "decode"

TypeOK ==
    /\ CatalogTypeOK
    /\ blob \in [Outputs -> Files]
    /\ live \in [Helpers -> SUBSET Outputs]
    /\ pc \in [Handlers -> Steps]
    /\ act \in [Handlers -> Actions \cup {None}]
    /\ out \in [Handlers -> Outputs \cup {None}]
    /\ buf \in [Handlers -> Files]
    /\ mpc \in PassSteps
    /\ mout \in Outputs \cup {None}
    /\ mkept \in BOOLEAN
    /\ named \in [Actions -> Outputs \cup {None}]
    /\ RequestOK

Init ==
    /\ CatalogInit
    /\ blob = [o \in Outputs |-> "absent"]
    /\ live = [p \in Helpers |-> {}]
    /\ pc = [h \in Handlers |-> "idle"]
    /\ act = [h \in Handlers |-> None]
    /\ out = [h \in Handlers |-> None]
    /\ buf = [h \in Handlers |-> "absent"]
    /\ mpc = "off"
    /\ mout = None
    /\ mkept = FALSE
    /\ named = [a \in Actions |-> None]

-----------------------------------------------------------------------------
(* Steps of a handler.                                                     *)

Step(h, from, to) ==
    /\ pc[h] = from
    /\ pc' = [pc EXCEPT ![h] = to]

Live(h) == live[HelperOf[h]]

UnchangedRequest == UNCHANGED <<act, out, buf>>

BeginGet(h, a) ==
    /\ Step(h, "idle", "lookup")
    /\ act' = [act EXCEPT ![h] = a]
    /\ UNCHANGED <<out, buf, catalogVars, blobVars, passVars, named>>

(* The join matched no row: an unknown action, or one whose output's row   *)
(* has been evicted.                                                       *)
LookupMiss(h) ==
    /\ Step(h, "lookup", "miss")
    /\ LookupFails(act[h])
    /\ UnchangedRequest
    /\ UNCHANGED <<catalogVars, blobVars, passVars, named>>

LookupMismatch(h) ==
    /\ Step(h, "lookup", "forget")
    /\ \E o \in Outputs : Mismatches(act[h], o)
    /\ UnchangedRequest
    /\ UNCHANGED <<catalogVars, blobVars, passVars, named>>

LookupHit(h) ==
    /\ Step(h, "lookup", "path")
    /\ \E o \in Outputs :
        /\ Resolves(act[h], o)
        /\ out' = [out EXCEPT ![h] = o]
    /\ UNCHANGED <<act, buf, catalogVars, blobVars, passVars, named>>

(* deleteAction, on a tag mismatch: the entry goes, the output it wrongly  *)
(* reached stays.                                                          *)
ForgetMismatch(h) ==
    /\ Step(h, "forget", "miss")
    /\ DeleteEntries({act[h]})
    /\ UnchangedRequest
    /\ UNCHANGED <<blobVars, passVars, named>>

(* getMaterialized and regularFile: a live file this helper already has    *)
(* is the answer, whatever has become of the blob.                         *)
ReuseLive(h) ==
    /\ Step(h, "path", "hit")
    /\ out[h] \in Live(h)
    /\ UnchangedRequest
    /\ UNCHANGED <<catalogVars, blobVars, passVars, named>>

NeedLive(h) ==
    /\ Step(h, "path", "open")
    /\ out[h] \notin Live(h)
    /\ UnchangedRequest
    /\ UNCHANGED <<catalogVars, blobVars, passVars, named>>

(* materialize: the stripe is held across the open alone.  An open file    *)
(* keeps its bytes whatever happens to its name.                           *)
OpenBlob(h) ==
    /\ Step(h, "open", "decode")
    /\ blob[out[h]] # "absent"
    /\ buf' = [buf EXCEPT ![h] = blob[out[h]]]
    /\ UNCHANGED <<act, out, catalogVars, blobVars, passVars, named>>

OpenFails(h) ==
    /\ Step(h, "open", "dropBlob")
    /\ blob[out[h]] = "absent"
    /\ UnchangedRequest
    /\ UNCHANGED <<catalogVars, blobVars, passVars, named>>

(* The zstd checksum and the size recorded with the output decide whether  *)
(* the bytes are the output's.                                             *)
Intact(h) == buf[h] = "good"

Decode(h) ==
    /\ Step(h, "decode", "hit")
    /\ Intact(h)
    /\ live' = [live EXCEPT ![HelperOf[h]] = @ \cup {out[h]}]
    /\ UnchangedRequest
    /\ UNCHANGED <<catalogVars, blob, passVars, named>>

(* Mutant of DecodeFails: the blob is left open. *)
DecodeFailsOpen(h) ==
    /\ Step(h, "decode", "dropBlob")
    /\ ~Intact(h)
    /\ UnchangedRequest
    /\ UNCHANGED <<catalogVars, blobVars, passVars, named>>

DecodeFails(h) ==
    /\ Step(h, "decode", "dropBlob")
    /\ ~Intact(h)
    /\ buf' = [buf EXCEPT ![h] = "absent"]
    /\ UNCHANGED <<act, out, catalogVars, blobVars, passVars, named>>

(* dropAction: unlink the blob under its stripe, delete the output's row,  *)
(* then the action's, then forget the live file: four steps.               *)
DropBlob(h) ==
    /\ Step(h, "dropBlob", "dropRow")
    /\ blob' = [blob EXCEPT ![out[h]] = "absent"]
    /\ UnchangedRequest
    /\ UNCHANGED <<catalogVars, live, passVars, named>>

DropRow(h) ==
    /\ Step(h, "dropRow", "dropEntry")
    /\ DeleteOutputs({out[h]})
    /\ UnchangedRequest
    /\ UNCHANGED <<blobVars, passVars, named>>

DropEntry(h) ==
    /\ Step(h, "dropEntry", "dropLive")
    /\ DeleteEntries({act[h]})
    /\ UnchangedRequest
    /\ UNCHANGED <<blobVars, passVars, named>>

DropLive(h) ==
    /\ Step(h, "dropLive", "miss")
    /\ live' = [live EXCEPT ![HelperOf[h]] = @ \ {out[h]}]
    /\ UnchangedRequest
    /\ UNCHANGED <<catalogVars, blob, passVars, named>>

(* An error in a drop, or in forgetting a mismatch, is logged and the get  *)
(* answers its miss with the rest of the drop undone.                      *)
DropFails(h) ==
    /\ \E s \in {"forget", "dropBlob", "dropRow", "dropEntry"} : Step(h, s, "miss")
    /\ UnchangedRequest
    /\ UNCHANGED <<catalogVars, blobVars, passVars, named>>

(* A put runs on its helper's request loop, so one helper serves one put   *)
(* at a time; gets of the same helper run beside it.                       *)
Putting(h) == pc[h] \in PutSteps \cup {"stored"}

BeginPut(h, a, o) ==
    /\ Step(h, "idle", "install")
    /\ \A g \in Handlers : HelperOf[g] = HelperOf[h] => ~Putting(g)
    /\ act' = [act EXCEPT ![h] = a]
    /\ out' = [out EXCEPT ![h] = o]
    /\ UNCHANGED <<buf, catalogVars, blobVars, passVars, named>>

(* installBlobLocked: a file already at the path is adopted as it is, even *)
(* one whose bytes have gone bad; otherwise this put's copy is renamed in. *)
InstallBlob(h) ==
    /\ Step(h, "install", "record")
    /\ blob' = [blob EXCEPT ![out[h]] = IF @ = "absent" THEN "good" ELSE @]
    /\ UnchangedRequest
    /\ UNCHANGED <<catalogVars, live, passVars, named>>

RecordPut(h) ==
    /\ Step(h, "record", "keep")
    /\ UpsertEntry(act[h], out[h])
    /\ named' = [named EXCEPT ![act[h]] = out[h]]
    /\ UnchangedRequest
    /\ UNCHANGED <<blobVars, passVars>>

KeepLive(h) ==
    /\ Step(h, "keep", "stored")
    /\ live' = [live EXCEPT ![HelperOf[h]] = @ \cup {out[h]}]
    /\ UnchangedRequest
    /\ UNCHANGED <<catalogVars, blob, passVars, named>>
-----------------------------------------------------------------------------
(* The answer, an error answer, and the death of a helper.                 *)

Release(S) ==
    /\ pc'  = [h \in Handlers |-> IF h \in S THEN "idle" ELSE pc[h]]
    /\ act' = [h \in Handlers |-> IF h \in S THEN None ELSE act[h]]
    /\ out' = [h \in Handlers |-> IF h \in S THEN None ELSE out[h]]
    /\ buf' = [h \in Handlers |-> IF h \in S THEN "absent" ELSE buf[h]]

Reply(h) ==
    /\ pc[h] \in {"hit", "miss", "stored"}
    /\ Release({h})
    /\ UNCHANGED <<catalogVars, blobVars, passVars, named>>

(* An I/O or catalog error ends the request with an error response.  A put *)
(* that fails after installing leaves its blob behind, unrecorded.         *)
Fail(h) ==
    /\ pc[h] \in {"lookup", "open", "decode", "install", "record"}
    /\ Release({h})
    /\ UNCHANGED <<catalogVars, blobVars, passVars, named>>

(* A helper is killed: its requests and its live files go, and another     *)
(* helper takes its place.                                                 *)
Crash(p) ==
    /\ Release({h \in Handlers : HelperOf[h] = p})
    /\ live' = [live EXCEPT ![p] = {}]
    /\ UNCHANGED <<catalogVars, blob, passVars, named>>

(* A blob's bytes go bad on disk.                                          *)
Corrupt(o) ==
    /\ blob[o] = "good"
    /\ blob' = [blob EXCEPT ![o] = "bad"]
    /\ UNCHANGED <<catalogVars, live, handlerVars, passVars, named>>

ResetSequence ==
    /\ LoseSequence
    /\ UNCHANGED <<blobVars, handlerVars, passVars, named>>
-----------------------------------------------------------------------------
(* Steps of the pass that holds the maintenance lock: sweepUnlocked, then  *)
(* the scan.  Either may be skipped, as its stamp is not yet due.  Which   *)
(* files and rows a plan lists is left open: what a step removes is        *)
(* decided again when it removes it.                                       *)

PassStep(from, to) ==
    /\ mpc = from
    /\ mpc' = to

BeginPass ==
    /\ \E s \in {"entries", "evict"} : PassStep("off", s)
    /\ UNCHANGED <<mout, mkept, catalogVars, blobVars, handlerVars, named>>

(* deleteAccessedBefore: batches of old entries, then batches of old       *)
(* outputs, each batch a transaction of its own.                           *)
ExpireEntries ==
    /\ \E s \in {"entries", "outputs"} : PassStep("entries", s)
    /\ \E S \in SUBSET Actions : DeleteEntries(S)
    /\ UNCHANGED <<mout, mkept, blobVars, handlerVars, named>>

ExpireOutputs ==
    /\ \E s \in {"outputs", "orphans"} : PassStep("outputs", s)
    /\ \E S \in SUBSET Outputs : DeleteOutputs(S)
    /\ UNCHANGED <<mout, mkept, blobVars, handlerVars, named>>

(* removeOrphans: the rows of a shard are read again, outside the stripe,  *)
(* before the shard's files are unlinked under it.                         *)
Requery(o) ==
    /\ PassStep("orphans", "unlink")
    /\ mout' = o
    /\ mkept' = HasRow(o)
    /\ UNCHANGED <<catalogVars, blobVars, handlerVars, named>>

(* A file that was referenced is kept, and so is one modified too recently *)
(* to be an orphan, which any file may be.                                 *)
UnlinkOrphan ==
    /\ PassStep("unlink", "orphans")
    /\ \/ ~mkept /\ blob' = [blob EXCEPT ![mout] = "absent"]
       \/ UNCHANGED blob
    /\ mout' = None
    /\ mkept' = FALSE
    /\ UNCHANGED <<live, catalogVars, handlerVars, named>>

EndSweep ==
    /\ PassStep("orphans", "evict")
    /\ UNCHANGED <<mout, mkept, catalogVars, blobVars, handlerVars, named>>

(* evictOutput: the row goes first, if nothing touched it since the plan.  *)
EvictRow(o) ==
    /\ PassStep("evict", "evictUnlink")
    /\ HasRow(o)
    /\ DeleteOutputs({o})
    /\ mout' = o
    /\ UNCHANGED <<mkept, blobVars, handlerVars, named>>

EvictUnlink ==
    /\ PassStep("evictUnlink", "evict")
    /\ blob' = [blob EXCEPT ![mout] = "absent"]
    /\ mout' = None
    /\ UNCHANGED <<mkept, live, catalogVars, handlerVars, named>>

(* The pass ends: nothing left to do, an error, or the death of its        *)
(* process.                                                                *)
EndPass ==
    /\ mpc # "off"
    /\ mpc' = "off"
    /\ mout' = None
    /\ mkept' = FALSE
    /\ UNCHANGED <<catalogVars, blobVars, handlerVars, named>>
-----------------------------------------------------------------------------
GetNext(h) ==
    \/ \E a \in Actions : BeginGet(h, a)
    \/ LookupMiss(h) \/ LookupMismatch(h) \/ LookupHit(h) \/ ForgetMismatch(h)
    \/ ReuseLive(h) \/ NeedLive(h) \/ OpenBlob(h) \/ OpenFails(h)
    \/ Decode(h) \/ DecodeFails(h)
    \/ DropBlob(h) \/ DropRow(h) \/ DropEntry(h) \/ DropLive(h) \/ DropFails(h)

PutNext(h) ==
    \/ \E a \in Actions, o \in Outputs : BeginPut(h, a, o)
    \/ InstallBlob(h) \/ RecordPut(h) \/ KeepLive(h)

PassNext ==
    \/ BeginPass \/ ExpireEntries \/ ExpireOutputs
    \/ UnlinkOrphan \/ EndSweep \/ EvictUnlink \/ EndPass
    \/ \E o \in Outputs : Requery(o) \/ EvictRow(o)

Next ==
    \/ \E h \in Handlers : GetNext(h) \/ PutNext(h) \/ Reply(h) \/ Fail(h)
    \/ PassNext
    \/ \E p \in Helpers : Crash(p)
    \/ \E o \in Outputs : Corrupt(o)
    \/ ResetSequence

Spec == Init /\ [][Next]_vars
-----------------------------------------------------------------------------
(* Properties.                                                             *)

(* An action never resolves to an output other than the one last put under *)
(* it, whatever was evicted, expired, dropped and put again in between: an *)
(* entry left dangling by eviction must stay dangling when another output  *)
(* is given an id (lookupEntry, and AUTOINCREMENT and output_tag in the    *)
(* schema).                                                                *)
NoWrongArtifact ==
    \A a \in Actions, o \in Outputs : Resolves(a, o) => named[a] = o

(* The invariant that makes it so.  Rows have ids of their own, never      *)
(* above the sequence; a live entry carries the tag of the output its      *)
(* action names; and, while the sequence is never lost, an id an entry     *)
(* refers to belongs to the output its action names or to no output.       *)
IdsDistinct ==
    \A o, p \in Outputs : HasRow(o) /\ rowid[o] = rowid[p] => o = p

IdsBounded ==
    /\ \A o \in Outputs : rowid[o] <= seq
    /\ MayLoseSequence \/ \A a \in Actions : entries[a].ref <= seq

EntriesTagged ==
    \A a \in Actions : entries[a].ref # 0 =>
        named[a] \in Outputs /\ entries[a].tag = Tag[named[a]]

RefsKept ==
    MayLoseSequence \/
        \A a \in Actions, o \in Outputs : Joins(a, o) => named[a] = o

CatalogSound == IdsDistinct /\ IdsBounded /\ EntriesTagged /\ RefsKept

SafetyInvariant == TypeOK /\ CatalogSound

(* How far a request has come, seen by the client that made it.            *)
AbsState == [h \in Handlers |->
    IF pc[h] = "lookup" THEN "asked"
    ELSE IF pc[h] \in {"path", "open", "decode"} THEN "found"
    ELSE IF pc[h] \in GetSteps \cup {"miss"} THEN "missed"
    ELSE IF pc[h] \in {"install", "record"} THEN "storing"
    ELSE IF pc[h] = "keep" THEN "stored"
    ELSE pc[h]]

(* A file decoded from bytes that are not the output's is no answer.       *)
AbsAnswer == [h \in Handlers |->
    IF AbsState[h] \in {"asked", "missed"} \/ (pc[h] = "hit" /\ buf[h] = "bad")
    THEN None ELSE out[h]]

Cache == INSTANCE CacheSpec WITH
    Clients <- Handlers, stored <- named,
    state <- AbsState, action <- act, answer <- AbsAnswer

(* Every get answers a miss or an intact output its action named while it  *)
(* was being served, and every put that is answered has been recorded,     *)
(* through every interleaving with eviction, expiry, orphan collection,    *)
(* drops, corruption and crashes (withOutputLock: "Every interleaving of   *)
(* installing, reading and unlinking a content-addressed blob degrades to  *)
(* a cache miss").                                                         *)
CacheRefinement == Cache!Spec
=============================================================================
