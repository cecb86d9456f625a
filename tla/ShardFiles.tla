------------------------------ MODULE ShardFiles ------------------------------
(***************************************************************************)
(* The files of one output, one shard directory and one stripe lock, in    *)
(* real time (src/cache.go): puts that compress into a pending file and    *)
(* rename it into place, gets that drop a bad blob, and the pass that      *)
(* holds the maintenance lock, which evicts, collects orphans and stale    *)
(* pending files and removes empty directories, all while builds run.      *)
(*                                                                         *)
(* BlobCache treats what happens under a stripe as one step; here it is    *)
(* one system call at a time, and the file times that orphan collection    *)
(* relies on are represented.                                              *)
(***************************************************************************)
EXTENDS Integers

CONSTANTS Puts,         \* puts of this output, by any helper
          Gets,         \* gets that look it up
          Nobody,       \* the stripe's holder when it is free
          Grace,        \* orphanGrace
          PendingAge,   \* mtimeInterval, as removeStalePendingBlobs uses it
          MaxWait,      \* bound: time from a put's last write to its install
          MaxRecord,    \* bound: time from its install to its row
          MaxStream,    \* bound: time a put goes on writing
          MaxTime,      \* bound: when behaviours end
          MaxPasses     \* bound: maintenance passes in one behaviour

ASSUME ShardFilesAssumption ==
    /\ Grace \in Nat /\ PendingAge \in Nat
    /\ MaxWait \in Nat /\ MaxRecord \in Nat /\ MaxStream \in Nat
    /\ MaxTime \in Nat /\ MaxPasses \in Nat
    /\ Nobody \notin Puts \cup Gets

(* What the code takes for granted of a put.  One is never as slow to      *)
(* write, or to install what it has written, as it takes for its pending   *)
(* file to go stale ("mtimeInterval is far longer than any put"); and the  *)
(* row follows the last write within the grace.                            *)
PromptPuts == MaxStream <= PendingAge /\ MaxWait <= PendingAge

PromptRecords == MaxWait + MaxRecord <= Grace

VARIABLES clock,
          dir,      \* whether the shard directory exists
          blob,     \* mtime of the blob file
          pending,  \* mtime of each put's pending file
          row,      \* whether the output's row exists
          stripe,   \* who holds the stripe
          ppc,      \* next step of each put
          since,    \* when each put began, wrote last, or installed
          gpc,      \* next step of each get
          mpc,      \* next step of the maintenance pass
          began,    \* the pass's idea of now
          refd,     \* whether it has read the output as referenced
          passes    \* passes begun

putVars  == <<pending, ppc, since>>
passVars == <<mpc, began, refd, passes>>
vars == <<clock, dir, blob, pending, row, stripe, ppc, since, gpc,
          mpc, began, refd, passes>>

Times == 0..MaxTime
NoFile == -1
FileTimes == Times \cup {NoFile}

InstallSteps == {"lock", "check", "stamp", "rename", "size"}
PutSteps == {"idle", "create", "write", "record", "done", "dead",
             "failedCreate", "failedInstall"} \cup InstallSteps
GetSteps == {"idle", "open", "unlink", "dropRow"}
PassSteps == {"off", "expire", "query", "walk", "requery", "unlink",
              "pending", "rmdir", "evict", "evictUnlink"}

(* Whoever holds the stripe is between taking it and giving it back.       *)
StripeOK == \A p \in Puts : stripe = p <=> ppc[p] \in InstallSteps \ {"lock"}

TypeOK ==
    /\ clock \in Times
    /\ dir \in BOOLEAN
    /\ blob \in FileTimes
    /\ pending \in [Puts -> FileTimes]
    /\ row \in BOOLEAN
    /\ stripe \in Puts \cup {Nobody}
    /\ ppc \in [Puts -> PutSteps]
    /\ since \in [Puts -> Times]
    /\ gpc \in [Gets -> GetSteps]
    /\ mpc \in PassSteps
    /\ began \in Times
    /\ refd \in BOOLEAN
    /\ passes \in 0..MaxPasses
    /\ StripeOK

Init ==
    /\ clock = 0
    /\ dir = FALSE
    /\ blob = NoFile
    /\ pending = [p \in Puts |-> NoFile]
    /\ row = FALSE
    /\ stripe = Nobody
    /\ ppc = [p \in Puts |-> "idle"]
    /\ since = [p \in Puts |-> 0]
    /\ gpc = [g \in Gets |-> "idle"]
    /\ mpc = "off"
    /\ began = 0
    /\ refd = FALSE
    /\ passes = 0

Exists(file) == file # NoFile
-----------------------------------------------------------------------------
(* Puts.                                                                   *)

PutStep(p, from, to) ==
    /\ ppc[p] = from
    /\ ppc' = [ppc EXCEPT ![p] = to]

(* MkdirAll(blobDir). *)
MakeShardDir(p) ==
    /\ PutStep(p, "idle", "create")
    /\ dir' = TRUE
    /\ UNCHANGED <<clock, blob, pending, row, stripe, since, gpc, passVars>>

(* CreateTemp needs the directory made a moment ago. *)
CreatePending(p) ==
    /\ PutStep(p, "create", "write")
    /\ dir
    /\ pending' = [pending EXCEPT ![p] = clock]
    /\ since' = [since EXCEPT ![p] = clock]
    /\ UNCHANGED <<clock, dir, blob, row, stripe, gpc, passVars>>

CreateFails(p) ==
    /\ PutStep(p, "create", "failedCreate")
    /\ ~dir
    /\ UNCHANGED <<clock, dir, blob, pending, row, stripe, since, gpc, passVars>>

(* The last write to the pending file gives it its time; a name that has   *)
(* been removed does not come back.                                        *)
FinishWrite(p) ==
    /\ PutStep(p, "write", "lock")
    /\ pending' = [pending EXCEPT ![p] = IF Exists(@) THEN clock ELSE @]
    /\ since' = [since EXCEPT ![p] = clock]
    /\ UNCHANGED <<clock, dir, blob, row, stripe, gpc, passVars>>

LockStripe(p) ==
    /\ PutStep(p, "lock", "check")
    /\ stripe = Nobody
    /\ stripe' = p
    /\ UNCHANGED <<clock, dir, blob, pending, row, since, gpc, passVars>>

(* installBlobLocked: adopt a blob that is there, else rename. *)
CheckBlob(p) ==
    /\ PutStep(p, "check", IF Exists(blob) THEN "stamp" ELSE "rename")
    /\ UNCHANGED <<clock, dir, blob, pending, row, stripe, since, gpc, passVars>>

(* Mutant of StampBlob: the file keeps the time it has. *)
AdoptUnstamped(p) ==
    /\ PutStep(p, "stamp", IF Exists(blob) THEN "size" ELSE "rename")
    /\ UNCHANGED <<clock, dir, blob, pending, row, stripe, since, gpc, passVars>>

(* adoptBlob: stamp the file with the time; if it has gone, install this   *)
(* put's copy after all.                                                   *)
StampBlob(p) ==
    /\ PutStep(p, "stamp", IF Exists(blob) THEN "size" ELSE "rename")
    /\ blob' = IF Exists(blob) THEN clock ELSE blob
    /\ UNCHANGED <<clock, dir, pending, row, stripe, since, gpc, passVars>>

(* A rename keeps the file's time, which is that of the last write.        *)
RenamePending(p) ==
    /\ PutStep(p, "rename", "size")
    /\ Exists(pending[p])
    /\ blob' = pending[p]
    /\ pending' = [pending EXCEPT ![p] = NoFile]
    /\ UNCHANGED <<clock, dir, row, stripe, since, gpc, passVars>>

(* With nothing to rename, a blob installed meanwhile is adopted.          *)
RenameFails(p) ==
    /\ PutStep(p, "rename", IF Exists(blob) THEN "size" ELSE "failedInstall")
    /\ ~Exists(pending[p])
    /\ blob' = IF Exists(blob) THEN clock ELSE blob
    /\ stripe' = IF Exists(blob) THEN stripe ELSE Nobody
    /\ UNCHANGED <<clock, dir, pending, row, since, gpc, passVars>>

(* Mutant of SizeBlob: the stripe is not given back. *)
SizeBlobLocked(p) ==
    /\ PutStep(p, "size", IF Exists(blob) THEN "record" ELSE "failedInstall")
    /\ since' = [since EXCEPT ![p] = clock]
    /\ UNCHANGED <<clock, dir, blob, pending, row, stripe, gpc, passVars>>

(* fileSize, the last call under the stripe: a blob that has gone by now   *)
(* fails the put.                                                          *)
SizeBlob(p) ==
    /\ PutStep(p, "size", IF Exists(blob) THEN "record" ELSE "failedInstall")
    /\ stripe' = Nobody
    /\ since' = [since EXCEPT ![p] = clock]
    /\ UNCHANGED <<clock, dir, blob, pending, row, gpc, passVars>>

(* The transaction that records the put, and the deferred removal of its   *)
(* pending file.                                                           *)
RecordPut(p) ==
    /\ PutStep(p, "record", "done")
    /\ row' = TRUE
    /\ pending' = [pending EXCEPT ![p] = NoFile]
    /\ UNCHANGED <<clock, dir, blob, stripe, since, gpc, passVars>>

(* The body is cut short or does not compress, or the catalog refuses the  *)
(* row: the caller gets an error, the pending file is removed, and a blob  *)
(* that was installed stays, with no row.                                  *)
PutFails(p) ==
    /\ \E s \in {"write", "record"} : PutStep(p, s, "done")
    /\ pending' = [pending EXCEPT ![p] = NoFile]
    /\ UNCHANGED <<clock, dir, blob, row, stripe, since, gpc, passVars>>

(* Another put of the same output, by the same caller. *)
NextPut(p) ==
    /\ PutStep(p, "done", "idle")
    /\ UNCHANGED <<clock, dir, blob, pending, row, stripe, since, gpc, passVars>>

(* The helper is killed.  Its pending file stays; the system frees its     *)
(* lock.                                                                   *)
Kill(p) ==
    /\ ppc[p] \in {"create", "write", "record"} \cup InstallSteps
    /\ ppc' = [ppc EXCEPT ![p] = "dead"]
    /\ stripe' = IF stripe = p THEN Nobody ELSE stripe
    /\ UNCHANGED <<clock, dir, blob, pending, row, since, gpc, passVars>>
-----------------------------------------------------------------------------
(* Gets, as far as they touch the files.                                   *)

GetStep(g, from, to) ==
    /\ gpc[g] = from
    /\ gpc' = [gpc EXCEPT ![g] = to]

Lookup(g) ==
    /\ GetStep(g, "idle", "open")
    /\ row
    /\ UNCHANGED <<clock, dir, blob, row, stripe, putVars, passVars>>

(* A blob that opens and decodes is a hit; one that is missing or bad is   *)
(* dropped.                                                                *)
OpenBlob(g) ==
    /\ \/ GetStep(g, "open", "idle") /\ Exists(blob)
       \/ GetStep(g, "open", "unlink")
    /\ stripe = Nobody
    /\ UNCHANGED <<clock, dir, blob, row, stripe, putVars, passVars>>

(* Mutant of Unlink: no stripe is taken. *)
UnlinkUnlocked == blob' = NoFile

(* Whoever unlinks a blob holds its stripe; no process waits for another   *)
(* while it does, so taking it, unlinking and releasing it is one step.    *)
Unlink == stripe = Nobody /\ blob' = NoFile

DropBlob(g) ==
    /\ GetStep(g, "unlink", "dropRow")
    /\ Unlink
    /\ UNCHANGED <<clock, dir, row, stripe, putVars, passVars>>

DropRow(g) ==
    /\ GetStep(g, "dropRow", "idle")
    /\ row' = FALSE
    /\ UNCHANGED <<clock, dir, blob, stripe, putVars, passVars>>
-----------------------------------------------------------------------------
(* The maintenance pass.                                                   *)

PassStep(from, to) ==
    /\ mpc = from
    /\ mpc' = to

(* prune reads the time once, before the sweep, or before the scan when the *)
(* sweep is not due.                                                        *)
BeginPass ==
    /\ \E s \in {"expire", "evict"} : PassStep("off", s)
    /\ passes < MaxPasses
    /\ passes' = passes + 1
    /\ began' = clock
    /\ UNCHANGED <<clock, dir, blob, row, stripe, putVars, gpc, refd>>

(* pruneOldEntries may delete the row. *)
ExpireRow ==
    /\ PassStep("expire", "query")
    /\ row' \in {row, FALSE}
    /\ UNCHANGED <<clock, dir, blob, stripe, putVars, gpc, began, refd, passes>>

(* planOrphans: the shard's rows, then its files.  Pending files are not   *)
(* orphans.                                                                *)
QueryReferenced ==
    /\ PassStep("query", "walk")
    /\ refd' = row
    /\ UNCHANGED <<clock, dir, blob, row, stripe, putVars, gpc, began, passes>>

WalkShard ==
    /\ PassStep("walk", IF Exists(blob) /\ ~refd THEN "requery" ELSE "pending")
    /\ UNCHANGED <<clock, dir, blob, row, stripe, putVars, gpc, began, refd, passes>>

(* removeOrphans reads the rows again, before it takes the stripe. *)
Requery ==
    /\ PassStep("requery", "unlink")
    /\ refd' = row
    /\ UNCHANGED <<clock, dir, blob, row, stripe, putVars, gpc, began, passes>>

(* Mutant of TooRecent: no grace. *)
NoGrace == blob >= began

(* now.Add(-orphanGrace): a file modified at the cutoff or after is kept. *)
TooRecent == blob >= began - Grace

(* removeShardOrphans, under the stripe. *)
UnlinkOrphan ==
    /\ PassStep("unlink", "pending")
    /\ stripe = Nobody
    /\ blob' = IF refd \/ TooRecent THEN blob ELSE NoFile
    /\ UNCHANGED <<clock, dir, row, stripe, putVars, gpc, began, refd, passes>>

Stale(file) == Exists(file) /\ file < began - PendingAge

(* removeStalePendingBlobs, under no lock. *)
RemoveStalePending ==
    /\ PassStep("pending", "rmdir")
    /\ pending' = [p \in Puts |-> IF Stale(pending[p]) THEN NoFile ELSE pending[p]]
    /\ UNCHANGED <<clock, dir, blob, row, stripe, ppc, since, gpc, began, refd, passes>>

Empty == ~Exists(blob) /\ \A p \in Puts : ~Exists(pending[p])

(* removeEmptyDirs(blobsDir), under no lock. *)
RemoveEmptyDir ==
    /\ PassStep("rmdir", "evict")
    /\ dir' = (dir /\ ~Empty)
    /\ UNCHANGED <<clock, blob, row, stripe, putVars, gpc, began, refd, passes>>

(* evictOutput, then the unlink. *)
EvictRow ==
    /\ PassStep("evict", "evictUnlink")
    /\ row
    /\ row' = FALSE
    /\ UNCHANGED <<clock, dir, blob, stripe, putVars, gpc, began, refd, passes>>

EvictUnlink ==
    /\ PassStep("evictUnlink", "off")
    /\ Unlink
    /\ UNCHANGED <<clock, dir, row, stripe, putVars, gpc, began, refd, passes>>

EndPass ==
    /\ mpc # "off"
    /\ mpc' = "off"
    /\ UNCHANGED <<clock, dir, blob, row, stripe, putVars, gpc, began, refd, passes>>
-----------------------------------------------------------------------------
(* Time passes, but no put takes longer over a part of its work than the   *)
(* bounds say.                                                             *)
InTime(p) ==
    /\ ppc[p] = "write" => clock - since[p] < MaxStream
    /\ ppc[p] \in InstallSteps => clock - since[p] < MaxWait
    /\ ppc[p] = "record" => clock - since[p] < MaxRecord

Tick ==
    /\ clock < MaxTime
    /\ \A p \in Puts : InTime(p)
    /\ clock' = clock + 1
    /\ UNCHANGED <<dir, blob, row, stripe, putVars, gpc, passVars>>

PutNext(p) ==
    \/ MakeShardDir(p) \/ CreatePending(p) \/ CreateFails(p) \/ FinishWrite(p)
    \/ LockStripe(p) \/ CheckBlob(p) \/ StampBlob(p) \/ RenamePending(p)
    \/ RenameFails(p) \/ SizeBlob(p) \/ RecordPut(p) \/ PutFails(p)
    \/ NextPut(p) \/ Kill(p)

GetNext(g) == Lookup(g) \/ OpenBlob(g) \/ DropBlob(g) \/ DropRow(g)

PassNext ==
    \/ BeginPass \/ ExpireRow \/ QueryReferenced \/ WalkShard \/ Requery
    \/ UnlinkOrphan \/ RemoveStalePending \/ RemoveEmptyDir
    \/ EvictRow \/ EvictUnlink \/ EndPass

Next ==
    \/ \E p \in Puts : PutNext(p)
    \/ \E g \in Gets : GetNext(g)
    \/ PassNext
    \/ Tick

Spec == Init /\ [][Next]_vars
-----------------------------------------------------------------------------
(* Properties.                                                             *)

(* Orphan collection removes nothing a catalog row refers to and nothing a *)
(* put has installed and is about to record, though it reads the rows      *)
(* outside the stripe and any build may run (removeOrphans, orphanGrace:   *)
(* "nothing older than this can be a put in flight").                      *)
OrphanRemoved ==
    mpc = "unlink" /\ mpc' = "pending" /\ Exists(blob) /\ ~Exists(blob')

OnlyOrphansRemoved ==
    [][OrphanRemoved => ~row /\ \A p \in Puts : ppc[p] # "record"]_vars

(* Why it is so.  No time is later than the clock, and every put is within *)
(* its bounds; a pending file has the time of its put's last write; so a   *)
(* put about to record left the blob no older than the grace allows, and   *)
(* whatever renames or stamps the blob after that only makes it younger.   *)
Dated ==
    /\ began <= clock /\ blob <= clock
    /\ \A p \in Puts : since[p] <= clock

OnTime ==
    \A p \in Puts :
        /\ ppc[p] = "write" => clock - since[p] <= MaxStream
        /\ ppc[p] \in InstallSteps => clock - since[p] <= MaxWait
        /\ ppc[p] = "record" => clock - since[p] <= MaxRecord

PendingDated ==
    \A p \in Puts :
        ppc[p] \in {"write"} \cup InstallSteps => pending[p] \in {since[p], NoFile}

BlobDated ==
    \A p \in Puts :
        /\ ppc[p] = "size" /\ Exists(blob) => blob >= since[p]
        /\ ppc[p] = "record" /\ Exists(blob) => blob >= since[p] - MaxWait

(* A row that appears once the pass has read its shard again protects a    *)
(* blob that its time protects already.                                    *)
LateRowYoungBlob ==
    mpc = "unlink" /\ ~refd /\ row /\ Exists(blob) => blob >= began - Grace

OrphanInvariant ==
    TypeOK /\ Dated /\ OnTime /\ PendingDated /\ BlobDated /\ LateRowYoungBlob

(* A blob that a put has found or installed under the stripe stays there   *)
(* until it has read its size, whatever drops, evicts or collects blobs    *)
(* meanwhile (installBlobLocked: "the caller holds the output's stripe").  *)
InstalledBlobStays ==
    \A p \in Puts : ppc[p] \in {"stamp", "size"} => Exists(blob)

(* What each process is to the blob and the row.  A put has placed the     *)
(* blob once it is renamed, or stamped, and until the stripe is given back. *)
AbsPut == [p \in Puts |->
    CASE ppc[p] = "size" -> "placed"
      [] ppc[p] = "record" -> "installed"
      [] ppc[p] = "dead" -> "dead"
      [] ppc[p] = "failedInstall" -> "failed"
      [] OTHER -> "away"]

AbsGet == [g \in Gets |->
    CASE gpc[g] \in {"open", "unlink"} -> "found"
      [] gpc[g] = "dropRow" -> "dropping"
      [] OTHER -> "away"]

Blob == INSTANCE BlobSpec WITH
    blob <- Exists(blob), put <- AbsPut, get <- AbsGet,
    evicting <- mpc = "evictUnlink"

(* A stripe held for a few system calls and the age of a file, read under  *)
(* the stripe but compared with rows read outside it, do for a blob what a *)
(* lock over the whole of a put and a whole collection would do: nobody    *)
(* loses a blob that has just been placed, and collection takes a blob at  *)
(* one moment, when it is an orphan (withOutputLock, orphanGrace).         *)
BlobRefinement == Blob!Spec

(* No put fails to install what it has written: "a put that fails is a     *)
(* build error, not a miss" (dropAction).                                  *)
InstallNeverFails == \A p \in Puts : ppc[p] # "failedInstall"

(* Why it is so of prompt puts: the pending file, too, is there until it   *)
(* is renamed.                                                             *)
InstallInvariant ==
    /\ TypeOK /\ Dated /\ OnTime /\ PendingDated
    /\ \A p \in Puts :
        ppc[p] \in {"write", "lock", "check", "stamp", "rename"} => Exists(pending[p])
    /\ InstalledBlobStays
    /\ InstallNeverFails

(* sweepUnlocked: "The worst a concurrent build sees is a miss".  A build  *)
(* never sees a put fail because of maintenance.                           *)
MaintenanceNeverFailsPut == \A p \in Puts : ppc[p] # "failedCreate"
=============================================================================
