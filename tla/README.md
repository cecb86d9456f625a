# A verification development for gocachez

gocachez is a helper for the go command's `GOCACHEPROG` protocol: a build cache
with compressed blobs, a SQLite catalog and no daemon. Every `go` command starts a
helper; helpers of concurrent builds share one cache directory and meet only in
files, file locks and the catalog. Each helper runs maintenance as it closes. This
directory models that program in TLA+, checks the models with TLC and proves
theorems about them with TLAPS. The models are written from `src/`; line numbers of
every definition are in `PROJECT.json`.

## 1. The system

| Component | State it keeps | Operations |
|---|---|---|
| protocol loop (`protocol.go`) | slots, wait group, `serving` mutex, `closeOnce`, first write error | read a request, serve a get on a goroutine, serve a put, close; a signal handler |
| handlers (`cache.go`) | `materialized` per helper, pending files, blobs, live files | `get`, `put`, `materialize`, `installBlobLocked`, `dropAction` |
| catalog (`catalog.go`, schema in `store.go`) | `entries`, `outputs`, `runs`, `sqlite_sequence` | `upsertEntry`, `lookupEntry`, `deleteAction`, `dropAction`, `evictOutput`, expiry by age |
| access times (`cache.go`, `catalog.go`) | `accessed`, `accessedOutputs`, `accessFlushed` | mark, flush, restore, touch |
| maintenance (`cache.go`) | three stamps, `maintenance.lock` | sweep, evict to `maxSize`, expire entries, outputs and retained files, collect orphans and stale pending files, remove empty directories |
| run lifecycle (`store.go`) | `live/xx/run-*`, `run.lock`, row in `runs`, `lifecycle.lock` | open, register, close, reclaim |
| retained files (`export_archive.go`, `store.go`) | `retained/`, hard links into runs | strip, install or adopt, link back |
| `gocachez clean`, `gocachez prune` | none | remove all when idle; maintenance now |
| configuration, status, classification, help | none that matters | parse, read, format |

How they meet:

- A get or put is a sequence of separate steps: a statement of the catalog, a system
  call on a blob, a change of the helper's own maps. SQLite serialises statements,
  a *stripe* (one file lock per shard) serialises what touches a blob's file, and
  nothing serialises the whole.
- Eviction, expiry and orphan collection run while builds do. They delete a row and
  unlink its file in two steps, the second under the stripe. Rows, not files, say
  what exists: entries refer to outputs by number, with no foreign key.
- `lifecycle.lock` guards opening a store, deciding that the cache is idle, and
  clean; `run.lock` tells that a run is alive; `maintenance.lock` admits one pass.
- The helper's own goroutines share the store and race to close it.

What makes it hard: every pair of steps of two helpers may interleave; any helper
may be killed between any two; an id, a row, a listing, an age or a probe is read
in one step and used in a later one; files are protected by their age alone while a
put is between its install and its row. What must hold nevertheless:

- a get answers a miss or the right bytes, never another action's (handlers, catalog);
- a put, once answered, is recorded, and maintenance makes no put fail (handlers);
- only what nothing refers to is collected (sweep);
- a run that is open keeps its directory, lock and row, and one that is dead loses
  all three in the end; retention never loses the file it links (run lifecycle);
- each request is answered, by a store that is open, and the helper ends (protocol);
- eviction and expiry spare what was used since it was chosen (access times).

## 2. The modules

| Module | Models | Built on |
|---|---|---|
| `CacheSpec` | what a cache promises the go command: the abstract specification | |
| `Catalog` | `entries` and `outputs`, ids, tags, the sequence; one operator per transaction | |
| `BlobCache` | gets, puts, drops, maintenance, crashes and corruption, one statement or critical section a step | `Catalog`; refines `CacheSpec` |
| `BlobSpec` | the life of one output's blob and row, with no locks, files or clock: the abstract specification | |
| `ShardFiles` | one output's blob in real time, one system call a step | refines `BlobSpec` |
| `RunLifecycle` | runs, reclaim, live-directory sweep, retained files, clean | |
| `Protocol` | the request loop, its goroutines and the signal handler | |
| `AccessTimes` | hits in memory, their flushes, and the passes that go by them | |
| `CatalogPass` | one maintenance pass over the catalog: expiry in batches, the choice of candidates, eviction | |
| `Maintenance` | stamps, what is due, `maintenance.lock`, failed and deferred passes, `gocachez prune` | |
| `MCBlobCache`, `MCShardFiles`, `MCRunLifecycle`, `MCAccessTimes`, `MCCatalogPass`, `MCMaintenance` | instances and symmetry for TLC | the module named |
| `BlobCacheProofs`, `BlobCacheRefines`, `ShardFilesProofs`, `AccessTimesProofs`, `MaintenanceProofs`, `ProtocolProofs`, `RunLifecycleProofs`, `CatalogPassProofs` | theorems and proofs | the module named |

The last three models divide maintenance between them: `Maintenance` says which passes
run and when, `CatalogPass` which rows a pass picks and removes, `AccessTimes` what
the times it picks them by are worth; `BlobCache`, `ShardFiles` and `RunLifecycle` say
what the removals do to builds. Each leaves open what the others fix, so that a
property of one holds for whatever the others allow.

### CacheSpec and BlobCache

`CacheSpec` knows clients, actions and outputs. A put takes effect at one moment
(`Store`), a get at one moment (`Find`), each between request and answer; a miss is
always allowed. `BlobCache` has, per handler, a program counter (`pc`) and its local
variables (`act`, `out`, `buf`); per helper the `materialized` map (`live`); per
output what its blob file holds (`blob`); the pass has `mpc`, `mout`, `mkept`.
`named` is a history variable: the output last put under each action, which the
refinement maps to `stored`.

A get looks up (`LookupHit`, `LookupMiss`, `LookupMismatch`), reuses a live file or
opens and decodes the blob, and, if that finds it missing or bad, drops what it
found: blob, then row, then entry, then live file, any of which may fail
(`DropFails`). A put installs its blob under the stripe, records it in one
transaction and only then answers. A pass expires entries and outputs in batches
chosen freely, reads which outputs have rows, asks again, and unlinks; or it evicts:
row first, then blob. Which rows are old enough and how many bytes are over budget
is left open here, so whatever `CatalogPass` chooses is among the behaviours. What happens
under one stripe is one step, which `ShardFiles` takes apart.

### BlobSpec and ShardFiles

Time is a clock; `blob` and `pending` are mtimes. A put makes its directory, its
pending file, writes, takes the stripe, checks, adopts (stamping) or renames, reads
the size back, gives up the stripe, records. Gets drop a bad blob under the stripe.
The pass walks, asks again, compares mtimes with the grace, removes stale pending
files and empty directories, and evicts. `MaxStream`, `MaxWait` and `MaxRecord` say
how long a put may take to write, to install, to record. What the code assumes of
them is written down as `PromptPuts` and `PromptRecords`; it is true of the two
constants in the code (an hour for a pending file, the orphan grace) on any
host where a put takes less.

`BlobSpec` is what users of one blob may rely on: a put places it, and finds it there
until it leaves it for its row to be recorded; a get that has looked the row up may drop
it, and so may an eviction that has deleted the row; collection takes it in one step, when
it has no row and no put has installed it without recording. `ShardFiles` implements this
with a stripe held for a few system calls and an age compared with rows read earlier.
`RenamePending`, `RenameFails` and `StampBlob` are the moment of `Place`, `UnlinkOrphan`
that of `Collect`; what comes before them (writing, taking the stripe, walking, asking
again) is unseen. A put that dies is told from one that fails, so that losing a
blob it has placed does not pass for a crash.

### RunLifecycle

One run per helper. `pc` walks through `newStoreLocked`, `cleanupAbandonedRuns`,
`unregisterRun`; a maintenance pass and a clean are processes of their own, the
former because `maintenance.lock` admits one and any helper that has closed its run
(or `gocachez prune`, which has none) may be it. `dir` says whether a run's directory
exists and whether it has its `run.lock`: `os.RemoveAll` may remove that file first.
Reclaim is one procedure used by all, from a list of rows read in one step to
removals several steps later. Ages are fresh or old: `Age` makes whatever is there
old, and a close is taken to be shorter than `retainedAge`. `closed` is history.
`Kill` frees a process's locks and leaves the rest as it is. A close whose row cannot be
deleted (`UnregisterFails`) or whose kept directory cannot be stamped (`StampFails`) goes on
and unlocks all the same (`store.go:562-573`): the row is left to a reclaim, the directory
to a sweep that sees the age of its run. `retainedAge` is taken to be positive; 0 or less
turns off the sweep of run directories (`cache.go:708`) and the expiry of retained files.

One file stands for the retained ones: `retained` is its age and `shard` its directory.
A closing helper with a file worth retaining takes the stripe (`RetainFile`, which makes
the directory), installs or adopts it (`InstallRetained`) and links it back
(`LinkRetained`), the stripe held throughout. Maintenance and clean collect it as the
file of an evicted output under the same stripe (`CollectRetained`), and remove its
directory, empty, under no lock at all (`RemoveEmptyDir`), so that `InstallFails` may
follow. `escaped` is history: the helper has a path the build may hold.

### AccessTimes

Entries and outputs alike are rows with a time, `row`; 0 is no row. A hit is recorded in
`accessed` of its helper; the get that finds the flush due claims it in the same critical
section, and takes the batch, writes it, or puts it back in steps of its own
(`TakeBatch`, `CommitBatch`, `FlushFails`). A close flushes too, in order after its gets
(`"closing"`) or beside them when a signal causes it (`"signalled"`). Times are those of
the hit, and the update sets them whatever is there, so that one helper's late flush may
set back what another wrote. A get reads the clock before it waits for the lock that
records its hit (`cache.go:281-284`), so a hit may bear any time up to `Delay` ago, and two
may be recorded in the other order. The pass goes by the cutoff of the time it began, picks
rows below it and asks again as it deletes; then the scan reads the clock again
(`cache.go:773`), picks outputs to evict with the times read, and asks again as it evicts.
`hit` is history.

`Delay` is how long a hit may stay on its way, waiting for the lock included. `PromptFlush` is the assumption behind
`src/cache.go:1076-1078` ("the 30s access flush is well inside that hour"): helpers keep
getting hits, so that one of them flushes, and flushes do not keep failing. The code
does not enforce it: a helper that goes idle keeps its last hits until it closes. Without
it an old flush may set back a newer time of another helper and expiry take a row used
within `maxAge`; the cost is a miss.

### CatalogPass

The rows of `outputs` in full (time, size, id) and of `entries` whether they are old; a
step is a statement or a transaction, and builds touch, put and drop rows between any
two. `picked` is the batch to expire, `keyCursor` and `batches` the positions of the two
loops; `cursor` and `need` those of the plan, `candidates` its result, `total` the size
that eviction counts down. The clock is read again for the scan, so it has a cutoff of
its own. `disturbed`, `created` and `drift` are history: what builds changed and how
much, which is what the promises of the pass must except.

A page of the index is the set of its rows; where order matters it is the order of
the key (`ColderThan`): a row is on the page if fewer than `PageSize` rows after the cursor
are colder, it is taken if those colder than it do not cover the need yet, and `InOrder`
lists what is taken as it is appended. `Bytes` counts the pairs of an output and one of
its bytes, which is the sum of sizes, and a sum that can be reasoned about.

### Maintenance

A process is a helper that closes or a `gocachez prune`; `pc` is its place in `prune`,
`due` the passes it found due before it had the lock, one stamp after another
(`CheckStamps`), and has still to make, `stamp` the age of each pass's stamp:
none, future, fresh or old. `Stop` is a pass that fails, which ends `prune`, or a kill;
`DeferRetained` is an expiry of retained files that finds the cache busy or fails, which
does not. `TimePasses` lets any stamp become of any age, which is hours going by, a clock
set, or a backup restored. `awaited` and `recent` are history: what a process is yet to
see done, and what was done within the interval.

### Protocol

`loop`, `handler` and `request` are program counters of the loop, the signal handler
and each request; `sem`, `wg`, `serving`, `once` and `broken` are the channel, the
wait group, the mutex, `closeOnce` and `firstErr`. Serving a request is one step, of
which the other modules are about. A second signal, which kills the process, is not
represented.

The wait group is Go's `sync.WaitGroup`, whose `Wait` is not one step when it has to wait.
The last get to leave finds a waiter (`handler` goes from `"parked"` to `"draining"`),
checks that the group is still at zero and resets it (`WakeWaiter`); then the waiter
resumes (`HandlerResumes`), and it too wants the group at zero. The loop goes on calling
`wg.Go` meanwhile, so each of the three may find a new get and panic: the loop
(`SpawnMisused`, whose deferred calls still close the store), the last get (`WakePanics`)
or the waiter (`HandlerPanics`). The latter two are `handler = "stranded"`, after which the
process ends with the store open. The loop's own `wg.Wait` is one step: only the loop adds.

## 3. The runs

| Run | Instance | What it shows |
|---|---|---|
| `shared_helper` | 1 helper, 2 requests at once, 1 action, 2 outputs, 2 ids, tags equal | every answer is one `CacheSpec` allows, through eviction, expiry, orphans, drops, corruption and crashes, when requests share live files and the action is put again meanwhile |
| `lost_sequence` | 1 handler, 2 actions, 2 outputs, 2 ids, the sequence reset at will, tags distinct | types; an entry never resolves to another output, though ids are handed out again |
| `shard_files` | 2 puts, 1 get, 1 pass, clock 0..3; grace 2, pending files stale at once | no referenced blob is collected and none vanishes under its stripe, though puts lose their pending files to the sweep and adopt or fail; a blob and its row lead the life `BlobSpec` describes |
| `run_lifecycle` | 2 helpers, maintenance, clean, 1 kill or failing call anywhere | live runs are kept, a retained file is there to be linked, a failed retention keeps the path, the sweep spares recent directories, clean waits |
| `dead_runs` | the same without clean, under fairness | what a killed helper leaves, or one whose close failed half way, is removed in the end |
| `protocol` | 4 requests, 2 slots, signals, failing writes | nothing is served while the store closes and each request is answered, unless a signal or a failed write came first; the helper ends, with its store closed unless the wait group panics |
| `access_times` | 2 helpers, a get each, 1 entry, 1 output, clock 1..4, `PromptFlush` | no hit is lost short of a kill; expiry takes no row used within `maxAge`, eviction none used since it was chosen, but for hits the catalog cannot know of |
| `catalog_pass` | 2 entries, 3 outputs of sizes 1, 1, 2, budget 1, batches and pages of 1, 2 batches at most, times 1..3, 4 ids | an orderly pass leaves the cache within budget, evicts coldest first and never below the budget, passes over no old entry, and ends, but for what builds changed meanwhile |
| `maintenance` | 1 helper, 1 `gocachez prune`, 1 failure or kill, stamps of all ages | a fresh stamp is earned; what was due when a process asked is done when it is through; the scan recurs whatever the stamps say |

Three runs show the code disagreeing with what it says of itself; each is a finding in
`PROJECT.json`, with the lines quoted.

| Run | What happens |
|---|---|
| `shard_dir_removed` | the sweep removes the shard directory a put has just made; the put fails |
| `kept_run` | reclaim, from a row read earlier, removes the directory of a run that has closed cleanly and kept it |
| `stranded_run` | a process killed inside `os.RemoveAll` leaves a directory with neither row nor `run.lock`, which only clean removes |

Other things found on the way have no run of their own.

- A put that waits long for its stripe renames a file that keeps the time of its last
  write (`cache.go:508`, against 521-522 and 1184-1186), so the orphan sweep may take the
  blob before its row lands: a later miss. `shard_files` has puts within the grace, as
  `PromptRecords` asks of `OrphansOnly`; with `Grace = 1`, `PendingAge = 2`, `MaxWait = 2` and
  `MaxTime = 4` TLC finds `OnlyOrphansRemoved` violated.
- Without `PromptFlush`, `ExpirySparesUsed` fails, as told under `AccessTimes`.
- The sweep's error is returned from `prune` (`cache.go:662`), so a sweep that fails on every
  close keeps the expiry of retained files and the scan from running at all, which
  `cache.go:672-675` avoids for the former. `Maintenance` bounds failures by `MaxFaults`,
  without which `ScanRecurs` would not hold.
- What is due is not looked at again once `maintenance.lock` is held, but for the scan
  (`cache.go:865`): a sweep may be made twice in a row. `gocachez prune` that finds the lock taken
  removes the stamps and does nothing else, without saying so.
- A row that falls below the age cutoff between sweep and scan is neither expired nor a
  candidate in that pass: `KeptFits` and `ColdestFirst` are about rows from `ScanCutoff` on.
- `cache.go:589-592` says that eviction waits for builds to be gone; `cache.go:868-869` and
  `CatalogPass` do not.
- A signal that finds gets in flight, followed by a get that starts just as the last of them
  ends, makes the wait group panic on the signal handler's side (`protocol.go:201`, `:149`):
  the process ends with its store open and its run directory as it was, though
  `protocol.go:172` says "shutdownOnSignal closes the store cleanly on SIGINT or SIGTERM, then
  exits". `ExitsClosed` has that as its one exception; without it `protocol` finds it violated.
- A close that cannot delete its row (`store.go:562`) leaves one that says where its directory
  is, and a reclaim removes the directory and the `go list` paths in it; one that cannot stamp
  its directory (`store.go:571`) leaves it to the next sweep if the run is older than
  `retainedAge`. `SweepSparesRecent` excepts the latter.
- A close that is killed while it installs leaves a temporary file under `retained/` that only
  clean removes.

Two more are left out of what `ServedBeforeClose` says, both about gets that lose their
live files to a close and both when the go command is no longer there to mind. The
loop serves gets without `serving`, so it may start one after the signal handler has
found none and begun to close the store (`protocol.go:149`, against the comment at
118). And when the response to a put cannot be written, the loop returns without the
wait that its other failing return makes (`protocol.go:166`, `:140`).

Bounds. Two of everything is where two-party races show, and the code names no third
party: a stripe, a row or a lock has a holder and a contender, and the pass or the
killer comes on top. Two ids suffice for an id to be reused while an entry still
names it. With `lost_sequence` gone over ids and tags, and `shared_helper` over the two
requests that interfere most, other shapes (helpers of their own, ids never reused and
tags all equal) are left to `RightArtifact` and `Implements`, which hold for all. Three
ticks fit a put that waits, one that is collected, and one after.
Four requests over two slots make a get wait for a slot and a put come between
gets. In `access_times` all intervals are one tick, and four ticks let a row be put, used,
picked and expired; two flushes of two helpers are enough for one to overtake the other.
In `catalog_pass` batches and pages of one row make each boundary a step, three outputs
give ties of time and size and a last page, the fourth id lets a row come back under
another one, and the initial states have every combination of times, old entries and
missing rows. In `maintenance` a contender is all that a pass can meet. `MaxFaults` (kills, and
the failures of `Maintenance` and of the closes of `RunLifecycle`),
`MaxId`, `MaxTime`, `MaxPasses` and `MaxRequests` only end
behaviours that would go on. Deadlock checking is off for `BlobCache`,
`ShardFiles`, `AccessTimes` and `CatalogPass`, which stop when ids, passes or time run
out; it is on for `RunLifecycle`, `Protocol` and `Maintenance`, whose processes must
never all wait.

Symmetry is used for safety only, over helpers with their handlers, puts, actions,
outputs (with equal or permuted tags) and runs.

Fairness. `Protocol`: weak fairness of the loop, of each get and of the signal
handler — goroutines are scheduled — and of the go command, which sends another
request or ends its input; none for the signal. `RunLifecycle` (`dead_runs` only):
weak fairness of each helper, which is to say that builds end, of maintenance, which
every closing helper begins again, and of time. A lock that is waited for is free
infinitely often there without any fairness of the lock itself. `CatalogPass`: weak
fairness of the pass, which one process runs alone; builds may write as they like.
`Maintenance`: weak fairness of each process's work under `prune`, of opening and closing
stores, which is to say that builds come and go; nobody has to run `gocachez prune`, and
no stamp has to age.

## 4. The theorems

| Theorem | States | Argument |
|---|---|---|
| `BlobCacheProofs!TypeCorrect` | `Spec => []TypeOK` | inductive as it stands, with `RequestOK`: a request in a step that uses its action or output has one |
| `BlobCacheProofs!RightArtifact` | `Spec => []NoWrongArtifact` | by `SafetyInvariant` = `TypeOK /\ CatalogSound`: row ids differ and do not exceed the sequence; a live entry has the tag of the output its action names; while the sequence is kept, an id an entry refers to is that output's or nobody's |
| `BlobCacheRefines!Implements` | `Spec => CacheRefinement` | each action is a step of `CacheSpec` or a stutter, under `SafetyInvariant`; a lookup finds what the action names by `RightArtifact`'s invariant |
| `ShardFilesProofs!TypeCorrect` | `Spec => []TypeOK` | with `StripeOK`: the stripe is held by exactly the put in its section |
| `ShardFilesProofs!OrphansOnly` | `PromptRecords => (Spec => OnlyOrphansRemoved)` | `OrphanInvariant`: a put about to record has left the blob no older than the grace; a row that appears after the pass has asked again belongs to such a blob |
| `ShardFilesProofs!InstalledStays` | `Spec => []InstalledBlobStays` | inductive with `TypeOK`: who unlinks holds the stripe |
| `ShardFilesProofs!InstallSucceeds` | `PromptPuts => (Spec => []InstallNeverFails)` | `InstallInvariant`: a pending file outlives its put |
| `ShardFilesProofs!Implements` | `PromptRecords => (Spec => BlobRefinement)` | each system call is a step of `BlobSpec` or a stutter, under `OrphanInvariant` (what is unlinked as an orphan is one then: `OrphanAtUnlink`) and `InstalledBlobStays` (a put that reads the size leaves a blob behind) |
| `AccessTimesProofs!TypeCorrect` | `Spec => []TypeOK` | inductive as it stands |
| `AccessTimesProofs!HitsSurvive` | `Spec => []HitsKept` | by `AccessInvariant`: with `TypeOK`, nothing recorded is from the future (`TimesPast`) or older than `Delay` (`StillRecent`), only a flush that writes holds hits (`BatchesHeld`), and an orderly close has none left (`ClosingFlushed`) |
| `AccessTimesProofs!ExpiryIsSafe` | `PromptFlush /\ Spec => ExpirySparesUsed` | the same invariant and `CutoffPast`; a hit that has arrived is at most `Delay` newer than its row, and `Delay <= Slack` |
| `AccessTimesProofs!EvictionIsSafe` | `PromptFlush /\ Spec => EvictsOnlyCold` | the same; the time read when it was chosen bounds the row's at eviction |
| `MaintenanceProofs!TypeCorrect` | `Spec => []TypeOK` | inductive as it stands; it includes that `maintenance.lock` is held by exactly who makes a pass |
| `MaintenanceProofs!StampsAreEarned` | `Spec => []StampsEarned` | with `MarksEarned`: who is about to write a stamp has done its pass |
| `MaintenanceProofs!WhatIsDueIsDone` | `Spec => []DueIsDone` | by `MaintenanceInvariant`: what a process awaits is still due (`AwaitedDue`) and still ahead of it (`AwaitedAhead`), and `gocachez prune` has cleared what it passed (`StampsCleared`) |
| `ProtocolProofs!Typing` | `Spec => []TypeOK` | by `ProtocolInvariant`, below |
| `ProtocolProofs!Served` | `Spec => []ServedBeforeClose` | a put is served under the mutex, which the handler takes before it closes and keeps (`MutexHeld`, `OnceHeld`); a get that is served is in the wait group (`RequestsTracked`), which is empty once the loop is past its wait (`DrainedBeforeClose`); a get the group forgets when it is reset is one whose adding panicked, never one that is served (`GroupAtZero`) |
| `ProtocolProofs!Exits` | `Spec => []ExitsClosed` | `OnceHeld`: who does not close waits for who does; a panic of the wait group under the signal handler's `Wait` is the one thing it excepts |
| `RunLifecycleProofs!Typing` | `Spec => []TypeOK` | by `LifecycleInvariant`, below; it includes that `lifecycle.lock` is held by exactly who is in its section |
| `RunLifecycleProofs!LiveKept` | `Spec => []LiveRunKept` | whoever removes something is at a run whose helper has ended (`TargetsEnded`), because it has had the `run.lock` of one that was listed only after it was opened (`ListedOpened`) |
| `RunLifecycleProofs!Retention` | `Spec => []RetentionSucceeds` | expiry unlinks only while none serves (`ExpiryAlone`); collection is kept out by the stripe |
| `RunLifecycleProofs!EscapedKept` | `Spec => []EscapedPathsKept` | `EscapesKept`: between the failure and the unlock the directory is marked to stay |
| `RunLifecycleProofs!SweepSpares` | `Spec => []SweepSparesRecent` | `KeptStamped`: a directory kept recently bears a fresh stamp, read after its lock was had |
| `RunLifecycleProofs!CleanWaits` | `Spec => []CleanWaitsForRuns` | `VisitedOrListed`: a run that is open is either counted or still to visit, and none opens meanwhile |
| `CatalogPassProofs!Typing` | `Spec => []TypeOK` | by `PassInvariant`, below; it includes that no output is a candidate twice |
| `CatalogPassProofs!Expired` | `Spec => EntriesExpired` | `EntriesAhead`: what builds left alone follows the cursor, or is in the batch; a batch is empty only if nothing follows (`Batches`) |
| `CatalogPassProofs!Coldest` | `Spec => ColdestFirst` | candidates are in the order of the index (`CandidatesInOrder`), each as its row is (`CandidatesTrue`), and what is not listed is warmer than all that are (`ColdestListed`) |
| `CatalogPassProofs!NoMore` | `Spec => NeverOverEvicts` | `SizeCounted`: `total` is the size of the cache less what builds added |
| `CatalogPassProofs!Fits` | `Spec => []KeptFits` | `PlanCovers`: what the plan leaves out fits the budget, but for the bytes put since; if eviction stops early, `SizeCounted` says what is left |

They hold for all sets of handlers, helpers, runs, requests, actions, outputs, puts, gets,
prunes and rows (finite ones in `CatalogPass`), all sizes, budgets, pages, batches and
intervals, any number of slots, and all bounds that satisfy the named assumptions of the modules. `NoWrongArtifact` needs
`WitnessAssumption`: if the sequence may be lost, tags of outputs in use differ,
which four bytes of a digest make likely and nothing makes certain. `NoWrongArtifact`
alone is not inductive: an entry left dangling becomes wrong when its id is handed
out again, and only the bound by the sequence rules that out. `OnlyOrphansRemoved`
is not implied by what the pass sees either: the rows it has read may be old.
`InstallNeverFails` has no run of its own: the instance of `shard_files` has puts that
are not prompt.

`HitsKept` says nothing without `PromptFlush`, for the reason told under `AccessTimes`;
`SlackAssumption` (`Delay <= Slack`) is the hour that `trimCutoff` adds. `DueIsDone` needs
its two history-bound parts because `due` is read before the lock: another process may
have done a pass since, and what remains to be shown is that nobody then undoes it.

`ServedBeforeClose` needs the whole of `ProtocolInvariant`: that it survives the start of a
close depends on where the loop is and on who holds a slot, the wait group and the mutex,
none of which it mentions. `LiveRunKept` is not inductive: a process that holds a list of
runs from an earlier step would be free to remove one that has opened since. What saves
it is that a run takes its `run.lock` before anyone can list it, and that a remover has
had that lock (`ListedOpened`, `TargetsEnded`). `CleanWaitsForRuns` rests on
`lifecycle.lock` as well: runs that open after the directories were listed are what it
excludes.

`ColdestFirst` is about one step of eviction, and its invariant about pages read long
before. While pages are read, `PagesCover` says that what could be evicted is listed or
follows the cursor, and that no candidate does; a page is closed downwards in the order of
the index (`Pages`), and so is what is taken of it (`Taking`), which gives `ColdestListed`
when the plan ends. A row that builds touched leaves `Evictable`, one they put never
enters it, and no other step of theirs matters (`BuildsStand`). `PlanCovers` keeps the books:
a page lowers what is left out and `need` by the same bytes, except for outputs put
since planning began, which is why `created` is on its right-hand side; when the plan ends
either `need` is covered or no row follows the cursor. `SizeCounted` bounds `drift` by the
bytes of outputs put, twice for those evicted and put again, and `KeptFits` follows at
either end of the eviction loop. The order, the pages and the bytes are lemmas of their
own, by `Least` (a finite set has a least member in a strict order) and the library's
theorems on cardinality.

`TypeOK` of `CatalogPass` has its first part (ids of rows differ and are below the next one)
for the order of the index to be total; without it two rows could share a place.

Every invariant and every action property of a passing run is proved. What stays with TLC
is liveness (`RequestsAnswered`, `EventuallyExits`, `DeadRunRemoved`, `PassEnds`,
`ScanRecurs`), out of the prover's reach.

## 5. What is not modelled, and simplifications

- Sizes, times and the choice of candidates are left open in `BlobCache`, which has their
  effects only, and modelled in `CatalogPass`. Types of blobs and retained files, which
  only the status report reads, are not.
- Times before 1970 (`cache.go:980`).
- Opening the catalog: `openDB` and `initDB` run under `lifecycle.lock`, each statement of
  the schema says IF NOT EXISTS, and a version that does not match is refused; the models
  begin with what they leave.
- An upsert that meets an existing row may make SQLite skip an id; skipping only
  makes reuse rarer. `MaxId` counts ids handed out.
- `retrySQLiteBusy` (`catalog.go:226`) starts an upsert again, three times at most, when
  another writer keeps it waiting. An attempt that finds the database busy changes nothing,
  so `UpsertEntry` is the last one; a put whose attempts all fail is `Fail`, or `PutFails` in `ShardFiles`.
- I/O errors: a failing step ends a request (`Fail`, `PutFails`, `DropFails`), a pass
  (`EndPass`), or, in `RunLifecycle`, shows as a kill would, but for those of
  `unregisterRun`, which are `CallFails`. `prepareLiveRunForClose`
  keeps the directory after a failure, which `RetainNothing` includes.
- What a scan collects of the retained files of outputs it has just evicted is
  `CollectRetained` of another pass; the code is the same, and so is the stripe.
- After a clean, a helper that closed before it goes on with its maintenance against
  a catalog that has been unlinked; what it removes then are blobs the next build
  misses. Not modelled.
- Pools of encoders, decoders and writers; configuration; status; classification;
  help; profiling. Their reasons are in `PROJECT.json`.

## 6. Plan

1. What `BlobSpec` and `BlobCache` share: the latter's orphan collection, which leaves
   ages open, may take a blob that is about to be recorded; with one that may not, each of
   its outputs should lead the life `BlobSpec` describes.
2. An abstract "delete what is older" that the two expiry loops of `CatalogPass`
   implement when nothing disturbs them.
3. An abstract reader-and-closer of a store that `Protocol` implements: requests served
   one by one, then a close.
