----------------------------- MODULE AccessTimes -----------------------------
(***************************************************************************)
(* When a row of the catalog was last used, as far as the catalog knows    *)
(* (src/cache.go, src/catalog.go).                                         *)
(*                                                                         *)
(* A hit is recorded in its helper's memory.  A get that finds the last    *)
(* flush long enough ago writes what has gathered in one transaction, and  *)
(* so does a closing helper.  Meanwhile other helpers do the same for the  *)
(* same rows, and a maintenance pass picks rows by the times it reads and  *)
(* removes them some steps later.                                          *)
(*                                                                         *)
(* Entries and outputs are both rows with a time here.  Which rows an      *)
(* entry names, which rows a get drops, how many rows a batch has and what *)
(* must be evicted are the concern of BlobCache and CatalogPass.           *)
(***************************************************************************)
EXTENDS Integers

CONSTANTS Handlers, Helpers,
          HelperOf,    \* the process each handler belongs to
          Entries, Outputs,
          OutputOf,    \* the output each entry names
          FlushEvery,  \* accessFlushInterval
          MaxAge,      \* maxAge, which is not 0: expiry is on
          Slack,       \* mtimeInterval, as trimCutoff adds it
          Delay,       \* how long a hit or a put may take to reach its row
          PromptFlush, \* whether hits keep to that
          MaxTime      \* bound: when behaviours end

ASSUME AccessTimesAssumption ==
    /\ HelperOf \in [Handlers -> Helpers]
    /\ Handlers \cap Helpers = {}
    /\ OutputOf \in [Entries -> Outputs]
    /\ Entries \cap Outputs = {}
    /\ FlushEvery \in Nat
    /\ MaxAge \in Nat \ {0} /\ Slack \in Nat /\ Delay \in Nat
    /\ PromptFlush \in BOOLEAN
    /\ MaxTime \in Nat \ {0}

(* "The 30s access flush is well inside that hour."                        *)
ASSUME SlackAssumption == Delay <= Slack

VARIABLES clock,
          accessed,       \* accessed, accessedOutputs: hits not yet flushed
          accessFlushed,  \* when each helper's last flush was claimed
          phase,          \* how far each helper is in its life
          pc,             \* next step of each flush
          batch,          \* the hits it has taken out of memory
          row,            \* accessed_at of each row
          mpc,            \* next step of the maintenance pass
          cutoff,         \* its age cutoff
          chosen,         \* the rows it has picked, with the times it read
          hit             \* history: the time of the hit on each row that
                          \*          each helper recorded last

helperVars == <<accessed, accessFlushed, phase, pc, batch>>
passVars   == <<mpc, cutoff, chosen>>
vars == <<clock, accessed, accessFlushed, phase, pc, batch, row, mpc, cutoff, chosen, hit>>

Keys == Entries \cup Outputs

(* A helper's gets flush, and so does whoever closes its store.            *)
Flushers == Handlers \cup Helpers
ProcOf(f) == IF f \in Handlers THEN HelperOf[f] ELSE f

(* Time 0 stands for no time: no row, no hit, not picked.                  *)
Never == 0
Times == Never..MaxTime
Nothing == [k \in Keys |-> Never]

PassSteps == {"off", "entries", "expireEntries", "outputs", "expireOutputs", "evict"}

TypeOK ==
    /\ clock \in 1..MaxTime
    /\ accessed \in [Helpers -> [Keys -> Times]]
    /\ accessFlushed \in [Helpers -> 1..MaxTime]
    /\ phase \in [Helpers -> {"running", "closing", "signalled", "failed"}]
    /\ pc \in [Flushers -> {"idle", "take", "write"}]
    /\ batch \in [Flushers -> [Keys -> Times]]
    /\ row \in [Keys -> Times]
    /\ mpc \in PassSteps
    /\ cutoff \in Int
    /\ chosen \in [Keys -> Times]
    /\ hit \in [Helpers -> [Keys -> Times]]

(* Every row has just been put.                                           *)
Init ==
    /\ clock = 1
    /\ accessed = [p \in Helpers |-> Nothing]
    /\ accessFlushed = [p \in Helpers |-> 1]
    /\ phase = [p \in Helpers |-> "running"]
    /\ pc = [f \in Flushers |-> "idle"]
    /\ batch = [f \in Flushers |-> Nothing]
    /\ row = [k \in Keys |-> 1]
    /\ mpc = "off"
    /\ cutoff = 0
    /\ chosen = Nothing
    /\ hit = [p \in Helpers |-> Nothing]
-----------------------------------------------------------------------------
(* Gets.                                                                   *)

Marks(a) == {a, OutputOf[a]}

(* The flush is claimed under the lock that records the hit, so that one   *)
(* get makes it.                                                           *)
FlushDue(p, t) == t - accessFlushed[p] >= FlushEvery

(***************************************************************************)
(* markEntryAccess, for a get whose lookup found the entry; its row may    *)
(* have been removed since.  The get has read the clock before it waited   *)
(* for the lock, so that hits may be recorded in another order than they   *)
(* were timed in.  Gets end before a store closes unless it is a signal    *)
(* that closes it.                                                         *)
(***************************************************************************)
Hit(h, a) ==
    LET p == HelperOf[h] IN
    /\ pc[h] = "idle"
    /\ phase[p] # "closing"
    /\ \E t \in 1..clock :
        /\ PromptFlush => clock - t <= Delay
        /\ accessed' = [accessed EXCEPT ![p] =
               [k \in Keys |-> IF k \in Marks(a) THEN t ELSE @[k]]]
        /\ hit' = [hit EXCEPT ![p] =
               [k \in Keys |-> IF k \in Marks(a) THEN t ELSE @[k]]]
        /\ IF FlushDue(p, t)
           THEN /\ accessFlushed' = [accessFlushed EXCEPT ![p] = t]
                /\ pc' = [pc EXCEPT ![h] = "take"]
           ELSE UNCHANGED <<accessFlushed, pc>>
    /\ UNCHANGED <<clock, phase, batch, row, passVars>>
-----------------------------------------------------------------------------
(* flushAccessTimes.                                                       *)

(* The hits are taken out of memory before the transaction begins.         *)
TakeBatch(f) ==
    LET p == ProcOf(f) IN
    /\ pc[f] = "take"
    /\ batch' = [batch EXCEPT ![f] = accessed[p]]
    /\ accessed' = [accessed EXCEPT ![p] = Nothing]
    /\ pc' = [pc EXCEPT ![f] = IF accessed[p] = Nothing THEN "idle" ELSE "write"]
    /\ UNCHANGED <<clock, accessFlushed, phase, row, passVars, hit>>

(* Mutant of Touched: times are rounded up.                                *)
TouchedUp(b) ==
    [k \in Keys |-> IF b[k] # Never /\ row[k] # Never THEN b[k] + 1 ELSE row[k]]

(* touchAccessed sets the time of every row of the batch that still        *)
(* exists, to what it was when the helper recorded it.                     *)
Touched(b) ==
    [k \in Keys |-> IF b[k] # Never /\ row[k] # Never THEN b[k] ELSE row[k]]

CommitBatch(f) ==
    /\ pc[f] = "write"
    /\ row' = Touched(batch[f])
    /\ batch' = [batch EXCEPT ![f] = Nothing]
    /\ pc' = [pc EXCEPT ![f] = "idle"]
    /\ UNCHANGED <<clock, accessed, accessFlushed, phase, passVars, hit>>

(* Mutant of Restored: what is put back wins over later hits.              *)
RestoredOver(p, b) ==
    [k \in Keys |-> IF b[k] # Never THEN b[k] ELSE accessed[p][k]]

(* restoreAccessed: a later hit wins over the one put back.                *)
Restored(p, b) ==
    [k \in Keys |-> IF accessed[p][k] < b[k] THEN b[k] ELSE accessed[p][k]]

(* The transaction fails, and takes nothing with it.  What a closing store *)
(* puts back stays where it is.                                            *)
FlushFails(f) ==
    LET p == ProcOf(f) IN
    /\ pc[f] = "write"
    /\ accessed' = [accessed EXCEPT ![p] = Restored(p, batch[f])]
    /\ batch' = [batch EXCEPT ![f] = Nothing]
    /\ pc' = [pc EXCEPT ![f] = "idle"]
    /\ phase' = [phase EXCEPT ![p] = IF f = p THEN "failed" ELSE @]
    /\ UNCHANGED <<clock, accessFlushed, row, passVars, hit>>
-----------------------------------------------------------------------------
(* A helper's end.                                                         *)

Close(p) ==
    /\ phase[p] = "running"
    /\ pc[p] = "idle"
    /\ \/ /\ \A h \in Handlers : HelperOf[h] = p => pc[h] = "idle"
          /\ phase' = [phase EXCEPT ![p] = "closing"]
       \/ phase' = [phase EXCEPT ![p] = "signalled"]
    /\ pc' = [pc EXCEPT ![p] = "take"]
    /\ UNCHANGED <<clock, accessed, accessFlushed, batch, row, passVars, hit>>

(* Its memory goes, and another helper takes its place.  History forgets   *)
(* the hits only where the code gives no promise of them.                  *)
Replace(p, excused) ==
    /\ accessed' = [accessed EXCEPT ![p] = Nothing]
    /\ accessFlushed' = [accessFlushed EXCEPT ![p] = clock]
    /\ phase' = [phase EXCEPT ![p] = "running"]
    /\ pc' = [f \in Flushers |-> IF ProcOf(f) = p THEN "idle" ELSE pc[f]]
    /\ batch' = [f \in Flushers |-> IF ProcOf(f) = p THEN Nothing ELSE batch[f]]
    /\ hit' = [hit EXCEPT ![p] = IF excused THEN Nothing ELSE @]
    /\ UNCHANGED <<clock, row, passVars>>

(* The store is closed and the process exits.  A signal may have cut gets  *)
(* short, and a failed flush is only logged.                               *)
Exit(p) ==
    /\ phase[p] # "running"
    /\ pc[p] = "idle"
    /\ Replace(p, phase[p] # "closing")

Kill(p) == Replace(p, TRUE)
-----------------------------------------------------------------------------
(* upsertEntry sets both times to what put read from the clock before it   *)
(* began to wait for the writer slot, which it does three times at most.   *)
Put(a) ==
    \E t \in 1..clock :
        /\ clock - t <= Delay
        /\ row' = [k \in Keys |-> IF k \in Marks(a) THEN t ELSE row[k]]
        /\ UNCHANGED <<clock, helperVars, passVars, hit>>
-----------------------------------------------------------------------------
(* The pass that holds the maintenance lock.                               *)

PassStep(from, to) ==
    /\ mpc = from
    /\ mpc' = to

UnchangedByPass == UNCHANGED <<clock, helperVars, hit>>

(* trimCutoff, of the clock as it is read.                                 *)
Cutoff == clock - MaxAge - Slack

(* The reading that found the sweep due serves age expiry.                 *)
BeginPass ==
    /\ PassStep("off", "entries")
    /\ cutoff' = Cutoff
    /\ UNCHANGED <<chosen, row>>
    /\ UnchangedByPass

IsStale(k) == row[k] # Never /\ row[k] < cutoff

(* staleActionIDs, staleOutputIDs: the keys of some stale rows.            *)
ChooseStale ==
    \E S \in SUBSET {k \in Keys : IsStale(k)} :
        /\ S # {}
        /\ \/ S \subseteq Entries /\ PassStep("entries", "expireEntries")
           \/ S \subseteq Outputs /\ PassStep("outputs", "expireOutputs")
        /\ chosen' = [k \in Keys |-> IF k \in S THEN row[k] ELSE Never]
        /\ UNCHANGED <<cutoff, row>>
        /\ UnchangedByPass

(* Mutant of MayExpire: a row is deleted by its key alone.                 *)
ByKeyAlone(k) == chosen[k] # Never

(* deleteStaleByKey asks again whether the row is old.                     *)
MayExpire(k) == chosen[k] # Never /\ IsStale(k)

ExpireChosen ==
    /\ PassStep("expireEntries", "entries") \/ PassStep("expireOutputs", "outputs")
    /\ row' = [k \in Keys |-> IF MayExpire(k) THEN Never ELSE row[k]]
    /\ chosen' = Nothing
    /\ UNCHANGED cutoff
    /\ UnchangedByPass

NextTable ==
    /\ PassStep("entries", "outputs")
    /\ UNCHANGED <<cutoff, chosen, row>>
    /\ UnchangedByPass

(* planToMaxSize: outputs no older than the cutoff, with the times read.   *)
(* The scan reads the clock again.                                         *)
PlanEviction ==
    /\ PassStep("outputs", "evict")
    /\ cutoff' = Cutoff
    /\ \E S \in SUBSET {o \in Outputs : row[o] # Never /\ row[o] >= cutoff'} :
        chosen' = [k \in Keys |-> IF k \in S THEN row[k] ELSE Never]
    /\ UNCHANGED row
    /\ UnchangedByPass

(* Mutant of StillCold: a candidate is evicted for having been one.        *)
OnceCold(o) == row[o] # Never

(* evictOutput asks again whether the output has been used since.          *)
StillCold(o) == row[o] # Never /\ row[o] <= chosen[o]

EvictOutput(o) ==
    /\ mpc = "evict"
    /\ chosen[o] # Never
    /\ row' = [row EXCEPT ![o] = IF StillCold(o) THEN Never ELSE @]
    /\ chosen' = [chosen EXCEPT ![o] = Never]
    /\ UNCHANGED <<mpc, cutoff>>
    /\ UnchangedByPass

(* The pass is done, or fails, or its process dies.                        *)
EndPass ==
    /\ mpc # "off"
    /\ mpc' = "off"
    /\ cutoff' = 0
    /\ chosen' = Nothing
    /\ UNCHANGED row
    /\ UnchangedByPass
-----------------------------------------------------------------------------
(* Time passes.  PromptFlush says that every helper keeps getting hits, so *)
(* that one of them finds the flush due, and that flushes do not keep      *)
(* failing: no hit is then on its way for longer than Delay.               *)
Arriving(t) == PromptFlush /\ t # Never => clock - t < Delay

Tick ==
    /\ clock < MaxTime
    /\ \A k \in Keys :
        /\ \A p \in Helpers : Arriving(accessed[p][k])
        /\ \A f \in Flushers : Arriving(batch[f][k])
    /\ clock' = clock + 1
    /\ UNCHANGED <<helperVars, row, passVars, hit>>

FlushNext(f) == TakeBatch(f) \/ CommitBatch(f) \/ FlushFails(f)

PassNext ==
    \/ BeginPass \/ ChooseStale \/ ExpireChosen \/ NextTable
    \/ PlanEviction \/ EndPass
    \/ \E o \in Outputs : EvictOutput(o)

Next ==
    \/ \E h \in Handlers, a \in Entries : Hit(h, a)
    \/ \E f \in Flushers : FlushNext(f)
    \/ \E p \in Helpers : Close(p) \/ Exit(p) \/ Kill(p)
    \/ \E a \in Entries : Put(a)
    \/ PassNext
    \/ Tick

Spec == Init /\ [][Next]_vars
-----------------------------------------------------------------------------
(* Properties.                                                             *)

(* A hit still in its helper's memory or in a flush that helper makes.     *)
OnItsWay(p, k) ==
    \/ accessed[p][k] >= hit[p][k]
    \/ \E f \in Flushers : ProcOf(f) = p /\ batch[f][k] >= hit[p][k]

(* No hit is lost by a flush that fails, a flush that overtakes another, a *)
(* second get that flushes meanwhile, a put, or a close: unless its helper *)
(* is killed, it is on its way, or its row is gone, or the row says it was *)
(* used then or not much before (flushAccessTimes, restoreAccessed).       *)
HitsKept ==
    PromptFlush => \A p \in Helpers, k \in Keys :
        OnItsWay(p, k) \/ row[k] = Never \/ hit[p][k] <= row[k] + Delay

(* The invariant that makes it so: nothing recorded is from the future or, *)
(* while flushes are prompt, older than Delay; a flush holds hits only     *)
(* while it writes them; and a store that closes in order has nothing left *)
(* in memory once its last flush has taken it.                             *)
TimesPast ==
    \A k \in Keys :
        /\ \A p \in Helpers : hit[p][k] <= clock /\ accessed[p][k] <= clock
        /\ \A f \in Flushers : batch[f][k] <= clock

Recent(t) == t = Never \/ clock - t <= Delay

StillRecent ==
    PromptFlush => \A k \in Keys :
        /\ \A p \in Helpers : Recent(accessed[p][k])
        /\ \A f \in Flushers : Recent(batch[f][k])

BatchesHeld ==
    \A f \in Flushers, k \in Keys : pc[f] # "write" => batch[f][k] = Never

ClosingFlushed ==
    \A p \in Helpers : phase[p] = "closing" =>
        /\ \A h \in Handlers : HelperOf[h] = p => pc[h] = "idle"
        /\ pc[p] # "take" => \A k \in Keys : accessed[p][k] = Never

CutoffPast == mpc # "off" => cutoff <= Cutoff

AccessInvariant ==
    /\ TypeOK /\ TimesPast /\ StillRecent /\ BatchesHeld
    /\ ClosingFlushed /\ CutoffPast /\ HitsKept

(* Age expiry deletes a row only if every hit on it is either older than   *)
(* maxAge or one the catalog cannot know of yet (sweepUnlocked: "an entry  *)
(* actually in use is never a candidate").                                 *)
Removed(k) == row[k] # Never /\ row'[k] = Never
Expired(k) == mpc \in {"expireEntries", "expireOutputs"} /\ chosen' # chosen /\ mpc' # "off" /\ Removed(k)

ExpirySparesUsed ==
    [][\A k \in Keys : Expired(k) => \A p \in Helpers :
        hit[p][k] < clock - MaxAge \/ OnItsWay(p, k)]_vars

(* Eviction removes an output only if no hit that has reached the catalog  *)
(* came noticeably after the time it was chosen for (evictOutput: "only if *)
(* nothing has read it since it was chosen").                              *)
Evicted(o) == mpc = "evict" /\ chosen[o] # Never /\ chosen'[o] = Never /\ Removed(o)

EvictsOnlyCold ==
    [][\A o \in Outputs : Evicted(o) => \A p \in Helpers :
        hit[p][o] <= chosen[o] + Delay \/ OnItsWay(p, o)]_vars
=============================================================================
