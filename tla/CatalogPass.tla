----------------------------- MODULE CatalogPass -----------------------------
(***************************************************************************)
(* One maintenance pass over the catalog (src/cache.go, src/catalog.go):   *)
(* age expiry of entries and outputs in batches, then the choice of        *)
(* outputs to evict page by page, then their eviction.                     *)
(*                                                                         *)
(* Builds change the same tables between any two statements of the pass:   *)
(* they record puts, drop rows, and flush access times, late ones too.     *)
(* Each step below is one statement or one transaction.                    *)
(*                                                                         *)
(* What access times are worth is the concern of AccessTimes, the blobs of *)
(* evicted outputs that of BlobCache and ShardFiles, and which passes run  *)
(* when that of Maintenance.                                               *)
(***************************************************************************)
EXTENDS Integers, Sequences, FiniteSets, FiniteSetsExt

CONSTANTS Actions,        \* keys of entries, numbers in the order of the key
          Outputs,
          Size,           \* compressed_size of each output
          FirstId,        \* the ids of the outputs that have rows at first
          MaxSize,        \* maxSize, the budget
          Cutoff,         \* the age cutoff of the sweep, 0 when expiry is off
          ScanCutoff,     \* that of the scan, which reads the clock again
          AgeBatch, AgeMaxBatches,
          PageSize,       \* evictionSampleSize
          MaxTime, MaxId  \* bounds: access times and rows of outputs

ASSUME CatalogPassAssumption ==
    /\ Actions \subseteq Nat \ {0} /\ IsFiniteSet(Actions) /\ IsFiniteSet(Outputs)
    /\ Size \in [Outputs -> Nat]
    /\ FirstId \in [Outputs -> 1..Cardinality(Outputs)]
    /\ \A o, x \in Outputs : FirstId[o] = FirstId[x] => o = x
    /\ MaxSize \in Nat
    /\ Cutoff \in Nat /\ ScanCutoff \in Nat /\ Cutoff <= ScanCutoff
    /\ AgeBatch \in Nat \ {0} /\ AgeMaxBatches \in Nat \ {0} /\ PageSize \in Nat \ {0}
    /\ MaxTime \in Nat /\ MaxId \in Nat /\ Cardinality(Outputs) <= MaxId

VARIABLES oldEntries, \* the entries last used before the cutoff
          output,     \* the row of each output
          nextId,     \* the id the next row of outputs gets
          pc,         \* next step of the pass
          picked,     \* the keys of the batch to expire
          keyCursor,  \* where the next batch of entries begins
          batches,    \* how many batches of outputs were expired
          need,       \* bytes the plan has yet to find
          cursor,     \* where its next page begins
          candidates, \* pruneCandidates, coldest first
          total,      \* the size of the cache, as eviction counts it
          disturbed,  \* history: rows builds wrote since expiry or planning began
          created,    \* history: outputs builds put since planning began
          drift       \* history: bytes builds added since the size was read again

tables  == <<oldEntries, output, nextId>>
expiry  == <<picked, keyCursor, batches>>
plan    == <<need, cursor, candidates, total>>
history == <<disturbed, created, drift>>
vars == <<oldEntries, output, nextId, pc, picked, keyCursor, batches, need, cursor,
          candidates, total, disturbed, created, drift>>

(* Time 0 stands for no row.                                               *)
Times == 1..MaxTime
NoRow == [at |-> 0, id |-> 0]

Present == {o \in Outputs : output[o] # NoRow}

(* The sum of the sizes of the outputs in S, counted byte by byte.         *)
Bytes(S) == Cardinality(UNION {{o} \X (1..Size[o]) : o \in S})

CandidateType == [output : Outputs, at : Times, size : Nat, id : Nat]
Candidate(o) == [output |-> o, at |-> output[o].at, size |-> Size[o], id |-> output[o].id]

PassSteps == {"entries", "expireEntries", "outputs", "expireOutputs",
              "plan", "page", "read", "evict"}
Over == {"done", "failed"}

TypeOK ==
    /\ oldEntries \subseteq Actions
    /\ output \in [Outputs -> {NoRow} \cup [at : Times, id : Nat]]
    /\ \A o \in Present : output[o].id < nextId
    /\ \A o, x \in Present : output[o].id = output[x].id => o = x
    /\ nextId \in 1..(MaxId + 1)
    /\ pc \in PassSteps \cup Over
    /\ picked \subseteq Actions \cup Outputs
    /\ keyCursor \in Actions \cup {0}
    /\ batches \in 0..AgeMaxBatches
    /\ need \in Int
    /\ cursor \in Int \X Int \X Int
    /\ candidates \in Seq(CandidateType)
    /\ \A i, j \in DOMAIN candidates : candidates[i].output = candidates[j].output => i = j
    /\ total \in Int
    /\ disturbed \subseteq Actions \cup Outputs
    /\ created \subseteq Outputs
    /\ drift \in Int

(* Any outputs, with times before and after the cutoffs.                   *)
Init ==
    /\ oldEntries \in SUBSET Actions
    /\ output \in {[o \in Outputs |-> IF ats[o] = 0 THEN NoRow ELSE [at |-> ats[o], id |-> FirstId[o]]] :
                   ats \in [Outputs -> 0..MaxTime]}
    /\ nextId = Cardinality(Outputs) + 1
    /\ pc = "entries"
    /\ picked = {} /\ keyCursor = 0 /\ batches = 0
    /\ need = 0 /\ cursor = <<0, 0, 0>> /\ candidates = <<>> /\ total = 0
    /\ disturbed = {} /\ created = {} /\ drift = 0
-----------------------------------------------------------------------------
(* Builds, for as long as the pass runs and reads the table they write.    *)

ReadsEntries == pc \in {"entries", "expireEntries"}
ReadsOutputs == pc \in PassSteps \ {"entries", "expireEntries"}

(* An access flush, which may set a time back, or a put.  Of an entry it   *)
(* matters only whether it is older than the cutoff.                       *)
TouchEntry(a) ==
    /\ ReadsEntries
    /\ oldEntries' \in {oldEntries \cup {a}, oldEntries \ {a}}
    /\ disturbed' = disturbed \cup {a}
    /\ UNCHANGED <<output, nextId, pc, expiry, plan, created, drift>>

TouchOutput(o) ==
    /\ ReadsOutputs
    /\ o \in Present
    /\ \E t \in Times : output' = [output EXCEPT ![o].at = t]
    /\ disturbed' = disturbed \cup {o}
    /\ UNCHANGED <<oldEntries, nextId, pc, expiry, plan, created, drift>>

(* A put of an output that has no row makes one, with a new id.            *)
PutOutput(o) ==
    /\ ReadsOutputs
    /\ o \notin Present
    /\ nextId <= MaxId
    /\ \E t \in Times : output' = [output EXCEPT ![o] = [at |-> t, id |-> nextId]]
    /\ nextId' = nextId + 1
    /\ disturbed' = disturbed \cup {o}
    /\ created' = created \cup {o}
    /\ drift' = IF pc = "evict" THEN drift + Size[o] ELSE drift
    /\ UNCHANGED <<oldEntries, pc, expiry, plan>>

(* A get that cannot use what it finds.                                    *)
DropOutput(o) ==
    /\ ReadsOutputs
    /\ o \in Present
    /\ output' = [output EXCEPT ![o] = NoRow]
    /\ disturbed' = disturbed \cup {o}
    /\ drift' = IF pc = "evict" THEN drift - Size[o] ELSE drift
    /\ UNCHANGED <<oldEntries, nextId, pc, expiry, plan, created>>
-----------------------------------------------------------------------------
(* Age expiry: deleteStaleEntries, then deleteStaleOutputs.                *)

OldAfterCursor == {a \in oldEntries : a > keyCursor}

(* Mutant of NextEntries: the batch is not in the order of the cursor.     *)
AnyEntries ==
    {a \in OldAfterCursor : Cardinality({b \in OldAfterCursor : b > a}) < AgeBatch}

(* staleActionIDs: the first AgeBatch, in the order of the key, after the  *)
(* last batch.                                                             *)
NextEntries ==
    {a \in OldAfterCursor : Cardinality({b \in OldAfterCursor : b < a}) < AgeBatch}

PickEntries ==
    /\ pc = "entries"
    /\ picked' = NextEntries
    /\ IF NextEntries = {}
       THEN pc' = "outputs" /\ disturbed' = {}
       ELSE pc' = "expireEntries" /\ UNCHANGED disturbed
    /\ UNCHANGED <<tables, keyCursor, batches, plan, created, drift>>

(* deleteStaleByKey, in one transaction.                                   *)
ExpireEntries ==
    /\ pc = "expireEntries"
    /\ oldEntries' = oldEntries \ picked
    /\ keyCursor' = Max(picked)
    /\ picked' = {}
    /\ pc' = "entries"
    /\ UNCHANGED <<output, nextId, batches, plan, history>>

(* staleOutputIDs: oldest first, from the beginning each time.             *)
StaleOutputs == {o \in Present : output[o].at < Cutoff}

PickOutputs ==
    /\ pc = "outputs"
    /\ \E S \in SUBSET StaleOutputs :
        /\ Cardinality(S) = Min({AgeBatch, Cardinality(StaleOutputs)})
        /\ \A o \in S, x \in StaleOutputs \ S : output[o].at <= output[x].at
        /\ picked' = S
        /\ pc' = IF S = {} THEN "plan" ELSE "expireOutputs"
    /\ UNCHANGED <<tables, keyCursor, batches, plan, history>>

(* Mutant of LastBatch: the loop is left only when nothing is stale.       *)
NoLastBatch == FALSE

(* ageMaxBatches.                                                          *)
LastBatch == batches = AgeMaxBatches - 1

ExpireOutputs ==
    /\ pc = "expireOutputs"
    /\ output' = [o \in Outputs |->
           IF o \in picked /\ output[o].at < Cutoff THEN NoRow ELSE output[o]]
    /\ picked' = {}
    /\ IF LastBatch
       THEN pc' = "plan" /\ batches' = 0
       ELSE /\ pc' = "outputs"
            /\ batches' = IF batches < AgeMaxBatches THEN batches + 1 ELSE batches
    /\ UNCHANGED <<oldEntries, nextId, keyCursor, plan, history>>
-----------------------------------------------------------------------------
(* planToMaxSize.                                                          *)

(* Eviction starts at the age cutoff.                                      *)
PlanEviction ==
    /\ pc = "plan"
    /\ IF MaxSize > 0 /\ Bytes(Present) > MaxSize
       THEN /\ pc' = "page"
            /\ need' = Bytes(Present) - MaxSize
            /\ cursor' = <<ScanCutoff, -1, -1>>
       ELSE /\ pc' = "done"
            /\ UNCHANGED <<need, cursor>>
    /\ disturbed' = {} /\ created' = {}
    /\ batches' = 0 /\ keyCursor' = 0
    /\ UNCHANGED <<tables, picked, candidates, total, drift>>

(* The order of outputs_accessed_at: time, size, id.                       *)
Key(c) == <<c.at, c.size, c.id>>

KeyBefore(k, l) ==
    \/ k[1] < l[1]
    \/ k[1] = l[1] /\ k[2] < l[2]
    \/ k[1] = l[1] /\ k[2] = l[2] /\ k[3] < l[3]

(* Mutant of Follows: a page resumes after the time of the last one.       *)
LaterThan(c, k) == k[1] < c.at \/ (k[2] = -1 /\ k[1] <= c.at)

Follows(c, k) == KeyBefore(k, Key(c))

(* Mutant of ColderThan: the order of the page leaves sizes out.           *)
ColderBySight(c, d) == c.at < d.at \/ (c.at = d.at /\ c.id < d.id)

ColderThan(c, d) == KeyBefore(Key(c), Key(d))

(* evictionCandidates: the first PageSize rows that follow the cursor.     *)
Page ==
    LET rows == {c \in {Candidate(o) : o \in Present} : Follows(c, cursor)}
    IN  {c \in rows : Cardinality({d \in rows : ColderThan(d, c)}) < PageSize}

LastOf(page) == CHOOSE c \in page : \A d \in page : d = c \/ ColderThan(d, c)

(* Mutant of New: a row that comes back under a later page counts again.   *)
Again(page) == page

Seen == {candidates[i].output : i \in DOMAIN candidates}
New(page) == {c \in page : c.output \notin Seen}

SizeOf(S) == Bytes({c.output : c \in S})

(* Those of a page that are taken: each, as long as those before it do not *)
(* cover what is needed.                                                   *)
Taken(new) == {c \in new : SizeOf({d \in new : ColderThan(d, c)}) < need}

(* They are taken in the order of the page.                                *)
Place(c, S) == Cardinality({d \in S : ColderThan(d, c)}) + 1
InOrder(S) == [n \in 1..Cardinality(S) |-> CHOOSE c \in S : Place(c, S) = n]

NextPage ==
    /\ pc = "page"
    /\ \E page \in {Page} : \E taken \in {Taken(New(page))} :
        /\ candidates' = candidates \o InOrder(taken)
        /\ need' = need - SizeOf(taken)
        /\ cursor' = IF page = {} THEN cursor ELSE Key(LastOf(page))
        /\ pc' = IF page # {} /\ need > SizeOf(taken) THEN "page" ELSE "read"
    /\ UNCHANGED <<tables, expiry, total, history>>
-----------------------------------------------------------------------------
(* evictToMaxSize.                                                         *)

(* The size is read again; a plan with no candidates does nothing.         *)
ReadSize ==
    /\ pc = "read"
    /\ total' = Bytes(Present)
    /\ need' = 0
    /\ cursor' = <<0, 0, 0>>
    /\ pc' = IF candidates = <<>> THEN "done" ELSE "evict"
    /\ UNCHANGED <<tables, expiry, candidates, history>>

StillCold(c) == c.output \in Present /\ output[c.output].at <= c.at

(* Mutant of Credit: nothing is credited.                                  *)
CreditNothing(c) == 0

(* A candidate counts only if it was removed.                              *)
Credit(c) == IF StillCold(c) THEN c.size ELSE 0

EvictNext ==
    /\ pc = "evict"
    /\ IF candidates = <<>> \/ total <= MaxSize
       THEN /\ pc' = "done"
            /\ candidates' = <<>>
            /\ UNCHANGED <<output, total>>
       ELSE LET c == Head(candidates) IN
            /\ output' = IF StillCold(c) THEN [output EXCEPT ![c.output] = NoRow] ELSE output
            /\ total' = total - Credit(c)
            /\ candidates' = Tail(candidates)
            /\ UNCHANGED pc
    /\ UNCHANGED <<oldEntries, nextId, expiry, need, cursor, history>>

(* An error of the catalog ends the pass where it is.                      *)
Fail ==
    /\ pc \in PassSteps
    /\ pc' = "failed"
    /\ UNCHANGED <<tables, expiry, plan, history>>
-----------------------------------------------------------------------------
Pass ==
    \/ PickEntries \/ ExpireEntries \/ PickOutputs \/ ExpireOutputs
    \/ PlanEviction \/ NextPage \/ ReadSize \/ EvictNext

Builds ==
    \/ \E a \in Actions : TouchEntry(a)
    \/ \E o \in Outputs : TouchOutput(o) \/ PutOutput(o) \/ DropOutput(o)

Next == Pass \/ Fail \/ Builds

(* The pass runs whatever builds do.                                       *)
Spec == Init /\ [][Next]_vars /\ WF_vars(Pass)
-----------------------------------------------------------------------------
(* Properties.                                                             *)

(* Expiry of entries, whose batches resume at a cursor, passes over no old *)
(* entry that was left alone meanwhile (deleteStaleEntries).               *)
EntriesExpired ==
    [][pc = "entries" /\ pc' = "outputs" =>
        oldEntries \subseteq disturbed]_vars

(* A pass that ends has made the cache fit: what is left of the outputs    *)
(* that eviction could take and no build touched since it was planned is   *)
(* within the budget, but for the bytes of outputs put meanwhile.  No tie  *)
(* of times, no row that moved while pages were read, was counted twice or *)
(* not at all (planToMaxSize, evictionCandidates, evictToMaxSize).         *)
Evictable == {o \in Present \ disturbed : output[o].at >= ScanCutoff}

KeptFits ==
    pc = "done" /\ MaxSize > 0 => Bytes(Evictable) <= MaxSize + Bytes(created)

Evicted(o) ==
    pc = "evict" /\ candidates' # candidates /\ o \in Present /\ output'[o] = NoRow

(* No output is evicted while a colder one stays that could be evicted and *)
(* that no build touched ("removes least-recently-used blobs").            *)
ColdestFirst ==
    [][\A o \in Outputs \ disturbed, x \in Evictable :
        Evicted(o) => ~ColderThan(Candidate(x), Candidate(o))]_vars

(* No output is evicted once the cache, as it was when its size was read   *)
(* again, is within the budget ("stopping at the real budget").            *)
NeverOverEvicts ==
    [][(\E o \in Outputs : Evicted(o)) => Bytes(Present) - drift > MaxSize]_vars

(* The invariant that makes these so, part by part.  What old entries      *)
(* builds have left alone lie after the cursor, or in the batch.           *)
EntriesAhead ==
    pc \in {"entries", "expireEntries"} =>
        /\ \A a \in oldEntries \ disturbed : a > keyCursor
        /\ pc = "expireEntries" =>
            /\ picked # {} /\ picked \subseteq Actions
            /\ \A a \in (oldEntries \ disturbed) \ picked, b \in picked : a > b

Planning == {"page", "read", "evict"}

(* Candidates are listed in the order of the index, each as its row still  *)
(* is unless a build changed it.                                           *)
CandidatesTrue ==
    /\ pc \in PassSteps \ Planning => candidates = <<>>
    /\ pc \in Planning => created \subseteq disturbed
    /\ \A i \in DOMAIN candidates :
        /\ candidates[i].size = Size[candidates[i].output]
        /\ candidates[i].output \in Present \ disturbed
            => candidates[i] = Candidate(candidates[i].output)

CandidatesInOrder ==
    \A i, j \in DOMAIN candidates : i < j => ColderThan(candidates[i], candidates[j])

(* What could be evicted follows the cursor or is listed, and what is not  *)
(* listed is warmer than all that is.                                      *)
PagesCover ==
    pc = "page" =>
        /\ need > 0
        /\ \A i \in DOMAIN candidates : ~KeyBefore(cursor, Key(candidates[i]))
        /\ \A o \in Evictable : o \in Seen \/ Follows(Candidate(o), cursor)

ColdestListed ==
    pc \in Planning =>
        \A o \in Evictable : \/ o \in Seen
                             \/ \A i \in DOMAIN candidates : ColderThan(candidates[i], Candidate(o))

(* The plan covers the overshoot, as far as there are rows; what it leaves *)
(* out fits.                                                               *)
PlanCovers ==
    /\ pc \in {"page", "read"} =>
        Bytes(Present \ (created \cup Seen)) <= MaxSize + need + Bytes(created \cap Seen)
    /\ pc = "read" => need <= 0 \/ Evictable \subseteq Seen
    /\ pc = "evict" => Bytes(Evictable \ Seen) <= MaxSize + Bytes(created)

(* Eviction counts the size of the cache, but for what builds add: outputs *)
(* that they put, once for each, and once more when it was evicted between.*)
SizeCounted ==
    /\ pc \in PassSteps \ {"evict"} => drift = 0
    /\ pc = "evict" =>
        /\ total = Bytes(Present) - drift
        /\ drift <= Bytes(Present \cap created) + Bytes(created \ Seen)

PassInvariant ==
    /\ TypeOK /\ EntriesAhead /\ CandidatesTrue /\ CandidatesInOrder /\ PagesCover
    /\ ColdestListed /\ PlanCovers /\ SizeCounted /\ KeptFits

(* The pass ends, however many rows builds keep writing below its cutoff   *)
(* ("rows appearing below the cutoff as fast as they are removed would     *)
(* keep it going forever").                                                *)
PassEnds == <>(pc \in Over)
=============================================================================
