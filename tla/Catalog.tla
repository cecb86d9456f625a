------------------------------- MODULE Catalog -------------------------------
(***************************************************************************)
(* The SQLite catalog of gocachez (src/catalog.go, schema in               *)
(* src/store.go): the outputs table, one row per blob, keyed by output     *)
(* digest and numbered by an AUTOINCREMENT id; and the entries table,      *)
(* which maps an action to an output by that id and a four-byte tag of the *)
(* digest it meant.  The reference is soft: no foreign key keeps the two   *)
(* tables consistent.                                                      *)
(*                                                                         *)
(* SQLite runs one statement, or one transaction, at a time, so each       *)
(* operator below that assigns the tables is one atomic step.  Row columns *)
(* that no property of this module tells apart (sizes, times, types) are   *)
(* left out.                                                               *)
(***************************************************************************)
EXTENDS Integers

CONSTANTS Actions, Outputs,
          Tags,             \* values of output_tag
          Tag,              \* outputTag: the tag of each output's digest
          NoTag,            \* the tag of an entry that does not exist
          MaxId,            \* bound: ids handed out in one behaviour
          MayLoseSequence   \* whether sqlite_sequence may be reset

ASSUME CatalogAssumption ==
    /\ Tag \in [Outputs -> Tags]
    /\ NoTag \notin Tags
    /\ MaxId \in Nat
    /\ MayLoseSequence \in BOOLEAN

VARIABLES rowid,    \* outputs: the id of each output's row, 0 if it has none
          entries,  \* entries: what each action's row holds
          seq       \* sqlite_sequence: the highest id handed out

catalogVars == <<rowid, entries, seq>>

NoEntry == [ref |-> 0, tag |-> NoTag]

CatalogTypeOK ==
    /\ rowid \in [Outputs -> 0..MaxId]
    /\ entries \in [Actions -> [ref : 0..MaxId, tag : Tags \cup {NoTag}]]
    /\ seq \in 0..MaxId

CatalogInit ==
    /\ rowid = [o \in Outputs |-> 0]
    /\ entries = [a \in Actions |-> NoEntry]
    /\ seq = 0

HasRow(o) == rowid[o] # 0

(***************************************************************************)
(* lookupEntry joins entries to outputs on the id, then compares the tag   *)
(* stored with the entry to the tag of the output the join reached.        *)
(***************************************************************************)
Joins(a, o) == HasRow(o) /\ entries[a].ref = rowid[o]

(* Mutant of TagMatches: the tag is not compared. *)
TagIgnored(a, o) == TRUE

TagMatches(a, o) == entries[a].tag = Tag[o]

Resolves(a, o) == Joins(a, o) /\ TagMatches(a, o)

Mismatches(a, o) == Joins(a, o) /\ ~TagMatches(a, o)

LookupFails(a) == \A o \in Outputs : ~Joins(a, o)

(* AUTOINCREMENT: one more than the highest id handed out so far. *)
NextId == seq + 1

(* Mutant of UpsertEntry: an entry that exists is left as it is. *)
InsertEntry(a, o) ==
    /\ HasRow(o) \/ NextId <= MaxId
    /\ LET id == IF HasRow(o) THEN rowid[o] ELSE NextId IN
        /\ rowid' = [rowid EXCEPT ![o] = id]
        /\ entries' = [entries EXCEPT ![a] =
               IF @ = NoEntry THEN [ref |-> id, tag |-> Tag[o]] ELSE @]
        /\ seq' = IF HasRow(o) THEN seq ELSE NextId

(* upsertEntry: the output's row, new or refreshed, and the action's entry *)
(* that names it, in one transaction.  retrySQLiteBusy may start it again  *)
(* when another writer is too slow; an attempt that found the database     *)
(* busy has changed nothing, so only the last one is a step.               *)
UpsertEntry(a, o) ==
    /\ HasRow(o) \/ NextId <= MaxId
    /\ LET id == IF HasRow(o) THEN rowid[o] ELSE NextId IN
        /\ rowid' = [rowid EXCEPT ![o] = id]
        /\ entries' = [entries EXCEPT ![a] = [ref |-> id, tag |-> Tag[o]]]
        /\ seq' = IF HasRow(o) THEN seq ELSE NextId

DeleteOutputs(S) ==
    /\ rowid' = [o \in Outputs |-> IF o \in S THEN 0 ELSE rowid[o]]
    /\ UNCHANGED <<entries, seq>>

DeleteEntries(S) ==
    /\ entries' = [a \in Actions |-> IF a \in S THEN NoEntry ELSE entries[a]]
    /\ UNCHANGED <<rowid, seq>>

(***************************************************************************)
(* sqlite_sequence reset, or restored apart from the rest of the database: *)
(* SQLite then goes on from the highest id still in the table, and ids     *)
(* that evicted outputs once had are handed out again.                     *)
(***************************************************************************)
LoseSequence ==
    /\ MayLoseSequence
    /\ \E n \in {0} \cup {rowid[o] : o \in Outputs} :
        /\ \A o \in Outputs : rowid[o] <= n
        /\ seq' = n
    /\ UNCHANGED <<rowid, entries>>
=============================================================================
