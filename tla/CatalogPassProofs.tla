-------------------------- MODULE CatalogPassProofs --------------------------
(* Proofs about CatalogPass, for any finite tables of entries and outputs, *)
(* any sizes, any budget and any page.                                     *)
EXTENDS CatalogPass, FiniteSetTheorems, WellFoundedInduction, TLAPS

(* A finite set that is not empty has a least member, in any strict order. *)
LEMMA Least ==
    ASSUME NEW S, IsFiniteSet(S), S # {}, NEW R,
           \A x \in S : <<x, x>> \notin R,
           \A x, y, z \in S : <<x, y>> \in R /\ <<y, z>> \in R => <<x, z>> \in R
    PROVE  \E x \in S : \A y \in S : <<y, x>> \notin R
<1> DEFINE Below(x) == {y \in S : <<y, x>> \in R}
           Sets == {Below(x) : x \in S}
<1>1. IsWellFoundedOn(StrictSubsetOrdering(S), FiniteSubsetsOf(S))
    BY FS_StrictSubsetOrderingWellFounded
<1>2. FiniteSubsetsOf(S) = SUBSET S
    BY FS_FiniteSubsetsOfFinite
<1>3. Sets \subseteq SUBSET S /\ Sets # {}
    <2>1. \A x \in S : Below(x) \subseteq S
        OBVIOUS
    <2>2. PICK x \in S : TRUE
        OBVIOUS
    <2>3. Below(x) \in Sets
        BY <2>2
    <2> HIDE DEF Below
    <2> QED
        BY <2>1, <2>3
<1>4. PICK B \in Sets : \A C \in Sets : <<C, B>> \notin StrictSubsetOrdering(S)
    <2> HIDE DEF Sets
    <2> QED
        BY <1>1, <1>2, <1>3, WFMin
<1>5. PICK x \in S : B = Below(x)
    BY <1>4
<1>6. ASSUME NEW y \in S, <<y, x>> \in R PROVE FALSE
    <2>1. Below(y) \subseteq Below(x)
        BY <1>6
    <2>2. y \in Below(x) /\ y \notin Below(y)
        BY <1>6
    <2>3. <<Below(y), Below(x)>> \in StrictSubsetOrdering(S)
        BY <2>1, <2>2 DEF StrictSubsetOrdering
    <2> QED
        BY <1>4, <1>5, <2>3
<1> QED
    BY <1>6

(* The members of a finite set that have fewer than n below them: there    *)
(* are some, if the set has any.                                           *)
LEMMA FirstOnes ==
    ASSUME NEW S, IsFiniteSet(S), S # {}, NEW R, NEW n \in Nat \ {0},
           \A x \in S : <<x, x>> \notin R,
           \A x, y, z \in S : <<x, y>> \in R /\ <<y, z>> \in R => <<x, z>> \in R
    PROVE  \E x \in S : Cardinality({y \in S : <<y, x>> \in R}) < n
<1>1. PICK x \in S : \A y \in S : <<y, x>> \notin R
    BY Least
<1>2. {y \in S : <<y, x>> \in R} = {}
    BY <1>1
<1>3. Cardinality({y \in S : <<y, x>> \in R}) = 0
    BY <1>2, FS_EmptySet
<1>4. 0 < n
    OBVIOUS
<1> QED
    BY <1>3, <1>4
-----------------------------------------------------------------------------
(* Bytes.                                                                  *)

BytesOf(o) == {o} \X (1..Size[o])
ByteSet(S) == UNION {BytesOf(o) : o \in S}

LEMMA BytesOfOne ==
    ASSUME NEW o \in Outputs
    PROVE  IsFiniteSet(BytesOf(o)) /\ Cardinality(BytesOf(o)) = Size[o]
<1>1. Size[o] \in Nat
    BY CatalogPassAssumption DEF CatalogPassAssumption
<1>2. IsFiniteSet({o}) /\ Cardinality({o}) = 1
    BY FS_Singleton
<1>3. IsFiniteSet(1..Size[o]) /\ Cardinality(1..Size[o]) = Size[o]
    BY <1>1, FS_Interval
<1>4. /\ IsFiniteSet({o} \X (1..Size[o]))
      /\ Cardinality({o} \X (1..Size[o])) = 1 * Size[o]
    BY <1>2, <1>3, FS_Product
<1> QED
    BY <1>1, <1>4 DEF BytesOf

LEMMA BytesFinite ==
    ASSUME NEW S, S \subseteq Outputs
    PROVE  /\ IsFiniteSet(ByteSet(S))
           /\ Bytes(S) = Cardinality(ByteSet(S))
           /\ Bytes(S) \in Nat
<1> DEFINE f == [o \in S |-> BytesOf(o)]
           T == {BytesOf(o) : o \in S}
<1>1. IsFiniteSet(S)
    BY CatalogPassAssumption, FS_Subset DEF CatalogPassAssumption
<1>2. f \in Surjection(S, T)
    BY DEF Surjection
<1>3. IsFiniteSet(T)
    BY <1>1, <1>2, FS_Surjection
<1>4. \A B \in T : IsFiniteSet(B)
    BY BytesOfOne
<1>5. IsFiniteSet(UNION T)
    BY <1>3, <1>4, FS_UNION
<1>6. Bytes(S) = Cardinality(ByteSet(S))
    BY DEF Bytes, ByteSet, BytesOf
<1> QED
    BY <1>5, <1>6, FS_CardinalityType DEF ByteSet

(* What disjoint sets of outputs take adds up.                             *)
LEMMA BytesAdd ==
    ASSUME NEW S, NEW T, S \subseteq Outputs, T \subseteq Outputs, S \cap T = {}
    PROVE  Bytes(S \cup T) = Bytes(S) + Bytes(T)
<1>1. ByteSet(S \cup T) = ByteSet(S) \cup ByteSet(T)
    BY DEF ByteSet
<1>2. ByteSet(S) \cap ByteSet(T) = {}
    BY DEF ByteSet, BytesOf
<1>3. Cardinality(ByteSet(S) \cup ByteSet(T)) =
        Cardinality(ByteSet(S)) + Cardinality(ByteSet(T)) - Cardinality(ByteSet(S) \cap ByteSet(T))
    BY BytesFinite, FS_Union
<1>4. Cardinality(ByteSet(S) \cap ByteSet(T)) = 0
    BY <1>2, FS_EmptySet
<1>5. /\ Bytes(S) = Cardinality(ByteSet(S)) /\ Bytes(S) \in Nat
      /\ Bytes(T) = Cardinality(ByteSet(T)) /\ Bytes(T) \in Nat
      /\ Bytes(S \cup T) = Cardinality(ByteSet(S \cup T))
    BY BytesFinite
<1>6. Cardinality(ByteSet(S \cup T)) = Bytes(S) + Bytes(T) - 0
    BY <1>1, <1>3, <1>4, <1>5
<1> QED
    BY <1>5, <1>6

LEMMA BytesNone == Bytes({}) = 0
<1>1. ByteSet({}) = {}
    BY DEF ByteSet
<1> QED
    BY <1>1, BytesFinite, FS_EmptySet

LEMMA BytesSingle ==
    ASSUME NEW o \in Outputs
    PROVE  Bytes({o}) = Size[o] /\ Size[o] \in Nat
<1>1. ByteSet({o}) = BytesOf(o)
    BY DEF ByteSet
<1> QED
    BY <1>1, BytesFinite, BytesOfOne

LEMMA BytesSplit ==
    ASSUME NEW S, NEW T, S \subseteq Outputs
    PROVE  Bytes(S) = Bytes(S \cap T) + Bytes(S \ T)
<1>1. S = (S \cap T) \cup (S \ T)
    OBVIOUS
<1> QED
    BY <1>1, BytesAdd

LEMMA BytesMonotone ==
    ASSUME NEW S, NEW T, S \subseteq T, T \subseteq Outputs
    PROVE  Bytes(S) <= Bytes(T)
<1>1. T \cap S = S
    OBVIOUS
<1>2. Bytes(T) = Bytes(S) + Bytes(T \ S)
    BY <1>1, BytesSplit
<1>3. Bytes(S) \in Nat /\ Bytes(T \ S) \in Nat
    BY BytesFinite
<1> QED
    BY <1>2, <1>3

(* A put adds the size of its output, and a drop takes it away.            *)
LEMMA BytesPut ==
    ASSUME NEW S, S \subseteq Outputs, NEW o \in Outputs
    PROVE  /\ Bytes(S \cup {o}) = IF o \in S THEN Bytes(S) ELSE Bytes(S) + Size[o]
           /\ Bytes(S \ {o}) = IF o \in S THEN Bytes(S) - Size[o] ELSE Bytes(S)
<1>1. CASE o \in S
    <2>1. S \cup {o} = S /\ S = (S \ {o}) \cup {o} /\ (S \ {o}) \cap {o} = {}
        BY <1>1
    <2>2. Bytes((S \ {o}) \cup {o}) = Bytes(S \ {o}) + Bytes({o})
        BY <2>1, BytesAdd
    <2>3. Bytes(S) \in Nat /\ Bytes(S \ {o}) \in Nat /\ Bytes({o}) = Size[o] /\ Size[o] \in Nat
        BY BytesFinite, BytesSingle
    <2>4. Bytes(S) = Bytes(S \ {o}) + Size[o]
        BY <2>1, <2>2, <2>3
    <2>5. Bytes(S \ {o}) = Bytes(S) - Size[o]
        BY <2>3, <2>4
    <2>6. Bytes(S \cup {o}) = Bytes(S)
        BY <2>1
    <2> QED
        BY <1>1, <2>5, <2>6
<1>2. CASE o \notin S
    <2>1. S \ {o} = S /\ S \cap {o} = {}
        BY <1>2
    <2>2. Bytes(S \cup {o}) = Bytes(S) + Bytes({o})
        BY <2>1, BytesAdd
    <2> QED
        BY <1>2, <2>1, <2>2, BytesSingle
<1> QED
    BY <1>1, <1>2
-----------------------------------------------------------------------------
(* The order of the index, and pages of it.                                *)

Keys == Int \X Int \X Int

(* Total, of the rows of a table, no two of which have the same id.        *)
LEMMA KeyOrder ==
    ASSUME NEW k \in Keys, NEW l \in Keys, NEW m \in Keys
    PROVE  /\ ~KeyBefore(k, k)
           /\ KeyBefore(k, l) /\ KeyBefore(l, m) => KeyBefore(k, m)
           /\ k = l \/ KeyBefore(k, l) \/ KeyBefore(l, k)
BY DEF Keys, KeyBefore

LEMMA CandidateKey ==
    ASSUME NEW c \in CandidateType
    PROVE  Key(c) \in Keys /\ Key(c)[3] = c.id
BY CatalogPassAssumption DEF CatalogPassAssumption, CandidateType, Times, Key, Keys

LEMMA ColderOrder ==
    ASSUME NEW c \in CandidateType, NEW d \in CandidateType, NEW e \in CandidateType
    PROVE  /\ ~ColderThan(c, c)
           /\ ColderThan(c, d) /\ ColderThan(d, e) => ColderThan(c, e)
           /\ c.id # d.id => ColderThan(c, d) \/ ColderThan(d, c)
<1>1. Key(c) \in Keys /\ Key(d) \in Keys /\ Key(e) \in Keys
    BY CandidateKey
<1>2. c.id # d.id => Key(c) # Key(d)
    BY DEF Key
<1> QED
    BY <1>1, <1>2, KeyOrder DEF ColderThan

DistinctIds(S) == \A c, d \in S : c.id = d.id => c = d

LEMMA Predecessors ==
    ASSUME NEW S, S \subseteq CandidateType, IsFiniteSet(S), NEW c \in S
    PROVE  /\ IsFiniteSet({d \in S : ColderThan(d, c)})
           /\ Cardinality({d \in S : ColderThan(d, c)}) \in Nat
           /\ Cardinality({d \in S : ColderThan(d, c)}) < Cardinality(S)
<1> DEFINE P == {d \in S : ColderThan(d, c)}
<1>1. IsFiniteSet(P) /\ Cardinality(P) <= Cardinality(S) /\ (Cardinality(S) = Cardinality(P) => S = P)
    BY FS_Subset
<1>2. c \notin P
    BY ColderOrder
<1>3. Cardinality(P) \in Nat /\ Cardinality(S) \in Nat
    BY <1>1, FS_CardinalityType
<1> QED
    BY <1>1, <1>2, <1>3

(* What is colder has fewer before it.                                     *)
LEMMA PredecessorsGrow ==
    ASSUME NEW S, S \subseteq CandidateType, IsFiniteSet(S), NEW c \in S, NEW d \in S, ColderThan(c, d)
    PROVE  /\ {e \in S : ColderThan(e, c)} \subseteq {e \in S : ColderThan(e, d)}
           /\ Cardinality({e \in S : ColderThan(e, c)}) < Cardinality({e \in S : ColderThan(e, d)})
<1> DEFINE P == {e \in S : ColderThan(e, c)}
           Q == {e \in S : ColderThan(e, d)}
<1>1. P \subseteq Q /\ c \in Q /\ c \notin P
    BY ColderOrder
<1>2. IsFiniteSet(P) /\ IsFiniteSet(Q) /\ Cardinality(P) \in Nat /\ Cardinality(Q) \in Nat
    BY Predecessors
<1>3. Cardinality(P) <= Cardinality(Q) /\ (Cardinality(Q) = Cardinality(P) => Q = P)
    BY <1>1, <1>2, FS_Subset
<1> QED
    BY <1>1, <1>2, <1>3

(* InOrder lists a set once, coldest first.                                *)
LEMMA Places ==
    ASSUME NEW S, S \subseteq CandidateType, IsFiniteSet(S), DistinctIds(S)
    PROVE  /\ \A c \in S : Place(c, S) \in 1..Cardinality(S)
           /\ \A c, d \in S : ColderThan(c, d) => Place(c, S) < Place(d, S)
           /\ \A c, d \in S : Place(c, S) = Place(d, S) => c = d
           /\ \A n \in 1..Cardinality(S) : \E c \in S : Place(c, S) = n
<1> DEFINE N == Cardinality(S)
           f == [c \in S |-> Place(c, S)]
<1>1. N \in Nat
    BY FS_CardinalityType
<1>2. ASSUME NEW c \in S PROVE Place(c, S) \in 1..N
    <2>1. /\ Cardinality({d \in S : ColderThan(d, c)}) \in Nat
          /\ Cardinality({d \in S : ColderThan(d, c)}) < N
        BY Predecessors
    <2> QED
        BY <1>1, <2>1 DEF Place
<1>3. ASSUME NEW c \in S, NEW d \in S, ColderThan(c, d) PROVE Place(c, S) < Place(d, S)
    <2>1. Cardinality({e \in S : ColderThan(e, c)}) < Cardinality({e \in S : ColderThan(e, d)})
        BY <1>3, PredecessorsGrow
    <2>2. /\ Cardinality({e \in S : ColderThan(e, c)}) \in Nat
          /\ Cardinality({e \in S : ColderThan(e, d)}) \in Nat
        BY Predecessors
    <2> QED
        BY <2>1, <2>2 DEF Place
<1>4. ASSUME NEW c \in S, NEW d \in S, Place(c, S) = Place(d, S) PROVE c = d
    <2>1. ~ColderThan(c, d) /\ ~ColderThan(d, c)
        BY <1>2, <1>3, <1>4
    <2> QED
        BY <2>1, ColderOrder DEF DistinctIds
<1>5. f \in Injection(S, 1..N)
    BY <1>2, <1>4 DEF Injection, IsInjective
<1>6. IsFiniteSet(1..N) /\ Cardinality(1..N) = N
    BY <1>1, FS_Interval
<1>7. f \in Surjection(S, 1..N)
    BY <1>5, <1>6, FS_Injection
<1>8. \A n \in 1..N : \E c \in S : Place(c, S) = n
    BY <1>7 DEF Surjection
<1> QED
    BY <1>2, <1>3, <1>4, <1>8

LEMMA Listed ==
    ASSUME NEW S, S \subseteq CandidateType, IsFiniteSet(S), DistinctIds(S)
    PROVE  /\ InOrder(S) \in Seq(CandidateType)
           /\ Len(InOrder(S)) = Cardinality(S)
           /\ \A i \in 1..Cardinality(S) : InOrder(S)[i] \in S
           /\ \A c \in S : \E i \in 1..Cardinality(S) : InOrder(S)[i] = c
           /\ \A i, j \in 1..Cardinality(S) : i < j => ColderThan(InOrder(S)[i], InOrder(S)[j])
<1> DEFINE N == Cardinality(S)
           q == InOrder(S)
<1>1. N \in Nat
    BY FS_CardinalityType
<1>2. /\ \A c \in S : Place(c, S) \in 1..N
      /\ \A c, d \in S : ColderThan(c, d) => Place(c, S) < Place(d, S)
      /\ \A c, d \in S : Place(c, S) = Place(d, S) => c = d
      /\ \A n \in 1..N : \E c \in S : Place(c, S) = n
    BY Places
<1>3. ASSUME NEW i \in 1..N PROVE q[i] \in S /\ Place(q[i], S) = i
    <2>1. q[i] = CHOOSE c \in S : Place(c, S) = i
        BY DEF InOrder
    <2> QED
        BY <1>2, <2>1
<1>4. q \in [1..N -> CandidateType]
    BY <1>3 DEF InOrder
<1>5. q \in Seq(CandidateType) /\ Len(q) = N
    BY <1>1, <1>4
<1>6. ASSUME NEW c \in S PROVE \E i \in 1..N : q[i] = c
    BY <1>2, <1>3
<1>7. ASSUME NEW i \in 1..N, NEW j \in 1..N, i < j PROVE ColderThan(q[i], q[j])
    <2>1. q[i] \in S /\ q[j] \in S /\ Place(q[i], S) = i /\ Place(q[j], S) = j
        BY <1>3
    <2>2. q[i].id # q[j].id
        BY <2>1, <1>7 DEF DistinctIds
    <2>3. ~ColderThan(q[j], q[i])
        BY <1>1, <1>2, <1>7, <2>1
    <2> QED
        BY <2>1, <2>2, <2>3, ColderOrder
<1> QED
    BY <1>3, <1>5, <1>6, <1>7
-----------------------------------------------------------------------------
(* What a page holds, whatever the table and the cursor are.               *)

Table == {Candidate(o) : o \in Present}
Rows == {c \in Table : Follows(c, cursor)}

LEMMA Tables ==
    ASSUME TypeOK
    PROVE  /\ Table \subseteq CandidateType /\ IsFiniteSet(Table) /\ DistinctIds(Table)
           /\ \A c \in Table : c.output \in Present /\ c = Candidate(c.output)
<1>1. \A o \in Present : Candidate(o) \in CandidateType /\ Candidate(o).output = o
    BY CatalogPassAssumption DEF CatalogPassAssumption, TypeOK, Present, Candidate, CandidateType,
       NoRow
<1>2. \A c \in Table : c.output \in Present /\ c = Candidate(c.output) /\ c \in CandidateType
    BY <1>1 DEF Table
<1>3. DistinctIds(Table)
    <2>1. \A o \in Present : Candidate(o).id = output[o].id
        BY DEF Candidate
    <2>2. \A o, x \in Present : output[o].id = output[x].id => o = x
        BY DEF TypeOK
    <2> QED
        BY <1>2, <2>1, <2>2 DEF DistinctIds
<1>4. IsFiniteSet(Table)
    <2> DEFINE f == [o \in Present |-> Candidate(o)]
    <2>1. f \in Surjection(Present, Table)
        BY DEF Surjection, Table
    <2>2. IsFiniteSet(Present)
        BY CatalogPassAssumption, FS_Subset DEF CatalogPassAssumption, Present
    <2> QED
        BY <2>1, <2>2, FS_Surjection
<1> QED
    BY <1>2, <1>3, <1>4

(* A page is the coldest rows that follow the cursor, and none only if     *)
(* there are none.                                                         *)
LEMMA Pages ==
    ASSUME TypeOK
    PROVE  /\ Page \subseteq Rows
           /\ \A c \in Page, d \in Rows : ColderThan(d, c) => d \in Page
           /\ Rows # {} => Page # {}
<1>1. Page = {c \in Rows : Cardinality({d \in Rows : ColderThan(d, c)}) < PageSize}
    BY DEF Page, Rows, Table
<1>2. Rows \subseteq CandidateType /\ IsFiniteSet(Rows)
    BY Tables, FS_Subset DEF Rows
<1>3. PageSize \in Nat \ {0}
    BY CatalogPassAssumption DEF CatalogPassAssumption
<1>4. ASSUME NEW c \in Page, NEW d \in Rows, ColderThan(d, c) PROVE d \in Page
    <2>1. /\ Cardinality({e \in Rows : ColderThan(e, d)}) < Cardinality({e \in Rows : ColderThan(e, c)})
          /\ Cardinality({e \in Rows : ColderThan(e, d)}) \in Nat
          /\ Cardinality({e \in Rows : ColderThan(e, c)}) \in Nat
        BY <1>1, <1>2, <1>4, PredecessorsGrow, Predecessors
    <2>2. Cardinality({e \in Rows : ColderThan(e, c)}) < PageSize
        BY <1>1
    <2> QED
        BY <1>1, <1>3, <2>1, <2>2
<1>5. ASSUME Rows # {} PROVE Page # {}
    <2> DEFINE R == {p \in Rows \X Rows : ColderThan(p[1], p[2])}
    <2>1. /\ \A x \in Rows : <<x, x>> \notin R
          /\ \A x, y, z \in Rows : <<x, y>> \in R /\ <<y, z>> \in R => <<x, z>> \in R
        BY <1>2, ColderOrder
    <2>2. \E c \in Rows : \A d \in Rows : <<d, c>> \notin R
        <3> HIDE DEF R
        <3> QED
            BY <1>2, <1>5, <2>1, Least
    <2>3. PICK c \in Rows : {d \in Rows : ColderThan(d, c)} = {}
        BY <2>2
    <2> QED
        BY <1>1, <1>3, <2>3, FS_EmptySet
<1> QED
    BY <1>1, <1>4, <1>5

(* The last of a page comes after the others.                              *)
LEMMA LastOfPage ==
    ASSUME NEW S, S \subseteq CandidateType, IsFiniteSet(S), DistinctIds(S), S # {}
    PROVE  LastOf(S) \in S /\ \A c \in S : c = LastOf(S) \/ ColderThan(c, LastOf(S))
<1> DEFINE R == {p \in S \X S : ColderThan(p[2], p[1])}
<1>1. /\ \A x \in S : <<x, x>> \notin R
      /\ \A x, y, z \in S : <<x, y>> \in R /\ <<y, z>> \in R => <<x, z>> \in R
    BY ColderOrder
<1>2. \E c \in S : \A d \in S : <<d, c>> \notin R
    <2> HIDE DEF R
    <2> QED
        BY <1>1, Least
<1>3. PICK c \in S : \A d \in S : ~ColderThan(c, d)
    BY <1>2
<1>4. \A d \in S : d = c \/ ColderThan(d, c)
    BY <1>3, ColderOrder DEF DistinctIds
<1> QED
    BY <1>4 DEF LastOf

(* What is taken of a page is the coldest of it, and covers the need if    *)
(* anything is left.                                                       *)
LEMMA Taking ==
    ASSUME NEW S, S \subseteq CandidateType, IsFiniteSet(S), DistinctIds(S), need \in Int
    PROVE  /\ Taken(S) \subseteq S
           /\ \A c \in Taken(S), d \in S : ColderThan(d, c) => d \in Taken(S)
           /\ Taken(S) # S => SizeOf(Taken(S)) >= need
<1> DEFINE P(c) == {d \in S : ColderThan(d, c)}
<1>1. \A T \in SUBSET S : SizeOf(T) \in Nat
    BY BytesFinite DEF SizeOf, CandidateType
<1>2. \A T, U \in SUBSET S : T \subseteq U => SizeOf(T) <= SizeOf(U)
    <2> SUFFICES ASSUME NEW T \in SUBSET S, NEW U \in SUBSET S, T \subseteq U
                 PROVE  SizeOf(T) <= SizeOf(U)
        OBVIOUS
    <2>1. {c.output : c \in T} \subseteq {c.output : c \in U} /\ {c.output : c \in U} \subseteq Outputs
        BY DEF CandidateType
    <2> QED
        BY <2>1, BytesMonotone DEF SizeOf
<1>3. ASSUME NEW c \in Taken(S), NEW d \in S, ColderThan(d, c) PROVE d \in Taken(S)
    <2>1. P(d) \subseteq P(c) /\ P(c) \in SUBSET S /\ P(d) \in SUBSET S
        BY <1>3, PredecessorsGrow DEF Taken
    <2>2. SizeOf(P(d)) <= SizeOf(P(c)) /\ SizeOf(P(d)) \in Nat /\ SizeOf(P(c)) \in Nat
        BY <1>1, <1>2, <2>1
    <2>3. SizeOf(P(c)) < need
        BY DEF Taken
    <2> QED
        BY <2>2, <2>3 DEF Taken
<1>4. ASSUME Taken(S) # S PROVE SizeOf(Taken(S)) >= need
    <2> DEFINE U == S \ Taken(S)
               R == {p \in U \X U : ColderThan(p[1], p[2])}
    <2>1. U # {} /\ U \subseteq S /\ IsFiniteSet(U)
        BY <1>4, FS_Subset DEF Taken
    <2>2. /\ \A x \in U : <<x, x>> \notin R
          /\ \A x, y, z \in U : <<x, y>> \in R /\ <<y, z>> \in R => <<x, z>> \in R
        BY ColderOrder
    <2>3. \E c \in U : \A d \in U : <<d, c>> \notin R
        <3> HIDE DEF R, U
        <3> QED
            BY <2>1, <2>2, Least
    <2>4. PICK c \in U : \A d \in U : ~ColderThan(d, c)
        BY <2>3
    <2>5. P(c) \subseteq Taken(S) /\ Taken(S) \subseteq S
        BY <2>4 DEF Taken
    <2>6. SizeOf(P(c)) >= need
        <3>1. ~(SizeOf(P(c)) < need)
            BY DEF Taken
        <3>2. SizeOf(P(c)) \in Int
            BY <1>1
        <3> QED
            BY <3>1, <3>2
    <2>7. SizeOf(P(c)) <= SizeOf(Taken(S)) /\ SizeOf(P(c)) \in Nat /\ SizeOf(Taken(S)) \in Nat
        BY <1>1, <1>2, <2>5
    <2> QED
        BY <2>6, <2>7
<1> QED
    BY <1>3, <1>4 DEF Taken
-----------------------------------------------------------------------------
(* The list of candidates.                                                 *)

(* A page adds what is taken of it at the end.                             *)
LEMMA Appended ==
    ASSUME TypeOK, NextPage
    PROVE  \E T \in SUBSET New(Page) :
             /\ T = Taken(New(Page)) /\ IsFiniteSet(T)
             /\ candidates' = candidates \o InOrder(T)
             /\ candidates' \in Seq(CandidateType)
             /\ Len(candidates') = Len(candidates) + Cardinality(T) /\ Cardinality(T) \in Nat
             /\ \A i \in DOMAIN candidates : i \in DOMAIN candidates' /\ candidates'[i] = candidates[i]
             /\ \A i \in DOMAIN candidates' \ DOMAIN candidates : candidates'[i] \in T
             /\ \A c \in T : \E i \in DOMAIN candidates' \ DOMAIN candidates : candidates'[i] = c
             /\ \A i, j \in DOMAIN candidates' \ DOMAIN candidates :
                    i < j => ColderThan(candidates'[i], candidates'[j])
             /\ need' = need - Bytes({c.output : c \in T})
             /\ pc' = IF Page # {} /\ need' > 0 THEN "page" ELSE "read"
             /\ cursor' = IF Page = {} THEN cursor ELSE Key(LastOf(Page))
<1> DEFINE N == New(Page)
           T == Taken(N)
           L == Len(candidates)
           q == InOrder(T)
<1>1. /\ N \subseteq Table /\ N \subseteq CandidateType /\ IsFiniteSet(N) /\ DistinctIds(N)
    BY Tables, Pages, FS_Subset DEF New, Rows, DistinctIds
<1>2. /\ T \subseteq N /\ T \subseteq CandidateType /\ IsFiniteSet(T) /\ DistinctIds(T)
    BY <1>1, FS_Subset DEF Taken, DistinctIds
<1>3. /\ candidates' = candidates \o q
      /\ need' = need - SizeOf(T)
      /\ pc' = IF Page # {} /\ need > SizeOf(T) THEN "page" ELSE "read"
      /\ cursor' = IF Page = {} THEN cursor ELSE Key(LastOf(Page))
    BY DEF NextPage
<1>4. SizeOf(T) = Bytes({c.output : c \in T}) /\ SizeOf(T) \in Nat
    BY <1>2, BytesFinite DEF SizeOf, CandidateType
<1>5. /\ q \in Seq(CandidateType)
      /\ Len(q) = Cardinality(T) /\ Cardinality(T) \in Nat
      /\ \A i \in 1..Cardinality(T) : q[i] \in T
      /\ \A c \in T : \E i \in 1..Cardinality(T) : q[i] = c
      /\ \A i, j \in 1..Cardinality(T) : i < j => ColderThan(q[i], q[j])
    BY <1>2, Listed, FS_CardinalityType
<1>6. candidates \in Seq(CandidateType) /\ L \in Nat /\ DOMAIN candidates = 1..L
    BY DEF TypeOK
<1>7. /\ candidates' \in Seq(CandidateType) /\ Len(candidates') = L + Len(q)
      /\ DOMAIN candidates' = 1..(L + Len(q))
      /\ \A i \in 1..L : candidates'[i] = candidates[i]
      /\ \A i \in 1..Len(q) : candidates'[L + i] = q[i]
    <2> HIDE DEF q, T, L
    <2>1. candidates' \in Seq(CandidateType)
        BY <1>3, <1>5, <1>6
    <2> USE DEF L
    <2>2. Len(candidates') = L + Len(q) /\ DOMAIN candidates' = 1..(L + Len(q))
        BY <1>3, <1>5, <1>6
    <2>3. ASSUME NEW i \in 1..L PROVE candidates'[i] = candidates[i]
        BY <1>3, <1>5, <1>6
    <2>4. ASSUME NEW i \in 1..Len(q) PROVE candidates'[L + i] = q[i]
        BY <1>3, <1>5, <1>6
    <2> QED
        BY <2>1, <2>2, <2>3, <2>4
<1>8. \A i \in DOMAIN candidates' \ DOMAIN candidates :
        i - L \in 1..Cardinality(T) /\ candidates'[i] = q[i - L]
    <2> HIDE DEF q, T, L
    <2> SUFFICES ASSUME NEW i \in DOMAIN candidates' \ DOMAIN candidates
                 PROVE  i - L \in 1..Cardinality(T) /\ candidates'[i] = q[i - L]
        OBVIOUS
    <2>1. i - L \in 1..Len(q) /\ i = L + (i - L)
        BY <1>5, <1>6, <1>7
    <2> QED
        BY <1>5, <1>7, <2>1
<1>9. \A i \in 1..Cardinality(T) : L + i \in DOMAIN candidates' \ DOMAIN candidates
    <2> HIDE DEF q, T, L
    <2> QED
        BY <1>5, <1>6, <1>7
<1>10. \A i, j \in DOMAIN candidates' \ DOMAIN candidates :
        i < j => ColderThan(candidates'[i], candidates'[j])
    <2> HIDE DEF q, T, L
    <2> SUFFICES ASSUME NEW i \in DOMAIN candidates' \ DOMAIN candidates,
                        NEW j \in DOMAIN candidates' \ DOMAIN candidates, i < j
                 PROVE  ColderThan(candidates'[i], candidates'[j])
        OBVIOUS
    <2>1. i - L < j - L
        BY <1>6, <1>7
    <2> QED
        BY <1>5, <1>8, <2>1
<1>11. \A c \in T : \E i \in DOMAIN candidates' \ DOMAIN candidates : candidates'[i] = c
    <2> HIDE DEF q, T, L
    <2> QED
        BY <1>5, <1>7, <1>9
<1>12. \A i \in DOMAIN candidates' \ DOMAIN candidates : candidates'[i] \in T
    <2> HIDE DEF q, T, L
    <2> QED
        BY <1>5, <1>8
<1>13. \A i \in DOMAIN candidates : i \in DOMAIN candidates' /\ candidates'[i] = candidates[i]
    <2> HIDE DEF q, T, L
    <2> QED
        BY <1>5, <1>6, <1>7
<1>14. need \in Int
    BY DEF TypeOK
<1>15. pc' = IF Page # {} /\ need' > 0 THEN "page" ELSE "read"
    <2> HIDE DEF q, T
    <2> QED
        BY <1>3, <1>4, <1>14
<1>16. Len(candidates') = Len(candidates) + Cardinality(T)
    <2> HIDE DEF q, T
    <2> QED
        BY <1>5, <1>7
<1> QED
    <2> HIDE DEF q, T, L
    <2>1. T \in SUBSET New(Page) /\ T = Taken(New(Page))
        BY <1>2 DEF T
    <2>2. candidates' = candidates \o InOrder(T)
        BY <1>3 DEF q
    <2> QED
        BY <2>1, <2>2, <1>2, <1>3, <1>4, <1>5, <1>7, <1>10, <1>11, <1>12, <1>13, <1>15, <1>16

(* Eviction takes candidates from the front.                               *)
LEMMA Popped ==
    ASSUME NEW s \in Seq(CandidateType), s # <<>>
    PROVE  /\ Tail(s) \in Seq(CandidateType) /\ Tail(s) # s
           /\ Head(s) = s[1] /\ 1 \in DOMAIN s /\ s[1] \in CandidateType
           /\ \A i \in DOMAIN Tail(s) : i + 1 \in DOMAIN s /\ i + 1 # 1 /\ Tail(s)[i] = s[i + 1]
           /\ \A i \in DOMAIN s : i = 1 \/ (i - 1 \in DOMAIN Tail(s) /\ Tail(s)[i - 1] = s[i])
<1>1. Len(s) \in Nat /\ Len(s) > 0 /\ DOMAIN s = 1..Len(s)
    OBVIOUS
<1>2. Tail(s) \in Seq(CandidateType) /\ Len(Tail(s)) = Len(s) - 1 /\ DOMAIN Tail(s) = 1..(Len(s) - 1)
    BY <1>1
<1>3. \A i \in 1..(Len(s) - 1) : Tail(s)[i] = s[i + 1]
    BY <1>1
<1>4. Tail(s) # s
    <2>1. \A n \in Nat : n - 1 # n
        OBVIOUS
    <2>2. Len(Tail(s)) # Len(s)
        BY <1>1, <1>2, <2>1, Zenon
    <2> QED
        BY <2>2, Zenon
<1>5. Head(s) = s[1] /\ 1 \in DOMAIN s /\ s[1] \in CandidateType
    BY <1>1
<1>6. ASSUME NEW i \in DOMAIN Tail(s)
      PROVE  i + 1 \in DOMAIN s /\ i + 1 # 1 /\ Tail(s)[i] = s[i + 1]
    BY <1>1, <1>2, <1>3
<1>7. ASSUME NEW i \in DOMAIN s, i # 1
      PROVE  i - 1 \in DOMAIN Tail(s) /\ Tail(s)[i - 1] = s[i]
    <2>1. i - 1 \in 1..(Len(s) - 1) /\ (i - 1) + 1 = i
        BY <1>1, <1>7
    <2> QED
        BY <1>2, <1>3, <2>1
<1> QED
    BY <1>2, <1>4, <1>5, <1>6, <1>7
-----------------------------------------------------------------------------
(* Typing.                                                                 *)

LEMMA Greatest ==
    ASSUME NEW S, S \subseteq Nat, IsFiniteSet(S), S # {}
    PROVE  Max(S) \in S /\ \A x \in S : Max(S) >= x
<1> DEFINE R == {p \in S \X S : p[1] > p[2]}
<1>1. /\ \A x \in S : <<x, x>> \notin R
      /\ \A x, y, z \in S : <<x, y>> \in R /\ <<y, z>> \in R => <<x, z>> \in R
    OBVIOUS
<1>2. \E x \in S : \A y \in S : <<y, x>> \notin R
    <2> HIDE DEF R
    <2> QED
        BY <1>1, Least
<1>3. PICK x \in S : \A y \in S : ~(y > x)
    BY <1>2
<1>4. \A y \in S : x >= y
    BY <1>3
<1> QED
    BY <1>4 DEF Max

LEMMA TypeOfPage ==
    ASSUME TypeOK, NextPage
    PROVE  TypeOK'
<1>1. PICK T \in SUBSET New(Page) :
        /\ candidates' \in Seq(CandidateType)
        /\ Cardinality(T) \in Nat
        /\ \A i \in DOMAIN candidates : i \in DOMAIN candidates' /\ candidates'[i] = candidates[i]
        /\ \A i \in DOMAIN candidates' \ DOMAIN candidates : candidates'[i] \in T
        /\ \A i, j \in DOMAIN candidates' \ DOMAIN candidates :
                i < j => ColderThan(candidates'[i], candidates'[j])
        /\ need' = need - Bytes({c.output : c \in T})
        /\ pc' = IF Page # {} /\ need' > 0 THEN "page" ELSE "read"
        /\ cursor' = IF Page = {} THEN cursor ELSE Key(LastOf(Page))
    BY Appended
<1>2. New(Page) \subseteq Table /\ Page \subseteq Table
    BY Pages DEF New, Rows
<1>3. /\ Table \subseteq CandidateType /\ IsFiniteSet(Page) /\ DistinctIds(Page)
      /\ \A c \in Table : c.output \in Present /\ c = Candidate(c.output)
    BY <1>2, Tables, FS_Subset DEF DistinctIds
<1>4. need' \in Int
    BY <1>1, <1>2, <1>3, BytesFinite DEF TypeOK, Present
<1>5. cursor' \in Keys
    BY <1>1, <1>2, <1>3, LastOfPage, CandidateKey DEF TypeOK, Keys
<1>6. ASSUME NEW i \in DOMAIN candidates', NEW j \in DOMAIN candidates',
             candidates'[i].output = candidates'[j].output
      PROVE  i = j
    <2>1. CASE i \in DOMAIN candidates /\ j \in DOMAIN candidates
        BY <1>1, <1>6, <2>1 DEF TypeOK
    <2>2. CASE i \notin DOMAIN candidates /\ j \notin DOMAIN candidates
        <3>1. candidates'[i] \in T /\ candidates'[j] \in T
            BY <1>1, <2>2
        <3>2. candidates'[i] = candidates'[j]
            BY <1>2, <1>3, <1>6, <3>1
        <3>3. ~(i < j) /\ ~(j < i)
            BY <1>1, <1>2, <1>3, <2>2, <3>1, <3>2, ColderOrder
        <3>4. i \in Nat /\ j \in Nat
            BY <1>1
        <3> QED
            BY <3>3, <3>4
    <2>3. ASSUME NEW k \in DOMAIN candidates, NEW l \in DOMAIN candidates' \ DOMAIN candidates
          PROVE  candidates'[k].output # candidates'[l].output
        <3>1. candidates'[l] \in T /\ candidates'[k] = candidates[k]
            BY <1>1
        <3>2. candidates'[l].output \notin Seen /\ candidates[k].output \in Seen
            BY <3>1 DEF New, Seen
        <3> QED
            BY <3>1, <3>2
    <2> QED
        BY <1>6, <2>1, <2>2, <2>3
<1> QED
    BY <1>1, <1>4, <1>5, <1>6 DEF NextPage, TypeOK, tables, expiry, history, Keys, PassSteps, Over,
       Present

(* Rows that go, or stay under their ids, leave the ids in order.          *)
LEMMA IdsStay ==
    ASSUME TypeOK, nextId' = nextId, Present' \subseteq Present,
           \A o \in Present' : output'[o].id = output[o].id
    PROVE  /\ \A o \in Present' : output'[o].id < nextId'
           /\ \A o, x \in Present' : output'[o].id = output'[x].id => o = x
BY DEF TypeOK

LEMMA TypeOfEvict ==
    ASSUME TypeOK, EvictNext
    PROVE  TypeOK'
<1>1. CASE candidates = <<>> \/ total <= MaxSize
    <2>1. /\ UNCHANGED <<oldEntries, output, nextId, picked, keyCursor, batches, need, cursor,
                         total, disturbed, created, drift>>
          /\ pc' = "done" /\ candidates' = <<>>
        BY <1>1 DEF EvictNext, expiry, history
    <2>2. Present' = Present
        BY <2>1 DEF Present
    <2>3. candidates' \in Seq(CandidateType) /\ DOMAIN candidates' = {}
        BY <2>1
    <2> QED
        BY <2>1, <2>2, <2>3, IdsStay DEF TypeOK, Over
<1>2. CASE ~(candidates = <<>> \/ total <= MaxSize)
    <2> DEFINE c == Head(candidates)
    <2>1. /\ output' = IF StillCold(c) THEN [output EXCEPT ![c.output] = NoRow] ELSE output
          /\ total' = total - Credit(c)
          /\ candidates' = Tail(candidates)
          /\ UNCHANGED <<oldEntries, nextId, pc, expiry, need, cursor, history>>
        BY <1>2 DEF EvictNext
    <2>2. /\ candidates' \in Seq(CandidateType) /\ c \in CandidateType
          /\ \A i \in DOMAIN candidates' :
                i + 1 \in DOMAIN candidates /\ candidates'[i] = candidates[i + 1]
        BY <1>2, <2>1, Popped DEF TypeOK
    <2>3. \A i, j \in DOMAIN candidates' :
            candidates'[i].output = candidates'[j].output => i = j
        <3>1. DOMAIN candidates' \subseteq Nat
            BY <2>2
        <3>2. ASSUME NEW i \in DOMAIN candidates', NEW j \in DOMAIN candidates',
                     candidates'[i].output = candidates'[j].output
              PROVE  i + 1 = j + 1
            BY <2>2, <3>2 DEF TypeOK
        <3> QED
            BY <3>1, <3>2
    <2>4. Credit(c) \in Nat
        BY <2>2 DEF Credit, CandidateType
    <2>5. output' \in [Outputs -> {NoRow} \cup [at : Times, id : Nat]]
        BY <2>1 DEF TypeOK
    <2>6. Present' \subseteq Present /\ \A o \in Present' : output'[o] = output[o]
        BY <2>1, <2>2 DEF Present, TypeOK, CandidateType
    <2>7. total' \in Int
        BY <2>1, <2>4 DEF TypeOK
    <2>8. UNCHANGED <<oldEntries, nextId, pc, picked, keyCursor, batches, need, cursor,
                      disturbed, created, drift>>
        BY <2>1 DEF expiry, history
    <2> HIDE DEF c
    <2> QED
        BY <2>2, <2>3, <2>5, <2>6, <2>7, <2>8, IdsStay DEF TypeOK
<1> QED
    BY <1>1, <1>2

LEMMA TypeOfBuilds ==
    ASSUME TypeOK, Builds
    PROVE  TypeOK'
<1> USE CatalogPassAssumption DEF CatalogPassAssumption, expiry, plan
<1>1. ASSUME NEW a \in Actions, TouchEntry(a) PROVE TypeOK'
    BY <1>1 DEF TouchEntry, TypeOK, Present
<1>2. ASSUME NEW o \in Outputs, TouchOutput(o) PROVE TypeOK'
    <2>1. PICK t \in Times : output' = [output EXCEPT ![o].at = t]
        BY <1>2 DEF TouchOutput
    <2>2. o \in Present
        BY <1>2 DEF TouchOutput
    <2>3. output[o] \in [at : Times, id : Nat]
        BY <2>2 DEF TypeOK, Present
    <2>4. /\ output'[o] = [at |-> t, id |-> output[o].id]
          /\ \A x \in Outputs : x # o => output'[x] = output[x]
        BY <2>1, <2>3 DEF TypeOK
    <2>5. output' \in [Outputs -> {NoRow} \cup [at : Times, id : Nat]]
        BY <2>1, <2>3, <2>4 DEF TypeOK
    <2>6. Present' \subseteq Present /\ \A x \in Present' : output'[x].id = output[x].id
        BY <2>2, <2>4 DEF Present
    <2>7. /\ UNCHANGED <<oldEntries, nextId, pc, picked, keyCursor, batches, need, cursor,
                         candidates, total, created, drift>>
          /\ disturbed' = disturbed \cup {o}
        BY <1>2 DEF TouchOutput
    <2> QED
        BY <2>5, <2>6, <2>7, IdsStay DEF TypeOK
<1>3. ASSUME NEW o \in Outputs, PutOutput(o) PROVE TypeOK'
    <2>1. PICK t \in Times : output' = [output EXCEPT ![o] = [at |-> t, id |-> nextId]]
        BY <1>3 DEF PutOutput
    <2>2. /\ output' \in [Outputs -> {NoRow} \cup [at : Times, id : Nat]]
          /\ Present' = Present \cup {o} /\ output'[o].id = nextId
          /\ \A x \in Outputs : x # o => output'[x] = output[x]
        <3>1. output'[o] = [at |-> t, id |-> nextId] /\ output'[o] # NoRow
            BY <2>1 DEF TypeOK, Times, NoRow
        <3>2. \A x \in Outputs : x # o => output'[x] = output[x]
            BY <2>1 DEF TypeOK
        <3>3. output' \in [Outputs -> {NoRow} \cup [at : Times, id : Nat]]
            BY <2>1 DEF TypeOK
        <3>4. Present' = Present \cup {o}
            BY <3>1, <3>2 DEF Present
        <3> QED
            BY <3>1, <3>2, <3>3, <3>4
    <2>3. Size[o] \in Nat /\ nextId \in Nat /\ nextId' = nextId + 1 /\ nextId' \in 1..(MaxId + 1)
        BY <1>3 DEF PutOutput, TypeOK
    <2>4. \A x \in Present' : output'[x].id < nextId'
        <3>1. \A x \in Present : output[x].id < nextId /\ output[x].id \in Nat
            BY DEF TypeOK, Present
        <3>2. \A x \in Present' : x = o \/ (x \in Present /\ output'[x] = output[x])
            BY <2>2 DEF Present
        <3> QED
            BY <2>2, <2>3, <3>1, <3>2
    <2>5. \A x, y \in Present' : output'[x].id = output'[y].id => x = y
        <3>1. \A x \in Present : output[x].id < nextId /\ output[x].id # nextId
            BY <2>3 DEF TypeOK, Present
        <3>2. \A x \in Present' : x = o \/ (x \in Present /\ output'[x] = output[x])
            BY <2>2 DEF Present
        <3> QED
            BY <2>2, <3>1, <3>2 DEF TypeOK
    <2>6. drift' \in Int
        BY <1>3, <2>3 DEF PutOutput, TypeOK
    <2>7. /\ UNCHANGED <<oldEntries, pc, picked, keyCursor, batches, need, cursor,
                         candidates, total>>
          /\ disturbed' = disturbed \cup {o} /\ created' = created \cup {o}
        BY <1>3 DEF PutOutput
    <2>8. output' \in [Outputs -> {NoRow} \cup [at : Times, id : Nat]]
        BY <2>2
    <2>9. nextId' \in 1..(MaxId + 1)
        BY <2>3
    <2> HIDE CatalogPassAssumption
    <2> QED
        BY <2>4, <2>5, <2>6, <2>7, <2>8, <2>9 DEF TypeOK
<1>4. ASSUME NEW o \in Outputs, DropOutput(o) PROVE TypeOK'
    <2>1. output' \in [Outputs -> {NoRow} \cup [at : Times, id : Nat]]
        BY <1>4 DEF DropOutput, TypeOK
    <2>2. Present' = Present \ {o} /\ \A x \in Present' : output'[x] = output[x]
        BY <1>4 DEF DropOutput, TypeOK, Present
    <2>3. drift' \in Int
        BY <1>4 DEF DropOutput, TypeOK
    <2>4. /\ UNCHANGED <<oldEntries, nextId, pc, picked, keyCursor, batches, need, cursor,
                         candidates, total, created>>
          /\ disturbed' = disturbed \cup {o}
        BY <1>4 DEF DropOutput
    <2> QED
        BY <2>1, <2>2, <2>3, <2>4, IdsStay DEF TypeOK
<1> QED
    BY <1>1, <1>2, <1>3, <1>4 DEF Builds

LEMMA TypeStep == TypeOK /\ EntriesAhead /\ [Next]_vars => TypeOK'
<1> SUFFICES ASSUME TypeOK, EntriesAhead, [Next]_vars PROVE TypeOK'
    OBVIOUS
<1> USE CatalogPassAssumption DEF CatalogPassAssumption, tables, expiry, plan, history,
        PassSteps, Over
<1>1. ASSUME PickEntries PROVE TypeOK'
    <2>1. NextEntries \subseteq Actions
        BY DEF NextEntries, OldAfterCursor, TypeOK
    <2> QED
        BY <1>1, <2>1 DEF PickEntries, TypeOK, Present
<1>2. ASSUME ExpireEntries PROVE TypeOK'
    <2>1. IsFiniteSet(picked) /\ picked \subseteq Nat /\ picked # {} /\ picked \subseteq Actions
        BY <1>2, FS_Subset DEF ExpireEntries, EntriesAhead
    <2>2. Max(picked) \in Actions
        BY <2>1, Greatest
    <2> QED
        BY <1>2, <2>2 DEF ExpireEntries, TypeOK, Present
<1>3. ASSUME PickOutputs PROVE TypeOK'
    <2>1. picked' \subseteq Outputs /\ pc' \in PassSteps
        BY <1>3 DEF PickOutputs, StaleOutputs, Present
    <2> QED
        BY <1>3, <2>1 DEF PickOutputs, TypeOK, Present
<1>4. ASSUME ExpireOutputs PROVE TypeOK'
    <2>1. output' \in [Outputs -> {NoRow} \cup [at : Times, id : Nat]]
        BY <1>4 DEF ExpireOutputs, TypeOK
    <2>2. Present' \subseteq Present /\ \A o \in Present' : output'[o] = output[o]
        BY <1>4 DEF ExpireOutputs, Present
    <2>3. batches' \in 0..AgeMaxBatches /\ pc' \in PassSteps
        BY <1>4 DEF ExpireOutputs, TypeOK
    <2>4. /\ UNCHANGED <<oldEntries, nextId, keyCursor, need, cursor, candidates, total,
                         disturbed, created, drift>>
          /\ picked' = {}
        BY <1>4 DEF ExpireOutputs
    <2> QED
        BY <2>1, <2>2, <2>3, <2>4, IdsStay DEF TypeOK
<1>5. ASSUME PlanEviction PROVE TypeOK'
    <2>1. Bytes(Present) \in Nat
        BY BytesFinite DEF Present
    <2>2. need' \in Int /\ cursor' \in Int \X Int \X Int /\ pc' \in PassSteps \cup Over
        BY <1>5, <2>1 DEF PlanEviction, TypeOK
    <2> QED
        BY <1>5, <2>2 DEF PlanEviction, TypeOK, Present
<1>6. ASSUME ReadSize PROVE TypeOK'
    <2>1. Bytes(Present) \in Nat
        BY BytesFinite DEF Present
    <2> QED
        BY <1>6, <2>1 DEF ReadSize, TypeOK, Present
<1>7. ASSUME Fail \/ UNCHANGED vars PROVE TypeOK'
    <2>1. /\ UNCHANGED <<oldEntries, output, nextId, picked, keyCursor, batches, need, cursor,
                         candidates, total, disturbed, created, drift>>
          /\ pc' \in PassSteps \cup Over
        BY <1>7 DEF Fail, vars, TypeOK
    <2>2. Present' = Present
        BY <2>1 DEF Present
    <2> HIDE CatalogPassAssumption DEF PassSteps, Over
    <2> QED
        BY <2>1, <2>2, IdsStay DEF TypeOK
<1>8. ASSUME NextPage \/ EvictNext \/ Builds PROVE TypeOK'
    BY <1>8, TypeOfPage, TypeOfEvict, TypeOfBuilds
<1> HIDE DEF tables, expiry, plan, history, PassSteps, Over
<1> QED
    BY <1>1, <1>2, <1>3, <1>4, <1>5, <1>6, <1>7, <1>8 DEF Next, Pass
-----------------------------------------------------------------------------
(* Expiry of entries.                                                      *)

(* A batch is the least keys after the cursor, and empty only if there are *)
(* none.                                                                   *)
LEMMA Batches ==
    ASSUME TypeOK
    PROVE  /\ NextEntries \subseteq OldAfterCursor /\ OldAfterCursor \subseteq Nat
           /\ \A a \in NextEntries, b \in OldAfterCursor : b < a => b \in NextEntries
           /\ OldAfterCursor # {} => NextEntries # {}
<1> DEFINE S == OldAfterCursor
           Before(a) == {b \in S : b < a}
           R == {p \in S \X S : p[1] < p[2]}
<1>1. S \subseteq Nat /\ IsFiniteSet(S) /\ AgeBatch \in Nat \ {0}
    BY CatalogPassAssumption, FS_Subset DEF CatalogPassAssumption, TypeOK, OldAfterCursor
<1>2. NextEntries = {a \in S : Cardinality(Before(a)) < AgeBatch}
    BY DEF NextEntries
<1> HIDE DEF S
<1>3. ASSUME NEW a \in NextEntries, NEW b \in S, b < a PROVE b \in NextEntries
    <2>1. a \in S /\ Cardinality(Before(a)) < AgeBatch
        BY <1>2
    <2>2. Before(b) \subseteq Before(a)
        <3>1. a \in Nat /\ b \in Nat /\ b < a
            BY <1>1, <1>3, <2>1
        <3>2. \A y \in S : y < b => y < a
            BY <1>1, <3>1
        <3> QED
            BY <3>2
    <2>3. IsFiniteSet(Before(a)) /\ IsFiniteSet(Before(b))
        BY <1>1, FS_Subset
    <2>4. /\ Cardinality(Before(b)) <= Cardinality(Before(a))
          /\ Cardinality(Before(a)) \in Nat /\ Cardinality(Before(b)) \in Nat
        BY <2>2, <2>3, FS_Subset, FS_CardinalityType
    <2> HIDE DEF Before
    <2> QED
        BY <1>1, <1>2, <2>1, <2>4
<1>4. ASSUME S # {} PROVE NextEntries # {}
    <2>1. /\ \A x \in S : <<x, x>> \notin R
          /\ \A x, y, z \in S : <<x, y>> \in R /\ <<y, z>> \in R => <<x, z>> \in R
        BY <1>1
    <2>2. \E x \in S : Cardinality({y \in S : <<y, x>> \in R}) < AgeBatch
        <3> HIDE DEF R
        <3> QED
            BY <1>1, <1>4, <2>1, FirstOnes
    <2>3. \A x \in S : {y \in S : <<y, x>> \in R} = Before(x)
        OBVIOUS
    <2> HIDE DEF R, Before
    <2> QED
        BY <1>2, <2>2, <2>3
<1> QED
    BY <1>1, <1>2, <1>3, <1>4 DEF S

LEMMA EntriesStep == TypeOK /\ EntriesAhead /\ [Next]_vars => EntriesAhead'
<1> SUFFICES ASSUME TypeOK, EntriesAhead, [Next]_vars PROVE EntriesAhead'
    OBVIOUS
<1> USE DEF tables, expiry, plan, history
<1>1. ASSUME PickEntries PROVE EntriesAhead'
    <2>1. CASE NextEntries = {}
        BY <1>1, <2>1 DEF PickEntries, EntriesAhead
    <2>2. CASE NextEntries # {}
        <3>1. /\ pc = "entries" /\ picked' = NextEntries /\ pc' = "expireEntries"
              /\ UNCHANGED <<oldEntries, keyCursor, disturbed>>
            BY <1>1, <2>2 DEF PickEntries
        <3>2. \A a \in oldEntries \ disturbed : a > keyCursor
            BY <3>1 DEF EntriesAhead
        <3>3. oldEntries \ disturbed \subseteq OldAfterCursor
            BY <3>2 DEF OldAfterCursor
        <3>4. ASSUME NEW a \in (oldEntries \ disturbed) \ NextEntries, NEW b \in NextEntries
              PROVE  a > b
            <4>1. a \in OldAfterCursor /\ a \in Nat /\ b \in Nat /\ ~(a < b) /\ a # b
                BY <3>3, Batches
            <4> QED
                BY <4>1
        <3>5. NextEntries \subseteq Actions
            BY Batches DEF OldAfterCursor, TypeOK
        <3> QED
            BY <2>2, <3>1, <3>2, <3>4, <3>5 DEF EntriesAhead
    <2> QED
        BY <2>1, <2>2
<1>2. ASSUME ExpireEntries PROVE EntriesAhead'
    <2>1. IsFiniteSet(picked) /\ picked \subseteq Nat /\ picked # {}
        BY <1>2, CatalogPassAssumption, FS_Subset
        DEF ExpireEntries, EntriesAhead, CatalogPassAssumption
    <2>2. Max(picked) \in picked
        BY <2>1, Greatest
    <2> QED
        BY <1>2, <2>2 DEF ExpireEntries, EntriesAhead
<1>3. ASSUME NEW a \in Actions, TouchEntry(a) PROVE EntriesAhead'
    <2>1. oldEntries' \ disturbed' \subseteq oldEntries \ disturbed
        BY <1>3 DEF TouchEntry
    <2> QED
        BY <1>3, <2>1 DEF TouchEntry, EntriesAhead
<1>4. ASSUME NEW o \in Outputs, TouchOutput(o) \/ PutOutput(o) \/ DropOutput(o)
      PROVE  EntriesAhead'
    BY <1>4 DEF TouchOutput, PutOutput, DropOutput, ReadsOutputs, PassSteps, EntriesAhead
<1>5. ASSUME PickOutputs \/ ExpireOutputs \/ PlanEviction \/ NextPage \/ ReadSize \/ EvictNext
      PROVE  EntriesAhead'
    BY <1>5 DEF PickOutputs, ExpireOutputs, PlanEviction, NextPage, ReadSize, EvictNext,
       EntriesAhead
<1>6. ASSUME Fail \/ UNCHANGED vars PROVE EntriesAhead'
    BY <1>6 DEF Fail, vars, EntriesAhead
<1> QED
    BY <1>1, <1>2, <1>3, <1>4, <1>5, <1>6 DEF Next, Pass, Builds
-----------------------------------------------------------------------------
(* What one step leaves of the plan.                                       *)

(* The table as the plan knows it: rows no build changed stay as they were *)
(* or go, and none comes.                                                  *)
PlanStands ==
    /\ disturbed \subseteq disturbed' /\ created \subseteq created'
    /\ Present' \ disturbed' \subseteq Present \ disturbed
    /\ \A o \in Present' \ disturbed' : output'[o] = output[o]
    /\ Present' \ created' \subseteq Present \ created

LEMMA Standing ==
    ASSUME PlanStands
    PROVE  /\ Evictable' \subseteq Evictable
           /\ \A o \in Evictable' : Candidate(o)' = Candidate(o)
BY DEF PlanStands, Evictable, Candidate

LEMMA BuildsStand ==
    ASSUME TypeOK, Builds
    PROVE  /\ PlanStands
           /\ created \subseteq disturbed => created' \subseteq disturbed'
           /\ UNCHANGED <<pc, picked, keyCursor, batches, need, cursor, candidates, total>>
<1> USE DEF expiry, plan, PlanStands
<1>1. ASSUME NEW a \in Actions, TouchEntry(a)
      PROVE  /\ PlanStands
             /\ created \subseteq disturbed => created' \subseteq disturbed'
             /\ UNCHANGED <<pc, picked, keyCursor, batches, need, cursor, candidates, total>>
    <2>1. Present' = Present
        BY <1>1 DEF TouchEntry, Present
    <2> QED
        BY <1>1, <2>1 DEF TouchEntry
<1>2. ASSUME NEW o \in Outputs, TouchOutput(o)
      PROVE  /\ PlanStands
             /\ created \subseteq disturbed => created' \subseteq disturbed'
             /\ UNCHANGED <<pc, picked, keyCursor, batches, need, cursor, candidates, total>>
    <2>1. \A x \in Outputs : x # o => output'[x] = output[x]
        BY <1>2 DEF TouchOutput, TypeOK
    <2>2. Present' \subseteq Present
        BY <1>2, <2>1 DEF TouchOutput, Present
    <2>3. disturbed' = disturbed \cup {o} /\ created' = created
        BY <1>2 DEF TouchOutput
    <2>4. \A x \in Present' \ disturbed' : x \in Outputs /\ x # o
        BY <2>3 DEF Present
    <2> QED
        BY <1>2, <2>1, <2>2, <2>3, <2>4 DEF TouchOutput
<1>3. ASSUME NEW o \in Outputs, PutOutput(o)
      PROVE  /\ PlanStands
             /\ created \subseteq disturbed => created' \subseteq disturbed'
             /\ UNCHANGED <<pc, picked, keyCursor, batches, need, cursor, candidates, total>>
    <2>1. \A x \in Outputs : x # o => output'[x] = output[x]
        BY <1>3 DEF PutOutput, TypeOK
    <2>2. Present' \subseteq Present \cup {o}
        BY <2>1 DEF Present
    <2>3. disturbed' = disturbed \cup {o} /\ created' = created \cup {o}
        BY <1>3 DEF PutOutput
    <2>4. \A x \in Present' \ disturbed' : x \in Outputs /\ x # o
        BY <2>3 DEF Present
    <2> QED
        BY <1>3, <2>1, <2>2, <2>3, <2>4 DEF PutOutput
<1>4. ASSUME NEW o \in Outputs, DropOutput(o)
      PROVE  /\ PlanStands
             /\ created \subseteq disturbed => created' \subseteq disturbed'
             /\ UNCHANGED <<pc, picked, keyCursor, batches, need, cursor, candidates, total>>
    <2>1. \A x \in Outputs : x # o => output'[x] = output[x]
        BY <1>4 DEF DropOutput, TypeOK
    <2>2. Present' \subseteq Present
        BY <1>4, <2>1 DEF DropOutput, Present
    <2>3. disturbed' = disturbed \cup {o} /\ created' = created
        BY <1>4 DEF DropOutput
    <2>4. \A x \in Present' \ disturbed' : x \in Outputs /\ x # o
        BY <2>3 DEF Present
    <2> QED
        BY <1>4, <2>1, <2>2, <2>3, <2>4 DEF DropOutput
<1> QED
    BY <1>1, <1>2, <1>3, <1>4 DEF Builds

(* Before there is a plan, and after, there is nothing to keep.            *)
LEMMA Outside ==
    ASSUME TypeOK, CandidatesTrue,
           PickEntries \/ ExpireEntries \/ PickOutputs \/ ExpireOutputs
    PROVE  /\ candidates' = <<>> /\ DOMAIN candidates' = {}
           /\ pc' \in PassSteps \ Planning /\ pc' # "done" /\ drift' = drift
           /\ pc \in PassSteps \ Planning
<1>1. pc \in PassSteps \ Planning /\ pc' \in PassSteps \ Planning
    BY DEF PickEntries, ExpireEntries, PickOutputs, ExpireOutputs, PassSteps, Planning
<1>2. candidates' = candidates /\ drift' = drift
    BY DEF PickEntries, ExpireEntries, PickOutputs, ExpireOutputs, plan, history
<1>3. candidates = <<>>
    BY <1>1 DEF CandidatesTrue
<1> QED
    BY <1>1, <1>2, <1>3 DEF PassSteps

(* An eviction takes the first candidate from the list, and its row too if *)
(* it is as cold as it was.                                                *)
Pop ==
    /\ pc = "evict" /\ pc' = "evict"
    /\ candidates # <<>> /\ total > MaxSize
    /\ candidates' = Tail(candidates)
    /\ total' = total - Credit(candidates[1])
    /\ output' = IF StillCold(candidates[1])
                 THEN [output EXCEPT ![candidates[1].output] = NoRow] ELSE output
    /\ UNCHANGED <<disturbed, created, drift>>

LEMMA Evicting ==
    ASSUME TypeOK, EvictNext
    PROVE  \/ /\ pc' = "done" /\ candidates' = <<>> /\ DOMAIN candidates' = {}
              /\ candidates = <<>> \/ total <= MaxSize
              /\ UNCHANGED <<output, total, disturbed, created, drift>>
           \/ Pop
<1>1. CASE candidates = <<>> \/ total <= MaxSize
    BY <1>1 DEF EvictNext, history
<1>2. CASE ~(candidates = <<>> \/ total <= MaxSize)
    <2>1. Head(candidates) = candidates[1]
        BY <1>2, Popped DEF TypeOK
    <2>2. total > MaxSize
        BY <1>2, CatalogPassAssumption DEF TypeOK, CatalogPassAssumption
    <2> QED
        BY <1>2, <2>1, <2>2 DEF EvictNext, Pop, history
<1> QED
    BY <1>1, <1>2

LEMMA PopStands ==
    ASSUME TypeOK, Pop
    PROVE  /\ PlanStands
           /\ candidates[1] \in CandidateType /\ 1 \in DOMAIN candidates
           /\ Present' = IF StillCold(candidates[1])
                         THEN Present \ {candidates[1].output} ELSE Present
           /\ \A o \in Present' : output'[o] = output[o]
           /\ \A i \in DOMAIN candidates' :
                i + 1 \in DOMAIN candidates /\ i + 1 # 1 /\ candidates'[i] = candidates[i + 1]
           /\ Seen' = Seen \ {candidates[1].output}
           /\ candidates[1].output \in Seen
<1> DEFINE c == candidates[1]
<1>1. /\ c \in CandidateType /\ 1 \in DOMAIN candidates
      /\ \A i \in DOMAIN candidates' :
            i + 1 \in DOMAIN candidates /\ i + 1 # 1 /\ candidates'[i] = candidates[i + 1]
      /\ \A i \in DOMAIN candidates :
            i = 1 \/ (i - 1 \in DOMAIN candidates' /\ candidates'[i - 1] = candidates[i])
    BY Popped DEF TypeOK, Pop
<1>2. c.output \in Outputs
    BY <1>1 DEF CandidateType
<1>3. \A o \in Outputs : o # c.output => output'[o] = output[o]
    BY DEF Pop, TypeOK
<1>4. Present' = IF StillCold(c) THEN Present \ {c.output} ELSE Present
    <2>1. CASE StillCold(c)
        <3>1. output'[c.output] = NoRow
            BY <1>2, <2>1 DEF Pop, TypeOK
        <3> QED
            BY <1>3, <2>1, <3>1 DEF Present
    <2>2. CASE ~StillCold(c)
        BY <2>2 DEF Pop, Present
    <2> QED
        BY <2>1, <2>2
<1>5. \A o \in Present' : output'[o] = output[o]
    BY <1>3, <1>4 DEF Pop, Present
<1>6. Seen' = Seen \ {c.output}
    <2>1. \A i \in DOMAIN candidates : candidates[i].output = c.output => i = 1
        BY <1>1 DEF TypeOK
    <2>2. ASSUME NEW o \in Seen' PROVE o \in Seen \ {c.output}
        <3>1. PICK i \in DOMAIN candidates' : o = candidates'[i].output
            BY DEF Seen
        <3> QED
            BY <1>1, <2>1, <3>1 DEF Seen
    <2>3. ASSUME NEW o \in Seen \ {c.output} PROVE o \in Seen'
        <3>1. PICK i \in DOMAIN candidates : o = candidates[i].output
            BY DEF Seen
        <3> QED
            BY <1>1, <3>1 DEF Seen
    <2> QED
        BY <2>2, <2>3
<1>7. PlanStands
    BY <1>4, <1>5 DEF PlanStands, Pop
<1> QED
    BY <1>1, <1>4, <1>5, <1>6, <1>7 DEF Seen
-----------------------------------------------------------------------------
(* The plan: what is listed, and in which order.                           *)

(* What a page adds to the plan.                                           *)
LEMMA PageStep ==
    ASSUME TypeOK, NextPage
    PROVE  \E T \in SUBSET New(Page) :
             /\ T = Taken(New(Page)) /\ T \subseteq Table
             /\ \A i \in DOMAIN candidates : i \in DOMAIN candidates' /\ candidates'[i] = candidates[i]
             /\ \A i \in DOMAIN candidates' \ DOMAIN candidates : candidates'[i] \in T
             /\ \A i, j \in DOMAIN candidates' \ DOMAIN candidates :
                    i < j => ColderThan(candidates'[i], candidates'[j])
             /\ \A i \in DOMAIN candidates, j \in DOMAIN candidates' \ DOMAIN candidates : i < j
             /\ Seen' = Seen \cup {c.output : c \in T}
             /\ need' = need - Bytes({c.output : c \in T}) /\ Bytes({c.output : c \in T}) \in Nat
             /\ Taken(New(Page)) # New(Page) => need' <= 0
             /\ pc' = IF Page # {} /\ need' > 0 THEN "page" ELSE "read"
             /\ cursor' = IF Page = {} THEN cursor ELSE Key(LastOf(Page))
             /\ UNCHANGED <<output, disturbed, created, drift, total>>
<1>1. PICK T \in SUBSET New(Page) :
        /\ T = Taken(New(Page)) /\ IsFiniteSet(T)
        /\ candidates' \in Seq(CandidateType)
        /\ Len(candidates') = Len(candidates) + Cardinality(T) /\ Cardinality(T) \in Nat
        /\ \A i \in DOMAIN candidates : i \in DOMAIN candidates' /\ candidates'[i] = candidates[i]
        /\ \A i \in DOMAIN candidates' \ DOMAIN candidates : candidates'[i] \in T
        /\ \A c \in T : \E i \in DOMAIN candidates' \ DOMAIN candidates : candidates'[i] = c
        /\ \A i, j \in DOMAIN candidates' \ DOMAIN candidates :
                i < j => ColderThan(candidates'[i], candidates'[j])
        /\ need' = need - Bytes({c.output : c \in T})
        /\ pc' = IF Page # {} /\ need' > 0 THEN "page" ELSE "read"
        /\ cursor' = IF Page = {} THEN cursor ELSE Key(LastOf(Page))
    BY Appended
<1>2. /\ New(Page) \subseteq Table /\ Table \subseteq CandidateType
      /\ IsFiniteSet(New(Page)) /\ DistinctIds(New(Page))
    <2>1. New(Page) \subseteq Table
        BY Pages DEF New, Rows
    <2> QED
        BY <2>1, Tables, FS_Subset DEF DistinctIds
<1>3. T \subseteq Table
    BY <1>2
<1>4. \A i \in DOMAIN candidates, j \in DOMAIN candidates' \ DOMAIN candidates : i < j
    <2>1. candidates \in Seq(CandidateType)
        BY DEF TypeOK
    <2>2. DOMAIN candidates = 1..Len(candidates) /\ DOMAIN candidates' = 1..Len(candidates')
        BY <1>1, <2>1
    <2>3. Len(candidates) \in Nat
        BY <2>1
    <2>4. \A i \in DOMAIN candidates : i \in Nat /\ i <= Len(candidates)
        BY <2>2, <2>3
    <2>5. \A j \in DOMAIN candidates' \ DOMAIN candidates : j \in Nat /\ j > Len(candidates)
        BY <2>2, <2>3
    <2> QED
        BY <2>3, <2>4, <2>5
<1>5. Seen' = Seen \cup {c.output : c \in T}
    <2>1. ASSUME NEW o \in Seen' PROVE o \in Seen \cup {c.output : c \in T}
        <3>1. PICK i \in DOMAIN candidates' : o = candidates'[i].output
            BY DEF Seen
        <3>2. CASE i \in DOMAIN candidates
            BY <1>1, <3>1, <3>2 DEF Seen
        <3>3. CASE i \notin DOMAIN candidates
            BY <1>1, <3>1, <3>3
        <3> QED
            BY <3>2, <3>3
    <2>2. ASSUME NEW o \in Seen PROVE o \in Seen'
        <3>1. PICK i \in DOMAIN candidates : o = candidates[i].output
            BY DEF Seen
        <3> QED
            BY <1>1, <3>1 DEF Seen
    <2>3. ASSUME NEW c \in T PROVE c.output \in Seen'
        <3>1. PICK i \in DOMAIN candidates' \ DOMAIN candidates : candidates'[i] = c
            BY <1>1
        <3> QED
            BY <3>1 DEF Seen
    <2> QED
        BY <2>1, <2>2, <2>3
<1>6. need \in Int
    BY DEF TypeOK
<1>7. Bytes({c.output : c \in T}) \in Nat
    BY <1>2, BytesFinite DEF CandidateType
<1>8. ASSUME Taken(New(Page)) # New(Page) PROVE need' <= 0
    <2>1. SizeOf(T) >= need
        BY <1>1, <1>2, <1>6, <1>8, Taking
    <2> QED
        BY <1>1, <1>6, <1>7, <2>1 DEF SizeOf
<1>9. UNCHANGED <<output, disturbed, created, drift, total>>
    BY DEF NextPage, tables, history
<1> QED
    BY <1>1, <1>3, <1>4, <1>5, <1>7, <1>8, <1>9

LEMMA CandidatesStep ==
    TypeOK /\ CandidatesTrue /\ [Next]_vars => CandidatesTrue'
<1> SUFFICES ASSUME TypeOK, CandidatesTrue, [Next]_vars PROVE CandidatesTrue'
    OBVIOUS
<1> USE DEF PassSteps, Planning
<1>1. ASSUME PickEntries \/ ExpireEntries \/ PickOutputs \/ ExpireOutputs
      PROVE  CandidatesTrue'
    BY <1>1, Outside DEF CandidatesTrue
<1>2. ASSUME PlanEviction PROVE CandidatesTrue'
    <2>1. candidates = <<>> /\ candidates' = candidates /\ created' = {}
        BY <1>2 DEF PlanEviction, CandidatesTrue
    <2>2. DOMAIN candidates' = {}
        BY <2>1
    <2> QED
        BY <2>1, <2>2 DEF CandidatesTrue
<1>3. ASSUME NextPage PROVE CandidatesTrue'
    <2>1. PICK T \in SUBSET New(Page) :
            /\ T \subseteq Table
            /\ \A i \in DOMAIN candidates : i \in DOMAIN candidates' /\ candidates'[i] = candidates[i]
            /\ \A i \in DOMAIN candidates' \ DOMAIN candidates : candidates'[i] \in T
            /\ UNCHANGED <<output, disturbed, created>>
        BY <1>3, PageStep
    <2>2. Present' = Present
        BY <2>1 DEF Present
    <2>3. \A c \in T : c.output \in Present /\ c = Candidate(c.output)
        BY <2>1, Tables
    <2>4. ASSUME NEW i \in DOMAIN candidates'
          PROVE  /\ candidates'[i].size = Size[candidates'[i].output]
                 /\ candidates'[i].output \in Present \ disturbed
                        => candidates'[i] = Candidate(candidates'[i].output)
        <3>1. CASE i \in DOMAIN candidates
            BY <2>1, <3>1 DEF CandidatesTrue
        <3>2. CASE i \notin DOMAIN candidates
            <4>1. candidates'[i] = Candidate(candidates'[i].output)
                BY <2>1, <2>3, <3>2
            <4>2. candidates'[i].size = Size[candidates'[i].output]
                BY <4>1 DEF Candidate
            <4> QED
                BY <4>1, <4>2
        <3> QED
            BY <3>1, <3>2
    <2>5. pc' \in {"page", "read"} /\ created \subseteq disturbed
        BY <1>3 DEF NextPage, CandidatesTrue
    <2> QED
        BY <2>1, <2>2, <2>4, <2>5 DEF CandidatesTrue, Candidate
<1>4. ASSUME ReadSize PROVE CandidatesTrue'
    BY <1>4 DEF ReadSize, CandidatesTrue, Present, Candidate, tables, history
<1>5. ASSUME EvictNext PROVE CandidatesTrue'
    <2>1. CASE pc' = "done" /\ DOMAIN candidates' = {}
        BY <2>1 DEF CandidatesTrue
    <2>2. CASE Pop
        <3>1. /\ \A i \in DOMAIN candidates' :
                    i + 1 \in DOMAIN candidates /\ candidates'[i] = candidates[i + 1]
              /\ PlanStands
            BY <2>2, PopStands
        <3>2. \A o \in (Present \ disturbed)' : o \in Present \ disturbed /\ Candidate(o)' = Candidate(o)
            BY <3>1 DEF PlanStands, Candidate
        <3> QED
            BY <2>2, <3>1, <3>2 DEF CandidatesTrue, Pop
    <2> QED
        BY <1>5, <2>1, <2>2, Evicting
<1>6. ASSUME Builds PROVE CandidatesTrue'
    <2>1. /\ PlanStands /\ candidates' = candidates /\ pc' = pc
          /\ created \subseteq disturbed => created' \subseteq disturbed'
        BY <1>6, BuildsStand
    <2>2. \A o \in (Present \ disturbed)' : o \in Present \ disturbed /\ Candidate(o)' = Candidate(o)
        BY <2>1 DEF PlanStands, Candidate
    <2> QED
        BY <2>1, <2>2 DEF CandidatesTrue
<1>7. ASSUME Fail \/ UNCHANGED vars PROVE CandidatesTrue'
    BY <1>7 DEF Fail, vars, CandidatesTrue, Present, Candidate, tables, plan, history
<1> QED
    BY <1>1, <1>2, <1>3, <1>4, <1>5, <1>6, <1>7 DEF Next, Pass

(* While pages are read, the candidates come no later than the cursor, and *)
(* the rows of the page after it.                                          *)
LEMMA AcrossCursor ==
    ASSUME TypeOK, PagesCover, pc = "page", NEW i \in DOMAIN candidates, NEW c \in Rows
    PROVE  ColderThan(candidates[i], c)
<1>1. candidates[i] \in CandidateType /\ c \in CandidateType /\ Follows(c, cursor)
    BY Tables DEF TypeOK, Rows
<1>2. Key(candidates[i]) \in Keys /\ Key(c) \in Keys /\ cursor \in Keys
    BY <1>1, CandidateKey DEF TypeOK, Keys
<1>3. ~KeyBefore(cursor, Key(candidates[i])) /\ KeyBefore(cursor, Key(c))
    BY <1>1 DEF PagesCover, Follows
<1> QED
    BY <1>2, <1>3, KeyOrder DEF ColderThan

LEMMA OrderStep ==
    TypeOK /\ CandidatesTrue /\ CandidatesInOrder /\ PagesCover /\ [Next]_vars
        => CandidatesInOrder'
<1> SUFFICES ASSUME TypeOK, CandidatesTrue, CandidatesInOrder, PagesCover, [Next]_vars
             PROVE  CandidatesInOrder'
    OBVIOUS
<1>1. ASSUME PickEntries \/ ExpireEntries \/ PickOutputs \/ ExpireOutputs
      PROVE  CandidatesInOrder'
    BY <1>1, Outside DEF CandidatesInOrder
<1>2. ASSUME NextPage PROVE CandidatesInOrder'
    <2>1. PICK T \in SUBSET New(Page) :
            /\ \A i \in DOMAIN candidates : i \in DOMAIN candidates' /\ candidates'[i] = candidates[i]
            /\ \A i \in DOMAIN candidates' \ DOMAIN candidates : candidates'[i] \in T
            /\ \A i, j \in DOMAIN candidates' \ DOMAIN candidates :
                    i < j => ColderThan(candidates'[i], candidates'[j])
            /\ \A i \in DOMAIN candidates, j \in DOMAIN candidates' \ DOMAIN candidates : i < j
        BY <1>2, PageStep
    <2>2. T \subseteq Rows /\ pc = "page"
        BY <1>2, Pages DEF New, NextPage
    <2>3. candidates \in Seq(CandidateType) /\ candidates' \in Seq(CandidateType)
        BY <1>2, Appended DEF TypeOK
    <2>4. DOMAIN candidates \subseteq Nat /\ DOMAIN candidates' \subseteq Nat
        BY <2>3
    <2>5. ASSUME NEW i \in DOMAIN candidates', NEW j \in DOMAIN candidates', i < j
          PROVE  ColderThan(candidates'[i], candidates'[j])
        <3>1. CASE i \in DOMAIN candidates /\ j \in DOMAIN candidates
            BY <2>1, <2>5, <3>1 DEF CandidatesInOrder
        <3>2. CASE i \in DOMAIN candidates /\ j \notin DOMAIN candidates
            BY <2>1, <2>2, <3>2, AcrossCursor
        <3>3. CASE i \notin DOMAIN candidates /\ j \in DOMAIN candidates
            <4>1. j < i
                BY <2>1, <3>3
            <4> QED
                BY <2>4, <2>5, <4>1
        <3>4. CASE i \notin DOMAIN candidates /\ j \notin DOMAIN candidates
            BY <2>1, <2>5, <3>4
        <3> QED
            BY <3>1, <3>2, <3>3, <3>4
    <2> QED
        BY <2>5 DEF CandidatesInOrder, ColderThan, Key
<1>3. ASSUME EvictNext PROVE CandidatesInOrder'
    <2>1. CASE pc' = "done" /\ DOMAIN candidates' = {}
        BY <2>1 DEF CandidatesInOrder
    <2>2. CASE Pop
        <3>1. \A i \in DOMAIN candidates' :
                i + 1 \in DOMAIN candidates /\ candidates'[i] = candidates[i + 1]
            BY <2>2, PopStands
        <3>2. candidates' \in Seq(CandidateType)
            BY <2>2, Popped DEF Pop, TypeOK
        <3>3. DOMAIN candidates' \subseteq Nat
            BY <3>2
        <3>4. ASSUME NEW i \in DOMAIN candidates', NEW j \in DOMAIN candidates', i < j
              PROVE  ColderThan(candidates'[i], candidates'[j])
            <4>1. i + 1 < j + 1
                BY <3>3, <3>4
            <4> QED
                BY <3>1, <4>1 DEF CandidatesInOrder
        <3> QED
            BY <3>4 DEF CandidatesInOrder, ColderThan, Key
    <2> QED
        BY <1>3, <2>1, <2>2, Evicting
<1>4. ASSUME candidates' = candidates PROVE CandidatesInOrder'
    BY <1>4 DEF CandidatesInOrder
<1>5. PlanEviction \/ ReadSize \/ Fail \/ Builds \/ UNCHANGED vars => candidates' = candidates
    BY BuildsStand DEF PlanEviction, ReadSize, Fail, vars, plan
<1> QED
    BY <1>1, <1>2, <1>3, <1>4, <1>5 DEF Next, Pass

(* What a page passes over.                                                *)
LEMMA PageLeaves ==
    ASSUME TypeOK, NextPage, NEW o \in Present, Candidate(o) \in Rows, o \notin Seen'
    PROVE  /\ Page # {}
           /\ \A c \in Taken(New(Page)) : ColderThan(c, Candidate(o))
           /\ need' > 0 => ColderThan(LastOf(Page), Candidate(o))
<1> DEFINE d == Candidate(o)
<1>1. PICK T \in SUBSET New(Page) :
        /\ T = Taken(New(Page))
        /\ Seen' = Seen \cup {c.output : c \in T}
        /\ T # New(Page) => need' <= 0
        /\ need' = need - Bytes({c.output : c \in T}) /\ Bytes({c.output : c \in T}) \in Nat
    BY PageStep
<1>2. /\ Page # {} /\ Page \subseteq Rows /\ Rows \subseteq Table
      /\ \A c \in Page, e \in Rows : ColderThan(e, c) => e \in Page
    BY Pages DEF Rows
<1>3. /\ Table \subseteq CandidateType /\ DistinctIds(Table) /\ IsFiniteSet(Page)
      /\ DistinctIds(Page) /\ Page \subseteq CandidateType
    BY <1>2, Tables, FS_Subset DEF DistinctIds
<1>4. d \notin T /\ (d \in Page => d \in New(Page))
    <2>1. d.output = o
        BY DEF Candidate
    <2> HIDE DEF d
    <2> QED
        BY <1>1, <2>1 DEF New
<1>5. need \in Int /\ need' \in Int
    BY <1>1 DEF TypeOK
<1>6. ASSUME NEW c \in Rows, c # d, ~ColderThan(d, c) PROVE ColderThan(c, d)
    <2>1. c.id # d.id
        BY <1>2, <1>3, <1>6 DEF DistinctIds
    <2> QED
        BY <1>2, <1>3, <1>6, <2>1, ColderOrder
<1>7. ASSUME NEW c \in T PROVE ColderThan(c, d)
    <2>1. c \in Page /\ c \in Rows /\ c # d
        BY <1>2, <1>4 DEF New
    <2>2. ~ColderThan(d, c)
        <3>1. CASE d \in Page
            <4>1. /\ New(Page) \subseteq CandidateType /\ IsFiniteSet(New(Page))
                  /\ DistinctIds(New(Page))
                BY <1>3, FS_Subset DEF New, DistinctIds
            <4> QED
                BY <1>1, <1>4, <1>5, <3>1, <4>1, Taking
        <3>2. CASE d \notin Page
            BY <1>2, <2>1, <3>2
        <3> QED
            BY <3>1, <3>2
    <2> QED
        BY <1>6, <2>1, <2>2
<1>8. ASSUME need' > 0 PROVE ColderThan(LastOf(Page), d)
    <2>1. T = New(Page)
        BY <1>1, <1>5, <1>8
    <2>2. d \notin Page
        BY <1>4, <2>1
    <2>3. LastOf(Page) \in Page
        BY <1>2, <1>3, LastOfPage
    <2> QED
        BY <1>2, <1>6, <2>2, <2>3
<1> QED
    BY <1>1, <1>2, <1>7, <1>8

LEMMA CoverStep ==
    TypeOK /\ CandidatesTrue /\ PagesCover /\ [Next]_vars => PagesCover'
<1> SUFFICES ASSUME TypeOK, CandidatesTrue, PagesCover, [Next]_vars, pc' = "page"
             PROVE  PagesCover'
    BY DEF PagesCover
<1>1. ASSUME PlanEviction PROVE PagesCover'
    <2>1. /\ need' = Bytes(Present) - MaxSize /\ Bytes(Present) > MaxSize
          /\ cursor' = <<ScanCutoff, -1, -1>>
          /\ UNCHANGED <<output, candidates>> /\ candidates = <<>>
        BY <1>1 DEF PlanEviction, tables, CandidatesTrue, PassSteps, Planning
    <2>2. Bytes(Present) \in Nat /\ MaxSize \in Nat
        BY CatalogPassAssumption, BytesFinite DEF CatalogPassAssumption, Present
    <2>3. need' > 0
        BY <2>1, <2>2
    <2>4. DOMAIN candidates' = {}
        BY <2>1
    <2>5. ASSUME NEW o \in Evictable' PROVE KeyBefore(cursor', Key(Candidate(o)))
        <3>1. o \in Present /\ output[o].at >= ScanCutoff
            BY <2>1 DEF Evictable, Present
        <3>2. Candidate(o) \in CandidateType
            BY <3>1, Tables DEF Table
        <3>3. Candidate(o).at >= ScanCutoff /\ Candidate(o).size > -1 /\ Candidate(o).at \in Nat
            BY <3>1, <3>2 DEF Candidate, CandidateType, Times
        <3>4. ScanCutoff \in Nat
            BY CatalogPassAssumption DEF CatalogPassAssumption
        <3> HIDE DEF Evictable, Candidate
        <3> QED
            BY <2>1, <3>3, <3>4 DEF Key, KeyBefore
    <2>6. \A o \in Evictable' : KeyBefore(cursor', Key(Candidate(o)'))
        BY <2>1, <2>5 DEF Candidate
    <2> QED
        BY <2>3, <2>4, <2>6 DEF PagesCover, Follows, Key
<1>2. ASSUME NextPage PROVE PagesCover'
    <2>1. PICK T \in SUBSET New(Page) :
            /\ \A i \in DOMAIN candidates : i \in DOMAIN candidates' /\ candidates'[i] = candidates[i]
            /\ \A i \in DOMAIN candidates' \ DOMAIN candidates : candidates'[i] \in T
            /\ Seen' = Seen \cup {c.output : c \in T}
            /\ pc' = IF Page # {} /\ need' > 0 THEN "page" ELSE "read"
            /\ cursor' = IF Page = {} THEN cursor ELSE Key(LastOf(Page))
            /\ UNCHANGED <<output, disturbed>>
        BY <1>2, PageStep
    <2> DEFINE l == LastOf(Page)
    <2>2. Page # {} /\ need' > 0 /\ cursor' = Key(l) /\ pc = "page"
        BY <1>2, <2>1 DEF NextPage
    <2>3. /\ Page \subseteq Rows /\ Rows \subseteq Table /\ Table \subseteq CandidateType
          /\ IsFiniteSet(Page) /\ DistinctIds(Page)
        <3>1. Page \subseteq Rows /\ Rows \subseteq Table
            BY Pages DEF Rows
        <3> QED
            BY <3>1, Tables, FS_Subset DEF DistinctIds
    <2>4. l \in Page /\ \A c \in Page : c = l \/ ColderThan(c, l)
        BY <2>2, <2>3, LastOfPage
    <2> HIDE DEF l
    <2>5. ASSUME NEW i \in DOMAIN candidates' PROVE ~KeyBefore(cursor', Key(candidates'[i]))
        <3>1. candidates'[i] = l \/ ColderThan(candidates'[i], l)
            <4>1. CASE i \in DOMAIN candidates
                BY <2>1, <2>2, <2>3, <2>4, <4>1, AcrossCursor
            <4>2. CASE i \notin DOMAIN candidates
                BY <2>1, <2>4, <4>2 DEF New
            <4> QED
                BY <4>1, <4>2
        <3>2. candidates'[i] \in CandidateType /\ l \in CandidateType
            BY <2>1, <2>3, <2>4 DEF TypeOK, New
        <3>3. Key(candidates'[i]) \in Keys /\ Key(l) \in Keys
            BY <3>2, CandidateKey
        <3> QED
            BY <2>2, <3>1, <3>3, KeyOrder DEF ColderThan
    <2>6. ASSUME NEW o \in Evictable', o \notin Seen' PROVE KeyBefore(cursor', Key(Candidate(o)))
        <3>1. o \in Evictable /\ o \in Present /\ o \notin Seen
            BY <2>1, <2>6 DEF Evictable, Present
        <3>2. Candidate(o) \in Rows
            BY <2>2, <3>1 DEF PagesCover, Rows, Table
        <3>3. ColderThan(l, Candidate(o))
            BY <1>2, <2>2, <2>6, <3>1, <3>2, PageLeaves DEF l
        <3> QED
            BY <2>2, <3>3 DEF ColderThan
    <2>7. \A o \in Evictable' : o \in Seen' \/ KeyBefore(cursor', Key(Candidate(o)'))
        BY <2>1, <2>6 DEF Candidate
    <2> QED
        BY <2>2, <2>5, <2>7 DEF PagesCover, Follows, Key
<1>3. ASSUME Builds PROVE PagesCover'
    <2>1. /\ UNCHANGED <<pc, need, cursor, candidates>>
          /\ Evictable' \subseteq Evictable
          /\ \A o \in Evictable' : Candidate(o)' = Candidate(o)
        BY <1>3, BuildsStand, Standing
    <2>2. Seen' = Seen
        BY <2>1 DEF Seen
    <2>3. \A o \in Evictable' : o \in Seen' \/ KeyBefore(cursor', Key(Candidate(o)'))
        BY <1>3, <2>1, <2>2 DEF PagesCover, Follows
    <2> QED
        BY <2>1, <2>3 DEF PagesCover, Follows, Key
<1>4. ASSUME UNCHANGED vars PROVE PagesCover'
    BY <1>4 DEF vars, PagesCover, Evictable, Present, Seen, Candidate, Follows, Key
<1>5. ~(PickEntries \/ ExpireEntries \/ PickOutputs \/ ExpireOutputs \/ ReadSize \/ EvictNext \/ Fail)
    BY DEF PickEntries, ExpireEntries, PickOutputs, ExpireOutputs, ReadSize, EvictNext, Fail
<1> QED
    BY <1>1, <1>2, <1>3, <1>4, <1>5 DEF Next, Pass

LEMMA ColdestStep ==
    TypeOK /\ CandidatesTrue /\ PagesCover /\ ColdestListed /\ [Next]_vars => ColdestListed'
<1> SUFFICES ASSUME TypeOK, CandidatesTrue, PagesCover, ColdestListed, [Next]_vars,
                    pc' \in Planning,
                    NEW o \in Evictable', o \notin Seen', NEW i \in DOMAIN candidates'
             PROVE  ColderThan(candidates'[i], Candidate(o)')
    BY DEF ColdestListed, ColderThan, Key, Candidate
<1>1. ASSUME PlanEviction PROVE FALSE
    <2>1. candidates' = <<>>
        BY <1>1 DEF PlanEviction, CandidatesTrue, PassSteps, Planning
    <2> QED
        BY <2>1
<1>2. ASSUME NextPage PROVE ColderThan(candidates'[i], Candidate(o)')
    <2>1. PICK T \in SUBSET New(Page) :
            /\ T = Taken(New(Page))
            /\ \A k \in DOMAIN candidates : candidates'[k] = candidates[k]
            /\ \A k \in DOMAIN candidates' \ DOMAIN candidates : candidates'[k] \in T
            /\ Seen' = Seen \cup {c.output : c \in T}
            /\ UNCHANGED <<output, disturbed>>
        BY <1>2, PageStep
    <2>2. /\ o \in Evictable /\ o \in Present /\ o \notin Seen /\ pc = "page"
          /\ Candidate(o)' = Candidate(o)
        BY <1>2, <2>1 DEF Evictable, Present, Candidate, NextPage
    <2>3. Candidate(o) \in Rows
        BY <2>2 DEF PagesCover, Rows, Table
    <2>4. CASE i \in DOMAIN candidates
        BY <2>1, <2>2, <2>3, <2>4, AcrossCursor
    <2>5. CASE i \notin DOMAIN candidates
        BY <1>2, <2>1, <2>2, <2>3, <2>5, PageLeaves
    <2> QED
        BY <2>4, <2>5
<1>3. ASSUME ReadSize \/ UNCHANGED vars PROVE ColderThan(candidates'[i], Candidate(o)')
    <2>1. UNCHANGED <<output, disturbed, candidates>> /\ pc \in Planning
        BY <1>3 DEF ReadSize, vars, tables, history, Planning
    <2>2. o \in Evictable /\ o \notin Seen /\ Candidate(o)' = Candidate(o)
        BY <2>1 DEF Evictable, Present, Seen, Candidate
    <2> QED
        BY <2>1, <2>2 DEF ColdestListed
<1>4. ASSUME EvictNext PROVE ColderThan(candidates'[i], Candidate(o)')
    <2>1. Pop
        BY <1>4, Evicting DEF Planning
    <2>2. /\ i + 1 \in DOMAIN candidates /\ candidates'[i] = candidates[i + 1]
          /\ PlanStands /\ candidates[1].output \in Seen /\ 1 \in DOMAIN candidates
          /\ Seen' = Seen \ {candidates[1].output}
          /\ Present' = IF StillCold(candidates[1])
                        THEN Present \ {candidates[1].output} ELSE Present
          /\ candidates[1] \in CandidateType
        BY <2>1, PopStands
    <2>3. o \in Evictable /\ Candidate(o)' = Candidate(o)
        BY <2>2, Standing
    <2>4. o # candidates[1].output
        <3> SUFFICES ASSUME o = candidates[1].output PROVE FALSE
            OBVIOUS
        <3>1. ~StillCold(candidates[1])
            BY <2>2 DEF Evictable
        <3>2. candidates[1] = Candidate(o) /\ o \in Present
            BY <2>2, <2>3 DEF CandidatesTrue, Evictable
        <3>3. candidates[1].at = output[o].at /\ candidates[1].at \in Int
            BY <2>2, <3>2 DEF Candidate, CandidateType, Times
        <3>4. \A n \in Int : n <= n
            OBVIOUS
        <3>5. output[o].at <= candidates[1].at
            BY <3>3, <3>4, Zenon
        <3> QED
            BY <3>1, <3>2, <3>5, Zenon DEF StillCold
    <2>5. o \notin Seen
        BY <2>2, <2>4
    <2> QED
        BY <2>1, <2>2, <2>3, <2>5 DEF ColdestListed, Pop, Planning
<1>5. ASSUME Builds PROVE ColderThan(candidates'[i], Candidate(o)')
    <2>1. /\ UNCHANGED <<pc, candidates>> /\ o \in Evictable /\ Candidate(o)' = Candidate(o)
        BY <1>5, BuildsStand, Standing
    <2>2. o \notin Seen
        BY <2>1 DEF Seen
    <2> QED
        BY <2>1, <2>2 DEF ColdestListed
<1>6. ~(PickEntries \/ ExpireEntries \/ PickOutputs \/ ExpireOutputs \/ Fail)
    BY DEF PickEntries, ExpireEntries, PickOutputs, ExpireOutputs, Fail, Planning
<1> QED
    BY <1>1, <1>2, <1>3, <1>4, <1>5, <1>6 DEF Next, Pass
-----------------------------------------------------------------------------
(* The plan: what it covers.                                               *)

(* A candidate that eviction finds warmer than it was is one a build       *)
(* touched.                                                                *)
LEMMA PopCovered ==
    ASSUME TypeOK, CandidatesTrue, Pop
    PROVE  Evictable' \ Seen' \subseteq Evictable \ Seen
<1>1. /\ PlanStands /\ candidates[1].output \in Seen /\ 1 \in DOMAIN candidates
      /\ Seen' = Seen \ {candidates[1].output}
      /\ Present' = IF StillCold(candidates[1])
                    THEN Present \ {candidates[1].output} ELSE Present
      /\ candidates[1] \in CandidateType
    BY PopStands
<1>2. Evictable' \subseteq Evictable
    BY <1>1, Standing
<1>3. ASSUME candidates[1].output \in Evictable' PROVE FALSE
    <2> DEFINE o == candidates[1].output
    <2>1. ~StillCold(candidates[1])
        BY <1>1, <1>3 DEF Evictable
    <2>2. candidates[1] = Candidate(o) /\ o \in Present
        BY <1>1, <1>2, <1>3 DEF CandidatesTrue, Evictable
    <2>3. candidates[1].at = output[o].at /\ candidates[1].at \in Int
        BY <1>1, <2>2 DEF Candidate, CandidateType, Times
    <2>4. \A n \in Int : n <= n
        OBVIOUS
    <2>5. output[o].at <= candidates[1].at
        BY <2>3, <2>4, Zenon
    <2> QED
        BY <2>1, <2>2, <2>5, Zenon DEF StillCold
<1> QED
    BY <1>1, <1>2, <1>3

LEMMA PlanCoversPage ==
    ASSUME TypeOK, CandidatesTrue, PagesCover, PlanCovers, NextPage
    PROVE  PlanCovers'
<1>1. PICK T \in SUBSET New(Page) :
        /\ T \subseteq Table
        /\ Seen' = Seen \cup {c.output : c \in T}
        /\ need' = need - Bytes({c.output : c \in T})
        /\ pc' = IF Page # {} /\ need' > 0 THEN "page" ELSE "read"
        /\ UNCHANGED <<output, disturbed, created>>
    BY PageStep
<1> DEFINE U == {c.output : c \in T}
           A == Present \ (created \cup Seen)
           B == created \cap Seen
<1>2. U \subseteq Present /\ U \cap Seen = {}
    BY <1>1, Tables DEF New
<1>3. Present \subseteq Outputs /\ created \subseteq Outputs /\ need \in Int /\ need' \in Int
    BY <1>1, PageStep, TypeOfPage DEF TypeOK, Present
<1>4. Present' = Present /\ created' = created /\ Evictable' = Evictable
    BY <1>1 DEF Present, Evictable
<1>5. pc = "page"
    BY DEF NextPage
<1>6. Bytes(A) <= MaxSize + need + Bytes(B)
    BY <1>5 DEF PlanCovers
<1> HIDE DEF U
<1>7. Bytes(Present \ (created \cup Seen')) = Bytes(A) - Bytes(U \ created)
    <2>1. A \cap U = U \ created /\ A \ U = Present \ (created \cup Seen')
        BY <1>1, <1>2 DEF U
    <2>2. Bytes(A) = Bytes(A \cap U) + Bytes(A \ U)
        BY <1>3, BytesSplit
    <2>3. Bytes(A \cap U) \in Nat /\ Bytes(A \ U) \in Nat
        BY <1>3, BytesFinite
    <2> HIDE DEF A
    <2>4. Bytes(A \ U) = Bytes(A) - Bytes(A \cap U)
        BY <2>2, <2>3
    <2> QED
        BY <2>1, <2>4, Zenon
<1>8. Bytes(created \cap Seen') = Bytes(B) + Bytes(U \cap created)
    <2>1. created \cap Seen' = B \cup (U \cap created) /\ B \cap (U \cap created) = {}
        BY <1>1, <1>2 DEF U
    <2> QED
        BY <1>3, <2>1, BytesAdd
<1>9. Bytes(U) = Bytes(U \cap created) + Bytes(U \ created)
    BY <1>2, <1>3, BytesSplit
<1>10. /\ Bytes(A) \in Nat /\ Bytes(B) \in Nat /\ Bytes(U) \in Nat
       /\ Bytes(U \cap created) \in Nat /\ Bytes(U \ created) \in Nat /\ MaxSize \in Nat
    BY <1>2, <1>3, BytesFinite, CatalogPassAssumption DEF CatalogPassAssumption
<1>11. Bytes(Present \ (created \cup Seen')) <= MaxSize + need' + Bytes(created \cap Seen')
    <2>1. need' = need - Bytes(U)
        BY <1>1 DEF U
    <2> HIDE DEF A, B
    <2> QED
        BY <1>3, <1>6, <1>7, <1>8, <1>9, <1>10, <2>1
<1>12. ASSUME pc' = "read" PROVE need' <= 0 \/ Evictable \subseteq Seen'
    <2>1. Page = {} \/ need' <= 0
        BY <1>1, <1>3, <1>12
    <2>2. CASE Page = {}
        <3>1. Rows = {}
            BY <2>2, Pages
        <3>2. ASSUME NEW o \in Evictable PROVE o \in Seen
            <4>1. o \in Seen \/ Follows(Candidate(o), cursor)
                BY <1>5 DEF PagesCover
            <4>2. Candidate(o) \in Table
                BY DEF Evictable, Table
            <4> QED
                BY <3>1, <4>1, <4>2 DEF Rows
        <3> QED
            BY <1>1, <3>2
    <2> QED
        BY <2>1, <2>2
<1>13. pc' # "evict"
    BY <1>1
<1> HIDE DEF A, B
<1> QED
    BY <1>4, <1>11, <1>12, <1>13 DEF PlanCovers

(* What the plan leaves out when it has been read.                         *)
LEMMA PlanRead ==
    ASSUME TypeOK, CandidatesTrue, PlanCovers, pc = "read"
    PROVE  /\ Bytes(Evictable \ Seen) <= MaxSize + Bytes(created)
           /\ Bytes(Evictable \ Seen) <= MaxSize + Bytes(created \cap Seen)
<1>1. Present \subseteq Outputs /\ created \subseteq Outputs /\ Evictable \subseteq Present
    BY DEF Present, TypeOK, Evictable
<1>2. MaxSize \in Nat /\ need \in Int
    BY CatalogPassAssumption DEF CatalogPassAssumption, TypeOK
<1>3. Bytes(created \cap Seen) \in Nat /\ Bytes(created) \in Nat
    BY <1>1, BytesFinite
<1>4. Bytes(created \cap Seen) <= Bytes(created)
    BY <1>1, BytesMonotone
<1>5. Bytes(Evictable \ Seen) \in Nat
    BY <1>1, BytesFinite
<1>6. Bytes(Evictable \ Seen) <= MaxSize + Bytes(created \cap Seen)
    <2>1. CASE Evictable \subseteq Seen
        <3>1. Evictable \ Seen = {}
            BY <2>1
        <3>2. Bytes(Evictable \ Seen) = 0
            BY <3>1, BytesNone
        <3> QED
            BY <1>2, <1>3, <3>2
    <2>2. CASE need <= 0
        <3>1. Evictable \ Seen \subseteq Present \ (created \cup Seen)
            BY DEF Evictable, CandidatesTrue, Planning
        <3>2. Bytes(Evictable \ Seen) <= Bytes(Present \ (created \cup Seen))
            BY <1>1, <3>1, BytesMonotone
        <3>3. Bytes(Present \ (created \cup Seen)) <= MaxSize + need + Bytes(created \cap Seen)
            BY DEF PlanCovers
        <3>4. Bytes(Present \ (created \cup Seen)) \in Nat
            BY <1>1, BytesFinite
        <3> QED
            BY <1>2, <1>3, <1>5, <2>2, <3>2, <3>3, <3>4
    <2> QED
        BY <2>1, <2>2 DEF PlanCovers
<1> QED
    BY <1>2, <1>3, <1>4, <1>5, <1>6

LEMMA PlanCoversStep ==
    TypeOK /\ TypeOK' /\ CandidatesTrue /\ PagesCover /\ PlanCovers /\ [Next]_vars => PlanCovers'
<1> SUFFICES ASSUME TypeOK, TypeOK', CandidatesTrue, PagesCover, PlanCovers, [Next]_vars
             PROVE  PlanCovers'
    OBVIOUS
<1>1. ASSUME PickEntries \/ ExpireEntries \/ PickOutputs \/ ExpireOutputs PROVE PlanCovers'
    BY <1>1, Outside DEF PlanCovers, Planning
<1>2. ASSUME PlanEviction PROVE PlanCovers'
    <2>1. CASE pc' = "done"
        BY <2>1 DEF PlanCovers
    <2>2. CASE pc' # "done"
        <3>1. /\ pc' = "page" /\ need' = Bytes(Present) - MaxSize
              /\ created' = {} /\ output' = output /\ candidates' = <<>>
            BY <1>2, <2>2 DEF PlanEviction, CandidatesTrue, PassSteps, Planning, tables
        <3>2. Seen' = {}
            BY <3>1 DEF Seen
        <3>3. Present' = Present
            BY <3>1 DEF Present
        <3>4. Bytes(Present) \in Nat /\ MaxSize \in Nat
            BY BytesFinite, CatalogPassAssumption DEF CatalogPassAssumption, Present
        <3>5. Present \ ({} \cup {}) = Present /\ {} \cap {} = {}
            OBVIOUS
        <3>6. Bytes(Present) <= MaxSize + (Bytes(Present) - MaxSize) + Bytes({})
            BY <3>4, BytesNone
        <3>7. Bytes(Present' \ (created' \cup Seen')) <= MaxSize + need' + Bytes(created' \cap Seen')
            BY <3>1, <3>2, <3>3, <3>5, <3>6
        <3> QED
            BY <3>1, <3>7 DEF PlanCovers
    <2> QED
        BY <2>1, <2>2
<1>3. ASSUME ReadSize PROVE PlanCovers'
    <2>1. pc = "read" /\ UNCHANGED <<output, disturbed, created, candidates>>
          /\ pc' \in {"done", "evict"}
        BY <1>3 DEF ReadSize, tables, history
    <2>2. Evictable' = Evictable /\ Seen' = Seen
        BY <2>1 DEF Evictable, Present, Seen
    <2> QED
        BY <2>1, <2>2, PlanRead DEF PlanCovers
<1>4. ASSUME EvictNext PROVE PlanCovers'
    <2>1. CASE Pop
        <3>1. Evictable' \ Seen' \subseteq Evictable \ Seen /\ created' = created
            BY <2>1, PopCovered DEF Pop
        <3>2. Bytes(Evictable \ Seen) <= MaxSize + Bytes(created)
            BY <2>1 DEF PlanCovers, Pop
        <3>3. Evictable \subseteq Outputs /\ created \subseteq Outputs /\ MaxSize \in Nat
            BY CatalogPassAssumption DEF CatalogPassAssumption, TypeOK, Evictable, Present
        <3>4. /\ Bytes(Evictable' \ Seen') <= Bytes(Evictable \ Seen)
              /\ Bytes(Evictable' \ Seen') \in Nat /\ Bytes(Evictable \ Seen) \in Nat
              /\ Bytes(created) \in Nat
            BY <3>1, <3>3, BytesMonotone, BytesFinite
        <3>5. Bytes(Evictable' \ Seen') <= MaxSize + Bytes(created')
            BY <3>1, <3>2, <3>3, <3>4
        <3> QED
            BY <2>1, <3>5 DEF PlanCovers, Pop
    <2>2. CASE pc' = "done"
        BY <2>2 DEF PlanCovers
    <2> QED
        BY <1>4, <2>1, <2>2, Evicting
<1>5. ASSUME Builds PROVE PlanCovers'
    <2>1. /\ UNCHANGED <<pc, need, candidates>> /\ PlanStands /\ Evictable' \subseteq Evictable
        BY <1>5, BuildsStand, Standing
    <2>2. Seen' = Seen
        BY <2>1 DEF Seen
    <2>3. /\ Present \subseteq Outputs /\ created \subseteq Outputs /\ created' \subseteq Outputs
          /\ Evictable \subseteq Outputs /\ MaxSize \in Nat /\ need \in Int
        BY CatalogPassAssumption DEF CatalogPassAssumption, TypeOK, Evictable, Present
    <2>4. /\ Present' \ (created' \cup Seen) \subseteq Present \ (created \cup Seen)
          /\ created \cap Seen \subseteq created' \cap Seen /\ created \subseteq created'
          /\ Evictable' \ Seen \subseteq Evictable \ Seen
        BY <2>1 DEF PlanStands
    <2> DEFINE a == Bytes(Present \ (created \cup Seen))
               b == Bytes(Present' \ (created' \cup Seen))
               c == Bytes(created \cap Seen)
               d == Bytes(created' \cap Seen)
               e == Bytes(Evictable \ Seen)
               f == Bytes(Evictable' \ Seen)
    <2>5. /\ b <= a /\ c <= d /\ f <= e /\ Bytes(created) <= Bytes(created')
        BY <2>3, <2>4, BytesMonotone
    <2>6. /\ a \in Nat /\ c \in Nat /\ d \in Nat /\ e \in Nat
          /\ Bytes(created) \in Nat /\ Bytes(created') \in Nat
        BY <2>3, BytesFinite
    <2>7. b \in Nat /\ f \in Nat
        BY <2>3, <2>4, BytesFinite
    <2>8. pc \in {"page", "read"} => a <= MaxSize + need + c
        BY DEF PlanCovers
    <2>9. pc = "evict" => e <= MaxSize + Bytes(created)
        BY DEF PlanCovers
    <2>10. pc = "read" => need <= 0 \/ Evictable' \subseteq Seen
        BY <2>1 DEF PlanCovers
    <2> HIDE DEF a, b, c, d, e, f
    <2>11. pc \in {"page", "read"} => b <= MaxSize + need + d
        BY <2>3, <2>5, <2>6, <2>7, <2>8
    <2>12. pc = "evict" => f <= MaxSize + Bytes(created')
        BY <2>3, <2>5, <2>6, <2>7, <2>9
    <2> QED
        BY <2>1, <2>2, <2>10, <2>11, <2>12 DEF PlanCovers, b, d, f
<1>6. ASSUME UNCHANGED vars PROVE PlanCovers'
    BY <1>6 DEF vars, PlanCovers, Evictable, Present, Seen
<1>7. ASSUME Fail PROVE PlanCovers'
    BY <1>7 DEF Fail, PlanCovers
<1> QED
    BY <1>1, <1>2, <1>3, <1>4, <1>5, <1>6, <1>7, PlanCoversPage DEF Next, Pass

(* What eviction counts.                                                   *)
LEMMA CountedPop ==
    ASSUME TypeOK, CandidatesTrue, SizeCounted, Pop
    PROVE  SizeCounted'
<1> DEFINE c == candidates[1]
           o == c.output
           P == Present \cap created
           R == created \ Seen
<1>1. /\ c \in CandidateType /\ 1 \in DOMAIN candidates
      /\ Present' = IF StillCold(c) THEN Present \ {o} ELSE Present
      /\ Seen' = Seen \ {o} /\ o \in Seen
    BY PopStands
<1>2. /\ pc = "evict" /\ pc' = "evict" /\ total' = total - Credit(c)
      /\ created' = created /\ drift' = drift
    BY DEF Pop
<1>3. /\ total = Bytes(Present) - drift
      /\ drift <= Bytes(P) + Bytes(R)
    BY <1>2 DEF SizeCounted
<1>4. /\ Present \subseteq Outputs /\ created \subseteq Outputs /\ o \in Outputs
      /\ drift \in Int /\ total \in Int /\ c.size = Size[o] /\ Size[o] \in Nat
    BY <1>1, CatalogPassAssumption
    DEF Present, TypeOK, CandidateType, CandidatesTrue, CatalogPassAssumption
<1>5. Bytes(Present) \in Nat /\ Bytes(P) \in Nat /\ Bytes(R) \in Nat
    BY <1>4, BytesFinite
<1> HIDE DEF c, o, P, R
<1>6. CASE ~StillCold(c)
    <2>1. Present' = Present /\ total' = total
        BY <1>1, <1>2, <1>4, <1>6 DEF Credit
    <2>2. R \subseteq created \ Seen' /\ created \ Seen' \subseteq Outputs
        BY <1>1, <1>4 DEF R
    <2>3. Bytes(R) <= Bytes(created \ Seen') /\ Bytes(created \ Seen') \in Nat
        BY <2>2, BytesMonotone, BytesFinite
    <2>4. drift <= Bytes(P) + Bytes(created \ Seen')
        BY <1>3, <1>4, <1>5, <2>3
    <2>5. Present' \cap created' = P /\ created' \ Seen' = created \ Seen'
        BY <1>2, <2>1 DEF P
    <2> QED
        BY <1>2, <1>3, <2>1, <2>4, <2>5 DEF SizeCounted, PassSteps
<1>7. CASE StillCold(c)
    <2>1. /\ Present' = Present \ {o} /\ o \in Present /\ total' = total - Size[o]
        BY <1>1, <1>2, <1>4, <1>7 DEF Credit, StillCold, o
    <2>2. Bytes(Present') = Bytes(Present) - Size[o]
        BY <1>4, <2>1, BytesPut
    <2>3. total' = Bytes(Present') - drift
        BY <1>3, <1>4, <1>5, <2>1, <2>2
    <2>4. drift <= Bytes(Present' \cap created) + Bytes(created \ Seen')
        <3>1. CASE o \in created
            <4>1. Present' \cap created = P \ {o} /\ o \in P
                BY <2>1, <3>1 DEF P
            <4>2. created \ Seen' = R \cup {o} /\ o \notin R
                BY <1>1, <3>1 DEF R
            <4>3. P \subseteq Outputs /\ R \subseteq Outputs
                BY <1>4 DEF P, R
            <4>4. Bytes(P \ {o}) = Bytes(P) - Size[o] /\ Bytes(R \cup {o}) = Bytes(R) + Size[o]
                BY <1>4, <4>1, <4>2, <4>3, BytesPut
            <4>5. drift <= (Bytes(P) - Size[o]) + (Bytes(R) + Size[o])
                BY <1>3, <1>4, <1>5
            <4> QED
                BY <4>1, <4>2, <4>4, <4>5
        <3>2. CASE o \notin created
            <4>1. Present' \cap created = P /\ created \ Seen' = R
                BY <1>1, <2>1, <3>2 DEF P, R
            <4> QED
                BY <1>3, <4>1
        <3> QED
            BY <3>1, <3>2
    <2> QED
        BY <1>2, <2>3, <2>4 DEF SizeCounted, PassSteps
<1> QED
    BY <1>6, <1>7

LEMMA CountedBuilds ==
    ASSUME TypeOK, SizeCounted, Builds
    PROVE  SizeCounted'
<1>1. UNCHANGED <<pc, candidates, total>>
    BY BuildsStand
<1>2. Seen' = Seen
    BY <1>1 DEF Seen
<1>3. CASE pc # "evict"
    <2>1. drift' = drift
        BY <1>3 DEF Builds, TouchEntry, TouchOutput, PutOutput, DropOutput
    <2> QED
        BY <1>1, <1>3, <2>1 DEF SizeCounted
<1>4. CASE pc = "evict"
    <2> DEFINE P == Present \cap created
               R == created \ Seen
    <2>1. total = Bytes(Present) - drift /\ drift <= Bytes(P) + Bytes(R)
        BY <1>4 DEF SizeCounted
    <2>2. Present \subseteq Outputs /\ created \subseteq Outputs /\ drift \in Int
        BY DEF TypeOK, Present
    <2>3. Bytes(Present) \in Nat /\ Bytes(P) \in Nat /\ Bytes(R) \in Nat
        BY <2>2, BytesFinite
    <2>4. P \subseteq Outputs /\ R \subseteq Outputs
        BY <2>2
    <2> HIDE DEF P, R
    <2>5. ASSUME NEW o \in Outputs, TouchOutput(o) PROVE SizeCounted'
        <3>1. \A x \in Outputs : x # o => output'[x] = output[x]
            BY <2>5 DEF TouchOutput, TypeOK
        <3>2. output'[o] # NoRow
            <4>1. PICK t \in Times : output' = [output EXCEPT ![o].at = t]
                BY <2>5 DEF TouchOutput
            <4>2. output[o] \in [at : Times, id : Nat]
                BY <2>5 DEF TouchOutput, TypeOK, Present
            <4>3. output'[o].at = t /\ t # 0
                BY <4>1, <4>2 DEF TypeOK, Times
            <4> QED
                BY <4>3 DEF NoRow
        <3>3. Present' = Present
            BY <2>5, <3>1, <3>2 DEF TouchOutput, Present
        <3>4. created' = created /\ drift' = drift
            BY <2>5 DEF TouchOutput
        <3> QED
            BY <1>1, <1>2, <1>4, <2>1, <3>3, <3>4 DEF SizeCounted, PassSteps, P, R
    <2>6. ASSUME NEW o \in Outputs, PutOutput(o) PROVE SizeCounted'
        <3>1. o \notin Present /\ created' = created \cup {o} /\ drift' = drift + Size[o]
            BY <1>4, <2>6 DEF PutOutput
        <3>2. Present' = Present \cup {o}
            BY <2>6 DEF PutOutput, TypeOK, Present, NoRow, Times
        <3>3. Size[o] \in Nat
            BY BytesSingle
        <3>4. Bytes(Present') = Bytes(Present) + Size[o]
            BY <2>2, <3>1, <3>2, BytesPut
        <3>5. total = Bytes(Present') - drift'
            BY <2>1, <2>2, <2>3, <3>1, <3>3, <3>4
        <3>6. Present' \cap created' = P \cup {o} /\ o \notin P
            BY <3>1, <3>2 DEF P
        <3>7. Bytes(Present' \cap created') = Bytes(P) + Size[o]
            BY <2>4, <3>6, BytesPut
        <3>8. R \subseteq created' \ Seen /\ created' \ Seen \subseteq Outputs
            BY <2>2, <3>1 DEF R
        <3>9. Bytes(R) <= Bytes(created' \ Seen) /\ Bytes(created' \ Seen) \in Nat
            BY <3>8, BytesMonotone, BytesFinite
        <3>10. drift' <= Bytes(Present' \cap created') + Bytes(created' \ Seen)
            BY <2>1, <2>2, <2>3, <3>1, <3>3, <3>7, <3>9
        <3> QED
            BY <1>1, <1>2, <1>4, <3>5, <3>10 DEF SizeCounted, PassSteps
    <2>7. ASSUME NEW o \in Outputs, DropOutput(o) PROVE SizeCounted'
        <3>1. o \in Present /\ created' = created /\ drift' = drift - Size[o]
            BY <1>4, <2>7 DEF DropOutput
        <3>2. Present' = Present \ {o}
            BY <2>7 DEF DropOutput, TypeOK, Present
        <3>3. Size[o] \in Nat
            BY BytesSingle
        <3>4. Bytes(Present') = Bytes(Present) - Size[o]
            BY <2>2, <3>1, <3>2, BytesPut
        <3>5. total = Bytes(Present') - drift'
            BY <2>1, <2>2, <2>3, <3>1, <3>3, <3>4
        <3>6. Present' \cap created' = P \ {o}
            BY <3>1, <3>2 DEF P
        <3>7. Bytes(P \ {o}) = IF o \in P THEN Bytes(P) - Size[o] ELSE Bytes(P)
            BY <2>4, BytesPut
        <3>8. Bytes(P \ {o}) >= Bytes(P) - Size[o]
            BY <2>3, <3>3, <3>7
        <3>9. Bytes(P \ {o}) \in Nat
            BY <2>4, BytesFinite
        <3>10. drift' <= Bytes(P \ {o}) + Bytes(R)
            BY <2>1, <2>2, <2>3, <3>1, <3>3, <3>8, <3>9
        <3> QED
            BY <1>1, <1>2, <1>4, <3>1, <3>5, <3>6, <3>10 DEF SizeCounted, PassSteps, R
    <2>8. ASSUME NEW a \in Actions, TouchEntry(a) PROVE FALSE
        BY <1>4, <2>8 DEF TouchEntry, ReadsEntries
    <2> QED
        BY <2>5, <2>6, <2>7, <2>8 DEF Builds
<1> QED
    BY <1>3, <1>4

LEMMA CountedStep ==
    TypeOK /\ CandidatesTrue /\ SizeCounted /\ [Next]_vars => SizeCounted'
<1> SUFFICES ASSUME TypeOK, CandidatesTrue, SizeCounted, [Next]_vars PROVE SizeCounted'
    OBVIOUS
<1>1. ASSUME PickEntries \/ ExpireEntries \/ PickOutputs \/ ExpireOutputs PROVE SizeCounted'
    BY <1>1, Outside DEF SizeCounted, Planning
<1>2. ASSUME PlanEviction \/ NextPage PROVE SizeCounted'
    <2>1. drift' = drift /\ pc' # "evict" /\ pc \in PassSteps \ {"evict"}
        BY <1>2 DEF PlanEviction, NextPage, history, PassSteps
    <2> QED
        BY <2>1 DEF SizeCounted
<1>3. ASSUME ReadSize PROVE SizeCounted'
    <2>1. /\ pc = "read" /\ total' = Bytes(Present) /\ pc' \in {"done", "evict"}
          /\ UNCHANGED <<output, created, drift>>
        BY <1>3 DEF ReadSize, tables, history
    <2>2. drift' = 0
        BY <2>1 DEF SizeCounted, PassSteps
    <2>3. Present' = Present /\ Present \subseteq Outputs /\ created' \subseteq Outputs
        BY <2>1 DEF Present, TypeOK
    <2>4. Bytes(Present) \in Nat
        BY <2>3, BytesFinite
    <2>5. Bytes(Present' \cap created') \in Nat /\ Bytes(created' \ Seen') \in Nat
        BY <2>3, BytesFinite
    <2>6. total' = Bytes(Present') - 0
        BY <2>1, <2>3, <2>4
    <2>7. 0 <= Bytes(Present' \cap created') + Bytes(created' \ Seen')
        BY <2>5
    <2> QED
        BY <2>1, <2>2, <2>6, <2>7 DEF SizeCounted, PassSteps
<1>4. ASSUME EvictNext PROVE SizeCounted'
    <2>1. CASE pc' = "done"
        BY <2>1 DEF SizeCounted, PassSteps
    <2> QED
        BY <1>4, <2>1, Evicting, CountedPop
<1>5. ASSUME Fail PROVE SizeCounted'
    BY <1>5 DEF Fail, SizeCounted, PassSteps
<1>6. ASSUME UNCHANGED vars PROVE SizeCounted'
    BY <1>6 DEF vars, SizeCounted, Present, Seen
<1> QED
    BY <1>1, <1>2, <1>3, <1>4, <1>5, <1>6, CountedBuilds DEF Next, Pass

(* The end of the pass.                                                    *)
LEMMA FitsStep ==
    /\ TypeOK /\ CandidatesTrue /\ PlanCovers /\ SizeCounted /\ KeptFits /\ [Next]_vars
    => KeptFits'
<1> SUFFICES ASSUME TypeOK, CandidatesTrue, PlanCovers, SizeCounted, KeptFits, [Next]_vars,
                    pc' = "done", MaxSize > 0
             PROVE  Bytes(Evictable') <= MaxSize + Bytes(created')
    BY DEF KeptFits
<1>1. /\ Present \subseteq Outputs /\ created \subseteq Outputs
      /\ Evictable \subseteq Present \ disturbed /\ MaxSize \in Nat
    BY CatalogPassAssumption DEF CatalogPassAssumption, Present, TypeOK, Evictable
<1>2. Bytes(Present) \in Nat /\ Bytes(Evictable) \in Nat /\ Bytes(created) \in Nat
    BY <1>1, BytesFinite
<1>3. ASSUME candidates = <<>> PROVE Seen = {} /\ Evictable \ Seen = Evictable
    BY <1>3 DEF Seen
<1>4. ASSUME PlanEviction PROVE Bytes(Evictable') <= MaxSize + Bytes(created')
    <2>1. ~(MaxSize > 0 /\ Bytes(Present) > MaxSize) /\ created' = {} /\ output' = output
        BY <1>4 DEF PlanEviction, tables
    <2>2. Bytes(Present) <= MaxSize
        BY <1>1, <1>2, <2>1
    <2>3. Evictable' \subseteq Present
        BY <2>1 DEF Evictable, Present
    <2>4. Bytes(Evictable') <= Bytes(Present) /\ Bytes(Evictable') \in Nat
        BY <1>1, <2>3, BytesMonotone, BytesFinite
    <2>5. Bytes(created') = 0
        BY <2>1, BytesNone
    <2> QED
        BY <1>1, <1>2, <2>2, <2>4, <2>5
<1>5. ASSUME ReadSize PROVE Bytes(Evictable') <= MaxSize + Bytes(created')
    <2>1. pc = "read" /\ candidates = <<>> /\ UNCHANGED <<output, disturbed, created>>
        BY <1>5 DEF ReadSize, tables, history
    <2>2. Evictable' = Evictable /\ created' = created
        BY <2>1 DEF Evictable, Present
    <2> QED
        BY <1>3, <2>1, <2>2, PlanRead
<1>6. ASSUME EvictNext PROVE Bytes(Evictable') <= MaxSize + Bytes(created')
    <2>1. /\ candidates = <<>> \/ total <= MaxSize
          /\ UNCHANGED <<output, disturbed, created>>
        BY <1>6, Evicting DEF Pop
    <2>2. pc = "evict"
        BY <1>6 DEF EvictNext
    <2>3. Evictable' = Evictable /\ created' = created
        BY <2>1 DEF Evictable, Present
    <2>4. CASE candidates = <<>>
        BY <1>3, <2>2, <2>3, <2>4 DEF PlanCovers
    <2>5. CASE total <= MaxSize
        <3> DEFINE P == Present \cap created
                   Q == Present \ created
                   R == created \ Seen
        <3>1. total = Bytes(Present) - drift /\ drift <= Bytes(P) + Bytes(R)
            BY <2>2 DEF SizeCounted
        <3>2. Bytes(Present) = Bytes(P) + Bytes(Q)
            BY <1>1, BytesSplit
        <3>3. Evictable \subseteq Q
            BY <1>1, <2>2 DEF CandidatesTrue, Planning
        <3>4. Bytes(Evictable) <= Bytes(Q)
            BY <1>1, <3>3, BytesMonotone
        <3>5. Bytes(R) <= Bytes(created)
            BY <1>1, BytesMonotone
        <3>6. Bytes(P) \in Nat /\ Bytes(Q) \in Nat /\ Bytes(R) \in Nat
            BY <1>1, BytesFinite
        <3>7. drift \in Int
            BY DEF TypeOK
        <3> HIDE DEF P, Q, R
        <3>8. Bytes(Evictable) <= MaxSize + Bytes(created)
            BY <1>1, <1>2, <2>5, <3>1, <3>2, <3>4, <3>5, <3>6, <3>7
        <3> QED
            BY <2>3, <3>8
    <2> QED
        BY <2>1, <2>4, <2>5
<1>7. ASSUME UNCHANGED vars PROVE Bytes(Evictable') <= MaxSize + Bytes(created')
    <2>1. pc = "done" /\ Evictable' = Evictable /\ created' = created
        BY <1>7 DEF vars, Evictable, Present
    <2> QED
        BY <2>1 DEF KeptFits
<1>8. ~(PickEntries \/ ExpireEntries \/ PickOutputs \/ ExpireOutputs \/ NextPage \/ Fail)
    BY DEF PickEntries, ExpireEntries, PickOutputs, ExpireOutputs, NextPage, Fail
<1>9. ~Builds
    <2>1. Builds => pc' = pc /\ pc \in PassSteps
        BY DEF Builds, TouchEntry, TouchOutput, PutOutput, DropOutput, ReadsEntries, ReadsOutputs,
           PassSteps
    <2> QED
        BY <2>1 DEF PassSteps
<1> QED
    BY <1>4, <1>5, <1>6, <1>7, <1>8, <1>9 DEF Next, Pass
-----------------------------------------------------------------------------
(* The invariant.                                                          *)

LEMMA Initially == Init => PassInvariant
<1> SUFFICES ASSUME Init PROVE PassInvariant
    OBVIOUS
<1>1. PICK ats \in [Outputs -> 0..MaxTime] :
        output = [o \in Outputs |-> IF ats[o] = 0 THEN NoRow ELSE [at |-> ats[o], id |-> FirstId[o]]]
    BY DEF Init
<1>2. Cardinality(Outputs) \in Nat
    BY CatalogPassAssumption, FS_CardinalityType DEF CatalogPassAssumption
<1>3. TypeOK
    <2> USE CatalogPassAssumption DEF CatalogPassAssumption
    <2>1. /\ output \in [Outputs -> {NoRow} \cup [at : Times, id : Nat]]
          /\ \A o \in Present : output[o].id = FirstId[o]
        BY <1>1, <1>2 DEF Present, Times
    <2>2. \A o \in Present : output[o].id < nextId
        BY <1>2, <2>1 DEF Init, Present
    <2>3. \A o, x \in Present : output[o].id = output[x].id => o = x
        BY <2>1 DEF Present
    <2>4. nextId \in 1..(MaxId + 1)
        BY <1>2 DEF Init
    <2>5. candidates \in Seq(CandidateType) /\ DOMAIN candidates = {}
        BY DEF Init
    <2> QED
        BY <2>1, <2>2, <2>3, <2>4, <2>5 DEF Init, TypeOK, PassSteps
<1>4. pc = "entries" /\ candidates = <<>> /\ DOMAIN candidates = {} /\ drift = 0
    BY DEF Init
<1>5. EntriesAhead
    <2>1. \A a \in oldEntries : a > 0
        BY CatalogPassAssumption DEF CatalogPassAssumption, Init
    <2> QED
        BY <2>1 DEF Init, EntriesAhead
<1>6. CandidatesTrue /\ CandidatesInOrder
    BY <1>4 DEF CandidatesTrue, CandidatesInOrder, Planning
<1>7. PagesCover /\ ColdestListed /\ PlanCovers /\ SizeCounted /\ KeptFits
    BY <1>4 DEF PagesCover, ColdestListed, PlanCovers, SizeCounted, KeptFits, Planning
<1> QED
    BY <1>3, <1>5, <1>6, <1>7 DEF PassInvariant

LEMMA InvariantStep == PassInvariant /\ [Next]_vars => PassInvariant'
<1> SUFFICES ASSUME PassInvariant, [Next]_vars PROVE PassInvariant'
    OBVIOUS
<1>1. /\ TypeOK /\ EntriesAhead /\ CandidatesTrue /\ CandidatesInOrder /\ PagesCover
      /\ ColdestListed /\ PlanCovers /\ SizeCounted /\ KeptFits
    BY DEF PassInvariant
<1>2. TypeOK' /\ EntriesAhead'
    BY <1>1, TypeStep, EntriesStep
<1>3. CandidatesTrue' /\ CandidatesInOrder'
    BY <1>1, CandidatesStep, OrderStep
<1>4. PagesCover' /\ ColdestListed'
    BY <1>1, CoverStep, ColdestStep
<1>5. PlanCovers' /\ SizeCounted' /\ KeptFits'
    BY <1>1, <1>2, PlanCoversStep, CountedStep, FitsStep
<1> QED
    BY <1>2, <1>3, <1>4, <1>5 DEF PassInvariant

(* Every reachable state satisfies the invariant: what the plan lists is   *)
(* coldest first, each row as it is or changed by a build, and the bytes   *)
(* counted are those of the rows, but for what builds add.                 *)
THEOREM Invariant == Spec => []PassInvariant
    BY Initially, InvariantStep, PTL DEF Spec

(* Every variable keeps to its values, rows keep ids of their own, and no  *)
(* output is a candidate twice (planToMaxSize's seen set).                 *)
THEOREM Typing == Spec => []TypeOK
<1>1. PassInvariant => TypeOK
    BY DEF PassInvariant
<1> QED
    BY <1>1, Invariant, PTL

(* A pass that ends has made the cache fit (planToMaxSize, then            *)
(* evictToMaxSize): whatever builds did meanwhile, what eviction could     *)
(* take of the rows they left alone is within the budget, but for the      *)
(* bytes they put.                                                         *)
THEOREM Fits == Spec => []KeptFits
<1>1. PassInvariant => KeptFits
    BY DEF PassInvariant
<1> QED
    BY <1>1, Invariant, PTL
-----------------------------------------------------------------------------
(* What a step may never do.                                               *)

LEMMA EntriesExpiredStep ==
    PassInvariant /\ [Next]_vars =>
        [pc = "entries" /\ pc' = "outputs" => oldEntries \subseteq disturbed]_vars
<1> SUFFICES ASSUME TypeOK, EntriesAhead, [Next]_vars, pc = "entries", pc' = "outputs"
             PROVE  oldEntries \subseteq disturbed
    BY DEF PassInvariant
<1>1. NextEntries = {}
    <2>1. PickEntries
        BY DEF Next, Pass, Builds, ExpireEntries, PickOutputs, ExpireOutputs, PlanEviction, NextPage,
           ReadSize, EvictNext, Fail, TouchEntry, TouchOutput, PutOutput, DropOutput, vars
    <2> QED
        BY <2>1 DEF PickEntries
<1>2. OldAfterCursor = {}
    BY <1>1, Batches
<1> QED
    BY <1>2 DEF OldAfterCursor, EntriesAhead

(* Expiry passes over no old entry that builds left alone                  *)
(* (deleteStaleEntries, whose batches resume at a cursor).                 *)
THEOREM Expired == Spec => EntriesExpired
    BY Invariant, EntriesExpiredStep, PTL DEF Spec, EntriesExpired

(* An output goes only by an eviction that counted the cache too large.    *)
LEMMA EvictedPops ==
    ASSUME PassInvariant, [Next]_vars, NEW o \in Outputs, Evicted(o)
    PROVE  Pop /\ o = candidates[1].output /\ StillCold(candidates[1])
<1>1. TypeOK
    BY DEF PassInvariant
<1>2. EvictNext
    BY <1>1, BuildsStand
    DEF Evicted, Next, Pass, PickEntries, ExpireEntries, PickOutputs, ExpireOutputs, PlanEviction,
        NextPage, ReadSize, Fail, vars, plan
<1>3. Pop
    BY <1>1, <1>2, Evicting DEF Evicted, Present
<1>4. o \notin Present'
    BY DEF Evicted, Present
<1> QED
    BY <1>1, <1>3, <1>4, PopStands DEF Evicted

LEMMA NeverOverEvictsStep ==
    PassInvariant /\ [Next]_vars =>
        [(\E o \in Outputs : Evicted(o)) => Bytes(Present) - drift > MaxSize]_vars
<1> SUFFICES ASSUME PassInvariant, [Next]_vars, NEW o \in Outputs, Evicted(o)
             PROVE  Bytes(Present) - drift > MaxSize
    OBVIOUS
<1>1. total > MaxSize /\ pc = "evict"
    BY EvictedPops DEF Pop
<1> QED
    BY <1>1 DEF PassInvariant, SizeCounted

(* No output is evicted once the cache, as it was when its size was read   *)
(* again, is within the budget (evictToMaxSize stops at the real budget).  *)
THEOREM NoMore == Spec => NeverOverEvicts
    BY Invariant, NeverOverEvictsStep, PTL DEF Spec, NeverOverEvicts

LEMMA ColdestFirstStep ==
    PassInvariant /\ [Next]_vars =>
        [\A o \in Outputs \ disturbed, x \in Evictable :
            Evicted(o) => ~ColderThan(Candidate(x), Candidate(o))]_vars
<1> SUFFICES ASSUME PassInvariant, [Next]_vars, NEW o \in Outputs \ disturbed, Evicted(o),
                    NEW x \in Evictable
             PROVE  ~ColderThan(Candidate(x), Candidate(o))
    OBVIOUS
<1> DEFINE c == candidates[1]
<1>1. TypeOK /\ CandidatesTrue /\ CandidatesInOrder /\ ColdestListed
    BY DEF PassInvariant
<1>2. Pop /\ o = c.output /\ StillCold(c)
    BY EvictedPops
<1>3. 1 \in DOMAIN candidates /\ candidates \in Seq(CandidateType)
    BY <1>1, <1>2, PopStands DEF TypeOK
<1>4. o \in Present \ disturbed /\ x \in Present \ disturbed /\ pc = "evict"
    BY <1>2 DEF Evicted, Evictable
<1>5. c = Candidate(o)
    BY <1>1, <1>2, <1>3, <1>4 DEF CandidatesTrue
<1>6. Candidate(o) \in CandidateType /\ Candidate(x) \in CandidateType
    BY <1>1, <1>4, Tables DEF Table
<1>7. CASE x \in Seen
    <2>1. PICK i \in DOMAIN candidates : x = candidates[i].output
        BY <1>7 DEF Seen
    <2>2. candidates[i] = Candidate(x)
        BY <1>1, <1>4, <2>1 DEF CandidatesTrue
    <2>3. i = 1 \/ 1 < i
        BY <1>3
    <2>4. CASE i = 1
        BY <1>5, <1>6, <2>2, <2>4, ColderOrder
    <2>5. CASE 1 < i
        <3>1. ColderThan(Candidate(o), Candidate(x))
            BY <1>1, <1>3, <1>5, <2>2, <2>5 DEF CandidatesInOrder
        <3> QED
            BY <1>6, <3>1, ColderOrder
    <2> QED
        BY <2>3, <2>4, <2>5
<1>8. CASE x \notin Seen
    <2>1. ColderThan(Candidate(o), Candidate(x))
        BY <1>1, <1>3, <1>4, <1>5, <1>8 DEF ColdestListed, Planning
    <2> QED
        BY <1>6, <2>1, ColderOrder
<1> QED
    BY <1>7, <1>8

(* No output is evicted before a colder one that could be evicted and that *)
(* no build touched (planToMaxSize and evictionCandidates: pages resume at *)
(* the last row of the index, whole rows in its order).                    *)
THEOREM Coldest == Spec => ColdestFirst
    BY Invariant, ColdestFirstStep, PTL DEF Spec, ColdestFirst
=============================================================================
