------------------------- MODULE CorrelationProofs -------------------------
(***************************************************************************)
(* Proofs about what is read of a target, for any records, any number of   *)
(* transactions and rows, and any length of the audit page.                *)
(***************************************************************************)
EXTENDS Correlation, FiniteSetTheorems, SequenceTheorems, TLAPS

-----------------------------------------------------------------------------
(***************************************************************************)
(* Positions: the rank of a position among others of a finite set, and the *)
(* position of a rank, are each other's inverses and keep the order.       *)
(***************************************************************************)

Positions(I) == IsFiniteSet(I) /\ I \subseteq Nat

LEMMA SomePositions ==
    ASSUME NEW I, Positions(I), NEW J, J \subseteq I
    PROVE  /\ Positions(J)
           /\ Cardinality(I) \in Nat /\ Cardinality(J) \in Nat
           /\ Cardinality(J) <= Cardinality(I)
           /\ Cardinality(J) = Cardinality(I) => J = I
<1>1. IsFiniteSet(I) /\ I \subseteq Nat
  BY DEF Positions
<1>2. /\ IsFiniteSet(J) /\ Cardinality(J) <= Cardinality(I)
      /\ Cardinality(I) = Cardinality(J) => I = J
  BY <1>1, FS_Subset
<1> QED
  BY <1>1, <1>2, FS_CardinalityType DEF Positions

LEMMA RankType ==
    ASSUME NEW I, Positions(I), NEW i \in I
    PROVE  /\ Rank(I, i) \in Nat /\ 1 <= Rank(I, i)
           /\ Rank(I, i) <= Cardinality(I)
<1> DEFINE L == {j \in I : j <= i}
<1>1. i \in L /\ L \subseteq I
  BY DEF Positions
<1>2. Cardinality(L) <= Cardinality(I) /\ Cardinality(L) \in Nat
  BY <1>1, SomePositions
<1>3. IsFiniteSet(L)
  BY <1>1, SomePositions DEF Positions
<1>4. Cardinality(L) # 0
  BY <1>1, <1>3, FS_EmptySet
<1> QED
  BY <1>2, <1>4 DEF Rank

LEMMA RankIncreases ==
    ASSUME NEW I, Positions(I), NEW i \in I, NEW j \in I, i < j
    PROVE  Rank(I, i) < Rank(I, j)
<1> DEFINE K == {m \in I : m <= i}
           L == {m \in I : m <= j}
<1> \A m \in I : m \in Nat
  BY DEF Positions
<1>1. K \subseteq L /\ L \subseteq I /\ j \in L /\ j \notin K
  OBVIOUS
<1>2. Positions(L)
  BY <1>1, SomePositions
<1>3. /\ Cardinality(K) <= Cardinality(L) /\ Cardinality(K) # Cardinality(L)
      /\ Cardinality(K) \in Nat /\ Cardinality(L) \in Nat
  BY <1>1, <1>2, SomePositions
<1> QED
  BY <1>3 DEF Rank

LEMMA RankOrder ==
    ASSUME NEW I, Positions(I), NEW i \in I, NEW j \in I
    PROVE  /\ i < j <=> Rank(I, i) < Rank(I, j)
           /\ i = j <=> Rank(I, i) = Rank(I, j)
<1>1. Rank(I, i) \in Nat /\ Rank(I, j) \in Nat
  BY RankType
<1>2. i \in Nat /\ j \in Nat
  BY DEF Positions
<1>3. (i < j => Rank(I, i) < Rank(I, j)) /\ (j < i => Rank(I, j) < Rank(I, i))
  BY RankIncreases
<1> QED
  BY <1>1, <1>2, <1>3

LEMMA NthOfRank ==
    ASSUME NEW I, Positions(I), NEW i \in I
    PROVE  Nth(I, Rank(I, i)) = i
  BY RankOrder DEF Nth

LEMMA RankOfNth ==
    ASSUME NEW I, Positions(I), NEW n \in 1 .. Cardinality(I)
    PROVE  Nth(I, n) \in I /\ Rank(I, Nth(I, n)) = n
<1> DEFINE c == Cardinality(I)
           f == [i \in I |-> Rank(I, i)]
<1>1. c \in Nat
  BY SomePositions
<1>2. IsFiniteSet(1 .. c) /\ Cardinality(1 .. c) = c
  BY <1>1, FS_Interval
<1>3. f \in [I -> 1 .. c]
  BY <1>1, RankType
<1>4. f \in Injection(I, 1 .. c)
  BY <1>3, RankOrder DEF Injection, IsInjective
<1> HIDE DEF f
<1>5. f \in Surjection(I, 1 .. c)
  BY <1>2, <1>4, FS_Injection
<1>6. PICK i \in I : f[i] = n
  BY <1>5 DEF Surjection
<1>7. Rank(I, i) = n
  BY <1>6 DEF f
<1> QED
  BY <1>7 DEF Nth

\* A set of positions has a least one.
LEMMA LeastPosition ==
    ASSUME NEW I, Positions(I), I # {}
    PROVE  \E i \in I : \A j \in I : i <= j
<1>1. PICK k \in I : TRUE
  OBVIOUS
<1>2. 1 \in 1 .. Cardinality(I)
  BY <1>1, RankType, SomePositions
<1>3. Nth(I, 1) \in I /\ Rank(I, Nth(I, 1)) = 1
  BY <1>2, RankOfNth
<1>4. ASSUME NEW j \in I PROVE Nth(I, 1) <= j
  <2>1. Rank(I, j) \in Nat /\ 1 <= Rank(I, j)
    BY RankType
  <2>2. ~ (j < Nth(I, 1))
    BY <1>3, <2>1, RankOrder
  <2>3. Nth(I, 1) \in Nat /\ j \in Nat
    BY <1>3 DEF Positions
  <2> QED
    BY <2>2, <2>3
<1> QED
  BY <1>3, <1>4

-----------------------------------------------------------------------------
(***************************************************************************)
(* Sequences: what Pick and Unique return.                                 *)
(***************************************************************************)

LEMMA PickRanks ==
    ASSUME NEW S, NEW s \in Seq(S), NEW I, I \subseteq DOMAIN s
    PROVE  /\ Positions(I) /\ Cardinality(I) \in Nat
           /\ DOMAIN Pick(s, I) = 1 .. Cardinality(I)
           /\ \A n \in 1 .. Cardinality(I) :
                Nth(I, n) \in I /\ Pick(s, I)[n] = s[Nth(I, n)]
           /\ \A i \in I : Rank(I, i) \in 1 .. Cardinality(I)
                            /\ Pick(s, I)[Rank(I, i)] = s[i]
<1>1. Positions(DOMAIN s)
  <2>1. Len(s) \in Nat /\ DOMAIN s = 1 .. Len(s)
    OBVIOUS
  <2> QED
    BY <2>1, FS_Interval DEF Positions
<1>2. Positions(I) /\ Cardinality(I) \in Nat
  BY <1>1, SomePositions
<1>3. \A n \in 1 .. Cardinality(I) :
        Nth(I, n) \in I /\ Pick(s, I)[n] = s[Nth(I, n)]
  BY <1>2, RankOfNth DEF Pick
<1>4. \A i \in I : Rank(I, i) \in 1 .. Cardinality(I) /\ Nth(I, Rank(I, i)) = i
  BY <1>2, RankType, NthOfRank
<1> QED
  BY <1>2, <1>3, <1>4 DEF Pick

LEMMA PickFacts ==
    ASSUME NEW S, NEW s \in Seq(S), NEW I, I \subseteq DOMAIN s,
           NEW T, \A i \in I : s[i] \in T
    PROVE  /\ Pick(s, I) \in Seq(T)
           /\ Len(Pick(s, I)) = Cardinality(I)
           /\ ToSet(Pick(s, I)) = {s[i] : i \in I}
<1> DEFINE c == Cardinality(I)
           p == Pick(s, I)
<1>1. c \in Nat /\ DOMAIN p = 1 .. c
  BY PickRanks
<1>2. \A n \in 1 .. c : Nth(I, n) \in I /\ p[n] = s[Nth(I, n)]
  BY PickRanks
<1>3. \A i \in I : Rank(I, i) \in 1 .. c /\ p[Rank(I, i)] = s[i]
  BY PickRanks
<1>4. p = [n \in 1 .. c |-> p[n]]
  BY <1>1 DEF Pick
<1>5. p \in [1 .. c -> T]
  BY <1>2, <1>4
<1> HIDE DEF p, c
<1>6. p \in Seq(T) /\ Len(p) = c
  BY <1>1, <1>5
<1>7. ToSet(p) = {s[i] : i \in I}
  BY <1>1, <1>2, <1>3 DEF ToSet
<1> QED
  BY <1>6, <1>7 DEF p, c

LEMMA PickInjective ==
    ASSUME NEW S, NEW s \in Seq(S), NEW I, I \subseteq DOMAIN s,
           \A i, j \in I : s[i] = s[j] => i = j
    PROVE  IsInjective(Pick(s, I))
<1>1. Positions(I) /\ DOMAIN Pick(s, I) = 1 .. Cardinality(I)
  BY PickRanks
<1>2. ASSUME NEW m \in 1 .. Cardinality(I), NEW n \in 1 .. Cardinality(I),
             Pick(s, I)[m] = Pick(s, I)[n]
      PROVE  m = n
  <2>1. Nth(I, m) = Nth(I, n)
    BY <1>2, PickRanks
  <2> QED
    BY <1>1, <2>1, RankOfNth
<1> QED
  BY <1>1, <1>2 DEF IsInjective

\* Only the elements at the positions matter.
LEMMA PickSame ==
    ASSUME NEW S, NEW s \in Seq(S), NEW T, NEW t \in Seq(T),
           NEW I, I \subseteq DOMAIN s, I \subseteq DOMAIN t,
           \A i \in I : s[i] = t[i]
    PROVE  Pick(s, I) = Pick(t, I)
<1>1. \A n \in 1 .. Cardinality(I) : s[Nth(I, n)] = t[Nth(I, n)]
  BY PickRanks
<1> QED
  BY <1>1 DEF Pick

LEMMA PrefixByElement ==
    ASSUME NEW S, NEW s \in Seq(S), NEW T, NEW t \in Seq(T)
    PROVE  IsPrefix(s, t) <=> /\ Len(s) <= Len(t)
                              /\ \A i \in 1 .. Len(s) : s[i] = t[i]
  BY DEF IsPrefix

\* A list keeps its place in a longer one if what is new comes after it.
LEMMA PickPrefix ==
    ASSUME NEW S, NEW s \in Seq(S), NEW t \in Seq(S),
           NEW I, I \subseteq DOMAIN s, NEW J, J \subseteq DOMAIN t, I \subseteq J,
           \A i \in I : s[i] = t[i],
           \A i \in I, j \in J \ I : i < j
    PROVE  IsPrefix(Pick(s, I), Pick(t, J))
<1>1. Positions(I) /\ Positions(J)
  BY PickRanks
<1>2. ASSUME NEW i \in I PROVE Rank(J, i) = Rank(I, i)
  <2>1. \A j \in J : j \in Nat
    BY <1>1 DEF Positions
  <2>2. {j \in J : j <= i} = {j \in I : j <= i}
    BY <2>1
  <2> QED
    BY <2>2 DEF Rank
<1>3. ASSUME NEW n \in 1 .. Cardinality(I)
      PROVE  n \in 1 .. Cardinality(J) /\ Nth(J, n) = Nth(I, n)
  <2>1. Nth(I, n) \in I /\ Rank(I, Nth(I, n)) = n
    BY <1>1, RankOfNth
  <2>2. Nth(I, n) \in J /\ Rank(J, Nth(I, n)) = n
    BY <1>2, <2>1
  <2> QED
    BY <1>1, <2>2, RankType, NthOfRank, SomePositions
<1>4. \A n \in 1 .. Cardinality(I) : Pick(s, I)[n] = Pick(t, J)[n]
  BY <1>3, PickRanks
<1>5. Cardinality(I) <= Cardinality(J)
  BY <1>1, SomePositions
<1>6. /\ Pick(s, I) \in Seq(S) /\ Len(Pick(s, I)) = Cardinality(I)
      /\ Pick(t, J) \in Seq(S) /\ Len(Pick(t, J)) = Cardinality(J)
  <2>1. (\A i \in I : s[i] \in S) /\ (\A j \in J : t[j] \in S)
    OBVIOUS
  <2> QED
    BY <2>1, PickFacts
<1> QED
  BY <1>4, <1>5, <1>6, PrefixByElement

LEMMA AppendFacts ==
    ASSUME NEW S, NEW s \in Seq(S), NEW e \in S
    PROVE  /\ Append(s, e) \in Seq(S)
           /\ Len(s) \in Nat /\ Len(Append(s, e)) = Len(s) + 1
           /\ DOMAIN s = 1 .. Len(s) /\ DOMAIN Append(s, e) = 1 .. Len(s) + 1
           /\ \A i \in DOMAIN s : Append(s, e)[i] = s[i]
           /\ Append(s, e)[Len(s) + 1] = e
  BY AppendProperties

LEMMA UniqueFacts ==
    ASSUME NEW S, NEW s \in Seq(S)
    PROVE  /\ Unique(s) \in Seq(S)
           /\ IsInjective(Unique(s))
           /\ ToSet(Unique(s)) = ToSet(s)
<1> DEFINE F == Firsts(s)
<1>1. F \subseteq DOMAIN s /\ \A i \in F : s[i] \in S
  BY DEF Firsts
<1>2. \A i, j \in F : s[i] = s[j] => i = j
  BY DEF Firsts
<1>3. ASSUME NEW i \in DOMAIN s PROVE \E j \in F : s[j] = s[i]
  <2> DEFINE I == {j \in DOMAIN s : s[j] = s[i]}
  <2>1. I \subseteq DOMAIN s /\ i \in I
    OBVIOUS
  <2>2. Positions(I)
    BY <2>1, PickRanks
  <2>3. PICK k \in I : \A j \in I : k <= j
    BY <2>1, <2>2, LeastPosition
  <2>4. k \in DOMAIN s /\ s[k] = s[i]
    BY <2>3
  <2>5. \A j \in 1 .. k - 1 : s[j] # s[k]
    BY <2>3, <2>4
  <2> QED
    BY <2>4, <2>5 DEF Firsts
<1>4. {s[i] : i \in F} = ToSet(s)
  BY <1>1, <1>3 DEF ToSet
<1> QED
  BY <1>1, <1>2, <1>4, PickFacts, PickInjective DEF Unique

LEMMA UniquePrefix ==
    ASSUME NEW S, NEW s \in Seq(S), NEW t \in Seq(S), IsPrefix(s, t)
    PROVE  IsPrefix(Unique(s), Unique(t))
<1>1. Len(s) <= Len(t) /\ \A i \in 1 .. Len(s) : s[i] = t[i]
  BY PrefixByElement
<1>2. /\ Firsts(s) \subseteq DOMAIN s /\ Firsts(t) \subseteq DOMAIN t
      /\ \A i \in Firsts(s) : s[i] = t[i]
  BY <1>1 DEF Firsts
<1>3. Firsts(s) \subseteq Firsts(t)
  BY <1>1 DEF Firsts
<1>4. \A i \in Firsts(s), j \in Firsts(t) \ Firsts(s) : i < j
  BY <1>1 DEF Firsts
<1> QED
  BY <1>2, <1>3, <1>4, PickPrefix DEF Unique

-----------------------------------------------------------------------------
(***************************************************************************)
(* Finite images, and what a column of the ledger and a list of the        *)
(* profile hold.                                                           *)
(***************************************************************************)

\* The image of a finite set under a function.
LEMMA FiniteImage ==
    ASSUME NEW X, IsFiniteSet(X), NEW f, X \subseteq DOMAIN f
    PROVE  /\ IsFiniteSet({f[x] : x \in X})
           /\ Cardinality({f[x] : x \in X}) \in Nat
<1> DEFINE Y == {f[x] : x \in X}
           g == [x \in X |-> f[x]]
<1>1. g \in Surjection(X, Y)
  BY DEF Surjection
<1> HIDE DEF g, Y
<1>2. IsFiniteSet(Y)
  BY <1>1, FS_Surjection
<1> QED
  BY <1>2, FS_CardinalityType DEF Y

LEMMA FiniteElements ==
    ASSUME NEW S, NEW s \in Seq(S)
    PROVE  IsFiniteSet(ToSet(s)) /\ ToSet(s) \subseteq S
<1>1. Len(s) \in Nat /\ DOMAIN s = 1 .. Len(s)
  OBVIOUS
<1>2. IsFiniteSet(DOMAIN s)
  BY <1>1, FS_Interval
<1> QED
  BY <1>1, <1>2, FiniteImage DEF ToSet

Values == Seq(STRING \ {""})

LEMMA FieldsOfRecord ==
    ASSUME NEW r \in Record
    PROVE  \A f \in Fields : r[f] \in Values
  BY DEF Record, Values

LEMMA ColumnFacts ==
    ASSUME NEW R \in Seq(Record), NEW f \in Fields
    PROVE  /\ Column(f, R) \in Seq(Values)
           /\ Len(Column(f, R)) = Len(R)
           /\ \A i \in DOMAIN R : Column(f, R)[i] = R[i][f]
           /\ ToSet(Column(f, R)) = {r[f] : r \in ToSet(R)}
<1>1. /\ Len(R) \in Nat /\ DOMAIN R = 1 .. Len(R)
      /\ \A i \in DOMAIN R : R[i][f] \in Values
  BY FieldsOfRecord
<1>2. Column(f, R) = [i \in 1 .. Len(R) |-> R[i][f]]
  BY <1>1 DEF Column
<1>3. Column(f, R) \in [1 .. Len(R) -> Values]
  BY <1>1, <1>2
<1>4. Column(f, R) \in Seq(Values) /\ Len(Column(f, R)) = Len(R)
  BY <1>1, <1>2, <1>3
<1>5. {Column(f, R)[i] : i \in DOMAIN Column(f, R)} = {r[f] : r \in {R[i] : i \in DOMAIN R}}
  BY <1>1, <1>2
<1> QED
  BY <1>1, <1>2, <1>4, <1>5 DEF ToSet

LEMMA ColumnPrefix ==
    ASSUME NEW R \in Seq(Record), NEW Q \in Seq(Record), IsPrefix(R, Q),
           NEW f \in Fields
    PROVE  IsPrefix(Column(f, R), Column(f, Q))
<1>1. Len(R) <= Len(Q) /\ \A i \in 1 .. Len(R) : R[i] = Q[i]
  BY PrefixByElement
<1>2. /\ Column(f, R) \in Seq(Values) /\ Len(Column(f, R)) = Len(R)
      /\ Column(f, Q) \in Seq(Values) /\ Len(Column(f, Q)) = Len(Q)
  BY ColumnFacts
<1>3. \A i \in 1 .. Len(R) : Column(f, R)[i] = Column(f, Q)[i]
  BY <1>1, ColumnFacts
<1> QED
  BY <1>1, <1>2, <1>3, PrefixByElement

LEMMA DedupFacts ==
    ASSUME NEW v \in Seq(Values)
    PROVE  /\ DedupPreserve(v) \in Seq(Values \ {Null})
           /\ IsInjective(DedupPreserve(v))
           /\ ToSet(DedupPreserve(v)) = ToSet(v) \ {Null}
<1> DEFINE I == NonNull(v)
<1>1. I \subseteq DOMAIN v /\ \A i \in I : v[i] \in Values \ {Null}
  BY DEF NonNull
<1>2. Pick(v, I) \in Seq(Values \ {Null}) /\ ToSet(Pick(v, I)) = {v[i] : i \in I}
  BY <1>1, PickFacts
<1>3. {v[i] : i \in I} = ToSet(v) \ {Null}
  BY DEF ToSet, NonNull
<1> QED
  BY <1>2, <1>3, UniqueFacts DEF DedupPreserve

LEMMA DedupPrefix ==
    ASSUME NEW v \in Seq(Values), NEW w \in Seq(Values), IsPrefix(v, w)
    PROVE  IsPrefix(DedupPreserve(v), DedupPreserve(w))
<1>1. Len(v) <= Len(w) /\ \A i \in 1 .. Len(v) : v[i] = w[i]
  BY PrefixByElement
<1>2. /\ NonNull(v) \subseteq DOMAIN v /\ NonNull(w) \subseteq DOMAIN w
      /\ NonNull(v) \subseteq NonNull(w)
      /\ \A i \in NonNull(v) : v[i] = w[i]
      /\ \A i \in NonNull(v), j \in NonNull(w) \ NonNull(v) : i < j
  BY <1>1 DEF NonNull
<1>3. IsPrefix(Pick(v, NonNull(v)), Pick(w, NonNull(w)))
  BY <1>2, PickPrefix
<1>4. Pick(v, NonNull(v)) \in Seq(Values) /\ Pick(w, NonNull(w)) \in Seq(Values)
  <2>1. /\ \A i \in NonNull(v) : v[i] \in Values
        /\ \A i \in NonNull(w) : w[i] \in Values
    BY <1>2
  <2> QED
    BY <1>2, <2>1, PickFacts
<1> QED
  BY <1>3, <1>4, UniquePrefix DEF DedupPreserve

-----------------------------------------------------------------------------
(***************************************************************************)
(* The profile of a ledger without repetition tells the exposures in it.   *)
(***************************************************************************)

SourcesIn(E, p) ==
    {r.database_name : r \in {x \in E : x.password = p /\ x.database_name # Null}}

ReusedIn(E) ==
    {p \in {r.password : r \in E} \ {Null} : Cardinality(SourcesIn(E, p)) > 1}

ListsTell(profile, E) ==
    \A f \in Listed :
        /\ profile.lists[f] \in Seq(Values \ {Null})
        /\ ToSet(profile.lists[f]) = {r[f] : r \in E} \ {Null}
        /\ IsInjective(profile.lists[f])

ReuseTells(profile, E) ==
    /\ ToSet(profile.reused_passwords) = ReusedIn(E)
    /\ IsInjective(profile.reused_passwords)
    /\ profile.reuse_counts = [p \in ReusedIn(E) |-> Cardinality(SourcesIn(E, p))]

SourcesTell(profile, E) ==
    profile.breach_sources =
        [d \in {r.database_name : r \in E} \ {Null} |->
           Cardinality({r \in E : r.database_name = d})]

Tells(profile, E) ==
    ListsTell(profile, E) /\ ReuseTells(profile, E) /\ SourcesTell(profile, E)

LEMMA ListedFields ==
    Listed \subseteq Fields /\ {"password", "database_name"} \subseteq Fields
  BY DEF Listed, Fields

LEMMA ProfileLists ==
    ASSUME NEW R \in Seq(Record)
    PROVE  ListsTell(BuildProfile(R), ToSet(R))
<1> SUFFICES ASSUME NEW f \in Listed
             PROVE  /\ DedupPreserve(Column(f, R)) \in Seq(Values \ {Null})
                    /\ ToSet(DedupPreserve(Column(f, R))) = {r[f] : r \in ToSet(R)} \ {Null}
                    /\ IsInjective(DedupPreserve(Column(f, R)))
  BY DEF ListsTell, BuildProfile
<1>1. f \in Fields
  BY ListedFields
<1>2. Column(f, R) \in Seq(Values) /\ ToSet(Column(f, R)) = {r[f] : r \in ToSet(R)}
  BY <1>1, ColumnFacts
<1> QED
  BY <1>2, DedupFacts

\* A password counts the sources of the records that have both.
LEMMA BreachesOfPasswords ==
    ASSUME NEW R \in Seq(Record)
    PROVE  /\ DOMAIN PwBreaches(R) =
                {r.password : r \in {x \in ToSet(R) : x.database_name # Null}} \ {Null}
           /\ \A p \in DOMAIN PwBreaches(R) : PwBreaches(R)[p] = SourcesIn(ToSet(R), p)
<1> DEFINE E == ToSet(R)
           sourced == {r \in E : r.password # Null /\ r.database_name # Null}
<1> HIDE DEF E
<1>1. PwBreaches(R) = [p \in {r.password : r \in sourced} |->
                         {r.database_name : r \in {x \in sourced : x.password = p}}]
  BY DEF PwBreaches, E
<1>2. {r.password : r \in sourced} =
        {r.password : r \in {x \in E : x.database_name # Null}} \ {Null}
  OBVIOUS
<1>3. ASSUME NEW p, p # Null
      PROVE  {x \in sourced : x.password = p} =
               {x \in E : x.password = p /\ x.database_name # Null}
  BY <1>3
<1>4. \A p \in {r.password : r \in sourced} : p # Null
  OBVIOUS
<1> HIDE DEF sourced
<1>5. \A p \in {r.password : r \in sourced} : PwBreaches(R)[p] = SourcesIn(E, p)
  BY <1>1, <1>3, <1>4 DEF SourcesIn
<1> QED
  BY <1>1, <1>2, <1>5 DEF E

LEMMA ProfileReuse ==
    ASSUME NEW R \in Seq(Record)
    PROVE  ReuseTells(BuildProfile(R), ToSet(R))
<1> DEFINE E == ToSet(R)
           breaches == PwBreaches(R)
           N == NonNull(Column("database_name", R))
           sourced == Pick(R, N)
           listed == DedupPreserve(Column("password", sourced))
           I == {i \in DOMAIN listed : Cardinality(breaches[listed[i]]) > 1}
           reused == Pick(listed, I)
<1>1. N = {i \in DOMAIN R : R[i].database_name # Null}
  <2>1. Column("database_name", R) = [i \in DOMAIN R |-> R[i].database_name]
    BY DEF Column
  <2> QED
    BY <2>1 DEF NonNull
<1>2. sourced \in Seq(Record) /\ ToSet(sourced) = {x \in E : x.database_name # Null}
  <2>1. N \subseteq DOMAIN R /\ \A i \in N : R[i] \in Record
    BY <1>1
  <2>2. sourced \in Seq(Record) /\ ToSet(sourced) = {R[i] : i \in N}
    BY <2>1, PickFacts
  <2>3. {R[i] : i \in N} = {x \in E : x.database_name # Null}
    BY <1>1 DEF ToSet
  <2> QED
    BY <2>2, <2>3
<1> HIDE DEF sourced
<1>3. /\ listed \in Seq(Values) /\ IsInjective(listed)
      /\ ToSet(listed) = DOMAIN breaches
  <2>1. /\ Column("password", sourced) \in Seq(Values)
        /\ ToSet(Column("password", sourced)) = {r.password : r \in ToSet(sourced)}
    <3>1. "password" \in Fields
      BY ListedFields
    <3> QED
      BY <1>2, <3>1, ColumnFacts
  <2>2. /\ listed \in Seq(Values \ {Null}) /\ IsInjective(listed)
        /\ ToSet(listed) = {r.password : r \in ToSet(sourced)} \ {Null}
    BY <2>1, DedupFacts
  <2>3. listed \in Seq(Values)
    BY <2>2, SeqMonotonic
  <2> QED
    BY <1>2, <2>2, <2>3, BreachesOfPasswords
<1> HIDE DEF listed, breaches, E
<1>4. IsInjective(reused) /\ ToSet(reused) = {listed[i] : i \in I}
  <2>1. /\ I \subseteq DOMAIN listed /\ \A i \in I : listed[i] \in Values
        /\ \A i, j \in I : listed[i] = listed[j] => i = j
    BY <1>3 DEF IsInjective
  <2> QED
    BY <1>3, <2>1, PickFacts, PickInjective
<1>5. {listed[i] : i \in I} = {p \in DOMAIN breaches : Cardinality(breaches[p]) > 1}
  BY <1>3 DEF ToSet
<1>6. {p \in DOMAIN breaches : Cardinality(breaches[p]) > 1} = ReusedIn(E)
  <2>1. /\ DOMAIN breaches =
             {r.password : r \in {x \in E : x.database_name # Null}} \ {Null}
        /\ \A p \in DOMAIN breaches : breaches[p] = SourcesIn(E, p)
    BY BreachesOfPasswords DEF breaches, E
  <2>2. ASSUME NEW p \in {r.password : r \in E} \ {Null}, p \notin DOMAIN breaches
        PROVE  Cardinality(SourcesIn(E, p)) = 0
    <3>1. SourcesIn(E, p) = {}
      BY <2>1, <2>2 DEF SourcesIn
    <3> QED
      BY <3>1, FS_EmptySet
  <2>3. DOMAIN breaches \subseteq {r.password : r \in E} \ {Null}
    BY <2>1
  <2> QED
    BY <2>1, <2>2, <2>3 DEF ReusedIn
<1>7. \A p \in ReusedIn(E) : breaches[p] = SourcesIn(E, p)
  BY <1>6, BreachesOfPasswords DEF breaches, E
<1>8. ToSet(reused) = ReusedIn(E)
  BY <1>4, <1>5, <1>6
<1>9. /\ BuildProfile(R).reused_passwords = reused
      /\ BuildProfile(R).reuse_counts = [p \in ToSet(reused) |-> Cardinality(breaches[p])]
  BY DEF BuildProfile, listed, breaches, sourced
<1> QED
  BY <1>4, <1>7, <1>8, <1>9 DEF ReuseTells, E

\* The records of a ledger without repetition are as many as the exposures.
LEMMA ProfileSources ==
    ASSUME NEW R \in Seq(Record), IsInjective(R)
    PROVE  SourcesTell(BuildProfile(R), ToSet(R))
<1> DEFINE E == ToSet(R)
           sources == Column("database_name", R)
           N == NonNull(sources)
           named == Pick(sources, N)
           At(d) == {i \in DOMAIN named : named[i] = d}
<1>1. /\ sources \in Seq(Values) /\ ToSet(sources) = {r.database_name : r \in E}
      /\ \A i \in DOMAIN R : sources[i] = R[i].database_name
      /\ DOMAIN sources = DOMAIN R
  <2>1. "database_name" \in Fields
    BY ListedFields
  <2>2. DOMAIN sources = DOMAIN R
    BY DEF Column
  <2> QED
    BY <2>1, <2>2, ColumnFacts
<1>2. N \subseteq DOMAIN R /\ \A i \in N : sources[i] \in Values
  BY <1>1 DEF NonNull
<1>3. ToSet(named) = {r.database_name : r \in E} \ {Null}
  <2>1. ToSet(named) = {sources[i] : i \in N}
    BY <1>1, <1>2, PickFacts
  <2>2. {sources[i] : i \in N} = ToSet(sources) \ {Null}
    BY <1>1 DEF NonNull, ToSet
  <2> QED
    BY <1>1, <2>1, <2>2
<1>4. /\ Positions(N) /\ DOMAIN named = 1 .. Cardinality(N)
      /\ \A n \in DOMAIN named : Nth(N, n) \in N /\ named[n] = sources[Nth(N, n)]
      /\ \A i \in N : Rank(N, i) \in DOMAIN named /\ named[Rank(N, i)] = sources[i]
  BY <1>1, <1>2, PickRanks
<1> HIDE DEF E, sources, N, named
<1>5. ASSUME NEW d \in ToSet(named)
      PROVE  Cardinality(At(d)) = Cardinality({r \in E : r.database_name = d})
  <2> DEFINE X == {r \in E : r.database_name = d}
             g == [n \in At(d) |-> R[Nth(N, n)]]
  <2>1. d # Null
    BY <1>3, <1>5
  <2>2. ASSUME NEW n \in At(d) PROVE Nth(N, n) \in DOMAIN R /\ R[Nth(N, n)] \in X
    <3>1. Nth(N, n) \in DOMAIN R /\ sources[Nth(N, n)] = d
      BY <1>2, <1>4
    <3>2. R[Nth(N, n)].database_name = d
      BY <1>1, <3>1
    <3>3. R[Nth(N, n)] \in E
      BY <3>1 DEF E, ToSet
    <3> QED
      BY <3>1, <3>2, <3>3
  <2>3. g \in [At(d) -> X]
    BY <2>2
  <2>4. ASSUME NEW m \in At(d), NEW n \in At(d), g[m] = g[n] PROVE m = n
    <3>1. Nth(N, m) = Nth(N, n)
      BY <2>2, <2>4 DEF IsInjective
    <3> QED
      BY <1>4, <3>1, RankOfNth
  <2>5. ASSUME NEW r \in X PROVE \E n \in At(d) : g[n] = r
    <3>1. PICK i \in DOMAIN R : R[i] = r
      BY DEF E, ToSet
    <3>2. i \in N
      BY <1>1, <2>1, <3>1 DEF N, NonNull
    <3>3. Rank(N, i) \in At(d) /\ Nth(N, Rank(N, i)) = i
      BY <1>1, <1>4, <3>1, <3>2, NthOfRank
    <3> QED
      BY <3>1, <3>3
  <2>6. g \in Bijection(At(d), X)
    BY <2>3, <2>4, <2>5 DEF Bijection, Injection, Surjection, IsInjective
  <2>7. IsFiniteSet(At(d))
    <3>1. Cardinality(N) \in Nat
      BY <1>4, SomePositions
    <3>2. IsFiniteSet(DOMAIN named)
      BY <1>4, <3>1, FS_Interval
    <3>3. At(d) \subseteq DOMAIN named
      OBVIOUS
    <3> QED
      BY <3>2, <3>3, FS_Subset
  <2> HIDE DEF g, X, At
  <2>8. Cardinality(X) = Cardinality(At(d))
    BY <2>6, <2>7, FS_Bijection DEF ExistsBijection
  <2> QED
    BY <2>8 DEF X
<1>6. BuildProfile(R).breach_sources = [d \in ToSet(named) |-> Cardinality(At(d))]
  BY DEF BuildProfile, BreachSources, named, N, sources
<1> HIDE DEF At
<1>7. BuildProfile(R).breach_sources =
        [d \in ToSet(named) |-> Cardinality({r \in E : r.database_name = d})]
  BY <1>5, <1>6
<1> QED
  BY <1>3, <1>7 DEF SourcesTell, E

\* However a ledger without repetition is ordered, the profile computed from it
\* says of its exposures what its fields are named for (build_profile).
LEMMA ProfileTells ==
    ASSUME NEW R \in Seq(Record), IsInjective(R)
    PROVE  Tells(BuildProfile(R), ToSet(R))
  BY ProfileLists, ProfileReuse, ProfileSources DEF Tells

-----------------------------------------------------------------------------
(***************************************************************************)
(* Ledgers and audit pages, as they are read from some of the rows.        *)
(***************************************************************************)

Row == [by : Writers, record : Record]
Rows == Seq(Row)

LedgerOf(table, ids) == Unique(Pick(Column("record", table), ids))

LEMMA RecordsOfRows ==
    ASSUME NEW table \in Rows
    PROVE  /\ Column("record", table) \in Seq(Record)
           /\ DOMAIN Column("record", table) = DOMAIN table
           /\ \A i \in DOMAIN table : Column("record", table)[i] = table[i].record
<1>1. table \in Seq(Row) /\ \A row \in Row : row.record \in Record
  BY DEF Rows, Row
<1>2. /\ Len(table) \in Nat /\ DOMAIN table = 1 .. Len(table)
      /\ \A i \in DOMAIN table : table[i].record \in Record
  BY <1>1
<1>3. Column("record", table) = [i \in 1 .. Len(table) |-> table[i].record]
  BY <1>2 DEF Column
<1>4. Column("record", table) \in [1 .. Len(table) -> Record]
  BY <1>2, <1>3
<1> QED
  BY <1>2, <1>3, <1>4

LEMMA LedgerFacts ==
    ASSUME NEW table \in Rows, NEW ids, ids \subseteq DOMAIN table
    PROVE  /\ LedgerOf(table, ids) \in Seq(Record)
           /\ IsInjective(LedgerOf(table, ids))
           /\ ToSet(LedgerOf(table, ids)) = {table[i].record : i \in ids}
<1> DEFINE column == Column("record", table)
<1>1. /\ column \in Seq(Record) /\ ids \subseteq DOMAIN column
      /\ \A i \in ids : column[i] = table[i].record
  BY RecordsOfRows
<1> HIDE DEF column
<1>2. \A i \in ids : column[i] \in Record
  BY <1>1
<1>3. /\ Pick(column, ids) \in Seq(Record)
      /\ ToSet(Pick(column, ids)) = {column[i] : i \in ids}
  BY <1>1, <1>2, PickFacts
<1>4. {column[i] : i \in ids} = {table[i].record : i \in ids}
  BY <1>1
<1> QED
  BY <1>3, <1>4, UniqueFacts DEF LedgerOf, column

\* What was read of the table stays when rows are added to it.
LEMMA LedgerSame ==
    ASSUME NEW table \in Rows, NEW later \in Rows,
           NEW ids, ids \subseteq DOMAIN table, ids \subseteq DOMAIN later,
           \A i \in ids : table[i] = later[i]
    PROVE  LedgerOf(table, ids) = LedgerOf(later, ids)
<1>1. /\ Column("record", table) \in Seq(Record)
      /\ Column("record", later) \in Seq(Record)
      /\ ids \subseteq DOMAIN Column("record", table)
      /\ ids \subseteq DOMAIN Column("record", later)
      /\ \A i \in ids : Column("record", table)[i] = Column("record", later)[i]
  BY RecordsOfRows
<1>2. Pick(Column("record", table), ids) = Pick(Column("record", later), ids)
  BY <1>1, PickSame
<1> QED
  BY <1>2 DEF LedgerOf

\* More ids at the end make a longer ledger, and longer lists of its profile.
LEMMA LedgerPrefix ==
    ASSUME NEW table \in Rows, NEW more, more \subseteq DOMAIN table,
           NEW ids, ids \subseteq more, \A i \in ids, j \in more \ ids : i < j
    PROVE  IsPrefix(LedgerOf(table, ids), LedgerOf(table, more))
<1> DEFINE column == Column("record", table)
<1>1. /\ column \in Seq(Record) /\ ids \subseteq DOMAIN column
      /\ more \subseteq DOMAIN column
  BY RecordsOfRows
<1> HIDE DEF column
<1>2. (\A i \in ids : column[i] \in Record) /\ (\A i \in more : column[i] \in Record)
  BY <1>1
<1>3. Pick(column, ids) \in Seq(Record) /\ Pick(column, more) \in Seq(Record)
  BY <1>1, <1>2, PickFacts
<1>4. IsPrefix(Pick(column, ids), Pick(column, more))
  BY <1>1, PickPrefix
<1> QED
  BY <1>3, <1>4, UniquePrefix DEF LedgerOf, column

LEMMA ListsPrefix ==
    ASSUME NEW R \in Seq(Record), NEW Q \in Seq(Record), IsPrefix(R, Q),
           NEW f \in Listed
    PROVE  IsPrefix(BuildProfile(R).lists[f], BuildProfile(Q).lists[f])
<1>1. f \in Fields
  BY ListedFields
<1>2. IsPrefix(DedupPreserve(Column(f, R)), DedupPreserve(Column(f, Q)))
  BY <1>1, ColumnFacts, ColumnPrefix, DedupPrefix
<1> QED
  BY <1>2 DEF BuildProfile

\* The audit page of some of the lines.
PageOf(lines, A) == Latest(Reverse(Pick(lines, A)))

LEMMA PageFacts ==
    ASSUME NEW S, NEW s \in Seq(S), NEW A, A \subseteq DOMAIN s
    PROVE  LET c == Cardinality(A)  page == PageOf(s, A)
           IN  /\ c \in Nat /\ page \in Seq(S)
               /\ Len(page) = IF c <= AuditLimit THEN c ELSE AuditLimit
               /\ \A k \in 1 .. Len(page) :
                    Nth(A, c + 1 - k) \in A /\ page[k] = s[Nth(A, c + 1 - k)]
               /\ \A i \in A : c + 1 - Rank(A, i) <= AuditLimit
                                 => /\ c + 1 - Rank(A, i) \in 1 .. Len(page)
                                    /\ page[c + 1 - Rank(A, i)] = s[i]
<1> DEFINE c == Cardinality(A)
           lines == Pick(s, A)
           page == PageOf(s, A)
           n == IF c <= AuditLimit THEN c ELSE AuditLimit
<1> USE EntriesAssumption
<1>1. /\ Positions(A) /\ c \in Nat
      /\ \A k \in 1 .. c : Nth(A, k) \in A /\ lines[k] = s[Nth(A, k)]
  BY PickRanks
<1>2. lines \in Seq(S) /\ Len(lines) = c
  <2>1. \A i \in A : s[i] \in S
    OBVIOUS
  <2> QED
    BY <2>1, PickFacts
<1>3. \A i \in A : Rank(A, i) \in 1 .. c /\ Nth(A, Rank(A, i)) = i
  BY <1>1, RankType, NthOfRank
<1> HIDE DEF c, lines
<1>4. Reverse(lines) = [k \in 1 .. c |-> lines[c - k + 1]]
  BY <1>2 DEF Reverse
<1>5. Reverse(lines) \in [1 .. c -> S]
  BY <1>1, <1>2, <1>4
<1>6. Reverse(lines) \in Seq(S) /\ Len(Reverse(lines)) = c
  BY <1>1, <1>5
<1>7. Min({AuditLimit, c}) = n
  BY <1>1 DEF Min
<1>8. page = SubSeq(Reverse(lines), 1, n)
  BY <1>6, <1>7 DEF PageOf, Latest, lines
<1>9. n \in Nat /\ n <= c /\ n <= AuditLimit
  BY <1>1
<1> HIDE DEF page
<1>10. /\ page \in Seq(S) /\ Len(page) = n
       /\ \A k \in 1 .. n : page[k] = Reverse(lines)[k]
  BY <1>6, <1>8, <1>9
<1>11. \A k \in 1 .. n : c + 1 - k \in 1 .. c /\ Reverse(lines)[k] = lines[c + 1 - k]
  BY <1>1, <1>4, <1>9
<1>12. \A k \in 1 .. n : Nth(A, c + 1 - k) \in A /\ page[k] = s[Nth(A, c + 1 - k)]
  BY <1>1, <1>10, <1>11
<1>13. ASSUME NEW i \in A, c + 1 - Rank(A, i) <= AuditLimit
       PROVE  c + 1 - Rank(A, i) \in 1 .. n /\ page[c + 1 - Rank(A, i)] = s[i]
  <2>1. c + 1 - Rank(A, i) \in 1 .. n
    BY <1>1, <1>3, <1>13
  <2>2. c + 1 - (c + 1 - Rank(A, i)) = Rank(A, i)
    BY <1>1, <1>3
  <2> QED
    BY <1>3, <1>12, <2>1, <2>2
<1> QED
  BY <1>1, <1>10, <1>12, <1>13 DEF c, page

-----------------------------------------------------------------------------
(***************************************************************************)
(* Types                                                                   *)
(***************************************************************************)

LEMMA RawEntryType ==
    ASSUME NEW e \in Entries
    PROVE  RawEntry(e) \in Record
<1>1. ASSUME NEW f \in Fields PROVE FlattenToStr(e[f]) \in Values
  <2> DEFINE v == e[f]
             blank == ""
             text == STRING
             I == {i \in DOMAIN v : v[i] # blank}
  <2>1. v \in Seq(text)
    BY EntriesAssumption
  <2> HIDE DEF v, blank, text
  <2>2. I \subseteq DOMAIN v /\ \A i \in I : v[i] \in text \ {blank}
    BY <2>1
  <2>3. Pick(v, I) \in Seq(text \ {blank})
    BY <2>1, <2>2, PickFacts
  <2> QED
    BY <2>3 DEF FlattenToStr, Values, v, blank, text
<1> QED
  BY <1>1 DEF RawEntry, Record, Values

\* What a reader is shown is read of rows and of lines that are there.
LEMMA ReadFacts ==
    ASSUME TypeOK
    PROVE  /\ slots \in Rows /\ CommittedIds \subseteq DOMAIN slots
           /\ RecordsForTarget = LedgerOf(slots, CommittedIds)
           /\ AuditIds \subseteq DOMAIN starts
           /\ ListAudit = PageOf(starts, AuditIds)
  BY DEF TypeOK, Rows, Row, CommittedIds, RecordsForTarget, CommittedRows, LedgerOf,
         AuditIds, ListAudit, AuditLines, PageOf

Phases == {"idle", "open", "committed", "rolled back"}

TypeInv ==
    /\ slots \in Rows /\ status \in [Writers -> Phases]
    /\ starts \in Seq(Writers) /\ audited \subseteq Writers
    /\ shown.records \in Seq(Record) /\ shown.ids \subseteq DOMAIN slots
    /\ shown.audit \in Seq(Writers) /\ shown.started \in 0 .. Len(starts)

LEMMA TypeParts == (TypeOK <=> TypeInv) /\ (TypeOK' <=> TypeInv')
  BY DEF TypeOK, TypeInv, Rows, Row, Phases

LEMMA PhaseSteps ==
    ASSUME status \in [Writers -> Phases], NEW w \in Writers,
           Begin(w) \/ Commit(w) \/ Rollback(w)
    PROVE  status' \in [Writers -> Phases]
  BY DEF Begin, Commit, Rollback, Phases

LEMMA TypeInit == Init => TypeOK
  BY DEF Init, TypeOK

LEMMA TypeStep == TypeOK /\ [Next]_vars => TypeOK'
<1> SUFFICES ASSUME TypeInv, [Next]_vars PROVE TypeInv'
  BY TypeParts
<1> USE DEF TypeInv
<1>1. ASSUME NEW w \in Writers, Begin(w) PROVE TypeInv'
  <2>1. /\ starts' = Append(starts, w) /\ slots' = slots /\ shown' = shown
        /\ audited' = audited
    BY <1>1 DEF Begin
  <2>2. /\ starts' \in Seq(Writers) /\ Len(starts) \in Nat
        /\ Len(starts') = Len(starts) + 1
    BY <2>1, AppendFacts
  <2>3. shown'.started \in 0 .. Len(starts')
    BY <2>1, <2>2
  <2> QED
    BY <1>1, <2>1, <2>2, <2>3, PhaseSteps
<1>2. ASSUME NEW w \in Writers, AddRow(w) PROVE TypeInv'
  <2>1. PICK e \in Entries : slots' = Append(slots, [by |-> w, record |-> RawEntry(e)])
    BY <1>2 DEF AddRow
  <2>2. [by |-> w, record |-> RawEntry(e)] \in Row
    BY RawEntryType DEF Row
  <2>3. slots' \in Rows /\ DOMAIN slots \subseteq DOMAIN slots'
    BY <2>1, <2>2, AppendFacts DEF Rows
  <2> QED
    BY <1>2, <2>3 DEF AddRow
<1>3. ASSUME NEW w \in Writers, WriteAudit(w) PROVE TypeInv'
  BY <1>3 DEF WriteAudit
<1>4. ASSUME NEW w \in Writers, Commit(w) \/ Rollback(w) PROVE TypeInv'
  <2>1. UNCHANGED <<slots, starts, shown>> /\ audited' \subseteq audited
    BY <1>4 DEF Commit, Rollback
  <2> QED
    BY <1>4, <2>1, PhaseSteps
<1>5. CASE Read
  <2>1. RecordsForTarget \in Seq(Record) /\ CommittedIds \subseteq DOMAIN slots
    BY ReadFacts, LedgerFacts, TypeParts
  <2>2. ListAudit \in Seq(Writers)
    BY ReadFacts, PageFacts, TypeParts
  <2>3. Len(starts) \in 0 .. Len(starts)
    OBVIOUS
  <2> QED
    BY <1>5, <2>1, <2>2, <2>3 DEF Read
<1>6. CASE UNCHANGED vars
  BY <1>6 DEF vars
<1> QED
  BY <1>1, <1>2, <1>3, <1>4, <1>5, <1>6 DEF Next

\* Rows, transactions and what readers were shown keep their shape, for any
\* entries that the API sends (RawEntry, SearchRepository).
THEOREM TypeCorrect == Spec => []TypeOK
  BY TypeInit, TypeStep, PTL DEF Spec

-----------------------------------------------------------------------------
(***************************************************************************)
(* What a reader was shown can be read again: the rows it saw are          *)
(* committed, and no row that is there changes or goes away.               *)
(***************************************************************************)

ShownInv ==
    /\ shown.ids \subseteq CommittedIds
    /\ shown.records = LedgerOf(slots, shown.ids)
    /\ shown.profile = BuildProfile(shown.records)

LEMMA ShownInit == Init => ShownInv
<1> SUFFICES ASSUME Init PROVE ShownInv
  OBVIOUS
<1>1. /\ shown.ids = {} /\ shown.records = <<>>
      /\ shown.profile = BuildProfile(<<>>)
  BY DEF Init
<1>2. slots \in Rows
  BY TypeInit, ReadFacts
<1>3. LedgerOf(slots, {}) \in Seq(Record) /\ ToSet(LedgerOf(slots, {})) = {}
  BY <1>2, LedgerFacts
<1>4. LedgerOf(slots, {}) = <<>>
  <2>1. DOMAIN LedgerOf(slots, {}) = {}
    BY <1>3 DEF ToSet
  <2> QED
    BY <1>3, <2>1, LenProperties, EmptySeq
<1> QED
  BY <1>1, <1>4 DEF ShownInv

\* Committed rows stay as they are.
LEMMA RowsStay ==
    ASSUME TypeOK, [Next]_vars
    PROVE  /\ CommittedIds \subseteq CommittedIds'
           /\ DOMAIN slots \subseteq DOMAIN slots'
           /\ \A i \in DOMAIN slots : slots'[i] = slots[i]
<1>1. DOMAIN slots \subseteq DOMAIN slots' /\ \A i \in DOMAIN slots : slots'[i] = slots[i]
  <2>1. CASE UNCHANGED slots
    BY <2>1
  <2>2. ASSUME NEW w \in Writers, AddRow(w)
        PROVE  /\ DOMAIN slots \subseteq DOMAIN slots'
               /\ \A i \in DOMAIN slots : slots'[i] = slots[i]
    <3>1. PICK e \in Entries :
            slots' = Append(slots, [by |-> w, record |-> RawEntry(e)])
      BY <2>2 DEF AddRow
    <3>2. slots \in Rows /\ [by |-> w, record |-> RawEntry(e)] \in Row
      BY RawEntryType, TypeParts DEF Row, TypeInv
    <3> QED
      BY <3>1, <3>2, AppendFacts DEF Rows
  <2> QED
    BY <2>1, <2>2 DEF Next, vars, Begin, WriteAudit, Commit, Rollback, Read
<1>2. \A w \in Writers : status[w] = "committed" => status'[w] = "committed"
  BY DEF Next, vars, Begin, AddRow, WriteAudit, Commit, Rollback, Read, TypeOK
<1>3. \A i \in DOMAIN slots : slots[i].by \in Writers
  <2>1. slots \in Seq(Row) /\ \A row \in Row : row.by \in Writers
    BY TypeParts DEF Rows, Row, TypeInv
  <2> QED
    BY <2>1
<1> QED
  BY <1>1, <1>2, <1>3 DEF CommittedIds

LEMMA ShownStep == TypeOK /\ ShownInv /\ [Next]_vars => ShownInv'
<1> SUFFICES ASSUME TypeOK, ShownInv, [Next]_vars PROVE ShownInv'
  OBVIOUS
<1>1. slots \in Rows /\ slots' \in Rows
  BY TypeStep, TypeParts DEF TypeInv
<1>2. CASE UNCHANGED shown
  <2>1. /\ shown.ids \subseteq DOMAIN slots /\ shown.ids \subseteq DOMAIN slots'
        /\ \A i \in shown.ids : slots[i] = slots'[i]
    BY RowsStay DEF TypeOK
  <2>2. LedgerOf(slots', shown.ids) = LedgerOf(slots, shown.ids)
    BY <1>1, <2>1, LedgerSame
  <2> QED
    BY <1>2, <2>2, RowsStay DEF ShownInv
<1>3. CASE Read
  <2>1. /\ slots' = slots /\ CommittedIds' = CommittedIds
        /\ shown'.ids = CommittedIds
        /\ shown'.records = RecordsForTarget
        /\ shown'.profile = BuildProfile(RecordsForTarget)
    BY <1>3 DEF Read, CommittedIds
  <2> QED
    BY <2>1, ReadFacts DEF ShownInv
<1> QED
  BY <1>2, <1>3 DEF Next, vars, Begin, AddRow, WriteAudit, Commit, Rollback

-----------------------------------------------------------------------------
(***************************************************************************)
(* The profile, the graph and the lists                                    *)
(***************************************************************************)

LEMMA ShownTells ==
    TypeOK /\ ShownInv
      => Tells(shown.profile, Exposures) /\ IsFiniteSet(Exposures)
<1> SUFFICES ASSUME TypeOK, ShownInv
             PROVE  Tells(shown.profile, Exposures) /\ IsFiniteSet(Exposures)
  OBVIOUS
<1>1. slots \in Rows /\ shown.ids \subseteq DOMAIN slots
  BY TypeParts DEF TypeInv
<1>2. /\ shown.records \in Seq(Record) /\ IsInjective(shown.records)
      /\ ToSet(shown.records) = Exposures
  BY <1>1, LedgerFacts DEF ShownInv, Exposures
<1> QED
  BY <1>2, ProfileTells, FiniteElements DEF ShownInv

LEMMA LaterTells ==
    (TypeOK /\ ShownInv)'
      => (Tells(shown.profile, Exposures) /\ IsFiniteSet(Exposures))'
  BY ShownTells, PTL

LEMMA TellsIsProperty ==
    Tells(shown.profile, Exposures) => ProfileTellsExposures
  BY DEF Tells, ListsTell, ReuseTells, SourcesTell, ReusedIn, SourcesIn,
         ProfileTellsExposures, Sources

\* The profile says of the committed exposures what its fields are named for,
\* for any records, in whatever order and however often they were stored
\* (CorrelationService.build_profile).
THEOREM ProfilesAreTrue == Spec => []ProfileTellsExposures
  BY TypeInit, TypeStep, ShownInit, ShownStep, ShownTells, TellsIsProperty, PTL
  DEF Spec

\* The nodes of one field.
NodesFor(profile, field) ==
    [i \in DOMAIN profile.lists[field] |-> <<field, profile.lists[field][i]>>]

Nodes == {<<f, v>> : f \in Fields \cup {"target"}, v \in Values}

LEMMA FieldNodes ==
    ASSUME NEW profile, NEW E, ListsTell(profile, E), NEW f \in Listed
    PROVE  /\ NodesFor(profile, f) \in Seq(Nodes \ {Root})
           /\ IsInjective(NodesFor(profile, f))
           /\ \A i \in DOMAIN NodesFor(profile, f) : NodesFor(profile, f)[i][1] = f
<1> DEFINE list == profile.lists[f]
<1>1. list \in Seq(Values \ {Null}) /\ IsInjective(list)
  BY DEF ListsTell
<1>2. f \in Fields /\ f # "target"
  BY DEF Listed, Fields
<1> HIDE DEF list
<1>3. Len(list) \in Nat /\ DOMAIN list = 1 .. Len(list)
  BY <1>1
<1>4. \A v \in Values \ {Null} : <<f, v>> \in Nodes \ {Root}
  BY <1>2 DEF Nodes, Root
<1>5. NodesFor(profile, f) = [i \in 1 .. Len(list) |-> <<f, list[i]>>]
  BY <1>3 DEF NodesFor, list
<1>6. NodesFor(profile, f) \in [1 .. Len(list) -> Nodes \ {Root}]
  BY <1>1, <1>3, <1>4, <1>5
<1>7. NodesFor(profile, f) \in Seq(Nodes \ {Root})
  BY <1>3, <1>6
<1> QED
  BY <1>1, <1>3, <1>5, <1>7 DEF IsInjective

\* Lists that share no element stay without repetition when they are joined.
LEMMA JoinInjective ==
    ASSUME NEW S, NEW s \in Seq(S), NEW t \in Seq(S),
           IsInjective(s), IsInjective(t),
           \A i \in DOMAIN s, j \in DOMAIN t : s[i] # t[j]
    PROVE  IsInjective(s \o t)
<1>1. /\ s \o t \in Seq(S) /\ Len(s) \in Nat /\ Len(t) \in Nat
      /\ DOMAIN (s \o t) = 1 .. Len(s) + Len(t)
      /\ DOMAIN s = 1 .. Len(s) /\ DOMAIN t = 1 .. Len(t)
      /\ \A i \in 1 .. Len(s) + Len(t) :
           (s \o t)[i] = IF i <= Len(s) THEN s[i] ELSE t[i - Len(s)]
  BY ConcatProperties, LenProperties
<1>2. ASSUME NEW i \in 1 .. Len(s) + Len(t), NEW j \in 1 .. Len(s) + Len(t),
             (s \o t)[i] = (s \o t)[j]
      PROVE  i = j
  <2>1. CASE i <= Len(s) /\ j <= Len(s)
    BY <1>1, <1>2, <2>1 DEF IsInjective
  <2>2. CASE i > Len(s) /\ j > Len(s)
    <3>1. i - Len(s) \in DOMAIN t /\ j - Len(s) \in DOMAIN t
      BY <1>1, <2>2
    <3>2. t[i - Len(s)] = t[j - Len(s)]
      BY <1>1, <1>2, <2>2
    <3>3. i - Len(s) = j - Len(s)
      BY <3>1, <3>2 DEF IsInjective
    <3> QED
      BY <1>1, <3>3
  <2>3. CASE i <= Len(s) /\ j > Len(s)
    <3>1. i \in DOMAIN s /\ j - Len(s) \in DOMAIN t
      BY <1>1, <2>3
    <3> QED
      BY <1>1, <1>2, <2>3, <3>1
  <2>4. CASE i > Len(s) /\ j <= Len(s)
    <3>1. j \in DOMAIN s /\ i - Len(s) \in DOMAIN t
      BY <1>1, <2>4
    <3> QED
      BY <1>1, <1>2, <2>4, <3>1
  <2> QED
    BY <1>1, <2>1, <2>2, <2>3, <2>4
<1> QED
  BY <1>1, <1>2 DEF IsInjective

LEMMA JoinElements ==
    ASSUME NEW S, NEW s \in Seq(S), NEW t \in Seq(S)
    PROVE  ToSet(s \o t) = ToSet(s) \cup ToSet(t)
<1>1. /\ s \o t \in Seq(S) /\ Len(s) \in Nat /\ Len(t) \in Nat
      /\ DOMAIN (s \o t) = 1 .. Len(s) + Len(t)
      /\ DOMAIN s = 1 .. Len(s) /\ DOMAIN t = 1 .. Len(t)
      /\ \A i \in 1 .. Len(s) + Len(t) :
           (s \o t)[i] = IF i <= Len(s) THEN s[i] ELSE t[i - Len(s)]
  BY ConcatProperties, LenProperties
<1>2. ASSUME NEW i \in DOMAIN s PROVE s[i] \in ToSet(s \o t)
  BY <1>1 DEF ToSet
<1>3. ASSUME NEW j \in DOMAIN t PROVE t[j] \in ToSet(s \o t)
  <2>1. Len(s) + j \in 1 .. Len(s) + Len(t) /\ (Len(s) + j) - Len(s) = j
    BY <1>1
  <2>2. (s \o t)[Len(s) + j] = t[j]
    BY <1>1, <2>1
  <2> QED
    BY <1>1, <2>1, <2>2 DEF ToSet
<1>4. ASSUME NEW i \in 1 .. Len(s) + Len(t)
      PROVE  (s \o t)[i] \in ToSet(s) \cup ToSet(t)
  BY <1>1 DEF ToSet
<1> QED
  BY <1>1, <1>2, <1>3, <1>4 DEF ToSet

LEMMA StarOfLists ==
    ASSUME NEW profile, NEW E, ListsTell(profile, E)
    PROVE  /\ IsInjective(Graph(profile).nodes) /\ Root \in ToSet(Graph(profile).nodes)
           /\ IsInjective(Graph(profile).edges)
           /\ {Root} \X (ToSet(Graph(profile).nodes) \ {Root}) = ToSet(Graph(profile).edges)
<1> DEFINE S == Nodes \ {Root}
           e == NodesFor(profile, "email")
           u == NodesFor(profile, "username")
           a == NodesFor(profile, "ip_address")
           selectors == (e \o u) \o a
           nodes == <<Root>> \o selectors
           edges == [i \in DOMAIN selectors |-> <<Root, selectors[i]>>]
<1>1. Graph(profile).nodes = nodes /\ Graph(profile).edges = edges
  BY DEF Graph, NodesFor
<1>2. /\ e \in Seq(S) /\ IsInjective(e) /\ \A x \in ToSet(e) : x[1] = "email"
      /\ u \in Seq(S) /\ IsInjective(u) /\ \A x \in ToSet(u) : x[1] = "username"
      /\ a \in Seq(S) /\ IsInjective(a) /\ \A x \in ToSet(a) : x[1] = "ip_address"
  <2>1. "email" \in Listed /\ "username" \in Listed /\ "ip_address" \in Listed
    BY DEF Listed
  <2> QED
    BY <2>1, FieldNodes DEF ToSet
<1> HIDE DEF e, u, a, S
<1>3. /\ e \o u \in Seq(S) /\ IsInjective(e \o u)
      /\ ToSet(e \o u) = ToSet(e) \cup ToSet(u)
  <2>1. \A i \in DOMAIN e, j \in DOMAIN u : e[i] # u[j]
    BY <1>2 DEF ToSet
  <2>2. e \o u \in Seq(S)
    BY <1>2, ConcatProperties
  <2> QED
    BY <1>2, <2>1, <2>2, JoinInjective, JoinElements
<1>4. selectors \in Seq(S) /\ IsInjective(selectors)
  <2> DEFINE eu == e \o u
  <2>1. \A x \in ToSet(eu) : x[1] # "ip_address"
    BY <1>2, <1>3
  <2> HIDE DEF eu
  <2>2. ASSUME NEW i \in DOMAIN eu, NEW j \in DOMAIN a PROVE eu[i] # a[j]
    <3>1. eu[i] \in ToSet(eu) /\ a[j] \in ToSet(a)
      BY DEF ToSet
    <3>2. eu[i][1] # "ip_address" /\ a[j][1] = "ip_address"
      BY <1>2, <2>1, <3>1
    <3> QED
      BY <3>2
  <2>3. selectors \in Seq(S)
    BY <1>2, <1>3, ConcatProperties
  <2> QED
    BY <1>2, <1>3, <2>2, <2>3, JoinInjective DEF eu
<1> HIDE DEF selectors
<1>5. Root \notin ToSet(selectors)
  BY <1>4, FiniteElements DEF S
<1>6. /\ IsInjective(nodes) /\ ToSet(nodes) = {Root} \cup ToSet(selectors)
  <2> DEFINE T == S \cup {Root}
             root == <<Root>>
  <2>1. selectors \in Seq(T)
    BY <1>4, SeqMonotonic
  <2>2. /\ root \in Seq(T) /\ DOMAIN root = {1} /\ root[1] = Root
    OBVIOUS
  <2> HIDE DEF root, T
  <2>3. IsInjective(root) /\ ToSet(root) = {Root}
    BY <2>2 DEF IsInjective, ToSet
  <2>4. \A i \in DOMAIN root, j \in DOMAIN selectors : root[i] # selectors[j]
    BY <1>5, <2>2 DEF ToSet
  <2>5. IsInjective(root \o selectors)
    BY <1>4, <2>1, <2>2, <2>3, <2>4, JoinInjective
  <2>6. ToSet(root \o selectors) = {Root} \cup ToSet(selectors)
    BY <2>1, <2>2, <2>3, JoinElements
  <2> QED
    BY <2>5, <2>6 DEF root
<1>7. IsInjective(edges) /\ ToSet(edges) = {<<Root, x>> : x \in ToSet(selectors)}
  BY <1>4 DEF IsInjective, ToSet
<1> HIDE DEF nodes, edges
<1>8. {Root} \X (ToSet(nodes) \ {Root}) = {<<Root, x>> : x \in ToSet(selectors)}
  BY <1>5, <1>6
<1> QED
  BY <1>1, <1>6, <1>7, <1>8

\* The graph of a target is a star on the selectors of its profile, which its
\* viewer can draw, whatever the records hold (get_graph).
THEOREM GraphsAreStars == Spec => []GraphIsStar
<1>1. TypeOK /\ ShownInv => GraphIsStar
  BY ShownTells, StarOfLists DEF Tells, GraphIsStar
<1> QED
  BY <1>1, TypeInit, TypeStep, ShownInit, ShownStep, PTL DEF Spec

\* A reader sees what an earlier one saw, and perhaps more.
LEMMA ReadersSeeMore ==
    ASSUME TypeOK, ShownInv, [Next]_vars
    PROVE  /\ shown.ids \subseteq shown'.ids
           /\ Exposures \subseteq Exposures'
<1>1. shown.ids \subseteq shown'.ids
  <2>1. CASE Read
    BY <2>1 DEF Read, ShownInv
  <2>2. CASE UNCHANGED shown
    BY <2>2
  <2> QED
    BY <2>1, <2>2 DEF Next, vars, Begin, AddRow, WriteAudit, Commit, Rollback
<1>2. \A i \in shown.ids : slots'[i] = slots[i]
  BY RowsStay DEF TypeOK
<1> QED
  BY <1>1, <1>2 DEF Exposures

\* What more exposures say is no less.
LEMMA MoreExposures ==
    ASSUME NEW E, NEW F, E \subseteq F, IsFiniteSet(F),
           NEW now, NEW later, Tells(now, E), Tells(later, F)
    PROVE  /\ \A p \in DOMAIN now.reuse_counts :
                p \in DOMAIN later.reuse_counts
                  /\ later.reuse_counts[p] >= now.reuse_counts[p]
           /\ \A d \in DOMAIN now.breach_sources :
                d \in DOMAIN later.breach_sources
                  /\ later.breach_sources[d] >= now.breach_sources[d]
<1>1. ASSUME NEW p
      PROVE  /\ Cardinality(SourcesIn(E, p)) \in Nat
             /\ Cardinality(SourcesIn(F, p)) \in Nat
             /\ Cardinality(SourcesIn(E, p)) <= Cardinality(SourcesIn(F, p))
  <2> DEFINE X == {x \in F : x.password = p /\ x.database_name # Null}
             f == [x \in X |-> x.database_name]
  <2>1. IsFiniteSet(X)
    BY FS_Subset
  <2>2. SourcesIn(F, p) = {f[x] : x \in X} /\ DOMAIN f = X
    BY DEF SourcesIn
  <2> HIDE DEF f, X
  <2>3. IsFiniteSet(SourcesIn(F, p))
    BY <2>1, <2>2, FiniteImage
  <2>4. SourcesIn(E, p) \subseteq SourcesIn(F, p)
    BY DEF SourcesIn
  <2> QED
    BY <2>3, <2>4, FS_Subset, FS_CardinalityType
<1>2. ASSUME NEW d
      PROVE  Cardinality({r \in F : r.database_name = d}) >=
               Cardinality({r \in E : r.database_name = d})
  <2> DEFINE X == {r \in E : r.database_name = d}
             Y == {r \in F : r.database_name = d}
  <2>1. IsFiniteSet(Y) /\ X \subseteq Y
    BY FS_Subset
  <2> HIDE DEF X, Y
  <2>2. Cardinality(X) <= Cardinality(Y) /\ Cardinality(X) \in Nat /\ Cardinality(Y) \in Nat
    BY <2>1, FS_Subset, FS_CardinalityType
  <2> QED
    BY <2>2 DEF X, Y
<1>3. ReusedIn(E) \subseteq ReusedIn(F)
  BY <1>1 DEF ReusedIn
<1>4. /\ now.reuse_counts = [p \in ReusedIn(E) |-> Cardinality(SourcesIn(E, p))]
      /\ later.reuse_counts = [p \in ReusedIn(F) |-> Cardinality(SourcesIn(F, p))]
  BY DEF Tells, ReuseTells
<1>5. /\ now.breach_sources = [d \in {r.database_name : r \in E} \ {Null} |->
                                 Cardinality({r \in E : r.database_name = d})]
      /\ later.breach_sources = [d \in {r.database_name : r \in F} \ {Null} |->
                                   Cardinality({r \in F : r.database_name = d})]
  BY DEF Tells, SourcesTell
<1>6. {r.database_name : r \in E} \subseteq {r.database_name : r \in F}
  OBVIOUS
<1>7. \A p \in DOMAIN now.reuse_counts :
        p \in DOMAIN later.reuse_counts
          /\ later.reuse_counts[p] >= now.reuse_counts[p]
  BY <1>1, <1>3, <1>4
<1>8. \A d \in DOMAIN now.breach_sources :
        d \in DOMAIN later.breach_sources
          /\ later.breach_sources[d] >= now.breach_sources[d]
  <2> SUFFICES ASSUME NEW d \in DOMAIN now.breach_sources
               PROVE  d \in DOMAIN later.breach_sources
                        /\ later.breach_sources[d] >= now.breach_sources[d]
    OBVIOUS
  <2>1. /\ d \in {r.database_name : r \in E} \ {Null}
        /\ d \in {r.database_name : r \in F} \ {Null}
    BY <1>5, <1>6
  <2>2. /\ now.breach_sources[d] = Cardinality({r \in E : r.database_name = d})
        /\ later.breach_sources[d] = Cardinality({r \in F : r.database_name = d})
        /\ d \in DOMAIN later.breach_sources
    BY <1>5, <2>1
  <2> QED
    BY <1>2, <2>2
<1> QED
  BY <1>7, <1>8

\* A password once reported as reused stays so and no count goes down, for any
\* transactions that interleave in any way (build_profile).
THEOREM EvidenceOnlyGrows == Spec => EvidenceGrows
<1> DEFINE Grows ==
             LET now == shown.profile  later == shown'.profile
             IN  /\ \A p \in DOMAIN now.reuse_counts :
                      p \in DOMAIN later.reuse_counts
                        /\ later.reuse_counts[p] >= now.reuse_counts[p]
                 /\ \A d \in DOMAIN now.breach_sources :
                      d \in DOMAIN later.breach_sources
                        /\ later.breach_sources[d] >= now.breach_sources[d]
<1>1. TypeOK /\ ShownInv /\ [Next]_vars => [Grows]_vars
  <2> SUFFICES ASSUME TypeOK, ShownInv, [Next]_vars PROVE Grows
    OBVIOUS
  <2>1. TypeOK' /\ ShownInv'
    BY TypeStep, ShownStep
  <2>2. /\ Exposures \subseteq Exposures' /\ IsFiniteSet(Exposures')
        /\ Tells(shown.profile, Exposures) /\ Tells(shown'.profile, Exposures')
    BY <2>1, ShownTells, LaterTells, ReadersSeeMore
  <2> QED
    BY <2>2, MoreExposures
<1> QED
  BY <1>1, TypeInit, TypeStep, ShownInit, ShownStep, PTL DEF Spec, EvidenceGrows

LEMMA PrefixOfItself ==
    ASSUME NEW S, NEW s \in Seq(S)
    PROVE  IsPrefix(s, s)
  BY PrefixByElement

\* What an analyst has read keeps its place, unless a row surfaces before one
\* that was read already: ledger and lists grow at their end, for any number of
\* transactions (records_for_target, _dedup_preserve).
THEOREM ReadersKeepTheirPlace == Spec => ListsOnlyExtend
<1> DEFINE Extend ==
             (\A i \in shown.ids, j \in shown'.ids \ shown.ids : i < j)
               => /\ IsPrefix(shown.records, shown'.records)
                  /\ \A f \in Listed :
                       IsPrefix(shown.profile.lists[f], shown'.profile.lists[f])
<1>1. TypeOK /\ ShownInv /\ [Next]_vars => [Extend]_vars
  <2> SUFFICES ASSUME TypeOK, ShownInv, [Next]_vars,
                      \A i \in shown.ids, j \in shown'.ids \ shown.ids : i < j
               PROVE  /\ IsPrefix(shown.records, shown'.records)
                      /\ \A f \in Listed :
                           IsPrefix(shown.profile.lists[f], shown'.profile.lists[f])
    OBVIOUS
  <2>1. TypeOK' /\ ShownInv'
    BY TypeStep, ShownStep
  <2>2. /\ shown.records \in Seq(Record) /\ shown'.records \in Seq(Record)
        /\ slots \in Rows /\ shown.ids \subseteq DOMAIN slots
    BY <2>1, TypeParts DEF TypeInv
  <2>3. IsPrefix(shown.records, shown'.records)
    <3>1. CASE UNCHANGED shown
      BY <2>2, <3>1, PrefixOfItself
    <3>2. CASE Read
      <4>1. /\ CommittedIds \subseteq DOMAIN slots /\ shown.ids \subseteq CommittedIds
            /\ shown.records = LedgerOf(slots, shown.ids)
            /\ shown'.ids = CommittedIds
            /\ shown'.records = LedgerOf(slots, CommittedIds)
        BY <3>2, ReadFacts DEF ShownInv, Read
      <4> QED
        BY <2>2, <4>1, LedgerPrefix
    <3> QED
      BY <3>1, <3>2 DEF Next, vars, Begin, AddRow, WriteAudit, Commit, Rollback
  <2>4. ASSUME NEW f \in Listed
        PROVE  IsPrefix(shown.profile.lists[f], shown'.profile.lists[f])
    <3>1. /\ shown.profile = BuildProfile(shown.records)
          /\ shown'.profile = BuildProfile(shown'.records)
      BY <2>1 DEF ShownInv
    <3> QED
      BY <2>2, <2>3, <3>1, ListsPrefix
  <2> QED
    BY <2>3, <2>4
<1> QED
  BY <1>1, TypeInit, TypeStep, ShownInit, ShownStep, PTL DEF Spec, ListsOnlyExtend

-----------------------------------------------------------------------------
(***************************************************************************)
(* The audit page                                                          *)
(***************************************************************************)

\* Each transaction starts once, and a page that was read showed some of the
\* lines that are committed, of transactions that had started.
PageInv ==
    /\ IsInjective(starts)
    /\ \A i \in DOMAIN starts : status[starts[i]] # "idle"
    /\ \E A \in SUBSET AuditIds :
         /\ \A i \in A : i <= shown.started
         /\ shown.audit = PageOf(starts, A)

LEMMA PageInit == Init => PageInv
<1> SUFFICES ASSUME Init PROVE PageInv
  OBVIOUS
<1>1. starts = <<>> /\ shown.audit = <<>>
  BY DEF Init
<1>2. starts \in Seq(Writers)
  BY TypeInit, TypeParts DEF TypeInv
<1>3. PageOf(starts, {}) = <<>>
  <2>1. Len(PageOf(starts, {})) = 0 /\ PageOf(starts, {}) \in Seq(Writers)
    <3>1. Cardinality({}) = 0 /\ AuditLimit \in Nat
      BY FS_EmptySet, EntriesAssumption
    <3> QED
      BY <1>2, <3>1, PageFacts
  <2> QED
    BY <2>1, EmptySeq
<1>4. {} \in SUBSET AuditIds /\ shown.audit = PageOf(starts, {})
  BY <1>1, <1>3
<1> QED
  BY <1>1, <1>4 DEF PageInv, IsInjective

\* A page of the same lines is the same page.
LEMMA PageSame ==
    ASSUME NEW S, NEW s \in Seq(S), NEW t \in Seq(S), NEW A,
           A \subseteq DOMAIN s, A \subseteq DOMAIN t, \A i \in A : s[i] = t[i]
    PROVE  PageOf(s, A) = PageOf(t, A)
  BY PickSame DEF PageOf

\* Lines keep their place, and those that are committed are for good.
LEMMA LinesStay ==
    ASSUME TypeOK, PageInv, [Next]_vars
    PROVE  /\ DOMAIN starts \subseteq DOMAIN starts'
           /\ \A i \in DOMAIN starts : starts'[i] = starts[i]
           /\ AuditIds \subseteq AuditIds'
           /\ IsInjective(starts')
           /\ \A i \in DOMAIN starts' : status'[starts'[i]] # "idle"
<1> starts \in Seq(Writers) /\ status \in [Writers -> Phases]
  BY TypeParts DEF TypeInv
<1>1. \A i \in DOMAIN starts : starts[i] \in Writers /\ status[starts[i]] # "idle"
  BY DEF PageInv
<1>2. ASSUME NEW w \in Writers, Begin(w)
      PROVE  /\ DOMAIN starts \subseteq DOMAIN starts'
             /\ \A i \in DOMAIN starts : starts'[i] = starts[i]
             /\ AuditIds \subseteq AuditIds'
             /\ IsInjective(starts')
             /\ \A i \in DOMAIN starts' : status'[starts'[i]] # "idle"
  <2>1. /\ starts' = Append(starts, w) /\ status[w] = "idle" /\ status'[w] = "open"
        /\ \A v \in Writers \ {w} : status'[v] = status[v]
        /\ audited' = audited
    BY <1>2 DEF Begin
  <2>2. /\ Len(starts) \in Nat /\ DOMAIN starts = 1 .. Len(starts)
        /\ DOMAIN starts' = 1 .. Len(starts) + 1
        /\ \A i \in DOMAIN starts : starts'[i] = starts[i]
        /\ starts'[Len(starts) + 1] = w
    BY <2>1, AppendFacts
  <2>3. \A i \in DOMAIN starts : starts[i] # w
    BY <1>1, <2>1
  <2>4. DOMAIN starts' = DOMAIN starts \cup {Len(starts) + 1}
    BY <2>2
  <2>5. IsInjective(starts')
    BY <2>2, <2>3, <2>4 DEF IsInjective, PageInv
  <2>6. AuditIds \subseteq AuditIds'
    BY <1>1, <2>1, <2>2, <2>3, <2>4 DEF AuditIds
  <2>7. \A i \in DOMAIN starts' : status'[starts'[i]] # "idle"
    BY <1>1, <2>1, <2>2, <2>3, <2>4
  <2> QED
    BY <2>2, <2>4, <2>5, <2>6, <2>7
<1>3. ASSUME NEW w \in Writers, WriteAudit(w) \/ Commit(w) \/ Rollback(w)
      PROVE  /\ starts' = starts /\ AuditIds \subseteq AuditIds'
             /\ \A i \in DOMAIN starts : status'[starts[i]] # "idle"
  <2>1. /\ starts' = starts /\ status[w] = "open" /\ status'[w] # "idle"
        /\ \A v \in Writers \ {w} : status'[v] = status[v]
        /\ \A v \in audited \ {w} : v \in audited'
    BY <1>3 DEF WriteAudit, Commit, Rollback
  <2>2. AuditIds \subseteq AuditIds'
    BY <1>1, <2>1 DEF AuditIds
  <2> QED
    BY <1>1, <2>1, <2>2
<1>4. ASSUME UNCHANGED <<starts, status, audited>>
      PROVE  /\ starts' = starts /\ AuditIds \subseteq AuditIds'
             /\ \A i \in DOMAIN starts : status'[starts[i]] # "idle"
  BY <1>1, <1>4 DEF AuditIds
<1>5. starts' = starts => IsInjective(starts')
  BY DEF PageInv
<1> QED
  BY <1>2, <1>3, <1>4, <1>5 DEF Next, vars, AddRow, Read

LEMMA PageStep == TypeOK /\ PageInv /\ [Next]_vars => PageInv'
<1> SUFFICES ASSUME TypeOK, PageInv, [Next]_vars PROVE PageInv'
  OBVIOUS
<1>1. starts \in Seq(Writers) /\ starts' \in Seq(Writers)
  BY TypeStep, TypeParts DEF TypeInv
<1>2. \E A \in SUBSET AuditIds' :
        (\A i \in A : i <= shown'.started) /\ shown'.audit = PageOf(starts', A)
  <2>1. CASE UNCHANGED shown
    <3>1. PICK A \in SUBSET AuditIds :
            (\A i \in A : i <= shown.started) /\ shown.audit = PageOf(starts, A)
      BY DEF PageInv
    <3>2. A \subseteq DOMAIN starts
      BY DEF AuditIds
    <3>3. PageOf(starts', A) = PageOf(starts, A)
      BY <1>1, <3>2, LinesStay, PageSame
    <3>4. A \in SUBSET AuditIds'
      BY LinesStay
    <3> QED
      BY <2>1, <3>1, <3>3, <3>4
  <2>2. CASE Read
    <3>1. /\ starts' = starts /\ AuditIds' = AuditIds
          /\ shown'.started = Len(starts) /\ shown'.audit = PageOf(starts, AuditIds)
      BY <2>2, ReadFacts DEF Read, AuditIds
    <3>2. \A i \in AuditIds : i <= Len(starts)
      BY <1>1, ReadFacts
    <3> QED
      BY <3>1, <3>2
  <2> QED
    BY <2>1, <2>2 DEF Next, vars, Begin, AddRow, WriteAudit, Commit, Rollback
<1> QED
  BY <1>2, LinesStay DEF PageInv

\* If a list keeps the elements of another in their order, and of each all that
\* came before it, then what it keeps is how the other began.
KeptOf(now, later) == Pick(later, {i \in DOMAIN later : later[i] \in ToSet(now)})

LEMMA KeptIsPrefix ==
    ASSUME NEW S, NEW now \in Seq(S), NEW later \in Seq(S),
           IsInjective(now), IsInjective(later),
           \A p, q \in DOMAIN now, k \in DOMAIN later :
             now[p] = later[k] /\ q < p
               => \E j \in DOMAIN later : j < k /\ later[j] = now[q],
           \A p, q \in DOMAIN now, j, k \in DOMAIN later :
             now[p] = later[k] /\ now[q] = later[j] /\ j < k => q < p
    PROVE  /\ IsPrefix(KeptOf(now, later), now)
           /\ ToSet(now) \subseteq ToSet(later) => KeptOf(now, later) = now
<1> DEFINE K == {k \in DOMAIN later : later[k] \in ToSet(now)}
           kept == Pick(later, K)
<1>1. /\ K \subseteq DOMAIN later /\ \A k \in K : later[k] \in S
      /\ \A k \in K : \E p \in DOMAIN now : now[p] = later[k]
      /\ \A p \in DOMAIN now, k \in DOMAIN later : now[p] = later[k] => k \in K
  BY DEF ToSet
<1>2. Positions(K) /\ Cardinality(K) \in Nat
  BY <1>1, PickRanks
<1>3. /\ Len(now) \in Nat /\ DOMAIN now = 1 .. Len(now)
      /\ \A k \in K : k \in Nat
  BY <1>2 DEF Positions
<1> HIDE DEF K, kept
<1>4. ASSUME NEW k \in K, NEW p \in DOMAIN now, now[p] = later[k]
      PROVE  Rank(K, k) = p
  <2> DEFINE J == {j \in K : j <= k}
             g == [j \in J |-> CHOOSE q \in DOMAIN now : now[q] = later[j]]
  <2>1. \A j \in J : g[j] \in DOMAIN now /\ now[g[j]] = later[j]
    BY <1>1
  <2>2. g[k] = p
    <3>1. k \in J
      BY <1>3
    <3> QED
      BY <1>4, <2>1, <3>1 DEF IsInjective
  <2>3. ASSUME NEW j \in J PROVE g[j] \in 1 .. p
    <3>1. j \in K /\ j <= k /\ j \in DOMAIN later /\ k \in DOMAIN later
      BY <1>1
    <3>2. j # k => g[j] < p
      BY <1>3, <1>4, <2>1, <3>1
    <3>3. g[j] \in 1 .. Len(now) /\ p \in 1 .. Len(now)
      BY <1>3, <2>1
    <3> HIDE DEF g, J
    <3>4. g[j] <= p
      BY <2>2, <3>2, <3>3
    <3> QED
      BY <1>3, <3>3, <3>4
  <2>4. ASSUME NEW i \in J, NEW j \in J, g[i] = g[j] PROVE i = j
    <3>1. later[i] = later[j] /\ i \in DOMAIN later /\ j \in DOMAIN later
      BY <1>1, <2>1, <2>4
    <3> QED
      BY <3>1 DEF IsInjective
  <2>5. ASSUME NEW q \in 1 .. p PROVE \E j \in J : g[j] = q
    <3>1. q \in DOMAIN now
      BY <1>3
    <3>2. CASE q = p
      BY <1>3, <2>2, <3>2
    <3>3. CASE q < p
      <4>1. PICK j \in DOMAIN later : j < k /\ later[j] = now[q]
        BY <1>1, <1>4, <3>1, <3>3
      <4>2. j \in J
        BY <1>1, <1>3, <3>1, <4>1
      <4>3. now[g[j]] = now[q] /\ g[j] \in DOMAIN now
        BY <2>1, <4>1, <4>2
      <4> QED
        BY <3>1, <4>2, <4>3 DEF IsInjective
    <3> QED
      BY <1>3, <3>2, <3>3
  <2>6. g \in Bijection(J, 1 .. p)
    <3>1. g \in [J -> 1 .. p]
      BY <2>3
    <3> QED
      BY <2>4, <2>5, <3>1 DEF Bijection, Injection, Surjection, IsInjective
  <2>7. IsFiniteSet(J) /\ p \in Nat
    <3>1. J \subseteq K
      OBVIOUS
    <3> HIDE DEF J, g
    <3>2. Positions(J)
      BY <1>2, <3>1, SomePositions
    <3> QED
      BY <1>3, <3>2 DEF Positions
  <2> HIDE DEF J, g
  <2>8. Cardinality(1 .. p) = Cardinality(J) /\ Cardinality(1 .. p) = p
    BY <1>3, <2>6, <2>7, FS_Bijection, FS_Interval DEF ExistsBijection
  <2> QED
    BY <2>8 DEF Rank, J
<1>5. ASSUME NEW n \in 1 .. Cardinality(K)
      PROVE  n \in DOMAIN now /\ kept[n] = now[n]
  <2>1. Nth(K, n) \in K /\ Rank(K, Nth(K, n)) = n /\ kept[n] = later[Nth(K, n)]
    BY <1>1, <1>2, RankOfNth, PickRanks DEF kept
  <2>2. PICK p \in DOMAIN now : now[p] = later[Nth(K, n)]
    BY <1>1, <2>1
  <2> QED
    BY <1>4, <2>1, <2>2
<1>6. kept \in Seq(S) /\ Len(kept) = Cardinality(K)
  BY <1>1, PickFacts DEF kept
<1>7. Cardinality(K) <= Len(now)
  BY <1>2, <1>3, <1>5
<1>8. IsPrefix(kept, now)
  BY <1>5, <1>6, <1>7, PrefixByElement
<1>9. ASSUME ToSet(now) \subseteq ToSet(later) PROVE kept = now
  <2>1. ASSUME NEW p \in DOMAIN now PROVE p <= Cardinality(K)
    <3>1. now[p] \in ToSet(now)
      BY DEF ToSet
    <3>2. now[p] \in ToSet(later)
      BY <1>9, <3>1
    <3>3. PICK k \in DOMAIN later : later[k] = now[p]
      BY <3>2 DEF ToSet
    <3> QED
      BY <1>1, <1>2, <1>4, <3>3, RankType
  <2>2. Cardinality(K) = Len(now)
    BY <1>2, <1>3, <1>7, <2>1
  <2> QED
    BY <1>5, <1>6, <2>2, SeqEqual
<1> QED
  BY <1>8, <1>9 DEF K, kept, KeptOf

\* A page lists what came last first, and all that came after what it lists.
LEMMA PagePlaces ==
    ASSUME NEW S, NEW s \in Seq(S), IsInjective(s), NEW A, A \subseteq DOMAIN s
    PROVE  LET page == PageOf(s, A)
           IN  /\ page \in Seq(S) /\ IsInjective(page)
               /\ \A k \in DOMAIN page : \E i \in A : page[k] = s[i]
               /\ \A k, m \in DOMAIN page, i, j \in A :
                    page[k] = s[i] /\ page[m] = s[j] => (k < m <=> j < i)
               /\ \A k \in DOMAIN page, i, j \in A :
                    page[k] = s[i] /\ i < j
                      => \E m \in DOMAIN page : m < k /\ page[m] = s[j]
               /\ Len(page) # AuditLimit => \A i \in A : s[i] \in ToSet(page)
<1> DEFINE c == Cardinality(A)
           page == PageOf(s, A)
<1> HIDE DEF c, page
<1>1. /\ c \in Nat /\ page \in Seq(S)
      /\ Len(page) = IF c <= AuditLimit THEN c ELSE AuditLimit
      /\ \A k \in 1 .. Len(page) :
           Nth(A, c + 1 - k) \in A /\ page[k] = s[Nth(A, c + 1 - k)]
      /\ \A i \in A : c + 1 - Rank(A, i) <= AuditLimit
                        => /\ c + 1 - Rank(A, i) \in 1 .. Len(page)
                           /\ page[c + 1 - Rank(A, i)] = s[i]
  BY PageFacts DEF c, page
<1>2. /\ AuditLimit \in Nat /\ Len(page) \in Nat /\ DOMAIN page = 1 .. Len(page)
      /\ Len(page) <= c /\ Len(page) <= AuditLimit
  BY <1>1, EntriesAssumption
<1>3. Positions(A) /\ \A i \in A : Rank(A, i) \in 1 .. c
  BY PickRanks DEF c
<1>4. ASSUME NEW k \in DOMAIN page
      PROVE  \E i \in A : page[k] = s[i] /\ Rank(A, i) = c + 1 - k
  <2>1. c + 1 - k \in 1 .. c
    BY <1>1, <1>2
  <2> QED
    BY <1>1, <1>2, <1>3, <2>1, RankOfNth DEF c
<1>5. ASSUME NEW k \in DOMAIN page, NEW i \in A, page[k] = s[i]
      PROVE  Rank(A, i) = c + 1 - k
  BY <1>4, <1>5 DEF IsInjective
<1>6. ASSUME NEW k \in DOMAIN page, NEW m \in DOMAIN page, NEW i \in A, NEW j \in A,
             page[k] = s[i], page[m] = s[j]
      PROVE  k < m <=> j < i
  <2>1. Rank(A, i) = c + 1 - k /\ Rank(A, j) = c + 1 - m
    BY <1>5, <1>6
  <2>2. j < i <=> Rank(A, j) < Rank(A, i)
    BY <1>3, RankOrder
  <2> QED
    BY <1>1, <1>2, <2>1, <2>2
<1>7. ASSUME NEW k \in DOMAIN page, NEW i \in A, NEW j \in A, page[k] = s[i], i < j
      PROVE  \E m \in DOMAIN page : m < k /\ page[m] = s[j]
  <2>1. Rank(A, i) = c + 1 - k
    BY <1>5, <1>7
  <2>2. Rank(A, i) < Rank(A, j)
    BY <1>3, <1>7, RankOrder
  <2>3. c + 1 - Rank(A, j) < k /\ k <= AuditLimit
    <3>1. Rank(A, i) \in Nat /\ Rank(A, j) \in Nat
      BY <1>3, RankType
    <3>2. k \in Nat /\ k <= Len(page)
      BY <1>2
    <3>3. k <= AuditLimit
      BY <1>2, <3>2
    <3>4. c \in Nat
      BY <1>1
    <3> QED
      BY <2>1, <2>2, <3>1, <3>2, <3>3, <3>4
  <2>4. c + 1 - Rank(A, j) <= AuditLimit
    BY <1>1, <1>2, <1>3, <2>3
  <2> QED
    BY <1>1, <1>2, <2>3, <2>4
<1>8. ASSUME Len(page) # AuditLimit, NEW i \in A PROVE s[i] \in ToSet(page)
  <2>1. c <= AuditLimit
    BY <1>1, <1>8
  <2>2. c + 1 - Rank(A, i) <= AuditLimit
    BY <1>1, <1>2, <1>3, <2>1
  <2> QED
    BY <1>1, <1>2, <2>2 DEF ToSet
<1>9. IsInjective(page)
  <2>1. ASSUME NEW k \in DOMAIN page, NEW m \in DOMAIN page, page[k] = page[m]
        PROVE  k = m
    <3>1. PICK i \in A : page[k] = s[i]
      BY <1>4
    <3>2. Rank(A, i) = c + 1 - k /\ Rank(A, i) = c + 1 - m
      BY <1>5, <2>1, <3>1
    <3> QED
      BY <1>1, <1>2, <3>2
  <2> QED
    BY <2>1 DEF IsInjective
<1>10. \A k \in DOMAIN page : \E i \in A : page[k] = s[i]
  BY <1>4
<1> QED
  BY <1>1, <1>6, <1>7, <1>8, <1>9, <1>10 DEF page

\* Of two pages of the same lines the later one shows more of them.
LEMMA PagesMoveDown ==
    ASSUME NEW S, NEW s \in Seq(S), IsInjective(s),
           NEW B, B \subseteq DOMAIN s, NEW A, A \subseteq B
    PROVE  LET now == PageOf(s, A)  later == PageOf(s, B)
           IN  /\ IsPrefix(KeptOf(now, later), now)
               /\ KeptOf(now, later) # now => Len(later) = AuditLimit
               /\ \A i, j \in DOMAIN later :
                    (i < j /\ later[i] \in ToSet(now) /\ later[j] \notin ToSet(now))
                      => \E a \in A, b \in B : b < a /\ later[j] = s[b]
<1> DEFINE now == PageOf(s, A)
           later == PageOf(s, B)
<1> HIDE DEF now, later
<1>1. A \subseteq DOMAIN s
  OBVIOUS
<1>2. /\ now \in Seq(S) /\ IsInjective(now)
      /\ \A k \in DOMAIN now : \E i \in A : now[k] = s[i]
      /\ \A k, m \in DOMAIN now, i, j \in A :
           now[k] = s[i] /\ now[m] = s[j] => (k < m <=> j < i)
      /\ \A k \in DOMAIN now, i, j \in A :
           now[k] = s[i] /\ i < j => \E m \in DOMAIN now : m < k /\ now[m] = s[j]
  BY <1>1, PagePlaces DEF now
<1>3. /\ later \in Seq(S) /\ IsInjective(later)
      /\ \A k \in DOMAIN later : \E i \in B : later[k] = s[i]
      /\ \A k, m \in DOMAIN later, i, j \in B :
           later[k] = s[i] /\ later[m] = s[j] => (k < m <=> j < i)
      /\ \A k \in DOMAIN later, i, j \in B :
           later[k] = s[i] /\ i < j => \E m \in DOMAIN later : m < k /\ later[m] = s[j]
      /\ Len(later) # AuditLimit => \A i \in B : s[i] \in ToSet(later)
  BY PagePlaces DEF later
<1>4. ASSUME NEW p \in DOMAIN now, NEW q \in DOMAIN now, NEW k \in DOMAIN later,
             now[p] = later[k], q < p
      PROVE  \E j \in DOMAIN later : j < k /\ later[j] = now[q]
  <2>1. PICK a \in A, b \in A : now[p] = s[a] /\ now[q] = s[b]
    BY <1>2
  <2>2. a < b /\ a \in B /\ b \in B
    BY <1>2, <1>4, <2>1
  <2>3. PICK m \in DOMAIN later : m < k /\ later[m] = s[b]
    <3>1. \A i, j \in B : later[k] = s[i] /\ i < j
                            => \E m \in DOMAIN later : m < k /\ later[m] = s[j]
      BY <1>3
    <3>2. later[k] = s[a]
      BY <1>4, <2>1
    <3> QED
      BY <2>2, <3>1, <3>2
  <2> QED
    BY <2>1, <2>3
<1>5. ASSUME NEW p \in DOMAIN now, NEW q \in DOMAIN now,
             NEW j \in DOMAIN later, NEW k \in DOMAIN later,
             now[p] = later[k], now[q] = later[j], j < k
      PROVE  q < p
  <2>1. PICK a \in A, b \in A : now[p] = s[a] /\ now[q] = s[b]
    BY <1>2
  <2>2. a < b
    BY <1>3, <1>5, <2>1
  <2> QED
    BY <1>2, <2>1, <2>2
<1>6. /\ IsPrefix(KeptOf(now, later), now)
      /\ ToSet(now) \subseteq ToSet(later) => KeptOf(now, later) = now
  <2>1. \A p, q \in DOMAIN now, k \in DOMAIN later :
          now[p] = later[k] /\ q < p
            => \E j \in DOMAIN later : j < k /\ later[j] = now[q]
    BY <1>4
  <2>2. \A p, q \in DOMAIN now, j, k \in DOMAIN later :
          now[p] = later[k] /\ now[q] = later[j] /\ j < k => q < p
    BY <1>5
  <2>3. now \in Seq(S) /\ IsInjective(now) /\ later \in Seq(S) /\ IsInjective(later)
    BY <1>2, <1>3
  <2> QED
    BY <2>1, <2>2, <2>3, KeptIsPrefix
<1>7. ASSUME Len(later) # AuditLimit PROVE ToSet(now) \subseteq ToSet(later)
  BY <1>2, <1>3, <1>7 DEF ToSet
<1>8. ASSUME NEW i \in DOMAIN later, NEW j \in DOMAIN later, i < j,
             later[i] \in ToSet(now), later[j] \notin ToSet(now)
      PROVE  \E a \in A, b \in B : b < a /\ later[j] = s[b]
  <2>1. PICK a \in A : later[i] = s[a]
    BY <1>2, <1>8 DEF ToSet
  <2>2. PICK b \in B : later[j] = s[b]
    BY <1>3
  <2>3. b < a
    BY <1>3, <1>8, <2>1, <2>2
  <2> QED
    BY <2>1, <2>2, <2>3
<1> QED
  BY <1>6, <1>7, <1>8 DEF now, later

\* What was read on the audit page stays there in its order until newer lines
\* push it off the end, for any limit and any transactions; what comes up below
\* it was running when it was read (list_audit).
THEOREM AuditKeepsItsOrder == Spec => AuditOnlyMovesDown
<1> DEFINE now == shown.audit
           later == shown'.audit
           kept == Pick(later, {i \in DOMAIN later : later[i] \in ToSet(now)})
           MovesDown ==
             /\ IsPrefix(kept, now)
             /\ kept # now => Len(later) = AuditLimit
             /\ \A i, j \in DOMAIN later :
                  (i < j /\ later[i] \in ToSet(now) /\ later[j] \notin ToSet(now))
                    => later[j] \in ToSet(SubSeq(starts, 1, shown.started))
<1>1. TypeOK /\ PageInv /\ [Next]_vars => [MovesDown]_vars
  <2> SUFFICES ASSUME TypeOK, PageInv, [Next]_vars PROVE MovesDown
    OBVIOUS
  <2>1. /\ starts \in Seq(Writers) /\ IsInjective(starts)
        /\ shown.started \in 0 .. Len(starts) /\ now \in Seq(Writers)
    BY TypeParts DEF TypeInv, PageInv
  <2>2. PICK A \in SUBSET AuditIds :
          (\A i \in A : i <= shown.started) /\ now = PageOf(starts, A)
    BY DEF PageInv
  <2>3. AuditIds \subseteq DOMAIN starts /\ A \subseteq DOMAIN starts
    BY <2>2 DEF AuditIds
  <2>4. ASSUME NEW B, A \subseteq B, B \subseteq DOMAIN starts,
               later = PageOf(starts, B)
        PROVE  MovesDown
    <3> DEFINE N == PageOf(starts, A)
               L == PageOf(starts, B)
    <3>1. /\ IsPrefix(KeptOf(N, L), N)
          /\ KeptOf(N, L) # N => Len(L) = AuditLimit
          /\ \A i, j \in DOMAIN L :
               (i < j /\ L[i] \in ToSet(N) /\ L[j] \notin ToSet(N))
                 => \E a \in A, b \in B : b < a /\ L[j] = starts[b]
      BY <2>1, <2>4, PagesMoveDown
    <3>2. ASSUME NEW a \in A, NEW b \in B, b < a
          PROVE  starts[b] \in ToSet(SubSeq(starts, 1, shown.started))
      <4>1. b \in 1 .. shown.started
        BY <2>1, <2>2, <2>3, <2>4, <3>2
      <4>2. /\ DOMAIN SubSeq(starts, 1, shown.started) = 1 .. shown.started
            /\ SubSeq(starts, 1, shown.started)[b] = starts[b]
        BY <2>1, <4>1
      <4> QED
        BY <4>1, <4>2 DEF ToSet
    <3> HIDE DEF N, L
    <3>3. N = now /\ L = later
      BY <2>2, <2>4 DEF N, L
    <3>4. \A i, j \in DOMAIN L :
            (i < j /\ L[i] \in ToSet(N) /\ L[j] \notin ToSet(N))
              => L[j] \in ToSet(SubSeq(starts, 1, shown.started))
      BY <3>1, <3>2
    <3> QED
      BY <3>1, <3>3, <3>4 DEF KeptOf
  <2>5. CASE UNCHANGED shown
    BY <2>2, <2>3, <2>4, <2>5
  <2>6. CASE Read
    BY <2>3, <2>4, <2>6, ReadFacts DEF Read
  <2> QED
    BY <2>5, <2>6 DEF Next, vars, Begin, AddRow, WriteAudit, Commit, Rollback
<1> QED
  BY <1>1, TypeInit, TypeStep, PageInit, PageStep, PTL DEF Spec, AuditOnlyMovesDown
=============================================================================
