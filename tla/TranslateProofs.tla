---------------------------- MODULE TranslateProofs ----------------------------
(***************************************************************************)
(* Theorems about Translate, for any number of fragments, any token counts *)
(* and any reservation.                                                    *)
(***************************************************************************)
EXTENDS Translate, FiniteSetTheorems, FunctionTheorems, SequenceTheorems, TLAPS

-----------------------------------------------------------------------------
(* Places and their ranks.                                                 *)

LEMMA UpToFinite ==
  ASSUME NEW S, IsFiniteSet(S), NEW i
  PROVE  /\ IsFiniteSet({ j \in S : j <= i })
         /\ Rank(i, S) \in Nat /\ Rank(i, S) <= Cardinality(S)
<1>1. { j \in S : j <= i } \in SUBSET S
  OBVIOUS
<1>2. IsFiniteSet({ j \in S : j <= i })
  BY <1>1, FS_Subset
<1>3. Cardinality({ j \in S : j <= i }) <= Cardinality(S)
  BY <1>1, FS_Subset
<1>4. Cardinality({ j \in S : j <= i }) \in Nat
  BY <1>2, FS_CardinalityType
<1> QED
  BY <1>2, <1>3, <1>4 DEF Rank

(* A later place of a kind has a higher rank.                              *)
LEMMA RankRises ==
  ASSUME NEW S \in SUBSET Int, IsFiniteSet(S), NEW i \in S, NEW j \in S, i < j
  PROVE  Rank(i, S) < Rank(j, S)
<1> DEFINE I == { k \in S : k <= i }
           J == { k \in S : k <= j }
<1>0. i \in Int /\ j \in Int
  OBVIOUS
<1>1. I \in SUBSET J /\ I # J
  <2>1. j \in J /\ j \notin I
    BY <1>0
  <2>2. ASSUME NEW k \in S, k <= i PROVE k <= j
    <3>1. k \in Int
      OBVIOUS
    <3> QED
      BY <1>0, <2>2, <3>1
  <2>3. I \subseteq J
    BY <2>2
  <2> HIDE DEF I, J
  <2> QED
    BY <2>1, <2>3
<1>2. IsFiniteSet(J) /\ IsFiniteSet(I)
  BY UpToFinite
<1>3. Cardinality(I) <= Cardinality(J) /\ Cardinality(I) # Cardinality(J)
  <2> HIDE DEF I, J
  <2> QED
    BY <1>1, <1>2, FS_Subset
<1>4. Cardinality(I) \in Nat /\ Cardinality(J) \in Nat
  <2> HIDE DEF I, J
  <2> QED
    BY <1>2, FS_CardinalityType
<1>5. Cardinality(I) < Cardinality(J)
  <2> HIDE DEF I, J
  <2> QED
    BY <1>3, <1>4
<1> QED
  BY <1>5 DEF Rank

LEMMA RankPositive ==
  ASSUME NEW S \in SUBSET Int, IsFiniteSet(S), NEW i \in S
  PROVE  Rank(i, S) \in 1..Cardinality(S)
<1> DEFINE I == { k \in S : k <= i }
<1>1. I # {}
  OBVIOUS
<1>2. IsFiniteSet(I)
  BY UpToFinite
<1>3. Cardinality(I) # 0
  <2> HIDE DEF I
  <2> QED
    BY <1>1, <1>2, FS_EmptySet
<1>4. Rank(i, S) # 0
  BY <1>3 DEF Rank
<1>5. Rank(i, S) \in Nat /\ Rank(i, S) <= Cardinality(S)
  BY UpToFinite
<1>6. Cardinality(S) \in Nat
  BY FS_CardinalityType
<1> QED
  BY <1>4, <1>5, <1>6

(* Every rank is taken: the ranks of n places are n different ones of      *)
(* 1..n.                                                                   *)
LEMMA RanksAreTaken ==
  ASSUME NEW S \in SUBSET Int, IsFiniteSet(S), NEW k \in 1..Cardinality(S)
  PROVE  \E i \in S : Rank(i, S) = k
<1> DEFINE T == 1..Cardinality(S)
           rank == [i \in S |-> Rank(i, S)]
<1>1. Cardinality(S) \in Nat
  BY FS_CardinalityType
<1>2. IsFiniteSet(T) /\ Cardinality(T) = Cardinality(S)
  BY <1>1, FS_Interval
<1>3. rank \in [S -> T]
  BY RankPositive
<1>4. \A i, j \in S : rank[i] = rank[j] => i = j
  <2> SUFFICES ASSUME NEW i \in S, NEW j \in S, i # j
               PROVE  Rank(i, S) # Rank(j, S)
    OBVIOUS
  <2>0. i \in Int /\ j \in Int
    OBVIOUS
  <2>1. Rank(i, S) \in Nat /\ Rank(j, S) \in Nat
    BY UpToFinite
  <2>2. i < j \/ j < i
    BY <2>0
  <2>3. ASSUME i < j PROVE Rank(i, S) < Rank(j, S)
    BY <2>3, RankRises
  <2>4. ASSUME j < i PROVE Rank(j, S) < Rank(i, S)
    BY <2>4, RankRises
  <2> QED
    BY <2>1, <2>2, <2>3, <2>4
<1>5. rank \in Injection(S, T)
  <2> HIDE DEF rank, T
  <2> QED
    BY <1>3, <1>4, Fun_IsInj
<1>6. rank \in Surjection(S, T)
  <2> HIDE DEF rank, T
  <2> QED
    BY <1>2, <1>5, FS_Injection
<1>7. \E i \in S : rank[i] = k
  <2> HIDE DEF rank, T
  <2>1. \A t \in T : \E i \in S : rank[i] = t
    BY <1>6, Fun_SurjectionProperties
  <2> QED
    BY <2>1 DEF T
<1> QED
  BY <1>7

LEMMA NthIs ==
  ASSUME NEW S \in SUBSET Int, IsFiniteSet(S), NEW k \in 1..Cardinality(S)
  PROVE  Nth(k, S) \in S /\ Rank(Nth(k, S), S) = k
<1>1. \E i \in S : Rank(i, S) = k
  BY RanksAreTaken
<1> QED
  BY <1>1, Zenon DEF Nth

(* The place of a rank is the only one.                                    *)
LEMMA NthOnly ==
  ASSUME NEW S \in SUBSET Int, IsFiniteSet(S), NEW i \in S,
         NEW k \in 1..Cardinality(S), Rank(i, S) = k
  PROVE  Nth(k, S) = i
<1> DEFINE n == Nth(k, S)
<1>1. n \in S /\ Rank(n, S) = k
  BY NthIs
<1>2. Rank(i, S) \in Nat
  BY UpToFinite
<1> HIDE DEF n
<1>3. n \in Int /\ i \in Int
  BY <1>1
<1>4. ASSUME i < n PROVE Rank(i, S) < Rank(n, S)
  BY <1>1, <1>4, RankRises
<1>5. ASSUME n < i PROVE Rank(n, S) < Rank(i, S)
  BY <1>1, <1>5, RankRises
<1>6. n = i
  BY <1>1, <1>2, <1>3, <1>4, <1>5
<1> QED
  BY <1>6 DEF n

LEMMA NthRises ==
  ASSUME NEW S \in SUBSET Int, IsFiniteSet(S),
         NEW k \in 1..Cardinality(S), NEW m \in 1..Cardinality(S), k < m
  PROVE  Nth(k, S) < Nth(m, S)
<1> DEFINE i == Nth(k, S)
           j == Nth(m, S)
<1>1. /\ i \in S /\ Rank(i, S) = k
      /\ j \in S /\ Rank(j, S) = m
  BY NthIs
<1>2. Cardinality(S) \in Nat
  BY FS_CardinalityType
<1> HIDE DEF i, j
<1>3. i \in Int /\ j \in Int
  BY <1>1
<1>4. ASSUME j < i PROVE Rank(j, S) < Rank(i, S)
  BY <1>1, <1>4, RankRises
<1>5. i < j
  BY <1>1, <1>2, <1>3, <1>4
<1> QED
  BY <1>5 DEF i, j

-----------------------------------------------------------------------------
(* Blocks after blocks.                                                    *)

LEMMA ShiftedCount ==
  ASSUME NEW S \in SUBSET Int, IsFiniteSet(S), NEW n \in Int
  PROVE  /\ IsFiniteSet({ n + j : j \in S })
         /\ Cardinality({ n + j : j \in S }) = Cardinality(S)
<1> DEFINE T == { n + j : j \in S }
           shift == [j \in S |-> n + j]
<1>1. shift \in [S -> T]
  OBVIOUS
<1>2. \A t \in T : \E j \in S : shift[j] = t
  OBVIOUS
<1>3. \A i, j \in S : shift[i] = shift[j] => i = j
  <2> SUFFICES ASSUME NEW i \in S, NEW j \in S, n + i = n + j
               PROVE  i = j
    OBVIOUS
  <2>1. i \in Int /\ j \in Int
    OBVIOUS
  <2> QED
    BY <2>1
<1> HIDE DEF T, shift
<1>4. shift \in Surjection(S, T) /\ shift \in Injection(S, T)
  BY <1>1, <1>2, <1>3, Fun_IsInj, Fun_IsSurj
<1>5. IsFiniteSet(T) /\ Cardinality(T) = Cardinality(S)
  BY <1>4, FS_Surjection
<1> QED
  BY <1>5 DEF T

Joined(S, n, T) == S \cup { n + j : j \in T }

LEMMA JoinedCount ==
  ASSUME NEW n \in Nat, NEW S \in SUBSET (1..n), IsFiniteSet(S),
         NEW T \in SUBSET (Nat \ {0}), IsFiniteSet(T)
  PROVE  /\ IsFiniteSet(Joined(S, n, T)) /\ Joined(S, n, T) \in SUBSET Int
         /\ Cardinality(Joined(S, n, T)) = Cardinality(S) + Cardinality(T)
<1> DEFINE U == { n + j : j \in T }
<1>1. IsFiniteSet(U) /\ Cardinality(U) = Cardinality(T)
  <2>1. T \in SUBSET Int /\ n \in Int
    OBVIOUS
  <2> QED
    BY <2>1, ShiftedCount
<1>2. \A u \in U : u \in Int /\ u > n
  <2> SUFFICES ASSUME NEW j \in T PROVE n + j \in Int /\ n + j > n
    OBVIOUS
  <2>1. j \in Nat /\ j # 0
    OBVIOUS
  <2> QED
    BY <2>1
<1>3. \A i \in S : i \in Int /\ i <= n
  OBVIOUS
<1> HIDE DEF U
<1>4. S \cap U = {}
  BY <1>2, <1>3
<1>5. IsFiniteSet(S \cup U)
      /\ Cardinality(S \cup U) = Cardinality(S) + Cardinality(T)
  <2>1. Cardinality(S) \in Nat /\ Cardinality(T) \in Nat
    BY FS_CardinalityType
  <2>2. Cardinality(S \cup U) = Cardinality(S) + Cardinality(U) - Cardinality({})
    BY <1>1, <1>4, FS_Union
  <2>3. IsFiniteSet(S \cup U)
    BY <1>1, FS_Union
  <2> QED
    BY <1>1, <2>1, <2>2, <2>3, FS_EmptySet
<1>6. S \cup U \in SUBSET Int
  BY <1>2, <1>3
<1> QED
  BY <1>5, <1>6 DEF Joined, U

LEMMA OldRank ==
  ASSUME NEW n \in Nat, NEW S \in SUBSET (1..n), IsFiniteSet(S),
         NEW T \in SUBSET (Nat \ {0}), IsFiniteSet(T),
         NEW i \in S
  PROVE  Rank(i, Joined(S, n, T)) = Rank(i, S)
<1>1. i \in Int /\ i <= n
  OBVIOUS
<1>2. \A j \in T : j \in Int /\ j > 0
  OBVIOUS
<1>3. \A k \in { n + j : j \in T } : ~ (k <= i)
  BY <1>1, <1>2
<1>4. { k \in Joined(S, n, T) : k <= i } = { k \in S : k <= i }
  BY <1>3 DEF Joined
<1> QED
  BY <1>4 DEF Rank

LEMMA NewRank ==
  ASSUME NEW n \in Nat, NEW S \in SUBSET (1..n), IsFiniteSet(S),
         NEW T \in SUBSET (Nat \ {0}), IsFiniteSet(T),
         NEW j \in T, NEW p, p = n + j
  PROVE  Rank(p, Joined(S, n, T)) = Cardinality(S) + Rank(j, T)
<1> DEFINE R == { k \in T : k <= j }
<1>1. \A i \in S : i \in Int /\ i <= n
  OBVIOUS
<1>2. \A k \in T : k \in Int /\ k > 0
  OBVIOUS
<1>3. IsFiniteSet(R) /\ R \in SUBSET (Nat \ {0})
  BY UpToFinite
<1>4. { k \in Joined(S, n, T) : k <= n + j } = Joined(S, n, R)
  <2>1. \A k \in S : k <= n + j
    BY <1>1, <1>2
  <2>2. \A k \in T : n + k <= n + j <=> k <= j
    BY <1>2
  <2> QED
    BY <2>1, <2>2 DEF Joined
<1>5. Cardinality(Joined(S, n, R)) = Cardinality(S) + Cardinality(R)
  <2> HIDE DEF R
  <2> QED
    BY <1>3, JoinedCount
<1> QED
  BY <1>4, <1>5 DEF Rank

LEMMA OldNth ==
  ASSUME NEW n \in Nat, NEW S \in SUBSET (1..n), IsFiniteSet(S),
         NEW T \in SUBSET (Nat \ {0}), IsFiniteSet(T),
         NEW k \in 1..Cardinality(S)
  PROVE  Nth(k, Joined(S, n, T)) = Nth(k, S)
<1> DEFINE U == Joined(S, n, T)
<1>1. /\ IsFiniteSet(U) /\ U \in SUBSET Int
      /\ Cardinality(U) = Cardinality(S) + Cardinality(T)
  BY JoinedCount
<1>2. Cardinality(S) \in Nat /\ Cardinality(T) \in Nat
  BY FS_CardinalityType
<1>3. Nth(k, S) \in S /\ Rank(Nth(k, S), S) = k
  <2>1. S \in SUBSET Int
    OBVIOUS
  <2> QED
    BY <2>1, NthIs
<1>4. Nth(k, S) \in U
  BY <1>3 DEF Joined
<1>5. Rank(Nth(k, S), U) = k
  BY <1>3, OldRank
<1>6. k \in 1..Cardinality(U)
  BY <1>1, <1>2
<1> HIDE DEF U
<1>7. Nth(k, U) = Nth(k, S)
  BY <1>1, <1>4, <1>5, <1>6, NthOnly
<1> QED
  BY <1>7 DEF U

LEMMA NewNth ==
  ASSUME NEW n \in Nat, NEW S \in SUBSET (1..n), IsFiniteSet(S),
         NEW T \in SUBSET (Nat \ {0}), IsFiniteSet(T),
         NEW k \in 1..Cardinality(T), NEW m, m = Cardinality(S) + k
  PROVE  Nth(m, Joined(S, n, T)) = n + Nth(k, T)
<1> DEFINE U == Joined(S, n, T)
<1>1. /\ IsFiniteSet(U) /\ U \in SUBSET Int
      /\ Cardinality(U) = Cardinality(S) + Cardinality(T)
  BY JoinedCount
<1>2. Cardinality(S) \in Nat /\ Cardinality(T) \in Nat
  BY FS_CardinalityType
<1>3. Nth(k, T) \in T /\ Rank(Nth(k, T), T) = k
  <2>1. T \in SUBSET Int
    OBVIOUS
  <2> QED
    BY <2>1, NthIs
<1>4. n + Nth(k, T) \in U
  BY <1>3 DEF Joined
<1>5. PICK p : p = n + Nth(k, T)
  OBVIOUS
<1>6. Rank(p, U) = Cardinality(S) + k
  <2>1. PICK j : j = Nth(k, T)
    OBVIOUS
  <2>2. j \in T /\ p = n + j
    BY <1>3, <1>5, <2>1
  <2>3. Rank(p, U) = Cardinality(S) + Rank(j, T)
    BY <2>2, NewRank
  <2> QED
    BY <1>3, <2>1, <2>3
<1>7. m \in 1..Cardinality(U) /\ m = Cardinality(S) + k
  BY <1>1, <1>2
<1> HIDE DEF U
<1>8. Nth(m, U) = p
  BY <1>1, <1>4, <1>5, <1>6, <1>7, NthOnly
<1> QED
  BY <1>5, <1>8 DEF U

-----------------------------------------------------------------------------
(* The blocks of a kind.                                                   *)

LEMMA KindPlaces ==
  ASSUME NEW X, NEW s \in Seq(X), NEW kind
  PROVE  /\ PlacesOf(kind, s) \in SUBSET (1..Len(s))
         /\ PlacesOf(kind, s) \in SUBSET Int
         /\ PlacesOf(kind, s) \in SUBSET (Nat \ {0})
         /\ IsFiniteSet(PlacesOf(kind, s))
         /\ Cardinality(PlacesOf(kind, s)) \in Nat
         /\ Cardinality(PlacesOf(kind, s)) <= Len(s)
<1>1. PlacesOf(kind, s) \in SUBSET (1..Len(s))
  BY LenProperties DEF PlacesOf
<1>2. Len(s) \in Nat
  BY LenProperties
<1>3. IsFiniteSet(1..Len(s)) /\ Cardinality(1..Len(s)) = Len(s)
  BY <1>2, FS_Interval
<1>4. /\ IsFiniteSet(PlacesOf(kind, s))
      /\ Cardinality(PlacesOf(kind, s)) <= Len(s)
  BY <1>1, <1>3, FS_Subset
<1>5. Cardinality(PlacesOf(kind, s)) \in Nat
  BY <1>4, FS_CardinalityType
<1> QED
  BY <1>1, <1>2, <1>4, <1>5

LEMMA OfKindIs ==
  ASSUME NEW X, NEW s \in Seq(X), NEW kind
  PROVE  /\ OfKind(kind, s) \in Seq(X)
         /\ Len(OfKind(kind, s)) = Cardinality(PlacesOf(kind, s))
         /\ DOMAIN OfKind(kind, s) = 1..Cardinality(PlacesOf(kind, s))
         /\ \A k \in 1..Cardinality(PlacesOf(kind, s)) :
              /\ Nth(k, PlacesOf(kind, s)) \in PlacesOf(kind, s)
              /\ OfKind(kind, s)[k] = s[Nth(k, PlacesOf(kind, s))]
<1> DEFINE P == PlacesOf(kind, s)
           n == Cardinality(P)
           nth == [k \in 1..n |-> Nth(k, P)]
<1>1. /\ P \in SUBSET (1..Len(s)) /\ P \in SUBSET Int /\ IsFiniteSet(P)
      /\ n \in Nat
  BY KindPlaces
<1>2. OfKind(kind, s) = [k \in 1..n |-> s[Nth(k, P)]]
  BY DEF OfKind
<1> HIDE DEF P
<1>3. \A k \in 1..n : Nth(k, P) \in P
  BY <1>1, NthIs
<1>4. \A i \in P : s[i] \in X
  BY <1>1, LenProperties
<1>5. OfKind(kind, s) \in [1..n -> X]
  BY <1>2, <1>3, <1>4
<1>6. OfKind(kind, s) \in Seq(X)
  <2> HIDE DEF n
  <2> QED
    BY <1>1, <1>5, SeqDef
<1>7. Len(OfKind(kind, s)) = n
  <2>1. 1..Len(OfKind(kind, s)) = 1..n /\ Len(OfKind(kind, s)) \in Nat
    BY <1>5, <1>6, LenProperties
  <2> HIDE DEF n
  <2> QED
    BY <1>1, <2>1
<1> QED
  BY <1>2, <1>3, <1>5, <1>6, <1>7 DEF P

(* The blocks of a kind in more blocks are those there were and those of   *)
(* the new ones.                                                           *)
LEMMA OfKindJoined ==
  ASSUME NEW X, NEW s \in Seq(X), NEW t \in Seq(X), NEW kind
  PROVE  /\ PlacesOf(kind, s \o t) =
              Joined(PlacesOf(kind, s), Len(s), PlacesOf(kind, t))
         /\ OfKind(kind, s \o t) = OfKind(kind, s) \o OfKind(kind, t)
<1> DEFINE S == PlacesOf(kind, s)
           T == PlacesOf(kind, t)
           n == Len(s)
           u == s \o t
           U == PlacesOf(kind, u)
<1>1. /\ n \in Nat /\ Len(t) \in Nat /\ DOMAIN s = 1..n
      /\ DOMAIN t = 1..Len(t)
  BY LenProperties
<1>2. /\ u \in Seq(X) /\ DOMAIN u = 1..(n + Len(t))
      /\ \A i \in 1..n : u[i] = s[i]
      /\ \A j \in 1..Len(t) : n + j \in DOMAIN u /\ u[n + j] = t[j]
  <2>1. /\ u \in Seq(X) /\ Len(u) = n + Len(t)
        /\ \A i \in 1..(n + Len(t)) :
             u[i] = IF i <= n THEN s[i] ELSE t[i - n]
    BY ConcatProperties
  <2>2. DOMAIN u = 1..(n + Len(t))
    BY <2>1, LenProperties
  <2> HIDE DEF u, n
  <2>3. \A i \in 1..n : u[i] = s[i]
    BY <1>1, <2>1
  <2>4. ASSUME NEW j \in 1..Len(t)
        PROVE  n + j \in 1..(n + Len(t)) /\ u[n + j] = t[j]
    <3>1. n + j \in 1..(n + Len(t)) /\ ~ (n + j <= n) /\ (n + j) - n = j
      BY <1>1
    <3> QED
      BY <2>1, <3>1
  <2> QED
    BY <2>1, <2>2, <2>3, <2>4
<1>3. U = Joined(S, n, T)
  <2> HIDE DEF u, n
  <2>1. ASSUME NEW i \in U
        PROVE  i \in Joined(S, n, T)
    <3>1. i \in 1..(n + Len(t)) /\ u[i].kind = kind
      BY <1>2 DEF PlacesOf
    <3>2. CASE i <= n
      <4>1. i \in 1..n
        BY <1>1, <3>1, <3>2
      <4> QED
        BY <1>1, <1>2, <3>1, <4>1 DEF Joined, PlacesOf
    <3>3. CASE ~ (i <= n)
      <4>1. i - n \in 1..Len(t) /\ i = n + (i - n)
        BY <1>1, <3>1, <3>3
      <4>2. i - n \in T
        BY <1>1, <1>2, <3>1, <4>1 DEF PlacesOf
      <4> QED
        BY <4>1, <4>2 DEF Joined
    <3> QED
      BY <3>2, <3>3
  <2>2. ASSUME NEW i \in S
        PROVE  i \in U
    <3>1. i \in 1..n /\ s[i].kind = kind
      BY <1>1 DEF PlacesOf
    <3>2. i \in 1..(n + Len(t))
      BY <1>1, <3>1
    <3> QED
      BY <1>2, <3>1, <3>2 DEF PlacesOf
  <2>3. ASSUME NEW j \in T
        PROVE  n + j \in U
    <3>1. j \in 1..Len(t) /\ t[j].kind = kind
      BY <1>1 DEF PlacesOf
    <3> QED
      BY <1>2, <3>1 DEF PlacesOf
  <2>4. Joined(S, n, T) \subseteq U
    BY <2>2, <2>3 DEF Joined
  <2> QED
    BY <2>1, <2>4
<1>4. /\ S \in SUBSET (1..n) /\ S \in SUBSET Int /\ IsFiniteSet(S)
      /\ T \in SUBSET (1..Len(t)) /\ T \in SUBSET (Nat \ {0}) /\ IsFiniteSet(T)
      /\ Cardinality(S) \in Nat /\ Cardinality(T) \in Nat
  BY KindPlaces
<1>5. /\ Cardinality(U) = Cardinality(S) + Cardinality(T)
      /\ \A k \in 1..Cardinality(S) : Nth(k, U) = Nth(k, S)
      /\ \A k \in 1..Cardinality(T) :
           Nth(Cardinality(S) + k, U) = n + Nth(k, T)
  <2> HIDE DEF S, T, U, n
  <2>1. Cardinality(U) = Cardinality(S) + Cardinality(T)
    BY <1>1, <1>3, <1>4, JoinedCount
  <2>2. ASSUME NEW k \in 1..Cardinality(S)
        PROVE  Nth(k, U) = Nth(k, S)
    BY <1>1, <1>3, <1>4, OldNth
  <2>3. ASSUME NEW k \in 1..Cardinality(T)
        PROVE  Nth(Cardinality(S) + k, U) = n + Nth(k, T)
    <3>1. PICK m : m = Cardinality(S) + k
      OBVIOUS
    <3>2. Nth(m, U) = n + Nth(k, T)
      BY <1>1, <1>3, <1>4, <3>1, NewNth
    <3> QED
      BY <3>1, <3>2
  <2> QED
    BY <2>1, <2>2, <2>3
<1> DEFINE f == OfKind(kind, s)
           g == OfKind(kind, t)
           h == OfKind(kind, u)
<1>6. /\ f \in Seq(X) /\ Len(f) = Cardinality(S)
      /\ \A k \in 1..Cardinality(S) : Nth(k, S) \in S /\ f[k] = s[Nth(k, S)]
  BY OfKindIs
<1>7. /\ g \in Seq(X) /\ Len(g) = Cardinality(T)
      /\ \A k \in 1..Cardinality(T) : Nth(k, T) \in T /\ g[k] = t[Nth(k, T)]
  BY OfKindIs
<1>8. /\ h \in Seq(X) /\ Len(h) = Cardinality(U)
      /\ \A k \in 1..Cardinality(U) : h[k] = u[Nth(k, U)]
  BY <1>2, OfKindIs
<1> HIDE DEF S, T, U, u, n, f, g, h
<1>9. ASSUME NEW k \in 1..Len(h)
      PROVE  h[k] = (f \o g)[k]
  <2>1. /\ k \in 1..(Len(f) + Len(g)) /\ k \in Int
        /\ Len(f) \in Nat /\ Len(g) \in Nat
    BY <1>4, <1>5, <1>6, <1>7, <1>8
  <2>2. (f \o g)[k] = IF k <= Len(f) THEN f[k] ELSE g[k - Len(f)]
    BY <1>6, <1>7, <2>1, ConcatProperties
  <2>3. CASE k <= Len(f)
    <3>1. k \in 1..Cardinality(S)
      BY <1>6, <2>1, <2>3
    <3>2. h[k] = u[Nth(k, S)] /\ Nth(k, S) \in 1..n
      BY <1>4, <1>5, <1>6, <1>8, <3>1
    <3> QED
      BY <1>2, <1>6, <2>2, <2>3, <3>1, <3>2
  <2>4. CASE ~ (k <= Len(f))
    <3>1. /\ k - Len(f) \in 1..Cardinality(T)
          /\ Cardinality(S) + (k - Len(f)) = k
      BY <1>4, <1>6, <1>7, <2>1, <2>4
    <3>2. h[k] = u[n + Nth(k - Len(f), T)] /\ Nth(k - Len(f), T) \in 1..Len(t)
      BY <1>4, <1>5, <1>7, <1>8, <3>1
    <3> QED
      BY <1>2, <1>7, <2>2, <2>4, <3>1, <3>2
  <2> QED
    BY <2>3, <2>4
<1>10. f \o g \in Seq(X) /\ Len(f \o g) = Len(h)
  BY <1>4, <1>5, <1>6, <1>7, <1>8, ConcatProperties
<1>11. h = f \o g
  BY <1>8, <1>9, <1>10, SeqEqual
<1> QED
  BY <1>3, <1>11 DEF S, T, U, u, n, f, g, h
-----------------------------------------------------------------------------
(* Types.                                                                  *)

Block == [kind : Kinds, parts : Seq(1..MaxFragments)]
Fragment == [choice : Nat, part : 1..MaxFragments]
Report ==
  [fresh : Nat, cached : Nat, out : Nat, other : Nat, complete : BOOLEAN]
UsageReport == [total : Nat, cached : Nat]
Reasons == AnthropicReasons \cup GeminiReasons
Finishes == { "stop", "length", "tool_calls", "content_filter" }

WordsType ==
  /\ protocol \in { "anthropic", "gemini" }
  /\ phase \in { "before", "open", "stopped", "ended", "cut" }
  /\ reason \in Reasons \cup { "" }
  /\ stopReason \in AnthropicReasons \cup { "" }
  /\ finish \in Finishes \cup { "" }

CountsType ==
  /\ report \in Report /\ last \in UsageReport
  /\ promptTokens \in Nat /\ cachedTokens \in Nat

ContentType ==
  /\ fragments \in 0..MaxFragments
  /\ said \in Seq(Block) /\ Len(said) <= fragments
  /\ text \in Seq(Fragment)
  /\ toolCalls \in 0..Len(said)

LEMMA FinishReasonType ==
  ASSUME NEW r \in Reasons
  PROVE  FinishReason(r) \in Finishes
<1>1. mapStopReason(r) \in Finishes
  BY DEF mapStopReason, Finishes
<1>2. mapGeminiFinish(r) \in Finishes
  BY DEF mapGeminiFinish, Finishes
<1> QED
  BY <1>1, <1>2 DEF FinishReason

LEMMA BatchType ==
  ASSUME NEW batch \in Batches
  PROVE  batch \in Seq(Kinds) /\ Len(batch) \in Nat
<1>1. "text" \in Kinds /\ "tool" \in Kinds /\ "thinking" \in Kinds
  BY DEF Kinds
<1>2. << >> \in Seq(Kinds)
  OBVIOUS
<1>3. << "text" >> \in Seq(Kinds) /\ << "tool" >> \in Seq(Kinds)
  BY <1>1
<1>4. /\ << "text", "tool" >> \in Seq(Kinds)
      /\ << "thinking", "text" >> \in Seq(Kinds)
      /\ << "tool", "tool" >> \in Seq(Kinds)
  BY <1>1
<1>5. batch \in Seq(Kinds)
  BY <1>2, <1>3, <1>4 DEF Batches
<1> QED
  BY <1>5, LenProperties

(* The blocks of a chunk, one fragment each.                               *)
LEMMA NewBlocksType ==
  ASSUME NEW batch \in Seq(Kinds), fragments \in Nat,
         fragments + Len(batch) <= MaxFragments
  PROVE  /\ NewBlocks(batch) \in Seq(Block)
         /\ Len(NewBlocks(batch)) = Len(batch)
         /\ \A i \in 1..Len(batch) :
              NewBlocks(batch)[i] =
                [kind |-> batch[i], parts |-> << fragments + i >>]
<1>1. Len(batch) \in Nat /\ DOMAIN batch = 1..Len(batch)
  BY LenProperties
<1>2. ASSUME NEW i \in 1..Len(batch)
      PROVE  [kind |-> batch[i], parts |-> << fragments + i >>] \in Block
  <2>1. fragments + i \in 1..MaxFragments
    BY <1>1, TranslateAssumption
  <2>2. << fragments + i >> \in Seq(1..MaxFragments)
    BY <2>1
  <2>3. batch[i] \in Kinds
    BY LenProperties
  <2> QED
    BY <2>2, <2>3 DEF Block
<1>3. NewBlocks(batch) \in [1..Len(batch) -> Block]
  BY <1>1, <1>2 DEF NewBlocks
<1>4. NewBlocks(batch) \in Seq(Block)
  BY <1>1, <1>3, SeqDef
<1>5. Len(NewBlocks(batch)) = Len(batch)
  BY <1>1, <1>3, <1>4, LenProperties
<1> QED
  BY <1>1, <1>4, <1>5 DEF NewBlocks

LEMMA WordsStep ==
  ASSUME WordsType, [Next]_vars
  PROVE  WordsType'
<1> USE DEF WordsType
<1>1. CASE MessageStart
  BY <1>1 DEF MessageStart, caller
<1>2. ASSUME NEW kind \in Kinds, ContentBlockStart(kind) PROVE WordsType'
  BY <1>2 DEF ContentBlockStart
<1>3. ASSUME NEW b \in 0..(Len(said) - 1), ContentBlockDelta(b)
      PROVE  WordsType'
  BY <1>3 DEF ContentBlockDelta, translator
<1>4. ASSUME NEW r \in AnthropicReasons \cup { "" }, MessageDelta(r)
      PROVE  WordsType'
  <2>1. /\ reason' = IF r = "" THEN reason ELSE r
        /\ stopReason' = IF r = "" THEN stopReason ELSE r
        /\ phase' = IF stopReason' = "" THEN "open" ELSE "stopped"
        /\ finish' = IF stopReason' = "" THEN finish
                     ELSE Upgraded(stopReason', toolCalls > 0)
        /\ protocol' = protocol
    BY <1>4 DEF MessageDelta
  <2>2. reason' \in Reasons \cup { "" }
    BY <2>1 DEF Reasons
  <2>3. stopReason' \in AnthropicReasons \cup { "" }
    BY <2>1
  <2>4. finish' \in Finishes \cup { "" }
    <3>1. PICK q : q = stopReason'
      OBVIOUS
    <3>2. q # "" => q \in Reasons
      BY <2>3, <3>1 DEF Reasons
    <3>3. q # "" => FinishReason(q) \in Finishes
      BY <3>2, FinishReasonType
    <3> QED
      BY <2>1, <3>1, <3>3 DEF Upgraded, Finishes
  <2>5. phase' \in { "open", "stopped" }
    BY <2>1
  <2> QED
    BY <2>1, <2>2, <2>3, <2>4, <2>5
<1>5. ASSUME NEW batch \in Batches, GeminiChunk(batch) PROVE WordsType'
  <2>1. PICK r \in GeminiReasons \cup { "" } :
          /\ reason' = r
          /\ phase' = IF r = "" THEN "open" ELSE "stopped"
          /\ finish' = IF r = "" THEN finish
                        ELSE Upgraded(r, HadCalls(batch))
    BY <1>5 DEF GeminiChunk
  <2>2. r # "" => FinishReason(r) \in Finishes
    BY FinishReasonType DEF Reasons
  <2>4. finish' \in Finishes \cup { "" }
    BY <2>1, <2>2 DEF Upgraded, Finishes
  <2> QED
    BY <1>5, <2>1, <2>4 DEF GeminiChunk, Reasons
<1>6. CASE End
  BY <1>6 DEF End, translator, caller
<1>7. CASE Cut
  BY <1>7 DEF Cut, translator, caller
<1>8. CASE Rest \/ UNCHANGED vars
  BY <1>8 DEF Rest, vars, provider, translator, caller
<1> QED
  BY <1>1, <1>2, <1>3, <1>4, <1>5, <1>6, <1>7, <1>8 DEF Next

LEMMA CountsStep ==
  ASSUME CountsType, [Next]_vars
  PROVE  CountsType'
<1> USE TranslateAssumption DEF CountsType, Report, UsageReport
<1>1. CASE MessageStart
  <2>1. PICK fresh, cached \in Counts :
          /\ report' = [NoReport EXCEPT !.fresh = fresh, !.cached = cached]
          /\ promptTokens' = fresh + cached
          /\ cachedTokens' = cached
    BY <1>1 DEF MessageStart
  <2>2. report' \in Report
    BY <2>1 DEF NoReport
  <2>3. last' = last
    BY <1>1 DEF MessageStart, caller
  <2> QED
    BY <2>1, <2>2, <2>3
<1>2. ASSUME NEW kind \in Kinds, ContentBlockStart(kind) PROVE CountsType'
  BY <1>2 DEF ContentBlockStart
<1>3. ASSUME NEW b \in 0..(Len(said) - 1), ContentBlockDelta(b)
      PROVE  CountsType'
  BY <1>3 DEF ContentBlockDelta, translator
<1>4. ASSUME NEW r, MessageDelta(r)
      PROVE  CountsType'
  <2>1. PICK out \in Nat :
          /\ report' = [report EXCEPT !.out = out, !.complete = TRUE]
          /\ last' = Usage(promptTokens + out, cachedTokens)
    BY <1>4 DEF MessageDelta
  <2>2. promptTokens' = promptTokens /\ cachedTokens' = cachedTokens
    BY <1>4 DEF MessageDelta
  <2>3. report' \in Report
    BY <2>1
  <2>4. last' \in UsageReport
    <3>1. PICK n \in Nat : n = promptTokens + out
      OBVIOUS
    <3>2. last' = Usage(n, cachedTokens)
      BY <2>1, <3>1
    <3> QED
      BY <3>2 DEF Usage
  <2> QED
    BY <2>2, <2>3, <2>4
<1>5. ASSUME NEW batch \in Batches, GeminiChunk(batch) PROVE CountsType'
  <2>1. PICK fresh, cached, out, other \in Counts :
          /\ report' = [fresh |-> fresh, cached |-> cached, out |-> out,
                        other |-> other, complete |-> TRUE]
          /\ last' = Usage(fresh + cached + out + other, cached)
    BY <1>5 DEF GeminiChunk
  <2>2. promptTokens' = promptTokens /\ cachedTokens' = cachedTokens
    BY <1>5 DEF GeminiChunk
  <2>3. /\ fresh \in Nat /\ cached \in Nat /\ out \in Nat /\ other \in Nat
        /\ fresh + cached + out + other \in Nat
    OBVIOUS
  <2>4. report' \in Report
    BY <2>1, <2>3
  <2>5. last' \in UsageReport
    BY <2>1, <2>3 DEF Usage
  <2> QED
    BY <2>2, <2>4, <2>5
<1>6. CASE End
  BY <1>6 DEF End, translator, caller
<1>7. CASE Cut
  BY <1>7 DEF Cut, translator, caller
<1>8. CASE Rest \/ UNCHANGED vars
  BY <1>8 DEF Rest, vars, provider, translator, caller
<1> QED
  BY <1>1, <1>2, <1>3, <1>4, <1>5, <1>6, <1>7, <1>8 DEF Next
-----------------------------------------------------------------------------
(* The bill: the proxy's usage report is the provider's, once that is      *)
(* complete and of some tokens, and Anthropic's translator holds what its  *)
(* first event reported.                                                   *)

Total == report.fresh + report.cached + report.out + report.other

BillInv ==
  /\ report.complete => phase # "before"
  /\ last = IF report.complete /\ Total # 0
              THEN [total |-> Total, cached |-> report.cached]
              ELSE NoUsage
  /\ protocol = "anthropic" =>
       /\ promptTokens = report.fresh + report.cached
       /\ cachedTokens = report.cached /\ report.other = 0

(* Counts that do not fall: a report of nothing comes only after reports   *)
(* of nothing.                                                             *)
LEMMA UsageIs ==
  ASSUME CountsType, BillInv, NEW n \in Nat, NEW c \in Nat, Total <= n
  PROVE  Usage(n, c) = IF n # 0 THEN [total |-> n, cached |-> c] ELSE NoUsage
<1>1. Total \in Nat
  BY DEF CountsType, Report, Total
<1>2. n = 0 => Total = 0
  BY <1>1
<1>3. n = 0 => last = NoUsage
  BY <1>2 DEF BillInv
<1> QED
  BY <1>3 DEF Usage

LEMMA BillStep ==
  ASSUME WordsType, CountsType, BillInv, [Next]_vars
  PROVE  BillInv'
<1>1. CASE MessageStart
  <2>1. PICK fresh, cached \in Counts :
          /\ report' = [NoReport EXCEPT !.fresh = fresh, !.cached = cached]
          /\ promptTokens' = fresh + cached
          /\ cachedTokens' = cached
    BY <1>1 DEF MessageStart
  <2>2. /\ report'.fresh = fresh /\ report'.cached = cached
        /\ report'.other = 0 /\ report'.complete = FALSE
    BY <2>1 DEF NoReport
  <2>3. phase = "before" /\ last' = last
    BY <1>1 DEF MessageStart, caller
  <2>4. last = NoUsage
    BY <2>3 DEF BillInv
  <2> QED
    BY <2>1, <2>2, <2>3, <2>4 DEF BillInv
<1>2. CASE UNCHANGED << protocol, phase, report, promptTokens, cachedTokens,
                        last >>
  BY <1>2 DEF BillInv, Total
<1>3. ASSUME NEW kind \in Kinds, ContentBlockStart(kind) PROVE BillInv'
  BY <1>2, <1>3 DEF ContentBlockStart
<1>4. ASSUME NEW b \in 0..(Len(said) - 1), ContentBlockDelta(b)
      PROVE  BillInv'
  BY <1>2, <1>4 DEF ContentBlockDelta, translator
<1>5. ASSUME NEW r, MessageDelta(r)
      PROVE  BillInv'
  <2>1. PICK out \in Nat :
          /\ report.out <= out
          /\ report' = [report EXCEPT !.out = out, !.complete = TRUE]
          /\ last' = Usage(promptTokens + out, cachedTokens)
    BY <1>5, TranslateAssumption DEF MessageDelta
  <2>3. /\ report.fresh \in Nat /\ report.cached \in Nat
        /\ report.out \in Nat /\ report.other \in Nat
    BY DEF CountsType, Report
  <2>4. /\ report'.fresh = report.fresh /\ report'.cached = report.cached
        /\ report'.out = out /\ report'.other = report.other
        /\ report'.complete = TRUE
    BY <2>1 DEF CountsType, Report
  <2>5. /\ protocol = "anthropic" /\ protocol' = protocol
        /\ promptTokens' = promptTokens /\ cachedTokens' = cachedTokens
        /\ phase' = IF stopReason' = "" THEN "open" ELSE "stopped"
    BY <1>5 DEF MessageDelta
  <2>6. /\ promptTokens = report.fresh + report.cached
        /\ cachedTokens = report.cached /\ report.other = 0
    BY <2>5 DEF BillInv
  <2>7. PICK n \in Nat : n = promptTokens + out
    BY DEF CountsType
  <2>8. Total' = n /\ Total <= n
    <3>1. PICK fresh \in Nat, cached \in Nat, before \in Nat :
            /\ fresh = report.fresh /\ cached = report.cached
            /\ before = report.out
      BY <2>3
    <3>2. Total = fresh + cached + before + 0
      BY <2>6, <3>1 DEF Total
    <3>3. Total' = fresh + cached + out + 0
      BY <2>4, <2>6, <3>1 DEF Total
    <3>4. n = fresh + cached + out /\ before <= out
      BY <2>1, <2>6, <2>7, <3>1
    <3> QED
      BY <3>1, <3>2, <3>3, <3>4
  <2>9. last' = IF n # 0 THEN [total |-> n, cached |-> report.cached]
                ELSE NoUsage
    BY <2>1, <2>3, <2>6, <2>7, <2>8, UsageIs
  <2>10. phase' # "before"
    BY <2>5
  <2> QED
    BY <2>4, <2>5, <2>6, <2>8, <2>9, <2>10 DEF BillInv
<1>6. ASSUME NEW batch \in Batches, GeminiChunk(batch) PROVE BillInv'
  <2>1. PICK fresh, cached, out, other \in Counts :
          /\ report.fresh <= fresh /\ report.cached <= cached
          /\ report.out <= out /\ report.other <= other
          /\ report' = [fresh |-> fresh, cached |-> cached, out |-> out,
                        other |-> other, complete |-> TRUE]
          /\ last' = Usage(fresh + cached + out + other, cached)
    BY <1>6 DEF GeminiChunk
  <2>2. /\ fresh \in Nat /\ cached \in Nat /\ out \in Nat /\ other \in Nat
    BY TranslateAssumption
  <2>3. /\ report.fresh \in Nat /\ report.cached \in Nat
        /\ report.out \in Nat /\ report.other \in Nat
    BY DEF CountsType, Report
  <2>4. /\ report'.fresh = fresh /\ report'.cached = cached
        /\ report'.out = out /\ report'.other = other
        /\ report'.complete = TRUE
    BY <2>1
  <2>5. protocol' = "gemini" /\ phase' # "before"
    BY <1>6 DEF GeminiChunk
  <2>6. PICK n \in Nat : n = fresh + cached + out + other
    BY <2>2
  <2>7. Total' = n /\ Total <= n
    BY <2>1, <2>2, <2>3, <2>4, <2>6 DEF Total
  <2>8. last' = IF n # 0 THEN [total |-> n, cached |-> cached] ELSE NoUsage
    BY <2>1, <2>2, <2>6, <2>7, UsageIs
  <2> QED
    BY <2>4, <2>5, <2>7, <2>8 DEF BillInv
<1>7. CASE End \/ Cut
  <2>1. /\ protocol' = protocol /\ phase' \in { "ended", "cut" }
        /\ report' = report /\ promptTokens' = promptTokens
        /\ cachedTokens' = cachedTokens /\ last' = last
    BY <1>7 DEF End, Cut, translator, caller
  <2> QED
    BY <2>1 DEF BillInv, Total
<1>8. CASE Rest \/ UNCHANGED vars
  BY <1>2, <1>8 DEF Rest, vars, provider, translator, caller
<1> QED
  BY <1>1, <1>3, <1>4, <1>5, <1>6, <1>7, <1>8 DEF Next

LEMMA InitTypes == Init => WordsType /\ CountsType /\ BillInv
<1> SUFFICES ASSUME Init PROVE WordsType /\ CountsType /\ BillInv
  OBVIOUS
<1>1. WordsType
  BY DEF Init, WordsType
<1>2. report = NoReport /\ last = NoUsage /\ promptTokens = 0 /\ cachedTokens = 0
  BY DEF Init
<1>3. NoReport \in Report /\ NoUsage \in UsageReport
  BY DEF NoReport, NoUsage, Report, UsageReport
<1>4. CountsType
  BY <1>2, <1>3 DEF CountsType
<1>5. /\ report.complete = FALSE
      /\ report.fresh = 0 /\ report.cached = 0 /\ report.other = 0
  BY <1>2 DEF NoReport
<1>6. BillInv
  BY <1>2, <1>5 DEF BillInv
<1> QED
  BY <1>1, <1>4, <1>6

LEMMA Billed == Spec => [](WordsType /\ CountsType /\ BillInv)
<1>1. WordsType /\ [Next]_vars => WordsType'
  BY WordsStep
<1>2. CountsType /\ [Next]_vars => CountsType'
  BY CountsStep
<1>3. WordsType /\ CountsType /\ BillInv /\ [Next]_vars => BillInv'
  BY BillStep
<1> QED
  BY InitTypes, <1>1, <1>2, <1>3, PTL DEF Spec

(* For any counts the provider may report, in any order of its events and  *)
(* wherever its body ends, what is charged is what it had reported         *)
(* uncached, or the estimate when it had not reported the tokens of the    *)
(* answer, or none at all (proxy.go:697-712).                              *)
THEOREM BilledAsReported == Spec => []ChargedAsReported
<1>1. CountsType /\ BillInv => ChargedAsReported
  <2> SUFFICES ASSUME CountsType, BillInv
               PROVE  ChargedAsReported
    OBVIOUS
  <2>1. /\ report.fresh \in Nat /\ report.cached \in Nat
        /\ report.out \in Nat /\ report.other \in Nat
    BY DEF CountsType, Report
  <2>2. PICK spent \in Nat :
          spent = report.fresh + report.out + report.other
    BY <2>1
  <2>3. Total = spent + report.cached /\ Total \in Nat
    BY <2>1, <2>2 DEF Total
  <2>4. CASE report.complete /\ Total # 0
    <3>1. last = [total |-> Total, cached |-> report.cached]
      BY <2>4 DEF BillInv
    <3>2. Charge = spent
      BY <2>1, <2>3, <2>4, <3>1 DEF Charge
    <3> QED
      BY <2>1, <2>2, <2>3, <2>4, <3>2 DEF ChargedAsReported
  <2>5. CASE ~ (report.complete /\ Total # 0)
    <3>1. last = NoUsage
      BY <2>5 DEF BillInv
    <3>2. Charge = Reserved
      BY <3>1 DEF Charge, NoUsage
    <3> QED
      BY <2>1, <2>2, <2>3, <2>5, <3>2 DEF ChargedAsReported
  <2> QED
    BY <2>4, <2>5
<1> QED
  BY <1>1, Billed, PTL
-----------------------------------------------------------------------------
(* What a step does to what has been said.                                 *)

LEMMA OneBlock ==
  ASSUME NEW X, NEW b \in X, NEW kind
  PROVE  /\ << b >> \in Seq(X) /\ Len(<< b >>) = 1
         /\ b.kind = kind => PlacesOf(kind, << b >>) = {1}
                             /\ OfKind(kind, << b >>) = << b >>
         /\ b.kind # kind => PlacesOf(kind, << b >>) = {}
                             /\ OfKind(kind, << b >>) = << >>
<1>1. << b >> \in Seq(X) /\ Len(<< b >>) = 1
  OBVIOUS
<1>2. DOMAIN << b >> = {1} /\ << b >>[1] = b
  OBVIOUS
<1>3. ASSUME b.kind = kind
      PROVE  PlacesOf(kind, << b >>) = {1} /\ OfKind(kind, << b >>) = << b >>
  <2>1. PlacesOf(kind, << b >>) = {1}
    BY <1>2, <1>3 DEF PlacesOf
  <2>2. /\ OfKind(kind, << b >>) \in Seq(X)
        /\ Len(OfKind(kind, << b >>)) = 1
        /\ Nth(1, {1}) \in {1} /\ OfKind(kind, << b >>)[1] = << b >>[Nth(1, {1})]
    <3>1. PICK t \in Seq(X) : t = << b >>
      BY <1>1
    <3>2. PlacesOf(kind, t) = {1} /\ Cardinality({1}) = 1 /\ 1 \in 1..1
      <4>1. Cardinality({1}) = 1
        BY FS_Singleton, Zenon
      <4> QED
        BY <2>1, <3>1, <4>1
    <3>3. /\ OfKind(kind, t) \in Seq(X)
          /\ Len(OfKind(kind, t)) = Cardinality(PlacesOf(kind, t))
          /\ \A k \in 1..Cardinality(PlacesOf(kind, t)) :
               /\ Nth(k, PlacesOf(kind, t)) \in PlacesOf(kind, t)
               /\ OfKind(kind, t)[k] = t[Nth(k, PlacesOf(kind, t))]
      BY OfKindIs
    <3> QED
      BY <3>1, <3>2, <3>3
  <2>3. OfKind(kind, << b >>)[1] = b
    BY <1>2, <2>2
  <2> QED
    BY <1>1, <1>2, <2>1, <2>2, <2>3, SeqEqual
<1>4. ASSUME b.kind # kind
      PROVE  PlacesOf(kind, << b >>) = {} /\ OfKind(kind, << b >>) = << >>
  <2>1. PlacesOf(kind, << b >>) = {}
    BY <1>2, <1>4 DEF PlacesOf
  <2>2. OfKind(kind, << b >>) \in Seq(X) /\ Len(OfKind(kind, << b >>)) = 0
    BY <1>1, <2>1, OfKindIs, FS_EmptySet
  <2> QED
    BY <2>1, <2>2, EmptySeq
<1> QED
  BY <1>1, <1>3, <1>4

(* A new block of Anthropic.                                               *)
LEMMA StartSays ==
  ASSUME ContentType, NEW kind \in Kinds, ContentBlockStart(kind)
  PROVE  LET b == [kind |-> kind, parts |-> << >>]
         IN  /\ b \in Block /\ said' = said \o << b >>
             /\ said' \in Seq(Block) /\ Len(said') = Len(said) + 1
<1> DEFINE b == [kind |-> kind, parts |-> << >>]
<1>1. b \in Block
  BY DEF Block
<1>2. said' = Append(said, b)
  BY DEF ContentBlockStart
<1> HIDE DEF b
<1>3. said' = said \o << b >>
  BY <1>1, <1>2, AppendIsConcat DEF ContentType
<1>4. said' \in Seq(Block) /\ Len(said') = Len(said) + 1
  BY <1>1, <1>2, AppendProperties DEF ContentType
<1> QED
  BY <1>1, <1>3, <1>4 DEF b

(* One more fragment of a block.                                           *)
LEMMA DeltaSays ==
  ASSUME ContentType, NEW b \in 0..(Len(said) - 1), ContentBlockDelta(b)
  PROVE  /\ b + 1 \in 1..Len(said)
         /\ fragments' = fragments + 1 /\ fragments' \in 1..MaxFragments
         /\ said' \in Seq(Block) /\ Len(said') = Len(said)
         /\ \A i \in 1..Len(said) : i # b + 1 => said'[i] = said[i]
         /\ said'[b + 1].kind = said[b + 1].kind
         /\ said'[b + 1].parts = Append(said[b + 1].parts, fragments')
         /\ \A kind : PlacesOf(kind, said') = PlacesOf(kind, said)
<1>1. /\ said \in Seq(Block) /\ Len(said) \in Nat /\ DOMAIN said = 1..Len(said)
      /\ fragments \in 0..MaxFragments
  BY LenProperties DEF ContentType
<1>2. b + 1 \in 1..Len(said) /\ b + 1 \in DOMAIN said
  BY <1>1
<1>3. /\ fragments' = fragments + 1 /\ fragments < MaxFragments
      /\ said' = [said EXCEPT ![b + 1].parts = Append(@, fragments')]
  BY DEF ContentBlockDelta
<1>4. fragments' \in 1..MaxFragments
  BY <1>1, <1>3, TranslateAssumption
<1>5. said[b + 1] \in Block
  BY <1>1, <1>2, ElementOfSeq
<1>6. PICK e : e = [said[b + 1] EXCEPT !.parts = Append(@, fragments')]
  OBVIOUS
<1>7. /\ e \in Block /\ e.kind = said[b + 1].kind
      /\ e.parts = Append(said[b + 1].parts, fragments')
  <2>1. Append(said[b + 1].parts, fragments') \in Seq(1..MaxFragments)
    <3>1. said[b + 1].parts \in Seq(1..MaxFragments)
      BY <1>5 DEF Block
    <3>2. PICK parts, n : parts = said[b + 1].parts /\ n = fragments'
      OBVIOUS
    <3>3. Append(parts, n) \in Seq(1..MaxFragments)
      BY <1>4, <3>1, <3>2, AppendProperties
    <3> QED
      BY <3>2, <3>3
  <2> QED
    BY <1>5, <1>6, <2>1 DEF Block
<1>8. PICK i : i = b + 1
  OBVIOUS
<1>9. said' = [said EXCEPT ![i] = e]
  BY <1>3, <1>6, <1>8
<1>10. /\ said' \in Seq(Block) /\ Len(said') = Len(said)
       /\ \A j \in 1..Len(said) : said'[j] = IF j = i THEN e ELSE said[j]
  BY <1>1, <1>2, <1>7, <1>8, <1>9, ExceptSeq
<1>11. DOMAIN said' = 1..Len(said)
  BY <1>10, LenProperties
<1>12. \A j \in 1..Len(said) : said'[j].kind = said[j].kind
  BY <1>7, <1>8, <1>10
<1>13. ASSUME NEW kind PROVE PlacesOf(kind, said') = PlacesOf(kind, said)
  BY <1>1, <1>11, <1>12 DEF PlacesOf
<1> QED
  BY <1>2, <1>3, <1>4, <1>7, <1>8, <1>10, <1>13

(* A chunk of Gemini.                                                      *)
LEMMA ChunkSays ==
  ASSUME ContentType, NEW batch \in Batches, GeminiChunk(batch)
  PROVE  /\ batch \in Seq(Kinds) /\ Len(batch) \in Nat
         /\ fragments' = fragments + Len(batch) /\ fragments' \in 0..MaxFragments
         /\ NewBlocks(batch) \in Seq(Block)
         /\ Len(NewBlocks(batch)) = Len(batch)
         /\ \A i \in 1..Len(batch) :
              NewBlocks(batch)[i] =
                [kind |-> batch[i], parts |-> << fragments + i >>]
         /\ said' = said \o NewBlocks(batch)
         /\ said' \in Seq(Block) /\ Len(said') = Len(said) + Len(batch)
<1>1. batch \in Seq(Kinds) /\ Len(batch) \in Nat
  BY BatchType
<1>2. /\ fragments' = fragments + Len(batch)
      /\ fragments + Len(batch) <= MaxFragments
      /\ said' = said \o NewBlocks(batch)
  BY DEF GeminiChunk
<1>3. fragments \in Nat /\ said \in Seq(Block)
  BY TranslateAssumption DEF ContentType
<1>4. fragments' \in 0..MaxFragments
  BY <1>1, <1>2, <1>3, TranslateAssumption
<1>5. /\ NewBlocks(batch) \in Seq(Block)
      /\ Len(NewBlocks(batch)) = Len(batch)
      /\ \A i \in 1..Len(batch) :
           NewBlocks(batch)[i] =
             [kind |-> batch[i], parts |-> << fragments + i >>]
  BY <1>1, <1>2, <1>3, NewBlocksType
<1>6. said' \in Seq(Block) /\ Len(said') = Len(said) + Len(batch)
  <2>1. PICK t \in Seq(Block) : t = NewBlocks(batch)
    BY <1>5
  <2>2. said \o t \in Seq(Block) /\ Len(said \o t) = Len(said) + Len(t)
    BY <1>3, ConcatProperties
  <2> QED
    BY <1>2, <1>5, <2>1, <2>2
<1> QED
  BY <1>1, <1>2, <1>4, <1>5, <1>6
(* The text of a chunk.                                                    *)
NewText(batch) ==
  LET texts == OfKind("text", NewBlocks(batch))
  IN [i \in DOMAIN texts |-> [choice |-> 0, part |-> texts[i].parts[1]]]

LEMMA ChunkTells ==
  ASSUME ContentType, NEW batch \in Batches, GeminiChunk(batch)
  PROVE  LET places == PlacesOf("text", NewBlocks(batch))
         IN  /\ text' = text \o NewText(batch)
             /\ places \in SUBSET (1..Len(batch)) /\ places \in SUBSET Int
             /\ IsFiniteSet(places) /\ Cardinality(places) \in Nat
             /\ NewText(batch) \in Seq(Fragment)
             /\ Len(NewText(batch)) = Cardinality(places)
             /\ \A i \in 1..Cardinality(places) :
                  /\ Nth(i, places) \in places
                  /\ NewText(batch)[i].part = fragments + Nth(i, places)
<1> DEFINE places == PlacesOf("text", NewBlocks(batch))
           texts == OfKind("text", NewBlocks(batch))
           n == Cardinality(places)
<1>1. /\ NewBlocks(batch) \in Seq(Block)
      /\ Len(batch) \in Nat /\ Len(NewBlocks(batch)) = Len(batch)
      /\ \A i \in 1..Len(batch) :
           NewBlocks(batch)[i] =
             [kind |-> batch[i], parts |-> << fragments + i >>]
      /\ fragments' = fragments + Len(batch) /\ fragments' \in 0..MaxFragments
  BY ChunkSays
<1>2. PICK t \in Seq(Block) : t = NewBlocks(batch)
  BY <1>1
<1>3. /\ places \in SUBSET (1..Len(batch)) /\ places \in SUBSET Int
      /\ IsFiniteSet(places) /\ n \in Nat
  <2>1. /\ PlacesOf("text", t) \in SUBSET (1..Len(t))
        /\ PlacesOf("text", t) \in SUBSET Int
        /\ IsFiniteSet(PlacesOf("text", t))
        /\ Cardinality(PlacesOf("text", t)) \in Nat
    BY KindPlaces
  <2> QED
    BY <1>1, <1>2, <2>1
<1>4. /\ DOMAIN texts = 1..n
      /\ \A k \in 1..n : Nth(k, places) \in places /\ texts[k] = t[Nth(k, places)]
  <2>1. /\ DOMAIN OfKind("text", t) = 1..Cardinality(PlacesOf("text", t))
        /\ \A k \in 1..Cardinality(PlacesOf("text", t)) :
             /\ Nth(k, PlacesOf("text", t)) \in PlacesOf("text", t)
             /\ OfKind("text", t)[k] = t[Nth(k, PlacesOf("text", t))]
    BY OfKindIs
  <2> QED
    BY <1>2, <2>1
<1>5. text' = text \o NewText(batch)
  BY DEF GeminiChunk, NewText
<1>6. NewText(batch) =
        [i \in 1..n |-> [choice |-> 0, part |-> texts[i].parts[1]]]
  BY <1>4 DEF NewText
<1>7. fragments \in Nat
  BY TranslateAssumption DEF ContentType
<1> HIDE DEF places, texts
<1>8. ASSUME NEW i \in 1..n
      PROVE  /\ Nth(i, places) \in places
             /\ texts[i].parts[1] = fragments + Nth(i, places)
             /\ texts[i].parts[1] \in 1..MaxFragments
  <2>1. PICK p : p = Nth(i, places)
    OBVIOUS
  <2>2. p \in places /\ p \in 1..Len(batch) /\ texts[i] = t[p]
    BY <1>3, <1>4, <2>1
  <2>3. texts[i].parts[1] = fragments + p
    <3>1. t[p] = [kind |-> batch[p], parts |-> << fragments + p >>]
      BY <1>1, <1>2, <2>2
    <3>2. texts[i].parts = << fragments + p >>
      BY <2>2, <3>1
    <3> QED
      BY <3>2
  <2>4. fragments + p \in 1..MaxFragments
    BY <1>1, <1>7, <2>2, TranslateAssumption
  <2> QED
    BY <2>1, <2>2, <2>3, <2>4
<1> HIDE DEF n
<1>9. NewText(batch) \in [1..n -> Fragment]
  BY <1>6, <1>8 DEF Fragment
<1>10. NewText(batch) \in Seq(Fragment)
  BY <1>3, <1>9, SeqDef
<1>11. Len(NewText(batch)) = n
  <2>1. 1..Len(NewText(batch)) = 1..n /\ Len(NewText(batch)) \in Nat
    BY <1>9, <1>10, LenProperties
  <2> QED
    BY <1>3, <2>1
<1>12. ASSUME NEW i \in 1..n
       PROVE  /\ Nth(i, places) \in places
              /\ NewText(batch)[i].part = fragments + Nth(i, places)
  BY <1>6, <1>8
<1> QED
  BY <1>3, <1>5, <1>10, <1>11, <1>12 DEF n, places

(* The tool calls of a chunk.                                              *)
LEMMA ChunkCalls ==
  ASSUME ContentType, NEW batch \in Batches, GeminiChunk(batch)
  PROVE  LET tools == OfKind("tool", NewBlocks(batch))
         IN  /\ tools \in Seq(Block) /\ Len(tools) \in 0..Len(batch)
             /\ OfKind("tool", said') = OfKind("tool", said) \o tools
             /\ toolCalls' = toolCalls + Len(tools)
             /\ calls' = [i \in 0..(toolCalls + Len(tools) - 1) |->
                           IF i < toolCalls THEN calls[i]
                           ELSE tools[i - toolCalls + 1].parts]
<1>1. /\ NewBlocks(batch) \in Seq(Block)
      /\ Len(batch) \in Nat /\ Len(NewBlocks(batch)) = Len(batch)
      /\ said' = said \o NewBlocks(batch)
  BY ChunkSays
<1>2. PICK t \in Seq(Block) : t = NewBlocks(batch)
  BY <1>1
<1>3. /\ OfKind("tool", t) \in Seq(Block)
      /\ Len(OfKind("tool", t)) = Cardinality(PlacesOf("tool", t))
  BY OfKindIs
<1>4. /\ Cardinality(PlacesOf("tool", t)) \in Nat
      /\ Cardinality(PlacesOf("tool", t)) <= Len(t)
  BY KindPlaces
<1>5. OfKind("tool", said \o t) = OfKind("tool", said) \o OfKind("tool", t)
  BY OfKindJoined DEF ContentType
<1>6. /\ toolCalls' = toolCalls + Len(OfKind("tool", t))
      /\ calls' = [i \in 0..(toolCalls + Len(OfKind("tool", t)) - 1) |->
                    IF i < toolCalls THEN calls[i]
                    ELSE OfKind("tool", t)[i - toolCalls + 1].parts]
  BY <1>2 DEF GeminiChunk
<1> QED
  BY <1>1, <1>2, <1>3, <1>4, <1>5, <1>6

LEMMA ContentStep ==
  ASSUME ContentType, [Next]_vars
  PROVE  ContentType'
<1> USE DEF ContentType
<1>0. Len(said) \in Nat /\ fragments \in Nat
  BY TranslateAssumption, LenProperties
<1>1. CASE MessageStart
  BY <1>1 DEF MessageStart, caller
<1>2. ASSUME NEW kind \in Kinds, ContentBlockStart(kind) PROVE ContentType'
  <2>1. said' \in Seq(Block) /\ Len(said') = Len(said) + 1
    BY <1>2, StartSays
  <2>2. fragments' = fragments + 1 /\ fragments < MaxFragments /\ text' = text
        /\ toolCalls' \in { toolCalls, toolCalls + 1 }
    BY <1>2 DEF ContentBlockStart
  <2> QED
    BY <1>0, <2>1, <2>2, TranslateAssumption
<1>3. ASSUME NEW b \in 0..(Len(said) - 1), ContentBlockDelta(b)
      PROVE  ContentType'
  <2>1. /\ fragments' = fragments + 1 /\ fragments' \in 1..MaxFragments
        /\ said' \in Seq(Block) /\ Len(said') = Len(said)
    BY <1>3, DeltaSays
  <2>2. toolCalls' = toolCalls
    BY <1>3 DEF ContentBlockDelta, translator
  <2>3. text' = text
        \/ text' = Append(text, [choice |-> b, part |-> fragments'])
    BY <1>3 DEF ContentBlockDelta
  <2>4. PICK f : f = [choice |-> b, part |-> fragments']
    OBVIOUS
  <2>5. f \in Fragment
    BY <1>0, <2>1, <2>4 DEF Fragment
  <2>6. text' \in Seq(Fragment)
    BY <2>3, <2>4, <2>5, AppendProperties
  <2> QED
    BY <1>0, <2>1, <2>2, <2>6, TranslateAssumption
<1>4. ASSUME NEW r, MessageDelta(r)
      PROVE  ContentType'
  BY <1>4 DEF MessageDelta
<1>5. ASSUME NEW batch \in Batches, GeminiChunk(batch) PROVE ContentType'
  <2>1. /\ Len(batch) \in Nat
        /\ fragments' = fragments + Len(batch) /\ fragments' \in 0..MaxFragments
        /\ said' \in Seq(Block) /\ Len(said') = Len(said) + Len(batch)
    BY <1>5, ChunkSays
  <2>2. text' = text \o NewText(batch) /\ NewText(batch) \in Seq(Fragment)
    BY <1>5, ChunkTells
  <2>3. text' \in Seq(Fragment)
    BY <2>2, ConcatProperties
  <2>4. PICK n \in 0..Len(batch) : toolCalls' = toolCalls + n
    BY <1>5, ChunkCalls
  <2> QED
    BY <1>0, <2>1, <2>3, <2>4
<1>6. CASE End
  BY <1>6 DEF End, translator, caller
<1>7. CASE Cut
  BY <1>7 DEF Cut, translator, caller
<1>8. CASE Rest \/ UNCHANGED vars
  BY <1>8 DEF Rest, vars, provider, translator, caller
<1> QED
  BY <1>1, <1>2, <1>3, <1>4, <1>5, <1>6, <1>7, <1>8 DEF Next
-----------------------------------------------------------------------------
(* The tool calls: the translator's index of a block is the number of tool *)
(* calls before it.                                                        *)

ToolsAt == PlacesOf("tool", said)

IndexInv ==
  protocol = "anthropic" =>
    \A i \in ToolsAt : /\ i - 1 \in DOMAIN toolIndexByBlock
                       /\ toolIndexByBlock[i - 1] = Rank(i, ToolsAt) - 1

CallsInv ==
  /\ toolCalls = Cardinality(ToolsAt)
  /\ CallsArriveWhole
  /\ IndexInv

LEMMA ToolsFacts ==
  ASSUME ContentType
  PROVE  /\ Len(said) \in Nat /\ DOMAIN said = 1..Len(said)
         /\ ToolsAt \in SUBSET (1..Len(said)) /\ ToolsAt \in SUBSET Int
         /\ IsFiniteSet(ToolsAt) /\ Cardinality(ToolsAt) \in Nat
         /\ OfKind("tool", said) \in Seq(Block)
         /\ Len(OfKind("tool", said)) = Cardinality(ToolsAt)
         /\ \A k \in 1..Cardinality(ToolsAt) :
              /\ Nth(k, ToolsAt) \in ToolsAt
              /\ OfKind("tool", said)[k] = said[Nth(k, ToolsAt)]
<1>1. said \in Seq(Block)
  BY DEF ContentType
<1>2. Len(said) \in Nat /\ DOMAIN said = 1..Len(said)
  BY <1>1, LenProperties
<1>3. /\ ToolsAt \in SUBSET (1..Len(said)) /\ ToolsAt \in SUBSET Int
      /\ IsFiniteSet(ToolsAt) /\ Cardinality(ToolsAt) \in Nat
  BY <1>1, KindPlaces DEF ToolsAt
<1>4. /\ OfKind("tool", said) \in Seq(Block)
      /\ Len(OfKind("tool", said)) = Cardinality(ToolsAt)
  BY <1>1, OfKindIs DEF ToolsAt
<1>5. \A k \in 1..Cardinality(ToolsAt) :
        /\ Nth(k, ToolsAt) \in ToolsAt
        /\ OfKind("tool", said)[k] = said[Nth(k, ToolsAt)]
  BY <1>1, OfKindIs DEF ToolsAt
<1> QED
  BY <1>2, <1>3, <1>4, <1>5

(* A new block has the index of the calls there were, if it is a call.     *)
LEMMA StartKeepsCalls ==
  ASSUME ContentType, CallsInv, NEW kind \in Kinds, ContentBlockStart(kind)
  PROVE  CallsInv'
<1> DEFINE n == Len(said)
           c == Cardinality(ToolsAt)
           F == OfKind("tool", said)
<1>1. /\ n \in Nat /\ ToolsAt \in SUBSET (1..n) /\ ToolsAt \in SUBSET Int
      /\ IsFiniteSet(ToolsAt) /\ c \in Nat
      /\ F \in Seq(Block) /\ Len(F) = c
  BY ToolsFacts
<1>2. PICK b \in Block : /\ b = [kind |-> kind, parts |-> << >>]
                         /\ said' = said \o << b >>
  BY StartSays
<1>3. /\ << b >> \in Seq(Block)
      /\ b.kind = "tool" => PlacesOf("tool", << b >>) = {1}
                            /\ OfKind("tool", << b >>) = << b >>
      /\ b.kind # "tool" => PlacesOf("tool", << b >>) = {}
                            /\ OfKind("tool", << b >>) = << >>
  BY OneBlock
<1>4. PICK t \in Seq(Block) : t = << b >>
  BY <1>3
<1>5. /\ ToolsAt' = Joined(ToolsAt, n, PlacesOf("tool", t))
      /\ F' = F \o OfKind("tool", t)
  <2>1. said \in Seq(Block)
    BY DEF ContentType
  <2>2. /\ PlacesOf("tool", said \o t) =
             Joined(PlacesOf("tool", said), Len(said), PlacesOf("tool", t))
        /\ OfKind("tool", said \o t) =
             OfKind("tool", said) \o OfKind("tool", t)
    BY <2>1, OfKindJoined
  <2> QED
    BY <1>2, <1>4, <2>2 DEF ToolsAt
<1>6. toolCalls = c /\ calls = [i \in 0..(Len(F) - 1) |-> F[i + 1].parts]
  BY DEF CallsInv, CallsArriveWhole
<1>7. protocol = "anthropic" /\ protocol' = "anthropic"
  BY DEF ContentBlockStart
<1>8. CASE kind # "tool"
  <2>1. PlacesOf("tool", t) = {} /\ OfKind("tool", t) = << >>
    BY <1>2, <1>3, <1>4, <1>8
  <2>2. ToolsAt' = ToolsAt
    BY <1>5, <2>1 DEF Joined
  <2>3. F' = F
    BY <1>1, <1>5, <2>1, ConcatEmptySeq
  <2>4. toolIndexByBlock' = toolIndexByBlock /\ toolCalls' = toolCalls
        /\ calls' = calls
    BY <1>8 DEF ContentBlockStart
  <2> QED
    BY <1>7, <2>2, <2>3, <2>4 DEF CallsInv, CallsArriveWhole, IndexInv
<1>9. CASE kind = "tool"
  <2>1. PlacesOf("tool", t) = {1} /\ OfKind("tool", t) = << b >>
    BY <1>2, <1>3, <1>4, <1>9
  <2>2. /\ toolIndexByBlock' =
             [i \in DOMAIN toolIndexByBlock \cup { n } |->
               IF i = n THEN toolCalls ELSE toolIndexByBlock[i]]
        /\ toolCalls' = toolCalls + 1
        /\ calls' = [i \in DOMAIN calls \cup { toolCalls } |->
                      IF i = toolCalls THEN << >> ELSE calls[i]]
    BY <1>9 DEF ContentBlockStart
  <2>3. ToolsAt' = Joined(ToolsAt, n, {1})
    BY <1>5, <2>1
  <2>4. IsFiniteSet({1}) /\ Cardinality({1}) = 1
    BY FS_Singleton, Zenon
  <2>5. PICK T \in SUBSET (Nat \ {0}) : T = {1}
    OBVIOUS
  <2> HIDE DEF n, c, F
  <2>6. Cardinality(ToolsAt') = c + 1
    <3>1. Cardinality(Joined(ToolsAt, n, T)) = Cardinality(ToolsAt) + Cardinality(T)
      BY <1>1, <2>4, <2>5, JoinedCount
    <3> QED
      BY <2>3, <2>4, <2>5, <3>1 DEF c
  <2>7. toolCalls' = Cardinality(ToolsAt')
    BY <1>6, <2>2, <2>6
  <2>8. /\ F' \in Seq(Block) /\ Len(F') = c + 1
        /\ \A i \in 1..c : F'[i] = F[i]
        /\ F'[c + 1] = b
    <3>1. PICK g : g = Append(F, b)
      OBVIOUS
    <3>2. /\ g \in Seq(Block) /\ Len(g) = c + 1
          /\ \A i \in 1..c : g[i] = F[i]
          /\ g[c + 1] = b
      BY <1>1, <3>1, AppendProperties
    <3>3. F' = g
      BY <1>1, <1>5, <2>1, <3>1, AppendIsConcat
    <3> QED
      BY <3>2, <3>3
  <2>9. calls' = [i \in 0..(Len(F') - 1) |-> F'[i + 1].parts]
    <3>1. DOMAIN calls = 0..(c - 1)
      BY <1>1, <1>6
    <3>2. DOMAIN calls \cup { toolCalls } = 0..c
      BY <1>1, <1>6, <3>1
    <3>3. calls' = [i \in 0..c |-> IF i = c THEN << >> ELSE calls[i]]
      BY <1>6, <2>2, <3>2
    <3>4. ASSUME NEW i \in 0..c
          PROVE  (IF i = c THEN << >> ELSE calls[i]) = F'[i + 1].parts
      <4>1. CASE i = c
        BY <1>2, <2>8, <4>1
      <4>2. CASE i # c
        <5>1. i \in 0..(c - 1) /\ i + 1 \in 1..c
          BY <1>1, <4>2
        <5>2. calls[i] = F[i + 1].parts
          BY <1>1, <1>6, <5>1
        <5> QED
          BY <2>8, <4>2, <5>1, <5>2
      <4> QED
        BY <4>1, <4>2
    <3>5. 0..(Len(F') - 1) = 0..c
      BY <1>1, <2>8
    <3> QED
      BY <3>3, <3>4, <3>5
  <2>10. CallsArriveWhole'
    BY <2>9 DEF CallsArriveWhole, F
  <2>11. ASSUME NEW i \in ToolsAt'
         PROVE  /\ i - 1 \in DOMAIN toolIndexByBlock'
                /\ toolIndexByBlock'[i - 1] = Rank(i, ToolsAt') - 1
    <3>1. CASE i \in ToolsAt
      <4>1. i \in 1..n /\ i - 1 # n
        BY <1>1, <3>1
      <4>2. Rank(i, ToolsAt') = Rank(i, ToolsAt)
        <5>1. Rank(i, Joined(ToolsAt, n, T)) = Rank(i, ToolsAt)
          BY <1>1, <2>4, <2>5, <3>1, OldRank
        <5> QED
          BY <2>3, <2>5, <5>1
      <4>3. /\ i - 1 \in DOMAIN toolIndexByBlock
            /\ toolIndexByBlock[i - 1] = Rank(i, ToolsAt) - 1
        BY <1>7, <3>1 DEF CallsInv, IndexInv
      <4> QED
        BY <2>2, <4>1, <4>2, <4>3
    <3>2. CASE i \notin ToolsAt
      <4>1. i = n + 1
        BY <2>3, <3>2 DEF Joined
      <4>2. i - 1 = n
        BY <1>1, <4>1
      <4>3. Rank(i, ToolsAt') = c + 1
        <5>1. PICK j \in T : j = 1
          BY <2>5
        <5>2. i = n + j
          BY <4>1, <5>1
        <5>3. Rank(i, Joined(ToolsAt, n, T)) = Cardinality(ToolsAt) + Rank(j, T)
          BY <1>1, <2>4, <2>5, <5>2, NewRank
        <5>4. Rank(j, T) = 1
          <6>1. { k \in T : k <= j } = {1}
            BY <2>5, <5>1
          <6> QED
            BY <2>4, <6>1 DEF Rank
        <5> QED
          BY <2>3, <2>5, <5>3, <5>4 DEF c
      <4> QED
        BY <1>1, <1>6, <2>2, <4>2, <4>3
    <3> QED
      BY <3>1, <3>2
  <2> QED
    BY <2>7, <2>10, <2>11 DEF CallsInv, IndexInv
<1> QED
  BY <1>8, <1>9

(* A fragment of a call goes to the call of its block.                     *)
LEMMA DeltaKeepsCalls ==
  ASSUME ContentType, CallsInv,
         NEW b \in 0..(Len(said) - 1), ContentBlockDelta(b)
  PROVE  CallsInv'
<1> DEFINE n == Len(said)
           c == Cardinality(ToolsAt)
           F == OfKind("tool", said)
<1>1. /\ n \in Nat /\ ToolsAt \in SUBSET (1..n) /\ ToolsAt \in SUBSET Int
      /\ IsFiniteSet(ToolsAt) /\ c \in Nat
      /\ F \in Seq(Block) /\ Len(F) = c
      /\ \A k \in 1..c :
           Nth(k, ToolsAt) \in ToolsAt /\ F[k] = said[Nth(k, ToolsAt)]
      /\ DOMAIN said = 1..n
  BY ToolsFacts
<1>2. /\ b + 1 \in 1..n
      /\ said' \in Seq(Block)
      /\ \A i \in 1..n : i # b + 1 => said'[i] = said[i]
      /\ said'[b + 1].parts = Append(said[b + 1].parts, fragments')
      /\ PlacesOf("tool", said') = ToolsAt
  BY DeltaSays DEF ToolsAt
<1>3. ToolsAt' = ToolsAt
  BY <1>2 DEF ToolsAt
<1>4. /\ F' \in Seq(Block) /\ Len(F') = c
      /\ \A k \in 1..c : F'[k] = said'[Nth(k, ToolsAt)]
  <2>1. PICK t \in Seq(Block) : t = said'
    BY <1>2
  <2>2. /\ OfKind("tool", t) \in Seq(Block)
        /\ Len(OfKind("tool", t)) = Cardinality(PlacesOf("tool", t))
        /\ \A k \in 1..Cardinality(PlacesOf("tool", t)) :
             OfKind("tool", t)[k] = t[Nth(k, PlacesOf("tool", t))]
    BY OfKindIs
  <2> QED
    BY <1>2, <2>1, <2>2
<1>5. toolCalls = c /\ calls = [i \in 0..(c - 1) |-> F[i + 1].parts]
  BY <1>1 DEF CallsInv, CallsArriveWhole
<1>6. /\ protocol = "anthropic" /\ protocol' = "anthropic"
      /\ toolCalls' = toolCalls /\ toolIndexByBlock' = toolIndexByBlock
  BY DEF ContentBlockDelta, translator
<1>7. IndexInv'
  BY <1>3, <1>6 DEF CallsInv, IndexInv
<1> HIDE DEF n, c, F
<1>8. calls' = [i \in 0..(c - 1) |-> F'[i + 1].parts]
  <2>1. CASE b + 1 \notin ToolsAt
    <3>1. said[b + 1].kind # "tool"
      BY <1>1, <1>2, <2>1 DEF ToolsAt, PlacesOf
    <3>2. calls' = calls
      BY <3>1 DEF ContentBlockDelta
    <3>3. ASSUME NEW i \in 0..(c - 1)
          PROVE  F[i + 1].parts = F'[i + 1].parts
      <4>1. i + 1 \in 1..c
        BY <1>1
      <4>2. Nth(i + 1, ToolsAt) \in 1..n /\ Nth(i + 1, ToolsAt) # b + 1
        BY <1>1, <2>1, <4>1
      <4> QED
        BY <1>1, <1>2, <1>4, <4>1, <4>2
    <3> QED
      BY <1>5, <3>2, <3>3
  <2>2. CASE b + 1 \in ToolsAt
    <3>1. PICK at : at = b + 1
      OBVIOUS
    <3>2. at \in ToolsAt /\ at \in Int /\ at - 1 = b /\ said[at].kind = "tool"
      BY <1>1, <2>2, <3>1 DEF ToolsAt, PlacesOf
    <3>3. PICK k : k = Rank(at, ToolsAt)
      OBVIOUS
    <3>4. k \in 1..c
      BY <1>1, <3>2, <3>3, RankPositive DEF c
    <3>5. toolIndexByBlock[b] = k - 1
      BY <1>6, <3>2, <3>3 DEF CallsInv, IndexInv
    <3>6. Nth(k, ToolsAt) = at
      BY <1>1, <3>2, <3>3, <3>4, NthOnly DEF c
    <3>7. calls' = [calls EXCEPT ![toolIndexByBlock[b]] = Append(@, fragments')]
      BY <3>1, <3>2 DEF ContentBlockDelta
    <3>8. k - 1 \in 0..(c - 1) /\ (k - 1) + 1 = k
      BY <1>1, <3>4
    <3>9. calls' = [i \in 0..(c - 1) |->
                     IF i = k - 1 THEN Append(F[k].parts, fragments')
                     ELSE F[i + 1].parts]
      BY <1>5, <3>5, <3>7, <3>8
    <3>10. Append(F[k].parts, fragments') = F'[k].parts
      BY <1>1, <1>2, <1>4, <3>1, <3>4, <3>6
    <3>11. ASSUME NEW i \in 0..(c - 1), i # k - 1
           PROVE  F[i + 1].parts = F'[i + 1].parts
      <4>1. PICK m \in 1..c : m = i + 1
        BY <1>1
      <4>2. m # k
        BY <1>1, <3>4, <3>11, <4>1
      <4>3. Nth(m, ToolsAt) \in ToolsAt /\ Rank(Nth(m, ToolsAt), ToolsAt) = m
        BY <1>1, NthIs DEF c
      <4>4. Nth(m, ToolsAt) # at
        BY <3>3, <4>2, <4>3
      <4>5. F[m] = F'[m]
        BY <1>1, <1>2, <1>4, <3>1, <4>3, <4>4
      <4> QED
        BY <4>1, <4>5
    <3>12. ASSUME NEW i \in 0..(c - 1)
           PROVE  (IF i = k - 1 THEN Append(F[k].parts, fragments')
                   ELSE F[i + 1].parts) = F'[i + 1].parts
      <4>1. CASE i = k - 1
        BY <3>8, <3>10, <4>1
      <4>2. CASE i # k - 1
        BY <3>11, <4>2
      <4> QED
        BY <4>1, <4>2
    <3> QED
      BY <3>9, <3>12
  <2> QED
    BY <2>1, <2>2
<1>9. CallsArriveWhole'
  BY <1>4, <1>8 DEF CallsArriveWhole, F
<1> QED
  BY <1>3, <1>5, <1>6, <1>7, <1>9 DEF CallsInv, c

(* The calls of a chunk are numbered on.                                   *)
LEMMA ChunkKeepsCalls ==
  ASSUME ContentType, CallsInv, NEW batch \in Batches, GeminiChunk(batch)
  PROVE  CallsInv'
<1> DEFINE c == Cardinality(ToolsAt)
           F == OfKind("tool", said)
           tools == OfKind("tool", NewBlocks(batch))
<1>1. c \in Nat /\ F \in Seq(Block) /\ Len(F) = c
  BY ToolsFacts
<1>2. /\ tools \in Seq(Block) /\ Len(tools) \in 0..Len(batch)
      /\ F' = F \o tools
      /\ toolCalls' = toolCalls + Len(tools)
      /\ calls' = [i \in 0..(toolCalls + Len(tools) - 1) |->
                    IF i < toolCalls THEN calls[i]
                    ELSE tools[i - toolCalls + 1].parts]
  BY ChunkCalls
<1>3. toolCalls = c /\ calls = [i \in 0..(c - 1) |-> F[i + 1].parts]
  BY <1>1 DEF CallsInv, CallsArriveWhole
<1>4. PICK t \in Seq(Block) : t = tools
  BY <1>2
<1>5. PICK m \in Nat : m = Len(t)
  BY LenProperties
<1>6. ToolsAt' = PlacesOf("tool", said') /\ said' \in Seq(Block)
  BY ChunkSays DEF ToolsAt
<1>7. Len(F') = Cardinality(ToolsAt')
  <2>1. PICK u \in Seq(Block) : u = said'
    BY <1>6
  <2>2. Len(OfKind("tool", u)) = Cardinality(PlacesOf("tool", u))
    BY OfKindIs
  <2> QED
    BY <1>6, <2>1, <2>2
<1> HIDE DEF c, F, tools
<1>8. /\ Len(F') = c + m
      /\ \A i \in 1..(c + m) : F'[i] = IF i <= c THEN F[i] ELSE t[i - c]
  BY <1>1, <1>2, <1>4, <1>5, ConcatProperties
<1>9. toolCalls' = Cardinality(ToolsAt')
  BY <1>2, <1>3, <1>4, <1>5, <1>7, <1>8
<1>10. calls' = [i \in 0..(c + m - 1) |->
                  IF i < c THEN calls[i] ELSE t[i - c + 1].parts]
  BY <1>2, <1>3, <1>4, <1>5
<1>11. ASSUME NEW i \in 0..(c + m - 1)
       PROVE  (IF i < c THEN calls[i] ELSE t[i - c + 1].parts) = F'[i + 1].parts
  <2>1. i + 1 \in 1..(c + m)
    BY <1>1
  <2>2. CASE i < c
    <3>1. i \in 0..(c - 1) /\ i + 1 <= c
      BY <1>1, <2>2
    <3>2. calls[i] = F[i + 1].parts
      BY <1>3, <3>1
    <3>3. F'[i + 1] = F[i + 1]
      BY <1>8, <2>1, <3>1
    <3> QED
      BY <2>2, <3>2, <3>3
  <2>3. CASE ~ (i < c)
    <3>1. ~ (i + 1 <= c) /\ (i + 1) - c = i - c + 1
      BY <1>1, <2>3
    <3>2. F'[i + 1] = t[i - c + 1]
      BY <1>8, <2>1, <3>1
    <3> QED
      BY <2>3, <3>2
  <2> QED
    BY <2>2, <2>3
<1>12. calls' = [i \in 0..(Len(F') - 1) |-> F'[i + 1].parts]
  <2>1. calls' = [i \in 0..(c + m - 1) |-> F'[i + 1].parts]
    BY <1>10, <1>11
  <2>2. Len(F') - 1 = c + m - 1
    BY <1>1, <1>8
  <2> QED
    BY <2>1, <2>2
<1>13. CallsArriveWhole'
  BY <1>12 DEF CallsArriveWhole, F
<1>14. protocol' = "gemini"
  BY DEF GeminiChunk
<1> QED
  BY <1>9, <1>13, <1>14 DEF CallsInv, IndexInv

LEMMA CallsStep ==
  ASSUME ContentType, CallsInv, [Next]_vars
  PROVE  CallsInv'
<1>1. CASE UNCHANGED << protocol, said, toolIndexByBlock, toolCalls, calls >>
  BY <1>1 DEF CallsInv, CallsArriveWhole, IndexInv, ToolsAt
<1>2. CASE MessageStart
  BY <1>1, <1>2 DEF MessageStart, caller
<1>3. ASSUME NEW kind \in Kinds, ContentBlockStart(kind) PROVE CallsInv'
  BY <1>3, StartKeepsCalls
<1>4. ASSUME NEW b \in 0..(Len(said) - 1), ContentBlockDelta(b) PROVE CallsInv'
  BY <1>4, DeltaKeepsCalls
<1>5. ASSUME NEW r, MessageDelta(r)
      PROVE  CallsInv'
  BY <1>1, <1>5 DEF MessageDelta
<1>6. ASSUME NEW batch \in Batches, GeminiChunk(batch) PROVE CallsInv'
  BY <1>6, ChunkKeepsCalls
<1>7. CASE End
  BY <1>1, <1>7 DEF End, translator, caller
<1>8. CASE Cut
  BY <1>1, <1>8 DEF Cut, translator, caller
<1>9. CASE Rest \/ UNCHANGED vars
  BY <1>1, <1>9 DEF Rest, vars, provider, translator, caller
<1> QED
  BY <1>2, <1>3, <1>4, <1>5, <1>6, <1>7, <1>8, <1>9 DEF Next

LEMMA InitContent == Init => ContentType /\ CallsInv
<1> SUFFICES ASSUME Init PROVE ContentType /\ CallsInv
  OBVIOUS
<1>1. said = << >> /\ fragments = 0 /\ text = << >> /\ toolCalls = 0
      /\ calls = << >>
  BY DEF Init
<1>2. /\ said \in Seq(Block) /\ Len(said) = 0 /\ text \in Seq(Fragment)
  BY <1>1
<1>3. ContentType
  BY <1>1, <1>2, TranslateAssumption DEF ContentType
<1>4. ToolsAt = {}
  BY <1>1 DEF ToolsAt, PlacesOf
<1>5. Cardinality(ToolsAt) = 0
  BY <1>4, FS_EmptySet
<1>6. Len(OfKind("tool", said)) = 0
  BY <1>3, <1>5, ToolsFacts
<1>7. calls = [i \in 0..(Len(OfKind("tool", said)) - 1) |->
                OfKind("tool", said)[i + 1].parts]
  <2>1. 0..(Len(OfKind("tool", said)) - 1) = {}
    BY <1>6
  <2>2. calls = [i \in {} |-> OfKind("tool", said)[i + 1].parts]
    BY <1>1
  <2> QED
    BY <2>1, <2>2
<1> QED
  BY <1>1, <1>3, <1>4, <1>5, <1>7 DEF CallsInv, CallsArriveWhole, IndexInv

(* For any number of blocks and fragments, however they overlap, the       *)
(* caller has every tool call whole and under the index of its own         *)
(* (anthropic.go:811-815, 876-903; gemini.go:749-885).                     *)
THEOREM CallsAreWhole == Spec => []CallsArriveWhole
<1>1. ContentType /\ [Next]_vars => ContentType'
  BY ContentStep
<1>2. ContentType /\ CallsInv /\ [Next]_vars => CallsInv'
  BY CallsStep
<1>3. CallsInv => CallsArriveWhole
  BY DEF CallsInv
<1> QED
  BY InitContent, <1>1, <1>2, <1>3, PTL DEF Spec
-----------------------------------------------------------------------------
(* The text: the caller has the fragments of the text blocks, no others,   *)
(* in the order they came in.                                              *)

TextsAt == PlacesOf("text", said)

TextInOrder ==
  /\ \A i \in DOMAIN text : text[i].part <= fragments
  /\ \A i, j \in DOMAIN text : i < j => text[i].part < text[j].part

Has(parts, n) == \E q \in DOMAIN parts : parts[q] = n
Tells(s, n) == \E i \in DOMAIN s : s[i].part = n
Told(n) == Tells(text, n)
Meant(n) == \E p \in TextsAt : Has(said[p].parts, n)

TextIsTold == \A n : Told(n) <=> Meant(n)

LEMMA TextFacts ==
  ASSUME ContentType
  PROVE  /\ Len(text) \in Nat /\ DOMAIN text = 1..Len(text)
         /\ \A i \in 1..Len(text) : text[i].part \in 1..MaxFragments
         /\ Len(said) \in Nat /\ DOMAIN said = 1..Len(said)
         /\ TextsAt \in SUBSET (1..Len(said))
         /\ \A p \in 1..Len(said) : said[p].parts \in Seq(1..MaxFragments)
         /\ fragments \in Nat
<1>1. said \in Seq(Block) /\ text \in Seq(Fragment)
  BY DEF ContentType
<1>2. Len(said) \in Nat /\ DOMAIN said = 1..Len(said)
      /\ Len(text) \in Nat /\ DOMAIN text = 1..Len(text)
  BY <1>1, LenProperties
<1>3. ASSUME NEW i \in 1..Len(text) PROVE text[i].part \in 1..MaxFragments
  <2>1. text[i] \in Fragment
    BY <1>1, ElementOfSeq
  <2> QED
    BY <2>1 DEF Fragment
<1>4. ASSUME NEW p \in 1..Len(said)
      PROVE  said[p].parts \in Seq(1..MaxFragments)
  <2>1. said[p] \in Block
    BY <1>1, ElementOfSeq
  <2> QED
    BY <2>1 DEF Block
<1>5. TextsAt \in SUBSET (1..Len(said))
  BY <1>1, KindPlaces DEF TextsAt
<1>6. fragments \in Nat
  BY TranslateAssumption DEF ContentType
<1> QED
  BY <1>2, <1>3, <1>4, <1>5, <1>6

(* What an appended fragment adds.                                         *)
LEMMA AppendedHas ==
  ASSUME NEW X, NEW parts \in Seq(X), NEW e \in X, NEW n
  PROVE  Has(Append(parts, e), n) <=> Has(parts, n) \/ n = e
<1>1. PICK t \in Seq(X) : t = Append(parts, e)
  BY AppendProperties
<1>2. /\ Len(parts) \in Nat /\ DOMAIN parts = 1..Len(parts)
      /\ DOMAIN t = 1..Len(t)
  BY LenProperties
<1>3. /\ Len(t) = Len(parts) + 1 /\ t[Len(parts) + 1] = e
      /\ \A i \in 1..Len(parts) : t[i] = parts[i]
  BY <1>1, AppendProperties
<1>4. /\ \A i \in 1..Len(parts) : i \in 1..Len(t)
      /\ Len(parts) + 1 \in 1..Len(t)
      /\ \A i \in 1..Len(t) : i \in 1..Len(parts) \/ i = Len(parts) + 1
  BY <1>2, <1>3
<1>5. Has(t, n) <=> Has(parts, n) \/ n = e
  BY <1>2, <1>3, <1>4 DEF Has
<1> QED
  BY <1>1, <1>5

LEMMA AppendedTells ==
  ASSUME NEW s \in Seq(Fragment), NEW f \in Fragment, NEW n
  PROVE  Tells(Append(s, f), n) <=> Tells(s, n) \/ n = f.part
<1>1. PICK t \in Seq(Fragment) : t = Append(s, f)
  BY AppendProperties
<1>2. /\ Len(s) \in Nat /\ DOMAIN s = 1..Len(s)
      /\ DOMAIN t = 1..Len(t)
  BY LenProperties
<1>3. /\ Len(t) = Len(s) + 1 /\ t[Len(s) + 1] = f
      /\ \A i \in 1..Len(s) : t[i] = s[i]
  BY <1>1, AppendProperties
<1>4. /\ \A i \in 1..Len(s) : i \in 1..Len(t)
      /\ Len(s) + 1 \in 1..Len(t)
      /\ \A i \in 1..Len(t) : i \in 1..Len(s) \/ i = Len(s) + 1
  BY <1>2, <1>3
<1>5. Tells(t, n) <=> Tells(s, n) \/ n = f.part
  BY <1>2, <1>3, <1>4 DEF Tells
<1> QED
  BY <1>1, <1>5

(* What two texts tell together.                                           *)
LEMMA JoinedTells ==
  ASSUME NEW s \in Seq(Fragment), NEW u \in Seq(Fragment), NEW n
  PROVE  Tells(s \o u, n) <=> Tells(s, n) \/ Tells(u, n)
<1>1. PICK t \in Seq(Fragment) : t = s \o u
  BY ConcatProperties
<1>2. PICK a \in Nat : a = Len(s)
  BY LenProperties
<1>3. PICK c \in Nat : c = Len(u)
  BY LenProperties
<1>4. /\ DOMAIN s = 1..a /\ DOMAIN u = 1..c
      /\ DOMAIN t = 1..(a + c)
      /\ \A i \in 1..(a + c) : t[i] = IF i <= a THEN s[i] ELSE u[i - a]
  BY <1>1, <1>2, <1>3, LenProperties, ConcatProperties
<1>5. ASSUME NEW i \in 1..a PROVE i \in 1..(a + c) /\ t[i] = s[i]
  BY <1>4
<1>6. ASSUME NEW i \in 1..c PROVE a + i \in 1..(a + c) /\ t[a + i] = u[i]
  <2>1. a + i \in 1..(a + c) /\ ~ (a + i <= a) /\ (a + i) - a = i
    OBVIOUS
  <2> QED
    BY <1>4, <2>1
<1>7. ASSUME NEW i \in 1..(a + c)
      PROVE  i \in 1..a \/ (i - a \in 1..c /\ a + (i - a) = i)
  OBVIOUS
<1>8. Tells(s, n) => Tells(t, n)
  BY <1>4, <1>5 DEF Tells
<1>9. Tells(u, n) => Tells(t, n)
  BY <1>4, <1>6 DEF Tells
<1>10. Tells(t, n) => Tells(s, n) \/ Tells(u, n)
  <2>1. SUFFICES ASSUME NEW i \in 1..(a + c), t[i].part = n
                 PROVE  Tells(s, n) \/ Tells(u, n)
    BY <1>4 DEF Tells
  <2>2. CASE i \in 1..a
    BY <1>4, <1>5, <2>1, <2>2 DEF Tells
  <2>3. CASE i - a \in 1..c /\ a + (i - a) = i
    BY <1>4, <1>6, <2>1, <2>3 DEF Tells
  <2> QED
    BY <1>7, <2>2, <2>3
<1> QED
  BY <1>1, <1>8, <1>9, <1>10

LEMMA StartKeepsText ==
  ASSUME ContentType, TextIsTold, NEW kind \in Kinds, ContentBlockStart(kind)
  PROVE  TextIsTold'
<1> DEFINE n == Len(said)
<1>1. /\ n \in Nat /\ DOMAIN said = 1..n /\ TextsAt \in SUBSET (1..n)
  BY TextFacts
<1>2. PICK b \in Block : /\ b = [kind |-> kind, parts |-> << >>]
                         /\ said' = said \o << b >>
  BY StartSays
<1>3. PICK t \in Seq(Block) : t = Append(said, b)
  BY AppendProperties DEF ContentType
<1>4. said' = t
  BY <1>2, <1>3, AppendIsConcat DEF ContentType
<1>5. /\ Len(t) = n + 1 /\ DOMAIN t = 1..(n + 1)
      /\ \A p \in 1..n : t[p] = said[p]
      /\ t[n + 1] = b
  BY <1>3, AppendProperties, LenProperties DEF ContentType
<1>6. text' = text
  BY DEF ContentBlockStart
<1> HIDE DEF n
<1>7. ASSUME NEW m
      PROVE  Meant(m)' <=> Meant(m)
  <2>1. ASSUME NEW p \in 1..n
        PROVE  p \in 1..(n + 1) /\ (p \in TextsAt' <=> p \in TextsAt)
    <3>1. p \in 1..(n + 1)
      BY <1>1
    <3> QED
      BY <3>1, <1>1, <1>4, <1>5 DEF TextsAt, PlacesOf
  <2>2. ~ Has(b.parts, m)
    BY <1>2 DEF Has
  <2>3. TextsAt' \subseteq 1..n \cup { n + 1 }
    BY <1>1, <1>4, <1>5 DEF TextsAt, PlacesOf
  <2> QED
    BY <1>1, <1>4, <1>5, <2>1, <2>2, <2>3 DEF Meant
<1> QED
  BY <1>6, <1>7 DEF TextIsTold, Told

LEMMA DeltaKeepsText ==
  ASSUME ContentType, TextIsTold,
         NEW b \in 0..(Len(said) - 1), ContentBlockDelta(b)
  PROVE  TextIsTold'
<1>1. /\ Len(text) \in Nat /\ DOMAIN text = 1..Len(text)
      /\ TextsAt \in SUBSET (1..Len(said)) /\ DOMAIN said = 1..Len(said)
      /\ \A p \in 1..Len(said) : said[p].parts \in Seq(1..MaxFragments)
  BY TextFacts
<1>2. PICK at : at = b + 1
  OBVIOUS
<1>3. PICK e \in 1..MaxFragments : e = fragments'
  BY DeltaSays
<1>4. /\ at \in 1..Len(said)
      /\ \A i \in 1..Len(said) : i # at => said'[i] = said[i]
      /\ said'[at].parts = Append(said[at].parts, e)
      /\ TextsAt' = TextsAt
  BY <1>2, <1>3, DeltaSays DEF TextsAt
<1>5. ASSUME NEW m
      PROVE  Has(said'[at].parts, m) <=> Has(said[at].parts, m) \/ m = e
  <2>1. PICK parts \in Seq(1..MaxFragments) : parts = said[at].parts
    BY <1>1, <1>4
  <2>2. Has(Append(parts, e), m) <=> Has(parts, m) \/ m = e
    BY AppendedHas
  <2> QED
    BY <1>4, <2>1, <2>2
<1>6. CASE at \in TextsAt
  <2>1. said[b + 1].kind = "text"
    BY <1>2, <1>6 DEF TextsAt, PlacesOf
  <2>2. text' = Append(text, [choice |-> b, part |-> fragments'])
    BY <2>1 DEF ContentBlockDelta
  <2>3. PICK f \in Fragment : f = [choice |-> b, part |-> e]
    <3>1. b \in Nat
      BY <1>1
    <3> QED
      BY <3>1 DEF Fragment
  <2>4. text' = Append(text, f) /\ f.part = e
    BY <1>3, <2>2, <2>3
  <2>5. ASSUME NEW m PROVE Tells(Append(text, f), m) <=> Tells(text, m) \/ m = f.part
    BY AppendedTells DEF ContentType
  <2>7. ASSUME NEW m PROVE Told(m)' <=> Told(m) \/ m = e
    BY <2>4, <2>5 DEF Told
  <2>8. ASSUME NEW m PROVE Meant(m)' <=> Meant(m) \/ m = e
    BY <1>1, <1>4, <1>5, <1>6 DEF Meant
  <2> QED
    BY <2>7, <2>8 DEF TextIsTold
<1>7. CASE at \notin TextsAt
  <2>1. said[b + 1].kind # "text"
    BY <1>1, <1>2, <1>4, <1>7 DEF TextsAt, PlacesOf
  <2>2. text' = text
    BY <2>1 DEF ContentBlockDelta
  <2>3. ASSUME NEW m PROVE Meant(m)' <=> Meant(m)
    BY <1>1, <1>4, <1>7 DEF Meant
  <2> QED
    BY <2>2, <2>3 DEF TextIsTold, Told
<1> QED
  BY <1>6, <1>7

(* What a chunk's text tells: the fragment of each of its text parts.      *)
LEMMA NewTextTells ==
  ASSUME ContentType, NEW batch \in Batches, GeminiChunk(batch), NEW m
  PROVE  Tells(NewText(batch), m) <=>
           \E j \in PlacesOf("text", NewBlocks(batch)) : m = fragments + j
<1>1. PICK P : P = PlacesOf("text", NewBlocks(batch))
  OBVIOUS
<1>2. /\ P \in SUBSET Int /\ IsFiniteSet(P) /\ Cardinality(P) \in Nat
      /\ NewText(batch) \in Seq(Fragment)
      /\ Len(NewText(batch)) = Cardinality(P)
      /\ \A i \in 1..Cardinality(P) :
           /\ Nth(i, P) \in P
           /\ NewText(batch)[i].part = fragments + Nth(i, P)
  BY <1>1, ChunkTells
<1>3. DOMAIN NewText(batch) = 1..Cardinality(P)
  BY <1>2, LenProperties
<1>4. ASSUME NEW j \in P
      PROVE  \E i \in 1..Cardinality(P) : Nth(i, P) = j
  <2>1. PICK k \in 1..Cardinality(P) : k = Rank(j, P)
    BY <1>2, RankPositive
  <2>2. Nth(k, P) = j
    BY <1>2, <2>1, NthOnly
  <2> QED
    BY <2>2
<1>5. Tells(NewText(batch), m) <=> \E j \in P : m = fragments + j
  BY <1>2, <1>3, <1>4 DEF Tells
<1> QED
  BY <1>1, <1>5

LEMMA ChunkKeepsText ==
  ASSUME ContentType, TextIsTold, NEW batch \in Batches, GeminiChunk(batch)
  PROVE  TextIsTold'
<1>1. PICK t \in Seq(Block) : t = NewBlocks(batch)
  BY ChunkSays
<1>2. PICK P : P = PlacesOf("text", t)
  OBVIOUS
<1>3. PICK n \in Nat : n = Len(said)
  BY TextFacts
<1>4. PICK k \in Nat : k = Len(batch)
  BY ChunkSays
<1>5. /\ said' = said \o t /\ Len(t) = k
      /\ \A j \in 1..k :
           t[j] = [kind |-> batch[j], parts |-> << fragments + j >>]
  BY <1>1, <1>4, ChunkSays
<1>6. P \in SUBSET (1..k)
  BY <1>2, <1>5, KindPlaces
<1>7. TextsAt \in SUBSET (1..n)
  BY <1>3, TextFacts
<1>8. TextsAt' = Joined(TextsAt, n, P)
  <2>1. PlacesOf("text", said \o t) =
          Joined(PlacesOf("text", said), Len(said), PlacesOf("text", t))
    BY OfKindJoined DEF ContentType
  <2> QED
    BY <1>2, <1>3, <1>5, <2>1 DEF TextsAt
<1>9. \A i \in 1..(n + k) : said'[i] = IF i <= n THEN said[i] ELSE t[i - n]
  BY <1>3, <1>5, ConcatProperties DEF ContentType
<1>10. ASSUME NEW p \in TextsAt PROVE said'[p] = said[p]
  <2>1. p \in 1..(n + k) /\ p <= n
    BY <1>7
  <2> QED
    BY <1>9, <2>1
<1>11. ASSUME NEW j \in P
       PROVE  said'[n + j].parts = << fragments + j >>
  <2>1. n + j \in 1..(n + k) /\ ~ (n + j <= n) /\ (n + j) - n = j
        /\ j \in 1..k
    BY <1>6
  <2>2. said'[n + j] = t[j]
    BY <1>9, <2>1
  <2> QED
    BY <1>5, <2>1, <2>2
<1>12. ASSUME NEW x, NEW m PROVE Has(<< x >>, m) <=> m = x
  <2>1. DOMAIN << x >> = {1} /\ << x >>[1] = x
    OBVIOUS
  <2> QED
    BY <2>1 DEF Has
<1>13. ASSUME NEW m
       PROVE  Meant(m)' <=> Meant(m) \/ \E j \in P : m = fragments + j
  <2>1. Meant(m)' <=> \E p \in Joined(TextsAt, n, P) : Has(said'[p].parts, m)
    BY <1>8 DEF Meant
  <2>2. Meant(m)' <=> \/ \E p \in TextsAt : Has(said'[p].parts, m)
                     \/ \E j \in P : Has(said'[n + j].parts, m)
    BY <2>1, Zenon DEF Joined
  <2>3. (\E p \in TextsAt : Has(said'[p].parts, m)) <=> Meant(m)
    BY <1>10 DEF Meant
  <2>4. ASSUME NEW j \in P
        PROVE  Has(said'[n + j].parts, m) <=> m = fragments + j
    <3>1. PICK x : x = fragments + j
      OBVIOUS
    <3>2. Has(<< x >>, m) <=> m = x
      BY <1>12
    <3> QED
      BY <1>11, <3>1, <3>2
  <2> QED
    BY <2>2, <2>3, <2>4, Zenon
<1>14. ASSUME NEW m
       PROVE  Told(m)' <=> Told(m) \/ \E j \in P : m = fragments + j
  <2>1. PICK u \in Seq(Fragment) : u = NewText(batch)
    BY ChunkTells
  <2>2. text' = text \o u
    BY <2>1, ChunkTells
  <2>3. Tells(text \o u, m) <=> Tells(text, m) \/ Tells(u, m)
    BY JoinedTells DEF ContentType
  <2>4. Tells(u, m) <=> \E j \in P : m = fragments + j
    BY <1>1, <1>2, <2>1, NewTextTells
  <2> QED
    BY <2>2, <2>3, <2>4 DEF Told
<1> QED
  BY <1>13, <1>14 DEF TextIsTold

LEMMA TextStep ==
  ASSUME ContentType, TextIsTold, [Next]_vars
  PROVE  TextIsTold'
<1>1. CASE UNCHANGED << said, text >>
  BY <1>1 DEF TextIsTold, Told, Meant, TextsAt
<1>2. CASE MessageStart
  BY <1>1, <1>2 DEF MessageStart, caller
<1>3. ASSUME NEW kind \in Kinds, ContentBlockStart(kind) PROVE TextIsTold'
  BY <1>3, StartKeepsText
<1>4. ASSUME NEW b \in 0..(Len(said) - 1), ContentBlockDelta(b)
      PROVE  TextIsTold'
  BY <1>4, DeltaKeepsText
<1>5. ASSUME NEW r, MessageDelta(r)
      PROVE  TextIsTold'
  BY <1>1, <1>5 DEF MessageDelta
<1>6. ASSUME NEW batch \in Batches, GeminiChunk(batch) PROVE TextIsTold'
  BY <1>6, ChunkKeepsText
<1>7. CASE End
  BY <1>1, <1>7 DEF End, translator, caller
<1>8. CASE Cut
  BY <1>1, <1>8 DEF Cut, translator, caller
<1>9. CASE Rest \/ UNCHANGED vars
  BY <1>1, <1>9 DEF Rest, vars, provider, translator, caller
<1> QED
  BY <1>2, <1>3, <1>4, <1>5, <1>6, <1>7, <1>8, <1>9 DEF Next

-----------------------------------------------------------------------------
(* The order of the text.                                                  *)

(* A text told by number, none above n.                                    *)
Rises(s, n) ==
  /\ \A i \in DOMAIN s : s[i].part <= n
  /\ \A i, j \in DOMAIN s : i < j => s[i].part < s[j].part

LEMMA AppendedRises ==
  ASSUME NEW s \in Seq(Fragment), NEW f \in Fragment, NEW n \in Nat,
         Rises(s, n), f.part = n + 1
  PROVE  Rises(Append(s, f), n + 1)
<1>1. PICK t \in Seq(Fragment) : t = Append(s, f)
  BY AppendProperties
<1>2. PICK a \in Nat : a = Len(s)
  BY LenProperties
<1>3. /\ DOMAIN s = 1..a /\ DOMAIN t = 1..(a + 1)
      /\ t[a + 1] = f /\ \A i \in 1..a : t[i] = s[i]
  BY <1>1, <1>2, AppendProperties, LenProperties
<1>4. ASSUME NEW i \in 1..a PROVE s[i].part \in Nat /\ s[i].part <= n
  <2>1. s[i] \in Fragment
    BY <1>2, ElementOfSeq
  <2>2. s[i].part \in Nat
    BY <2>1, TranslateAssumption DEF Fragment
  <2> QED
    BY <1>3, <2>2 DEF Rises
<1>5. ASSUME NEW i \in 1..(a + 1) PROVE t[i].part <= n + 1
  <2>1. CASE i \in 1..a
    BY <1>3, <1>4, <2>1
  <2>2. CASE i = a + 1
    BY <1>3, <2>2
  <2> QED
    BY <2>1, <2>2
<1>6. ASSUME NEW i \in 1..(a + 1), NEW j \in 1..(a + 1), i < j
      PROVE  t[i].part < t[j].part
  <2>1. i \in 1..a
    BY <1>6
  <2>2. CASE j \in 1..a
    BY <1>3, <1>6, <2>1, <2>2 DEF Rises
  <2>3. CASE j = a + 1
    BY <1>3, <1>4, <2>1, <2>3
  <2> QED
    BY <2>2, <2>3
<1> QED
  BY <1>1, <1>3, <1>5, <1>6 DEF Rises

LEMMA JoinedRises ==
  ASSUME NEW s \in Seq(Fragment), NEW u \in Seq(Fragment), NEW n \in Nat,
         NEW k \in Nat, NEW m, m = n + k,
         Rises(s, n),
         \A i \in 1..Len(u) : n < u[i].part /\ u[i].part <= m,
         \A i, j \in 1..Len(u) : i < j => u[i].part < u[j].part
  PROVE  Rises(s \o u, m)
<1>1. PICK t \in Seq(Fragment) : t = s \o u
  BY ConcatProperties
<1>2. PICK a \in Nat : a = Len(s)
  BY LenProperties
<1>3. PICK c \in Nat : c = Len(u)
  BY LenProperties
<1>4. /\ DOMAIN s = 1..a /\ DOMAIN t = 1..(a + c)
      /\ \A i \in 1..(a + c) : t[i] = IF i <= a THEN s[i] ELSE u[i - a]
  BY <1>1, <1>2, <1>3, LenProperties, ConcatProperties
<1>5. ASSUME NEW i \in 1..a
      PROVE  s[i].part \in Nat /\ s[i].part <= n
  <2>1. s[i] \in Fragment
    BY <1>2, ElementOfSeq
  <2>2. s[i].part \in Nat
    BY <2>1, TranslateAssumption DEF Fragment
  <2> QED
    BY <1>4, <2>2 DEF Rises
<1>6. ASSUME NEW i \in 1..c
      PROVE  u[i].part \in Nat /\ n < u[i].part /\ u[i].part <= m
  <2>1. u[i] \in Fragment
    BY <1>3, ElementOfSeq
  <2>2. u[i].part \in Nat
    BY <2>1, TranslateAssumption DEF Fragment
  <2> QED
    BY <1>3, <2>2
<1>7. ASSUME NEW i \in 1..(a + c)
      PROVE  \/ i \in 1..a /\ t[i] = s[i]
             \/ i - a \in 1..c /\ i > a /\ t[i] = u[i - a]
  BY <1>4
<1>8. ASSUME NEW i \in 1..(a + c) PROVE t[i].part <= m
  <2>1. CASE i \in 1..a /\ t[i] = s[i]
    BY <1>5, <2>1
  <2>2. CASE i - a \in 1..c /\ i > a /\ t[i] = u[i - a]
    BY <1>6, <2>2
  <2> QED
    BY <1>7, <2>1, <2>2
<1>9. ASSUME NEW i \in 1..(a + c), NEW j \in 1..(a + c), i < j
      PROVE  t[i].part < t[j].part
  <2>1. CASE j \in 1..a /\ t[j] = s[j]
    <3>1. i \in 1..a /\ i <= a
      BY <1>9, <2>1
    <3>2. t[i] = s[i]
      BY <1>4, <3>1
    <3> QED
      BY <1>4, <1>9, <2>1, <3>1, <3>2 DEF Rises
  <2>2. CASE j - a \in 1..c /\ j > a /\ t[j] = u[j - a]
    <3>1. CASE i \in 1..a /\ t[i] = s[i]
      <4>1. t[i].part \in Nat /\ t[i].part <= n
        BY <1>5, <3>1
      <4>2. t[j].part \in Nat /\ n < t[j].part
        <5>1. PICK q \in 1..c : q = j - a
          BY <2>2
        <5>2. t[j] = u[q]
          BY <2>2, <5>1
        <5> QED
          BY <1>6, <5>2
      <4> QED
        BY <4>1, <4>2
    <3>2. CASE i - a \in 1..c /\ i > a /\ t[i] = u[i - a]
      <4>1. PICK p \in 1..c, q \in 1..c : p = i - a /\ q = j - a
        BY <2>2, <3>2
      <4>2. p < q
        BY <1>9, <4>1
      <4>3. u[p].part < u[q].part
        BY <1>3, <4>2
      <4> QED
        BY <2>2, <3>2, <4>1, <4>3
    <3> QED
      BY <1>7, <3>1, <3>2
  <2> QED
    BY <1>7, <2>1, <2>2
<1> QED
  BY <1>1, <1>4, <1>8, <1>9 DEF Rises

LEMMA ChunkKeepsOrder ==
  ASSUME ContentType, TextInOrder, NEW batch \in Batches, GeminiChunk(batch)
  PROVE  TextInOrder'
<1>1. PICK P : P = PlacesOf("text", NewBlocks(batch))
  OBVIOUS
<1>2. PICK n \in Nat : n = fragments
  BY TextFacts
<1>3. PICK k \in Nat : k = Len(batch)
  BY ChunkSays
<1>4. PICK u \in Seq(Fragment) : u = NewText(batch)
  BY ChunkTells
<1>5. /\ P \in SUBSET (1..k) /\ P \in SUBSET Int
      /\ IsFiniteSet(P) /\ Cardinality(P) \in Nat
      /\ text' = text \o u /\ Len(u) = Cardinality(P)
      /\ \A i \in 1..Cardinality(P) : /\ Nth(i, P) \in P
                                      /\ u[i].part = n + Nth(i, P)
  BY <1>1, <1>2, <1>3, <1>4, ChunkTells
<1>6. PICK m : m = n + k
  OBVIOUS
<1>7. fragments' = m
  BY <1>2, <1>3, <1>6, ChunkSays
<1>8. ASSUME NEW i \in 1..Len(u) PROVE n < u[i].part /\ u[i].part <= m
  <2>1. PICK p \in 1..k : p = Nth(i, P)
    BY <1>5
  <2>2. u[i].part = n + p
    BY <1>5, <2>1
  <2> QED
    BY <1>6, <2>2
<1>9. ASSUME NEW i \in 1..Len(u), NEW j \in 1..Len(u), i < j
      PROVE  u[i].part < u[j].part
  <2>1. Nth(i, P) < Nth(j, P)
    BY <1>5, <1>9, NthRises
  <2>2. PICK p \in 1..k, q \in 1..k : p = Nth(i, P) /\ q = Nth(j, P)
    BY <1>5
  <2>3. u[i].part = n + p /\ u[j].part = n + q
    BY <1>5, <2>2
  <2> QED
    BY <2>1, <2>2, <2>3
<1>10. Rises(text, n)
  BY <1>2 DEF TextInOrder, Rises
<1>11. Rises(text \o u, m)
  BY <1>6, <1>8, <1>9, <1>10, JoinedRises DEF ContentType
<1> QED
  BY <1>5, <1>7, <1>11 DEF TextInOrder, Rises

LEMMA OrderStep ==
  ASSUME ContentType, TextInOrder, [Next]_vars
  PROVE  TextInOrder'
<1>1. CASE UNCHANGED << fragments, text >>
  BY <1>1 DEF TextInOrder
<1>2. CASE MessageStart
  BY <1>1, <1>2 DEF MessageStart, caller
<1>3. ASSUME text' = text, fragments' = fragments + 1 PROVE TextInOrder'
  <2>1. ASSUME NEW i \in DOMAIN text PROVE text[i].part <= fragments + 1
    <3>1. text[i].part \in Nat /\ fragments \in Nat
      BY TextFacts, TranslateAssumption
    <3>2. text[i].part <= fragments
      BY DEF TextInOrder
    <3> QED
      BY <3>1, <3>2
  <2> QED
    BY <1>3, <2>1 DEF TextInOrder
<1>4. ASSUME NEW kind \in Kinds, ContentBlockStart(kind) PROVE TextInOrder'
  BY <1>3, <1>4 DEF ContentBlockStart
<1>5. ASSUME NEW b \in 0..(Len(said) - 1), ContentBlockDelta(b)
      PROVE  TextInOrder'
  <2>1. fragments' = fragments + 1 /\ fragments' \in 1..MaxFragments
    BY <1>5, DeltaSays
  <2>2. text' = text
        \/ text' = Append(text, [choice |-> b, part |-> fragments'])
    BY <1>5 DEF ContentBlockDelta
  <2>3. CASE text' = text
    BY <1>3, <2>1, <2>3
  <2>4. CASE text' = Append(text, [choice |-> b, part |-> fragments'])
    <3>1. b \in Nat
      BY TextFacts
    <3>2. PICK f \in Fragment : f = [choice |-> b, part |-> fragments']
      BY <2>1, <3>1 DEF Fragment
    <3>3. PICK n \in Nat : n = fragments
      BY TextFacts
    <3>4. Rises(text, n)
      BY <3>3 DEF TextInOrder, Rises
    <3>5. f.part = n + 1
      BY <2>1, <3>2, <3>3
    <3>6. Rises(Append(text, f), n + 1)
      BY <3>4, <3>5, AppendedRises DEF ContentType
    <3> QED
      BY <2>1, <2>4, <3>2, <3>3, <3>6 DEF TextInOrder, Rises
  <2> QED
    BY <2>2, <2>3, <2>4
<1>6. ASSUME NEW r, MessageDelta(r)
      PROVE  TextInOrder'
  BY <1>1, <1>6 DEF MessageDelta
<1>7. ASSUME NEW batch \in Batches, GeminiChunk(batch) PROVE TextInOrder'
  BY <1>7, ChunkKeepsOrder
<1>8. CASE End
  BY <1>1, <1>8 DEF End, translator, caller
<1>9. CASE Cut
  BY <1>1, <1>9 DEF Cut, translator, caller
<1>10. CASE Rest \/ UNCHANGED vars
  BY <1>1, <1>10 DEF Rest, vars, provider, translator, caller
<1> QED
  BY <1>2, <1>4, <1>5, <1>6, <1>7, <1>8, <1>9, <1>10 DEF Next

-----------------------------------------------------------------------------
(* The finish reason, once there is one, knows of every tool call.         *)

EndInv ==
  /\ protocol = "anthropic" => stopReason = reason
  /\ phase \in { "stopped", "ended" } => finish = Upgraded(reason, toolCalls > 0)

LEMMA EndStep ==
  ASSUME ContentType, EndInv, [Next]_vars
  PROVE  EndInv'
<1>0. protocol' = protocol
  BY DEF Next, MessageStart, ContentBlockStart, ContentBlockDelta,
         MessageDelta, GeminiChunk, End, Cut, Rest, vars, provider
<1>1. CASE UNCHANGED << phase, reason, stopReason, toolCalls, finish >>
  BY <1>0, <1>1 DEF EndInv, Upgraded, FinishReason
<1>2. ASSUME phase' = "open" \/ phase' = "cut",
             reason' = reason /\ stopReason' = stopReason
      PROVE  EndInv'
  BY <1>0, <1>2 DEF EndInv
<1>3. CASE MessageStart
  BY <1>2, <1>3 DEF MessageStart
<1>4. ASSUME NEW kind \in Kinds, ContentBlockStart(kind) PROVE EndInv'
  BY <1>2, <1>4 DEF ContentBlockStart
<1>5. ASSUME NEW b \in 0..(Len(said) - 1), ContentBlockDelta(b) PROVE EndInv'
  BY <1>2, <1>5 DEF ContentBlockDelta, translator
<1>6. ASSUME NEW r, MessageDelta(r)
      PROVE  EndInv'
  <2>1. /\ reason' = IF r = "" THEN reason ELSE r
        /\ stopReason' = IF r = "" THEN stopReason ELSE r
        /\ phase' = IF stopReason' = "" THEN "open" ELSE "stopped"
        /\ finish' = IF stopReason' = "" THEN finish
                     ELSE Upgraded(stopReason', toolCalls > 0)
        /\ toolCalls' = toolCalls /\ protocol = "anthropic"
    BY <1>6 DEF MessageDelta
  <2>2. stopReason = reason
    BY <2>1 DEF EndInv
  <2>3. stopReason' = reason'
    BY <2>1, <2>2
  <2>4. CASE stopReason' = ""
    <3>1. phase' = "open"
      BY <2>1, <2>4
    <3> QED
      BY <2>3, <3>1 DEF EndInv
  <2>5. CASE stopReason' # ""
    <3>1. finish' = Upgraded(reason', toolCalls > 0)
      BY <2>1, <2>3, <2>5
    <3> QED
      BY <1>0, <2>1, <2>3, <3>1 DEF EndInv, Upgraded, FinishReason
  <2> QED
    BY <2>4, <2>5
<1>7. ASSUME NEW batch \in Batches, GeminiChunk(batch) PROVE EndInv'
  <2>1. PICK tools \in Seq(Block) : tools = OfKind("tool", NewBlocks(batch))
    BY <1>7, ChunkCalls
  <2>2. PICK n \in Nat : n = Len(tools)
    BY LenProperties
  <2>3. toolCalls' = toolCalls + n /\ toolCalls \in Nat
    <3>1. toolCalls' = toolCalls + Len(tools)
      BY <1>7, <2>1, ChunkCalls
    <3>2. toolCalls \in Nat
      BY TextFacts DEF ContentType
    <3> QED
      BY <2>2, <3>1, <3>2
  <2>4. tools # << >> <=> n > 0
    BY <2>2, EmptySeq, LenProperties
  <2>5. HadCalls(batch) <=> toolCalls' > 0
    <3>1. HadCalls(batch) <=> toolCalls > 0 \/ tools # << >>
      BY <2>1 DEF HadCalls
    <3> QED
      BY <2>3, <2>4, <3>1
  <2>6. PICK r \in GeminiReasons \cup { "" } :
          /\ reason' = r
          /\ phase' = IF r = "" THEN "open" ELSE "stopped"
          /\ finish' = IF r = "" THEN finish ELSE Upgraded(r, HadCalls(batch))
    BY <1>7 DEF GeminiChunk
  <2>7. protocol' = "gemini"
    BY <1>7 DEF GeminiChunk
  <2>8. CASE r = ""
    <3>1. phase' = "open"
      BY <2>6, <2>8
    <3> QED
      BY <2>7, <3>1 DEF EndInv
  <2>9. CASE r # ""
    <3>1. finish' = Upgraded(r, HadCalls(batch)) /\ reason' = r
      BY <2>6, <2>9
    <3>2. finish' = Upgraded(reason', toolCalls' > 0)
      BY <2>5, <3>1 DEF Upgraded
    <3> QED
      BY <1>0, <2>7, <3>2 DEF EndInv, Upgraded, FinishReason
  <2> QED
    BY <2>8, <2>9
<1>8. CASE End
  BY <1>0, <1>8 DEF End, translator, caller, EndInv, Upgraded, FinishReason
<1>9. CASE Cut
  BY <1>2, <1>9 DEF Cut, translator
<1>10. CASE Rest \/ UNCHANGED vars
  BY <1>1, <1>10 DEF Rest, vars, provider, translator, caller
<1> QED
  BY <1>3, <1>4, <1>5, <1>6, <1>7, <1>8, <1>9, <1>10 DEF Next

-----------------------------------------------------------------------------
(* The fragments rise within a block, and Gemini's from block to block; a  *)
(* fragment of text is for choice 0 or for the choice of its block.        *)

RisesTo(parts, n) ==
  /\ \A i \in DOMAIN parts : parts[i] <= n
  /\ \A i, j \in DOMAIN parts : i < j => parts[i] < parts[j]

BlocksRise ==
  /\ \A p \in DOMAIN said : RisesTo(said[p].parts, fragments)
  /\ protocol = "gemini" =>
       \A p, q \in DOMAIN said : p < q =>
         \A i \in DOMAIN said[p].parts, j \in DOMAIN said[q].parts :
           said[p].parts[i] < said[q].parts[j]

ChoiceOf(f) ==
  \/ f.choice = 0
  \/ /\ protocol = "anthropic" /\ f.choice + 1 \in TextsAt
     /\ said[f.choice + 1].parts # << >>

ChoicesInv == \A i \in DOMAIN text : ChoiceOf(text[i])

LEMMA RisesFurther ==
  ASSUME NEW parts \in Seq(1..MaxFragments), NEW n \in Nat, NEW m \in Nat,
         n <= m, RisesTo(parts, n)
  PROVE  RisesTo(parts, m)
<1>1. ASSUME NEW i \in DOMAIN parts PROVE parts[i] <= m
  <2>1. parts[i] \in Int
    BY LenProperties, ElementOfSeq, TranslateAssumption
  <2>2. parts[i] <= n
    BY DEF RisesTo
  <2> QED
    BY <2>1, <2>2
<1> QED
  BY <1>1 DEF RisesTo

LEMMA AppendedParts ==
  ASSUME NEW parts \in Seq(1..MaxFragments), NEW e \in 1..MaxFragments,
         NEW n \in Nat, e = n + 1, RisesTo(parts, n)
  PROVE  RisesTo(Append(parts, e), e)
<1>1. PICK t \in Seq(1..MaxFragments) : t = Append(parts, e)
  BY AppendProperties
<1>2. PICK a \in Nat : a = Len(parts)
  BY LenProperties
<1>3. /\ DOMAIN parts = 1..a /\ DOMAIN t = 1..(a + 1)
      /\ t[a + 1] = e /\ \A i \in 1..a : t[i] = parts[i]
  BY <1>1, <1>2, AppendProperties, LenProperties
<1>4. ASSUME NEW i \in 1..a PROVE parts[i] \in Int /\ parts[i] <= n
  <2>1. parts[i] \in 1..MaxFragments
    BY <1>2, ElementOfSeq
  <2> QED
    BY <1>3, <2>1, TranslateAssumption DEF RisesTo
<1>5. ASSUME NEW i \in 1..(a + 1) PROVE t[i] <= e
  <2>1. CASE i \in 1..a
    BY <1>3, <1>4, <2>1
  <2>2. CASE i = a + 1
    BY <1>3, <2>2
  <2> QED
    BY <2>1, <2>2
<1>6. ASSUME NEW i \in 1..(a + 1), NEW j \in 1..(a + 1), i < j
      PROVE  t[i] < t[j]
  <2>1. i \in 1..a
    BY <1>6
  <2>2. CASE j \in 1..a
    BY <1>3, <1>6, <2>1, <2>2 DEF RisesTo
  <2>3. CASE j = a + 1
    BY <1>3, <1>4, <2>1, <2>3
  <2> QED
    BY <2>2, <2>3
<1> QED
  BY <1>1, <1>3, <1>5, <1>6 DEF RisesTo

LEMMA StartKeepsBlocks ==
  ASSUME ContentType, BlocksRise, NEW kind \in Kinds, ContentBlockStart(kind)
  PROVE  BlocksRise'
<1>1. PICK n \in Nat : n = Len(said)
  BY TextFacts
<1>2. PICK m \in Nat : m = fragments
  BY TextFacts
<1>3. /\ DOMAIN said = 1..n
      /\ \A p \in 1..n : said[p].parts \in Seq(1..MaxFragments)
  BY <1>1, TextFacts
<1>4. PICK b \in Block : /\ b = [kind |-> kind, parts |-> << >>]
                         /\ said' = said \o << b >>
  BY StartSays
<1>5. PICK t \in Seq(Block) : t = Append(said, b)
  BY AppendProperties DEF ContentType
<1>6. said' = t
  BY <1>4, <1>5, AppendIsConcat DEF ContentType
<1>7. /\ DOMAIN t = 1..(n + 1) /\ t[n + 1] = b
      /\ \A p \in 1..n : t[p] = said[p]
  BY <1>1, <1>5, AppendProperties, LenProperties DEF ContentType
<1>8. fragments' = m + 1 /\ protocol' = "anthropic"
  BY <1>2 DEF ContentBlockStart
<1>9. ASSUME NEW p \in 1..(n + 1) PROVE RisesTo(t[p].parts, m + 1)
  <2>1. CASE p \in 1..n
    <3>1. RisesTo(said[p].parts, m)
      BY <1>2, <1>3, <2>1 DEF BlocksRise
    <3>2. said[p].parts \in Seq(1..MaxFragments)
      BY <1>3, <2>1
    <3>3. RisesTo(said[p].parts, m + 1)
      BY <3>1, <3>2, RisesFurther
    <3> QED
      BY <1>7, <2>1, <3>3
  <2>2. CASE p = n + 1
    BY <1>4, <1>7, <2>2 DEF RisesTo
  <2> QED
    BY <2>1, <2>2
<1> QED
  BY <1>6, <1>7, <1>8, <1>9 DEF BlocksRise

LEMMA DeltaKeepsBlocks ==
  ASSUME ContentType, BlocksRise,
         NEW b \in 0..(Len(said) - 1), ContentBlockDelta(b)
  PROVE  BlocksRise'
<1>1. PICK n \in Nat : n = Len(said)
  BY TextFacts
<1>2. PICK m \in Nat : m = fragments
  BY TextFacts
<1>3. /\ DOMAIN said = 1..n
      /\ \A p \in 1..n : said[p].parts \in Seq(1..MaxFragments)
  BY <1>1, TextFacts
<1>4. PICK at \in 1..n : at = b + 1
  BY <1>1, DeltaSays
<1>5. PICK e \in 1..MaxFragments : e = fragments'
  BY DeltaSays
<1>6. /\ e = m + 1
      /\ \A p \in 1..n : p # at => said'[p] = said[p]
      /\ said'[at].parts = Append(said[at].parts, e)
      /\ said' \in Seq(Block) /\ Len(said') = n
  BY <1>1, <1>2, <1>4, <1>5, DeltaSays
<1>7. DOMAIN said' = 1..n
  BY <1>6, LenProperties
<1>8. protocol' = "anthropic"
  BY DEF ContentBlockDelta
<1>9. ASSUME NEW p \in 1..n PROVE RisesTo(said'[p].parts, e)
  <2>1. PICK parts \in Seq(1..MaxFragments) : parts = said[p].parts
    BY <1>3
  <2>2. RisesTo(parts, m)
    BY <1>2, <1>3, <2>1 DEF BlocksRise
  <2>3. CASE p = at
    <3>1. RisesTo(Append(parts, e), e)
      BY <1>6, <2>2, AppendedParts
    <3> QED
      BY <1>6, <2>1, <2>3, <3>1
  <2>4. CASE p # at
    <3>1. e \in Nat /\ m <= e
      BY <1>6
    <3>2. RisesTo(parts, e)
      BY <2>2, <3>1, RisesFurther
    <3> QED
      BY <1>6, <2>1, <2>4, <3>2
  <2> QED
    BY <2>3, <2>4
<1> QED
  BY <1>5, <1>7, <1>8, <1>9 DEF BlocksRise

LEMMA ChunkKeepsBlocks ==
  ASSUME ContentType, BlocksRise, NEW batch \in Batches, GeminiChunk(batch)
  PROVE  BlocksRise'
<1>1. PICK n \in Nat : n = Len(said)
  BY TextFacts
<1>2. PICK m \in Nat : m = fragments
  BY TextFacts
<1>3. PICK k \in Nat : k = Len(batch)
  BY ChunkSays
<1>4. PICK t \in Seq(Block) : t = NewBlocks(batch)
  BY ChunkSays
<1>5. /\ said' = said \o t /\ Len(t) = k /\ fragments' = m + k
      /\ \A j \in 1..k : t[j] = [kind |-> batch[j], parts |-> << m + j >>]
      /\ said' \in Seq(Block) /\ Len(said') = n + k
  BY <1>1, <1>2, <1>3, <1>4, ChunkSays
<1>6. DOMAIN said' = 1..(n + k)
  BY <1>5, LenProperties
<1>7. /\ DOMAIN said = 1..n
      /\ \A p \in 1..n : said[p].parts \in Seq(1..MaxFragments)
  BY <1>1, TextFacts
<1>8. \A p \in 1..(n + k) : said'[p] = IF p <= n THEN said[p] ELSE t[p - n]
  BY <1>1, <1>5, ConcatProperties DEF ContentType
<1>9. ASSUME NEW p \in 1..n PROVE said'[p] = said[p]
  <2>1. p \in 1..(n + k) /\ p <= n
    OBVIOUS
  <2> QED
    BY <1>8, <2>1
<1>10. ASSUME NEW p \in 1..(n + k), n < p
       PROVE  said'[p].parts = << m + (p - n) >>
  <2>1. ~ (p <= n) /\ p - n \in 1..k
    BY <1>10
  <2>2. said'[p] = t[p - n]
    BY <1>8, <2>1
  <2>3. t[p - n] = [kind |-> batch[p - n], parts |-> << m + (p - n) >>]
    BY <1>5, <2>1
  <2> QED
    BY <2>2, <2>3
<1>11. ASSUME NEW p \in 1..n, NEW i \in DOMAIN said[p].parts
       PROVE  said[p].parts[i] \in Int /\ said[p].parts[i] <= m
  <2>1. PICK parts \in Seq(1..MaxFragments) : parts = said[p].parts
    BY <1>7
  <2>2. parts[i] \in 1..MaxFragments
    BY <2>1, LenProperties, ElementOfSeq
  <2>3. RisesTo(said[p].parts, m)
    BY <1>2, <1>7 DEF BlocksRise
  <2> QED
    BY <2>1, <2>2, <2>3, TranslateAssumption DEF RisesTo
<1>12. ASSUME NEW p \in 1..(n + k) PROVE RisesTo(said'[p].parts, m + k)
  <2>1. CASE p \in 1..n
    <3>1. RisesTo(said[p].parts, m)
      BY <1>2, <1>7, <2>1 DEF BlocksRise
    <3>2. PICK parts \in Seq(1..MaxFragments) : parts = said[p].parts
      BY <1>7, <2>1
    <3>3. m + k \in Nat /\ m <= m + k
      OBVIOUS
    <3>4. RisesTo(parts, m + k)
      BY <3>1, <3>2, <3>3, RisesFurther
    <3> QED
      BY <1>9, <2>1, <3>2, <3>4
  <2>2. CASE n < p
    <3>1. PICK x \in Int : x = m + (p - n)
      OBVIOUS
    <3>2. x <= m + k
      BY <3>1
    <3>3. said'[p].parts = << x >>
      BY <1>10, <2>2, <3>1
    <3>4. DOMAIN << x >> = {1} /\ << x >>[1] = x
      OBVIOUS
    <3> QED
      BY <3>2, <3>3, <3>4 DEF RisesTo
  <2> QED
    BY <2>1, <2>2
<1>13. ASSUME NEW p \in 1..(n + k), NEW q \in 1..(n + k), p < q,
              NEW i \in DOMAIN said'[p].parts, NEW j \in DOMAIN said'[q].parts
       PROVE  said'[p].parts[i] < said'[q].parts[j]
  <2>1. CASE q \in 1..n
    <3>1. p \in 1..n
      BY <1>13, <2>1
    <3>2. said'[p] = said[p] /\ said'[q] = said[q]
      BY <1>9, <2>1, <3>1
    <3>3. protocol = "gemini"
      BY DEF GeminiChunk
    <3> QED
      BY <1>7, <1>13, <2>1, <3>1, <3>2, <3>3 DEF BlocksRise
  <2>2. CASE n < q
    <3>1. PICK y \in Int : y = m + (q - n)
      OBVIOUS
    <3>2. said'[q].parts = << y >>
      BY <1>10, <2>2, <3>1
    <3>3. said'[q].parts[j] = y
      BY <3>2
    <3>4. CASE p \in 1..n
      <4>1. said'[p] = said[p]
        BY <1>9, <3>4
      <4>2. said[p].parts[i] \in Int /\ said[p].parts[i] <= m
        BY <1>11, <3>4, <4>1
      <4>3. m < y
        BY <2>2, <3>1
      <4> QED
        BY <3>3, <4>1, <4>2, <4>3
    <3>5. CASE n < p
      <4>1. PICK x \in Int : x = m + (p - n)
        OBVIOUS
      <4>2. said'[p].parts = << x >>
        BY <1>10, <3>5, <4>1
      <4>3. said'[p].parts[i] = x
        BY <4>2
      <4>4. x < y
        BY <1>13, <3>1, <4>1
      <4> QED
        BY <3>3, <4>3, <4>4
    <3> QED
      BY <3>4, <3>5
  <2> QED
    BY <2>1, <2>2
<1>14. \A p \in DOMAIN said' : RisesTo(said'[p].parts, fragments')
  BY <1>5, <1>6, <1>12
<1>15. \A p, q \in DOMAIN said' : p < q =>
         \A i \in DOMAIN said'[p].parts, j \in DOMAIN said'[q].parts :
           said'[p].parts[i] < said'[q].parts[j]
  BY <1>6, <1>13, Zenon
<1> QED
  BY <1>14, <1>15, Zenon DEF BlocksRise

LEMMA BlocksStep ==
  ASSUME ContentType, BlocksRise, [Next]_vars
  PROVE  BlocksRise'
<1>1. CASE UNCHANGED << protocol, said, fragments >>
  BY <1>1 DEF BlocksRise
<1>2. CASE MessageStart
  BY <1>1, <1>2 DEF MessageStart
<1>3. ASSUME NEW kind \in Kinds, ContentBlockStart(kind) PROVE BlocksRise'
  BY <1>3, StartKeepsBlocks
<1>4. ASSUME NEW b \in 0..(Len(said) - 1), ContentBlockDelta(b)
      PROVE  BlocksRise'
  BY <1>4, DeltaKeepsBlocks
<1>5. ASSUME NEW r, MessageDelta(r)
      PROVE  BlocksRise'
  BY <1>1, <1>5 DEF MessageDelta
<1>6. ASSUME NEW batch \in Batches, GeminiChunk(batch) PROVE BlocksRise'
  BY <1>6, ChunkKeepsBlocks
<1>7. CASE End \/ Cut
  BY <1>1, <1>7 DEF End, Cut
<1>8. CASE Rest \/ UNCHANGED vars
  BY <1>1, <1>8 DEF Rest, vars, provider
<1> QED
  BY <1>2, <1>3, <1>4, <1>5, <1>6, <1>7, <1>8 DEF Next

LEMMA ChoicesStep ==
  ASSUME ContentType, ChoicesInv, [Next]_vars
  PROVE  ChoicesInv'
<1>1. CASE UNCHANGED << protocol, said, text >>
  BY <1>1 DEF ChoicesInv, ChoiceOf, TextsAt
<1>2. CASE MessageStart
  BY <1>1, <1>2 DEF MessageStart, caller
<1>3. ASSUME NEW kind \in Kinds, ContentBlockStart(kind) PROVE ChoicesInv'
  <2>1. PICK n \in Nat : n = Len(said)
    BY TextFacts
  <2>2. PICK b \in Block : /\ b = [kind |-> kind, parts |-> << >>]
                           /\ said' = said \o << b >>
    BY <1>3, StartSays
  <2>3. PICK t \in Seq(Block) : t = Append(said, b)
    BY AppendProperties DEF ContentType
  <2>4. said' = t
    BY <2>2, <2>3, AppendIsConcat DEF ContentType
  <2>5. /\ DOMAIN t = 1..(n + 1) /\ \A p \in 1..n : t[p] = said[p]
        /\ DOMAIN said = 1..n
    BY <2>1, <2>3, AppendProperties, LenProperties DEF ContentType
  <2>6. text' = text /\ protocol' = protocol
    BY <1>3 DEF ContentBlockStart
  <2>7. ASSUME NEW p \in TextsAt
        PROVE  p \in TextsAt' /\ said'[p] = said[p]
    <3>1. p \in 1..n /\ p \in 1..(n + 1) /\ said[p].kind = "text"
      BY <2>5 DEF TextsAt, PlacesOf
    <3> QED
      BY <2>4, <2>5, <3>1 DEF TextsAt, PlacesOf
  <2> QED
    BY <2>6, <2>7 DEF ChoicesInv, ChoiceOf
<1>4. ASSUME NEW b \in 0..(Len(said) - 1), ContentBlockDelta(b)
      PROVE  ChoicesInv'
  <2>1. PICK n \in Nat : n = Len(said)
    BY TextFacts
  <2>2. PICK at \in 1..n : at = b + 1
    BY <1>4, <2>1, DeltaSays
  <2>3. PICK e \in 1..MaxFragments : e = fragments'
    BY <1>4, DeltaSays
  <2>4. PICK parts \in Seq(1..MaxFragments) : parts = said[at].parts
    BY <2>1, <2>2, TextFacts
  <2>5. /\ \A p \in 1..n : p # at => said'[p] = said[p]
        /\ said'[at].parts = Append(parts, e)
        /\ TextsAt' = TextsAt
    BY <1>4, <2>1, <2>2, <2>3, <2>4, DeltaSays DEF TextsAt
  <2>6. Append(parts, e) # << >>
    <3>1. Len(Append(parts, e)) = Len(parts) + 1 /\ Len(parts) \in Nat
      BY AppendProperties, LenProperties
    <3> QED
      BY <3>1
  <2>7. /\ protocol = "anthropic" /\ protocol' = protocol
        /\ text' = text \/ /\ said[at].kind = "text"
                           /\ text' = Append(text, [choice |-> b, part |-> e])
    BY <1>4, <2>2, <2>3 DEF ContentBlockDelta
  <2>8. ASSUME NEW f, ChoiceOf(f) PROVE ChoiceOf(f)'
    <3>1. CASE f.choice = 0
      BY <3>1 DEF ChoiceOf
    <3>2. CASE /\ f.choice + 1 \in TextsAt
               /\ said[f.choice + 1].parts # << >>
      <4>1. PICK p : p = f.choice + 1
        OBVIOUS
      <4>2. p \in 1..n
        BY <2>1, <3>2, <4>1, TextFacts
      <4>3. said'[p].parts # << >>
        BY <2>5, <2>6, <3>2, <4>1, <4>2
      <4> QED
        BY <2>5, <2>7, <3>2, <4>1, <4>3 DEF ChoiceOf
    <3> QED
      BY <2>8, <3>1, <3>2 DEF ChoiceOf
  <2>9. CASE text' = text
    BY <2>8, <2>9 DEF ChoicesInv
  <2>10. CASE /\ said[at].kind = "text"
              /\ text' = Append(text, [choice |-> b, part |-> e])
    <3>1. PICK f \in Fragment : f = [choice |-> b, part |-> e]
      <4>1. b \in Nat
        BY <2>1
      <4> QED
        BY <4>1 DEF Fragment
    <3>2. PICK u \in Seq(Fragment) : u = Append(text, f)
      BY AppendProperties DEF ContentType
    <3>3. PICK a \in Nat : a = Len(text)
      BY TextFacts
    <3>4. /\ DOMAIN text = 1..a /\ DOMAIN u = 1..(a + 1)
          /\ u[a + 1] = f /\ \A i \in 1..a : u[i] = text[i]
      BY <3>2, <3>3, AppendProperties, LenProperties DEF ContentType
    <3>5. ChoiceOf(f)'
      <4>1. f.choice + 1 = at
        BY <2>2, <3>1
      <4>2. at \in TextsAt
        BY <2>1, <2>2, <2>10, TextFacts DEF TextsAt, PlacesOf
      <4> QED
        BY <2>5, <2>6, <2>7, <4>1, <4>2 DEF ChoiceOf
    <3>6. ASSUME NEW i \in 1..(a + 1) PROVE ChoiceOf(u[i])'
      <4>1. CASE i \in 1..a
        <5>1. ChoiceOf(text[i])
          BY <3>4, <4>1 DEF ChoicesInv
        <5>2. PICK g : g = text[i]
          OBVIOUS
        <5>3. ChoiceOf(g)'
          BY <2>8, <5>1, <5>2
        <5> QED
          BY <3>4, <4>1, <5>2, <5>3
      <4>2. CASE i = a + 1
        BY <3>4, <3>5, <4>2
      <4> QED
        BY <4>1, <4>2
    <3>7. text' = u
      BY <2>10, <3>1, <3>2
    <3> QED
      BY <3>4, <3>6, <3>7 DEF ChoicesInv
  <2> QED
    BY <2>7, <2>9, <2>10
<1>5. ASSUME NEW r, MessageDelta(r)
      PROVE  ChoicesInv'
  BY <1>1, <1>5 DEF MessageDelta
<1>6. ASSUME NEW batch \in Batches, GeminiChunk(batch) PROVE ChoicesInv'
  <2>1. PICK u \in Seq(Fragment) : u = NewText(batch)
    BY <1>6, ChunkTells
  <2>2. text' = text \o u
    BY <1>6, <2>1, ChunkTells
  <2>3. \A i \in DOMAIN u : u[i].choice = 0
    BY <2>1 DEF NewText
  <2>4. protocol = "gemini"
    BY <1>6 DEF GeminiChunk
  <2>5. \A i \in DOMAIN text : text[i].choice = 0
    BY <2>4 DEF ChoicesInv, ChoiceOf
  <2>6. PICK a \in Nat : a = Len(text)
    BY TextFacts
  <2>7. PICK c \in Nat : c = Len(u)
    BY LenProperties
  <2>8. /\ DOMAIN text = 1..a /\ DOMAIN u = 1..c
        /\ DOMAIN (text \o u) = 1..(a + c)
        /\ \A i \in 1..(a + c) :
             (text \o u)[i] = IF i <= a THEN text[i] ELSE u[i - a]
    BY <2>6, <2>7, ConcatProperties, LenProperties DEF ContentType
  <2>9. ASSUME NEW i \in 1..(a + c) PROVE (text \o u)[i].choice = 0
    <3>1. CASE i <= a
      BY <2>5, <2>8, <3>1
    <3>2. CASE ~ (i <= a)
      <4>1. i - a \in 1..c
        BY <3>2
      <4> QED
        BY <2>3, <2>8, <3>2, <4>1
    <3> QED
      BY <3>1, <3>2
  <2> QED
    BY <2>2, <2>8, <2>9 DEF ChoicesInv, ChoiceOf
<1>7. CASE End \/ Cut
  BY <1>1, <1>7 DEF End, Cut, caller
<1>8. CASE Rest \/ UNCHANGED vars
  BY <1>1, <1>8 DEF Rest, vars, provider, caller
<1> QED
  BY <1>2, <1>3, <1>4, <1>5, <1>6, <1>7, <1>8 DEF Next

-----------------------------------------------------------------------------
(* The whole answer.                                                       *)

LEMMA InitText ==
  Init => TextIsTold /\ TextInOrder /\ EndInv /\ BlocksRise /\ ChoicesInv
<1> SUFFICES ASSUME Init
             PROVE  /\ TextIsTold /\ TextInOrder /\ EndInv
                    /\ BlocksRise /\ ChoicesInv
  OBVIOUS
<1>1. text = << >> /\ said = << >> /\ phase \in { "before", "open" }
      /\ stopReason = reason
  BY DEF Init
<1>2. DOMAIN text = {} /\ TextsAt = {} /\ DOMAIN said = {}
  BY <1>1 DEF TextsAt, PlacesOf
<1>3. TextIsTold
  BY <1>2 DEF TextIsTold, Told, Tells, Meant
<1>4. TextInOrder
  BY <1>2 DEF TextInOrder
<1>5. EndInv
  BY <1>1 DEF EndInv
<1>6. BlocksRise
  BY <1>2 DEF BlocksRise
<1>7. ChoicesInv
  BY <1>2 DEF ChoicesInv
<1> QED
  BY <1>3, <1>4, <1>5, <1>6, <1>7

LEMMA Answered ==
  Spec => [](/\ WordsType /\ CountsType /\ BillInv /\ ContentType /\ CallsInv
             /\ TextIsTold /\ TextInOrder /\ EndInv
             /\ BlocksRise /\ ChoicesInv)
<1>1. ContentType /\ [Next]_vars => ContentType'
  BY ContentStep
<1>2. ContentType /\ CallsInv /\ [Next]_vars => CallsInv'
  BY CallsStep
<1>3. ContentType /\ TextIsTold /\ [Next]_vars => TextIsTold'
  BY TextStep
<1>4. ContentType /\ TextInOrder /\ [Next]_vars => TextInOrder'
  BY OrderStep
<1>5. ContentType /\ EndInv /\ [Next]_vars => EndInv'
  BY EndStep
<1>6. ContentType /\ BlocksRise /\ [Next]_vars => BlocksRise'
  BY BlocksStep
<1>7. ContentType /\ ChoicesInv /\ [Next]_vars => ChoicesInv'
  BY ChoicesStep
<1> QED
  BY Billed, InitContent, InitText, <1>1, <1>2, <1>3, <1>4, <1>5, <1>6, <1>7,
     PTL DEF Spec

(* Provider, translator and caller keep their types, and what the caller   *)
(* can tell apart by number comes in order, for any number of fragments    *)
(* and whatever the blocks' order.                                         *)
THEOREM TypeCorrect == Spec => []TypeOK
<1>1. WordsType /\ CountsType /\ ContentType /\ TextInOrder => TypeOK
  <2> SUFFICES ASSUME WordsType, CountsType, ContentType, TextInOrder
               PROVE  TypeOK
    OBVIOUS
  <2>1. /\ protocol \in { "anthropic", "gemini" }
        /\ phase \in { "before", "open", "stopped", "ended", "cut" }
        /\ reason \in AnthropicReasons \cup GeminiReasons \cup { "" }
        /\ stopReason \in AnthropicReasons \cup { "" }
        /\ finish \in { "", "stop", "length", "tool_calls", "content_filter" }
    BY DEF WordsType, Reasons, Finishes
  <2>2. ASSUME NEW i \in DOMAIN said
        PROVE  said[i].kind \in Kinds /\ said[i].parts \in Seq(1..MaxFragments)
    <3>1. said[i] \in Block
      BY TextFacts, ElementOfSeq DEF ContentType
    <3> QED
      BY <3>1 DEF Block
  <2>3. fragments \in 0..MaxFragments /\ toolCalls \in 0..MaxFragments
    BY TextFacts, TranslateAssumption DEF ContentType
  <2>4. promptTokens \in Nat /\ cachedTokens \in Nat
    BY DEF CountsType
  <2>5. \A i, j \in DOMAIN text : i < j => text[i].part < text[j].part
    BY DEF TextInOrder
  <2> QED
    BY <2>1, <2>2, <2>3, <2>4, <2>5 DEF TypeOK
<1> QED
  BY Answered, <1>1, PTL

-----------------------------------------------------------------------------
(* The text written: the spots of an answer have the ranks from 1 on.      *)

LEMMA SpotFacts ==
  ASSUME ContentType
  PROVE  /\ IsFiniteSet(Spots)
         /\ \A s \in Spots :
              /\ s[1] \in TextsAt /\ s[1] \in Nat
              /\ s[2] \in DOMAIN said[s[1]].parts /\ s[2] \in Nat
              /\ s = << s[1], s[2] >>
         /\ \A b \in TextsAt : \A p \in DOMAIN said[b].parts :
              /\ << b, p >> \in Spots
              /\ At(<< b, p >>) = said[b].parts[p]
<1>1. /\ TextsAt \in SUBSET (1..Len(said)) /\ Len(said) \in Nat
      /\ \A p \in 1..Len(said) : said[p].parts \in Seq(1..MaxFragments)
  BY TextFacts
<1>2. Spots = UNION { { b } \X DOMAIN said[b].parts : b \in TextsAt }
  BY DEF Spots, TextsAt
<1>3. ASSUME NEW b \in TextsAt
      PROVE  /\ IsFiniteSet({ b } \X DOMAIN said[b].parts)
             /\ DOMAIN said[b].parts \subseteq Nat
  <2>1. PICK parts \in Seq(1..MaxFragments) : parts = said[b].parts
    BY <1>1
  <2>2. DOMAIN parts = 1..Len(parts) /\ Len(parts) \in Nat
    BY LenProperties
  <2>3. IsFiniteSet(1..Len(parts))
    BY <2>2, FS_Interval
  <2>4. IsFiniteSet({ b })
    BY FS_Singleton
  <2>5. IsFiniteSet({ b } \X (1..Len(parts)))
    BY <2>3, <2>4, FS_Product
  <2> QED
    BY <2>1, <2>2, <2>5
<1>4. IsFiniteSet(Spots)
  <2> DEFINE U == { { b } \X DOMAIN said[b].parts : b \in TextsAt }
             f == [b \in TextsAt |-> { b } \X DOMAIN said[b].parts]
  <2>1. IsFiniteSet(TextsAt)
    BY KindPlaces DEF TextsAt, ContentType
  <2>2. f \in Surjection(TextsAt, U)
    <3>1. f \in [TextsAt -> U]
      OBVIOUS
    <3>2. \A u \in U : \E b \in TextsAt : f[b] = u
      OBVIOUS
    <3> HIDE DEF f, U
    <3> QED
      BY <3>1, <3>2, Fun_IsSurj
  <2>3. IsFiniteSet(U)
    <3> HIDE DEF f, U
    <3> QED
      BY <2>1, <2>2, FS_Surjection
  <2>4. \A u \in U : IsFiniteSet(u)
    BY <1>3
  <2>5. IsFiniteSet(UNION U)
    <3> HIDE DEF U
    <3> QED
      BY <2>3, <2>4, FS_UNION
  <2> QED
    BY <1>2, <2>5
<1>5. ASSUME NEW s \in Spots
      PROVE  /\ s[1] \in TextsAt /\ s[1] \in Nat
             /\ s[2] \in DOMAIN said[s[1]].parts /\ s[2] \in Nat
             /\ s = << s[1], s[2] >>
  <2>1. PICK b \in TextsAt : s \in { b } \X DOMAIN said[b].parts
    BY <1>2
  <2>2. s[1] = b /\ s[2] \in DOMAIN said[b].parts /\ s = << s[1], s[2] >>
    BY <2>1
  <2>3. b \in Nat
    BY <1>1
  <2> QED
    BY <1>3, <2>2, <2>3
<1>6. ASSUME NEW b \in TextsAt, NEW p \in DOMAIN said[b].parts
      PROVE  << b, p >> \in Spots /\ At(<< b, p >>) = said[b].parts[p]
  <2>1. << b, p >> \in { b } \X DOMAIN said[b].parts
    OBVIOUS
  <2>2. << b, p >> \in Spots
    BY <1>2, <2>1
  <2>3. << b, p >>[1] = b /\ << b, p >>[2] = p
    OBVIOUS
  <2> QED
    BY <2>2, <2>3 DEF At
<1> QED
  BY <1>4, <1>5, <1>6

LEMMA SpotsInLine ==
  ASSUME ContentType, NEW s \in Spots, NEW t \in Spots
  PROVE  /\ s # t => Precedes(s, t) \/ Precedes(t, s)
         /\ ~ Precedes(s, s)
         /\ Precedes(s, t) => ~ Precedes(t, s)
         /\ \A u \in Spots : Precedes(s, t) /\ Precedes(t, u) => Precedes(s, u)
<1>1. \A u \in Spots : u[1] \in Nat /\ u[2] \in Nat /\ u = << u[1], u[2] >>
  BY SpotFacts
<1> QED
  BY <1>1 DEF Precedes

LEMMA SpotRankRises ==
  ASSUME ContentType, NEW s \in Spots, NEW t \in Spots
  PROVE  /\ SpotRank(s) \in 1..Cardinality(Spots)
         /\ Precedes(s, t) => SpotRank(s) < SpotRank(t)
<1> DEFINE U(x) == { u \in Spots : ~ Precedes(x, u) }
<1>1. IsFiniteSet(Spots) /\ Cardinality(Spots) \in Nat
  BY SpotFacts, FS_CardinalityType
<1>2. ASSUME NEW x \in Spots
      PROVE  /\ IsFiniteSet(U(x)) /\ Cardinality(U(x)) \in Nat
             /\ Cardinality(U(x)) <= Cardinality(Spots)
             /\ SpotRank(x) = Cardinality(U(x))
  <2>1. U(x) \in SUBSET Spots
    OBVIOUS
  <2>2. SpotRank(x) = Cardinality(U(x))
    BY DEF SpotRank
  <2> HIDE DEF U
  <2> QED
    BY <1>1, <2>1, <2>2, FS_Subset, FS_CardinalityType
<1>3. s \in U(s)
  BY SpotsInLine
<1>4. SpotRank(s) # 0
  <2> HIDE DEF U
  <2> QED
    BY <1>2, <1>3, FS_EmptySet
<1>5. SpotRank(s) \in 1..Cardinality(Spots)
  <2>1. PICK r : r = SpotRank(s)
    OBVIOUS
  <2>2. r \in Nat /\ r <= Cardinality(Spots) /\ r # 0
    BY <1>2, <1>4, <2>1
  <2>3. r \in 1..Cardinality(Spots)
    BY <1>1, <2>2
  <2> QED
    BY <2>1, <2>3
<1>6. ASSUME Precedes(s, t) PROVE SpotRank(s) < SpotRank(t)
  <2>1. ASSUME NEW u \in Spots, ~ Precedes(s, u) PROVE ~ Precedes(t, u)
    BY <1>6, <2>1, SpotsInLine
  <2>2. U(s) \in SUBSET U(t)
    BY <2>1
  <2>3. t \in U(t) /\ t \notin U(s)
    BY <1>6, SpotsInLine
  <2> HIDE DEF U
  <2>4. U(s) # U(t)
    BY <2>3
  <2>5. /\ Cardinality(U(s)) <= Cardinality(U(t))
        /\ Cardinality(U(s)) # Cardinality(U(t))
    BY <1>2, <2>2, <2>4, FS_Subset
  <2> QED
    BY <1>2, <2>5
<1> QED
  BY <1>5, <1>6

LEMMA SpotRanksAreTaken ==
  ASSUME ContentType, NEW k \in 1..Cardinality(Spots)
  PROVE  \E s \in Spots : SpotRank(s) = k
<1> DEFINE T == 1..Cardinality(Spots)
           rank == [s \in Spots |-> SpotRank(s)]
<1>1. IsFiniteSet(Spots) /\ Cardinality(Spots) \in Nat
  BY SpotFacts, FS_CardinalityType
<1>2. IsFiniteSet(T) /\ Cardinality(T) = Cardinality(Spots)
  BY <1>1, FS_Interval
<1>3. rank \in [Spots -> T]
  BY SpotRankRises
<1>4. \A s, t \in Spots : rank[s] = rank[t] => s = t
  <2> SUFFICES ASSUME NEW s \in Spots, NEW t \in Spots, s # t
               PROVE  SpotRank(s) # SpotRank(t)
    OBVIOUS
  <2>1. Precedes(s, t) \/ Precedes(t, s)
    BY SpotsInLine
  <2>2. SpotRank(s) \in Int /\ SpotRank(t) \in Int
    BY SpotRankRises
  <2>3. Precedes(s, t) => SpotRank(s) < SpotRank(t)
    BY SpotRankRises
  <2>4. Precedes(t, s) => SpotRank(t) < SpotRank(s)
    BY SpotRankRises
  <2> QED
    BY <2>1, <2>2, <2>3, <2>4
<1> HIDE DEF T, rank
<1>5. rank \in Injection(Spots, T)
  BY <1>3, <1>4, Fun_IsInj
<1>6. rank \in Surjection(Spots, T)
  BY <1>2, <1>5, FS_Injection
<1>7. \A t \in T : \E s \in Spots : rank[s] = t
  BY <1>6, Fun_SurjectionProperties
<1> QED
  BY <1>7 DEF T, rank

SpotOf(k) == CHOOSE spot \in Spots : SpotRank(spot) = k

LEMMA WrittenIs ==
  ASSUME ContentType
  PROVE  /\ Cardinality(Spots) \in Nat
         /\ Written = [k \in 1..Cardinality(Spots) |-> At(SpotOf(k))]
         /\ \A k \in 1..Cardinality(Spots) :
              SpotOf(k) \in Spots /\ SpotRank(SpotOf(k)) = k
         /\ \A s \in Spots :
              \E k \in 1..Cardinality(Spots) : SpotOf(k) = s
<1>1. Cardinality(Spots) \in Nat
  BY SpotFacts, FS_CardinalityType
<1>2. Written = [k \in 1..Cardinality(Spots) |-> At(SpotOf(k))]
  BY DEF Written, SpotOf
<1>3. ASSUME NEW k \in 1..Cardinality(Spots)
      PROVE  SpotOf(k) \in Spots /\ SpotRank(SpotOf(k)) = k
  <2>1. \E s \in Spots : SpotRank(s) = k
    BY SpotRanksAreTaken
  <2> QED
    BY <2>1, Zenon DEF SpotOf
<1>4. ASSUME NEW s \in Spots
      PROVE  \E k \in 1..Cardinality(Spots) : SpotOf(k) = s
  <2>1. PICK k \in 1..Cardinality(Spots) : k = SpotRank(s)
    BY SpotRankRises
  <2>2. PICK t \in Spots : t = SpotOf(k) /\ SpotRank(t) = k
    BY <1>3
  <2>3. Precedes(s, t) => SpotRank(s) < SpotRank(t)
    BY SpotRankRises
  <2>4. Precedes(t, s) => SpotRank(t) < SpotRank(s)
    BY SpotRankRises
  <2>5. s = t
    BY <2>1, <2>2, <2>3, <2>4, SpotsInLine
  <2> QED
    BY <2>2, <2>5
<1> QED
  BY <1>1, <1>2, <1>3, <1>4

(* The text told and the text meant have the same fragments.               *)
LEMMA SameText ==
  ASSUME ContentType, TextIsTold
  PROVE  { text[i].part : i \in DOMAIN text } = Range(Written)
<1>1. DOMAIN Written = 1..Cardinality(Spots)
  BY WrittenIs
<1>2. Range(Written) = { At(s) : s \in Spots }
  BY <1>1, WrittenIs DEF Range
<1>3. ASSUME NEW n PROVE Meant(n) <=> \E s \in Spots : At(s) = n
  <2>1. ASSUME NEW s \in Spots, At(s) = n PROVE Meant(n)
    <3>1. s[1] \in TextsAt /\ s[2] \in DOMAIN said[s[1]].parts
      BY SpotFacts
    <3> QED
      BY <2>1, <3>1 DEF At, Meant, Has
  <2>2. ASSUME Meant(n) PROVE \E s \in Spots : At(s) = n
    <3>0. PICK b \in TextsAt : Has(said[b].parts, n)
      BY <2>2 DEF Meant
    <3>1. PICK p \in DOMAIN said[b].parts : said[b].parts[p] = n
      BY <3>0 DEF Has
    <3>2. << b, p >> \in Spots /\ At(<< b, p >>) = said[b].parts[p]
      BY <3>1, SpotFacts
    <3> QED
      BY <3>1, <3>2
  <2> QED
    BY <2>1, <2>2
<1>4. ASSUME NEW n
      PROVE  n \in { text[i].part : i \in DOMAIN text } <=> Told(n)
  BY DEF Told, Tells
<1>5. ASSUME NEW n
      PROVE  n \in { text[i].part : i \in DOMAIN text } <=> n \in Range(Written)
  BY <1>2, <1>3, <1>4 DEF TextIsTold
<1> QED
  BY <1>5

(* A rising sequence numbers its own numbers.                              *)
Rising(f, n) ==
  f \in [1..n -> Int] /\ \A i, j \in 1..n : i < j => f[i] < f[j]

Lists(f, n, N) == \A x : x \in N <=> \E i \in 1..n : x = f[i]

LEMMA RisingIsNth ==
  ASSUME NEW n \in Nat, NEW f, NEW N, Rising(f, n), Lists(f, n, N)
  PROVE  /\ N \in SUBSET Int /\ IsFiniteSet(N) /\ Cardinality(N) = n
         /\ \A k \in 1..n : Nth(k, N) = f[k]
<1>0. /\ f \in [1..n -> Int] /\ \A i, j \in 1..n : i < j => f[i] < f[j]
      /\ \A x : x \in N <=> \E i \in 1..n : x = f[i]
  BY DEF Rising, Lists
<1>1. ASSUME NEW m \in 0..n
      PROVE  /\ IsFiniteSet({ f[i] : i \in 1..m })
             /\ Cardinality({ f[i] : i \in 1..m }) = m
  <2> DEFINE T == { f[i] : i \in 1..m }
             g == [i \in 1..m |-> f[i]]
  <2>1. IsFiniteSet(1..m) /\ Cardinality(1..m) = m
    BY FS_Interval
  <2>2. g \in [1..m -> T]
    OBVIOUS
  <2>3. \A t \in T : \E i \in 1..m : g[i] = t
    OBVIOUS
  <2>4. \A i, j \in 1..m : g[i] = g[j] => i = j
    <3> SUFFICES ASSUME NEW i \in 1..m, NEW j \in 1..m, i # j
                 PROVE  f[i] # f[j]
      OBVIOUS
    <3>1. i \in 1..n /\ j \in 1..n
      OBVIOUS
    <3>2. f[i] \in Int /\ f[j] \in Int
      BY <1>0, <3>1
    <3>3. f[i] < f[j] \/ f[j] < f[i]
      BY <1>0, <3>1
    <3> QED
      BY <3>2, <3>3
  <2> HIDE DEF T, g
  <2>5. g \in Surjection(1..m, T) /\ g \in Injection(1..m, T)
    BY <2>2, <2>3, <2>4, Fun_IsInj, Fun_IsSurj
  <2>6. IsFiniteSet(T) /\ Cardinality(T) = Cardinality(1..m)
    BY <2>1, <2>5, FS_Surjection
  <2> QED
    BY <2>1, <2>6 DEF T
<1>2. n \in 0..n /\ N = { f[i] : i \in 1..n }
  BY <1>0
<1>3. N \in SUBSET Int /\ IsFiniteSet(N) /\ Cardinality(N) = n
  BY <1>0, <1>1, <1>2
<1>4. ASSUME NEW k \in 1..n PROVE Nth(k, N) = f[k]
  <2>1. ASSUME NEW i \in 1..n PROVE f[i] <= f[k] <=> i <= k
    <3>1. f[i] \in Int /\ f[k] \in Int
      BY <1>0
    <3>2. i < k => f[i] < f[k]
      BY <1>0
    <3>3. k < i => f[k] < f[i]
      BY <1>0
    <3>4. i < k \/ i = k \/ k < i
      OBVIOUS
    <3> QED
      BY <3>1, <3>2, <3>3, <3>4
  <2>2. { j \in N : j <= f[k] } = { f[i] : i \in 1..k }
    <3>1. \A i \in 1..k : i \in 1..n /\ i <= k
      OBVIOUS
    <3>2. \A i \in 1..n : i <= k => i \in 1..k
      OBVIOUS
    <3> QED
      BY <1>2, <2>1, <3>1, <3>2
  <2>3. k \in 0..n
    OBVIOUS
  <2>4. Rank(f[k], N) = k
    BY <1>1, <2>2, <2>3 DEF Rank
  <2>5. PICK x \in N : x = f[k]
    BY <1>2
  <2>6. k \in 1..Cardinality(N)
    BY <1>3
  <2>7. Nth(k, N) = x
    BY <1>3, <2>4, <2>5, <2>6, NthOnly
  <2> QED
    BY <2>5, <2>7
<1> QED
  BY <1>3, <1>4

(* The fragments written rise where Gemini writes or all stand in block 0. *)
LEMMA WrittenRises ==
  ASSUME ContentType, WordsType, BlocksRise, TextInBlockZero
  PROVE  Rising(Written, Cardinality(Spots))
<1> DEFINE n == Cardinality(Spots)
<1>1. /\ n \in Nat
      /\ Written = [k \in 1..n |-> At(SpotOf(k))]
      /\ \A k \in 1..n : SpotOf(k) \in Spots /\ SpotRank(SpotOf(k)) = k
  BY WrittenIs
<1>2. /\ TextsAt \in SUBSET (1..Len(said)) /\ DOMAIN said = 1..Len(said)
      /\ \A p \in 1..Len(said) : said[p].parts \in Seq(1..MaxFragments)
  BY TextFacts
<1>3. ASSUME NEW s \in Spots PROVE At(s) \in Int
  <2>1. s[1] \in TextsAt /\ s[2] \in DOMAIN said[s[1]].parts
    BY SpotFacts
  <2>2. PICK parts \in Seq(1..MaxFragments) : parts = said[s[1]].parts
    BY <1>2, <2>1
  <2>3. parts[s[2]] \in 1..MaxFragments
    BY <2>1, <2>2, LenProperties, ElementOfSeq
  <2> QED
    BY <2>2, <2>3, TranslateAssumption DEF At
<1>4. ASSUME NEW s \in Spots, NEW t \in Spots, Precedes(s, t)
      PROVE  At(s) < At(t)
  <2>1. /\ s[1] \in TextsAt /\ s[2] \in DOMAIN said[s[1]].parts
        /\ t[1] \in TextsAt /\ t[2] \in DOMAIN said[t[1]].parts
        /\ s[1] \in Nat /\ t[1] \in Nat
    BY SpotFacts
  <2>2. s[1] \in DOMAIN said /\ t[1] \in DOMAIN said
    BY <1>2, <2>1
  <2>3. CASE s[1] = t[1] /\ s[2] < t[2]
    <3>1. RisesTo(said[s[1]].parts, fragments)
      BY <2>2 DEF BlocksRise
    <3> QED
      BY <2>1, <2>3, <3>1 DEF RisesTo, At
  <2>4. CASE s[1] < t[1]
    <3>1. protocol = "gemini"
      <4>1. ASSUME protocol = "anthropic" PROVE FALSE
        <5>1. ASSUME NEW u \in Spots PROVE u[1] = 1
          <6>1. u[1] \in TextsAt /\ u[2] \in DOMAIN said[u[1]].parts
            BY SpotFacts
          <6>2. said[u[1]].parts # << >>
            BY <6>1
          <6> QED
            BY <4>1, <6>1, <6>2 DEF TextInBlockZero, TextsAt
        <5>2. s[1] = 1 /\ t[1] = 1
          BY <5>1
        <5> QED
          BY <2>4, <5>2
      <4> QED
        BY <4>1 DEF WordsType
    <3> QED
      BY <2>1, <2>2, <2>4, <3>1 DEF BlocksRise, At
  <2> QED
    BY <1>4, <2>3, <2>4 DEF Precedes
<1>5. Written \in [1..n -> Int]
  BY <1>1, <1>3
<1>6. ASSUME NEW i \in 1..n, NEW j \in 1..n, i < j
      PROVE  Written[i] < Written[j]
  <2>1. PICK s \in Spots : s = SpotOf(i) /\ SpotRank(s) = i
    BY <1>1
  <2>2. PICK t \in Spots : t = SpotOf(j) /\ SpotRank(t) = j
    BY <1>1
  <2>3. Precedes(t, s) => j < i
    BY <2>1, <2>2, SpotRankRises
  <2>4. s # t
    BY <1>6, <2>1, <2>2
  <2>5. Precedes(s, t)
    BY <1>6, <2>3, <2>4, SpotsInLine
  <2>6. At(s) < At(t)
    BY <1>4, <2>5
  <2> QED
    BY <1>1, <2>1, <2>2, <2>6
<1> QED
  BY <1>5, <1>6 DEF Rising

(* Then the text of choice 0 is the text written.                          *)
LEMMA SameTextInOrder ==
  ASSUME ContentType, WordsType, TextIsTold, TextInOrder, BlocksRise,
         ChoicesInv, TextInBlockZero
  PROVE  TextOf(0) = Written
<1> DEFINE T == [i \in DOMAIN text |-> text[i].part]
<1>1. PICK a \in Nat : a = Len(text)
  BY TextFacts
<1>2. PICK n \in Nat : n = Cardinality(Spots)
  BY WrittenIs
<1>3. /\ DOMAIN text = 1..a
      /\ \A i \in 1..a : text[i].part \in Int
  BY <1>1, TextFacts, TranslateAssumption
<1>4. Rising(T, a)
  BY <1>3 DEF TextInOrder, Rising
<1>5. ASSUME NEW i \in 1..a PROVE text[i].choice = 0
  <2>1. ChoiceOf(text[i])
    BY <1>3 DEF ChoicesInv
  <2>2. text[i].choice \in Nat
    <3>1. text[i] \in Fragment
      BY <1>1, ElementOfSeq DEF ContentType
    <3> QED
      BY <3>1 DEF Fragment
  <2>3. ASSUME /\ protocol = "anthropic" /\ text[i].choice + 1 \in TextsAt
               /\ said[text[i].choice + 1].parts # << >>
        PROVE  text[i].choice = 0
    <3>1. text[i].choice + 1 = 1
      BY <2>3 DEF TextInBlockZero, TextsAt
    <3> QED
      BY <2>2, <3>1
  <2> QED
    BY <2>1, <2>3 DEF ChoiceOf
<1>6. { i \in DOMAIN text : text[i].choice = 0 } = 1..a
  BY <1>3, <1>5
<1>7. Cardinality(1..a) = a /\ \A k \in 1..a : Nth(k, 1..a) = k
  <2> DEFINE id == [i \in 1..a |-> i]
  <2>1. Rising(id, a)
    BY DEF Rising
  <2>2. Lists(id, a, 1..a)
    BY DEF Lists
  <2>3. \A k \in 1..a : id[k] = k
    OBVIOUS
  <2> HIDE DEF id
  <2>4. PICK N : N = 1..a
    OBVIOUS
  <2>5. Cardinality(N) = a /\ \A k \in 1..a : Nth(k, N) = id[k]
    BY <2>1, <2>2, <2>4, RisingIsNth
  <2> QED
    BY <2>3, <2>4, <2>5
<1>8. TextOf(0) = [k \in 1..a |-> T[k]]
  <2>1. TextOf(0) = InOrder(T, 1..a)
    BY <1>6 DEF TextOf
  <2> HIDE DEF T
  <2> QED
    BY <1>7, <2>1 DEF InOrder
<1>9. PICK N : Lists(T, a, N)
  <2>1. Lists(T, a, { T[i] : i \in 1..a })
    BY DEF Lists
  <2> QED
    BY <2>1
<1>10. N = Range(Written)
  <2>1. \A x : x \in N <=> x \in { text[i].part : i \in DOMAIN text }
    BY <1>3, <1>9 DEF Lists
  <2> QED
    BY <2>1, SameText
<1>11. Rising(Written, n)
  BY <1>2, WrittenRises
<1>12. Lists(Written, n, N)
  BY <1>10, <1>11 DEF Range, Rising, Lists
<1> HIDE DEF T
<1>13. Cardinality(N) = a /\ \A k \in 1..a : Nth(k, N) = T[k]
  BY <1>4, <1>9, RisingIsNth
<1>14. Cardinality(N) = n /\ \A k \in 1..n : Nth(k, N) = Written[k]
  BY <1>11, <1>12, RisingIsNth
<1>15. Written = [k \in 1..a |-> T[k]]
  <2>1. a = n /\ \A k \in 1..a : Written[k] = T[k]
    BY <1>13, <1>14
  <2> QED
    BY <1>11, <2>1 DEF Rising
<1> QED
  BY <1>8, <1>15

(* The calls told are the buffered ones, save for arguments that are none. *)
LEMMA SameCalls ==
  ASSUME ContentType, CallsInv
  PROVE  /\ Buffered.calls = [i \in DOMAIN calls |-> Arguments(calls[i])]
         /\ toolCalls > 0 <=> Parts(OfKind("tool", said)) # << >>
<1>1. PICK F \in Seq(Block) : F = OfKind("tool", said)
  BY ToolsFacts
<1>2. PICK c \in Nat : c = Len(F)
  BY LenProperties
<1>3. DOMAIN F = 1..c
  BY <1>2, LenProperties
<1>4. PICK tools : tools = Parts(F)
  OBVIOUS
<1>5. tools = [i \in 1..c |-> F[i].parts]
  BY <1>3, <1>4 DEF Parts
<1>6. tools \in Seq(Seq(1..MaxFragments)) /\ Len(tools) = c
  <2>1. ASSUME NEW i \in 1..c PROVE F[i].parts \in Seq(1..MaxFragments)
    <3>1. F[i] \in Block
      BY <1>2, ElementOfSeq
    <3> QED
      BY <3>1 DEF Block
  <2>2. tools \in [1..c -> Seq(1..MaxFragments)]
    BY <1>5, <2>1
  <2>3. tools \in Seq(Seq(1..MaxFragments))
    BY <2>2, SeqDef
  <2>4. 1..Len(tools) = 1..c /\ Len(tools) \in Nat
    BY <2>2, <2>3, LenProperties
  <2> QED
    BY <2>3, <2>4
<1>7. calls = [i \in 0..(c - 1) |-> F[i + 1].parts]
  BY <1>1, <1>2 DEF CallsInv, CallsArriveWhole
<1>8. Buffered.calls =
        [i \in 0..(Len(tools) - 1) |-> Arguments(tools[i + 1])]
  BY <1>1, <1>4 DEF Buffered
<1>9. ASSUME NEW i \in 0..(c - 1)
      PROVE  tools[i + 1] = calls[i]
  <2>1. i + 1 \in 1..c
    OBVIOUS
  <2> QED
    BY <1>5, <1>7, <2>1
<1>10. Buffered.calls = [i \in DOMAIN calls |-> Arguments(calls[i])]
  <2>1. DOMAIN calls = 0..(c - 1)
    BY <1>7
  <2>2. Buffered.calls = [i \in 0..(c - 1) |-> Arguments(tools[i + 1])]
    BY <1>6, <1>8
  <2>3. Buffered.calls = [i \in 0..(c - 1) |-> Arguments(calls[i])]
    BY <1>9, <2>2
  <2> QED
    BY <2>1, <2>3
<1>11. toolCalls = c
  BY <1>1, <1>2, ToolsFacts DEF CallsInv
<1>12. tools # << >> <=> c > 0
  BY <1>2, <1>6, EmptySeq
<1> QED
  BY <1>1, <1>4, <1>10, <1>11, <1>12

(* For any stream that ends, however its fragments and tool calls come,    *)
(* the caller has the finish reason and the tool calls of the same answer  *)
(* without streaming, save that a call without arguments has none instead  *)
(* of {}; it has every fragment of the text, and where Gemini writes it or *)
(* Anthropic's stands in block 0, choice 0 has the same text in the same   *)
(* order (anthropic.go:590-650, 811-985; gemini.go:655-742, 749-885).      *)
THEOREM StreamedIsBuffered == Spec => []StreamedAsBuffered
<1>1. /\ WordsType /\ ContentType /\ CallsInv /\ TextIsTold /\ TextInOrder
      /\ EndInv /\ BlocksRise /\ ChoicesInv
      => StreamedAsBuffered
  <2> SUFFICES ASSUME WordsType, ContentType, CallsInv, TextIsTold,
                      TextInOrder, EndInv, BlocksRise, ChoicesInv,
                      phase = "ended"
               PROVE  /\ finish = Buffered.finish
                      /\ Buffered.calls =
                           [i \in DOMAIN calls |-> Arguments(calls[i])]
                      /\ { text[i].part : i \in DOMAIN text }
                           = Range(Buffered.text)
                      /\ TextInBlockZero => TextOf(0) = Buffered.text
    BY DEF StreamedAsBuffered
  <2>1. /\ Buffered.calls = [i \in DOMAIN calls |-> Arguments(calls[i])]
        /\ toolCalls > 0 <=> Parts(OfKind("tool", said)) # << >>
    BY SameCalls
  <2>2. finish = Buffered.finish
    <3>1. finish = Upgraded(reason, toolCalls > 0)
      BY DEF EndInv
    <3>2. Upgraded(reason, toolCalls > 0) =
            Upgraded(reason, Parts(OfKind("tool", said)) # << >>)
      BY <2>1 DEF Upgraded
    <3> QED
      BY <3>1, <3>2 DEF Buffered
  <2>3. Buffered.text = Written
    BY DEF Buffered
  <2>4. { text[i].part : i \in DOMAIN text } = Range(Buffered.text)
    BY <2>3, SameText
  <2>5. TextInBlockZero => TextOf(0) = Buffered.text
    BY <2>3, SameTextInOrder
  <2> QED
    BY <2>1, <2>2, <2>4, <2>5
<1> QED
  BY Answered, <1>1, PTL
=============================================================================
