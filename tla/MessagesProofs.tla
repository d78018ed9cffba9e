----------------------------- MODULE MessagesProofs -----------------------------
(***************************************************************************)
(* Theorems about Messages, for conversations of any length, any messages  *)
(* and any settings.                                                       *)
(***************************************************************************)
EXTENDS Messages, FiniteSetTheorems, FunctionTheorems, SequenceTheorems, TLAPS

-----------------------------------------------------------------------------
(* Places and their ranks, as in TranslateProofs.                          *)

LEMMA UpToFinite ==
  ASSUME NEW S, IsFiniteSet(S), NEW i
  PROVE  /\ IsFiniteSet({ j \in S : j <= i })
         /\ Rank(i, S) \in Nat /\ Rank(i, S) <= Cardinality(S)
<1>1. { j \in S : j <= i } \in SUBSET S
  OBVIOUS
<1>2. IsFiniteSet({ j \in S : j <= i })
  BY <1>1, FS_Subset
<1>3. Cardinality({ j \in S : j <= i }) <= Cardinality(S)
  BY <1>1, FS_Subset
<1>4. Cardinality({ j \in S : j <= i }) \in Nat
  BY <1>2, FS_CardinalityType
<1> QED
  BY <1>2, <1>3, <1>4 DEF Rank

(* A later place of a kind has a higher rank.                              *)
LEMMA RankRises ==
  ASSUME NEW S \in SUBSET Int, IsFiniteSet(S), NEW i \in S, NEW j \in S, i < j
  PROVE  Rank(i, S) < Rank(j, S)
<1> DEFINE I == { k \in S : k <= i }
           J == { k \in S : k <= j }
<1>0. i \in Int /\ j \in Int
  OBVIOUS
<1>1. I \in SUBSET J /\ I # J
  <2>1. j \in J /\ j \notin I
    BY <1>0
  <2>2. ASSUME NEW k \in S, k <= i PROVE k <= j
    <3>1. k \in Int
      OBVIOUS
    <3> QED
      BY <1>0, <2>2, <3>1
  <2>3. I \subseteq J
    BY <2>2
  <2> HIDE DEF I, J
  <2> QED
    BY <2>1, <2>3
<1>2. IsFiniteSet(J) /\ IsFiniteSet(I)
  BY UpToFinite
<1>3. Cardinality(I) <= Cardinality(J) /\ Cardinality(I) # Cardinality(J)
  <2> HIDE DEF I, J
  <2> QED
    BY <1>1, <1>2, FS_Subset
<1>4. Cardinality(I) \in Nat /\ Cardinality(J) \in Nat
  <2> HIDE DEF I, J
  <2> QED
    BY <1>2, FS_CardinalityType
<1>5. Cardinality(I) < Cardinality(J)
  <2> HIDE DEF I, J
  <2> QED
    BY <1>3, <1>4
<1> QED
  BY <1>5 DEF Rank

LEMMA RankPositive ==
  ASSUME NEW S \in SUBSET Int, IsFiniteSet(S), NEW i \in S
  PROVE  Rank(i, S) \in 1..Cardinality(S)
<1> DEFINE I == { k \in S : k <= i }
<1>1. I # {}
  OBVIOUS
<1>2. IsFiniteSet(I)
  BY UpToFinite
<1>3. Cardinality(I) # 0
  <2> HIDE DEF I
  <2> QED
    BY <1>1, <1>2, FS_EmptySet
<1>4. Rank(i, S) # 0
  BY <1>3 DEF Rank
<1>5. Rank(i, S) \in Nat /\ Rank(i, S) <= Cardinality(S)
  BY UpToFinite
<1>6. Cardinality(S) \in Nat
  BY FS_CardinalityType
<1> QED
  BY <1>4, <1>5, <1>6

(* Every rank is taken: the ranks of n places are n different ones of      *)
(* 1..n.                                                                   *)
LEMMA RanksAreTaken ==
  ASSUME NEW S \in SUBSET Int, IsFiniteSet(S), NEW k \in 1..Cardinality(S)
  PROVE  \E i \in S : Rank(i, S) = k
<1> DEFINE T == 1..Cardinality(S)
           rank == [i \in S |-> Rank(i, S)]
<1>1. Cardinality(S) \in Nat
  BY FS_CardinalityType
<1>2. IsFiniteSet(T) /\ Cardinality(T) = Cardinality(S)
  BY <1>1, FS_Interval
<1>3. rank \in [S -> T]
  BY RankPositive
<1>4. \A i, j \in S : rank[i] = rank[j] => i = j
  <2> SUFFICES ASSUME NEW i \in S, NEW j \in S, i # j
               PROVE  Rank(i, S) # Rank(j, S)
    OBVIOUS
  <2>0. i \in Int /\ j \in Int
    OBVIOUS
  <2>1. Rank(i, S) \in Nat /\ Rank(j, S) \in Nat
    BY UpToFinite
  <2>2. i < j \/ j < i
    BY <2>0
  <2>3. ASSUME i < j PROVE Rank(i, S) < Rank(j, S)
    BY <2>3, RankRises
  <2>4. ASSUME j < i PROVE Rank(j, S) < Rank(i, S)
    BY <2>4, RankRises
  <2> QED
    BY <2>1, <2>2, <2>3, <2>4
<1>5. rank \in Injection(S, T)
  <2> HIDE DEF rank, T
  <2> QED
    BY <1>3, <1>4, Fun_IsInj
<1>6. rank \in Surjection(S, T)
  <2> HIDE DEF rank, T
  <2> QED
    BY <1>2, <1>5, FS_Injection
<1>7. \E i \in S : rank[i] = k
  <2> HIDE DEF rank, T
  <2>1. \A t \in T : \E i \in S : rank[i] = t
    BY <1>6, Fun_SurjectionProperties
  <2> QED
    BY <2>1 DEF T
<1> QED
  BY <1>7

LEMMA NthIs ==
  ASSUME NEW S \in SUBSET Int, IsFiniteSet(S), NEW k \in 1..Cardinality(S)
  PROVE  Nth(k, S) \in S /\ Rank(Nth(k, S), S) = k
<1>1. \E i \in S : Rank(i, S) = k
  BY RanksAreTaken
<1> QED
  BY <1>1, Zenon DEF Nth

(* The place of a rank is the only one.                                    *)
LEMMA NthOnly ==
  ASSUME NEW S \in SUBSET Int, IsFiniteSet(S), NEW i \in S,
         NEW k \in 1..Cardinality(S), Rank(i, S) = k
  PROVE  Nth(k, S) = i
<1> DEFINE n == Nth(k, S)
<1>1. n \in S /\ Rank(n, S) = k
  BY NthIs
<1>2. Rank(i, S) \in Nat
  BY UpToFinite
<1> HIDE DEF n
<1>3. n \in Int /\ i \in Int
  BY <1>1
<1>4. ASSUME i < n PROVE Rank(i, S) < Rank(n, S)
  BY <1>1, <1>4, RankRises
<1>5. ASSUME n < i PROVE Rank(n, S) < Rank(i, S)
  BY <1>1, <1>5, RankRises
<1>6. n = i
  BY <1>1, <1>2, <1>3, <1>4, <1>5
<1> QED
  BY <1>6 DEF n

LEMMA NthRises ==
  ASSUME NEW S \in SUBSET Int, IsFiniteSet(S),
         NEW k \in 1..Cardinality(S), NEW m \in 1..Cardinality(S), k < m
  PROVE  Nth(k, S) < Nth(m, S)
<1> DEFINE i == Nth(k, S)
           j == Nth(m, S)
<1>1. /\ i \in S /\ Rank(i, S) = k
      /\ j \in S /\ Rank(j, S) = m
  BY NthIs
<1>2. Cardinality(S) \in Nat
  BY FS_CardinalityType
<1> HIDE DEF i, j
<1>3. i \in Int /\ j \in Int
  BY <1>1
<1>4. ASSUME j < i PROVE Rank(j, S) < Rank(i, S)
  BY <1>1, <1>4, RankRises
<1>5. i < j
  BY <1>1, <1>2, <1>3, <1>4
<1> QED
  BY <1>5 DEF i, j


(* There is a last one of some places.                                     *)
LEMMA LastPlace ==
  ASSUME NEW n \in Nat, NEW S \in SUBSET (1..n), S # {}
  PROVE  \E m \in S : \A k \in S : k <= m
<1>1. IsFiniteSet(1..n)
  BY FS_Interval
<1>2. IsFiniteSet(S) /\ S \in SUBSET Int
  <2>1. S \in SUBSET Int
    OBVIOUS
  <2> QED
    BY <1>1, <2>1, FS_Subset
<1>3. PICK c \in Nat : c = Cardinality(S)
  BY <1>2, FS_CardinalityType
<1>4. c # 0
  BY <1>2, <1>3, FS_EmptySet
<1>5. c \in 1..Cardinality(S)
  BY <1>3, <1>4
<1>6. PICK m \in S : Rank(m, S) = c
  BY <1>2, <1>5, RanksAreTaken
<1>7. ASSUME NEW k \in S PROVE k <= m
  <2>1. ASSUME m < k PROVE FALSE
    <3>1. Rank(m, S) < Rank(k, S)
      BY <1>2, <2>1, RankRises
    <3>2. Rank(k, S) \in 1..Cardinality(S)
      BY <1>2, RankPositive
    <3> QED
      BY <1>3, <1>6, <3>1, <3>2
  <2>2. k \in Int /\ m \in Int
    BY <1>2
  <2> QED
    BY <2>1, <2>2
<1> QED
  BY <1>7

-----------------------------------------------------------------------------
(* Types.                                                                  *)

PartKinds == Kinds \cup { "call", "result" }
(* Names and ids; the provers have to be told of a literal that it is one. *)
Words == STRING \cup { "", "function" }
PartRec == [kind : PartKinds, place : Nat \X Nat, id : Words, name : Words]
Turn == [role : { "assistant", "user" }, parts : Seq(PartRec)]

ShapeInv ==
  /\ protocol \in { "anthropic", "gemini" }
  /\ conversation \in Seq(Messages) /\ Len(conversation) <= MaxMessages
  /\ taken \in -1..Len(conversation)
  /\ system \in Seq(1..MaxMessages)
  /\ turns \in Seq(Turn)

LEMMA MessageType ==
  ASSUME NEW m \in Messages
  PROVE  /\ m.role \in Roles /\ m.id \in STRING /\ m.name \in STRING
         /\ m.content \in Seq(Kinds) /\ Len(m.content) \in Nat
         /\ DOMAIN m.content = 1..Len(m.content)
         /\ m.calls \in Seq(Calls) /\ Len(m.calls) \in Nat
         /\ DOMAIN m.calls = 1..Len(m.calls)
         /\ \A j \in 1..Len(m.content) : m.content[j] \in Kinds
         /\ \A j \in 1..Len(m.calls) :
              m.calls[j].id \in STRING /\ m.calls[j].name \in STRING
<1>1. m \in [role : Roles, content : Seq(Kinds), calls : Seq(Calls),
             id : STRING, name : STRING]
  BY MessagesAssumption
<1>2. /\ m.role \in Roles /\ m.id \in STRING /\ m.name \in STRING
      /\ m.content \in Seq(Kinds) /\ m.calls \in Seq(Calls)
  BY <1>1
<1>3. /\ Len(m.content) \in Nat /\ DOMAIN m.content = 1..Len(m.content)
      /\ Len(m.calls) \in Nat /\ DOMAIN m.calls = 1..Len(m.calls)
  BY <1>2, LenProperties
<1>4. ASSUME NEW j \in 1..Len(m.content) PROVE m.content[j] \in Kinds
  BY <1>2, ElementOfSeq
<1>5. ASSUME NEW j \in 1..Len(m.calls)
      PROVE  m.calls[j].id \in STRING /\ m.calls[j].name \in STRING
  <2>1. m.calls[j] \in Calls
    BY <1>2, ElementOfSeq
  <2> QED
    BY <2>1 DEF Calls
<1> QED
  BY <1>2, <1>3, <1>4, <1>5

-----------------------------------------------------------------------------
(* The parts a message is sent as.                                         *)

LEMMA KeptFacts ==
  ASSUME NEW m \in Messages
  PROVE  /\ Kept(m) \in SUBSET (1..Len(m.content)) /\ Kept(m) \in SUBSET Int
         /\ IsFiniteSet(Kept(m)) /\ Cardinality(Kept(m)) \in Nat
<1>1. Len(m.content) \in Nat /\ DOMAIN m.content = 1..Len(m.content)
  BY MessageType
<1>2. Kept(m) \in SUBSET (1..Len(m.content))
  BY <1>1 DEF Kept
<1>3. IsFiniteSet(1..Len(m.content))
  BY <1>1, FS_Interval
<1>4. IsFiniteSet(Kept(m))
  BY <1>2, <1>3, FS_Subset
<1>5. Cardinality(Kept(m)) \in Nat
  BY <1>4, FS_CardinalityType
<1> QED
  BY <1>1, <1>2, <1>4, <1>5

LEMMA PartType ==
  ASSUME NEW kind \in PartKinds, NEW i \in Nat, NEW j \in Nat,
         NEW id \in Words, NEW name \in Words,
         NEW x, x = Part(kind, << i, j >>, id, name)
  PROVE  /\ x \in PartRec /\ x.kind = kind /\ x.place = << i, j >>
         /\ x.id = id /\ x.name = name
<1>1. PICK place \in Nat \X Nat : place = << i, j >>
  OBVIOUS
<1>2. x = [kind |-> kind, place |-> place, id |-> id, name |-> name]
  BY <1>1 DEF Part
<1>3. x \in PartRec
  BY <1>2 DEF PartRec
<1> QED
  BY <1>1, <1>2, <1>3

(* Parts in order of a message: of the places in a set, by position.       *)
Lists(parts, i, places) ==
  /\ parts \in Seq(PartRec)
  /\ \A k \in 1..Len(parts) :
       \E j \in places : j \in Nat /\ parts[k].place = << i, j >>
  /\ \A j \in places : \E k \in 1..Len(parts) : parts[k].place = << i, j >>
  /\ \A k, l \in 1..Len(parts) : k < l =>
       Before(parts[k].place, parts[l].place)

LEMMA ContentPartsList ==
  ASSUME NEW m \in Messages, NEW i \in Nat
  PROVE  /\ Lists(ContentParts(m, i), i, Kept(m))
         /\ \A k \in 1..Len(ContentParts(m, i)) :
              ContentParts(m, i)[k].kind \in Kinds
<1>1. PICK P : P = Kept(m)
  OBVIOUS
<1>2. /\ P \in SUBSET (1..Len(m.content)) /\ P \in SUBSET Int
      /\ IsFiniteSet(P) /\ Cardinality(P) \in Nat
  BY <1>1, KeptFacts
<1>3. PICK n \in Nat : n = Cardinality(P)
  BY <1>2
<1>4. PICK s : s = ContentParts(m, i)
  OBVIOUS
<1>5. s = [k \in 1..n |->
            [kind |-> m.content[Nth(k, P)], place |-> << i, Nth(k, P) >>,
             id |-> "", name |-> ""]]
  BY <1>1, <1>3, <1>4 DEF ContentParts, Part
<1>6. ASSUME NEW k \in 1..n
      PROVE  Nth(k, P) \in P /\ Nth(k, P) \in Nat
             /\ m.content[Nth(k, P)] \in Kinds
  <2>1. Nth(k, P) \in P
    BY <1>2, <1>3, NthIs
  <2>2. Nth(k, P) \in 1..Len(m.content)
    BY <1>2, <2>1
  <2> QED
    BY <2>1, <2>2, MessageType
<1>7. "" \in Words
  BY DEF Words
<1>8. ASSUME NEW k \in 1..n
      PROVE  /\ s[k] \in PartRec /\ s[k].kind \in Kinds
             /\ s[k].place = << i, Nth(k, P) >>
  <2>1. PICK j \in Nat : j = Nth(k, P)
    BY <1>6
  <2>2. s[k] = Part(m.content[j], << i, j >>, "", "")
    BY <1>5, <2>1 DEF Part
  <2>3. PICK kind \in Kinds : kind = m.content[j]
    BY <1>6, <2>1
  <2>4. kind \in PartKinds
    BY DEF PartKinds
  <2>5. \E none \in Words : s[k] = Part(kind, << i, j >>, none, none)
    BY <1>7, <2>2, <2>3, Zenon
  <2>6. s[k] \in PartRec /\ s[k].kind = kind /\ s[k].place = << i, j >>
    <3>1. PICK none \in Words : s[k] = Part(kind, << i, j >>, none, none)
      BY <2>5
    <3>2. PICK x : x = s[k]
      OBVIOUS
    <3>3. x \in PartRec /\ x.kind = kind /\ x.place = << i, j >>
      BY <2>4, <3>1, <3>2, PartType
    <3> QED
      BY <3>2, <3>3
  <2> QED
    BY <2>1, <2>6
<1>9. s \in [1..n -> PartRec]
  BY <1>5, <1>8
<1>10. s \in Seq(PartRec) /\ Len(s) = n
  <2>1. s \in Seq(PartRec)
    BY <1>9, SeqDef
  <2>2. 1..Len(s) = 1..n /\ Len(s) \in Nat
    BY <1>9, <2>1, LenProperties
  <2> QED
    BY <2>1, <2>2
<1>11. ASSUME NEW j \in P
       PROVE  \E k \in 1..n : s[k].place = << i, j >>
  <2>1. PICK k \in 1..Cardinality(P) : k = Rank(j, P)
    BY <1>2, RankPositive
  <2>2. Nth(k, P) = j
    BY <1>2, <2>1, NthOnly
  <2> QED
    BY <1>3, <1>8, <2>2
<1>12. ASSUME NEW k \in 1..n, NEW l \in 1..n, k < l
       PROVE  Before(s[k].place, s[l].place)
  <2>1. Nth(k, P) < Nth(l, P)
    BY <1>2, <1>3, <1>12, NthRises
  <2> QED
    BY <1>8, <2>1 DEF Before
<1>13. Lists(s, i, P)
  BY <1>6, <1>8, <1>10, <1>11, <1>12 DEF Lists
<1> QED
  BY <1>1, <1>4, <1>8, <1>10, <1>13

CallsAt(m) == { Len(m.content) + j : j \in DOMAIN m.calls }

LEMMA CallPartsList ==
  ASSUME NEW m \in Messages, NEW i \in Nat
  PROVE  /\ Lists(CallParts(m, i), i, CallsAt(m))
         /\ Len(CallParts(m, i)) = Len(m.calls)
         /\ \A k \in 1..Len(m.calls) :
              CallParts(m, i)[k] =
                Part("call", << i, Len(m.content) + k >>,
                     m.calls[k].id, m.calls[k].name)
<1>1. PICK n \in Nat : n = Len(m.calls)
  BY MessageType
<1>2. PICK a \in Nat : a = Len(m.content)
  BY MessageType
<1>3. PICK s : s = CallParts(m, i)
  OBVIOUS
<1>4. s = [k \in 1..n |-> [kind |-> "call", place |-> << i, a + k >>,
                           id |-> m.calls[k].id, name |-> m.calls[k].name]]
  BY <1>1, <1>2, <1>3, MessageType DEF CallParts, Part
<1>5. ASSUME NEW k \in 1..n
      PROVE  /\ s[k] \in PartRec /\ s[k].place = << i, a + k >>
             /\ s[k] = Part("call", << i, a + k >>, m.calls[k].id, m.calls[k].name)
  <2>1. m.calls[k].id \in STRING /\ m.calls[k].name \in STRING
    BY <1>1, MessageType
  <2>2. << i, a + k >> \in Nat \X Nat
    OBVIOUS
  <2>3. PICK place \in Nat \X Nat : place = << i, a + k >>
    BY <2>2
  <2>4. s[k] = [kind |-> "call", place |-> place,
                id |-> m.calls[k].id, name |-> m.calls[k].name]
    BY <1>4, <2>3
  <2>5. /\ "call" \in PartKinds
        /\ m.calls[k].id \in Words /\ m.calls[k].name \in Words
    BY <2>1 DEF PartKinds, Words
  <2> QED
    BY <2>3, <2>4, <2>5 DEF PartRec, Part
<1>6. s \in [1..n -> PartRec]
  BY <1>4, <1>5
<1>7. s \in Seq(PartRec) /\ Len(s) = n
  <2>1. s \in Seq(PartRec)
    BY <1>6, SeqDef
  <2>2. 1..Len(s) = 1..n /\ Len(s) \in Nat
    BY <1>6, <2>1, LenProperties
  <2> QED
    BY <2>1, <2>2
<1>8. CallsAt(m) = { a + j : j \in 1..n }
  BY <1>1, <1>2, MessageType DEF CallsAt
<1>9. ASSUME NEW k \in 1..n, NEW l \in 1..n, k < l
      PROVE  Before(s[k].place, s[l].place)
  <2>1. s[k].place = << i, a + k >> /\ s[l].place = << i, a + l >>
    BY <1>5
  <2>2. a + k < a + l
    BY <1>9
  <2> QED
    BY <2>1, <2>2 DEF Before
<1>10. ASSUME NEW k \in 1..n
       PROVE  \E j \in CallsAt(m) : j \in Nat /\ s[k].place = << i, j >>
  <2>1. a + k \in CallsAt(m) /\ a + k \in Nat
    BY <1>8
  <2> QED
    BY <1>5, <2>1
<1>11. ASSUME NEW j \in CallsAt(m)
       PROVE  \E k \in 1..n : s[k].place = << i, j >>
  BY <1>5, <1>8
<1>12. Lists(s, i, CallsAt(m))
  BY <1>7, <1>9, <1>10, <1>11 DEF Lists
<1> QED
  BY <1>1, <1>2, <1>3, <1>5, <1>7, <1>12


(* Calls after the content.                                                *)
LEMMA JoinedList ==
  ASSUME NEW i \in Nat, NEW P, NEW Q, NEW s, NEW t,
         Lists(s, i, P), Lists(t, i, Q),
         \A p \in P : \A q \in Q : p < q
  PROVE  Lists(s \o t, i, P \cup Q)
<1>1. s \in Seq(PartRec) /\ t \in Seq(PartRec)
  BY DEF Lists
<1>2. PICK u \in Seq(PartRec) : u = s \o t
  BY <1>1, ConcatProperties
<1>3. PICK a \in Nat : a = Len(s)
  BY <1>1, LenProperties
<1>4. PICK c \in Nat : c = Len(t)
  BY <1>1, LenProperties
<1>5. Len(u) = a + c /\ \A k \in 1..(a + c) : u[k] = IF k <= a THEN s[k] ELSE t[k - a]
  BY <1>1, <1>2, <1>3, <1>4, ConcatProperties
<1>6. ASSUME NEW k \in 1..a PROVE k \in 1..(a + c) /\ u[k] = s[k]
  BY <1>5
<1>7. ASSUME NEW k \in 1..c PROVE a + k \in 1..(a + c) /\ u[a + k] = t[k]
  <2>1. a + k \in 1..(a + c) /\ ~ (a + k <= a) /\ (a + k) - a = k
    OBVIOUS
  <2> QED
    BY <1>5, <2>1
<1>8. ASSUME NEW k \in 1..(a + c)
      PROVE  \/ k \in 1..a
             \/ \E l \in 1..c : k = a + l
  <2>1. CASE k > a
    <3>1. k - a \in 1..c /\ k = a + (k - a)
      BY <2>1
    <3> QED
      BY <3>1
  <2> QED
    BY <2>1
<1>9. ASSUME NEW k \in 1..(a + c)
      PROVE  \E j \in P \cup Q : j \in Nat /\ u[k].place = << i, j >>
  <2>1. CASE k \in 1..a
    BY <1>3, <1>6, <2>1 DEF Lists
  <2>2. CASE \E l \in 1..c : k = a + l
    BY <1>4, <1>7, <2>2 DEF Lists
  <2> QED
    BY <1>8, <2>1, <2>2
<1>10. ASSUME NEW j \in P \cup Q
       PROVE  \E k \in 1..(a + c) : u[k].place = << i, j >>
  <2>1. CASE j \in P
    <3>1. PICK k \in 1..a : s[k].place = << i, j >>
      BY <1>3, <2>1 DEF Lists
    <3> QED
      BY <1>6, <3>1
  <2>2. CASE j \in Q
    <3>1. PICK k \in 1..c : t[k].place = << i, j >>
      BY <1>4, <2>2 DEF Lists
    <3> QED
      BY <1>7, <3>1
  <2> QED
    BY <2>1, <2>2
<1>11. ASSUME NEW k \in 1..(a + c), NEW l \in 1..(a + c), k < l
       PROVE  Before(u[k].place, u[l].place)
  <2>1. CASE l \in 1..a
    <3>1. k \in 1..a
      BY <1>11, <2>1
    <3> QED
      BY <1>3, <1>6, <1>11, <2>1, <3>1 DEF Lists
  <2>2. CASE \E y \in 1..c : l = a + y
    <3>1. PICK y \in 1..c : l = a + y
      BY <2>2
    <3>2. CASE k \in 1..a
      <4>1. PICK p \in P : s[k].place = << i, p >>
        BY <1>3, <3>2 DEF Lists
      <4>2. PICK q \in Q : t[y].place = << i, q >>
        BY <1>4 DEF Lists
      <4>3. p < q
        OBVIOUS
      <4>4. u[k].place = << i, p >> /\ u[l].place = << i, q >>
        BY <1>6, <1>7, <3>1, <3>2, <4>1, <4>2
      <4> QED
        BY <4>3, <4>4 DEF Before
    <3>3. CASE \E x \in 1..c : k = a + x
      <4>1. PICK x \in 1..c : k = a + x
        BY <3>3
      <4>2. x < y
        BY <1>11, <3>1, <4>1
      <4>3. Before(t[x].place, t[y].place)
        BY <1>4, <4>2 DEF Lists
      <4> QED
        BY <1>7, <3>1, <4>1, <4>3
    <3> QED
      BY <1>8, <3>2, <3>3
  <2> QED
    BY <1>8, <2>1, <2>2
<1> QED
  BY <1>2, <1>5, <1>9, <1>10, <1>11 DEF Lists

(* The names and ids of calls.                                             *)
LEMMA CallsMadeFacts ==
  ASSUME ShapeInv, NEW c \in CallsMade
  PROVE  /\ c[1] \in 1..Len(conversation)
         /\ c[2] \in 1..Len(conversation[c[1]].calls)
         /\ c = << c[1], c[2] >>
         /\ CallAt(c).id \in STRING /\ CallAt(c).name \in STRING
         /\ CallAt(c).id # "" /\ CallAt(c).name # ""
<1>1. DOMAIN conversation = 1..Len(conversation) /\ conversation \in Seq(Messages)
  BY LenProperties DEF ShapeInv
<1>2. PICK i \in 1..Len(conversation) : c \in { i } \X DOMAIN conversation[i].calls
  BY <1>1 DEF CallsMade
<1>3. conversation[i] \in Messages
  BY <1>1, ElementOfSeq
<1>4. PICK j \in 1..Len(conversation[i].calls) : c = << i, j >>
  BY <1>2, <1>3, MessageType
<1>5. CallAt(c) = conversation[i].calls[j]
  BY <1>4 DEF CallAt
<1>6. CallAt(c).id \in STRING /\ CallAt(c).name \in STRING
  BY <1>3, <1>5, MessageType
<1>7. CallAt(c).id # "" /\ CallAt(c).name # ""
  BY DEF CallsMade
<1> QED
  BY <1>4, <1>6, <1>7

(* Among calls there is a last one.                                        *)
LEMMA LastCall ==
  ASSUME ShapeInv, NEW S \in SUBSET CallsMade, S # {}
  PROVE  LastOf(S) \in S
<1>1. PICK n \in Nat : n = Len(conversation)
  BY LenProperties DEF ShapeInv
<1>2. PICK I : I = { c[1] : c \in S }
  OBVIOUS
<1>3. I \in SUBSET (1..n) /\ I # {}
  BY <1>1, <1>2, CallsMadeFacts
<1>4. PICK i \in I : \A k \in I : k <= i
  BY <1>3, LastPlace
<1>5. PICK m : m = conversation[i]
  OBVIOUS
<1>6. m \in Messages
  BY <1>1, <1>3, <1>5, ElementOfSeq DEF ShapeInv
<1>7. PICK l \in Nat : l = Len(m.calls)
  BY <1>6, MessageType
<1>8. PICK J : J = { c[2] : c \in { d \in S : d[1] = i } }
  OBVIOUS
<1>9. J \in SUBSET (1..l) /\ J # {}
  <2>1. ASSUME NEW c \in S, c[1] = i PROVE c[2] \in 1..l
    BY <1>5, <1>7, <2>1, CallsMadeFacts
  <2>2. \E c \in S : c[1] = i
    BY <1>2
  <2> QED
    BY <1>8, <2>1, <2>2
<1>10. PICK j \in J : \A k \in J : k <= j
  BY <1>9, LastPlace
<1>11. PICK p \in S : p[1] = i /\ p[2] = j
  BY <1>8
<1>12. ASSUME NEW q \in S \ { p } PROVE Before(q, p)
  <2>1. q[1] \in I /\ q[1] \in Int /\ i \in Int /\ q[1] <= i
    <3>1. q[1] \in I /\ q[1] <= i
      BY <1>2, <1>4
    <3>2. \A k \in I : k \in Int
      BY <1>3
    <3> QED
      BY <3>1, <3>2
  <2>2. CASE q[1] < i
    BY <1>11, <2>2 DEF Before
  <2>3. CASE q[1] = i
    <3>1. q[2] \in J /\ q[2] <= j /\ q[2] \in Int /\ j \in Int
      BY <1>8, <1>9, <1>10, <2>3
    <3>2. q[2] # j
      <4>1. q = << q[1], q[2] >> /\ p = << p[1], p[2] >>
        BY CallsMadeFacts
      <4> QED
        BY <1>11, <2>3, <4>1
    <3>3. q[2] < j
      BY <3>1, <3>2
    <3> QED
      BY <1>11, <2>3, <3>3 DEF Before
  <2> QED
    BY <2>1, <2>2, <2>3
<1>13. \E x \in S : \A q \in S \ { x } : Before(q, x)
  BY <1>12
<1> QED
  BY <1>13, Zenon DEF LastOf

LEMMA NamesFound ==
  ASSUME ShapeInv
  PROVE  /\ \A name : idsByName(name) \in Words
         /\ \A id : toolNames(id) \in Words
         /\ \A c \in CallsMade :
              /\ \E d \in CallsMade : /\ CallAt(d).name = CallAt(c).name
                                      /\ idsByName(CallAt(c).name) = CallAt(d).id
              /\ \E d \in CallsMade : /\ CallAt(d).id = CallAt(c).id
                                      /\ toolNames(CallAt(c).id) = CallAt(d).name
<1>1. ASSUME NEW name
      PROVE  LET named == { c \in CallsMade : CallAt(c).name = name }
             IN  /\ named = {} => idsByName(name) = ""
                 /\ named # {} => \E d \in named : idsByName(name) = CallAt(d).id
  <2>1. PICK named : named = { c \in CallsMade : CallAt(c).name = name }
    OBVIOUS
  <2>2. idsByName(name) = IF named = {} THEN "" ELSE CallAt(LastOf(named)).id
    BY <2>1 DEF idsByName
  <2>3. named # {} => LastOf(named) \in named
    BY <2>1, LastCall
  <2> QED
    BY <2>1, <2>2, <2>3
<1>2. ASSUME NEW id
      PROVE  LET named == { c \in CallsMade : CallAt(c).id = id }
             IN  /\ named = {} => toolNames(id) = ""
                 /\ named # {} => \E d \in named : toolNames(id) = CallAt(d).name
  <2>1. PICK named : named = { c \in CallsMade : CallAt(c).id = id }
    OBVIOUS
  <2>2. toolNames(id) = IF named = {} THEN "" ELSE CallAt(LastOf(named)).name
    BY <2>1 DEF toolNames
  <2>3. named # {} => LastOf(named) \in named
    BY <2>1, LastCall
  <2> QED
    BY <2>1, <2>2, <2>3
<1>3. ASSUME NEW name PROVE idsByName(name) \in Words
  BY <1>1, CallsMadeFacts DEF Words
<1>4. ASSUME NEW id PROVE toolNames(id) \in Words
  BY <1>2, CallsMadeFacts DEF Words
<1>5. ASSUME NEW c \in CallsMade
      PROVE  \E d \in CallsMade : /\ CallAt(d).name = CallAt(c).name
                                  /\ idsByName(CallAt(c).name) = CallAt(d).id
  BY <1>1
<1>6. ASSUME NEW c \in CallsMade
      PROVE  \E d \in CallsMade : /\ CallAt(d).id = CallAt(c).id
                                  /\ toolNames(CallAt(c).id) = CallAt(d).name
  BY <1>2
<1> QED
  BY <1>3, <1>4, <1>5, <1>6

LEMMA FirstPlace ==
  ASSUME NEW n \in Nat, NEW S \in SUBSET (1..n), NEW i \in S,
         \A j \in S : ~ (j < i)
  PROVE  Nth(1, S) = i
<1>1. IsFiniteSet(S) /\ S \in SUBSET Int
  <2>1. IsFiniteSet(1..n)
    BY FS_Interval
  <2>2. S \in SUBSET Int
    OBVIOUS
  <2> QED
    BY <2>1, <2>2, FS_Subset
<1>2. { j \in S : j <= i } = { i }
  <2>1. ASSUME NEW j \in S, j <= i PROVE j = i
    <3>1. j \in Int /\ i \in Int
      BY <1>1
    <3> QED
      BY <2>1, <3>1
  <2>2. i <= i
    BY <1>1
  <2> QED
    BY <2>1, <2>2
<1>3. Rank(i, S) = 1
  BY <1>2, FS_Singleton, Zenon DEF Rank
<1>4. 1 \in 1..Cardinality(S)
  BY <1>1, <1>3, RankPositive
<1> QED
  BY <1>1, <1>3, <1>4, NthOnly

LEMMA FirstIs ==
  ASSUME NEW n \in Nat, NEW names, DOMAIN names = 1..n,
         NEW i \in 1..n, names[i] # "",
         \A j \in 1..n : j < i => names[j] = ""
  PROVE  firstNonEmpty(names) = names[i]
<1>1. PICK S : S = { k \in DOMAIN names : names[k] # "" }
  OBVIOUS
<1>2. S \in SUBSET (1..n) /\ i \in S
  BY <1>1, Zenon
<1>3. \A j \in S : ~ (j < i)
  BY <1>1, Zenon
<1>4. Nth(1, S) = i
  BY <1>2, <1>3, FirstPlace, Zenon
<1>5. firstNonEmpty(names) = IF S = {} THEN "" ELSE names[Nth(1, S)]
  BY <1>1, Zenon DEF firstNonEmpty
<1> QED
  BY <1>2, <1>4, <1>5, Zenon

LEMMA FirstOfNone ==
  ASSUME NEW names, \A k \in DOMAIN names : names[k] = ""
  PROVE  firstNonEmpty(names) = ""
<1>1. { k \in DOMAIN names : names[k] # "" } = {}
  OBVIOUS
<1> QED
  BY <1>1, Zenon DEF firstNonEmpty

LEMMA FirstOfTwo ==
  ASSUME NEW a, NEW b
  PROVE  firstNonEmpty(<< a, b >>) = IF a # "" THEN a ELSE b
<1>1. PICK s : s = << a, b >>
  OBVIOUS
<1>2. DOMAIN s = 1..2 /\ s[1] = a /\ s[2] = b
  BY <1>1
<1>3. \A k \in 1..2 : k = 1 \/ k = 2
  OBVIOUS
<1>4. 1 \in 1..2 /\ 2 \in 1..2 /\ 2 \in Nat /\ ~ (1 < 1) /\ ~ (2 < 1) /\ ~ (2 < 2)
  OBVIOUS
<1>5. CASE a # ""
  BY <1>1, <1>2, <1>3, <1>4, <1>5, FirstIs, Zenon
<1>6. CASE a = "" /\ b # ""
  <2>1. s[2] # "" /\ \A j \in 1..2 : j < 2 => s[j] = ""
    BY <1>2, <1>3, <1>4, <1>6, Zenon
  <2>2. firstNonEmpty(s) = s[2]
    BY <1>2, <1>4, <2>1, FirstIs, Zenon
  <2> QED
    BY <1>1, <1>2, <1>6, <2>2, Zenon
<1>7. CASE a = "" /\ b = ""
  BY <1>1, <1>2, <1>3, <1>7, FirstOfNone, Zenon
<1> QED
  BY <1>5, <1>6, <1>7, Zenon

(* The provers see the empty name as a name like any other.                *)
Blank(name) == name = ""

LEMMA FirstOfFour ==
  ASSUME NEW a, NEW b, NEW c, NEW d
  PROVE  firstNonEmpty(<< a, b, c, d >>) =
           IF ~ Blank(a) THEN a ELSE IF ~ Blank(b) THEN b
           ELSE IF ~ Blank(c) THEN c ELSE d
<1>1. PICK s : s = << a, b, c, d >>
  OBVIOUS
<1>2. DOMAIN s = 1..4 /\ s[1] = a /\ s[2] = b /\ s[3] = c /\ s[4] = d
  BY <1>1
<1>3. \A k \in 1..4 : k = 1 \/ k = 2 \/ k = 3 \/ k = 4
  OBVIOUS
<1>4. /\ 1 \in 1..4 /\ 2 \in 1..4 /\ 3 \in 1..4 /\ 4 \in 1..4 /\ 4 \in Nat
      /\ \A k \in 1..4 : /\ ~ (k < 1) /\ (k < 2 => k = 1)
                         /\ k < 3 => k = 1 \/ k = 2
                         /\ k < 4 => k = 1 \/ k = 2 \/ k = 3
  OBVIOUS
<1>5. CASE a # ""
  BY <1>1, <1>2, <1>4, <1>5, FirstIs, Zenon DEF Blank
<1>6. CASE a = "" /\ b # ""
  <2>1. s[2] # "" /\ \A j \in 1..4 : j < 2 => s[j] = ""
    BY <1>2, <1>4, <1>6, Zenon
  <2>2. firstNonEmpty(s) = s[2]
    BY <1>2, <1>4, <2>1, FirstIs, Zenon
  <2> QED
    BY <1>1, <1>2, <1>6, <2>2, Zenon DEF Blank
<1>7. CASE a = "" /\ b = "" /\ c # ""
  <2>1. s[3] # "" /\ \A j \in 1..4 : j < 3 => s[j] = ""
    BY <1>2, <1>4, <1>7, Zenon
  <2>2. firstNonEmpty(s) = s[3]
    BY <1>2, <1>4, <2>1, FirstIs, Zenon
  <2> QED
    BY <1>1, <1>2, <1>7, <2>2, Zenon DEF Blank
<1>8. CASE a = "" /\ b = "" /\ c = "" /\ d # ""
  <2>1. s[4] # "" /\ \A j \in 1..4 : j < 4 => s[j] = ""
    BY <1>2, <1>4, <1>8, Zenon
  <2>2. firstNonEmpty(s) = s[4]
    BY <1>2, <1>4, <2>1, FirstIs, Zenon
  <2> QED
    BY <1>1, <1>2, <1>8, <2>2, Zenon DEF Blank
<1>9. CASE a = "" /\ b = "" /\ c = "" /\ d = ""
  BY <1>1, <1>2, <1>3, <1>9, FirstOfNone, Zenon DEF Blank
<1> QED
  BY <1>5, <1>6, <1>7, <1>8, <1>9, Zenon

(* The one part of a result.                                               *)
ResultAt(m) ==
  IF protocol = "gemini" \/ m.id # "" \/ idsByName(m.name) # "" THEN { 1 }
  ELSE {}

LEMMA OnePart ==
  ASSUME NEW x \in PartRec, NEW i \in Nat, x.place = << i, 1 >>
  PROVE  /\ Lists(<< x >>, i, { 1 }) /\ Len(<< x >>) = 1 /\ << x >>[1] = x
<1>1. << x >> \in Seq(PartRec) /\ Len(<< x >>) = 1 /\ << x >>[1] = x
  OBVIOUS
<1>2. PICK s : s = << x >>
  OBVIOUS
<1>3. s \in Seq(PartRec) /\ Len(s) = 1 /\ s[1] = x
  BY <1>1, <1>2
<1>4. \A k \in 1..1 : k = 1
  OBVIOUS
<1>5. 1 \in 1..1 /\ 1 \in Nat /\ ~ (1 < 1)
  OBVIOUS
<1>6. Lists(s, i, { 1 })
  BY <1>3, <1>4, <1>5, Zenon DEF Lists
<1> QED
  BY <1>1, <1>2, <1>6

LEMMA NoPart ==
  ASSUME NEW i \in Nat
  PROVE  Lists(<< >>, i, {}) /\ Len(<< >>) = 0
<1>1. << >> \in Seq(PartRec) /\ Len(<< >>) = 0
  OBVIOUS
<1>2. 1..0 = {}
  OBVIOUS
<1> QED
  BY <1>1, <1>2 DEF Lists

LEMMA ResultPartsList ==
  ASSUME ShapeInv, NEW m \in Messages, NEW i \in Nat
  PROVE  /\ Lists(ResultParts(m, i), i, ResultAt(m))
         /\ \A k \in 1..Len(ResultParts(m, i)) :
              LET x == ResultParts(m, i)[k]
              IN  /\ x.kind = "result" /\ x.place = << i, 1 >>
                  /\ protocol = "anthropic" =>
                       x.id = IF m.id # "" THEN m.id ELSE idsByName(m.name)
                  /\ protocol = "gemini" => 
                       x.name = firstNonEmpty(<< m.name, toolNames(m.id),
                                                 m.id, "function" >>)
<1>0. "" \in Words /\ "function" \in Words
  BY DEF Words
<1>. PICK result \in PartKinds : result = "result"
  BY DEF PartKinds
<1>1. m.id \in Words /\ m.name \in Words
  BY MessageType DEF Words
<1>2. CASE protocol = "anthropic"
  <2>1. PICK id : id = IF m.id # "" THEN m.id ELSE idsByName(m.name)
    OBVIOUS
  <2>2. firstNonEmpty(<< m.id, idsByName(m.name) >>) = id
    BY <2>1, FirstOfTwo, Zenon
  <2>3. id \in Words
    BY <1>1, <2>1, NamesFound, Zenon
  <2>4. protocol # "gemini"
    BY <1>2
  <2>5. ResultParts(m, i) = IF id = "" THEN << >>
                            ELSE << Part("result", << i, 1 >>, id, "") >>
    BY <1>2, <2>2, Zenon DEF ResultParts
  <2>6. id = "" <=> m.id = "" /\ idsByName(m.name) = ""
    BY <2>1, Zenon
  <2>7. CASE id = ""
    <3>1. ResultParts(m, i) = << >> /\ ResultAt(m) = {}
      BY <2>4, <2>5, <2>6, <2>7, Zenon DEF ResultAt
    <3>2. 1..0 = {}
      OBVIOUS
    <3> QED
      BY <3>1, <3>2, NoPart
  <2>8. CASE id # ""
    <3>1. PICK x : x = Part("result", << i, 1 >>, id, "")
      OBVIOUS
    <3>2. ResultParts(m, i) = << x >> /\ ResultAt(m) = { 1 }
      BY <2>5, <2>6, <2>8, <3>1, Zenon DEF ResultAt
    <3>3. PICK none \in Words : x = Part(result, << i, 1 >>, id, none)
      BY <1>0, <3>1, Zenon
    <3>4. x \in PartRec /\ x.kind = "result" /\ x.place = << i, 1 >> /\ x.id = id
      BY <2>3, <3>3, PartType
    <3>5. Lists(<< x >>, i, { 1 }) /\ Len(<< x >>) = 1 /\ << x >>[1] = x
      BY <3>4, OnePart
    <3>6. \A k \in 1..1 : k = 1
      OBVIOUS
    <3> QED
      BY <2>1, <2>4, <3>2, <3>4, <3>5, <3>6, Zenon
  <2> QED
    BY <2>7, <2>8
<1>3. CASE protocol = "gemini"
  <2>1. PICK name : name = firstNonEmpty(<< m.name, toolNames(m.id), m.id, "function" >>)
    OBVIOUS
  <2>2. name \in Words
    <3>1. name \in { m.name, toolNames(m.id), m.id, "function" }
      <4>1. PICK other : other = "function"
        OBVIOUS
      <4>2. PICK tool : tool = toolNames(m.id)
        OBVIOUS
      <4>3. name = firstNonEmpty(<< m.name, tool, m.id, other >>)
        BY <2>1, <4>1, <4>2, Zenon
      <4>4. name \in { m.name, tool, m.id, other }
        BY <4>3, FirstOfFour
      <4> QED
        BY <4>1, <4>2, <4>4, Zenon
    <3>2. toolNames(m.id) \in Words
      BY NamesFound
    <3> QED
      BY <1>0, <1>1, <3>1, <3>2, Zenon
  <2>3. protocol # "anthropic"
    BY <1>3
  <2>4. PICK x : x = Part("result", << i, 1 >>, "", name)
    OBVIOUS
  <2>5. ResultParts(m, i) = << x >> /\ ResultAt(m) = { 1 }
    BY <1>3, <2>1, <2>3, <2>4, Zenon DEF ResultParts, ResultAt
  <2>6. PICK none \in Words : x = Part(result, << i, 1 >>, none, name)
    BY <1>0, <2>4, Zenon
  <2>7. x \in PartRec /\ x.kind = "result" /\ x.place = << i, 1 >> /\ x.name = name
    BY <2>2, <2>6, PartType
  <2>8. Lists(<< x >>, i, { 1 }) /\ Len(<< x >>) = 1 /\ << x >>[1] = x
    BY <2>7, OnePart
  <2>9. \A k \in 1..1 : k = 1
    OBVIOUS
  <2> QED
    BY <2>1, <2>3, <2>5, <2>7, <2>8, <2>9, Zenon
<1> QED
  BY <1>2, <1>3 DEF ShapeInv

(* What a message that is not hoisted is sent as.                          *)
MeantAt(m) ==
  IF m.role = "tool" THEN ResultAt(m)
  ELSE IF m.role = "assistant" THEN Kept(m) \cup CallsAt(m)
  ELSE Kept(m)

LEMMA PartsOfList ==
  ASSUME ShapeInv, NEW m \in Messages, NEW i \in Nat
  PROVE  Lists(PartsOf(m, i), i, MeantAt(m))
<1>1. "tool" # "assistant"
  OBVIOUS
<1>2. CASE m.role = "tool"
  <2>1. PartsOf(m, i) = ResultParts(m, i)
    BY <1>1, <1>2 DEF PartsOf
  <2> QED
    BY <1>2, <2>1, ResultPartsList DEF MeantAt
<1>3. CASE m.role = "assistant"
  <2>1. PartsOf(m, i) = ContentParts(m, i) \o CallParts(m, i)
    BY <1>1, <1>3 DEF PartsOf
  <2>2. MeantAt(m) = Kept(m) \cup CallsAt(m)
    BY <1>1, <1>3 DEF MeantAt
  <2>3. Lists(ContentParts(m, i), i, Kept(m)) /\ Lists(CallParts(m, i), i, CallsAt(m))
    BY ContentPartsList, CallPartsList
  <2>4. ASSUME NEW p \in Kept(m), NEW q \in CallsAt(m) PROVE p < q
    <3>1. PICK a \in Nat : a = Len(m.content)
      BY MessageType
    <3>2. p \in 1..a
      BY <3>1, KeptFacts
    <3>3. PICK j \in 1..Len(m.calls) : q = a + j
      BY <3>1, MessageType DEF CallsAt
    <3>4. Len(m.calls) \in Nat
      BY MessageType
    <3> QED
      BY <3>2, <3>3, <3>4
  <2>5. Lists(ContentParts(m, i) \o CallParts(m, i), i, Kept(m) \cup CallsAt(m))
    BY <2>3, <2>4, JoinedList
  <2> QED
    BY <2>1, <2>2, <2>5
<1>4. CASE m.role # "tool" /\ m.role # "assistant"
  <2>1. PartsOf(m, i) = ContentParts(m, i)
    BY <1>4 DEF PartsOf
  <2> QED
    BY <1>4, <2>1, ContentPartsList DEF MeantAt
<1> QED
  BY <1>2, <1>3, <1>4

LEMMA MeantIs ==
  ASSUME ShapeInv, NEW i \in 1..Len(conversation)
  PROVE  LET m == conversation[i]
         IN  /\ m \in Messages
             /\ Meant(i) = IF Hoisted(m) THEN {} ELSE { i } \X MeantAt(m)
<1>1. PICK m : m = conversation[i]
  OBVIOUS
<1>2. m \in Messages
  BY <1>1, ElementOfSeq DEF ShapeInv
<1>3. "tool" # "assistant" /\ "tool" # "system" /\ "tool" # "developer"
      /\ "assistant" # "system" /\ "assistant" # "developer"
  OBVIOUS
<1>4. { i } \X { 1 } = { << i, 1 >> } /\ { i } \X {} = {}
  OBVIOUS
<1>5. CASE m.role = "tool"
  <2>1. Meant(i) = IF protocol = "gemini" \/ m.id # "" \/ idsByName(m.name) # ""
                     THEN { << i, 1 >> } ELSE {}
    BY <1>1, <1>3, <1>5 DEF Meant, Hoisted
  <2>2. ~ Hoisted(m) /\ MeantAt(m) = ResultAt(m)
    BY <1>3, <1>5 DEF Hoisted, MeantAt
  <2> QED
    BY <1>1, <1>2, <1>4, <2>1, <2>2, Zenon DEF ResultAt
<1>6. CASE m.role # "tool" /\ Hoisted(m)
  BY <1>1, <1>2, <1>3, <1>6 DEF Meant, Hoisted
<1>7. CASE m.role = "assistant"
  BY <1>1, <1>2, <1>3, <1>7 DEF Meant, Hoisted, MeantAt, CallsAt
<1>8. CASE m.role # "tool" /\ m.role # "assistant" /\ ~ Hoisted(m)
  BY <1>1, <1>2, <1>8 DEF Meant, MeantAt
<1> QED
  BY <1>5, <1>6, <1>7, <1>8

-----------------------------------------------------------------------------
(* Turns and what they send.                                               *)

SendingsOf(ts) == UNION { { t } \X DOMAIN ts[t].parts : t \in DOMAIN ts }
At(ts, s) == ts[s[1]].parts[s[2]]

NoneEmpty(ts) == \A t \in DOMAIN ts : ts[t].parts # << >>
Alternates(ts) == \A t \in 1..(Len(ts) - 1) : ts[t].role # ts[t + 1].role
OrderOf(ts) ==
  \A r, s \in SendingsOf(ts) :
    Before(r, s) => Before(At(ts, r).place, At(ts, s).place)

LEMMA TurnType ==
  ASSUME NEW ts \in Seq(Turn), NEW t \in 1..Len(ts)
  PROVE  /\ Len(ts) \in Nat /\ DOMAIN ts = 1..Len(ts)
         /\ ts[t] \in Turn /\ ts[t].parts \in Seq(PartRec)
         /\ Len(ts[t].parts) \in Nat /\ DOMAIN ts[t].parts = 1..Len(ts[t].parts)
<1>1. ts[t] \in Turn
  BY ElementOfSeq
<1>2. ts[t].parts \in Seq(PartRec)
  BY <1>1 DEF Turn
<1> QED
  BY <1>1, <1>2, LenProperties

LEMMA SendingsAre ==
  ASSUME NEW ts \in Seq(Turn)
  PROVE  /\ \A t \in 1..Len(ts) : \A p \in 1..Len(ts[t].parts) :
              << t, p >> \in SendingsOf(ts)
         /\ \A s \in SendingsOf(ts) :
              \E t \in 1..Len(ts) : \E p \in 1..Len(ts[t].parts) :
                 /\ s = << t, p >> /\ s[1] = t /\ s[2] = p
                 /\ t \in Nat /\ p \in Nat /\ At(ts, s) \in PartRec
<1>1. DOMAIN ts = 1..Len(ts)
  BY LenProperties
<1>2. ASSUME NEW t \in 1..Len(ts)
      PROVE  DOMAIN ts[t].parts = 1..Len(ts[t].parts)
  BY TurnType
<1>3. ASSUME NEW t \in 1..Len(ts), NEW p \in 1..Len(ts[t].parts)
      PROVE  << t, p >> \in SendingsOf(ts)
  <2>1. << t, p >> \in { t } \X DOMAIN ts[t].parts
    BY <1>2
  <2> QED
    BY <1>1, <2>1 DEF SendingsOf
<1>4. ASSUME NEW s \in SendingsOf(ts)
      PROVE  \E t \in 1..Len(ts) : \E p \in 1..Len(ts[t].parts) :
                 /\ s = << t, p >> /\ s[1] = t /\ s[2] = p
                 /\ t \in Nat /\ p \in Nat /\ At(ts, s) \in PartRec
  <2>1. PICK t \in 1..Len(ts) : s \in { t } \X DOMAIN ts[t].parts
    BY <1>1 DEF SendingsOf
  <2>2. PICK p \in 1..Len(ts[t].parts) : s = << t, p >>
    BY <1>2, <2>1
  <2>3. s[1] = t /\ s[2] = p
    BY <2>2
  <2>4. t \in Nat /\ p \in Nat
    BY TurnType
  <2>5. ts[t].parts[p] \in PartRec
    <3>1. ts[t].parts \in Seq(PartRec)
      BY TurnType
    <3> QED
      BY <3>1, ElementOfSeq
  <2>6. At(ts, s) \in PartRec
    BY <2>3, <2>5 DEF At
  <2> QED
    BY <2>2, <2>3, <2>4, <2>6
<1> QED
  BY <1>3, <1>4

(* Turns grown by the parts of a message of a role: from a position on.    *)
GrownAt(ts, us, role, new, T, base) ==
  /\ us \in Seq(Turn) /\ T = Len(us) /\ Len(ts) <= T
  /\ us[T].role = role
  /\ \A t \in 1..Len(ts) : us[t].role = ts[t].role
  /\ \A s \in SendingsOf(ts) : s \in SendingsOf(us) /\ At(us, s) = At(ts, s)
  /\ \A k \in 1..Len(new) :
       /\ << T, base + k >> \in SendingsOf(us)
       /\ At(us, << T, base + k >>) = new[k]
       /\ \A s \in SendingsOf(ts) : Before(s, << T, base + k >>)
  /\ \A s \in SendingsOf(us) :
       s \in SendingsOf(ts) \/ \E k \in 1..Len(new) : s = << T, base + k >>
  /\ NoneEmpty(ts) => NoneEmpty(us)
  /\ Alternates(ts) => Alternates(us)

Grown(ts, us, role, new) ==
  \E T \in Nat : \E base \in Nat : GrownAt(ts, us, role, new, T, base)

LEMMA AppendedGrows ==
  ASSUME NEW ts \in Seq(Turn), NEW role \in { "assistant", "user" },
         NEW new \in Seq(PartRec), new # << >>,
         Len(ts) > 0 => ts[Len(ts)].role # role
  PROVE  Grown(ts, Append(ts, [role |-> role, parts |-> new]), role, new)
<1>1. PICK e : e = [role |-> role, parts |-> new]
  OBVIOUS
<1>2. e \in Turn /\ e.role = role /\ e.parts = new
  BY <1>1 DEF Turn
<1>3. PICK us \in Seq(Turn) : us = Append(ts, e)
  BY <1>2, AppendProperties
<1>4. PICK n \in Nat : n = Len(ts)
  BY LenProperties
<1>5. /\ Len(us) = n + 1 /\ us[n + 1] = e
      /\ \A t \in 1..n : us[t] = ts[t]
      /\ DOMAIN ts = 1..n /\ DOMAIN us = 1..(n + 1)
  BY <1>2, <1>3, <1>4, AppendProperties, LenProperties
<1>6. PICK c \in Nat : c = Len(new)
  BY LenProperties
<1>7. PICK T \in Nat : T = n + 1
  OBVIOUS
<1>8. /\ \A t \in 1..n : t \in 1..T /\ t < T
      /\ T \in 1..T /\ n <= T /\ \A t \in 1..T : t \in 1..n \/ t = T
  BY <1>7
<1>9. \A s \in SendingsOf(ts) :
        s \in SendingsOf(us) /\ At(us, s) = At(ts, s) /\ s[1] < T
  <2>1. SUFFICES ASSUME NEW s \in SendingsOf(ts)
                 PROVE  s \in SendingsOf(us) /\ At(us, s) = At(ts, s) /\ s[1] < T
    OBVIOUS
  <2>0. PICK t \in 1..n :
          \E p \in 1..Len(ts[t].parts) : s = << t, p >> /\ s[1] = t /\ s[2] = p
    BY <1>4, SendingsAre
  <2>2. PICK p \in 1..Len(ts[t].parts) : s = << t, p >> /\ s[1] = t /\ s[2] = p
    BY <2>0
  <2>3. us[t] = ts[t] /\ t \in 1..Len(us) /\ t < T
    BY <1>5, <1>7, <1>8
  <2>4. << t, p >> \in SendingsOf(us)
    BY <2>3, SendingsAre
  <2> QED
    BY <2>2, <2>3, <2>4 DEF At
<1>10. ASSUME NEW k \in 1..c
       PROVE  /\ << T, 0 + k >> \in SendingsOf(us)
              /\ At(us, << T, 0 + k >>) = new[k]
              /\ \A s \in SendingsOf(ts) : Before(s, << T, 0 + k >>)
  <2>1. 0 + k = k
    OBVIOUS
  <2>2. us[T] = e /\ T \in 1..Len(us) /\ k \in 1..Len(us[T].parts)
    BY <1>2, <1>5, <1>6, <1>7, <1>8
  <2>3. << T, k >> \in SendingsOf(us)
    BY <2>2, SendingsAre
  <2>4. At(us, << T, k >>) = new[k]
    BY <1>2, <2>2 DEF At
  <2>5. \A s \in SendingsOf(ts) : Before(s, << T, k >>)
    BY <1>9 DEF Before
  <2> QED
    BY <2>1, <2>3, <2>4, <2>5
<1>11. ASSUME NEW s \in SendingsOf(us)
       PROVE  s \in SendingsOf(ts) \/ \E k \in 1..c : s = << T, 0 + k >>
  <2>0. PICK t \in 1..T : \E p \in 1..Len(us[t].parts) : s = << t, p >>
    BY <1>5, <1>7, SendingsAre
  <2>1. PICK p \in 1..Len(us[t].parts) : s = << t, p >>
    BY <2>0
  <2>2. CASE t \in 1..n
    <3>1. us[t] = ts[t] /\ t \in 1..Len(ts)
      BY <1>4, <1>5, <2>2
    <3> QED
      BY <2>1, <3>1, SendingsAre
  <2>3. CASE t = T
    <3>1. p \in 1..c /\ 0 + p = p
      BY <1>2, <1>5, <1>6, <1>7, <2>3
    <3> QED
      BY <2>1, <2>3, <3>1
  <2> QED
    BY <1>8, <2>2, <2>3
<1>12. NoneEmpty(ts) => NoneEmpty(us)
  BY <1>2, <1>5, <1>7, <1>8 DEF NoneEmpty
<1>13. Alternates(ts) => Alternates(us)
  <2>1. SUFFICES ASSUME Alternates(ts), NEW t \in 1..(Len(us) - 1)
                 PROVE  us[t].role # us[t + 1].role
    BY DEF Alternates
  <2>2. t \in 1..n
    BY <1>5, <2>1
  <2>3. CASE t = n
    <3>1. us[t] = ts[n] /\ us[t + 1] = e /\ n > 0
      BY <1>5, <2>2, <2>3
    <3> QED
      BY <1>2, <1>4, <3>1
  <2>4. CASE t # n
    <3>1. t \in 1..(n - 1) /\ t + 1 \in 1..n
      BY <2>2, <2>4
    <3>2. us[t] = ts[t] /\ us[t + 1] = ts[t + 1]
      BY <1>5, <2>2, <3>1
    <3> QED
      BY <1>4, <2>1, <3>1, <3>2 DEF Alternates
  <2> QED
    BY <2>3, <2>4
<1>14. GrownAt(ts, us, role, new, T, 0)
  <2>1. T = Len(us) /\ Len(ts) <= T /\ us[T].role = role
    BY <1>2, <1>4, <1>5, <1>7, <1>8
  <2>2. \A t \in 1..Len(ts) : us[t].role = ts[t].role
    BY <1>4, <1>5
  <2> QED
    BY <1>6, <1>9, <1>10, <1>11, <1>12, <1>13, <2>1, <2>2 DEF GrownAt
<1>15. 0 \in Nat
  OBVIOUS
<1> QED
  BY <1>1, <1>3, <1>14, <1>15 DEF Grown

LEMMA MergedGrows ==
  ASSUME NEW ts \in Seq(Turn), NEW role \in { "assistant", "user" },
         NEW new \in Seq(PartRec), new # << >>,
         Len(ts) > 0, ts[Len(ts)].role = role
  PROVE  Grown(ts, [ts EXCEPT ![Len(ts)].parts = @ \o new], role, new)
<1>1. PICK T \in Nat : T = Len(ts)
  BY LenProperties
<1>2. T \in 1..T /\ DOMAIN ts = 1..T
  BY <1>1, LenProperties
<1>3. PICK old \in Seq(PartRec) : old = ts[T].parts
  BY <1>1, <1>2, TurnType
<1>4. PICK base \in Nat : base = Len(old)
  BY LenProperties
<1>5. PICK c \in Nat : c = Len(new)
  BY LenProperties
<1>6. PICK all \in Seq(PartRec) : all = old \o new
  BY ConcatProperties
<1>7. /\ Len(all) = base + c
      /\ \A k \in 1..(base + c) : all[k] = IF k <= base THEN old[k] ELSE new[k - base]
  BY <1>4, <1>5, <1>6, ConcatProperties
<1>8. PICK e : e = [ts[T] EXCEPT !.parts = all]
  OBVIOUS
<1>9. e \in Turn /\ e.role = role /\ e.parts = all
  <2>1. ts[T] \in Turn
    BY <1>1, <1>2, TurnType
  <2> QED
    BY <1>1, <1>8, <2>1 DEF Turn
<1>10. PICK us : us = [ts EXCEPT ![T] = e]
  OBVIOUS
<1>11. [ts EXCEPT ![Len(ts)].parts = @ \o new] = us
  BY <1>1, <1>3, <1>6, <1>8, <1>10
<1>12. /\ us \in Seq(Turn) /\ Len(us) = T
       /\ \A t \in 1..T : us[t] = IF t = T THEN e ELSE ts[t]
       /\ DOMAIN us = 1..T
  BY <1>1, <1>2, <1>9, <1>10, ExceptSeq, LenProperties
<1>13. ASSUME NEW k \in 1..base
       PROVE  k \in 1..(base + c) /\ all[k] = old[k]
  BY <1>7
<1>14. ASSUME NEW k \in 1..c
       PROVE  base + k \in 1..(base + c) /\ all[base + k] = new[k]
  <2>1. base + k \in 1..(base + c) /\ ~ (base + k <= base) /\ (base + k) - base = k
    OBVIOUS
  <2> QED
    BY <1>7, <2>1
<1>15. ASSUME NEW s \in SendingsOf(ts)
       PROVE  /\ s \in SendingsOf(us) /\ At(us, s) = At(ts, s)
              /\ \A k \in 1..c : Before(s, << T, base + k >>)
  <2>0. PICK t \in 1..T :
          \E p \in 1..Len(ts[t].parts) : s = << t, p >> /\ s[1] = t /\ s[2] = p
    BY <1>1, SendingsAre
  <2>1. PICK p \in 1..Len(ts[t].parts) : s = << t, p >> /\ s[1] = t /\ s[2] = p
    BY <2>0
  <2>2. CASE t = T
    <3>1. p \in 1..base
      BY <1>3, <1>4, <2>1, <2>2
    <3>2. p \in 1..Len(us[t].parts) /\ us[t].parts[p] = ts[t].parts[p]
      BY <1>3, <1>7, <1>9, <1>12, <1>13, <2>2, <3>1
    <3>3. s \in SendingsOf(us)
      BY <1>12, <2>1, <3>2, SendingsAre
    <3>4. \A k \in 1..c : p < base + k
      BY <3>1
    <3> QED
      BY <2>1, <2>2, <3>2, <3>3, <3>4 DEF At, Before
  <2>3. CASE t # T
    <3>1. us[t] = ts[t] /\ t < T
      BY <1>12, <2>3
    <3>2. s \in SendingsOf(us)
      BY <1>12, <2>1, <3>1, SendingsAre
    <3> QED
      BY <2>1, <3>1, <3>2 DEF At, Before
  <2> QED
    BY <2>2, <2>3
<1>16. ASSUME NEW k \in 1..c
       PROVE  /\ << T, base + k >> \in SendingsOf(us)
              /\ At(us, << T, base + k >>) = new[k]
  <2>1. us[T].parts = all /\ base + k \in 1..Len(us[T].parts)
    BY <1>2, <1>7, <1>9, <1>12, <1>14
  <2>2. << T, base + k >> \in SendingsOf(us)
    BY <1>2, <1>12, <2>1, SendingsAre
  <2>3. PICK l : l = base + k
    OBVIOUS
  <2>4. At(us, << T, l >>) = all[l]
    BY <2>1 DEF At
  <2> QED
    BY <1>14, <2>2, <2>3, <2>4
<1>17. ASSUME NEW s \in SendingsOf(us)
       PROVE  s \in SendingsOf(ts) \/ \E k \in 1..c : s = << T, base + k >>
  <2>0. PICK t \in 1..T : \E p \in 1..Len(us[t].parts) : s = << t, p >>
    BY <1>12, SendingsAre
  <2>1. PICK p \in 1..Len(us[t].parts) : s = << t, p >>
    BY <2>0
  <2>2. CASE t # T
    <3>1. us[t] = ts[t] /\ t \in 1..Len(ts)
      BY <1>1, <1>12, <2>2
    <3> QED
      BY <2>1, <3>1, SendingsAre
  <2>3. CASE t = T
    <3>1. p \in 1..(base + c)
      BY <1>7, <1>9, <1>12, <2>1, <2>3
    <3>2. CASE p \in 1..base
      <4>1. p \in 1..Len(ts[T].parts) /\ T \in 1..Len(ts)
        BY <1>1, <1>2, <1>3, <1>4, <3>2
      <4> QED
        BY <2>1, <2>3, <4>1, SendingsAre
    <3>3. CASE p \notin 1..base
      <4>1. p - base \in 1..c /\ p = base + (p - base)
        BY <3>1, <3>3
      <4> QED
        BY <2>1, <2>3, <4>1
    <3> QED
      BY <3>2, <3>3
  <2> QED
    BY <2>2, <2>3
<1>18. NoneEmpty(ts) => NoneEmpty(us)
  <2>1. all # << >>
    <3>1. c > 0
      BY <1>5, EmptySeq
    <3>2. Len(all) > 0
      BY <1>7, <3>1
    <3>3. Len(<< >>) = 0
      OBVIOUS
    <3> QED
      BY <3>2, <3>3
  <2>2. \A t \in 1..T : us[t].parts = IF t = T THEN all ELSE ts[t].parts
    BY <1>9, <1>12
  <2> QED
    BY <1>2, <1>12, <2>1, <2>2 DEF NoneEmpty
<1>19. \A t \in 1..T : us[t].role = ts[t].role
  BY <1>1, <1>9, <1>12
<1>20. Alternates(ts) => Alternates(us)
  <2>1. ASSUME NEW t \in 1..(T - 1)
        PROVE  us[t].role = ts[t].role /\ us[t + 1].role = ts[t + 1].role
    <3>1. t \in 1..T /\ t + 1 \in 1..T
      OBVIOUS
    <3> QED
      BY <1>19, <3>1
  <2> QED
    BY <1>1, <1>12, <2>1 DEF Alternates
<1>21. GrownAt(ts, us, role, new, T, base)
  <2>1. T = Len(us) /\ Len(ts) <= T /\ us[T].role = role
    BY <1>1, <1>2, <1>9, <1>12
  <2> QED
    BY <1>1, <1>5, <1>12, <1>15, <1>16, <1>17, <1>18, <1>19, <1>20, <2>1 DEF GrownAt
<1> QED
  BY <1>11, <1>21 DEF Grown

-----------------------------------------------------------------------------
(* The inductive invariant: the turns say the messages taken, no more and  *)
(* no less.                                                                *)

Given(i) == PartsOf(conversation[i], i)

Says(ts, s, i) ==
  /\ ~ Hoisted(conversation[i])
  /\ ts[s[1]].role = TurnOf(conversation[i].role)
  /\ \E k \in 1..Len(Given(i)) : At(ts, s) = Given(i)[k]

FromMessages(ts, n) ==
  \A s \in SendingsOf(ts) : \E i \in 1..n : Says(ts, s, i)

IsSaid(ts, i) ==
  \A k \in 1..Len(Given(i)) :
    \E s \in SendingsOf(ts) : Says(ts, s, i) /\ At(ts, s) = Given(i)[k]

AllSaid(ts, n) ==
  \A i \in 1..n : ~ Hoisted(conversation[i]) => IsSaid(ts, i)

TurnsInv ==
  /\ NoneEmpty(turns) /\ Alternates(turns) /\ OrderOf(turns)
  /\ FromMessages(turns, taken) /\ AllSaid(turns, taken)
  /\ taken = -1 => turns = << >> /\ system = << >>

LegalRequest(r) ==
  /\ r.maxTokens \in Nat /\ r.thinking \in Int /\ r.temperature \in BOOLEAN
  /\ r.marks \subseteq (1..MaxMessages) \X Nat

(* What a message is sent as depends on the conversation alone.            *)
LEMMA SameNames ==
  ASSUME protocol' = protocol, conversation' = conversation
  PROVE  /\ CallsMade' = CallsMade
         /\ \A name : idsByName(name)' = idsByName(name)
         /\ \A id : toolNames(id)' = toolNames(id)
<1>1. CallsMade' = CallsMade
  BY Zenon DEF CallsMade, CallAt
<1>2. ASSUME NEW name PROVE idsByName(name)' = idsByName(name)
  BY <1>1, Zenon DEF idsByName, CallAt
<1>3. ASSUME NEW id PROVE toolNames(id)' = toolNames(id)
  BY <1>1, Zenon DEF toolNames, CallAt
<1> QED
  BY <1>1, <1>2, <1>3, Zenon

LEMMA SameParts ==
  ASSUME protocol' = protocol, conversation' = conversation, NEW m, NEW i
  PROVE  /\ PartsOf(m, i)' = PartsOf(m, i)
         /\ Hoisted(m)' = Hoisted(m)
<1>1. Kept(m)' = Kept(m)
  BY Zenon DEF Kept, Carried
<1>2. ContentParts(m, i)' = ContentParts(m, i)
  BY <1>1, Zenon DEF ContentParts
<1>3. ResultParts(m, i)' = ResultParts(m, i)
  <2>1. PICK a : a = idsByName(m.name)
    OBVIOUS
  <2>2. PICK b : b = toolNames(m.id)
    OBVIOUS
  <2>3. idsByName(m.name)' = a /\ toolNames(m.id)' = b
    BY <2>1, <2>2, SameNames, Zenon
  <2>4. PICK c : c = firstNonEmpty(<< m.id, a >>)
    OBVIOUS
  <2>5. PICK d : d = firstNonEmpty(<< m.name, b, m.id, "function" >>)
    OBVIOUS
  <2>6. CASE protocol = "anthropic" /\ c = ""
    <3>1. ResultParts(m, i) = << >>
      BY <2>1, <2>4, <2>6, Zenon DEF ResultParts
    <3>2. ResultParts(m, i)' = << >>
      BY <2>3, <2>4, <2>6, Zenon DEF ResultParts
    <3> QED
      BY <3>1, <3>2, Zenon
  <2>7. CASE protocol = "anthropic" /\ c # ""
    <3>1. ResultParts(m, i) = << Part("result", << i, 1 >>, c, "") >>
      BY <2>1, <2>4, <2>7, Zenon DEF ResultParts
    <3>2. ResultParts(m, i)' = << Part("result", << i, 1 >>, c, "") >>
      BY <2>3, <2>4, <2>7, Zenon DEF ResultParts
    <3> QED
      BY <3>1, <3>2, Zenon
  <2>8. CASE protocol # "anthropic"
    <3>1. ResultParts(m, i) = << Part("result", << i, 1 >>, "", d) >>
      BY <2>2, <2>5, <2>8, Zenon DEF ResultParts
    <3>2. ResultParts(m, i)' = << Part("result", << i, 1 >>, "", d) >>
      BY <2>3, <2>5, <2>8, Zenon DEF ResultParts
    <3> QED
      BY <3>1, <3>2, Zenon
  <2> QED
    BY <2>6, <2>7, <2>8, Zenon
<1>4. PartsOf(m, i)' = PartsOf(m, i)
  BY <1>2, <1>3, Zenon DEF PartsOf
<1>5. Hoisted(m)' = Hoisted(m)
  BY Zenon DEF Hoisted
<1> QED
  BY <1>4, <1>5

LEMMA SameSaid ==
  ASSUME protocol' = protocol, conversation' = conversation, NEW ts, NEW n
  PROVE  /\ FromMessages(ts, n) => FromMessages(ts, n)'
         /\ AllSaid(ts, n) => AllSaid(ts, n)'
<1>1. ASSUME NEW i
      PROVE  /\ Given(i)' = Given(i)
             /\ conversation[i]' = conversation[i]
             /\ Hoisted(conversation[i])' = Hoisted(conversation[i])
  <2>1. PICK m : m = conversation[i]
    OBVIOUS
  <2>2. m = conversation'[i]
    BY <2>1
  <2>3. PartsOf(m, i)' = PartsOf(m, i) /\ Hoisted(m)' = Hoisted(m)
    BY SameParts, Zenon
  <2>4. Given(i) = PartsOf(m, i) /\ Given(i)' = PartsOf(m, i)'
    BY <2>1, <2>2, Zenon DEF Given
  <2> QED
    BY <2>1, <2>2, <2>3, <2>4, Zenon
<1>2. ASSUME NEW s, NEW i, Says(ts, s, i) PROVE Says(ts, s, i)'
  BY <1>1, <1>2, Zenon DEF Says
<1>3. FromMessages(ts, n) => FromMessages(ts, n)'
  BY <1>2, Zenon DEF FromMessages
<1>4. ASSUME NEW i, IsSaid(ts, i) PROVE IsSaid(ts, i)'
  BY <1>1, <1>2, <1>4, Zenon DEF IsSaid
<1>5. AllSaid(ts, n) => AllSaid(ts, n)'
  BY <1>1, <1>4, Zenon DEF AllSaid
<1> QED
  BY <1>3, <1>5

(* Where the parts of a message come from.                                 *)
LEMMA GivenPlaces ==
  ASSUME ShapeInv, NEW i \in 1..Len(conversation)
  PROVE  /\ i \in Nat /\ conversation[i] \in Messages
         /\ Lists(Given(i), i, MeantAt(conversation[i]))
         /\ Len(Given(i)) \in Nat
<1>1. i \in Nat /\ conversation[i] \in Messages
  BY ElementOfSeq DEF ShapeInv
<1>2. Lists(Given(i), i, MeantAt(conversation[i]))
  BY <1>1, PartsOfList DEF Given
<1>3. Len(Given(i)) \in Nat
  BY <1>2, LenProperties DEF Lists
<1> QED
  BY <1>1, <1>2, <1>3

LEMMA SaidPlaces ==
  ASSUME ShapeInv, FromMessages(turns, taken), NEW s \in SendingsOf(turns)
  PROVE  \E a \in 1..taken : \E j \in Nat : At(turns, s).place = << a, j >>
<1>1. PICK a \in 1..taken : Says(turns, s, a)
  BY DEF FromMessages
<1>2. a \in 1..Len(conversation)
  <2>1. Len(conversation) \in Nat /\ taken \in -1..Len(conversation)
    BY LenProperties DEF ShapeInv
  <2> QED
    BY <2>1
<1>3. PICK k \in 1..Len(Given(a)) : At(turns, s) = Given(a)[k]
  BY <1>1 DEF Says
<1>4. \E j \in Nat : Given(a)[k].place = << a, j >>
  BY <1>2, GivenPlaces DEF Lists
<1> QED
  BY <1>3, <1>4

LEMMA BeforeOnce ==
  ASSUME NEW r, NEW s, r[1] \in Nat, r[2] \in Nat, s[1] \in Nat, s[2] \in Nat,
         Before(r, s)
  PROVE  ~ Before(s, r)
  BY DEF Before

(* Turns that grow by the next message's parts stay in order.              *)
LEMMA GrownInOrder ==
  ASSUME ShapeInv, OrderOf(turns), FromMessages(turns, taken),
         NEW i \in 1..Len(conversation), i = taken + 1,
         NEW us, NEW role, NEW new, new = Given(i),
         Grown(turns, us, role, new)
  PROVE  OrderOf(us)
<1>1. PICK T \in Nat : \E base \in Nat : GrownAt(turns, us, role, new, T, base)
  BY DEF Grown
<1>2. PICK base \in Nat : GrownAt(turns, us, role, new, T, base)
  BY <1>1
<1>3. PICK n \in Nat : n = Len(new)
  BY GivenPlaces
<1>4. Lists(new, i, MeantAt(conversation[i])) /\ i \in Nat
  BY GivenPlaces
<1>5. \A k \in 1..n : \E j \in Nat : new[k].place = << i, j >>
  BY <1>3, <1>4 DEF Lists
<1>6. taken \in Int /\ turns \in Seq(Turn)
  BY LenProperties DEF ShapeInv
<1>7. \A s \in SendingsOf(turns) : s[1] \in Nat /\ s[2] \in Nat
  BY <1>6, SendingsAre
<1>8. SUFFICES ASSUME NEW r \in SendingsOf(us), NEW s \in SendingsOf(us),
                      Before(r, s)
               PROVE  Before(At(us, r).place, At(us, s).place)
  BY DEF OrderOf
<1>9. CASE r \in SendingsOf(turns) /\ s \in SendingsOf(turns)
  <2>1. At(us, r) = At(turns, r) /\ At(us, s) = At(turns, s)
    BY <1>2, <1>9 DEF GrownAt
  <2> QED
    BY <1>8, <1>9, <2>1 DEF OrderOf
<1>10. ASSUME r \in SendingsOf(turns), NEW k \in 1..n, s = << T, base + k >>
       PROVE  Before(At(us, r).place, At(us, s).place)
  <2>1. PICK a \in 1..taken : \E j \in Nat : At(turns, r).place = << a, j >>
    BY <1>10, SaidPlaces
  <2>2. PICK j \in Nat : At(turns, r).place = << a, j >>
    BY <2>1
  <2>3. PICK l \in Nat : new[k].place = << i, l >>
    BY <1>5
  <2>4. At(us, r) = At(turns, r) /\ At(us, s) = new[k]
    BY <1>2, <1>3, <1>10 DEF GrownAt
  <2>5. a < i
    BY <1>6
  <2> QED
    BY <2>2, <2>3, <2>4, <2>5 DEF Before
<1>11. ASSUME s \in SendingsOf(turns), NEW k \in 1..n, r = << T, base + k >>
       PROVE  FALSE
  <2>1. Before(s, r)
    BY <1>2, <1>3, <1>11 DEF GrownAt
  <2>2. s[1] \in Nat /\ s[2] \in Nat
    BY <1>7, <1>11
  <2>3. PICK p \in Nat : p = base + k
    OBVIOUS
  <2>4. r[1] \in Nat /\ r[2] \in Nat
    BY <1>11, <2>3
  <2> QED
    BY <1>8, <2>1, <2>2, <2>4, BeforeOnce
<1>12. ASSUME NEW k \in 1..n, r = << T, base + k >>,
              NEW l \in 1..n, s = << T, base + l >>
       PROVE  Before(At(us, r).place, At(us, s).place)
  <2>1. PICK p \in Nat : p = base + k
    OBVIOUS
  <2>2. PICK q \in Nat : q = base + l
    OBVIOUS
  <2>3. p < q
    BY <1>8, <1>12, <2>1, <2>2 DEF Before
  <2>4. k < l
    BY <2>1, <2>2, <2>3
  <2>5. At(us, r) = new[k] /\ At(us, s) = new[l]
    BY <1>2, <1>3, <1>12 DEF GrownAt
  <2> QED
    BY <1>3, <1>4, <2>4, <2>5 DEF Lists
<1>13. \A x \in SendingsOf(us) :
         x \in SendingsOf(turns) \/ \E k \in 1..n : x = << T, base + k >>
  BY <1>2, <1>3 DEF GrownAt
<1> QED
  BY <1>9, <1>10, <1>11, <1>12, <1>13

(* And they say that message too.                                          *)
LEMMA GrownSays ==
  ASSUME ShapeInv, FromMessages(turns, taken), AllSaid(turns, taken),
         NEW i \in 1..Len(conversation), i = taken + 1,
         ~ Hoisted(conversation[i]),
         NEW us, NEW role, role = TurnOf(conversation[i].role),
         NEW new, new = Given(i), Grown(turns, us, role, new)
  PROVE  FromMessages(us, i) /\ AllSaid(us, i)
<1>1. PICK T \in Nat : \E base \in Nat : GrownAt(turns, us, role, new, T, base)
  BY DEF Grown
<1>2. PICK base \in Nat : GrownAt(turns, us, role, new, T, base)
  BY <1>1
<1>3. PICK n \in Nat : n = Len(new)
  BY GivenPlaces
<1>4. taken \in Int /\ turns \in Seq(Turn)
  BY LenProperties DEF ShapeInv
<1>5. i \in 1..i /\ (\A a \in 1..taken : a \in 1..i)
      /\ \A a \in 1..i : a \in 1..taken \/ a = i
  BY <1>4
<1>6. ASSUME NEW s \in SendingsOf(turns), NEW a, Says(turns, s, a)
      PROVE  s \in SendingsOf(us) /\ At(us, s) = At(turns, s) /\ Says(us, s, a)
  <2>1. s \in SendingsOf(us) /\ At(us, s) = At(turns, s)
    BY <1>2 DEF GrownAt
  <2>2. s[1] \in 1..Len(turns)
    BY <1>4, SendingsAre
  <2>3. us[s[1]].role = turns[s[1]].role
    BY <1>2, <2>2 DEF GrownAt
  <2> QED
    BY <1>6, <2>1, <2>3 DEF Says
<1>7. ASSUME NEW k \in 1..n
      PROVE  /\ << T, base + k >> \in SendingsOf(us)
             /\ At(us, << T, base + k >>) = new[k]
             /\ Says(us, << T, base + k >>, i)
  <2>1. PICK s : s = << T, base + k >>
    OBVIOUS
  <2>2. s \in SendingsOf(us) /\ At(us, s) = new[k]
    BY <1>2, <1>3, <2>1 DEF GrownAt
  <2>3. s[1] = T
    BY <2>1
  <2>4. us[T].role = role
    BY <1>2 DEF GrownAt
  <2>5. Says(us, s, i)
    BY <1>3, <2>2, <2>3, <2>4 DEF Says
  <2> QED
    BY <2>1, <2>2, <2>5
<1>8. FromMessages(us, i)
  <2>1. SUFFICES ASSUME NEW s \in SendingsOf(us)
                 PROVE  \E a \in 1..i : Says(us, s, a)
    BY DEF FromMessages
  <2>2. CASE s \in SendingsOf(turns)
    <3>1. PICK a \in 1..taken : Says(turns, s, a)
      BY <2>2 DEF FromMessages
    <3> QED
      BY <1>5, <1>6, <2>2, <3>1
  <2>3. CASE \E k \in 1..n : s = << T, base + k >>
    BY <1>5, <1>7, <2>3
  <2> QED
    BY <1>2, <1>3, <2>2, <2>3 DEF GrownAt
<1>9. AllSaid(us, i)
  <2>1. SUFFICES ASSUME NEW a \in 1..i, ~ Hoisted(conversation[a])
                 PROVE  IsSaid(us, a)
    BY DEF AllSaid
  <2>2. CASE a \in 1..taken
    <3>1. IsSaid(turns, a)
      BY <2>1, <2>2 DEF AllSaid
    <3> QED
      BY <1>6, <3>1 DEF IsSaid
  <2>3. CASE a = i
    BY <1>3, <1>7, <2>3 DEF IsSaid
  <2> QED
    BY <1>5, <2>2, <2>3
<1> QED
  BY <1>8, <1>9

-----------------------------------------------------------------------------
(* Every step keeps it.                                                    *)

LEMMA ConversationBounds ==
  ASSUME ShapeInv
  PROVE  /\ Len(conversation) \in Nat /\ taken \in Int /\ taken >= -1
         /\ taken <= Len(conversation) /\ MaxMessages \in Nat
         /\ \A i \in 1..taken : i \in 1..Len(conversation)
         /\ turns \in Seq(Turn) /\ Len(turns) \in Nat
         /\ DOMAIN turns = 1..Len(turns)
         /\ DOMAIN conversation = 1..Len(conversation)
<1>1. /\ Len(conversation) \in Nat /\ taken \in -1..Len(conversation)
      /\ turns \in Seq(Turn) /\ Len(turns) \in Nat
      /\ DOMAIN turns = 1..Len(turns)
      /\ DOMAIN conversation = 1..Len(conversation)
  BY LenProperties DEF ShapeInv
<1> QED
  BY <1>1, MessagesAssumption

LEMMA CurrentIs ==
  ASSUME ShapeInv, taken \in 0..(Len(conversation) - 1)
  PROVE  \E i \in 1..Len(conversation) :
           i = taken + 1 /\ Current = conversation[i] /\ i \in 0..Len(conversation)
<1>1. Len(conversation) \in Nat /\ taken \in Int
  BY ConversationBounds
<1>2. taken + 1 \in 1..Len(conversation) /\ taken + 1 \in 0..Len(conversation)
  BY <1>1
<1> QED
  BY <1>2 DEF Current

(* Taking a message: the turns stay, or grow by what it is given as.       *)
LEMMA TakeGrows ==
  ASSUME ShapeInv, Take
  PROVE  \E i \in 1..Len(conversation) : \E us :
           /\ i = taken + 1 /\ i \in 0..Len(conversation)
           /\ ~ Hoisted(conversation[i])
           /\ taken' = i /\ turns' = us
           /\ \/ us = turns /\ Given(i) = << >>
              \/ Grown(turns, us, TurnOf(conversation[i].role), Given(i))
<1>1. taken \in 0..(Len(conversation) - 1)
  BY DEF Take
<1>2. PICK i \in 1..Len(conversation) :
        i = taken + 1 /\ Current = conversation[i] /\ i \in 0..Len(conversation)
  BY <1>1, CurrentIs
<1>3. ~ Hoisted(conversation[i]) /\ taken' = i
  BY <1>2 DEF Take
<1>4. PICK new : new = Given(i)
  OBVIOUS
<1>5. PICK role : role = TurnOf(conversation[i].role)
  OBVIOUS
<1>6. role \in { "assistant", "user" }
  BY <1>5 DEF TurnOf
<1>7. new \in Seq(PartRec)
  BY <1>4, GivenPlaces DEF Lists
<1>8. turns' = Extended(role, new)
  BY <1>2, <1>3, <1>4, <1>5 DEF Take, Given
<1>9. PICK us : us = turns'
  OBVIOUS
<1>10. turns \in Seq(Turn) /\ Len(turns) \in Nat
  BY ConversationBounds
<1>11. turns # << >> <=> Len(turns) > 0
  BY <1>10, EmptySeq
<1>12. CASE new = << >>
  <2>1. us = turns
    BY <1>8, <1>9, <1>12 DEF Extended
  <2> QED
    BY <1>2, <1>3, <1>4, <1>9, <1>12, <2>1
<1>13. CASE new # << >> /\ turns # << >> /\ turns[Len(turns)].role = role
  <2>1. us = [turns EXCEPT ![Len(turns)].parts = @ \o new]
    BY <1>8, <1>9, <1>13 DEF Extended
  <2>2. Grown(turns, us, role, new)
    BY <1>6, <1>7, <1>10, <1>11, <1>13, <2>1, MergedGrows
  <2> QED
    BY <1>2, <1>3, <1>4, <1>5, <1>9, <2>2
<1>14. CASE new # << >> /\ ~ (turns # << >> /\ turns[Len(turns)].role = role)
  <2>1. us = Append(turns, [role |-> role, parts |-> new])
    BY <1>8, <1>9, <1>14 DEF Extended
  <2>2. Grown(turns, us, role, new)
    BY <1>6, <1>7, <1>10, <1>11, <1>14, <2>1, AppendedGrows
  <2> QED
    BY <1>2, <1>3, <1>4, <1>5, <1>9, <2>2
<1> QED
  BY <1>12, <1>13, <1>14

LEMMA ShapeStep ==
  ASSUME ShapeInv, [Next]_vars
  PROVE  ShapeInv'
<1>1. ASSUME NEW m \in Messages, Say(m) PROVE ShapeInv'
  <2>1. conversation \in Seq(Messages) /\ Len(conversation) < MaxMessages
    BY <1>1 DEF ShapeInv, Say
  <2>2. PICK c : c = Append(conversation, m)
    OBVIOUS
  <2>3. c \in Seq(Messages) /\ Len(c) = Len(conversation) + 1
    BY <2>1, <2>2, AppendProperties
  <2>4. Len(c) <= MaxMessages /\ taken \in -1..Len(c)
    BY <2>1, <2>3, ConversationBounds
  <2>5. conversation' = c /\ UNCHANGED << protocol, taken, system, turns >>
    BY <1>1, <2>2 DEF Say
  <2> QED
    BY <2>3, <2>4, <2>5 DEF ShapeInv
<1>2. CASE Begin
  <2>1. taken' = 0 /\ UNCHANGED << protocol, conversation, system, turns >>
    BY <1>2 DEF Begin
  <2>2. 0 \in -1..Len(conversation)
    BY ConversationBounds
  <2> QED
    BY <2>1, <2>2 DEF ShapeInv
<1>3. CASE Hoist
  <2>1. taken \in 0..(Len(conversation) - 1)
    BY <1>3 DEF Hoist
  <2>2. PICK i \in 1..Len(conversation) : i = taken + 1 /\ i \in 0..Len(conversation)
    BY <2>1, CurrentIs
  <2>3. taken' = i /\ (system' = system \/ system' = Append(system, i))
        /\ UNCHANGED << protocol, conversation, turns >>
    BY <1>3, <2>2 DEF Hoist
  <2>4. i \in 1..MaxMessages /\ i \in -1..Len(conversation)
    BY ConversationBounds DEF ShapeInv
  <2>5. system' \in Seq(1..MaxMessages)
    <3>1. PICK S : S = 1..MaxMessages
      OBVIOUS
    <3>2. system \in Seq(S) /\ i \in S
      BY <2>4, <3>1 DEF ShapeInv
    <3>3. Append(system, i) \in Seq(S)
      BY <3>2, AppendProperties
    <3> QED
      BY <2>3, <3>1, <3>2, <3>3
  <2> QED
    BY <2>3, <2>4, <2>5 DEF ShapeInv
<1>4. CASE Take
  <2>1. PICK i \in 1..Len(conversation) : \E us :
           /\ i = taken + 1 /\ i \in 0..Len(conversation)
           /\ ~ Hoisted(conversation[i])
           /\ taken' = i /\ turns' = us
           /\ \/ us = turns /\ Given(i) = << >>
              \/ Grown(turns, us, TurnOf(conversation[i].role), Given(i))
    BY <1>4, TakeGrows
  <2>2. turns' \in Seq(Turn)
    BY <2>1, ConversationBounds DEF Grown, GrownAt
  <2>3. UNCHANGED << protocol, conversation, system >>
    BY <1>4 DEF Take
  <2>4. i \in -1..Len(conversation) /\ taken' = i
    BY <2>1, ConversationBounds
  <2> QED
    BY <2>2, <2>3, <2>4 DEF ShapeInv
<1>5. CASE Send
  BY <1>5 DEF Send, ShapeInv
<1>6. CASE Rest \/ UNCHANGED vars
  BY <1>6 DEF Rest, vars, ShapeInv
<1> QED
  BY <1>1, <1>2, <1>3, <1>4, <1>5, <1>6 DEF Next

LEMMA CarriedOver ==
  ASSUME protocol' = protocol, conversation' = conversation,
         NEW ts, NEW n, turns' = ts, taken' = n,
         NoneEmpty(ts), Alternates(ts), OrderOf(ts),
         FromMessages(ts, n), AllSaid(ts, n),
         taken' = -1 => turns' = << >> /\ system' = << >>
  PROVE  TurnsInv'
<1>1. FromMessages(ts, n)' /\ AllSaid(ts, n)'
  BY SameSaid, Zenon
<1>2. FromMessages(turns, taken)' /\ AllSaid(turns, taken)'
  BY <1>1, Zenon
<1>3. NoneEmpty(turns)' /\ Alternates(turns)' /\ OrderOf(turns)'
  BY Zenon
<1> QED
  BY <1>2, <1>3, Zenon DEF TurnsInv

LEMMA NoTurns ==
  /\ SendingsOf(<< >>) = {}
  /\ NoneEmpty(<< >>) /\ Alternates(<< >>) /\ OrderOf(<< >>)
  /\ \A n : FromMessages(<< >>, n)
<1>1. DOMAIN << >> = {} /\ Len(<< >>) = 0
  OBVIOUS
<1>2. SendingsOf(<< >>) = {}
  BY <1>1 DEF SendingsOf
<1>3. NoneEmpty(<< >>) /\ Alternates(<< >>)
  BY <1>1 DEF NoneEmpty, Alternates
<1>4. OrderOf(<< >>) /\ \A n : FromMessages(<< >>, n)
  BY <1>2 DEF OrderOf, FromMessages
<1> QED
  BY <1>2, <1>3, <1>4

LEMMA TurnsStep ==
  ASSUME ShapeInv, TurnsInv, [Next]_vars
  PROVE  TurnsInv'
<1>1. ASSUME NEW m \in Messages, Say(m) PROVE TurnsInv'
  <2>1. taken = -1 /\ taken' = -1 /\ turns' = turns /\ system' = system
    BY <1>1 DEF Say
  <2>2. turns' = << >> /\ system' = << >>
    BY <2>1 DEF TurnsInv
  <2>3. SendingsOf(turns') = {} /\ NoneEmpty(turns)' /\ Alternates(turns)'
        /\ OrderOf(turns)'
    BY <2>2, NoTurns, Zenon
  <2>4. 1..taken' = {}
    BY <2>1
  <2>5. FromMessages(turns, taken)'
    BY <2>3, Zenon DEF FromMessages
  <2>6. AllSaid(turns, taken)'
    BY <2>4, Zenon DEF AllSaid
  <2> QED
    BY <2>2, <2>3, <2>5, <2>6, Zenon DEF TurnsInv
<1>2. CASE Begin
  <2>1. /\ taken = -1 /\ taken' = 0 /\ turns' = turns
        /\ protocol' = protocol /\ conversation' = conversation
    BY <1>2 DEF Begin
  <2>2. turns' = << >>
    BY <2>1 DEF TurnsInv
  <2>3. 1..0 = {} /\ taken' # -1
    BY <2>1
  <2>4. AllSaid(<< >>, 0)
    BY <2>3 DEF AllSaid
  <2> QED
    BY <2>1, <2>2, <2>3, <2>4, NoTurns, CarriedOver, Zenon
<1>3. CASE Hoist
  <2>1. taken \in 0..(Len(conversation) - 1) /\ Hoisted(Current)
    BY <1>3 DEF Hoist
  <2>2. PICK i \in 1..Len(conversation) :
          i = taken + 1 /\ Current = conversation[i] /\ i \in 0..Len(conversation)
    BY <2>1, CurrentIs
  <2>3. /\ taken' = i /\ turns' = turns
        /\ protocol' = protocol /\ conversation' = conversation
    BY <1>3, <2>2 DEF Hoist
  <2>4. (\A a \in 1..taken : a \in 1..i)
        /\ (\A a \in 1..i : a \in 1..taken \/ a = i) /\ taken' # -1
    BY <2>2, <2>3, ConversationBounds
  <2>5. PICK ts : ts = turns
    OBVIOUS
  <2>6. FromMessages(ts, i)
    BY <2>4, <2>5 DEF TurnsInv, FromMessages
  <2>7. AllSaid(ts, i)
    BY <2>1, <2>2, <2>4, <2>5 DEF TurnsInv, AllSaid
  <2>8. NoneEmpty(ts) /\ Alternates(ts) /\ OrderOf(ts)
    BY <2>5 DEF TurnsInv
  <2> QED
    BY <2>3, <2>4, <2>5, <2>6, <2>7, <2>8, CarriedOver, Zenon
<1>4. CASE Take
  <2>1. PICK i \in 1..Len(conversation) : \E us :
           /\ i = taken + 1 /\ i \in 0..Len(conversation)
           /\ ~ Hoisted(conversation[i])
           /\ taken' = i /\ turns' = us
           /\ \/ us = turns /\ Given(i) = << >>
              \/ Grown(turns, us, TurnOf(conversation[i].role), Given(i))
    BY <1>4, TakeGrows
  <2>2. PICK us :
           /\ i = taken + 1 /\ i \in 0..Len(conversation)
           /\ ~ Hoisted(conversation[i])
           /\ taken' = i /\ turns' = us
           /\ \/ us = turns /\ Given(i) = << >>
              \/ Grown(turns, us, TurnOf(conversation[i].role), Given(i))
    BY <2>1
  <2>3. protocol' = protocol /\ conversation' = conversation /\ taken' # -1
    BY <1>4, <2>2 DEF Take
  <2>4. (\A a \in 1..taken : a \in 1..i)
        /\ (\A a \in 1..i : a \in 1..taken \/ a = i)
    BY <2>2, ConversationBounds
  <2>5. CASE us = turns /\ Given(i) = << >>
    <3>1. FromMessages(us, i)
      BY <2>4, <2>5 DEF TurnsInv, FromMessages
    <3>2. 1..Len(Given(i)) = {}
      BY <2>5
    <3>3. IsSaid(us, i)
      BY <3>2 DEF IsSaid
    <3>4. AllSaid(us, i)
      BY <2>4, <2>5, <3>3 DEF TurnsInv, AllSaid
    <3>5. NoneEmpty(us) /\ Alternates(us) /\ OrderOf(us)
      BY <2>5 DEF TurnsInv
    <3> QED
      BY <2>2, <2>3, <3>1, <3>4, <3>5, CarriedOver, Zenon
  <2>6. CASE Grown(turns, us, TurnOf(conversation[i].role), Given(i))
    <3>1. PICK role : role = TurnOf(conversation[i].role)
      OBVIOUS
    <3>2. PICK new : new = Given(i)
      OBVIOUS
    <3>3. Grown(turns, us, role, new)
      BY <2>6, <3>1, <3>2
    <3>4. OrderOf(us)
      BY <2>2, <3>2, <3>3, GrownInOrder DEF TurnsInv
    <3>5. FromMessages(us, i) /\ AllSaid(us, i)
      BY <2>2, <3>1, <3>2, <3>3, GrownSays DEF TurnsInv
    <3>6. NoneEmpty(us) /\ Alternates(us)
      BY <3>3 DEF TurnsInv, Grown, GrownAt
    <3> QED
      BY <2>2, <2>3, <3>4, <3>5, <3>6, CarriedOver, Zenon
  <2> QED
    BY <2>2, <2>5, <2>6
<1>5. CASE Send \/ Rest \/ UNCHANGED vars
  <2>1. /\ protocol' = protocol /\ conversation' = conversation
        /\ taken' = taken /\ turns' = turns /\ system' = system
    BY <1>5 DEF Send, Rest, vars
  <2>2. PICK ts : ts = turns
    OBVIOUS
  <2>3. PICK n : n = taken
    OBVIOUS
  <2>4. /\ NoneEmpty(ts) /\ Alternates(ts) /\ OrderOf(ts)
        /\ FromMessages(ts, n) /\ AllSaid(ts, n)
    BY <2>2, <2>3 DEF TurnsInv
  <2>5. taken' = -1 => turns' = << >> /\ system' = << >>
    BY <2>1 DEF TurnsInv
  <2>6. turns' = ts /\ taken' = n
    BY <2>1, <2>2, <2>3
  <2> QED
    BY <2>1, <2>4, <2>5, <2>6, CarriedOver, Zenon
<1> QED
  BY <1>1, <1>2, <1>3, <1>4, <1>5 DEF Next

-----------------------------------------------------------------------------
(* The knobs and the request.                                              *)

LEMMA KnobsType ==
  ASSUME NEW k \in Knobs
  PROVE  /\ k.maxTokens \in Int /\ k.maxCompletion \in Int /\ k.budget \in Int
         /\ k.maxOutput \in Int /\ k.temperature \in BOOLEAN
<1>1. k \in [maxTokens : Int, maxCompletion : Int, budget : Int,
             effort : STRING, maxOutput : Int, temperature : BOOLEAN,
             zeroThinking : BOOLEAN, noCache : BOOLEAN]
  BY MessagesAssumption
<1> QED
  BY <1>1

LEMMA BudgetIs ==
  ASSUME NEW k \in Knobs
  PROVE  Budget(k) \in Int /\ (k.budget > 0 => Budget(k) = k.budget)
<1>1. EffortBudget(k.effort) \in Int
  <2>1. \/ EffortBudget(k.effort) = 0 \/ EffortBudget(k.effort) = 1024
        \/ EffortBudget(k.effort) = 8192 \/ EffortBudget(k.effort) = 16384
        \/ EffortBudget(k.effort) = 24576 \/ EffortBudget(k.effort) = -2
    BY DEF EffortBudget, Absent
  <2> QED
    BY <2>1
<1> QED
  BY <1>1, KnobsType DEF Budget, Absent

LEMMA MaxTokensIs ==
  ASSUME NEW k \in Knobs
  PROVE  /\ MaxTokens(k) \in Nat /\ MaxTokens(k) > 0
         /\ k.maxTokens + k.maxCompletion > 0 =>
              MaxTokens(k) \in { k.maxTokens, k.maxCompletion }
  BY KnobsType DEF MaxTokens, DefaultMaxTokens

LEMMA RoomIs ==
  ASSUME NEW k \in Knobs, Budget(k) > 0
  PROVE  RoomFor(k) \in Nat /\ RoomFor(k) > Budget(k)
  BY BudgetIs, MaxTokensIs DEF RoomFor

(* What is asked with some settings.                                       *)
Asked(k, r) ==
  /\ r.maxTokens \in Nat /\ r.thinking \in Int /\ r.temperature \in BOOLEAN
  /\ r.maxTokens > 0
  /\ k.budget > 0 => r.thinking = k.budget
  /\ protocol = "anthropic" /\ r.thinking # Absent =>
       r.maxTokens > r.thinking /\ ~ r.temperature
  /\ protocol = "gemini" /\ r.thinking = 0 => k.zeroThinking
  /\ r.thinking <= 0 /\ k.maxTokens + k.maxCompletion > 0 =>
       r.maxTokens \in { k.maxTokens, k.maxCompletion }

LEMMA AnthropicAsks ==
  ASSUME NEW k \in Knobs, protocol = "anthropic", NEW r, r = AnthropicRequest(k)
  PROVE  Asked(k, r)
<1>1. PICK b \in Int : b = Budget(k)
  BY BudgetIs
<1>2. PICK x \in Nat : x = MaxTokens(k)
  BY MaxTokensIs
<1>3. /\ r.maxTokens = IF b > 0 THEN RoomFor(k) ELSE x
      /\ r.thinking = IF b > 0 THEN b ELSE Absent
      /\ r.temperature = (k.temperature /\ b <= 0)
  BY <1>1, <1>2 DEF AnthropicRequest
<1>4. r.temperature \in BOOLEAN /\ (b > 0 => ~ r.temperature)
  <2>1. CASE b <= 0
    <3>1. r.temperature = k.temperature
      BY <1>3, <2>1, KnobsType
    <3> QED
      BY <2>1, <3>1, KnobsType
  <2>2. CASE ~ (b <= 0)
    BY <1>3, <2>2
  <2> QED
    BY <2>1, <2>2
<1>5. k.budget > 0 => b = k.budget
  BY <1>1, BudgetIs
<1>6. b > 0 => RoomFor(k) \in Nat /\ RoomFor(k) > b
  BY <1>1, RoomIs
<1>7. /\ x > 0
      /\ k.maxTokens + k.maxCompletion > 0 => x \in { k.maxTokens, k.maxCompletion }
  BY <1>2, MaxTokensIs
<1>8. protocol # "gemini"
  OBVIOUS
<1>9. CASE b > 0
  <2>1. r.maxTokens \in Nat /\ r.maxTokens > b /\ r.thinking = b
    BY <1>3, <1>6, <1>9
  <2>2. r.maxTokens > 0 /\ ~ (r.thinking <= 0)
    BY <1>9, <2>1
  <2> QED
    BY <1>4, <1>5, <1>8, <1>9, <2>1, <2>2 DEF Asked
<1>10. CASE ~ (b > 0)
  <2>1. r.maxTokens = x /\ r.thinking = -2
    BY <1>3, <1>10 DEF Absent
  <2>2. ~ (k.budget > 0)
    BY <1>5, <1>10
  <2> QED
    BY <1>4, <1>7, <1>8, <2>1, <2>2 DEF Asked, Absent
<1> QED
  BY <1>9, <1>10

LEMMA GeminiAsks ==
  ASSUME NEW k \in Knobs, protocol = "gemini", NEW r, r = GeminiRequest(k)
  PROVE  Asked(k, r)
<1>1. PICK b \in Int : b = Budget(k)
  BY BudgetIs
<1>2. PICK x \in Nat : x = MaxTokens(k)
  BY MaxTokensIs
<1>3. /\ r.maxTokens = x
      /\ r.thinking = IF b = 0 /\ ~ k.zeroThinking THEN -2 ELSE b
      /\ r.temperature = k.temperature
  BY <1>1, <1>2 DEF GeminiRequest, Absent
<1>4. r.temperature \in BOOLEAN
  BY <1>3, KnobsType
<1>5. k.budget > 0 => b = k.budget
  BY <1>1, BudgetIs
<1>6. /\ x > 0
      /\ k.maxTokens + k.maxCompletion > 0 => x \in { k.maxTokens, k.maxCompletion }
  BY <1>2, MaxTokensIs
<1>7. protocol # "anthropic"
  OBVIOUS
<1>8. /\ r.thinking \in Int /\ (k.budget > 0 => r.thinking = k.budget)
      /\ r.thinking = 0 => k.zeroThinking
  BY <1>3, <1>5, KnobsType
<1> QED
  BY <1>3, <1>4, <1>6, <1>7, <1>8 DEF Asked

(* Cache marks are on places of the conversation.                          *)
LEMMA SystemMark ==
  ASSUME ShapeInv, system # << >>
  PROVE  << system[Len(system)], 1 >> \in (1..MaxMessages) \X Nat
<1>1. PICK S : S = 1..MaxMessages
  OBVIOUS
<1>2. system \in Seq(S)
  BY <1>1 DEF ShapeInv
<1>3. Len(system) \in 1..Len(system)
  BY <1>2, EmptySeq, LenProperties
<1>4. system[Len(system)] \in S
  BY <1>2, <1>3, ElementOfSeq
<1> QED
  BY <1>1, <1>4

LEMMA TurnMark ==
  ASSUME ShapeInv, TurnsInv, turns # << >>
  PROVE  turns[1].parts[Len(turns[1].parts)].place \in (1..MaxMessages) \X Nat
<1>1. turns \in Seq(Turn) /\ 1 \in 1..Len(turns)
  BY ConversationBounds, EmptySeq
<1>2. turns[1].parts \in Seq(PartRec) /\ turns[1].parts # << >>
  BY <1>1, TurnType DEF TurnsInv, NoneEmpty
<1>3. PICK p : p = Len(turns[1].parts)
  OBVIOUS
<1>4. p \in 1..Len(turns[1].parts)
  BY <1>2, <1>3, EmptySeq, LenProperties
<1>5. PICK s : s = << 1, p >>
  OBVIOUS
<1>6. s \in SendingsOf(turns)
  BY <1>1, <1>4, <1>5, SendingsAre
<1>7. PICK a \in 1..taken : \E j \in Nat : At(turns, s).place = << a, j >>
  BY <1>6, SaidPlaces DEF TurnsInv
<1>8. a \in 1..MaxMessages
  BY ConversationBounds DEF ShapeInv
<1>9. At(turns, s) = turns[1].parts[p]
  BY <1>5 DEF At
<1>10. PICK j \in Nat : At(turns, s).place = << a, j >>
  BY <1>7
<1>11. << a, j >> \in (1..MaxMessages) \X Nat
  BY <1>8
<1> QED
  BY <1>3, <1>9, <1>10, <1>11, Zenon

LEMMA MarksArePlaces ==
  ASSUME ShapeInv, TurnsInv
  PROVE  CacheBreakpoints \subseteq (1..MaxMessages) \X Nat
<1>1. SUFFICES ASSUME NEW x \in CacheBreakpoints
               PROVE  x \in (1..MaxMessages) \X Nat
  OBVIOUS
<1>2. CASE system # << >> /\ x = << system[Len(system)], 1 >>
  BY <1>2, SystemMark
<1>3. CASE turns # << >> /\ x = turns[1].parts[Len(turns[1].parts)].place
  BY <1>3, TurnMark
<1> QED
  BY <1>2, <1>3, Zenon DEF CacheBreakpoints

RequestInv ==
  /\ knobs \in Knobs \cup { Unset }
  /\ LegalRequest(request)
  /\ Sent => Asked(knobs, request)

LEMMA AskedIsLegal ==
  ASSUME NEW k, NEW r, Asked(k, r), r.marks \subseteq (1..MaxMessages) \X Nat
  PROVE  LegalRequest(r)
  BY DEF Asked, LegalRequest

LEMMA RequestStep ==
  ASSUME ShapeInv, TurnsInv, RequestInv, [Next]_vars
  PROVE  RequestInv'
<1>1. ASSUME UNCHANGED << protocol, knobs, request >>
      PROVE  RequestInv'
  <2>1. protocol' = protocol /\ knobs' = knobs /\ request' = request
    BY <1>1
  <2>2. Sent' <=> Sent
    BY <2>1 DEF Sent
  <2>3. Asked(knobs, request)' <=> Asked(knobs, request)
    BY <2>1, Zenon DEF Asked
  <2>4. LegalRequest(request)'
    BY <2>1, Zenon DEF RequestInv
  <2> QED
    BY <2>1, <2>2, <2>3, <2>4, Zenon DEF RequestInv
<1>2. CASE Send
  <2>1. protocol' = protocol /\ knobs' \in Knobs
    BY <1>2 DEF Send
  <2>2. PICK k \in Knobs : knobs' = k
    BY <2>1
  <2>3. PICK r : request' = r
    OBVIOUS
  <2>4. r = IF protocol = "anthropic" THEN AnthropicRequest(k) ELSE GeminiRequest(k)
    BY <1>2, <2>2, <2>3, Zenon DEF Send
  <2>5. protocol \in { "anthropic", "gemini" } /\ "anthropic" # "gemini"
    BY DEF ShapeInv
  <2>6. ASSUME protocol = "anthropic"
        PROVE  Asked(k, r) /\ LegalRequest(r)
    <3>1. r = AnthropicRequest(k)
      BY <2>4, <2>6
    <3>2. Asked(k, r)
      BY <2>6, <3>1, AnthropicAsks
    <3>3. r.marks = IF k.noCache THEN {} ELSE CacheBreakpoints
      BY <3>1 DEF AnthropicRequest
    <3>4. r.marks \subseteq (1..MaxMessages) \X Nat
      BY <3>3, MarksArePlaces
    <3> QED
      BY <3>2, <3>4, AskedIsLegal
  <2>7. ASSUME protocol = "gemini"
        PROVE  Asked(k, r) /\ LegalRequest(r)
    <3>1. r = GeminiRequest(k)
      BY <2>4, <2>5, <2>7
    <3>2. Asked(k, r)
      BY <2>7, <3>1, GeminiAsks
    <3>3. r.marks = {}
      BY <3>1 DEF GeminiRequest
    <3> QED
      BY <3>2, <3>3, AskedIsLegal
  <2>8. Asked(k, r) /\ LegalRequest(r)
    BY <2>5, <2>6, <2>7
  <2>9. Asked(knobs, request)'
    BY <2>1, <2>2, <2>3, <2>8, Zenon DEF Asked
  <2>10. LegalRequest(request)'
    BY <2>3, <2>8, Zenon
  <2> QED
    BY <2>1, <2>9, <2>10, Zenon DEF RequestInv
<1>3. CASE (\E m \in Messages : Say(m)) \/ Begin \/ Hoist \/ Take \/ Rest
           \/ UNCHANGED vars
  <2>1. UNCHANGED << protocol, knobs, request >>
    BY <1>3 DEF Say, Begin, Hoist, Take, Rest, vars
  <2> QED
    BY <1>1, <2>1
<1> QED
  BY <1>2, <1>3 DEF Next

-----------------------------------------------------------------------------
(* What holds in every state.                                              *)

IInv == ShapeInv /\ TurnsInv /\ RequestInv

LEMMA InitIInv ==
  ASSUME Init
  PROVE  IInv
<1>1. ShapeInv
  <2>1. << >> \in Seq(Messages) /\ Len(<< >>) = 0 /\ << >> \in Seq(1..MaxMessages)
        /\ << >> \in Seq(Turn)
    OBVIOUS
  <2>2. -1 \in -1..0 /\ 0 <= MaxMessages
    BY MessagesAssumption
  <2>3. /\ protocol \in { "anthropic", "gemini" } /\ conversation = << >>
        /\ taken = -1 /\ system = << >> /\ turns = << >>
    BY DEF Init
  <2> QED
    BY <2>1, <2>2, <2>3 DEF ShapeInv
<1>2. TurnsInv
  <2>1. turns = << >> /\ system = << >> /\ taken = -1
    BY DEF Init
  <2>2. 1..taken = {}
    BY <2>1
  <2>3. AllSaid(turns, taken)
    BY <2>2 DEF AllSaid
  <2> QED
    BY <2>1, <2>3, NoTurns, Zenon DEF TurnsInv
<1>3. RequestInv
  <2>1. knobs = Unset /\ request = NoRequest
    BY Zenon DEF Init
  <2>2. LegalRequest(NoRequest)
    BY DEF LegalRequest, NoRequest, Absent
  <2> QED
    BY <2>1, <2>2, Zenon DEF RequestInv, Sent
<1> QED
  BY <1>1, <1>2, <1>3 DEF IInv

THEOREM Invariance == Spec => []IInv
<1>1. Init => IInv
  BY InitIInv
<1>2. IInv /\ [Next]_vars => IInv'
  BY ShapeStep, TurnsStep, RequestStep DEF IInv
<1> QED
  BY <1>1, <1>2, PTL DEF Spec

(* Whatever a conversation holds and however long it is, its turns, system *)
(* prompt and request keep their types.                                    *)
THEOREM TypeCorrect == Spec => []TypeOK
<1>1. ASSUME IInv PROVE TypeOK
  <2>1. ShapeInv /\ TurnsInv /\ RequestInv
    BY <1>1 DEF IInv
  <2>2. protocol \in { "anthropic", "gemini" } /\ taken \in -1..Len(conversation)
    BY <2>1 DEF ShapeInv
  <2>3. \A i \in DOMAIN conversation : conversation[i] \in Messages
    BY <2>1, ConversationBounds, GivenPlaces
  <2>4. \A i \in DOMAIN system : system[i] \in 1..MaxMessages
    <3>1. PICK S : S = 1..MaxMessages
      OBVIOUS
    <3>2. system \in Seq(S)
      BY <2>1, <3>1 DEF ShapeInv
    <3> QED
      BY <3>1, <3>2, ElementOfSeq, LenProperties
  <2>5. \A t \in DOMAIN turns : turns[t].role \in { "assistant", "user" }
    BY <2>1, ConversationBounds, TurnType DEF Turn
  <2>6. knobs \in Knobs \cup { Unset } /\ LegalRequest(request)
    BY <2>1 DEF RequestInv
  <2> QED
    BY <2>2, <2>3, <2>4, <2>5, <2>6, Zenon DEF TypeOK, LegalRequest
<1> QED
  BY <1>1, Invariance, PTL

(* Whatever settings a request mixes, its budget is the chosen one with    *)
(* room beyond it.                                                         *)
THEOREM BudgetHasRoom == Spec => []ThinkingHasRoom
<1>1. ASSUME IInv PROVE ThinkingHasRoom
  BY <1>1, Zenon DEF IInv, RequestInv, Asked, ThinkingHasRoom
<1> QED
  BY <1>1, Invariance, PTL

-----------------------------------------------------------------------------
(* The turns against the conversation, place by place.                     *)

LEMMA KeepsTheConversation ==
  ASSUME IInv
  PROVE  TurnsSayTheConversation
<1>1. /\ ShapeInv /\ FromMessages(turns, taken) /\ AllSaid(turns, taken)
      /\ NoneEmpty(turns) /\ Alternates(turns) /\ OrderOf(turns)
  BY DEF IInv, TurnsInv
<1>2. Sendings = SendingsOf(turns) /\ \A s : PartAt(s) = At(turns, s)
  BY DEF Sendings, SendingsOf, PartAt, At
<1>3. ASSUME NEW i \in 1..taken
      PROVE  /\ i \in 1..Len(conversation)
             /\ Meant(i) = IF Hoisted(conversation[i]) THEN {}
                           ELSE { i } \X MeantAt(conversation[i])
             /\ Lists(Given(i), i, MeantAt(conversation[i]))
  <2>1. i \in 1..Len(conversation)
    BY <1>1, ConversationBounds
  <2> QED
    BY <1>1, <2>1, MeantIs, GivenPlaces
<1>4. ASSUME NEW s \in SendingsOf(turns)
      PROVE  \E i \in 1..taken : \E j \in MeantAt(conversation[i]) :
               /\ At(turns, s).place = << i, j >> /\ ~ Hoisted(conversation[i])
               /\ turns[s[1]].role = TurnOf(conversation[i].role)
  <2>1. PICK i \in 1..taken : Says(turns, s, i)
    BY <1>1 DEF FromMessages
  <2>2. PICK k \in 1..Len(Given(i)) : At(turns, s) = Given(i)[k]
    BY <2>1 DEF Says
  <2>3. PICK j \in MeantAt(conversation[i]) : Given(i)[k].place = << i, j >>
    BY <1>3 DEF Lists
  <2> QED
    BY <2>1, <2>2, <2>3 DEF Says
<1>5. ASSUME NEW s \in SendingsOf(turns)
      PROVE  /\ \E i \in 1..taken : At(turns, s).place \in Meant(i)
             /\ turns[s[1]].role = TurnOf(conversation[At(turns, s).place[1]].role)
  <2>1. PICK i \in 1..taken : \E j \in MeantAt(conversation[i]) :
               /\ At(turns, s).place = << i, j >> /\ ~ Hoisted(conversation[i])
               /\ turns[s[1]].role = TurnOf(conversation[i].role)
    BY <1>4
  <2>2. PICK j \in MeantAt(conversation[i]) :
               /\ At(turns, s).place = << i, j >> /\ ~ Hoisted(conversation[i])
               /\ turns[s[1]].role = TurnOf(conversation[i].role)
    BY <2>1
  <2>3. << i, j >> \in Meant(i)
    BY <1>3, <2>2
  <2>4. << i, j >>[1] = i
    OBVIOUS
  <2> QED
    BY <2>2, <2>3, <2>4
<1>6. ASSUME NEW i \in 1..taken, NEW x \in Meant(i)
      PROVE  \E s \in SendingsOf(turns) : At(turns, s).place = x
  <2>1. ~ Hoisted(conversation[i]) /\ x \in { i } \X MeantAt(conversation[i])
    BY <1>3
  <2>2. PICK j \in MeantAt(conversation[i]) : x = << i, j >>
    BY <2>1
  <2>3. PICK k \in 1..Len(Given(i)) : Given(i)[k].place = x
    BY <1>3, <2>2 DEF Lists
  <2>4. IsSaid(turns, i)
    BY <1>1, <2>1 DEF AllSaid
  <2> QED
    BY <2>3, <2>4 DEF IsSaid
<1>7. { At(turns, s).place : s \in SendingsOf(turns) }
        = UNION { Meant(i) : i \in 1..taken }
  BY <1>5, <1>6
<1>8. \A r, s \in Sendings :
        Before(r, s) => Before(PartAt(r).place, PartAt(s).place)
  BY <1>1, <1>2 DEF OrderOf
<1>9. { PartAt(s).place : s \in Sendings } = UNION { Meant(i) : i \in 1..taken }
  BY <1>2, <1>7
<1>10. \A s \in Sendings :
         turns[s[1]].role = TurnOf(conversation[PartAt(s).place[1]].role)
  BY <1>2, <1>5
<1> QED
  BY <1>1, <1>8, <1>9, <1>10, Zenon DEF TurnsSayTheConversation, NoneEmpty, Alternates

(* Of a conversation of any length, with any roles in any order, hoisted,  *)
(* dropped and merged messages among them, the turns alternate and say     *)
(* each part the provider can carry once, in order, in its role's turn.    *)
THEOREM TurnsKeepTheConversation == Spec => []TurnsSayTheConversation
  BY KeepsTheConversation, Invariance, PTL

-----------------------------------------------------------------------------
(* Results and the calls they answer.                                      *)

LEMMA AssistantGives ==
  ASSUME ShapeInv, NEW i \in 1..Len(conversation),
         conversation[i].role = "assistant"
  PROVE  /\ ~ Hoisted(conversation[i])
         /\ \A k \in 1..Len(Given(i)) : Given(i)[k].kind # "result"
         /\ \A j \in 1..Len(conversation[i].calls) :
              \E k \in 1..Len(Given(i)) :
                 /\ Given(i)[k].kind = "call"
                 /\ Given(i)[k].id = conversation[i].calls[j].id
                 /\ Given(i)[k].name = conversation[i].calls[j].name
<1>1. PICK m \in Messages : m = conversation[i]
  BY GivenPlaces
<1>2. ~ Hoisted(m)
  BY <1>1 DEF Hoisted
<1>3. i \in Nat
  OBVIOUS
<1>4. PICK s : s = ContentParts(m, i)
  OBVIOUS
<1>5. PICK t : t = CallParts(m, i)
  OBVIOUS
<1>6. Given(i) = s \o t
  BY <1>1, <1>4, <1>5 DEF Given, PartsOf
<1>7. s \in Seq(PartRec) /\ \A k \in 1..Len(s) : s[k].kind \in Kinds
  BY <1>3, <1>4, ContentPartsList DEF Lists
<1>8. t \in Seq(PartRec) /\ Len(t) = Len(m.calls)
  BY <1>3, <1>5, CallPartsList DEF Lists
<1>9. ASSUME NEW k \in 1..Len(m.calls)
      PROVE  /\ t[k].kind = "call"
             /\ t[k].id = m.calls[k].id /\ t[k].name = m.calls[k].name
  <2>1. t[k] = Part("call", << i, Len(m.content) + k >>,
                    m.calls[k].id, m.calls[k].name)
    BY <1>3, <1>5, CallPartsList
  <2> QED
    BY <2>1 DEF Part
<1>10. PICK a \in Nat : a = Len(s)
  BY <1>7, LenProperties
<1>11. PICK c \in Nat : c = Len(t)
  BY <1>8, LenProperties
<1>12. s \in Seq(PartRec) /\ t \in Seq(PartRec)
  BY <1>7, <1>8
<1>. PICK u \in Seq(PartRec) : u = s \o t
  BY <1>12, ConcatProperties
<1>13. Len(u) = a + c /\ \A k \in 1..(a + c) : u[k] = IF k <= a THEN s[k] ELSE t[k - a]
  BY <1>10, <1>11, <1>12, ConcatProperties
<1>14. ASSUME NEW k \in 1..(a + c)
       PROVE  u[k].kind # "result"
  <2>1. CASE k <= a
    <3>1. u[k] = s[k] /\ k \in 1..a
      BY <1>13, <2>1
    <3> QED
      BY <1>7, <1>10, <3>1 DEF Kinds
  <2>2. CASE ~ (k <= a)
    <3>1. PICK l \in 1..c : l = k - a
      BY <2>2
    <3>2. u[k] = t[l]
      BY <1>13, <2>2, <3>1
    <3>3. t[l].kind = "call"
      BY <1>8, <1>9, <1>11, <3>1
    <3> QED
      BY <3>2, <3>3
  <2> QED
    BY <2>1, <2>2
<1>15. ASSUME NEW j \in 1..c
       PROVE  \E k \in 1..(a + c) : u[k] = t[j]
  <2>1. PICK k \in 1..(a + c) : k = a + j
    OBVIOUS
  <2>2. ~ (k <= a) /\ k - a = j
    BY <2>1
  <2> QED
    BY <1>13, <2>2
<1>16. ASSUME NEW j \in 1..Len(m.calls)
       PROVE  \E k \in 1..Len(u) :
                 /\ u[k].kind = "call"
                 /\ u[k].id = m.calls[j].id /\ u[k].name = m.calls[j].name
  <2>1. j \in 1..c
    BY <1>8, <1>11
  <2>2. PICK k \in 1..(a + c) : u[k] = t[j]
    BY <1>15, <2>1
  <2>3. k \in 1..Len(u)
    BY <1>13
  <2> QED
    BY <1>9, <2>2, <2>3
<1>17. u = Given(i)
  BY <1>6
<1>18. \A k \in 1..Len(u) : u[k].kind # "result"
  BY <1>13, <1>14
<1>19. \A k \in 1..Len(Given(i)) : Given(i)[k].kind # "result"
  BY <1>17, <1>18
<1>20. ~ Hoisted(conversation[i])
  BY <1>1, <1>2
<1>21. ASSUME NEW j \in 1..Len(conversation[i].calls)
       PROVE  \E k \in 1..Len(Given(i)) :
                 /\ Given(i)[k].kind = "call"
                 /\ Given(i)[k].id = conversation[i].calls[j].id
                 /\ Given(i)[k].name = conversation[i].calls[j].name
  <2>1. PICK k \in 1..Len(u) :
                 /\ u[k].kind = "call"
                 /\ u[k].id = m.calls[j].id /\ u[k].name = m.calls[j].name
    BY <1>1, <1>16
  <2> QED
    BY <1>1, <1>17, <2>1
<1> QED
  BY <1>19, <1>20, <1>21

LEMMA OthersGive ==
  ASSUME ShapeInv, NEW i \in 1..Len(conversation),
         conversation[i].role # "tool",
         NEW k \in 1..Len(Given(i))
  PROVE  Given(i)[k].kind # "result"
<1>1. CASE conversation[i].role = "assistant"
  BY <1>1, AssistantGives
<1>2. CASE conversation[i].role # "assistant"
  <2>1. PICK m \in Messages : m = conversation[i]
    BY GivenPlaces
  <2>2. Given(i) = ContentParts(m, i) /\ i \in Nat
    BY <1>2, <2>1 DEF Given, PartsOf
  <2>3. Given(i)[k].kind \in Kinds
    BY <2>2, ContentPartsList
  <2> QED
    BY <2>3 DEF Kinds
<1> QED
  BY <1>1, <1>2

(* The call a result of a well paired conversation answers.                *)
LEMMA CallAnswered ==
  ASSUME ShapeInv, WellPaired, NEW i \in 1..Len(conversation),
         conversation[i].role = "tool",
         NEW m, m = conversation[i]
  PROVE  \E c \in CallsMade :
           /\ c[1] < i /\ conversation[c[1]].role = "assistant"
           /\ m.id # "" => /\ CallAt(c).id = m.id
                           /\ m.name # "" => CallAt(c).name = m.name
           /\ m.id = "" => /\ CallAt(c).name = m.name
                           /\ \A d \in CallsMade :
                                CallAt(d).name = m.name => CallAt(d) = CallAt(c)
<1>1. i \in DOMAIN conversation
  BY ConversationBounds
<1>2. PICK c \in CallsMade :
        /\ CalledBefore(i, c)
        /\ IF m.id # ""
             THEN CallAt(c).id = m.id /\ m.name \in { "", CallAt(c).name }
             ELSE /\ CallAt(c).name = m.name
                  /\ \A d \in CallsMade :
                       CallAt(d).name = m.name => CallAt(d) = CallAt(c)
  BY <1>1, Zenon DEF WellPaired
<1>3. c[1] < i /\ conversation[c[1]].role = "assistant"
  BY <1>2, Zenon DEF CalledBefore
<1>4. CASE m.id # ""
  BY <1>2, <1>3, <1>4, Zenon
<1>5. CASE m.id = ""
  BY <1>2, <1>3, <1>5, Zenon
<1> QED
  BY <1>4, <1>5, Zenon

(* It carries what the call is known by.                                   *)
LEMMA AnswerNames ==
  ASSUME ShapeInv, WellPaired, DistinctIds, NEW i \in 1..Len(conversation),
         conversation[i].role = "tool",
         NEW k \in 1..Len(Given(i)), NEW x, x = Given(i)[k]
  PROVE  \E c \in CallsMade :
           /\ c[1] < i /\ conversation[c[1]].role = "assistant"
           /\ IF protocol = "anthropic" THEN CallAt(c).id = x.id
              ELSE CallAt(c).name = x.name
           /\ conversation[i].id \in { "", CallAt(c).id }
           /\ x.place = << i, 1 >>
<1>1. PICK m \in Messages : m = conversation[i]
  BY GivenPlaces
<1>2. Given(i) = ResultParts(m, i) /\ i \in Nat
  <2>1. "tool" # "assistant"
    OBVIOUS
  <2> QED
    BY <1>1, <2>1 DEF Given, PartsOf
<1>3. /\ x.place = << i, 1 >>
      /\ protocol = "anthropic" =>
           x.id = IF m.id # "" THEN m.id ELSE idsByName(m.name)
      /\ protocol = "gemini" =>
           x.name = firstNonEmpty(<< m.name, toolNames(m.id), m.id, "function" >>)
  <2>1. k \in 1..Len(ResultParts(m, i)) /\ x = ResultParts(m, i)[k]
    BY <1>2, Zenon
  <2>2. PICK y : y = ResultParts(m, i)[k]
    OBVIOUS
  <2>3. /\ y.place = << i, 1 >>
        /\ protocol = "anthropic" =>
             y.id = IF m.id # "" THEN m.id ELSE idsByName(m.name)
        /\ protocol = "gemini" =>
             y.name = firstNonEmpty(<< m.name, toolNames(m.id), m.id, "function" >>)
    BY <1>2, <2>1, <2>2, ResultPartsList, Zenon
  <2>4. x = y
    BY <2>1, <2>2, Zenon
  <2> QED
    BY <2>3, <2>4, Zenon
<1>4. PICK c \in CallsMade :
        /\ c[1] < i /\ conversation[c[1]].role = "assistant"
        /\ m.id # "" => /\ CallAt(c).id = m.id
                        /\ m.name # "" => CallAt(c).name = m.name
        /\ m.id = "" => /\ CallAt(c).name = m.name
                        /\ \A d \in CallsMade :
                             CallAt(d).name = m.name => CallAt(d) = CallAt(c)
  BY <1>1, CallAnswered, Zenon
<1>5. CallAt(c).id # "" /\ CallAt(c).name # ""
  BY CallsMadeFacts
<1>6. m.id \in { "", CallAt(c).id }
  BY <1>4, Zenon
<1>7. CASE protocol = "anthropic"
  <2>1. CASE m.id # ""
    <3>1. x.id = m.id
      BY <1>3, <1>7, <2>1, Zenon
    <3> QED
      BY <1>1, <1>3, <1>4, <1>6, <1>7, <2>1, <3>1, Zenon
  <2>2. CASE m.id = ""
    <3>1. x.id = idsByName(m.name)
      BY <1>3, <1>7, <2>2, Zenon
    <3>2. CallAt(c).name = m.name
      BY <1>4, <2>2, Zenon
    <3>3. PICK d \in CallsMade : /\ CallAt(d).name = CallAt(c).name
                                 /\ idsByName(CallAt(c).name) = CallAt(d).id
      BY NamesFound, Zenon
    <3>4. CallAt(d) = CallAt(c)
      BY <1>4, <2>2, <3>2, <3>3, Zenon
    <3>5. CallAt(c).id = x.id
      BY <3>1, <3>2, <3>3, <3>4, Zenon
    <3> QED
      BY <1>1, <1>3, <1>4, <1>6, <1>7, <3>5, Zenon
  <2> QED
    BY <2>1, <2>2, Zenon
<1>8. CASE protocol = "gemini"
  <2>1. PICK b : b = toolNames(m.id)
    OBVIOUS
  <2>2. PICK f : f = "function"
    OBVIOUS
  <2>. PICK y : y = firstNonEmpty(<< m.name, b, m.id, f >>)
    OBVIOUS
  <2>. y = IF ~ Blank(m.name) THEN m.name ELSE IF ~ Blank(b) THEN b
           ELSE IF ~ Blank(m.id) THEN m.id ELSE f
    BY FirstOfFour, SMT
  <2>3. x.name = y
    BY <1>3, <1>8, <2>1, <2>2, Zenon
  <2>4. CASE m.name # ""
    <3>1. x.name = m.name
      BY <2>3, <2>4, Zenon DEF Blank
    <3>2. CallAt(c).name = m.name
      BY <1>4, <2>4, Zenon
    <3>3. CallAt(c).name = x.name
      BY <3>1, <3>2, Zenon
    <3> QED
      BY <1>1, <1>3, <1>4, <1>6, <1>8, <3>3, Zenon
  <2>5. CASE m.name = ""
    <3>1. m.id # "" /\ CallAt(c).id = m.id
      BY <1>4, <1>5, <2>5, Zenon
    <3>2. PICK d \in CallsMade : /\ CallAt(d).id = CallAt(c).id
                                 /\ toolNames(CallAt(c).id) = CallAt(d).name
      BY NamesFound, Zenon
    <3>3. CallAt(d) = CallAt(c)
      BY <3>2, Zenon DEF DistinctIds
    <3>4. b = CallAt(c).name /\ b # ""
      BY <1>5, <2>1, <3>1, <3>2, <3>3, Zenon
    <3>5. x.name = b
      BY <2>3, <2>5, <3>4, Zenon DEF Blank
    <3>6. CallAt(c).name = x.name
      BY <3>4, <3>5, Zenon
    <3> QED
      BY <1>1, <1>3, <1>4, <1>6, <1>8, <3>6, Zenon
  <2> QED
    BY <2>4, <2>5, Zenon
<1> QED
  BY <1>7, <1>8, Zenon DEF ShapeInv

LEMMA AnswersCalls ==
  ASSUME IInv
  PROVE  ResultsAnswerCalls
<1>1. /\ ShapeInv /\ FromMessages(turns, taken) /\ AllSaid(turns, taken)
      /\ OrderOf(turns)
  BY DEF IInv, TurnsInv
<1>2. Sendings = SendingsOf(turns) /\ \A s : PartAt(s) = At(turns, s)
  BY DEF Sendings, SendingsOf, PartAt, At
<1>3. SUFFICES ASSUME WellPaired, DistinctIds,
                      NEW r \in Sendings, PartAt(r).kind = "result"
               PROVE  \E s \in Sendings :
                 /\ s[1] < r[1] /\ PartAt(s).kind = "call"
                 /\ IF protocol = "anthropic" THEN PartAt(s).id = PartAt(r).id
                    ELSE PartAt(s).name = PartAt(r).name
                 /\ conversation[PartAt(r).place[1]].id \in { "", PartAt(s).id }
  BY Zenon DEF ResultsAnswerCalls
<1>4. r \in SendingsOf(turns) /\ PartAt(r) = At(turns, r)
  BY <1>2
<1>5. PICK i \in 1..taken : Says(turns, r, i)
  BY <1>1, <1>4 DEF FromMessages
<1>6. PICK k \in 1..Len(Given(i)) : At(turns, r) = Given(i)[k]
  BY <1>5 DEF Says
<1>7. i \in 1..Len(conversation) /\ i \in Int
  BY <1>1, ConversationBounds
<1>8. conversation[i].role = "tool"
  BY <1>1, <1>3, <1>4, <1>6, <1>7, OthersGive
<1>9. PICK x : x = Given(i)[k]
  OBVIOUS
<1>10. PICK c \in CallsMade :
           /\ c[1] < i /\ conversation[c[1]].role = "assistant"
           /\ IF protocol = "anthropic" THEN CallAt(c).id = x.id
              ELSE CallAt(c).name = x.name
           /\ conversation[i].id \in { "", CallAt(c).id }
           /\ x.place = << i, 1 >>
  BY <1>1, <1>3, <1>7, <1>8, <1>9, AnswerNames
<1>11. PICK a \in 1..Len(conversation) : a = c[1]
  BY <1>1, CallsMadeFacts
<1>12. PICK j \in 1..Len(conversation[a].calls) : j = c[2]
  BY <1>1, <1>11, CallsMadeFacts
<1>13. CallAt(c) = conversation[a].calls[j]
  BY <1>11, <1>12 DEF CallAt
<1>14. conversation[a].role = "assistant" /\ a < i
  BY <1>10, <1>11
<1>15. PICK l \in 1..Len(Given(a)) :
         /\ Given(a)[l].kind = "call"
         /\ Given(a)[l].id = CallAt(c).id /\ Given(a)[l].name = CallAt(c).name
  BY <1>1, <1>13, <1>14, AssistantGives
<1>16. a \in 1..taken /\ ~ Hoisted(conversation[a])
  BY <1>1, <1>7, <1>14, AssistantGives, ConversationBounds
<1>17. PICK s \in SendingsOf(turns) :
         Says(turns, s, a) /\ At(turns, s) = Given(a)[l]
  BY <1>1, <1>15, <1>16 DEF AllSaid, IsSaid
<1>18. turns[s[1]].role = "assistant" /\ turns[r[1]].role = "user"
  BY <1>5, <1>8, <1>14, <1>17 DEF Says, TurnOf
<1>19. s[1] # r[1]
  <2>1. "assistant" # "user"
    OBVIOUS
  <2> QED
    BY <1>18, <2>1
<1>20. PICK q \in Nat : At(turns, s).place = << a, q >>
  BY <1>1, <1>17, GivenPlaces DEF Lists
<1>21. At(turns, r).place = << i, 1 >>
  BY <1>6, <1>9, <1>10
<1>22. s[1] \in Nat /\ r[1] \in Nat
  BY <1>1, <1>4, SendingsAre, ConversationBounds
<1>23. ~ (r[1] < s[1])
  <2>1. ASSUME r[1] < s[1] PROVE FALSE
    <3>1. Before(r, s)
      BY <2>1 DEF Before
    <3>2. Before(At(turns, r).place, At(turns, s).place)
      BY <1>1, <1>4, <3>1 DEF OrderOf
    <3>3. i < a \/ i = a
      BY <1>20, <1>21, <3>2 DEF Before
    <3> QED
      BY <1>7, <1>14, <3>3
  <2> QED
    BY <2>1
<1>24. s[1] < r[1]
  BY <1>19, <1>22, <1>23
<1>25. PICK y : y = At(turns, s)
  OBVIOUS
<1>26. /\ y.kind = "call" /\ y.id = CallAt(c).id /\ y.name = CallAt(c).name
       /\ PartAt(s) = y /\ PartAt(r) = x /\ s \in Sendings
  BY <1>2, <1>4, <1>6, <1>9, <1>15, <1>17, <1>25
<1>27. PartAt(r).place[1] = i
  BY <1>4, <1>21
<1>28. conversation[PartAt(r).place[1]].id \in { "", PartAt(s).id }
  BY <1>10, <1>26, <1>27, Zenon
<1>29. IF protocol = "anthropic" THEN PartAt(s).id = PartAt(r).id
       ELSE PartAt(s).name = PartAt(r).name
  BY <1>10, <1>26, Zenon
<1> QED
  BY <1>24, <1>26, <1>28, <1>29, Zenon

(* In a conversation of any length that pairs its results as callers do,   *)
(* each result sent answers, by the provider's own key, a call an earlier  *)
(* turn carries.                                                           *)
THEOREM ResultsArePaired == Spec => []ResultsAnswerCalls
  BY AnswersCalls, Invariance, PTL
=============================================================================
