-------------------------- MODULE SubsequenceProofs --------------------------
(***************************************************************************)
(* Facts about sequences, their elements and the subsequences of           *)
(* Subsequences, for the proofs about queues.                              *)
(***************************************************************************)
EXTENDS Subsequences, FiniteSetTheorems, SequenceTheorems, TLAPS

-----------------------------------------------------------------------------
(* Elements *)

\* The elements of a sequence, by place.
LEMMA Elements ==
    ASSUME NEW S, NEW s \in Seq(S)
    PROVE  /\ ToSet(s) = {s[i] : i \in 1 .. Len(s)}
           /\ ToSet(s) \in SUBSET S
           /\ s \in Seq(ToSet(s))
BY DEF ToSet

LEMMA ConcatIsSeq ==
    ASSUME NEW S, NEW s \in Seq(S), NEW t \in Seq(S)
    PROVE  s \o t \in Seq(S) /\ Len(s \o t) = Len(s) + Len(t)
  OBVIOUS

LEMMA ConcatLaws ==
    ASSUME NEW S, NEW s \in Seq(S), NEW t \in Seq(S), NEW u \in Seq(S)
    PROVE  /\ s \o <<>> = s /\ <<>> \o s = s
           /\ (s \o t) \o u = s \o (t \o u)
<1>1. s \o <<>> = s /\ <<>> \o s = s
  OBVIOUS
<1>2. (s \o t) \o u = s \o (t \o u)
  OBVIOUS
<1> QED BY <1>1, <1>2

LEMMA FirstOfConcat ==
    ASSUME NEW S, NEW x \in S, NEW t \in Seq(S)
    PROVE  /\ <<x>> \o t \in Seq(S) /\ <<x>> \o t # <<>>
           /\ Head(<<x>> \o t) = x /\ Tail(<<x>> \o t) = t
  OBVIOUS

LEMMA ElementsOfNone == ToSet(<<>>) = {}
BY DEF ToSet

LEMMA ElementsOfOne ==
    ASSUME NEW x
    PROVE  /\ ToSet(<<x>>) = {x} /\ IsInjective(<<x>>) /\ Len(<<x>>) = 1
           /\ <<x>> \in Seq({x})
BY DEF ToSet, IsInjective

LEMMA ElementsOfConcat ==
    ASSUME NEW S, NEW s \in Seq(S), NEW t \in Seq(S)
    PROVE  ToSet(s \o t) = ToSet(s) \cup ToSet(t)
<1>1. ASSUME NEW i \in 1 .. Len(t) PROVE t[i] \in ToSet(s \o t)
  <2>1. /\ Len(s) + i \in 1 .. Len(s \o t)
        /\ (s \o t)[Len(s) + i] = t[i]
    OBVIOUS
  <2> QED BY <2>1 DEF ToSet
<1>2. ASSUME NEW i \in 1 .. Len(s) PROVE s[i] \in ToSet(s \o t)
  <2>1. i \in 1 .. Len(s \o t) /\ (s \o t)[i] = s[i]
    OBVIOUS
  <2> QED BY <2>1 DEF ToSet
<1>3. ASSUME NEW i \in 1 .. Len(s \o t) PROVE (s \o t)[i] \in ToSet(s) \cup ToSet(t)
  BY DEF ToSet
<1>4. /\ ToSet(s) = {s[i] : i \in 1 .. Len(s)} /\ ToSet(t) = {t[i] : i \in 1 .. Len(t)}
      /\ ToSet(s \o t) = {(s \o t)[i] : i \in 1 .. Len(s \o t)}
  BY DEF ToSet
<1> QED BY <1>1, <1>2, <1>3, <1>4

\* The elements of two sequences in a row differ when those of each do and the
\* two have none in common.
LEMMA InjectiveConcat ==
    ASSUME NEW S, NEW s \in Seq(S), NEW t \in Seq(S)
    PROVE  IsInjective(s \o t) <=>
             IsInjective(s) /\ IsInjective(t) /\ ToSet(s) \cap ToSet(t) = {}
<1> DEFINE u == s \o t
<1>0. /\ u \in Seq(S) /\ Len(u) = Len(s) + Len(t)
      /\ \A i \in 1 .. Len(s) : u[i] = s[i]
      /\ \A i \in 1 .. Len(t) : u[Len(s) + i] = t[i]
      /\ Len(s) \in Nat /\ Len(t) \in Nat
  OBVIOUS
<1>1. ASSUME IsInjective(u) PROVE IsInjective(s)
  BY <1>0, <1>1 DEF IsInjective
<1>2. ASSUME IsInjective(u) PROVE IsInjective(t)
  <2> SUFFICES ASSUME NEW i \in 1 .. Len(t), NEW j \in 1 .. Len(t), t[i] = t[j]
               PROVE  i = j
    BY DEF IsInjective
  <2>1. Len(s) + i \in 1 .. Len(u) /\ Len(s) + j \in 1 .. Len(u)
    BY <1>0
  <2>2. u[Len(s) + i] = u[Len(s) + j]
    BY <1>0
  <2>3. Len(s) + i = Len(s) + j
    BY <2>1, <2>2, <1>0, <1>2, SMTT(30) DEF IsInjective
  <2> QED BY <2>3, <1>0
<1>3. ASSUME IsInjective(u), NEW x \in ToSet(s), x \in ToSet(t) PROVE FALSE
  <2>0. (\E i \in 1 .. Len(s) : s[i] = x) /\ (\E j \in 1 .. Len(t) : t[j] = x)
    BY <1>3 DEF ToSet
  <2>1. PICK i \in 1 .. Len(s), j \in 1 .. Len(t) : s[i] = x /\ t[j] = x
    BY <2>0, Zenon
  <2>2. /\ i \in 1 .. Len(u) /\ Len(s) + j \in 1 .. Len(u)
        /\ u[i] = u[Len(s) + j] /\ i # Len(s) + j
        /\ DOMAIN u = 1 .. Len(u)
    BY <1>0, <2>1
  <2> HIDE DEF u
  <2> QED BY <2>2, <1>3 DEF IsInjective
<1>4. ASSUME IsInjective(s), IsInjective(t), ToSet(s) \cap ToSet(t) = {}
      PROVE  IsInjective(u)
  <2> SUFFICES ASSUME NEW i \in 1 .. Len(u), NEW j \in 1 .. Len(u), u[i] = u[j], i < j
               PROVE  FALSE
    BY <1>0, SMTT(30) DEF IsInjective
  <2>1. CASE j <= Len(s)
    BY <2>1, <1>0, <1>4 DEF IsInjective
  <2>2. CASE i > Len(s)
    <3>1. /\ i - Len(s) \in 1 .. Len(t) /\ j - Len(s) \in 1 .. Len(t)
          /\ t[i - Len(s)] = u[i] /\ t[j - Len(s)] = u[j]
          /\ i - Len(s) # j - Len(s)
      BY <2>2, <1>0
    <3> QED BY <3>1, <1>4 DEF IsInjective
  <2>3. CASE i <= Len(s) /\ j > Len(s)
    <3>1. i \in 1 .. Len(s) /\ j - Len(s) \in 1 .. Len(t) /\ s[i] = t[j - Len(s)]
      BY <2>3, <1>0
    <3>2. s[i] \in ToSet(s) /\ t[j - Len(s)] \in ToSet(t)
      BY <3>1 DEF ToSet
    <3> QED BY <3>1, <3>2, <1>4, Zenon
  <2> QED BY <2>1, <2>2, <2>3, <1>0
<1> QED BY <1>1, <1>2, <1>3, <1>4

LEMMA HeadAndTail ==
    ASSUME NEW S, NEW s \in Seq(S), s # <<>>
    PROVE  /\ Head(s) \in S /\ Tail(s) \in Seq(S) /\ s = <<Head(s)>> \o Tail(s)
           /\ ToSet(s) = {Head(s)} \cup ToSet(Tail(s))
           /\ Len(s) = 1 + Len(Tail(s))
           /\ IsInjective(s) <=> IsInjective(Tail(s)) /\ Head(s) \notin ToSet(Tail(s))
<1>1. Head(s) \in S /\ Tail(s) \in Seq(S) /\ s = <<Head(s)>> \o Tail(s)
      /\ Len(s) = 1 + Len(Tail(s)) /\ <<Head(s)>> \in Seq(S)
  OBVIOUS
<1>2. ToSet(<<Head(s)>>) = {Head(s)} /\ IsInjective(<<Head(s)>>)
  BY ElementsOfOne
<1>3. ToSet(<<Head(s)>> \o Tail(s)) = ToSet(<<Head(s)>>) \cup ToSet(Tail(s))
  BY <1>1, ElementsOfConcat, ZenonT(60)
<1>4. IsInjective(<<Head(s)>> \o Tail(s)) <=>
        /\ IsInjective(<<Head(s)>>) /\ IsInjective(Tail(s))
        /\ ToSet(<<Head(s)>>) \cap ToSet(Tail(s)) = {}
  BY <1>1, InjectiveConcat, Zenon
<1> QED BY <1>1, <1>2, <1>3, <1>4

LEMMA AppendIsConcatOfOne ==
    ASSUME NEW S, NEW s \in Seq(S), NEW x \in S
    PROVE  /\ <<x>> \in Seq(S) /\ Append(s, x) = s \o <<x>> /\ s \o <<x>> \in Seq(S)
           /\ ToSet(s \o <<x>>) = ToSet(s) \cup {x}
<1>1. <<x>> \in Seq(S) /\ Append(s, x) = s \o <<x>>
  OBVIOUS
<1>2. ToSet(s \o <<x>>) = ToSet(s) \cup ToSet(<<x>>)
  BY <1>1, ElementsOfConcat, ZenonT(60)
<1>3. ToSet(<<x>>) = {x}
  BY ElementsOfOne
<1>4. s \o <<x>> \in Seq(S)
  BY <1>1, ConcatIsSeq, Zenon
<1>5. ToSet(s \o <<x>>) = ToSet(s) \cup {x}
  BY <1>2, <1>3, Zenon
<1> QED BY <1>1, <1>4, <1>5, Zenon

LEMMA PrefixOfConcat ==
    ASSUME NEW S, NEW s \in Seq(S), NEW t \in Seq(S)
    PROVE  IsPrefix(s, s \o t)
<1>1. /\ Len(s) \in Nat /\ Len(t) \in Nat /\ s \o t \in Seq(S)
      /\ Len(s \o t) = Len(s) + Len(t)
      /\ \A i \in 1 .. Len(s) : (s \o t)[i] = s[i]
  OBVIOUS
<1> DEFINE u == s \o t
<1> HIDE DEF u
<1>2. SubSeq(s, 1, Len(s)) = SubSeq(u, 1, Len(s))
  BY <1>1 DEF u
<1> QED BY <1>1, <1>2 DEF IsPrefix, u

\* A sequence of different elements has as many as it is long.
LEMMA LengthIsSize ==
    ASSUME NEW S, NEW s \in Seq(S), IsInjective(s)
    PROVE  IsFiniteSet(ToSet(s)) /\ Cardinality(ToSet(s)) = Len(s)
<1>1. Len(s) \in Nat /\ s \in [1 .. Len(s) -> ToSet(s)] /\ DOMAIN s = 1 .. Len(s)
  BY DEF ToSet
<1>2. s \in Injection(1 .. Len(s), ToSet(s))
  BY <1>1 DEF Injection
<1>3. s \in Surjection(1 .. Len(s), ToSet(s))
  BY <1>1, Elements DEF Surjection
<1>4. ExistsBijection(1 .. Len(s), ToSet(s))
  BY <1>2, <1>3 DEF Bijection, ExistsBijection
<1>5. IsFiniteSet(1 .. Len(s)) /\ Cardinality(1 .. Len(s)) = Len(s)
  BY <1>1, FS_Interval
<1> QED BY <1>4, <1>5, FS_Bijection

-----------------------------------------------------------------------------
(* Ranks *)

\* How many places of a set of places there are up to i.
RankIn(I, i) == Cardinality({j \in I : j <= i})

LEMMA RankIsIn ==
    ASSUME NEW n \in Nat, NEW I \in SUBSET (1 .. n), NEW i \in I
    PROVE  /\ IsFiniteSet(I) /\ Cardinality(I) \in Nat
           /\ RankIn(I, i) \in 1 .. Cardinality(I)
<1>1. IsFiniteSet(I)
  <2>1. IsFiniteSet(1 .. n)
    BY FS_Interval
  <2> QED BY <2>1, FS_Subset
<1>2. Cardinality(I) \in Nat
  BY <1>1, FS_CardinalityType
<1> DEFINE J == {j \in I : j <= i}
<1>3. J \in SUBSET I
  OBVIOUS
<1>4. IsFiniteSet(J) /\ Cardinality(J) <= Cardinality(I)
  BY <1>1, <1>3, FS_Subset
<1>5. Cardinality(J) \in Nat /\ Cardinality(J) # 0
  <2>1. i \in J
    OBVIOUS
  <2> QED BY <1>4, <2>1, FS_EmptySet, FS_CardinalityType
<1> QED BY <1>1, <1>2, <1>4, <1>5 DEF RankIn

LEMMA RankGrows ==
    ASSUME NEW n \in Nat, NEW I \in SUBSET (1 .. n), NEW i \in I, NEW j \in I, i < j
    PROVE  RankIn(I, i) < RankIn(I, j)
<1> DEFINE A == {m \in I : m <= i}
           B == {m \in I : m <= j}
<1>1. IsFiniteSet(I)
  BY RankIsIn
<1>0. i \in Int /\ j \in Int /\ \A m \in I : m \in Int
  OBVIOUS
<1>2. A \in SUBSET B /\ B \in SUBSET I /\ j \in B /\ j \notin A
  <2>1. j \in B /\ j \notin A
    BY <1>0
  <2>2. \A m \in I : m <= i => m <= j
    BY <1>0
  <2> QED BY <2>1, <2>2
<1>3. IsFiniteSet(B)
  BY <1>1, <1>2, FS_Subset
<1>4. Cardinality(A) <= Cardinality(B) /\ Cardinality(A) # Cardinality(B) /\ IsFiniteSet(A)
  BY <1>2, <1>3, FS_Subset
<1>5. Cardinality(A) \in Nat /\ Cardinality(B) \in Nat
  BY <1>3, <1>4, FS_CardinalityType
<1> QED BY <1>4, <1>5 DEF RankIn

\* Every rank is that of one place.
LEMMA RankIsOnto ==
    ASSUME NEW n \in Nat, NEW I \in SUBSET (1 .. n), NEW k \in 1 .. Cardinality(I)
    PROVE  \E i \in I : RankIn(I, i) = k
<1> DEFINE f == [i \in I |-> RankIn(I, i)]
           N == 1 .. Cardinality(I)
<1>1. IsFiniteSet(I) /\ Cardinality(I) \in Nat
  <2>1. IsFiniteSet(1 .. n)
    BY FS_Interval
  <2> QED BY <2>1, FS_Subset, FS_CardinalityType
<1>2. f \in [I -> N]
  BY RankIsIn
<1>3. \A i, j \in I : f[i] = f[j] => i = j
  <2> SUFFICES ASSUME NEW i \in I, NEW j \in I, i < j PROVE f[i] # f[j]
    OBVIOUS
  <2>1. RankIn(I, i) < RankIn(I, j)
    BY RankGrows
  <2>2. RankIn(I, i) \in 1 .. Cardinality(I) /\ RankIn(I, j) \in 1 .. Cardinality(I)
    BY RankIsIn, Zenon
  <2> QED BY <2>1, <2>2, <1>1
<1>4. f \in Injection(I, N)
  BY <1>2, <1>3 DEF Injection, IsInjective
<1>5. IsFiniteSet(N) /\ Cardinality(N) = Cardinality(I)
  BY <1>1, FS_Interval
<1>6. f \in Surjection(I, N)
  BY <1>4, <1>5, FS_Injection
<1>7. \E i \in I : f[i] = k
  BY <1>6 DEF Surjection
<1> QED BY <1>7

\* Some place is the first.
LEMMA FirstPlace ==
    ASSUME NEW n \in Nat, NEW I \in SUBSET (1 .. n), I # {}
    PROVE  \E i \in I : \A j \in I : i <= j
<1>1. IsFiniteSet(I) /\ Cardinality(I) \in Nat
  BY RankIsIn
<1>2. 1 \in 1 .. Cardinality(I)
  BY <1>1, FS_EmptySet
<1>3. PICK i \in I : RankIn(I, i) = 1
  BY <1>2, RankIsOnto
<1>4. ASSUME NEW j \in I, j < i PROVE FALSE
  <2>1. RankIn(I, j) < 1 /\ RankIn(I, j) \in 1 .. Cardinality(I)
    BY <1>3, <1>4, RankGrows, RankIsIn
  <2> QED BY <1>1, <2>1
<1> QED BY <1>4

\* The place with a rank.
PlaceOf(I, k) == CHOOSE i \in I : RankIn(I, i) = k

LEMMA PlaceOfRank ==
    ASSUME NEW n \in Nat, NEW I \in SUBSET (1 .. n)
    PROVE  /\ \A k \in 1 .. Cardinality(I) :
                PlaceOf(I, k) \in I /\ RankIn(I, PlaceOf(I, k)) = k
           /\ \A i \in I : PlaceOf(I, RankIn(I, i)) = i
           /\ \A k, m \in 1 .. Cardinality(I) :
                k < m => PlaceOf(I, k) < PlaceOf(I, m)
<1>1. \A k \in 1 .. Cardinality(I) :
         PlaceOf(I, k) \in I /\ RankIn(I, PlaceOf(I, k)) = k
  BY RankIsOnto DEF PlaceOf
<1>2. \A i, j \in I : i < j => RankIn(I, i) < RankIn(I, j)
  BY RankGrows
<1>3. \A i \in I : RankIn(I, i) \in 1 .. Cardinality(I) /\ Cardinality(I) \in Nat
  BY RankIsIn
<1>4. \A i \in I : PlaceOf(I, RankIn(I, i)) = i
  <2> TAKE i \in I
  <2> DEFINE j == PlaceOf(I, RankIn(I, i))
  <2>1. j \in I /\ RankIn(I, j) = RankIn(I, i)
    BY <1>1, <1>3
  <2> HIDE DEF j
  <2>2. ~(i < j) /\ ~(j < i)
    BY <1>2, <1>3, <2>1
  <2>3. i = j
    BY <2>1, <2>2
  <2> QED BY <2>3 DEF j
<1>5. ASSUME NEW k \in 1 .. Cardinality(I), NEW m \in 1 .. Cardinality(I), k < m
      PROVE  PlaceOf(I, k) < PlaceOf(I, m)
  <2> DEFINE i == PlaceOf(I, k)
             j == PlaceOf(I, m)
  <2>1. i \in I /\ j \in I /\ RankIn(I, i) = k /\ RankIn(I, j) = m
    BY <1>1
  <2> HIDE DEF i, j
  <2>2. i # j /\ ~(j < i)
    BY <1>2, <1>3, <2>1, <1>5
  <2>3. i < j
    BY <2>1, <2>2
  <2> QED BY <2>3 DEF i, j
<1> QED BY <1>1, <1>4, <1>5

-----------------------------------------------------------------------------
(* Subsequences *)

\* The places that a subsequence takes its elements from, in order.
IsSelection(f, n, I) ==
    /\ f \in [1 .. n -> I]
    /\ \A k, m \in 1 .. n : k < m => f[k] < f[m]
    /\ \A i \in I : \E k \in 1 .. n : f[k] = i

Selects(f, s, T) ==
    /\ IsSelection(f, Len(Keep(s, T)), Places(s, T))
    /\ \A k \in 1 .. Len(Keep(s, T)) : Keep(s, T)[k] = s[f[k]]

\* The rank of a place in a sequence is that among the places it keeps.
LEMMA KeepByPlace ==
    ASSUME NEW S, NEW s \in Seq(S), NEW T
    PROVE  Keep(s, T) = [k \in 1 .. Cardinality(Places(s, T)) |->
                           s[PlaceOf(Places(s, T), k)]]
<1>1. ASSUME NEW i \in Places(s, T) PROVE Rank(s, T, i) = RankIn(Places(s, T), i)
  <2>1. {j \in 1 .. i : s[j] \in T} = {j \in Places(s, T) : j <= i}
    BY DEF Places
  <2> QED BY <2>1 DEF Rank, RankIn
<1> DEFINE C(k) == CHOOSE i \in Places(s, T) : Rank(s, T, i) = k
<1>2. \A k : C(k) = PlaceOf(Places(s, T), k)
  <2> TAKE k
  <2>1. \A i : (i \in Places(s, T) /\ Rank(s, T, i) = k)
             <=> (i \in Places(s, T) /\ RankIn(Places(s, T), i) = k)
    BY <1>1
  <2> QED BY <2>1 DEF PlaceOf
<1>3. Keep(s, T) = [k \in 1 .. Cardinality(Places(s, T)) |-> s[C(k)]]
  BY DEF Keep
<1> HIDE DEF C
<1> QED BY <1>2, <1>3

LEMMA KeepSelects ==
    ASSUME NEW S, NEW s \in Seq(S), NEW T
    PROVE  Keep(s, T) \in Seq(S \cap T) /\ \E f : Selects(f, s, T)
<1> DEFINE I == Places(s, T)
           n == Cardinality(I)
           f == [k \in 1 .. n |-> PlaceOf(I, k)]
<1>1. Len(s) \in Nat /\ I \in SUBSET (1 .. Len(s)) /\ \A i \in I : s[i] \in S \cap T
  BY DEF Places
<1>2. n \in Nat
  <2>1. IsFiniteSet(1 .. Len(s))
    BY <1>1, FS_Interval
  <2> QED BY <1>1, <2>1, FS_Subset, FS_CardinalityType
<1>3. Keep(s, T) = [k \in 1 .. n |-> s[PlaceOf(I, k)]]
  BY KeepByPlace
<1> HIDE DEF I, n
<1>4. /\ \A k \in 1 .. n : PlaceOf(I, k) \in I
      /\ \A i \in I : PlaceOf(I, RankIn(I, i)) = i /\ RankIn(I, i) \in 1 .. n
      /\ \A k, m \in 1 .. n : k < m => PlaceOf(I, k) < PlaceOf(I, m)
  BY <1>1, PlaceOfRank, RankIsIn DEF n
<1>5. Keep(s, T) \in Seq(S \cap T) /\ Len(Keep(s, T)) = n
  <2>1. \A k \in 1 .. n : s[PlaceOf(I, k)] \in S \cap T
    BY <1>1, <1>4
  <2>2. Keep(s, T) \in [1 .. n -> S \cap T]
    BY <1>3, <2>1
  <2> QED BY <1>2, <2>2
<1>6. IsSelection(f, n, I)
  BY <1>4 DEF IsSelection
<1>7. \A k \in 1 .. n : Keep(s, T)[k] = s[f[k]]
  BY <1>3
<1>8. Selects(f, s, T)
  BY <1>5, <1>6, <1>7 DEF I, Selects
<1> QED BY <1>5, <1>8

\* There is only one.
LEMMA SelectionIsKeep ==
    ASSUME NEW S, NEW s \in Seq(S), NEW T, NEW n \in Nat, NEW f,
           IsSelection(f, n, Places(s, T))
    PROVE  Keep(s, T) = [k \in 1 .. n |-> s[f[k]]]
<1> DEFINE I == Places(s, T)
<1>1. Len(s) \in Nat /\ I \in SUBSET (1 .. Len(s))
  BY DEF Places
<1> HIDE DEF I
<1>2. /\ f \in [1 .. n -> I]
      /\ \A k, m \in 1 .. n : k < m => f[k] < f[m]
      /\ \A i \in I : \E k \in 1 .. n : f[k] = i
  BY DEF IsSelection, I
<1>3. \A i \in I : i \in Int
  BY <1>1
<1>4. \A k, m \in 1 .. n : f[k] <= f[m] <=> k <= m
  BY <1>2, <1>3
<1>5. ASSUME NEW k \in 1 .. n PROVE RankIn(I, f[k]) = k
  <2> DEFINE J == {j \in I : j <= f[k]}
             g == [m \in 1 .. k |-> f[m]]
  <2>1. \A m \in 1 .. k : m \in 1 .. n /\ f[m] \in J
    BY <1>2, <1>4
  <2>2. g \in Injection(1 .. k, J)
    <3>1. \A m, p \in 1 .. k : f[m] = f[p] => m = p
      <4> SUFFICES ASSUME NEW m \in 1 .. k, NEW p \in 1 .. k, m < p PROVE f[m] # f[p]
        OBVIOUS
      <4>1. f[m] < f[p] /\ f[m] \in I /\ f[p] \in I
        BY <1>2, <2>1
      <4> QED BY <4>1, <1>3
    <3>2. g \in [1 .. k -> J]
      BY <2>1
    <3> QED BY <3>1, <3>2 DEF Injection, IsInjective
  <2>3. \A j \in J : \E m \in 1 .. k : g[m] = j
    <3> TAKE j \in J
    <3>1. PICK m \in 1 .. n : f[m] = j
      BY <1>2
    <3>2. m <= k
      BY <1>4, <3>1
    <3> QED BY <3>1, <3>2
  <2>4. g \in Bijection(1 .. k, J)
    BY <2>2, <2>3 DEF Bijection, Surjection, Injection
  <2>5. Cardinality(J) = k
    <3>1. ExistsBijection(1 .. k, J)
      BY <2>4 DEF ExistsBijection
    <3>2. k \in Nat
      OBVIOUS
    <3> QED BY <3>1, <3>2, FS_CountingElements
  <2> QED BY <2>5 DEF RankIn
<1>6. Cardinality(I) = n
  <2>1. f \in Injection(1 .. n, I)
    <3>1. \A m, p \in 1 .. n : f[m] = f[p] => m = p
      BY <1>5
    <3> QED BY <1>2, <3>1 DEF Injection, IsInjective
  <2>2. f \in Bijection(1 .. n, I)
    BY <2>1, <1>2 DEF Bijection, Surjection
  <2>3. ExistsBijection(1 .. n, I)
    BY <2>2 DEF ExistsBijection
  <2> QED BY <2>3, FS_CountingElements
<1>7. \A k \in 1 .. n : PlaceOf(I, k) = f[k]
  <2> TAKE k \in 1 .. n
  <2>1. PlaceOf(I, RankIn(I, f[k])) = f[k]
    BY <1>1, <1>2, PlaceOfRank
  <2> QED BY <2>1, <1>5
<1>8. Keep(s, T) = [k \in 1 .. Cardinality(I) |-> s[PlaceOf(I, k)]]
  BY KeepByPlace DEF I
<1> QED BY <1>6, <1>7, <1>8

\* What a subsequence holds.
LEMMA KeepElements ==
    ASSUME NEW S, NEW s \in Seq(S), NEW T
    PROVE  /\ Keep(s, T) \in Seq(S)
           /\ ToSet(Keep(s, T)) = ToSet(s) \cap T
           /\ IsInjective(s) => IsInjective(Keep(s, T))
<1> DEFINE u == Keep(s, T)
           I == Places(s, T)
<1>0. PICK f : Selects(f, s, T)
  BY KeepSelects, Zenon
<1>1. IsSelection(f, Len(u), I) /\ \A k \in 1 .. Len(u) : u[k] = s[f[k]]
  BY <1>0 DEF Selects
<1>2. u \in Seq(S \cap T)
  BY KeepSelects
<1> HIDE DEF u
<1>3. /\ Len(u) \in Nat /\ DOMAIN u = 1 .. Len(u)
      /\ \A k \in 1 .. Len(u) : u[k] \in S \cap T /\ f[k] \in I
      /\ \A i \in I : \E k \in 1 .. Len(u) : f[k] = i
      /\ \A k, m \in 1 .. Len(u) : k < m => f[k] < f[m]
  BY <1>1, <1>2 DEF IsSelection
<1>4. /\ \A i \in I : i \in 1 .. Len(s) /\ i \in Int
      /\ \A i \in 1 .. Len(s) : s[i] \in T => i \in I
      /\ Len(s) \in Nat /\ DOMAIN s = 1 .. Len(s)
  BY DEF Places
<1> HIDE DEF I
<1>5. u \in Seq(S)
  BY <1>2
<1>6. ToSet(u) \subseteq ToSet(s) \cap T
  BY <1>1, <1>3, <1>4 DEF ToSet
<1>7. ASSUME NEW i \in 1 .. Len(s), s[i] \in T PROVE s[i] \in ToSet(u)
  <2>1. PICK k \in 1 .. Len(u) : f[k] = i
    BY <1>3, <1>4, <1>7
  <2>2. u[k] = s[i]
    BY <1>1, <2>1
  <2> QED BY <1>3, <2>2 DEF ToSet
<1>8. ToSet(s) = {s[i] : i \in 1 .. Len(s)}
  BY <1>4 DEF ToSet
<1>9. ASSUME IsInjective(s) PROVE IsInjective(u)
  <2> SUFFICES ASSUME NEW k \in 1 .. Len(u), NEW m \in 1 .. Len(u), k < m
               PROVE  u[k] # u[m]
    BY <1>3 DEF IsInjective
  <2>1. f[k] \in 1 .. Len(s) /\ f[m] \in 1 .. Len(s) /\ f[k] # f[m]
    <3>1. f[k] < f[m] /\ f[k] \in 1 .. Len(s) /\ f[m] \in 1 .. Len(s)
      BY <1>3, <1>4
    <3> QED BY <3>1
  <2> QED BY <1>1, <1>4, <1>9, <2>1 DEF IsInjective
<1> QED BY <1>5, <1>6, <1>7, <1>8, <1>9 DEF u

\* Only the elements of the sequence matter.
LEMMA KeepSame ==
    ASSUME NEW S, NEW s \in Seq(S), NEW T, NEW U, ToSet(s) \cap T = ToSet(s) \cap U
    PROVE  Keep(s, T) = Keep(s, U)
<1>1. Places(s, T) = Places(s, U)
  BY DEF Places, ToSet
<1>2. /\ Keep(s, T) = [k \in 1 .. Cardinality(Places(s, T)) |->
                          s[PlaceOf(Places(s, T), k)]]
      /\ Keep(s, U) = [k \in 1 .. Cardinality(Places(s, U)) |->
                          s[PlaceOf(Places(s, U), k)]]
  BY ONLY KeepByPlace, s \in Seq(S)
<1> QED BY <1>1, <1>2

LEMMA KeepAll ==
    ASSUME NEW S, NEW s \in Seq(S), NEW T, ToSet(s) \subseteq T
    PROVE  Keep(s, T) = s
<1> DEFINE f == [k \in 1 .. Len(s) |-> k]
<1>1. Places(s, T) = 1 .. Len(s)
  BY DEF Places, ToSet
<1>2. IsSelection(f, Len(s), Places(s, T))
  BY <1>1 DEF IsSelection
<1>3. Keep(s, T) = [k \in 1 .. Len(s) |-> s[f[k]]]
  <2> HIDE DEF f
  <2>1. Len(s) \in Nat
    OBVIOUS
  <2> QED BY <1>2, <2>1, SelectionIsKeep
<1> QED BY <1>3

LEMMA KeepNone ==
    ASSUME NEW S, NEW s \in Seq(S), NEW T, ToSet(s) \cap T = {}
    PROVE  Keep(s, T) = <<>>
<1>1. Keep(s, T) \in Seq(S) /\ ToSet(Keep(s, T)) = {}
  BY KeepElements
<1> DEFINE u == Keep(s, T)
<1>2. u \in Seq(S) /\ \A i \in 1 .. Len(u) : u[i] \in ToSet(u)
  BY <1>1 DEF ToSet
<1>3. u \in Seq(S) /\ \A i \in 1 .. Len(u) : FALSE
  BY <1>1, <1>2
<1> HIDE DEF u
<1>4. u = <<>>
  BY <1>3
<1> QED BY <1>4 DEF u

LEMMA KeepConcat ==
    ASSUME NEW S, NEW s \in Seq(S), NEW t \in Seq(S), NEW T
    PROVE  Keep(s \o t, T) = Keep(s, T) \o Keep(t, T)
<1> DEFINE a == Keep(s, T)
           b == Keep(t, T)
<1>1. a \in Seq(S) /\ b \in Seq(S)
  BY KeepElements
<1>2a. PICK f : Selects(f, s, T)
  BY KeepSelects, Zenon
<1>2. IsSelection(f, Len(a), Places(s, T)) /\ \A k \in 1 .. Len(a) : a[k] = s[f[k]]
  BY <1>2a DEF Selects
<1>3a. PICK g : Selects(g, t, T)
  BY KeepSelects, Zenon
<1>3. IsSelection(g, Len(b), Places(t, T)) /\ \A k \in 1 .. Len(b) : b[k] = t[g[k]]
  BY <1>3a DEF Selects
<1> HIDE DEF a, b
<1> DEFINE n == Len(a) + Len(b)
           h == [k \in 1 .. n |-> IF k <= Len(a) THEN f[k] ELSE Len(s) + g[k - Len(a)]]
           u == s \o t
<1>4. /\ Len(a) \in Nat /\ Len(b) \in Nat /\ Len(s) \in Nat /\ Len(t) \in Nat /\ n \in Nat
      /\ u \in Seq(S) /\ Len(u) = Len(s) + Len(t)
      /\ \A i \in 1 .. Len(s) : u[i] = s[i]
      /\ \A i \in 1 .. Len(t) : u[Len(s) + i] = t[i]
  BY <1>1
<1>5. /\ \A k \in 1 .. Len(a) : f[k] \in 1 .. Len(s) /\ s[f[k]] \in T
      /\ \A k \in 1 .. Len(b) : g[k] \in 1 .. Len(t) /\ t[g[k]] \in T
      /\ \A k, m \in 1 .. Len(a) : k < m => f[k] < f[m]
      /\ \A k, m \in 1 .. Len(b) : k < m => g[k] < g[m]
      /\ \A i \in 1 .. Len(s) : s[i] \in T => \E k \in 1 .. Len(a) : f[k] = i
      /\ \A i \in 1 .. Len(t) : t[i] \in T => \E k \in 1 .. Len(b) : g[k] = i
  BY <1>2, <1>3 DEF IsSelection, Places
<1>6. /\ \A k \in 1 .. Len(a) : h[k] = f[k] /\ k \in 1 .. n
      /\ \A k \in 1 .. Len(b) : h[Len(a) + k] = Len(s) + g[k] /\ Len(a) + k \in 1 .. n
      /\ \A k \in 1 .. n : k \in 1 .. Len(a) \/ k - Len(a) \in 1 .. Len(b)
      /\ \A k \in 1 .. n : k \notin 1 .. Len(a) => h[k] = Len(s) + g[k - Len(a)]
  BY <1>4
<1> HIDE DEF n, h, u
<1>7. IsSelection(h, n, Places(u, T))
  <2>1. h \in [1 .. n -> Places(u, T)]
    <3>1. ASSUME NEW k \in 1 .. Len(a) PROVE h[k] \in Places(u, T)
      BY <1>4, <1>5, <1>6 DEF Places
    <3>2. ASSUME NEW k \in 1 .. n, k - Len(a) \in 1 .. Len(b), k \notin 1 .. Len(a)
          PROVE h[k] \in Places(u, T)
      <4> DEFINE i == g[k - Len(a)]
      <4>1. i \in 1 .. Len(t) /\ t[i] \in T /\ h[k] = Len(s) + i
        BY <1>5, <1>6, <3>2
      <4> HIDE DEF i
      <4>2. Len(s) + i \in 1 .. Len(u) /\ u[Len(s) + i] = t[i]
        BY <1>4, <4>1
      <4> QED BY <4>1, <4>2 DEF Places
    <3>3. h \in [1 .. n -> {h[k] : k \in 1 .. n}]
      BY DEF h
    <3> QED BY <1>6, <3>1, <3>2, <3>3
  <2>2. ASSUME NEW k \in 1 .. n, NEW m \in 1 .. n, k < m PROVE h[k] < h[m]
    <3>0. k \in Int /\ m \in Int /\ n \in Int
      BY <1>4
    <3>1. CASE m \in 1 .. Len(a)
      <4>1. k \in 1 .. Len(a)
        BY <3>1, <2>2, <1>4
      <4> QED BY <4>1, <3>1, <2>2, <1>5, <1>6
    <3>2. CASE m \notin 1 .. Len(a) /\ k \in 1 .. Len(a)
      <4>1. h[m] = Len(s) + g[m - Len(a)] /\ g[m - Len(a)] \in 1 .. Len(t)
        BY <3>2, <1>5, <1>6
      <4>2. h[k] \in 1 .. Len(s)
        BY <3>2, <1>5, <1>6
      <4> QED BY <4>1, <4>2, <1>4
    <3>3. CASE m \notin 1 .. Len(a) /\ k \notin 1 .. Len(a)
      <4> DEFINE i == k - Len(a)
                 j == m - Len(a)
      <4>1. i \in 1 .. Len(b) /\ j \in 1 .. Len(b) /\ h[k] = Len(s) + g[i] /\ h[m] = Len(s) + g[j]
        BY <3>3, <1>6
      <4>2. i < j
        BY <2>2, <1>4, <3>0
      <4> HIDE DEF i, j
      <4>3. g[i] < g[j] /\ g[i] \in 1 .. Len(t) /\ g[j] \in 1 .. Len(t)
        BY <4>1, <4>2, <1>5
      <4> QED BY <4>1, <4>3, <1>4
    <3> QED BY <3>1, <3>2, <3>3
  <2>3. ASSUME NEW i \in Places(u, T) PROVE \E k \in 1 .. n : h[k] = i
    <3>1. i \in 1 .. Len(u) /\ u[i] \in T
      BY DEF Places
    <3>2. CASE i \in 1 .. Len(s)
      BY <3>1, <3>2, <1>4, <1>5, <1>6
    <3>3. CASE i \notin 1 .. Len(s)
      <4>1. i - Len(s) \in 1 .. Len(t) /\ Len(s) + (i - Len(s)) = i
        BY <3>1, <3>3, <1>4
      <4>2. t[i - Len(s)] \in T
        BY <4>1, <3>1, <1>4
      <4>3. PICK k \in 1 .. Len(b) : g[k] = i - Len(s)
        BY <4>1, <4>2, <1>5
      <4> QED BY <4>1, <4>3, <1>6
    <3> QED BY <3>2, <3>3
  <2> QED BY <2>1, <2>2, <2>3 DEF IsSelection
<1>8. Keep(u, T) = [k \in 1 .. n |-> u[h[k]]]
  BY <1>4, <1>7, SelectionIsKeep
<1>9. \A k \in 1 .. n : u[h[k]] = (a \o b)[k]
  <2> TAKE k \in 1 .. n
  <2>1. CASE k \in 1 .. Len(a)
    <3>1. h[k] = f[k] /\ f[k] \in 1 .. Len(s) /\ a[k] = s[f[k]]
      BY <2>1, <1>2, <1>5, <1>6
    <3>2. u[f[k]] = s[f[k]]
      BY <3>1, <1>4
    <3>3. (a \o b)[k] = a[k]
      BY <2>1, <1>1, <1>4
    <3> QED BY <3>1, <3>2, <3>3
  <2>2. CASE k \notin 1 .. Len(a)
    <3>1. k - Len(a) \in 1 .. Len(b) /\ h[k] = Len(s) + g[k - Len(a)]
      BY <2>2, <1>6
    <3>2. u[h[k]] = t[g[k - Len(a)]]
      BY <3>1, <1>4, <1>5, ZenonT(60)
    <3>3. (a \o b)[k] = b[k - Len(a)]
      BY <2>2, <3>1, <1>1, <1>4
    <3> QED BY <3>1, <3>2, <3>3, <1>3
  <2> QED BY <2>1, <2>2
<1>10. a \o b = [k \in 1 .. n |-> (a \o b)[k]]
  <2> DEFINE v == a \o b
  <2>1. v \in Seq(S) /\ Len(v) = n
    BY <1>1 DEF n
  <2> HIDE DEF v
  <2>2. v \in [1 .. n -> S]
    BY <2>1
  <2>3. v = [k \in 1 .. n |-> v[k]]
    BY <2>2
  <2> QED BY <2>3 DEF v
<1> QED BY <1>8, <1>9, <1>10 DEF u, a, b

\* Dropping twice.
LEMMA KeepOfKept ==
    ASSUME NEW S, NEW s \in Seq(S), NEW T
    PROVE  Keep(s, T) = Keep(s, ToSet(Keep(s, T)))
<1>1. ToSet(Keep(s, T)) = ToSet(s) \cap T
  BY KeepElements
<1>2. ToSet(s) \cap T = ToSet(s) \cap (ToSet(s) \cap T)
  OBVIOUS
<1> QED BY <1>1, <1>2, KeepSame

\* All but the first.
LEMMA KeepTail ==
    ASSUME NEW S, NEW s \in Seq(S), s # <<>>, IsInjective(s)
    PROVE  Keep(s, ToSet(s) \ {Head(s)}) = Tail(s)
<1> DEFINE h == Head(s)
           t == Tail(s)
           T == ToSet(s) \ {h}
<1>1. /\ h \in S /\ t \in Seq(S) /\ s = <<h>> \o t /\ ToSet(s) = {h} \cup ToSet(t)
      /\ h \notin ToSet(t)
  BY HeadAndTail
<1>2. <<h>> \in Seq(S) /\ ToSet(<<h>>) = {h}
  BY <1>1, ElementsOfOne
<1> HIDE DEF h, t
<1>3. Keep(t, T) = t
  BY <1>1, KeepAll
<1>4. Keep(<<h>>, T) = <<>>
  BY <1>2, KeepNone
<1> HIDE DEF T
<1> DEFINE one == <<h>>
<1>5. Keep(one \o t, T) = Keep(one, T) \o Keep(t, T)
  <2>1. one \in Seq(S) /\ t \in Seq(S)
    BY <1>1, <1>2
  <2> HIDE DEF one
  <2> QED BY <2>1, KeepConcat
<1>6. <<>> \o t = t
  BY <1>1
<1> QED BY <1>1, <1>3, <1>4, <1>5, <1>6 DEF h, t, T

\* Taking one element out of a sequence keeps the others in order.
LEMMA RemoveAtSeq ==
    ASSUME NEW S, NEW s \in Seq(S), NEW k \in 1 .. Len(s)
    PROVE  /\ RemoveAt(s, k) \in Seq(S)
           /\ Len(RemoveAt(s, k)) = Len(s) - 1
           /\ \A j \in 1 .. Len(s) - 1 :
                 RemoveAt(s, k)[j] = IF j < k THEN s[j] ELSE s[j + 1]
<1> DEFINE front == SubSeq(s, 1, k - 1)
           back  == SubSeq(s, k + 1, Len(s))
<1>1. Len(s) \in Nat /\ k \in Nat
  BY LenProperties
<1>2. front \in Seq(S) /\ Len(front) = k - 1
      /\ \A j \in 1 .. k - 1 : front[j] = s[j]
  <2>1. \A j \in 1 .. k - 1 : s[j] \in S
    BY <1>1, LenProperties
  <2>2. /\ front \in Seq(S)
        /\ Len(front) = IF 1 <= k - 1 THEN (k - 1) - 1 + 1 ELSE 0
        /\ \A j \in 1 .. (k - 1) - 1 + 1 : front[j] = s[1 + j - 1]
    <3>1. 1 \in Int /\ k - 1 \in Int
      BY <1>1
    <3> QED BY <2>1, <3>1, SubSeqProperties
  <2> HIDE DEF front
  <2> QED BY <1>1, <2>2
<1>3. back \in Seq(S) /\ Len(back) = Len(s) - k
      /\ \A j \in 1 .. Len(s) - k : back[j] = s[j + k]
  <2>1. \A j \in k + 1 .. Len(s) : s[j] \in S
    BY <1>1, LenProperties
  <2>2. /\ back \in Seq(S)
        /\ Len(back) = IF k + 1 <= Len(s) THEN Len(s) - (k + 1) + 1 ELSE 0
        /\ \A j \in 1 .. Len(s) - (k + 1) + 1 : back[j] = s[(k + 1) + j - 1]
    <3>1. k + 1 \in Int /\ Len(s) \in Int
      BY <1>1
    <3> QED BY <2>1, <3>1, SubSeqProperties
  <2> HIDE DEF back
  <2>3. \A j \in 1 .. Len(s) - k : (k + 1) + j - 1 = j + k
    BY <1>1
  <2> QED BY <1>1, <2>2, <2>3
<1>4. RemoveAt(s, k) = front \o back
  BY DEF RemoveAt
<1> HIDE DEF front, back
<1>5. /\ front \o back \in Seq(S)
      /\ Len(front \o back) = Len(front) + Len(back)
      /\ \A j \in 1 .. Len(front) + Len(back) :
            (front \o back)[j] = IF j <= Len(front) THEN front[j]
                                 ELSE back[j - Len(front)]
  BY <1>2, <1>3, ConcatProperties
<1>6. Len(front) + Len(back) = Len(s) - 1
  BY <1>1, <1>2, <1>3
<1>7. ASSUME NEW j \in 1 .. Len(s) - 1
      PROVE  (front \o back)[j] = IF j < k THEN s[j] ELSE s[j + 1]
  <2>1. CASE j < k
    <3>1. j \in 1 .. k - 1 /\ j <= Len(front)
      BY <1>1, <1>2, <2>1
    <3> QED BY <1>2, <1>5, <1>6, <2>1, <3>1
  <2>2. CASE ~(j < k)
    <3>1. j - (k - 1) \in 1 .. Len(s) - k /\ ~(j <= Len(front))
      BY <1>1, <1>2, <2>2
    <3>2. j - (k - 1) + k = j + 1 /\ Len(front) = k - 1
      BY <1>1, <1>2
    <3>3. (front \o back)[j] = back[j - (k - 1)]
      BY <1>5, <1>6, <3>1, <3>2
    <3> QED BY <1>3, <2>2, <3>1, <3>2, <3>3
  <2> QED BY <2>1, <2>2
<1> QED BY <1>4, <1>5, <1>6, <1>7

\* The elements that are kept stay in order.
LEMMA KeepPlaces ==
    ASSUME NEW S, NEW s \in Seq(S), NEW T
    PROVE  \E f \in [1 .. Len(Keep(s, T)) -> 1 .. Len(s)] :
              /\ \A k \in 1 .. Len(Keep(s, T)) :
                    Keep(s, T)[k] = s[f[k]] /\ s[f[k]] \in T
              /\ \A k, m \in 1 .. Len(Keep(s, T)) : k < m => f[k] < f[m]
<1>1. PICK f : Selects(f, s, T)
  BY KeepSelects, Zenon
<1> DEFINE n == Len(Keep(s, T))
           I == Places(s, T)
<1>2. /\ f \in [1 .. n -> I] /\ \A k, m \in 1 .. n : k < m => f[k] < f[m]
      /\ \A k \in 1 .. n : Keep(s, T)[k] = s[f[k]]
  BY <1>1 DEF Selects, IsSelection
<1>3. I = {i \in 1 .. Len(s) : s[i] \in T}
  BY DEF Places
<1> HIDE DEF n, I
<1>4. f \in [1 .. n -> 1 .. Len(s)] /\ \A k \in 1 .. n : s[f[k]] \in T
  BY <1>2, <1>3
<1> QED BY <1>2, <1>4 DEF n

LEMMA ConcatIs ==
    ASSUME NEW S, NEW s \in Seq(S), NEW t \in Seq(S)
    PROVE  /\ s \o t \in Seq(S) /\ Len(s \o t) = Len(s) + Len(t)
           /\ \A i \in 1 .. Len(s) : (s \o t)[i] = s[i]
           /\ \A i \in 1 .. Len(t) : (s \o t)[Len(s) + i] = t[i]
  OBVIOUS

LEMMA LastOfConcat ==
    ASSUME NEW S, NEW s \in Seq(S), NEW x \in S
    PROVE  /\ s \o <<x>> \in Seq(S) /\ s \o <<x>> # <<>>
           /\ Last(s \o <<x>>) = x
           /\ Len(s \o <<x>>) = Len(s) + 1
           /\ \A i \in 1 .. Len(s) : (s \o <<x>>)[i] = s[i]
<1> DEFINE u == <<x>>
           v == s \o u
<1>1. u \in Seq(S) /\ Len(u) = 1 /\ u[1] = x
  OBVIOUS
<1> HIDE DEF u
<1>2. /\ v \in Seq(S) /\ Len(v) = Len(s) + Len(u)
      /\ \A i \in 1 .. Len(s) : v[i] = s[i]
      /\ \A i \in 1 .. Len(u) : v[Len(s) + i] = u[i]
  BY <1>1, ConcatIs
<1> HIDE DEF v
<1>3. v[Len(s) + 1] = x /\ v # <<>>
  BY <1>1, <1>2
<1>4. Last(v) = x
  BY <1>1, <1>2, <1>3 DEF Last
<1> QED BY <1>1, <1>2, <1>3, <1>4 DEF v, u

\* The last one stays last.
LEMMA KeepLast ==
    ASSUME NEW S, NEW s \in Seq(S), NEW T, s # <<>>, Last(s) \in T
    PROVE  Keep(s, T) # <<>> /\ Last(Keep(s, T)) = Last(s)
<1>1. \E t \in Seq(S), x \in S : s = t \o <<x>>
  <2>1. /\ Len(s) \in Nat /\ Len(s) > 0 /\ \A i \in 1 .. Len(s) : s[i] \in S
    OBVIOUS
  <2>2. PICK x \in S : x = s[Len(s)]
    BY <2>1
  <2>3. PICK t \in Seq(S) : /\ Len(t) = Len(s) - 1
                            /\ \A i \in 1 .. Len(s) - 1 : t[i] = s[i]
    <3> DEFINE f == [i \in 1 .. Len(s) - 1 |-> s[i]]
    <3>1. /\ f \in Seq(S) /\ Len(f) = Len(s) - 1
          /\ \A i \in 1 .. Len(s) - 1 : f[i] = s[i]
      BY <2>1
    <3> HIDE DEF f
    <3> QED BY <3>1
  <2>4. PICK v : v = t \o <<x>>
    OBVIOUS
  <2>5. /\ v \in Seq(S) /\ Len(v) = Len(t) + 1 /\ v[Len(v)] = x
        /\ \A i \in 1 .. Len(t) : v[i] = t[i]
    BY <2>4, LastOfConcat DEF Last
  <2>6. s = v
    <3>1. Len(v) = Len(s) /\ \A i \in 1 .. Len(s) : v[i] = s[i]
      BY <2>1, <2>2, <2>3, <2>5
    <3> QED BY <2>5, <3>1
  <2> QED BY <2>4, <2>6
<1>2. PICK t \in Seq(S), x \in S : s = t \o <<x>>
  BY <1>1
<1>3. Last(s) = x /\ x \in T
  BY <1>2, LastOfConcat
<1>4. <<x>> \in Seq(S) /\ ToSet(<<x>>) = {x}
  BY ElementsOfOne
<1>5. Keep(<<x>>, T) = <<x>>
  BY <1>3, <1>4, KeepAll
<1>6. Keep(s, T) = Keep(t, T) \o <<x>>
  <2>1. ASSUME NEW u \in Seq(S)
        PROVE  Keep(t \o u, T) = Keep(t, T) \o Keep(u, T)
    BY KeepConcat
  <2>2. Keep(t \o <<x>>, T) = Keep(t, T) \o Keep(<<x>>, T)
    BY <1>4, <2>1, Zenon
  <2> QED BY <1>2, <1>5, <2>2
<1>7. Keep(t, T) \in Seq(S)
  BY KeepElements
<1> QED BY <1>3, <1>6, <1>7, LastOfConcat

\* What is kept of one element.
LEMMA KeepOne ==
    ASSUME NEW S, NEW x \in S, NEW T
    PROVE  /\ <<x>> \in Seq(S)
           /\ x \in T => Keep(<<x>>, T) = <<x>>
           /\ x \notin T => Keep(<<x>>, T) = <<>>
<1> DEFINE one == <<x>>
<1>1. one \in Seq(S) /\ ToSet(one) = {x}
  BY ElementsOfOne
<1> HIDE DEF one
<1>2. x \in T => ToSet(one) \subseteq T
  BY <1>1
<1>3. x \notin T => ToSet(one) \cap T = {}
  BY <1>1
<1>4. x \in T => Keep(one, T) = one
  BY <1>1, <1>2, KeepAll
<1>5. x \notin T => Keep(one, T) = <<>>
  BY <1>1, <1>3, KeepNone
<1> QED BY <1>1, <1>4, <1>5 DEF one

\* What stands before and after a place of a sequence.
IsSplit(a, b, S, s, i) ==
    /\ ToSet(b) = {s[j] : j \in i + 1 .. Len(s)}
    /\ s = (a \o <<s[i]>>) \o b
    /\ \A x \in S : [s EXCEPT ![i] = x] = (a \o <<x>>) \o b

\* A sequence can be taken apart at each of its places.
LEMMA SplitAt ==
    ASSUME NEW S, NEW s \in Seq(S), NEW i \in 1 .. Len(s)
    PROVE  \E a, b \in Seq(S) : IsSplit(a, b, S, s, i)
<1> DEFINE a == SubSeq(s, 1, i - 1)
           b == SubSeq(s, i + 1, Len(s))
<1>0. Len(s) \in Nat /\ i \in Nat /\ s[i] \in S /\ i >= 1 /\ i <= Len(s)
  BY LenProperties, ElementOfSeq
<1>1. /\ a \in Seq(S) /\ Len(a) = i - 1
      /\ \A j \in 1 .. i - 1 : a[j] = s[j]
  BY <1>0, SubSeqProperties
<1>2. /\ b \in Seq(S) /\ Len(b) = Len(s) - i
      /\ \A j \in 1 .. Len(s) - i : b[j] = s[i + j]
  BY <1>0, SubSeqProperties
<1> HIDE DEF a, b
<1>3. ToSet(b) = {s[j] : j \in i + 1 .. Len(s)}
  <2>1. ToSet(b) = {b[j] : j \in 1 .. Len(s) - i}
    BY <1>2, Elements
  <2>2. ASSUME NEW j \in i + 1 .. Len(s)
        PROVE  s[j] \in {b[k] : k \in 1 .. Len(s) - i}
    <3>1. j - i \in 1 .. Len(s) - i /\ i + (j - i) = j
      BY <1>0
    <3>2. b[j - i] = s[i + (j - i)]
      BY <1>2, <3>1
    <3> QED BY <3>1, <3>2
  <2>3. ASSUME NEW j \in 1 .. Len(s) - i
        PROVE  b[j] \in {s[k] : k \in i + 1 .. Len(s)}
    <3>1. i + j \in i + 1 .. Len(s)
      BY <1>0
    <3> QED BY <1>2, <3>1
  <2> QED BY <2>1, <2>2, <2>3
<1>4. ASSUME NEW y \in S
      PROVE  /\ (a \o <<y>>) \o b \in Seq(S)
             /\ Len((a \o <<y>>) \o b) = Len(s)
             /\ \A j \in 1 .. Len(s) :
                  ((a \o <<y>>) \o b)[j] = IF j = i THEN y ELSE s[j]
  <2> DEFINE front == a \o <<y>>
  <2>1. /\ front \in Seq(S) /\ Len(front) = i
        /\ \A j \in 1 .. i : front[j] = IF j = i THEN y ELSE s[j]
    BY <1>0, <1>1
  <2>2. front \in Seq(S) /\ b \in Seq(S) /\ Len(front) = i /\ Len(b) = Len(s) - i
    BY <1>2, <2>1
  <2> HIDE DEF front
  <2>7. /\ front \o b \in Seq(S) /\ Len(front \o b) = Len(front) + Len(b)
        /\ \A j \in 1 .. Len(front) + Len(b) :
              (front \o b)[j] = IF j <= Len(front) THEN front[j] ELSE b[j - Len(front)]
    BY <2>2, ConcatProperties
  <2>8. i + (Len(s) - i) = Len(s)
    BY <1>0
  <2>3. /\ front \o b \in Seq(S) /\ Len(front \o b) = Len(s)
        /\ \A j \in 1 .. Len(s) :
              (front \o b)[j] = IF j <= i THEN front[j] ELSE b[j - i]
    BY <2>2, <2>7, <2>8
  <2>4. ASSUME NEW j \in i + 1 .. Len(s)
        PROVE  ~(j <= i) /\ b[j - i] = s[j] /\ j # i
    <3>1. j - i \in 1 .. Len(s) - i /\ i + (j - i) = j /\ ~(j <= i) /\ j # i
      BY <1>0
    <3>2. b[j - i] = s[i + (j - i)]
      BY <1>2, <3>1
    <3> QED BY <3>1, <3>2
  <2>5. \A j \in 1 .. Len(s) : j \in 1 .. i \/ j \in i + 1 .. Len(s)
    BY <1>0
  <2>6. \A j \in 1 .. i : j <= i
    BY <1>0
  <2> QED BY <2>1, <2>3, <2>4, <2>5, <2>6 DEF front
<1>5. ASSUME NEW y \in S, NEW v \in Seq(S), Len(v) = Len(s),
             \A j \in 1 .. Len(s) : v[j] = IF j = i THEN y ELSE s[j]
      PROVE  v = (a \o <<y>>) \o b
  <2> DEFINE w == (a \o <<y>>) \o b
  <2>1. w \in Seq(S) /\ Len(w) = Len(v) /\ \A j \in 1 .. Len(v) : v[j] = w[j]
    BY <1>4, <1>5
  <2> HIDE DEF w
  <2>2. v = w
    BY <2>1, SeqEqual
  <2> QED BY <2>2 DEF w
<1>6. s = (a \o <<s[i]>>) \o b
  BY <1>0, <1>5
<1>7. ASSUME NEW x \in S
      PROVE  [s EXCEPT ![i] = x] = (a \o <<x>>) \o b
  <2> DEFINE u == [s EXCEPT ![i] = x]
  <2>1. u \in Seq(S) /\ Len(u) = Len(s)
        /\ \A j \in 1 .. Len(s) : u[j] = IF j = i THEN x ELSE s[j]
    BY <1>0, ExceptSeq
  <2> HIDE DEF u
  <2>2. u = (a \o <<x>>) \o b
    BY <1>5, <2>1
  <2> QED BY <2>2 DEF u
<1>8. IsSplit(a, b, S, s, i)
  BY <1>3, <1>6, <1>7 DEF IsSplit
<1> QED BY <1>1, <1>2, <1>8

\* What is kept when nothing of T follows an element.
LEMMA KeepUpTo ==
    ASSUME NEW S, NEW a \in Seq(S), NEW x \in S, NEW b \in Seq(S), NEW T,
           ToSet(b) \cap T = {}
    PROVE  Keep((a \o <<x>>) \o b, T) =
              IF x \in T THEN Append(Keep(a, T), x) ELSE Keep(a, T)
<1> DEFINE one == <<x>>
           front == a \o one
           k == Keep(a, T)
<1>1. one \in Seq(S) /\ front \in Seq(S) /\ k \in Seq(S)
  BY KeepElements
<1>2. (x \in T => Keep(one, T) = one) /\ (x \notin T => Keep(one, T) = <<>>)
  BY KeepOne
<1>3. Append(k, x) = k \o one
  <2> HIDE DEF k
  <2> QED BY <1>1, AppendIsConcatOfOne
<1> HIDE DEF one
<1>0. \A p, q \in Seq(S) : Keep(p \o q, T) = Keep(p, T) \o Keep(q, T)
  BY ONLY KeepConcat, SMTT(30)
<1>4. Keep(front, T) = k \o Keep(one, T)
  BY <1>0, <1>1, Zenon
<1>5. Keep(b, T) = <<>>
  BY KeepNone
<1> HIDE DEF front
<1>6. Keep(front \o b, T) = Keep(front, T) \o Keep(b, T)
  BY <1>0, <1>1, Zenon
<1>7. Keep(front, T) \in Seq(S)
  BY <1>1, KeepElements
<1>8. Keep(front \o b, T) = k \o Keep(one, T)
  BY <1>4, <1>5, <1>6, <1>7, ConcatLaws, EmptySeq
<1> HIDE DEF k
<1>9. k \o <<>> = k
  BY <1>1, ConcatLaws, EmptySeq
<1> QED BY <1>2, <1>3, <1>8, <1>9 DEF k, front, one

\* s has no element of T at i or after it.
NoneFrom(s, i, T) == \A j \in i .. Len(s) : s[j] \notin T

\* u is s with x at i.
IsUpdate(u, s, i, x) == u = [s EXCEPT ![i] = x]

\* To put an element of T where none of T follows appends it to what is kept.
LEMMA KeepOfLast ==
    ASSUME NEW S, NEW s \in Seq(S), NEW T, NEW i \in 1 .. Len(s), NEW x \in S \cap T,
           NoneFrom(s, i, T), NEW u, IsUpdate(u, s, i, x)
    PROVE  Keep(u, T) = Append(Keep(s, T), x)
<1>0. Len(s) \in Nat /\ i \in i .. Len(s) /\ s[i] \in S /\ x \in S
      /\ (i + 1 .. Len(s)) \subseteq (i .. Len(s))
  BY LenProperties, ElementOfSeq
<1>1. PICK a, b \in Seq(S) : IsSplit(a, b, S, s, i)
  BY SplitAt
<1>5. /\ ToSet(b) = {s[j] : j \in i + 1 .. Len(s)}
      /\ s = (a \o <<s[i]>>) \o b
      /\ [s EXCEPT ![i] = x] = (a \o <<x>>) \o b
  BY <1>0, <1>1 DEF IsSplit
<1>2. ToSet(b) \cap T = {} /\ s[i] \notin T
  BY <1>0, <1>5 DEF NoneFrom
<1>3. Keep((a \o <<x>>) \o b, T) = Append(Keep(a, T), x)
  BY <1>0, <1>2, KeepUpTo
<1>4. Keep((a \o <<s[i]>>) \o b, T) = Keep(a, T)
  BY <1>0, <1>2, KeepUpTo
<1> QED BY <1>3, <1>4, <1>5 DEF IsUpdate

\* A sequence goes round: its first element goes, and y comes at the end.
IsTurned(u, s, y) == u = Append(Tail(s), y)

\* When y is not kept, all that matters is whether the first element was.
LEMMA KeepOfTurned ==
    ASSUME NEW S, NEW s \in Seq(S), s # <<>>, NEW T, NEW y \in S \ T,
           NEW u, IsTurned(u, s, y)
    PROVE  /\ Head(s) \in T => /\ Keep(s, T) # <<>> /\ Head(Keep(s, T)) = Head(s)
                               /\ Keep(u, T) = Tail(Keep(s, T))
           /\ Head(s) \notin T => Keep(u, T) = Keep(s, T)
<1>0. u = Append(Tail(s), y)
  BY DEF IsTurned
<1> DEFINE h == Head(s)
           t == Tail(s)
<1>1. h \in S /\ t \in Seq(S) /\ s = <<h>> \o t /\ Append(t, y) = t \o <<y>>
  BY HeadAndTail, AppendIsConcatOfOne
<1> HIDE DEF h, t
<1> DEFINE one == <<h>>
           last == <<y>>
           k == Keep(t, T)
<1>2. one \in Seq(S) /\ last \in Seq(S) /\ k \in Seq(S)
  BY <1>1, KeepOne, KeepElements
<1>3. Keep(last, T) = <<>>
  BY KeepOne
<1>4. (h \in T => Keep(one, T) = one) /\ (h \notin T => Keep(one, T) = <<>>)
  BY <1>1, KeepOne
<1> HIDE DEF one, last
<1>5. Keep(one \o t, T) = Keep(one, T) \o k
  BY <1>1, <1>2, KeepConcat, SMTT(30)
<1>6. Keep(t \o last, T) = k
  <2>1. Keep(t \o last, T) = k \o Keep(last, T)
    BY <1>1, <1>2, KeepConcat, SMTT(30)
  <2> HIDE DEF k
  <2> QED BY <1>2, <1>3, <2>1, ConcatLaws, EmptySeq
<1> HIDE DEF k
<1>7. CASE h \in T
  <2>1. Keep(s, T) = <<h>> \o k
    BY <1>1, <1>4, <1>5, <1>7 DEF one
  <2>2. <<h>> \o k # <<>> /\ Head(<<h>> \o k) = h /\ Tail(<<h>> \o k) = k
    BY <1>1, <1>2, FirstOfConcat
  <2> QED BY <1>0, <1>1, <1>6, <1>7, <2>1, <2>2 DEF h, t, last
<1>8. CASE h \notin T
  <2>1. Keep(s, T) = k
    <3>1. Keep(s, T) = <<>> \o k
      BY <1>1, <1>4, <1>5, <1>8 DEF one
    <3> QED BY <1>2, <3>1, ConcatLaws
  <2> QED BY <1>0, <1>1, <1>6, <1>8, <2>1 DEF h, t, last
<1> QED BY <1>7, <1>8
=============================================================================
