----------------------------- MODULE WBSProofs -----------------------------
(***************************************************************************)
(* What the operators of WBS and AIProvider preserve: each method of the   *)
(* aggregate takes an aggregate to an aggregate, and each adapter returns  *)
(* a list that is typed, cleaned and no longer than what was submitted.    *)
(*                                                                         *)
(* The first lemmas are about sequences and finite sets of naturals.  The  *)
(* induction that shows that a finite set can be listed in ascending order *)
(* is an argument by a smallest counterexample, in the well-founded order  *)
(* of strict inclusion on finite sets.                                     *)
(***************************************************************************)
EXTENDS AIProvider, FiniteSetTheorems, SequenceTheorems, WellFoundedInduction, TLAPS

-----------------------------------------------------------------------------
(* Sequences and sets of naturals. *)

\* Taking out the i-th element of a sequence moves the later ones down by one:
\* what append(list[:i-1], list[i:]...) does in wbs.go and risk.go.
LEMMA RemoveAtProperties ==
  ASSUME NEW S, NEW s \in Seq(S), NEW i \in 1..Len(s)
  PROVE  /\ RemoveAt(s, i) \in Seq(S)
         /\ Len(RemoveAt(s, i)) = Len(s) - 1
         /\ \A j \in 1..(Len(s) - 1) :
              RemoveAt(s, i)[j] = IF j < i THEN s[j] ELSE s[j + 1]
<1> DEFINE a == SubSeq(s, 1, i - 1)
           b == SubSeq(s, i + 1, Len(s))
<1>1. /\ a \in Seq(S) /\ Len(a) = i - 1
      /\ \A j \in 1..(i - 1) : a[j] = s[j]
  BY SubSeqProperties
<1>2. /\ b \in Seq(S) /\ Len(b) = Len(s) - i
      /\ \A j \in 1..(Len(s) - i) : b[j] = s[j + i]
  BY SubSeqProperties
<1>3. RemoveAt(s, i) = a \o b
  BY DEF RemoveAt
<1> HIDE DEF a, b
<1>4. /\ a \o b \in Seq(S)
      /\ Len(a \o b) = Len(a) + Len(b)
      /\ \A j \in 1..(Len(a) + Len(b)) :
           (a \o b)[j] = IF j <= Len(a) THEN a[j] ELSE b[j - Len(a)]
  BY <1>1, <1>2, ConcatProperties
<1>5. Len(a \o b) = Len(s) - 1
  BY <1>1, <1>2, <1>4
<1>6. ASSUME NEW j \in 1..(Len(s) - 1)
      PROVE  (a \o b)[j] = IF j < i THEN s[j] ELSE s[j + 1]
  <2>1. CASE j < i
    BY <1>1, <1>2, <1>4, <2>1
  <2>2. CASE ~(j < i)
    <3>1. j - (i - 1) \in 1..(Len(s) - i)
      BY <2>2
    <3>2. b[j - (i - 1)] = s[j + 1]
      BY <1>2, <3>1
    <3> QED
      BY <1>1, <1>2, <1>4, <2>2, <3>2
  <2> QED
    BY <2>1, <2>2
<1> QED
  BY <1>3, <1>4, <1>5, <1>6

\* A non-empty set of naturals has a least element.  The intervals 0..(n - 1)
\* stand for the numbers: one is strictly inside another just when the number
\* is less.
LEMMA LeastNatural ==
  ASSUME NEW T \in SUBSET Nat, T # {}
  PROVE  \E n \in T : \A m \in T : n <= m
<1> DEFINE Below(n) == 0..(n - 1)
           Belows   == {Below(n) : n \in T}
<1> HIDE DEF Below
<1>1. Belows \subseteq FiniteSubsetsOf(Nat)
  <2>1. ASSUME NEW n \in T
        PROVE  Below(n) \in FiniteSubsetsOf(Nat)
    <3>1. IsFiniteSet(0..(n - 1))
      BY FS_Interval
    <3> QED
      BY <3>1 DEF FiniteSubsetsOf, Below
  <2> QED
    BY <2>1
<1>2. PICK x \in Belows : \A y \in Belows : ~(<<y, x>> \in StrictSubsetOrdering(Nat))
  <2>1. Belows # {}
    OBVIOUS
  <2> HIDE DEF Belows
  <2> QED
    BY <1>1, <2>1, FS_StrictSubsetOrderingWellFounded, WFMin
<1>3. PICK n \in T : x = Below(n)
  OBVIOUS
<1>4. ASSUME NEW m \in T, m < n
      PROVE  FALSE
  <2>1. <<Below(m), Below(n)>> \in StrictSubsetOrdering(Nat)
    BY <1>4 DEF StrictSubsetOrdering, Below
  <2> QED
    BY <1>2, <1>3, <2>1
<1> QED
  BY <1>4

\* f lists S in ascending order.
Lists(f, S) ==
  /\ f \in [1..Cardinality(S) -> S]
  /\ \A p, q \in 1..Cardinality(S) : p < q => f[p] < f[q]

\* A list of S without its least element m, with m put before it, lists S.
LEMMA ListsCons ==
  ASSUME NEW S \in SUBSET Nat, IsFiniteSet(S), NEW m \in S, \A k \in S : m <= k,
         NEW f, Lists(f, S \ {m})
  PROVE  \E g : Lists(g, S)
<1> DEFINE n == Cardinality(S)
           g == [q \in 1..n |-> IF q = 1 THEN m ELSE f[q - 1]]
<1>1. n \in Nat /\ Cardinality(S \ {m}) = n - 1 /\ n - 1 \in Nat
  BY FS_RemoveElement, FS_CardinalityType
<1>2. f \in [1..(n - 1) -> S \ {m}]
  BY <1>1 DEF Lists
<1>3. \A p, q \in 1..(n - 1) : p < q => f[p] < f[q]
  BY <1>1 DEF Lists
<1> HIDE DEF n
<1>4. \A q \in 1..n : q # 1 => q - 1 \in 1..(n - 1)
  BY <1>1
<1>5. \A q \in 1..n : q # 1 => g[q] \in S \ {m}
  BY <1>2, <1>4
<1>6. g \in [1..n -> S]
  BY <1>5
<1>7. ASSUME NEW p \in 1..n, NEW q \in 1..n, p < q
      PROVE  g[p] < g[q]
  <2>1. q # 1
    BY <1>7
  <2>2. CASE p = 1
    <3>1. g[p] = m /\ g[q] \in S /\ g[q] # m
      BY <1>5, <2>1, <2>2
    <3>2. m \in Nat /\ g[q] \in Nat /\ m <= g[q]
      BY <3>1
    <3> QED
      BY <3>1, <3>2
  <2>3. CASE p # 1
    <3>1. g[p] = f[p - 1] /\ g[q] = f[q - 1]
      BY <2>1, <2>3
    <3>2. p - 1 \in 1..(n - 1) /\ q - 1 \in 1..(n - 1) /\ p - 1 < q - 1
      BY <1>4, <1>7, <2>1, <2>3
    <3> QED
      BY <1>3, <3>1, <3>2
  <2> QED
    BY <2>2, <2>3
<1>8. Lists(g, S)
  BY <1>6, <1>7 DEF Lists, n
<1> QED
  BY <1>8

\* A non-empty set of naturals up to n has a greatest element: the least one,
\* counted down from n.
LEMMA GreatestNatural ==
  ASSUME NEW n \in Nat, NEW T \in SUBSET (0..n), T # {}
  PROVE  \E g \in T : \A m \in T : m <= g
<1> DEFINE Down == {n - m : m \in T}
<1>1. Down \in SUBSET Nat /\ Down # {}
  <2>1. \A m \in T : n - m \in Nat
    OBVIOUS
  <2> QED
    BY <2>1
<1>2. PICK l \in Down : \A m \in Down : l <= m
  <2> HIDE DEF Down
  <2> QED
    BY <1>1, LeastNatural
<1>3. PICK g \in T : l = n - g
  OBVIOUS
<1>4. ASSUME NEW m \in T
      PROVE  m <= g
  <2>1. n - m \in Down
    OBVIOUS
  <2>2. n - g <= n - m
    BY <1>2, <1>3, <2>1
  <2>3. m \in 0..n /\ g \in 0..n
    OBVIOUS
  <2> HIDE DEF Down
  <2> QED
    BY <2>2, <2>3
<1> QED
  BY <1>4

\* A finite set of naturals can be listed in ascending order.
LEMMA ListsExist ==
  ASSUME NEW S \in SUBSET Nat, IsFiniteSet(S)
  PROVE  \E f : Lists(f, S)
<1> DEFINE Bad == {T \in FiniteSubsetsOf(Nat) : ~\E f : Lists(f, T)}
<1>1. SUFFICES ASSUME Bad # {}
               PROVE  FALSE
  BY DEF FiniteSubsetsOf
<1>2. PICK T \in Bad : \A U \in Bad : ~(<<U, T>> \in StrictSubsetOrdering(Nat))
  BY <1>1, FS_StrictSubsetOrderingWellFounded, WFMin
<1>3. T \in SUBSET Nat /\ IsFiniteSet(T) /\ ~\E f : Lists(f, T)
  BY DEF FiniteSubsetsOf
<1>4. T # {}
  <2>1. SUFFICES ASSUME T = {}
                 PROVE  Lists(<< >>, T)
    BY <1>3
  <2>2. Cardinality(T) = 0
    BY <2>1, FS_EmptySet
  <2> QED
    BY <2>2 DEF Lists
<1>5. PICK m \in T : \A k \in T : m <= k
  BY <1>3, <1>4, LeastNatural
<1>6. T \ {m} \in FiniteSubsetsOf(Nat)
  BY <1>3, FS_RemoveElement DEF FiniteSubsetsOf
<1>7. <<T \ {m}, T>> \in StrictSubsetOrdering(Nat)
  BY <1>3 DEF StrictSubsetOrdering
<1>8. PICK f : Lists(f, T \ {m})
  BY <1>2, <1>6, <1>7
<1> QED
  BY <1>3, <1>5, <1>8, ListsCons

\* A list of S has each of its elements at one place.
LEMMA ListsOnto ==
  ASSUME NEW S \in SUBSET Nat, IsFiniteSet(S), NEW f, Lists(f, S)
  PROVE  /\ \A x \in S : \E q \in 1..Cardinality(S) : f[q] = x
         /\ \A p, q \in 1..Cardinality(S) : f[p] = f[q] => p = q
<1> DEFINE n == Cardinality(S)
<1>1. n \in Nat /\ IsFiniteSet(1..n) /\ Cardinality(1..n) = n
  BY FS_CardinalityType, FS_Interval
<1>2. f \in [1..n -> S] /\ \A p, q \in 1..n : p < q => f[p] < f[q]
  BY DEF Lists
<1> HIDE DEF n
<1>3. \A p, q \in 1..n : f[p] = f[q] => p = q
  <2>1. \A p \in 1..n : f[p] \in Nat
    BY <1>2
  <2>2. ASSUME NEW p \in 1..n, NEW q \in 1..n, p < q
        PROVE  f[p] # f[q]
    BY <1>2, <2>1, <2>2
  <2> QED
    BY <1>1, <2>2
<1>4. f \in Injection(1..n, S)
  BY <1>2, <1>3 DEF Injection, IsInjective
<1>5. f \in Surjection(1..n, S)
  BY <1>1, <1>4, FS_Injection DEF n
<1> QED
  BY <1>3, <1>5 DEF Surjection, n

\* So as many elements of S are at most the q-th as there are places up to it.
LEMMA ListsRank ==
  ASSUME NEW S \in SUBSET Nat, IsFiniteSet(S), NEW f, Lists(f, S),
         NEW q \in 1..Cardinality(S)
  PROVE  Cardinality({y \in S : y <= f[q]}) = q
<1> DEFINE n == Cardinality(S)
           T == {y \in S : y <= f[q]}
           g == [p \in 1..q |-> f[p]]
<1>1. n \in Nat /\ q \in Nat /\ q \in 1..n
  BY FS_CardinalityType
<1>2. f \in [1..n -> S] /\ \A a, b \in 1..n : a < b => f[a] < f[b]
  BY DEF Lists
<1>3. /\ \A x \in S : \E p \in 1..n : f[p] = x
      /\ \A a, b \in 1..n : f[a] = f[b] => a = b
  BY ListsOnto
<1> HIDE DEF n
<1>4. \A p \in 1..n : f[p] \in Nat
  BY <1>2
<1>5. \A p \in 1..n : p <= q <=> f[p] <= f[q]
  BY <1>1, <1>2, <1>4
<1>6. g \in [1..q -> T]
  BY <1>1, <1>2, <1>5
<1>7. \A a, b \in 1..q : g[a] = g[b] => a = b
  BY <1>1, <1>3
<1>8. \A y \in T : \E p \in 1..q : g[p] = y
  <2> SUFFICES ASSUME NEW y \in S, y <= f[q]
               PROVE  \E p \in 1..q : g[p] = y
    OBVIOUS
  <2>1. PICK p \in 1..n : f[p] = y
    BY <1>3
  <2>2. p \in 1..q
    BY <1>1, <1>5, <2>1
  <2> QED
    BY <2>1, <2>2
<1> HIDE DEF g, T
<1>9. g \in Bijection(1..q, T)
  BY <1>6, <1>7, <1>8 DEF Bijection, Injection, Surjection, IsInjective
<1>10. Cardinality(T) = q
  BY <1>1, <1>9, FS_CountingElements DEF ExistsBijection
<1> QED
  BY <1>10 DEF T

\* So there is one list, and it is Ascending(S).
LEMMA ListsAscend ==
  ASSUME NEW S \in SUBSET Nat, IsFiniteSet(S), NEW f, Lists(f, S)
  PROVE  Ascending(S) = f
<1> DEFINE n == Cardinality(S)
           Rank(x) == Cardinality({y \in S : y <= x})
<1>1. f \in [1..n -> S]
  BY DEF Lists
<1>2. \A q \in 1..n : Rank(f[q]) = q
  BY ListsRank
<1>3. \A x \in S : \E q \in 1..n : f[q] = x
  BY ListsOnto
<1>4. Ascending(S) = [q \in 1..n |-> CHOOSE x \in S : Rank(x) = q]
  BY DEF Ascending
<1> HIDE DEF n, Rank
<1>5. ASSUME NEW q \in 1..n
      PROVE  (CHOOSE x \in S : Rank(x) = q) = f[q]
  <2>1. f[q] \in S /\ Rank(f[q]) = q
    BY <1>1, <1>2
  <2>2. ASSUME NEW x \in S, Rank(x) = q
        PROVE  x = f[q]
    BY <1>2, <1>3, <2>2
  <2> QED
    BY <2>1, <2>2
<1>6. [q \in 1..n |-> CHOOSE x \in S : Rank(x) = q] = [q \in 1..n |-> f[q]]
  BY <1>5
<1> QED
  BY <1>1, <1>4, <1>6

LEMMA AscendingLists ==
  ASSUME NEW S \in SUBSET Nat, IsFiniteSet(S)
  PROVE  Lists(Ascending(S), S)
BY ListsExist, ListsAscend

\* A subsequence is a sequence over the same set, with one element for each of
\* its positions.
LEMMA SubsequenceProperties ==
  ASSUME NEW S, NEW s \in Seq(S), NEW P \in SUBSET DOMAIN s
  PROVE  /\ IsFiniteSet(P) /\ P \in SUBSET Nat
         /\ Subsequence(s, P) \in Seq(S)
         /\ Len(Subsequence(s, P)) = Cardinality(P)
         /\ \A q \in 1..Cardinality(P) : Subsequence(s, P)[q] = s[Ascending(P)[q]]
<1>1. IsFiniteSet(P) /\ P \in SUBSET Nat
  <2>1. DOMAIN s = 1..Len(s) /\ Len(s) \in Nat
    BY LenProperties
  <2>2. IsFiniteSet(1..Len(s))
    BY <2>1, FS_Interval
  <2> QED
    BY <2>1, <2>2, FS_Subset
<1>2. Cardinality(P) \in Nat
  BY <1>1, FS_CardinalityType
<1>3. Ascending(P) \in [1..Cardinality(P) -> P]
  BY <1>1, AscendingLists DEF Lists
<1>4. Subsequence(s, P) = [q \in 1..Cardinality(P) |-> s[Ascending(P)[q]]]
  BY <1>3 DEF Subsequence
<1>5. \A q \in 1..Cardinality(P) : s[Ascending(P)[q]] \in S
  BY <1>3, ElementOfSeq, LenProperties
<1> QED
  BY <1>1, <1>2, <1>4, <1>5

\* It is no longer than the sequence, and each of its elements is one at a position
\* of the set.
LEMMA SubsequenceElements ==
  ASSUME NEW S, NEW s \in Seq(S), NEW P \in SUBSET DOMAIN s
  PROVE  /\ Len(Subsequence(s, P)) <= Len(s)
         /\ \A q \in 1..Len(Subsequence(s, P)) : \E i \in P : Subsequence(s, P)[q] = s[i]
<1>1. /\ IsFiniteSet(P) /\ P \in SUBSET Nat
      /\ Len(Subsequence(s, P)) = Cardinality(P)
      /\ \A q \in 1..Cardinality(P) : Subsequence(s, P)[q] = s[Ascending(P)[q]]
  BY SubsequenceProperties
<1>2. Ascending(P) \in [1..Cardinality(P) -> P]
  BY <1>1, AscendingLists DEF Lists
<1>3. Cardinality(P) <= Len(s)
  <2>1. P \subseteq 1..Len(s) /\ Len(s) \in Nat
    BY LenProperties
  <2>2. \A n \in Nat : IsFiniteSet(1..n) /\ Cardinality(1..n) = n
    BY FS_Interval
  <2> QED
    BY <2>1, <2>2, FS_Subset
<1> QED
  BY <1>1, <1>2, <1>3

\* Every element at a position of the set is in it.
LEMMA SubsequenceOnto ==
  ASSUME NEW S, NEW s \in Seq(S), NEW P \in SUBSET DOMAIN s, NEW i \in P
  PROVE  \E q \in 1..Len(Subsequence(s, P)) : /\ Ascending(P)[q] = i
                                              /\ Subsequence(s, P)[q] = s[i]
<1>1. /\ IsFiniteSet(P) /\ P \in SUBSET Nat
      /\ Len(Subsequence(s, P)) = Cardinality(P)
      /\ \A q \in 1..Cardinality(P) : Subsequence(s, P)[q] = s[Ascending(P)[q]]
  BY SubsequenceProperties
<1>2. PICK q \in 1..Cardinality(P) : Ascending(P)[q] = i
  BY <1>1, AscendingLists, ListsOnto
<1> QED
  BY <1>1, <1>2

LEMMA SubsequenceEmpty ==
  ASSUME NEW S, NEW s \in Seq(S)
  PROVE  Subsequence(s, {}) = << >>
<1>1. Subsequence(s, {}) \in Seq(S) /\ Len(Subsequence(s, {})) = Cardinality({})
  BY SubsequenceProperties
<1> QED
  BY <1>1, FS_EmptySet, EmptySeq

\* A position behind all others brings its element to the end.
LEMMA SubsequenceGrows ==
  ASSUME NEW S, NEW s \in Seq(S), NEW n \in DOMAIN s, NEW P \in SUBSET DOMAIN s,
         \A i \in P : i < n
  PROVE  Subsequence(s, P \cup {n}) = Append(Subsequence(s, P), s[n])
<1> DEFINE c == Cardinality(P)
           R == P \cup {n}
           f == [q \in 1..(c + 1) |-> IF q = c + 1 THEN n ELSE Ascending(P)[q]]
<1>1. /\ IsFiniteSet(P) /\ P \in SUBSET Nat
      /\ Subsequence(s, P) \in Seq(S) /\ Len(Subsequence(s, P)) = c
      /\ \A q \in 1..c : Subsequence(s, P)[q] = s[Ascending(P)[q]]
  BY SubsequenceProperties
<1>2. /\ Subsequence(s, R) \in Seq(S) /\ Len(Subsequence(s, R)) = Cardinality(R)
      /\ \A q \in 1..Cardinality(R) : Subsequence(s, R)[q] = s[Ascending(R)[q]]
      /\ IsFiniteSet(R) /\ R \in SUBSET Nat
  BY SubsequenceProperties
<1>3. c \in Nat /\ Cardinality(R) = c + 1
  <2>1. n \in Nat
    BY LenProperties
  <2>2. n \notin P
    BY <1>1, <2>1
  <2> QED
    BY <1>1, <2>2, FS_AddElement, FS_CardinalityType
<1>4. /\ Ascending(P) \in [1..c -> P]
      /\ \A p, q \in 1..c : p < q => Ascending(P)[p] < Ascending(P)[q]
  BY <1>1, AscendingLists DEF Lists
<1> HIDE DEF c
<1>5. Lists(f, R)
  <2>1. \A q \in 1..(c + 1) : q # c + 1 => q \in 1..c
    BY <1>3
  <2>2. f \in [1..(c + 1) -> R]
    BY <1>4, <2>1
  <2>3. ASSUME NEW p \in 1..(c + 1), NEW q \in 1..(c + 1), p < q
        PROVE  f[p] < f[q]
    <3>1. p \in 1..c /\ f[p] = Ascending(P)[p] /\ f[p] \in P
      BY <1>3, <1>4, <2>3
    <3>2. CASE q = c + 1
      BY <3>1, <3>2
    <3>3. CASE q # c + 1
      BY <1>4, <2>1, <2>3, <3>1, <3>3
    <3> QED
      BY <3>2, <3>3
  <2> QED
    BY <1>3, <2>2, <2>3 DEF Lists
<1>6. Ascending(R) = f
  BY <1>2, <1>5, ListsAscend
<1>7. s[n] \in S
  BY ElementOfSeq, LenProperties
<1> DEFINE a == Subsequence(s, P)
           b == Subsequence(s, R)
<1>8. /\ Append(a, s[n]) \in Seq(S) /\ Len(Append(a, s[n])) = c + 1
      /\ \A q \in 1..c : Append(a, s[n])[q] = a[q]
      /\ Append(a, s[n])[c + 1] = s[n]
  BY <1>1, <1>7, AppendProperties
<1>9. ASSUME NEW q \in 1..(c + 1)
      PROVE  b[q] = Append(a, s[n])[q]
  <2>1. b[q] = s[f[q]]
    BY <1>2, <1>3, <1>6
  <2>2. CASE q = c + 1
    BY <1>8, <2>1, <2>2
  <2>3. CASE q # c + 1
    <3>1. q \in 1..c
      BY <1>3, <2>3
    <3> QED
      BY <1>1, <1>8, <2>1, <2>3, <3>1
  <2> QED
    BY <2>2, <2>3
<1> HIDE DEF a, b, f, R
<1>10. b \in Seq(S) /\ Len(b) = c + 1
  BY <1>2, <1>3 DEF b
<1>11. b = Append(a, s[n])
  BY <1>3, <1>8, <1>9, <1>10, SeqEqual
<1> QED
  BY <1>11 DEF a, b, R

\* Picking some of those picked, M by their places among these, is picking them at
\* once, Q by their places in the sequence.
LEMMA AscendingTwice ==
  ASSUME NEW P \in SUBSET Nat, IsFiniteSet(P), NEW Q \in SUBSET P,
         NEW M \in SUBSET (1..Cardinality(P)),
         \A q \in 1..Cardinality(P) : q \in M <=> Ascending(P)[q] \in Q
  PROVE  /\ Cardinality(M) = Cardinality(Q)
         /\ \A k \in 1..Cardinality(M) : /\ Ascending(M)[k] \in 1..Cardinality(P)
                                         /\ Ascending(P)[Ascending(M)[k]] = Ascending(Q)[k]
<1> DEFINE c == Cardinality(P)
           m == Cardinality(M)
           f == Ascending(P)
           g == Ascending(M)
           h == [k \in 1..m |-> f[g[k]]]
<1>1. c \in Nat /\ IsFiniteSet(1..c)
  BY FS_CardinalityType, FS_Interval
<1>2. IsFiniteSet(M) /\ M \in SUBSET Nat /\ m \in Nat
  <2>1. M \subseteq 1..c
    OBVIOUS
  <2>2. IsFiniteSet(M)
    BY <1>1, <2>1, FS_Subset
  <2> QED
    BY <1>1, <2>1, <2>2, FS_CardinalityType
<1>3. IsFiniteSet(Q) /\ Q \in SUBSET Nat
  BY FS_Subset
<1>4. /\ f \in [1..c -> P] /\ \A p, q \in 1..c : p < q => f[p] < f[q]
      /\ \A x \in P : \E q \in 1..c : f[q] = x
      /\ \A p, q \in 1..c : f[p] = f[q] => p = q
  BY AscendingLists, ListsOnto DEF Lists
<1>5. /\ g \in [1..m -> M] /\ \A p, q \in 1..m : p < q => g[p] < g[q]
      /\ \A x \in M : \E q \in 1..m : g[q] = x
      /\ \A p, q \in 1..m : g[p] = g[q] => p = q
  BY <1>2, AscendingLists, ListsOnto DEF Lists
<1>6. \A q \in 1..c : q \in M <=> f[q] \in Q
  OBVIOUS
<1> HIDE DEF c, m, f, g
<1>7. \A k \in 1..m : g[k] \in M /\ g[k] \in 1..c
  BY <1>5 DEF c
<1>8. h \in [1..m -> Q]
  BY <1>6, <1>7
<1>9. \A p, q \in 1..m : p < q => h[p] < h[q]
  BY <1>4, <1>5, <1>7
<1>10. \A p, q \in 1..m : h[p] = h[q] => p = q
  BY <1>4, <1>5, <1>7
<1>11. \A x \in Q : \E k \in 1..m : h[k] = x
  <2> SUFFICES ASSUME NEW x \in Q
               PROVE  \E k \in 1..m : h[k] = x
    OBVIOUS
  <2>1. PICK q \in 1..c : f[q] = x
    BY <1>4
  <2>2. PICK k \in 1..m : g[k] = q
    BY <1>5, <1>6, <2>1
  <2> QED
    BY <2>1, <2>2
<1> HIDE DEF h
<1>12. h \in Bijection(1..m, Q)
  BY <1>8, <1>10, <1>11 DEF Bijection, Injection, Surjection, IsInjective
<1>13. Cardinality(Q) = m
  BY <1>2, <1>12, FS_CountingElements DEF ExistsBijection
<1>14. Lists(h, Q)
  BY <1>8, <1>9, <1>13 DEF Lists
<1>15. Ascending(Q) = h
  BY <1>3, <1>14, ListsAscend
<1>16. \A k \in 1..m : h[k] = f[g[k]]
  BY DEF h
<1> QED
  BY <1>7, <1>13, <1>15, <1>16 DEF c, m, f, g

\* The last member of a set, in ascending order, is its greatest.
LEMMA AscendingGreatest ==
  ASSUME NEW S \in SUBSET Nat, IsFiniteSet(S), S # {}
  PROVE  /\ Cardinality(S) \in Nat \ {0}
         /\ Ascending(S)[Cardinality(S)] = CHOOSE g \in S : \A x \in S : x <= g
<1> DEFINE c == Cardinality(S)
           last == Ascending(S)[c]
<1>1. c \in Nat \ {0}
  BY FS_CardinalityType, FS_EmptySet
<1>2. /\ Ascending(S) \in [1..c -> S]
      /\ \A p, q \in 1..c : p < q => Ascending(S)[p] < Ascending(S)[q]
  BY AscendingLists DEF Lists
<1>3. \A x \in S : \E q \in 1..c : Ascending(S)[q] = x
  BY AscendingLists, ListsOnto
<1>4. last \in S
  BY <1>1, <1>2
<1>5. ASSUME NEW x \in S
      PROVE  x <= last
  <2>1. PICK q \in 1..c : Ascending(S)[q] = x
    BY <1>3
  <2>2. c \in 1..c /\ (q # c => q < c)
    BY <1>1
  <2>3. q # c => Ascending(S)[q] < Ascending(S)[c]
    BY <1>2, <2>2
  <2>4. CASE q = c
    BY <1>4, <2>1, <2>4
  <2>5. CASE q # c
    <3>1. x < last /\ x \in Nat /\ last \in Nat
      BY <1>4, <2>1, <2>3, <2>5
    <3> HIDE DEF last
    <3> QED
      BY <3>1
  <2> QED
    BY <2>4, <2>5
<1> HIDE DEF last, c
<1>6. \A g \in S : (\A x \in S : x <= g) => g = last
  BY <1>4, <1>5
<1>7. last = CHOOSE g \in S : \A x \in S : x <= g
  BY <1>4, <1>5, <1>6
<1> QED
  BY <1>1, <1>7 DEF last, c

\* f joins the first sequences of seqs, up to each of the first n.
Joining(seqs, f, n) ==
  f = [i \in 1..n |-> IF i = 1 THEN seqs[i] ELSE f[i - 1] \o seqs[i]]

JoinsUp(seqs, f, n) ==
  \A i \in 1..n : f[i] = IF i = 1 THEN seqs[i] ELSE f[i - 1] \o seqs[i]

LEMMA JoinedUp ==
  ASSUME NEW seqs, NEW f, NEW n, Joining(seqs, f, n)
  PROVE  JoinsUp(seqs, f, n)
<1> DEFINE g == [i \in 1..n |-> IF i = 1 THEN seqs[i] ELSE f[i - 1] \o seqs[i]]
<1>1. f = g
  BY DEF Joining
<1>2. ASSUME NEW i \in 1..n
      PROVE  g[i] = IF i = 1 THEN seqs[i] ELSE f[i - 1] \o seqs[i]
  OBVIOUS
<1> HIDE DEF g
<1> QED
  BY <1>1, <1>2 DEF JoinsUp

LEMMA JoiningExists ==
  ASSUME NEW S, NEW seqs \in Seq(S)
  PROVE  \E f : Joining(seqs, f, Len(seqs))
<1> DEFINE Good(n) == \E f : Joining(seqs, f, n)
           Bad     == {n \in Nat : ~Good(n)}
<1>1. Good(0)
  <2> DEFINE f == [i \in 1..0 |-> seqs[i]]
  <2>1. Joining(seqs, f, 0)
    BY DEF Joining
  <2> QED
    BY <2>1
<1>2. ASSUME NEW n \in Nat \ {0}, Good(n - 1)
      PROVE  Good(n)
  <2>1. PICK f : Joining(seqs, f, n - 1)
    BY <1>2
  <2> DEFINE h == [i \in 1..n |-> IF i = 1 THEN seqs[i] ELSE f[i - 1] \o seqs[i]]
  <2>2. ASSUME NEW i \in 1..(n - 1)
        PROVE  i \in 1..n /\ h[i] = f[i]
    BY <2>1, JoinedUp DEF JoinsUp
  <2>3. ASSUME NEW i \in 1..n
        PROVE  h[i] = IF i = 1 THEN seqs[i] ELSE h[i - 1] \o seqs[i]
    <3>1. h[i] = IF i = 1 THEN seqs[i] ELSE f[i - 1] \o seqs[i]
      OBVIOUS
    <3>2. i # 1 => i - 1 \in 1..(n - 1)
      OBVIOUS
    <3> HIDE DEF h
    <3> QED
      BY <2>2, <3>1, <3>2
  <2>4. h = [i \in 1..n |-> h[i]]
    OBVIOUS
  <2> HIDE DEF h
  <2>5. Joining(seqs, h, n)
    BY <2>3, <2>4 DEF Joining
  <2> QED
    BY <2>5
<1> HIDE DEF Good
<1>3. ASSUME Bad # {}  PROVE FALSE
  <2>1. PICK n \in Bad : \A m \in Bad : n <= m
    BY <1>3, LeastNatural
  <2>2. n # 0 => n \in Nat \ {0} /\ n - 1 \in Nat /\ ~(n - 1 \in Bad)
    BY <2>1
  <2> QED
    BY <1>1, <1>2, <2>1, <2>2
<1>4. Good(Len(seqs))
  BY <1>3, LenProperties
<1> QED
  BY <1>4 DEF Good

\* Sequences of elements of S, joined, are a sequence of elements of S.
LEMMA FlattenSeqIn ==
  ASSUME NEW S, NEW seqs \in Seq(Seq(S))
  PROVE  FlattenSeq(seqs) \in Seq(S)
<1>1. Len(seqs) \in Nat /\ \A i \in 1..Len(seqs) : seqs[i] \in Seq(S)
  BY ElementOfSeq, LenProperties
<1>2. CASE Len(seqs) = 0
  <2>1. seqs = << >>
    BY <1>2, EmptySeq
  <2> QED
    BY <1>2, <2>1, EmptySeq DEF FlattenSeq
<1>3. CASE Len(seqs) # 0
  <2> DEFINE flatten == CHOOSE f : Joining(seqs, f, Len(seqs))
             Bad == {i \in Nat : i \in 1..Len(seqs) /\ flatten[i] \notin Seq(S)}
  <2>1. FlattenSeq(seqs) = flatten[Len(seqs)]
    BY <1>3 DEF FlattenSeq, Joining
  <2>2. Joining(seqs, flatten, Len(seqs))
    BY JoiningExists
  <2> HIDE DEF flatten
  <2>3. JoinsUp(seqs, flatten, Len(seqs))
    BY <2>2, JoinedUp
  <2>4. ASSUME Bad # {}  PROVE FALSE
    <3>1. PICK i \in Bad : \A j \in Bad : i <= j
      BY <2>4, LeastNatural
    <3>2. i \in 1..Len(seqs) /\ seqs[i] \in Seq(S)
      BY <1>1, <3>1
    <3>3. i # 1 => i - 1 \in Nat /\ i - 1 \in 1..Len(seqs) /\ ~(i - 1 \in Bad)
      BY <1>1, <3>1, <3>2
    <3>4. i # 1 => flatten[i - 1] \o seqs[i] \in Seq(S)
      BY <3>2, <3>3, ConcatProperties
    <3>5. flatten[i] = IF i = 1 THEN seqs[i] ELSE flatten[i - 1] \o seqs[i]
      BY <2>3, <3>2 DEF JoinsUp
    <3> QED
      BY <3>1, <3>2, <3>4, <3>5
  <2> QED
    BY <1>1, <1>3, <2>1, <2>4
<1> QED
  BY <1>2, <1>3

-----------------------------------------------------------------------------
(* Every method takes an aggregate to an aggregate. *)

LEMMA NewWBSType ==
  ASSUME NEW descriptions \in Seq(Text)
  PROVE  NewWBS(descriptions) \in WBSType
<1> DEFINE tasks == [i \in 1..Len(descriptions) |-> NewTask(i, descriptions[i])]
<1>1. Len(descriptions) \in Nat
  BY LenProperties
<1>2. \A i \in 1..Len(descriptions) : NewTask(i, descriptions[i]) \in Task
  <2>1. ASSUME NEW i \in 1..Len(descriptions)
        PROVE  i \in Nat /\ descriptions[i] \in Text
    BY <1>1, ElementOfSeq
  <2>2. << >> \in Seq(RiskNote)
    BY EmptySeq
  <2> QED
    BY <2>1, <2>2 DEF NewTask, Task
<1>3. tasks \in Seq(Task)
  BY <1>1, <1>2
<1> QED
  BY <1>1, <1>3 DEF NewWBS, WBSType

LEMMA AddTaskType ==
  ASSUME NEW w \in WBSType, NEW d \in Text
  PROVE  AddTask(w, d) \in WBSType
<1>1. Trim[d] \in Text
  BY TextAssumption
<1>2. << >> \in Seq(RiskNote)
  BY EmptySeq
<1>3. NewTask(w.nextSeq, Trim[d]) \in Task
  BY <1>1, <1>2 DEF NewTask, Task, WBSType
<1>4. Append(w.tasks, NewTask(w.nextSeq, Trim[d])) \in Seq(Task)
  BY <1>3, AppendProperties DEF WBSType
<1> DEFINE tasks == Append(w.tasks, NewTask(w.nextSeq, Trim[d]))
<1>5. AddTask(w, d) = [w EXCEPT !.tasks = tasks, !.nextSeq = w.nextSeq + 1,
                                !.approved = FALSE]
  BY DEF AddTask
<1>6. w.nextSeq + 1 \in Nat
  BY DEF WBSType
<1> HIDE DEF tasks
<1> QED
  BY <1>4, <1>5, <1>6 DEF WBSType, tasks

\* An aggregate with one task replaced.
LEMMA TaskReplaced ==
  ASSUME NEW w \in WBSType, NEW n \in 1..Len(w.tasks), NEW t \in Task
  PROVE  [w.tasks EXCEPT ![n] = t] \in Seq(Task)
BY ExceptSeq DEF WBSType

LEMMA EditTaskType ==
  ASSUME NEW w \in WBSType, NEW n \in 1..Len(w.tasks), NEW d \in Text
  PROVE  EditTask(w, n, d) \in WBSType
<1> DEFINE t == [w.tasks[n] EXCEPT !.description = Trim[d]]
<1>1. w.tasks[n] \in Task
  BY ElementOfSeq DEF WBSType
<1>2. t \in Task
  BY <1>1, TextAssumption DEF Task
<1>3. EditTask(w, n, d) = [w EXCEPT !.tasks = [w.tasks EXCEPT ![n] = t], !.approved = FALSE]
  BY DEF EditTask, WBSType
<1>4. [w.tasks EXCEPT ![n] = t] \in Seq(Task)
  BY <1>2, TaskReplaced
<1> HIDE DEF t
<1> QED
  BY <1>3, <1>4 DEF WBSType

LEMMA DeleteTaskType ==
  ASSUME NEW w \in WBSType, NEW n \in 1..Len(w.tasks)
  PROVE  DeleteTask(w, n) \in WBSType
<1>1. RemoveAt(w.tasks, n) \in Seq(Task)
  BY RemoveAtProperties DEF WBSType
<1> QED
  BY <1>1 DEF DeleteTask, WBSType

LEMMA ApproveType ==
  ASSUME NEW w \in WBSType
  PROVE  Approve(w) \in WBSType /\ ApproveEstimates(w) \in WBSType
BY DEF Approve, ApproveEstimates, WBSType

LEMMA AddRiskNoteType ==
  ASSUME NEW w \in WBSType, NEW n \in 1..Len(w.tasks), NEW d \in Text
  PROVE  AddRiskNote(w, n, d) \in WBSType
<1> DEFINE note  == [id |-> w.nextNote, description |-> Trim[d]]
           t     == [w.tasks[n] EXCEPT !.riskNotes = Append(w.tasks[n].riskNotes, note)]
           tasks == [w.tasks EXCEPT ![n] = t]
<1>1. w.tasks[n] \in Task
  BY ElementOfSeq DEF WBSType
<1>2. note \in RiskNote
  BY TextAssumption DEF RiskNote, WBSType
<1>3. Append(w.tasks[n].riskNotes, note) \in Seq(RiskNote)
  BY <1>1, <1>2, AppendProperties DEF Task
<1>4. t \in Task
  BY <1>1, <1>3 DEF Task
<1>5. tasks \in Seq(Task)
  BY <1>4, TaskReplaced
<1>6. AddRiskNote(w, n, d) = [w EXCEPT !.tasks = tasks, !.nextNote = w.nextNote + 1]
  BY <1>1 DEF AddRiskNote, WBSType
<1>7. w.nextNote + 1 \in Nat
  BY DEF WBSType
<1> HIDE DEF tasks
<1> QED
  BY <1>5, <1>6, <1>7 DEF WBSType

LEMMA EditRiskNoteType ==
  ASSUME NEW w \in WBSType, NEW n \in 1..Len(w.tasks),
         NEW k \in 1..Len(w.tasks[n].riskNotes), NEW d \in Text
  PROVE  EditRiskNote(w, n, k, d) \in WBSType
<1> DEFINE notes == w.tasks[n].riskNotes
           note  == [notes[k] EXCEPT !.description = Trim[d]]
           t     == [w.tasks[n] EXCEPT !.riskNotes = [notes EXCEPT ![k] = note]]
           tasks == [w.tasks EXCEPT ![n] = t]
<1>1. w.tasks[n] \in Task
  BY ElementOfSeq DEF WBSType
<1>2. notes \in Seq(RiskNote)
  BY <1>1 DEF Task
<1>3. notes[k] \in RiskNote
  BY <1>2, ElementOfSeq
<1>4. note \in RiskNote
  BY <1>3, TextAssumption DEF RiskNote
<1>5. [notes EXCEPT ![k] = note] \in Seq(RiskNote)
  BY <1>2, <1>4, ExceptSeq
<1>6. t \in Task
  BY <1>1, <1>5 DEF Task
<1>7. tasks \in Seq(Task)
  BY <1>6, TaskReplaced
<1>8. EditRiskNote(w, n, k, d) = [w EXCEPT !.tasks = tasks]
  BY DEF EditRiskNote
<1> HIDE DEF tasks
<1> QED
  BY <1>7, <1>8 DEF WBSType

LEMMA DeleteRiskNoteType ==
  ASSUME NEW w \in WBSType, NEW n \in 1..Len(w.tasks),
         NEW k \in 1..Len(w.tasks[n].riskNotes)
  PROVE  DeleteRiskNote(w, n, k) \in WBSType
<1> DEFINE notes == w.tasks[n].riskNotes
           t     == [w.tasks[n] EXCEPT !.riskNotes = RemoveAt(notes, k)]
           tasks == [w.tasks EXCEPT ![n] = t]
<1>1. w.tasks[n] \in Task
  BY ElementOfSeq DEF WBSType
<1>2. RemoveAt(notes, k) \in Seq(RiskNote)
  BY <1>1, RemoveAtProperties DEF Task
<1>3. t \in Task
  BY <1>1, <1>2 DEF Task
<1>4. tasks \in Seq(Task)
  BY <1>3, TaskReplaced
<1>5. DeleteRiskNote(w, n, k) = [w EXCEPT !.tasks = tasks]
  BY DEF DeleteRiskNote
<1> HIDE DEF tasks
<1> QED
  BY <1>4, <1>5 DEF WBSType

LEMMA OverrideEstimateType ==
  ASSUME NEW w \in WBSType, NEW n \in 1..Len(w.tasks), NEW e \in Estimate
  PROVE  OverrideEstimate(w, n, e) \in WBSType
<1> DEFINE trimmed == [e EXCEPT !.reasoning = Trim[e.reasoning]]
           t       == [w.tasks[n] EXCEPT !.estimate = trimmed]
           tasks   == [w.tasks EXCEPT ![n] = t]
<1>1. w.tasks[n] \in Task
  BY ElementOfSeq DEF WBSType
<1>2. trimmed \in Estimate
  BY TextAssumption DEF Estimate
<1>3. t \in Task
  BY <1>1, <1>2 DEF Task
<1>4. tasks \in Seq(Task)
  BY <1>3, TaskReplaced
<1>5. OverrideEstimate(w, n, e) = [w EXCEPT !.tasks = tasks, !.estimatesApproved = FALSE]
  BY DEF OverrideEstimate
<1> HIDE DEF tasks
<1> QED
  BY <1>4, <1>5 DEF WBSType

LEMMA ReplaceRiskNotesType ==
  ASSUME NEW w \in WBSType, NEW assignments \in Seq(RiskAssignment)
  PROVE  ReplaceRiskNotes(w, assignments) \in WBSType
<1> DEFINE P == {k \in DOMAIN assignments : TaskExists(w, assignments[k].task)}
           addressed == Subsequence(assignments, P)
           notes == [q \in DOMAIN addressed |->
                       [id |-> w.nextNote + q - 1,
                        description |-> addressed[q].description]]
           Mine(i) == {q \in DOMAIN notes : addressed[q].task = i}
           Noted(i) == [w.tasks[i] EXCEPT !.riskNotes = Subsequence(notes, Mine(i))]
           tasks == [i \in DOMAIN w.tasks |-> Noted(i)]
<1>1. P \in SUBSET DOMAIN assignments
  OBVIOUS
<1>2. addressed \in Seq(RiskAssignment)
  <2> HIDE DEF P
  <2> QED
    BY <1>1, SubsequenceProperties
<1>3. notes \in Seq(RiskNote)
  <2> HIDE DEF addressed
  <2>1. DOMAIN addressed = 1..Len(addressed) /\ Len(addressed) \in Nat
    BY <1>2, LenProperties
  <2>2. ASSUME NEW q \in 1..Len(addressed)
        PROVE  [id |-> w.nextNote + q - 1, description |-> addressed[q].description]
                 \in RiskNote
    <3>1. addressed[q].description \in Text
      <4>1. addressed[q] \in RiskAssignment
        BY <1>2, ElementOfSeq
      <4> QED
        BY <4>1 DEF RiskAssignment
    <3>2. w.nextNote + q - 1 \in Nat
      BY <2>1 DEF WBSType
    <3> QED
      BY <3>1, <3>2 DEF RiskNote
  <2> QED
    BY <2>1, <2>2
<1>4. ASSUME NEW i \in DOMAIN w.tasks
      PROVE  Noted(i) \in Task
  <2>1. Mine(i) \in SUBSET DOMAIN notes
    OBVIOUS
  <2> HIDE DEF notes, Mine
  <2>2. Subsequence(notes, Mine(i)) \in Seq(RiskNote)
    BY <1>3, <2>1, SubsequenceProperties
  <2>3. w.tasks[i] \in Task
    BY ElementOfSeq, LenProperties DEF WBSType
  <2> QED
    BY <2>2, <2>3 DEF Task
<1>5. tasks \in Seq(Task)
  <2>1. DOMAIN w.tasks = 1..Len(w.tasks) /\ Len(w.tasks) \in Nat
    BY LenProperties DEF WBSType
  <2> HIDE DEF Noted
  <2> QED
    BY <1>4, <2>1
<1>6. ReplaceRiskNotes(w, assignments)
        = [w EXCEPT !.tasks = tasks, !.nextNote = w.nextNote + Len(addressed)]
  BY DEF ReplaceRiskNotes
<1>7. w.nextNote + Len(addressed) \in Nat
  <2> HIDE DEF addressed
  <2> QED
    BY <1>2, LenProperties DEF WBSType
<1> HIDE DEF tasks, addressed
<1> QED
  BY <1>5, <1>6, <1>7 DEF WBSType

LEMMA SetEstimatesType ==
  ASSUME NEW w \in WBSType, NEW assignments \in Seq(EstimateAssignment)
  PROVE  SetEstimates(w, assignments) \in WBSType
<1> DEFINE For(i) == {k \in DOMAIN assignments : assignments[k].task = i}
           Latest(i) == CHOOSE k \in For(i) : \A j \in For(i) : j <= k
           Given(i) == IF For(i) = {} THEN NoEstimate ELSE assignments[Latest(i)].estimate
           Estimated(i) == [w.tasks[i] EXCEPT !.estimate = Given(i)]
           tasks == [i \in DOMAIN w.tasks |-> Estimated(i)]
<1>1. DOMAIN assignments = 1..Len(assignments) /\ Len(assignments) \in Nat
  BY LenProperties
<1>2. ASSUME NEW i, For(i) # {}
      PROVE  Latest(i) \in 1..Len(assignments)
  <2>1. For(i) \in SUBSET (0..Len(assignments)) /\ For(i) \in SUBSET (1..Len(assignments))
    BY <1>1
  <2> HIDE DEF For
  <2>2. \E k \in For(i) : \A j \in For(i) : j <= k
    BY <1>1, <1>2, <2>1, GreatestNatural
  <2> QED
    BY <2>1, <2>2
<1> HIDE DEF For, Latest
<1>3. ASSUME NEW i
      PROVE  Given(i) \in Estimate \cup {NoEstimate}
  <2>1. CASE For(i) = {}
    BY <2>1
  <2>2. CASE For(i) # {}
    <3>1. assignments[Latest(i)] \in EstimateAssignment
      BY <1>2, <2>2, ElementOfSeq
    <3> QED
      BY <2>2, <3>1 DEF EstimateAssignment
  <2> QED
    BY <2>1, <2>2
<1> HIDE DEF Given
<1>4. ASSUME NEW i \in DOMAIN w.tasks
      PROVE  Estimated(i) \in Task
  <2>1. w.tasks[i] \in Task
    BY ElementOfSeq, LenProperties DEF WBSType
  <2> QED
    BY <1>3, <2>1 DEF Task
<1>5. tasks \in Seq(Task)
  <2>1. DOMAIN w.tasks = 1..Len(w.tasks) /\ Len(w.tasks) \in Nat
    BY LenProperties DEF WBSType
  <2> HIDE DEF Estimated
  <2> QED
    BY <1>4, <2>1
<1>6. SetEstimates(w, assignments) = [w EXCEPT !.tasks = tasks,
                                               !.estimatesGenerated = TRUE,
                                               !.estimatesApproved  = FALSE]
  BY DEF SetEstimates, Given, For, Latest
<1> HIDE DEF tasks
<1> QED
  BY <1>5, <1>6 DEF WBSType

-----------------------------------------------------------------------------
(* What every method does to the fields and the tasks of the aggregate. *)

\* The flags and counters of w and v that a method may or may not touch.
SameFlags(w, v) ==
  v.estimatesGenerated = w.estimatesGenerated /\ v.estimatesApproved = w.estimatesApproved

SameCounters(w, v) == v.nextSeq = w.nextSeq /\ v.nextNote = w.nextNote

\* v has the tasks of w, but for task n, which is t.
OneReplaced(w, v, n, t) ==
  /\ Len(v.tasks) = Len(w.tasks)
  /\ \A i \in 1..Len(w.tasks) : v.tasks[i] = IF i = n THEN t ELSE w.tasks[i]

\* The task t with another description, with other notes, with another estimate.
WithDescription(t, d)  == [t EXCEPT !.description = d]
WithNotes(t, notes)    == [t EXCEPT !.riskNotes = notes]
WithEstimate(t, e)     == [t EXCEPT !.estimate = e]

\* The notes with the k-th one saying d.
Reworded(notes, k, d) == [notes EXCEPT ![k].description = Trim[d]]

LEMMA WithFields ==
  ASSUME NEW t \in Task, NEW x
  PROVE  /\ WithDescription(t, x).id = t.id
         /\ WithDescription(t, x).description = x
         /\ WithDescription(t, x).riskNotes = t.riskNotes
         /\ WithDescription(t, x).estimate = t.estimate
         /\ WithNotes(t, x).id = t.id
         /\ WithNotes(t, x).description = t.description
         /\ WithNotes(t, x).riskNotes = x
         /\ WithNotes(t, x).estimate = t.estimate
         /\ WithEstimate(t, x).id = t.id
         /\ WithEstimate(t, x).description = t.description
         /\ WithEstimate(t, x).riskNotes = t.riskNotes
         /\ WithEstimate(t, x).estimate = x
BY DEF WithDescription, WithNotes, WithEstimate, Task

LEMMA OneReplacedBy ==
  ASSUME NEW w \in WBSType, NEW v, NEW n \in 1..Len(w.tasks), NEW t,
         v.tasks = [w.tasks EXCEPT ![n] = t]
  PROVE  OneReplaced(w, v, n, t)
<1>1. w.tasks \in Seq(Task) /\ n \in 1..Len(w.tasks)
  BY DEF WBSType
<1>2. DOMAIN w.tasks = 1..Len(w.tasks) /\ Len(w.tasks) \in Nat
  BY <1>1, LenProperties
<1>3. w.tasks = [i \in 1..Len(w.tasks) |-> w.tasks[i]]
  BY <1>1, <1>2
<1>4. v.tasks = [i \in 1..Len(w.tasks) |-> IF i = n THEN t ELSE w.tasks[i]]
  BY <1>2, <1>3
<1>5. Len(v.tasks) = Len(w.tasks)
  BY <1>2, <1>4
<1> QED
  BY <1>4, <1>5 DEF OneReplaced

LEMMA AddTaskEffect ==
  ASSUME NEW w \in WBSType, NEW d \in Text, NEW v, v = AddTask(w, d)
  PROVE  /\ Len(v.tasks) = Len(w.tasks) + 1
         /\ \A i \in 1..Len(w.tasks) : v.tasks[i] = w.tasks[i]
         /\ v.tasks[Len(w.tasks) + 1] = NewTask(w.nextSeq, Trim[d])
         /\ v.nextSeq = w.nextSeq + 1 /\ v.nextNote = w.nextNote
         /\ v.approved = FALSE /\ SameFlags(w, v)
<1> DEFINE t == NewTask(w.nextSeq, Trim[d])
<1>1. t \in Task
  BY TextAssumption, EmptySeq DEF NewTask, Task, WBSType
<1> HIDE DEF t
<1>2. v = [w EXCEPT !.tasks = Append(w.tasks, t), !.nextSeq = w.nextSeq + 1, !.approved = FALSE]
  BY DEF AddTask, t
<1>3. w.tasks \in Seq(Task)
  BY DEF WBSType
<1>4. v.tasks = Append(w.tasks, t)
  BY <1>2 DEF WBSType
<1>5. /\ v.nextSeq = w.nextSeq + 1 /\ v.nextNote = w.nextNote
      /\ v.approved = FALSE /\ SameFlags(w, v)
  BY <1>2 DEF WBSType, SameFlags
<1> QED
  BY <1>1, <1>3, <1>4, <1>5, AppendProperties DEF t

LEMMA EditTaskEffect ==
  ASSUME NEW w \in WBSType, NEW n \in 1..Len(w.tasks), NEW d, NEW v, v = EditTask(w, n, d)
  PROVE  /\ OneReplaced(w, v, n, WithDescription(w.tasks[n], Trim[d]))
         /\ SameCounters(w, v) /\ v.approved = FALSE /\ SameFlags(w, v)
<1> DEFINE t == WithDescription(w.tasks[n], Trim[d])
<1>1. v = [w EXCEPT !.tasks = [w.tasks EXCEPT ![n] = t], !.approved = FALSE]
  BY DEF EditTask, WithDescription
<1> HIDE DEF t
<1>2. v.tasks = [w.tasks EXCEPT ![n] = t]
  BY <1>1 DEF WBSType
<1>3. SameCounters(w, v) /\ v.approved = FALSE /\ SameFlags(w, v)
  BY <1>1 DEF WBSType, SameFlags, SameCounters
<1> QED
  BY <1>2, <1>3, OneReplacedBy DEF t

LEMMA DeleteTaskEffect ==
  ASSUME NEW w \in WBSType, NEW n \in 1..Len(w.tasks), NEW v, v = DeleteTask(w, n)
  PROVE  /\ Len(v.tasks) = Len(w.tasks) - 1
         /\ \A j \in 1..(Len(w.tasks) - 1) :
              v.tasks[j] = IF j < n THEN w.tasks[j] ELSE w.tasks[j + 1]
         /\ SameCounters(w, v) /\ v.approved = FALSE /\ SameFlags(w, v)
<1>1. w.tasks \in Seq(Task)
  BY DEF WBSType
<1>2. v.tasks = RemoveAt(w.tasks, n)
  BY DEF DeleteTask, WBSType
<1>3. SameCounters(w, v) /\ v.approved = FALSE /\ SameFlags(w, v)
  BY DEF DeleteTask, WBSType, SameFlags, SameCounters
<1> QED
  BY <1>1, <1>2, <1>3, RemoveAtProperties

LEMMA ApproveEffect ==
  ASSUME NEW w \in WBSType, NEW v, v = Approve(w)
  PROVE  v.tasks = w.tasks /\ SameCounters(w, v) /\ v.approved = TRUE /\ SameFlags(w, v)
BY DEF Approve, WBSType, SameFlags, SameCounters

LEMMA ApproveEstimatesEffect ==
  ASSUME NEW w \in WBSType, NEW v, v = ApproveEstimates(w)
  PROVE  /\ v.tasks = w.tasks /\ SameCounters(w, v) /\ v.approved = w.approved
         /\ v.estimatesGenerated = w.estimatesGenerated /\ v.estimatesApproved = TRUE
BY DEF ApproveEstimates, WBSType, SameCounters

LEMMA AddRiskNoteEffect ==
  ASSUME NEW w \in WBSType, NEW n \in 1..Len(w.tasks), NEW d, NEW v, v = AddRiskNote(w, n, d)
  PROVE  /\ OneReplaced(w, v, n,
              WithNotes(w.tasks[n], Append(w.tasks[n].riskNotes,
                                           [id |-> w.nextNote, description |-> Trim[d]])))
         /\ v.nextSeq = w.nextSeq /\ v.nextNote = w.nextNote + 1
         /\ v.approved = w.approved /\ SameFlags(w, v)
<1> DEFINE t == WithNotes(w.tasks[n], Append(w.tasks[n].riskNotes,
                                             [id |-> w.nextNote, description |-> Trim[d]]))
<1>1. v = [w EXCEPT !.tasks = [w.tasks EXCEPT ![n] = t], !.nextNote = w.nextNote + 1]
  BY ElementOfSeq DEF AddRiskNote, WBSType, Task, WithNotes
<1> HIDE DEF t
<1>2. v.tasks = [w.tasks EXCEPT ![n] = t]
  BY <1>1 DEF WBSType
<1>3. /\ v.nextSeq = w.nextSeq /\ v.nextNote = w.nextNote + 1
      /\ v.approved = w.approved /\ SameFlags(w, v)
  BY <1>1 DEF WBSType, SameFlags
<1> QED
  BY <1>2, <1>3, OneReplacedBy DEF t

LEMMA EditRiskNoteEffect ==
  ASSUME NEW w \in WBSType, NEW n \in 1..Len(w.tasks), NEW k, NEW d, NEW v,
         v = EditRiskNote(w, n, k, d)
  PROVE  /\ OneReplaced(w, v, n,
              WithNotes(w.tasks[n], Reworded(w.tasks[n].riskNotes, k, d)))
         /\ SameCounters(w, v) /\ v.approved = w.approved /\ SameFlags(w, v)
<1> DEFINE t == WithNotes(w.tasks[n], Reworded(w.tasks[n].riskNotes, k, d))
<1>1. v = [w EXCEPT !.tasks = [w.tasks EXCEPT ![n] = t]]
  BY DEF EditRiskNote, WithNotes, Reworded
<1> HIDE DEF t
<1>2. v.tasks = [w.tasks EXCEPT ![n] = t]
  BY <1>1 DEF WBSType
<1>3. SameCounters(w, v) /\ v.approved = w.approved /\ SameFlags(w, v)
  BY <1>1 DEF WBSType, SameFlags, SameCounters
<1> QED
  BY <1>2, <1>3, OneReplacedBy DEF t

LEMMA DeleteRiskNoteEffect ==
  ASSUME NEW w \in WBSType, NEW n \in 1..Len(w.tasks), NEW k, NEW v,
         v = DeleteRiskNote(w, n, k)
  PROVE  /\ OneReplaced(w, v, n, WithNotes(w.tasks[n], RemoveAt(w.tasks[n].riskNotes, k)))
         /\ SameCounters(w, v) /\ v.approved = w.approved /\ SameFlags(w, v)
<1> DEFINE t == WithNotes(w.tasks[n], RemoveAt(w.tasks[n].riskNotes, k))
<1>1. v = [w EXCEPT !.tasks = [w.tasks EXCEPT ![n] = t]]
  BY DEF DeleteRiskNote, WithNotes
<1> HIDE DEF t
<1>2. v.tasks = [w.tasks EXCEPT ![n] = t]
  BY <1>1 DEF WBSType
<1>3. SameCounters(w, v) /\ v.approved = w.approved /\ SameFlags(w, v)
  BY <1>1 DEF WBSType, SameFlags, SameCounters
<1> QED
  BY <1>2, <1>3, OneReplacedBy DEF t

LEMMA ReplaceRiskNotesEffect ==
  ASSUME NEW w \in WBSType, NEW list \in Seq(RiskAssignment), NEW v,
         v = ReplaceRiskNotes(w, list)
  PROVE  /\ Len(v.tasks) = Len(w.tasks)
         /\ \A i \in 1..Len(w.tasks) :
              \E notes : v.tasks[i] = WithNotes(w.tasks[i], notes)
         /\ v.nextSeq = w.nextSeq /\ v.approved = w.approved /\ SameFlags(w, v)
<1>1. w.tasks \in Seq(Task) /\ DOMAIN w.tasks = 1..Len(w.tasks) /\ Len(w.tasks) \in Nat
  BY LenProperties DEF WBSType
<1>2. v.tasks \in Seq(Task)
  BY ReplaceRiskNotesType DEF WBSType
<1>3. DOMAIN v.tasks = DOMAIN w.tasks
  BY DEF ReplaceRiskNotes, WBSType
<1>4. Len(v.tasks) = Len(w.tasks)
  BY <1>1, <1>2, <1>3, LenProperties
<1>5. ASSUME NEW i \in 1..Len(w.tasks)
      PROVE  \E notes : v.tasks[i] = WithNotes(w.tasks[i], notes)
  BY <1>1 DEF ReplaceRiskNotes, WBSType, WithNotes
<1>6. v.nextSeq = w.nextSeq /\ v.approved = w.approved /\ SameFlags(w, v)
  BY DEF ReplaceRiskNotes, WBSType, SameFlags
<1> QED
  BY <1>4, <1>5, <1>6

\* The notes of w by their places: how many task i has, and the id and the text of its
\* k-th.
NoteCount(w, i)   == Len(w.tasks[i].riskNotes)
NoteID(w, i, k)   == w.tasks[i].riskNotes[k].id
NoteText(w, i, k) == w.tasks[i].riskNotes[k].description

\* The notes a flagging brings: each has an id of its own from the counter on, below
\* the new counter, and a description of the list.
LEMMA ReplacedNotes ==
  ASSUME NEW w \in WBSType, NEW list \in Seq(RiskAssignment), NEW v,
         v = ReplaceRiskNotes(w, list)
  PROVE  /\ \A i \in 1..Len(w.tasks) : \A k \in 1..NoteCount(v, i) :
              /\ NoteID(v, i, k) \in w.nextNote..(v.nextNote - 1)
              /\ \E j \in 1..Len(list) : NoteText(v, i, k) = list[j].description
         /\ \A i, j \in 1..Len(w.tasks) :
              \A k \in 1..NoteCount(v, i), l \in 1..NoteCount(v, j) :
                NoteID(v, i, k) = NoteID(v, j, l) => i = j /\ k = l
<1> DEFINE P == {k \in DOMAIN list : TaskExists(w, list[k].task)}
           addressed == Subsequence(list, P)
           notes == [q \in DOMAIN addressed |->
                       [id |-> w.nextNote + q - 1,
                        description |-> addressed[q].description]]
           Mine(i) == {q \in DOMAIN notes : addressed[q].task = i}
           Number(i, k) == Ascending(Mine(i))[k]
<1>1. /\ DOMAIN w.tasks = 1..Len(w.tasks) /\ Len(w.tasks) \in Nat
      /\ DOMAIN list = 1..Len(list) /\ Len(list) \in Nat
      /\ w.nextNote \in Nat
  BY LenProperties DEF WBSType
<1>2. /\ \A i \in 1..Len(w.tasks) : v.tasks[i].riskNotes = Subsequence(notes, Mine(i))
      /\ v.nextNote = w.nextNote + Len(addressed)
  <2>1. v = [w EXCEPT !.tasks = [i \in DOMAIN w.tasks |->
                                   [w.tasks[i] EXCEPT !.riskNotes = Subsequence(notes, Mine(i))]],
                      !.nextNote = w.nextNote + Len(addressed)]
    BY DEF ReplaceRiskNotes
  <2>2. \A i \in 1..Len(w.tasks) : w.tasks[i] \in Task
    BY ElementOfSeq DEF WBSType
  <2> HIDE DEF notes, Mine, addressed
  <2> QED
    BY <1>1, <2>1, <2>2 DEF WBSType, Task
<1>3. P \in SUBSET DOMAIN list
  OBVIOUS
<1>4. /\ addressed \in Seq(RiskAssignment)
      /\ DOMAIN addressed = 1..Len(addressed) /\ Len(addressed) \in Nat
      /\ \A q \in 1..Len(addressed) : \E j \in P : addressed[q] = list[j]
  <2> HIDE DEF P
  <2> QED
    BY <1>3, SubsequenceProperties, SubsequenceElements, LenProperties
<1> HIDE DEF addressed, P
<1> DEFINE Bringing == {notes[q] : q \in DOMAIN notes}
<1>5. notes \in Seq(Bringing) /\ DOMAIN notes = 1..Len(addressed)
  BY <1>1, <1>4
<1> HIDE DEF Bringing
<1>6. \A q \in 1..Len(addressed) : /\ notes[q].id = w.nextNote + q - 1
                                   /\ notes[q].description = addressed[q].description
  BY <1>4
<1>7. ASSUME NEW i \in 1..Len(w.tasks)
      PROVE  /\ \A k \in 1..Len(v.tasks[i].riskNotes) :
                  /\ Number(i, k) \in 1..Len(addressed)
                  /\ addressed[Number(i, k)].task = i
                  /\ v.tasks[i].riskNotes[k] = notes[Number(i, k)]
             /\ \A k, l \in 1..Len(v.tasks[i].riskNotes) :
                  k < l => Number(i, k) < Number(i, l)
  <2>1. Mine(i) \in SUBSET DOMAIN notes
    OBVIOUS
  <2>2. \A q \in Mine(i) : q \in 1..Len(addressed) /\ addressed[q].task = i
    BY <1>5
  <2>3. v.tasks[i].riskNotes = Subsequence(notes, Mine(i))
    BY <1>2
  <2> HIDE DEF notes, Mine
  <2>4. /\ IsFiniteSet(Mine(i)) /\ Mine(i) \in SUBSET Nat
        /\ Len(v.tasks[i].riskNotes) = Cardinality(Mine(i))
        /\ \A k \in 1..Cardinality(Mine(i)) :
             v.tasks[i].riskNotes[k] = notes[Ascending(Mine(i))[k]]
    <3> HIDE DEF Number
    <3> QED
      BY <1>5, <2>1, <2>3, SubsequenceProperties
  <2>5. /\ Ascending(Mine(i)) \in [1..Cardinality(Mine(i)) -> Mine(i)]
        /\ \A p, q \in 1..Cardinality(Mine(i)) : p < q => Number(i, p) < Number(i, q)
    BY <2>4, AscendingLists DEF Lists
  <2> QED
    BY <2>2, <2>4, <2>5
<1> HIDE DEF Number, notes, Mine
<1>8. ASSUME NEW i \in 1..Len(w.tasks), NEW k \in 1..Len(v.tasks[i].riskNotes)
      PROVE  /\ v.tasks[i].riskNotes[k].id = w.nextNote + Number(i, k) - 1
             /\ v.tasks[i].riskNotes[k].id \in w.nextNote..(v.nextNote - 1)
             /\ \E j \in 1..Len(list) :
                  v.tasks[i].riskNotes[k].description = list[j].description
  <2>1. Number(i, k) \in 1..Len(addressed) /\ v.tasks[i].riskNotes[k] = notes[Number(i, k)]
    BY <1>7
  <2>2. v.tasks[i].riskNotes[k].id = w.nextNote + Number(i, k) - 1
    BY <1>6, <2>1
  <2>3. v.tasks[i].riskNotes[k].id \in w.nextNote..(v.nextNote - 1)
    BY <1>1, <1>2, <1>4, <2>1, <2>2
  <2>4. PICK j \in P : addressed[Number(i, k)] = list[j]
    BY <1>4, <2>1
  <2> QED
    BY <1>1, <1>3, <1>6, <2>1, <2>2, <2>3, <2>4
<1>9. ASSUME NEW i \in 1..Len(w.tasks), NEW j \in 1..Len(w.tasks),
             NEW k \in 1..Len(v.tasks[i].riskNotes), NEW l \in 1..Len(v.tasks[j].riskNotes),
             v.tasks[i].riskNotes[k].id = v.tasks[j].riskNotes[l].id
      PROVE  i = j /\ k = l
  <2>1. Number(i, k) \in 1..Len(addressed) /\ Number(j, l) \in 1..Len(addressed)
    BY <1>7
  <2>2. Number(i, k) = Number(j, l)
    <3>1. /\ v.tasks[i].riskNotes[k].id = w.nextNote + Number(i, k) - 1
          /\ v.tasks[j].riskNotes[l].id = w.nextNote + Number(j, l) - 1
      BY <1>8
    <3>2. w.nextNote + Number(i, k) - 1 = w.nextNote + Number(j, l) - 1
      BY <1>9, <3>1
    <3> QED
      BY <1>1, <1>4, <2>1, <3>2
  <2>3. i = j
    <3>1. addressed[Number(i, k)].task = i
      BY <1>7
    <3>2. addressed[Number(j, l)].task = j
      BY <1>7
    <3> QED
      BY <2>2, <3>1, <3>2
  <2>4. Len(v.tasks[i].riskNotes) \in Nat
    <3>1. v.tasks[i].riskNotes \in Seq(RiskNote)
      <4>1. v \in WBSType /\ Len(v.tasks) = Len(w.tasks)
        BY ReplaceRiskNotesType, ReplaceRiskNotesEffect
      <4>2. v.tasks[i] \in Task
        BY <4>1, ElementOfSeq DEF WBSType
      <4> QED
        BY <4>2 DEF Task
    <3> QED
      BY <3>1, LenProperties
  <2>5. /\ k < l => Number(i, k) < Number(i, l)
        /\ l < k => Number(i, l) < Number(i, k)
    BY <1>7, <2>3
  <2> QED
    BY <1>4, <2>1, <2>2, <2>3, <2>4, <2>5
<1> QED
  BY <1>8, <1>9 DEF NoteCount, NoteID, NoteText

LEMMA OverrideEstimateEffect ==
  ASSUME NEW w \in WBSType, NEW n \in 1..Len(w.tasks), NEW e, NEW v,
         v = OverrideEstimate(w, n, e)
  PROVE  /\ OneReplaced(w, v, n,
              WithEstimate(w.tasks[n], [e EXCEPT !.reasoning = Trim[e.reasoning]]))
         /\ SameCounters(w, v) /\ v.approved = w.approved
         /\ v.estimatesGenerated = w.estimatesGenerated /\ v.estimatesApproved = FALSE
<1> DEFINE t == WithEstimate(w.tasks[n], [e EXCEPT !.reasoning = Trim[e.reasoning]])
<1>1. v = [w EXCEPT !.tasks = [w.tasks EXCEPT ![n] = t], !.estimatesApproved = FALSE]
  BY DEF OverrideEstimate, WithEstimate
<1> HIDE DEF t
<1>2. v.tasks = [w.tasks EXCEPT ![n] = t]
  BY <1>1 DEF WBSType
<1>3. /\ SameCounters(w, v) /\ v.approved = w.approved
      /\ v.estimatesGenerated = w.estimatesGenerated /\ v.estimatesApproved = FALSE
  BY <1>1 DEF WBSType, SameCounters
<1> QED
  BY <1>2, <1>3, OneReplacedBy DEF t

LEMMA SetEstimatesEffect ==
  ASSUME NEW w \in WBSType, NEW list \in Seq(EstimateAssignment), NEW v,
         v = SetEstimates(w, list)
  PROVE  /\ Len(v.tasks) = Len(w.tasks)
         /\ \A i \in 1..Len(w.tasks) :
              v.tasks[i] = WithEstimate(w.tasks[i], v.tasks[i].estimate)
         /\ SameCounters(w, v) /\ v.approved = w.approved
         /\ v.estimatesGenerated = TRUE /\ v.estimatesApproved = FALSE
<1>1. w.tasks \in Seq(Task) /\ DOMAIN w.tasks = 1..Len(w.tasks) /\ Len(w.tasks) \in Nat
  BY LenProperties DEF WBSType
<1>2. v.tasks \in Seq(Task)
  BY SetEstimatesType DEF WBSType
<1>3. DOMAIN v.tasks = DOMAIN w.tasks
  BY DEF SetEstimates, WBSType
<1>4. Len(v.tasks) = Len(w.tasks)
  BY <1>1, <1>2, <1>3, LenProperties
<1>5. ASSUME NEW i \in 1..Len(w.tasks)
      PROVE  v.tasks[i] = WithEstimate(w.tasks[i], v.tasks[i].estimate)
  <2>1. PICK e : v.tasks[i] = WithEstimate(w.tasks[i], e)
    BY <1>1 DEF SetEstimates, WBSType, WithEstimate
  <2>2. w.tasks[i] \in Task
    BY ElementOfSeq DEF WBSType
  <2> QED
    BY <2>1, <2>2, WithFields
<1>6. /\ SameCounters(w, v) /\ v.approved = w.approved
      /\ v.estimatesGenerated = TRUE /\ v.estimatesApproved = FALSE
  BY DEF SetEstimates, WBSType, SameCounters
<1> QED
  BY <1>4, <1>5, <1>6

-----------------------------------------------------------------------------
(* What the adapters make of the lists the model submits. *)

\* A text as the adapters and the domain leave it.
CleanText(d) == Trim[d] = d /\ d # Blank

LEMMA ParseTasksProperties ==
  ASSUME NEW items \in Seq(Text)
  PROVE  /\ ParseTasks(items) \in Seq(Text)
         /\ Len(ParseTasks(items)) <= Len(items)
         /\ \A q \in 1..Len(ParseTasks(items)) : CleanText(ParseTasks(items)[q])
<1> DEFINE trimmed == [i \in DOMAIN items |-> Trim[items[i]]]
           P       == {i \in DOMAIN items : trimmed[i] # Blank}
<1>1. DOMAIN items = 1..Len(items) /\ Len(items) \in Nat
  BY LenProperties
<1>2. \A i \in 1..Len(items) : Trim[items[i]] \in Text /\ Trim[Trim[items[i]]] = Trim[items[i]]
  BY ElementOfSeq, TextAssumption
<1>3. trimmed \in Seq(Text) /\ DOMAIN trimmed = DOMAIN items /\ Len(trimmed) = Len(items)
  BY <1>1, <1>2
<1>4. P \in SUBSET DOMAIN trimmed
  BY <1>3
<1>5. ParseTasks(items) = Subsequence(trimmed, P)
  BY DEF ParseTasks
<1>6. \A i \in P : CleanText(trimmed[i])
  BY <1>1, <1>2 DEF CleanText
<1> HIDE DEF trimmed, P
<1> QED
  BY <1>3, <1>4, <1>5, <1>6, SubsequenceProperties, SubsequenceElements

LEMMA ParseRisksProperties ==
  ASSUME NEW items \in Seq(RiskAssignment)
  PROVE  /\ ParseRisks(items) \in Seq(RiskAssignment)
         /\ \A q \in 1..Len(ParseRisks(items)) :
              CleanText(ParseRisks(items)[q].description)
<1> DEFINE Trimmed(i) == [items[i] EXCEPT !.description = Trim[items[i].description]]
           trimmed    == [i \in DOMAIN items |-> Trimmed(i)]
           P == {i \in DOMAIN items : trimmed[i].description # Blank /\ trimmed[i].task >= 1}
<1>1. DOMAIN items = 1..Len(items) /\ Len(items) \in Nat
  BY LenProperties
<1>2. ASSUME NEW i \in 1..Len(items)
      PROVE  /\ Trimmed(i) \in RiskAssignment
             /\ Trim[Trimmed(i).description] = Trimmed(i).description
  <2>1. items[i] \in RiskAssignment
    BY ElementOfSeq
  <2> QED
    BY <2>1, TextAssumption DEF RiskAssignment
<1>3. ParseRisks(items) = Subsequence(trimmed, P)
  BY DEF ParseRisks
<1> HIDE DEF Trimmed
<1>4. trimmed \in Seq(RiskAssignment) /\ DOMAIN trimmed = DOMAIN items
  BY <1>1, <1>2
<1>5. P \in SUBSET DOMAIN trimmed
  BY <1>4
<1>6. \A i \in P : CleanText(trimmed[i].description)
  BY <1>1, <1>2 DEF CleanText
<1> HIDE DEF trimmed, P
<1> QED
  BY <1>3, <1>4, <1>5, <1>6, SubsequenceProperties, SubsequenceElements

\* The estimates of a list differ in their least and their most.
SpreadList(es) == \A i \in 1..Len(es) : es[i].estimate.o # es[i].estimate.p

LEMMA ParseEstimatesProperties ==
  ASSUME NEW items \in Seq(EstimateAssignment)
  PROVE  /\ ParseEstimates(items) \in Seq(EstimateAssignment)
         /\ SpreadList(items) => SpreadList(ParseEstimates(items))
<1> DEFINE Trimmed(i) == [items[i] EXCEPT !.estimate.reasoning =
                                            Trim[items[i].estimate.reasoning]]
           trimmed    == [i \in DOMAIN items |-> Trimmed(i)]
           P          == {i \in DOMAIN items : items[i].task >= 1}
<1>1. DOMAIN items = 1..Len(items) /\ Len(items) \in Nat
  BY LenProperties
<1>2. ASSUME NEW i \in 1..Len(items)
      PROVE  /\ Trimmed(i) \in EstimateAssignment
             /\ Trimmed(i).estimate.o = items[i].estimate.o
             /\ Trimmed(i).estimate.p = items[i].estimate.p
  <2>1. items[i] \in EstimateAssignment
    BY ElementOfSeq
  <2>2. items[i].estimate \in Estimate
    BY <2>1 DEF EstimateAssignment
  <2> DEFINE e == [items[i].estimate EXCEPT !.reasoning = Trim[items[i].estimate.reasoning]]
  <2>3. e \in Estimate /\ e.o = items[i].estimate.o /\ e.p = items[i].estimate.p
    BY <2>2, TextAssumption DEF Estimate
  <2>4. Trimmed(i) = [items[i] EXCEPT !.estimate = e]
    BY <2>1, <2>2 DEF EstimateAssignment, Estimate
  <2> QED
    BY <2>1, <2>3, <2>4 DEF EstimateAssignment
<1>3. ParseEstimates(items) = Subsequence(trimmed, P)
  BY DEF ParseEstimates
<1> HIDE DEF Trimmed
<1>4. trimmed \in Seq(EstimateAssignment) /\ DOMAIN trimmed = DOMAIN items
  BY <1>1, <1>2
<1>5. P \in SUBSET DOMAIN trimmed
  BY <1>4
<1>6. SpreadList(items) => \A i \in P : trimmed[i].estimate.o # trimmed[i].estimate.p
  BY <1>1, <1>2 DEF SpreadList
<1> HIDE DEF trimmed, P
<1>7. ParseEstimates(items) \in Seq(EstimateAssignment)
  BY <1>3, <1>4, <1>5, SubsequenceProperties
<1>8. \A q \in 1..Len(Subsequence(trimmed, P)) :
        \E i \in P : Subsequence(trimmed, P)[q] = trimmed[i]
  BY <1>4, <1>5, SubsequenceElements
<1> QED
  BY <1>3, <1>6, <1>7, <1>8 DEF SpreadList

LEMMA FailureType ==
  ASSUME NEW missing \in ProviderErrors, NEW o \in Failures(missing)
  PROVE  o.err \in Results /\ o.err # OK /\ o.out = << >>
BY DEF Failures, Outcome, Results, ProviderErrors, OK

=============================================================================
