---------------------------- MODULE QuoteProofs ----------------------------
(***************************************************************************)
(* What holds of the numbers of Quote for estimates, tasks and teams of    *)
(* any size.                                                               *)
(***************************************************************************)
EXTENDS Quote, WBSProofs

-----------------------------------------------------------------------------
(* Sums. *)

\* The element a sum takes off first.
Off(s) == CHOOSE x \in s : TRUE

\* g[s] is what f sums up to over s, if g has the sum over the rest.
SumsUp(f, g, s) == g[s] = IF s = {} THEN 0 ELSE f[Off(s)] + g[s \ {Off(s)}]

\* g sums f up over each set of the family S.
Summing(f, S, g) ==
  g = [s \in S |-> IF s = {} THEN 0 ELSE f[Off(s)] + g[s \ {Off(s)}]]

\* The subsets of D with at most n elements.
Sized(D, n) == {s \in SUBSET D : Cardinality(s) <= n}

LEMMA OneOff ==
  ASSUME NEW D, IsFiniteSet(D), NEW s \in SUBSET D, s # {}
  PROVE  /\ Off(s) \in s /\ s \ {Off(s)} \in SUBSET D
         /\ Cardinality(s) \in Nat \ {0}
         /\ Cardinality(s \ {Off(s)}) = Cardinality(s) - 1
<1>1. IsFiniteSet(s)
  BY FS_Subset
<1>2. Off(s) \in s
  BY DEF Off
<1> QED
  BY <1>1, <1>2, FS_RemoveElement, FS_CardinalityType, FS_EmptySet

\* A sum that takes one element off after the other exists for every function with a
\* finite domain.
LEMMA SumExists ==
  ASSUME NEW f, NEW D, IsFiniteSet(D)
  PROVE  \E g : Summing(f, SUBSET D, g)
<1> DEFINE Good(n) == \E g : Summing(f, Sized(D, n), g)
           Bad     == {n \in Nat : ~Good(n)}
<1>1. ASSUME NEW n \in Nat, n = 0 \/ Good(n - 1)
      PROVE  Good(n)
  <2>1. PICK g : n > 0 => Summing(f, Sized(D, n - 1), g)
    BY <1>1
  <2> DEFINE h == [s \in Sized(D, n) |->
                     IF s = {} THEN 0 ELSE f[Off(s)] + g[s \ {Off(s)}]]
  <2>2. ASSUME NEW s \in Sized(D, n), s # {}
        PROVE  h[s \ {Off(s)}] = g[s \ {Off(s)}]
    <3>1. s \ {Off(s)} \in Sized(D, n - 1) /\ s \ {Off(s)} \in Sized(D, n) /\ n > 0
      BY <2>2, OneOff DEF Sized
    <3> QED
      BY <2>1, <3>1 DEF Summing
  <2>3. \A s \in Sized(D, n) :
          h[s] = IF s = {} THEN 0 ELSE f[Off(s)] + h[s \ {Off(s)}]
    BY <2>2
  <2>4. h = [s \in Sized(D, n) |-> h[s]]
    OBVIOUS
  <2> HIDE DEF h
  <2> QED
    BY <2>3, <2>4 DEF Summing
<1> HIDE DEF Good
<1>2. ASSUME Bad # {}  PROVE FALSE
  <2>1. PICK n \in Bad : \A m \in Bad : n <= m
    BY <1>2, LeastNatural
  <2>2. n # 0 => n - 1 \in Nat /\ ~(n - 1 \in Bad)
    BY <2>1
  <2> QED
    BY <1>1, <2>1, <2>2
<1>3. Cardinality(D) \in Nat
  BY FS_CardinalityType
<1>4. Good(Cardinality(D))
  BY <1>2, <1>3
<1>5. Sized(D, Cardinality(D)) = SUBSET D
  BY FS_Subset DEF Sized
<1> QED
  BY <1>4, <1>5 DEF Good

\* What is summed up stays in a set that holds zero and the sums of its elements.
LEMMA SumIn ==
  ASSUME NEW D, IsFiniteSet(D), NEW C, 0 \in C, \A a, b \in C : a + b \in C,
         NEW f \in [D -> C]
  PROVE  /\ SumFunction(f) \in C
         /\ D = {} => SumFunction(f) = 0
         /\ D # {} => \E x \in D, c \in C : SumFunction(f) = f[x] + c
<1> DEFINE iter == CHOOSE g : Summing(f, SUBSET D, g)
<1>1. SumFunction(f) = iter[D]
  BY DEF SumFunction, SumFunctionOnSet, FoldFunctionOnSet, MapThenFoldSet, Summing, Off
<1>2. Summing(f, SUBSET D, iter)
  BY SumExists
<1> HIDE DEF iter
<1>3. \A s \in SUBSET D : SumsUp(f, iter, s)
  BY <1>2 DEF SumsUp, Summing
<1> DEFINE Bad == {n \in Nat : \E s \in SUBSET D : Cardinality(s) = n /\ iter[s] \notin C}
<1>4. ASSUME Bad # {}  PROVE FALSE
  <2>1. PICK n \in Bad : \A m \in Bad : n <= m
    BY <1>4, LeastNatural
  <2>2. PICK s \in SUBSET D : Cardinality(s) = n /\ iter[s] \notin C
    BY <2>1
  <2>3. s # {}
    BY <1>3, <2>2 DEF SumsUp
  <2>4. iter[s] = f[Off(s)] + iter[s \ {Off(s)}]
    BY <1>3, <2>3 DEF SumsUp
  <2>5. /\ n \in Nat \ {0} /\ Cardinality(s \ {Off(s)}) = n - 1
        /\ s \ {Off(s)} \in SUBSET D /\ f[Off(s)] \in C
    BY <2>2, <2>3, OneOff
  <2>6. n - 1 \in Nat /\ ~(n <= n - 1)
    BY <2>5
  <2>7. iter[s \ {Off(s)}] \in C
    BY <2>1, <2>5, <2>6
  <2> QED
    BY <2>2, <2>4, <2>5, <2>7
<1>5. ASSUME NEW s \in SUBSET D
      PROVE  iter[s] \in C
  <2>1. Cardinality(s) \in Nat
    BY FS_Subset, FS_CardinalityType
  <2> QED
    BY <1>4, <2>1
<1>6. ASSUME D # {}
      PROVE  \E x \in D, c \in C : iter[D] = f[x] + c
  <2>1. iter[D] = f[Off(D)] + iter[D \ {Off(D)}]
    BY <1>3, <1>6 DEF SumsUp
  <2>2. Off(D) \in D /\ D \ {Off(D)} \in SUBSET D
    BY <1>6 DEF Off
  <2> QED
    BY <1>5, <2>1, <2>2
<1>7. D = {} => iter[D] = 0
  BY <1>3 DEF SumsUp
<1> QED
  BY <1>1, <1>5, <1>6, <1>7

LEMMA SquareNat ==
  ASSUME NEW x \in Int
  PROVE  x * x \in Nat /\ (x # 0 => x * x # 0)
<1>1. CASE x >= 0
  BY <1>1, SMT
<1>2. CASE x < 0
  <2>1. (-x) * (-x) \in Nat /\ (-x) * (-x) # 0
    BY <1>2, SMT
  <2>2. (-x) * (-x) = x * x
    BY SMT
  <2> QED
    BY <2>1, <2>2
<1> QED
  BY <1>1, <1>2

\* An aggregate's variance is no negative number, and a positive one once there is an
\* estimate and every estimate's least and most differ.
LEMMA ProjectPertValues ==
  ASSUME NEW w \in WBSType
  PROVE  /\ ProjectPert(w).sixths \in Int
         /\ ProjectPert(w).variance \in Nat
         /\ /\ ProjectPert(w).sixths # 0
            /\ \A i \in Estimated(w) : w.tasks[i].estimate.o # w.tasks[i].estimate.p
            => ProjectPert(w).variance \in Nat \ {0}
<1> DEFINE S == [i \in Estimated(w) |-> EstimatePert(w.tasks[i].estimate).sixths]
           V == [i \in Estimated(w) |-> EstimatePert(w.tasks[i].estimate).variance]
<1>1. ProjectPert(w).sixths = SumFunction(S) /\ ProjectPert(w).variance = SumFunction(V)
  BY DEF ProjectPert
<1>2. IsFiniteSet(Estimated(w))
  <2>1. Estimated(w) \subseteq 1..Len(w.tasks) /\ Len(w.tasks) \in Nat
    BY LenProperties DEF Estimated, WBSType
  <2>2. IsFiniteSet(1..Len(w.tasks))
    BY <2>1, FS_Interval
  <2> QED
    BY <2>1, <2>2, FS_Subset
<1>3. ASSUME NEW i \in Estimated(w)
      PROVE  w.tasks[i].estimate \in Estimate
  <2>1. w.tasks[i] \in Task
    BY ElementOfSeq, LenProperties DEF Estimated, WBSType
  <2> QED
    BY <2>1 DEF Estimated, Task
<1>4. S \in [Estimated(w) -> Int]
  BY <1>3 DEF EstimatePert, Estimate
<1>5. ASSUME NEW i \in Estimated(w)
      PROVE  /\ V[i] \in Nat
             /\ w.tasks[i].estimate.o # w.tasks[i].estimate.p => V[i] # 0
  <2> DEFINE e == w.tasks[i].estimate
  <2>1. e.p - e.o \in Int /\ (e.o # e.p => e.p - e.o # 0)
    BY <1>3 DEF Estimate
  <2>2. V[i] = (e.p - e.o) * (e.p - e.o)
    BY DEF EstimatePert
  <2> QED
    BY <2>1, <2>2, SquareNat
<1>6. V \in [Estimated(w) -> Nat]
  BY <1>5
<1> HIDE DEF S, V
<1>7. SumFunction(S) \in Int /\ (Estimated(w) = {} => SumFunction(S) = 0)
  BY <1>2, <1>4, SumIn
<1>8. \A a, b \in Nat : a + b \in Nat
  OBVIOUS
<1>9. SumFunction(V) \in Nat
  BY <1>2, <1>6, <1>8, SumIn
<1>10. ASSUME Estimated(w) # {}
       PROVE  \E i \in Estimated(w), c \in Nat : SumFunction(V) = V[i] + c
  BY <1>2, <1>6, <1>8, <1>10, SumIn
<1> QED
  BY <1>1, <1>5, <1>7, <1>9, <1>10

-----------------------------------------------------------------------------
(* Rounding. *)

\* The division of ints that rounds the expected value: the nearest whole number,
\* and the upper one at a tie (metrics.go:90-96).
THEOREM RoundSixthsIsHalfUp ==
  ASSUME NEW n \in Nat
  PROVE  /\ RoundSixthsHalfUp(n) \in Nat
         /\ 6 * (2 * RoundSixthsHalfUp(n) - 1) <= 2 * n
         /\ 2 * n < 6 * (2 * RoundSixthsHalfUp(n) + 1)
BY DEF RoundSixthsHalfUp

\* A number whose square reaches c exceeds one whose square is below c.
LEMMA SquaresOrdered ==
  ASSUME NEW y \in Int, NEW z \in Int, NEW s \in Int, NEW t \in Int,
         z >= 0, z * z >= t, s < t, s >= 0, y <= 0 \/ y * y <= s
  PROVE  y < z
<1>1. z > 0
  <2>1. z # 0
    BY SMT
  <2> QED
    BY <2>1
<1>2. CASE y <= 0
  BY <1>1, <1>2
<1>3. CASE y > 0 /\ y * y <= s
  <2>1. SUFFICES ASSUME y >= z  PROVE FALSE
    OBVIOUS
  <2>2. y * y >= y * z
    BY <1>1, <1>3, <2>1, SMT
  <2>3. y * z >= z * z
    BY <1>1, <1>3, <2>1, SMT
  <2>4. y * y \in Int /\ y * z \in Int /\ z * z \in Int
    OBVIOUS
  <2> QED
    BY <1>3, <2>2, <2>3, <2>4, SMT
<1> QED
  BY <1>2, <1>3

LEMMA SquareGrows ==
  ASSUME NEW m \in Nat, NEW n \in Nat, m < n
  PROVE  m * m < n * n
<1>1. m * m <= m * n
  BY SMT
<1>2. m * n < n * n
  BY SMT
<1> QED
  BY <1>1, <1>2, SMT

LEMMA ScaledGrows ==
  ASSUME NEW m \in Int, NEW n \in Int, NEW d \in Nat \ {0}, m < n
  PROVE  m * d < n * d
BY SMT

\* Of two surds that differ in how often they hold the root, the smaller is not
\* rounded to more than the larger, wherever ties fall.
LEMMA RoundedOrdered ==
  ASSUME NEW a \in Nat, NEW b \in Nat, NEW b2 \in Nat, NEW d \in Nat \ {0},
         NEW c \in Nat \ {0}, b < b2,
         NEW k \in Rounded(Surd(a, b, d, c)), NEW l \in Rounded(Surd(a, b2, d, c))
  PROVE  k <= l
<1> DEFINE y == (2 * k - 1) * c - 2 * a
           z == (2 * l + 1) * c - 2 * a
           s == 2 * 2 * b * b * d
           t == 2 * 2 * b2 * b2 * d
<1>1. k \in Int /\ l \in Int
  BY DEF Rounded, Around
<1>2. y <= 0 \/ y * y <= s
  BY DEF Rounded, FractionAtMost, Surd
<1>3. z >= 0 /\ z * z >= t
  BY DEF Rounded, AtMostFraction, Surd
<1>4. s \in Nat /\ t \in Nat /\ s < t
  <2>1. b * b < b2 * b2
    BY SquareGrows
  <2>2. (b * b) * d < (b2 * b2) * d
    BY <2>1, ScaledGrows
  <2>3. (b * b) * d \in Nat /\ (b2 * b2) * d \in Nat
    OBVIOUS
  <2>4. s = 4 * ((b * b) * d) /\ t = 4 * ((b2 * b2) * d)
    BY SMT
  <2> QED
    BY <2>2, <2>3, <2>4
<1>5. y \in Int /\ z \in Int
  BY <1>1
<1>6. y < z
  <2> HIDE DEF y, z, s, t
  <2> QED
    BY <1>2, <1>3, <1>4, <1>5, SquaresOrdered
<1>7. (2 * k - 1) * c < (2 * l + 1) * c
  BY <1>1, <1>6
<1>8. ~ 2 * l + 1 <= 2 * k - 1
  BY <1>1, <1>7, SMT
<1> QED
  BY <1>1, <1>8

\* The same of rounding up.
LEMMA RoundedUpOrdered ==
  ASSUME NEW a \in Nat, NEW b \in Nat, NEW b2 \in Nat, NEW d \in Nat \ {0},
         NEW c \in Nat \ {0}, b < b2,
         NEW k \in RoundedUp(Surd(a, b, d, c)), NEW l \in RoundedUp(Surd(a, b2, d, c))
  PROVE  k <= l
<1> DEFINE y == (k - 1) * c - 1 * a
           z == l * c - 1 * a
           s == 1 * 1 * b * b * d
           t == 1 * 1 * b2 * b2 * d
<1>1. b2 * d # 0
  BY SMT
<1>2. /\ l \in Around(Surd(a, b2, d, c))
      /\ AtMostFraction(Surd(a, b2, d, c), l, 1)
  BY <1>1 DEF RoundedUp, Surd
<1>3. l \in Int /\ l >= a \div c
  BY <1>2 DEF Around, Surd
<1>4. a \div c \in Nat
  BY SMT
<1>5. CASE k = 0
  BY <1>3, <1>4, <1>5
<1>6. CASE /\ k \in Around(Surd(a, b, d, c))
           /\ FractionAtMost(k - 1, 1, Surd(a, b, d, c))
  <2>1. k \in Int
    BY <1>6 DEF Around
  <2>2. y <= 0 \/ y * y <= s
    BY <1>6 DEF FractionAtMost, Surd
  <2>3. z >= 0 /\ z * z >= t
    BY <1>2 DEF AtMostFraction, Surd
  <2>4. s \in Nat /\ t \in Nat /\ s < t
    <3>1. b * b < b2 * b2
      BY SquareGrows
    <3>2. (b * b) * d < (b2 * b2) * d
      BY <3>1, ScaledGrows
    <3>3. (b * b) * d \in Nat /\ (b2 * b2) * d \in Nat
      OBVIOUS
    <3>4. s = (b * b) * d /\ t = (b2 * b2) * d
      BY SMT
    <3> QED
      BY <3>2, <3>3, <3>4
  <2>5. y \in Int /\ z \in Int
    BY <1>3, <2>1
  <2>6. y < z
    <3> HIDE DEF y, z, s, t
    <3> QED
      BY <2>2, <2>3, <2>4, <2>5, SquaresOrdered
  <2>7. (k - 1) * c < l * c
    BY <1>3, <2>1, <2>6
  <2>8. ~ l <= k - 1
    BY <1>3, <2>1, <2>7, SMT
  <2> QED
    BY <1>3, <2>1, <2>8
<1> QED
  BY <1>5, <1>6 DEF RoundedUp, Surd

\* A number whose square is at most s is at most one whose square is at least s.
LEMMA SquaresAtMost ==
  ASSUME NEW y \in Int, NEW z \in Int, NEW s \in Int,
         z >= 0, z * z >= s, y <= 0 \/ y * y <= s
  PROVE  y <= z
<1>1. SUFFICES ASSUME y > z  PROVE FALSE
  OBVIOUS
<1>2. y > 0
  BY <1>1
<1>3. y * y > y * z
  BY <1>1, <1>2, SMT
<1>4. y * z >= z * z
  BY <1>1, SMT
<1>5. y * y \in Int /\ y * z \in Int /\ z * z \in Int
  OBVIOUS
<1> QED
  BY <1>2, <1>3, <1>4, <1>5, SMT

LEMMA DivBounds ==
  ASSUME NEW m \in Nat, NEW c \in Nat \ {0}
  PROVE  m \div c \in Nat /\ (m \div c) * c <= m /\ m < (m \div c + 1) * c
BY SMT

LEMMA UpperRootReaches ==
  ASSUME NEW d \in Nat
  PROVE  UpperRoot(d) \in Nat /\ UpperRoot(d) * UpperRoot(d) >= d
<1> DEFINE T == {r \in Nat : r * r >= d}
<1>1. d \in T
  BY SMT
<1>2. PICK r \in T : \A q \in T : r <= q
  BY <1>1, LeastNatural
<1>3. r \in 0..d /\ r * r >= d
  BY <1>1, <1>2
<1>4. ASSUME NEW q \in 0..(r - 1)
      PROVE  q * q < d
  <2>1. q \in Nat /\ q * q \in Nat /\ ~(r <= q)
    BY <1>3, SMT
  <2>2. q \notin T
    BY <1>2, <2>1
  <2> QED
    BY <2>1, <2>2
<1> DEFINE Least(x) == x * x >= d /\ \A q \in 0..(x - 1) : q * q < d
<1>5. Least(r)
  BY <1>3, <1>4
<1>6. UpperRoot(d) = CHOOSE x \in 0..d : Least(x)
  BY DEF UpperRoot
<1> HIDE DEF Least
<1>7. UpperRoot(d) \in 0..d /\ Least(UpperRoot(d))
  BY <1>3, <1>5, <1>6
<1> QED
  BY <1>7 DEF Least

\* There is always a whole number to round to.
LEMMA RoundedExists ==
  ASSUME NEW a \in Nat, NEW b \in Nat, NEW d \in Nat, NEW c \in Nat \ {0}
  PROVE  \E k \in Nat : k \in Rounded(Surd(a, b, d, c))
<1> DEFINE r == UpperRoot(d)
           u == (a + b * r) \div c + 1
           s == 2 * 2 * b * b * d
           z(k) == (2 * k + 1) * c - 2 * a
           T == {k \in Nat : z(k) >= 0 /\ z(k) * z(k) >= s}
<1>1. r \in Nat /\ r * r >= d
  BY UpperRootReaches
<1> HIDE DEF r
<1>2. a + b * r \in Nat
  BY <1>1, SMT
<1>3. u \in Nat /\ a + b * r < u * c
  BY <1>2, DivBounds
<1> HIDE DEF u
<1>4. u \in T
  <2> DEFINE x == 2 * b * r
  <2>1. z(u) \in Int /\ x \in Nat /\ z(u) >= x
    BY <1>1, <1>3, SMT
  <2>2. z(u) * z(u) >= x * x
    <3> HIDE DEF x, z
    <3>1. z(u) * z(u) >= z(u) * x
      BY <2>1, SMT
    <3>2. z(u) * x >= x * x
      BY <2>1, SMT
    <3>3. z(u) * z(u) \in Int /\ z(u) * x \in Int /\ x * x \in Int
      BY <2>1
    <3> QED
      BY <3>1, <3>2, <3>3
  <2>3. x * x >= s
    <3> DEFINE q == 2 * 2 * b * b
    <3>1. q \in Nat
      BY SMT
    <3>2. x * x = q * (r * r) /\ s = q * d
      BY <1>1, SMT
    <3>3. r * r \in Nat
      BY <1>1, SMT
    <3> HIDE DEF q, x, s
    <3>4. q * (r * r) >= q * d
      BY <1>1, <3>1, <3>3, SMT
    <3> QED
      BY <3>2, <3>4
  <2>4. s \in Int /\ x * x \in Int /\ z(u) * z(u) \in Int
    BY <1>1, <2>1
  <2> HIDE DEF x, z, s
  <2> QED
    BY <1>3, <2>1, <2>2, <2>3, <2>4
<1> HIDE DEF T
<1>5. PICK k \in T : \A j \in T : k <= j
  BY <1>4, LeastNatural DEF T
<1>6. k \in Nat /\ k <= u /\ z(k) >= 0 /\ z(k) * z(k) >= s
  BY <1>4, <1>5 DEF T
<1>7. (2 * k - 1) * c - 2 * a <= 0 \/ ((2 * k - 1) * c - 2 * a) * ((2 * k - 1) * c - 2 * a) <= s
  <2>1. CASE k = 0
    BY <2>1, SMT
  <2>2. CASE k # 0
    <3>1. k - 1 \in Nat /\ ~(k <= k - 1)
      BY <1>6, <2>2
    <3>2. k - 1 \notin T
      BY <1>5, <3>1
    <3>3. z(k - 1) = (2 * k - 1) * c - 2 * a
      BY <1>6, SMT
    <3>4. z(k - 1) \in Int /\ s \in Int /\ z(k - 1) * z(k - 1) \in Int
      BY <3>1
    <3> HIDE DEF z, s
    <3>5. z(k - 1) < 0 \/ z(k - 1) * z(k - 1) < s
      BY <3>1, <3>2, <3>4 DEF T
    <3> QED
      BY <3>3, <3>4, <3>5
  <2> QED
    BY <2>1, <2>2
<1>8. a \div c <= k
  <2>1. a \div c \in Nat /\ (a \div c) * c <= a
    BY DivBounds
  <2> DEFINE q == a \div c
  <2>2. (2 * k + 1) * c >= 2 * q * c
    BY <1>6, <2>1, SMT
  <2> HIDE DEF q
  <2>3. q \in Nat
    BY <2>1 DEF q
  <2>4. ~(2 * k + 1 < 2 * q)
    BY <1>6, <2>2, <2>3, SMT
  <2> QED
    BY <1>6, <2>3, <2>4 DEF q
<1>9. k \in Around(Surd(a, b, d, c))
  <2>1. a \div c \in Nat
    BY DivBounds
  <2> QED
    BY <1>3, <1>6, <1>8, <2>1 DEF Around, Surd, u, r
<1> QED
  BY <1>6, <1>7, <1>9 DEF Rounded, FractionAtMost, AtMostFraction, Surd

-----------------------------------------------------------------------------
(* The band and the basis. *)

\* Half below m percent is where the rounding of a ratio turns to m: the squares that
\* are compared are those of twice the ratio, in percent, times s.
LEMMA PercentCut ==
  ASSUME NEW s \in Nat \ {0}, NEW d \in Nat, NEW k \in Rounded(Surd(0, 100, d, s)),
         NEW m \in Nat \ {0}
  PROVE  /\ 40000 * d < ((2 * m - 1) * s) * ((2 * m - 1) * s) => k < m
         /\ ((2 * m - 1) * s) * ((2 * m - 1) * s) < 40000 * d => m <= k
<1> DEFINE y == (2 * k - 1) * s - 2 * 0
           z == (2 * k + 1) * s - 2 * 0
           g == (2 * m - 1) * s
           t == 40000 * d
<1>1. k \in Int
  BY DEF Rounded, Around
<1>2. y <= 0 \/ y * y <= t
  <2>1. y <= 0 \/ y * y <= 2 * 2 * 100 * 100 * d
    BY DEF Rounded, FractionAtMost, Surd
  <2> QED
    BY <2>1
<1>3. z >= 0 /\ z * z >= t
  <2>1. z >= 0 /\ z * z >= 2 * 2 * 100 * 100 * d
    BY DEF Rounded, AtMostFraction, Surd
  <2> QED
    BY <2>1
<1>4. y \in Int /\ z \in Int /\ g \in Nat /\ t \in Nat /\ g * g \in Nat
  BY <1>1, SMT
<1>5. t < g * g => y < g
  <2> HIDE DEF y, z, g, t
  <2> QED
    BY <1>2, <1>4, SquaresOrdered
<1>6. g * g < t => g < z
  <2> HIDE DEF y, z, g, t
  <2> QED
    BY <1>3, <1>4, SquaresOrdered
<1>7. y < g => k < m
  BY <1>1, SMT
<1>8. g < z => m <= k
  BY <1>1, SMT
<1> QED
  BY <1>5, <1>6, <1>7, <1>8

\* The band is cut on the rounded percentage, so at its halves.
LEMMA BandCut ==
  ASSUME NEW w, ProjectPert(w).sixths \in Nat \ {0}, ProjectPert(w).variance \in Nat,
         NEW b \in Bands(w), NEW e, e = ProjectPert(w).sixths,
         NEW d, d = 40000 * ProjectPert(w).variance
  PROVE  /\ d < (19 * e) * (19 * e) => b = Green
         /\ (19 * e) * (19 * e) < d /\ d < (41 * e) * (41 * e) => b = Yellow
         /\ (41 * e) * (41 * e) < d => b = Red
<1>1. PICK k \in Rounded(Surd(0, 100, ProjectPert(w).variance, e)) : b = BandForRSD(k)
  BY DEF Bands, Metrics, RSD
<1>2. k \in Int
  BY DEF Rounded, Around
<1>3. /\ 40000 * ProjectPert(w).variance < ((2 * 10 - 1) * e) * ((2 * 10 - 1) * e) => k < 10
      /\ ((2 * 10 - 1) * e) * ((2 * 10 - 1) * e) < 40000 * ProjectPert(w).variance => 10 <= k
      /\ 40000 * ProjectPert(w).variance < ((2 * 21 - 1) * e) * ((2 * 21 - 1) * e) => k < 21
      /\ ((2 * 21 - 1) * e) * ((2 * 21 - 1) * e) < 40000 * ProjectPert(w).variance => 21 <= k
  BY PercentCut
<1>4. 2 * 10 - 1 = 19 /\ 2 * 21 - 1 = 41
  OBVIOUS
<1>5. /\ d < (19 * e) * (19 * e) => k < 10
      /\ (19 * e) * (19 * e) < d => 10 <= k
      /\ d < (41 * e) * (41 * e) => k < 21
      /\ (41 * e) * (41 * e) < d => 21 <= k
  BY <1>3, <1>4
<1>6. /\ k < 10 => b = Green
      /\ 10 <= k /\ k < 21 => b = Yellow
      /\ 21 <= k => b = Red
  BY <1>1, <1>2 DEF BandForRSD
<1> QED
  BY <1>5, <1>6

\* f / v times a range's points, rounded to whole dollars, and the same points,
\* rounded to a whole basis, are half a dollar and half a point apart at most.
LEMMA CostFollowsBasis ==
  ASSUME NEW a \in Nat, NEW b \in Nat, NEW d \in Nat,
         NEW f \in Nat \ {0}, NEW v \in Nat \ {0},
         NEW k \in Rounded(Surd(a, b, d, 6)),
         NEW c \in Rounded(Surd(a * f, b * f, d, 6 * v))
  PROVE  2 * (v * c - f * k) <= f + v /\ 2 * (f * k - v * c) <= f + v
<1> DEFINE y1 == (2 * k - 1) * 6 - 2 * a
           z1 == (2 * k + 1) * 6 - 2 * a
           y2 == (2 * c - 1) * (6 * v) - 2 * (a * f)
           z2 == (2 * c + 1) * (6 * v) - 2 * (a * f)
           s1 == 2 * 2 * b * b * d
           s2 == 2 * 2 * (b * f) * (b * f) * d
<1>1. k \in Int /\ c \in Int
  BY DEF Rounded, Around
<1>2. y1 <= 0 \/ y1 * y1 <= s1
  BY DEF Rounded, FractionAtMost, Surd
<1>3. z1 >= 0 /\ z1 * z1 >= s1
  BY DEF Rounded, AtMostFraction, Surd
<1>4. y2 <= 0 \/ y2 * y2 <= s2
  BY DEF Rounded, FractionAtMost, Surd
<1>5. z2 >= 0 /\ z2 * z2 >= s2
  BY DEF Rounded, AtMostFraction, Surd
<1>6. /\ y1 \in Int /\ z1 \in Int /\ y2 \in Int /\ z2 \in Int
      /\ s1 \in Int /\ s2 \in Int
  BY <1>1
<1>7. s2 = (f * f) * s1
  BY SMT
<1>8. (f * y1) * (f * y1) = (f * f) * (y1 * y1) /\ (f * z1) * (f * z1) = (f * f) * (z1 * z1)
  <2> HIDE DEF y1, z1
  <2> QED
    BY <1>6, SMT
<1>9. /\ f * f \in Nat /\ y1 * y1 \in Int /\ z1 * z1 \in Int
      /\ f * y1 \in Int /\ f * z1 \in Int
  BY <1>6, SMT
<1> HIDE DEF y1, z1, y2, z2, s1, s2
<1>10. f * y1 <= 0 \/ (f * y1) * (f * y1) <= s2
  <2>1. y1 <= 0 => f * y1 <= 0
    BY <1>6, SMT
  <2>2. y1 * y1 <= s1 => (f * f) * (y1 * y1) <= (f * f) * s1
    BY <1>6, <1>9, SMT
  <2> QED
    BY <1>2, <1>7, <1>8, <2>1, <2>2
<1>11. f * z1 >= 0 /\ (f * z1) * (f * z1) >= s2
  <2>1. z1 >= 0 => f * z1 >= 0
    BY <1>6, SMT
  <2>2. z1 * z1 >= s1 => (f * f) * (z1 * z1) >= (f * f) * s1
    BY <1>6, <1>9, SMT
  <2> QED
    BY <1>3, <1>7, <1>8, <2>1, <2>2
<1>12. y2 <= f * z1
  BY <1>4, <1>6, <1>9, <1>11, SquaresAtMost
<1>13. f * y1 <= z2
  BY <1>5, <1>6, <1>9, <1>10, SquaresAtMost
<1>14. /\ f * z1 = 12 * (f * k) + 6 * f - 2 * (a * f)
       /\ f * y1 = 12 * (f * k) - 6 * f - 2 * (a * f)
       /\ y2 = 12 * (v * c) - 6 * v - 2 * (a * f)
       /\ z2 = 12 * (v * c) + 6 * v - 2 * (a * f)
  BY <1>1, SMT DEF y1, z1, y2, z2
<1>15. f * k \in Int /\ v * c \in Int /\ a * f \in Int
  BY <1>1
<1> QED
  BY <1>12, <1>13, <1>14, <1>15

-----------------------------------------------------------------------------
(* The proposal. *)

\* Team inputs as the checks of Proposal let them through.
Positive(inputs) ==
  /\ inputs \in TeamInputs
  /\ inputs.velocity > 0 /\ inputs.capacity > 0 /\ inputs.rate > 0

LEMMA BandKinds ==
  ASSUME NEW w, NEW b \in Bands(w)
  PROVE  b \in {Green, Yellow, Red}
BY DEF Bands, BandForRSD

LEMMA CostsOrdered ==
  ASSUME NEW w, ProjectPert(w).sixths \in Nat, ProjectPert(w).variance \in Nat \ {0},
         NEW inputs, Positive(inputs), NEW b \in {Green, Yellow, Red},
         NEW low \in Cost(LowPoints(w, b), inputs),
         NEW high \in Cost(HighPoints(w), inputs)
  PROVE  low <= high
<1> DEFINE v == ProjectPert(w)
           k == b.lowSDMultiplier
           f == inputs.capacity * inputs.rate
<1>1. k \in {0, 1}
  BY DEF Green, Yellow, Red
<1>2. f \in Nat \ {0} /\ inputs.velocity \in Nat \ {0}
  BY SMT DEF Positive, TeamInputs
<1>3. /\ Cost(LowPoints(w, b), inputs)
           = Rounded(Surd(v.sixths * f, k * f, v.variance, 6 * inputs.velocity))
      /\ Cost(HighPoints(w), inputs)
           = Rounded(Surd(v.sixths * f, 2 * f, v.variance, 6 * inputs.velocity))
  BY DEF Cost, LowPoints, HighPoints, Points, Surd
<1>4. /\ v.sixths * f \in Nat /\ k * f \in Nat /\ 2 * f \in Nat /\ k * f < 2 * f
      /\ 6 * inputs.velocity \in Nat \ {0}
  BY <1>1, <1>2, SMT
<1> QED
  BY <1>3, <1>4, RoundedOrdered

LEMMA WeeksOrdered ==
  ASSUME NEW w, ProjectPert(w).sixths \in Nat, ProjectPert(w).variance \in Nat \ {0},
         NEW inputs, Positive(inputs), NEW b \in {Green, Yellow, Red},
         NEW low \in WeeksFor(LowPoints(w, b), inputs),
         NEW high \in WeeksFor(HighPoints(w), inputs)
  PROVE  low <= high
<1> DEFINE v == ProjectPert(w)
           k == b.lowSDMultiplier
<1>1. k \in {0, 1}
  BY DEF Green, Yellow, Red
<1>2. 6 * inputs.velocity \in Nat \ {0}
  BY DEF Positive, TeamInputs
<1>3. /\ WeeksFor(LowPoints(w, b), inputs)
           = RoundedUp(Surd(v.sixths, k, v.variance, 6 * inputs.velocity))
      /\ WeeksFor(HighPoints(w), inputs)
           = RoundedUp(Surd(v.sixths, 2, v.variance, 6 * inputs.velocity))
  BY DEF WeeksFor, LowPoints, HighPoints, Points, Surd
<1> QED
  BY <1>1, <1>2, <1>3, RoundedUpOrdered

\* Every proposal that is computed from some spread has its ranges in order, for
\* any number of tasks and any estimates and team, whatever way each rounding to
\* whole dollars, weeks and percent falls (proposal.go:67-85).
THEOREM ProposalsOrdered ==
  ASSUME NEW w, ProjectPert(w).sixths \in Nat, ProjectPert(w).variance \in Nat \ {0},
         NEW inputs, Positive(inputs), NEW p \in Proposals(w, inputs)
  PROVE  Ordered(p)
<1>1. PICK b \in Bands(w) :
        /\ p.cost.low \in Cost(LowPoints(w, b), inputs)
        /\ p.cost.high \in Cost(HighPoints(w), inputs)
        /\ p.weeks.low \in WeeksFor(LowPoints(w, b), inputs)
        /\ p.weeks.high \in WeeksFor(HighPoints(w), inputs)
        /\ p.atLow = NormalCDFPercent(b.lowSDMultiplier)
        /\ p.atHigh = NormalCDFPercent(2)
  BY DEF Proposals
<1>2. b \in {Green, Yellow, Red}
  BY BandKinds
<1>3. p.cost.low <= p.cost.high
  BY <1>1, <1>2, CostsOrdered
<1>4. p.weeks.low <= p.weeks.high
  BY <1>1, <1>2, WeeksOrdered
<1>5. p.atLow < p.atHigh
  <2>1. b.lowSDMultiplier \in {0, 1}
    BY <1>2 DEF Green, Yellow, Red
  <2> QED
    BY <1>1, <2>1 DEF NormalCDFPercent
<1> QED
  BY <1>3, <1>4, <1>5 DEF Ordered

-----------------------------------------------------------------------------
(* Types. *)

LEMMA AroundInts ==
  ASSUME NEW a \in Int, NEW b \in Nat, NEW d \in Nat, NEW c \in Nat \ {0}
  PROVE  /\ Rounded(Surd(a, b, d, c)) \subseteq Int
         /\ RoundedUp(Surd(a, b, d, c)) \subseteq Int
BY DEF Rounded, RoundedUp, Around, Surd

\* The fields of a proposal are whole numbers of the kind and the texts of its WBS.
LEMMA ProposalFields ==
  ASSUME NEW w \in WBSType, NEW inputs, Positive(inputs), NEW b \in {Green, Yellow, Red}
  PROVE  /\ Cost(LowPoints(w, b), inputs) \subseteq Int
         /\ Cost(HighPoints(w), inputs) \subseteq Int
         /\ WeeksFor(LowPoints(w, b), inputs) \subseteq Int
         /\ WeeksFor(HighPoints(w), inputs) \subseteq Int
         /\ NormalCDFPercent(b.lowSDMultiplier) \in {50, 84} /\ NormalCDFPercent(2) = 98
         /\ Scope(w) \in Seq([id : Nat, description : Text])
         /\ Assumptions(w) \in Seq(Text)
<1> DEFINE v == ProjectPert(w)
           k == b.lowSDMultiplier
           f == inputs.capacity * inputs.rate
           e == inputs.velocity
<1>1. v.sixths \in Int /\ v.variance \in Nat
  BY ProjectPertValues
<1>2. k \in {0, 1}
  BY DEF Green, Yellow, Red
<1>3. f \in Nat \ {0} /\ 6 * e \in Nat \ {0}
  BY SMT DEF Positive, TeamInputs
<1>4. v.sixths * f \in Int /\ k * f \in Nat /\ 2 * f \in Nat
  BY <1>1, <1>2, <1>3, SMT
<1>5. /\ Cost(LowPoints(w, b), inputs) = Rounded(Surd(v.sixths * f, k * f, v.variance, 6 * e))
      /\ Cost(HighPoints(w), inputs) = Rounded(Surd(v.sixths * f, 2 * f, v.variance, 6 * e))
      /\ WeeksFor(LowPoints(w, b), inputs) = RoundedUp(Surd(v.sixths, k, v.variance, 6 * e))
      /\ WeeksFor(HighPoints(w), inputs) = RoundedUp(Surd(v.sixths, 2, v.variance, 6 * e))
  BY DEF Cost, WeeksFor, LowPoints, HighPoints, Points, Surd
<1>6. NormalCDFPercent(k) \in {50, 84} /\ NormalCDFPercent(2) = 98
  BY <1>2 DEF NormalCDFPercent
<1>7. /\ DOMAIN w.tasks = 1..Len(w.tasks) /\ Len(w.tasks) \in Nat
      /\ \A i \in 1..Len(w.tasks) : w.tasks[i] \in Task
  BY ElementOfSeq, LenProperties DEF WBSType
<1>8. Scope(w) \in Seq([id : Nat, description : Text])
  <2>1. \A i \in 1..Len(w.tasks) : w.tasks[i].id \in Nat /\ w.tasks[i].description \in Text
    BY <1>7 DEF Task
  <2>2. Scope(w) = [i \in 1..Len(w.tasks) |->
                      [id |-> w.tasks[i].id, description |-> w.tasks[i].description]]
    BY <1>7 DEF Scope
  <2> QED
    BY <1>7, <2>1, <2>2
<1>9. Assumptions(w) \in Seq(Text)
  <2> DEFINE texts(t) == [j \in DOMAIN t.riskNotes |-> t.riskNotes[j].description]
             all == [i \in 1..Len(w.tasks) |-> texts(w.tasks[i])]
  <2>1. ASSUME NEW t \in Task
        PROVE  texts(t) \in Seq(Text)
    <3>1. t.riskNotes \in Seq(RiskNote)
      BY DEF Task
    <3>2. /\ DOMAIN t.riskNotes = 1..Len(t.riskNotes) /\ Len(t.riskNotes) \in Nat
          /\ \A j \in 1..Len(t.riskNotes) : t.riskNotes[j] \in RiskNote
      BY <3>1, ElementOfSeq, LenProperties
    <3>3. \A j \in 1..Len(t.riskNotes) : t.riskNotes[j].description \in Text
      BY <3>2 DEF RiskNote
    <3> QED
      BY <3>2, <3>3
  <2>2. Assumptions(w) = FlattenSeq(all)
    BY <1>7 DEF Assumptions
  <2> HIDE DEF texts
  <2>3. all \in Seq(Seq(Text))
    BY <1>7, <2>1
  <2> HIDE DEF all
  <2> QED
    BY <2>2, <2>3, FlattenSeqIn
<1> HIDE DEF v, k, f, e
<1>10. /\ Cost(LowPoints(w, b), inputs) \subseteq Int
       /\ Cost(HighPoints(w), inputs) \subseteq Int
  BY <1>1, <1>3, <1>4, <1>5, AroundInts
<1>11. /\ WeeksFor(LowPoints(w, b), inputs) \subseteq Int
       /\ WeeksFor(HighPoints(w), inputs) \subseteq Int
  <2>1. k \in Nat /\ 2 \in Nat
    BY <1>2
  <2> QED
    BY <1>1, <1>3, <1>5, <2>1, AroundInts
<1> QED
  BY <1>6, <1>8, <1>9, <1>10, <1>11 DEF k

=============================================================================
