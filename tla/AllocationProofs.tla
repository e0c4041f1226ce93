--------------------------- MODULE AllocationProofs ---------------------------
(***************************************************************************)
(* Theorems about the solver, for any curves, caps, budget and iterations: *)
(* how the legs of solveAllocation fit the caps of their pools and, below  *)
(* the jumps of the yields, the budget.  They rest on what its parts       *)
(* promise: sorting, bisection, water-filling, repair and pruning.         *)
(***************************************************************************)
EXTENDS Allocation, SumLemmas, SequenceTheorems

-----------------------------------------------------------------------------
(* Orders, and the least and the greatest of numbers. *)

\* What holds of 0, and of k + 1 with k, holds up to n.
LEMMA UpTo ==
  ASSUME NEW n \in Nat, NEW P, 0 \in P, \A k \in 0..(n - 1) : k \in P => k + 1 \in P
  PROVE  0..n \subseteq P
  <1> DEFINE F == {s \in SUBSET (0..n) : \E m \in 0..n : s = 0..m /\ m \notin P}
  <1> SUFFICES ASSUME NEW b \in 0..n, b \notin P
               PROVE  FALSE
    OBVIOUS
  <1>1. IsFiniteSet(0..n)
    BY FS_Interval
  <1>2. F \in SUBSET (SUBSET (0..n)) /\ F # {}
    <2>1. 0..b \in F
      OBVIOUS
    <2>2. QED  BY <2>1
  <1>3. PICK s \in F : \A u \in SUBSET s : u # s => u \notin F
    <2> DEFINE S == 0..n
    <2>1. F \in SUBSET (SUBSET S) /\ IsFiniteSet(S)
      BY <1>1, <1>2
    <2> HIDE DEF F, S
    <2>2. QED  BY <1>2, <2>1, SmallestSet
  <1>4. PICK m \in 0..n : s = 0..m /\ m \notin P
    BY <1>3
  <1>5. m - 1 \in 0..(n - 1) /\ m - 1 + 1 = m
    BY <1>4
  <1>6. m - 1 \notin P
    BY <1>4, <1>5
  <1>7. 0..(m - 1) \in SUBSET s /\ 0..(m - 1) # s /\ 0..(m - 1) \in F
    <2>1. m \in s /\ m \notin 0..(m - 1)
      BY <1>4, <1>5
    <2>2. 0..(m - 1) \in SUBSET s /\ 0..(m - 1) \in SUBSET (0..n) /\ m - 1 \in 0..n
      BY <1>4, <1>5
    <2>3. QED  BY <2>1, <2>2, <1>6
  <1>8. QED  BY <1>3, <1>7

\* R puts the elements of S into one order.
InOrder(S, R) ==
    /\ \A a \in S : <<a, a>> \notin R
    /\ \A a, b \in S : a # b => <<a, b>> \in R \/ <<b, a>> \in R
    /\ \A a, b, c \in S : <<a, b>> \in R /\ <<b, c>> \in R => <<a, c>> \in R

\* A finite set in a strict total order has a sequence in that order.
LEMMA Sorting ==
  ASSUME NEW S, IsFiniteSet(S), NEW R, InOrder(S, R)
  PROVE  /\ Cardinality(S) \in Nat
         /\ SortedBy(S, R) \in [1..Cardinality(S) -> S]
         /\ \A i, j \in 1..Cardinality(S) : i < j => <<SortedBy(S, R)[i], SortedBy(S, R)[j]>> \in R
  <1>1. PICK n \in Nat : n = Cardinality(S)
    BY FS_CardinalityType
  <1> DEFINE upTo(a) == {b \in S : b = a \/ <<b, a>> \in R}
             rank == [a \in S |-> Cardinality(upTo(a))]
  <1>2. ASSUME NEW a \in S
        PROVE  IsFiniteSet(upTo(a)) /\ rank[a] = Cardinality(upTo(a)) /\ rank[a] \in 1..n
    <2>1. upTo(a) \in SUBSET S /\ a \in upTo(a)
      OBVIOUS
    <2> HIDE DEF upTo
    <2>2. IsFiniteSet(upTo(a)) /\ Cardinality(upTo(a)) <= n
      BY <1>1, <2>1, FS_Subset
    <2>3. Cardinality(upTo(a)) \in Nat /\ Cardinality(upTo(a)) # 0
      BY <2>1, <2>2, FS_CardinalityType, FS_EmptySet
    <2>4. rank[a] = Cardinality(upTo(a))
      OBVIOUS
    <2> HIDE DEF rank
    <2>5. QED  BY <2>2, <2>3, <2>4
  <1>3. ASSUME NEW a \in S, NEW b \in S, <<a, b>> \in R
        PROVE  rank[a] < rank[b]
    <2>1. upTo(a) \in SUBSET upTo(b)
      BY <1>3 DEF InOrder
    <2>2. b \in upTo(b) /\ b \notin upTo(a)
      <3>1. b # a /\ <<b, a>> \notin R
        BY <1>3 DEF InOrder
      <3>2. QED  BY <3>1
    <2>3. rank[a] = Cardinality(upTo(a)) /\ rank[b] = Cardinality(upTo(b)) /\ IsFiniteSet(upTo(b))
          /\ rank[a] \in 1..n /\ rank[b] \in 1..n
      BY <1>2
    <2> HIDE DEF upTo, rank
    <2>4. rank[a] <= rank[b] /\ rank[a] # rank[b]
      BY <2>1, <2>2, <2>3, FS_Subset
    <2>5. QED  BY <2>3, <2>4
  <1>4. rank \in [S -> 1..n]
    BY <1>2
  <1> HIDE DEF rank
  <1>5. ASSUME NEW a \in S, NEW b \in S, rank[a] = rank[b]
        PROVE  a = b
    <2> SUFFICES ASSUME a # b
                 PROVE  FALSE
      OBVIOUS
    <2>1. rank[a] \in 1..n /\ rank[b] \in 1..n
      BY <1>4
    <2>2. CASE <<a, b>> \in R
      <3>1. rank[a] < rank[b]
        BY <1>3, <2>2
      <3>2. QED  BY <1>5, <2>1, <3>1
    <2>3. CASE <<b, a>> \in R
      <3>1. rank[b] < rank[a]
        BY <1>3, <2>3
      <3>2. QED  BY <1>5, <2>1, <3>1
    <2>4. QED  BY <2>2, <2>3 DEF InOrder
  <1>6. ASSUME NEW k \in 1..n
        PROVE  \E a \in S : rank[a] = k
    <2> SUFFICES ASSUME \A a \in S : rank[a] # k
                 PROVE  FALSE
      OBVIOUS
    <2>1. IsFiniteSet(1..n) /\ Cardinality(1..n) = n
      BY FS_Interval
    <2>2. IsFiniteSet((1..n) \ {k}) /\ Cardinality((1..n) \ {k}) = n - 1
      BY <2>1, FS_RemoveElement
    <2>3. rank \in [S -> (1..n) \ {k}]
      BY <1>4
    <2>4. n - 1 < Cardinality(S)
      BY <1>1
    <2>5. \E x, y \in S : x # y /\ rank[x] = rank[y]
      BY <2>2, <2>3, <2>4, FS_PigeonHole
    <2>6. QED  BY <1>5, <2>5
  <1> DEFINE o == [k \in 1..n |-> CHOOSE a \in S : rank[a] = k]
  <1>7. \A k \in 1..n : o[k] \in S /\ rank[o[k]] = k
    BY <1>6
  <1>8. o \in [1..n -> S]
    BY <1>7
  <1> HIDE DEF o
  <1>9. ASSUME NEW i \in 1..n, NEW j \in 1..n, i < j
        PROVE  <<o[i], o[j]>> \in R
    <2>1. o[i] \in S /\ o[j] \in S /\ rank[o[i]] = i /\ rank[o[j]] = j
      BY <1>7
    <2>2. o[i] # o[j]
      BY <1>9, <2>1
    <2>3. <<o[j], o[i]>> \notin R
      <3>1. SUFFICES ASSUME <<o[j], o[i]>> \in R
                     PROVE  FALSE
        OBVIOUS
      <3>2. rank[o[j]] < rank[o[i]]
        BY <1>3, <2>1, <3>1
      <3>3. QED  BY <1>9, <2>1, <3>2
    <2>4. QED  BY <2>1, <2>2, <2>3 DEF InOrder
  <1>10. \E f \in [1..Cardinality(S) -> S] : \A i, j \in DOMAIN f : i < j => <<f[i], f[j]>> \in R
    <2>1. DOMAIN o = 1..n
      BY <1>8
    <2>2. QED  BY <1>1, <1>8, <1>9, <2>1
  <1>11. PICK s : s = SortedBy(S, R)
    OBVIOUS
  <1>12. s \in [1..Cardinality(S) -> S] /\ \A i, j \in DOMAIN s : i < j => <<s[i], s[j]>> \in R
    BY <1>10, <1>11 DEF SortedBy
  <1>13. QED  BY <1>1, <1>11, <1>12

\* And each element is in it once.
LEMMA SortedOnce ==
  ASSUME NEW S, NEW R, InOrder(S, R), NEW n \in Nat, NEW o \in [1..n -> S],
         \A i, j \in 1..n : i < j => <<o[i], o[j]>> \in R
  PROVE  \A i, j \in 1..n : i # j => o[i] # o[j]
  <1> SUFFICES ASSUME NEW i \in 1..n, NEW j \in 1..n, i < j
               PROVE  o[i] # o[j]
    OBVIOUS
  <1>1. <<o[i], o[j]>> \in R /\ o[i] \in S
    OBVIOUS
  <1>2. QED  BY <1>1 DEF InOrder

\* And each element is in it.
LEMMA SortedAll ==
  ASSUME NEW S, IsFiniteSet(S), NEW o \in [1..Cardinality(S) -> S],
         \A i, j \in 1..Cardinality(S) : i # j => o[i] # o[j], NEW a \in S
  PROVE  \E k \in 1..Cardinality(S) : o[k] = a
  <1> SUFFICES ASSUME \A k \in 1..Cardinality(S) : o[k] # a
               PROVE  FALSE
    OBVIOUS
  <1>1. PICK n \in Nat : n = Cardinality(S)
    BY FS_CardinalityType
  <1>2. IsFiniteSet(1..n) /\ Cardinality(1..n) = n
    BY FS_Interval
  <1>3. IsFiniteSet(S \ {a}) /\ Cardinality(S \ {a}) = n - 1
    BY <1>1, FS_RemoveElement
  <1>4. o \in [1..n -> S \ {a}]
    BY <1>1
  <1>5. Cardinality(S \ {a}) < Cardinality(1..n)
    BY <1>2, <1>3
  <1>6. \E x, y \in 1..n : x # y /\ o[x] = o[y]
    BY <1>2, <1>3, <1>4, <1>5, FS_PigeonHole
  <1>7. QED  BY <1>1, <1>6

\* The first of it is the least.
LEMMA LeastExists ==
  ASSUME NEW S, IsFiniteSet(S), S # {}, NEW R, InOrder(S, R)
  PROVE  \E a \in S : \A b \in S : b = a \/ <<a, b>> \in R
  <1>1. PICK n \in Nat : n = Cardinality(S)
    BY FS_CardinalityType
  <1>2. PICK o : o = SortedBy(S, R)
    OBVIOUS
  <1>3. o \in [1..n -> S] /\ \A i, j \in 1..n : i < j => <<o[i], o[j]>> \in R
    BY <1>1, <1>2, Sorting
  <1>4. \A i, j \in 1..n : i # j => o[i] # o[j]
    BY <1>3, SortedOnce
  <1>5. n # 0
    BY <1>1, FS_EmptySet
  <1>6. 1 \in 1..n /\ o[1] \in S
    BY <1>3, <1>5
  <1>7. ASSUME NEW b \in S
        PROVE  b = o[1] \/ <<o[1], b>> \in R
    <2>1. PICK k \in 1..n : o[k] = b
      BY <1>1, <1>3, <1>4, SortedAll
    <2>2. CASE k = 1
      BY <2>1, <2>2
    <2>3. CASE k # 1
      <3>1. 1 < k
        BY <2>3
      <3>2. QED  BY <1>3, <1>6, <2>1, <3>1
    <2>4. QED  BY <2>2, <2>3
  <1>8. QED  BY <1>6, <1>7

\* The smaller of two numbers.
LEMMA MinOfTwo ==
  ASSUME NEW a \in Int, NEW b \in Int
  PROVE  Min({a, b}) \in {a, b} /\ Min({a, b}) <= a /\ Min({a, b}) <= b
  <1>1. \E x \in {a, b} : \A y \in {a, b} : x <= y
    OBVIOUS
  <1>2. PICK m : m = CHOOSE x \in {a, b} : \A y \in {a, b} : x <= y
    OBVIOUS
  <1>3. m \in {a, b} /\ \A y \in {a, b} : m <= y
    BY <1>1, <1>2
  <1>4. QED  BY <1>2, <1>3 DEF Min

\* And the larger.
LEMMA MaxOfTwo ==
  ASSUME NEW a \in Int, NEW b \in Int
  PROVE  Max({a, b}) \in {a, b} /\ Max({a, b}) >= a /\ Max({a, b}) >= b
  <1>1. \E x \in {a, b} : \A y \in {a, b} : x >= y
    OBVIOUS
  <1>2. PICK m : m = CHOOSE x \in {a, b} : \A y \in {a, b} : x >= y
    OBVIOUS
  <1>3. m \in {a, b} /\ \A y \in {a, b} : m >= y
    BY <1>1, <1>2
  <1>4. QED  BY <1>2, <1>3 DEF Max

\* A finite set of numbers has a least one.
LEMMA MinIsLeast ==
  ASSUME NEW S \in SUBSET Int, IsFiniteSet(S), S # {}
  PROVE  Min(S) \in S /\ \A y \in S : Min(S) <= y
  <1>0. PICK R : R = {p \in S \X S : p[1] < p[2]}
    OBVIOUS
  <1>1. \A a, b \in S : <<a, b>> \in R <=> a < b
    BY <1>0
  <1>2. InOrder(S, R)
    BY <1>1 DEF InOrder
  <1>3. PICK a \in S : \A b \in S : b = a \/ <<a, b>> \in R
    BY <1>2, LeastExists
  <1>4. ASSUME NEW b \in S
        PROVE  a <= b
    <2>1. a \in Int /\ b \in Int
      OBVIOUS
    <2>2. b = a \/ a < b
      BY <1>1, <1>3, Zenon
    <2>3. QED  BY <2>1, <2>2
  <1>5. QED  BY <1>4 DEF Min

\* And a greatest.
LEMMA MaxIsGreatest ==
  ASSUME NEW S \in SUBSET Int, IsFiniteSet(S), S # {}
  PROVE  Max(S) \in S /\ \A y \in S : Max(S) >= y
  <1>0. PICK R : R = {p \in S \X S : p[1] > p[2]}
    OBVIOUS
  <1>1. \A a, b \in S : <<a, b>> \in R <=> a > b
    BY <1>0
  <1>2. InOrder(S, R)
    BY <1>1 DEF InOrder
  <1>3. PICK a \in S : \A b \in S : b = a \/ <<a, b>> \in R
    BY <1>2, LeastExists
  <1>4. ASSUME NEW b \in S
        PROVE  a >= b
    <2>1. a \in Int /\ b \in Int
      OBVIOUS
    <2>2. b = a \/ a > b
      BY <1>1, <1>3, Zenon
    <2>3. QED  BY <2>1, <2>2
  <1>5. QED  BY <1>4 DEF Max

-----------------------------------------------------------------------------
(* Bisection. *)

\* One cut: up from the middle if it is in U.
Halved(c, U) ==
    LET mid == (c.lo + c.hi) \div 2
    IN  IF mid \in U THEN [c EXCEPT !.lo = mid] ELSE [c EXCEPT !.hi = mid]

\* f tells the interval after each of n cuts, up from the middles in U.
Cuts(f, lo, hi, n, U) ==
    f = [k \in 0..n |-> IF k = 0 THEN [lo |-> lo, hi |-> hi] ELSE Halved(f[k - 1], U)]

\* The recursion of Bisect is well defined.
LEMMA CutsExist ==
  ASSUME NEW lo, NEW hi, NEW n \in Nat, NEW U
  PROVE  \E f : Cuts(f, lo, hi, n, U)
  <1> DEFINE P == {k \in Nat : \E f : Cuts(f, lo, hi, k, U)}
  <1>1. 0 \in P
    <2>1. Cuts([k \in 0..0 |-> [lo |-> lo, hi |-> hi]], lo, hi, 0, U)
      BY DEF Cuts
    <2>2. QED  BY <2>1
  <1>2. ASSUME NEW k \in 0..(n - 1), k \in P
        PROVE  k + 1 \in P
    <2>1. PICK f : Cuts(f, lo, hi, k, U)
      BY <1>2
    <2> DEFINE g == [j \in 0..(k + 1) |-> IF j = k + 1 THEN Halved(f[k], U) ELSE f[j]]
    <2>2. ASSUME NEW j \in 0..(k + 1)
          PROVE  g[j] = IF j = 0 THEN [lo |-> lo, hi |-> hi] ELSE Halved(g[j - 1], U)
      <3>1. CASE j = k + 1
        <4>1. g[k] = f[k] /\ j - 1 = k /\ j # 0
          BY <3>1
        <4>2. QED  BY <3>1, <4>1
      <3>2. CASE j # k + 1
        <4>1. j \in 0..k /\ g[j] = f[j]
          BY <3>2
        <4>2. f[j] = IF j = 0 THEN [lo |-> lo, hi |-> hi] ELSE Halved(f[j - 1], U)
          BY <2>1, <4>1 DEF Cuts
        <4>3. j # 0 => g[j - 1] = f[j - 1]
          BY <4>1
        <4>4. QED  BY <4>1, <4>2, <4>3
      <3>3. QED  BY <3>1, <3>2
    <2>3. g = [j \in 0..(k + 1) |-> g[j]]
      OBVIOUS
    <2>4. Cuts(g, lo, hi, k + 1, U)
      <3> HIDE DEF g
      <3>1. QED  BY <2>2, <2>3 DEF Cuts
    <2>5. QED  BY <2>4
  <1>3. n \in P
    <2> HIDE DEF P
    <2>1. 0..n \subseteq P
      BY <1>1, <1>2, UpTo
    <2>2. QED  BY <2>1
  <1>4. QED  BY <1>3

\* The interval stays in [lo, hi], and its upper end is at hi or a middle that
\* was not cut up from.
LEMMA CutsWithin ==
  ASSUME NEW lo \in Int, NEW hi \in Int, lo <= hi, NEW n \in Nat, NEW U,
         NEW f, Cuts(f, lo, hi, n, U)
  PROVE  \A k \in 0..n :
            /\ f[k] \in [lo : Int, hi : Int]
            /\ lo <= f[k].lo /\ f[k].lo <= f[k].hi /\ f[k].hi <= hi
            /\ (f[k].lo + f[k].hi) \div 2 \in Int
            /\ f[k].hi = hi \/ f[k].hi \notin U
  <1> DEFINE Good(c) == /\ c \in [lo : Int, hi : Int]
                        /\ lo <= c.lo /\ c.lo <= c.hi /\ c.hi <= hi
                        /\ c.hi = hi \/ c.hi \notin U
             P == {k \in Nat : k \in 0..n => Good(f[k])}
  <1>1. 0 \in P
    <2>1. f[0] = [lo |-> lo, hi |-> hi]
      BY DEF Cuts
    <2>2. QED  BY <2>1
  <1>2. ASSUME NEW k \in 0..(n - 1), k \in P
        PROVE  k + 1 \in P
    <2>1. PICK c : c = f[k]
      OBVIOUS
    <2>2. Good(c) /\ f[k + 1] = Halved(c, U)
      <3>1. k + 1 \in 0..n /\ k + 1 # 0 /\ (k + 1) - 1 = k
        OBVIOUS
      <3>2. f[k + 1] = Halved(f[k], U)
        BY <3>1 DEF Cuts
      <3>3. QED  BY <1>2, <2>1, <3>2
    <2>3. PICK mid : mid = (c.lo + c.hi) \div 2
      OBVIOUS
    <2>4. mid \in Int /\ c.lo <= mid /\ mid <= c.hi
      BY <2>2, <2>3
    <2>5. CASE mid \in U
      <3>1. Halved(c, U) = [c EXCEPT !.lo = mid]
        BY <2>3, <2>5 DEF Halved
      <3>2. Good([c EXCEPT !.lo = mid])
        BY <2>2, <2>4
      <3>3. QED  BY <2>2, <3>1, <3>2
    <2>6. CASE mid \notin U
      <3>1. Halved(c, U) = [c EXCEPT !.hi = mid]
        BY <2>3, <2>6 DEF Halved
      <3>2. Good([c EXCEPT !.hi = mid])
        BY <2>2, <2>4, <2>6
      <3>3. QED  BY <2>2, <3>1, <3>2
    <2>7. QED  BY <2>5, <2>6
  <1>3. 0..n \subseteq P
    <2> HIDE DEF P
    <2>1. QED  BY <1>1, <1>2, UpTo
  <1>4. ASSUME NEW k \in 0..n
        PROVE  Good(f[k]) /\ (f[k].lo + f[k].hi) \div 2 \in Int
    <2>1. Good(f[k])
      BY <1>3
    <2>2. QED  BY <2>1
  <1>5. QED  BY <1>4

\* What solveMarginalEquals bisects, with its test.
YieldCuts(f, curve, lambda, cap) ==
    f = [k \in 0..X_ITERATIONS |->
           IF k = 0 THEN [lo |-> 0, hi |-> cap]
           ELSE LET c == f[k - 1]
                    mid == (c.lo + c.hi) \div 2
                IN  IF marginalYield(curve, mid) > lambda
                    THEN [c EXCEPT !.lo = mid] ELSE [c EXCEPT !.hi = mid]]

\* That recursion is well defined too.
LEMMA YieldCutsExist ==
  ASSUME NEW curve, NEW lambda, NEW cap \in Nat
  PROVE  \E f : YieldCuts(f, curve, lambda, cap)
  <1> DEFINE n == X_ITERATIONS
             U == {m \in Int : marginalYield(curve, m) > lambda}
  <1>1. n \in Nat
    BY AllocationAssumption
  <1>2. PICK f : Cuts(f, 0, cap, n, U)
    <2> HIDE DEF U, n
    <2>1. QED  BY <1>1, CutsExist
  <1>3. ASSUME NEW k \in 0..n
        PROVE  (f[k].lo + f[k].hi) \div 2 \in Int
    <2> HIDE DEF U, n
    <2>1. QED  BY <1>1, <1>2, CutsWithin
  <1>4. ASSUME NEW k \in 0..n, k # 0
        PROVE  LET c == f[k - 1]
                   mid == (c.lo + c.hi) \div 2
               IN  Halved(c, U) = IF marginalYield(curve, mid) > lambda
                                  THEN [c EXCEPT !.lo = mid] ELSE [c EXCEPT !.hi = mid]
    <2>1. k - 1 \in 0..n
      BY <1>1, <1>4
    <2>2. PICK c : c = f[k - 1]
      OBVIOUS
    <2>3. PICK mid : mid = (c.lo + c.hi) \div 2
      OBVIOUS
    <2>4. mid \in Int
      BY <1>3, <2>1, <2>2, <2>3
    <2>5. mid \in U <=> marginalYield(curve, mid) > lambda
      BY <2>4
    <2> HIDE DEF U
    <2>6. QED  BY <2>2, <2>3, <2>5 DEF Halved
  <1>5. f = [k \in 0..n |->
           IF k = 0 THEN [lo |-> 0, hi |-> cap]
           ELSE LET c == f[k - 1]
                    mid == (c.lo + c.hi) \div 2
                IN  IF marginalYield(curve, mid) > lambda
                    THEN [c EXCEPT !.lo = mid] ELSE [c EXCEPT !.hi = mid]]
    <2> HIDE DEF U, n
    <2>1. QED  BY <1>2, <1>4 DEF Cuts
  <1>6. QED  BY <1>5 DEF YieldCuts

\* The answer of solveMarginalEquals is no more than the cap.
LEMMA SolvedWithinCap ==
  ASSUME NEW curve, NEW lambda, NEW cap \in Nat
  PROVE  solveMarginalEquals(curve, lambda, cap) \in 0..cap
  <1>1. PICK f : f = CHOOSE g : YieldCuts(g, curve, lambda, cap)
    OBVIOUS
  <1>2. YieldCuts(f, curve, lambda, cap)
    BY <1>1, YieldCutsExist
  <1>3. X_ITERATIONS \in Nat
    BY AllocationAssumption
  <1> DEFINE n == X_ITERATIONS
             mid(k) == (f[k].lo + f[k].hi) \div 2
             U == {m \in {mid(k) : k \in 0..n} : marginalYield(curve, m) > lambda}
  <1>4. Cuts(f, 0, cap, n, U)
    <2>1. ASSUME NEW k \in 0..n, k # 0
          PROVE  f[k] = Halved(f[k - 1], U)
      <3>1. k - 1 \in 0..n
        BY <1>3, <2>1
      <3>2. PICK c : c = f[k - 1]
        OBVIOUS
      <3>3. PICK m : m = (c.lo + c.hi) \div 2
        OBVIOUS
      <3>4. m \in U <=> marginalYield(curve, m) > lambda
        BY <3>1, <3>2, <3>3
      <3>5. f[k] = IF marginalYield(curve, m) > lambda
                   THEN [c EXCEPT !.lo = m] ELSE [c EXCEPT !.hi = m]
        BY <1>2, <2>1, <3>2, <3>3 DEF YieldCuts
      <3> HIDE DEF U
      <3>6. QED  BY <3>2, <3>3, <3>4, <3>5 DEF Halved
    <2>2. f = [k \in 0..n |-> f[k]] /\ f[0] = [lo |-> 0, hi |-> cap]
      BY <1>2, <1>3 DEF YieldCuts
    <2> HIDE DEF U
    <2>3. QED  BY <2>1, <2>2 DEF Cuts
  <1>5. f[n].lo \in 0..cap
    <2> HIDE DEF U, n
    <2>1. n \in Nat /\ n \in 0..n
      BY <1>3 DEF n
    <2>2. QED  BY <1>4, <2>1, CutsWithin
  <1>6. \/ solveMarginalEquals(curve, lambda, cap) = 0
        \/ solveMarginalEquals(curve, lambda, cap) = cap
        \/ solveMarginalEquals(curve, lambda, cap) = f[n].lo
    BY <1>1 DEF solveMarginalEquals, Bisect, YieldCuts
  <1>7. QED  BY <1>5, <1>6

-----------------------------------------------------------------------------
(* Water-filling, repair, pruning. *)

\* The water line plays no part: every leg is within its cap.
LEMMA WaterWithin ==
  ASSUME NEW n \in Nat, NEW curves, DOMAIN curves = 1..n, NEW caps \in [1..n -> Nat],
         NEW budget, NEW above
  PROVE  /\ waterFill(curves, caps, budget, above) \in [1..n -> Nat]
         /\ \A i \in 1..n : waterFill(curves, caps, budget, above)[i] <= caps[i]
  <1>1. PICK r : r = waterFill(curves, caps, budget, above)
    OBVIOUS
  <1>2. PICK line : line = waterLine(curves, caps, budget)
    OBVIOUS
  <1>3. r = caps \/ r = allocAt(curves, caps, line.lo) \/ r = allocAt(curves, caps, line.hi)
    BY <1>1, <1>2 DEF waterFill, atLine
  <1>4. ASSUME NEW l
        PROVE  LET at == allocAt(curves, caps, l)
               IN  at \in [1..n -> Nat] /\ \A i \in 1..n : at[i] <= caps[i]
    <2>1. PICK at : at = allocAt(curves, caps, l)
      OBVIOUS
    <2>2. ASSUME NEW i \in 1..n
          PROVE  at[i] \in 0..caps[i] /\ caps[i] \in Nat
      <3>1. caps[i] \in Nat /\ at[i] = solveMarginalEquals(curves[i], l, caps[i])
        BY <2>1 DEF allocAt
      <3>2. QED  BY <3>1, SolvedWithinCap
    <2>3. at = [i \in 1..n |-> at[i]]
      BY <2>1 DEF allocAt
    <2>4. \A i \in 1..n : at[i] \in Nat /\ at[i] <= caps[i]
      BY <2>2
    <2>5. QED  BY <2>1, <2>3, <2>4
  <1>5. QED  BY <1>1, <1>3, <1>4

\* A cap is an amount, or there is none.
IsCap(x) == x \in Nat \cup {Uncapped}

\* What fits into a pool is within every limit there is.
LEMMA CapForWithin ==
  ASSUME NEW curve, IsCap(curve.depositCap), NEW cap, IsCap(cap), NEW budget \in Nat
  PROVE  /\ capFor(curve, budget, cap) \in Nat
         /\ capFor(curve, budget, cap) <= budget
         /\ cap # Uncapped => capFor(curve, budget, cap) <= cap
         /\ curve.depositCap # Uncapped => capFor(curve, budget, cap) <= curve.depositCap
  <1>1. PICK limits : limits = {cap, curve.depositCap} \ {Uncapped}
    OBVIOUS
  <1>2. PICK S : S = {budget} \cup limits
    OBVIOUS
  <1>3. S \in SUBSET Nat /\ S \in SUBSET Int /\ S # {} /\ budget \in S
    BY <1>1, <1>2 DEF IsCap
  <1>4. IsFiniteSet(S)
    <2>1. S \in SUBSET {budget, cap, curve.depositCap}
      BY <1>1, <1>2
    <2>2. IsFiniteSet({budget} \cup {cap} \cup {curve.depositCap})
      BY FS_Singleton, FS_Union
    <2>3. {budget} \cup {cap} \cup {curve.depositCap} = {budget, cap, curve.depositCap}
      OBVIOUS
    <2>4. QED  BY <2>1, <2>2, <2>3, FS_Subset
  <1>5. PICK m : m = Min(S)
    OBVIOUS
  <1>6. m \in Nat /\ \A y \in S : m <= y
    BY <1>3, <1>4, <1>5, MinIsLeast
  <1>7. Max({0, m}) = m
    <2>1. IsFiniteSet({0} \cup {m}) /\ {0} \cup {m} = {0, m}
      BY FS_Singleton, FS_Union
    <2>2. {0, m} \in SUBSET Int /\ {0, m} # {}
      BY <1>6
    <2>3. Max({0, m}) \in {0, m} /\ \A y \in {0, m} : Max({0, m}) >= y
      BY <2>1, <2>2, MaxIsGreatest
    <2>4. QED  BY <1>6, <2>3
  <1>8. capFor(curve, budget, cap) = m
    BY <1>1, <1>2, <1>5, <1>7 DEF capFor
  <1>9. \A y \in {cap, curve.depositCap} : y # Uncapped => y \in S
    BY <1>1, <1>2
  <1>10. QED  BY <1>3, <1>6, <1>8, <1>9

\* So is what waterFill fills in.
LEMMA FilledWithin ==
  ASSUME NEW n \in Nat, NEW curves, DOMAIN curves = 1..n, \A i \in 1..n : IsCap(curves[i].depositCap),
         NEW cap, IsCap(cap), NEW budget \in Nat, NEW above
  PROVE  LET x == Filled(curves, budget, cap, above)
         IN  /\ x \in [1..n -> Nat]
             /\ \A i \in 1..n :
                   /\ cap # Uncapped => x[i] <= cap
                   /\ curves[i].depositCap # Uncapped => x[i] <= curves[i].depositCap
  <1>1. PICK caps : caps = [i \in 1..n |-> capFor(curves[i], budget, cap)]
    OBVIOUS
  <1>2. ASSUME NEW i \in 1..n
        PROVE  /\ caps[i] \in Nat
               /\ cap # Uncapped => caps[i] <= cap
               /\ curves[i].depositCap # Uncapped => caps[i] <= curves[i].depositCap
    <2>1. caps[i] = capFor(curves[i], budget, cap)
      BY <1>1
    <2>2. PICK curve : curve = curves[i]
      OBVIOUS
    <2>3. IsCap(curve.depositCap) /\ caps[i] = capFor(curve, budget, cap)
      BY <2>1, <2>2
    <2>4. /\ capFor(curve, budget, cap) \in Nat
          /\ cap # Uncapped => capFor(curve, budget, cap) <= cap
          /\ curve.depositCap # Uncapped => capFor(curve, budget, cap) <= curve.depositCap
      BY <2>3, CapForWithin, Zenon
    <2>5. QED  BY <2>2, <2>3, <2>4
  <1>3. caps \in [1..n -> Nat]
    BY <1>1, <1>2
  <1>4. PICK x : x = waterFill(curves, caps, budget, above)
    OBVIOUS
  <1>5. x \in [1..n -> Nat] /\ \A i \in 1..n : x[i] <= caps[i]
    BY <1>3, <1>4, WaterWithin
  <1>6. Filled(curves, budget, cap, above) = x
    BY <1>1, <1>4 DEF Filled
  <1>7. ASSUME NEW i \in 1..n
        PROVE  /\ cap # Uncapped => x[i] <= cap
               /\ curves[i].depositCap # Uncapped => x[i] <= curves[i].depositCap
    <2>1. x[i] \in Nat /\ caps[i] \in Nat /\ x[i] <= caps[i]
      BY <1>2, <1>5
    <2>2. cap # Uncapped => cap \in Nat
      BY DEF IsCap
    <2>3. curves[i].depositCap # Uncapped => curves[i].depositCap \in Nat
      BY DEF IsCap
    <2>4. QED  BY <1>2, <2>1, <2>2, <2>3
  <1>8. QED  BY <1>5, <1>6, <1>7

\* The larger of 0 and a number.
LEMMA ZeroOrMore ==
  ASSUME NEW v \in Int
  PROVE  Max({0, v}) = IF v > 0 THEN v ELSE 0
  <1>1. PICK S : S = {0, v}
    OBVIOUS
  <1>2. IsFiniteSet(S) /\ S \in SUBSET Int /\ S # {}
    <2>1. IsFiniteSet({0} \cup {v}) /\ {0} \cup {v} = S
      BY <1>1, FS_Singleton, FS_Union
    <2>2. QED  BY <1>1, <2>1
  <1>3. Max(S) \in S /\ \A y \in S : Max(S) >= y
    BY <1>2, MaxIsGreatest
  <1>4. PICK m : m = Max(S)
    OBVIOUS
  <1>5. m \in {0, v} /\ m >= 0 /\ m >= v
    BY <1>1, <1>3, <1>4
  <1>6. QED  BY <1>1, <1>4, <1>5

\* A function on 1..n is a sequence of length n.
LEMMA LenOf ==
  ASSUME NEW X, NEW n \in Nat, NEW x \in [1..n -> X]
  PROVE  x \in Seq(X) /\ Len(x) = n
  BY SeqDef

\* r gives a leg of x one unit a candidate more at most, and an empty leg none.
NearBy(r, x, n) ==
    /\ r \in [1..n -> Nat]
    /\ \A i \in 1..n : r[i] <= x[i] + n /\ (r[i] > 0 => x[i] > 0)

\* The repair does no more.
LEMMA RepairedWithin ==
  ASSUME NEW n \in Nat, NEW x \in [1..n -> Nat], NEW budget \in Int
  PROVE  NearBy(Repaired(x, budget), x, n)
  <1>1. PICK missing : missing = budget - SumFunction(x)
    OBVIOUS
  <1>2. missing \in Int
    <2>1. IsFiniteSet(1..n) /\ DOMAIN x = 1..n /\ \A i \in 1..n : x[i] \in Int
      BY FS_Interval
    <2>2. SumFunctionOnSet(x, 1..n) \in Int
      BY <2>1, SumInt
    <2>3. SumFunction(x) \in Int
      BY <2>1, <2>2 DEF SumFunction
    <2>4. QED  BY <1>1, <2>3
  <1>3. PICK l : l = largestIndex(x)
    OBVIOUS
  <1>4. Len(x) = n
    BY LenOf
  <1>5. PICK r : r = Repaired(x, budget)
    OBVIOUS
  <1>6. /\ missing < 0 => r = [x EXCEPT ![l] = Max({0, x[l] + missing})]
        /\ missing > 0 /\ missing <= n /\ x[l] > 0 => r = [x EXCEPT ![l] = x[l] + missing]
        /\ ~(missing < 0) /\ ~(missing > 0 /\ missing <= n /\ x[l] > 0) => r = x
    BY <1>1, <1>2, <1>3, <1>4, <1>5 DEF Repaired
  <1>7. CASE missing < 0
    <2>1. PICK v : v = Max({0, x[l] + missing})
      OBVIOUS
    <2>2. r = [x EXCEPT ![l] = v]
      BY <1>6, <1>7, <2>1
    <2>3. l \in 1..n => v \in Nat /\ v <= x[l]
      <3>1. SUFFICES ASSUME l \in 1..n
                     PROVE  v \in Nat /\ v <= x[l]
        OBVIOUS
      <3>2. PICK w : w = x[l] + missing
        OBVIOUS
      <3>3. x[l] \in Nat /\ w \in Int /\ w < x[l]
        BY <1>2, <1>7, <3>1, <3>2
      <3>4. v = IF w > 0 THEN w ELSE 0
        BY <2>1, <3>2, <3>3, ZeroOrMore
      <3>5. QED  BY <3>3, <3>4
    <2>4. r = [i \in 1..n |-> IF i = l THEN v ELSE x[i]]
      BY <2>2
    <2>5. QED  BY <1>5, <2>3, <2>4 DEF NearBy
  <1>8. CASE missing > 0 /\ missing <= n /\ x[l] > 0
    <2>1. PICK v : v = x[l] + missing
      OBVIOUS
    <2>2. r = [x EXCEPT ![l] = v]
      BY <1>6, <1>8, <2>1
    <2>3. r = [i \in 1..n |-> IF i = l THEN v ELSE x[i]]
      BY <2>2
    <2>4. l \in 1..n => v \in Nat /\ v <= x[l] + n /\ x[l] > 0
      BY <1>2, <1>8, <2>1
    <2>5. QED  BY <1>5, <2>3, <2>4 DEF NearBy
  <1>9. CASE ~(missing < 0) /\ ~(missing > 0 /\ missing <= n /\ x[l] > 0)
    <2>1. r = x
      BY <1>6, <1>9
    <2>2. QED  BY <1>5, <2>1 DEF NearBy
  <1>10. QED  BY <1>7, <1>8, <1>9

\* No two curves, or legs, are of one protocol.
Distinct(curves) ==
    \A i, j \in DOMAIN curves : i # j => curves[i].protocol # curves[j].protocol

\* No leg is left to prune: none is funded below m, or one is funded at most.
NoneToPrune(x, m) ==
    \/ {i \in DOMAIN x : 0 < x[i] /\ x[i] < m} = {}
    \/ Cardinality({i \in DOMAIN x : x[i] > 0}) <= 1

\* Pruning takes one curve out, or none.
LEMMA PrunedKeeps ==
  ASSUME NEW X, NEW cs \in Seq(X), Distinct(cs), NEW x \in [1..Len(cs) -> Nat], NEW m
  PROVE  LET kept == Pruned(cs, x, m)
         IN  /\ kept \in Seq(X) /\ Len(kept) <= Len(cs) /\ Distinct(kept)
             /\ Len(kept) < Len(cs) \/ (kept = cs /\ NoneToPrune(x, m))
  <1>1. PICK n \in Nat : n = Len(cs) /\ DOMAIN cs = 1..n
    OBVIOUS
  <1>2. PICK small : small = {i \in DOMAIN x : 0 < x[i] /\ x[i] < m}
    OBVIOUS
  <1>3. PICK l : l = CHOOSE i \in small : \A j \in small :
                        x[i] < x[j] \/ (x[i] = x[j] /\ i <= j)
    OBVIOUS
  <1>4. \/ Pruned(cs, x, m) = cs /\ NoneToPrune(x, m)
        \/ small # {} /\ Pruned(cs, x, m) = RemoveAt(cs, l)
    BY <1>2, <1>3 DEF Pruned, NoneToPrune
  <1>5. ASSUME small # {}
        PROVE  l \in 1..n
    <2>1. small \in SUBSET (1..n) /\ \A i \in small : x[i] \in Nat /\ i \in Nat
      BY <1>1, <1>2
    <2>2. IsFiniteSet(small)
      <3>1. IsFiniteSet(1..n)
        BY FS_Interval
      <3>2. QED  BY <2>1, <3>1, FS_Subset
    <2>3. PICK R : R = {p \in small \X small : x[p[1]] < x[p[2]] \/ (x[p[1]] = x[p[2]] /\ p[1] < p[2])}
      OBVIOUS
    <2>4. \A i, j \in small : <<i, j>> \in R <=> x[i] < x[j] \/ (x[i] = x[j] /\ i < j)
      BY <2>3
    <2>5. InOrder(small, R)
      BY <2>1, <2>4 DEF InOrder
    <2>6. PICK i \in small : \A j \in small : j = i \/ <<i, j>> \in R
      BY <1>5, <2>2, <2>5, LeastExists
    <2>7. ASSUME NEW j \in small
          PROVE  x[i] < x[j] \/ (x[i] = x[j] /\ i <= j)
      <3>1. j = i \/ x[i] < x[j] \/ (x[i] = x[j] /\ i < j)
        BY <2>4, <2>6, Zenon
      <3>2. QED  BY <2>1, <3>1
    <2>8. l \in small
      BY <1>3, <2>7
    <2>9. QED  BY <2>1, <2>8
  <1>6. CASE small # {}
    <2>1. l \in 1..n
      BY <1>5, <1>6
    <2>2. PICK a : a = SubSeq(cs, 1, l - 1)
      OBVIOUS
    <2>3. PICK b : b = SubSeq(cs, l + 1, n)
      OBVIOUS
    <2>4. PICK kept : kept = a \o b
      OBVIOUS
    <2>5. a \in Seq(X) /\ Len(a) = l - 1 /\ \A i \in 1..(l - 1) : a[i] = cs[i]
      BY <1>1, <2>1, <2>2
    <2>6. b \in Seq(X) /\ Len(b) = n - l /\ \A i \in 1..(n - l) : b[i] = cs[i + l]
      BY <1>1, <2>1, <2>3
    <2>7. /\ kept \in Seq(X) /\ Len(kept) = n - 1 /\ DOMAIN kept = 1..(n - 1)
          /\ \A i \in 1..(n - 1) : kept[i] = IF i < l THEN cs[i] ELSE cs[i + 1]
      <3>1. Len(a) + Len(b) = n - 1
        BY <2>1, <2>5, <2>6
      <3>2. /\ kept \in Seq(X) /\ Len(kept) = Len(a) + Len(b)
            /\ \A i \in 1..(Len(a) + Len(b)) :
                  kept[i] = IF i <= Len(a) THEN a[i] ELSE b[i - Len(a)]
        BY <2>4, <2>5, <2>6, ConcatProperties
      <3>3. ASSUME NEW i \in 1..(n - 1)
            PROVE  kept[i] = IF i < l THEN cs[i] ELSE cs[i + 1]
        <4>1. CASE i < l
          <5>1. i <= Len(a) /\ i \in 1..(l - 1)
            BY <2>1, <2>5, <4>1
          <5>2. QED  BY <2>5, <3>1, <3>2, <4>1, <5>1
        <4>2. CASE ~(i < l)
          <5>1. PICK k : k = i - Len(a)
            OBVIOUS
          <5>2. ~(i <= Len(a)) /\ k \in 1..(n - l) /\ k + l = i + 1
            BY <1>1, <2>1, <2>5, <4>2, <5>1
          <5>3. kept[i] = b[k]
            BY <3>1, <3>2, <5>1, <5>2
          <5>4. QED  BY <2>6, <4>2, <5>2, <5>3
        <4>3. QED  BY <4>1, <4>2
      <3>4. DOMAIN kept = 1..(n - 1)
        BY <3>1, <3>2
      <3>5. QED  BY <3>1, <3>2, <3>3, <3>4
    <2>8. Distinct(kept)
      <3>1. ASSUME NEW i \in 1..(n - 1)
            PROVE  \E k \in 1..n : kept[i] = cs[k] /\ k = IF i < l THEN i ELSE i + 1
        BY <1>1, <2>1, <2>7
      <3>2. SUFFICES ASSUME NEW i \in 1..(n - 1), NEW j \in 1..(n - 1), i # j
                     PROVE  kept[i].protocol # kept[j].protocol
        BY <2>7 DEF Distinct
      <3>3. PICK k \in 1..n : kept[i] = cs[k] /\ k = IF i < l THEN i ELSE i + 1
        BY <3>1
      <3>4. PICK h \in 1..n : kept[j] = cs[h] /\ h = IF j < l THEN j ELSE j + 1
        BY <3>1
      <3>5. k # h
        BY <2>1, <3>2, <3>3, <3>4
      <3>6. QED  BY <1>1, <3>3, <3>4, <3>5 DEF Distinct
    <2>9. RemoveAt(cs, l) = kept
      BY <1>1, <2>2, <2>3, <2>4 DEF RemoveAt
    <2>10. QED  BY <1>1, <1>4, <2>7, <2>8, <2>9
  <1>7. QED  BY <1>4, <1>6

\* f tells the candidates after each round of solveAllocation.
Rounds(f, n, curves, budget, cap, least, above) ==
    f = [k \in 0..n |->
           IF k = 0 \/ least <= 0 THEN curves
           ELSE Pruned(f[k - 1], Filled(f[k - 1], budget, cap, above), least)]

\* The recursion of solveAllocation is well defined.
LEMMA RoundsExist ==
  ASSUME NEW n \in Nat, NEW curves, NEW budget, NEW cap, NEW least, NEW above
  PROVE  \E f : Rounds(f, n, curves, budget, cap, least, above)
  <1> DEFINE Next(cs) == Pruned(cs, Filled(cs, budget, cap, above), least)
             P == {k \in Nat : \E f : Rounds(f, k, curves, budget, cap, least, above)}
  <1>1. 0 \in P
    <2>1. Rounds([k \in 0..0 |-> curves], 0, curves, budget, cap, least, above)
      BY DEF Rounds
    <2>2. QED  BY <2>1
  <1>2. ASSUME NEW k \in 0..(n - 1), k \in P
        PROVE  k + 1 \in P
    <2>1. PICK f : Rounds(f, k, curves, budget, cap, least, above)
      BY <1>2
    <2>2. ASSUME NEW j \in 0..k
          PROVE  f[j] = IF j = 0 \/ least <= 0 THEN curves ELSE Next(f[j - 1])
      BY <2>1 DEF Rounds
    <2> HIDE DEF Next
    <2> DEFINE g == [j \in 0..(k + 1) |->
                       IF j = k + 1 THEN IF least <= 0 THEN curves ELSE Next(f[k]) ELSE f[j]]
    <2>3. ASSUME NEW j \in 0..(k + 1)
          PROVE  g[j] = IF j = 0 \/ least <= 0 THEN curves ELSE Next(g[j - 1])
      <3>1. CASE j = k + 1
        <4>1. g[k] = f[k] /\ j - 1 = k /\ j # 0
          BY <3>1
        <4>2. QED  BY <3>1, <4>1
      <3>2. CASE j # k + 1
        <4>1. j \in 0..k /\ g[j] = f[j]
          BY <3>2
        <4>2. f[j] = IF j = 0 \/ least <= 0 THEN curves ELSE Next(f[j - 1])
          BY <2>2, <4>1
        <4>3. j # 0 => g[j - 1] = f[j - 1]
          BY <4>1
        <4>4. QED  BY <4>1, <4>2, <4>3
      <3>3. QED  BY <3>1, <3>2
    <2>4. g = [j \in 0..(k + 1) |-> g[j]]
      OBVIOUS
    <2>5. Rounds(g, k + 1, curves, budget, cap, least, above)
      <3> HIDE DEF g
      <3>1. g = [j \in 0..(k + 1) |-> IF j = 0 \/ least <= 0 THEN curves ELSE Next(g[j - 1])]
        BY <2>3, <2>4
      <3>2. QED  BY <3>1 DEF Rounds, Next
    <2>6. QED  BY <2>5
  <1>3. n \in P
    <2> HIDE DEF P
    <2>1. 0..n \subseteq P
      BY <1>1, <1>2, UpTo
    <2>2. QED  BY <2>1
  <1>4. QED  BY <1>3

\* Curves whose caps are caps.
Capped(X) == \A curve \in X : IsCap(curve.depositCap)

\* Amounts for some curves, each within its caps.
Fits(x, cs, cap) ==
    /\ x \in [1..Len(cs) -> Nat]
    /\ \A i \in 1..Len(cs) : /\ cap # Uncapped => x[i] <= cap
                             /\ cs[i].depositCap # Uncapped => x[i] <= cs[i].depositCap

\* waterFill gives such amounts.
LEMMA FilledAll ==
  ASSUME NEW X, Capped(X), NEW cs \in Seq(X), NEW cap, IsCap(cap), NEW budget \in Nat, NEW above
  PROVE  Fits(Filled(cs, budget, cap, above), cs, cap)
  <1>1. PICK n \in Nat : n = Len(cs) /\ DOMAIN cs = 1..n
    OBVIOUS
  <1>2. \A i \in 1..n : IsCap(cs[i].depositCap)
    BY <1>1 DEF Capped
  <1>3. QED  BY <1>1, <1>2, FilledWithin DEF Fits

\* Whatever the rounds leave are curves of the beginning, one of a protocol, and
\* with them nothing is left to prune: each round before has dropped a curve.
LEMMA RoundsKeep ==
  ASSUME NEW X, Capped(X), NEW curves \in Seq(X), Distinct(curves), NEW cap, IsCap(cap),
         NEW budget \in Nat, NEW least, NEW above, NEW n \in Nat,
         NEW f, Rounds(f, n, curves, budget, cap, least, above)
  PROVE  /\ f[n] \in Seq(X) /\ Len(f[n]) <= Len(curves) /\ Distinct(f[n])
         /\ \/ Len(f[n]) + n <= Len(curves)
            \/ least <= 0 \/ NoneToPrune(Filled(f[n], budget, cap, above), least)
  <1> DEFINE Settled(cs) == least <= 0 \/ NoneToPrune(Filled(cs, budget, cap, above), least)
             Kept(cs) == cs \in Seq(X) /\ Len(cs) <= Len(curves) /\ Distinct(cs)
             Good(cs, k) == Kept(cs) /\ (Len(cs) + k <= Len(curves) \/ Settled(cs))
             P == {k \in Nat : Good(f[k], k)}
  <1>1. 0 \in P
    <2>1. f[0] = curves
      BY DEF Rounds
    <2>2. QED  BY <2>1
  <1>2. ASSUME NEW k \in 0..(n - 1), k \in P
        PROVE  k + 1 \in P
    <2>1. PICK cs : cs = f[k]
      OBVIOUS
    <2>2. PICK x : x = Filled(cs, budget, cap, above)
      OBVIOUS
    <2>3. Kept(cs) /\ x \in [1..Len(cs) -> Nat]
      BY <1>2, <2>1, <2>2, FilledAll DEF Fits
    <2>4. Len(cs) + k <= Len(curves) \/ Settled(cs)
      BY <1>2, <2>1
    <2>5. \/ least <= 0 /\ f[k + 1] = curves
          \/ f[k + 1] = Pruned(cs, x, least)
      <3>1. k + 1 \in 0..n /\ (k + 1) - 1 = k /\ k + 1 # 0
        OBVIOUS
      <3>2. QED  BY <2>1, <2>2, <3>1 DEF Rounds
    <2>6. CASE least <= 0 /\ f[k + 1] = curves
      <3>1. Kept(curves) /\ Settled(curves)
        BY <2>6
      <3> HIDE DEF Kept, Settled
      <3>2. Good(f[k + 1], k + 1)
        BY <2>6, <3>1
      <3> HIDE DEF Good
      <3>3. QED  BY <3>2
    <2>7. CASE f[k + 1] = Pruned(cs, x, least)
      <3>1. PICK kept : kept = Pruned(cs, x, least)
        OBVIOUS
      <3>2. /\ kept \in Seq(X) /\ Len(kept) <= Len(cs) /\ Distinct(kept)
            /\ Len(kept) < Len(cs) \/ (kept = cs /\ NoneToPrune(x, least))
        BY <2>3, <3>1, PrunedKeeps
      <3>3. Len(kept) \in Nat /\ Len(cs) \in Nat /\ Len(curves) \in Nat
        BY <2>3, <3>2
      <3>4. Kept(kept)
        BY <2>3, <3>2, <3>3
      <3>5. Len(kept) + (k + 1) <= Len(curves) \/ Settled(kept)
        <4>1. CASE kept = cs /\ NoneToPrune(x, least)
          BY <2>2, <4>1
        <4>2. CASE Len(kept) < Len(cs) /\ Len(cs) + k <= Len(curves)
          BY <3>3, <4>2
        <4>3. CASE Len(kept) < Len(cs) /\ Settled(cs)
          <5>1. CASE least <= 0
            BY <5>1
          <5>2. CASE NoneToPrune(x, least)
            <6>1. kept = cs
              BY <3>1, <5>2 DEF Pruned, NoneToPrune
            <6>2. QED  BY <3>3, <4>3, <6>1
          <5>3. QED  BY <2>2, <4>3, <5>1, <5>2
        <4>4. QED  BY <2>4, <3>2, <4>1, <4>2, <4>3
      <3> HIDE DEF Kept, Settled
      <3>6. Good(f[k + 1], k + 1)
        BY <2>7, <3>1, <3>4, <3>5
      <3> HIDE DEF Good
      <3>7. QED  BY <3>6
    <2>8. QED  BY <2>5, <2>6, <2>7
  <1>3. 0..n \subseteq P
    <2> HIDE DEF P
    <2>1. QED  BY <1>1, <1>2, UpTo
  <1>4. Good(f[n], n)
    <2> HIDE DEF Good
    <2>1. QED  BY <1>3
  <1>5. QED  BY <1>4

\* One leg of each candidate that r funds, and no other, in the order o.
LegsOf(legs, left, r, n, m, o) ==
    /\ m \in Nat /\ o \in [1..m -> 1..n]
    /\ legs = [k \in 1..m |-> [protocol |-> left[o[k]].protocol, amount |-> r[o[k]]]]
    /\ \A k \in 1..m : r[o[k]] > 0
    /\ \A i, j \in 1..m : i # j => o[i] # o[j]
    /\ \A i \in 1..n : r[i] > 0 => \E k \in 1..m : o[k] = i

\* finalize makes these legs.
LEMMA FundedLegs ==
  ASSUME NEW n \in Nat, NEW left, NEW x, NEW budget, NEW r \in [1..n -> Nat], r = Repaired(x, budget)
  PROVE  \E m, o : LegsOf(finalize(left, x, budget), left, r, n, m, o)
  <1>1. PICK funded : funded = {i \in DOMAIN r : r[i] > 0}
    OBVIOUS
  <1>2. PICK R : R = {p \in funded \X funded :
                        r[p[1]] > r[p[2]] \/ (r[p[1]] = r[p[2]] /\ p[1] < p[2])}
    OBVIOUS
  <1>3. funded \in SUBSET (1..n) /\ \A i \in funded : r[i] \in Nat /\ i \in Nat
    BY <1>1
  <1>4. IsFiniteSet(funded)
    <2>1. IsFiniteSet(1..n)
      BY FS_Interval
    <2>2. QED  BY <1>3, <2>1, FS_Subset
  <1>5. InOrder(funded, R)
    <2>1. \A i, j \in funded : <<i, j>> \in R <=> r[i] > r[j] \/ (r[i] = r[j] /\ i < j)
      BY <1>2
    <2>2. QED  BY <1>3, <2>1 DEF InOrder
  <1>6. PICK o : o = SortedBy(funded, R)
    OBVIOUS
  <1>7. PICK m \in Nat : m = Cardinality(funded)
    BY <1>4, FS_CardinalityType
  <1>8. o \in [1..m -> funded] /\ \A i, j \in 1..m : i < j => <<o[i], o[j]>> \in R
    BY <1>4, <1>5, <1>6, <1>7, Sorting
  <1>9. \A i, j \in 1..m : i # j => o[i] # o[j]
    BY <1>5, <1>8, SortedOnce
  <1>10. \A i \in funded : \E k \in 1..m : o[k] = i
    BY <1>4, <1>7, <1>8, <1>9, SortedAll
  <1>11. finalize(left, x, budget)
           = [k \in 1..m |-> [protocol |-> left[o[k]].protocol, amount |-> r[o[k]]]]
    <2>1. DOMAIN o = 1..m
      BY <1>8
    <2>2. o = largestFirst(r)
      BY <1>1, <1>2, <1>6 DEF largestFirst
    <2>3. QED  BY <1>1, <2>1, <2>2 DEF finalize
  <1>12. o \in [1..m -> 1..n] /\ \A k \in 1..m : r[o[k]] > 0
    BY <1>1, <1>3, <1>8
  <1>13. \A i \in 1..n : r[i] > 0 => \E k \in 1..m : o[k] = i
    BY <1>1, <1>10
  <1>14. LegsOf(finalize(left, x, budget), left, r, n, m, o)
    BY <1>9, <1>11, <1>12, <1>13 DEF LegsOf
  <1>15. QED  BY <1>14

\* The legs of one split of curves: each of a protocol of its own that has a
\* curve, none empty, none beyond the cap of its curve but for rounding.
Split(legs, curves) ==
    \E m \in Nat :
       /\ DOMAIN legs = 1..m
       /\ \A k \in 1..m :
             /\ legs[k].amount \in Nat \ {0}
             /\ \E i \in DOMAIN curves :
                   /\ legs[k].protocol = curves[i].protocol
                   /\ curves[i].depositCap # Uncapped =>
                         legs[k].amount <= curves[i].depositCap + Len(curves)
       /\ Distinct(legs)

\* What finalize makes of the amounts that were filled in.
LEMMA FinalizedLegs ==
  ASSUME NEW X, Capped(X), NEW left \in Seq(X), Distinct(left), NEW cap, IsCap(cap),
         NEW budget \in Nat, NEW above
  PROVE  LET legs == finalize(left, Filled(left, budget, cap, above), budget)
         IN  Split(legs, left) /\ (legs # <<>> => cap # 0)
  <1>1. PICK n \in Nat : n = Len(left) /\ DOMAIN left = 1..n
    OBVIOUS
  <1>2. PICK x : x = Filled(left, budget, cap, above)
    OBVIOUS
  <1>3. /\ x \in [1..n -> Nat]
        /\ \A i \in 1..n :
              /\ cap # Uncapped => x[i] <= cap
              /\ left[i].depositCap # Uncapped => x[i] <= left[i].depositCap
    <2>1. Fits(x, left, cap)
      BY <1>2, FilledAll
    <2>2. QED  BY <1>1, <2>1 DEF Fits
  <1>4. PICK r : r = Repaired(x, budget)
    OBVIOUS
  <1>5. NearBy(r, x, n)
    BY <1>3, <1>4, RepairedWithin
  <1>6. PICK legs : legs = finalize(left, x, budget)
    OBVIOUS
  <1>7. PICK m, o : LegsOf(legs, left, r, n, m, o)
    BY <1>4, <1>5, <1>6, FundedLegs DEF NearBy
  <1>8. ASSUME NEW k \in 1..m
        PROVE  /\ legs[k].amount \in Nat \ {0} /\ cap # 0
               /\ \E i \in 1..n : /\ legs[k].protocol = left[i].protocol
                                  /\ left[i].depositCap # Uncapped =>
                                        legs[k].amount <= left[i].depositCap + n
    <2>1. PICK i \in 1..n : i = o[k]
      BY <1>7 DEF LegsOf
    <2>2. legs[k] = [protocol |-> left[i].protocol, amount |-> r[i]] /\ r[i] > 0
      BY <1>7, <2>1 DEF LegsOf
    <2>3. r[i] \in Nat /\ x[i] \in Nat /\ r[i] <= x[i] + n /\ x[i] > 0
      BY <1>3, <1>5, <2>2 DEF NearBy
    <2>4. cap # 0
      <3>1. SUFFICES ASSUME cap = 0
                     PROVE  FALSE
        OBVIOUS
      <3>2. cap # Uncapped
        BY <3>1, CurveAssumption
      <3>3. QED  BY <1>3, <2>3, <3>1, <3>2
    <2>5. left[i].depositCap # Uncapped => r[i] <= left[i].depositCap + n
      <3>1. IsCap(left[i].depositCap)
        BY <1>1 DEF Capped
      <3>2. QED  BY <1>3, <2>3, <3>1 DEF IsCap
    <2>6. QED  BY <2>2, <2>3, <2>4, <2>5
  <1>9. DOMAIN legs = 1..m /\ m \in Nat
    BY <1>7 DEF LegsOf
  <1>10. Distinct(legs)
    <2>1. \A k \in 1..m : o[k] \in 1..n /\ legs[k].protocol = left[o[k]].protocol
      BY <1>7 DEF LegsOf
    <2>2. \A i, j \in 1..m : i # j => o[i] # o[j]
      BY <1>7 DEF LegsOf
    <2>3. QED  BY <1>1, <1>9, <2>1, <2>2 DEF Distinct
  <1>11. Split(legs, left)
    BY <1>1, <1>8, <1>9, <1>10 DEF Split
  <1>12. legs # <<>> => cap # 0
    <2>1. SUFFICES ASSUME cap = 0
                   PROVE  legs = <<>>
      OBVIOUS
    <2>2. m = 0
      <3>1. 1 \notin 1..m
        BY <1>8, <2>1
      <3>2. QED  BY <1>9, <3>1
    <2>3. QED  BY <1>7, <2>2 DEF LegsOf
  <1>13. QED  BY <1>2, <1>6, <1>11, <1>12

\* Curves that a split may start from: each of a protocol of its own.
Splittable(curves) ==
    /\ curves \in Seq({curves[i] : i \in DOMAIN curves}) /\ Distinct(curves)
    /\ \A i \in DOMAIN curves : IsCap(curves[i].depositCap)

\* Whatever the budget and the minimum, the legs of solveAllocation are a split of the
\* curves: one at most for each, none empty, none past its cap but for rounding.
THEOREM SolvedLegs ==
  ASSUME NEW curves, Splittable(curves), NEW cap, IsCap(cap), NEW budget \in Nat, NEW least, NEW above
  PROVE  LET legs == solveAllocation(curves, budget, cap, least, above)
         IN  Split(legs, curves) /\ (legs # <<>> => cap # 0)
  <1>1. PICK n \in Nat : n = Len(curves) /\ DOMAIN curves = 1..n
    BY DEF Splittable
  <1>2. PICK X : X = {curves[i] : i \in 1..n}
    OBVIOUS
  <1>3. Capped(X) /\ curves \in Seq(X) /\ Distinct(curves)
    BY <1>1, <1>2 DEF Capped, Splittable
  <1>4. PICK f : f = CHOOSE g : Rounds(g, n, curves, budget, cap, least, above)
    OBVIOUS
  <1>5. Rounds(f, n, curves, budget, cap, least, above)
    BY <1>4, RoundsExist
  <1>6. PICK left : left = f[n]
    OBVIOUS
  <1>7. left \in Seq(X) /\ Len(left) <= n /\ Distinct(left)
    BY <1>1, <1>3, <1>5, <1>6, RoundsKeep
  <1>8. PICK legs : legs = finalize(left, Filled(left, budget, cap, above), budget)
    OBVIOUS
  <1>9. \/ solveAllocation(curves, budget, cap, least, above) = <<>>
        \/ solveAllocation(curves, budget, cap, least, above) = legs
    BY <1>1, <1>4, <1>6, <1>8 DEF solveAllocation, Rounds
  <1>10. Split(<<>>, curves)
    <2>1. DOMAIN <<>> = 1..0
      OBVIOUS
    <2>2. QED  BY <2>1 DEF Split, Distinct
  <1>11. Split(legs, left) /\ (legs # <<>> => cap # 0)
    BY <1>3, <1>7, <1>8, FinalizedLegs
  <1>12. ASSUME NEW k \in DOMAIN legs, legs[k].amount \in Nat, NEW j \in DOMAIN left,
                left[j].depositCap # Uncapped => legs[k].amount <= left[j].depositCap + Len(left)
         PROVE  \E i \in 1..n : /\ left[j] = curves[i]
                                /\ curves[i].depositCap # Uncapped =>
                                      legs[k].amount <= curves[i].depositCap + n
    <2>1. left[j] \in X
      BY <1>7
    <2>2. PICK i \in 1..n : left[j] = curves[i]
      BY <1>2, <2>1
    <2>3. Len(left) \in Nat
      BY <1>7
    <2>4. IsCap(curves[i].depositCap)
      BY <1>1 DEF Splittable
    <2>5. QED  BY <1>7, <1>12, <2>2, <2>3, <2>4 DEF IsCap
  <1>13. Split(legs, curves)
    <2>1. PICK m \in Nat :
             /\ DOMAIN legs = 1..m
             /\ \A k \in 1..m :
                   /\ legs[k].amount \in Nat \ {0}
                   /\ \E j \in DOMAIN left :
                         /\ legs[k].protocol = left[j].protocol
                         /\ left[j].depositCap # Uncapped =>
                               legs[k].amount <= left[j].depositCap + Len(left)
             /\ Distinct(legs)
      BY <1>11 DEF Split
    <2>2. ASSUME NEW k \in 1..m
          PROVE  \E i \in DOMAIN curves :
                    /\ legs[k].protocol = curves[i].protocol
                    /\ curves[i].depositCap # Uncapped =>
                          legs[k].amount <= curves[i].depositCap + Len(curves)
      <3>1. legs[k].amount \in Nat /\ k \in DOMAIN legs
        BY <2>1
      <3>2. PICK j \in DOMAIN left :
               /\ legs[k].protocol = left[j].protocol
               /\ left[j].depositCap # Uncapped => legs[k].amount <= left[j].depositCap + Len(left)
        BY <2>1
      <3>3. PICK i \in 1..n : /\ left[j] = curves[i]
                              /\ curves[i].depositCap # Uncapped =>
                                    legs[k].amount <= curves[i].depositCap + n
        BY <1>12, <3>1, <3>2
      <3>4. QED  BY <1>1, <3>2, <3>3
    <2>3. QED  BY <2>1, <2>2 DEF Split
  <1>14. QED  BY <1>9, <1>10, <1>11, <1>13

-----------------------------------------------------------------------------
(* What a curve yields. *)

\* The smaller and the larger of two numbers are numbers, and so is what is clamped.
LEMMA ClampIsInt ==
  ASSUME NEW x \in Int, NEW low \in Int, NEW high \in Int
  PROVE  Clamp(x, low, high) \in Int
  <1>1. PICK m : m = Max({low, x})
    OBVIOUS
  <1>2. m \in {low, x}
    BY <1>1, MaxOfTwo
  <1>3. m \in Int
    BY <1>2
  <1>4. Min({high, m}) \in {high, m}
    BY <1>3, MinOfTwo
  <1>5. QED  BY <1>1, <1>3, <1>4 DEF Clamp

\* Control points: numbers at finitely many utilizations, one at least.
IsPoints(points) ==
    /\ IsFiniteSet(DOMAIN points) /\ DOMAIN points # {} /\ DOMAIN points \subseteq Int
    /\ \A u \in DOMAIN points : points[u] \in Int

\* Between them the rate is a number too.
LEMMA BorrowAprIsInt ==
  ASSUME NEW points, IsPoints(points), NEW util \in Int
  PROVE  borrowApr(points, util) \in Int
  <1>1. PICK below : below = {p \in DOMAIN points : p <= util}
    OBVIOUS
  <1>2. PICK above : above = {p \in DOMAIN points : p >= util}
    OBVIOUS
  <1>3. /\ below \in SUBSET Int /\ above \in SUBSET Int /\ below \cup above = DOMAIN points
        /\ \A u \in DOMAIN points : points[u] \in Int
        /\ DOMAIN points # {} /\ \A u \in below : u <= util /\ \A v \in above : v >= util
    BY <1>1, <1>2 DEF IsPoints
  <1>4. IsFiniteSet(below) /\ IsFiniteSet(above)
    BY <1>3, FS_Subset DEF IsPoints
  <1>5. PICK prev : prev = Max(below)
    OBVIOUS
  <1>6. PICK next : next = Min(above)
    OBVIOUS
  <1>7. below # {} => prev \in below
    BY <1>3, <1>4, <1>5, MaxIsGreatest
  <1>8. above # {} => next \in above
    BY <1>3, <1>4, <1>6, MinIsLeast
  <1>9. points # <<>>
    <2>1. DOMAIN <<>> = {}
      OBVIOUS
    <2>2. QED  BY <1>3, <2>1
  <1>10. borrowApr(points, util) =
           CASE points = <<>> -> 0
             [] points # <<>> /\ below = {} -> points[next]
             [] points # <<>> /\ above = {} -> points[prev]
             [] OTHER -> points[prev] + (IF prev = next THEN 0 ELSE
                            ((util - prev) * (points[next] - points[prev])) \div (next - prev))
    BY <1>1, <1>2, <1>5, <1>6 DEF borrowApr
  <1>11. CASE below = {}
    <2>1. above # {}
      BY <1>3, <1>11
    <2>2. points[next] \in Int
      BY <1>3, <1>8, <2>1
    <2>3. borrowApr(points, util) = points[next]
      BY <1>9, <1>10, <1>11, <2>1
    <2>4. QED  BY <2>2, <2>3
  <1>12. CASE above = {}
    <2>1. below # {}
      BY <1>3, <1>12
    <2>2. points[prev] \in Int
      BY <1>3, <1>7, <2>1
    <2>3. borrowApr(points, util) = points[prev]
      BY <1>9, <1>10, <1>12, <2>1
    <2>4. QED  BY <2>2, <2>3
  <1>13. CASE below # {} /\ above # {}
    <2>1. prev \in below /\ next \in above
      BY <1>7, <1>8, <1>13
    <2>2. prev \in Int /\ next \in Int /\ prev <= next
      BY <1>3, <2>1
    <2>3. points[prev] \in Int /\ points[next] \in Int
      BY <1>3, <2>1
    <2>4. borrowApr(points, util) =
            points[prev] + (IF prev = next THEN 0 ELSE
               ((util - prev) * (points[next] - points[prev])) \div (next - prev))
      BY <1>9, <1>10, <1>13
    <2>5. PICK up : up = (util - prev) * (points[next] - points[prev])
      OBVIOUS
    <2>6. up \in Int
      BY <2>2, <2>3, <2>5
    <2>7. prev # next => next - prev \in Nat \ {0}
      BY <2>2
    <2>8. prev # next => up \div (next - prev) \in Int
      <3>1. ASSUME NEW d \in Nat \ {0}
            PROVE  up \div d \in Int
        BY <2>6
      <3>2. QED  BY <2>7, <3>1
    <2>9. QED  BY <2>3, <2>4, <2>5, <2>8
  <1>14. QED  BY <1>11, <1>12, <1>13

\* The points that a client settles on are control points, whatever it could make
\* of the protocol's parameters.
LEMMA ValidPoints ==
  ASSUME NEW candidate, IsFiniteSet(DOMAIN candidate), DOMAIN candidate \subseteq Int,
         \A u \in DOMAIN candidate : candidate[u] \in Int, NEW util \in Int, NEW spot \in Int
  PROVE  IsPoints(validatedBorrowAprPoints(candidate, util, spot))
  <1>1. PICK points : points = validatedBorrowAprPoints(candidate, util, spot)
    OBVIOUS
  <1>2. PICK flat : flat = fallbackBorrowAprPoints(util, spot)
    OBVIOUS
  <1>3. points = flat \/ (Cardinality(DOMAIN candidate) >= 2 /\ points = candidate)
    BY <1>1, <1>2 DEF validatedBorrowAprPoints
  <1>4. CASE Cardinality(DOMAIN candidate) >= 2 /\ points = candidate
    <2>1. DOMAIN candidate # {}
      <3>1. SUFFICES ASSUME DOMAIN candidate = {}
                     PROVE  FALSE
        OBVIOUS
      <3>2. Cardinality(DOMAIN candidate) = 0
        BY <3>1, FS_EmptySet
      <3>3. QED  BY <1>4, <3>2
    <2>2. QED  BY <1>1, <1>4, <2>1 DEF IsPoints
  <1>5. CASE points = flat
    <2>1. UtilScale \in Nat \ {0}
      BY CurveAssumption
    <2>2. IsFiniteSet({0} \cup {UtilScale}) /\ {0} \cup {UtilScale} = {0, UtilScale}
      BY FS_Singleton, FS_Union
    <2>3. PICK scaled : scaled = spot * UtilScale
      OBVIOUS
    <2>4. scaled \in Int
      BY <2>1, <2>3
    <2>5. PICK most : most = Max({0, spot})
      OBVIOUS
    <2>6. most \in {0, spot}
      <3>1. ASSUME NEW z \in Int
            PROVE  Max({z, spot}) \in {z, spot}
        BY MaxOfTwo
      <3>2. QED  BY <2>5, <3>1
    <2>7. ASSUME NEW p \in {0, UtilScale}
          PROVE  flat[p] \in Int
      <3>1. flat[p] = CASE p = 0 -> 0
                        [] p # 0 /\ util <= 0 -> most
                        [] OTHER -> scaled \div util
        BY <1>2, <2>3, <2>5 DEF fallbackBorrowAprPoints
      <3>2. CASE p = 0
        BY <3>1, <3>2
      <3>3. CASE p # 0 /\ util <= 0
        BY <2>6, <3>1, <3>3
      <3>4. CASE p # 0 /\ ~(util <= 0)
        <4>1. util \in Nat \ {0}
          BY <3>4
        <4>2. flat[p] = scaled \div util
          BY <3>1, <3>4
        <4>3. QED  BY <2>4, <4>1, <4>2
      <3>5. QED  BY <3>2, <3>3, <3>4
    <2>8. DOMAIN flat = {0, UtilScale} /\ {0, UtilScale} \subseteq Int /\ {0, UtilScale} # {}
      BY <1>2, <2>1 DEF fallbackBorrowAprPoints
    <2>9. IsPoints(flat)
      BY <2>2, <2>7, <2>8 DEF IsPoints
    <2>10. QED  BY <1>1, <1>5, <2>9
  <1>6. QED  BY <1>3, <1>4, <1>5

\* A curve whose parts are numbers.
IsCurve(curve) ==
    /\ {curve.borrowed, curve.available} \subseteq Nat /\ IsPoints(curve.points)
    /\ {curve.reserveFactorPct, curve.rewardSupplyApr} \subseteq Int

\* What x more earns at the rate of then is a number.
LEMMA InterestIsInt ==
  ASSUME NEW curve, IsCurve(curve), NEW x \in Nat
  PROVE  Interest(curve, x) \in Int
  <1>1. /\ curve.borrowed \in Nat /\ curve.available \in Nat /\ IsPoints(curve.points)
        /\ curve.reserveFactorPct \in Int /\ curve.rewardSupplyApr \in Int
        /\ UtilScale \in Nat \ {0}
    BY CurveAssumption DEF IsCurve
  <1>2. PICK total : total = curve.borrowed + curve.available + x
    OBVIOUS
  <1>3. PICK util : util = utilizationAfterDeposit(curve, x)
    OBVIOUS
  <1>4. util \in Int
    <2>1. total \in Nat
      BY <1>1, <1>2
    <2>2. PICK part : part = (curve.borrowed * UtilScale) \div total
      OBVIOUS
    <2>3. total > 0 => part \in Int
      <3>1. PICK parts : parts = curve.borrowed * UtilScale
        OBVIOUS
      <3>2. parts \in Int
        BY <1>1, <3>1
      <3>3. ASSUME NEW d \in Nat \ {0}
            PROVE  parts \div d \in Int
        BY <3>2
      <3>4. QED  BY <2>1, <2>2, <3>1, <3>3
    <2>4. total > 0 => Clamp(part, 0, UtilScale) \in Int
      BY <1>1, <2>3, ClampIsInt
    <2>5. util = IF total <= 0 THEN 0 ELSE Clamp(part, 0, UtilScale)
      BY <1>2, <1>3, <2>2 DEF utilizationAfterDeposit
    <2>6. QED  BY <2>1, <2>4, <2>5
  <1>5. PICK rate : rate = borrowApr(curve.points, util)
    OBVIOUS
  <1>6. rate \in Int
    BY <1>1, <1>4, <1>5, BorrowAprIsInt
  <1>7. supplyApr(curve, util) \in Int
    <2>1. PICK gross : gross = (rate * util) \div UtilScale
      OBVIOUS
    <2>2. gross \in Int
      <3>1. PICK scaled : scaled = rate * util
        OBVIOUS
      <3>2. scaled \in Int
        BY <1>4, <1>6, <3>1
      <3>3. QED  BY <1>1, <2>1, <3>1, <3>2
    <2>3. PICK kept : kept = gross * (100 - curve.reserveFactorPct)
      OBVIOUS
    <2>4. kept \in Int
      BY <1>1, <2>2, <2>3
    <2>5. supplyApr(curve, util) = kept \div 100
      BY <1>5, <2>1, <2>3 DEF supplyApr
    <2>6. QED  BY <2>4, <2>5
  <1>8. netSupplyApr(curve, x) \in Int
    BY <1>1, <1>3, <1>7 DEF netSupplyApr
  <1>9. QED  BY <1>8 DEF Interest

\* So is the yield of the first unit.
LEMMA FirstYieldIsInt ==
  ASSUME NEW curve, IsCurve(curve)
  PROVE  marginalYield(curve, 0) \in Int
  <1>1. \A x \in Nat : Interest(curve, x) \in Int
    BY InterestIsInt
  <1>2. PICK lo : lo = Max({0, 0 - 1})
    OBVIOUS
  <1>3. lo = 0
    BY <1>2, ZeroOrMore
  <1>4. PICK gain : gain = Interest(curve, 0 + 1) - Interest(curve, lo)
    OBVIOUS
  <1>5. gain \in Int
    BY <1>1, <1>3, <1>4
  <1>6. marginalYield(curve, 0) = gain \div (0 + 1 - lo)
    BY <1>2, <1>4 DEF marginalYield
  <1>7. 0 + 1 - lo = 1
    BY <1>3
  <1>8. gain \div 1 \in Int
    BY <1>5
  <1>9. QED  BY <1>6, <1>7, <1>8

-----------------------------------------------------------------------------
(* The water line and the budget. *)

\* What waterLine bisects, with its test: the sums of the legs at each yield.
LineCuts(f, curves, caps, budget, high) ==
    f = [k \in 0..LAMBDA_ITERATIONS |->
           IF k = 0 THEN [lo |-> 0, hi |-> high]
           ELSE LET c == f[k - 1]
                    mid == (c.lo + c.hi) \div 2
                IN  IF SumFunction(allocAt(curves, caps, mid)) > budget
                    THEN [c EXCEPT !.lo = mid] ELSE [c EXCEPT !.hi = mid]]

\* The recursion is well defined.
LEMMA LineCutsExist ==
  ASSUME NEW curves, NEW caps, NEW budget, NEW high \in Nat
  PROVE  \E f : LineCuts(f, curves, caps, budget, high)
  <1> DEFINE n == LAMBDA_ITERATIONS
             U == {m \in Int : SumFunction(allocAt(curves, caps, m)) > budget}
  <1>1. n \in Nat
    BY AllocationAssumption
  <1>2. PICK f : Cuts(f, 0, high, n, U)
    <2> HIDE DEF U, n
    <2>1. QED  BY <1>1, CutsExist
  <1>3. ASSUME NEW k \in 0..n
        PROVE  (f[k].lo + f[k].hi) \div 2 \in Int
    <2> HIDE DEF U, n
    <2>1. QED  BY <1>1, <1>2, CutsWithin
  <1>4. ASSUME NEW k \in 0..n, k # 0
        PROVE  LET c == f[k - 1]
                   mid == (c.lo + c.hi) \div 2
               IN  Halved(c, U) = IF SumFunction(allocAt(curves, caps, mid)) > budget
                                  THEN [c EXCEPT !.lo = mid] ELSE [c EXCEPT !.hi = mid]
    <2>1. k - 1 \in 0..n
      BY <1>1, <1>4
    <2>2. PICK c : c = f[k - 1]
      OBVIOUS
    <2>3. PICK mid : mid = (c.lo + c.hi) \div 2
      OBVIOUS
    <2>4. mid \in Int
      BY <1>3, <2>1, <2>2, <2>3
    <2>5. mid \in U <=> SumFunction(allocAt(curves, caps, mid)) > budget
      BY <2>4
    <2> HIDE DEF U
    <2>6. QED  BY <2>2, <2>3, <2>5 DEF Halved
  <1>5. f = [k \in 0..n |->
           IF k = 0 THEN [lo |-> 0, hi |-> high]
           ELSE LET c == f[k - 1]
                    mid == (c.lo + c.hi) \div 2
                IN  IF SumFunction(allocAt(curves, caps, mid)) > budget
                    THEN [c EXCEPT !.lo = mid] ELSE [c EXCEPT !.hi = mid]]
    <2> HIDE DEF U, n
    <2>1. QED  BY <1>2, <1>4 DEF Cuts
  <1>6. QED  BY <1>5 DEF LineCuts

\* The upper end of the water line is the highest of the first yields, or a yield
\* at which the legs are within the budget.
LEMMA LineEnds ==
  ASSUME NEW curves, NEW caps, NEW budget, NEW high \in Nat,
         high = Max({0} \cup {marginalYield(curves[i], 0) : i \in DOMAIN curves})
  PROVE  LET hi == waterLine(curves, caps, budget).hi
         IN  hi = high \/ ~(SumFunction(allocAt(curves, caps, hi)) > budget)
  <1>1. PICK f : f = CHOOSE g : LineCuts(g, curves, caps, budget, high)
    OBVIOUS
  <1>2. LineCuts(f, curves, caps, budget, high)
    BY <1>1, LineCutsExist
  <1>3. LAMBDA_ITERATIONS \in Nat
    BY AllocationAssumption
  <1> DEFINE n == LAMBDA_ITERATIONS
             mid(k) == (f[k].lo + f[k].hi) \div 2
             over(l) == SumFunction(allocAt(curves, caps, l)) > budget
             U == {m \in {mid(k) : k \in 0..n} : over(m)}
             W == {m \in Int : over(m)}
  <1> HIDE DEF over
  <1>4. Cuts(f, 0, high, n, U)
    <2>1. ASSUME NEW k \in 0..n, k # 0
          PROVE  f[k] = Halved(f[k - 1], U)
      <3>1. k - 1 \in 0..n
        BY <1>3, <2>1
      <3>2. PICK c : c = f[k - 1]
        OBVIOUS
      <3>3. PICK m : m = (c.lo + c.hi) \div 2
        OBVIOUS
      <3>4. m \in U <=> over(m)
        BY <3>1, <3>2, <3>3
      <3>5. f[k] = IF over(m) THEN [c EXCEPT !.lo = m] ELSE [c EXCEPT !.hi = m]
        BY <1>2, <2>1, <3>2, <3>3 DEF LineCuts, over
      <3> HIDE DEF U
      <3>6. QED  BY <3>2, <3>3, <3>4, <3>5 DEF Halved
    <2>2. f = [k \in 0..n |-> f[k]] /\ f[0] = [lo |-> 0, hi |-> high]
      BY <1>2, <1>3 DEF LineCuts
    <2> HIDE DEF U
    <2>3. QED  BY <2>1, <2>2 DEF Cuts
  <1>5. \A k \in 0..n : mid(k) \in Int
    <2> HIDE DEF U, n
    <2>1. n \in Nat
      BY <1>3 DEF n
    <2>2. QED  BY <1>4, <2>1, CutsWithin
  <1>6. Cuts(f, 0, high, n, W)
    <2>1. ASSUME NEW k \in 0..n, k # 0
          PROVE  Halved(f[k - 1], U) = Halved(f[k - 1], W)
      <3>1. k - 1 \in 0..n
        BY <1>3, <2>1
      <3>2. mid(k - 1) \in Int
        BY <1>5, <3>1
      <3>3. mid(k - 1) \in U <=> mid(k - 1) \in W
        BY <3>1, <3>2
      <3> HIDE DEF U, W
      <3>4. QED  BY <3>3 DEF Halved
    <2> HIDE DEF U, W, n
    <2>2. QED  BY <1>4, <2>1 DEF Cuts
  <1>7. f[n].hi = high \/ f[n].hi \notin W
    <2> HIDE DEF W, n
    <2>1. n \in Nat /\ n \in 0..n
      BY <1>3 DEF n
    <2>2. QED  BY <1>6, <2>1, CutsWithin
  <1>8. f[n].hi \in Int
    <2> HIDE DEF W, n
    <2>1. n \in Nat /\ n \in 0..n
      BY <1>3 DEF n
    <2>2. f[n] \in [lo : Int, hi : Int]
      BY <1>6, <2>1, CutsWithin
    <2>3. QED  BY <2>2
  <1>9. waterLine(curves, caps, budget) = f[n]
    BY <1>1 DEF waterLine, Bisect, LineCuts
  <1>10. QED  BY <1>7, <1>8, <1>9 DEF over

\* Curves whose first unit has a yield.
Yields(X) == \A curve \in X : marginalYield(curve, 0) \in Int

\* At the upper end of the water line the legs are within the budget.
LEMMA LineWithinBudget ==
  ASSUME NEW n \in Nat, NEW curves, DOMAIN curves = 1..n, Yields({curves[i] : i \in 1..n}),
         NEW caps \in [1..n -> Nat], NEW budget \in Nat
  PROVE  SumFunction(allocAt(curves, caps, waterLine(curves, caps, budget).hi)) <= budget
  <1>1. PICK Y : Y = {0} \cup {marginalYield(curves[i], 0) : i \in 1..n}
    OBVIOUS
  <1>2. Y \in SUBSET Int /\ Y # {} /\ 0 \in Y
    BY <1>1 DEF Yields
  <1>3. IsFiniteSet(Y)
    <2>1. PICK f : f = [i \in 1..n |-> marginalYield(curves[i], 0)]
      OBVIOUS
    <2>2. PICK T : T = {f[i] : i \in 1..n}
      OBVIOUS
    <2>3. f \in Surjection(1..n, T)
      <3>1. f = [i \in 1..n |-> f[i]]
        BY <2>1
      <3>2. QED  BY <2>2, <3>1 DEF Surjection
    <2>4. IsFiniteSet(1..n)
      BY FS_Interval
    <2>5. IsFiniteSet(T)
      BY <2>3, <2>4, FS_Surjection
    <2>6. IsFiniteSet({0} \cup T)
      BY <2>5, FS_Singleton, FS_Union
    <2>7. Y = {0} \cup T
      BY <1>1, <2>1, <2>2
    <2>8. QED  BY <2>6, <2>7
  <1>4. PICK high : high = Max(Y)
    OBVIOUS
  <1>5. high \in Nat /\ \A y \in Y : y <= high
    <2>1. high \in Y /\ \A y \in Y : high >= y
      BY <1>2, <1>3, <1>4, MaxIsGreatest
    <2>2. high \in Int /\ high >= 0
      BY <1>2, <2>1
    <2>3. \A y \in Y : y \in Int
      BY <1>2
    <2>4. \A y \in Y : y <= high
      BY <2>1, <2>2, <2>3
    <2>5. QED  BY <2>2, <2>4
  <1>6. PICK hi : hi = waterLine(curves, caps, budget).hi
    OBVIOUS
  <1>7. hi = high \/ ~(SumFunction(allocAt(curves, caps, hi)) > budget)
    <2>1. high = Max({0} \cup {marginalYield(curves[i], 0) : i \in DOMAIN curves})
      BY <1>1, <1>4
    <2>2. QED  BY <1>5, <1>6, <2>1, LineEnds
  <1>8. PICK at : at = allocAt(curves, caps, hi)
    OBVIOUS
  <1>9. at = [i \in 1..n |-> at[i]] /\ DOMAIN at = 1..n
        /\ \A i \in 1..n : at[i] = solveMarginalEquals(curves[i], hi, caps[i])
    BY <1>8 DEF allocAt
  <1>10. IsFiniteSet(1..n)
    BY FS_Interval
  <1>11. SumFunction(at) = SumFunctionOnSet(at, 1..n)
    BY <1>9 DEF SumFunction
  <1>12. CASE hi = high
    <2>1. ASSUME NEW i \in 1..n
          PROVE  at[i] = 0
      <3>1. PICK y : y = marginalYield(curves[i], 0)
        OBVIOUS
      <3>2. y \in Y
        BY <1>1, <3>1
      <3>3. y \in Int /\ y <= hi /\ hi \in Int
        BY <1>2, <1>5, <1>12, <3>2
      <3>4. at[i] = solveMarginalEquals(curves[i], hi, caps[i])
        BY <1>9
      <3>5. ~(y > hi)
        BY <3>3
      <3>6. QED  BY <3>1, <3>3, <3>4, <3>5 DEF solveMarginalEquals
    <2>2. SumFunctionOnSet(at, 1..n) = 0
      BY <1>10, <2>1, SumOfZeros
    <2>3. QED  BY <1>6, <1>8, <1>11, <2>2
  <1>13. CASE ~(SumFunction(at) > budget)
    <2>1. ASSUME NEW i \in 1..n
          PROVE  at[i] \in Int
      <3>1. caps[i] \in Nat /\ at[i] = solveMarginalEquals(curves[i], hi, caps[i])
        BY <1>9
      <3>2. at[i] \in 0..caps[i]
        BY <3>1, SolvedWithinCap
      <3>3. QED  BY <3>1, <3>2
    <2>2. SumFunctionOnSet(at, 1..n) \in Int
      BY <1>10, <2>1, SumInt
    <2>3. QED  BY <1>6, <1>8, <1>11, <1>13, <2>2
  <1>14. QED  BY <1>7, <1>8, <1>12, <1>13

\* So is what waterFill fills in, unless the doubles end above a jump.
LEMMA WaterWithinBudget ==
  ASSUME NEW n \in Nat, NEW curves, DOMAIN curves = 1..n, Yields({curves[i] : i \in 1..n}),
         NEW caps \in [1..n -> Nat], NEW budget \in Nat, NEW above, ~above
  PROVE  SumFunction(waterFill(curves, caps, budget, above)) <= budget
  <1>1. PICK all : all = SumFunction(caps)
    OBVIOUS
  <1>2. all \in Int
    <2>1. IsFiniteSet(1..n) /\ DOMAIN caps = 1..n /\ \A i \in 1..n : caps[i] \in Int
      BY FS_Interval
    <2>2. SumFunctionOnSet(caps, 1..n) \in Int
      BY <2>1, SumInt
    <2>3. QED  BY <1>1, <2>1, <2>2 DEF SumFunction
  <1>3. PICK below : below = allocAt(curves, caps, waterLine(curves, caps, budget).hi)
    OBVIOUS
  <1>4. SumFunction(below) <= budget
    BY <1>3, LineWithinBudget
  <1>5. CASE budget >= all
    <2>1. waterFill(curves, caps, budget, above) = caps
      BY <1>1, <1>5 DEF waterFill
    <2>2. QED  BY <1>1, <1>2, <1>5, <2>1
  <1>6. CASE ~(budget >= all)
    <2>1. waterFill(curves, caps, budget, above) = below
      BY <1>1, <1>3, <1>6 DEF waterFill, atLine
    <2>2. QED  BY <1>4, <2>1
  <1>7. QED  BY <1>5, <1>6

\* The repair adds what is missing, no more.
LEMMA RepairedWithinBudget ==
  ASSUME NEW n \in Nat, NEW x \in [1..n -> Nat], NEW budget \in Nat, SumFunction(x) <= budget
  PROVE  /\ SumFunction(Repaired(x, budget)) <= budget
         /\ \A i \in 1..n : Repaired(x, budget)[i] >= x[i]
  <1>1. PICK missing : missing = budget - SumFunction(x)
    OBVIOUS
  <1>2. PICK l : l = largestIndex(x)
    OBVIOUS
  <1>3. PICK r : r = Repaired(x, budget)
    OBVIOUS
  <1>4. IsFiniteSet(1..n) /\ x \in [1..n -> Int]
    BY FS_Interval
  <1>5. SumFunction(x) \in Int
    <2>1. DOMAIN x = 1..n /\ \A i \in 1..n : x[i] \in Int
      BY <1>4
    <2>2. SumFunctionOnSet(x, 1..n) \in Int
      BY <1>4, <2>1, SumInt
    <2>3. QED  BY <2>1, <2>2 DEF SumFunction
  <1>6. missing \in Nat
    BY <1>1, <1>5
  <1>7. r = x \/ (r = [x EXCEPT ![l] = x[l] + missing])
    <2>1. ~(missing < 0)
      BY <1>6
    <2>2. QED  BY <1>1, <1>2, <1>3, <2>1 DEF Repaired
  <1>8. CASE r = x
    BY <1>3, <1>4, <1>8
  <1>9. CASE r = [x EXCEPT ![l] = x[l] + missing] /\ l \in 1..n
    <2>1. PICK v : v = x[l] + missing
      OBVIOUS
    <2>2. v \in Int /\ v >= x[l] /\ x[l] \in Int
      BY <1>4, <1>6, <1>9, <2>1
    <2>3. SumFunction(r) = SumFunction(x) - x[l] + v
      BY <1>4, <1>9, <2>1, <2>2, SumExcept
    <2>4. SumFunction(r) = budget
      BY <1>1, <1>5, <2>1, <2>2, <2>3
    <2>5. \A i \in 1..n : r[i] >= x[i]
      BY <1>4, <1>9, <2>1, <2>2
    <2>6. QED  BY <1>3, <2>4, <2>5
  <1>10. CASE r = [x EXCEPT ![l] = x[l] + missing] /\ l \notin 1..n
    <2>1. r = x
      BY <1>10
    <2>2. QED  BY <1>8, <2>1
  <1>11. QED  BY <1>7, <1>8, <1>9, <1>10

-----------------------------------------------------------------------------
(* Sums of legs. *)

\* Amounts that are each within another one of S are within the sum of S.
LEMMA SumsBelow ==
  ASSUME NEW S, IsFiniteSet(S), NEW r, \A i \in S : r[i] \in Nat,
         NEW m \in Nat, NEW o \in [1..m -> S], \A i, j \in 1..m : i # j => o[i] # o[j],
         NEW g, \A k \in 1..m : g[k] \in Nat /\ g[k] <= r[o[k]]
  PROVE  SumFunctionOnSet(g, 1..m) <= SumFunctionOnSet(r, S)
  <1> DEFINE upto(k) == {o[i] : i \in 1..k}
             P == {k \in Nat : k \in 0..m =>
                     /\ SumFunctionOnSet(g, 1..k) \in Nat
                     /\ SumFunctionOnSet(r, upto(k)) \in Nat
                     /\ SumFunctionOnSet(g, 1..k) <= SumFunctionOnSet(r, upto(k))}
  <1>1. 0 \in P
    <2>1. 1..0 = {} /\ upto(0) = {}
      OBVIOUS
    <2>2. SumFunctionOnSet(g, {}) = 0 /\ SumFunctionOnSet(r, {}) = 0
      BY SumEmpty
    <2> HIDE DEF upto
    <2>3. SumFunctionOnSet(g, 1..0) = 0 /\ SumFunctionOnSet(r, upto(0)) = 0
      BY <2>1, <2>2
    <2>4. QED  BY <2>3
  <1>2. ASSUME NEW k \in 0..(m - 1), k \in P
        PROVE  k + 1 \in P
    <2>1. k \in 0..m /\ k + 1 \in 1..m /\ k + 1 \notin 1..k /\ 1..k \subseteq 1..m
      OBVIOUS
    <2>2. PICK A : A = upto(k)
      OBVIOUS
    <2>3. PICK x : x = o[k + 1]
      OBVIOUS
    <2>4. x \in S /\ x \notin A /\ A \in SUBSET S
      BY <2>1, <2>2, <2>3
    <2>5. upto(k + 1) = A \cup {x} /\ 1..(k + 1) = 1..k \cup {k + 1}
      <3>1. 1..(k + 1) = 1..k \cup {k + 1}
        BY <2>1
      <3>2. QED  BY <2>2, <2>3, <3>1
    <2>6. IsFiniteSet(A) /\ IsFiniteSet(1..k)
      BY <2>4, FS_Subset, FS_Interval
    <2>7. SumFunctionOnSet(g, 1..k \cup {k + 1}) = g[k + 1] + SumFunctionOnSet(g, 1..k)
      <3>1. \A i \in 1..k \cup {k + 1} : g[i] \in Int
        BY <2>1
      <3>2. QED  BY <2>1, <2>6, <3>1, SumAdd
    <2>8. SumFunctionOnSet(r, A \cup {x}) = r[x] + SumFunctionOnSet(r, A)
      <3>1. \A i \in A \cup {x} : r[i] \in Int
        BY <2>4
      <3>2. QED  BY <2>4, <2>6, <3>1, SumAdd
    <2>9. g[k + 1] \in Nat /\ r[x] \in Nat /\ g[k + 1] <= r[x]
      BY <2>1, <2>3, <2>4
    <2>10. PICK a : a = SumFunctionOnSet(g, 1..k)
      OBVIOUS
    <2>11. PICK b : b = SumFunctionOnSet(r, A)
      OBVIOUS
    <2>12. a \in Nat /\ b \in Nat /\ a <= b
      BY <1>2, <2>1, <2>2, <2>10, <2>11
    <2>13. /\ SumFunctionOnSet(g, 1..(k + 1)) = g[k + 1] + a
           /\ SumFunctionOnSet(r, upto(k + 1)) = r[x] + b
      <3> HIDE DEF upto
      <3>1. QED  BY <2>5, <2>7, <2>8, <2>10, <2>11
    <2> HIDE DEF upto
    <2>14. QED  BY <2>9, <2>12, <2>13
  <1>3. 0..m \subseteq P
    <2> HIDE DEF P
    <2>1. QED  BY <1>1, <1>2, UpTo
  <1>4. SumFunctionOnSet(g, 1..m) <= SumFunctionOnSet(r, upto(m)) /\ SumFunctionOnSet(g, 1..m) \in Nat
        /\ SumFunctionOnSet(r, upto(m)) \in Nat
    <2>1. m \in P /\ m \in 0..m
      <3> HIDE DEF P, upto
      <3>1. m \in 0..m
        OBVIOUS
      <3>2. QED  BY <1>3, <3>1
    <2> HIDE DEF upto
    <2>2. QED  BY <2>1
  <1>5. upto(m) \in SUBSET S
    OBVIOUS
  <1> HIDE DEF upto, P
  <1>6. SumFunctionOnSet(r, upto(m)) <= SumFunctionOnSet(r, S)
    BY <1>5, SumSubset
  <1>7. SumFunctionOnSet(r, S) \in Nat
    BY SumNat
  <1>8. QED  BY <1>4, <1>6, <1>7

\* The amounts of legs.
Amounts(legs) == [k \in DOMAIN legs |-> legs[k].amount]

\* Legs that spend no more than the budget, none of them below the minimum beside
\* another one.
Spends(legs, budget, least) ==
    /\ SumFunction(Amounts(legs)) <= budget
    /\ \A i, j \in DOMAIN legs : i # j => legs[i].amount >= least

\* No leg spends nothing.
LEMMA NothingSpent ==
  ASSUME NEW budget \in Nat, NEW least
  PROVE  Spends(<<>>, budget, least)
  <1>1. DOMAIN <<>> = {}
    OBVIOUS
  <1>2. DOMAIN Amounts(<<>>) = {}
    BY <1>1 DEF Amounts
  <1>3. SumFunction(Amounts(<<>>)) = 0
    BY <1>2, SumEmpty DEF SumFunction
  <1>4. QED  BY <1>1, <1>3 DEF Spends

\* What finalize makes of settled amounts below the water line.
LEMMA FinalizedWithin ==
  ASSUME NEW X, Capped(X), Yields(X), NEW left \in Seq(X), NEW cap, IsCap(cap), NEW budget \in Nat,
         NEW above, ~above, NEW least \in Int,
         least <= 0 \/ NoneToPrune(Filled(left, budget, cap, above), least)
  PROVE  Spends(finalize(left, Filled(left, budget, cap, above), budget), budget, least)
  <1>1. PICK n \in Nat : n = Len(left) /\ DOMAIN left = 1..n
    OBVIOUS
  <1>2. PICK x : x = Filled(left, budget, cap, above)
    OBVIOUS
  <1>3. x \in [1..n -> Nat]
    <2>1. Fits(x, left, cap)
      BY <1>2, FilledAll
    <2>2. QED  BY <1>1, <2>1 DEF Fits
  <1>4. SumFunction(x) <= budget
    <2>1. PICK caps : caps = [i \in 1..n |-> capFor(left[i], budget, cap)]
      OBVIOUS
    <2>2. caps \in [1..n -> Nat]
      <3>1. ASSUME NEW i \in 1..n
            PROVE  capFor(left[i], budget, cap) \in Nat
        <4>1. IsCap(left[i].depositCap)
          BY <1>1 DEF Capped
        <4>2. QED  BY <4>1, CapForWithin
      <3>2. QED  BY <2>1, <3>1
    <2>3. x = waterFill(left, caps, budget, above)
      BY <1>1, <1>2, <2>1 DEF Filled
    <2>4. Yields({left[i] : i \in 1..n})
      BY <1>1 DEF Yields
    <2>5. QED  BY <1>1, <2>2, <2>3, <2>4, WaterWithinBudget
  <1>5. PICK r : r = Repaired(x, budget)
    OBVIOUS
  <1>6. NearBy(r, x, n) /\ SumFunction(r) <= budget /\ \A i \in 1..n : r[i] >= x[i]
    BY <1>3, <1>4, <1>5, RepairedWithin, RepairedWithinBudget
  <1>7. PICK legs : legs = finalize(left, x, budget)
    OBVIOUS
  <1>8. PICK m, o : LegsOf(legs, left, r, n, m, o)
    BY <1>5, <1>6, <1>7, FundedLegs DEF NearBy
  <1>9. /\ m \in Nat /\ o \in [1..m -> 1..n] /\ DOMAIN legs = 1..m
        /\ \A k \in 1..m : legs[k].amount = r[o[k]] /\ r[o[k]] > 0
        /\ \A i, j \in 1..m : i # j => o[i] # o[j]
    BY <1>8 DEF LegsOf
  <1>10. \A i \in 1..n : r[i] \in Nat /\ x[i] \in Nat /\ r[i] >= x[i] /\ (r[i] > 0 => x[i] > 0)
    BY <1>3, <1>6 DEF NearBy
  <1>11. SumFunction(Amounts(legs)) <= budget
    <2>1. PICK g : g = Amounts(legs)
      OBVIOUS
    <2>2. DOMAIN g = 1..m /\ \A k \in 1..m : g[k] \in Nat /\ g[k] <= r[o[k]]
      BY <1>9, <1>10, <2>1 DEF Amounts
    <2>3. IsFiniteSet(1..n) /\ \A i \in 1..n : r[i] \in Nat
      BY <1>10, FS_Interval
    <2>4. SumFunctionOnSet(g, 1..m) <= SumFunctionOnSet(r, 1..n)
      BY <1>9, <2>2, <2>3, SumsBelow
    <2>5. DOMAIN r = 1..n
      BY <1>6 DEF NearBy
    <2>6. SumFunction(g) = SumFunctionOnSet(g, 1..m) /\ SumFunction(r) = SumFunctionOnSet(r, 1..n)
      BY <2>2, <2>5 DEF SumFunction
    <2>7. SumFunctionOnSet(r, 1..n) \in Nat /\ SumFunctionOnSet(g, 1..m) \in Nat
      <3>1. IsFiniteSet(1..m)
        BY <1>9, FS_Interval
      <3>2. QED  BY <2>2, <2>3, <3>1, SumNat
    <2>8. QED  BY <1>6, <2>1, <2>4, <2>6, <2>7
  <1>12. ASSUME NEW i \in 1..m, NEW j \in 1..m, i # j
         PROVE  legs[i].amount >= least
    <2>1. PICK a \in 1..n : a = o[i]
      BY <1>9
    <2>2. PICK b \in 1..n : b = o[j]
      BY <1>9
    <2>3. /\ a # b /\ x[a] > 0 /\ x[b] > 0 /\ legs[i].amount = r[a]
          /\ r[a] \in Nat /\ x[a] \in Nat /\ r[a] >= x[a]
      BY <1>9, <1>10, <1>12, <2>1, <2>2
    <2>4. CASE least <= 0
      BY <2>3, <2>4
    <2>5. CASE {k \in DOMAIN x : 0 < x[k] /\ x[k] < least} = {}
      <3>1. a \in DOMAIN x
        BY <1>3
      <3>2. ~(x[a] < least)
        BY <2>3, <2>5, <3>1
      <3>3. QED  BY <2>3, <3>2
    <2>6. CASE Cardinality({k \in DOMAIN x : x[k] > 0}) <= 1
      <3>1. PICK S : S = {k \in DOMAIN x : x[k] > 0}
        OBVIOUS
      <3>2. S \subseteq 1..n /\ {a, b} \in SUBSET S
        BY <1>3, <2>3, <3>1
      <3>3. IsFiniteSet(1..n)
        BY FS_Interval
      <3>4. IsFiniteSet(S)
        BY <3>2, <3>3, FS_Subset
      <3>5. Cardinality({a, b}) <= Cardinality(S) /\ Cardinality(S) \in Nat
        BY <3>2, <3>4, FS_Subset, FS_CardinalityType
      <3>6. Cardinality({a, b}) = 2
        <4>1. IsFiniteSet({a}) /\ Cardinality({a}) = 1 /\ b \notin {a} /\ {a, b} = {a} \cup {b}
          BY <2>3, FS_Singleton
        <4>2. Cardinality({a} \cup {b}) = Cardinality({a}) + 1
          BY <4>1, FS_AddElement
        <4>3. QED  BY <4>1, <4>2
      <3>7. QED  BY <2>6, <3>1, <3>5, <3>6
    <2>7. QED  BY <1>2, <2>4, <2>5, <2>6 DEF NoneToPrune
  <1>13. QED  BY <1>2, <1>7, <1>9, <1>11, <1>12 DEF Spends

\* Unless the doubles end above a jump, solveAllocation spends the budget at most
\* and leaves no leg below the minimum beside another one.
THEOREM SolvedWithinBudget ==
  ASSUME NEW curves, Splittable(curves), Yields({curves[i] : i \in DOMAIN curves}),
         NEW cap, IsCap(cap), NEW budget \in Nat, NEW least \in Int, NEW above, ~above
  PROVE  Spends(solveAllocation(curves, budget, cap, least, above), budget, least)
  <1>1. PICK n \in Nat : n = Len(curves) /\ DOMAIN curves = 1..n
    BY DEF Splittable
  <1>2. PICK X : X = {curves[i] : i \in 1..n}
    OBVIOUS
  <1>3. Capped(X) /\ Yields(X) /\ curves \in Seq(X) /\ Distinct(curves)
    BY <1>1, <1>2 DEF Capped, Splittable
  <1>4. PICK f : f = CHOOSE g : Rounds(g, n, curves, budget, cap, least, above)
    OBVIOUS
  <1>5. Rounds(f, n, curves, budget, cap, least, above)
    BY <1>4, RoundsExist
  <1>6. PICK left : left = f[n]
    OBVIOUS
  <1>7. PICK x : x = Filled(left, budget, cap, above)
    OBVIOUS
  <1>8. left \in Seq(X) /\ (Len(left) + n <= n \/ least <= 0 \/ NoneToPrune(x, least))
    BY <1>1, <1>3, <1>5, <1>6, <1>7, RoundsKeep
  <1>9. least <= 0 \/ NoneToPrune(x, least)
    <2>1. CASE Len(left) + n <= n
      <3>1. Len(left) = 0
        BY <1>8, <2>1
      <3>2. x \in [1..0 -> Nat]
        BY <1>3, <1>7, <1>8, <3>1, FilledAll DEF Fits
      <3>3. DOMAIN x = {}
        BY <3>2
      <3>4. QED  BY <3>3 DEF NoneToPrune
    <2>2. QED  BY <1>8, <2>1
  <1>10. PICK legs : legs = finalize(left, x, budget)
    OBVIOUS
  <1>11. \/ solveAllocation(curves, budget, cap, least, above) = <<>>
         \/ solveAllocation(curves, budget, cap, least, above) = legs
    BY <1>1, <1>4, <1>6, <1>7, <1>10 DEF solveAllocation, Rounds
  <1>12. Spends(<<>>, budget, least)
    BY NothingSpent
  <1>13. Spends(legs, budget, least)
    BY <1>3, <1>7, <1>8, <1>9, <1>10, FinalizedWithin
  <1>14. QED  BY <1>11, <1>12, <1>13
=============================================================================
