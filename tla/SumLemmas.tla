----------------------------- MODULE SumLemmas -----------------------------
(***************************************************************************)
(* Facts about SumFunctionOnSet(f, S), the sum of the numbers f[x] over a  *)
(* finite set S.  Its definition takes the elements out one at a time, so  *)
(* these need an induction; they get it from the well-foundedness of the   *)
(* strict subset ordering, by looking at a smallest set that would be an   *)
(* exception.                                                              *)
(***************************************************************************)
EXTENDS Integers, FiniteSets, Functions, FiniteSetTheorems, WellFoundedInduction, TLAPS

Pick(s) == CHOOSE x \in s : TRUE

\* g sums up f over every subset of S, an element at a time.
SumsUp(g, f, S) ==
    g = [s \in SUBSET S |-> IF s = {} THEN 0 ELSE f[Pick(s)] + g[s \ {Pick(s)}]]

\* The element that the sum takes out next.
LEMMA PickIsIn == \A s : s # {} => Pick(s) \in s
  BY DEF Pick

\* A family of finite sets has a member that has no other member as a subset.
LEMMA SmallestSet ==
  ASSUME NEW S, IsFiniteSet(S), NEW F \in SUBSET (SUBSET S), F # {}
  PROVE  \E s \in F : \A u \in SUBSET s : u # s => u \notin F
  <1>1. IsWellFoundedOn(StrictSubsetOrdering(S), SUBSET S)
    BY FS_StrictSubsetOrderingWellFounded, FS_FiniteSubsetsOfFinite
  <1>2. PICK s \in F : \A u \in F : <<u, s>> \notin StrictSubsetOrdering(S)
    BY <1>1, WFMin
  <1>3. ASSUME NEW u \in SUBSET s, u # s, u \in F
        PROVE  FALSE
    <2>1. <<u, s>> \in (SUBSET S) \X (SUBSET S)
      BY <1>3
    <2>2. <<u, s>> \in StrictSubsetOrdering(S)
      BY <1>3, <2>1 DEF StrictSubsetOrdering
    <2>3. QED  BY <1>2, <1>3, <2>2
  <1>4. QED  BY <1>3

\* Two functions that sum up f agree wherever both are defined.
LEMMA SumsAgree ==
  ASSUME NEW f, NEW S, NEW R, IsFiniteSet(S), NEW g, NEW h, SumsUp(g, f, S), SumsUp(h, f, R),
         S \subseteq R
  PROVE  \A s \in SUBSET S : g[s] = h[s]
  <1> DEFINE F == {s \in SUBSET S : g[s] # h[s]}
  <1> SUFFICES ASSUME F # {}
               PROVE  FALSE
    OBVIOUS
  <1>1. PICK s \in F : \A u \in SUBSET s : u # s => u \notin F
    <2>1. F \in SUBSET (SUBSET S)
      OBVIOUS
    <2> HIDE DEF F
    <2>2. QED  BY <2>1, SmallestSet
  <1>2. s \in SUBSET S /\ s \in SUBSET R /\ g[s] # h[s]
    BY <1>1
  <1>3. CASE s = {}
    BY <1>2, <1>3 DEF SumsUp
  <1>4. CASE s # {}
    <2> DEFINE rest == s \ {Pick(s)}
    <2>1. rest \in SUBSET s /\ rest # s
      BY <1>4, PickIsIn
    <2>2. g[rest] = h[rest]
      BY <1>1, <1>2, <2>1
    <2>3. g[s] = f[Pick(s)] + g[rest] /\ h[s] = f[Pick(s)] + h[rest]
      BY <1>2, <1>4 DEF SumsUp
    <2>4. QED  BY <1>2, <2>2, <2>3
  <1>5. QED  BY <1>3, <1>4

\* Every finite set has a function that sums it up, subset by subset.
LEMMA SumsUpExists ==
  ASSUME NEW f, NEW S, IsFiniteSet(S)
  PROVE  \E g : SumsUp(g, f, S)
  <1> DEFINE F == {s \in SUBSET S : ~ \E g : SumsUp(g, f, s)}
  <1> SUFFICES ASSUME F # {}
               PROVE  FALSE
    OBVIOUS
  <1>1. PICK s \in F : \A u \in SUBSET s : u # s => u \notin F
    <2>1. F \in SUBSET (SUBSET S)
      OBVIOUS
    <2> HIDE DEF F
    <2>2. QED  BY <2>1, SmallestSet
  <1>2. s \in SUBSET S /\ IsFiniteSet(s) /\ ~ \E g : SumsUp(g, f, s)
    BY <1>1, FS_Subset
  <1> DEFINE G(u) == CHOOSE g : SumsUp(g, f, u)
             rest == s \ {Pick(s)}
             sum == [u \in SUBSET s |->
                       IF u = {} THEN 0
                       ELSE IF u = s THEN f[Pick(s)] + G(rest)[rest] ELSE G(u)[u]]
  <1>3. \A u \in SUBSET s : u # s => SumsUp(G(u), f, u)
    <2>1. ASSUME NEW u \in SUBSET s, u # s
          PROVE  \E g : SumsUp(g, f, u)
      BY <1>1, <1>2, <2>1
    <2>2. QED  BY <2>1
  <1> HIDE DEF G
  <1>4. SumsUp(sum, f, s)
    <2>1. ASSUME NEW u \in SUBSET s, u # {}
          PROVE  sum[u] = f[Pick(u)] + sum[u \ {Pick(u)}]
      <3> DEFINE less == u \ {Pick(u)}
      <3>1. /\ Pick(u) \in u /\ less \in SUBSET s /\ less # s /\ less \subseteq u
            /\ IsFiniteSet(less)
        BY <1>2, <2>1, PickIsIn, FS_Subset
      <3>2. SumsUp(G(less), f, less)
        BY <1>3, <3>1
      <3>3. sum[less] = G(less)[less]
        <4>1. CASE less = {}
          <5>1. G(less)[less] = 0
            BY <3>2, <4>1 DEF SumsUp
          <5>2. QED  BY <3>1, <4>1, <5>1
        <4>2. CASE less # {}
          BY <3>1, <4>2
        <4>3. QED  BY <4>1, <4>2
      <3>4. CASE u = s
        BY <2>1, <3>3, <3>4
      <3>5. CASE u # s
        <4>1. SumsUp(G(u), f, u)
          BY <1>3, <3>5
        <4>2. G(u)[u] = f[Pick(u)] + G(u)[less]
          BY <2>1, <4>1 DEF SumsUp
        <4>3. G(less)[less] = G(u)[less]
          BY <3>1, <3>2, <4>1, SumsAgree
        <4>4. sum[u] = G(u)[u]
          BY <2>1, <3>5
        <4> HIDE DEF sum, less
        <4>5. QED  BY <3>3, <4>2, <4>3, <4>4 DEF less
      <3>6. QED  BY <3>4, <3>5
    <2>2. sum[{}] = 0
      OBVIOUS
    <2>3. sum = [u \in SUBSET s |-> sum[u]]
      OBVIOUS
    <2> HIDE DEF sum
    <2>4. QED  BY <2>1, <2>2, <2>3 DEF SumsUp
  <1>5. QED  BY <1>2, <1>4

\* SumFunctionOnSet chooses such a function.
LEMMA SumIsChosen ==
  ASSUME NEW f, NEW S
  PROVE  SumFunctionOnSet(f, S) = (CHOOSE g : SumsUp(g, f, S))[S]
  BY DEF SumFunctionOnSet, FoldFunctionOnSet, MapThenFoldSet, SumsUp, Pick

\* Nothing sums up to 0.
LEMMA SumEmpty ==
  ASSUME NEW f
  PROVE  SumFunctionOnSet(f, {}) = 0
  <1>1. PICK g : g = CHOOSE h : SumsUp(h, f, {})
    OBVIOUS
  <1>2. SumsUp(g, f, {})
    BY <1>1, SumsUpExists, FS_EmptySet
  <1>3. g[{}] = 0
    BY <1>2 DEF SumsUp
  <1>4. QED  BY <1>1, <1>3, SumIsChosen

\* The equation of the definition.
LEMMA SumStep ==
  ASSUME NEW f, NEW S, IsFiniteSet(S), S # {}
  PROVE  SumFunctionOnSet(f, S) = f[Pick(S)] + SumFunctionOnSet(f, S \ {Pick(S)})
  <1> DEFINE rest == S \ {Pick(S)}
             g == CHOOSE h : SumsUp(h, f, S)
             k == CHOOSE h : SumsUp(h, f, rest)
  <1>1. IsFiniteSet(rest) /\ rest \subseteq S
    BY FS_Subset
  <1>2. SumsUp(g, f, S) /\ SumsUp(k, f, rest)
    BY <1>1, SumsUpExists
  <1>3. SumFunctionOnSet(f, S) = g[S] /\ SumFunctionOnSet(f, rest) = k[rest]
    BY SumIsChosen
  <1> HIDE DEF g, k
  <1>4. g[S] = f[Pick(S)] + g[rest]
    BY <1>2 DEF SumsUp
  <1>5. k[rest] = g[rest]
    <2>1. rest \in SUBSET rest
      OBVIOUS
    <2> HIDE DEF rest
    <2>2. QED  BY <1>1, <1>2, <2>1, SumsAgree
  <1>6. QED  BY <1>3, <1>4, <1>5

\* Integers sum up to an integer.
LEMMA SumInt ==
  ASSUME NEW f, NEW S, IsFiniteSet(S), \A x \in S : f[x] \in Int
  PROVE  SumFunctionOnSet(f, S) \in Int
  <1> DEFINE F == {s \in SUBSET S : SumFunctionOnSet(f, s) \notin Int}
  <1> SUFFICES ASSUME F # {}
               PROVE  FALSE
    OBVIOUS
  <1>1. PICK s \in F : \A u \in SUBSET s : u # s => u \notin F
    <2>1. F \in SUBSET (SUBSET S)
      OBVIOUS
    <2> HIDE DEF F
    <2>2. QED  BY <2>1, SmallestSet
  <1>2. s # {}
    <2>1. SumFunctionOnSet(f, {}) \in Int
      BY SumEmpty
    <2>2. SumFunctionOnSet(f, s) \notin Int
      BY <1>1
    <2>3. QED  BY <2>1, <2>2, Zenon
  <1>3. Pick(s) \in s /\ IsFiniteSet(s)
    BY <1>1, <1>2, PickIsIn, FS_Subset
  <1>4. SumFunctionOnSet(f, s \ {Pick(s)}) \in Int
    BY <1>1, <1>3
  <1>5. SumFunctionOnSet(f, s) = f[Pick(s)] + SumFunctionOnSet(f, s \ {Pick(s)})
    BY <1>2, <1>3, SumStep
  <1>6. QED  BY <1>1, <1>3, <1>4, <1>5

\* Any element can be taken out first.
LEMMA SumRemove ==
  ASSUME NEW f, NEW S, IsFiniteSet(S), \A x \in S : f[x] \in Int, NEW x \in S
  PROVE  SumFunctionOnSet(f, S) = f[x] + SumFunctionOnSet(f, S \ {x})
  <1> DEFINE Sum(s) == SumFunctionOnSet(f, s)
             F == {s \in SUBSET S : \E y \in s : Sum(s) # f[y] + Sum(s \ {y})}
  <1> SUFFICES ASSUME F # {}
               PROVE  FALSE
    OBVIOUS
  <1>1. PICK s \in F : \A u \in SUBSET s : u # s => u \notin F
    <2>1. F \in SUBSET (SUBSET S)
      OBVIOUS
    <2> HIDE DEF F
    <2>2. QED  BY <2>1, SmallestSet
  <1>2. PICK y \in s : Sum(s) # f[y] + Sum(s \ {y})
    BY <1>1
  <1> DEFINE z == Pick(s)
  <1>3. z \in s /\ IsFiniteSet(s)
    BY <1>1, <1>2, PickIsIn, FS_Subset
  <1>4. Sum(s) = f[z] + Sum(s \ {z})
    BY <1>2, <1>3, SumStep
  <1>5. y # z
    BY <1>2, <1>4
  <1>6. \A u \in SUBSET s : u # s => \A v \in u : Sum(u) = f[v] + Sum(u \ {v})
    BY <1>1
  <1> HIDE DEF Sum, F, z
  <1>7. Sum(s \ {z}) = f[y] + Sum((s \ {z}) \ {y})
    BY <1>2, <1>3, <1>5, <1>6
  <1>8. Sum(s \ {y}) = f[z] + Sum((s \ {y}) \ {z})
    BY <1>2, <1>3, <1>5, <1>6
  <1>9. Sum((s \ {y}) \ {z}) = Sum((s \ {z}) \ {y})
    <2>1. (s \ {y}) \ {z} = (s \ {z}) \ {y}
      OBVIOUS
    <2>2. QED  BY <2>1, Zenon
  <1>10. Sum((s \ {z}) \ {y}) \in Int
    BY <1>1, SumInt, FS_Subset DEF Sum, F
  <1>11. f[y] \in Int /\ f[z] \in Int
    BY <1>1, <1>2, <1>3 DEF F
  <1>12. QED  BY <1>2, <1>4, <1>7, <1>8, <1>9, <1>10, <1>11

\* One more element adds its value.
LEMMA SumAdd ==
  ASSUME NEW f, NEW S, IsFiniteSet(S), NEW x, x \notin S, \A y \in S \cup {x} : f[y] \in Int
  PROVE  SumFunctionOnSet(f, S \cup {x}) = f[x] + SumFunctionOnSet(f, S)
  <1>1. IsFiniteSet(S \cup {x}) /\ (S \cup {x}) \ {x} = S
    BY FS_AddElement
  <1>2. QED  BY <1>1, SumRemove

\* A single element.
LEMMA SumSingle ==
  ASSUME NEW f, NEW x, f[x] \in Int
  PROVE  SumFunctionOnSet(f, {x}) = f[x]
  <1>1. IsFiniteSet({x}) /\ {x} \ {x} = {}
    BY FS_Singleton
  <1>2. QED  BY <1>1, SumRemove, SumEmpty

\* Only the values on S matter.
LEMMA SumSame ==
  ASSUME NEW f, NEW g, NEW S, IsFiniteSet(S), \A x \in S : f[x] = g[x]
  PROVE  SumFunctionOnSet(f, S) = SumFunctionOnSet(g, S)
  <1> DEFINE F == {s \in SUBSET S : SumFunctionOnSet(f, s) # SumFunctionOnSet(g, s)}
  <1> SUFFICES ASSUME F # {}
               PROVE  FALSE
    OBVIOUS
  <1>1. PICK s \in F : \A u \in SUBSET s : u # s => u \notin F
    <2>1. F \in SUBSET (SUBSET S)
      OBVIOUS
    <2> HIDE DEF F
    <2>2. QED  BY <2>1, SmallestSet
  <1>2. s # {}
    BY <1>1, SumEmpty
  <1>3. Pick(s) \in s /\ IsFiniteSet(s)
    BY <1>1, <1>2, PickIsIn, FS_Subset
  <1>4. SumFunctionOnSet(f, s \ {Pick(s)}) = SumFunctionOnSet(g, s \ {Pick(s)})
    BY <1>1, <1>3
  <1>5. QED  BY <1>1, <1>2, <1>3, <1>4, SumStep

\* The sum over a set is that over a part and that over the rest.
LEMMA SumUnion ==
  ASSUME NEW f, NEW S, IsFiniteSet(S), NEW T \in SUBSET S, \A x \in S : f[x] \in Int
  PROVE  SumFunctionOnSet(f, S) = SumFunctionOnSet(f, T) + SumFunctionOnSet(f, S \ T)
  <1> DEFINE Sum(s) == SumFunctionOnSet(f, s)
             F == {s \in SUBSET T : Sum(S) # Sum(s) + Sum(S \ s)}
  <1> SUFFICES ASSUME F # {}
               PROVE  FALSE
    BY DEF F
  <1>1. IsFiniteSet(T)
    BY FS_Subset
  <1>2. PICK s \in F : \A u \in SUBSET s : u # s => u \notin F
    <2>1. F \in SUBSET (SUBSET T)
      OBVIOUS
    <2> HIDE DEF F
    <2>2. QED  BY <1>1, <2>1, SmallestSet
  <1>3. /\ IsFiniteSet(s) /\ IsFiniteSet(S \ s) /\ s \subseteq S
        /\ Sum(S \ s) \in Int /\ Sum(S) # Sum(s) + Sum(S \ s)
    BY <1>2, FS_Subset, SumInt
  <1>4. s # {}
    <2>1. Sum({}) = 0 /\ S \ {} = S /\ Sum(S) \in Int
      BY SumEmpty, SumInt
    <2> HIDE DEF Sum
    <2>2. Sum(S) = Sum({}) + Sum(S \ {})
      BY <2>1
    <2>3. QED  BY <1>3, <2>2, Zenon
  <1> DEFINE x == Pick(s)
             rest == s \ {x}
  <1>5. x \in s /\ rest \in SUBSET s /\ rest # s
    BY <1>4, PickIsIn
  <1>6. Sum(S) = Sum(rest) + Sum(S \ rest)
    BY <1>2, <1>5
  <1>7. Sum(s) = f[x] + Sum(rest)
    BY <1>3, <1>4, SumStep
  <1>8. Sum(S \ rest) = f[x] + Sum(S \ s)
    <2>1. S \ rest = (S \ s) \cup {x} /\ x \notin S \ s /\ x \in S
      BY <1>3, <1>5
    <2> HIDE DEF x, rest
    <2>2. QED  BY <1>3, <2>1, SumAdd
  <1>9. f[x] \in Int /\ Sum(rest) \in Int
    BY <1>3, <1>5, SumInt, FS_Subset
  <1> HIDE DEF Sum, x, rest
  <1>10. QED  BY <1>3, <1>6, <1>7, <1>8, <1>9

\* Naturals sum up to a natural.
LEMMA SumNat ==
  ASSUME NEW f, NEW S, IsFiniteSet(S), \A x \in S : f[x] \in Nat
  PROVE  SumFunctionOnSet(f, S) \in Nat
  <1> DEFINE F == {s \in SUBSET S : SumFunctionOnSet(f, s) \notin Nat}
  <1> SUFFICES ASSUME F # {}
               PROVE  FALSE
    OBVIOUS
  <1>1. PICK s \in F : \A u \in SUBSET s : u # s => u \notin F
    <2>1. F \in SUBSET (SUBSET S)
      OBVIOUS
    <2> HIDE DEF F
    <2>2. QED  BY <2>1, SmallestSet
  <1>2. s # {}
    <2>1. SumFunctionOnSet(f, {}) \in Nat
      BY SumEmpty
    <2>2. SumFunctionOnSet(f, s) \notin Nat
      BY <1>1
    <2>3. QED  BY <2>1, <2>2, Zenon
  <1>3. Pick(s) \in s /\ IsFiniteSet(s)
    BY <1>1, <1>2, PickIsIn, FS_Subset
  <1>4. SumFunctionOnSet(f, s \ {Pick(s)}) \in Nat
    BY <1>1, <1>3
  <1>5. SumFunctionOnSet(f, s) = f[Pick(s)] + SumFunctionOnSet(f, s \ {Pick(s)})
    BY <1>2, <1>3, SumStep
  <1>6. QED  BY <1>1, <1>3, <1>4, <1>5

\* A part of a set of naturals sums up to no more than the set.
LEMMA SumSubset ==
  ASSUME NEW f, NEW S, IsFiniteSet(S), \A x \in S : f[x] \in Nat, NEW T \in SUBSET S
  PROVE  SumFunctionOnSet(f, T) <= SumFunctionOnSet(f, S)
  <1>1. SumFunctionOnSet(f, S) = SumFunctionOnSet(f, T) + SumFunctionOnSet(f, S \ T)
    BY SumUnion
  <1>2. SumFunctionOnSet(f, T) \in Nat /\ SumFunctionOnSet(f, S \ T) \in Nat
    BY SumNat, FS_Subset
  <1>3. QED  BY <1>1, <1>2

\* What lies in two sets sums up to no more than the two sets do.
LEMMA SumSplit ==
  ASSUME NEW f, NEW S, IsFiniteSet(S), NEW T, IsFiniteSet(T), \A x \in S \cup T : f[x] \in Nat,
         NEW U \in SUBSET (S \cup T)
  PROVE  SumFunctionOnSet(f, U) <= SumFunctionOnSet(f, S) + SumFunctionOnSet(f, T)
  <1> DEFINE both == S \cup T
             rest == T \ S
  <1>1. /\ IsFiniteSet(both) /\ IsFiniteSet(rest) /\ both \ S = rest
        /\ S \in SUBSET both /\ rest \in SUBSET T
    BY FS_Union, FS_Subset
  <1>2. SumFunctionOnSet(f, both) = SumFunctionOnSet(f, S) + SumFunctionOnSet(f, rest)
    <2>1. \A x \in both : f[x] \in Int
      OBVIOUS
    <2> HIDE DEF both, rest
    <2>2. QED  BY <1>1, <2>1, SumUnion
  <1>3. SumFunctionOnSet(f, rest) <= SumFunctionOnSet(f, T)
    BY <1>1, SumSubset
  <1>4. SumFunctionOnSet(f, U) <= SumFunctionOnSet(f, both)
    BY <1>1, SumSubset
  <1>5. /\ SumFunctionOnSet(f, U) \in Nat /\ SumFunctionOnSet(f, S) \in Nat
        /\ SumFunctionOnSet(f, T) \in Nat /\ SumFunctionOnSet(f, rest) \in Nat
        /\ SumFunctionOnSet(f, both) \in Nat
    <2>1. IsFiniteSet(U)
      BY <1>1, FS_Subset
    <2>2. QED  BY <1>1, <2>1, SumNat
  <1>6. QED  BY <1>2, <1>3, <1>4, <1>5

\* A function whose value changes at one place.
LEMMA SumExcept ==
  ASSUME NEW S, IsFiniteSet(S), NEW f \in [S -> Int], NEW x \in S, NEW v \in Int
  PROVE  /\ SumFunction(f) \in Int
         /\ SumFunction([f EXCEPT ![x] = v]) = SumFunction(f) - f[x] + v
  <1> DEFINE g == [f EXCEPT ![x] = v]
             rest == S \ {x}
  <1>1. IsFiniteSet(rest) /\ \A y \in rest : f[y] = g[y]
    BY FS_Subset
  <1>2. SumFunctionOnSet(f, rest) = SumFunctionOnSet(g, rest)
    BY <1>1, SumSame
  <1>3. SumFunctionOnSet(f, S) = f[x] + SumFunctionOnSet(f, rest)
    BY SumRemove
  <1>4. SumFunctionOnSet(g, S) = v + SumFunctionOnSet(g, rest)
    <2>1. g[x] = v /\ \A y \in S : g[y] \in Int
      OBVIOUS
    <2> HIDE DEF g
    <2>2. QED  BY <2>1, SumRemove
  <1>5. SumFunctionOnSet(f, rest) \in Int
    BY <1>1, SumInt
  <1>6. DOMAIN f = S /\ DOMAIN g = S
    OBVIOUS
  <1>7. f[x] \in Int
    OBVIOUS
  <1> HIDE DEF g, rest
  <1>8. QED  BY <1>2, <1>3, <1>4, <1>5, <1>6, <1>7 DEF g, SumFunction

\* A function of the elements of a set, when one is added.
LEMMA SumInsert ==
  ASSUME NEW S, IsFiniteSet(S), NEW x, x \notin S, NEW f \in [S \cup {x} -> Int],
         NEW g, g = [y \in S |-> f[y]]
  PROVE  /\ SumFunction(g) \in Int
         /\ SumFunction(f) = f[x] + SumFunction(g)
  <1>1. SumFunctionOnSet(f, S) = SumFunctionOnSet(g, S)
    BY SumSame
  <1>2. SumFunctionOnSet(f, S \cup {x}) = f[x] + SumFunctionOnSet(f, S)
    BY SumAdd
  <1>3. DOMAIN f = S \cup {x} /\ DOMAIN g = S
    OBVIOUS
  <1>4. SumFunctionOnSet(g, S) \in Int
    BY SumInt
  <1>5. QED  BY <1>1, <1>2, <1>3, <1>4 DEF SumFunction

\* Zeros sum up to 0.
LEMMA SumOfZeros ==
  ASSUME NEW f, NEW S, IsFiniteSet(S), \A x \in S : f[x] = 0
  PROVE  SumFunctionOnSet(f, S) = 0
  <1> DEFINE F == {s \in SUBSET S : SumFunctionOnSet(f, s) # 0}
  <1> SUFFICES ASSUME F # {}
               PROVE  FALSE
    OBVIOUS
  <1>1. PICK s \in F : \A u \in SUBSET s : u # s => u \notin F
    <2>1. F \in SUBSET (SUBSET S)
      OBVIOUS
    <2> HIDE DEF F
    <2>2. QED  BY <2>1, SmallestSet
  <1>2. s # {}
    BY <1>1, SumEmpty, Zenon
  <1>3. Pick(s) \in s /\ IsFiniteSet(s)
    BY <1>1, <1>2, PickIsIn, FS_Subset
  <1>4. SumFunctionOnSet(f, s \ {Pick(s)}) = 0
    BY <1>1, <1>3
  <1>5. QED  BY <1>1, <1>2, <1>3, <1>4, SumStep
=============================================================================
