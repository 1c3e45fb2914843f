------------------------------ MODULE SumProofs ------------------------------
(***************************************************************************)
(* Sums over finite sets: what the depth of a book is compared with.       *)
(*                                                                         *)
(* A sum is defined by recursion over the set.  That the recursion defines *)
(* a function, and what the function is, follows from the fact that strict *)
(* inclusion is well-founded on finite sets: a smallest counterexample     *)
(* would have no smaller one.                                              *)
(***************************************************************************)
EXTENDS Functions, FiniteSetTheorems, WellFoundedInduction, TLAPS

\* The element a sum takes out first.
First(S) == CHOOSE x \in S : TRUE

\* What the recursion asks of g.
IsSum(fun, S, g) ==
    g = [s \in SUBSET S |->
            IF s = {} THEN 0 ELSE fun[First(s)] + g[s \ {First(s)}]]

-----------------------------------------------------------------------------
\* A non-empty set of finite sets has a member none of the others is part of.
LEMMA SmallestSet ==
  ASSUME NEW U, IsFiniteSet(U), NEW T, T \subseteq SUBSET U, T # {}
  PROVE  \E s \in T : \A t \in T : t \subseteq s => t = s
<1>1. FiniteSubsetsOf(U) = SUBSET U
  BY FS_FiniteSubsetsOfFinite
<1>2. IsWellFoundedOn(StrictSubsetOrdering(U), SUBSET U)
  BY <1>1, FS_StrictSubsetOrderingWellFounded
<1>3. PICK s \in T : \A t \in T : <<t, s>> \notin StrictSubsetOrdering(U)
  BY <1>2, WFMin
<1>4. ASSUME NEW t \in T, t \subseteq s
      PROVE  t = s
  BY <1>3, <1>4 DEF StrictSubsetOrdering
<1> QED
  BY <1>4

LEMMA FirstIsMember == \A S : S # {} => First(S) \in S
  BY DEF First

LEMMA SumIsChosen ==
  ASSUME NEW fun, NEW S
  PROVE  SumFunctionOnSet(fun, S) = (CHOOSE g : IsSum(fun, S, g))[S]
  BY DEF SumFunctionOnSet, FoldFunctionOnSet, MapThenFoldSet, IsSum, First

\* On the sets two such functions share they are the same.
LEMMA SumIsUnique ==
  ASSUME NEW fun, NEW S, NEW R, NEW g, NEW h, IsFiniteSet(S),
         IsSum(fun, S, g), IsSum(fun, R, h)
  PROVE  \A s \in SUBSET S : s \subseteq R => g[s] = h[s]
<1> DEFINE Wrong == { s \in SUBSET S : s \subseteq R /\ g[s] # h[s] }
<1> SUFFICES ASSUME Wrong # {}
             PROVE  FALSE
  OBVIOUS
<1>1. PICK s \in Wrong : \A t \in Wrong : t \subseteq s => t = s
  <2>1. Wrong \subseteq SUBSET S
    OBVIOUS
  <2> HIDE DEF Wrong
  <2> QED
    BY <2>1, SmallestSet
<1>2. s \in SUBSET S /\ s \in SUBSET R
  OBVIOUS
<1>3. /\ g[s] = IF s = {} THEN 0 ELSE fun[First(s)] + g[s \ {First(s)}]
      /\ h[s] = IF s = {} THEN 0 ELSE fun[First(s)] + h[s \ {First(s)}]
  BY <1>2 DEF IsSum
<1>4. s # {} /\ First(s) \in s
  BY <1>3, FirstIsMember
<1>5. g[s \ {First(s)}] = h[s \ {First(s)}]
  BY <1>1, <1>2, <1>4
<1> QED
  BY <1>3, <1>4, <1>5

LEMMA SumExists ==
  ASSUME NEW fun, NEW U, IsFiniteSet(U)
  PROVE  \A S \in SUBSET U : \E g : IsSum(fun, S, g)
<1> DEFINE Without == { S \in SUBSET U : ~\E g : IsSum(fun, S, g) }
<1> SUFFICES ASSUME Without # {}
             PROVE  FALSE
  OBVIOUS
<1>1. PICK S \in Without : \A T \in Without : T \subseteq S => T = S
  <2>1. Without \subseteq SUBSET U
    OBVIOUS
  <2> HIDE DEF Without
  <2> QED
    BY <2>1, SmallestSet
<1> DEFINE G(T) == CHOOSE g : IsSum(fun, T, g)
           sum(T) == G(T)[T]
           g == [s \in SUBSET S |->
                    IF s = {} THEN 0 ELSE fun[First(s)] + sum(s \ {First(s)})]
<1>2. \A T : T \subseteq S /\ T # S => IsFiniteSet(T) /\ IsSum(fun, T, G(T))
  <2>1. \A T : T \subseteq S /\ T # S => \E f : IsSum(fun, T, f)
    BY <1>1
  <2>2. \A T : (\E f : IsSum(fun, T, f)) => IsSum(fun, T, G(T))
    OBVIOUS
  <2> QED
    BY <2>1, <2>2, FS_Subset
<1> HIDE DEF G
<1>3. ASSUME NEW s \in SUBSET S, s # S, s # {}
      PROVE  sum(s) = fun[First(s)] + sum(s \ {First(s)})
  <2> DEFINE r == s \ {First(s)}
  <2>1. First(s) \in s /\ r \subseteq s /\ r # S /\ r \subseteq S
    BY <1>3, FirstIsMember
  <2>2. G(s)[s] = fun[First(s)] + G(s)[r]
    <3>1. IsSum(fun, s, G(s)) /\ s \in SUBSET s
      BY <1>2, <1>3
    <3> QED
      BY <1>3, <3>1 DEF IsSum
  <2>3. G(s)[r] = G(r)[r]
    BY <1>2, <1>3, <2>1, SumIsUnique
  <2> QED
    BY <2>2, <2>3
<1>4. sum({}) = 0 \/ S = {}
  BY <1>2 DEF IsSum
<1>5. ASSUME NEW s \in SUBSET S, s # {}
      PROVE  g[s \ {First(s)}] = sum(s \ {First(s)})
  <2> DEFINE r == s \ {First(s)}
  <2>1. r \in SUBSET S /\ r # S /\ S # {}
    BY <1>5, FirstIsMember
  <2>2. CASE r = {}
    BY <1>4, <2>1, <2>2
  <2>3. CASE r # {}
    BY <1>3, <2>1, <2>3
  <2> QED
    BY <2>2, <2>3
<1>6. IsSum(fun, S, g)
  <2> HIDE DEF sum
  <2>1. g = [s \in SUBSET S |->
                IF s = {} THEN 0 ELSE fun[First(s)] + g[s \ {First(s)}]]
    BY <1>5
  <2> QED
    BY <2>1 DEF IsSum
<1> QED
  BY <1>6

LEMMA SumOfNone == \A fun : SumFunctionOnSet(fun, {}) = 0
<1> TAKE fun
<1>1. IsSum(fun, {}, CHOOSE g : IsSum(fun, {}, g))
  BY SumExists, FS_EmptySet
<1> QED
  BY <1>1, SumIsChosen DEF IsSum

LEMMA SumOfSome ==
  ASSUME NEW fun, NEW S, IsFiniteSet(S), S # {}
  PROVE  SumFunctionOnSet(fun, S) = fun[First(S)] + SumFunctionOnSet(fun, S \ {First(S)})
<1> DEFINE r == S \ {First(S)}
           G(T) == CHOOSE g : IsSum(fun, T, g)
<1>1. First(S) \in S /\ r \in SUBSET S /\ IsFiniteSet(r)
  BY FirstIsMember, FS_Subset
<1>2. IsSum(fun, S, G(S)) /\ IsSum(fun, r, G(r))
  BY <1>1, SumExists
<1> HIDE DEF G
<1>3. G(S)[S] = fun[First(S)] + G(S)[r]
  BY <1>2 DEF IsSum
<1>4. G(S)[r] = G(r)[r]
  BY <1>1, <1>2, SumIsUnique
<1>5. SumFunctionOnSet(fun, S) = G(S)[S] /\ SumFunctionOnSet(fun, r) = G(r)[r]
  BY SumIsChosen DEF G
<1> QED
  BY <1>3, <1>4, <1>5

-----------------------------------------------------------------------------
\* A sum of natural numbers is one.
LEMMA SumIsNat ==
  ASSUME NEW fun, NEW S, IsFiniteSet(S), \A x \in S : fun[x] \in Nat
  PROVE  SumFunctionOnSet(fun, S) \in Nat
<1> DEFINE Wrong == { s \in SUBSET S : SumFunctionOnSet(fun, s) \notin Nat }
<1> SUFFICES ASSUME Wrong # {}
             PROVE  FALSE
  OBVIOUS
<1>1. PICK s \in Wrong : \A t \in Wrong : t \subseteq s => t = s
  <2>1. Wrong \subseteq SUBSET S
    OBVIOUS
  <2> HIDE DEF Wrong
  <2> QED
    BY <2>1, SmallestSet
<1>2. s # {}
  BY SumOfNone
<1>3. IsFiniteSet(s) /\ First(s) \in s
  BY <1>2, FirstIsMember, FS_Subset
<1>4. SumFunctionOnSet(fun, s) = fun[First(s)] + SumFunctionOnSet(fun, s \ {First(s)})
  BY <1>2, <1>3, SumOfSome
<1>5. SumFunctionOnSet(fun, s \ {First(s)}) \in Nat
  BY <1>1, <1>3
<1> QED
  BY <1>3, <1>4, <1>5

\* Only the values on the set count.
LEMMA SumAgrees ==
  ASSUME NEW fun, NEW gun, NEW S, IsFiniteSet(S), \A x \in S : fun[x] = gun[x]
  PROVE  SumFunctionOnSet(fun, S) = SumFunctionOnSet(gun, S)
<1> DEFINE Wrong ==
               { s \in SUBSET S : SumFunctionOnSet(fun, s) # SumFunctionOnSet(gun, s) }
<1> SUFFICES ASSUME Wrong # {}
             PROVE  FALSE
  OBVIOUS
<1>1. PICK s \in Wrong : \A t \in Wrong : t \subseteq s => t = s
  <2>1. Wrong \subseteq SUBSET S
    OBVIOUS
  <2> HIDE DEF Wrong
  <2> QED
    BY <2>1, SmallestSet
<1>2. s # {}
  BY SumOfNone
<1>3. IsFiniteSet(s) /\ First(s) \in s
  BY <1>2, FirstIsMember, FS_Subset
<1>4. /\ SumFunctionOnSet(fun, s) = fun[First(s)] + SumFunctionOnSet(fun, s \ {First(s)})
      /\ SumFunctionOnSet(gun, s) = gun[First(s)] + SumFunctionOnSet(gun, s \ {First(s)})
  BY <1>2, <1>3, SumOfSome
<1>5. SumFunctionOnSet(fun, s \ {First(s)}) = SumFunctionOnSet(gun, s \ {First(s)})
  BY <1>1, <1>3
<1> QED
  BY <1>3, <1>4, <1>5

\* Two sums that differ in one place differ by what is different there.
LEMMA SumWithChange ==
  ASSUME NEW fun, NEW gun, NEW S, IsFiniteSet(S), NEW x \in S,
         \A y \in S : fun[y] \in Nat /\ gun[y] \in Nat,
         \A y \in S : y # x => fun[y] = gun[y]
  PROVE  SumFunctionOnSet(gun, S) + fun[x] = SumFunctionOnSet(fun, S) + gun[x]
<1> DEFINE Differ(s) ==
               SumFunctionOnSet(gun, s) + fun[x] = SumFunctionOnSet(fun, s) + gun[x]
           Wrong == { s \in SUBSET S : x \in s /\ ~Differ(s) }
<1> SUFFICES ASSUME Wrong # {}
             PROVE  FALSE
  OBVIOUS
<1>1. PICK s \in Wrong : \A t \in Wrong : t \subseteq s => t = s
  <2>1. Wrong \subseteq SUBSET S
    OBVIOUS
  <2> HIDE DEF Wrong
  <2> QED
    BY <2>1, SmallestSet
<1> DEFINE f == First(s)
           r == s \ {f}
<1>2. /\ s # {} /\ IsFiniteSet(s) /\ f \in s /\ s \subseteq S
      /\ IsFiniteSet(r) /\ r \subseteq S
  BY FirstIsMember, FS_Subset
<1>3. /\ SumFunctionOnSet(fun, s) = fun[f] + SumFunctionOnSet(fun, r)
      /\ SumFunctionOnSet(gun, s) = gun[f] + SumFunctionOnSet(gun, r)
  BY <1>2, SumOfSome
<1>4. /\ SumFunctionOnSet(fun, r) \in Nat /\ SumFunctionOnSet(gun, r) \in Nat
      /\ fun[f] \in Nat /\ gun[f] \in Nat /\ fun[x] \in Nat /\ gun[x] \in Nat
  BY <1>2, SumIsNat
<1>5. SumFunctionOnSet(gun, s) + fun[x] # SumFunctionOnSet(fun, s) + gun[x]
  OBVIOUS
<1>6. CASE f = x
  <2>1. SumFunctionOnSet(fun, r) = SumFunctionOnSet(gun, r)
    BY <1>2, <1>6, SumAgrees
  <2> QED
    BY <1>3, <1>4, <1>5, <1>6, <2>1
<1>7. CASE f # x
  <2>1. SumFunctionOnSet(gun, r) + fun[x] = SumFunctionOnSet(fun, r) + gun[x]
    BY <1>1, <1>2, <1>7
  <2>2. fun[f] = gun[f]
    BY <1>2, <1>7
  <2> QED
    BY <1>3, <1>4, <1>5, <2>1, <2>2
<1> QED
  BY <1>6, <1>7

\* A sum is at most as large as all of its terms at their largest.
LEMMA SumIsBounded ==
  ASSUME NEW fun, NEW S, IsFiniteSet(S), NEW most \in Nat,
         \A x \in S : fun[x] \in Nat /\ fun[x] <= most
  PROVE  SumFunctionOnSet(fun, S) <= most * Cardinality(S)
<1> DEFINE Wrong ==
               { s \in SUBSET S : ~(SumFunctionOnSet(fun, s) <= most * Cardinality(s)) }
<1> SUFFICES ASSUME Wrong # {}
             PROVE  FALSE
  OBVIOUS
<1>1. PICK s \in Wrong : \A t \in Wrong : t \subseteq s => t = s
  <2>1. Wrong \subseteq SUBSET S
    OBVIOUS
  <2> HIDE DEF Wrong
  <2> QED
    BY <2>1, SmallestSet
<1> DEFINE f == First(s)
           r == s \ {f}
<1>2. s # {}
  <2>1. SumFunctionOnSet(fun, {}) = 0 /\ Cardinality({}) = 0 /\ most * 0 = 0
    BY SumOfNone, FS_EmptySet
  <2>2. SumFunctionOnSet(fun, {}) <= most * Cardinality({})
    BY <2>1
  <2> QED
    BY <2>2
<1>3. /\ IsFiniteSet(s) /\ f \in s /\ s \subseteq S
      /\ IsFiniteSet(r) /\ r \subseteq S
  BY <1>2, FirstIsMember, FS_Subset
<1>4. SumFunctionOnSet(fun, s) = fun[f] + SumFunctionOnSet(fun, r)
  BY <1>2, <1>3, SumOfSome
<1>5. SumFunctionOnSet(fun, r) \in Nat /\ fun[f] \in Nat /\ fun[f] <= most
  BY <1>3, SumIsNat
<1>6. SumFunctionOnSet(fun, r) <= most * Cardinality(r)
  BY <1>1, <1>3
<1>7. Cardinality(r) \in Nat /\ Cardinality(s) = Cardinality(r) + 1
  BY <1>3, FS_RemoveElement, FS_CardinalityType
<1>8. most * Cardinality(s) = most * Cardinality(r) + most /\ most * Cardinality(r) \in Nat
  BY <1>7
<1>9. ~(SumFunctionOnSet(fun, s) <= most * Cardinality(s))
  OBVIOUS
<1> QED
  BY <1>4, <1>5, <1>6, <1>8, <1>9

LEMMA SumOfZeros ==
  ASSUME NEW fun, NEW S, IsFiniteSet(S), \A x \in S : fun[x] = 0
  PROVE  SumFunctionOnSet(fun, S) = 0
<1>1. SumFunctionOnSet(fun, S) \in Nat
  BY SumIsNat
<1>2. SumFunctionOnSet(fun, S) <= 0 * Cardinality(S)
  BY SumIsBounded
<1>3. 0 * Cardinality(S) = 0
  BY FS_CardinalityType
<1> QED
  BY <1>1, <1>2, <1>3

LEMMA SumOfSums ==
  ASSUME NEW fun, NEW gun, NEW S, IsFiniteSet(S),
         \A x \in S : fun[x] \in Nat /\ gun[x] \in Nat
  PROVE  SumFunctionOnSet([x \in S |-> fun[x] + gun[x]], S)
            = SumFunctionOnSet(fun, S) + SumFunctionOnSet(gun, S)
<1> DEFINE both == [x \in S |-> fun[x] + gun[x]]
           Adds(s) == SumFunctionOnSet(both, s)
                         = SumFunctionOnSet(fun, s) + SumFunctionOnSet(gun, s)
           Wrong == { s \in SUBSET S : ~Adds(s) }
<1> SUFFICES ASSUME Wrong # {}
             PROVE  FALSE
  OBVIOUS
<1>1. PICK s \in Wrong : \A t \in Wrong : t \subseteq s => t = s
  <2>1. Wrong \subseteq SUBSET S
    OBVIOUS
  <2> HIDE DEF Wrong
  <2> QED
    BY <2>1, SmallestSet
<1> DEFINE f == First(s)
           r == s \ {f}
<1>2. \A x \in S : both[x] = fun[x] + gun[x]
  OBVIOUS
<1> HIDE DEF both
<1>3. s # {}
  <2>1. Adds({})
    BY SumOfNone
  <2> QED
    BY <2>1
<1>4. /\ IsFiniteSet(s) /\ f \in s /\ s \subseteq S
      /\ IsFiniteSet(r) /\ r \subseteq S
  BY <1>3, FirstIsMember, FS_Subset
<1>5. Adds(r) /\ ~Adds(s)
  BY <1>1, <1>4
<1>6. /\ fun[f] \in Nat /\ gun[f] \in Nat /\ both[f] = fun[f] + gun[f]
      /\ SumFunctionOnSet(fun, r) \in Nat /\ SumFunctionOnSet(gun, r) \in Nat
  BY <1>4, <1>2, SumIsNat
<1>7. /\ SumFunctionOnSet(fun, s) = fun[f] + SumFunctionOnSet(fun, r)
      /\ SumFunctionOnSet(gun, s) = gun[f] + SumFunctionOnSet(gun, r)
      /\ SumFunctionOnSet(both, s) = both[f] + SumFunctionOnSet(both, r)
  BY <1>3, <1>4, SumOfSome
<1> QED
  BY <1>5, <1>6, <1>7
-----------------------------------------------------------------------------
\* The same for integers.
LEMMA SumIsInt ==
  ASSUME NEW fun, NEW S, IsFiniteSet(S), \A x \in S : fun[x] \in Int
  PROVE  SumFunctionOnSet(fun, S) \in Int
<1> DEFINE Wrong == { s \in SUBSET S : SumFunctionOnSet(fun, s) \notin Int }
<1> SUFFICES ASSUME Wrong # {}
             PROVE  FALSE
  OBVIOUS
<1>1. PICK s \in Wrong : \A t \in Wrong : t \subseteq s => t = s
  <2>1. Wrong \subseteq SUBSET S
    OBVIOUS
  <2> HIDE DEF Wrong
  <2> QED
    BY <2>1, SmallestSet
<1>2. s # {}
  BY SumOfNone
<1>3. IsFiniteSet(s) /\ First(s) \in s
  BY <1>2, FirstIsMember, FS_Subset
<1>4. SumFunctionOnSet(fun, s) = fun[First(s)] + SumFunctionOnSet(fun, s \ {First(s)})
  BY <1>2, <1>3, SumOfSome
<1>5. SumFunctionOnSet(fun, s \ {First(s)}) \in Int
  BY <1>1, <1>3
<1> QED
  BY <1>3, <1>4, <1>5

\* Any element may be taken out of a sum, and not only the first.
LEMMA SumWithoutOne ==
  ASSUME NEW fun, NEW S, IsFiniteSet(S), \A x \in S : fun[x] \in Int, NEW x \in S
  PROVE  SumFunctionOnSet(fun, S) = fun[x] + SumFunctionOnSet(fun, S \ {x})
<1> DEFINE Parts(s, y) ==
               SumFunctionOnSet(fun, s) = fun[y] + SumFunctionOnSet(fun, s \ {y})
           Wrong == { s \in SUBSET S : \E y \in s : ~Parts(s, y) }
<1> SUFFICES ASSUME Wrong # {}
             PROVE  FALSE
  OBVIOUS
<1>1. PICK s \in Wrong : \A t \in Wrong : t \subseteq s => t = s
  <2>1. Wrong \subseteq SUBSET S
    OBVIOUS
  <2> HIDE DEF Wrong
  <2> QED
    BY <2>1, SmallestSet
<1> HIDE DEF Parts
<1>2. PICK y \in s : ~Parts(s, y)
  OBVIOUS
<1> DEFINE f == First(s)
           r == s \ {f}
           q == s \ {y}
           both == r \ {y}
<1>3. /\ s # {} /\ IsFiniteSet(s) /\ f \in s /\ s \subseteq S
      /\ IsFiniteSet(r) /\ r \subseteq S /\ IsFiniteSet(q) /\ q \subseteq S
      /\ IsFiniteSet(both) /\ both \subseteq S
  BY FirstIsMember, FS_Subset
<1>4. SumFunctionOnSet(fun, s) = fun[f] + SumFunctionOnSet(fun, r)
  BY <1>3, SumOfSome
<1>5. f # y
  BY <1>2, <1>4 DEF Parts
<1>6. y \in r /\ f \in q /\ r # s /\ q # s /\ q \ {f} = both
  BY <1>3, <1>5
<1>7. Parts(r, y) /\ Parts(q, f)
  BY <1>1, <1>3, <1>6
<1>8. /\ SumFunctionOnSet(fun, r) = fun[y] + SumFunctionOnSet(fun, both)
      /\ SumFunctionOnSet(fun, q) = fun[f] + SumFunctionOnSet(fun, both)
  BY <1>6, <1>7 DEF Parts
<1>9. fun[f] \in Int /\ fun[y] \in Int /\ SumFunctionOnSet(fun, both) \in Int
  BY <1>3, SumIsInt
<1>10. SumFunctionOnSet(fun, s) = fun[y] + SumFunctionOnSet(fun, q)
  BY <1>4, <1>8, <1>9
<1> QED
  BY <1>2, <1>10 DEF Parts

\* The sum over the first n + 1 numbers is that over the first n, and one more.
LEMMA SumUpTo ==
  ASSUME NEW fun, NEW gun, NEW n \in Nat,
         \A i \in 1 .. n + 1 : fun[i] \in Int,
         \A i \in 1 .. n : gun[i] = fun[i]
  PROVE  SumFunctionOnSet(fun, 1 .. n + 1) = SumFunctionOnSet(gun, 1 .. n) + fun[n + 1]
<1>1. IsFiniteSet(1 .. n) /\ IsFiniteSet(1 .. n + 1)
  BY FS_Interval
<1>2. n + 1 \in 1 .. n + 1 /\ (1 .. n + 1) \ {n + 1} = 1 .. n
  OBVIOUS
<1>3. SumFunctionOnSet(fun, 1 .. n + 1) = fun[n + 1] + SumFunctionOnSet(fun, 1 .. n)
  BY <1>1, <1>2, SumWithoutOne
<1>4. SumFunctionOnSet(fun, 1 .. n) = SumFunctionOnSet(gun, 1 .. n)
  BY <1>1, SumAgrees
<1>5. SumFunctionOnSet(fun, 1 .. n) \in Int /\ fun[n + 1] \in Int
  BY <1>1, <1>2, SumIsInt
<1> QED
  BY <1>3, <1>4, <1>5

Reorders(p, S) ==
    /\ \A x \in S : p[x] \in S
    /\ \A x, y \in S : p[x] = p[y] => x = y
    /\ \A y \in S : \E x \in S : p[x] = y

\* A sum is the same in any order: p says where each term comes from.
LEMMA SumReordered ==
  ASSUME NEW fun, NEW gun, NEW S, IsFiniteSet(S), NEW p, Reorders(p, S),
         \A y \in S : fun[y] \in Int,
         \A x \in S : gun[x] = fun[p[x]]
  PROVE  SumFunctionOnSet(gun, S) = SumFunctionOnSet(fun, S)
<1> DEFINE To(s) == { p[x] : x \in s }
           Same(s) == SumFunctionOnSet(gun, s) = SumFunctionOnSet(fun, To(s))
           Wrong == { s \in SUBSET S : ~Same(s) }
<1>1. SUFFICES Wrong = {}
  <2>1. S \in SUBSET S /\ To(S) = S
    BY DEF Reorders
  <2> QED
    BY <1>1, <2>1
<1> SUFFICES ASSUME Wrong # {}
             PROVE  FALSE
  OBVIOUS
<1>2. PICK s \in Wrong : \A t \in Wrong : t \subseteq s => t = s
  <2>1. Wrong \subseteq SUBSET S
    OBVIOUS
  <2> HIDE DEF Wrong
  <2> QED
    BY <2>1, SmallestSet
<1> DEFINE f == First(s)
           r == s \ {f}
<1>3. s # {}
  <2>1. To({}) = {}
    OBVIOUS
  <2>2. Same({})
    BY <2>1, SumOfNone
  <2> QED
    BY <2>2
<1>4. /\ IsFiniteSet(s) /\ f \in s /\ s \subseteq S /\ r \subseteq S
  BY <1>3, FirstIsMember, FS_Subset
<1>5. SumFunctionOnSet(gun, s) = gun[f] + SumFunctionOnSet(gun, r)
  BY <1>3, <1>4, SumOfSome
<1>6. Same(r) /\ ~Same(s)
  BY <1>2, <1>4
<1> HIDE DEF f
<1>7. /\ IsFiniteSet(To(s)) /\ To(s) \subseteq S /\ p[f] \in To(s)
      /\ To(s) \ {p[f]} = To(r)
  <2>1. To(s) \subseteq S /\ p[f] \in To(s) /\ To(s) \ {p[f]} = To(r)
    BY <1>4 DEF Reorders
  <2> QED
    BY <2>1, FS_Subset
<1>8. SumFunctionOnSet(fun, To(s)) = fun[p[f]] + SumFunctionOnSet(fun, To(r))
  <2> DEFINE all == To(s)
             rest == To(r)
             y == p[f]
  <2>1. /\ IsFiniteSet(all) /\ y \in all /\ all \ {y} = rest
        /\ \A x \in all : fun[x] \in Int
    BY <1>7
  <2> HIDE DEF all, rest, y
  <2>2. SumFunctionOnSet(fun, all) = fun[y] + SumFunctionOnSet(fun, all \ {y})
    BY <2>1, SumWithoutOne
  <2> QED
    BY <2>1, <2>2 DEF all, rest, y
<1>9. gun[f] = fun[p[f]]
  BY <1>4
<1> QED
  BY <1>5, <1>6, <1>8, <1>9

AreSquares(fun, sq, diff, S, c, a) ==
    \A x \in S : /\ fun[x] \in Int /\ sq[x] = fun[x] * fun[x]
                 /\ diff[x] = (c * fun[x] - a) * (c * fun[x] - a)

\* Differences from a number, squared and added, by the sums of the terms and
\* of their squares.
LEMMA SumOfSquaredDifferences ==
  ASSUME NEW fun, NEW sq, NEW diff, NEW S, IsFiniteSet(S), NEW c \in Int, NEW a \in Int,
         AreSquares(fun, sq, diff, S, c, a)
  PROVE  SumFunctionOnSet(diff, S)
            = (c * c) * SumFunctionOnSet(sq, S)
              - (2 * (c * a)) * SumFunctionOnSet(fun, S) + (a * a) * Cardinality(S)
<1> DEFINE Expands(s) == SumFunctionOnSet(diff, s)
              = (c * c) * SumFunctionOnSet(sq, s)
                - (2 * (c * a)) * SumFunctionOnSet(fun, s) + (a * a) * Cardinality(s)
           Wrong == { s \in SUBSET S : ~Expands(s) }
<1> SUFFICES ASSUME Wrong # {}
             PROVE  FALSE
  OBVIOUS
<1>1. PICK s \in Wrong : \A t \in Wrong : t \subseteq s => t = s
  <2>1. Wrong \subseteq SUBSET S
    OBVIOUS
  <2> HIDE DEF Wrong
  <2> QED
    BY <2>1, SmallestSet
<1> DEFINE f == First(s)
           r == s \ {f}
<1>2. s # {}
  <2>1. /\ SumFunctionOnSet(fun, {}) = 0 /\ SumFunctionOnSet(sq, {}) = 0
        /\ SumFunctionOnSet(diff, {}) = 0 /\ Cardinality({}) = 0
    BY SumOfNone, FS_EmptySet
  <2>2. /\ c * c \in Int /\ 2 * (c * a) \in Int /\ a * a \in Int
        /\ \A x \in Int : x * 0 = 0
    OBVIOUS
  <2>3. Expands({})
    BY <2>1, <2>2
  <2> QED
    BY <2>3
<1>3. /\ IsFiniteSet(s) /\ f \in s /\ s \subseteq S
      /\ IsFiniteSet(r) /\ r \subseteq S
  BY <1>2, FirstIsMember, FS_Subset
<1>4. /\ SumFunctionOnSet(fun, s) = fun[f] + SumFunctionOnSet(fun, r)
      /\ SumFunctionOnSet(sq, s) = sq[f] + SumFunctionOnSet(sq, r)
      /\ SumFunctionOnSet(diff, s) = diff[f] + SumFunctionOnSet(diff, r)
  BY <1>2, <1>3, SumOfSome
<1>5. /\ SumFunctionOnSet(fun, r) \in Int /\ SumFunctionOnSet(sq, r) \in Int
      /\ fun[f] \in Int /\ sq[f] = fun[f] * fun[f]
      /\ diff[f] = (c * fun[f] - a) * (c * fun[f] - a)
  <2>1. \A x \in r : fun[x] \in Int /\ sq[x] \in Int
    BY <1>3 DEF AreSquares
  <2> QED
    BY <1>3, <2>1, SumIsInt DEF AreSquares
<1>6. Expands(r) /\ ~Expands(s)
  BY <1>1, <1>3
<1>7. Cardinality(r) \in Nat /\ Cardinality(s) = Cardinality(r) + 1
  BY <1>3, FS_RemoveElement, FS_CardinalityType
<1>8. \A x, t, q \in Int : \A k \in Nat :
         (c * x - a) * (c * x - a)
            + ((c * c) * q - (2 * (c * a)) * t + (a * a) * k)
         = (c * c) * (x * x + q) - (2 * (c * a)) * (x + t) + (a * a) * (k + 1)
  OBVIOUS
<1> HIDE DEF f, r
<1>9. diff[f] + SumFunctionOnSet(diff, r)
         = (c * c) * (sq[f] + SumFunctionOnSet(sq, r))
           - (2 * (c * a)) * (fun[f] + SumFunctionOnSet(fun, r))
           + (a * a) * (Cardinality(r) + 1)
  BY <1>5, <1>6, <1>7, <1>8
<1> QED
  BY <1>4, <1>6, <1>7, <1>9
=============================================================================
