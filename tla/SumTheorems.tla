----------------------------- MODULE SumTheorems -----------------------------
(***************************************************************************)
(* What SumFunctionOnSet(f, S) is for every finite set S: the lemmas the   *)
(* proofs about totals rest on.  The library's sum is a recursive          *)
(* function over the subsets of S that removes a chosen element at each    *)
(* step; that such a function exists, and that it does not matter which    *)
(* element is removed, are inductions over the size of a subset.  An       *)
(* induction is an argument from the least size that would fail.           *)
(***************************************************************************)
EXTENDS Integers, Functions, FiniteSetTheorems, NaturalsInduction,
        WellFoundedInduction, TLAPS

(* A set of natural numbers has a least element. *)
LEMMA NatHasMinimum ==
    ASSUME NEW T \in SUBSET Nat, T # {}
    PROVE  \E x \in T : \A y \in T : x <= y
<1> DEFINE R == OpToRel(<, Nat)
<1>1. PICK x \in T : \A y \in T : <<y, x>> \notin R
  <2>1. IsWellFoundedOn(R, Nat)
    BY NatLessThanWellFounded
  <2> HIDE DEF R
  <2> QED
    BY <2>1, WFMin
<1>2. \A y \in T : ~(y < x)
  BY <1>1 DEF OpToRel
<1> QED
  BY <1>2

-----------------------------------------------------------------------------
(* The recursion. *)

Picked(s) == CHOOSE x \in s : TRUE

SumStep(f, it, s) == IF s = {} THEN 0 ELSE f[Picked(s)] + it[s \ {Picked(s)}]

(* it is the library's recursive function, on the sets of D. *)
IsSumOn(D, f, it) == it = [s \in D |-> SumStep(f, it, s)]

IsSum(S, f, it) == IsSumOn(SUBSET S, f, it)

SubsetsUpTo(S, n) == {s \in SUBSET S : Cardinality(s) <= n}

LEMMA SubsetSize ==
    ASSUME NEW S, IsFiniteSet(S), NEW s \in SUBSET S
    PROVE  /\ IsFiniteSet(s)
           /\ Cardinality(s) \in Nat
           /\ Cardinality(s) <= Cardinality(S)
           /\ s = {} <=> Cardinality(s) = 0
  BY FS_Subset, FS_CardinalityType, FS_EmptySet

LEMMA SubsetLess ==
    ASSUME NEW S, IsFiniteSet(S), NEW s \in SUBSET S, NEW x \in s
    PROVE  /\ s \ {x} \in SUBSET S
           /\ Cardinality(s \ {x}) = Cardinality(s) - 1
  BY FS_Subset, FS_RemoveElement

LEMMA PickedIsIn == ASSUME NEW s, s # {} PROVE Picked(s) \in s
  BY DEF Picked

LEMMA SumExistsNext ==
    ASSUME NEW S, IsFiniteSet(S), NEW f, NEW n \in Nat, NEW g,
           IsSumOn(SubsetsUpTo(S, n), f, g)
    PROVE  \E it : IsSumOn(SubsetsUpTo(S, n + 1), f, it)
<1> DEFINE D == SubsetsUpTo(S, n)
           E == SubsetsUpTo(S, n + 1)
           h == [s \in E |-> SumStep(f, g, s)]
<1>1. D \subseteq E
  BY SubsetSize DEF SubsetsUpTo
<1>2. \A s \in D : h[s] = g[s]
  BY <1>1 DEF IsSumOn
<1>3. ASSUME NEW s \in E PROVE SumStep(f, g, s) = SumStep(f, h, s)
  <2>1. CASE s = {}
    BY <2>1 DEF SumStep
  <2>2. CASE s # {}
    <3>1. s \ {Picked(s)} \in D
      BY <2>2, PickedIsIn, SubsetSize, SubsetLess DEF SubsetsUpTo
    <3> QED
      BY <3>1, <1>2 DEF SumStep
  <2> QED
    BY <2>1, <2>2
<1>4. h = [s \in E |-> SumStep(f, h, s)]
  <2> HIDE DEF E
  <2>1. h = [s \in E |-> SumStep(f, g, s)]
    OBVIOUS
  <2> HIDE DEF h
  <2> QED
    BY <2>1, <1>3
<1> QED
  BY <1>4 DEF IsSumOn

LEMMA SumExists ==
    ASSUME NEW S, IsFiniteSet(S), NEW f
    PROVE  \E it : IsSum(S, f, it)
<1> DEFINE Bad == {n \in Nat : ~\E it : IsSumOn(SubsetsUpTo(S, n), f, it)}
<1>1. Bad = {}
  <2> SUFFICES ASSUME Bad # {} PROVE FALSE
    OBVIOUS
  <2>1. PICK n \in Bad : \A m \in Bad : n <= m
    BY NatHasMinimum
  <2>2. CASE n = 0
    <3>1. \A s \in SubsetsUpTo(S, 0) : s = {}
      BY SubsetSize DEF SubsetsUpTo
    <3>2. [s \in SubsetsUpTo(S, 0) |-> 0] =
              [s \in SubsetsUpTo(S, 0) |->
                  SumStep(f, [t \in SubsetsUpTo(S, 0) |-> 0], s)]
      BY <3>1 DEF SumStep
    <3> QED
      BY <3>2, <2>1, <2>2 DEF IsSumOn
  <2>3. CASE n # 0
    <3>1. n - 1 \in Nat /\ (n - 1) + 1 = n
      BY <2>3
    <3>2. PICK g : IsSumOn(SubsetsUpTo(S, n - 1), f, g)
      BY <3>1, <2>1
    <3>3. \E it : IsSumOn(SubsetsUpTo(S, (n - 1) + 1), f, it)
      BY <3>1, <3>2, SumExistsNext
    <3> QED
      BY <3>1, <3>3, <2>1
  <2> QED
    BY <2>2, <2>3
<1>2. \A n \in Nat : \E it : IsSumOn(SubsetsUpTo(S, n), f, it)
  BY <1>1
<1>3. SubsetsUpTo(S, Cardinality(S)) = SUBSET S
  BY SubsetSize DEF SubsetsUpTo
<1>4. Cardinality(S) \in Nat
  BY FS_CardinalityType
<1>5. \E it : IsSumOn(SubsetsUpTo(S, Cardinality(S)), f, it)
  BY <1>2, <1>4
<1> QED
  BY <1>3, <1>5 DEF IsSum

(* Named, so that a lemma is cited by its names alone. *)
Agree(T, f, g) == \A x \in T : f[x] = g[x]
NatOn(S, f) == \A x \in S : f[x] \in Nat
AtMost(S, f, g) == \A x \in S : f[x] <= g[x]
EqualOn(T, a, b) == \A s \in SUBSET T : a[s] = b[s]
IsTotal(S, f, it) ==
    /\ it[{}] = 0
    /\ \A s \in SUBSET S : it[s] \in Nat
    /\ \A s \in SUBSET S : \A x \in s : it[s] = f[x] + it[s \ {x}]

(* The recursion says what its function is: two functions that agree on T  *)
(* have the same totals on the subsets of T.                               *)
LEMMA SumUnique ==
    ASSUME NEW S, NEW T, IsFiniteSet(T), T \subseteq S,
           NEW f, NEW g, Agree(T, f, g),
           NEW a, IsSum(S, f, a),
           NEW b, IsSum(T, g, b)
    PROVE  EqualOn(T, a, b)
<1> DEFINE Bad == {n \in Nat :
                      \E s \in SUBSET T : Cardinality(s) = n /\ a[s] # b[s]}
<1>1. ASSUME NEW s \in SUBSET T
      PROVE  a[s] = SumStep(f, a, s) /\ b[s] = SumStep(g, b, s)
  <2>1. s \in SUBSET S
    OBVIOUS
  <2> QED
    BY <2>1 DEF IsSum, IsSumOn
<1>2. Bad = {}
  <2> SUFFICES ASSUME Bad # {} PROVE FALSE
    OBVIOUS
  <2>1. PICK n \in Bad : \A m \in Bad : n <= m
    BY NatHasMinimum
  <2>2. PICK s \in SUBSET T : Cardinality(s) = n /\ a[s] # b[s]
    BY <2>1
  <2>3. s # {}
    BY <2>2, <1>1 DEF SumStep
  <2> DEFINE x == Picked(s)
  <2>4. x \in s
    BY <2>3, PickedIsIn
  <2>5. s \ {x} \in SUBSET T /\ Cardinality(s \ {x}) = n - 1 /\ n - 1 \in Nat
    BY <2>2, <2>4, SubsetLess, SubsetSize
  <2>6. a[s \ {x}] = b[s \ {x}]
    BY <2>1, <2>5
  <2>7. f[x] = g[x]
    BY <2>4 DEF Agree
  <2>8. a[s] = f[x] + a[s \ {x}] /\ b[s] = g[x] + b[s \ {x}]
    BY <1>1, <2>3 DEF SumStep
  <2> QED
    BY <2>2, <2>6, <2>7, <2>8
<1>3. \A s \in SUBSET T : Cardinality(s) \in Nat
  BY SubsetSize
<1> QED
  BY <1>2, <1>3 DEF EqualOn

(* A total of natural numbers is one, and any element may be removed.      *)
LEMMA SumOrder ==
    ASSUME NEW S, IsFiniteSet(S), NEW f, NatOn(S, f),
           NEW it, IsSum(S, f, it)
    PROVE  IsTotal(S, f, it)
<1> DEFINE Good(s) == /\ it[s] \in Nat
                      /\ \A x \in s : it[s] = f[x] + it[s \ {x}]
           Bad == {n \in Nat : \E s \in SUBSET S : Cardinality(s) = n /\ ~Good(s)}
<1>1. \A s \in SUBSET S : it[s] = SumStep(f, it, s)
  BY DEF IsSum, IsSumOn
<1>2. it[{}] = 0
  <2>1. {} \in SUBSET S
    OBVIOUS
  <2> QED
    BY <2>1, <1>1 DEF SumStep
<1>3. Bad = {}
  <2> SUFFICES ASSUME Bad # {} PROVE FALSE
    OBVIOUS
  <2>1. PICK n \in Bad : \A m \in Bad : n <= m
    BY NatHasMinimum
  <2>2. PICK s \in SUBSET S : Cardinality(s) = n /\ ~Good(s)
    BY <2>1
  <2>3. s # {}
    <3>1. Good({})
      BY <1>2
    <3> QED
      BY <2>2, <3>1
  <2>4. PICK y : y = Picked(s)
    OBVIOUS
  <2>5. y \in s /\ it[s] = f[y] + it[s \ {y}]
    BY <1>1, <2>3, <2>4, PickedIsIn DEF SumStep
  <2>6. ASSUME NEW t \in SUBSET S, NEW z \in s, t = s \ {z} PROVE Good(t)
    <3>1. Cardinality(t) = n - 1 /\ n - 1 \in Nat
      BY <2>2, <2>6, SubsetLess, SubsetSize
    <3> HIDE DEF Good
    <3> QED
      BY <2>1, <3>1
  <2>7. \A z \in s : s \ {z} \in SUBSET S /\ f[z] \in Nat
    BY DEF NatOn
  <2>8. \A z \in s : Good(s \ {z})
    BY <2>6, <2>7
  <2>9. it[s] \in Nat
    <3>1. f[y] \in Nat
      BY <2>5, <2>7
    <3>2. it[s \ {y}] \in Nat
      BY <2>5, <2>8
    <3> QED
      BY <2>5, <3>1, <3>2
  <2>10. ASSUME NEW x \in s PROVE it[s] = f[x] + it[s \ {x}]
    <3>1. CASE x = y
      BY <3>1, <2>5
    <3>2. CASE x # y
      <4>1. it[s \ {y}] = f[x] + it[(s \ {y}) \ {x}]
        BY <3>2, <2>5, <2>8
      <4>2. it[s \ {x}] = f[y] + it[(s \ {x}) \ {y}]
        BY <3>2, <2>5, <2>8
      <4>3. (s \ {y}) \ {x} = (s \ {x}) \ {y}
        OBVIOUS
      <4>4. it[(s \ {x}) \ {y}] \in Nat
        <5>1. it[s \ {x}] \in Nat /\ (s \ {x}) \ {y} \in SUBSET S
          BY <2>8
        <5>2. Cardinality((s \ {x}) \ {y}) = n - 2 /\ n - 2 \in Nat
          <6>1. s \ {x} \in SUBSET S /\ Cardinality(s \ {x}) = n - 1
            BY <2>2, SubsetLess
          <6>2. y \in s \ {x}
            BY <3>2, <2>5
          <6>3. Cardinality((s \ {x}) \ {y}) = (n - 1) - 1
            BY <6>1, <6>2, SubsetLess
          <6>4. Cardinality((s \ {x}) \ {y}) \in Nat
            BY <5>1, SubsetSize
          <6> QED
            BY <6>3, <6>4
        <5>3. Good((s \ {x}) \ {y})
          <6> HIDE DEF Good
          <6> QED
            BY <2>1, <5>1, <5>2
        <5> QED
          BY <5>3
      <4>5. PICK c \in Nat : c = it[(s \ {x}) \ {y}]
        BY <4>4
      <4>6. f[x] \in Nat /\ f[y] \in Nat
        BY <2>5, <2>7
      <4>7. it[s \ {y}] = f[x] + c /\ it[s \ {x}] = f[y] + c
        BY <4>1, <4>2, <4>3, <4>5
      <4>8. it[s] = f[y] + (f[x] + c)
        BY <2>5, <4>7
      <4> QED
        BY <4>6, <4>7, <4>8
    <3> QED
      BY <3>1, <3>2
  <2> QED
    BY <2>2, <2>9, <2>10
<1>4. \A s \in SUBSET S : Cardinality(s) \in Nat
  BY SubsetSize
<1> QED
  BY <1>2, <1>3, <1>4 DEF IsTotal

-----------------------------------------------------------------------------
(* The library's operator. *)

LEMMA SumIsIts ==
    ASSUME NEW S, IsFiniteSet(S), NEW f
    PROVE  \E it : IsSum(S, f, it) /\ SumFunctionOnSet(f, S) = it[S]
<1> DEFINE iter == CHOOSE it : it = [s \in SUBSET S |-> SumStep(f, it, s)]
<1>1. SumFunctionOnSet(f, S) = iter[S]
  BY DEF SumFunctionOnSet, FoldFunctionOnSet, MapThenFoldSet, SumStep, Picked
<1>2. iter = [s \in SUBSET S |-> SumStep(f, iter, s)]
  <2>1. \E it : it = [s \in SUBSET S |-> SumStep(f, it, s)]
    BY SumExists DEF IsSum, IsSumOn
  <2> QED
    BY <2>1
<1> HIDE DEF iter
<1> QED
  BY <1>1, <1>2 DEF IsSum, IsSumOn

(* The facts the proofs cite: the total of nothing is 0, a total of        *)
(* natural numbers is one, and it is any one value and the total of the    *)
(* others.                                                                 *)
LEMMA SumFacts ==
    ASSUME NEW S, IsFiniteSet(S), NEW f, NatOn(S, f)
    PROVE  /\ SumFunctionOnSet(f, S) \in Nat
           /\ S = {} => SumFunctionOnSet(f, S) = 0
           /\ \A x \in S : SumFunctionOnSet(f, S) =
                             f[x] + SumFunctionOnSet(f, S \ {x})
<1>1. PICK it : IsSum(S, f, it) /\ SumFunctionOnSet(f, S) = it[S]
  BY SumIsIts
<1>2. IsTotal(S, f, it)
  BY <1>1, SumOrder
<1>3. S \in SUBSET S
  OBVIOUS
<1>4. ASSUME NEW x \in S PROVE SumFunctionOnSet(f, S \ {x}) = it[S \ {x}]
  <2>1. S \ {x} \subseteq S /\ IsFiniteSet(S \ {x})
    BY FS_Subset
  <2>2. PICK b : /\ IsSum(S \ {x}, f, b)
                 /\ SumFunctionOnSet(f, S \ {x}) = b[S \ {x}]
    BY <2>1, SumIsIts
  <2>3. EqualOn(S \ {x}, it, b)
    <3>1. Agree(S \ {x}, f, f)
      BY DEF Agree
    <3> QED
      BY <1>1, <2>1, <2>2, <3>1, SumUnique
  <2> QED
    BY <2>2, <2>3 DEF EqualOn
<1> QED
  BY <1>1, <1>2, <1>3, <1>4 DEF IsTotal

(* Only the values on S count. *)
LEMMA SumCongruent ==
    ASSUME NEW S, IsFiniteSet(S), NEW f, NEW g, Agree(S, f, g)
    PROVE  SumFunctionOnSet(f, S) = SumFunctionOnSet(g, S)
<1>1. PICK a : IsSum(S, f, a) /\ SumFunctionOnSet(f, S) = a[S]
  BY SumIsIts
<1>2. PICK b : IsSum(S, g, b) /\ SumFunctionOnSet(g, S) = b[S]
  BY SumIsIts
<1>3. S \subseteq S /\ S \in SUBSET S
  OBVIOUS
<1>4. EqualOn(S, a, b)
  BY <1>1, <1>2, <1>3, SumUnique
<1> QED
  BY <1>1, <1>2, <1>3, <1>4 DEF EqualOn

(* A changed value changes the total by the difference. *)
LEMMA SumChanged ==
    ASSUME NEW S, IsFiniteSet(S), NEW y \in S,
           NEW f, NatOn(S, f), NEW g, NatOn(S, g), Agree(S \ {y}, g, f)
    PROVE  SumFunctionOnSet(g, S) = SumFunctionOnSet(f, S) - f[y] + g[y]
<1>1. IsFiniteSet(S \ {y}) /\ NatOn(S \ {y}, f)
  BY FS_Subset DEF NatOn
<1>2. SumFunctionOnSet(g, S \ {y}) = SumFunctionOnSet(f, S \ {y})
  BY <1>1, SumCongruent
<1>3. PICK rest \in Nat : rest = SumFunctionOnSet(f, S \ {y})
  BY <1>1, SumFacts
<1>4. SumFunctionOnSet(f, S) = f[y] + rest
  BY <1>3, SumFacts
<1>5. SumFunctionOnSet(g, S) = g[y] + rest
  BY <1>2, <1>3, SumFacts
<1>6. f[y] \in Nat /\ g[y] \in Nat
  BY DEF NatOn
<1> QED
  BY <1>3, <1>4, <1>5, <1>6

(* An element that joins adds its value. *)
LEMMA SumJoined ==
    ASSUME NEW S, IsFiniteSet(S), NEW y, y \notin S,
           NEW f, NatOn(S \cup {y}, f)
    PROVE  SumFunctionOnSet(f, S \cup {y}) = SumFunctionOnSet(f, S) + f[y]
<1>1. IsFiniteSet(S \cup {y}) /\ (S \cup {y}) \ {y} = S
  BY FS_AddElement
<1>2. SumFunctionOnSet(f, S \cup {y}) =
          f[y] + SumFunctionOnSet(f, (S \cup {y}) \ {y})
  BY <1>1, SumFacts
<1>3. PICK total \in Nat : total = SumFunctionOnSet(f, S)
  <2>1. NatOn(S, f)
    BY DEF NatOn
  <2> QED
    BY <2>1, SumFacts
<1>4. f[y] \in Nat
  BY DEF NatOn
<1>5. SumFunctionOnSet(f, S \cup {y}) = f[y] + total
  BY <1>1, <1>2, <1>3
<1> QED
  BY <1>3, <1>4, <1>5

(* The larger values have the larger total. *)
LEMMA SumMonotone ==
    ASSUME NEW S, IsFiniteSet(S),
           NEW f, NatOn(S, f), NEW g, NatOn(S, g), AtMost(S, f, g)
    PROVE  SumFunctionOnSet(f, S) <= SumFunctionOnSet(g, S)
<1> DEFINE Bad == {n \in Nat : \E s \in SUBSET S :
                      /\ Cardinality(s) = n
                      /\ ~(SumFunctionOnSet(f, s) <= SumFunctionOnSet(g, s))}
<1>1. ASSUME NEW s \in SUBSET S
      PROVE  /\ IsFiniteSet(s)
             /\ NatOn(s, f) /\ NatOn(s, g) /\ AtMost(s, f, g)
  BY SubsetSize DEF NatOn, AtMost
<1>2. Bad = {}
  <2> SUFFICES ASSUME Bad # {} PROVE FALSE
    OBVIOUS
  <2>1. PICK n \in Bad : \A m \in Bad : n <= m
    BY NatHasMinimum
  <2>2. PICK s \in SUBSET S :
            /\ Cardinality(s) = n
            /\ ~(SumFunctionOnSet(f, s) <= SumFunctionOnSet(g, s))
    BY <2>1
  <2>3. s # {}
    <3>1. SUFFICES ASSUME s = {} PROVE FALSE
      OBVIOUS
    <3>2. SumFunctionOnSet(f, s) = 0 /\ SumFunctionOnSet(g, s) = 0
      BY <1>1, <3>1, SumFacts
    <3> QED
      BY <2>2, <3>2
  <2>4. PICK x : x \in s
    BY <2>3
  <2>5. s \ {x} \in SUBSET S /\ Cardinality(s \ {x}) = n - 1 /\ n - 1 \in Nat
    BY <2>2, <2>4, SubsetLess, SubsetSize
  <2>6. SumFunctionOnSet(f, s \ {x}) <= SumFunctionOnSet(g, s \ {x})
    BY <2>1, <2>5
  <2>7. PICK a \in Nat, b \in Nat : /\ a = SumFunctionOnSet(f, s \ {x})
                                   /\ b = SumFunctionOnSet(g, s \ {x})
    BY <1>1, <2>5, SumFacts
  <2>8. SumFunctionOnSet(f, s) = f[x] + a /\ SumFunctionOnSet(g, s) = g[x] + b
    BY <1>1, <2>4, <2>7, SumFacts
  <2>9. f[x] \in Nat /\ g[x] \in Nat /\ f[x] <= g[x]
    BY <1>1, <2>4 DEF NatOn, AtMost
  <2> QED
    BY <2>2, <2>6, <2>7, <2>8, <2>9
<1>3. S \in SUBSET S /\ Cardinality(S) \in Nat
  BY FS_CardinalityType
<1> QED
  BY <1>2, <1>3

(* Nothing adds up to nothing. *)
LEMMA SumOfZeros ==
    ASSUME NEW S, IsFiniteSet(S), NEW f, \A x \in S : f[x] = 0
    PROVE  SumFunctionOnSet(f, S) = 0
<1> DEFINE Bad == {n \in Nat : \E s \in SUBSET S :
                      /\ Cardinality(s) = n
                      /\ SumFunctionOnSet(f, s) # 0}
<1>1. ASSUME NEW s \in SUBSET S
      PROVE  IsFiniteSet(s) /\ NatOn(s, f) /\ \A x \in s : f[x] = 0
  BY SubsetSize DEF NatOn
<1>2. Bad = {}
  <2> SUFFICES ASSUME Bad # {} PROVE FALSE
    OBVIOUS
  <2>1. PICK n \in Bad : \A m \in Bad : n <= m
    BY NatHasMinimum
  <2>2. PICK s \in SUBSET S : Cardinality(s) = n /\ SumFunctionOnSet(f, s) # 0
    BY <2>1
  <2>3. PICK x : x \in s
    BY <1>1, <2>2, SumFacts
  <2>4. s \ {x} \in SUBSET S /\ Cardinality(s \ {x}) = n - 1 /\ n - 1 \in Nat
    BY <2>2, <2>3, SubsetLess, SubsetSize
  <2>5. SumFunctionOnSet(f, s \ {x}) = 0
    BY <2>1, <2>4
  <2>6. SumFunctionOnSet(f, s) = f[x] + SumFunctionOnSet(f, s \ {x})
    BY <1>1, <2>3, SumFacts
  <2> QED
    BY <1>1, <2>2, <2>3, <2>5, <2>6
<1>3. S \in SUBSET S /\ Cardinality(S) \in Nat
  BY FS_CardinalityType
<1> QED
  BY <1>2, <1>3

=============================================================================
