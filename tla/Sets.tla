-------------------------------- MODULE Sets --------------------------------
(***************************************************************************)
(* What the proofs need to know of finite sets: induction for the set of   *)
(* the numbers that have a property, a set of rows put in order, the sum   *)
(* of a function over a set, and measures of what is left to do.           *)
(***************************************************************************)
EXTENDS Table, Sequences, Functions, FiniteSetTheorems, TLAPS

\* A set that has 0, and every successor of a number it has, has all numbers.
LEMMA NatSetInduction ==
  ASSUME NEW S, 0 \in S, \A n \in Nat : n \in S => n + 1 \in S
  PROVE  Nat \subseteq S
<1> SUFFICES ASSUME Nat \ S # {} PROVE FALSE
  OBVIOUS
<1> DEFINE R == OpToRel(<, Nat)
<1>1. IsWellFoundedOn(R, Nat)
  BY NatLessThanWellFounded
<1> HIDE DEF R
<1>2. PICK m \in Nat \ S : \A k \in Nat \ S : ~ (<<k, m>> \in R)
  BY <1>1, WFMin
<1>3. m # 0 /\ m - 1 \in Nat
  BY <1>2
<1>4. <<m - 1, m>> \in R
  BY <1>2, <1>3 DEF R, OpToRel
<1>5. m - 1 \in S
  BY <1>2, <1>3, <1>4
<1> QED
  BY <1>2, <1>3, <1>5

\* A set of numbers that is not empty has a smallest one.
LEMMA Smallest ==
  ASSUME NEW S \in SUBSET Nat, S # {}
  PROVE  \E m \in S : \A k \in S : m <= k
<1> DEFINE Without == {n \in Nat : \A k \in S : n <= k}
<1> SUFFICES ASSUME \A m \in S : \E k \in S : k < m PROVE FALSE
  OBVIOUS
<1>1. 0 \in Without
  OBVIOUS
<1>2. ASSUME NEW n \in Nat, n \in Without PROVE n + 1 \in Without
  <2>1. n \notin S
    BY <1>2
  <2>2. \A k \in S : n <= k /\ n # k /\ k \in Nat
    BY <1>2, <2>1
  <2> QED
    BY <2>2
<1>3. Nat \subseteq Without
  <2> HIDE DEF Without
  <2> QED
    BY <1>1, <1>2, NatSetInduction
<1>4. PICK m \in S : m \in Nat
  OBVIOUS
<1>5. m + 1 \in Without
  BY <1>3, <1>4
<1> QED
  BY <1>4, <1>5

\* A set of numbers up to n is finite.
LEMMA FiniteRange ==
  ASSUME NEW n \in Nat, NEW S \in SUBSET (1 .. n)
  PROVE  IsFiniteSet(S) /\ Cardinality(S) \in Nat
<1>1. IsFiniteSet(1 .. n)
  BY FS_Interval
<1>2. IsFiniteSet(S)
  BY <1>1, FS_Subset
<1> QED
  BY <1>2, FS_CardinalityType

\* Two different elements are two.
LEMMA TwoElements ==
  ASSUME NEW x, NEW y, x # y
  PROVE  IsFiniteSet({x, y}) /\ Cardinality({x, y}) = 2
<1> DEFINE S == {x}
<1>1. IsFiniteSet(S) /\ Cardinality(S) = 1 /\ y \notin S /\ S \cup {y} = {x, y}
  BY FS_Singleton
<1> HIDE DEF S
<1>2. IsFiniteSet(S \cup {y}) /\ Cardinality(S \cup {y}) = Cardinality(S) + 1
  BY <1>1, FS_AddElement
<1> QED
  BY <1>1, <1>2

-----------------------------------------------------------------------------
\* A set of numbers can be put in order.
LEMMA OrderExists ==
  ASSUME NEW n \in Nat, NEW T \in SUBSET (1 .. n)
  PROVE  \E s \in [1 .. Cardinality(T) -> T] :
           \A i, j \in 1 .. Cardinality(T) : i < j => s[i] < s[j]
<1> DEFINE Ordered(S) == \E s \in [1 .. Cardinality(S) -> S] :
                           \A i, j \in 1 .. Cardinality(S) : i < j => s[i] < s[j]
           Sizes == {m \in Nat : \A S \in SUBSET (1 .. m) : Ordered(S)}
<1>1. 0 \in Sizes
  <2>1. SUFFICES ASSUME NEW S \in SUBSET (1 .. 0) PROVE Ordered(S)
    OBVIOUS
  <2>2. S = {} /\ Cardinality({}) = 0
    <3>1. 1 .. 0 = {}
      OBVIOUS
    <3> QED
      BY <3>1, FS_EmptySet
  <2>3. [i \in 1 .. 0 |-> i] \in [1 .. 0 -> S]
    BY <2>2
  <2> QED
    BY <2>2, <2>3
<1>2. ASSUME NEW m \in Nat, m \in Sizes PROVE m + 1 \in Sizes
  <2>1. SUFFICES ASSUME NEW S \in SUBSET (1 .. m + 1) PROVE Ordered(S)
    OBVIOUS
  <2>2. CASE m + 1 \notin S
    <3>1. S \in SUBSET (1 .. m)
      BY <2>2
    <3> QED
      BY <3>1, <1>2
  <2>3. CASE m + 1 \in S
    <3> DEFINE U == S \ {m + 1}
               k == Cardinality(U)
    <3>1. U \in SUBSET (1 .. m)
      OBVIOUS
    <3>2. IsFiniteSet(U) /\ k \in Nat
      BY <3>1, FiniteRange
    <3>3. U \cup {m + 1} = S /\ Cardinality(S) = k + 1
      <4>1. U \cup {m + 1} = S /\ m + 1 \notin U
        BY <2>3
      <4> HIDE DEF U
      <4>2. Cardinality(U \cup {m + 1}) = Cardinality(U) + 1
        BY <3>2, <4>1, FS_AddElement
      <4> QED
        BY <4>1, <4>2
    <3>4. PICK s \in [1 .. k -> U] : \A i, j \in 1 .. k : i < j => s[i] < s[j]
      BY <1>2, <3>1
    <3> DEFINE t == [i \in 1 .. k + 1 |-> IF i = k + 1 THEN m + 1 ELSE s[i]]
    <3> HIDE DEF k, U
    <3>5. \A i \in 1 .. k : t[i] = s[i] /\ t[i] \in U
      BY <3>2, <3>4
    <3>6. \A x \in U : x \in Nat /\ x < m + 1
      BY <3>1
    <3>7. t[k + 1] = m + 1
      BY <3>2
    <3>8. t \in [1 .. k + 1 -> S]
      BY <3>2, <3>3, <3>4, <2>3
    <3>9. \A i, j \in 1 .. k + 1 : i < j => t[i] < t[j]
      <4>1. SUFFICES ASSUME NEW i \in 1 .. k + 1, NEW j \in 1 .. k + 1, i < j
                     PROVE  t[i] < t[j]
        OBVIOUS
      <4>2. i \in 1 .. k
        BY <4>1, <3>2
      <4>3. CASE j = k + 1
        BY <4>2, <4>3, <3>5, <3>6, <3>7
      <4>4. CASE j # k + 1
        BY <4>1, <4>2, <4>4, <3>2, <3>4, <3>5
      <4> QED
        BY <4>3, <4>4
    <3> QED
      BY <3>3, <3>8, <3>9
  <2> QED
    BY <2>2, <2>3
<1>3. Nat \subseteq Sizes
  BY <1>1, <1>2, NatSetInduction
<1> QED
  BY <1>3

\* What a query returns: the rows found, each of them once.
LEMMA InOrderFacts ==
  ASSUME NEW n \in Nat, NEW S \in SUBSET (1 .. n)
  PROVE  /\ InOrder(S) \in Seq(S) /\ Len(InOrder(S)) = Cardinality(S)
         /\ \A i, j \in 1 .. Len(InOrder(S)) :
              i # j => InOrder(S)[i] # InOrder(S)[j]
<1> DEFINE k == Cardinality(S)
           s == InOrder(S)
<1>1. k \in Nat
  BY FiniteRange
<1>2. s \in [1 .. k -> S] /\ \A i, j \in 1 .. k : i < j => s[i] < s[j]
  BY OrderExists DEF InOrder
<1> HIDE DEF k, s
<1>3. s \in Seq(S) /\ Len(s) = k
  BY <1>1, <1>2
<1>4. ASSUME NEW i \in 1 .. k, NEW j \in 1 .. k, i # j PROVE s[i] # s[j]
  <2>1. i < j \/ j < i
    BY <1>1, <1>4
  <2>2. \A x \in S : x \in Nat
    OBVIOUS
  <2>3. s[i] \in Nat /\ s[j] \in Nat
    BY <1>2, <2>2
  <2> QED
    BY <1>2, <2>1, <2>3
<1> QED
  BY <1>3, <1>4 DEF k, s

-----------------------------------------------------------------------------
\* The element that a sum takes first.
First1(T) == CHOOSE x \in T : TRUE

\* What a sum over T is when s has those over fewer elements.
Body(s, f, T) == IF T = {} THEN 0 ELSE f[First1(T)] + s[T \ {First1(T)}]

\* s has the sum of f over every subset of S.
IsSum(s, f, S) == s = [T \in SUBSET S |-> Body(s, f, T)]

\* The sum over S is what such a function says of S.
LEMMA SumIs ==
  ASSUME NEW f, NEW S
  PROVE  SumFunctionOnSet(f, S) = (CHOOSE s : IsSum(s, f, S))[S]
  BY DEF SumFunctionOnSet, FoldFunctionOnSet, MapThenFoldSet, IsSum, Body, First1

\* All but the first element are fewer by one.
LEMMA Fewer ==
  ASSUME NEW S, IsFiniteSet(S), NEW T \in SUBSET S, T # {}
  PROVE  /\ First1(T) \in T /\ T \ {First1(T)} \in SUBSET S
         /\ Cardinality(T) \in Nat /\ Cardinality(T \ {First1(T)}) \in Nat
         /\ Cardinality(T) = Cardinality(T \ {First1(T)}) + 1
<1>1. First1(T) \in T
  BY DEF First1
<1>2. IsFiniteSet(T) /\ Cardinality(T) \in Nat
  BY FS_Subset, FS_CardinalityType
<1>3. /\ IsFiniteSet(T \ {First1(T)})
      /\ Cardinality(T \ {First1(T)}) = Cardinality(T) - 1
  BY <1>1, <1>2, FS_RemoveElement
<1>4. Cardinality(T \ {First1(T)}) \in Nat
  BY <1>3, FS_CardinalityType
<1> QED
  BY <1>1, <1>2, <1>3, <1>4

\* There is a function that has all the sums.
LEMMA SumExists ==
  ASSUME NEW S, IsFiniteSet(S), NEW f, \A x \in S : f[x] \in Nat
  PROVE  \E s \in [SUBSET S -> Nat] : IsSum(s, f, S)
<1> DEFINE UpTo(s, n) == \A T \in SUBSET S : Cardinality(T) <= n => s[T] = Body(s, f, T)
           Sizes == {n \in Nat : \E s \in [SUBSET S -> Nat] : UpTo(s, n)}
<1>1. \A T \in SUBSET S : IsFiniteSet(T) /\ Cardinality(T) \in Nat
  BY FS_Subset, FS_CardinalityType
<1>2. 0 \in Sizes
  <2> DEFINE s == [T \in SUBSET S |-> 0]
  <2>1. \A T \in SUBSET S : Cardinality(T) <= 0 => T = {}
    BY <1>1, FS_EmptySet
  <2>2. UpTo(s, 0)
    BY <2>1 DEF Body
  <2> QED
    BY <2>2
<1>3. ASSUME NEW n \in Nat, n \in Sizes PROVE n + 1 \in Sizes
  <2>1. PICK s \in [SUBSET S -> Nat] : UpTo(s, n)
    BY <1>3
  <2> DEFINE t == [T \in SUBSET S |-> Body(s, f, T)]
  <2>2. t \in [SUBSET S -> Nat]
    <3>1. ASSUME NEW T \in SUBSET S PROVE Body(s, f, T) \in Nat
      <4>1. CASE T = {}
        BY <4>1 DEF Body
      <4>2. CASE T # {}
        <5>1. First1(T) \in S /\ T \ {First1(T)} \in SUBSET S
          BY <4>2, Fewer
        <5>2. f[First1(T)] \in Nat /\ s[T \ {First1(T)}] \in Nat
          BY <5>1
        <5> QED
          BY <4>2, <5>2 DEF Body
      <4> QED
        BY <4>1, <4>2
    <3> QED
      BY <3>1
  <2>3. ASSUME NEW T \in SUBSET S, Cardinality(T) <= n + 1
        PROVE  t[T] = Body(t, f, T)
    <3>1. CASE T = {}
      BY <3>1 DEF Body
    <3>2. CASE T # {}
      <4> DEFINE U == T \ {First1(T)}
      <4>1. U \in SUBSET S /\ Cardinality(U) <= n
        BY <1>3, <2>3, <3>2, Fewer
      <4>2. s[U] = t[U]
        BY <2>1, <4>1
      <4> QED
        BY <3>2, <4>2 DEF Body
    <3> QED
      BY <3>1, <3>2
  <2>4. UpTo(t, n + 1)
    BY <2>3
  <2> HIDE DEF t
  <2> QED
    BY <2>2, <2>4
<1>4. Nat \subseteq Sizes
  <2> HIDE DEF Sizes
  <2> QED
    BY <1>2, <1>3, NatSetInduction
<1>5. Cardinality(S) \in Nat /\ \A T \in SUBSET S : Cardinality(T) <= Cardinality(S)
  BY FS_Subset, FS_CardinalityType
<1>6. PICK s \in [SUBSET S -> Nat] : UpTo(s, Cardinality(S))
  BY <1>4, <1>5
<1>7. \A T \in SUBSET S : s[T] = Body(s, f, T)
  BY <1>5, <1>6
<1> QED
  BY <1>6, <1>7 DEF IsSum

\* Two such functions agree on what both have.
LEMMA SumUnique ==
  ASSUME NEW S, IsFiniteSet(S), NEW f, NEW s, IsSum(s, f, S),
         NEW R \in SUBSET S, NEW t, IsSum(t, f, R)
  PROVE  t[R] = s[R]
<1> DEFINE Sizes == {n \in Nat : \A T \in SUBSET R : Cardinality(T) = n => s[T] = t[T]}
<1>1. /\ \A T \in SUBSET R : s[T] = Body(s, f, T) /\ t[T] = Body(t, f, T)
      /\ \A T \in SUBSET R : T \in SUBSET S
  BY DEF IsSum
<1>2. 0 \in Sizes
  <2>1. \A T \in SUBSET R : IsFiniteSet(T)
    BY <1>1, FS_Subset
  <2>2. \A T \in SUBSET R : Cardinality(T) = 0 => T = {}
    BY <2>1, FS_EmptySet
  <2> QED
    BY <1>1, <2>2 DEF Body
<1>3. ASSUME NEW n \in Nat, n \in Sizes PROVE n + 1 \in Sizes
  <2>1. SUFFICES ASSUME NEW T \in SUBSET R, Cardinality(T) = n + 1
                 PROVE  s[T] = t[T]
    OBVIOUS
  <2>2. CASE T = {}
    BY <1>1, <2>2 DEF Body
  <2>3. CASE T # {}
    <3> DEFINE U == T \ {First1(T)}
    <3>1. U \in SUBSET R /\ Cardinality(U) = n
      BY <1>1, <1>3, <2>1, <2>3, Fewer
    <3>2. s[U] = t[U]
      BY <1>3, <3>1
    <3> QED
      BY <1>1, <2>3, <3>2 DEF Body
  <2> QED
    BY <2>2, <2>3
<1>4. Nat \subseteq Sizes
  <2> HIDE DEF Sizes
  <2> QED
    BY <1>2, <1>3, NatSetInduction
<1>5. Cardinality(R) \in Nat
  BY FS_Subset, FS_CardinalityType
<1> QED
  BY <1>4, <1>5

\* So any of them has the sums over the subsets of a finite set.
LEMMA SumOver ==
  ASSUME NEW S, IsFiniteSet(S), NEW f, \A x \in S : f[x] \in Nat
  PROVE  \E s \in [SUBSET S -> Nat] :
           /\ IsSum(s, f, S)
           /\ \A R \in SUBSET S : SumFunctionOnSet(f, R) = s[R]
<1>1. PICK s \in [SUBSET S -> Nat] : IsSum(s, f, S)
  BY SumExists
<1>2. ASSUME NEW R \in SUBSET S PROVE SumFunctionOnSet(f, R) = s[R]
  <2> DEFINE t == CHOOSE t : IsSum(t, f, R)
  <2>1. IsFiniteSet(R)
    BY FS_Subset
  <2>2. \E u : IsSum(u, f, R)
    BY <2>1, SumExists
  <2>3. IsSum(t, f, R)
    BY <2>2
  <2>4. SumFunctionOnSet(f, R) = t[R]
    BY SumIs
  <2> HIDE DEF t
  <2> QED
    BY <1>1, <2>3, <2>4, SumUnique
<1> QED
  BY <1>1, <1>2

-----------------------------------------------------------------------------
\* Nothing sums up to nothing.
LEMMA SumEmpty == ASSUME NEW f PROVE SumFunctionOnSet(f, {}) = 0
<1>1. PICK s \in [SUBSET {} -> Nat] :
        /\ IsSum(s, f, {})
        /\ \A R \in SUBSET {} : SumFunctionOnSet(f, R) = s[R]
  BY SumOver, FS_EmptySet
<1> QED
  BY <1>1 DEF IsSum, Body

\* A sum of natural numbers is one.
LEMMA SumNat ==
  ASSUME NEW S, IsFiniteSet(S), NEW f, \A x \in S : f[x] \in Nat
  PROVE  SumFunctionOnSet(f, S) \in Nat
<1> DEFINE t == CHOOSE t : IsSum(t, f, S)
<1>1. PICK s \in [SUBSET S -> Nat] : IsSum(s, f, S)
  BY SumExists
<1>2. IsSum(t, f, S) /\ SumFunctionOnSet(f, S) = t[S]
  BY <1>1, SumIs
<1> HIDE DEF t
<1> QED
  BY <1>1, <1>2, SumUnique

\* The sum depends only on the values of the elements.
LEMMA SumSame ==
  ASSUME NEW S, NEW f, NEW g, \A x \in S : f[x] = g[x]
  PROVE  SumFunctionOnSet(f, S) = SumFunctionOnSet(g, S)
<1>1. \A s : IsSum(s, f, S) <=> IsSum(s, g, S)
  <2>1. ASSUME NEW s, NEW T \in SUBSET S PROVE Body(s, f, T) = Body(s, g, T)
    BY DEF Body, First1
  <2> QED
    BY <2>1 DEF IsSum
<1>2. (CHOOSE s : IsSum(s, f, S)) = (CHOOSE s : IsSum(s, g, S))
  BY <1>1
<1> QED
  BY <1>2, SumIs

\* One more element adds its value.
LEMMA SumAdd ==
  ASSUME NEW S, IsFiniteSet(S), NEW f, NEW a, a \notin S,
         \A x \in S \cup {a} : f[x] \in Nat
  PROVE  SumFunctionOnSet(f, S \cup {a}) = SumFunctionOnSet(f, S) + f[a]
<1> DEFINE W == S \cup {a}
<1>1. IsFiniteSet(W)
  BY FS_AddElement
<1>2. PICK s \in [SUBSET W -> Nat] :
        /\ IsSum(s, f, W)
        /\ \A R \in SUBSET W : SumFunctionOnSet(f, R) = s[R]
  BY <1>1, SumOver
<1> HIDE DEF W
<1>3. \A T \in SUBSET W : s[T] = Body(s, f, T) /\ s[T] \in Nat
  BY <1>2 DEF IsSum
<1> DEFINE Adds(T) == \A x \in W \ T : s[T \cup {x}] = s[T] + f[x]
           Sizes == {n \in Nat : \A T \in SUBSET W : Cardinality(T) = n => Adds(T)}
<1>4. \A T \in SUBSET W : IsFiniteSet(T) /\ Cardinality(T) \in Nat
  BY <1>1, FS_Subset, FS_CardinalityType
<1>5. \A x \in W : f[x] \in Nat
  BY DEF W
<1>6. 0 \in Sizes
  <2>1. \A T \in SUBSET W : Cardinality(T) = 0 => T = {}
    BY <1>4, FS_EmptySet
  <2>2. ASSUME NEW x \in W PROVE s[{x}] = s[{}] + f[x]
    <3>1. First1({x}) = x /\ {x} \ {First1({x})} = {}
      BY DEF First1
    <3>2. s[{x}] = f[x] + s[{}] /\ s[{}] \in Nat /\ f[x] \in Nat
      BY <1>3, <1>5, <3>1 DEF Body
    <3> QED
      BY <3>2
  <2>3. Adds({})
    BY <2>2
  <2> QED
    BY <2>1, <2>3
<1>7. ASSUME NEW n \in Nat, n \in Sizes PROVE n + 1 \in Sizes
  <2>1. SUFFICES ASSUME NEW T \in SUBSET W, Cardinality(T) = n + 1, NEW x \in W \ T
                 PROVE  s[T \cup {x}] = s[T] + f[x]
    OBVIOUS
  <2> DEFINE U == T \cup {x}
             c == First1(U)
             R == T \ {c}
  <2>2. c \in U /\ s[U] = f[c] + s[U \ {c}]
    BY <1>3 DEF Body, First1
  <2>3. CASE c = x
    <3> HIDE DEF c
    <3>1. U \ {c} = T
      BY <2>1, <2>3
    <3>2. f[x] \in Nat /\ s[T] \in Nat
      BY <1>3, <1>5
    <3>3. s[U] = f[x] + s[T]
      BY <2>2, <2>3, <3>1
    <3> HIDE DEF U
    <3>4. s[U] = s[T] + f[x]
      BY <3>2, <3>3
    <3> QED
      BY <3>4 DEF U
  <2>4. CASE c # x
    <3> HIDE DEF c
    <3>1. c \in T /\ U \ {c} = R \cup {x} /\ R \cup {c} = T /\ R \in SUBSET W
      BY <2>2, <2>4
    <3>2. Cardinality(R) = n
      BY <1>4, <2>1, <3>1, FS_RemoveElement
    <3>3. s[R \cup {x}] = s[R] + f[x] /\ s[R \cup {c}] = s[R] + f[c]
      BY <1>7, <3>1, <3>2
    <3>4. s[R] \in Nat /\ f[x] \in Nat /\ f[c] \in Nat
      BY <1>3, <1>5, <3>1
    <3>5. s[U] = f[c] + (s[R] + f[x]) /\ s[T] = s[R] + f[c]
      BY <2>2, <3>1, <3>3
    <3> HIDE DEF U, R
    <3>6. s[U] = s[T] + f[x]
      BY <3>4, <3>5
    <3> QED
      BY <3>6 DEF U
  <2> QED
    BY <2>3, <2>4
<1>8. Nat \subseteq Sizes
  <2> HIDE DEF Sizes
  <2> QED
    BY <1>6, <1>7, NatSetInduction
<1>9. S \in SUBSET W /\ a \in W \ S /\ W = S \cup {a}
  BY DEF W
<1>10. Adds(S)
  BY <1>4, <1>8, <1>9
<1>11. s[W] = s[S] + f[a]
  BY <1>9, <1>10
<1> QED
  BY <1>2, <1>9, <1>11

-----------------------------------------------------------------------------
(***************************************************************************)
(* What is left to do, in three numbers of which an earlier one weighs     *)
(* more than all that come after it.                                       *)
(***************************************************************************)
Measures == Nat \X Nat \X Nat

\* Measure u is below v: less is left.
Closer(u, v) ==
  \/ u[1] < v[1]
  \/ u[1] = v[1] /\ u[2] < v[2]
  \/ u[1] = v[1] /\ u[2] = v[2] /\ u[3] < v[3]

\* In every set of measures there is one that none of the set is below.
LEMMA LeastMeasure ==
  ASSUME NEW S \in SUBSET Measures, S # {}
  PROVE  \E m \in S : \A k \in S : ~ Closer(k, m)
<1>1. \A k \in S : k[1] \in Nat /\ k[2] \in Nat /\ k[3] \in Nat
  BY DEF Measures
<1>2. PICK a \in {k[1] : k \in S} : \A b \in {k[1] : k \in S} : a <= b
  <2> DEFINE N == {k[1] : k \in S}
  <2>1. N \in SUBSET Nat /\ N # {}
    BY <1>1
  <2> HIDE DEF N
  <2>2. \E a \in N : \A b \in N : a <= b
    BY <2>1, Smallest
  <2> QED
    BY <2>2 DEF N
<1> DEFINE T == {k \in S : k[1] = a}
<1>3. PICK c \in {k[2] : k \in T} : \A d \in {k[2] : k \in T} : c <= d
  <2> DEFINE N == {k[2] : k \in T}
  <2>1. N \in SUBSET Nat /\ N # {}
    BY <1>1, <1>2
  <2> HIDE DEF N
  <2>2. \E x \in N : \A y \in N : x <= y
    BY <2>1, Smallest
  <2> QED
    BY <2>2 DEF N
<1> DEFINE U == {k \in T : k[2] = c}
<1>4. PICK e \in {k[3] : k \in U} : \A f \in {k[3] : k \in U} : e <= f
  <2> DEFINE N == {k[3] : k \in U}
  <2>1. N \in SUBSET Nat /\ N # {}
    BY <1>1, <1>3
  <2> HIDE DEF N
  <2>2. \E x \in N : \A y \in N : x <= y
    BY <2>1, Smallest
  <2> QED
    BY <2>2 DEF N
<1>5. PICK m \in U : m[3] = e
  BY <1>4
<1>6. ASSUME NEW k \in S, Closer(k, m) PROVE FALSE
  <2>1. m[1] = a /\ m[2] = c /\ m \in S
    BY <1>5
  <2>2. a <= k[1]
    BY <1>2
  <2>3. k[1] = a /\ k \in T
    BY <1>1, <1>6, <2>1, <2>2 DEF Closer
  <2>4. c <= k[2]
    BY <1>3, <2>3
  <2>5. k[2] = c /\ k \in U
    BY <1>1, <1>6, <2>1, <2>3, <2>4 DEF Closer
  <2>6. e <= k[3]
    BY <1>4, <2>5
  <2> QED
    BY <1>1, <1>5, <1>6, <2>1, <2>3, <2>5, <2>6 DEF Closer
<1> QED
  BY <1>5, <1>6

\* So nothing comes closer for ever.
LEMMA NoEndlessDescent ==
  ASSUME NEW f \in [Nat -> Measures]
  PROVE  ~ \A n \in Nat : Closer(f[n + 1], f[n])
<1> SUFFICES ASSUME \A n \in Nat : Closer(f[n + 1], f[n]) PROVE FALSE
  OBVIOUS
<1> DEFINE S == {f[n] : n \in Nat}
<1>1. S \in SUBSET Measures /\ S # {}
  OBVIOUS
<1> HIDE DEF S
<1>2. PICK m \in S : \A k \in S : ~ Closer(k, m)
  BY <1>1, LeastMeasure
<1>3. PICK n \in Nat : m = f[n]
  BY DEF S
<1>4. f[n + 1] \in S
  BY <1>3 DEF S
<1> QED
  BY <1>2, <1>3, <1>4
=============================================================================
