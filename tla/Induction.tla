----------------------------- MODULE Induction -----------------------------
(***************************************************************************)
(* Facts the proofs about several components rest on: induction over the   *)
(* natural numbers, about a set instead of a predicate; what it gives for  *)
(* functions defined by recursion over them; and what the ascending lists  *)
(* and the sums of Ordered are.                                            *)
(***************************************************************************)
EXTENDS Ordered, WellFoundedInduction, FiniteSetTheorems, TLAPS

\* A set of natural numbers that is not empty has a least one.
LEMMA LeastElement ==
  ASSUME NEW T, T \subseteq Nat, T # {}
  PROVE  \E x \in T : \A y \in T : x <= y
<1> DEFINE R == OpToRel(<, Nat)
<1>1. PICK x \in T : \A y \in T : ~ (<<y, x>> \in R)
  <2>1. IsWellFoundedOn(R, Nat)
    BY NatLessThanWellFounded
  <2>. HIDE DEF R
  <2>. QED BY <2>1, WFMin
<1>2. ASSUME NEW y \in T
      PROVE  x <= y
  <2>1. x \in Nat /\ y \in Nat
    OBVIOUS
  <2>2. ~ (y < x)
    BY <1>1, <1>2, <2>1 DEF OpToRel
  <2>. QED BY <2>1, <2>2
<1>. QED
  BY <1>2

\* A set with 0 and the successors of its members holds every natural number.
LEMMA SetInduction ==
  ASSUME NEW S, 0 \in S, \A n \in Nat : n \in S => n + 1 \in S
  PROVE  Nat \subseteq S
<1> DEFINE T == Nat \ S
<1>1. SUFFICES ASSUME T # {}
               PROVE  FALSE
  OBVIOUS
<1>2. PICK x \in T : \A y \in T : x <= y
  <2>1. T \subseteq Nat
    OBVIOUS
  <2>. HIDE DEF T
  <2>. QED BY <1>1, <2>1, LeastElement
<1>3. x \in Nat /\ x # 0
  OBVIOUS
<1>4. x - 1 \in Nat /\ x - 1 < x /\ (x - 1) + 1 = x
  BY <1>3
<1>5. x - 1 \in T
  BY <1>3, <1>4
<1>. QED
  BY <1>2, <1>4, <1>5

\* From a first value, and a step g from each value to the next, there is a
\* function that starts there and goes on by g.
LEMMA RecursionExists ==
  ASSUME NEW v \in Nat, NEW g \in [Nat -> Nat]
  PROVE  \E f \in [Nat -> Nat] : f[0] = v /\ \A n \in Nat : f[n + 1] = g[f[n]]
<1> DEFINE Upto(n, h) == h[0] = v /\ \A i \in Nat : i < n => h[i + 1] = g[h[i]]
           S == {n \in Nat : \E h \in [Nat -> Nat] : Upto(n, h)}
           U == {n \in Nat : \A h, k \in [Nat -> Nat] : Upto(n, h) /\ Upto(n, k) => h[n] = k[n]}
<1>1. Nat \subseteq S
  <2>1. 0 \in S
    <3>1. [i \in Nat |-> v] \in [Nat -> Nat] /\ Upto(0, [i \in Nat |-> v])
      OBVIOUS
    <3>. QED BY <3>1
  <2>2. ASSUME NEW n \in Nat, n \in S
        PROVE  n + 1 \in S
    <3>1. PICK h \in [Nat -> Nat] : Upto(n, h)
      BY <2>2
    <3> DEFINE w == g[h[n]]
               k == [h EXCEPT ![n + 1] = w]
    <3>2. w \in Nat /\ k \in [Nat -> Nat]
      <4>1. h[n] \in Nat
        OBVIOUS
      <4>. QED BY <4>1
    <3>3. k[n + 1] = w /\ \A i \in Nat : i # n + 1 => k[i] = h[i]
      OBVIOUS
    <3>4. Upto(n + 1, k)
      <4>1. k[0] = v
        BY <3>1, <3>3
      <4>2. ASSUME NEW i \in Nat, i < n + 1
            PROVE  k[i + 1] = g[k[i]]
        <5>1. k[i] = h[i] /\ i + 1 \in Nat
          BY <3>3, <4>2
        <5>2. CASE i = n
          BY <3>3, <5>1, <5>2
        <5>3. CASE i # n
          <6>1. i < n /\ i + 1 # n + 1
            BY <4>2, <5>3
          <6>. QED BY <3>1, <3>3, <5>1, <6>1
        <5>. QED BY <5>2, <5>3
      <4>. QED BY <4>1, <4>2
    <3>. HIDE DEF k
    <3>. QED BY <3>2, <3>4
  <2>. HIDE DEF S
  <2>. QED BY <2>1, <2>2, SetInduction
<1>2. Nat \subseteq U
  <2>1. 0 \in U
    OBVIOUS
  <2>2. ASSUME NEW n \in Nat, n \in U
        PROVE  n + 1 \in U
    <3>1. ASSUME NEW h \in [Nat -> Nat], NEW k \in [Nat -> Nat], Upto(n + 1, h), Upto(n + 1, k)
          PROVE  h[n + 1] = k[n + 1]
      <4>1. Upto(n, h) /\ Upto(n, k)
        BY <3>1
      <4>2. h[n] = k[n]
        BY <2>2, <4>1
      <4>. QED BY <3>1, <4>2
    <3>2. n + 1 \in Nat
      OBVIOUS
    <3>. HIDE DEF Upto
    <3>. QED BY <3>1, <3>2
  <2>. HIDE DEF U
  <2>. QED BY <2>1, <2>2, SetInduction
<1> DEFINE H(n) == CHOOSE h \in [Nat -> Nat] : Upto(n, h)
           f == [n \in Nat |-> H(n)[n]]
<1>3. ASSUME NEW n \in Nat
      PROVE  H(n) \in [Nat -> Nat] /\ Upto(n, H(n))
  <2>1. \E h \in [Nat -> Nat] : Upto(n, h)
    BY <1>1
  <2>. HIDE DEF Upto
  <2>. QED BY <2>1
<1>4. f \in [Nat -> Nat] /\ f[0] = v
  <2>. HIDE DEF H
  <2>1. \A n \in Nat : H(n) \in [Nat -> Nat] /\ H(n)[0] = v
    BY <1>3
  <2>2. \A n \in Nat : H(n)[n] \in Nat
    BY <2>1
  <2>. QED BY <2>1, <2>2
<1>5. ASSUME NEW n \in Nat
      PROVE  f[n + 1] = g[f[n]]
  <2>1. /\ H(n) \in [Nat -> Nat] /\ Upto(n, H(n))
        /\ H(n + 1) \in [Nat -> Nat] /\ Upto(n + 1, H(n + 1))
    <3>1. n + 1 \in Nat
      OBVIOUS
    <3>. HIDE DEF H, Upto
    <3>. QED BY <1>3, <3>1
  <2>2. f[n] = H(n)[n] /\ f[n + 1] = H(n + 1)[n + 1]
    OBVIOUS
  <2>. HIDE DEF H, f
  <2>3. H(n + 1)[n + 1] = g[H(n + 1)[n]]
    BY <2>1
  <2>4. Upto(n, H(n + 1))
    BY <2>1
  <2>5. H(n + 1)[n] = H(n)[n]
    BY <1>2, <2>1, <2>4
  <2>. QED BY <2>2, <2>3, <2>5
<1>. QED
  BY <1>4, <1>5

\* The value that step gives to a place depends on the values at later ones alone.
LooksAhead(n, S, step) ==
  /\ step \in [1..n -> [[1..n -> S] -> S]]
  /\ \A p \in 1..n : \A f, g \in [1..n -> S] :
       (\A q \in 1..n : q > p => f[q] = g[q]) => step[p][f] = step[p][g]

\* Some function has the values that step gives.
Solvable(n, S, step) == \E f \in [1..n -> S] : \A p \in 1..n : f[p] = step[p][f]

\* Over 1..n, from the end backwards: then there is such a function.
LEMMA BackwardRecursionExists ==
  ASSUME NEW n \in Nat, NEW S, S # {}, NEW step, LooksAhead(n, S, step)
  PROVE  Solvable(n, S, step)
<1> DEFINE F == [1..n -> S]
           Right(f, p) == f[p] = step[p][f]
           T == {k \in Nat : \E f \in F : \A p \in 1..n : p + k > n => Right(f, p)}
<1>0. /\ step \in [1..n -> [[1..n -> S] -> S]]
      /\ \A p \in 1..n : \A f, g \in [1..n -> S] :
           (\A q \in 1..n : q > p => f[q] = g[q]) => step[p][f] = step[p][g]
  BY DEF LooksAhead
<1>1. 0 \in T
  <2>1. \E f \in F : TRUE
    <3>1. PICK v \in S : TRUE
      OBVIOUS
    <3>2. [p \in 1..n |-> v] \in F
      OBVIOUS
    <3>. QED BY <3>2
  <2>2. \A p \in 1..n : ~(p + 0 > n)
    OBVIOUS
  <2>. HIDE DEF Right, F
  <2>. QED BY <2>1, <2>2
<1>2. ASSUME NEW k \in Nat, k \in T
      PROVE  k + 1 \in T
  <2>1. PICK f \in F : \A p \in 1..n : p + k > n => Right(f, p)
    BY <1>2
  <2>2. CASE n - k \in 1..n
    <3> DEFINE q == n - k
               v == step[q][f]
               g == [f EXCEPT ![q] = v]
    <3>1. q \in 1..n /\ q \in Nat
      BY <2>2
    <3>2. v \in S
      <4>. HIDE DEF q
      <4>1. step[q] \in [[1..n -> S] -> S]
        BY <1>0, <3>1
      <4>. QED BY <4>1
    <3>3. \A p \in 1..n : g[p] = IF p = q THEN v ELSE f[p]
      BY <3>1
    <3>4. g \in F
      <4>. HIDE DEF v, q
      <4>. QED BY <3>1, <3>2
    <3>. HIDE DEF g
    <3>5. ASSUME NEW p \in 1..n, p + (k + 1) > n
          PROVE  Right(g, p)
      <4>1. p >= q /\ (p # q => p + k > n)
        BY <3>5
      <4>2. \A r \in 1..n : r > p => f[r] = g[r]
        <5>. HIDE DEF q, v
        <5>. QED BY <3>1, <3>3, <4>1
      <4>3. step[p][f] = step[p][g]
        <5>. HIDE DEF q, v
        <5>. QED BY <1>0, <3>4, <4>2
      <4>4. CASE p = q
        <5>1. g[p] = v /\ v = step[p][f]
          BY <3>3, <4>4
        <5>. QED BY <4>3, <5>1
      <4>5. CASE p # q
        <5>1. Right(f, p)
          BY <2>1, <4>1, <4>5
        <5>2. g[p] = f[p]
          BY <3>3, <4>5
        <5>. QED BY <4>3, <5>1, <5>2
      <4>. QED BY <4>4, <4>5
    <3>. HIDE DEF Right, F
    <3>. QED BY <3>4, <3>5
  <2>3. CASE n - k \notin 1..n
    <3>1. \A p \in 1..n : p + (k + 1) > n => p + k > n
      BY <2>3
    <3>2. \A p \in 1..n : p + (k + 1) > n => Right(f, p)
      BY <2>1, <3>1
    <3>. HIDE DEF Right, F
    <3>. QED BY <3>2
  <2>. QED BY <2>2, <2>3
<1>3. n \in T
  <2>1. Nat \subseteq T
    <3>. HIDE DEF T
    <3>. QED BY <1>1, <1>2, SetInduction
  <2>. QED BY <2>1
<1>4. PICK f \in F : \A p \in 1..n : p + n > n => Right(f, p)
  BY <1>3
<1>5. \A p \in 1..n : p + n > n
  OBVIOUS
<1>. QED
  BY <1>4, <1>5 DEF Solvable

\* A function over 0..n that starts at a first value and goes on by the steps.
Runs(f, n, first, step) == f[0] = first /\ \A i \in 1..n : f[i] = step[i][f[i - 1]]
Runnable(n, S, first, step) == \E f \in [0..n -> S] : Runs(f, n, first, step)

\* From a first value in a set, and a step at each place that stays in it, there is
\* such a function.
LEMMA ForwardRecursionExists ==
  ASSUME NEW n \in Nat, NEW S, NEW first \in S, NEW step \in [1..n -> [S -> S]]
  PROVE  Runnable(n, S, first, step)
<1> DEFINE F == [0..n -> S]
           Upto(f, m) == f[0] = first /\ \A i \in 1..n : i <= m => f[i] = step[i][f[i - 1]]
           T == {m \in Nat : \E f \in F : Upto(f, m)}
<1>1. 0 \in T
  <2>1. [i \in 0..n |-> first] \in F /\ Upto([i \in 0..n |-> first], 0)
    OBVIOUS
  <2>. QED BY <2>1
<1>2. ASSUME NEW m \in Nat, m \in T
      PROVE  m + 1 \in T
  <2>1. PICK f \in F : Upto(f, m)
    BY <1>2
  <2>2. CASE m + 1 \in 1..n
    <3> DEFINE v == step[m + 1][f[m]]
               g == [f EXCEPT ![m + 1] = v]
    <3>1. v \in S
      <4>1. f[m] \in S /\ step[m + 1] \in [S -> S]
        BY <2>2
      <4>. QED BY <4>1
    <3>2. g \in F /\ \A i \in 0..n : g[i] = IF i = m + 1 THEN v ELSE f[i]
      <4>. HIDE DEF v
      <4>. QED BY <2>2, <3>1
    <3>3. Upto(g, m + 1)
      <4>1. g[0] = first
        BY <2>1, <3>2
      <4>2. ASSUME NEW i \in 1..n, i <= m + 1
            PROVE  g[i] = step[i][g[i - 1]]
        <5>1. i - 1 \in 0..n /\ i - 1 # m + 1 /\ i \in 0..n
          BY <4>2
        <5>2. g[i - 1] = f[i - 1]
          BY <3>2, <5>1
        <5>3. CASE i = m + 1
          BY <3>2, <5>1, <5>2, <5>3
        <5>4. CASE i # m + 1
          <6>1. i <= m
            BY <4>2, <5>4
          <6>. QED BY <2>1, <3>2, <5>1, <5>2, <5>4, <6>1
        <5>. QED BY <5>3, <5>4
      <4>. QED BY <4>1, <4>2
    <3>. HIDE DEF g, Upto, F
    <3>. QED BY <3>2, <3>3
  <2>3. CASE m + 1 \notin 1..n
    <3>1. Upto(f, m + 1)
      <4>1. \A i \in 1..n : i <= m
        BY <2>3
      <4>. QED BY <2>1, <4>1
    <3>. HIDE DEF Upto, F
    <3>. QED BY <3>1
  <2>. QED BY <2>2, <2>3
<1>3. Nat \subseteq T
  <2>. HIDE DEF T
  <2>. QED BY <1>1, <1>2, SetInduction
<1>4. PICK f \in F : Upto(f, n)
  BY <1>3
<1>5. Runs(f, n, first, step)
  BY <1>4 DEF Runs
<1>. QED BY <1>5 DEF Runnable

\* Two functions that begin alike, and stay alike at each place if they were at the
\* one before, are alike.
Stepwise(f, g, m) == f[0] = g[0] /\ \A i \in 1..m : f[i - 1] = g[i - 1] => f[i] = g[i]
Alike(f, g, m) == \A i \in 0..m : f[i] = g[i]

LEMMA AgreeAlong ==
  ASSUME NEW m \in Nat, NEW f, NEW g, Stepwise(f, g, m)
  PROVE  Alike(f, g, m)
<1>0. f[0] = g[0] /\ \A i \in 1..m : f[i - 1] = g[i - 1] => f[i] = g[i]
  BY DEF Stepwise
<1> DEFINE T == {i \in Nat : i <= m => f[i] = g[i]}
<1>1. 0 \in T
  BY <1>0
<1>2. ASSUME NEW i \in Nat, i \in T
      PROVE  i + 1 \in T
  <2>1. CASE i + 1 <= m
    <3>1. i + 1 \in 1..m /\ (i + 1) - 1 = i /\ i <= m
      BY <2>1
    <3>2. f[i] = g[i]
      BY <1>2, <3>1
    <3>3. f[i + 1] = g[i + 1]
      BY <1>0, <3>1, <3>2
    <3>. QED BY <3>3
  <2>. QED BY <2>1
<1>3. Nat \subseteq T
  <2>. HIDE DEF T
  <2>. QED BY <1>1, <1>2, SetInduction
<1>. QED BY <1>3 DEF Alike

-----------------------------------------------------------------------------
(* Sums *)

\* The sums of the first values of a sequence, up to the last.
Sums(f, values) == f[0] = 0 /\ \A i \in 1..Len(values) : f[i] = f[i - 1] + values[i]

\* A sum is the last of them.
LEMMA SumSeqIs ==
  ASSUME NEW values \in Seq(Int)
  PROVE  \E f \in [0..Len(values) -> Int] : Sums(f, values) /\ SumSeq(values) = f[Len(values)]
<1> DEFINE n == Len(values)
           Solves(f) == f = [i \in 0..n |-> IF i = 0 THEN 0 ELSE f[i - 1] + values[i]]
           step == [i \in 1..n |-> [x \in Int |-> x + values[i]]]
<1>1. n \in Nat /\ \A i \in 1..n : values[i] \in Int
  OBVIOUS
<1>2. step \in [1..n -> [Int -> Int]] /\ 0 \in Int
  BY <1>1
<1>3. PICK f \in [0..n -> Int] : f[0] = 0 /\ \A i \in 1..n : f[i] = step[i][f[i - 1]]
  <2>1. Runnable(n, Int, 0, step)
    <3>. HIDE DEF step, n
    <3>. QED BY <1>1, <1>2, ForwardRecursionExists
  <2>. HIDE DEF step, n
  <2>. QED BY <2>1 DEF Runnable, Runs
<1>4. \A i \in 1..n : f[i] = f[i - 1] + values[i]
  <2>1. \A i \in 1..n : f[i - 1] \in Int
    BY <1>1, SMTT(30)
  <2>. QED BY <1>3, <2>1
<1>5. Solves(f)
  BY <1>1, <1>3, <1>4
<1> DEFINE g == CHOOSE f_ : Solves(f_)
<1>6. Solves(g)
  <2>. HIDE DEF Solves
  <2>. QED BY <1>5
<1>7. SumSeq(values) = g[n]
  BY DEF SumSeq
<1>8. \A i \in 0..n : g[i] = f[i]
  <2>. HIDE DEF g
  <2>1. g[0] = f[0]
    BY <1>1, <1>5, <1>6
  <2>2. \A i \in 1..n : g[i - 1] = f[i - 1] => g[i] = f[i]
    BY <1>1, <1>5, <1>6
  <2>3. Alike(g, f, n)
    BY <1>1, <2>1, <2>2, AgreeAlong DEF Stepwise
  <2>. QED BY <2>3 DEF Alike
<1>. HIDE DEF g
<1>. QED BY <1>1, <1>3, <1>4, <1>7, <1>8 DEF Sums

\* A sum of whole numbers is one.
LEMMA SumSeqType ==
  ASSUME NEW values \in Seq(Int)
  PROVE  SumSeq(values) \in Int
<1>1. Len(values) \in 0..Len(values)
  OBVIOUS
<1>. QED BY <1>1, SumSeqIs

-----------------------------------------------------------------------------
(* Ordered *)

\* The values a function takes on a finite set are finite, and no more.
LEMMA FiniteImage ==
  ASSUME NEW S, IsFiniteSet(S), NEW f
  PROVE  /\ IsFiniteSet({f[x] : x \in S}) /\ Cardinality({f[x] : x \in S}) \in Nat
         /\ Cardinality(S) \in Nat /\ Cardinality({f[x] : x \in S}) <= Cardinality(S)
<1> DEFINE T == {f[x] : x \in S}
           g == [x \in S |-> f[x]]
<1>1. g \in Surjection(S, T)
  BY DEF Surjection
<1>2. IsFiniteSet(T) /\ Cardinality(T) <= Cardinality(S)
  <2>. HIDE DEF g, T
  <2>. QED BY <1>1, FS_Surjection
<1>. QED BY <1>2, FS_CardinalityType

\* The number of members below one grows with it, and is less than there are.
LEMMA BelowGrows ==
  ASSUME NEW S \in SUBSET Int, IsFiniteSet(S), NEW x \in S
  PROVE  /\ Cardinality(S) \in Nat /\ Below(S, x) \in Nat /\ Below(S, x) < Cardinality(S)
         /\ \A y \in Int : x < y => Below(S, x) < Below(S, y)
<1> DEFINE B(y) == {z \in S : z < y}
<1>1. \A y : IsFiniteSet(B(y)) /\ Cardinality(B(y)) \in Nat
  <2>1. \A y : B(y) \in SUBSET S
    OBVIOUS
  <2>. QED BY <2>1, FS_Subset, FS_CardinalityType
<1>2. IsFiniteSet(B(x) \cup {x}) /\ Cardinality(B(x) \cup {x}) = Cardinality(B(x)) + 1
  <2>1. x \notin B(x)
    OBVIOUS
  <2>. HIDE DEF B
  <2>. QED BY <1>1, <2>1, FS_AddElement
<1>3. Cardinality(S) \in Nat /\ Cardinality(B(x)) + 1 <= Cardinality(S)
  <2>1. B(x) \cup {x} \in SUBSET S
    OBVIOUS
  <2>. HIDE DEF B
  <2>. QED BY <1>2, <2>1, FS_Subset, FS_CardinalityType
<1>4. ASSUME NEW y \in Int, x < y
      PROVE  Cardinality(B(x)) + 1 <= Cardinality(B(y))
  <2>1. B(x) \cup {x} \in SUBSET B(y)
    <3>1. x \in Int /\ \A z \in S : z \in Int
      OBVIOUS
    <3>2. \A z \in S : z < x => z < y
      BY <1>4, <3>1
    <3>. QED BY <1>4, <3>2
  <2>. HIDE DEF B
  <2>. QED BY <1>1, <1>2, <2>1, FS_Subset
<1>5. \A y : Below(S, y) = Cardinality(B(y))
  BY DEF Below
<1>. HIDE DEF B
<1>. QED BY <1>1, <1>3, <1>4, <1>5

\* Ascending lists each member once, in ascending order.
LEMMA AscendingIs ==
  ASSUME NEW S \in SUBSET Int, IsFiniteSet(S)
  PROVE  /\ Cardinality(S) \in Nat
         /\ Ascending(S) \in [1..Cardinality(S) -> S]
         /\ \A k \in 1..Cardinality(S) : Below(S, Ascending(S)[k]) = k - 1
         /\ \A x \in S : /\ Below(S, x) + 1 \in 1..Cardinality(S)
                         /\ Ascending(S)[Below(S, x) + 1] = x
         /\ \A j, k \in 1..Cardinality(S) : j < k <=> Ascending(S)[j] < Ascending(S)[k]
<1> DEFINE n == Cardinality(S)
           rank == [x \in S |-> Below(S, x)]
           a == Ascending(S)
<1>1. n \in Nat /\ \A x \in S : Below(S, x) \in 0..(n - 1)
  <2>1. n \in Nat BY FS_CardinalityType
  <2>2. ASSUME NEW x \in S PROVE Below(S, x) \in 0..(n - 1)
    <3>1. Below(S, x) \in Nat /\ Below(S, x) < n BY BelowGrows
    <3> HIDE DEF n
    <3> QED BY <2>1, <3>1
  <2> QED BY <2>1, <2>2
<1>2. \A x, y \in S : Below(S, x) = Below(S, y) => x = y
  <2>1. ASSUME NEW x \in S, NEW y \in S, x < y PROVE Below(S, x) < Below(S, y)
    BY <2>1, BelowGrows
  <2>2. \A x \in S : x \in Int /\ Below(S, x) \in Nat
    BY BelowGrows
  <2> QED BY <2>1, <2>2
<1>3. \A k \in 1..n : \E x \in S : Below(S, x) = k - 1
  <2>1. rank \in Injection(S, 0..(n - 1))
    <3>1. rank \in [S -> 0..(n - 1)] BY <1>1
    <3> QED BY <1>2, <3>1 DEF Injection, IsInjective
  <2>2. IsFiniteSet(0..(n - 1)) /\ Cardinality(0..(n - 1)) = n
    <3> HIDE DEF n
    <3>1. 0 \in Int /\ n - 1 \in Int BY <1>1
    <3>2. /\ IsFiniteSet(0..(n - 1))
          /\ Cardinality(0..(n - 1)) = IF 0 > n - 1 THEN 0 ELSE (n - 1) - 0 + 1
      BY <3>1, FS_Interval
    <3> QED BY <1>1, <3>2
  <2>3. rank \in Surjection(S, 0..(n - 1))
    <3> HIDE DEF rank
    <3> QED BY <2>1, <2>2, FS_Injection
  <2>4. \A k \in 0..(n - 1) : \E x \in S : rank[x] = k
    <3> HIDE DEF rank, n
    <3> QED BY <2>3 DEF Surjection
  <2>5. \A k \in 1..n : k - 1 \in 0..(n - 1) BY <1>1
  <2> QED BY <2>4, <2>5
<1>4. ASSUME NEW k \in 1..n
      PROVE  a[k] \in S /\ Below(S, a[k]) = k - 1
  <2>1. a[k] = CHOOSE x \in S : Below(S, x) = k - 1 BY DEF Ascending
  <2> HIDE DEF a, n
  <2> QED BY <1>3, <2>1
<1>5. a \in [1..n -> S]
  <2>1. a = [k \in 1..n |-> a[k]] BY DEF Ascending
  <2> HIDE DEF a, n
  <2> QED BY <1>4, <2>1
<1>6. ASSUME NEW x \in S PROVE Below(S, x) + 1 \in 1..n /\ a[Below(S, x) + 1] = x
  <2>1. Below(S, x) + 1 \in 1..n /\ (Below(S, x) + 1) - 1 = Below(S, x)
    <3> HIDE DEF n
    <3> QED BY <1>1
  <2>2. a[Below(S, x) + 1] \in S /\ Below(S, a[Below(S, x) + 1]) = Below(S, x)
    BY <1>4, <2>1
  <2> QED BY <1>2, <2>1, <2>2
<1>7. ASSUME NEW j \in 1..n, NEW k \in 1..n PROVE j < k <=> a[j] < a[k]
  <2>1. /\ a[j] \in Int /\ a[k] \in Int /\ a[j] \in S /\ a[k] \in S
        /\ Below(S, a[j]) = j - 1 /\ Below(S, a[k]) = k - 1
    BY <1>4
  <2>2. a[j] < a[k] => Below(S, a[j]) < Below(S, a[k])
    BY <2>1, BelowGrows
  <2>3. a[k] < a[j] => Below(S, a[k]) < Below(S, a[j])
    BY <2>1, BelowGrows
  <2> HIDE DEF a, n
  <2> QED BY <1>1, <2>1, <2>2, <2>3
<1> HIDE DEF a
<1> QED BY <1>1, <1>4, <1>5, <1>6, <1>7 DEF a

\* A set that is an interval from 1 on is listed as it is counted.
LEMMA IntervalAscends ==
  ASSUME NEW n \in Nat
  PROVE  Ascending(1..n) = [k \in 1..n |-> k]
<1>1. 1..n \in SUBSET Int /\ IsFiniteSet(1..n) /\ Cardinality(1..n) = n
  <2>1. /\ IsFiniteSet(1..n) /\ Cardinality(1..n) = IF 1 > n THEN 0 ELSE n - 1 + 1
    BY FS_Interval
  <2>. QED BY <2>1
<1>2. ASSUME NEW k \in 1..n
      PROVE  Below(1..n, k) = k - 1
  <2>1. {y \in 1..n : y < k} = 1..(k - 1)
    OBVIOUS
  <2>2. Cardinality(1..(k - 1)) = k - 1
    <3>1. Cardinality(1..(k - 1)) = IF 1 > k - 1 THEN 0 ELSE (k - 1) - 1 + 1
      BY FS_Interval
    <3>. QED BY <3>1
  <2>. QED BY <2>1, <2>2 DEF Below
<1>3. ASSUME NEW k \in 1..n
      PROVE  Ascending(1..n)[k] = k
  <2>1. Ascending(1..n)[Below(1..n, k) + 1] = k
    BY <1>1, AscendingIs
  <2>. QED BY <1>2, <2>1
<1>4. Ascending(1..n) = [k \in 1..n |-> Ascending(1..n)[k]]
  BY <1>1 DEF Ascending
<1>. QED BY <1>3, <1>4

\* What is kept of a sequence: its members at the places, place after place.
LEMMA KeepIs ==
  ASSUME NEW V, NEW s \in Seq(V), NEW places \in SUBSET DOMAIN s
  PROVE  /\ Cardinality(places) \in Nat /\ IsFiniteSet(places) /\ places \in SUBSET Int
         /\ Keep(s, places) \in Seq(V)
         /\ Len(Keep(s, places)) = Cardinality(places)
         /\ \A k \in 1..Cardinality(places) :
              /\ Ascending(places)[k] \in places
              /\ Keep(s, places)[k] = s[Ascending(places)[k]]
         /\ \A p \in places : \E k \in 1..Cardinality(places) :
              Ascending(places)[k] = p /\ Keep(s, places)[k] = s[p]
         /\ \A j, k \in 1..Cardinality(places) : j < k => Ascending(places)[j] < Ascending(places)[k]
<1> DEFINE n == Cardinality(places)
           a == Ascending(places)
<1>1. IsFiniteSet(places) /\ places \in SUBSET Int
  <2>1. Len(s) \in Nat /\ DOMAIN s = 1..Len(s)
    OBVIOUS
  <2>2. IsFiniteSet(1..Len(s))
    BY <2>1, FS_Interval
  <2>. QED BY <2>1, <2>2, FS_Subset
<1>2. /\ n \in Nat /\ a \in [1..n -> places]
      /\ \A p \in places : \E k \in 1..n : a[k] = p
      /\ \A j, k \in 1..n : j < k => a[j] < a[k]
  BY <1>1, AscendingIs
<1>3. Keep(s, places) = [k \in 1..n |-> s[a[k]]]
  BY DEF Keep
<1>. HIDE DEF n, a
<1>4. \A k \in 1..n : a[k] \in places /\ s[a[k]] \in V
  BY <1>2
<1>5. Keep(s, places) \in Seq(V) /\ Len(Keep(s, places)) = n
  BY <1>2, <1>3, <1>4
<1>. QED BY <1>1, <1>2, <1>3, <1>4, <1>5 DEF n, a
=============================================================================
