----------------------------- MODULE NumberLemmas -----------------------------
(***************************************************************************)
(* Least and greatest elements of sets of numbers, induction for a set, and *)
(* sums.  The induction theorems of the library take an operator as a       *)
(* parameter, which the provers cannot instantiate; well-foundedness of <   *)
(* stated for sets gives the same, one set of numbers at a time.            *)
(***************************************************************************)
EXTENDS Integers, Functions, WellFoundedInduction, FiniteSetTheorems, TLAPS

\* A set of naturals that is not empty has a least element.
LEMMA LeastExists ==
  ASSUME NEW T \in SUBSET Nat, T # {}
  PROVE  \E m \in T : \A k \in T : m <= k
<1> DEFINE R == OpToRel(<, Nat)
<1>1. IsWellFoundedOn(R, Nat)
  BY NatLessThanWellFounded, Zenon
<1>2. \E m \in T : \A k \in T : ~ (<<k, m>> \in R)
  <2> HIDE DEF R
  <2> QED
    BY <1>1, WFMin
<1>3. \A k, m \in Nat : <<k, m>> \in R <=> k < m
  BY Zenon DEF OpToRel
<1>4. PICK m \in T : \A k \in T : ~ (<<k, m>> \in R)
  BY <1>2
<1>5. \A k \in T : ~ (k < m)
  BY <1>3, <1>4
<1>6. \A k \in T : m <= k
  BY <1>5
<1> QED
  BY <1>6

\* A set of naturals that has 0 and with each number the next one has them all.
LEMMA SetInduction ==
  ASSUME NEW T, 0 \in T, \A n \in Nat : n \in T => n + 1 \in T
  PROVE  Nat \subseteq T
<1> SUFFICES ASSUME ~ (Nat \subseteq T) PROVE FALSE
  OBVIOUS
<1>1. Nat \ T \in SUBSET Nat /\ Nat \ T # {}
  OBVIOUS
<1>2. PICK m \in Nat \ T : \A k \in Nat \ T : m <= k
  BY <1>1, LeastExists
<1>3. m # 0 /\ m - 1 \in Nat /\ ~ (m <= m - 1)
  OBVIOUS
<1>4. m - 1 \in T
  BY <1>2, <1>3
<1>5. (m - 1) + 1 \in T
  BY <1>3, <1>4
<1> QED
  BY <1>5

\* A bounded set of positive numbers that is not empty has a greatest element.
LEMMA GreatestExists ==
  ASSUME NEW n \in Nat, NEW T \in SUBSET (1 .. n), T # {}
  PROVE  \E m \in T : \A k \in T : k <= m
<1> DEFINE U == {n - k : k \in T}
<1>1. U \in SUBSET Nat /\ U # {}
  <2>1. \A k \in T : n - k \in Nat
    OBVIOUS
  <2>2. PICK k \in T : TRUE
    OBVIOUS
  <2>3. n - k \in U
    OBVIOUS
  <2> QED
    BY <2>1, <2>3
<1>2. PICK u \in U : \A v \in U : u <= v
  <2> HIDE DEF U
  <2> QED
    BY <1>1, LeastExists
<1>3. PICK m \in T : u = n - m
  OBVIOUS
<1>4. \A k \in T : n - m <= n - k
  BY <1>2, <1>3
<1> QED
  BY <1>4

\* CHOOSE finds the greatest element, because there is only one.
LEMMA ChooseGreatest ==
  ASSUME NEW S \in SUBSET Int, NEW m \in S, \A j \in S : j <= m
  PROVE  (CHOOSE i \in S : \A j \in S : j <= i) = m
<1>1. \A i \in S : (\A j \in S : j <= i) => i = m
  OBVIOUS
<1>2. \E i \in S : \A j \in S : j <= i
  OBVIOUS
<1> QED
  BY <1>1, <1>2

-----------------------------------------------------------------------------
(* SumFunction, the sum over a function with a finite domain.  It goes through *)
(* the domain in an order of its own; these lemmas say that the order does not *)
(* matter.                                                                  *)

Some(s) == CHOOSE x \in s : TRUE

\* sum[s] is the sum of f over s, for the sets s of the collection C.
Adds(f, C, sum) ==
    sum = [s \in C |-> IF s = {} THEN 0 ELSE f[Some(s)] + sum[s \ {Some(s)}]]

\* The subsets of S with at most n elements.
Small(S, n) == {s \in SUBSET S : Cardinality(s) <= n}

\* Some picks a member, and what remains has one element less.
LEMMA SomeIn ==
  ASSUME NEW s, IsFiniteSet(s), s # {}
  PROVE  /\ Some(s) \in s /\ IsFiniteSet(s \ {Some(s)})
         /\ Cardinality(s \ {Some(s)}) = Cardinality(s) - 1
         /\ Cardinality(s) \in Nat \ {0}
<1>1. Some(s) \in s
  BY DEF Some
<1>2. Cardinality(s) \in Nat /\ Cardinality(s) # 0
  BY FS_CardinalityType, FS_EmptySet
<1> QED
  BY <1>1, <1>2, FS_RemoveElement

\* There is such a table for every finite set.
LEMMA SumExists ==
  ASSUME NEW f, NEW S, IsFiniteSet(S)
  PROVE  \E sum : Adds(f, SUBSET S, sum)
<1> DEFINE T == {n \in Nat : \E sum : Adds(f, Small(S, n), sum)}
<1>0. \A s \in SUBSET S : IsFiniteSet(s) /\ Cardinality(s) \in Nat
  BY FS_Subset, FS_CardinalityType
<1>1. 0 \in T
  <2>1. \A s \in Small(S, 0) : s = {}
    BY <1>0, FS_EmptySet DEF Small
  <2>2. Adds(f, Small(S, 0), [s \in Small(S, 0) |-> 0])
    BY <2>1 DEF Adds
  <2> QED
    BY <2>2
<1>2. ASSUME NEW n \in Nat, n \in T PROVE n + 1 \in T
  <2>1. PICK sum : Adds(f, Small(S, n), sum)
    BY <1>2
  <2>2. PICK more : more = [s \in Small(S, n + 1) |->
                              IF s = {} THEN 0 ELSE f[Some(s)] + sum[s \ {Some(s)}]]
    OBVIOUS
  <2>3. \A s \in Small(S, n + 1) : s # {} => s \ {Some(s)} \in Small(S, n)
    <3> SUFFICES ASSUME NEW s \in Small(S, n + 1), s # {}
                 PROVE  s \ {Some(s)} \in Small(S, n)
      OBVIOUS
    <3>1. s \in SUBSET S /\ Cardinality(s) \in Nat /\ Cardinality(s) <= n + 1
      BY <1>0 DEF Small
    <3>2. Cardinality(s \ {Some(s)}) = Cardinality(s) - 1
      BY <1>0, <3>1, SomeIn
    <3> QED
      BY <3>1, <3>2 DEF Small
  <2>4. \A s \in Small(S, n) : s \in Small(S, n + 1) /\ more[s] = sum[s]
    <3>1. \A s \in Small(S, n) : s \in Small(S, n + 1)
      BY <1>0 DEF Small
    <3>2. \A s \in Small(S, n) :
             sum[s] = IF s = {} THEN 0 ELSE f[Some(s)] + sum[s \ {Some(s)}]
      BY <2>1 DEF Adds
    <3> QED
      BY <2>2, <3>1, <3>2
  <2>5. \A s \in Small(S, n + 1) : s # {} => sum[s \ {Some(s)}] = more[s \ {Some(s)}]
    BY <2>3, <2>4
  <2>6. more = [s \in Small(S, n + 1) |->
                  IF s = {} THEN 0 ELSE f[Some(s)] + more[s \ {Some(s)}]]
    BY <2>2, <2>5
  <2>7. Adds(f, Small(S, n + 1), more)
    BY <2>6 DEF Adds
  <2> QED
    BY <2>7
<1>3. Nat \subseteq T
  <2> HIDE DEF T
  <2> QED
    BY <1>1, <1>2, SetInduction
<1>4. PICK sum : Adds(f, Small(S, Cardinality(S)), sum)
  BY <1>0, <1>3
<1>5. Small(S, Cardinality(S)) = SUBSET S
  BY FS_Subset DEF Small
<1> QED
  BY <1>4, <1>5

\* SumFunction reads its table at the whole domain.
LEMMA SumIs ==
  ASSUME NEW f, IsFiniteSet(DOMAIN f)
  PROVE  \E sum : Adds(f, SUBSET (DOMAIN f), sum) /\ SumFunction(f) = sum[DOMAIN f]
<1>1. SumFunction(f) = (CHOOSE sum : Adds(f, SUBSET (DOMAIN f), sum))[DOMAIN f]
  BY DEF SumFunction, SumFunctionOnSet, FoldFunctionOnSet, MapThenFoldSet, Adds, Some
<1>2. Adds(f, SUBSET (DOMAIN f), CHOOSE sum : Adds(f, SUBSET (DOMAIN f), sum))
  BY SumExists
<1> QED
  BY <1>1, <1>2

\* Any element of s may be taken out first.
Orderly(f, sum, s) == sum[s] \in Nat /\ \A x \in s : sum[s] = f[x] + sum[s \ {x}]

\* The order of a table does not matter.
LEMMA SumOrder ==
  ASSUME NEW S, IsFiniteSet(S), NEW f \in [S -> Nat], NEW sum, Adds(f, SUBSET S, sum)
  PROVE  \A s \in SUBSET S : Orderly(f, sum, s)
<1> DEFINE T == {n \in Nat : \A s \in SUBSET S : Cardinality(s) <= n => Orderly(f, sum, s)}
<1>0. \A s \in SUBSET S : IsFiniteSet(s) /\ Cardinality(s) \in Nat
  BY FS_Subset, FS_CardinalityType
<1>00. \A s \in SUBSET S : sum[s] = IF s = {} THEN 0 ELSE f[Some(s)] + sum[s \ {Some(s)}]
  BY DEF Adds
<1>1. 0 \in T
  <2>1. \A s \in SUBSET S : Cardinality(s) <= 0 => s = {}
    BY <1>0, FS_EmptySet
  <2> QED
    BY <1>00, <2>1 DEF Orderly
<1>2. ASSUME NEW n \in Nat, n \in T PROVE n + 1 \in T
  <2> SUFFICES ASSUME NEW s \in SUBSET S, Cardinality(s) <= n + 1 PROVE Orderly(f, sum, s)
    OBVIOUS
  <2>1. CASE s = {}
    <3>1. sum[s] = 0
      BY <1>00, <2>1
    <3> QED
      BY <2>1, <3>1 DEF Orderly
  <2>2. CASE s # {}
    <3>1. PICK y : y = Some(s)
      OBVIOUS
    <3>2. /\ y \in s /\ Cardinality(s \ {y}) = Cardinality(s) - 1
          /\ Cardinality(s) \in Nat /\ s \ {y} \in SUBSET S
      BY <1>0, <2>2, <3>1, SomeIn
    <3>3. sum[s] = f[y] + sum[s \ {y}]
      BY <1>00, <2>2, <3>1
    <3>4. \A u \in SUBSET S : Cardinality(u) <= n => Orderly(f, sum, u)
      BY <1>2
    <3>5. Orderly(f, sum, s \ {y})
      <4>1. Cardinality(s \ {y}) <= n
        BY <3>2
      <4> QED
        BY <3>2, <3>4, <4>1
    <3>6. f[y] \in Nat
      BY <3>2
    <3>7. ASSUME NEW x \in s PROVE sum[s] = f[x] + sum[s \ {x}]
      <4>1. CASE x = y
        BY <3>3, <4>1
      <4>2. CASE x # y
        <5>1. Cardinality(s \ {x}) = Cardinality(s) - 1 /\ s \ {x} \in SUBSET S
          BY <1>0, FS_RemoveElement
        <5>2. Orderly(f, sum, s \ {x})
          <6>1. Cardinality(s \ {x}) <= n
            BY <3>2, <5>1
          <6> QED
            BY <3>4, <5>1, <6>1
        <5>3. x \in s \ {y} /\ y \in s \ {x}
          BY <3>2, <4>2
        <5>4. PICK r : r = s \ {x, y}
          OBVIOUS
        <5>5. r = (s \ {y}) \ {x} /\ r = (s \ {x}) \ {y}
          BY <5>4
        <5>6. sum[s \ {y}] = f[x] + sum[r]
          BY <3>5, <5>3, <5>5 DEF Orderly
        <5>7. sum[s \ {x}] = f[y] + sum[r]
          BY <5>2, <5>3, <5>5 DEF Orderly
        <5>8. sum[r] \in Nat /\ f[x] \in Nat
          <6>1. r \in SUBSET S /\ Cardinality(r) <= n
            <7>1. IsFiniteSet(s \ {y}) /\ x \in s \ {y}
              BY <1>0, <3>2, <5>3
            <7>2. Cardinality((s \ {y}) \ {x}) = Cardinality(s \ {y}) - 1
              BY <7>1, FS_RemoveElement
            <7>3. Cardinality(r) = Cardinality(s \ {y}) - 1
              BY <5>5, <7>2
            <7>4. r \in SUBSET S
              BY <5>4
            <7> QED
              BY <3>2, <7>3, <7>4
          <6>2. Orderly(f, sum, r)
            BY <3>4, <6>1
          <6> QED
            BY <6>2 DEF Orderly
        <5> QED
          BY <3>3, <3>6, <5>6, <5>7, <5>8
      <4> QED
        BY <4>1, <4>2
    <3>8. sum[s] \in Nat
      BY <3>3, <3>5, <3>6 DEF Orderly
    <3> QED
      BY <3>7, <3>8 DEF Orderly
  <2> QED
    BY <2>1, <2>2
<1>3. Nat \subseteq T
  <2> HIDE DEF T
  <2> QED
    BY <1>1, <1>2, SetInduction
<1> SUFFICES ASSUME NEW s \in SUBSET S PROVE Orderly(f, sum, s)
  OBVIOUS
<1>4. Cardinality(s) \in T /\ Cardinality(s) <= Cardinality(s)
  BY <1>0, <1>3
<1> QED
  BY <1>4

\* The sum is that of one element and of the others.
LEMMA SumSplit ==
  ASSUME NEW D, IsFiniteSet(D), NEW f \in [D -> Nat], NEW x \in D
  PROVE  /\ SumFunction(f) = f[x] + SumFunction([y \in D \ {x} |-> f[y]])
         /\ SumFunction([y \in D \ {x} |-> f[y]]) \in Nat
<1>1. PICK R : R = D \ {x}
  OBVIOUS
<1>2. PICK g : g = [y \in R |-> f[y]]
  OBVIOUS
<1>3. DOMAIN f = D /\ DOMAIN g = R /\ R \in SUBSET D /\ \A y \in R : f[y] = g[y]
  BY <1>1, <1>2
<1>4. IsFiniteSet(R)
  BY <1>1, FS_RemoveElement
<1>5. PICK sum : Adds(f, SUBSET D, sum) /\ SumFunction(f) = sum[D]
  BY <1>3, SumIs
<1>6. PICK part : Adds(g, SUBSET R, part) /\ SumFunction(g) = part[R]
  BY <1>3, <1>4, SumIs
<1>7. \A s \in SUBSET R : sum[s] = part[s]
  <2> DEFINE T == {n \in Nat : \A s \in SUBSET R : Cardinality(s) <= n => sum[s] = part[s]}
  <2>0. \A s \in SUBSET R : IsFiniteSet(s) /\ Cardinality(s) \in Nat
    BY <1>4, FS_Subset, FS_CardinalityType
  <2>1. \A s \in SUBSET R :
           /\ sum[s] = IF s = {} THEN 0 ELSE f[Some(s)] + sum[s \ {Some(s)}]
           /\ part[s] = IF s = {} THEN 0 ELSE g[Some(s)] + part[s \ {Some(s)}]
    BY <1>3, <1>5, <1>6 DEF Adds
  <2>2. 0 \in T
    <3>1. \A s \in SUBSET R : Cardinality(s) <= 0 => s = {}
      BY <2>0, FS_EmptySet
    <3> QED
      BY <2>1, <3>1
  <2>3. ASSUME NEW n \in Nat, n \in T PROVE n + 1 \in T
    <3> SUFFICES ASSUME NEW s \in SUBSET R, Cardinality(s) <= n + 1, s # {}
                 PROVE  sum[s] = part[s]
      <4> SUFFICES ASSUME NEW s \in SUBSET R, Cardinality(s) <= n + 1
                   PROVE  sum[s] = part[s]
        OBVIOUS
      <4>1. CASE s = {}
        BY <2>1, <4>1
      <4> QED
        BY <4>1
    <3>1. /\ Some(s) \in s /\ Cardinality(s \ {Some(s)}) = Cardinality(s) - 1
          /\ Cardinality(s) \in Nat /\ s \ {Some(s)} \in SUBSET R
      BY <2>0, SomeIn
    <3>2. sum[s \ {Some(s)}] = part[s \ {Some(s)}]
      BY <2>3, <3>1
    <3>3. f[Some(s)] = g[Some(s)]
      BY <1>3, <3>1
    <3> QED
      BY <2>1, <3>2, <3>3
  <2>4. Nat \subseteq T
    <3> HIDE DEF T
    <3> QED
      BY <2>2, <2>3, SetInduction
  <2> QED
    BY <2>0, <2>4
<1>8. Orderly(f, sum, D) /\ Orderly(f, sum, R)
  BY <1>3, <1>5, SumOrder
<1>9. sum[D] = f[x] + sum[R] /\ sum[R] \in Nat
  BY <1>1, <1>8 DEF Orderly
<1> QED
  BY <1>1, <1>2, <1>5, <1>6, <1>7, <1>9

\* The sum over nothing.
LEMMA SumEmpty ==
  ASSUME NEW f, DOMAIN f = {}
  PROVE  SumFunction(f) = 0
<1>1. PICK sum : Adds(f, SUBSET (DOMAIN f), sum) /\ SumFunction(f) = sum[DOMAIN f]
  BY SumIs, FS_EmptySet
<1>2. sum[{}] = 0
  BY <1>1 DEF Adds
<1> QED
  BY <1>1, <1>2
=============================================================================
