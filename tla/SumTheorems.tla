---------------------------- MODULE SumTheorems ----------------------------
(***************************************************************************)
(* What the folds that add up numbers compute: sums over finite sets and     *)
(* over sequences. Induction is by a smallest counterexample, which a set of *)
(* numbers has. Also some facts about concatenations.                       *)
(***************************************************************************)
EXTENDS Integers, Sequences, SequencesExt, FiniteSetsExt, FiniteSetTheorems,
        SequenceTheorems, WellFoundedInduction, TLAPS

-----------------------------------------------------------------------------
(* Some natural number of a set of them is the least. *)
LEMMA LeastOf ==
    ASSUME NEW S \in SUBSET Nat, S # {}
    PROVE  \E m \in S : \A n \in S : m <= n
  <1> DEFINE less == {ss \in Nat \X Nat : ss[1] < ss[2]}
  <1>1. IsWellFoundedOn(less, Nat)
    BY NatLessThanWellFounded DEF OpToRel
  <1>2. \A n, m \in Nat : n < m => <<n, m>> \in less
    OBVIOUS
  <1> HIDE DEF less
  <1>3. PICK m \in S : \A n \in S : <<n, m>> \notin less
    BY <1>1, WFMin
  <1>4. ASSUME NEW n \in S
        PROVE  m <= n
    <2>1. ~(n < m) /\ n \in Nat /\ m \in Nat
      BY <1>2, <1>3
    <2>2. QED
      BY <2>1
  <1>5. QED
    BY <1>4

(* Induction over the natural numbers, for a property given as a set. *)
LEMMA NatSetInduction ==
    ASSUME NEW P \in SUBSET Nat, 0 \in P, \A n \in P : n + 1 \in P
    PROVE  P = Nat
  <1> DEFINE rest == Nat \ P
  <1>1. SUFFICES ASSUME rest # {} PROVE FALSE
    OBVIOUS
  <1>2. PICK m \in rest : \A n \in rest : m <= n
    BY <1>1, LeastOf
  <1>3. m \in Nat /\ m # 0
    BY <1>2
  <1>4. m - 1 \in Nat /\ ~(m <= m - 1) /\ (m - 1) + 1 = m
    BY <1>3
  <1>5. m - 1 \in P
    BY <1>2, <1>4
  <1>6. m \in P
    BY <1>4, <1>5
  <1>7. QED
    BY <1>2, <1>6

-----------------------------------------------------------------------------
(* Sums over the subsets of a set T of values f, added in the order of a     *)
(* choice function c.                                                       *)

Chooses(c, T) == \A s \in SUBSET T : s # {} => c[s] \in s

IsSum(g, T, c, f) ==
    g = [s \in SUBSET T |-> IF s = {} THEN 0 ELSE f[c[s]] + g[s \ {c[s]}]]

(* The same with the value after the rest. *)
IsSumLeft(g, T, c, f) ==
    g = [s \in SUBSET T |-> IF s = {} THEN 0 ELSE g[s \ {c[s]}] + f[c[s]]]

EitherSum(g, T, c, f) == IsSum(g, T, c, f) \/ IsSumLeft(g, T, c, f)

(* The subsets of up to n elements. *)
SmallSubsets(T, n) == {s \in SUBSET T : Cardinality(s) <= n}

(* Removing the chosen element makes a set smaller by one. *)
LEMMA OneLess ==
    ASSUME NEW T, IsFiniteSet(T), NEW s \in SUBSET T, NEW x \in s
    PROVE  /\ IsFiniteSet(s) /\ Cardinality(s) \in Nat
           /\ s \ {x} \in SUBSET T
           /\ Cardinality(s \ {x}) = Cardinality(s) - 1
           /\ Cardinality(s) > 0
  <1>1. IsFiniteSet(s)
    BY FS_Subset
  <1>2. Cardinality(s) \in Nat
    BY <1>1, FS_CardinalityType
  <1>3. Cardinality(s \ {x}) = Cardinality(s) - 1 /\ IsFiniteSet(s \ {x})
    BY <1>1, FS_RemoveElement
  <1>4. Cardinality(s \ {x}) \in Nat
    BY <1>3, FS_CardinalityType
  <1>5. QED
    BY <1>1, <1>2, <1>3, <1>4

(* There is such a sum. *)
LEMMA SumExists ==
    ASSUME NEW T, IsFiniteSet(T), NEW c, Chooses(c, T), NEW f \in [T -> Int]
    PROVE  \E g \in [SUBSET T -> Int] : IsSum(g, T, c, f)
  <1> DEFINE Up(g, n) == /\ g \in [SmallSubsets(T, n) -> Int]
                         /\ \A s \in SmallSubsets(T, n) :
                               g[s] = IF s = {} THEN 0 ELSE f[c[s]] + g[s \ {c[s]}]
             P == {n \in Nat : \E g : Up(g, n)}
  <1>1. 0 \in P
    <2> DEFINE g == [s \in SmallSubsets(T, 0) |-> 0]
    <2>1. \A s \in SmallSubsets(T, 0) : s = {}
      <3> SUFFICES ASSUME NEW s \in SmallSubsets(T, 0), s # {}
                   PROVE  FALSE
        OBVIOUS
      <3>1. PICK x \in s : TRUE
        OBVIOUS
      <3>2. Cardinality(s) > 0 /\ Cardinality(s) <= 0 /\ Cardinality(s) \in Nat
        BY <3>1, OneLess DEF SmallSubsets
      <3>3. QED
        BY <3>2
    <2>2. Up(g, 0)
      BY <2>1
    <2>3. QED
      BY <2>2
  <1>2. ASSUME NEW n \in P
        PROVE  n + 1 \in P
    <2>1. PICK g : Up(g, n)
      BY <1>2
    <2> DEFINE h == [s \in SmallSubsets(T, n + 1) |->
                        IF s = {} THEN 0 ELSE f[c[s]] + g[s \ {c[s]}]]
    <2>2. ASSUME NEW s \in SmallSubsets(T, n + 1), s # {}
          PROVE  /\ s \ {c[s]} \in SmallSubsets(T, n)
                 /\ g[s \ {c[s]}] \in Int /\ f[c[s]] \in Int
      <3>1. c[s] \in s /\ s \in SUBSET T /\ Cardinality(s) <= n + 1
        BY <2>2 DEF Chooses, SmallSubsets
      <3>2. /\ s \ {c[s]} \in SUBSET T
            /\ Cardinality(s \ {c[s]}) = Cardinality(s) - 1
            /\ Cardinality(s) \in Nat
        <4>1. PICK x : x = c[s]
          OBVIOUS
        <4>2. x \in s /\ s \in SUBSET T
          BY <3>1, <4>1
        <4>3. /\ s \ {x} \in SUBSET T
              /\ Cardinality(s \ {x}) = Cardinality(s) - 1
              /\ Cardinality(s) \in Nat
          BY <4>2, OneLess
        <4>4. QED
          BY <4>1, <4>3
      <3>3. s \ {c[s]} \in SmallSubsets(T, n)
        BY <3>2 DEF SmallSubsets
      <3>4. QED
        BY <2>1, <3>1, <3>3
    <2>3. ASSUME NEW s \in SmallSubsets(T, n)
          PROVE  s \in SmallSubsets(T, n + 1) /\ h[s] = g[s]
      <3>1. Cardinality(s) \in Nat /\ s \in SUBSET T
        BY FS_Subset, FS_CardinalityType DEF SmallSubsets
      <3>2. s \in SmallSubsets(T, n + 1)
        BY <3>1 DEF SmallSubsets
      <3>3. QED
        BY <2>1, <3>2
    <2>4. h \in [SmallSubsets(T, n + 1) -> Int]
      <3>1. ASSUME NEW s \in SmallSubsets(T, n + 1)
            PROVE  (IF s = {} THEN 0 ELSE f[c[s]] + g[s \ {c[s]}]) \in Int
        BY <2>2
      <3>2. QED
        BY <3>1
    <2>5. ASSUME NEW s \in SmallSubsets(T, n + 1)
          PROVE  h[s] = IF s = {} THEN 0 ELSE f[c[s]] + h[s \ {c[s]}]
      BY <2>2, <2>3
    <2> HIDE DEF h
    <2>6. Up(h, n + 1)
      BY <2>4, <2>5
    <2> HIDE DEF Up
    <2>7. n + 1 \in Nat /\ \E k : Up(k, n + 1)
      BY <1>2, <2>6
    <2>8. QED
      BY <2>7
  <1> HIDE DEF P
  <1>3. P = Nat
    <2>1. P \in SUBSET Nat
      BY DEF P
    <2>2. QED
      BY <1>1, <1>2, <2>1, NatSetInduction
  <1>4. Cardinality(T) \in P
    BY <1>3, FS_CardinalityType
  <1>5. SmallSubsets(T, Cardinality(T)) = SUBSET T
    BY FS_Subset DEF SmallSubsets
  <1>6. PICK g : Up(g, Cardinality(T))
    BY <1>4 DEF P
  <1>7. g \in [SUBSET T -> Int] /\ IsSum(g, T, c, f)
    BY <1>5, <1>6 DEF IsSum
  <1>8. QED
    BY <1>7

(* The choice functions c and d agree on the subsets of T. *)
Agree(c, d, T) == \A s \in SUBSET T : d[s] = c[s]

(* So do the values f and e. *)
Same(f, e, T) == \A x \in T : e[x] = f[x]

(* e is f with k more for t. *)
Shifted(f, e, T, t, k) == \A x \in T : e[x] = f[x] + (IF x = t THEN k ELSE 0)

(* The sum h is g with k more for the sets with t. *)
ShiftedSum(g, h, T, t, k) ==
    \A s \in SUBSET T : h[s] = g[s] + (IF t \in s THEN k ELSE 0)

(* Adding k to the value of t adds k to the sum of every set with t, also    *)
(* when the sum is made over the subsets of a larger set.                    *)
LEMMA SumShift ==
    ASSUME NEW U, IsFiniteSet(U), NEW T \in SUBSET U,
           NEW c, Chooses(c, T), NEW d, Agree(c, d, T),
           NEW f \in [T -> Int], NEW e, NEW t, NEW k \in Int,
           Shifted(f, e, T, t, k),
           NEW g \in [SUBSET T -> Int], IsSum(g, T, c, f),
           NEW h, EitherSum(h, U, d, e)
    PROVE  ShiftedSum(g, h, T, t, k)
  <1> DEFINE Right(s) == h[s] = g[s] + (IF t \in s THEN k ELSE 0)
             P == {n \in Nat : \A s \in SmallSubsets(T, n) : Right(s)}
  <1>1. IsFiniteSet(T)
    BY FS_Subset
  <1>2. Right({})
    <2>1. {} \in SUBSET T /\ {} \in SUBSET U
      OBVIOUS
    <2>2. g[{}] = 0 /\ h[{}] = 0
      BY <2>1 DEF IsSum, IsSumLeft, EitherSum
    <2>3. QED
      BY <2>2
  <1>3. ASSUME NEW s \in SUBSET T, NEW x \in s, x = c[s], Right(s \ {x})
        PROVE  Right(s)
    <2>1. s \ {x} \in SUBSET T /\ s \in SUBSET U /\ s # {} /\ d[s] = x /\ x \in T
      BY <1>3 DEF Agree
    <2>2. g[s] = f[x] + g[s \ {x}]
      BY <1>3, <2>1 DEF IsSum
    <2>3. h[s] = e[x] + h[s \ {x}] \/ h[s] = h[s \ {x}] + e[x]
      <3>1. CASE IsSum(h, U, d, e)
        BY <1>3, <2>1, <3>1 DEF IsSum
      <3>2. CASE IsSumLeft(h, U, d, e)
        BY <1>3, <2>1, <3>2 DEF IsSumLeft
      <3>3. QED
        BY <3>1, <3>2 DEF EitherSum
    <2>4. e[x] = f[x] + (IF x = t THEN k ELSE 0)
      BY <2>1 DEF Shifted
    <2>5. f[x] \in Int /\ g[s \ {x}] \in Int
      BY <2>1
    <2>6. CASE x = t
      <3>1. t \notin s \ {x} /\ t \in s
        BY <2>6
      <3>2. h[s \ {x}] = g[s \ {x}] /\ e[x] = f[x] + k
        BY <1>3, <2>4, <2>5, <2>6, <3>1
      <3>3. QED
        BY <2>2, <2>3, <2>5, <3>1, <3>2
    <2>7. CASE x # t
      <3>1. (t \in s \ {x}) <=> (t \in s)
        BY <2>7
      <3>2. e[x] = f[x]
        BY <2>4, <2>5, <2>7
      <3>3. CASE t \in s
        <4>1. h[s \ {x}] = g[s \ {x}] + k
          BY <1>3, <3>1, <3>3
        <4>2. QED
          BY <2>2, <2>3, <2>5, <3>2, <3>3, <4>1
      <3>4. CASE t \notin s
        <4>1. h[s \ {x}] = g[s \ {x}]
          BY <1>3, <2>5, <3>1, <3>4
        <4>2. QED
          BY <2>2, <2>3, <2>5, <3>2, <3>4, <4>1
      <3>5. QED
        BY <3>3, <3>4
    <2>8. QED
      BY <2>6, <2>7
  <1> HIDE DEF Right
  <1>4. 0 \in P
    <2>1. ASSUME NEW s \in SmallSubsets(T, 0)
          PROVE  s = {}
      <3>1. SUFFICES ASSUME NEW x \in s PROVE FALSE
        OBVIOUS
      <3>2. Cardinality(s) > 0 /\ Cardinality(s) <= 0 /\ Cardinality(s) \in Nat
        BY <1>1, OneLess DEF SmallSubsets
      <3>3. QED
        BY <3>2
    <2>2. QED
      BY <1>2, <2>1
  <1>5. ASSUME NEW n \in P
        PROVE  n + 1 \in P
    <2>1. ASSUME NEW s \in SmallSubsets(T, n + 1), s # {}
          PROVE  Right(s)
      <3>1. s \in SUBSET T /\ Cardinality(s) <= n + 1
        BY DEF SmallSubsets
      <3>2. PICK x \in s : x = c[s]
        BY <2>1, <3>1 DEF Chooses
      <3>3. /\ s \ {x} \in SUBSET T
            /\ Cardinality(s \ {x}) = Cardinality(s) - 1
            /\ Cardinality(s) \in Nat
        BY <1>1, <3>1, OneLess
      <3>4. s \ {x} \in SmallSubsets(T, n)
        BY <3>1, <3>3 DEF SmallSubsets
      <3>5. QED
        BY <1>3, <3>1, <3>2, <3>4
    <2>2. \A s \in SmallSubsets(T, n + 1) : Right(s)
      BY <1>2, <2>1, Zenon
    <2>3. n + 1 \in Nat
      OBVIOUS
    <2>4. QED
      BY <2>2, <2>3, Zenon
  <1> HIDE DEF P
  <1>6. P = Nat
    <2>1. P \in SUBSET Nat
      BY DEF P
    <2>2. QED
      BY <1>4, <1>5, <2>1, NatSetInduction
  <1>7. ASSUME NEW s \in SUBSET T
        PROVE  Right(s)
    <2>1. Cardinality(s) \in Nat
      BY <1>1, FS_Subset, FS_CardinalityType
    <2>2. s \in SmallSubsets(T, Cardinality(s))
      BY <2>1 DEF SmallSubsets
    <2>3. QED
      BY <1>6, <2>1, <2>2 DEF P
  <1>8. QED
    BY <1>7 DEF Right, ShiftedSum

(* Two sums of the same values, one of them perhaps over a larger set. *)
SumPair(U, T, c, d, f, e, g, h) ==
    /\ IsFiniteSet(U) /\ T \in SUBSET U
    /\ Chooses(c, T) /\ Agree(c, d, T)
    /\ f \in [T -> Int] /\ Same(f, e, T)
    /\ g \in [SUBSET T -> Int]
    /\ IsSum(g, T, c, f) /\ EitherSum(h, U, d, e)

(* They agree. *)
LEMMA SumsAgree ==
    ASSUME NEW U, NEW T, NEW c, NEW d, NEW f, NEW e, NEW g, NEW h,
           SumPair(U, T, c, d, f, e, g, h)
    PROVE  \A s \in SUBSET T : h[s] = g[s]
  <1> USE DEF SumPair
  <1>1. PICK t : t = 0
    OBVIOUS
  <1>2. PICK k \in Int : k = 0
    OBVIOUS
  <1>3. Shifted(f, e, T, t, k)
    BY <1>2 DEF Shifted, Same
  <1>4. ShiftedSum(g, h, T, t, k)
    BY <1>3, SumShift
  <1>5. QED
    BY <1>2, <1>4 DEF ShiftedSum

(* There is one sum, in whichever order the two operands are written. *)
LEMMA SumIsUnique ==
    ASSUME NEW T, IsFiniteSet(T), NEW c, Chooses(c, T), NEW f \in [T -> Int],
           NEW g \in [SUBSET T -> Int], IsSum(g, T, c, f),
           NEW h, EitherSum(h, T, c, f)
    PROVE  h[T] = g[T]
  <1>1. SumPair(T, T, c, c, f, f, g, h)
    BY DEF SumPair, Agree, Same
  <1>2. \A s \in SUBSET T : h[s] = g[s]
    BY <1>1, SumsAgree
  <1>3. QED
    BY <1>2

-----------------------------------------------------------------------------
(* The sum of a function over a finite set.                                 *)

Total(f, T) == MapThenSumSet(LAMBDA x : f[x], T)

AnyOf(T) == [s \in SUBSET T |-> CHOOSE x \in s : TRUE]

(* It is a sum in the sense above. *)
LEMMA TotalIsSum ==
    ASSUME NEW T, IsFiniteSet(T), NEW f \in [T -> Int]
    PROVE  \E g \in [SUBSET T -> Int] : IsSum(g, T, AnyOf(T), f) /\ Total(f, T) = g[T]
  <1> DEFINE Rec(g) == g = [s \in SUBSET T |-> IF s = {} THEN 0
                               ELSE f[CHOOSE x \in s : TRUE] + g[s \ {CHOOSE x \in s : TRUE}]]
  <1>1. Chooses(AnyOf(T), T)
    BY DEF Chooses, AnyOf
  <1>2. \A g : IsSum(g, T, AnyOf(T), f) <=> Rec(g)
    BY DEF IsSum, AnyOf
  <1>3. Total(f, T) = (CHOOSE g : Rec(g))[T]
    BY DEF Total, MapThenSumSet, MapThenFoldSet
  <1> DEFINE r == CHOOSE g : Rec(g)
  <1> HIDE DEF Rec
  <1>4. Rec(r)
    BY <1>1, <1>2, SumExists
  <1>5. PICK g \in [SUBSET T -> Int] : IsSum(g, T, AnyOf(T), f)
    BY <1>1, SumExists
  <1>6. IsSum(r, T, AnyOf(T), f)
    BY <1>2, <1>4
  <1> HIDE DEF r
  <1>7. EitherSum(r, T, AnyOf(T), f)
    BY <1>6 DEF EitherSum
  <1>8. r[T] = g[T]
    BY <1>1, <1>5, <1>7, SumIsUnique
  <1>9. QED
    BY <1>3, <1>5, <1>8 DEF r

(* A total of integers is an integer. *)
LEMMA TotalType ==
    ASSUME NEW T, IsFiniteSet(T), NEW f \in [T -> Int]
    PROVE  Total(f, T) \in Int
  <1>1. PICK g \in [SUBSET T -> Int] : IsSum(g, T, AnyOf(T), f) /\ Total(f, T) = g[T]
    BY TotalIsSum
  <1>2. QED
    BY <1>1

(* The sum of zeros. *)
LEMMA TotalZero ==
    ASSUME NEW T, IsFiniteSet(T)
    PROVE  Total([x \in T |-> 0], T) = 0
  <1> DEFINE f == [x \in T |-> 0]
             z == [s \in SUBSET T |-> 0]
  <1>1. f \in [T -> Int] /\ z \in [SUBSET T -> Int]
    OBVIOUS
  <1>2. Chooses(AnyOf(T), T)
    BY DEF Chooses, AnyOf
  <1>3. IsSum(z, T, AnyOf(T), f)
    <2>1. ASSUME NEW s \in SUBSET T
          PROVE  z[s] = IF s = {} THEN 0 ELSE f[AnyOf(T)[s]] + z[s \ {AnyOf(T)[s]}]
      <3>1. CASE s # {}
        <4>1. AnyOf(T)[s] \in T /\ s \ {AnyOf(T)[s]} \in SUBSET T
          BY <1>2, <3>1 DEF Chooses
        <4>2. f[AnyOf(T)[s]] = 0 /\ z[s \ {AnyOf(T)[s]}] = 0
          BY <4>1
        <4>3. QED
          BY <3>1, <4>2
      <3>2. QED
        BY <3>1
    <2>2. QED
      BY <2>1 DEF IsSum
  <1> HIDE DEF f
  <1>4. PICK g \in [SUBSET T -> Int] : IsSum(g, T, AnyOf(T), f) /\ Total(f, T) = g[T]
    BY <1>1, TotalIsSum
  <1> HIDE DEF z
  <1>5. g[T] = z[T]
    <2>1. EitherSum(g, T, AnyOf(T), f)
      BY <1>4 DEF EitherSum
    <2>2. QED
      BY <1>1, <1>2, <1>3, <2>1, SumIsUnique
  <1>6. QED
    BY <1>4, <1>5 DEF f, z

(* Adding k to one value. *)
LEMMA TotalAdd ==
    ASSUME NEW T, IsFiniteSet(T), NEW f \in [T -> Int], NEW e \in [T -> Int],
           NEW t \in T, NEW k \in Int, Shifted(f, e, T, t, k)
    PROVE  Total(e, T) = Total(f, T) + k
  <1>1. PICK g \in [SUBSET T -> Int] : IsSum(g, T, AnyOf(T), f) /\ Total(f, T) = g[T]
    BY TotalIsSum
  <1>2. PICK h \in [SUBSET T -> Int] : IsSum(h, T, AnyOf(T), e) /\ Total(e, T) = h[T]
    BY TotalIsSum
  <1>3. /\ Chooses(AnyOf(T), T) /\ Agree(AnyOf(T), AnyOf(T), T) /\ T \in SUBSET T
        /\ EitherSum(h, T, AnyOf(T), e)
    BY <1>2 DEF Chooses, AnyOf, Agree, EitherSum
  <1>4. ShiftedSum(g, h, T, t, k)
    BY <1>1, <1>2, <1>3, SumShift
  <1>5. QED
    BY <1>1, <1>2, <1>4 DEF ShiftedSum

-----------------------------------------------------------------------------
(* The sum of a field over the records of a sequence.                       *)

SumOver(data, key) == FoldLeft(LAMBDA n, m : n + m[key], 0, data)

GreatestIn(T) == [s \in SUBSET T |-> Max(s)]

(* A set of numbers up to n has a greatest one, which is its Max. *)
LEMMA MaxIsIn ==
    ASSUME NEW n \in Nat, NEW s \in SUBSET (1..n), s # {}
    PROVE  Max(s) \in s /\ \A k \in s : k <= Max(s)
  <1> DEFINE below == {n - k : k \in s}
  <1>1. below \in SUBSET Nat /\ below # {}
    <2>1. \A k \in s : n - k \in Nat
      OBVIOUS
    <2>2. QED
      BY <2>1
  <1>2. PICK b \in below : \A a \in below : b <= a
    BY <1>1, LeastOf
  <1>3. PICK m \in s : b = n - m
    BY <1>2
  <1>4. \A k \in s : m >= k
    <2> SUFFICES ASSUME NEW k \in s PROVE m >= k
      OBVIOUS
    <2>1. n - m <= n - k
      BY <1>2, <1>3
    <2>2. QED
      BY <2>1
  <1>5. Max(s) \in s /\ \A k \in s : Max(s) >= k
    BY <1>4 DEF Max
  <1>6. QED
    BY <1>5

Lengths(data, key) == [i \in DOMAIN data |-> data[i][key]]

(* data is n records with a number in the field. *)
Measured(data, n, key) == DOMAIN data = 1..n /\ \A i \in 1..n : data[i][key] \in Int

(* A fold of a sequence is a sum in the sense above. *)
LEMMA SumOverIsSum ==
    ASSUME NEW n \in Nat, NEW data, NEW key, Measured(data, n, key)
    PROVE  \E g \in [SUBSET (1..n) -> Int] :
              /\ IsSum(g, 1..n, GreatestIn(1..n), Lengths(data, key))
              /\ SumOver(data, key) = g[1..n]
  <1> DEFINE dom == 1..n
             val == Lengths(data, key)
             Rec(g) == g = [s \in SUBSET dom |-> IF s = {} THEN 0
                               ELSE g[s \ {Max(s)}] + data[Max(s)][key]]
  <1>1. DOMAIN data = dom /\ IsFiniteSet(dom) /\ val \in [dom -> Int]
    <2>1. IsFiniteSet(dom)
      BY FS_Interval
    <2>2. QED
      BY <2>1 DEF Measured, Lengths
  <1>2. Chooses(GreatestIn(dom), dom)
    BY MaxIsIn DEF Chooses, GreatestIn
  <1>3. SumOver(data, key) = (CHOOSE g : Rec(g))[dom]
    <2>1. SumOver(data, key) = (CHOOSE g : g = [s \in SUBSET (DOMAIN data) |-> IF s = {} THEN 0
                               ELSE g[s \ {Max(s)}] + data[Max(s)][key]])[DOMAIN data]
      BY DEF SumOver, FoldLeft, MapThenFoldSet
    <2>2. QED
      BY <1>1, <2>1
  <1>4. PICK g \in [SUBSET dom -> Int] : IsSum(g, dom, GreatestIn(dom), val)
    BY <1>1, <1>2, SumExists
  <1>5. \A s \in SUBSET dom : s # {} => Max(s) \in dom /\ GreatestIn(dom)[s] = Max(s)
    BY <1>2 DEF Chooses, GreatestIn
  <1>6. Rec(g)
    <2>1. ASSUME NEW s \in SUBSET dom, s # {}
          PROVE  g[s] = g[s \ {Max(s)}] + data[Max(s)][key]
      <3>1. val[Max(s)] = data[Max(s)][key] /\ val[Max(s)] \in Int
        BY <1>1, <1>5, <2>1 DEF Lengths
      <3>2. s \ {Max(s)} \in SUBSET dom /\ g[s \ {Max(s)}] \in Int
        BY <1>4
      <3>3. g[s] = val[Max(s)] + g[s \ {Max(s)}]
        BY <1>4, <1>5, <2>1 DEF IsSum
      <3>4. QED
        BY <3>1, <3>2, <3>3
    <2>2. g[{}] = 0
      BY <1>4 DEF IsSum
    <2>3. g = [s \in SUBSET dom |-> g[s]]
      BY <1>4
    <2>4. QED
      BY <2>1, <2>2, <2>3
  <1> DEFINE r == CHOOSE h : Rec(h)
  <1>7. Rec(r)
    BY <1>6
  <1> HIDE DEF r
  <1>8. EitherSum(r, dom, GreatestIn(dom), val)
    <2>1. \A s \in SUBSET dom : s # {} => val[GreatestIn(dom)[s]] = data[Max(s)][key]
      BY <1>1, <1>5 DEF Lengths
    <2>2. [s \in SUBSET dom |-> IF s = {} THEN 0 ELSE r[s \ {Max(s)}] + data[Max(s)][key]]
          = [s \in SUBSET dom |-> IF s = {} THEN 0
                ELSE r[s \ {GreatestIn(dom)[s]}] + val[GreatestIn(dom)[s]]]
      BY <1>5, <2>1
    <2>3. QED
      BY <1>7, <2>2 DEF EitherSum, IsSumLeft
  <1> HIDE DEF val, dom, Rec
  <1>9. r[dom] = g[dom]
    BY <1>1, <1>2, <1>4, <1>8, SumIsUnique
  <1>10. QED
    BY <1>3, <1>4, <1>9 DEF r, dom, val

(* The sum of no records. *)
LEMMA SumOverEmpty ==
    ASSUME NEW data, NEW key, Measured(data, 0, key)
    PROVE  SumOver(data, key) = 0
  <1>1. PICK g \in [SUBSET (1..0) -> Int] :
              /\ IsSum(g, 1..0, GreatestIn(1..0), Lengths(data, key))
              /\ SumOver(data, key) = g[1..0]
    BY SumOverIsSum
  <1>2. 1..0 = {} /\ {} \in SUBSET (1..0)
    OBVIOUS
  <1>3. g[{}] = 0
    BY <1>1, <1>2 DEF IsSum
  <1>4. QED
    BY <1>1, <1>2, <1>3

(* The records of more are those of data and one behind them. *)
OneMore(data, n, more) == \A i \in 1..n : more[i] = data[i]

(* One more record adds its number. *)
LEMMA SumOverAppend ==
    ASSUME NEW n \in Nat, NEW data, NEW more, NEW key,
           Measured(data, n, key), Measured(more, n + 1, key), OneMore(data, n, more)
    PROVE  /\ SumOver(data, key) \in Int
           /\ SumOver(more, key) = SumOver(data, key) + more[n + 1][key]
  <1> DEFINE dom == 1..n
             all == 1..(n + 1)
             f == Lengths(data, key)
             e == Lengths(more, key)
  <1>1. PICK g \in [SUBSET dom -> Int] :
              IsSum(g, dom, GreatestIn(dom), f) /\ SumOver(data, key) = g[dom]
    BY SumOverIsSum
  <1>2. PICK h \in [SUBSET all -> Int] :
              IsSum(h, all, GreatestIn(all), e) /\ SumOver(more, key) = h[all]
    <2>1. n + 1 \in Nat
      OBVIOUS
    <2>2. QED
      BY <2>1, SumOverIsSum
  <1>3. /\ f \in [dom -> Int] /\ e \in [all -> Int]
        /\ Same(f, e, dom) /\ e[n + 1] = more[n + 1][key]
        /\ dom \in SUBSET all /\ IsFiniteSet(all)
    <2>1. IsFiniteSet(all)
      BY FS_Interval
    <2>2. dom \in SUBSET all
      OBVIOUS
    <2>3. f \in [dom -> Int] /\ e \in [all -> Int]
      BY DEF Measured, Lengths
    <2>4. ASSUME NEW i \in dom
          PROVE  e[i] = f[i]
      <3>1. f[i] = data[i][key] /\ e[i] = more[i][key]
        BY <2>2 DEF Measured, Lengths
      <3>2. more[i] = data[i]
        BY DEF OneMore
      <3>3. QED
        BY <3>1, <3>2
    <2>5. e[n + 1] = more[n + 1][key]
      BY DEF Measured, Lengths
    <2>6. QED
      BY <2>1, <2>2, <2>3, <2>4, <2>5 DEF Same
  <1>4. Chooses(GreatestIn(dom), dom) /\ Chooses(GreatestIn(all), all)
    BY MaxIsIn DEF Chooses, GreatestIn
  <1>5. Agree(GreatestIn(dom), GreatestIn(all), dom) /\ EitherSum(h, all, GreatestIn(all), e)
    BY <1>2 DEF Agree, GreatestIn, EitherSum
  <1>6. n + 1 \in all /\ all \ {n + 1} = dom /\ all \in SUBSET all /\ all # {}
    OBVIOUS
  <1>7. GreatestIn(all)[all] = n + 1
    <2>1. n + 1 \in Nat
      OBVIOUS
    <2>2. Max(all) \in all /\ \A k \in all : k <= Max(all)
      BY <1>6, <2>1, MaxIsIn
    <2>3. QED
      BY <1>6, <2>2 DEF GreatestIn
  <1> HIDE DEF dom, all, f, e
  <1>8. \A s \in SUBSET dom : h[s] = g[s]
    <2>1. SumPair(all, dom, GreatestIn(dom), GreatestIn(all), f, e, g, h)
      BY <1>1, <1>3, <1>4, <1>5 DEF SumPair
    <2>2. QED
      BY <2>1, SumsAgree
  <1>9. h[all] = e[n + 1] + h[dom]
    BY <1>2, <1>6, <1>7 DEF IsSum
  <1>10. h[dom] = g[dom] /\ g[dom] \in Int
    BY <1>1, <1>8
  <1>11. e[n + 1] \in Int
    BY <1>3, <1>6
  <1>12. QED
    BY <1>1, <1>2, <1>3, <1>9, <1>10, <1>11

(* The same records have the same sum. *)
LEMMA SumOverSame ==
    ASSUME NEW n \in Nat, NEW data, NEW more, NEW key,
           Measured(data, n, key), Measured(more, n, key), OneMore(data, n, more)
    PROVE  SumOver(more, key) = SumOver(data, key)
  <1> DEFINE dom == 1..n
             f == Lengths(data, key)
             e == Lengths(more, key)
  <1>1. PICK g \in [SUBSET dom -> Int] :
              IsSum(g, dom, GreatestIn(dom), f) /\ SumOver(data, key) = g[dom]
    BY SumOverIsSum
  <1>2. PICK h \in [SUBSET dom -> Int] :
              IsSum(h, dom, GreatestIn(dom), e) /\ SumOver(more, key) = h[dom]
    BY SumOverIsSum
  <1>3. f \in [dom -> Int] /\ Same(f, e, dom) /\ IsFiniteSet(dom)
    <2>1. IsFiniteSet(dom)
      BY FS_Interval
    <2>2. ASSUME NEW i \in dom
          PROVE  e[i] = f[i] /\ f[i] \in Int
      BY DEF Measured, Lengths, OneMore
    <2>3. f \in [dom -> Int]
      BY <2>2 DEF Measured, Lengths
    <2>4. QED
      BY <2>1, <2>2, <2>3 DEF Same
  <1>4. Chooses(GreatestIn(dom), dom)
    BY MaxIsIn DEF Chooses, GreatestIn
  <1> HIDE DEF dom, f, e
  <1>5. SumPair(dom, dom, GreatestIn(dom), GreatestIn(dom), f, e, g, h)
    BY <1>1, <1>2, <1>3, <1>4 DEF SumPair, Agree, EitherSum
  <1>6. h[dom] = g[dom]
    <2>1. \A s \in SUBSET dom : h[s] = g[s]
      BY <1>5, SumsAgree
    <2>2. QED
      BY <2>1
  <1>7. QED
    BY <1>1, <1>2, <1>6

(* The first n records of data. *)
FirstOf(data, n) == [i \in 1..n |-> data[i]]

(* The last record adds its number to the sum of those before it. *)
LEMMA FirstMeasured ==
    ASSUME NEW n \in Nat, NEW data, NEW key, Measured(data, n + 1, key)
    PROVE  /\ Measured(FirstOf(data, n), n, key)
           /\ OneMore(FirstOf(data, n), n, data)
           /\ data[n + 1][key] \in Int
           /\ SumOver(FirstOf(data, n), key) \in Int
           /\ SumOver(data, key) = SumOver(FirstOf(data, n), key) + data[n + 1][key]
  <1>1. Measured(FirstOf(data, n), n, key) /\ OneMore(FirstOf(data, n), n, data)
    BY DEF Measured, FirstOf, OneMore
  <1>2. data[n + 1][key] \in Int
    BY DEF Measured
  <1>3. QED
    BY <1>1, <1>2, SumOverAppend

(* No sum of sizes is negative. *)
LEMMA SumOverNat ==
    ASSUME NEW key, NEW k \in Nat, NEW d, DOMAIN d = 1..k, \A i \in 1..k : d[i][key] \in Nat
    PROVE  SumOver(d, key) \in Nat
  <1> DEFINE Sized(data, n) == DOMAIN data = 1..n /\ \A i \in 1..n : data[i][key] \in Nat
             P == {n \in Nat : \A data : Sized(data, n) => SumOver(data, key) \in Nat}
  <1>1. 0 \in P
    <2>1. ASSUME NEW data, Sized(data, 0)
          PROVE  SumOver(data, key) \in Nat
      <3>1. Measured(data, 0, key)
        BY <2>1 DEF Measured
      <3>2. QED
        BY <3>1, SumOverEmpty
    <2>2. QED
      BY <2>1
  <1>2. ASSUME NEW n \in P
        PROVE  n + 1 \in P
    <2>1. ASSUME NEW data, Sized(data, n + 1)
          PROVE  SumOver(data, key) \in Nat
      <3>1. n \in Nat /\ Measured(data, n + 1, key) /\ data[n + 1][key] \in Nat
        BY <2>1 DEF Measured
      <3>2. Sized(FirstOf(data, n), n)
        BY <2>1, <3>1 DEF FirstOf
      <3>3. SumOver(FirstOf(data, n), key) \in Nat
        BY <1>2, <3>2
      <3>4. SumOver(data, key) = SumOver(FirstOf(data, n), key) + data[n + 1][key]
        BY <3>1, FirstMeasured
      <3>5. QED
        BY <3>1, <3>3, <3>4
    <2> HIDE DEF Sized
    <2>2. \A data : Sized(data, n + 1) => SumOver(data, key) \in Nat
      BY <2>1
    <2>3. n + 1 \in Nat
      OBVIOUS
    <2>4. QED
      BY <2>2, <2>3, Zenon
  <1>3. Sized(d, k)
    OBVIOUS
  <1> HIDE DEF P, Sized
  <1>4. P = Nat
    <2>1. P \in SUBSET Nat
      BY DEF P
    <2>2. QED
      BY <1>1, <1>2, <2>1, NatSetInduction
  <1>5. \A data : Sized(data, k) => SumOver(data, key) \in Nat
    BY <1>4 DEF P
  <1>6. QED
    BY <1>3, <1>5

(* Zeros add up to zero. *)
LEMMA SumOverZero ==
    ASSUME NEW key, NEW k \in Nat, NEW d, DOMAIN d = 1..k, \A i \in 1..k : d[i][key] = 0
    PROVE  SumOver(d, key) = 0
  <1> DEFINE Empty(data, n) == DOMAIN data = 1..n /\ \A i \in 1..n : data[i][key] = 0
             P == {n \in Nat : \A data : Empty(data, n) => SumOver(data, key) = 0}
  <1>1. 0 \in P
    <2>1. ASSUME NEW data, Empty(data, 0)
          PROVE  SumOver(data, key) = 0
      <3>1. Measured(data, 0, key)
        BY <2>1 DEF Measured
      <3>2. QED
        BY <3>1, SumOverEmpty
    <2>2. QED
      BY <2>1
  <1>2. ASSUME NEW n \in P
        PROVE  n + 1 \in P
    <2>1. ASSUME NEW data, Empty(data, n + 1)
          PROVE  SumOver(data, key) = 0
      <3>1. n \in Nat /\ Measured(data, n + 1, key) /\ data[n + 1][key] = 0
        BY <2>1 DEF Measured
      <3>2. Empty(FirstOf(data, n), n)
        BY <2>1, <3>1 DEF FirstOf
      <3>3. SumOver(FirstOf(data, n), key) = 0
        BY <1>2, <3>2
      <3>4. SumOver(data, key) = SumOver(FirstOf(data, n), key) + data[n + 1][key]
        BY <3>1, FirstMeasured
      <3>5. QED
        BY <3>1, <3>3, <3>4
    <2> HIDE DEF Empty
    <2>2. \A data : Empty(data, n + 1) => SumOver(data, key) = 0
      BY <2>1
    <2>3. n + 1 \in Nat
      OBVIOUS
    <2>4. QED
      BY <2>2, <2>3, Zenon
  <1>3. Empty(d, k)
    OBVIOUS
  <1> HIDE DEF P, Empty
  <1>4. P = Nat
    <2>1. P \in SUBSET Nat
      BY DEF P
    <2>2. QED
      BY <1>1, <1>2, <2>1, NatSetInduction
  <1>5. \A data : Empty(data, k) => SumOver(data, key) = 0
    BY <1>4 DEF P
  <1>6. QED
    BY <1>3, <1>5

(* both is data followed by tail. *)
Joined(data, n, tail, k, both) ==
    /\ \A i \in 1..n : both[i] = data[i]
    /\ \A j \in 1..k : both[n + j] = tail[j]

(* All of the three have numbers in the field. *)
MeasuredParts(data, n, tail, k, both, key) ==
    /\ n \in Nat /\ k \in Nat
    /\ Measured(data, n, key) /\ Measured(tail, k, key) /\ Measured(both, n + k, key)
    /\ Joined(data, n, tail, k, both)

(* The sum of a concatenation. *)
LEMMA SumOverConcat ==
    ASSUME NEW data, NEW n, NEW t, NEW len, NEW b, NEW key,
           MeasuredParts(data, n, t, len, b, key)
    PROVE  SumOver(b, key) = SumOver(data, key) + SumOver(t, key)
  <1> DEFINE Adds(tail, k, both) ==
                 Measured(tail, k, key) /\ Measured(both, n + k, key) /\ Joined(data, n, tail, k, both)
                 => /\ SumOver(both, key) = SumOver(data, key) + SumOver(tail, key)
                    /\ SumOver(data, key) \in Int /\ SumOver(tail, key) \in Int
             P == {k \in Nat : \A tail, both : Adds(tail, k, both)}
  <1>0. /\ n \in Nat /\ len \in Nat
        /\ Measured(data, n, key) /\ Measured(t, len, key) /\ Measured(b, n + len, key)
        /\ Joined(data, n, t, len, b)
    BY DEF MeasuredParts
  <1>1. 0 \in P
    <2>1. ASSUME NEW tail, NEW both, Measured(tail, 0, key), Measured(both, n + 0, key),
                 Joined(data, n, tail, 0, both)
          PROVE  /\ SumOver(both, key) = SumOver(data, key) + SumOver(tail, key)
                 /\ SumOver(data, key) \in Int /\ SumOver(tail, key) \in Int
      <3>1. SumOver(tail, key) = 0
        BY <2>1, SumOverEmpty
      <3>2. Measured(both, n, key) /\ OneMore(data, n, both)
        BY <1>0, <2>1 DEF Joined, OneMore
      <3>3. SumOver(both, key) = SumOver(data, key)
        BY <1>0, <3>2, SumOverSame
      <3>4. SumOver(data, key) \in Int
        <4>1. PICK g \in [SUBSET (1..n) -> Int] : SumOver(data, key) = g[1..n]
          BY <1>0, SumOverIsSum, ZenonT(60)
        <4>2. QED
          BY <4>1
      <3>5. QED
        BY <3>1, <3>3, <3>4
    <2>2. QED
      BY <2>1
  <1>2. ASSUME NEW k \in P
        PROVE  k + 1 \in P
    <2>1. ASSUME NEW tail, NEW both, Measured(tail, k + 1, key), Measured(both, n + (k + 1), key),
                 Joined(data, n, tail, k + 1, both)
          PROVE  /\ SumOver(both, key) = SumOver(data, key) + SumOver(tail, key)
                 /\ SumOver(data, key) \in Int /\ SumOver(tail, key) \in Int
      <3> DEFINE s == FirstOf(tail, k)
                 c == FirstOf(both, n + k)
      <3>1. k \in Nat /\ n + k \in Nat /\ n + (k + 1) = (n + k) + 1
        BY <1>0
      <3>2. /\ Measured(s, k, key) /\ SumOver(s, key) \in Int /\ tail[k + 1][key] \in Int
            /\ SumOver(tail, key) = SumOver(s, key) + tail[k + 1][key]
        BY <2>1, <3>1, FirstMeasured
      <3>3. Measured(both, (n + k) + 1, key)
        BY <2>1, <3>1
      <3>4. /\ Measured(c, n + k, key) /\ SumOver(c, key) \in Int
            /\ SumOver(both, key) = SumOver(c, key) + both[(n + k) + 1][key]
        BY <3>1, <3>3, FirstMeasured
      <3>5. Joined(data, n, s, k, c)
        <4>1. /\ \A i \in 1..n : both[i] = data[i]
              /\ \A i \in 1..(k + 1) : both[n + i] = tail[i]
          BY <2>1 DEF Joined
        <4>2. \A i \in 1..k : n + i \in 1..(n + k) /\ i \in 1..(k + 1)
          BY <1>0, <3>1
        <4>3. \A i \in 1..n : i \in 1..(n + k)
          BY <1>0, <3>1
        <4>4. (\A i \in 1..k : s[i] = tail[i]) /\ (\A i \in 1..(n + k) : c[i] = both[i])
          BY DEF FirstOf
        <4> HIDE DEF s, c
        <4>5. QED
          BY <4>1, <4>2, <4>3, <4>4 DEF Joined
      <3>6. both[(n + k) + 1] = tail[k + 1]
        <4>1. both[n + (k + 1)] = tail[k + 1]
          BY <2>1, <3>1 DEF Joined
        <4>2. QED
          BY <1>0, <3>1, <4>1
      <3> HIDE DEF s, c
      <3>7. /\ SumOver(c, key) = SumOver(data, key) + SumOver(s, key)
            /\ SumOver(data, key) \in Int
        BY <1>2, <3>2, <3>4, <3>5
      <3>8. QED
        BY <3>2, <3>4, <3>6, <3>7
    <2>2. \A tail, both : Adds(tail, k + 1, both)
      BY <2>1
    <2>3. k + 1 \in Nat
      OBVIOUS
    <2> HIDE DEF Adds
    <2>4. QED
      BY <2>2, <2>3, Zenon
  <1> HIDE DEF P, Adds
  <1>3. P = Nat
    <2>1. P \in SUBSET Nat
      BY DEF P
    <2>2. QED
      BY <1>1, <1>2, <2>1, NatSetInduction
  <1>4. Adds(t, len, b)
    <2>1. len \in P
      BY <1>0, <1>3
    <2>2. QED
      BY <2>1 DEF P
  <1>5. QED
    BY <1>0, <1>4 DEF Adds

-----------------------------------------------------------------------------
(* Concatenations.                                                         *)

(* Appending to a concatenation appends to its second part. *)
LEMMA AppendToConcat ==
    ASSUME NEW S, NEW x \in S, NEW s \in Seq(S), NEW t \in Seq(S)
    PROVE  Append(s \o t, x) = s \o Append(t, x)
  <1> DEFINE y == <<x>>
  <1>1. y \in Seq(S)
    OBVIOUS
  <1>2. s \o t \in Seq(S)
    BY ConcatProperties
  <1>3. Append(s \o t, x) = (s \o t) \o y
    BY <1>2, AppendIsConcat
  <1>4. Append(t, x) = t \o y
    BY AppendIsConcat
  <1> HIDE DEF y
  <1>5. (s \o t) \o y = s \o (t \o y)
    BY <1>1, ConcatAssociative
  <1>6. QED
    BY <1>3, <1>4, <1>5

(* The front of a concatenation. *)
LEMMA FrontOfConcat ==
    ASSUME NEW S, NEW s \in Seq(S), NEW t \in Seq(S)
    PROVE  /\ s \o t \in Seq(S)
           /\ Len(s \o t) = Len(s) + Len(t)
           /\ SubSeq(s \o t, 1, Len(s)) = s
  <1>1. /\ s \o t \in Seq(S)
        /\ Len(s \o t) = Len(s) + Len(t)
        /\ \A i \in 1 .. Len(s) + Len(t) :
              (s \o t)[i] = IF i <= Len(s) THEN s[i] ELSE t[i - Len(s)]
    BY ConcatProperties
  <1>2. Len(s) \in Nat /\ Len(t) \in Nat
    BY LenProperties
  <1>3. \A i \in 1 .. Len(s) : (s \o t)[i] = s[i] /\ s[i] \in S
    BY <1>1, <1>2, ElementOfSeq
  <1>4. /\ SubSeq(s \o t, 1, Len(s)) \in Seq(S)
        /\ Len(SubSeq(s \o t, 1, Len(s))) = IF 1 <= Len(s) THEN Len(s) - 1 + 1 ELSE 0
        /\ \A i \in 1 .. Len(s) - 1 + 1 : SubSeq(s \o t, 1, Len(s))[i] = (s \o t)[1 + i - 1]
    BY <1>2, <1>3, SubSeqProperties
  <1>5. QED
    BY <1>1, <1>2, <1>3, <1>4, SeqEqual

(* A function from 1..n is a sequence of that length. *)
LEMMA FunctionIsSeq ==
    ASSUME NEW S, NEW n \in Nat, NEW f \in [1..n -> S]
    PROVE  f \in Seq(S) /\ Len(f) = n
  <1>1. f \in UNION {[1..k -> S] : k \in Nat}
    <2>1. [1..n -> S] \in {[1..k -> S] : k \in Nat}
      BY Zenon
    <2>2. QED
      BY <2>1, Zenon
  <1>2. f \in Seq(S)
    BY <1>1, SeqDef, Zenon
  <1>3. Len(f) = n
    BY <1>2
  <1>4. QED
    BY <1>2, <1>3
=============================================================================
