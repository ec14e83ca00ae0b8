----------------------------- MODULE DataLemmas -----------------------------
(***************************************************************************)
(* Facts about numbers that the proofs of several components need: a set   *)
(* of natural numbers has a least element and, if it is bounded, a         *)
(* greatest one, and can be listed in ascending order; and what sums over  *)
(* finite sets do when the set changes.                                    *)
(***************************************************************************)
EXTENDS SortedSets, Integers, Sequences, FiniteSetsExt, FiniteSetTheorems, WellFoundedInduction, TLAPS

\* The natural numbers are well founded: what stands behind every "first",
\* "lowest" and "oldest" that the code picks from a store.
LEMMA LeastNat ==
    ASSUME NEW S, S \subseteq Nat, S # {}
    PROVE  \E x \in S : \A y \in S : x <= y
  <1> DEFINE R == OpToRel(<, Nat)
  <1>1. IsWellFoundedOn(R, Nat)
    BY NatLessThanWellFounded
  <1>2. \E x \in S : \A y \in S : ~(<<y, x>> \in R)
    <2> HIDE DEF R
    <2> QED
      BY <1>1, WFMin
  <1>3. PICK x \in S : \A y \in S : ~(<<y, x>> \in R)
    BY <1>2
  <1>4. ASSUME NEW y \in S
        PROVE  x <= y
    <2>1. ~(y < x)
      BY <1>3 DEF OpToRel
    <2> QED
      BY <2>1
  <1> QED
    BY <1>4

\* A bounded set has a greatest number: the bound minus the least distance to it.
LEMMA GreatestNat ==
    ASSUME NEW S, S \subseteq Nat, S # {}, NEW n \in Nat, \A x \in S : x <= n
    PROVE  \E x \in S : \A y \in S : x >= y
  <1> DEFINE T == {k \in Nat : \E x \in S : k = n - x}
  <1>1. \A x \in S : n - x \in T
    OBVIOUS
  <1>2. T \subseteq Nat /\ T # {}
    BY <1>1
  <1>3. PICK k \in T : \A j \in T : k <= j
    <2> HIDE DEF T
    <2> QED
      BY <1>2, LeastNat
  <1>4. PICK x \in S : k = n - x
    BY <1>3
  <1>5. ASSUME NEW y \in S
        PROVE  x >= y
    <2>1. k <= n - y
      BY <1>1, <1>3
    <2>2. x \in Nat /\ y \in Nat /\ k = n - x
      BY <1>4
    <2> QED
      BY <2>1, <2>2
  <1> QED
    BY <1>5

\* Max of the community modules is the greatest element of such a set.
LEMMA MaxOfBounded ==
    ASSUME NEW S, S \subseteq Nat, S # {}, NEW n \in Nat, \A x \in S : x <= n
    PROVE  /\ Max(S) \in S
           /\ \A y \in S : y <= Max(S)
  <1>1. \E x \in S : \A y \in S : x >= y
    BY GreatestNat
  <1>2. Max(S) \in S /\ \A y \in S : Max(S) >= y
    BY <1>1 DEF Max
  <1> QED
    BY <1>2

\* Ascending lists every number of the set once, from the least on. The count of
\* the numbers below maps the set one to one, and so onto, its positions.
LEMMA AscendingIsSorted ==
    ASSUME NEW S, S \subseteq Nat, IsFiniteSet(S)
    PROVE  /\ Ascending(S) \in Seq(S)
           /\ Len(Ascending(S)) = Cardinality(S)
           /\ Cardinality(S) \in Nat
           /\ \A i, j \in 1..Cardinality(S) : i < j => Ascending(S)[i] < Ascending(S)[j]
           /\ \A x \in S : \E i \in 1..Cardinality(S) : Ascending(S)[i] = x
  <1> DEFINE below(x) == {y \in S : y < x}
             rank(x) == Cardinality(below(x))
             N == Cardinality(S)
  <1>1. N \in Nat
    BY FS_CardinalityType
  <1>2. ASSUME NEW x \in S
        PROVE  rank(x) \in 0..(N - 1) /\ IsFiniteSet(below(x))
    <2>1. IsFiniteSet(S \ {x}) /\ Cardinality(S \ {x}) = N - 1
      BY FS_RemoveElement
    <2>2. below(x) \in SUBSET (S \ {x})
      BY <1>2
    <2> HIDE DEF below
    <2>3. IsFiniteSet(below(x)) /\ rank(x) <= N - 1
      BY <2>1, <2>2, FS_Subset
    <2>4. rank(x) \in Nat
      BY <2>3, FS_CardinalityType
    <2> QED
      BY <1>1, <2>3, <2>4
  <1>3. ASSUME NEW x \in S, NEW z \in S, x < z
        PROVE  rank(x) < rank(z)
    <2>1. below(x) \in SUBSET below(z) /\ below(x) # below(z)
      <3>1. x \in below(z) /\ x \notin below(x)
        BY <1>3
      <3>2. \A y \in below(x) : y \in below(z)
        BY <1>3
      <3> QED
        BY <3>1, <3>2
    <2>2. IsFiniteSet(below(z)) /\ rank(x) \in Nat /\ rank(z) \in Nat
      BY <1>1, <1>2
    <2> HIDE DEF below
    <2>3. rank(x) <= rank(z) /\ rank(x) # rank(z)
      BY <2>1, <2>2, FS_Subset
    <2> QED
      BY <2>2, <2>3
  <1> HIDE DEF below, rank, N
  <1>R. \A x \in S : rank(x) \in Nat /\ rank(x) < N /\ x \in Nat
    BY <1>1, <1>2
  <1> DEFINE f == [x \in S |-> rank(x)]
             P == 0..(N - 1)
  <1>4. f \in Injection(S, P)
    <2>1. f \in [S -> P]
      BY <1>2
    <2>2. ASSUME NEW x \in S, NEW z \in S, f[x] = f[z]
          PROVE  x = z
      <3>1. rank(x) = rank(z) /\ rank(x) \in Nat /\ x \in Nat /\ z \in Nat
        BY <1>R, <2>2
      <3>2. ~(x < z)
        BY <1>3, <3>1
      <3>3. ~(z < x)
        BY <1>3, <3>1
      <3> QED
        BY <3>1, <3>2, <3>3
    <2> QED
      BY <2>1, <2>2 DEF Injection, IsInjective
  <1>5. IsFiniteSet(P) /\ Cardinality(P) = N
    <2>1. N - 1 \in Int
      BY <1>1
    <2>2. /\ IsFiniteSet(0..(N - 1))
          /\ Cardinality(0..(N - 1)) = IF 0 > N - 1 THEN 0 ELSE N - 1 - 0 + 1
      BY <2>1, FS_Interval
    <2> QED
      BY <1>1, <2>2
  <1>6. f \in Surjection(S, P)
    <2> HIDE DEF f, P
    <2> QED
      BY <1>4, <1>5, FS_Injection DEF N
  <1>7. ASSUME NEW i \in 1..N
        PROVE  Ascending(S)[i] \in S /\ rank(Ascending(S)[i]) = i - 1
    <2>1. i - 1 \in P
      BY <1>1
    <2>2. \E x \in S : rank(x) = i - 1
      BY <1>6, <2>1 DEF Surjection
    <2>3. Ascending(S)[i] = CHOOSE n \in S : rank(n) = i - 1
      BY DEF Ascending, rank, below, N
    <2> QED
      BY <2>2, <2>3
  <1>8. Ascending(S) \in Seq(S) /\ Len(Ascending(S)) = N
    <2>1. Ascending(S) \in [1..N -> S]
      BY <1>7 DEF Ascending, N
    <2> QED
      BY <1>1, <2>1
  <1>9. ASSUME NEW i \in 1..N, NEW j \in 1..N, i < j
        PROVE  Ascending(S)[i] < Ascending(S)[j]
    <2> DEFINE x == Ascending(S)[i]
               z == Ascending(S)[j]
    <2>1. x \in S /\ z \in S /\ rank(x) = i - 1 /\ rank(z) = j - 1
      BY <1>7
    <2> HIDE DEF x, z
    <2>2. i \in Nat /\ j \in Nat /\ rank(x) < rank(z)
      BY <1>1, <1>9, <2>1
    <2>3. ~(z < x) /\ x # z
      BY <1>3, <1>R, <2>1, <2>2
    <2>4. x < z
      BY <1>R, <2>1, <2>3
    <2> QED
      BY <2>4 DEF x, z
  <1>10. ASSUME NEW x \in S
         PROVE  \E i \in 1..N : Ascending(S)[i] = x
    <2>1. rank(x) + 1 \in 1..N /\ rank(x) \in Nat
      BY <1>1, <1>R
    <2> DEFINE y == Ascending(S)[rank(x) + 1]
    <2>2. y \in S /\ rank(y) = rank(x) + 1 - 1
      BY <1>7, <2>1
    <2> HIDE DEF y
    <2>3. ~(x < y) /\ ~(y < x)
      BY <1>3, <1>R, <2>2
    <2>4. x = y
      BY <1>R, <2>2, <2>3
    <2> QED
      BY <2>1, <2>4 DEF y
  <1> QED
    BY <1>1, <1>8, <1>9, <1>10 DEF N
-----------------------------------------------------------------------------
(* Sums                                                                    *)

\* The sum of a function over a set, as the community modules fold it.
SumOf(f, S) == MapThenSumSet(LAMBDA x : f[x], S)

\* The element that the fold takes out of a set next.
Picked(s) == CHOOSE y \in s : TRUE

\* What is left has one element less.
LEMMA PickedIsRemoved ==
    ASSUME NEW s, IsFiniteSet(s), s # {}
    PROVE  /\ Picked(s) \in s
           /\ IsFiniteSet(s \ {Picked(s)})
           /\ Cardinality(s \ {Picked(s)}) = Cardinality(s) - 1
           /\ Cardinality(s) \in Nat /\ Cardinality(s \ {Picked(s)}) \in Nat
  <1>1. Picked(s) \in s
    BY DEF Picked
  <1> HIDE DEF Picked
  <1> QED
    BY <1>1, FS_RemoveElement, FS_CardinalityType

\* The fold over S as a function of the subsets of S: one step of it.
Folded(g, f, s) == IF s = {} THEN 0 ELSE f[Picked(s)] + g[s \ {Picked(s)}]
IsFold(g, f, S) == \A s \in SUBSET S : g[s] = Folded(g, f, s)

\* The recursive function of the fold exists: on the subsets of at most n
\* elements there is one for every n, by induction.
LEMMA FoldExists ==
    ASSUME NEW f, NEW S, IsFiniteSet(S)
    PROVE  \E g : g = [s \in SUBSET S |-> Folded(g, f, s)]
  <1> DEFINE Upto(g, n) == \A s \in SUBSET S : Cardinality(s) <= n => g[s] = Folded(g, f, s)
             Bad == {n \in Nat : ~ \E g : Upto(g, n)}
  <1>0. ASSUME NEW s \in SUBSET S
        PROVE  IsFiniteSet(s) /\ Cardinality(s) \in Nat
    BY FS_Subset, FS_CardinalityType
  <1>1. 0 \notin Bad
    <2> DEFINE g == [s \in SUBSET S |-> 0]
    <2>1. ASSUME NEW s \in SUBSET S, Cardinality(s) <= 0
          PROVE  g[s] = Folded(g, f, s)
      <3>1. s = {}
        BY <1>0, <2>1, FS_EmptySet
      <3> QED
        BY <3>1 DEF Folded
    <2> QED
      BY <2>1
  <1>2. ASSUME NEW n \in Nat, n \notin Bad
        PROVE  n + 1 \notin Bad
    <2>1. PICK g : Upto(g, n)
      BY <1>2
    <2> DEFINE h == [s \in SUBSET S |-> IF Cardinality(s) <= n THEN g[s] ELSE Folded(g, f, s)]
    <2>2. ASSUME NEW s \in SUBSET S, Cardinality(s) <= n + 1
          PROVE  h[s] = Folded(h, f, s)
      <3>1. CASE s = {}
        <4>1. Cardinality(s) <= n
          BY <3>1, FS_EmptySet
        <4> QED
          BY <2>1, <3>1, <4>1 DEF Folded
      <3>2. CASE s # {}
        <4> DEFINE r == s \ {Picked(s)}
        <4>1. r \in SUBSET S /\ Cardinality(r) <= n
          BY <1>0, <2>2, <3>2, PickedIsRemoved
        <4>2. h[r] = g[r]
          BY <4>1
        <4>3. h[s] = Folded(g, f, s)
          BY <2>1
        <4> QED
          BY <3>2, <4>2, <4>3 DEF Folded
      <3> QED
        BY <3>1, <3>2
    <2> QED
      BY <2>2
  <1>3. Bad = {}
    <2> SUFFICES ASSUME Bad # {} PROVE FALSE
      OBVIOUS
    <2>1. Bad \subseteq Nat
      OBVIOUS
    <2> HIDE DEF Bad
    <2>2. PICK n \in Bad : \A m \in Bad : n <= m
      BY <2>1, LeastNat
    <2>3. n # 0 /\ n \in Nat
      BY <1>1, <2>1, <2>2
    <2>4. n - 1 \in Nat /\ n - 1 \notin Bad
      BY <2>1, <2>2, <2>3
    <2> QED
      BY <1>2, <2>2, <2>3, <2>4
  <1>4. Cardinality(S) \in Nat
    BY FS_CardinalityType
  <1>5. PICK g : Upto(g, Cardinality(S))
    BY <1>3, <1>4
  <1> DEFINE h == [s \in SUBSET S |-> g[s]]
  <1>6. ASSUME NEW s \in SUBSET S
        PROVE  h[s] = Folded(h, f, s)
    <2>1. g[s] = Folded(g, f, s)
      BY <1>5, FS_Subset
    <2>2. s \ {Picked(s)} \in SUBSET S
      OBVIOUS
    <2> QED
      BY <2>1, <2>2 DEF Folded
  <1> QED
    BY <1>6
\* It has one value on each subset, whatever set it is defined for.
LEMMA FoldsAgree ==
    ASSUME NEW f, NEW S, IsFiniteSet(S), NEW T \in SUBSET S,
           NEW g, IsFold(g, f, S), NEW h, IsFold(h, f, T)
    PROVE  g[T] = h[T]
  <1> DEFINE Bad == {n \in Nat : \E s \in SUBSET T : Cardinality(s) = n /\ g[s] # h[s]}
  <1>0. ASSUME NEW s \in SUBSET T
        PROVE  /\ IsFiniteSet(s) /\ Cardinality(s) \in Nat
               /\ g[s] = Folded(g, f, s) /\ h[s] = Folded(h, f, s)
    <2>1. s \in SUBSET S
      OBVIOUS
    <2> QED
      BY <2>1, FS_Subset, FS_CardinalityType DEF IsFold
  <1>1. Bad = {}
    <2> SUFFICES ASSUME Bad # {} PROVE FALSE
      OBVIOUS
    <2>1. PICK n \in Bad : \A m \in Bad : n <= m
      <3>1. Bad \subseteq Nat
        OBVIOUS
      <3> HIDE DEF Bad
      <3> QED
        BY <3>1, LeastNat
    <2>2. PICK s \in SUBSET T : Cardinality(s) = n /\ g[s] # h[s]
      BY <2>1
    <2>3. s # {}
      BY <1>0, <2>2 DEF Folded
    <2> DEFINE r == s \ {Picked(s)}
    <2>4. r \in SUBSET T /\ Cardinality(r) \in Nat /\ Cardinality(r) < n
      <3>1. IsFiniteSet(s) /\ Cardinality(s) = n /\ n \in Nat
        BY <1>0, <2>2
      <3>2. Cardinality(r) \in Nat /\ Cardinality(r) = Cardinality(s) - 1
        BY <2>3, <3>1, PickedIsRemoved
      <3> QED
        BY <3>1, <3>2
    <2>5. g[r] = h[r]
      BY <2>1, <2>4
    <2> QED
      BY <1>0, <2>2, <2>3, <2>5 DEF Folded
  <1> QED
    BY <1>0, <1>1

\* The sum is the value of that function on the whole set.
LEMMA SumIsFolded ==
    ASSUME NEW f, NEW S, IsFiniteSet(S)
    PROVE  \E g : g = [s \in SUBSET S |-> Folded(g, f, s)] /\ SumOf(f, S) = g[S]
  <1> DEFINE it == CHOOSE g : g = [s \in SUBSET S |-> Folded(g, f, s)]
  <1>1. it = [s \in SUBSET S |-> Folded(it, f, s)]
    BY FoldExists
  <1>2. SumOf(f, S) = it[S]
    BY DEF SumOf, MapThenSumSet, MapThenFoldSet, Folded, Picked
  <1> HIDE DEF it
  <1> QED
    BY <1>1, <1>2

\* One step of the sum.
LEMMA SumStep ==
    ASSUME NEW f, NEW S, IsFiniteSet(S)
    PROVE  SumOf(f, S) = IF S = {} THEN 0
                         ELSE f[Picked(S)] + SumOf(f, S \ {Picked(S)})
  <1>1. PICK g : g = [s \in SUBSET S |-> Folded(g, f, s)] /\ SumOf(f, S) = g[S]
    BY SumIsFolded
  <1>2. g[S] = Folded(g, f, S)
    BY <1>1
  <1>3. CASE S = {}
    BY <1>1, <1>2, <1>3 DEF Folded
  <1>4. CASE S # {}
    <2> DEFINE T == S \ {Picked(S)}
    <2>1. T \in SUBSET S /\ IsFiniteSet(T)
      BY FS_Subset
    <2>2. PICK h : h = [s \in SUBSET T |-> Folded(h, f, s)] /\ SumOf(f, T) = h[T]
      <3> HIDE DEF T
      <3> QED
        BY <2>1, SumIsFolded
    <2>3. g[T] = h[T]
      <3> HIDE DEF T
      <3>1. IsFold(g, f, S)
        BY <1>1 DEF IsFold
      <3>2. IsFold(h, f, T)
        BY <2>2 DEF IsFold
      <3> QED
        BY <2>1, <3>1, <3>2, FoldsAgree
    <2> QED
      BY <1>1, <1>2, <1>4, <2>2, <2>3 DEF Folded
  <1> QED
    BY <1>3, <1>4

\* A sum of integers is one.
LEMMA SumType ==
    ASSUME NEW f, NEW S, IsFiniteSet(S), \A x \in S : f[x] \in Int
    PROVE  SumOf(f, S) \in Int
  <1> DEFINE Bad == {n \in Nat : \E s \in SUBSET S : Cardinality(s) = n /\ SumOf(f, s) \notin Int}
  <1>0. \A s \in SUBSET S : IsFiniteSet(s) /\ Cardinality(s) \in Nat
    BY FS_Subset, FS_CardinalityType
  <1>1. Bad = {}
    <2> SUFFICES ASSUME Bad # {} PROVE FALSE
      OBVIOUS
    <2>1. PICK n \in Bad : \A m \in Bad : n <= m
      <3>1. Bad \subseteq Nat
        OBVIOUS
      <3> HIDE DEF Bad
      <3> QED
        BY <3>1, LeastNat
    <2>2. PICK s \in SUBSET S : Cardinality(s) = n /\ SumOf(f, s) \notin Int
      BY <2>1
    <2>3. IsFiniteSet(s)
      BY <1>0
    <2>4. SumOf(f, s) = IF s = {} THEN 0 ELSE f[Picked(s)] + SumOf(f, s \ {Picked(s)})
      BY <2>3, SumStep
    <2>5. s # {}
      BY <2>2, <2>4
    <2> DEFINE r == s \ {Picked(s)}
    <2>6. r \in SUBSET S /\ Cardinality(r) \in Nat /\ Cardinality(r) < n /\ Picked(s) \in s
      BY <1>0, <2>2, <2>3, <2>5, PickedIsRemoved
    <2>7. SumOf(f, r) \in Int
      BY <2>1, <2>6
    <2> QED
      BY <2>2, <2>4, <2>5, <2>6, <2>7
  <1> QED
    BY <1>0, <1>1

\* Every element can be taken out: the order of the fold does not matter.
LEMMA SumRemove ==
    ASSUME NEW f, NEW S, IsFiniteSet(S), \A x \in S : f[x] \in Int, NEW y \in S
    PROVE  SumOf(f, S) = f[y] + SumOf(f, S \ {y})
  <1> DEFINE Fine(s) == \A x \in s : SumOf(f, s) = f[x] + SumOf(f, s \ {x})
             Bad == {n \in Nat : \E s \in SUBSET S : Cardinality(s) = n /\ ~Fine(s)}
  <1>0. ASSUME NEW s \in SUBSET S
        PROVE  IsFiniteSet(s) /\ Cardinality(s) \in Nat /\ SumOf(f, s) \in Int
    <2>1. IsFiniteSet(s)
      BY FS_Subset
    <2>2. \A x \in s : f[x] \in Int
      OBVIOUS
    <2> QED
      BY <2>1, <2>2, FS_CardinalityType, SumType
  <1>1. Bad = {}
    <2> SUFFICES ASSUME Bad # {} PROVE FALSE
      OBVIOUS
    <2>1. PICK n \in Bad : \A m \in Bad : n <= m
      <3>1. Bad \subseteq Nat
        OBVIOUS
      <3> HIDE DEF Bad
      <3> QED
        BY <3>1, LeastNat
    <2>2. PICK s \in SUBSET S : Cardinality(s) = n /\ ~Fine(s)
      BY <2>1
    <2>3. PICK x \in s : SumOf(f, s) # f[x] + SumOf(f, s \ {x})
      BY <2>2
    <2> DEFINE p == Picked(s)
    <2>4. p \in s /\ SumOf(f, s) = f[p] + SumOf(f, s \ {p})
      BY <1>0, <2>3, PickedIsRemoved, SumStep
    <2> HIDE DEF p
    <2>5. ASSUME NEW z \in s
          PROVE  s \ {z} \in SUBSET S /\ Fine(s \ {z})
      <3>1. s \ {z} \in SUBSET S /\ Cardinality(s \ {z}) \in Nat /\ Cardinality(s \ {z}) < n
        BY <1>0, <2>2, FS_RemoveElement
      <3> QED
        BY <2>1, <3>1
    <2>6. x # p
      BY <2>3, <2>4
    <2>7. SumOf(f, s \ {p}) = f[x] + SumOf(f, (s \ {p}) \ {x})
      BY <2>4, <2>5, <2>6
    <2>8. SumOf(f, s \ {x}) = f[p] + SumOf(f, (s \ {x}) \ {p})
      BY <2>4, <2>5, <2>6
    <2>9. (s \ {p}) \ {x} = (s \ {x}) \ {p} /\ (s \ {p}) \ {x} \in SUBSET S
      OBVIOUS
    <2>10. f[x] \in Int /\ f[p] \in Int /\ SumOf(f, (s \ {p}) \ {x}) \in Int
      BY <1>0, <2>4, <2>9
    <2> QED
      BY <2>3, <2>4, <2>7, <2>8, <2>9, <2>10
  <1> QED
    BY <1>0, <1>1
\* A sum depends on the values at the elements only.
LEMMA SumCong ==
    ASSUME NEW f, NEW g, NEW S, IsFiniteSet(S), \A x \in S : f[x] = g[x]
    PROVE  SumOf(f, S) = SumOf(g, S)
  <1> DEFINE Bad == {n \in Nat : \E s \in SUBSET S :
                                    Cardinality(s) = n /\ SumOf(f, s) # SumOf(g, s)}
  <1>0. \A s \in SUBSET S : IsFiniteSet(s) /\ Cardinality(s) \in Nat
    BY FS_Subset, FS_CardinalityType
  <1>1. Bad = {}
    <2> SUFFICES ASSUME Bad # {} PROVE FALSE
      OBVIOUS
    <2>1. PICK n \in Bad : \A m \in Bad : n <= m
      <3>1. Bad \subseteq Nat
        OBVIOUS
      <3> HIDE DEF Bad
      <3> QED
        BY <3>1, LeastNat
    <2>2. PICK s \in SUBSET S : Cardinality(s) = n /\ SumOf(f, s) # SumOf(g, s)
      BY <2>1
    <2>3. IsFiniteSet(s)
      BY <1>0
    <2> DEFINE p == Picked(s)
    <2>4. /\ SumOf(f, s) = IF s = {} THEN 0 ELSE f[p] + SumOf(f, s \ {p})
          /\ SumOf(g, s) = IF s = {} THEN 0 ELSE g[p] + SumOf(g, s \ {p})
      BY <2>3, SumStep
    <2>5. s # {}
      BY <2>2, <2>4
    <2>6. p \in s /\ Cardinality(s \ {p}) \in Nat /\ Cardinality(s \ {p}) < n
      BY <1>0, <2>2, <2>3, <2>5, PickedIsRemoved
    <2> HIDE DEF p
    <2>7. s \ {p} \in SUBSET S /\ f[p] = g[p]
      BY <2>6
    <2>8. SumOf(f, s \ {p}) = SumOf(g, s \ {p})
      BY <2>1, <2>6, <2>7
    <2> QED
      BY <2>2, <2>4, <2>5, <2>7, <2>8
  <1> QED
    BY <1>0, <1>1

\* The empty sum, and the sum with one element more.
LEMMA SumEmpty == ASSUME NEW f PROVE SumOf(f, {}) = 0
  BY SumStep, FS_EmptySet

LEMMA SumAdd ==
    ASSUME NEW f, NEW S, IsFiniteSet(S), NEW y, y \notin S,
           \A x \in S : f[x] \in Int, f[y] \in Int
    PROVE  SumOf(f, S \cup {y}) = f[y] + SumOf(f, S)
  <1> DEFINE T == S \cup {y}
  <1>1. IsFiniteSet(T) /\ y \in T /\ T \ {y} = S /\ \A x \in T : f[x] \in Int
    BY FS_AddElement
  <1> HIDE DEF T
  <1>2. SumOf(f, T) = f[y] + SumOf(f, T \ {y})
    BY <1>1, SumRemove
  <1> QED
    BY <1>1, <1>2 DEF T

\* A sum over two sets that have nothing in common.
LEMMA SumUnion ==
    ASSUME NEW f, NEW S, NEW T, IsFiniteSet(S), IsFiniteSet(T), S \cap T = {},
           \A x \in S \cup T : f[x] \in Int
    PROVE  SumOf(f, S \cup T) = SumOf(f, S) + SumOf(f, T)
  <1> DEFINE Bad == {n \in Nat : \E s \in SUBSET T : /\ Cardinality(s) = n
                                                     /\ SumOf(f, S \cup s) # SumOf(f, S) + SumOf(f, s)}
  <1>0. \A s \in SUBSET T : IsFiniteSet(s) /\ Cardinality(s) \in Nat
    BY FS_Subset, FS_CardinalityType
  <1>1. Bad = {}
    <2> SUFFICES ASSUME Bad # {} PROVE FALSE
      OBVIOUS
    <2>1. PICK n \in Bad : \A m \in Bad : n <= m
      <3>1. Bad \subseteq Nat
        OBVIOUS
      <3> HIDE DEF Bad
      <3> QED
        BY <3>1, LeastNat
    <2>2. PICK s \in SUBSET T : /\ Cardinality(s) = n
                                /\ SumOf(f, S \cup s) # SumOf(f, S) + SumOf(f, s)
      BY <2>1
    <2>3. IsFiniteSet(s)
      BY <1>0
    <2>4. s # {}
      <3>1. SumOf(f, S) \in Int
        BY SumType
      <3> QED
        BY <2>2, <3>1, SumEmpty
    <2>5. PICK y \in s : TRUE
      BY <2>4
    <2> DEFINE r == s \ {y}
    <2>6. r \in SUBSET T /\ IsFiniteSet(r) /\ Cardinality(r) \in Nat /\ Cardinality(r) < n
      BY <1>0, <2>2, <2>3, FS_RemoveElement
    <2>7. SumOf(f, S \cup r) = SumOf(f, S) + SumOf(f, r)
      <3> HIDE DEF r
      <3>1. Cardinality(r) \notin Bad
        <4>1. n \in Nat
          OBVIOUS
        <4> HIDE DEF Bad
        <4> QED
          BY <2>1, <2>6, <4>1
      <3> QED
        BY <2>6, <3>1
    <2>8. SumOf(f, s) = f[y] + SumOf(f, r)
      BY <2>3, SumRemove
    <2>9. SumOf(f, S \cup s) = f[y] + SumOf(f, S \cup r)
      <3> DEFINE U == S \cup s
      <3>1. IsFiniteSet(U) /\ y \in U /\ (\A x \in U : f[x] \in Int) /\ U \ {y} = S \cup r
        BY <2>3, FS_Union
      <3> HIDE DEF U
      <3>2. SumOf(f, U) = f[y] + SumOf(f, U \ {y})
        BY <3>1, SumRemove
      <3> QED
        BY <3>1, <3>2 DEF U
    <2>10. SumOf(f, S) \in Int /\ SumOf(f, r) \in Int /\ f[y] \in Int
      <3> HIDE DEF r
      <3>1. \A x \in r : f[x] \in Int
        BY <2>6
      <3> QED
        BY <2>6, <3>1, SumType
    <2> QED
      BY <2>2, <2>7, <2>8, <2>9, <2>10
  <1> QED
    BY <1>0, <1>1

\* Natural numbers add up to a natural number, and a subset to no more.
LEMMA SumNat ==
    ASSUME NEW f, NEW S, IsFiniteSet(S), \A x \in S : f[x] \in Nat
    PROVE  SumOf(f, S) \in Nat
  <1> DEFINE Bad == {n \in Nat : \E s \in SUBSET S : Cardinality(s) = n /\ SumOf(f, s) \notin Nat}
  <1>0. \A s \in SUBSET S : IsFiniteSet(s) /\ Cardinality(s) \in Nat
    BY FS_Subset, FS_CardinalityType
  <1>1. Bad = {}
    <2> SUFFICES ASSUME Bad # {} PROVE FALSE
      OBVIOUS
    <2>1. PICK n \in Bad : \A m \in Bad : n <= m
      <3>1. Bad \subseteq Nat
        OBVIOUS
      <3> HIDE DEF Bad
      <3> QED
        BY <3>1, LeastNat
    <2>2. PICK s \in SUBSET S : Cardinality(s) = n /\ SumOf(f, s) \notin Nat
      BY <2>1
    <2>3. IsFiniteSet(s)
      BY <1>0
    <2>4. SumOf(f, s) = IF s = {} THEN 0 ELSE f[Picked(s)] + SumOf(f, s \ {Picked(s)})
      BY <2>3, SumStep
    <2>5. s # {}
      BY <2>2, <2>4
    <2> DEFINE r == s \ {Picked(s)}
    <2>6. r \in SUBSET S /\ Cardinality(r) \in Nat /\ Cardinality(r) < n /\ Picked(s) \in s
      BY <1>0, <2>2, <2>3, <2>5, PickedIsRemoved
    <2>7. SumOf(f, r) \in Nat
      BY <2>1, <2>6
    <2> QED
      BY <2>2, <2>4, <2>5, <2>6, <2>7
  <1> QED
    BY <1>0, <1>1

\* Zeros add up to zero.
LEMMA SumZero ==
    ASSUME NEW f, NEW S, IsFiniteSet(S), \A x \in S : f[x] = 0
    PROVE  SumOf(f, S) = 0
  <1> DEFINE Bad == {n \in Nat : \E s \in SUBSET S : Cardinality(s) = n /\ SumOf(f, s) # 0}
  <1>0. \A s \in SUBSET S : IsFiniteSet(s) /\ Cardinality(s) \in Nat
    BY FS_Subset, FS_CardinalityType
  <1>1. Bad = {}
    <2> SUFFICES ASSUME Bad # {} PROVE FALSE
      OBVIOUS
    <2>1. PICK n \in Bad : \A m \in Bad : n <= m
      <3>1. Bad \subseteq Nat
        OBVIOUS
      <3> HIDE DEF Bad
      <3> QED
        BY <3>1, LeastNat
    <2>2. PICK s \in SUBSET S : Cardinality(s) = n /\ SumOf(f, s) # 0
      BY <2>1
    <2>3. IsFiniteSet(s)
      BY <1>0
    <2>4. SumOf(f, s) = IF s = {} THEN 0 ELSE f[Picked(s)] + SumOf(f, s \ {Picked(s)})
      BY <2>3, SumStep
    <2>5. s # {}
      BY <2>2, <2>4
    <2> DEFINE r == s \ {Picked(s)}
    <2>6. r \in SUBSET S /\ Cardinality(r) \in Nat /\ Cardinality(r) < n /\ Picked(s) \in s
      BY <1>0, <2>2, <2>3, <2>5, PickedIsRemoved
    <2>7. SumOf(f, r) = 0
      BY <2>1, <2>6
    <2> QED
      BY <2>2, <2>4, <2>5, <2>6, <2>7
  <1> QED
    BY <1>0, <1>1

LEMMA SumSubset ==
    ASSUME NEW f, NEW S, IsFiniteSet(S), \A x \in S : f[x] \in Nat, NEW T \in SUBSET S
    PROVE  SumOf(f, T) <= SumOf(f, S)
  <1> DEFINE U == S \ T
  <1>1. IsFiniteSet(T) /\ IsFiniteSet(U) /\ T \cap U = {} /\ T \cup U = S
    BY FS_Subset
  <1>2. (\A x \in T : f[x] \in Nat) /\ (\A x \in U : f[x] \in Nat)
    OBVIOUS
  <1> HIDE DEF U
  <1>3. SumOf(f, T) \in Nat /\ SumOf(f, U) \in Nat
    BY <1>1, <1>2, SumNat
  <1>4. SumOf(f, T \cup U) = SumOf(f, T) + SumOf(f, U)
    BY <1>1, <1>2, SumUnion
  <1>5. SumOf(f, S) = SumOf(f, T) + SumOf(f, U)
    BY <1>1, <1>4, Zenon
  <1> QED
    BY <1>3, <1>5

\* A value that changes at one element changes the sum by as much.
LEMMA SumUpdate ==
    ASSUME NEW f, NEW g, NEW S, IsFiniteSet(S), NEW y \in S,
           \A x \in S : f[x] \in Int /\ g[x] \in Int,
           \A x \in S \ {y} : f[x] = g[x]
    PROVE  SumOf(g, S) = SumOf(f, S) + (g[y] - f[y])
  <1> DEFINE T == S \ {y}
  <1>1. IsFiniteSet(T) /\ \A x \in T : f[x] \in Int /\ f[x] = g[x]
    BY FS_RemoveElement
  <1>2. SumOf(f, S) = f[y] + SumOf(f, T) /\ SumOf(g, S) = g[y] + SumOf(g, T)
    BY SumRemove
  <1> HIDE DEF T
  <1>3. SumOf(f, T) = SumOf(g, T) /\ SumOf(f, T) \in Int
    BY <1>1, SumCong, SumType
  <1> QED
    BY <1>2, <1>3

\* A sum can be taken over other names of the same things.
LEMMA SumImage ==
    ASSUME NEW f, NEW g, NEW h, NEW S, NEW T, IsFiniteSet(S), IsFiniteSet(T),
           \A x \in S : g[x] \in T /\ h[x] = f[g[x]],
           \A x, y \in S : g[x] = g[y] => x = y,
           \A z \in T : f[z] \in Int
    PROVE  SumOf(h, S) = SumOf(f, {g[x] : x \in S})
  <1> DEFINE Img(s) == {g[x] : x \in s}
             Bad == {n \in Nat : \E s \in SUBSET S :
                         Cardinality(s) = n /\ SumOf(h, s) # SumOf(f, Img(s))}
  <1>0. \A s \in SUBSET S : IsFiniteSet(s) /\ Cardinality(s) \in Nat
    BY FS_Subset, FS_CardinalityType
  <1>1. Bad = {}
    <2> SUFFICES ASSUME Bad # {} PROVE FALSE
      OBVIOUS
    <2>1. PICK n \in Bad : \A m \in Bad : n <= m
      <3>1. Bad \subseteq Nat
        OBVIOUS
      <3> HIDE DEF Bad
      <3> QED
        BY <3>1, LeastNat
    <2>2. PICK s \in SUBSET S : Cardinality(s) = n /\ SumOf(h, s) # SumOf(f, Img(s))
      BY <2>1
    <2>3. IsFiniteSet(s)
      BY <1>0
    <2>4. s # {}
      <3>1. SumOf(h, {}) = 0 /\ SumOf(f, {}) = 0
        BY SumEmpty
      <3>2. Img({}) = {}
        OBVIOUS
      <3> QED
        BY <2>2, <3>1, <3>2
    <2>5. PICK y : y = Picked(s)
      OBVIOUS
    <2>6. y \in s /\ y \in S
      BY <2>3, <2>4, <2>5, PickedIsRemoved
    <2>7. PICK r : r = s \ {y}
      OBVIOUS
    <2>8. r \in SUBSET S /\ Cardinality(r) \in Nat /\ Cardinality(r) < n
      BY <1>0, <2>2, <2>3, <2>4, <2>5, <2>7, PickedIsRemoved
    <2>9. SumOf(h, r) = SumOf(f, Img(r))
      <3>1. n \in Nat /\ ~(n <= Cardinality(r))
        BY <2>1, <2>8
      <3>2. Cardinality(r) \notin Bad
        BY <2>1, <3>1
      <3> HIDE DEF Img
      <3> QED
        BY <2>8, <3>2
    <2>10. PICK i : i = Img(s)
      OBVIOUS
    <2>11. IsFiniteSet(i)
      <3>1. i \subseteq T
        BY <2>10
      <3> QED
        BY ONLY <3>1, IsFiniteSet(T), FS_Subset
    <2>12. g[y] \in i /\ (\A z \in i : f[z] \in Int) /\ i \ {g[y]} = Img(r)
      BY <2>6, <2>7, <2>10
    <2>13. SumOf(f, i) = f[g[y]] + SumOf(f, i \ {g[y]})
      BY ONLY <2>11, <2>12, SumRemove
    <2>14. \A x \in s : h[x] \in Int
      OBVIOUS
    <2>15. SumOf(h, s) = h[y] + SumOf(h, s \ {y})
      BY ONLY <2>3, <2>6, <2>14, SumRemove
    <2>16. h[y] = f[g[y]]
      BY <2>6
    <2> QED
      BY <2>2, <2>7, <2>9, <2>10, <2>12, <2>13, <2>15, <2>16
  <1>2. S \in SUBSET S /\ Cardinality(S) \in Nat
    BY <1>0
  <1>3. SumOf(h, S) = SumOf(f, Img(S))
    BY <1>1, <1>2
  <1> QED
    BY <1>3
=============================================================================
