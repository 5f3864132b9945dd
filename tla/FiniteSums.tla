------------------------------ MODULE FiniteSums ------------------------------
(***************************************************************************)
(* Sums over finite sets: what SumFunctionOnSet of the community modules   *)
(* computes.  It is a recursive function over the subsets of its index set *)
(* that removes one chosen index at a time; the lemmas show that it exists *)
(* and that the choice does not matter.                                    *)
(***************************************************************************)
EXTENDS Integers, FiniteSets, Functions, FiniteSetTheorems, WellFoundedInduction, TLAPS

First(s) == CHOOSE x \in s : TRUE

(* g satisfies the recursive definition of the sum of f on the sets D.     *)
Sums(g, f, D) ==
  g = [s \in D |-> IF s = {} THEN 0 ELSE f[First(s)] + g[s \ {First(s)}]]

IsSum(g, f, S) == Sums(g, f, SUBSET S)

-----------------------------------------------------------------------------
(* Induction, as the existence of a least counterexample                   *)

(* A set of subsets of a finite set that is not empty has a minimal one.   *)
LEMMA MinimalSubset ==
  ASSUME NEW S, IsFiniteSet(S), NEW T \in SUBSET (SUBSET S), T # {}
  PROVE  \E s \in T : \A t \in T : ~(t \subseteq s /\ t # s)
<1>1. IsWellFoundedOn(StrictSubsetOrdering(S), SUBSET S)
  BY FS_StrictSubsetOrderingWellFounded, FS_FiniteSubsetsOfFinite
<1>2. PICK s \in T : \A t \in T : ~(<<t, s>> \in StrictSubsetOrdering(S))
  BY <1>1, WFMin
<1>3. ASSUME NEW t \in T, t \subseteq s, t # s
      PROVE  FALSE
  <2>1. t \in SUBSET S /\ s \in SUBSET S
    OBVIOUS
  <2>2. <<t, s>> \in StrictSubsetOrdering(S)
    BY <1>3, <2>1 DEF StrictSubsetOrdering
  <2> QED BY <1>2, <2>2
<1> QED BY <1>3

(* A set of natural numbers that is not empty has a least element: the     *)
(* smallest of the intervals up to its elements.                           *)
LEMMA LeastNatural ==
  ASSUME NEW T \in SUBSET Nat, T # {}
  PROVE  \E n \in T : \A m \in T : n <= m
<1>1. PICK b \in T : TRUE
  OBVIOUS
<1> DEFINE D == 0..b
           I == {0..n : n \in {m \in T : m <= b}}
<1>2. I \in SUBSET (SUBSET D) /\ I # {}
  BY <1>1
<1>3. IsFiniteSet(D)
  BY <1>1, FS_Interval
<1>4. PICK s \in I : \A t \in I : ~(t \subseteq s /\ t # s)
  <2> HIDE DEF I, D
  <2> QED BY <1>2, <1>3, MinimalSubset
<1>5. PICK n \in T : n <= b /\ s = 0..n
  BY <1>4
<1>6. ASSUME NEW m \in T, m < n
      PROVE  FALSE
  <2>1. 0..m \in I
    BY <1>5, <1>6
  <2>2. 0..m \subseteq 0..n /\ n \in 0..n /\ n \notin 0..m
    BY <1>6
  <2> HIDE DEF I
  <2> QED BY <1>4, <1>5, <2>1, <2>2
<1> QED BY <1>6

(* Induction up to n: a set that has 0, and with each number the next, has *)
(* all numbers up to n.                                                    *)
LEMMA UpToInduction ==
  ASSUME NEW n \in Nat, NEW P \in SUBSET (0..n), 0 \in P,
         \A i \in 1..n : i - 1 \in P => i \in P
  PROVE  P = 0..n
<1> SUFFICES ASSUME (0..n) \ P # {} PROVE FALSE
  OBVIOUS
<1> DEFINE Bad == (0..n) \ P
<1>1. PICK k \in Bad : \A m \in Bad : k <= m
  <2>1. Bad \in SUBSET Nat /\ Bad # {}
    OBVIOUS
  <2> HIDE DEF Bad
  <2> QED BY <2>1, LeastNatural
<1>2. k \in 1..n /\ k - 1 \in 0..n
  OBVIOUS
<1>3. k - 1 \in P
  BY <1>1, <1>2
<1> QED BY <1>2, <1>3

-----------------------------------------------------------------------------
(* The recursive function exists                                           *)

(* The subsets of S with at most n elements.                               *)
UpTo(S, n) == {s \in SUBSET S : Cardinality(s) <= n}

(* Such a function exists: it is built up by the size of the sets.         *)
LEMMA SumsExist ==
  ASSUME NEW f, NEW S, IsFiniteSet(S)
  PROVE  \E g : IsSum(g, f, S)
<1> DEFINE Bad == {n \in Nat : ~\E g : Sums(g, f, UpTo(S, n))}
<1>0. \A s \in SUBSET S : IsFiniteSet(s) /\ Cardinality(s) \in Nat
  BY FS_Subset, FS_CardinalityType
<1>1. 0 \notin Bad
  <2>1. \A s \in UpTo(S, 0) : s = {}
    BY <1>0, FS_EmptySet DEF UpTo
  <2> DEFINE g == [s \in UpTo(S, 0) |-> 0]
  <2>2. Sums(g, f, UpTo(S, 0))
    BY <2>1 DEF Sums
  <2> QED BY <2>2
<1>2. ASSUME NEW n \in Nat, NEW g, Sums(g, f, UpTo(S, n))
      PROVE  n + 1 \notin Bad
  <2> DEFINE Val(h, s) == IF s = {} THEN 0 ELSE f[First(s)] + h[s \ {First(s)}]
             h == [s \in UpTo(S, n + 1) |-> Val(g, s)]
  <2>1. \A s \in UpTo(S, n) : g[s] = Val(g, s) /\ h[s] = Val(g, s)
    <3>1. \A s \in UpTo(S, n) : g[s] = Val(g, s)
      BY <1>2 DEF Sums
    <3>2. UpTo(S, n) \subseteq UpTo(S, n + 1)
      BY <1>0 DEF UpTo
    <3> QED BY <3>1, <3>2
  <2>2. ASSUME NEW s \in UpTo(S, n + 1), s # {}
        PROVE  s \ {First(s)} \in UpTo(S, n)
    <3>1. First(s) \in s /\ IsFiniteSet(s) /\ Cardinality(s) <= n + 1 /\ s \in SUBSET S
      BY <1>0, <2>2 DEF First, UpTo
    <3>2. Cardinality(s \ {First(s)}) = Cardinality(s) - 1
      BY <3>1, FS_RemoveElement
    <3> QED BY <1>0, <3>1, <3>2 DEF UpTo
  <2>3. ASSUME NEW s \in UpTo(S, n + 1)
        PROVE  Val(g, s) = Val(h, s)
    <3>1. CASE s = {}
      BY <3>1
    <3>2. CASE s # {}
      <4> HIDE DEF h
      <4>1. g[s \ {First(s)}] = h[s \ {First(s)}]
        BY <2>1, <2>2, <3>2
      <4> QED BY <4>1
    <3> QED BY <3>1, <3>2
  <2>4. h = [s \in UpTo(S, n + 1) |-> Val(h, s)]
    BY <2>3
  <2> HIDE DEF h
  <2>5. Sums(h, f, UpTo(S, n + 1))
    BY <2>4 DEF Sums
  <2> QED BY <2>5
<1>3. Bad = {}
  <2> SUFFICES ASSUME Bad # {} PROVE FALSE
    OBVIOUS
  <2>1. PICK n \in Bad : \A m \in Bad : n <= m
    <3>1. Bad \in SUBSET Nat
      OBVIOUS
    <3> HIDE DEF Bad
    <3> QED BY <3>1, LeastNatural
  <2>2. n # 0 /\ n \in Nat
    BY <1>1
  <2>3. n - 1 \in Nat /\ n - 1 \notin Bad /\ (n - 1) + 1 = n
    <3> HIDE DEF Bad
    <3> QED BY <2>1, <2>2
  <2>4. PICK g : Sums(g, f, UpTo(S, n - 1))
    BY <2>3
  <2>5. (n - 1) + 1 \notin Bad
    <3> HIDE DEF Bad
    <3> QED BY <1>2, <2>3, <2>4
  <2> HIDE DEF Bad
  <2> QED BY <2>3, <2>5
<1>4. UpTo(S, Cardinality(S)) = SUBSET S
  BY FS_Subset DEF UpTo
<1>5. Cardinality(S) \in Nat
  BY FS_CardinalityType
<1>6. \E g : Sums(g, f, UpTo(S, Cardinality(S)))
  BY <1>3, <1>5
<1> QED BY <1>4, <1>6 DEF IsSum

(* Two such functions agree where both are defined.                        *)
LEMMA SumsAgree ==
  ASSUME NEW f, NEW S, IsFiniteSet(S), NEW T \in SUBSET S,
         NEW g, IsSum(g, f, S), NEW h, IsSum(h, f, T)
  PROVE  g[T] = h[T]
<1> DEFINE Bad == {s \in SUBSET T : g[s] # h[s]}
<1>1. IsFiniteSet(T)
  BY FS_Subset
<1>2. ASSUME NEW s \in Bad, \A t \in Bad : ~(t \subseteq s /\ t # s)
      PROVE  FALSE
  <2>1. s \in SUBSET T /\ s \in SUBSET S /\ g[s] # h[s]
    OBVIOUS
  <2>2. /\ g[s] = IF s = {} THEN 0 ELSE f[First(s)] + g[s \ {First(s)}]
        /\ h[s] = IF s = {} THEN 0 ELSE f[First(s)] + h[s \ {First(s)}]
    BY <2>1 DEF Sums, IsSum
  <2>3. s # {} /\ First(s) \in s
    BY <2>1, <2>2 DEF First
  <2>4. s \ {First(s)} \notin Bad /\ s \ {First(s)} \in SUBSET T
    <3> HIDE DEF Bad
    <3> QED BY <1>2, <2>1, <2>3
  <2>5. g[s \ {First(s)}] = h[s \ {First(s)}]
    BY <2>4
  <2> QED BY <2>1, <2>2, <2>3, <2>5
<1>3. Bad \in SUBSET (SUBSET T)
  OBVIOUS
<1>4. Bad = {}
  <2> HIDE DEF Bad
  <2> QED BY <1>1, <1>2, <1>3, MinimalSubset
<1> QED BY <1>4

(* What the fold computes, on every subset of a finite set.                *)
LEMMA SumIs ==
  ASSUME NEW f, NEW S, IsFiniteSet(S), NEW g, IsSum(g, f, S), NEW T \in SUBSET S
  PROVE  SumFunctionOnSet(f, T) = g[T]
<1>1. SumFunctionOnSet(f, T) = (CHOOSE h : IsSum(h, f, T))[T]
  BY DEF SumFunctionOnSet, FoldFunctionOnSet, MapThenFoldSet, IsSum, Sums, First
<1>2. PICK h : h = CHOOSE k : IsSum(k, f, T)
  OBVIOUS
<1>3. IsSum(h, f, T)
  BY <1>2, FS_Subset, SumsExist
<1>4. g[T] = h[T]
  BY <1>3, SumsAgree
<1> QED BY <1>1, <1>2, <1>4

-----------------------------------------------------------------------------
(* Sums                                                                    *)

(* The sum over no index, and over one index and the others.               *)
LEMMA SumSteps ==
  ASSUME NEW f, NEW S, IsFiniteSet(S)
  PROVE  /\ S = {} => SumFunctionOnSet(f, S) = 0
         /\ S # {} => SumFunctionOnSet(f, S)
                        = f[First(S)] + SumFunctionOnSet(f, S \ {First(S)})
<1>1. PICK g : IsSum(g, f, S)
  BY SumsExist
<1>2. SumFunctionOnSet(f, S) = g[S]
      /\ SumFunctionOnSet(f, S \ {First(S)}) = g[S \ {First(S)}]
  BY <1>1, SumIs
<1>3. g[S] = IF S = {} THEN 0 ELSE f[First(S)] + g[S \ {First(S)}]
  BY <1>1 DEF IsSum, Sums
<1> QED BY <1>2, <1>3

(* A sum of numbers is a number.                                           *)
LEMMA SumType ==
  ASSUME NEW f, NEW N \in {Nat, Int}, NEW S, IsFiniteSet(S), \A x \in S : f[x] \in N
  PROVE  SumFunctionOnSet(f, S) \in N
<1> DEFINE Bad == {s \in SUBSET S : SumFunctionOnSet(f, s) \notin N}
<1>1. ASSUME NEW s \in Bad, \A t \in Bad : ~(t \subseteq s /\ t # s)
      PROVE  FALSE
  <2>1. s \in SUBSET S /\ IsFiniteSet(s)
    BY FS_Subset
  <2>2. s # {} /\ First(s) \in s
    <3>1. SumFunctionOnSet(f, {}) = 0
      BY FS_EmptySet, SumSteps
    <3>2. s # {}
      BY <3>1
    <3> QED BY <3>2 DEF First
  <2>3. s \ {First(s)} \notin Bad /\ s \ {First(s)} \in SUBSET S
    <3> HIDE DEF Bad
    <3> QED BY <1>1, <2>1, <2>2
  <2>4. SumFunctionOnSet(f, s \ {First(s)}) \in N /\ f[First(s)] \in N
    BY <2>1, <2>2, <2>3
  <2>5. SumFunctionOnSet(f, s) = f[First(s)] + SumFunctionOnSet(f, s \ {First(s)})
    BY <2>1, <2>2, SumSteps
  <2>6. SumFunctionOnSet(f, s) \in N
    BY <2>4, <2>5
  <2> QED BY <2>6
<1>2. Bad \in SUBSET (SUBSET S)
  OBVIOUS
<1>3. Bad = {}
  <2> HIDE DEF Bad
  <2> QED BY <1>1, <1>2, MinimalSubset
<1> QED BY <1>3

(* Any index may be taken out first.                                       *)
LEMMA SumWithout ==
  ASSUME NEW f, NEW S, IsFiniteSet(S), \A x \in S : f[x] \in Int, NEW y \in S
  PROVE  SumFunctionOnSet(f, S) = f[y] + SumFunctionOnSet(f, S \ {y})
<1> DEFINE Good(s) == \A x \in s : SumFunctionOnSet(f, s)
                                      = f[x] + SumFunctionOnSet(f, s \ {x})
           Bad == {s \in SUBSET S : ~Good(s)}
<1>1. ASSUME NEW s \in Bad, \A t \in Bad : ~(t \subseteq s /\ t # s)
      PROVE  FALSE
  <2>1. s \in SUBSET S /\ ~Good(s)
    OBVIOUS
  <2>2. \A t \in SUBSET S : IsFiniteSet(t) /\ SumFunctionOnSet(f, t) \in Int
    BY FS_Subset, SumType
  <2>3. PICK x \in s : SumFunctionOnSet(f, s) # f[x] + SumFunctionOnSet(f, s \ {x})
    BY <2>1
  <2> DEFINE c == First(s)
             r == s \ {c}
             q == s \ {x}
  <2>4. c \in s
    BY <2>3 DEF First
  <2>5. SumFunctionOnSet(f, s) = f[c] + SumFunctionOnSet(f, r)
    BY <2>1, <2>2, <2>3, SumSteps
  <2>6. x # c
    BY <2>3, <2>5
  <2>7. Good(r) /\ Good(q)
    <3>1. /\ r \in SUBSET S /\ r \subseteq s /\ r # s
          /\ q \in SUBSET S /\ q \subseteq s /\ q # s
      BY <2>1, <2>3, <2>4
    <3>2. r \notin Bad /\ q \notin Bad
      <4> HIDE DEF Bad, r, q
      <4> QED BY <1>1, <3>1
    <3> HIDE DEF Good, r, q
    <3> QED BY <3>1, <3>2
  <2>8. SumFunctionOnSet(f, r) = f[x] + SumFunctionOnSet(f, r \ {x})
    BY <2>3, <2>6, <2>7
  <2>9. SumFunctionOnSet(f, q) = f[c] + SumFunctionOnSet(f, q \ {c})
    BY <2>4, <2>6, <2>7
  <2>10. q \ {c} = r \ {x} /\ r \ {x} \in SUBSET S
    BY <2>1
  <2>11. f[c] \in Int /\ f[x] \in Int /\ SumFunctionOnSet(f, r \ {x}) \in Int
    BY <2>1, <2>2, <2>3, <2>4, <2>10
  <2>12. SumFunctionOnSet(f, s) = f[x] + SumFunctionOnSet(f, q)
    <3> HIDE DEF c, r, q, Good, Bad
    <3> DEFINE rest == SumFunctionOnSet(f, r \ {x})
    <3>1. SumFunctionOnSet(f, q) = f[c] + rest
      BY <2>9, <2>10
    <3>2. SumFunctionOnSet(f, s) = f[c] + (f[x] + rest)
      BY <2>5, <2>8
    <3>3. rest \in Int
      BY <2>11
    <3> HIDE DEF rest
    <3> QED BY <2>11, <3>1, <3>2, <3>3
  <2> QED BY <2>3, <2>12 DEF q
<1>2. Bad \in SUBSET (SUBSET S)
  OBVIOUS
<1>3. Bad = {}
  <2> HIDE DEF Bad
  <2> QED BY <1>1, <1>2, MinimalSubset
<1>4. Good(S)
  BY <1>3
<1> QED BY <1>4

(* A sum over one index more.                                              *)
LEMMA SumWith ==
  ASSUME NEW f, NEW S, IsFiniteSet(S), \A x \in S : f[x] \in Int, NEW y, y \notin S,
         f[y] \in Int
  PROVE  SumFunctionOnSet(f, S \cup {y}) = f[y] + SumFunctionOnSet(f, S)
<1> DEFINE T == S \cup {y}
<1>1. IsFiniteSet(T) /\ T \ {y} = S /\ y \in T /\ \A x \in T : f[x] \in Int
  BY FS_AddElement
<1> HIDE DEF T
<1>2. SumFunctionOnSet(f, T) = f[y] + SumFunctionOnSet(f, T \ {y})
  BY <1>1, SumWithout
<1> QED BY <1>1, <1>2 DEF T

(* A sum depends on the values of its indices only.                        *)
LEMMA SumSame ==
  ASSUME NEW f, NEW g, NEW S, IsFiniteSet(S), \A x \in S : f[x] = g[x]
  PROVE  SumFunctionOnSet(f, S) = SumFunctionOnSet(g, S)
<1> DEFINE Bad == {s \in SUBSET S : SumFunctionOnSet(f, s) # SumFunctionOnSet(g, s)}
<1>1. ASSUME NEW s \in Bad, \A t \in Bad : ~(t \subseteq s /\ t # s)
      PROVE  FALSE
  <2>1. s \in SUBSET S /\ IsFiniteSet(s)
    BY FS_Subset
  <2>2. s # {} /\ First(s) \in s
    <3>1. s # {}
      BY <2>1, SumSteps
    <3> QED BY <3>1 DEF First
  <2>3. s \ {First(s)} \notin Bad /\ s \ {First(s)} \in SUBSET S
    <3> HIDE DEF Bad
    <3> QED BY <1>1, <2>1, <2>2
  <2>4. SumFunctionOnSet(f, s \ {First(s)}) = SumFunctionOnSet(g, s \ {First(s)})
        /\ f[First(s)] = g[First(s)]
    BY <2>1, <2>2, <2>3
  <2>5. SumFunctionOnSet(f, s) = SumFunctionOnSet(g, s)
    BY <2>1, <2>2, <2>4, SumSteps
  <2> QED BY <2>5
<1>2. Bad \in SUBSET (SUBSET S)
  OBVIOUS
<1>3. Bad = {}
  <2> HIDE DEF Bad
  <2> QED BY <1>1, <1>2, MinimalSubset
<1> QED BY <1>3

(* A sum of which one value changes.                                       *)
LEMMA SumChange ==
  ASSUME NEW f, NEW g, NEW S, IsFiniteSet(S), \A x \in S : f[x] \in Int /\ g[x] \in Int,
         NEW y \in S, \A x \in S \ {y} : f[x] = g[x]
  PROVE  /\ SumFunctionOnSet(f, S) \in Int /\ SumFunctionOnSet(g, S) \in Int
         /\ SumFunctionOnSet(g, S) = SumFunctionOnSet(f, S) - f[y] + g[y]
<1>1. IsFiniteSet(S \ {y})
  BY FS_RemoveElement
<1>2. SumFunctionOnSet(f, S \ {y}) = SumFunctionOnSet(g, S \ {y})
  BY <1>1, SumSame
<1>3. SumFunctionOnSet(f, S \ {y}) \in Int
  BY <1>1, SumType
<1>4. /\ SumFunctionOnSet(f, S) = f[y] + SumFunctionOnSet(f, S \ {y})
      /\ SumFunctionOnSet(g, S) = g[y] + SumFunctionOnSet(g, S \ {y})
  BY SumWithout
<1>5. f[y] \in Int /\ g[y] \in Int
  OBVIOUS
<1> QED BY <1>2, <1>3, <1>4, <1>5

(* A sum of smaller values is smaller.                                     *)
LEMMA SumAtMost ==
  ASSUME NEW f, NEW g, NEW S, IsFiniteSet(S),
         \A x \in S : f[x] \in Int /\ g[x] \in Int /\ f[x] <= g[x]
  PROVE  SumFunctionOnSet(f, S) <= SumFunctionOnSet(g, S)
<1> DEFINE Bad == {s \in SUBSET S : ~(SumFunctionOnSet(f, s) <= SumFunctionOnSet(g, s))}
<1>1. ASSUME NEW s \in Bad, \A t \in Bad : ~(t \subseteq s /\ t # s)
      PROVE  FALSE
  <2>1. s \in SUBSET S /\ IsFiniteSet(s)
    BY FS_Subset
  <2>2. s # {} /\ First(s) \in s
    <3>1. SumFunctionOnSet(f, {}) = 0 /\ SumFunctionOnSet(g, {}) = 0
      BY FS_EmptySet, SumSteps
    <3>2. s # {}
      BY <3>1
    <3> QED BY <3>2 DEF First
  <2> DEFINE c == First(s)
             r == s \ {c}
  <2>3. r \notin Bad /\ r \in SUBSET S /\ IsFiniteSet(r)
    <3> HIDE DEF Bad
    <3> QED BY <1>1, <2>1, <2>2, FS_Subset
  <2>4. SumFunctionOnSet(f, r) <= SumFunctionOnSet(g, r)
    BY <2>3
  <2>5. SumFunctionOnSet(f, r) \in Int /\ SumFunctionOnSet(g, r) \in Int
    <3>1. \A x \in r : f[x] \in Int /\ g[x] \in Int
      BY <2>3
    <3> HIDE DEF r
    <3> QED BY <2>3, <3>1, SumType
  <2>6. f[c] \in Int /\ g[c] \in Int /\ f[c] <= g[c]
    BY <2>1, <2>2
  <2>7. /\ SumFunctionOnSet(f, s) = f[c] + SumFunctionOnSet(f, r)
        /\ SumFunctionOnSet(g, s) = g[c] + SumFunctionOnSet(g, r)
    BY <2>1, <2>2, SumSteps
  <2>8. SumFunctionOnSet(f, s) <= SumFunctionOnSet(g, s)
    <3> HIDE DEF r, c
    <3> QED BY <2>4, <2>5, <2>6, <2>7
  <2> QED BY <2>8
<1>2. Bad \in SUBSET (SUBSET S)
  OBVIOUS
<1>3. Bad = {}
  <2> HIDE DEF Bad
  <2> QED BY <1>1, <1>2, MinimalSubset
<1> QED BY <1>3

(* Counting the indices with a value of one or more.                       *)
LEMMA CountAtMost ==
  ASSUME NEW f, NEW S, IsFiniteSet(S), \A x \in S : f[x] \in Nat,
         NEW T \in SUBSET S, \A x \in T : f[x] >= 1
  PROVE  Cardinality(T) <= SumFunctionOnSet(f, S)
<1> DEFINE Bad == {s \in SUBSET S : ~(Cardinality(T \cap s) <= SumFunctionOnSet(f, s))}
<1>1. ASSUME NEW s \in Bad, \A t \in Bad : ~(t \subseteq s /\ t # s)
      PROVE  FALSE
  <2>1. s \in SUBSET S /\ IsFiniteSet(s)
    BY FS_Subset
  <2>2. s # {} /\ First(s) \in s
    <3>1. SumFunctionOnSet(f, {}) = 0 /\ Cardinality({}) = 0 /\ T \cap {} = {}
      BY FS_EmptySet, SumSteps
    <3>2. s # {}
      BY <3>1
    <3> QED BY <3>2 DEF First
  <2> DEFINE c == First(s)
             r == s \ {c}
  <2>3. r \notin Bad /\ r \in SUBSET S /\ IsFiniteSet(r)
    <3> HIDE DEF Bad
    <3> QED BY <1>1, <2>1, <2>2, FS_Subset
  <2>4. Cardinality(T \cap r) <= SumFunctionOnSet(f, r)
    BY <2>3
  <2>5. SumFunctionOnSet(f, r) \in Nat
    <3>1. \A x \in r : f[x] \in Nat
      BY <2>3
    <3> HIDE DEF r
    <3> QED BY <2>3, <3>1, SumType
  <2>6. f[c] \in Nat /\ (c \in T => f[c] >= 1)
    BY <2>1, <2>2
  <2>7. SumFunctionOnSet(f, s) = f[c] + SumFunctionOnSet(f, r)
    BY <2>1, <2>2, SumSteps
  <2>8. IsFiniteSet(T \cap r) /\ Cardinality(T \cap r) \in Nat
    BY <2>3, FS_Subset, FS_CardinalityType
  <2>9. Cardinality(T \cap s) = Cardinality(T \cap r) + (IF c \in T THEN 1 ELSE 0)
    <3>1. CASE c \in T
      <4>1. T \cap s = (T \cap r) \cup {c} /\ c \notin T \cap r
        BY <2>2, <3>1
      <4> HIDE DEF r, c
      <4> QED BY <2>8, <3>1, <4>1, FS_AddElement
    <3>2. CASE c \notin T
      <4>1. T \cap s = T \cap r
        BY <3>2
      <4>2. Cardinality(T \cap s) = Cardinality(T \cap r)
        BY <4>1
      <4> HIDE DEF r, c
      <4> QED BY <2>8, <3>2, <4>2
    <3> QED BY <3>1, <3>2
  <2>10. Cardinality(T \cap s) <= SumFunctionOnSet(f, s)
    <3> HIDE DEF r, c
    <3> QED BY <2>4, <2>5, <2>6, <2>7, <2>8, <2>9
  <2> QED BY <2>10
<1>2. Bad \in SUBSET (SUBSET S)
  OBVIOUS
<1>3. Bad = {}
  <2> HIDE DEF Bad
  <2> QED BY <1>1, <1>2, MinimalSubset
<1>4. T \cap S = T
  OBVIOUS
<1> QED BY <1>3, <1>4

(* The sum of a sequence of numbers, its first one taken off.              *)
LEMMA SumShift ==
  ASSUME NEW f, NEW g, NEW n \in Nat, \A i \in 1..n + 1 : f[i] \in Int,
         \A i \in 1..n : g[i] = f[i + 1]
  PROVE  SumFunctionOnSet(f, 1..n + 1) = f[1] + SumFunctionOnSet(g, 1..n)
<1> DEFINE P == {i \in 0..n : SumFunctionOnSet(f, 1..i + 1) = f[1] + SumFunctionOnSet(g, 1..i)}
<1>1. 0 \in P
  <2>1. 1..0 = {} /\ 1..0 + 1 = 1..0 \cup {1} /\ 1 \notin 1..0
    OBVIOUS
  <2>2. IsFiniteSet(1..0) /\ SumFunctionOnSet(f, 1..0) = 0 /\ SumFunctionOnSet(g, 1..0) = 0
    BY <2>1, FS_EmptySet, SumSteps
  <2>3. SumFunctionOnSet(f, 1..0 + 1) = f[1] + SumFunctionOnSet(f, 1..0)
    <3>1. f[1] \in Int /\ \A x \in 1..0 : f[x] \in Int
      OBVIOUS
    <3> DEFINE e == 1..0
    <3>2. e \cup {1} = 1..0 + 1 /\ 1 \notin e /\ IsFiniteSet(e) /\ \A x \in e : f[x] \in Int
      BY <2>1, <2>2, <3>1
    <3> HIDE DEF e
    <3>3. SumFunctionOnSet(f, e \cup {1}) = f[1] + SumFunctionOnSet(f, e)
      BY <3>1, <3>2, SumWith
    <3> QED BY <3>2, <3>3 DEF e
  <2> QED BY <2>2, <2>3
<1>2. ASSUME NEW i \in 1..n, i - 1 \in P
      PROVE  i \in P
  <2> DEFINE a == 1..i
             b == 1..(i - 1)
  <2>1. /\ IsFiniteSet(a) /\ IsFiniteSet(b) /\ i + 1 \notin a /\ i \notin b
        /\ a \cup {i + 1} = 1..i + 1 /\ b \cup {i} = 1..i
        /\ i - 1 + 1 = i
    <3>1. i + 1 \notin a /\ i \notin b /\ a \cup {i + 1} = 1..i + 1 /\ b \cup {i} = 1..i
      OBVIOUS
    <3>2. IsFiniteSet(a) /\ IsFiniteSet(b)
      BY FS_Interval
    <3> QED BY <3>1, <3>2
  <2>2. /\ \A x \in a : f[x] \in Int
        /\ \A x \in b : g[x] \in Int
        /\ f[i + 1] \in Int /\ g[i] = f[i + 1] /\ f[1] \in Int
    OBVIOUS
  <2>3. SumFunctionOnSet(f, 1..i) = f[1] + SumFunctionOnSet(g, b)
    BY <1>2, <2>1
  <2> HIDE DEF a, b
  <2>4. SumFunctionOnSet(f, a \cup {i + 1}) = f[i + 1] + SumFunctionOnSet(f, a)
    BY <2>1, <2>2, SumWith
  <2>5. SumFunctionOnSet(g, b \cup {i}) = g[i] + SumFunctionOnSet(g, b)
    BY <2>1, <2>2, SumWith
  <2>6. SumFunctionOnSet(g, b) \in Int
    BY <2>1, <2>2, SumType
  <2>7. SumFunctionOnSet(f, 1..i + 1) = f[1] + SumFunctionOnSet(g, 1..i)
    <3>1. SumFunctionOnSet(f, 1..i + 1) = f[i + 1] + SumFunctionOnSet(f, 1..i)
      BY <2>1, <2>4 DEF a
    <3>2. SumFunctionOnSet(g, 1..i) = g[i] + SumFunctionOnSet(g, b)
      BY <2>1, <2>5
    <3> DEFINE x == f[i + 1]
               y == f[1]
               z == SumFunctionOnSet(g, b)
    <3>3. x \in Int /\ y \in Int /\ z \in Int
      BY <2>2, <2>6
    <3>4. SumFunctionOnSet(f, 1..i + 1) = x + (y + z) /\ SumFunctionOnSet(g, 1..i) = x + z
      BY <2>2, <2>3, <3>1, <3>2
    <3>5. y = f[1]
      OBVIOUS
    <3> HIDE DEF x, y, z
    <3>6. x + (y + z) = y + (x + z)
      BY <3>3
    <3> QED BY <3>4, <3>5, <3>6
  <2> QED BY <2>7
<1>3. P = 0..n
  <2> HIDE DEF P
  <2>1. P \in SUBSET (0..n)
    BY DEF P
  <2> QED BY <1>1, <1>2, <2>1, UpToInduction
<1> QED BY <1>3

(* A sum of zeros.                                                         *)
LEMMA SumZero ==
  ASSUME NEW f, NEW S, IsFiniteSet(S), \A x \in S : f[x] = 0
  PROVE  SumFunctionOnSet(f, S) = 0
<1> DEFINE Bad == {s \in SUBSET S : SumFunctionOnSet(f, s) # 0}
<1>1. ASSUME NEW s \in Bad, \A t \in Bad : ~(t \subseteq s /\ t # s)
      PROVE  FALSE
  <2>1. s \in SUBSET S /\ IsFiniteSet(s)
    BY FS_Subset
  <2>2. s # {} /\ First(s) \in s
    <3>1. s # {}
      BY <2>1, SumSteps
    <3> QED BY <3>1 DEF First
  <2>3. s \ {First(s)} \notin Bad /\ s \ {First(s)} \in SUBSET S
    <3> HIDE DEF Bad
    <3> QED BY <1>1, <2>1, <2>2
  <2>4. SumFunctionOnSet(f, s \ {First(s)}) = 0 /\ f[First(s)] = 0
    BY <2>1, <2>2, <2>3
  <2>5. SumFunctionOnSet(f, s) = 0
    BY <2>1, <2>2, <2>4, SumSteps
  <2> QED BY <2>5
<1>2. Bad \in SUBSET (SUBSET S)
  OBVIOUS
<1>3. Bad = {}
  <2> HIDE DEF Bad
  <2> QED BY <1>1, <1>2, MinimalSubset
<1> QED BY <1>3


(* A sum of numbers is no less than one or two of them.                    *)
LEMMA SumAtLeast ==
  ASSUME NEW f, NEW S, IsFiniteSet(S), \A x \in S : f[x] \in Nat
  PROVE  /\ SumFunctionOnSet(f, S) \in Nat
         /\ \A y \in S : SumFunctionOnSet(f, S) >= f[y]
         /\ \A y, z \in S : y # z => SumFunctionOnSet(f, S) >= f[y] + f[z]
<1>1. SumFunctionOnSet(f, S) \in Nat
  BY SumType
<1>2. ASSUME NEW y \in S
      PROVE  /\ f[y] \in Nat /\ IsFiniteSet(S \ {y})
             /\ SumFunctionOnSet(f, S \ {y}) \in Nat
             /\ SumFunctionOnSet(f, S) = f[y] + SumFunctionOnSet(f, S \ {y})
  <2>1. IsFiniteSet(S \ {y})
    BY FS_RemoveElement
  <2>2. SumFunctionOnSet(f, S \ {y}) \in Nat
    BY <2>1, SumType
  <2>3. SumFunctionOnSet(f, S) = f[y] + SumFunctionOnSet(f, S \ {y})
    BY SumWithout
  <2> QED BY <2>1, <2>2, <2>3
<1>3. ASSUME NEW y \in S, NEW z \in S, y # z
      PROVE  SumFunctionOnSet(f, S) >= f[y] + f[z]
  <2>1. z \in S \ {y} /\ \A x \in S \ {y} : f[x] \in Int
    BY <1>3
  <2>2. SumFunctionOnSet(f, S \ {y}) = f[z] + SumFunctionOnSet(f, (S \ {y}) \ {z})
    BY <1>2, <2>1, SumWithout
  <2>3. SumFunctionOnSet(f, (S \ {y}) \ {z}) \in Nat
    <3>1. IsFiniteSet((S \ {y}) \ {z})
      BY <1>2, FS_RemoveElement
    <3> QED BY <3>1, SumType
  <2> QED BY <1>2, <2>2, <2>3
<1>4. ASSUME NEW y \in S
      PROVE  SumFunctionOnSet(f, S) >= f[y]
  <2> DEFINE rest == SumFunctionOnSet(f, S \ {y})
  <2>1. f[y] \in Nat /\ rest \in Nat /\ SumFunctionOnSet(f, S) = f[y] + rest
    BY <1>2
  <2> HIDE DEF rest
  <2> QED BY <2>1
<1> QED BY <1>1, <1>3, <1>4
=============================================================================
