--------------------------- MODULE LlmBudget_proofs ---------------------------
(***************************************************************************)
(* Proofs about LlmBudget for any budget, any price of a call, any number of *)
(* readers and months: what a sum over the actors is, that the books balance, *)
(* that a voucher covers no more than was booked, and the two bounds on what *)
(* a month costs.                                                          *)
(***************************************************************************)
EXTENDS LlmBudget, FiniteSetTheorems, WellFoundedInduction, TLAPS

-----------------------------------------------------------------------------
(* Sums.  The induction theorems of the library take a predicate; here a set  *)
(* takes its place.                                                          *)

LEMMA NatInductionOnSet ==
    ASSUME NEW P \in SUBSET Nat, 0 \in P, \A n \in P : n + 1 \in P
    PROVE  \A n \in Nat : n \in P
<1> SUFFICES ASSUME Nat \ P # {} PROVE FALSE
  OBVIOUS
<1>1. PICK n \in Nat \ P : \A k \in Nat \ P : ~ (<<k, n>> \in OpToRel(<, Nat))
  BY NatLessThanWellFounded, WFMin
<1>2. \A k \in Nat \ P : ~ (k < n)
  BY <1>1 DEF OpToRel
<1>3. n # 0 /\ n - 1 \in Nat /\ n - 1 < n
  OBVIOUS
<1>4. n - 1 \in P
  BY <1>2, <1>3
<1>5. (n - 1) + 1 \in P
  BY <1>4
<1>6. (n - 1) + 1 = n
  OBVIOUS
<1> QED
  BY <1>5, <1>6

LEMMA FiniteInduction ==
    ASSUME NEW S, IsFiniteSet(S), NEW T \in SUBSET SUBSET S, {} \in T,
           \A s \in T, x \in S : s \cup {x} \in T
    PROVE  S \in T
<1> DEFINE P == {n \in Nat : \A s \in SUBSET S : Cardinality(s) = n => s \in T}
<1>1. 0 \in P
  BY FS_Subset, FS_EmptySet
<1>2. ASSUME NEW n \in P PROVE n + 1 \in P
  <2> SUFFICES ASSUME NEW s \in SUBSET S, Cardinality(s) = n + 1 PROVE s \in T
    OBVIOUS
  <2>1. IsFiniteSet(s)
    BY FS_Subset
  <2>2. PICK x : x \in s
    BY <2>1, FS_EmptySet
  <2>3. Cardinality(s \ {x}) = n /\ n \in Nat
    <3>1. Cardinality(s \ {x}) = Cardinality(s) - 1
      BY <2>1, <2>2, FS_RemoveElement
    <3> QED
      BY <3>1
  <2>4. s \ {x} \in T /\ s = (s \ {x}) \cup {x} /\ x \in S
    BY <2>2, <2>3
  <2> QED
    BY <2>4
<1>3. \A n \in Nat : n \in P
  <2> HIDE DEF P
  <2>1. P \in SUBSET Nat
    BY DEF P
  <2> QED
    BY <1>1, <1>2, <2>1, NatInductionOnSet
<1> QED
  BY <1>3, FS_CardinalityType

(* The function by which the community modules fold a function's values. *)
Chosen(s) == CHOOSE x \in s : TRUE
Adds(f, S, g) ==
    g = [s \in SUBSET S |-> IF s = {} THEN 0 ELSE f[Chosen(s)] + g[s \ {Chosen(s)}]]

Adding(f) == CHOOSE g : Adds(f, DOMAIN f, g)

LEMMA SumIsAdding ==
    ASSUME NEW f
    PROVE  SumFunction(f) = Adding(f)[DOMAIN f]
BY DEF SumFunction, SumFunctionOnSet, FoldFunctionOnSet, MapThenFoldSet, Adding, Adds, Chosen

LEMMA AddingExists ==
    ASSUME NEW S, IsFiniteSet(S), NEW f \in [S -> Nat]
    PROVE  \E g : Adds(f, S, g)
<1> DEFINE small(n) == {s \in SUBSET S : Cardinality(s) <= n}
           good(n, g) == g = [s \in small(n) |-> IF s = {} THEN 0 ELSE f[Chosen(s)] + g[s \ {Chosen(s)}]]
           P == {n \in Nat : \E g : good(n, g)}
<1>0. \A s \in SUBSET S : IsFiniteSet(s) /\ Cardinality(s) \in Nat /\ (Cardinality(s) = 0 <=> s = {})
  BY FS_Subset, FS_CardinalityType, FS_EmptySet
<1>1. \A s \in SUBSET S : s # {} => Chosen(s) \in s /\ Cardinality(s \ {Chosen(s)}) = Cardinality(s) - 1
  BY <1>0, FS_RemoveElement DEF Chosen
<1>2. 0 \in P
  <2> DEFINE g == [s \in small(0) |-> 0]
  <2>1. \A s \in small(0) : s = {}
    BY <1>0
  <2>2. good(0, g)
    BY <2>1
  <2> QED
    BY <2>2
<1>3. ASSUME NEW n \in P PROVE n + 1 \in P
  <2>0. n \in Nat
    OBVIOUS
  <2>1. PICK g : good(n, g)
    OBVIOUS
  <2> DEFINE h == [s \in small(n + 1) |-> IF s = {} THEN 0 ELSE f[Chosen(s)] + g[s \ {Chosen(s)}]]
  <2>2. \A s \in small(n) : h[s] = g[s]
    <3>1. \A s \in small(n) : s \in small(n + 1)
      BY <1>0, <2>0
    <3>2. \A s \in small(n) : g[s] = IF s = {} THEN 0 ELSE f[Chosen(s)] + g[s \ {Chosen(s)}]
      <4> HIDE DEF small
      <4> QED
        BY <2>1
    <3> QED
      BY <3>1, <3>2
  <2>3. \A s \in small(n + 1) : s # {} => s \ {Chosen(s)} \in small(n)
    BY <1>0, <1>1
  <2>4. \A s \in small(n + 1) : s # {} => h[s \ {Chosen(s)}] = g[s \ {Chosen(s)}]
    BY <2>2, <2>3
  <2>5. good(n + 1, h)
    <3> HIDE DEF small
    <3>1. \A s \in small(n + 1) : h[s] = IF s = {} THEN 0 ELSE f[Chosen(s)] + h[s \ {Chosen(s)}]
      BY <2>4
    <3> HIDE DEF h
    <3>2. h = [s \in small(n + 1) |-> h[s]]
      BY DEF h
    <3> QED
      BY <3>1, <3>2
  <2> HIDE DEF good, h
  <2> QED
    BY <2>0, <2>5
<1>4. \A n \in Nat : n \in P
  <2> HIDE DEF P
  <2>1. P \in SUBSET Nat
    BY DEF P
  <2> QED
    BY <1>2, <1>3, <2>1, NatInductionOnSet
<1>5. PICK g : good(Cardinality(S), g)
  BY <1>0, <1>4
<1>6. small(Cardinality(S)) = SUBSET S
  BY <1>0, FS_Subset
<1> QED
  BY <1>5, <1>6 DEF Adds

LEMMA AddingStep ==
    ASSUME NEW S, IsFiniteSet(S), NEW f \in [S -> Nat]
    PROVE  \A s \in SUBSET S :
              Adding(f)[s] = IF s = {} THEN 0
                             ELSE f[Chosen(s)] + Adding(f)[s \ {Chosen(s)}]
<1>1. DOMAIN f = S
  OBVIOUS
<1>2. Adds(f, S, Adding(f))
  BY <1>1, AddingExists DEF Adding
<1> HIDE DEF Adding
<1>3. Adding(f) = [s \in SUBSET S |->
          IF s = {} THEN 0 ELSE f[Chosen(s)] + Adding(f)[s \ {Chosen(s)}]]
  BY <1>2 DEF Adds
<1> DEFINE g == Adding(f)
           rhs(s) == IF s = {} THEN 0 ELSE f[Chosen(s)] + g[s \ {Chosen(s)}]
<1>4. g = [s \in SUBSET S |-> rhs(s)]
  BY <1>3
<1> HIDE DEF rhs, g
<1>5. \A s \in SUBSET S : g[s] = rhs(s)
  BY <1>4
<1> QED
  BY <1>5 DEF rhs, g

(* A sum does not depend on the order in which it is added up. *)
Additive(f, S) ==
    /\ Adding(f)[{}] = 0
    /\ \A s \in SUBSET S : Adding(f)[s] \in Nat
    /\ \A s \in SUBSET S : \A x \in s : f[x] \in Nat /\ Adding(f)[s] = f[x] + Adding(f)[s \ {x}]

LEMMA AddingSplit ==
    ASSUME NEW S, IsFiniteSet(S), NEW f \in [S -> Nat]
    PROVE  Additive(f, S)
<1>10. \A s \in SUBSET S : Adding(f)[s] = IF s = {} THEN 0 ELSE f[Chosen(s)] + Adding(f)[s \ {Chosen(s)}]
  BY AddingStep
<1> DEFINE g == Adding(f)
           A(s) == g[s] \in Nat /\ \A x \in s : g[s] = f[x] + g[s \ {x}]
           P == {n \in Nat : \A s \in SUBSET S : Cardinality(s) <= n => A(s)}
<1>0. \A s \in SUBSET S : /\ Cardinality(s) \in Nat /\ (Cardinality(s) = 0 <=> s = {})
                          /\ \A x \in s : Cardinality(s \ {x}) = Cardinality(s) - 1
  BY FS_Subset, FS_CardinalityType, FS_EmptySet, FS_RemoveElement
<1>1. g[{}] = 0 /\ \A s \in SUBSET S : s # {} => g[s] = f[Chosen(s)] + g[s \ {Chosen(s)}]
  <2>1. \A s \in SUBSET S : g[s] = IF s = {} THEN 0 ELSE f[Chosen(s)] + g[s \ {Chosen(s)}]
    BY <1>10
  <2> HIDE DEF g
  <2> QED
    BY <2>1
<1>2. \A s \in SUBSET S : s # {} => Chosen(s) \in s /\ f[Chosen(s)] \in Nat
  <2>1. \A s \in SUBSET S : s # {} => Chosen(s) \in s
    BY DEF Chosen
  <2> QED
    BY <2>1
<1> HIDE DEF g
<1>3. 0 \in P
  <2>1. \A s \in SUBSET S : Cardinality(s) <= 0 => s = {}
    BY <1>0
  <2>2. A({})
    BY <1>1
  <2> HIDE DEF A
  <2> QED
    BY <2>1, <2>2
<1>4. ASSUME NEW n \in P PROVE n + 1 \in P
  <2>1. n \in Nat /\ \A s \in SUBSET S : Cardinality(s) <= n => A(s)
    OBVIOUS
  <2> HIDE DEF P
  <2>2. ASSUME NEW s \in SUBSET S, Cardinality(s) <= n + 1, s # {} PROVE A(s)
    <3> DEFINE y == Chosen(s)
    <3>1. y \in s /\ f[y] \in Nat /\ g[s] = f[y] + g[s \ {y}]
      BY <1>1, <1>2, <2>2
    <3> HIDE DEF y
    <3>2. \A x \in s : Cardinality(s \ {x}) <= n /\ s \ {x} \in SUBSET S
      BY <1>0, <2>1, <2>2
    <3>3. \A x \in s : A(s \ {x})
      BY <2>1, <3>2
    <3>4. \A x \in s : f[x] \in Nat /\ g[s \ {x}] \in Nat
      BY <3>3
    <3>5. ASSUME NEW x \in s, x # y PROVE g[s] = f[x] + g[s \ {x}]
      <4> DEFINE u == s \ {x, y}
      <4>1. (s \ {y}) \ {x} = u /\ (s \ {x}) \ {y} = u /\ x \in s \ {y} /\ y \in s \ {x}
        BY <3>1, <3>5
      <4>2. g[s \ {y}] = f[x] + g[u] /\ g[s \ {x}] = f[y] + g[u]
        BY <3>1, <3>3, <4>1
      <4>3. g[u] \in Nat
        <5>1. u \in SUBSET S /\ Cardinality(u) = Cardinality(s \ {x}) - 1 /\ Cardinality(s \ {x}) \in Nat
          BY <1>0, <3>2, <4>1
        <5>2. Cardinality(u) <= n
          BY <2>1, <3>2, <5>1
        <5> QED
          BY <2>1, <5>1, <5>2
      <4> HIDE DEF u
      <4> QED
        BY <3>1, <3>4, <4>2, <4>3
    <3>6. g[s] \in Nat
      BY <3>1, <3>4
    <3> QED
      BY <3>1, <3>5, <3>6
  <2>3. A({})
    BY <1>1
  <2> HIDE DEF A
  <2>4. \A s \in SUBSET S : Cardinality(s) <= n + 1 => A(s)
    BY <2>2, <2>3
  <2> QED
    BY <2>1, <2>4 DEF P
<1>5. \A n \in Nat : n \in P
  <2> HIDE DEF P
  <2>1. P \in SUBSET Nat
    BY DEF P
  <2> QED
    BY <1>3, <1>4, <2>1, NatInductionOnSet
<1>6. ASSUME NEW s \in SUBSET S PROVE A(s)
  <2> HIDE DEF A
  <2> QED
    BY <1>0, <1>5
<1> QED
  BY <1>1, <1>6 DEF Additive, g

LEMMA AddingJoin ==
    ASSUME NEW S, NEW f, Additive(f, S), NEW s \in SUBSET S, NEW x \in S, x \notin s
    PROVE  Adding(f)[s \cup {x}] = f[x] + Adding(f)[s] /\ Adding(f)[s] \in Nat /\ f[x] \in Nat
<1> DEFINE u == s \cup {x}
<1>1. u \in SUBSET S /\ x \in u /\ u \ {x} = s
  OBVIOUS
<1> HIDE DEF u
<1>2. Adding(f)[u] = f[x] + Adding(f)[s] /\ Adding(f)[s] \in Nat /\ f[x] \in Nat
  BY <1>1 DEF Additive
<1> QED
  BY <1>2 DEF u

(* Functions that agree on a set have the same sum over it. *)
LEMMA AddingAgrees ==
    ASSUME NEW S, IsFiniteSet(S), NEW f \in [S -> Nat], NEW g \in [S -> Nat],
           NEW U \in SUBSET S, \A x \in U : f[x] = g[x]
    PROVE  Adding(f)[U] = Adding(g)[U]
<1>0a. Additive(f, S)
  BY AddingSplit
<1>0b. Additive(g, S)
  BY AddingSplit
<1> DEFINE T == {s \in SUBSET U : Adding(f)[s] = Adding(g)[s]}
<1>1. IsFiniteSet(U)
  BY FS_Subset
<1>2. {} \in T
  BY <1>0a, <1>0b DEF Additive
<1>3. ASSUME NEW s \in T, NEW x \in U PROVE s \cup {x} \in T
  <2>1. CASE x \in s
    <3>1. s \cup {x} = s
      BY <2>1
    <3> QED
      BY <3>1
  <2>2. CASE x \notin s
    <3>1. (s \cup {x}) \ {x} = s /\ s \cup {x} \in SUBSET S /\ f[x] = g[x] /\ s \cup {x} \in SUBSET U
      BY <2>2
    <3>2. Adding(f)[s \cup {x}] = f[x] + Adding(f)[s]
      BY <2>2, <3>1, <1>0a, <1>0b, AddingJoin
    <3>3. Adding(g)[s \cup {x}] = g[x] + Adding(g)[s]
      BY <2>2, <3>1, <1>0a, <1>0b, AddingJoin
    <3> QED
      BY <3>1, <3>2, <3>3
  <2> QED
    BY <2>1, <2>2
<1> HIDE DEF T
<1>4. T \in SUBSET SUBSET U
  BY DEF T
<1>5. U \in T
  BY <1>1, <1>2, <1>3, <1>4, FiniteInduction
<1> QED
  BY <1>5 DEF T

(* A sum of bounded values is bounded, and a smaller function has a smaller sum. *)
LEMMA AddingBounded ==
    ASSUME NEW S, IsFiniteSet(S), NEW f \in [S -> Nat], NEW c \in Nat,
           NEW U \in SUBSET S, \A x \in U : f[x] <= c
    PROVE  Adding(f)[U] <= Cardinality(U) * c
<1>0a. Additive(f, S)
  BY AddingSplit
<1> DEFINE T == {s \in SUBSET U : Adding(f)[s] <= Cardinality(s) * c}
<1>0. IsFiniteSet(U) /\ \A s \in SUBSET U : IsFiniteSet(s) /\ Cardinality(s) \in Nat
  BY FS_Subset, FS_CardinalityType
<1>1. {} \in T
  BY <1>0a, FS_EmptySet DEF Additive
<1>2. ASSUME NEW s \in T, NEW x \in U PROVE s \cup {x} \in T
  <2>1. CASE x \in s
    <3>1. s \cup {x} = s
      BY <2>1
    <3> QED
      BY <3>1
  <2>2. CASE x \notin s
    <3>1. (s \cup {x}) \ {x} = s /\ s \cup {x} \in SUBSET S /\ s \cup {x} \in SUBSET U /\ s \in SUBSET S
      BY <2>2
    <3>2. Adding(f)[s \cup {x}] = f[x] + Adding(f)[s] /\ Adding(f)[s] \in Nat /\ f[x] \in Nat
      BY <2>2, <3>1, <1>0a, AddingJoin
    <3>3. Cardinality(s \cup {x}) = Cardinality(s) + 1 /\ Cardinality(s) \in Nat
      BY <1>0, <2>2, FS_AddElement
    <3>4. (Cardinality(s) + 1) * c = Cardinality(s) * c + c
      BY <3>3
    <3>5. Adding(f)[s] <= Cardinality(s) * c /\ f[x] <= c /\ Cardinality(s) * c \in Nat
      BY <3>3
    <3> QED
      BY <3>1, <3>2, <3>3, <3>4, <3>5
  <2> QED
    BY <2>1, <2>2
<1> HIDE DEF T
<1>3. T \in SUBSET SUBSET U
  BY DEF T
<1>4. U \in T
  BY <1>0, <1>1, <1>2, <1>3, FiniteInduction
<1> QED
  BY <1>4 DEF T

LEMMA AddingMonotone ==
    ASSUME NEW S, IsFiniteSet(S), NEW f \in [S -> Nat], NEW g \in [S -> Nat],
           \A x \in S : f[x] <= g[x]
    PROVE  Adding(f)[S] <= Adding(g)[S]
<1>0a. Additive(f, S)
  BY AddingSplit
<1>0b. Additive(g, S)
  BY AddingSplit
<1> DEFINE T == {s \in SUBSET S : Adding(f)[s] <= Adding(g)[s]}
<1>1. {} \in T
  BY <1>0a, <1>0b DEF Additive
<1>2. ASSUME NEW s \in T, NEW x \in S PROVE s \cup {x} \in T
  <2>1. CASE x \in s
    <3>1. s \cup {x} = s
      BY <2>1
    <3> QED
      BY <3>1
  <2>2. CASE x \notin s
    <3>1. (s \cup {x}) \ {x} = s /\ s \cup {x} \in SUBSET S /\ s \in SUBSET S
      BY <2>2
    <3>2. Adding(f)[s \cup {x}] = f[x] + Adding(f)[s] /\ Adding(f)[s] \in Nat /\ f[x] \in Nat
      BY <2>2, <3>1, <1>0a, <1>0b, AddingJoin
    <3>3. Adding(g)[s \cup {x}] = g[x] + Adding(g)[s] /\ Adding(g)[s] \in Nat /\ g[x] \in Nat
      BY <2>2, <3>1, <1>0a, <1>0b, AddingJoin
    <3> QED
      BY <3>1, <3>2, <3>3
  <2> QED
    BY <2>1, <2>2
<1> HIDE DEF T
<1>3. T \in SUBSET SUBSET S
  BY DEF T
<1>4. S \in T
  BY <1>1, <1>2, <1>3, FiniteInduction
<1> QED
  BY <1>4 DEF T

(* What the proofs below need of a sum. *)
LEMMA SumType ==
    ASSUME NEW S, IsFiniteSet(S), NEW f \in [S -> Nat]
    PROVE  SumFunction(f) \in Nat /\ \A x \in S : f[x] <= SumFunction(f)
<1>0a. Additive(f, S)
  BY AddingSplit
<1>1. SumFunction(f) = Adding(f)[S]
  BY SumIsAdding
<1>2. Adding(f)[S] \in Nat
  BY <1>0a DEF Additive
<1>3. ASSUME NEW x \in S PROVE f[x] <= Adding(f)[S]
  <2>1. S \ {x} \in SUBSET S
    OBVIOUS
  <2>2. f[x] \in Nat /\ Adding(f)[S \ {x}] \in Nat /\ Adding(f)[S] = f[x] + Adding(f)[S \ {x}]
    BY <1>0a, <2>1 DEF Additive
  <2> QED
    BY <2>2
<1> QED
  BY <1>1, <1>2, <1>3

LEMMA SumChanges ==
    ASSUME NEW S, IsFiniteSet(S), NEW f \in [S -> Nat], NEW g \in [S -> Nat], NEW a \in S,
           \A x \in S \ {a} : f[x] = g[x]
    PROVE  SumFunction(g) = SumFunction(f) - f[a] + g[a]
<1>0a. Additive(f, S)
  BY AddingSplit
<1>0b. Additive(g, S)
  BY AddingSplit
<1>1. SumFunction(f) = Adding(f)[S] /\ SumFunction(g) = Adding(g)[S]
  BY SumIsAdding
<1>2. Adding(f)[S] = f[a] + Adding(f)[S \ {a}] /\ Adding(f)[S \ {a}] \in Nat
  BY <1>0a, <1>0b DEF Additive
<1>3. Adding(g)[S] = g[a] + Adding(g)[S \ {a}]
  BY <1>0a, <1>0b DEF Additive
<1>4. Adding(f)[S \ {a}] = Adding(g)[S \ {a}]
  BY AddingAgrees
<1> QED
  BY <1>1, <1>2, <1>3, <1>4

LEMMA SumBounded ==
    ASSUME NEW S, IsFiniteSet(S), NEW f \in [S -> Nat], NEW a \in S, NEW c \in Nat,
           \A x \in S \ {a} : f[x] <= c
    PROVE  SumFunction(f) <= f[a] + Cardinality(S \ {a}) * c
<1>0a. Additive(f, S)
  BY AddingSplit
<1>1. SumFunction(f) = Adding(f)[S]
  BY SumIsAdding
<1>2. Adding(f)[S] = f[a] + Adding(f)[S \ {a}] /\ Adding(f)[S \ {a}] \in Nat
  BY <1>0a DEF Additive
<1>3. Adding(f)[S \ {a}] <= Cardinality(S \ {a}) * c
  BY AddingBounded
<1>4. Cardinality(S \ {a}) * c \in Nat
  <2>1. Cardinality(S \ {a}) \in Nat
    BY FS_RemoveElement, FS_CardinalityType
  <2> QED
    BY <2>1
<1> QED
  BY <1>1, <1>2, <1>3, <1>4

LEMMA SumMonotone ==
    ASSUME NEW S, IsFiniteSet(S), NEW f \in [S -> Nat], NEW g \in [S -> Nat],
           \A x \in S : f[x] <= g[x]
    PROVE  SumFunction(f) <= SumFunction(g)
<1>1. SumFunction(f) = Adding(f)[S] /\ SumFunction(g) = Adding(g)[S]
  BY SumIsAdding
<1> QED
  BY <1>1, AddingMonotone

LEMMA SumOfZeros ==
    ASSUME NEW S, IsFiniteSet(S), NEW f \in [S -> Nat], \A x \in S : f[x] = 0
    PROVE  SumFunction(f) = 0
<1>0a. Additive(f, S)
  BY AddingSplit
<1>1. SumFunction(f) = Adding(f)[S] /\ Adding(f)[S] \in Nat
  BY SumIsAdding, <1>0a DEF Additive
<1>2. Adding(f)[S] <= Cardinality(S) * 0
  BY AddingBounded
<1>3. Cardinality(S) \in Nat
  BY FS_CardinalityType
<1> QED
  BY <1>1, <1>2, <1>3

-----------------------------------------------------------------------------
(* The books. *)

BooksInv ==
    /\ month \in Months
    /\ recorded \in [Months -> Nat] /\ credit \in [Months -> Nat] /\ charged \in [Months -> Nat]
    /\ spent \in [Actors -> Nat] /\ since \in [Actors -> Months] /\ snapshot \in [Actors -> Nat]
    /\ step \in [Actors -> Runs \cup {"idle", "summarised"}]
    /\ voucher \in [read : BOOLEAN, amount : Nat]
    /\ outside \subseteq Months /\ lost \subseteq Months

LEMMA BooksInit == Init => BooksInv
<1> SUFFICES ASSUME Init PROVE BooksInv
  OBVIOUS
<1>1. 0 \in Months
  BY BoundsAssumption DEF Months
<1>2. voucher \in [read : BOOLEAN, amount : Nat]
  BY DEF Init, NoVoucher
<1> QED
  BY <1>1, <1>2 DEF Init, BooksInv, Runs

LEMMA IdleType ==
    ASSUME BooksInv, NEW a \in Actors, Idle(a)
    PROVE  /\ spent' \in [Actors -> Nat] /\ since' \in [Actors -> Months] /\ snapshot' \in [Actors -> Nat]
           /\ step' \in [Actors -> Runs \cup {"idle", "summarised"}]
<1>1. 0 \in Months
  BY BoundsAssumption DEF Months
<1> QED
  BY <1>1 DEF BooksInv, Idle

LEMMA LoseType ==
    ASSUME BooksInv, NEW a \in Actors, Lose(a)
    PROVE  lost' \subseteq Months
  BY DEF BooksInv, Lose

(* A call that cost nothing leaves nobody any the wiser, whether it was        *)
(* answered or not.                                                          *)
LEMMA FreeCall ==
    ASSUME BooksInv, NEW a \in Actors, Unanswered(a, 0)
    PROVE  Call(a, 0)
<1>1. spent = [spent EXCEPT ![a] = spent[a] + 0]
  BY DEF BooksInv
<1>2. spent' = [spent EXCEPT ![a] = spent[a] + 0] /\ lost' = lost
  BY <1>1 DEF Unanswered
<1> QED
  BY <1>2 DEF Unanswered, Call, MayCall, books

(* One that did costs the month of its run alone, and the run does not know.   *)
LEMMA DearCall ==
    ASSUME BooksInv, NEW a \in Actors, NEW cost \in 0..MaxCallCost, Unanswered(a, cost), cost # 0
    PROVE  /\ UNCHANGED <<month, recorded, credit, since, snapshot, spent, voucher>>
           /\ lost' = lost \cup {since[a]} /\ since[a] \in Months
           /\ outside \subseteq outside' /\ outside' \subseteq Months
           /\ charged' \in [Months -> Nat]
           /\ charged[since[a]] <= charged'[since[a]]
           /\ \A m \in Months : m # since[a] => charged'[m] = charged[m]
           /\ step[a] \in Runs /\ step'[a] \in (Runs \cup {"summarised"})
           /\ step'[a] = IF step[a] = "summary" THEN "summarised" ELSE step[a]
           /\ step' \in [Actors -> Runs \cup {"idle", "summarised"}]
           /\ \A b \in Actors : b # a => step'[b] = step[b]
<1>1. cost \in Nat /\ cost > 0 /\ since[a] \in Months /\ charged[since[a]] \in Nat
  BY MoneyAssumption DEF BooksInv
<1>2. charged' = [charged EXCEPT ![since[a]] = charged[since[a]] + cost]
  BY DEF Unanswered
<1>3. /\ charged' \in [Months -> Nat] /\ charged[since[a]] <= charged'[since[a]]
      /\ \A m \in Months : m # since[a] => charged'[m] = charged[m]
  BY <1>1, <1>2 DEF BooksInv
<1>4. /\ UNCHANGED <<month, recorded, credit, since, snapshot, spent, voucher>>
      /\ lost' = lost \cup {since[a]}
      /\ outside \subseteq outside' /\ outside' \subseteq Months
  BY <1>1 DEF Unanswered, books, BooksInv
<1>5. step[a] \in Runs /\ step' = [step EXCEPT ![a] = IF step[a] = "summary" THEN "summarised" ELSE step[a]]
  BY DEF Unanswered, MayCall, NextStep
<1>6. /\ step'[a] = IF step[a] = "summary" THEN "summarised" ELSE step[a]
      /\ step' \in [Actors -> Runs \cup {"idle", "summarised"}]
      /\ \A b \in Actors : b # a => step'[b] = step[b]
  BY <1>5 DEF BooksInv
<1> QED
  BY <1>1, <1>3, <1>4, <1>5, <1>6

LEMMA BooksStep == BooksInv /\ [Next]_vars => BooksInv'
<1> SUFFICES ASSUME BooksInv, [Next]_vars PROVE BooksInv'
  OBVIOUS
<1>1. ASSUME NEW a \in Actors, NEW run \in Runs, Begin(a, run) PROVE BooksInv'
  <2>1. MonthUSD \in Nat
    BY DEF MonthUSD, BooksInv
  <2> QED
    BY <1>1, <2>1 DEF Begin, books, BooksInv
<1>2. ASSUME NEW a \in Actors, NEW cost \in 0..MaxCallCost, Call(a, cost) PROVE BooksInv'
  <2>1. spent' \in [Actors -> Nat] /\ charged' \in [Months -> Nat]
    <3>1. cost \in Nat /\ spent[a] \in Nat /\ since[a] \in Months /\ charged[since[a]] \in Nat
      BY MoneyAssumption DEF BooksInv
    <3>2. spent[a] + cost \in Nat /\ charged[since[a]] + cost \in Nat
      BY <3>1
    <3>3. /\ spent' = [spent EXCEPT ![a] = spent[a] + cost]
          /\ charged' = [charged EXCEPT ![since[a]] = charged[since[a]] + cost]
      BY <1>2 DEF Call
    <3> QED
      BY <3>2, <3>3 DEF BooksInv
  <2>2. step' \in [Actors -> Runs \cup {"idle", "summarised"}] /\ outside' \subseteq Months
    BY <1>2 DEF Call, NextStep, BooksInv
  <2> QED
    BY <1>2, <2>1, <2>2 DEF Call, books, BooksInv
<1>2a. ASSUME NEW a \in Actors, NEW cost \in 0..MaxCallCost, Unanswered(a, cost) PROVE BooksInv'
  <2>1. CASE cost = 0
    BY <1>2, <1>2a, <2>1, FreeCall
  <2>2. CASE cost # 0
    <3>1. lost' \subseteq Months
      BY <1>2a, <2>2, DearCall DEF BooksInv
    <3> QED
      BY <1>2a, <2>2, <3>1, DearCall DEF BooksInv
  <2> QED
    BY <2>1, <2>2
<1>3. ASSUME NEW a \in Actors, Book(a) PROVE BooksInv'
  <2>1. recorded' \in [Months -> Nat] /\ lost' \subseteq Months
    BY <1>3, LoseType DEF Book, BooksInv
  <2> QED
    BY <1>3, <2>1, IdleType DEF Book, BooksInv
<1>4. ASSUME NEW a \in Actors, CutOff(a) PROVE BooksInv'
  BY <1>4 DEF CutOff, books, BooksInv
<1>5. ASSUME NEW a \in Actors, Panic(a) PROVE BooksInv'
  BY <1>5, IdleType, LoseType DEF Panic, books, BooksInv
<1>6. CASE VoucherRead
  BY <1>6 DEF VoucherRead, books, actor, BooksInv
<1>7. CASE VoucherWrite
  BY <1>7 DEF VoucherWrite, NoVoucher, actor, BooksInv
<1>8. CASE NextMonth
  <2>1. month' \in Months
    BY <1>8, BoundsAssumption DEF NextMonth, BooksInv, Months
  <2> QED
    BY <1>8, <2>1 DEF NextMonth, books, actor, BooksInv
<1>9. CASE UNCHANGED vars
  BY <1>9 DEF vars, books, actor, BooksInv
<1> QED
  BY <1>1, <1>2, <1>2a, <1>3, <1>4, <1>5, <1>6, <1>7, <1>8, <1>9 DEF Next

-----------------------------------------------------------------------------
(* The voucher. *)

(* An amount that has been read was booked in this month, or in an earlier one *)
(* that ended since; what is booked stays booked.                            *)
Covered(amount, m) ==
    amount <= recorded[m] \/ (m \in lost /\ \E n \in 0..(m - 1) : amount <= recorded[n])

VoucherInv == VoucherCovered /\ (voucher.read => Covered(voucher.amount, month))

(* Bookings only grow and losses stay. *)
Growing == (\A m \in Months : recorded[m] <= recorded'[m]) /\ lost \subseteq lost'

LEMMA BooksGrow == BooksInv /\ [Next]_vars => Growing
<1> SUFFICES ASSUME BooksInv, [Next]_vars PROVE Growing
  OBVIOUS
<1>0. \A m \in Months : recorded[m] \in Nat
  BY DEF BooksInv
<1>1. ASSUME NEW a \in Actors, Book(a) PROVE Growing
  BY <1>1 DEF Book, Lose, BooksInv, Growing
<1>2. CASE UNCHANGED recorded /\ lost \subseteq lost'
  BY <1>0, <1>2 DEF Growing
<1>3. ASSUME NEW a \in Actors, Panic(a) PROVE Growing
  BY <1>2, <1>3 DEF Panic, Lose, books
<1>4. CASE NextMonth \/ VoucherRead \/ VoucherWrite \/ UNCHANGED vars
  BY <1>2, <1>4 DEF NextMonth, VoucherRead, VoucherWrite, vars, books
<1>5. ASSUME NEW a \in Actors, CutOff(a) \/ (\E run \in Runs : Begin(a, run))
                               \/ (\E cost \in 0..MaxCallCost : Call(a, cost) \/ Unanswered(a, cost))
      PROVE  Growing
  BY <1>2, <1>5 DEF CutOff, Begin, Call, Unanswered, books
<1> QED
  BY <1>1, <1>3, <1>4, <1>5 DEF Next

CoveredNext(amount, m) ==
    amount <= recorded'[m] \/ (m \in lost' /\ \E n \in 0..(m - 1) : amount <= recorded'[n])

LEMMA CoveredStays ==
    ASSUME BooksInv, BooksInv', Growing, NEW amount \in Nat, NEW m \in Months, Covered(amount, m)
    PROVE  CoveredNext(amount, m)
<1>1. m \in Nat /\ \A n \in 0..(m - 1) : n \in Months
  BY BoundsAssumption DEF Months
<1>2. \A n \in Months : recorded[n] \in Nat /\ recorded'[n] \in Nat /\ recorded[n] <= recorded'[n]
  BY DEF BooksInv, Growing
<1> QED
  BY <1>1, <1>2 DEF Covered, CoveredNext, Growing

LEMMA VoucherStep == BooksInv /\ VoucherInv /\ [Next]_vars => VoucherInv'
<1> SUFFICES ASSUME BooksInv, VoucherInv, [Next]_vars PROVE VoucherInv'
  OBVIOUS
<1>0. BooksInv' /\ Growing
  BY BooksStep, BooksGrow
<1>1. \A m \in Months : credit[m] \in Nat /\ Covered(credit[m], m)
  BY DEF BooksInv, VoucherInv, VoucherCovered, Covered
<1>2. \A m \in Months : CoveredNext(credit[m], m)
  BY <1>0, <1>1, CoveredStays
<1>3. voucher.read => voucher.amount \in Nat /\ CoveredNext(voucher.amount, month)
  BY <1>0, CoveredStays DEF VoucherInv, BooksInv
<1>4. SUFFICES /\ \A m \in Months : CoveredNext(credit'[m], m)
               /\ voucher'.read => CoveredNext(voucher'.amount, month')
  BY DEF VoucherInv, VoucherCovered, Covered, CoveredNext
<1>5. CASE VoucherRead
  <2>1. credit' = credit /\ month' = month /\ voucher'.amount = recorded[month] /\ recorded' = recorded
    BY <1>5 DEF VoucherRead, books
  <2>2. CoveredNext(recorded[month], month)
    BY <2>1 DEF CoveredNext, BooksInv
  <2> QED
    BY <1>2, <2>1, <2>2
<1>6. CASE VoucherWrite
  <2>1. ~voucher'.read
    BY <1>6 DEF VoucherWrite, NoVoucher
  <2>2. \A m \in Months : credit'[m] = IF m = month THEN voucher.amount ELSE credit[m]
    BY <1>6 DEF VoucherWrite, BooksInv
  <2>3. CoveredNext(voucher.amount, month)
    BY <1>3, <1>6 DEF VoucherWrite
  <2> QED
    BY <1>2, <2>1, <2>2, <2>3
<1>7. CASE NextMonth
  <2>1. credit' = credit /\ voucher' = voucher /\ recorded' = recorded /\ month' = month + 1
    BY <1>7 DEF NextMonth, books
  <2>2. ASSUME voucher.read PROVE CoveredNext(voucher.amount, month')
    <3>1. month' \in lost' /\ month \in Nat
      BY <1>7, <2>2 DEF NextMonth, BooksInv, Months
    <3>2. \E n \in 0..month : voucher.amount <= recorded[n]
      BY <2>2, <3>1 DEF VoucherInv, Covered
    <3> QED
      BY <2>1, <3>1, <3>2 DEF CoveredNext
  <2> QED
    BY <1>2, <2>1, <2>2
<1>8. CASE UNCHANGED <<credit, voucher, month>>
  BY <1>2, <1>3, <1>8
<1>9. ASSUME NEW a \in Actors,
             \/ \E run \in Runs : Begin(a, run)
             \/ \E cost \in 0..MaxCallCost : Call(a, cost) \/ Unanswered(a, cost)
             \/ Book(a) \/ CutOff(a) \/ Panic(a)
      PROVE  UNCHANGED <<credit, voucher, month>>
  BY <1>9 DEF Begin, Call, Unanswered, Book, CutOff, Panic, books
<1>10. CASE UNCHANGED vars
  BY <1>8, <1>10 DEF vars, books
<1> QED
  BY <1>5, <1>6, <1>7, <1>8, <1>9, <1>10 DEF Next

(* Whatever is booked, lost or cut off between the two halves of a voucher, it  *)
(* never forgives what was never booked.                                     *)
THEOREM VoucherCoveredCorrect == Spec => []VoucherCovered
<1>1. Init => BooksInv /\ VoucherInv
  <2>1. Init => VoucherInv
    BY DEF Init, NoVoucher, VoucherInv, VoucherCovered
  <2> QED
    BY <2>1, BooksInit
<1>2. BooksInv /\ VoucherInv /\ [Next]_vars => BooksInv' /\ VoucherInv'
  BY BooksStep, VoucherStep
<1>3. VoucherInv => VoucherCovered
  BY DEF VoucherInv
<1> QED
  BY <1>1, <1>2, <1>3, PTL DEF Spec

-----------------------------------------------------------------------------
(* The budget of the slot. *)

(* What the job in the slot has not booked of month m. *)
Pending(m) == IF step[Slot] # "idle" /\ since[Slot] = m THEN spent[Slot] ELSE 0

(* In a month without readers and losses the books and the job in the slot     *)
(* together know what was charged, and the job's view of the month is not     *)
(* less than what a voucher has left of it.                                  *)
Held(m) ==
    /\ \A r \in Readers : step[r] # "idle" /\ since[r] = m => spent[r] = 0
    /\ charged[m] = recorded[m] + Pending(m)
    /\ step[Slot] # "idle" /\ since[Slot] = m => recorded[m] <= snapshot[Slot] + credit[m]
    /\ voucher.read /\ m = month => credit[m] <= voucher.amount
    /\ charged[m] - credit[m] < Budget + MaxCallCost \/ charged[m] <= credit[m]

SlotInv ==
    /\ \A a \in Actors : step[a] = "idle" => spent[a] = 0
    /\ \A m \in Months \ (outside \cup lost) : Held(m)

LEMMA SlotIsNoReader == Slot \in Actors /\ \A r \in Readers : r \in Actors /\ r # Slot
  BY ActorsAssumption DEF Actors

LEMMA SlotStep == BooksInv /\ VoucherInv /\ SlotInv /\ [Next]_vars => SlotInv'
<1> SUFFICES ASSUME BooksInv, BooksInv', VoucherInv, SlotInv, [Next]_vars PROVE SlotInv'
  BY BooksStep
<1> USE SlotIsNoReader
<1>0. /\ \A a \in Actors : spent[a] \in Nat /\ snapshot[a] \in Nat /\ since[a] \in Months
      /\ \A m \in Months : charged[m] \in Nat /\ recorded[m] \in Nat /\ credit[m] \in Nat
      /\ month \in Months /\ Budget \in Nat /\ MaxCallCost \in Nat
  BY MoneyAssumption DEF BooksInv
<1>1. ASSUME NEW a \in Actors, NEW run \in Runs, Begin(a, run) PROVE SlotInv'
  <2>1. /\ step[a] = "idle" /\ step' = [step EXCEPT ![a] = run] /\ since' = [since EXCEPT ![a] = month]
        /\ snapshot' = [snapshot EXCEPT ![a] = MonthUSD]
        /\ UNCHANGED <<month, recorded, credit, spent, voucher, charged, outside, lost>>
    BY <1>1 DEF Begin, books
  <2>2. \A b \in Actors : step'[b] = "idle" => spent'[b] = 0
    BY <2>1 DEF SlotInv, BooksInv, Runs
  <2>3. ASSUME NEW m \in Months \ (outside \cup lost) PROVE Held(m)'
    <3>1. \A r \in Readers : step'[r] # "idle" /\ since'[r] = m => spent'[r] = 0
      BY <2>1 DEF SlotInv, Held, BooksInv
    <3>2. charged'[m] = recorded'[m] + Pending(m)'
      BY <1>0, <2>1 DEF SlotInv, Held, BooksInv, Pending
    <3>3. recorded[month] <= MonthUSD + credit[month]
      BY <1>0 DEF MonthUSD
    <3>4. step'[Slot] # "idle" /\ since'[Slot] = m => recorded'[m] <= snapshot'[Slot] + credit'[m]
      BY <2>1, <3>3 DEF SlotInv, Held, BooksInv
    <3> QED
      BY <2>1, <3>1, <3>2, <3>4 DEF SlotInv, Held
  <2> QED
    BY <2>1, <2>2, <2>3 DEF SlotInv
<1>2. ASSUME NEW a \in Actors, NEW cost \in 0..MaxCallCost, Call(a, cost) PROVE SlotInv'
  <2>1. /\ step[a] \in Runs /\ snapshot[a] + spent[a] < Budget /\ cost \in Nat /\ cost <= MaxCallCost
        /\ spent' = [spent EXCEPT ![a] = spent[a] + cost]
        /\ charged' = [charged EXCEPT ![since[a]] = charged[since[a]] + cost]
        /\ step' = [step EXCEPT ![a] = IF step[a] = "summary" THEN "summarised" ELSE step[a]]
        /\ outside' = IF a \in Readers /\ cost > 0 THEN outside \cup {since[a]} ELSE outside
        /\ UNCHANGED <<month, recorded, credit, since, snapshot, voucher, lost>>
    <3>1. step[a] \in Runs /\ snapshot[a] + spent[a] < Budget
      BY <1>2 DEF Call, MayCall
    <3>2. cost \in Nat /\ cost <= MaxCallCost
      BY <1>0
    <3>3. spent' = [spent EXCEPT ![a] = spent[a] + cost]
      BY <1>2 DEF Call
    <3>4. charged' = [charged EXCEPT ![since[a]] = charged[since[a]] + cost]
      BY <1>2 DEF Call
    <3>5. step' = [step EXCEPT ![a] = IF step[a] = "summary" THEN "summarised" ELSE step[a]]
      BY <1>2 DEF Call, NextStep
    <3>6. outside' = IF a \in Readers /\ cost > 0 THEN outside \cup {since[a]} ELSE outside
      BY <1>2 DEF Call
    <3>7. UNCHANGED <<month, recorded, credit, since, snapshot, voucher, lost>>
      BY <1>2 DEF Call, books
    <3> QED
      BY <3>1, <3>2, <3>3, <3>4, <3>5, <3>6, <3>7
  <2>2. /\ step[a] # "idle" /\ step'[a] # "idle" /\ step' \in [Actors -> Runs \cup {"idle", "summarised"}]
        /\ \A b \in Actors : b # a => step'[b] = step[b] /\ spent'[b] = spent[b]
        /\ spent'[a] = spent[a] + cost
    BY <2>1 DEF BooksInv, Runs
  <2>3. \A b \in Actors : step'[b] = "idle" => spent'[b] = 0
    BY <2>2 DEF SlotInv
  <2>4. ASSUME NEW m \in Months, m \notin outside' \cup lost' PROVE Held(m)'
    <3>0. Held(m)
      BY <2>1, <2>4 DEF SlotInv
    <3>1. CASE a = Slot /\ since[Slot] = m
      <4>1. charged'[m] = charged[m] + cost
        BY <2>1, <3>1 DEF BooksInv
      <4>2. charged'[m] = recorded'[m] + Pending(m)'
        BY <1>0, <2>1, <2>2, <3>0, <3>1, <4>1 DEF Held, Pending
      <4>3. charged'[m] - credit[m] < Budget + MaxCallCost
        BY <1>0, <2>1, <2>2, <3>0, <3>1, <4>1 DEF Held, Pending
      <4> QED
        BY <2>1, <2>2, <3>0, <3>1, <4>2, <4>3 DEF Held
    <3>2. CASE a = Slot /\ since[Slot] # m
      <4>1. charged'[m] = charged[m]
        BY <2>1, <3>2 DEF BooksInv
      <4> QED
        BY <2>1, <2>2, <3>0, <3>2, <4>1 DEF Held, Pending
    <3>3. CASE a \in Readers
      <4>1. cost = 0 \/ since[a] # m
        BY <2>1, <2>4, <3>3
      <4>2. charged'[m] = charged[m]
        BY <1>0, <2>1, <4>1 DEF BooksInv
      <4>3. since[a] = m => spent'[a] = spent[a]
        BY <1>0, <2>2, <4>1
      <4>4. \A r \in Readers : step'[r] # "idle" /\ since'[r] = m => spent'[r] = 0
        BY <2>1, <2>2, <3>0, <4>3 DEF Held
      <4>5. Pending(m)' = Pending(m) /\ (step'[Slot] = step[Slot])
        BY <2>1, <2>2, <3>3 DEF Pending
      <4> QED
        BY <2>1, <3>0, <4>2, <4>4, <4>5 DEF Held
    <3> QED
      BY <3>1, <3>2, <3>3 DEF Actors
  <2> QED
    BY <2>3, <2>4 DEF SlotInv
<1>2a. ASSUME NEW a \in Actors, NEW cost \in 0..MaxCallCost, Unanswered(a, cost) PROVE SlotInv'
  <2>1. CASE cost = 0
    BY <1>2, <1>2a, <2>1, FreeCall
  <2>2. CASE cost # 0
    <3>1. \A b \in Actors : step'[b] = "idle" => spent'[b] = 0
      BY <1>2a, <2>2, DearCall DEF SlotInv, Runs
    <3>2. ASSUME NEW m \in Months, m \notin outside' \cup lost' PROVE Held(m)'
      <4>1. Held(m) /\ since[a] # m
        BY <1>2a, <2>2, <3>2, DearCall DEF SlotInv
      <4>2. /\ UNCHANGED <<month, recorded, credit, since, snapshot, spent, voucher>>
            /\ charged'[m] = charged[m]
            /\ \A b \in Actors : b # a => step'[b] = step[b]
        BY <1>2a, <2>2, <4>1, DearCall
      <4>3. Pending(m)' = Pending(m)
        BY <4>1, <4>2 DEF Pending
      <4> QED
        BY <4>1, <4>2, <4>3 DEF Held
    <3> QED
      BY <3>1, <3>2 DEF SlotInv
  <2> QED
    BY <2>1, <2>2
<1>3. ASSUME NEW a \in Actors, Idle(a), UNCHANGED <<month, credit, voucher, charged, outside>>,
             \/ recorded' = [recorded EXCEPT ![since[a]] = recorded[since[a]] + spent[a]] /\ lost' = lost
             \/ recorded' = recorded /\ lost' = IF spent[a] > 0 THEN lost \cup {since[a]} ELSE lost
      PROVE  SlotInv'
  <2>1. /\ step'[a] = "idle" /\ spent'[a] = 0
        /\ \A b \in Actors : b # a => /\ step'[b] = step[b] /\ spent'[b] = spent[b]
                                    /\ since'[b] = since[b] /\ snapshot'[b] = snapshot[b]
    BY <1>3 DEF Idle, BooksInv
  <2>2. \A b \in Actors : step'[b] = "idle" => spent'[b] = 0
    BY <2>1 DEF SlotInv
  <2>3. ASSUME NEW m \in Months, m \notin outside' \cup lost' PROVE Held(m)'
    <3>0. Held(m) /\ (step[a] = "idle" => spent[a] = 0)
      BY <1>3, <2>3 DEF SlotInv
    <3>1. recorded'[m] = IF since[a] = m THEN recorded[m] + spent[a] ELSE recorded[m]
      BY <1>0, <1>3, <2>3 DEF BooksInv
    <3>2. CASE a = Slot
      <4>1. Pending(m)' = 0 /\ recorded'[m] = recorded[m] + Pending(m)
        BY <1>0, <2>1, <3>0, <3>1, <3>2 DEF Pending
      <4> QED
        BY <1>0, <1>3, <2>1, <3>0, <3>2, <4>1 DEF Held
    <3>3. CASE a \in Readers
      <4>1. recorded'[m] = recorded[m]
        BY <1>0, <3>0, <3>1, <3>3 DEF Held
      <4>2. Pending(m)' = Pending(m) /\ step'[Slot] = step[Slot] /\ since'[Slot] = since[Slot] /\ snapshot'[Slot] = snapshot[Slot]
        BY <2>1, <3>3 DEF Pending
      <4>3. \A r \in Readers : step'[r] # "idle" /\ since'[r] = m => spent'[r] = 0
        BY <2>1, <3>0 DEF Held
      <4> QED
        BY <1>3, <3>0, <4>1, <4>2, <4>3 DEF Held
    <3> QED
      BY <3>2, <3>3 DEF Actors
  <2> QED
    BY <2>2, <2>3 DEF SlotInv
<1>4. ASSUME NEW a \in Actors, Book(a) PROVE SlotInv'
  BY <1>3, <1>4 DEF Book, Lose
<1>5. ASSUME NEW a \in Actors, Panic(a) PROVE SlotInv'
  BY <1>3, <1>5 DEF Panic, Lose, books
<1>6. CASE UNCHANGED <<month, recorded, credit, step, since, snapshot, spent, voucher, charged, outside, lost>>
  BY <1>6 DEF SlotInv, Held, Pending
<1>7. ASSUME NEW a \in Actors, CutOff(a) PROVE SlotInv'
  BY <1>6, <1>7 DEF CutOff, books
<1>8. CASE VoucherRead
  <2>1. /\ voucher'.amount = recorded[month]
        /\ UNCHANGED <<month, recorded, credit, step, since, snapshot, spent, charged, outside, lost>>
    BY <1>8 DEF VoucherRead, books, actor
  <2>2. month \notin lost => credit[month] <= recorded[month]
    BY <1>0 DEF VoucherInv, VoucherCovered
  <2>3. ASSUME NEW m \in Months, m \notin outside \cup lost PROVE Held(m)'
    <3>1. Held(m)
      BY <2>3 DEF SlotInv
    <3>2. m = month => credit'[m] <= voucher'.amount
      BY <2>1, <2>2, <2>3
    <3>3. Pending(m)' = Pending(m)
      BY <2>1 DEF Pending
    <3> QED
      BY <2>1, <3>1, <3>2, <3>3 DEF Held
  <2> QED
    BY <2>1, <2>3 DEF SlotInv
<1>9. CASE VoucherWrite
  <2>1. /\ voucher.read /\ ~voucher'.read /\ voucher.amount \in Nat
        /\ \A m \in Months : credit'[m] = IF m = month THEN voucher.amount ELSE credit[m]
        /\ UNCHANGED <<month, recorded, step, since, snapshot, spent, charged, outside, lost>>
    BY <1>9 DEF VoucherWrite, NoVoucher, actor, BooksInv
  <2>2. ASSUME NEW m \in Months, m \notin outside \cup lost PROVE Held(m)'
    <3>1. Held(m)
      BY <2>2 DEF SlotInv
    <3>2. credit[m] <= credit'[m] /\ credit'[m] \in Nat
      BY <1>0, <2>1, <3>1 DEF Held
    <3>3. Pending(m)' = Pending(m)
      BY <2>1 DEF Pending
    <3>4. step'[Slot] # "idle" /\ since'[Slot] = m => recorded'[m] <= snapshot'[Slot] + credit'[m]
      BY <1>0, <2>1, <3>1, <3>2 DEF Held
    <3>5. charged'[m] - credit'[m] < Budget + MaxCallCost \/ charged'[m] <= credit'[m]
      BY <1>0, <2>1, <3>1, <3>2 DEF Held
    <3> QED
      BY <2>1, <3>1, <3>3, <3>4, <3>5 DEF Held
  <2> QED
    BY <2>1, <2>2 DEF SlotInv
<1>10. CASE NextMonth
  <2>1. /\ month' = month + 1 /\ lost \subseteq lost' /\ (voucher.read => month' \in lost')
        /\ UNCHANGED <<recorded, credit, step, since, snapshot, spent, voucher, charged, outside>>
    BY <1>10 DEF NextMonth, books, actor
  <2>2. ASSUME NEW m \in Months, m \notin outside' \cup lost' PROVE Held(m)'
    <3>1. Held(m)
      BY <2>1, <2>2 DEF SlotInv
    <3>2. ~(voucher'.read /\ m = month')
      BY <2>1, <2>2
    <3>3. Pending(m)' = Pending(m)
      BY <2>1 DEF Pending
    <3> QED
      BY <2>1, <3>1, <3>2, <3>3 DEF Held
  <2> QED
    BY <2>1, <2>2 DEF SlotInv
<1>11. CASE UNCHANGED vars
  BY <1>6, <1>11 DEF vars, books, actor
<1> QED
  BY <1>1, <1>2, <1>2a, <1>4, <1>5, <1>7, <1>8, <1>9, <1>10, <1>11 DEF Next

(* While readers stay away and nothing is lost, the slot's jobs cost a month   *)
(* less than the budget and one call beyond what a voucher forgave, for every *)
(* budget and price: the first half of SpendingBounded.                      *)
THEOREM HardForTheSlotCorrect == Spec => []HardForTheSlot
<1>1. Init => BooksInv /\ VoucherInv /\ SlotInv
  <2>1. Init => VoucherInv
    BY DEF Init, NoVoucher, VoucherInv, VoucherCovered
  <2>2. Init => SlotInv
    <3> SUFFICES ASSUME Init PROVE SlotInv
      OBVIOUS
    <3>1. \A m \in Months : charged[m] = 0 /\ credit[m] = 0 /\ recorded[m] = 0
      BY DEF Init
    <3>2. /\ \A a \in Actors : step[a] = "idle" /\ spent[a] = 0
          /\ ~voucher.read
      BY DEF Init, NoVoucher
    <3> QED
      BY <3>1, <3>2, SlotIsNoReader DEF SlotInv, Held, Pending
  <2> QED
    BY <2>1, <2>2, BooksInit
<1>2. BooksInv /\ VoucherInv /\ SlotInv /\ [Next]_vars => BooksInv' /\ VoucherInv' /\ SlotInv'
  BY BooksStep, VoucherStep, SlotStep
<1>3. BooksInv /\ SlotInv => HardForTheSlot
  <2> SUFFICES ASSUME BooksInv, SlotInv, NEW m \in Months \ (outside \cup lost)
               PROVE  WithinBudget(m, Budget + MaxCallCost)
    BY DEF HardForTheSlot
  <2>1. charged[m] \in Nat /\ credit[m] \in Nat /\ Held(m)
    BY DEF BooksInv, SlotInv
  <2> QED
    BY <2>1, MoneyAssumption DEF Held, WithinBudget, Net
<1> QED
  BY <1>1, <1>2, <1>3, PTL DEF Spec

-----------------------------------------------------------------------------
(* The books balance. *)

Open(m) == [a \in Actors |-> Unbooked(m, a)]

BalanceInv == BooksBalance /\ \A a \in Actors : step[a] = "idle" => spent[a] = 0

LEMMA ActorsFinite == IsFiniteSet(Actors)
  BY ActorsAssumption, FS_Singleton, FS_Union DEF Actors

(* When one actor moves, the sum of what is open moves by what it does.        *)
LEMMA OpenMoves ==
    ASSUME BooksInv, BooksInv', NEW m \in Months, NEW a \in Actors,
           \A b \in Actors \ {a} : Unbooked(m, b)' = Unbooked(m, b)
    PROVE  /\ SumFunction(Open(m))' = SumFunction(Open(m)) - Unbooked(m, a) + Unbooked(m, a)'
           /\ SumFunction(Open(m)) \in Nat /\ Unbooked(m, a) \in Nat /\ Unbooked(m, a)' \in Nat
           /\ Unbooked(m, a) <= SumFunction(Open(m))
<1> DEFINE f == Open(m)
           g == Open(m)'
<1>1. f \in [Actors -> Nat] /\ \A b \in Actors : f[b] = Unbooked(m, b)
  BY DEF Open, Unbooked, BooksInv
<1>2. g \in [Actors -> Nat] /\ \A b \in Actors : g[b] = Unbooked(m, b)'
  BY DEF Open, Unbooked, BooksInv
<1>3. SumFunction(Open(m)) = SumFunction(f) /\ SumFunction(Open(m))' = SumFunction(g)
  OBVIOUS
<1> HIDE DEF f, g
<1>4. \A x \in Actors \ {a} : f[x] = g[x]
  BY <1>1, <1>2
<1>5. SumFunction(g) = SumFunction(f) - f[a] + g[a]
  BY <1>1, <1>2, <1>4, ActorsFinite, SumChanges
<1>6. SumFunction(f) \in Nat /\ \A x \in Actors : f[x] <= SumFunction(f)
  BY <1>1, ActorsFinite, SumType
<1> QED
  BY <1>1, <1>2, <1>3, <1>5, <1>6

LEMMA OpenStays ==
    ASSUME NEW m \in Months, \A b \in Actors : Unbooked(m, b)' = Unbooked(m, b)
    PROVE  SumFunction(Open(m))' = SumFunction(Open(m))
<1>1. Open(m)' = Open(m)
  BY DEF Open
<1> QED
  BY <1>1

LEMMA BalanceStep == BooksInv /\ BalanceInv /\ [Next]_vars => BalanceInv'
<1> SUFFICES ASSUME BooksInv, BooksInv', BalanceInv, [Next]_vars PROVE BalanceInv'
  BY BooksStep
<1>0. /\ \A a \in Actors : spent[a] \in Nat /\ since[a] \in Months /\ (step[a] = "idle" => spent[a] = 0)
      /\ \A m \in Months : charged[m] \in Nat /\ recorded[m] \in Nat
  BY DEF BooksInv, BalanceInv
<1>1. \A m \in Months : /\ recorded[m] + SumFunction(Open(m)) <= charged[m]
                        /\ m \notin lost => recorded[m] + SumFunction(Open(m)) = charged[m]
  BY DEF BalanceInv, BooksBalance, Open
<1> DEFINE Goal == /\ \A a \in Actors : step'[a] = "idle" => spent'[a] = 0
                   /\ \A m \in Months : /\ recorded'[m] + SumFunction(Open(m))' <= charged'[m]
                                        /\ m \notin lost' => recorded'[m] + SumFunction(Open(m))' = charged'[m]
<1>2. SUFFICES Goal
  BY DEF BalanceInv, BooksBalance, Open
<1>3. ASSUME UNCHANGED <<recorded, charged>>, lost \subseteq lost',
             \A b \in Actors : step'[b] = "idle" => spent'[b] = 0,
             \A m \in Months : \A b \in Actors : Unbooked(m, b)' = Unbooked(m, b)
      PROVE  Goal
  <2>1. \A m \in Months : SumFunction(Open(m))' = SumFunction(Open(m))
    BY <1>3, OpenStays
  <2> QED
    BY <1>1, <1>3, <2>1
<1>4. ASSUME NEW a \in Actors, NEW run \in Runs, Begin(a, run) PROVE Goal
  <2>1. /\ step[a] = "idle" /\ spent[a] = 0 /\ step' = [step EXCEPT ![a] = run]
        /\ since' = [since EXCEPT ![a] = month] /\ UNCHANGED <<recorded, charged, spent, lost>>
    BY <1>0, <1>4 DEF Begin, books
  <2>2. \A b \in Actors : step'[b] = "idle" => spent'[b] = 0
    BY <1>0, <2>1 DEF BooksInv, Runs
  <2>3. \A m \in Months : \A b \in Actors : Unbooked(m, b)' = Unbooked(m, b)
    BY <2>1 DEF Unbooked, BooksInv
  <2> QED
    BY <1>3, <2>1, <2>2, <2>3
<1>5. ASSUME NEW a \in Actors, NEW cost \in 0..MaxCallCost, Call(a, cost) PROVE Goal
  <2>1. /\ step[a] # "idle" /\ cost \in Nat /\ UNCHANGED <<recorded, since, lost>>
        /\ spent' = [spent EXCEPT ![a] = spent[a] + cost]
        /\ charged' = [charged EXCEPT ![since[a]] = charged[since[a]] + cost]
        /\ \A b \in Actors : step'[b] = "idle" <=> step[b] = "idle"
    BY <1>5, MoneyAssumption DEF Call, NextStep, MayCall, Runs, books, BooksInv
  <2>2. \A b \in Actors : step'[b] = "idle" => spent'[b] = 0
    BY <1>0, <2>1
  <2>3. ASSUME NEW m \in Months
        PROVE  /\ recorded'[m] + SumFunction(Open(m))' <= charged'[m]
               /\ m \notin lost' => recorded'[m] + SumFunction(Open(m))' = charged'[m]
    <3>1. \A b \in Actors \ {a} : Unbooked(m, b)' = Unbooked(m, b)
      BY <2>1 DEF Unbooked, BooksInv
    <3>2. SumFunction(Open(m))' = SumFunction(Open(m)) - Unbooked(m, a) + Unbooked(m, a)'
          /\ SumFunction(Open(m)) \in Nat /\ Unbooked(m, a) \in Nat
      BY <3>1, OpenMoves
    <3>3. /\ Unbooked(m, a)' = Unbooked(m, a) + (IF since[a] = m THEN cost ELSE 0)
          /\ charged'[m] = charged[m] + (IF since[a] = m THEN cost ELSE 0)
      BY <1>0, <2>1 DEF Unbooked, BooksInv
    <3> QED
      BY <1>0, <1>1, <2>1, <3>2, <3>3
  <2> QED
    BY <2>2, <2>3
<1>5a. ASSUME NEW a \in Actors, NEW cost \in 0..MaxCallCost, Unanswered(a, cost) PROVE Goal
  <2>1. CASE cost = 0
    BY <1>5, <1>5a, <2>1, FreeCall
  <2>2. CASE cost # 0
    <3>1. /\ UNCHANGED <<recorded, since, spent>> /\ lost' = lost \cup {since[a]}
          /\ \A m \in Months : /\ charged'[m] \in Nat /\ charged[m] <= charged'[m]
                               /\ m # since[a] => charged'[m] = charged[m]
          /\ \A b \in Actors : step'[b] = "idle" <=> step[b] = "idle"
      BY <1>0, <1>5a, <2>2, DearCall DEF Runs
    <3>2. \A b \in Actors : step'[b] = "idle" => spent'[b] = 0
      BY <1>0, <3>1
    <3>3. ASSUME NEW m \in Months
          PROVE  /\ recorded'[m] + SumFunction(Open(m))' <= charged'[m]
                 /\ m \notin lost' => recorded'[m] + SumFunction(Open(m))' = charged'[m]
      <4>1. \A b \in Actors : Unbooked(m, b)' = Unbooked(m, b)
        BY <3>1 DEF Unbooked
      <4>2. /\ SumFunction(Open(m))' = SumFunction(Open(m)) - Unbooked(m, a) + Unbooked(m, a)'
            /\ SumFunction(Open(m)) \in Nat /\ Unbooked(m, a) \in Nat
        BY <4>1, OpenMoves
      <4>3. SumFunction(Open(m))' = SumFunction(Open(m))
        BY <4>1, <4>2
      <4> QED
        BY <1>0, <1>1, <3>1, <4>2, <4>3
    <3> QED
      BY <3>2, <3>3
  <2> QED
    BY <2>1, <2>2
<1>6. ASSUME NEW a \in Actors, Idle(a), UNCHANGED charged,
             \/ recorded' = [recorded EXCEPT ![since[a]] = recorded[since[a]] + spent[a]] /\ lost' = lost
             \/ recorded' = recorded /\ lost' = IF spent[a] > 0 THEN lost \cup {since[a]} ELSE lost
      PROVE  Goal
  <2>1. /\ step'[a] = "idle" /\ spent'[a] = 0
        /\ \A b \in Actors : b # a => step'[b] = step[b] /\ spent'[b] = spent[b] /\ since'[b] = since[b]
    BY <1>6 DEF Idle, BooksInv
  <2>2. \A b \in Actors : step'[b] = "idle" => spent'[b] = 0
    BY <1>0, <2>1
  <2>3. ASSUME NEW m \in Months
        PROVE  /\ recorded'[m] + SumFunction(Open(m))' <= charged'[m]
               /\ m \notin lost' => recorded'[m] + SumFunction(Open(m))' = charged'[m]
    <3>1. \A b \in Actors \ {a} : Unbooked(m, b)' = Unbooked(m, b)
      BY <2>1 DEF Unbooked
    <3>2. /\ SumFunction(Open(m))' = SumFunction(Open(m)) - Unbooked(m, a) + Unbooked(m, a)'
          /\ SumFunction(Open(m)) \in Nat /\ Unbooked(m, a) \in Nat /\ Unbooked(m, a) <= SumFunction(Open(m))
      BY <3>1, OpenMoves
    <3>3. Unbooked(m, a)' = 0 /\ Unbooked(m, a) = IF since[a] = m THEN spent[a] ELSE 0
      BY <1>0, <2>1 DEF Unbooked
    <3>4. CASE recorded' = [recorded EXCEPT ![since[a]] = recorded[since[a]] + spent[a]] /\ lost' = lost
      <4>1. recorded'[m] = recorded[m] + Unbooked(m, a)
        BY <1>0, <3>3, <3>4 DEF BooksInv
      <4> QED
        BY <1>0, <1>1, <1>6, <3>2, <3>3, <3>4, <4>1
    <3>5. CASE recorded' = recorded /\ lost' = IF spent[a] > 0 THEN lost \cup {since[a]} ELSE lost
      <4>1. m \notin lost' => Unbooked(m, a) = 0 /\ m \notin lost
        BY <1>0, <3>3, <3>5
      <4> QED
        BY <1>0, <1>1, <1>6, <3>2, <3>3, <3>5, <4>1
    <3> QED
      BY <1>6, <3>4, <3>5
  <2> QED
    BY <2>2, <2>3
<1>7. ASSUME NEW a \in Actors, Book(a) \/ Panic(a) PROVE Goal
  <2>1. /\ Idle(a) /\ UNCHANGED charged
        /\ \/ recorded' = [recorded EXCEPT ![since[a]] = recorded[since[a]] + spent[a]] /\ lost' = lost
           \/ recorded' = recorded /\ lost' = IF spent[a] > 0 THEN lost \cup {since[a]} ELSE lost
    BY <1>7 DEF Book, Panic, Lose, books
  <2> QED
    BY <1>6, <2>1
<1>8. CASE UNCHANGED <<recorded, charged, step, since, spent>> /\ lost \subseteq lost'
  BY <1>0, <1>3, <1>8 DEF Unbooked
<1>9. ASSUME NEW a \in Actors, CutOff(a) PROVE Goal
  BY <1>8, <1>9 DEF CutOff, books
<1>10. CASE VoucherRead \/ VoucherWrite \/ NextMonth \/ UNCHANGED vars
  BY <1>8, <1>10 DEF VoucherRead, VoucherWrite, NextMonth, vars, books, actor
<1> HIDE DEF Goal
<1>11. Goal
  BY <1>4, <1>5, <1>5a, <1>7, <1>9, <1>10 DEF Next
<1> QED
  BY <1>11 DEF Goal

LEMMA BalanceInit == Init => BooksInv /\ BalanceInv
<1> SUFFICES ASSUME Init PROVE BooksInv /\ BalanceInv
  OBVIOUS
<1>1. \A a \in Actors : step[a] = "idle" /\ spent[a] = 0
  BY DEF Init
<1>2. ASSUME NEW m \in Months PROVE recorded[m] + SumFunction(Open(m)) = 0 /\ charged[m] = 0
  <2> DEFINE f == Open(m)
  <2>1. f \in [Actors -> Nat] /\ \A x \in Actors : f[x] = 0
    BY <1>1 DEF Open, Unbooked
  <2> HIDE DEF f
  <2>2. SumFunction(f) = 0
    BY <2>1, ActorsFinite, SumOfZeros
  <2> QED
    BY <2>2 DEF f, Init
<1>3. BooksBalance
  BY <1>2 DEF BooksBalance, Open
<1> QED
  BY <1>1, <1>3, BooksInit DEF BalanceInv

(* Whatever is cut off or dies, what is booked and what is still to be booked  *)
(* never exceed what was charged to a month, and they are all of it unless a  *)
(* booking or the cost of a call was lost, for any number of readers.        *)
THEOREM BooksBalanceCorrect == Spec => []BooksBalance
<1>1. Init => BooksInv /\ BalanceInv
  BY BalanceInit
<1>2. BooksInv /\ BalanceInv /\ [Next]_vars => BooksInv' /\ BalanceInv'
  BY BooksStep, BalanceStep
<1> QED
  BY <1>1, <1>2, PTL DEF Spec, BalanceInv

-----------------------------------------------------------------------------
(* The budget with readers. *)

(* A reader that has seen room in month m and has not called yet. *)
MayStart(m, r) == step[r] = "summary" /\ since[r] = m /\ snapshot[r] < Budget

(* What actor a owes month m: what it has not booked, and the whole of a call  *)
(* for a reader that may still start one.                                    *)
Due(m, a) == IF a \in Readers /\ MayStart(m, a) THEN MaxCallCost ELSE Unbooked(m, a)
Owed(m) == [a \in Actors |-> Due(m, a)]

(* What month m costs beyond its voucher once all that is owed is booked. *)
Over(m) == recorded[m] - credit[m] + SumFunction(Owed(m))

ReadersShare == Cardinality(Readers) * MaxCallCost

(* In a month without losses a reader only begins while the books show room,   *)
(* and what the slot then has not booked was called for under a view with     *)
(* room; the rest of the cost was below the budget when the slot took its view. *)
Twice(m) ==
    /\ Over(m) <= 0 \/ Over(m) <= 2 * Budget - 2 + ReadersShare + MaxCallCost
    /\ step[Slot] # "idle" /\ since[Slot] = m /\ snapshot[Slot] < Budget =>
          Over(m) - Unbooked(m, Slot) <= Budget - 1 + ReadersShare
    /\ voucher.read /\ m = month => credit[m] <= voucher.amount

ReadersInv ==
    /\ \A a \in Actors : step[a] = "idle" => spent[a] = 0
    /\ \A r \in Readers : /\ step[r] \in {"idle", "summary", "summarised"}
                          /\ step[r] = "summary" => spent[r] = 0
                          /\ spent[r] <= MaxCallCost
    /\ spent[Slot] = 0 \/ (snapshot[Slot] < Budget /\ spent[Slot] <= Budget - 1 + MaxCallCost)

TwiceInv == \A m \in Months \ lost : Twice(m)

LEMMA ReadersStep == BooksInv /\ ReadersInv /\ [Next]_vars => ReadersInv'
<1> SUFFICES ASSUME BooksInv, ReadersInv, [Next]_vars PROVE ReadersInv'
  OBVIOUS
<1> USE SlotIsNoReader
<1>0. /\ \A a \in Actors : spent[a] \in Nat /\ snapshot[a] \in Nat
      /\ Budget \in Nat /\ MaxCallCost \in Nat
  BY MoneyAssumption DEF BooksInv
<1>1. ASSUME NEW a \in Actors, NEW run \in Runs, Begin(a, run) PROVE ReadersInv'
  <2>1. /\ step[a] = "idle" /\ spent[a] = 0 /\ (a \in Readers => run = "summary") /\ run # "idle"
        /\ step' = [step EXCEPT ![a] = run] /\ snapshot' = [snapshot EXCEPT ![a] = MonthUSD] /\ spent' = spent
    BY <1>1 DEF Begin, ReadersInv, Runs
  <2>2. \A b \in Actors : b # a => step'[b] = step[b] /\ snapshot'[b] = snapshot[b]
    BY <2>1 DEF BooksInv
  <2>3. step'[a] = run
    BY <2>1 DEF BooksInv
  <2> QED
    BY <1>0, <2>1, <2>2, <2>3 DEF ReadersInv
<1>2. ASSUME NEW a \in Actors, NEW cost \in 0..MaxCallCost, Call(a, cost) PROVE ReadersInv'
  <2>1. /\ step[a] \in Runs /\ snapshot[a] + spent[a] < Budget /\ cost \in Nat /\ cost <= MaxCallCost
        /\ spent'[a] = spent[a] + cost /\ snapshot' = snapshot
        /\ step'[a] = IF step[a] = "summary" THEN "summarised" ELSE step[a]
        /\ \A b \in Actors : b # a => step'[b] = step[b] /\ spent'[b] = spent[b]
    BY <1>0, <1>2 DEF Call, NextStep, MayCall, BooksInv
  <2>2. \A b \in Actors : step'[b] = "idle" => spent'[b] = 0
    BY <2>1 DEF ReadersInv, Runs
  <2>3. CASE a = Slot
    <3>1. snapshot'[Slot] < Budget /\ spent'[Slot] <= Budget - 1 + MaxCallCost
      BY <1>0, <2>1, <2>3
    <3> QED
      BY <2>1, <2>2, <2>3, <3>1 DEF ReadersInv
  <2>4. CASE a \in Readers
    <3>1. step[a] = "summary" /\ spent[a] = 0
      BY <2>1, <2>4 DEF ReadersInv, Runs
    <3>2. step'[a] = "summarised" /\ spent'[a] <= MaxCallCost
      BY <1>0, <2>1, <3>1
    <3>3. spent'[Slot] = spent[Slot]
      BY <2>1, <2>4
    <3> QED
      BY <2>1, <2>2, <2>4, <3>2, <3>3 DEF ReadersInv
  <2> QED
    BY <2>3, <2>4 DEF Actors
<1>2a. ASSUME NEW a \in Actors, NEW cost \in 0..MaxCallCost, Unanswered(a, cost) PROVE ReadersInv'
  <2>1. CASE cost = 0
    BY <1>2, <1>2a, <2>1, FreeCall
  <2>2. CASE cost # 0
    <3>1. /\ spent' = spent /\ snapshot' = snapshot /\ step[a] \in Runs
          /\ step'[a] = IF step[a] = "summary" THEN "summarised" ELSE step[a]
          /\ \A b \in Actors : b # a => step'[b] = step[b]
      BY <1>2a, <2>2, DearCall
    <3>2. \A b \in Actors : step'[b] = "idle" => spent'[b] = 0
      BY <3>1 DEF ReadersInv, Runs
    <3> QED
      BY <3>1, <3>2 DEF ReadersInv, Runs
  <2> QED
    BY <2>1, <2>2
<1>3. ASSUME NEW a \in Actors, Idle(a) PROVE ReadersInv'
  <2>1. /\ step'[a] = "idle" /\ spent'[a] = 0
        /\ \A b \in Actors : b # a => step'[b] = step[b] /\ spent'[b] = spent[b] /\ snapshot'[b] = snapshot[b]
    BY <1>3 DEF Idle, BooksInv
  <2>2. \A b \in Actors : step'[b] = "idle" => spent'[b] = 0
    BY <2>1 DEF ReadersInv
  <2> QED
    BY <1>0, <2>1, <2>2 DEF ReadersInv
<1>4. ASSUME NEW a \in Actors, Book(a) \/ Panic(a) PROVE ReadersInv'
  BY <1>3, <1>4 DEF Book, Panic
<1>5. CASE UNCHANGED <<step, spent, snapshot>>
  BY <1>5 DEF ReadersInv
<1>6. ASSUME NEW a \in Actors, CutOff(a) PROVE ReadersInv'
  BY <1>5, <1>6 DEF CutOff
<1>7. CASE VoucherRead \/ VoucherWrite \/ NextMonth \/ UNCHANGED vars
  BY <1>5, <1>7 DEF VoucherRead, VoucherWrite, NextMonth, vars, actor
<1> QED
  BY <1>1, <1>2, <1>2a, <1>4, <1>6, <1>7 DEF Next

LEMMA DueType ==
    ASSUME BooksInv, ReadersInv, NEW m \in Months
    PROVE  /\ Owed(m) \in [Actors -> Nat] /\ \A a \in Actors : Owed(m)[a] = Due(m, a)
           /\ Due(m, Slot) = Unbooked(m, Slot)
           /\ \A a \in Actors : /\ Due(m, a) \in Nat /\ Unbooked(m, a) \in Nat
                                /\ Unbooked(m, a) <= Due(m, a)
           /\ \A r \in Readers : Due(m, r) <= MaxCallCost
<1>1. \A a \in Actors : spent[a] \in Nat /\ Unbooked(m, a) \in {0, spent[a]}
  BY DEF BooksInv, Unbooked
<1>2. \A a \in Actors : Due(m, a) \in Nat /\ Unbooked(m, a) \in Nat
  BY <1>1, MoneyAssumption DEF Due
<1>3. \A r \in Readers : r \in Actors /\ Unbooked(m, r) <= MaxCallCost
  BY <1>1, MoneyAssumption, SlotIsNoReader DEF ReadersInv
<1>4. \A a \in Actors : Unbooked(m, a) <= Due(m, a)
  BY <1>1, <1>2, <1>3 DEF Due
<1>5. \A r \in Readers : Due(m, r) <= MaxCallCost
  BY <1>3, MoneyAssumption DEF Due
<1>6. Due(m, Slot) = Unbooked(m, Slot)
  BY SlotIsNoReader DEF Due
<1> QED
  BY <1>2, <1>4, <1>5, <1>6 DEF Owed

(* When one actor moves, what is owed in all moves by what it owes.            *)
LEMMA OwedMoves ==
    ASSUME BooksInv, ReadersInv, BooksInv', ReadersInv', NEW m \in Months, NEW a \in Actors,
           \A b \in Actors \ {a} : Due(m, b)' = Due(m, b)
    PROVE  /\ SumFunction(Owed(m))' = SumFunction(Owed(m)) - Due(m, a) + Due(m, a)'
           /\ SumFunction(Owed(m)) \in Nat /\ SumFunction(Owed(m))' \in Nat
<1> DEFINE f == Owed(m)
           g == Owed(m)'
<1>1. f \in [Actors -> Nat] /\ \A b \in Actors : f[b] = Due(m, b)
  BY DueType
<1>2. g \in [Actors -> Nat] /\ \A b \in Actors : g[b] = Due(m, b)'
  <2>1. (\A b \in Actors : Due(m, b) \in Nat)'
    BY MoneyAssumption DEF BooksInv, Due, Unbooked
  <2> QED
    BY <2>1 DEF Owed
<1>3. SumFunction(Owed(m)) = SumFunction(f) /\ SumFunction(Owed(m))' = SumFunction(g)
  OBVIOUS
<1> HIDE DEF f, g
<1>4. \A x \in Actors \ {a} : f[x] = g[x]
  BY <1>1, <1>2
<1>5. SumFunction(g) = SumFunction(f) - f[a] + g[a]
  BY <1>1, <1>2, <1>4, ActorsFinite, SumChanges
<1>6. SumFunction(f) \in Nat /\ SumFunction(g) \in Nat
  BY <1>1, <1>2, ActorsFinite, SumType
<1> QED
  BY <1>1, <1>2, <1>3, <1>5, <1>6

LEMMA ReadersShareType == ReadersShare \in Nat /\ Actors \ {Slot} = Readers
<1>1. Cardinality(Readers) \in Nat
  BY ActorsAssumption, FS_CardinalityType
<1>2. Actors \ {Slot} = Readers
  BY ActorsAssumption DEF Actors
<1> QED
  BY <1>1, <1>2, MoneyAssumption DEF ReadersShare

LEMMA OwedBound ==
    ASSUME NEW f \in [Actors -> Nat], \A r \in Readers : f[r] <= MaxCallCost
    PROVE  SumFunction(f) <= f[Slot] + ReadersShare
<1>1. \A x \in Actors \ {Slot} : f[x] <= MaxCallCost
  BY ReadersShareType
<1>2. SumFunction(f) <= f[Slot] + Cardinality(Actors \ {Slot}) * MaxCallCost
  BY <1>1, ActorsFinite, SlotIsNoReader, MoneyAssumption, SumBounded
<1> QED
  BY <1>2, ReadersShareType DEF ReadersShare

(* After a step the readers owe one call each at most.                        *)
LEMMA OwedNext ==
    ASSUME BooksInv', ReadersInv', NEW m \in Months
    PROVE  SumFunction(Owed(m))' <= Unbooked(m, Slot)' + ReadersShare /\ SumFunction(Owed(m))' \in Nat
<1> USE SlotIsNoReader
<1> DEFINE f == Owed(m)'
<1>1. f \in [Actors -> Nat] /\ \A b \in Actors : f[b] = Due(m, b)'
  <2>1. (\A b \in Actors : Due(m, b) \in Nat)'
    BY MoneyAssumption DEF BooksInv, Due, Unbooked
  <2> QED
    BY <2>1 DEF Owed
<1>2. \A r \in Readers : f[r] <= MaxCallCost
  <2>1. \A r \in Readers : Due(m, r)' <= MaxCallCost
    BY MoneyAssumption DEF BooksInv, ReadersInv, Due, Unbooked
  <2> HIDE DEF f
  <2> QED
    BY <1>1, <2>1
<1>3. f[Slot] = Unbooked(m, Slot)'
  <2>1. Due(m, Slot)' = Unbooked(m, Slot)'
    BY DEF Due
  <2> HIDE DEF f
  <2> QED
    BY <1>1, <2>1
<1>4. SumFunction(f) = SumFunction(Owed(m))'
  OBVIOUS
<1> HIDE DEF f
<1> QED
  BY <1>1, <1>2, <1>3, <1>4, OwedBound, ActorsFinite, SumType

(* A step that leaves the slot's view alone, or ends its run, and makes the    *)
(* month no dearer.                                                         *)
LEMMA TwiceKept ==
    ASSUME BooksInv, BooksInv', NEW m \in Months, Twice(m), Over(m) \in Int, Over(m)' \in Int,
           Over(m)' <= Over(m),
           \/ step'[Slot] = "idle"
           \/ UNCHANGED <<step[Slot], since[Slot], snapshot[Slot], spent[Slot]>>,
           voucher'.read /\ m = month' => credit'[m] <= voucher'.amount
    PROVE  Twice(m)'
<1>1. ReadersShare \in Nat /\ Budget \in Nat /\ MaxCallCost \in Nat /\ spent[Slot] \in Nat
  BY ReadersShareType, MoneyAssumption, SlotIsNoReader DEF BooksInv
<1>2. Over(m)' <= 0 \/ Over(m)' <= 2 * Budget - 2 + ReadersShare + MaxCallCost
  <2>1. Over(m) <= 0 \/ Over(m) <= 2 * Budget - 2 + ReadersShare + MaxCallCost
    BY DEF Twice
  <2> HIDE DEF Over
  <2> QED
    BY <1>1, <2>1
<1>3. ASSUME step'[Slot] # "idle", since'[Slot] = m, snapshot'[Slot] < Budget
      PROVE  Over(m)' - Unbooked(m, Slot)' <= Budget - 1 + ReadersShare
  <2>1. Unbooked(m, Slot)' = Unbooked(m, Slot) /\ Unbooked(m, Slot) \in Nat
    BY <1>1, <1>3 DEF Unbooked
  <2>2. Over(m) - Unbooked(m, Slot) <= Budget - 1 + ReadersShare
    BY <1>3 DEF Twice
  <2> QED
    BY <1>1, <2>1, <2>2
<1> QED
  BY <1>2, <1>3 DEF Twice

LEMMA TwiceStep == BooksInv /\ VoucherInv /\ ReadersInv /\ TwiceInv /\ [Next]_vars => TwiceInv'
<1> SUFFICES ASSUME BooksInv, BooksInv', VoucherInv, ReadersInv, ReadersInv', TwiceInv, [Next]_vars
             PROVE  TwiceInv'
  BY BooksStep, ReadersStep
<1> USE SlotIsNoReader
<1>0. /\ \A a \in Actors : spent[a] \in Nat /\ snapshot[a] \in Nat /\ since[a] \in Months
      /\ \A m \in Months : recorded[m] \in Nat /\ credit[m] \in Nat
      /\ \A m \in Months : recorded'[m] \in Nat /\ credit'[m] \in Nat
      /\ month \in Months /\ Budget \in Nat /\ MaxCallCost \in Nat /\ ReadersShare \in Nat
  BY MoneyAssumption, ReadersShareType DEF BooksInv
<1>0a. \A m \in Months :
          /\ \A a \in Actors : Due(m, a) \in Nat /\ Unbooked(m, a) \in Nat /\ Unbooked(m, a) <= Due(m, a)
          /\ SumFunction(Owed(m))' \in Nat
  BY DueType, OwedNext
<1>1. ASSUME NEW a \in Actors, NEW run \in Runs, Begin(a, run) PROVE TwiceInv'
  <2>1. /\ step[a] = "idle" /\ spent[a] = 0 /\ (a \in Readers => run = "summary") /\ run # "idle"
        /\ UNCHANGED <<month, recorded, credit, spent, voucher, lost>>
    BY <1>1 DEF Begin, books, ReadersInv, Runs
  <2>2. /\ step'[a] = run /\ since'[a] = month /\ snapshot'[a] = MonthUSD
        /\ \A b \in Actors : b # a => /\ step'[b] = step[b] /\ since'[b] = since[b]
                                    /\ snapshot'[b] = snapshot[b]
    BY <1>1 DEF Begin, BooksInv
  <2>3. ASSUME NEW m \in Months, m \notin lost' PROVE Twice(m)'
    <3>1. Twice(m) /\ (voucher'.read /\ m = month' => credit'[m] <= voucher'.amount)
      BY <2>1, <2>3 DEF TwiceInv, Twice
    <3>2. \A b \in Actors \ {a} : Due(m, b)' = Due(m, b)
      BY <2>1, <2>2 DEF Due, MayStart, Unbooked
    <3>3. /\ SumFunction(Owed(m))' = SumFunction(Owed(m)) - Due(m, a) + Due(m, a)'
          /\ SumFunction(Owed(m)) \in Nat /\ SumFunction(Owed(m))' \in Nat
      BY <3>2, OwedMoves
    <3>4. Due(m, a) = 0 /\ Unbooked(m, a) = 0 /\ Unbooked(m, a)' = 0
      BY <2>1, <2>2 DEF Due, MayStart, Unbooked
    <3>5. ASSUME m = month, MonthUSD < Budget PROVE Over(m)' - Unbooked(m, Slot)' <= Budget - 1 + ReadersShare
      <4>1. recorded[m] - credit[m] <= Budget - 1
        BY <1>0, <3>5 DEF MonthUSD
      <4>2. SumFunction(Owed(m))' <= Unbooked(m, Slot)' + ReadersShare
        BY OwedNext
      <4>3. Unbooked(m, Slot)' \in Nat
        BY <1>0, <2>1 DEF Unbooked
      <4> QED
        BY <1>0, <2>1, <3>3, <4>1, <4>2, <4>3 DEF Over
    <3>6. CASE a = Slot
      <4>1. Due(m, a)' = 0
        BY <3>4, <3>6 DEF Due
      <4>2. Over(m)' = Over(m)
        BY <2>1, <3>3, <3>4, <4>1 DEF Over
      <4>3. step'[Slot] # "idle" /\ since'[Slot] = m /\ snapshot'[Slot] < Budget =>
               Over(m)' - Unbooked(m, Slot)' <= Budget - 1 + ReadersShare
        BY <2>2, <3>5, <3>6
      <4> QED
        BY <3>1, <4>2, <4>3 DEF Twice
    <3>7. CASE a \in Readers /\ m = month /\ MonthUSD < Budget
      <4>1. Over(m)' - Unbooked(m, Slot)' <= Budget - 1 + ReadersShare
        BY <3>5, <3>7
      <4>2. Unbooked(m, Slot)' <= Budget - 1 + MaxCallCost
        <5>1. Unbooked(m, Slot)' = 0 \/ Unbooked(m, Slot)' = spent[Slot]
          BY <2>1 DEF Unbooked
        <5>2. MonthUSD \in Nat /\ Budget >= 1
          BY <1>0, <3>7 DEF MonthUSD
        <5> QED
          BY <1>0, <5>1, <5>2 DEF ReadersInv
      <4>3. Unbooked(m, Slot)' \in Nat /\ Over(m)' \in Int
        BY <1>0, <2>1, <3>3 DEF Unbooked, Over
      <4>4. Over(m)' <= 2 * Budget - 2 + ReadersShare + MaxCallCost
        BY <1>0, <4>1, <4>2, <4>3
      <4> QED
        BY <3>1, <4>1, <4>4 DEF Twice
    <3>8. CASE a \in Readers /\ ~(m = month /\ MonthUSD < Budget)
      <4>1. Due(m, a)' = 0
        BY <2>2, <3>4, <3>8 DEF Due, MayStart
      <4>2. Over(m)' = Over(m) /\ Over(m) \in Int
        BY <1>0, <2>1, <3>3, <3>4, <4>1 DEF Over
      <4>3. UNCHANGED <<step[Slot], since[Slot], snapshot[Slot], spent[Slot]>>
        BY <2>1, <2>2, <3>8
      <4> QED
        BY <1>0, <3>1, <4>2, <4>3, TwiceKept
    <3> QED
      BY <3>6, <3>7, <3>8 DEF Actors
  <2> QED
    BY <2>3 DEF TwiceInv
<1>2. ASSUME NEW a \in Actors, NEW cost \in 0..MaxCallCost, Call(a, cost) PROVE TwiceInv'
  <2>1. /\ step[a] \in Runs /\ snapshot[a] + spent[a] < Budget /\ cost \in Nat /\ cost <= MaxCallCost
        /\ spent'[a] = spent[a] + cost
        /\ step'[a] = IF step[a] = "summary" THEN "summarised" ELSE step[a]
        /\ \A b \in Actors : b # a => step'[b] = step[b] /\ spent'[b] = spent[b]
    BY <1>0, <1>2 DEF Call, NextStep, MayCall, BooksInv
  <2>2. UNCHANGED <<month, recorded, credit, since, snapshot, voucher, lost>>
    BY <1>2 DEF Call, books
  <2>3. ASSUME NEW m \in Months, m \notin lost' PROVE Twice(m)'
    <3>1. Twice(m) /\ (voucher'.read /\ m = month' => credit'[m] <= voucher'.amount)
      BY <2>2, <2>3 DEF TwiceInv, Twice
    <3>2. \A b \in Actors \ {a} : Due(m, b)' = Due(m, b)
      BY <2>1, <2>2 DEF Due, MayStart, Unbooked
    <3>3. /\ SumFunction(Owed(m))' = SumFunction(Owed(m)) - Due(m, a) + Due(m, a)'
          /\ SumFunction(Owed(m)) \in Nat /\ SumFunction(Owed(m))' \in Nat
      BY <3>2, OwedMoves
    <3>4. Over(m) \in Int /\ Over(m)' \in Int
      BY <1>0, <3>3 DEF Over
    <3>5. CASE a = Slot /\ since[Slot] = m
      <4>1. Unbooked(m, Slot) = spent[Slot] /\ Unbooked(m, Slot)' = spent[Slot] + cost
        BY <2>1, <2>2, <3>5 DEF Unbooked, Runs
      <4>2. Due(m, Slot) = spent[Slot] /\ Due(m, Slot)' = spent[Slot] + cost
        BY <4>1 DEF Due
      <4>3. Over(m)' = Over(m) + cost
        BY <1>0, <2>1, <2>2, <3>3, <3>5, <4>2 DEF Over
      <4>4. step[Slot] # "idle" /\ snapshot[Slot] < Budget
        BY <1>0, <2>1, <3>5 DEF Runs
      <4>5. Over(m) - spent[Slot] <= Budget - 1 + ReadersShare
        BY <3>1, <3>5, <4>1, <4>4 DEF Twice
      <4>6. Over(m)' - Unbooked(m, Slot)' <= Budget - 1 + ReadersShare
        BY <1>0, <2>1, <3>4, <4>1, <4>3, <4>5
      <4>7. spent[Slot] <= Budget - 1
        BY <1>0, <2>1, <3>5
      <4>8. Over(m)' <= 2 * Budget - 2 + ReadersShare + MaxCallCost
        BY <1>0, <2>1, <3>4, <4>3, <4>5, <4>7
      <4> QED
        BY <3>1, <4>6, <4>8 DEF Twice
    <3>6. CASE a = Slot /\ since[Slot] # m
      <4>1. Due(m, Slot) = 0 /\ Due(m, Slot)' = 0 /\ since'[Slot] # m
        BY <2>2, <3>6 DEF Due, Unbooked
      <4>2. Over(m)' = Over(m)
        BY <2>2, <3>3, <3>6, <4>1 DEF Over
      <4> QED
        BY <3>1, <4>1, <4>2 DEF Twice
    <3>7. CASE a \in Readers
      <4>1. step[a] = "summary" /\ spent[a] = 0 /\ step'[a] = "summarised" /\ snapshot[a] < Budget
        BY <1>0, <2>1, <3>7 DEF ReadersInv, Runs
      <4>2. Due(m, a)' <= Due(m, a) /\ Due(m, a)' \in Nat
        BY <1>0, <2>1, <2>2, <3>7, <4>1 DEF Due, MayStart, Unbooked
      <4>3. Over(m)' <= Over(m)
        BY <1>0, <1>0a, <2>2, <3>3, <4>2 DEF Over
      <4>4. UNCHANGED <<step[Slot], since[Slot], snapshot[Slot], spent[Slot]>>
        BY <2>1, <2>2, <3>7
      <4> QED
        BY <3>1, <3>4, <4>3, <4>4, TwiceKept
    <3> QED
      BY <3>5, <3>6, <3>7 DEF Actors
  <2> QED
    BY <2>3 DEF TwiceInv
<1>2a. ASSUME NEW a \in Actors, NEW cost \in 0..MaxCallCost, Unanswered(a, cost) PROVE TwiceInv'
  <2>1. CASE cost = 0
    BY <1>2, <1>2a, <2>1, FreeCall
  <2>2. CASE cost # 0
    <3>1. /\ UNCHANGED <<month, recorded, credit, since, snapshot, spent, voucher>>
          /\ lost' = lost \cup {since[a]}
          /\ \A b \in Actors : b # a => step'[b] = step[b]
      BY <1>2a, <2>2, DearCall
    <3>2. ASSUME NEW m \in Months, m \notin lost' PROVE Twice(m)'
      <4>1. Twice(m) /\ since[a] # m
        BY <3>1, <3>2 DEF TwiceInv
      <4>2. \A b \in Actors : Due(m, b)' = Due(m, b) /\ Unbooked(m, b)' = Unbooked(m, b)
        BY <3>1, <4>1 DEF Due, MayStart, Unbooked
      <4>3. SumFunction(Owed(m))' = SumFunction(Owed(m)) - Due(m, a) + Due(m, a)'
            /\ SumFunction(Owed(m)) \in Nat
        BY <4>2, OwedMoves
      <4>4. Due(m, a) \in Nat /\ Due(m, a)' = Due(m, a)
        BY <1>0a, <4>2
      <4>5. Over(m)' = Over(m)
        BY <1>0, <3>1, <4>3, <4>4 DEF Over
      <4>6. step'[Slot] # "idle" /\ since'[Slot] = m => step[Slot] # "idle" /\ since[Slot] = m
        BY <3>1, <4>1
      <4> QED
        BY <3>1, <4>1, <4>2, <4>5, <4>6 DEF Twice
    <3> QED
      BY <3>2 DEF TwiceInv
  <2> QED
    BY <2>1, <2>2
<1>3. ASSUME NEW a \in Actors, step[a] # "idle", Idle(a), UNCHANGED <<month, credit, voucher>>,
             \/ recorded' = [recorded EXCEPT ![since[a]] = recorded[since[a]] + spent[a]] /\ lost' = lost
             \/ recorded' = recorded /\ lost' = IF spent[a] > 0 THEN lost \cup {since[a]} ELSE lost
      PROVE  TwiceInv'
  <2>1. /\ step'[a] = "idle" /\ spent'[a] = 0
        /\ \A b \in Actors : b # a => /\ step'[b] = step[b] /\ spent'[b] = spent[b]
                                    /\ since'[b] = since[b] /\ snapshot'[b] = snapshot[b]
    BY <1>3 DEF Idle, BooksInv
  <2>2. ASSUME NEW m \in Months, m \notin lost' PROVE Twice(m)'
    <3>1. Twice(m) /\ (voucher'.read /\ m = month' => credit'[m] <= voucher'.amount)
      BY <1>3, <2>2 DEF TwiceInv, Twice
    <3>2. \A b \in Actors \ {a} : Due(m, b)' = Due(m, b)
      BY <2>1 DEF Due, MayStart, Unbooked
    <3>3. /\ SumFunction(Owed(m))' = SumFunction(Owed(m)) - Due(m, a) + Due(m, a)'
          /\ SumFunction(Owed(m)) \in Nat /\ SumFunction(Owed(m))' \in Nat
      BY <3>2, OwedMoves
    <3>4. Due(m, a)' = 0
      BY <2>1 DEF Due, MayStart, Unbooked
    <3>5. recorded'[m] <= recorded[m] + Unbooked(m, a)
      BY <1>0, <1>3 DEF Unbooked, BooksInv
    <3>6. Over(m)' <= Over(m) /\ Over(m) \in Int /\ Over(m)' \in Int
      <4>1. Due(m, a) \in Nat /\ Unbooked(m, a) \in Nat /\ Unbooked(m, a) <= Due(m, a)
        BY <1>0a
      <4>2. credit'[m] = credit[m]
        BY <1>3
      <4> QED
        BY <1>0, <3>3, <3>4, <3>5, <4>1, <4>2 DEF Over
    <3>7. \/ step'[Slot] = "idle"
          \/ UNCHANGED <<step[Slot], since[Slot], snapshot[Slot], spent[Slot]>>
      BY <2>1
    <3> QED
      BY <3>1, <3>6, <3>7, TwiceKept
  <2> QED
    BY <2>2 DEF TwiceInv
<1>4. ASSUME NEW a \in Actors, Book(a) \/ Panic(a) PROVE TwiceInv'
  <2>1. /\ step[a] # "idle" /\ Idle(a) /\ UNCHANGED <<month, credit, voucher>>
        /\ \/ recorded' = [recorded EXCEPT ![since[a]] = recorded[since[a]] + spent[a]] /\ lost' = lost
           \/ recorded' = recorded /\ lost' = IF spent[a] > 0 THEN lost \cup {since[a]} ELSE lost
    BY <1>4 DEF Book, Panic, Lose, books
  <2> QED
    BY <1>3, <2>1
<1>5. ASSUME UNCHANGED <<recorded, step, since, snapshot, spent>>, lost \subseteq lost',
             \A m \in Months \ lost' : credit[m] <= credit'[m],
             \A m \in Months \ lost' : voucher'.read /\ m = month' => credit'[m] <= voucher'.amount
      PROVE  TwiceInv'
  <2>1. ASSUME NEW m \in Months, m \notin lost' PROVE Twice(m)'
    <3>1. Twice(m) /\ credit[m] <= credit'[m] /\ (voucher'.read /\ m = month' => credit'[m] <= voucher'.amount)
      BY <1>5, <2>1 DEF TwiceInv
    <3>2. \A b \in Actors : Due(m, b)' = Due(m, b)
      BY <1>5 DEF Due, MayStart, Unbooked
    <3>3. Owed(m)' = Owed(m)
      BY <3>2 DEF Owed
    <3>4. SumFunction(Owed(m))' = SumFunction(Owed(m))
      BY <3>3
    <3>5. Over(m)' <= Over(m) /\ Over(m) \in Int /\ Over(m)' \in Int
      BY <1>0, <1>0a, <1>5, <3>1, <3>4 DEF Over
    <3> QED
      BY <1>5, <3>1, <3>5, TwiceKept
  <2> QED
    BY <2>1 DEF TwiceInv
<1>6. CASE UNCHANGED <<month, recorded, credit, voucher, step, since, snapshot, spent, lost>>
  <2>1. \A m \in Months \ lost' : voucher'.read /\ m = month' => credit'[m] <= voucher'.amount
    BY <1>6 DEF TwiceInv, Twice
  <2> QED
    BY <1>0, <1>5, <1>6, <2>1
<1>7. ASSUME NEW a \in Actors, CutOff(a) PROVE TwiceInv'
  BY <1>6, <1>7 DEF CutOff, books
<1>8. CASE VoucherRead
  <2>1. /\ voucher'.amount = recorded[month]
        /\ UNCHANGED <<month, recorded, credit, step, since, snapshot, spent, lost>>
    BY <1>8 DEF VoucherRead, books, actor
  <2>2. month \notin lost => credit[month] <= recorded[month]
    BY <1>0 DEF VoucherInv, VoucherCovered
  <2> QED
    BY <1>0, <1>5, <2>1, <2>2
<1>9. CASE VoucherWrite
  <2>1. /\ voucher.read /\ ~voucher'.read
        /\ \A m \in Months : credit'[m] = IF m = month THEN voucher.amount ELSE credit[m]
        /\ UNCHANGED <<month, recorded, step, since, snapshot, spent, lost>>
    BY <1>9 DEF VoucherWrite, NoVoucher, actor, BooksInv
  <2>2. \A m \in Months \ lost' : credit[m] <= credit'[m]
    BY <1>0, <2>1 DEF TwiceInv, Twice
  <2> QED
    BY <1>5, <2>1, <2>2
<1>10. CASE NextMonth
  <2>1. /\ lost \subseteq lost' /\ (voucher.read => month' \in lost')
        /\ UNCHANGED <<recorded, credit, step, since, snapshot, spent, voucher>>
    BY <1>10 DEF NextMonth, books, actor
  <2> QED
    BY <1>0, <1>5, <2>1
<1>11. CASE UNCHANGED vars
  BY <1>6, <1>11 DEF vars, books, actor
<1> QED
  BY <1>1, <1>2, <1>2a, <1>4, <1>7, <1>8, <1>9, <1>10, <1>11 DEF Next

LEMMA TwiceInit == Init => BooksInv /\ VoucherInv /\ ReadersInv /\ TwiceInv
<1> SUFFICES ASSUME Init PROVE BooksInv /\ VoucherInv /\ ReadersInv /\ TwiceInv
  OBVIOUS
<1> USE SlotIsNoReader
<1>1. /\ \A a \in Actors : step[a] = "idle" /\ spent[a] = 0
      /\ \A m \in Months : recorded[m] = 0 /\ credit[m] = 0
      /\ ~voucher.read
  BY DEF Init, NoVoucher
<1>2. ReadersInv
  BY <1>1, MoneyAssumption DEF ReadersInv
<1>3. VoucherInv
  BY DEF Init, NoVoucher, VoucherInv, VoucherCovered
<1>4. ASSUME NEW m \in Months PROVE Twice(m)
  <2> DEFINE f == Owed(m)
  <2>1. f \in [Actors -> Nat] /\ \A x \in Actors : f[x] = 0
    BY <1>1 DEF Owed, Due, MayStart, Unbooked
  <2> HIDE DEF f
  <2>2. SumFunction(f) = 0
    BY <2>1, ActorsFinite, SumOfZeros
  <2>3. Over(m) = 0
    BY <1>1, <2>2 DEF f, Over
  <2> QED
    BY <1>1, <2>3 DEF Twice
<1> QED
  BY <1>2, <1>3, <1>4, BooksInit DEF TwiceInv

(* With readers of the report page, in any number, and any interleaving of     *)
(* their calls with the slot's jobs, a month in which every run books costs   *)
(* less than the budget twice and one call per actor beyond what a voucher    *)
(* forgave.                                                                 *)
THEOREM TwiceTheBudgetCorrect == Spec => []TwiceTheBudget
<1> DEFINE Inv == BooksInv /\ VoucherInv /\ ReadersInv /\ TwiceInv /\ BalanceInv
<1>1. Init => Inv
  BY TwiceInit, BalanceInit
<1>2. Inv /\ [Next]_vars => Inv'
  BY BooksStep, VoucherStep, ReadersStep, TwiceStep, BalanceStep
<1>3. Inv => TwiceTheBudget
  <2> SUFFICES ASSUME Inv, NEW m \in Months, m \notin lost
               PROVE  WithinBudget(m, 2 * Budget - 1 + (Cardinality(Readers) + 1) * MaxCallCost)
    BY DEF TwiceTheBudget
  <2>1. Twice(m) /\ charged[m] = recorded[m] + SumFunction(Open(m))
    BY DEF TwiceInv, BalanceInv, BooksBalance, Open
  <2>2. SumFunction(Open(m)) <= SumFunction(Owed(m)) /\ SumFunction(Open(m)) \in Nat /\ SumFunction(Owed(m)) \in Nat
    <3> DEFINE f == Open(m)
               g == Owed(m)
    <3>1. g \in [Actors -> Nat] /\ f \in [Actors -> Nat] /\ \A x \in Actors : f[x] <= g[x]
      BY DueType DEF Open
    <3> HIDE DEF f, g
    <3>2. SumFunction(f) <= SumFunction(g) /\ SumFunction(f) \in Nat /\ SumFunction(g) \in Nat
      BY <3>1, ActorsFinite, SumMonotone, SumType
    <3> QED
      BY <3>2 DEF f, g
  <2>3. charged[m] \in Nat /\ credit[m] \in Nat /\ recorded[m] \in Nat
    BY DEF BooksInv
  <2>4. Net(m) = 0 \/ Net(m) <= 2 * Budget - 2 + ReadersShare + MaxCallCost
    BY <2>1, <2>2, <2>3, MoneyAssumption, ReadersShareType DEF Net, Twice, Over
  <2>5. (Cardinality(Readers) + 1) * MaxCallCost = ReadersShare + MaxCallCost
    <3>1. Cardinality(Readers) \in Nat
      BY ActorsAssumption, FS_CardinalityType
    <3> QED
      BY <3>1, MoneyAssumption DEF ReadersShare
  <2>6. Net(m) \in Nat
    BY <2>3 DEF Net
  <2> QED
    BY <2>4, <2>5, <2>6, MoneyAssumption, ReadersShareType DEF WithinBudget
<1> QED
  BY <1>1, <1>2, <1>3, PTL DEF Spec

(* Both bounds on what language models cost a month, for every budget, price   *)
(* and number of readers.                                                   *)
THEOREM SpendingBoundedCorrect == Spec => []SpendingBounded
  BY HardForTheSlotCorrect, TwiceTheBudgetCorrect, PTL DEF SpendingBounded
=============================================================================
