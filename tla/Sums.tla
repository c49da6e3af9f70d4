-------------------------------- MODULE Sums ---------------------------------
(***************************************************************************)
(* Laws of the sums that the reports are made of: SumFunctionOnSet and     *)
(* SumFunction of the community module Functions, for finite sets and any  *)
(* integers.                                                               *)
(*                                                                         *)
(* SumFunctionOnSet(f, A) is a function chosen by its recursion over the   *)
(* subsets of A, so each law is an induction over finite sets.  Here an    *)
(* induction is a minimal counterexample: among the subsets of A with a    *)
(* wrong sum one has no other below it, because the cardinalities of       *)
(* finite sets are well founded.                                           *)
(***************************************************************************)
EXTENDS Integers, FiniteSetsExt, FiniteSetTheorems, WellFoundedInduction, TLAPS

-----------------------------------------------------------------------------
\* A set of naturals that is not empty has a least element.
LEMMA LeastOf ==
  ASSUME NEW T \in SUBSET Nat, T # {}
  PROVE  \E n \in T : \A m \in T : ~(m < n)
<1> DEFINE R == OpToRel(<, Nat)
<1>1. \E n \in T : \A m \in T : <<m, n>> \notin R
  <2>1. IsWellFoundedOn(R, Nat)
    BY NatLessThanWellFounded, Zenon
  <2> HIDE DEF R
  <2> QED BY <2>1, WFMin
<1>2. ASSUME NEW m \in T, NEW n \in T, m < n PROVE <<m, n>> \in R
  <2>1. R = {p \in Nat \X Nat : p[1] < p[2]}
    BY Zenon DEF OpToRel
  <2> HIDE DEF R
  <2> QED BY <1>2, <2>1
<1> HIDE DEF R
<1> QED BY <1>1, <1>2

\* Among subsets of a finite set there is one with no other below it.
LEMMA MinimalSubset ==
  ASSUME NEW S, IsFiniteSet(S), NEW Bad \in SUBSET (SUBSET S), Bad # {}
  PROVE  \E A \in Bad : \A B \in Bad : B \subseteq A => B = A
<1> DEFINE T == {Cardinality(A) : A \in Bad}
<1>1. \A A \in SUBSET S : IsFiniteSet(A) /\ Cardinality(A) \in Nat
  BY FS_Subset, FS_CardinalityType
<1>2. T \in SUBSET Nat /\ T # {}
  BY <1>1
<1>3. PICK A \in Bad : \A B \in Bad : ~(Cardinality(B) < Cardinality(A))
  BY <1>2, LeastOf
<1>4. ASSUME NEW B \in Bad, B \subseteq A PROVE B = A
  <2>1. Cardinality(B) <= Cardinality(A) /\ (Cardinality(A) = Cardinality(B) => A = B)
    BY <1>1, <1>4, FS_Subset
  <2> QED BY <1>1, <1>3, <2>1
<1> QED BY <1>4

\* So a property of {} that one more element preserves holds of the whole; W is
\* the set of subsets that have it.
LEMMA SubsetInduction ==
  ASSUME NEW S, IsFiniteSet(S), NEW W,
         {} \in W,
         \A A \in SUBSET S : \A x \in S \ A : A \in W => A \cup {x} \in W
  PROVE  S \in W
<1> SUFFICES ASSUME S \notin W PROVE FALSE
  OBVIOUS
<1> DEFINE Bad == {A \in SUBSET S : A \notin W}
<1>1. PICK A \in Bad : \A B \in Bad : B \subseteq A => B = A
  <2>1. Bad # {}
    OBVIOUS
  <2> HIDE DEF Bad
  <2>2. Bad \in SUBSET (SUBSET S)
    BY DEF Bad
  <2> QED BY <2>1, <2>2, MinimalSubset
<1>2. PICK x \in A : TRUE
  BY <1>1
<1>3. A \ {x} \in W
  BY <1>1, <1>2
<1>4. A = (A \ {x}) \cup {x}
  BY <1>2
<1> QED BY <1>1, <1>2, <1>3, <1>4

\* A finite set of naturals that is not empty has a greatest element.
LEMMA GreatestOf ==
  ASSUME NEW T \in SUBSET Nat, T # {}, IsFiniteSet(T)
  PROVE  \E n \in T : \A m \in T : n >= m
<1> DEFINE Top(A) == \E n \in A : \A m \in A : n >= m
           W == {A \in SUBSET T : A = {} \/ Top(A)}
<1>1. {} \in W
  OBVIOUS
<1>2. ASSUME NEW A \in SUBSET T, NEW x \in T \ A, A \in W PROVE A \cup {x} \in W
  <2>1. x \in Nat /\ \A a \in A : a \in Nat
    OBVIOUS
  <2>2. CASE A = {}
    <3>1. Top({x})
      BY <2>1
    <3> QED BY <2>2, <3>1
  <2>3. CASE A # {}
    <3>1. PICK n \in A : \A m \in A : n >= m
      BY <1>2, <2>3
    <3>2. CASE n >= x
      <4>1. n \in A \cup {x} /\ \A m \in A \cup {x} : n >= m
        BY <3>1, <3>2
      <4> QED BY <4>1
    <3>3. CASE ~(n >= x)
      <4>1. \A m \in A : x >= m
        BY <2>1, <3>1, <3>3
      <4>2. x \in A \cup {x} /\ \A m \in A \cup {x} : x >= m
        BY <2>1, <4>1
      <4> QED BY <4>2
    <3> QED BY <3>2, <3>3
  <2> QED BY <2>2, <2>3
<1> HIDE DEF W
<1>3. T \in W
  BY <1>1, <1>2, SubsetInduction
<1> QED BY <1>3 DEF W

\* The image of a finite set is finite.
LEMMA FiniteImage ==
  ASSUME NEW A, IsFiniteSet(A), NEW f, NEW T, T = {f[x] : x \in A}
  PROVE  IsFiniteSet(T)
<1> DEFINE g == [x \in A |-> f[x]]
<1>1. g \in Surjection(A, T)
  BY DEF Surjection
<1> QED BY <1>1, FS_Surjection

-----------------------------------------------------------------------------
\* The recursion that a sum is chosen by: the elements are taken in the order
\* of CHOOSE.

First(A) == CHOOSE x \in A : TRUE

Recurs(f, A, g) ==
  g = [B \in SUBSET A |-> IF B = {} THEN 0 ELSE f[First(B)] + g[B \ {First(B)}]]

LEMMA FirstIsIn == ASSUME NEW A, A # {} PROVE First(A) \in A
  BY DEF First

LEMMA SumIsChosen ==
  ASSUME NEW f, NEW A
  PROVE  SumFunctionOnSet(f, A) = (CHOOSE g : Recurs(f, A, g))[A]
  BY Zenon DEF SumFunctionOnSet, FoldFunctionOnSet, MapThenFoldSet, Recurs, First

LEMMA RecursAt ==
  ASSUME NEW f, NEW A, NEW g, Recurs(f, A, g)
  PROVE  \A B \in SUBSET A :
           /\ B = {} => g[B] = 0
           /\ B # {} => g[B] = f[First(B)] + g[B \ {First(B)}]
<1>1. g = [B \in SUBSET A |-> IF B = {} THEN 0 ELSE f[First(B)] + g[B \ {First(B)}]]
  BY DEF Recurs
<1> QED BY <1>1, Zenon

\* Two such functions agree where both are defined.
LEMMA RecursAgree ==
  ASSUME NEW f, NEW A, NEW B, NEW g, NEW h, Recurs(f, A, g), Recurs(f, B, h),
         NEW C, C \subseteq A, C \subseteq B, IsFiniteSet(C)
  PROVE  g[C] = h[C]
<1>1. \A D \in SUBSET C :
        /\ D = {} => g[D] = 0 /\ h[D] = 0
        /\ D # {} => /\ g[D] = f[First(D)] + g[D \ {First(D)}]
                     /\ h[D] = f[First(D)] + h[D \ {First(D)}]
  <2>1. \A D \in SUBSET A :
          (D = {} => g[D] = 0) /\ (D # {} => g[D] = f[First(D)] + g[D \ {First(D)}])
    BY RecursAt
  <2>2. \A D \in SUBSET B :
          (D = {} => h[D] = 0) /\ (D # {} => h[D] = f[First(D)] + h[D \ {First(D)}])
    BY RecursAt
  <2> QED BY <2>1, <2>2
<1> SUFFICES ASSUME g[C] # h[C] PROVE FALSE
  OBVIOUS
<1> DEFINE Bad == {D \in SUBSET C : g[D] # h[D]}
<1>2. PICK D \in Bad : \A E \in Bad : E \subseteq D => E = D
  <2>1. Bad # {} /\ Bad \in SUBSET (SUBSET C)
    OBVIOUS
  <2> HIDE DEF Bad
  <2> QED BY <2>1, MinimalSubset
<1>3. D # {}
  BY <1>1, <1>2
<1>4. First(D) \in D
  BY <1>3, FirstIsIn
<1>5. g[D \ {First(D)}] = h[D \ {First(D)}]
  BY <1>2, <1>4
<1> QED BY <1>1, <1>2, <1>3, <1>5

\* On a finite set there is one: the sums themselves make it.
LEMMA RecursExists ==
  ASSUME NEW f, NEW S, IsFiniteSet(S)
  PROVE  \E g : Recurs(f, S, g)
<1> DEFINE Has(A) == \E g : Recurs(f, A, g)
           Bad == {A \in SUBSET S : ~Has(A)}
<1> HIDE DEF Has
<1> SUFFICES ASSUME ~Has(S) PROVE FALSE
  BY DEF Has
<1>1. PICK A \in Bad : \A B \in Bad : B \subseteq A => B = A
  <2>1. Bad # {} /\ Bad \in SUBSET (SUBSET S)
    OBVIOUS
  <2> HIDE DEF Bad
  <2> QED BY <2>1, MinimalSubset
<1>2. ASSUME NEW B, B \subseteq A, B # A PROVE \E h : Recurs(f, B, h) /\ SumFunctionOnSet(f, B) = h[B]
  <2> DEFINE h == CHOOSE k : Recurs(f, B, k)
  <2>1. Has(B)
    BY <1>1, <1>2
  <2>2. Recurs(f, B, h)
    BY <2>1 DEF Has
  <2>3. SumFunctionOnSet(f, B) = h[B]
    BY SumIsChosen
  <2> HIDE DEF h
  <2> QED BY <2>2, <2>3
<1> DEFINE W(B) == SumFunctionOnSet(f, B)
           g == [B \in SUBSET A |-> IF B = {} THEN 0 ELSE f[First(B)] + W(B \ {First(B)})]
<1>3. ASSUME NEW C, C \subseteq A, C # A PROVE g[C] = W(C)
  <2>1. PICK h : Recurs(f, C, h) /\ W(C) = h[C]
    BY <1>2, <1>3
  <2>2. (C = {} => h[C] = 0) /\ (C # {} => h[C] = f[First(C)] + h[C \ {First(C)}])
    BY <2>1, RecursAt
  <2>3. CASE C = {}
    BY <1>3, <2>1, <2>2, <2>3
  <2>4. CASE C # {}
    <3> DEFINE D == C \ {First(C)}
    <3>1. D \subseteq A /\ D # A /\ D \subseteq C
      BY <1>3, <2>4, FirstIsIn
    <3>2. PICK k : Recurs(f, D, k) /\ W(D) = k[D]
      BY <1>2, <3>1
    <3>3. IsFiniteSet(D)
      BY <1>1, <3>1, FS_Subset
    <3>4. k[D] = h[D]
      <4> HIDE DEF D
      <4> QED BY <2>1, <3>1, <3>2, <3>3, RecursAgree
    <3>5. g[C] = f[First(C)] + W(D)
      BY <1>3, <2>4
    <3> QED BY <2>1, <2>2, <2>4, <3>2, <3>4, <3>5
  <2> QED BY <2>3, <2>4
<1>4. g = [B \in SUBSET A |-> IF B = {} THEN 0 ELSE f[First(B)] + g[B \ {First(B)}]]
  <2> HIDE DEF W
  <2>1. \A B \in SUBSET A : g[B] = IF B = {} THEN 0 ELSE f[First(B)] + g[B \ {First(B)}]
    <3> SUFFICES ASSUME NEW B \in SUBSET A, B # {}
                 PROVE  g[B] = f[First(B)] + g[B \ {First(B)}]
      OBVIOUS
    <3>1. First(B) \in B
      BY FirstIsIn
    <3>2. g[B \ {First(B)}] = W(B \ {First(B)})
      BY <1>3, <3>1
    <3> QED BY <3>2
  <2>2. g = [B \in SUBSET A |-> g[B]]
    OBVIOUS
  <2> HIDE DEF g
  <2> QED BY <2>1, <2>2, Zenon
<1>5. Recurs(f, A, g)
  <2> HIDE DEF g
  <2> QED BY <1>4 DEF Recurs
<1> QED BY <1>1, <1>5 DEF Has

LEMMA SumUnfolds ==
  ASSUME NEW f, NEW A, IsFiniteSet(A)
  PROVE  /\ A = {} => SumFunctionOnSet(f, A) = 0
         /\ A # {} => SumFunctionOnSet(f, A)
                        = f[First(A)] + SumFunctionOnSet(f, A \ {First(A)})
<1> DEFINE g == CHOOSE k : Recurs(f, A, k)
           B == A \ {First(A)}
           h == CHOOSE k : Recurs(f, B, k)
<1>1. IsFiniteSet(B)
  BY FS_Subset
<1>2. Recurs(f, A, g) /\ Recurs(f, B, h)
  <2>1. (\E k : Recurs(f, A, k)) /\ (\E k : Recurs(f, B, k))
    BY <1>1, RecursExists
  <2> QED BY <2>1
<1>3. SumFunctionOnSet(f, A) = g[A] /\ SumFunctionOnSet(f, B) = h[B]
  BY SumIsChosen
<1> HIDE DEF g, h
<1>4. g[B] = h[B]
  BY <1>1, <1>2, RecursAgree
<1> QED BY <1>2, <1>3, <1>4, RecursAt

\* The laws of sums, for finite sets and integers.
LEMMA SumOfNothing == ASSUME NEW f PROVE SumFunctionOnSet(f, {}) = 0
  BY SumUnfolds, FS_EmptySet

IntsOn(f, A) == IsFiniteSet(A) /\ \A x \in A : f[x] \in Int

LEMMA SumIsInt ==
  ASSUME NEW f, NEW A, IntsOn(f, A)
  PROVE  SumFunctionOnSet(f, A) \in Int
<1> SUFFICES ASSUME SumFunctionOnSet(f, A) \notin Int PROVE FALSE
  OBVIOUS
<1> DEFINE Bad == {B \in SUBSET A : SumFunctionOnSet(f, B) \notin Int}
<1>1. PICK B \in Bad : \A C \in Bad : C \subseteq B => C = B
  <2>1. Bad # {} /\ Bad \in SUBSET (SUBSET A) /\ IsFiniteSet(A)
    BY DEF IntsOn
  <2> HIDE DEF Bad
  <2> QED BY <2>1, MinimalSubset
<1>2. IsFiniteSet(B)
  BY <1>1, FS_Subset DEF IntsOn
<1>3. B # {}
  BY <1>1, SumOfNothing
<1>4. First(B) \in B
  BY <1>3, FirstIsIn
<1>5. SumFunctionOnSet(f, B \ {First(B)}) \in Int /\ f[First(B)] \in Int
  BY <1>1, <1>4 DEF IntsOn
<1>6. SumFunctionOnSet(f, B) = f[First(B)] + SumFunctionOnSet(f, B \ {First(B)})
  BY <1>2, <1>3, SumUnfolds
<1> QED BY <1>1, <1>5, <1>6

\* Any element can be taken out first.
LEMMA SumTakesOut ==
  ASSUME NEW f, NEW A, IntsOn(f, A), NEW x \in A
  PROVE  SumFunctionOnSet(f, A) = f[x] + SumFunctionOnSet(f, A \ {x})
<1> DEFINE T(B) == SumFunctionOnSet(f, B)
           Bad == {B \in SUBSET A : \E y \in B : T(B) # f[y] + T(B \ {y})}
<1> HIDE DEF T
<1> SUFFICES ASSUME T(A) # f[x] + T(A \ {x}) PROVE FALSE
  BY DEF T
<1>1. PICK B \in Bad : \A C \in Bad : C \subseteq B => C = B
  <2>1. Bad # {} /\ Bad \in SUBSET (SUBSET A) /\ IsFiniteSet(A)
    BY DEF IntsOn
  <2> HIDE DEF Bad
  <2> QED BY <2>1, MinimalSubset
<1>2. PICK y \in B : T(B) # f[y] + T(B \ {y})
  BY <1>1
<1> DEFINE z == First(B)
<1>3. z \in B
  BY FirstIsIn
<1>4. T(B) = f[z] + T(B \ {z})
  BY <1>1, <1>3, FS_Subset, SumUnfolds DEF IntsOn, T
<1> HIDE DEF z
<1>5. y # z
  BY <1>2, <1>4
<1>10. \A C \in SUBSET B : C # B => \A w \in C : T(C) = f[w] + T(C \ {w})
  BY <1>1
<1> HIDE DEF Bad
<1>6. T(B \ {z}) = f[y] + T((B \ {z}) \ {y})
  BY <1>3, <1>5, <1>10
<1>7. T(B \ {y}) = f[z] + T((B \ {y}) \ {z})
  BY <1>2, <1>3, <1>5, <1>10
<1>8. (B \ {z}) \ {y} = (B \ {y}) \ {z}
  OBVIOUS
<1>9. T((B \ {z}) \ {y}) \in Int /\ f[y] \in Int /\ f[z] \in Int
  <2>1. B \in SUBSET A
    BY <1>1 DEF Bad
  <2>2. IntsOn(f, (B \ {z}) \ {y})
    BY <2>1, FS_Subset DEF IntsOn
  <2> QED BY <1>3, <2>1, <2>2, SumIsInt DEF IntsOn, T
<1>11. T(B) = f[z] + (f[y] + T((B \ {z}) \ {y}))
  BY <1>4, <1>6
<1>12. f[y] + T(B \ {y}) = f[y] + (f[z] + T((B \ {z}) \ {y}))
  BY <1>7, <1>8
<1> QED BY <1>2, <1>9, <1>11, <1>12

LEMMA SumAddsOne ==
  ASSUME NEW f, NEW A, IntsOn(f, A), NEW x, x \notin A, f[x] \in Int
  PROVE  /\ IntsOn(f, A \cup {x})
         /\ SumFunctionOnSet(f, A \cup {x}) = f[x] + SumFunctionOnSet(f, A)
<1>1. IntsOn(f, A \cup {x})
  BY FS_AddElement DEF IntsOn
<1>2. (A \cup {x}) \ {x} = A
  OBVIOUS
<1> QED BY <1>1, <1>2, SumTakesOut

LEMMA SumOfOne ==
  ASSUME NEW f, NEW x, f[x] \in Int
  PROVE  IntsOn(f, {x}) /\ SumFunctionOnSet(f, {x}) = f[x]
<1>1. IntsOn(f, {})
  BY FS_EmptySet DEF IntsOn
<1>2. {} \cup {x} = {x}
  OBVIOUS
<1>3. IntsOn(f, {} \cup {x}) /\ SumFunctionOnSet(f, {} \cup {x}) = f[x] + 0
  BY <1>1, SumAddsOne, SumOfNothing
<1> QED BY <1>2, <1>3

LEMMA IntsOnSubset ==
  ASSUME NEW f, NEW A, IntsOn(f, A), NEW B \in SUBSET A
  PROVE  IntsOn(f, B)
  BY FS_Subset DEF IntsOn

\* A sum only looks at the values, and adds up like they do.
LEMMA SumOfSums ==
  ASSUME NEW f, NEW g, NEW h, NEW S, IntsOn(f, S), IntsOn(g, S),
         \A x \in S : h[x] = f[x] + g[x]
  PROVE  /\ IntsOn(h, S)
         /\ SumFunctionOnSet(h, S) = SumFunctionOnSet(f, S) + SumFunctionOnSet(g, S)
<1> DEFINE T(k, A) == SumFunctionOnSet(k, A)
           W == {A \in SUBSET S : T(h, A) = T(f, A) + T(g, A)}
<1>1. IsFiniteSet(S) /\ IntsOn(h, S)
  BY DEF IntsOn
<1>2. {} \in W
  <2>1. T(f, {}) = 0 /\ T(g, {}) = 0 /\ T(h, {}) = 0
    BY SumOfNothing
  <2> QED BY <2>1
<1>3. ASSUME NEW A \in SUBSET S, NEW x \in S \ A, A \in W PROVE A \cup {x} \in W
  <2>1. IntsOn(f, A) /\ IntsOn(g, A) /\ IntsOn(h, A)
    BY <1>1, IntsOnSubset
  <2>2. f[x] \in Int /\ g[x] \in Int /\ h[x] = f[x] + g[x]
    BY DEF IntsOn
  <2>3. T(f, A) \in Int /\ T(g, A) \in Int
    BY <2>1, SumIsInt
  <2>4. T(f, A \cup {x}) = f[x] + T(f, A) /\ T(g, A \cup {x}) = g[x] + T(g, A)
    BY <2>1, <2>2, SumAddsOne
  <2>5. T(h, A \cup {x}) = h[x] + T(h, A)
    BY <2>1, <2>2, SumAddsOne
  <2>6. T(h, A) = T(f, A) + T(g, A)
    BY <1>3
  <2> HIDE DEF T
  <2>7. T(h, A \cup {x}) = T(f, A \cup {x}) + T(g, A \cup {x})
    BY <2>2, <2>3, <2>4, <2>5, <2>6
  <2> QED BY <2>7
<1> HIDE DEF W
<1>4. S \in W
  BY <1>1, <1>2, <1>3, SubsetInduction
<1> QED BY <1>1, <1>4 DEF W

LEMMA SumOfZeros ==
  ASSUME NEW S, IsFiniteSet(S), NEW f, \A x \in S : f[x] = 0
  PROVE  IntsOn(f, S) /\ SumFunctionOnSet(f, S) = 0
<1>1. IntsOn(f, S) /\ \A x \in S : f[x] = f[x] + f[x]
  BY DEF IntsOn
<1>2. SumFunctionOnSet(f, S) = SumFunctionOnSet(f, S) + SumFunctionOnSet(f, S)
  BY <1>1, SumOfSums
<1> QED BY <1>1, <1>2, SumIsInt

LEMMA SumAgrees ==
  ASSUME NEW f, NEW g, NEW S, IntsOn(f, S), \A x \in S : g[x] = f[x]
  PROVE  IntsOn(g, S) /\ SumFunctionOnSet(g, S) = SumFunctionOnSet(f, S)
<1> DEFINE z == [x \in S |-> 0]
<1>1. \A x \in S : z[x] = 0
  OBVIOUS
<1> HIDE DEF z
<1>2. IntsOn(z, S) /\ SumFunctionOnSet(z, S) = 0
  BY <1>1, SumOfZeros DEF IntsOn
<1>3. \A x \in S : g[x] = f[x] + z[x]
  BY <1>1 DEF IntsOn
<1>4. IntsOn(g, S) /\ SumFunctionOnSet(g, S) = SumFunctionOnSet(f, S) + 0
  BY <1>2, <1>3, SumOfSums
<1> QED BY <1>4, SumIsInt

LEMMA SumOfDifferences ==
  ASSUME NEW f, NEW g, NEW h, NEW S, IntsOn(f, S), IntsOn(g, S),
         \A x \in S : h[x] = f[x] - g[x]
  PROVE  /\ IntsOn(h, S)
         /\ SumFunctionOnSet(h, S) = SumFunctionOnSet(f, S) - SumFunctionOnSet(g, S)
<1>1. IntsOn(h, S) /\ \A x \in S : f[x] = h[x] + g[x]
  BY DEF IntsOn
<1>2. SumFunctionOnSet(f, S) = SumFunctionOnSet(h, S) + SumFunctionOnSet(g, S)
  BY <1>1, SumOfSums
<1> QED BY <1>1, <1>2, SumIsInt

LEMMA SumOfUnion ==
  ASSUME NEW f, NEW A, NEW B, IntsOn(f, A \cup B), A \cap B = {}
  PROVE  SumFunctionOnSet(f, A \cup B) = SumFunctionOnSet(f, A) + SumFunctionOnSet(f, B)
<1> DEFINE T(C) == SumFunctionOnSet(f, C)
           W == {C \in SUBSET B : T(A \cup C) = T(A) + T(C)}
<1>1. IntsOn(f, A) /\ IntsOn(f, B) /\ IsFiniteSet(B)
  <2>1. IntsOn(f, A) /\ IntsOn(f, B)
    BY IntsOnSubset
  <2> QED BY <2>1 DEF IntsOn
<1>2. {} \in W
  <2>1. T({}) = 0 /\ T(A) \in Int /\ A \cup {} = A
    BY <1>1, SumOfNothing, SumIsInt
  <2> HIDE DEF T
  <2> QED BY <2>1
<1>3. ASSUME NEW C \in SUBSET B, NEW x \in B \ C, C \in W PROVE C \cup {x} \in W
  <2>1. IntsOn(f, C) /\ IntsOn(f, A \cup C) /\ f[x] \in Int
    <3>1. C \in SUBSET (A \cup B) /\ A \cup C \in SUBSET (A \cup B)
      OBVIOUS
    <3> QED BY <3>1, IntsOnSubset DEF IntsOn
  <2>2. x \notin A \cup C /\ x \notin C
    OBVIOUS
  <2>3. T(C \cup {x}) = f[x] + T(C)
    BY <2>1, <2>2, SumAddsOne
  <2>4. T((A \cup C) \cup {x}) = f[x] + T(A \cup C)
    <3> DEFINE D == A \cup C
    <3> HIDE DEF D
    <3>1. IntsOn(f, D) /\ x \notin D
      BY <2>1, <2>2 DEF D
    <3> QED BY <2>1, <3>1, SumAddsOne DEF D
  <2>5. T(A) \in Int /\ T(C) \in Int
    BY <1>1, <2>1, SumIsInt
  <2>6. T(A \cup C) = T(A) + T(C) /\ A \cup (C \cup {x}) = (A \cup C) \cup {x}
    BY <1>3
  <2> HIDE DEF T
  <2>7. T(A \cup (C \cup {x})) = f[x] + T(A \cup C)
    BY <2>4, <2>6, Zenon
  <2>8. f[x] + (T(A) + T(C)) = T(A) + (f[x] + T(C))
    BY <2>1, <2>5
  <2>9. T(A \cup (C \cup {x})) = T(A) + T(C \cup {x})
    BY <2>3, <2>6, <2>7, <2>8, Zenon
  <2> QED BY <2>9
<1> HIDE DEF W
<1>4. B \in W
  BY <1>1, <1>2, <1>3, SubsetInduction
<1> QED BY <1>4 DEF W

NatsOn(f, A) == IsFiniteSet(A) /\ \A x \in A : f[x] \in Nat

LEMMA NatsAreInts == ASSUME NEW f, NEW A, NatsOn(f, A) PROVE IntsOn(f, A)
  BY DEF NatsOn, IntsOn

LEMMA NatsOnSubset ==
  ASSUME NEW f, NEW A, NatsOn(f, A), NEW B \in SUBSET A
  PROVE  NatsOn(f, B)
  BY FS_Subset DEF NatsOn

LEMMA SumIsNat ==
  ASSUME NEW f, NEW S, NatsOn(f, S)
  PROVE  SumFunctionOnSet(f, S) \in Nat
<1> DEFINE T(A) == SumFunctionOnSet(f, A)
           W == {A \in SUBSET S : T(A) \in Nat}
<1>1. {} \in W
  BY SumOfNothing
<1>2. ASSUME NEW A \in SUBSET S, NEW x \in S \ A, A \in W PROVE A \cup {x} \in W
  <2>1. IntsOn(f, A) /\ f[x] \in Nat /\ f[x] \in Int
    BY NatsAreInts, IntsOnSubset DEF NatsOn
  <2>2. T(A \cup {x}) = f[x] + T(A) /\ T(A) \in Nat
    BY <1>2, <2>1, SumAddsOne
  <2> HIDE DEF T
  <2> QED BY <2>1, <2>2
<1> HIDE DEF W
<1>3. S \in W
  BY <1>1, <1>2, SubsetInduction DEF NatsOn
<1> QED BY <1>3 DEF W

\* More rows, or larger ones, do not make a sum smaller.
LEMMA SumGrows ==
  ASSUME NEW f, NEW A, NEW B, NatsOn(f, A), A \subseteq B, NEW g, NatsOn(g, B),
         \A x \in A : f[x] <= g[x]
  PROVE  SumFunctionOnSet(f, A) <= SumFunctionOnSet(g, B)
<1> DEFINE h == [x \in A |-> g[x] - f[x]]
<1>1. NatsOn(h, A) /\ NatsOn(g, A) /\ NatsOn(g, B \ A)
  BY FS_Subset DEF NatsOn
<1>2. \A x \in A : g[x] = f[x] + h[x]
  BY DEF NatsOn
<1> HIDE DEF h
<1>3. SumFunctionOnSet(g, A) = SumFunctionOnSet(f, A) + SumFunctionOnSet(h, A)
  BY <1>1, <1>2, NatsAreInts, SumOfSums
<1>4. SumFunctionOnSet(g, B) = SumFunctionOnSet(g, A) + SumFunctionOnSet(g, B \ A)
  <2>1. A \cup (B \ A) = B /\ A \cap (B \ A) = {}
    OBVIOUS
  <2> QED BY <2>1, NatsAreInts, SumOfUnion
<1>5. /\ SumFunctionOnSet(f, A) \in Nat /\ SumFunctionOnSet(h, A) \in Nat
      /\ SumFunctionOnSet(g, B \ A) \in Nat
  BY <1>1, SumIsNat
<1> QED BY <1>3, <1>4, <1>5

\* The sum of the sums for each key is the sum.
LEMMA SumByKey ==
  ASSUME NEW f, NEW A, IntsOn(f, A), NEW K, IsFiniteSet(K), NEW key,
         \A x \in A : key[x] \in K,
         NEW s, \A k \in K : s[k] = SumFunctionOnSet(f, {x \in A : key[x] = k})
  PROVE  IntsOn(s, K) /\ SumFunctionOnSet(s, K) = SumFunctionOnSet(f, A)
<1> DEFINE Of(L) == {x \in A : key[x] \in L}
           W == {L \in SUBSET K : SumFunctionOnSet(s, L) = SumFunctionOnSet(f, Of(L))}
<1>1. IntsOn(s, K)
  <2>1. ASSUME NEW k \in K PROVE s[k] \in Int
    <3>1. IntsOn(f, {x \in A : key[x] = k})
      BY IntsOnSubset
    <3> QED BY <3>1, SumIsInt
  <2> QED BY <2>1 DEF IntsOn
<1>2. {} \in W
  <2>1. Of({}) = {}
    OBVIOUS
  <2> QED BY <2>1, SumOfNothing
<1>3. ASSUME NEW L \in SUBSET K, NEW k \in K \ L, L \in W PROVE L \cup {k} \in W
  <2> DEFINE D == {x \in A : key[x] = k}
  <2>1. Of(L \cup {k}) = D \cup Of(L) /\ D \cap Of(L) = {} /\ D \cup Of(L) \in SUBSET A
    OBVIOUS
  <2>2. SumFunctionOnSet(f, Of(L \cup {k})) = SumFunctionOnSet(f, D) + SumFunctionOnSet(f, Of(L))
    <3> DEFINE E == Of(L)
    <3> HIDE DEF D, E
    <3>1. IntsOn(f, D \cup E)
      BY <2>1, IntsOnSubset DEF E
    <3>2. SumFunctionOnSet(f, D \cup E) = SumFunctionOnSet(f, D) + SumFunctionOnSet(f, E)
      BY <2>1, <3>1, SumOfUnion DEF E
    <3> QED BY <2>1, <3>2 DEF E
  <2>3. SumFunctionOnSet(s, L \cup {k}) = s[k] + SumFunctionOnSet(s, L)
    <3>1. IntsOn(s, L) /\ s[k] \in Int
      BY <1>1, IntsOnSubset DEF IntsOn
    <3> QED BY <3>1, SumAddsOne
  <2>4. s[k] = SumFunctionOnSet(f, D)
    OBVIOUS
  <2>5. SumFunctionOnSet(s, L) = SumFunctionOnSet(f, Of(L))
    BY <1>3
  <2> HIDE DEF Of, D
  <2> QED BY <2>2, <2>3, <2>4, <2>5
<1>4. K \in W
  <2> HIDE DEF W
  <2> QED BY <1>2, <1>3, SubsetInduction
<1>5. Of(K) = A
  OBVIOUS
<1> HIDE DEF Of
<1> QED BY <1>1, <1>4, <1>5
==============================================================================
