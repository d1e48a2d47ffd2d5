---------------------------- MODULE FoldTheorems ----------------------------
(***************************************************************************)
(* Facts about folds and sums that the proofs of the components need: the  *)
(* community modules define them by a local function chosen to satisfy its *)
(* own recursion, and state no theorem about it.                           *)
(*                                                                         *)
(* The induction theorems of the library take an operator as a parameter,  *)
(* which the provers cannot instantiate.  The two induction principles     *)
(* below are first order: the induction hypothesis is membership in a set, *)
(* and the argument is a minimal element of a well-founded ordering.       *)
(***************************************************************************)
EXTENDS Integers, FiniteSets, FiniteSetsExt, FiniteSetTheorems, WellFoundedInduction, TLAPS

\* Induction over the natural numbers, with a set for the hypothesis.
LEMMA NatSetInduction ==
    ASSUME NEW T, 0 \in T, \A n \in Nat : n \in T => n + 1 \in T
    PROVE  Nat \subseteq T
<1> SUFFICES ASSUME Nat \ T # {} PROVE FALSE
  OBVIOUS
<1> DEFINE R == OpToRel(<, Nat)
<1>1. IsWellFoundedOn(R, Nat)
  BY NatLessThanWellFounded
<1>2. \A i, j \in Nat : i < j => <<i, j>> \in R
  BY DEF OpToRel
<1> HIDE DEF R
<1>3. PICK n \in Nat \ T : \A m \in Nat \ T : <<m, n>> \notin R
  BY <1>1, WFMin
<1>4. n # 0 /\ n - 1 \in Nat /\ n - 1 < n
  BY <1>3
<1>5. n - 1 \in T
  BY <1>2, <1>3, <1>4
<1> QED
  BY <1>3, <1>4, <1>5

\* Induction over the subsets of a finite set: a set holds of a subset as soon
\* as it holds of the smaller ones.
LEMMA SubsetInduction ==
    ASSUME NEW S, IsFiniteSet(S), NEW T,
           \A U \in SUBSET S :
               (\A W \in SUBSET S : W \subseteq U /\ W # U => W \in T) => U \in T
    PROVE  SUBSET S \subseteq T
<1> DEFINE R == StrictSubsetOrdering(S)
           Bad == (SUBSET S) \ T
<1> SUFFICES ASSUME Bad # {} PROVE FALSE
  OBVIOUS
<1>1. IsWellFoundedOn(R, SUBSET S)
  <2>1. FiniteSubsetsOf(S) = SUBSET S
    BY FS_FiniteSubsetsOfFinite
  <2>2. IsWellFoundedOn(R, FiniteSubsetsOf(S))
    BY FS_StrictSubsetOrderingWellFounded
  <2> QED
    BY <2>1, <2>2
<1>2. \A W, U \in SUBSET S : W \subseteq U /\ W # U => <<W, U>> \in R
  BY DEF StrictSubsetOrdering
<1>3. Bad \subseteq SUBSET S /\ \A W \in SUBSET S : W \in Bad <=> W \notin T
  OBVIOUS
<1> HIDE DEF R, Bad
<1>4. PICK U \in Bad : \A W \in Bad : <<W, U>> \notin R
  BY <1>1, <1>3, WFMin
<1>5. \A W \in SUBSET S : W \subseteq U /\ W # U => W \in T
  <2> SUFFICES ASSUME NEW W \in SUBSET S, W \subseteq U, W # U PROVE W \notin Bad
    BY <1>3
  <2>1. U \in SUBSET S
    BY <1>3
  <2>2. <<W, U>> \in R
    BY <1>2, <2>1
  <2> QED
    BY <1>4, <2>2
<1> QED
  BY <1>3, <1>4, <1>5

\* A nonempty set of positions has a last one.
LEMMA MaxIn ==
    ASSUME NEW n \in Nat, NEW T \in SUBSET (1..n), T # {}
    PROVE  Max(T) \in T /\ \A k \in T : k <= Max(T)
<1> DEFINE Good == {i \in Nat : \A U \in SUBSET (1..i) : U # {} => \E m \in U : \A k \in U : k <= m}
<1>1. 0 \in Good
  <2>1. \A U \in SUBSET (1..0) : U = {}
    OBVIOUS
  <2> QED
    BY <2>1
<1>2. ASSUME NEW i \in Nat, i \in Good PROVE i + 1 \in Good
  <2> SUFFICES ASSUME NEW U \in SUBSET (1..(i + 1)), U # {}
               PROVE  \E m \in U : \A k \in U : k <= m
    OBVIOUS
  <2>1. CASE i + 1 \in U
    BY <2>1
  <2>2. CASE i + 1 \notin U
    <3>1. U \in SUBSET (1..i)
      BY <2>2
    <3> QED
      BY <1>2, <3>1
  <2> QED
    BY <2>1, <2>2
<1>3. Nat \subseteq Good
  <2> HIDE DEF Good
  <2> QED
    BY <1>1, <1>2, NatSetInduction
<1>4. PICK m \in T : \A k \in T : k <= m
  BY <1>3
<1>5. \A k \in T : m >= k
  BY <1>4
<1>6. Max(T) \in T /\ \A k \in T : Max(T) >= k
  BY <1>5 DEF Max
<1> QED
  BY <1>6

\* The position that is no smaller than any other is the last one.
LEMMA MaxIs ==
    ASSUME NEW n \in Nat, NEW T \in SUBSET (1..n), NEW m \in T, \A k \in T : k <= m
    PROVE  Max(T) = m
<1>1. Max(T) \in T /\ \A k \in T : k <= Max(T)
  BY MaxIn
<1>2. \A k \in T : k \in Int
  OBVIOUS
<1>3. Max(T) \in Int /\ m \in Int /\ m <= Max(T) /\ Max(T) <= m
  BY <1>1, <1>2
<1> HIDE DEF Max
<1> QED
  BY <1>3

-----------------------------------------------------------------------------
(* Functions over the subsets of a finite set, defined by taking an        *)
(* element away.                                                           *)

\* C picks an element of every nonempty subset of S.
Chooses(C, S) == \A T \in SUBSET S : T # {} => C[T] \in T

\* g folds F over the subsets of S, in the order in which C picks.
IsFold(g, S, base, F, C) ==
    \A T \in SUBSET S : g[T] = IF T = {} THEN base ELSE F[<<C[T], g[T \ {C[T]}]>>]

\* Such a function exists, one cardinality after the other.
LEMMA FoldExists ==
    ASSUME NEW S, IsFiniteSet(S), NEW V, NEW base, NEW F, NEW C,
           base \in V, F \in [S \X V -> V], Chooses(C, S)
    PROVE  \E g : g \in [SUBSET S -> V] /\ IsFold(g, S, base, F, C)
<1> DEFINE Small(n) == {T \in SUBSET S : Cardinality(T) <= n}
           Solves(g, n) == \A T \in Small(n) :
                             g[T] = IF T = {} THEN base ELSE F[<<C[T], g[T \ {C[T]}]>>]
           N == {n \in Nat : \E g \in [Small(n) -> V] : Solves(g, n)}
<1>0. \A T \in SUBSET S : /\ IsFiniteSet(T) /\ Cardinality(T) \in Nat
                          /\ Cardinality(T) = 0 <=> T = {}
  BY FS_Subset, FS_EmptySet, FS_CardinalityType
<1>1. \A T \in SUBSET S : T # {} => /\ C[T] \in S /\ T \ {C[T]} \in SUBSET S
                                   /\ Cardinality(T \ {C[T]}) = Cardinality(T) - 1
  BY <1>0, FS_RemoveElement DEF Chooses
<1>2. 0 \in N
  <2> DEFINE g == [T \in Small(0) |-> base]
  <2>1. g \in [Small(0) -> V]
    OBVIOUS
  <2>2. \A T \in Small(0) : T = {}
    BY <1>0
  <2>3. Solves(g, 0)
    BY <2>2
  <2> QED
    BY <2>1, <2>3
<1>3. ASSUME NEW n \in Nat, n \in N PROVE n + 1 \in N
  <2>1. PICK g \in [Small(n) -> V] : Solves(g, n)
    BY <1>3
  <2> DEFINE h == [T \in Small(n + 1) |->
                     IF T \in Small(n) THEN g[T] ELSE F[<<C[T], g[T \ {C[T]}]>>]]
  <2>2. ASSUME NEW T \in Small(n + 1), T # {} PROVE T \ {C[T]} \in Small(n)
    BY <1>0, <1>1, <2>2
  <2>3. {} \in Small(n) /\ Small(n) \subseteq Small(n + 1)
    BY <1>0
  <2>4. h \in [Small(n + 1) -> V]
    <3> SUFFICES ASSUME NEW T \in Small(n + 1), T \notin Small(n)
                 PROVE  F[<<C[T], g[T \ {C[T]}]>>] \in V
      OBVIOUS
    <3>1. T # {}
      BY <2>3
    <3>2. <<C[T], g[T \ {C[T]}]>> \in S \X V
      BY <1>1, <2>2, <3>1
    <3> QED
      BY <3>2
  <2>5. Solves(h, n + 1)
    <3> SUFFICES ASSUME NEW T \in Small(n + 1)
                 PROVE  h[T] = IF T = {} THEN base ELSE F[<<C[T], h[T \ {C[T]}]>>]
      OBVIOUS
    <3>1. CASE T = {}
      BY <2>1, <2>3, <3>1
    <3>2. CASE T # {}
      <4>1. h[T \ {C[T]}] = g[T \ {C[T]}]
        BY <2>2, <2>3, <3>2
      <4>2. h[T] = F[<<C[T], g[T \ {C[T]}]>>]
        BY <2>1, <3>2
      <4> QED
        BY <3>2, <4>1, <4>2
    <3> QED
      BY <3>1, <3>2
  <2>6. \E k \in [Small(n + 1) -> V] : Solves(k, n + 1)
    <3> HIDE DEF h, Solves, Small
    <3> QED
      BY <2>4, <2>5
  <2>7. n + 1 \in Nat
    OBVIOUS
  <2> HIDE DEF Small, Solves
  <2> QED
    BY <2>6, <2>7
<1>4. Nat \subseteq N
  <2> HIDE DEF N
  <2> QED
    BY <1>2, <1>3, NatSetInduction
<1>5. Cardinality(S) \in N
  BY <1>0, <1>4
<1>6. Small(Cardinality(S)) = SUBSET S
  BY FS_Subset
<1> QED
  BY <1>5, <1>6 DEF IsFold

-----------------------------------------------------------------------------
(* Sums.                                                                   *)

\* The element MapThenFoldSet takes first.
Pick(T) == CHOOSE x \in T : TRUE

\* SumFunctionOnSet has the equation it was defined by.  Each set has a function
\* of its own in the definition; they agree where they overlap.
LEMMA SumEquation ==
    ASSUME NEW S, IsFiniteSet(S), NEW f, \A x \in S : f[x] \in Int
    PROVE  \A T \in SUBSET S :
             /\ SumFunctionOnSet(f, T) \in Int
             /\ SumFunctionOnSet(f, T) =
                  IF T = {} THEN 0 ELSE f[Pick(T)] + SumFunctionOnSet(f, T \ {Pick(T)})
<1> DEFINE Eq(g, D) == g = [T \in SUBSET D |-> IF T = {} THEN 0 ELSE f[Pick(T)] + g[T \ {Pick(T)}]]
           Iter(D) == CHOOSE g : Eq(g, D)
<1>1. \A D : SumFunctionOnSet(f, D) = Iter(D)[D]
  BY DEF SumFunctionOnSet, FoldFunctionOnSet, MapThenFoldSet, Pick
<1>2. \A T \in SUBSET S : T # {} => Pick(T) \in T /\ Pick(T) \in S
  BY DEF Pick
<1>3. \A D \in SUBSET S : \E g \in [SUBSET D -> Int] : Eq(g, D)
  <2> SUFFICES ASSUME NEW D \in SUBSET S PROVE \E g \in [SUBSET D -> Int] : Eq(g, D)
    OBVIOUS
  <2> DEFINE F == [x \in D \X Int |-> f[x[1]] + x[2]]
             C == [T \in SUBSET D |-> IF T = {} THEN {} ELSE Pick(T)]
  <2>1. IsFiniteSet(D)
    BY FS_Subset
  <2>2. 0 \in Int /\ F \in [D \X Int -> Int]
    OBVIOUS
  <2>3. Chooses(C, D)
    BY <1>2 DEF Chooses
  <2>4. \A T \in SUBSET D : T # {} => C[T] = Pick(T) /\ Pick(T) \in T
    BY <1>2
  <2>5. \A x \in D, y \in Int : F[<<x, y>>] = f[x] + y
    OBVIOUS
  <2> HIDE DEF F, C
  <2>6. PICK g : g \in [SUBSET D -> Int] /\ IsFold(g, D, 0, F, C)
    BY <2>1, <2>2, <2>3, FoldExists, Zenon
  <2>7. ASSUME NEW T \in SUBSET D
        PROVE  g[T] = IF T = {} THEN 0 ELSE f[Pick(T)] + g[T \ {Pick(T)}]
    <3>1. CASE T = {}
      BY <2>6, <3>1 DEF IsFold
    <3>2. CASE T # {}
      <4>1. Pick(T) \in D /\ T \ {Pick(T)} \in SUBSET D /\ C[T] = Pick(T)
        BY <2>4, <3>2
      <4>2. g[T] = F[<<Pick(T), g[T \ {Pick(T)}]>>]
        BY <2>6, <3>2, <4>1 DEF IsFold
      <4> QED
        BY <2>5, <2>6, <3>2, <4>1, <4>2
    <3> QED
      BY <3>1, <3>2
  <2>8. Eq(g, D)
    BY <2>6, <2>7
  <2> QED
    BY <2>6, <2>8
<1>4. \A D \in SUBSET S : Eq(Iter(D), D)
  <2> HIDE DEF Eq
  <2> QED
    BY <1>3
<1>5. \A D \in SUBSET S : \A T \in SUBSET D :
        Iter(D)[T] = IF T = {} THEN 0 ELSE f[Pick(T)] + Iter(D)[T \ {Pick(T)}]
  <2> SUFFICES ASSUME NEW D \in SUBSET S, NEW T \in SUBSET D
               PROVE  Iter(D)[T] = IF T = {} THEN 0 ELSE f[Pick(T)] + Iter(D)[T \ {Pick(T)}]
    OBVIOUS
  <2>1. Eq(Iter(D), D)
    BY <1>4
  <2> HIDE DEF Iter
  <2> QED
    BY <2>1
<1> HIDE DEF Iter
<1> DEFINE Good == {T \in SUBSET S : /\ Iter(T)[T] \in Int
                                     /\ \A D \in SUBSET S : T \subseteq D => Iter(D)[T] = Iter(T)[T]}
<1>6. ASSUME NEW U \in SUBSET S,
             \A W \in SUBSET S : W \subseteq U /\ W # U => W \in Good
      PROVE  U \in Good
  <2>1. CASE U = {}
    <3>1. \A D \in SUBSET S : Iter(D)[{}] = 0
      BY <1>5
    <3> QED
      BY <2>1, <3>1
  <2>2. CASE U # {}
    <3> DEFINE W == U \ {Pick(U)}
    <3>1. W \in SUBSET S /\ W \subseteq U /\ W # U /\ f[Pick(U)] \in Int
      BY <1>2, <2>2
    <3>2. W \in Good
      BY <1>6, <3>1
    <3>3. \A D \in SUBSET S : U \subseteq D => Iter(D)[U] = f[Pick(U)] + Iter(W)[W]
      <4> SUFFICES ASSUME NEW D \in SUBSET S, U \subseteq D
                   PROVE  Iter(D)[U] = f[Pick(U)] + Iter(W)[W]
        OBVIOUS
      <4>1. Iter(D)[U] = f[Pick(U)] + Iter(D)[W]
        BY <1>5, <2>2
      <4>2. Iter(D)[W] = Iter(W)[W]
        BY <3>1, <3>2
      <4> QED
        BY <4>1, <4>2
    <3>4. Iter(W)[W] \in Int
      BY <3>2
    <3> HIDE DEF W
    <3> QED
      BY <3>1, <3>3, <3>4
  <2> QED
    BY <2>1, <2>2
<1>7. SUBSET S \subseteq Good
  <2> HIDE DEF Good
  <2> QED
    BY <1>6, SubsetInduction
<1> SUFFICES ASSUME NEW T \in SUBSET S
             PROVE  /\ SumFunctionOnSet(f, T) \in Int
                    /\ SumFunctionOnSet(f, T) =
                         IF T = {} THEN 0 ELSE f[Pick(T)] + SumFunctionOnSet(f, T \ {Pick(T)})
  OBVIOUS
<1>8. SumFunctionOnSet(f, T) = Iter(T)[T] /\ T \in Good
  BY <1>1, <1>7
<1>9. T # {} => /\ T \ {Pick(T)} \in SUBSET S
                /\ SumFunctionOnSet(f, T \ {Pick(T)}) = Iter(T \ {Pick(T)})[T \ {Pick(T)}]
                /\ Iter(T)[T \ {Pick(T)}] = Iter(T \ {Pick(T)})[T \ {Pick(T)}]
  BY <1>1, <1>7
<1>10. Iter(T)[T] = IF T = {} THEN 0 ELSE f[Pick(T)] + Iter(T)[T \ {Pick(T)}]
  BY <1>5
<1> QED
  BY <1>8, <1>9, <1>10

\* A sum is a number, the empty sum is zero, and any term can be taken off, in
\* whatever order the definition adds them.
LEMMA SumFacts ==
    ASSUME NEW S, IsFiniteSet(S), NEW f, \A x \in S : f[x] \in Int
    PROVE  /\ \A T \in SUBSET S : SumFunctionOnSet(f, T) \in Int
           /\ SumFunctionOnSet(f, {}) = 0
           /\ \A T \in SUBSET S : \A x \in T :
                SumFunctionOnSet(f, T) = f[x] + SumFunctionOnSet(f, T \ {x})
<1> DEFINE sum == [T \in SUBSET S |-> SumFunctionOnSet(f, T)]
<1>1. /\ sum \in [SUBSET S -> Int]
      /\ \A T \in SUBSET S : sum[T] = IF T = {} THEN 0 ELSE f[Pick(T)] + sum[T \ {Pick(T)}]
  <2>1. \A T \in SUBSET S :
          /\ SumFunctionOnSet(f, T) \in Int
          /\ SumFunctionOnSet(f, T) =
               IF T = {} THEN 0 ELSE f[Pick(T)] + SumFunctionOnSet(f, T \ {Pick(T)})
    BY SumEquation
  <2> QED
    BY <2>1
<1>2. \A T \in SUBSET S : SumFunctionOnSet(f, T) = sum[T]
  OBVIOUS
<1> HIDE DEF sum
<1> DEFINE Good == {T \in SUBSET S : \A x \in T : sum[T] = f[x] + sum[T \ {x}]}
<1>3. ASSUME NEW U \in SUBSET S, \A W \in SUBSET S : W \subseteq U /\ W # U => W \in Good
      PROVE  U \in Good
  <2> SUFFICES ASSUME NEW x \in U PROVE sum[U] = f[x] + sum[U \ {x}]
    OBVIOUS
  <2> DEFINE y == Pick(U)
  <2>1. y \in U
    BY DEF Pick
  <2>2. sum[U] = f[y] + sum[U \ {y}]
    BY <1>1
  <2> HIDE DEF y
  <2>3. CASE x # y
    <3> DEFINE Ux == U \ {x}
               Uy == U \ {y}
               Uxy == U \ {x, y}
    <3>1. Ux \in Good /\ Uy \in Good /\ Uxy \in SUBSET S
      BY <1>3, <2>1
    <3>2. Ux \ {y} = Uxy /\ Uy \ {x} = Uxy /\ y \in Ux /\ x \in Uy
      BY <2>1, <2>3
    <3>3. sum[Ux] = f[y] + sum[Uxy] /\ sum[Uy] = f[x] + sum[Uxy]
      <4> HIDE DEF Ux, Uy, Uxy
      <4> QED
        BY <3>1, <3>2
    <3>4. f[x] \in Int /\ f[y] \in Int /\ sum[Uxy] \in Int
      BY <1>1, <2>1, <3>1
    <3>5. sum[U] = f[y] + sum[Uy]
      BY <2>2
    <3>6. sum[U] = f[x] + sum[Ux]
      <4> HIDE DEF Good, Ux, Uy, Uxy
      <4> QED
        BY <3>3, <3>4, <3>5
    <3> QED
      BY <3>6
  <2> QED
    BY <2>2, <2>3
<1>4. SUBSET S \subseteq Good
  <2> HIDE DEF Good
  <2> QED
    BY <1>3, SubsetInduction
<1>5. \A T \in SUBSET S : \A x \in T : sum[T] = f[x] + sum[T \ {x}] /\ T \ {x} \in SUBSET S
  BY <1>4
<1>6. {} \in SUBSET S
  OBVIOUS
<1>7. SumFunctionOnSet(f, {}) = 0
  BY <1>1, <1>2, <1>6
<1> HIDE DEF Good
<1> QED
  BY <1>1, <1>2, <1>5, <1>7

\* Functions with the same terms have the same sum.
LEMMA SumSame ==
    ASSUME NEW S, IsFiniteSet(S), NEW f, NEW g,
           \A x \in S : f[x] \in Int /\ g[x] = f[x]
    PROVE  SumFunctionOnSet(g, S) = SumFunctionOnSet(f, S)
<1> DEFINE F == [T \in SUBSET S |-> SumFunctionOnSet(f, T)]
           G == [T \in SUBSET S |-> SumFunctionOnSet(g, T)]
           Good == {T \in SUBSET S : G[T] = F[T]}
<1>1. F[{}] = 0 /\ \A T \in SUBSET S : \A x \in T : F[T] = f[x] + F[T \ {x}]
  BY SumFacts
<1>2. G[{}] = 0 /\ \A T \in SUBSET S : \A x \in T : G[T] = f[x] + G[T \ {x}]
  <2>1. \A x \in S : g[x] \in Int
    OBVIOUS
  <2> QED
    BY <2>1, SumFacts
<1> HIDE DEF F, G
<1>3. ASSUME NEW U \in SUBSET S, \A W \in SUBSET S : W \subseteq U /\ W # U => W \in Good
      PROVE  U \in Good
  <2>1. CASE U = {}
    BY <1>1, <1>2, <2>1
  <2>2. ASSUME NEW x \in U PROVE G[U] = F[U]
    <3>1. U \ {x} \in Good
      BY <1>3
    <3> QED
      BY <1>1, <1>2, <3>1
  <2> QED
    BY <2>1, <2>2
<1>4. SUBSET S \subseteq Good
  <2> HIDE DEF Good
  <2> QED
    BY <1>3, SubsetInduction
<1> QED
  BY <1>4 DEF F, G

\* A sum of which one term changes.
LEMMA SumChange ==
    ASSUME NEW S, IsFiniteSet(S), NEW f, NEW g, NEW x \in S,
           \A y \in S : f[y] \in Int /\ g[y] \in Int,
           \A y \in S \ {x} : g[y] = f[y]
    PROVE  SumFunctionOnSet(g, S) = SumFunctionOnSet(f, S) - f[x] + g[x]
<1>1. /\ SumFunctionOnSet(f, S) = f[x] + SumFunctionOnSet(f, S \ {x})
      /\ SumFunctionOnSet(f, S \ {x}) \in Int
  <2>1. \A y \in S : f[y] \in Int
    OBVIOUS
  <2> QED
    BY <2>1, SumFacts
<1>2. SumFunctionOnSet(g, S) = g[x] + SumFunctionOnSet(g, S \ {x})
  <2>1. \A y \in S : g[y] \in Int
    OBVIOUS
  <2> QED
    BY <2>1, SumFacts
<1>3. SumFunctionOnSet(g, S \ {x}) = SumFunctionOnSet(f, S \ {x})
  BY SumSame, FS_RemoveElement
<1> QED
  BY <1>1, <1>2, <1>3

\* m and the sum of p make up the sum of h.  A step that changes one term of p
\* and one of h, and m by the difference, keeps the balance.
LEMMA SumsMove ==
    ASSUME NEW W, IsFiniteSet(W), NEW x \in W, NEW p, NEW h, NEW p2, NEW h2, NEW m \in Int, NEW m2 \in Int,
           \A w \in W : p[w] \in Int /\ h[w] \in Int /\ p2[w] \in Int /\ h2[w] \in Int,
           \A w \in W \ {x} : p2[w] = p[w] /\ h2[w] = h[w],
           m2 - m + p2[x] - p[x] = h2[x] - h[x],
           m + SumFunctionOnSet(p, W) = SumFunctionOnSet(h, W)
    PROVE  m2 + SumFunctionOnSet(p2, W) = SumFunctionOnSet(h2, W)
<1> DEFINE SameTerms(f, g) == \A w \in W \ {x} : g[w] = f[w]
           Whole(f) == \A w \in W : f[w] \in Int
<1>0. ASSUME NEW f, NEW g, Whole(f), Whole(g), SameTerms(f, g)
      PROVE  SumFunctionOnSet(g, W) = SumFunctionOnSet(f, W) - f[x] + g[x]
  <2>1. \A y \in W : f[y] \in Int /\ g[y] \in Int
    BY <1>0
  <2>2. \A y \in W \ {x} : g[y] = f[y]
    BY <1>0
  <2> HIDE DEF Whole, SameTerms
  <2>3. x \in W /\ IsFiniteSet(W)
    OBVIOUS
  <2> QED
    BY ONLY <2>1, <2>2, <2>3, SumChange
<1>a. Whole(p) /\ Whole(p2) /\ Whole(h) /\ Whole(h2) /\ SameTerms(p, p2) /\ SameTerms(h, h2)
  OBVIOUS
<1> HIDE DEF SameTerms, Whole
<1>1. SumFunctionOnSet(p2, W) = SumFunctionOnSet(p, W) - p[x] + p2[x]
  BY <1>0, <1>a
<1>2. SumFunctionOnSet(h2, W) = SumFunctionOnSet(h, W) - h[x] + h2[x]
  BY <1>0, <1>a
<1>3. SumFunctionOnSet(p, W) \in Int /\ SumFunctionOnSet(h, W) \in Int
  <2>1. (\A w \in W : p[w] \in Int) /\ (\A w \in W : h[w] \in Int)
    OBVIOUS
  <2>2. W \in SUBSET W
    OBVIOUS
  <2> QED
    BY <2>1, <2>2, SumFacts
<1>4. p[x] \in Int /\ p2[x] \in Int /\ h[x] \in Int /\ h2[x] \in Int
  OBVIOUS
<1> QED
  BY <1>1, <1>2, <1>3, <1>4

\* A new term that is zero changes no sum.
LEMMA SumZero ==
    ASSUME NEW W, IsFiniteSet(W), NEW x, x \notin W, NEW f, NEW g,
           \A w \in W \cup {x} : g[w] \in Int, \A w \in W : f[w] = g[w], g[x] = 0
    PROVE  SumFunctionOnSet(g, W \cup {x}) = SumFunctionOnSet(f, W)
<1> DEFINE V == W \cup {x}
<1>1. IsFiniteSet(V) /\ V \in SUBSET V /\ W \in SUBSET V /\ x \in V /\ V \ {x} = W
  BY FS_AddElement
<1>2. (\A w \in V : g[w] \in Int) /\ W \cup {x} = V
  OBVIOUS
<1> HIDE DEF V
<1>3. /\ SumFunctionOnSet(g, V) = g[x] + SumFunctionOnSet(g, W)
      /\ SumFunctionOnSet(g, W) \in Int
  <2>1. /\ \A T \in SUBSET V : SumFunctionOnSet(g, T) \in Int
        /\ \A T \in SUBSET V : \A y \in T :
             SumFunctionOnSet(g, T) = g[y] + SumFunctionOnSet(g, T \ {y})
    BY <1>1, <1>2, SumFacts
  <2>2. SumFunctionOnSet(g, V) = g[x] + SumFunctionOnSet(g, V \ {x})
    BY <1>1, <2>1
  <2>3. SumFunctionOnSet(g, V) = g[x] + SumFunctionOnSet(g, W)
    BY <1>1, <2>2, Zenon
  <2> QED
    BY <1>1, <2>1, <2>3
<1>4. SumFunctionOnSet(f, W) = SumFunctionOnSet(g, W)
  <2>1. \A w \in W : g[w] \in Int /\ f[w] = g[w]
    BY <1>1, <1>2
  <2> QED
    BY <2>1, SumSame
<1>5. SumFunctionOnSet(g, V) = SumFunctionOnSet(f, W)
  <2>1. g[x] = 0
    OBVIOUS
  <2> QED
    BY <1>1, <1>3, <1>4, <2>1
<1> QED
  BY <1>5 DEF V

\* A part of a whole, when what is withheld outside the part is no more than
\* there is, and nothing is withheld in the part.
LEMMA SumOfPart ==
    ASSUME NEW S, IsFiniteSet(S), NEW f, NEW g, NEW P \in SUBSET S,
           \A x \in S : f[x] \in Int /\ g[x] \in Int /\ g[x] <= f[x],
           \A x \in P : g[x] = 0
    PROVE  SumFunctionOnSet(f, P) <= SumFunctionOnSet(f, S) - SumFunctionOnSet(g, S)
<1> DEFINE F == [T \in SUBSET S |-> SumFunctionOnSet(f, T)]
           G == [T \in SUBSET S |-> SumFunctionOnSet(g, T)]
           Good == {T \in SUBSET S : F[T \cap P] <= F[T] - G[T]}
<1>1. /\ F[{}] = 0 /\ F \in [SUBSET S -> Int]
      /\ \A T \in SUBSET S : \A x \in T : F[T] = f[x] + F[T \ {x}]
  <2>1. \A x \in S : f[x] \in Int
    OBVIOUS
  <2> QED
    BY <2>1, SumFacts
<1>2. /\ G[{}] = 0 /\ G \in [SUBSET S -> Int]
      /\ \A T \in SUBSET S : \A x \in T : G[T] = g[x] + G[T \ {x}]
  <2>1. \A x \in S : g[x] \in Int
    OBVIOUS
  <2> QED
    BY <2>1, SumFacts
<1> HIDE DEF F, G
<1>3. ASSUME NEW U \in SUBSET S, \A W \in SUBSET S : W \subseteq U /\ W # U => W \in Good
      PROVE  U \in Good
  <2>1. CASE U = {}
    BY <1>1, <1>2, <2>1
  <2>2. ASSUME NEW x \in U PROVE F[U \cap P] <= F[U] - G[U]
    <3> DEFINE W == U \ {x}
               UP == U \cap P
               WP == W \cap P
    <3>1. W \in SUBSET S /\ W \subseteq U /\ W # U
      OBVIOUS
    <3>2. W \in Good
      BY <1>3, <3>1
    <3>3. F[WP] <= F[W] - G[W]
      BY <3>2
    <3>4. F[U] = f[x] + F[W] /\ G[U] = g[x] + G[W]
      BY <1>1, <1>2
    <3>5. /\ F[W] \in Int /\ G[W] \in Int /\ F[WP] \in Int
          /\ f[x] \in Int /\ g[x] \in Int /\ g[x] <= f[x]
      BY <1>1, <1>2, <3>1
    <3>6. (F[UP] = f[x] + F[WP] /\ g[x] = 0) \/ UP = WP
      <4>1. CASE x \in P
        <5>1. UP \ {x} = WP /\ x \in UP /\ UP \in SUBSET S
          BY <4>1
        <5> HIDE DEF UP, WP
        <5> QED
          BY <1>1, <4>1, <5>1
      <4>2. CASE x \notin P
        BY <4>2
      <4> QED
        BY <4>1, <4>2
    <3>7. F[UP] <= F[U] - G[U]
      <4> HIDE DEF W, UP, WP, Good
      <4> QED
        BY <3>3, <3>4, <3>5, <3>6
    <3> QED
      BY <3>7
  <2> QED
    BY <2>1, <2>2
<1>4. SUBSET S \subseteq Good
  <2> HIDE DEF Good
  <2> QED
    BY <1>3, SubsetInduction
<1>5. S \in Good /\ S \cap P = P
  BY <1>4
<1> QED
  BY <1>5 DEF F, G
=============================================================================
