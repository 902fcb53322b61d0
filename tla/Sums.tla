---------------------------------- MODULE Sums ----------------------------------
(***************************************************************************)
(* What SumFunctionOnSet of the community modules gives over a finite set, *)
(* which it computes by a recursive choice of elements: by well-founded    *)
(* induction on the subsets, in any order the same.  The ledger's balances *)
(* and the mean of the quotes of the exchanges are such sums.              *)
(***************************************************************************)
EXTENDS Integers, FiniteSets, Functions, FiniteSetTheorems, WellFoundedInduction, TLAPS

-----------------------------------------------------------------------------
(* Induction over the subsets of a finite set, for a set of good subsets.    *)
LEMMA SmallestSubset ==
  ASSUME NEW S, IsFiniteSet(S), NEW Bad, Bad \subseteq SUBSET S, Bad # {}
  PROVE  \E U \in Bad : \A x \in U : U \ {x} \notin Bad
<1> DEFINE R == StrictSubsetOrdering(S)
<1>1. FiniteSubsetsOf(S) = SUBSET S
  BY FS_FiniteSubsetsOfFinite
<1>2. IsWellFoundedOn(R, FiniteSubsetsOf(S))
  BY FS_StrictSubsetOrderingWellFounded
<1>3. IsWellFoundedOn(R, SUBSET S)
  BY <1>1, <1>2
<1> HIDE DEF R
<1>4. PICK U \in Bad : \A V \in Bad : ~(<<V, U>> \in R)
  BY <1>3, WFMin
<1>5. ASSUME NEW x \in U, U \ {x} \in Bad PROVE <<U \ {x}, U>> \in R
  BY <1>4, <1>5 DEF R, StrictSubsetOrdering
<1> QED BY <1>4, <1>5

LEMMA SubsetInduction ==
  ASSUME NEW S, IsFiniteSet(S), NEW Good,
         \A U \in SUBSET S : (\A x \in U : U \ {x} \in Good) => U \in Good
  PROVE  SUBSET S \subseteq Good
<1> DEFINE Bad == (SUBSET S) \ Good
<1>1. Bad \subseteq SUBSET S
  OBVIOUS
<1>2. CASE Bad # {}
  <2> HIDE DEF Bad
  <2>1. PICK U \in Bad : \A x \in U : U \ {x} \notin Bad
    BY <1>1, <1>2, SmallestSubset
  <2> QED BY <2>1 DEF Bad
<1> QED BY <1>2

Pick(s) == CHOOSE x \in s : TRUE
Adds(g, F, S) ==
  g = [s \in SUBSET S |-> IF s = {} THEN 0 ELSE F[Pick(s)] + g[s \ {Pick(s)}]]

LEMMA PickIn == ASSUME NEW s, s # {} PROVE Pick(s) \in s
BY DEF Pick

LEMMA AddsNone ==
  ASSUME NEW g, NEW F, NEW S, Adds(g, F, S) PROVE g[{}] = 0
<1>1. {} \in SUBSET S
  OBVIOUS
<1> QED BY <1>1 DEF Adds

LEMMA AddsPick ==
  ASSUME NEW g, NEW F, NEW S, Adds(g, F, S), NEW s \in SUBSET S, s # {}
  PROVE  g[s] = F[Pick(s)] + g[s \ {Pick(s)}]
BY DEF Adds

LEMMA AddsSame ==
  ASSUME NEW S, IsFiniteSet(S), NEW g, NEW F, NEW U, Adds(g, F, U),
         NEW h, NEW G, NEW V, Adds(h, G, V), S \subseteq U, S \subseteq V,
         \A x \in S : F[x] = G[x]
  PROVE  \A s \in SUBSET S : g[s] = h[s]
<1> DEFINE Good == {s \in SUBSET S : g[s] = h[s]}
<1>1. ASSUME NEW s \in SUBSET S, \A x \in s : s \ {x} \in Good PROVE s \in Good
  <2>1. CASE s = {}
    BY <2>1, AddsNone
  <2>2. CASE s # {}
    <3>1. Pick(s) \in s
      BY <2>2, PickIn
    <3>2. s \in SUBSET U /\ s \in SUBSET V
      OBVIOUS
    <3>3. g[s] = F[Pick(s)] + g[s \ {Pick(s)}]
      BY <2>2, <3>2 DEF Adds
    <3>4. h[s] = G[Pick(s)] + h[s \ {Pick(s)}]
      BY <2>2, <3>2 DEF Adds
    <3>5. g[s \ {Pick(s)}] = h[s \ {Pick(s)}] /\ F[Pick(s)] = G[Pick(s)]
      BY <1>1, <3>1
    <3> QED BY <3>3, <3>4, <3>5
  <2> QED BY <2>1, <2>2
<1> HIDE DEF Good
<1>2. SUBSET S \subseteq Good
  BY <1>1, SubsetInduction
<1> QED BY <1>2 DEF Good

LEMMA AddsTyped ==
  ASSUME NEW S, IsFiniteSet(S), NEW F, \A x \in S : F[x] \in Int, NEW g, Adds(g, F, S)
  PROVE  g \in [SUBSET S -> Int]
<1> DEFINE Good == {s \in SUBSET S : g[s] \in Int}
<1>1. ASSUME NEW s \in SUBSET S, \A x \in s : s \ {x} \in Good PROVE s \in Good
  <2>1. CASE s = {}
    BY <2>1, AddsNone
  <2>2. CASE s # {}
    <3>1. Pick(s) \in s
      BY <2>2, PickIn
    <3>2. F[Pick(s)] \in Int /\ g[s \ {Pick(s)}] \in Int
      BY <1>1, <3>1
    <3>3. g[s] = F[Pick(s)] + g[s \ {Pick(s)}]
      BY <2>2, AddsPick
    <3> QED BY <3>2, <3>3
  <2> QED BY <2>1, <2>2
<1> HIDE DEF Good
<1>2. SUBSET S \subseteq Good
  BY <1>1, SubsetInduction
<1>3. \A s \in SUBSET S : g[s] \in Int
  BY <1>2 DEF Good
<1>4. g = [s \in SUBSET S |-> g[s]]
  BY DEF Adds
<1> QED BY <1>3, <1>4

(* Whichever element is taken out first, the sum is the same.                *)
LEMMA AddsAnyOrder ==
  ASSUME NEW S, IsFiniteSet(S), NEW F, \A x \in S : F[x] \in Int, NEW g, Adds(g, F, S)
  PROVE  \A s \in SUBSET S : \A x \in s : g[s] = F[x] + g[s \ {x}]
<1> DEFINE Good == {s \in SUBSET S : \A x \in s : g[s] = F[x] + g[s \ {x}]}
<1>1. g \in [SUBSET S -> Int]
  BY AddsTyped
<1>2. ASSUME NEW s \in SUBSET S, \A x \in s : s \ {x} \in Good PROVE s \in Good
  <2>1. ASSUME NEW x \in s, NEW p \in s, p = Pick(s) PROVE g[s] = F[x] + g[s \ {x}]
    <3>1. g[s] = F[p] + g[s \ {p}]
      BY <2>1, AddsPick
    <3>2. CASE x # p
      <4>1. s \ {p} \in Good /\ x \in s \ {p} /\ s \ {x} \in Good /\ p \in s \ {x}
        BY <1>2, <3>2
      <4>2. g[s \ {p}] = F[x] + g[(s \ {p}) \ {x}]
        BY <4>1
      <4>3. g[s \ {x}] = F[p] + g[(s \ {x}) \ {p}]
        BY <4>1
      <4>4. (s \ {p}) \ {x} = (s \ {x}) \ {p}
        OBVIOUS
      <4>5. F[p] \in Int /\ F[x] \in Int
        OBVIOUS
      <4>6. (s \ {x}) \ {p} \in SUBSET S
        OBVIOUS
      <4>7. g[(s \ {x}) \ {p}] \in Int
        BY <1>1, <4>6
      <4> DEFINE a == F[p]  b == F[x]  rest == g[(s \ {x}) \ {p}]
                 noP == g[s \ {p}]  noX == g[s \ {x}]  all == g[s]
      <4>8. /\ all = a + noP /\ noP = b + rest /\ noX = a + rest
            /\ a \in Int /\ b \in Int /\ rest \in Int
        BY <3>1, <4>2, <4>3, <4>4, <4>5, <4>7
      <4>9. all = b + noX
        <5> HIDE DEF a, b, rest, noP, noX, all
        <5> QED BY <4>8
      <4> QED BY <4>9
    <3> QED BY <3>1, <3>2
  <2>2. \A x \in s : Pick(s) \in s
    BY PickIn
  <2> QED BY <2>1, <2>2
<1> HIDE DEF Good
<1>3. SUBSET S \subseteq Good
  BY <1>2, SubsetInduction
<1> QED BY <1>3 DEF Good

LEMMA AddsExists ==
  ASSUME NEW S, IsFiniteSet(S), NEW F
  PROVE  \E g : Adds(g, F, S)
<1> DEFINE Solved(U) == \A W \in SUBSET U : \E g : Adds(g, F, W)
           Good == {U \in SUBSET S : Solved(U)}
           G(V) == CHOOSE g : Adds(g, F, V)
<1>1. ASSUME NEW U \in SUBSET S, \A x \in U : U \ {x} \in Good PROVE U \in Good
  <2>1. ASSUME NEW W \in SUBSET U, W # U PROVE \E g : Adds(g, F, W)
    <3>1. PICK x \in U : x \notin W
      BY <2>1
    <3>2. W \in SUBSET (U \ {x}) /\ U \ {x} \in Good
      BY <1>1, <3>1
    <3> QED BY <3>2
  <2>2. \A V \in SUBSET U : V # U => Adds(G(V), F, V)
    BY <2>1
  <2> HIDE DEF G, Good
  <2> DEFINE tail(s) == s \ {Pick(s)}
             h == [s \in SUBSET U |-> IF s = {} THEN 0 ELSE F[Pick(s)] + G(tail(s))[tail(s)]]
  <2>3. ASSUME NEW s \in SUBSET U, s # {}
        PROVE  /\ tail(s) \in SUBSET U /\ tail(s) # U
               /\ G(tail(s))[tail(s)] = h[tail(s)]
    <3>1. Pick(s) \in s
      BY <2>3, PickIn
    <3>2. tail(s) \in SUBSET U /\ tail(s) # U
      BY <3>1
    <3> DEFINE V == tail(s)
    <3>3. Adds(G(V), F, V)
      BY <2>2, <3>2
    <3> HIDE DEF V, tail
    <3>4. CASE V = {}
      BY <3>2, <3>3, <3>4, AddsNone DEF V
    <3>5. CASE V # {}
      <4>1. Pick(V) \in V
        BY <3>5, PickIn
      <4>2. tail(V) \in SUBSET U /\ tail(V) # U /\ tail(V) \subseteq V
        BY <3>2, <4>1 DEF V, tail
      <4>3. Adds(G(tail(V)), F, tail(V))
        BY <2>2, <4>2
      <4>4. IsFiniteSet(tail(V))
        BY <4>2, FS_Subset
      <4>5. G(V)[tail(V)] = G(tail(V))[tail(V)]
        BY <3>3, <4>2, <4>3, <4>4, AddsSame
      <4>6. G(V)[V] = F[Pick(V)] + G(V)[tail(V)]
        BY <3>3, <3>5, AddsPick DEF tail
      <4>7. h[V] = F[Pick(V)] + G(tail(V))[tail(V)]
        BY <3>2, <3>5 DEF V
      <4> QED BY <3>2, <4>5, <4>6, <4>7 DEF V
    <3> QED BY <3>4, <3>5
  <2>4. Adds(h, F, U)
    <3>1. \A s \in SUBSET U : s # {} => h[s] = F[Pick(s)] + h[tail(s)]
      BY <2>3
    <3>2. h = [s \in SUBSET U |-> IF s = {} THEN 0 ELSE F[Pick(s)] + h[s \ {Pick(s)}]]
      BY <3>1
    <3> QED BY <3>2 DEF Adds
  <2>5. Solved(U)
    BY <2>1, <2>4
  <2> QED BY <2>5 DEF Good
<1> HIDE DEF Good
<1>2. SUBSET S \subseteq Good
  BY <1>1, SubsetInduction
<1>3. S \in Good
  BY <1>2
<1> QED BY <1>3 DEF Good

-----------------------------------------------------------------------------
(* SumFunctionOnSet is the value of that recursion.                          *)
LEMMA SumIsAdds ==
  ASSUME NEW D, IsFiniteSet(D), NEW F, NEW g, Adds(g, F, D), NEW S \in SUBSET D
  PROVE  SumFunctionOnSet(F, S) = g[S]
<1> DEFINE it == CHOOSE e : Adds(e, F, S)
<1>1. SumFunctionOnSet(F, S) = it[S]
  BY DEF SumFunctionOnSet, FoldFunctionOnSet, MapThenFoldSet, Adds, Pick
<1>2. IsFiniteSet(S)
  BY FS_Subset
<1>3. Adds(it, F, S)
  BY <1>2, AddsExists
<1> HIDE DEF it
<1>4. it[S] = g[S]
  BY <1>2, <1>3, AddsSame
<1> QED BY <1>1, <1>4

LEMMA SumNone ==
  ASSUME NEW F
  PROVE  SumFunctionOnSet(F, {}) = 0
<1>1. IsFiniteSet({})
  BY FS_EmptySet
<1>2. PICK g : Adds(g, F, {})
  BY <1>1, AddsExists
<1>3. SumFunctionOnSet(F, {}) = g[{}]
  BY <1>1, <1>2, SumIsAdds
<1> QED BY <1>2, <1>3, AddsNone

LEMMA SumStep ==
  ASSUME NEW S, IsFiniteSet(S), NEW F, \A x \in S : F[x] \in Int, NEW x \in S
  PROVE  SumFunctionOnSet(F, S) = F[x] + SumFunctionOnSet(F, S \ {x})
<1>1. PICK g : Adds(g, F, S)
  BY AddsExists
<1>2. g[S] = F[x] + g[S \ {x}]
  BY <1>1, AddsAnyOrder
<1>3. SumFunctionOnSet(F, S) = g[S] /\ SumFunctionOnSet(F, S \ {x}) = g[S \ {x}]
  BY <1>1, SumIsAdds
<1> QED BY <1>2, <1>3

LEMMA SumTyped ==
  ASSUME NEW S, IsFiniteSet(S), NEW F, \A x \in S : F[x] \in Int
  PROVE  SumFunctionOnSet(F, S) \in Int
<1>1. PICK g : Adds(g, F, S)
  BY AddsExists
<1>2. g \in [SUBSET S -> Int]
  BY <1>1, AddsTyped
<1>3. SumFunctionOnSet(F, S) = g[S]
  BY <1>1, SumIsAdds
<1> QED BY <1>2, <1>3

(* Element by element: what holds of the terms holds of the sums.            *)
LEMMA SumMono ==
  ASSUME NEW S, IsFiniteSet(S), NEW F, NEW G,
         \A x \in S : F[x] \in Int /\ G[x] \in Int /\ F[x] <= G[x]
  PROVE  SumFunctionOnSet(F, S) <= SumFunctionOnSet(G, S)
<1> DEFINE Good == {s \in SUBSET S : SumFunctionOnSet(F, s) <= SumFunctionOnSet(G, s)}
<1>1. ASSUME NEW s \in SUBSET S, \A x \in s : s \ {x} \in Good PROVE s \in Good
  <2>1. CASE s = {}
    BY <2>1, SumNone
  <2>2. ASSUME NEW x \in s PROVE s \in Good
    <3>1. IsFiniteSet(s) /\ IsFiniteSet(s \ {x})
      BY FS_Subset
    <3> DEFINE f == SumFunctionOnSet(F, s \ {x})  g == SumFunctionOnSet(G, s \ {x})
               fs == SumFunctionOnSet(F, s)  gs == SumFunctionOnSet(G, s)
               a == F[x]  b == G[x]
    <3>2. fs = a + f
      BY <3>1, SumStep
    <3>3. gs = b + g
      BY <3>1, SumStep
    <3>4. f \in Int
      BY <3>1, SumTyped
    <3>5. g \in Int
      BY <3>1, SumTyped
    <3>6. f <= g /\ a \in Int /\ b \in Int /\ a <= b
      BY <1>1
    <3>7. fs <= gs
      <4> HIDE DEF f, g, fs, gs, a, b
      <4> QED BY <3>2, <3>3, <3>4, <3>5, <3>6
    <3> QED BY <3>7
  <2> QED BY <2>1, <2>2
<1> HIDE DEF Good
<1>2. SUBSET S \subseteq Good
  BY <1>1, SubsetInduction
<1> QED BY <1>2 DEF Good

LEMMA SumPlus ==
  ASSUME NEW S, IsFiniteSet(S), NEW F, NEW G, NEW H,
         \A x \in S : F[x] \in Int /\ G[x] \in Int /\ H[x] = F[x] + G[x]
  PROVE  SumFunctionOnSet(H, S) = SumFunctionOnSet(F, S) + SumFunctionOnSet(G, S)
<1> DEFINE Good == {s \in SUBSET S : SumFunctionOnSet(H, s) = SumFunctionOnSet(F, s) + SumFunctionOnSet(G, s)}
<1>1. ASSUME NEW s \in SUBSET S, \A x \in s : s \ {x} \in Good PROVE s \in Good
  <2>1. CASE s = {}
    BY <2>1, SumNone
  <2>2. ASSUME NEW x \in s PROVE s \in Good
    <3>1. IsFiniteSet(s) /\ IsFiniteSet(s \ {x})
      BY FS_Subset
    <3> DEFINE f == SumFunctionOnSet(F, s \ {x})  g == SumFunctionOnSet(G, s \ {x})
               h == SumFunctionOnSet(H, s \ {x})
               fs == SumFunctionOnSet(F, s)  gs == SumFunctionOnSet(G, s)  hs == SumFunctionOnSet(H, s)
               a == F[x]  b == G[x]  c == H[x]
    <3>0. \A y \in s : F[y] \in Int /\ G[y] \in Int /\ H[y] \in Int
      OBVIOUS
    <3>2. fs = a + f
      BY <3>0, <3>1, SumStep
    <3>3. gs = b + g
      BY <3>0, <3>1, SumStep
    <3>4. hs = c + h
      BY <3>0, <3>1, SumStep
    <3>5. f \in Int
      BY <3>1, SumTyped
    <3>6. g \in Int
      BY <3>1, SumTyped
    <3>7. h = f + g /\ a \in Int /\ b \in Int /\ c = a + b
      BY <1>1
    <3>8. hs = fs + gs
      <4> HIDE DEF f, g, h, fs, gs, hs, a, b, c
      <4> QED BY <3>2, <3>3, <3>4, <3>5, <3>6, <3>7
    <3> QED BY <3>8
  <2> QED BY <2>1, <2>2
<1> HIDE DEF Good
<1>2. SUBSET S \subseteq Good
  BY <1>1, SubsetInduction
<1> QED BY <1>2 DEF Good

(* A part of the terms: the others count for nothing.                        *)
LEMMA SumOfPart ==
  ASSUME NEW S, IsFiniteSet(S), NEW T \in SUBSET S, NEW F, NEW G,
         \A x \in S : F[x] \in Int /\ G[x] = IF x \in T THEN F[x] ELSE 0
  PROVE  SumFunctionOnSet(F, T) = SumFunctionOnSet(G, S)
<1> DEFINE Good == {s \in SUBSET S : SumFunctionOnSet(F, T \cap s) = SumFunctionOnSet(G, s)}
<1>1. ASSUME NEW s \in SUBSET S, \A x \in s : s \ {x} \in Good PROVE s \in Good
  <2>1. CASE s = {}
    <3>1. T \cap s = {}
      BY <2>1
    <3> QED BY <2>1, <3>1, SumNone
  <2>2. ASSUME NEW x \in s PROVE s \in Good
    <3>1. IsFiniteSet(s) /\ IsFiniteSet(s \ {x}) /\ IsFiniteSet(T \cap s)
      BY FS_Subset
    <3>2. \A y \in S : G[y] \in Int
      OBVIOUS
    <3>3. SumFunctionOnSet(G, s) = G[x] + SumFunctionOnSet(G, s \ {x})
      BY <3>1, <3>2, SumStep
    <3>4. SumFunctionOnSet(F, T \cap (s \ {x})) = SumFunctionOnSet(G, s \ {x})
      BY <1>1
    <3>5. CASE x \in T
      <4>1. (T \cap s) \ {x} = T \cap (s \ {x}) /\ x \in T \cap s
        BY <3>5
      <4>2. SumFunctionOnSet(F, T \cap s) = F[x] + SumFunctionOnSet(F, (T \cap s) \ {x})
        BY <3>1, <4>1, SumStep
      <4> QED BY <3>3, <3>4, <3>5, <4>1, <4>2
    <3>6. CASE x \notin T
      <4>1. T \cap s = T \cap (s \ {x})
        BY <3>6
      <4>2. SumFunctionOnSet(G, s \ {x}) \in Int
        BY <3>1, <3>2, SumTyped
      <4>3. G[x] = 0
        BY <3>6
      <4>4. SumFunctionOnSet(G, s) = SumFunctionOnSet(G, s \ {x})
        <5> DEFINE a == G[x]  g == SumFunctionOnSet(G, s \ {x})  gs == SumFunctionOnSet(G, s)
        <5>1. gs = a + g /\ a = 0 /\ g \in Int
          BY <3>3, <4>2, <4>3
        <5>2. gs = g
          <6> HIDE DEF a, g, gs
          <6> QED BY <5>1
        <5> QED BY <5>2
      <4> QED BY <3>4, <4>1, <4>4
    <3> QED BY <3>5, <3>6
  <2> QED BY <2>1, <2>2
<1> HIDE DEF Good
<1>2. SUBSET S \subseteq Good
  BY <1>1, SubsetInduction
<1>3. T \cap S = T
  OBVIOUS
<1> QED BY <1>2, <1>3 DEF Good

(* One term may change, and the sum changes by as much.                      *)
LEMMA SumChange ==
  ASSUME NEW S, IsFiniteSet(S), NEW x \in S, NEW F, NEW G,
         \A y \in S : F[y] \in Int /\ G[y] \in Int,
         \A y \in S \ {x} : F[y] <= G[y]
  PROVE  SumFunctionOnSet(F, S) - F[x] <= SumFunctionOnSet(G, S) - G[x]
<1>1. IsFiniteSet(S \ {x})
  BY FS_Subset
<1> DEFINE f == SumFunctionOnSet(F, S \ {x})  g == SumFunctionOnSet(G, S \ {x})
           fs == SumFunctionOnSet(F, S)  gs == SumFunctionOnSet(G, S)  a == F[x]  b == G[x]
<1>2. fs = a + f
  BY SumStep
<1>3. gs = b + g
  BY SumStep
<1>4. f \in Int /\ g \in Int
  <2>1. f \in Int
    BY <1>1, SumTyped
  <2>2. g \in Int
    BY <1>1, SumTyped
  <2> QED BY <2>1, <2>2
<1>5. f <= g
  BY <1>1, SumMono
<1>6. a \in Int /\ b \in Int
  OBVIOUS
<1>7. fs - a <= gs - b
  <2> HIDE DEF f, g, fs, gs, a, b
  <2> QED BY <1>2, <1>3, <1>4, <1>5, <1>6
<1> QED BY <1>7
=============================================================================
