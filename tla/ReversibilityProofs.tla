------------------------ MODULE ReversibilityProofs ------------------------
(***************************************************************************)
(* What the gate guarantees for every registry, every pair of ceilings and *)
(* every amount already spent; and how weights add up, which the books of  *)
(* the tool service and of the whole system rest on.                       *)
(***************************************************************************)
EXTENDS Reversibility, Functions, FiniteSetTheorems, WellFoundedInduction, TLAPS

\* Every tool, reads included, has a positive weight, so no sequence of
\* charged calls is free.
LEMMA WeightPositive ==
    ASSUME NEW t \in Tool
    PROVE  Weight(t) \in Nat /\ Weight(t) >= 1
<1>1. Risk[t] \in RiskDeclaration
  BY RiskAssumption
<1>2. Risk[t].n_targets \in Nat /\ Risk[t].scope \in Scope
  BY <1>1 DEF RiskDeclaration
<1>3. AtLeastOne(Risk[t].n_targets) \in Nat /\ AtLeastOne(Risk[t].n_targets) >= 1
  BY <1>2 DEF AtLeastOne
<1>4. \A w, n \in Nat : w >= 1 /\ n >= 1 => w * n \in Nat /\ w * n >= 1
  OBVIOUS
<1> DEFINE scope == IF Risk[t].scope = "data" THEN "cluster" ELSE Risk[t].scope
<1>5. scope \in InfraScope
  BY <1>2 DEF Scope, InfraScope
<1>6. InfraWeight[scope] \in Nat /\ InfraWeight[scope] >= 1
  BY <1>5 DEF InfraScope, InfraWeight
<1> QED
  BY <1>3, <1>4, <1>6 DEF Weight

\* What a ruling that lets the agent act alone entails, at once: nothing
\* categorical, both ceilings respected, and an inverse exactly when the
\* decision says there is one.
THEOREM AloneIsBounded ==
    ASSUME NEW t \in Tool, NEW spent \in Nat,
           Rule(t, spent) # "require_human"
    PROVE  /\ Rule(t, spent) \in {"auto_apply", "apply_with_rollback"}
           /\ ~Categorical(t)
           /\ Weight(t) <= AutoCeiling
           /\ spent + Weight(t) <= EpisodeCeiling
           /\ Rule(t, spent) = "apply_with_rollback"
                <=> Risk[t].rollback_tool # None
<1>1. ~NeedsHuman(t, spent)
  BY DEF Rule
<1>2. Weight(t) \in Nat
  BY WeightPositive
<1>3. Weight(t) <= AutoCeiling /\ spent + Weight(t) <= EpisodeCeiling
  BY <1>1, <1>2, CeilingAssumption DEF NeedsHuman, WouldExceed
<1>4. Rule(t, spent) = "apply_with_rollback" <=> Risk[t].reversibility = "compensable"
  BY <1>1 DEF Rule
<1>5. Rule(t, spent) \in {"auto_apply", "apply_with_rollback"}
  BY <1>1 DEF Rule
<1>6. Rule(t, spent) = "apply_with_rollback" <=> Risk[t].rollback_tool # None
  BY <1>4, RegistryAssumption DEF HonestDeclaration
<1> QED
  BY <1>1, <1>3, <1>5, <1>6 DEF NeedsHuman

\* Autonomy is never regained inside an incident: a call that needs a human
\* needs one for ever after, since an EpisodeBudget only grows.
THEOREM AutonomyOnlyShrinks ==
    ASSUME NEW t \in Tool, NEW before \in Nat, NEW after \in Nat,
           before <= after, Rule(t, before) = "require_human"
    PROVE  Rule(t, after) = "require_human"
<1>1. NeedsHuman(t, before)
  BY DEF Rule
<1>2. Weight(t) \in Nat
  BY WeightPositive
<1>3. WouldExceed(before, Weight(t)) => WouldExceed(after, Weight(t))
  BY <1>2, CeilingAssumption DEF WouldExceed
<1>4. NeedsHuman(t, after)
  BY <1>1, <1>3 DEF NeedsHuman
<1> QED
  BY <1>4 DEF Rule

----------------------------------------------------------------------------
\* Adding up: SumFunctionOnSet of the community modules.

\* Among the subsets of a finite set, every kind of set has a smallest one: the
\* form in which induction over what is added up can be used here.
LEMMA Smallest ==
    ASSUME NEW S, IsFiniteSet(S), NEW T \in SUBSET (SUBSET S), T # {}
    PROVE  \E s \in T : \A u \in SUBSET s : u # s => u \notin T
<1> DEFINE R == StrictSubsetOrdering(S)
<1>1. IsWellFoundedOn(R, SUBSET S)
  BY FS_StrictSubsetOrderingWellFounded, FS_FiniteSubsetsOfFinite
<1>2. \A u, s \in SUBSET S : u \subseteq s /\ u # s => <<u, s>> \in R
  BY DEF StrictSubsetOrdering
<1> HIDE DEF R
<1>3. PICK s \in T : \A u \in T : ~(<<u, s>> \in R)
  BY <1>1, WFMin
<1> QED
  BY <1>2, <1>3

\* The element the library's fold takes first.
One(s) == CHOOSE x \in s : TRUE

\* g holds the sum of f over every subset of S, added up as the library does.
AddsUp(g, f, S) ==
    g = [s \in SUBSET S |-> IF s = {} THEN 0 ELSE f[One(s)] + g[s \ {One(s)}]]

LEMMA OneIn == ASSUME NEW s, s # {} PROVE One(s) \in s
BY DEF One

\* The library's sum is read off such a function.
LEMMA SumIs ==
    ASSUME NEW f, NEW S
    PROVE  SumFunctionOnSet(f, S) = (CHOOSE g : AddsUp(g, f, S))[S]
BY DEF SumFunctionOnSet, FoldFunctionOnSet, MapThenFoldSet, AddsUp, One

LEMMA AddsUpAt ==
    ASSUME NEW f, NEW S, NEW g, AddsUp(g, f, S), NEW s \in SUBSET S
    PROVE  g[s] = IF s = {} THEN 0 ELSE f[One(s)] + g[s \ {One(s)}]
BY DEF AddsUp

\* Two of them agree where both are defined.
LEMMA AddsUpOnce ==
    ASSUME NEW f, NEW S, IsFiniteSet(S), NEW V,
           NEW g, AddsUp(g, f, S), NEW h, AddsUp(h, f, V),
           NEW s \in SUBSET S, s \in SUBSET V
    PROVE  g[s] = h[s]
<1> DEFINE Bad == {u \in SUBSET S : u \in SUBSET V /\ g[u] # h[u]}
<1> SUFFICES ASSUME Bad # {} PROVE FALSE
  OBVIOUS
<1>0. Bad \in SUBSET (SUBSET S)
  OBVIOUS
<1> HIDE DEF Bad
<1>1. PICK u \in Bad : \A v \in SUBSET u : v # u => v \notin Bad
  BY <1>0, Smallest
<1> USE DEF Bad
<1>2. u \in SUBSET S /\ u \in SUBSET V /\ g[u] # h[u]
  OBVIOUS
<1>3. u # {}
  BY <1>2, AddsUpAt
<1>4. g[u \ {One(u)}] = h[u \ {One(u)}]
  BY <1>1, <1>2, <1>3, OneIn
<1>5. g[u] = f[One(u)] + g[u \ {One(u)}]
  BY <1>2, <1>3, AddsUpAt
<1>6. h[u] = f[One(u)] + h[u \ {One(u)}]
  <2>1. u \in SUBSET V
    BY <1>2
  <2> QED
    BY <2>1, <1>3 DEF AddsUp
<1> QED
  BY <1>2, <1>4, <1>5, <1>6

\* There is one: if a set has none, a smallest one has none, and its subsets'
\* sums would make one.
LEMMA SumExists ==
    ASSUME NEW f, NEW S, IsFiniteSet(S)
    PROVE  \E g : AddsUp(g, f, S)
<1> DEFINE Bad == {u \in SUBSET S : ~ \E g : AddsUp(g, f, u)}
<1> SUFFICES ASSUME Bad # {} PROVE FALSE
  OBVIOUS
<1>0. Bad \in SUBSET (SUBSET S)
  OBVIOUS
<1> HIDE DEF Bad
<1>1. PICK u \in Bad : \A v \in SUBSET u : v # u => v \notin Bad
  BY <1>0, Smallest
<1> USE DEF Bad
<1>2. u \in SUBSET S /\ ~ \E g : AddsUp(g, f, u)
  OBVIOUS
<1> DEFINE G(v) == CHOOSE g : AddsUp(g, f, v)
<1>3. \A v \in SUBSET u : v # u => AddsUp(G(v), f, v)
  BY <1>1, <1>2
<1>4. \A v \in SUBSET u : IsFiniteSet(v)
  BY <1>2, FS_Subset
<1>5. \A v, w \in SUBSET u : v # u /\ w \subseteq v => G(v)[w] = G(w)[w]
  <2> TAKE v, w \in SUBSET u
  <2> HAVE v # u /\ w \subseteq v
  <2>1. w # u
    OBVIOUS
  <2>2. AddsUp(G(v), f, v) /\ AddsUp(G(w), f, w)
    BY <1>3, <2>1
  <2>3. IsFiniteSet(v)
    BY <1>4
  <2> HIDE DEF G
  <2> QED
    BY <2>2, <2>3, AddsUpOnce
<1> HIDE DEF G
<1> DEFINE h == [s \in SUBSET u |->
                    IF s = {} THEN 0
                    ELSE f[One(s)] + G(s \ {One(s)})[s \ {One(s)}]]
<1>6. \A s \in SUBSET u : s # u => h[s] = G(s)[s]
  <2> TAKE s \in SUBSET u
  <2> HAVE s # u
  <2>1. AddsUp(G(s), f, s)
    BY <1>3
  <2>2. G(s)[s] = IF s = {} THEN 0 ELSE f[One(s)] + G(s)[s \ {One(s)}]
    BY <2>1, AddsUpAt, s \in SUBSET s
  <2>3. G(s)[s \ {One(s)}] = G(s \ {One(s)})[s \ {One(s)}]
    BY <1>5
  <2> QED
    BY <2>2, <2>3
<1>7. \A s \in SUBSET u : s # {} =>
          h[s \ {One(s)}] = G(s \ {One(s)})[s \ {One(s)}]
  BY <1>6, OneIn
<1>8. \A s \in SUBSET u :
          h[s] = IF s = {} THEN 0 ELSE f[One(s)] + h[s \ {One(s)}]
  BY <1>7
<1>9. AddsUp(h, f, u)
  BY <1>8 DEF AddsUp
<1> QED
  BY <1>2, <1>9

\* How a sum is computed.
LEMMA SumStep ==
    ASSUME NEW f, NEW S, IsFiniteSet(S)
    PROVE  SumFunctionOnSet(f, S) =
              IF S = {} THEN 0
              ELSE f[One(S)] + SumFunctionOnSet(f, S \ {One(S)})
<1> DEFINE G(v) == CHOOSE g : AddsUp(g, f, v)
<1> DEFINE T == S \ {One(S)}
<1>1. AddsUp(G(S), f, S)
  BY SumExists
<1>2. IsFiniteSet(T)
  BY FS_Subset
<1>3. AddsUp(G(T), f, T)
  BY <1>2, SumExists
<1>4. SumFunctionOnSet(f, S) = G(S)[S] /\ SumFunctionOnSet(f, T) = G(T)[T]
  BY SumIs
<1> HIDE DEF G
<1>5. G(S)[S] = IF S = {} THEN 0 ELSE f[One(S)] + G(S)[T]
  BY <1>1, AddsUpAt
<1>6. G(S)[T] = G(T)[T]
  BY <1>1, <1>3, AddsUpOnce
<1> QED
  BY <1>4, <1>5, <1>6

\* A sum of naturals is one.
LEMMA SumType ==
    ASSUME NEW f, NEW S, IsFiniteSet(S), \A x \in S : f[x] \in Nat
    PROVE  SumFunctionOnSet(f, S) \in Nat
<1> DEFINE Bad == {u \in SUBSET S : SumFunctionOnSet(f, u) \notin Nat}
<1> SUFFICES ASSUME Bad # {} PROVE FALSE
  OBVIOUS
<1>0. Bad \in SUBSET (SUBSET S)
  OBVIOUS
<1> HIDE DEF Bad
<1>1. PICK u \in Bad : \A v \in SUBSET u : v # u => v \notin Bad
  BY <1>0, Smallest
<1> USE DEF Bad
<1>2. IsFiniteSet(u)
  BY FS_Subset
<1>3. u # {}
  <2>1. u = {} => SumFunctionOnSet(f, u) = 0
    BY <1>2, SumStep
  <2> QED
    BY <2>1
<1>4. SumFunctionOnSet(f, u \ {One(u)}) \in Nat
  BY <1>1, <1>3, OneIn
<1>5. f[One(u)] \in Nat
  BY <1>3, OneIn
<1> QED
  BY <1>2, <1>3, <1>4, <1>5, SumStep

\* The order in which it is added up does not matter.
LEMMA SumSplit ==
    ASSUME NEW f, NEW S, IsFiniteSet(S), \A x \in S : f[x] \in Nat, NEW x \in S
    PROVE  SumFunctionOnSet(f, S) = f[x] + SumFunctionOnSet(f, S \ {x})
<1> DEFINE Sum(u) == SumFunctionOnSet(f, u)
<1> DEFINE Bad == {u \in SUBSET S : \E y \in u : Sum(u) # f[y] + Sum(u \ {y})}
<1> SUFFICES ASSUME Bad # {} PROVE FALSE
  OBVIOUS
<1>0. Bad \in SUBSET (SUBSET S)
  OBVIOUS
<1> HIDE DEF Bad
<1>1. PICK u \in Bad : \A v \in SUBSET u : v # u => v \notin Bad
  BY <1>0, Smallest
<1> USE DEF Bad
<1>2. PICK y \in u : Sum(u) # f[y] + Sum(u \ {y})
  OBVIOUS
<1> DEFINE c == One(u)
<1>3. c \in u
  BY OneIn
<1>4. \A v \in SUBSET u : IsFiniteSet(v) /\ Sum(v) \in Nat
  BY FS_Subset, SumType
<1>5. Sum(u) = f[c] + Sum(u \ {c})
  BY <1>3, <1>4, SumStep
<1>6. c # y
  BY <1>2, <1>5
<1>7. Sum(u \ {c}) = f[y] + Sum((u \ {c}) \ {y})
  BY <1>1, <1>3, <1>6
<1>8. Sum(u \ {y}) = f[c] + Sum((u \ {y}) \ {c})
  BY <1>1, <1>3, <1>6
<1>9. (u \ {c}) \ {y} = (u \ {y}) \ {c}
  OBVIOUS
<1>10. f[c] \in Nat /\ f[y] \in Nat /\ Sum((u \ {y}) \ {c}) \in Nat
  BY <1>3, <1>4
<1> HIDE DEF Sum, c
<1> QED
  BY <1>2, <1>5, <1>7, <1>8, <1>9, <1>10

\* Only the values that are added count.
LEMMA SumSame ==
    ASSUME NEW f, NEW g, NEW S, IsFiniteSet(S), \A x \in S : f[x] = g[x]
    PROVE  SumFunctionOnSet(f, S) = SumFunctionOnSet(g, S)
<1> DEFINE Bad == {u \in SUBSET S :
                      SumFunctionOnSet(f, u) # SumFunctionOnSet(g, u)}
<1> SUFFICES ASSUME Bad # {} PROVE FALSE
  OBVIOUS
<1>0. Bad \in SUBSET (SUBSET S)
  OBVIOUS
<1> HIDE DEF Bad
<1>1. PICK u \in Bad : \A v \in SUBSET u : v # u => v \notin Bad
  BY <1>0, Smallest
<1> USE DEF Bad
<1>2. IsFiniteSet(u)
  BY FS_Subset
<1>3. u # {}
  BY <1>2, SumStep
<1>4. SumFunctionOnSet(f, u \ {One(u)}) = SumFunctionOnSet(g, u \ {One(u)})
  BY <1>1, <1>3, OneIn
<1>5. f[One(u)] = g[One(u)]
  BY <1>3, OneIn
<1> QED
  BY <1>2, <1>3, <1>4, <1>5, SumStep

\* What is left out can only make a sum of naturals smaller.
LEMMA SumOfPart ==
    ASSUME NEW f, NEW S, IsFiniteSet(S), \A x \in S : f[x] \in Nat, NEW T \in SUBSET S
    PROVE  SumFunctionOnSet(f, T) <= SumFunctionOnSet(f, S)
<1> DEFINE Sum(u) == SumFunctionOnSet(f, u)
<1> DEFINE Bad == {u \in SUBSET S : T \subseteq u /\ ~(Sum(T) <= Sum(u))}
<1> SUFFICES ASSUME Bad # {} PROVE FALSE
  OBVIOUS
<1>0. Bad \in SUBSET (SUBSET S)
  OBVIOUS
<1> HIDE DEF Bad
<1>1. PICK u \in Bad : \A v \in SUBSET u : v # u => v \notin Bad
  BY <1>0, Smallest
<1> USE DEF Bad
<1>2. \A v \in SUBSET S : Sum(v) \in Nat
  BY FS_Subset, SumType
<1>3. PICK x \in u : x \notin T
  BY <1>2
<1>4. Sum(T) <= Sum(u \ {x})
  BY <1>1, <1>3
<1>5. Sum(u) = f[x] + Sum(u \ {x})
  BY FS_Subset, SumSplit
<1> QED
  BY <1>2, <1>4, <1>5

\* Where f is not 0.
Support(D, f) == {x \in D : f[x] # 0}

\* One number raised by c raises the sum of all, of which finitely many are
\* not 0.
LEMMA SumRaised ==
    ASSUME NEW D, NEW f \in [D -> Nat], IsFiniteSet(Support(D, f)),
           NEW e \in D, NEW c \in Nat, c # 0,
           NEW g \in [D -> Nat], g[e] = f[e] + c,
           \A x \in D : x # e => g[x] = f[x]
    PROVE  /\ IsFiniteSet(Support(D, g))
           /\ SumFunctionOnSet(f, Support(D, f)) \in Nat
           /\ SumFunctionOnSet(g, Support(D, g)) =
                  SumFunctionOnSet(f, Support(D, f)) + c
<1> DEFINE S == {x \in D : f[x] # 0}
           T == {x \in D : g[x] # 0}
           U == S \ {e}
<1>0. IsFiniteSet(S)
  BY DEF Support
<1>1. g[e] # 0
  OBVIOUS
<1>2. T = S \cup {e} /\ e \in T /\ T \ {e} = U
  BY <1>1
<1>3. IsFiniteSet(T)
  <2> HIDE DEF S, T, U
  <2> QED
    BY <1>0, <1>2, FS_AddElement
<1>4. IsFiniteSet(U)
  BY <1>0, FS_RemoveElement
<1>5. \A x \in T : g[x] \in Nat
  BY <1>1
<1>6. \A x \in S : f[x] \in Nat
  OBVIOUS
<1>7. \A x \in U : f[x] = g[x]
  BY <1>1
<1>8. SumFunctionOnSet(f, U) = SumFunctionOnSet(g, U)
  <2> HIDE DEF S, T, U
  <2>1. \A a, b : (\A x \in U : a[x] = b[x])
                    => SumFunctionOnSet(a, U) = SumFunctionOnSet(b, U)
    BY <1>4, SumSame
  <2> QED
    BY <2>1, <1>7
<1>9. SumFunctionOnSet(g, T) = g[e] + SumFunctionOnSet(g, U)
  <2> HIDE DEF S, T, U
  <2>1. SumFunctionOnSet(g, T) = g[e] + SumFunctionOnSet(g, T \ {e})
    BY <1>2, <1>3, <1>5, SumSplit
  <2> QED
    BY <2>1, <1>2
<1>10. SumFunctionOnSet(f, S) = f[e] + SumFunctionOnSet(f, U)
  <2>1. CASE e \in S
    <3> HIDE DEF S
    <3> QED
      BY <2>1, <1>0, <1>6, SumSplit
  <2>2. CASE e \notin S
    <3>1. U = S /\ f[e] = 0
      BY <2>2
    <3>2. SumFunctionOnSet(f, U) \in Nat
      <4>1. \A x \in U : f[x] \in Nat
        BY <1>6
      <4> HIDE DEF U
      <4> QED
        BY <1>4, <4>1, SumType
    <3> HIDE DEF S, U
    <3> QED
      BY <3>1, <3>2
  <2> QED
    BY <2>1, <2>2
<1>11. SumFunctionOnSet(f, U) \in Nat
  <2>1. \A x \in U : f[x] \in Nat
    BY <1>6
  <2> HIDE DEF U
  <2> QED
    BY <1>4, <2>1, SumType
<1>12. f[e] \in Nat
  OBVIOUS
<1> HIDE DEF S, T, U
<1>13. SumFunctionOnSet(g, T) = SumFunctionOnSet(f, S) + c
       /\ SumFunctionOnSet(f, S) \in Nat
  BY <1>1, <1>8, <1>9, <1>10, <1>11, <1>12
<1> QED
  BY <1>3, <1>13 DEF S, T, Support
=============================================================================
