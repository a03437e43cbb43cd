----------------------------- MODULE SumLemmas ------------------------------
(***************************************************************************)
(* Sums over finite sets, as the community modules define them: what       *)
(* SumFunctionOnSet is when an element is taken out or one value changes.  *)
(* The fold is a recursive function on subsets; it exists, and facts about *)
(* it hold, by induction along the well-founded order of finite subsets.   *)
(***************************************************************************)
EXTENDS Functions, FiniteSetTheorems, WellFoundedInduction, TLAPS

\* The element the fold takes out of a set first.
Picked(s) == CHOOSE x \in s : TRUE

\* g is the function on the subsets of T that the fold recurses through.
FoldsTo(g, f, T) ==
  g = [s \in SUBSET T |-> IF s = {} THEN 0
                          ELSE f[Picked(s)] + g[s \ {Picked(s)}]]

\* A non-empty collection of subsets of a finite set has a smallest member.
LEMMA SmallestSubset ==
  ASSUME NEW S, IsFiniteSet(S), NEW B \in SUBSET (SUBSET S), B # {}
  PROVE  \E T \in B : \A U \in B : U \subseteq T => U = T
<1>1. IsWellFoundedOn(StrictSubsetOrdering(S), SUBSET S)
  BY FS_StrictSubsetOrderingWellFounded, FS_FiniteSubsetsOfFinite
<1>2. PICK T \in B : \A U \in B : ~ (<<U, T>> \in StrictSubsetOrdering(S))
  BY <1>1, WFMin
<1> QED BY <1>2 DEF StrictSubsetOrdering

\* Induction on the subsets of a finite set, with a set in place of a predicate.
LEMMA SubsetInduction ==
  ASSUME NEW S, IsFiniteSet(S), NEW G,
         \A T \in SUBSET S : (\A U \in SUBSET T : U # T => U \in G) => T \in G
  PROVE  \A T \in SUBSET S : T \in G
<1> DEFINE B == {T \in SUBSET S : T \notin G}
<1> SUFFICES ASSUME B # {} PROVE FALSE
  OBVIOUS
<1>1. PICK T \in B : \A U \in B : U \subseteq T => U = T
  <2>1. B \in SUBSET (SUBSET S)
    OBVIOUS
  <2> HIDE DEF B
  <2> QED BY <2>1, SmallestSubset
<1>2. \A U \in SUBSET T : U # T => U \in G
  BY <1>1
<1> QED BY <1>1, <1>2

\* A non-empty finite set of integers has a least member.
LEMMA LeastMember ==
  ASSUME NEW S, IsFiniteSet(S), S # {}
  PROVE  S \subseteq Int => \E x \in S : \A y \in S : x <= y
<1> DEFINE Below(x) == {y \in S : y <= x}
           B == {Below(x) : x \in S}
<1>1. B \in SUBSET (SUBSET S) /\ B # {}
  OBVIOUS
<1>2. \E T \in B : \A U \in B : U \subseteq T => U = T
  <2> HIDE DEF B
  <2> QED BY <1>1, SmallestSubset
<1> SUFFICES ASSUME S \subseteq Int
             PROVE  \E x \in S : \A y \in S : x <= y
  OBVIOUS
<1>3. PICK x \in S : \A U \in B : U \subseteq Below(x) => U = Below(x)
  BY <1>2
<1>4. ASSUME NEW y \in S, ~(x <= y) PROVE FALSE
  <2>1. x \in Int /\ y \in Int /\ y < x
    BY <1>4
  <2>2. x \notin Below(y) /\ x \in Below(x)
    BY <2>1
  <2>3. Below(y) \subseteq Below(x)
    <3>1. \A z \in S : z <= y => z <= x
      BY <2>1
    <3> QED BY <3>1
  <2>4. Below(y) = Below(x)
    BY <1>3, <2>3
  <2> QED BY <2>2, <2>4
<1> QED BY <1>4

\* A non-empty set has its picked element.
LEMMA PickedIn == ASSUME NEW s, s # {} PROVE Picked(s) \in s
BY DEF Picked

LEMMA FoldsStep ==
  ASSUME NEW f, NEW T, NEW g, FoldsTo(g, f, T), NEW s \in SUBSET T
  PROVE  g[s] = IF s = {} THEN 0 ELSE f[Picked(s)] + g[s \ {Picked(s)}]
<1> DEFINE r == [u \in SUBSET T |-> IF u = {} THEN 0
                          ELSE f[Picked(u)] + g[u \ {Picked(u)}]]
<1>1. g = r
  BY DEF FoldsTo
<1>2. r[s] = IF s = {} THEN 0 ELSE f[Picked(s)] + g[s \ {Picked(s)}]
  OBVIOUS
<1> QED BY <1>1, <1>2

\* There is one way to fold.
LEMMA FoldsUnique ==
  ASSUME NEW f, NEW T, NEW U, IsFiniteSet(T), NEW g, NEW h,
         FoldsTo(g, f, T), FoldsTo(h, f, U), NEW s \in SUBSET (T \cap U)
  PROVE  g[s] = h[s]
<1> DEFINE G == {t \in SUBSET (T \cap U) : g[t] = h[t]}
<1>1. IsFiniteSet(T \cap U)
  BY FS_Subset
<1>2. ASSUME NEW t \in SUBSET (T \cap U), \A u \in SUBSET t : u # t => u \in G
      PROVE  t \in G
  <2>1. CASE t = {}
    BY <2>1, FoldsStep
  <2>2. CASE t # {}
    <3> DEFINE u == t \ {Picked(t)}
    <3>1. u \in SUBSET t /\ u # t
      BY <2>2, PickedIn
    <3>2. g[u] = h[u]
      BY <3>1, <1>2
    <3>3. t \in SUBSET T /\ t \in SUBSET U
      OBVIOUS
    <3>4. g[t] = f[Picked(t)] + g[u]
      BY <2>2, <3>3, FoldsStep
    <3>5. h[t] = f[Picked(t)] + h[u]
      BY <2>2, <3>3, FoldsStep
    <3> QED BY <3>2, <3>4, <3>5
  <2> QED BY <2>1, <2>2
<1>3. \A t \in SUBSET (T \cap U) : t \in G
  <2> DEFINE R == T \cap U
  <2>1. \A t \in SUBSET R : (\A u \in SUBSET t : u # t => u \in G) => t \in G
    BY <1>2
  <2>2. IsFiniteSet(R)
    BY <1>1
  <2> HIDE DEF G, R
  <2>3. \A t \in SUBSET R : t \in G
    BY <2>1, <2>2, SubsetInduction
  <2> QED BY <2>3 DEF R
<1> QED BY <1>3

\* Every finite set can be folded.
LEMMA FoldsExists ==
  ASSUME NEW f, NEW S, IsFiniteSet(S)
  PROVE  \E g : FoldsTo(g, f, S)
<1> DEFINE G == {T \in SUBSET S : \E g : FoldsTo(g, f, T)}
           Of(u) == CHOOSE g : FoldsTo(g, f, u)
<1>1. ASSUME NEW T \in SUBSET S, \A U \in SUBSET T : U # T => U \in G
      PROVE  T \in G
  <2> DEFINE Rest(s) == s \ {Picked(s)}
             h == [s \in SUBSET T |-> IF s = {} THEN 0
                                      ELSE f[Picked(s)] + Of(Rest(s))[Rest(s)]]
  <2>1. ASSUME NEW s \in SUBSET T, s # {}
        PROVE  Of(Rest(s))[Rest(s)] = h[Rest(s)]
    <3> DEFINE u == Rest(s)
    <3>1. u \in SUBSET T /\ u # T /\ IsFiniteSet(u)
      BY <2>1, PickedIn, FS_Subset
    <3>2. FoldsTo(Of(u), f, u)
      BY <3>1, <1>1
    <3>3. CASE u = {}
      BY <3>1, <3>2, <3>3, FoldsStep
    <3>4. CASE u # {}
      <4> DEFINE v == Rest(u)
      <4>1. v \in SUBSET u /\ v \in SUBSET T /\ v # T
        BY <3>1
      <4>2. FoldsTo(Of(v), f, v)
        BY <4>1, <1>1
      <4>3. Of(u)[v] = Of(v)[v]
        <5>1. v \in SUBSET (u \cap v)
          BY <4>1
        <5> HIDE DEF Of, Rest, u, v
        <5> QED BY <3>1, <3>2, <4>2, <5>1, FoldsUnique
      <4>4. Of(u)[u] = f[Picked(u)] + Of(u)[v]
        <5>1. u \in SUBSET u
          OBVIOUS
        <5> HIDE DEF Of, u
        <5> QED BY <3>2, <3>4, <5>1, FoldsStep
      <4>5. h[u] = f[Picked(u)] + Of(v)[v]
        BY <3>1, <3>4
      <4> QED BY <4>3, <4>4, <4>5
    <3> QED BY <3>3, <3>4
  <2>2. h = [s \in SUBSET T |-> IF s = {} THEN 0
                                ELSE f[Picked(s)] + h[s \ {Picked(s)}]]
    <3> DEFINE B(s) == IF s = {} THEN 0 ELSE f[Picked(s)] + h[s \ {Picked(s)}]
    <3>1. ASSUME NEW s \in SUBSET T PROVE h[s] = B(s)
      <4>1. CASE s = {}
        BY <4>1
      <4>2. CASE s # {}
        <5>1. h[s] = f[Picked(s)] + Of(Rest(s))[Rest(s)]
          BY <4>2
        <5>2. Of(Rest(s))[Rest(s)] = h[Rest(s)]
          BY <4>2, <2>1
        <5>3. B(s) = f[Picked(s)] + h[Rest(s)]
          BY <4>2
        <5> QED BY <5>1, <5>2, <5>3
      <4> QED BY <4>1, <4>2
    <3>2. h = [s \in SUBSET T |-> h[s]]
      OBVIOUS
    <3>3. h = [s \in SUBSET T |-> B(s)]
      <4> HIDE DEF h, B
      <4> QED BY <3>1, <3>2
    <3> QED BY <3>3
  <2>3. FoldsTo(h, f, T)
    <3> HIDE DEF h
    <3> QED BY <2>2 DEF FoldsTo
  <2> QED BY <2>3
<1>2. \A T \in SUBSET S : T \in G
  <2> HIDE DEF G
  <2> QED BY <1>1, SubsetInduction
<1> QED BY <1>2

\* The sum over a finite set is what the fold of it ends in.
LEMMA SumIsFold ==
  ASSUME NEW f, NEW S, IsFiniteSet(S)
  PROVE  /\ FoldsTo(CHOOSE g : FoldsTo(g, f, S), f, S)
         /\ SumFunctionOnSet(f, S) = (CHOOSE g : FoldsTo(g, f, S))[S]
<1>1. FoldsTo(CHOOSE g : FoldsTo(g, f, S), f, S)
  BY FoldsExists
<1>2. SumFunctionOnSet(f, S) = (CHOOSE g : FoldsTo(g, f, S))[S]
  BY DEF SumFunctionOnSet, FoldFunctionOnSet, MapThenFoldSet, Picked, FoldsTo
<1> QED BY <1>1, <1>2

LEMMA SumEmpty == ASSUME NEW f PROVE SumFunctionOnSet(f, {}) = 0
<1>1. IsFiniteSet({})
  BY FS_EmptySet
<1> DEFINE g == CHOOSE g : FoldsTo(g, f, {})
<1>2. FoldsTo(g, f, {}) /\ SumFunctionOnSet(f, {}) = g[{}]
  BY <1>1, SumIsFold
<1>3. {} \in SUBSET {}
  OBVIOUS
<1> HIDE DEF g
<1>4. g[{}] = 0
  BY <1>2, <1>3, FoldsStep
<1> QED BY <1>2, <1>4

\* The definition, one element unfolded.
LEMMA SumPicked ==
  ASSUME NEW f, NEW S, IsFiniteSet(S), S # {}
  PROVE  SumFunctionOnSet(f, S)
           = f[Picked(S)] + SumFunctionOnSet(f, S \ {Picked(S)})
<1> DEFINE R == S \ {Picked(S)}
           g == CHOOSE g : FoldsTo(g, f, S)
           h == CHOOSE h : FoldsTo(h, f, R)
<1>1. IsFiniteSet(R) /\ R \in SUBSET (S \cap R) /\ S \in SUBSET S
  BY FS_Subset
<1>2. FoldsTo(g, f, S) /\ SumFunctionOnSet(f, S) = g[S]
  BY SumIsFold
<1>3. FoldsTo(h, f, R) /\ SumFunctionOnSet(f, R) = h[R]
  <2> HIDE DEF R
  <2> QED BY <1>1, SumIsFold
<1>4. g[S] = f[Picked(S)] + g[R]
  <2> HIDE DEF g
  <2> QED BY <1>1, <1>2, FoldsStep
<1>5. g[R] = h[R]
  <2> HIDE DEF g, h, R
  <2> QED BY <1>1, <1>2, <1>3, FoldsUnique
<1> QED BY <1>2, <1>3, <1>4, <1>5

\* A sum of integers is one, and of naturals.
LEMMA SumInt ==
  ASSUME NEW f, NEW S, IsFiniteSet(S), \A x \in S : f[x] \in Int
  PROVE  \A T \in SUBSET S : SumFunctionOnSet(f, T) \in Int
<1> DEFINE G == {T \in SUBSET S : SumFunctionOnSet(f, T) \in Int}
<1>1. ASSUME NEW T \in SUBSET S, \A U \in SUBSET T : U # T => U \in G
      PROVE  T \in G
  <2>1. CASE T = {}
    BY <2>1, SumEmpty
  <2>2. CASE T # {}
    <3> DEFINE U == T \ {Picked(T)}
    <3>1. Picked(T) \in S /\ U \in SUBSET T /\ U # T
      BY <2>2, PickedIn
    <3>2. SumFunctionOnSet(f, U) \in Int
      BY <3>1, <1>1
    <3>3. SumFunctionOnSet(f, T) = f[Picked(T)] + SumFunctionOnSet(f, U)
      BY <2>2, SumPicked, FS_Subset
    <3> QED BY <3>1, <3>2, <3>3
  <2> QED BY <2>1, <2>2
<1> HIDE DEF G
<1>2. \A T \in SUBSET S : T \in G
  BY <1>1, SubsetInduction
<1> QED BY <1>2 DEF G

LEMMA SumNat ==
  ASSUME NEW f, NEW S, IsFiniteSet(S), \A x \in S : f[x] \in Nat
  PROVE  \A T \in SUBSET S : SumFunctionOnSet(f, T) \in Nat
<1> DEFINE G == {T \in SUBSET S : SumFunctionOnSet(f, T) \in Nat}
<1>1. ASSUME NEW T \in SUBSET S, \A U \in SUBSET T : U # T => U \in G
      PROVE  T \in G
  <2>1. CASE T = {}
    BY <2>1, SumEmpty
  <2>2. CASE T # {}
    <3> DEFINE U == T \ {Picked(T)}
    <3>1. Picked(T) \in S /\ U \in SUBSET T /\ U # T
      BY <2>2, PickedIn
    <3>2. SumFunctionOnSet(f, U) \in Nat
      BY <3>1, <1>1
    <3>3. SumFunctionOnSet(f, T) = f[Picked(T)] + SumFunctionOnSet(f, U)
      BY <2>2, SumPicked, FS_Subset
    <3> QED BY <3>1, <3>2, <3>3
  <2> QED BY <2>1, <2>2
<1> HIDE DEF G
<1>2. \A T \in SUBSET S : T \in G
  BY <1>1, SubsetInduction
<1> QED BY <1>2 DEF G

\* Any element can be taken out first.
LEMMA SumOut ==
  ASSUME NEW f, NEW S, IsFiniteSet(S), \A x \in S : f[x] \in Int
  PROVE  \A T \in SUBSET S : \A x \in T :
           SumFunctionOnSet(f, T) = f[x] + SumFunctionOnSet(f, T \ {x})
<1> DEFINE Out(T, x) == SumFunctionOnSet(f, T) = f[x] + SumFunctionOnSet(f, T \ {x})
           G == {T \in SUBSET S : \A x \in T : Out(T, x)}
<1>1. ASSUME NEW T \in SUBSET S, \A U \in SUBSET T : U # T => U \in G
      PROVE  T \in G
  <2> SUFFICES ASSUME NEW x \in T PROVE Out(T, x)
    OBVIOUS
  <2> DEFINE p == Picked(T)
  <2>1. p \in T /\ IsFiniteSet(T)
    BY PickedIn, FS_Subset
  <2>2. SumFunctionOnSet(f, T) = f[p] + SumFunctionOnSet(f, T \ {p})
    BY <2>1, SumPicked
  <2>3. CASE x = p
    BY <2>2, <2>3
  <2>4. CASE x # p
    <3> HIDE DEF p
    <3> DEFINE U == T \ {p}
               V == T \ {x}
    <3>1. U \in G /\ V \in G /\ x \in U /\ p \in V
      BY <1>1, <2>1, <2>4
    <3>2. Out(U, x) /\ Out(V, p)
      BY <3>1
    <3>3. U \ {x} = V \ {p}
      OBVIOUS
    <3>4. SumFunctionOnSet(f, U \ {x}) \in Int
      BY SumInt
    <3>5. f[x] \in Int /\ f[p] \in Int
      BY <2>1
    <3>6. SumFunctionOnSet(f, U) = f[x] + SumFunctionOnSet(f, U \ {x})
      BY <3>2
    <3>7. SumFunctionOnSet(f, V) = f[p] + SumFunctionOnSet(f, U \ {x})
      BY <3>2, <3>3
    <3>8. SumFunctionOnSet(f, T) = f[x] + SumFunctionOnSet(f, V)
      BY <2>2, <3>4, <3>5, <3>6, <3>7
    <3> QED BY <3>8
  <2> QED BY <2>3, <2>4
<1> HIDE DEF G
<1>2. \A T \in SUBSET S : T \in G
  BY <1>1, SubsetInduction
<1> QED BY <1>2 DEF G

\* A sum depends on the values in the set alone.
LEMMA SumSame ==
  ASSUME NEW f, NEW g, NEW S, IsFiniteSet(S), \A x \in S : f[x] = g[x]
  PROVE  \A T \in SUBSET S : SumFunctionOnSet(f, T) = SumFunctionOnSet(g, T)
<1> DEFINE G == {T \in SUBSET S : SumFunctionOnSet(f, T) = SumFunctionOnSet(g, T)}
<1>1. ASSUME NEW T \in SUBSET S, \A U \in SUBSET T : U # T => U \in G
      PROVE  T \in G
  <2>1. CASE T = {}
    BY <2>1, SumEmpty
  <2>2. CASE T # {}
    <3> DEFINE U == T \ {Picked(T)}
    <3>1. Picked(T) \in S /\ U \in SUBSET T /\ U # T
      BY <2>2, PickedIn
    <3>2. SumFunctionOnSet(f, U) = SumFunctionOnSet(g, U)
      BY <3>1, <1>1
    <3>3. SumFunctionOnSet(f, T) = f[Picked(T)] + SumFunctionOnSet(f, U)
      BY <2>2, SumPicked, FS_Subset
    <3>4. SumFunctionOnSet(g, T) = g[Picked(T)] + SumFunctionOnSet(g, U)
      BY <2>2, SumPicked, FS_Subset
    <3> QED BY <3>1, <3>2, <3>3, <3>4
  <2> QED BY <2>1, <2>2
<1> HIDE DEF G
<1>2. \A T \in SUBSET S : T \in G
  BY <1>1, SubsetInduction
<1> QED BY <1>2 DEF G

\* One value changes, and the sum by as much.
LEMMA SumChange ==
  ASSUME NEW f, NEW g, NEW S, IsFiniteSet(S), NEW x \in S,
         \A y \in S : f[y] \in Int /\ g[y] \in Int,
         \A y \in S \ {x} : g[y] = f[y]
  PROVE  SumFunctionOnSet(g, S) = SumFunctionOnSet(f, S) - f[x] + g[x]
<1>1. SumFunctionOnSet(f, S) = f[x] + SumFunctionOnSet(f, S \ {x})
  BY SumOut
<1>2. SumFunctionOnSet(g, S) = g[x] + SumFunctionOnSet(g, S \ {x})
  BY SumOut
<1>3. SumFunctionOnSet(f, S \ {x}) = SumFunctionOnSet(g, S \ {x})
  <2>1. IsFiniteSet(S \ {x})
    BY FS_Subset
  <2> QED BY <2>1, SumSame
<1>4. SumFunctionOnSet(f, S \ {x}) \in Int
  BY SumInt
<1> QED BY <1>1, <1>2, <1>3, <1>4

\* A member of a sum of naturals is no more than the sum.
LEMMA SumBounds ==
  ASSUME NEW f, NEW S, IsFiniteSet(S), \A x \in S : f[x] \in Nat, NEW x \in S
  PROVE  f[x] <= SumFunctionOnSet(f, S)
<1>1. SumFunctionOnSet(f, S) = f[x] + SumFunctionOnSet(f, S \ {x})
  BY SumOut
<1>2. SumFunctionOnSet(f, S \ {x}) \in Nat
  BY SumNat
<1> QED BY <1>1, <1>2

\* The sum of a function over its domain, and what it is when one value moves.
LEMMA SumOfFunction ==
  ASSUME NEW S, IsFiniteSet(S), NEW f \in [S -> Int]
  PROVE  SumFunction(f) = SumFunctionOnSet(f, S) /\ SumFunction(f) \in Int
<1>1. DOMAIN f = S
  OBVIOUS
<1>2. SumFunction(f) = SumFunctionOnSet(f, S)
  BY <1>1 DEF SumFunction
<1>3. SumFunctionOnSet(f, S) \in Int
  BY SumInt
<1> QED BY <1>2, <1>3

LEMMA SumMoves ==
  ASSUME NEW S, IsFiniteSet(S), NEW f \in [S -> Int], NEW g \in [S -> Int],
         NEW x \in S, NEW d \in Int,
         g[x] = f[x] + d, \A y \in S \ {x} : g[y] = f[y]
  PROVE  SumFunction(f) \in Int /\ SumFunction(g) = SumFunction(f) + d
<1>1. SumFunctionOnSet(g, S) = SumFunctionOnSet(f, S) - f[x] + g[x]
  BY SumChange
<1>2. /\ SumFunction(f) = SumFunctionOnSet(f, S) /\ SumFunction(f) \in Int
      /\ SumFunction(g) = SumFunctionOnSet(g, S)
  BY SumOfFunction
<1>3. f[x] \in Int
  OBVIOUS
<1> QED BY <1>1, <1>2, <1>3

\* A sum of zeros.
LEMMA SumZeros ==
  ASSUME NEW f, NEW S, IsFiniteSet(S), \A x \in S : f[x] = 0
  PROVE  \A T \in SUBSET S : SumFunctionOnSet(f, T) = 0
<1> DEFINE G == {T \in SUBSET S : SumFunctionOnSet(f, T) = 0}
<1>1. ASSUME NEW T \in SUBSET S, \A U \in SUBSET T : U # T => U \in G
      PROVE  T \in G
  <2>1. CASE T = {}
    BY <2>1, SumEmpty
  <2>2. CASE T # {}
    <3> DEFINE U == T \ {Picked(T)}
    <3>1. Picked(T) \in S /\ U \in SUBSET T /\ U # T
      BY <2>2, PickedIn
    <3>2. SumFunctionOnSet(f, U) = 0
      BY <3>1, <1>1
    <3>3. SumFunctionOnSet(f, T) = f[Picked(T)] + SumFunctionOnSet(f, U)
      BY <2>2, SumPicked, FS_Subset
    <3> QED BY <3>1, <3>2, <3>3
  <2> QED BY <2>1, <2>2
<1> HIDE DEF G
<1>2. \A T \in SUBSET S : T \in G
  BY <1>1, SubsetInduction
<1> QED BY <1>2 DEF G

LEMMA SumOfZeros ==
  ASSUME NEW S, IsFiniteSet(S), NEW f, f = [x \in S |-> 0]
  PROVE  SumFunction(f) = 0
<1>1. f \in [S -> Int] /\ \A x \in S : f[x] = 0
  OBVIOUS
<1> QED BY <1>1, SumZeros, SumOfFunction

\* The sum of equal values is as many times that value as there are of them.
LEMMA SumConstant ==
  ASSUME NEW f, NEW S, IsFiniteSet(S), NEW c \in Int, \A x \in S : f[x] = c
  PROVE  \A T \in SUBSET S : SumFunctionOnSet(f, T) = c * Cardinality(T)
<1> DEFINE G == {T \in SUBSET S : SumFunctionOnSet(f, T) = c * Cardinality(T)}
<1>1. ASSUME NEW T \in SUBSET S, \A U \in SUBSET T : U # T => U \in G
      PROVE  T \in G
  <2>0. IsFiniteSet(T)
    BY FS_Subset
  <2>1. CASE T = {}
    BY <2>1, SumEmpty, FS_EmptySet
  <2>2. CASE T # {}
    <3> DEFINE U == T \ {Picked(T)}
    <3>1. Picked(T) \in S /\ Picked(T) \in T /\ U \in SUBSET T /\ U # T
      BY <2>2, PickedIn
    <3>2. SumFunctionOnSet(f, U) = c * Cardinality(U)
      BY <1>1, <3>1
    <3>3. SumFunctionOnSet(f, T) = f[Picked(T)] + SumFunctionOnSet(f, U)
      BY <2>0, <2>2, SumPicked
    <3>4. Cardinality(U) = Cardinality(T) - 1 /\ Cardinality(T) \in Nat
      BY <2>0, <3>1, FS_RemoveElement, FS_CardinalityType
    <3>5. f[Picked(T)] = c
      BY <3>1
    <3> DEFINE n == Cardinality(U)
    <3>6. n \in Int /\ Cardinality(T) = n + 1
      BY <3>4
    <3> HIDE DEF U, n
    <3>7. c * (n + 1) = c * n + c
      BY <3>6
    <3>8. SumFunctionOnSet(f, T) = c + c * n
      BY <3>2, <3>3, <3>5 DEF n
    <3>9. c * n \in Int
      BY <3>6
    <3> QED BY <3>6, <3>7, <3>8, <3>9
  <2> QED BY <2>1, <2>2
<1> HIDE DEF G
<1>2. \A T \in SUBSET S : T \in G
  BY <1>1, SubsetInduction
<1> QED BY <1>2 DEF G

\* What is zero does not count.
LEMMA SumOutside ==
  ASSUME NEW f, NEW S, IsFiniteSet(S), \A x \in S : f[x] \in Int,
         NEW R \in SUBSET S, \A x \in S \ R : f[x] = 0
  PROVE  SumFunctionOnSet(f, S) = SumFunctionOnSet(f, R)
<1> DEFINE G == {T \in SUBSET S :
                   SumFunctionOnSet(f, T) = SumFunctionOnSet(f, T \cap R)}
<1>1. ASSUME NEW T \in SUBSET S, \A U \in SUBSET T : U # T => U \in G
      PROVE  T \in G
  <2>1. CASE T \subseteq R
    <3>1. T \cap R = T
      BY <2>1
    <3> QED BY <3>1
  <2>2. CASE ~(T \subseteq R)
    <3>1. PICK x \in T : x \notin R
      BY <2>2
    <3> DEFINE U == T \ {x}
    <3>2. U \in SUBSET T /\ U # T /\ U \cap R = T \cap R /\ U \in SUBSET S
      BY <3>1
    <3>3. SumFunctionOnSet(f, U) = SumFunctionOnSet(f, T \cap R)
      BY <1>1, <3>2
    <3>4. SumFunctionOnSet(f, T) = f[x] + SumFunctionOnSet(f, U)
      BY <3>1, SumOut
    <3>5. f[x] = 0 /\ SumFunctionOnSet(f, U) \in Int
      BY <3>1, <3>2, SumInt
    <3> HIDE DEF U
    <3> QED BY <3>3, <3>4, <3>5
  <2> QED BY <2>1, <2>2
<1> HIDE DEF G
<1>2. S \in G
  BY <1>1, SubsetInduction
<1>3. S \cap R = R
  OBVIOUS
<1> QED BY <1>2, <1>3 DEF G

\* The sum of two functions added up, and a sum of what is no more.
LEMMA SumPlus ==
  ASSUME NEW f, NEW g, NEW h, NEW S, IsFiniteSet(S),
         \A x \in S : f[x] \in Int /\ g[x] \in Int /\ h[x] = f[x] + g[x]
  PROVE  \A T \in SUBSET S :
           SumFunctionOnSet(h, T) = SumFunctionOnSet(f, T) + SumFunctionOnSet(g, T)
<1> DEFINE G == {T \in SUBSET S : SumFunctionOnSet(h, T)
                                    = SumFunctionOnSet(f, T) + SumFunctionOnSet(g, T)}
<1>1. ASSUME NEW T \in SUBSET S, \A U \in SUBSET T : U # T => U \in G
      PROVE  T \in G
  <2>1. CASE T = {}
    BY <2>1, SumEmpty
  <2>2. CASE T # {}
    <3> DEFINE U == T \ {Picked(T)}
    <3>1. Picked(T) \in S /\ U \in SUBSET T /\ U # T
      BY <2>2, PickedIn
    <3>2. SumFunctionOnSet(h, U) = SumFunctionOnSet(f, U) + SumFunctionOnSet(g, U)
      BY <3>1, <1>1
    <3>3. SumFunctionOnSet(f, T) = f[Picked(T)] + SumFunctionOnSet(f, U)
      BY <2>2, SumPicked, FS_Subset
    <3>4. SumFunctionOnSet(g, T) = g[Picked(T)] + SumFunctionOnSet(g, U)
      BY <2>2, SumPicked, FS_Subset
    <3>5. SumFunctionOnSet(h, T) = h[Picked(T)] + SumFunctionOnSet(h, U)
      BY <2>2, SumPicked, FS_Subset
    <3>6. SumFunctionOnSet(f, U) \in Int /\ SumFunctionOnSet(g, U) \in Int
      BY <3>1, SumInt
    <3> QED BY <3>1, <3>2, <3>3, <3>4, <3>5, <3>6
  <2> QED BY <2>1, <2>2
<1> HIDE DEF G
<1>2. \A T \in SUBSET S : T \in G
  BY <1>1, SubsetInduction
<1> QED BY <1>2 DEF G

LEMMA SumMonotone ==
  ASSUME NEW S, IsFiniteSet(S), NEW f \in [S -> Nat], NEW g \in [S -> Nat],
         \A x \in S : f[x] <= g[x]
  PROVE  /\ SumFunction(f) \in Nat /\ SumFunction(g) \in Nat
         /\ SumFunction(f) <= SumFunction(g)
<1> DEFINE d == [x \in S |-> g[x] - f[x]]
<1>1. /\ \A x \in S : d[x] \in Nat /\ f[x] \in Int /\ d[x] \in Int /\ g[x] = f[x] + d[x]
      /\ \A x \in S : f[x] \in Nat /\ g[x] \in Nat
      /\ f \in [S -> Int] /\ g \in [S -> Int]
  OBVIOUS
<1> HIDE DEF d
<1>2. SumFunctionOnSet(g, S) = SumFunctionOnSet(f, S) + SumFunctionOnSet(d, S)
  BY <1>1, SumPlus
<1>3. SumFunctionOnSet(d, S) \in Nat /\ SumFunctionOnSet(f, S) \in Nat
  BY <1>1, SumNat
<1>4. SumFunction(f) = SumFunctionOnSet(f, S) /\ SumFunction(g) = SumFunctionOnSet(g, S)
  BY <1>1, SumOfFunction
<1> QED BY <1>2, <1>3, <1>4

\* What is taken from some is missing in the sum.
LEMMA SumTaken ==
  ASSUME NEW S, IsFiniteSet(S), NEW R \in SUBSET S, NEW f \in [S -> Int],
         NEW h \in [R -> Int], NEW g,
         g = [x \in S |-> IF x \in R THEN f[x] - h[x] ELSE f[x]]
  PROVE  /\ SumFunction(h) \in Int /\ SumFunction(f) \in Int
         /\ SumFunction(g) = SumFunction(f) - SumFunction(h)
<1> DEFINE k == [x \in S |-> IF x \in R THEN h[x] ELSE 0]
<1>1. /\ \A x \in S : k[x] \in Int /\ g[x] \in Int /\ f[x] = g[x] + k[x]
      /\ g \in [S -> Int] /\ k \in [S -> Int]
      /\ \A x \in S \ R : k[x] = 0
      /\ \A x \in R : k[x] = h[x]
  OBVIOUS
<1>2. IsFiniteSet(R)
  BY FS_Subset
<1> HIDE DEF k
<1>3. SumFunctionOnSet(f, S) = SumFunctionOnSet(g, S) + SumFunctionOnSet(k, S)
  BY <1>1, SumPlus
<1>4. SumFunctionOnSet(k, S) = SumFunctionOnSet(k, R)
  BY <1>1, SumOutside
<1>5. SumFunctionOnSet(k, R) = SumFunctionOnSet(h, R)
  BY <1>1, <1>2, SumSame
<1>6. /\ SumFunction(f) = SumFunctionOnSet(f, S) /\ SumFunction(f) \in Int
      /\ SumFunction(g) = SumFunctionOnSet(g, S) /\ SumFunction(g) \in Int
      /\ SumFunction(h) = SumFunctionOnSet(h, R) /\ SumFunction(h) \in Int
  BY <1>1, <1>2, SumOfFunction
<1> QED BY <1>3, <1>4, <1>5, <1>6

-----------------------------------------------------------------------------
(* Folds along a sequence, and induction along the numbers.                   *)

\* What holds of 0, and of i + 1 if it does of i, holds of each number up to n.
LEMMA Stepwise ==
  ASSUME NEW n \in Nat, NEW G, 0 \in G, \A i \in 0 .. n - 1 : i \in G => i + 1 \in G
  PROVE  \A i \in 0 .. n : i \in G
<1> DEFINE B == {i \in 0 .. n : i \notin G}
<1> SUFFICES ASSUME B # {} PROVE FALSE
  OBVIOUS
<1>1. IsFiniteSet(B) /\ B \subseteq Int
  <2>1. IsFiniteSet(0 .. n)
    BY FS_Interval
  <2>2. B \subseteq 0 .. n
    OBVIOUS
  <2>3. IsFiniteSet(B)
    <3> HIDE DEF B
    <3> QED BY <2>1, <2>2, FS_Subset
  <2> QED BY <2>2, <2>3
<1>2. PICK i \in B : \A j \in B : i <= j
  <2> HIDE DEF B
  <2> QED BY <1>1, LeastMember
<1>3. i \in 0 .. n /\ i # 0
  OBVIOUS
<1>4. i - 1 \in 0 .. n - 1 /\ ~ (i <= i - 1)
  BY <1>3
<1>5. i - 1 \in G
  BY <1>2, <1>4
<1>6. (i - 1) + 1 \in G /\ (i - 1) + 1 = i
  BY <1>3, <1>4, <1>5
<1> QED BY <1>6

\* g is the function on the subsets of T that a fold recurses through which starts
\* from base, takes the element M[s] out of s, and adds x to a result r by F[<<x, r>>].
RecursTo(g, base, F, M, T) ==
  g = [s \in SUBSET T |-> IF s = {} THEN base
                          ELSE F[<<M[s], g[s \ {M[s]}]>>]]

LEMMA RecursBase ==
  ASSUME NEW base, NEW F, NEW M, NEW T, NEW g, RecursTo(g, base, F, M, T)
  PROVE  g[{}] = base
<1> DEFINE r == [u \in SUBSET T |-> IF u = {} THEN base
                          ELSE F[<<M[u], g[u \ {M[u]}]>>]]
<1>1. g = r
  BY DEF RecursTo
<1>2. r[{}] = base
  OBVIOUS
<1> QED BY <1>1, <1>2

LEMMA RecursStep ==
  ASSUME NEW base, NEW F, NEW M, NEW T, NEW g, RecursTo(g, base, F, M, T),
         NEW s \in SUBSET T, s # {}
  PROVE  g[s] = F[<<M[s], g[s \ {M[s]}]>>]
<1> DEFINE r == [u \in SUBSET T |-> IF u = {} THEN base
                          ELSE F[<<M[u], g[u \ {M[u]}]>>]]
<1>1. g = r
  BY DEF RecursTo
<1>2. r[s] = F[<<M[s], g[s \ {M[s]}]>>]
  OBVIOUS
<1> QED BY <1>1, <1>2

LEMMA RecursUnique ==
  ASSUME NEW base, NEW F, NEW T, NEW U, IsFiniteSet(T),
         NEW M, \A s \in SUBSET T : s # {} => M[s] \in s,
         NEW g, NEW h, RecursTo(g, base, F, M, T), RecursTo(h, base, F, M, U),
         NEW s \in SUBSET (T \cap U)
  PROVE  g[s] = h[s]
<1> DEFINE R == T \cap U
           G == {t \in SUBSET R : g[t] = h[t]}
<1>1. IsFiniteSet(R)
  BY FS_Subset
<1>2. ASSUME NEW t \in SUBSET R, \A u \in SUBSET t : u # t => u \in G
      PROVE  t \in G
  <2>1. CASE t = {}
    <3>1. g[{}] = base
      BY RecursBase
    <3>2. h[{}] = base
      BY RecursBase
    <3> QED BY <2>1, <3>1, <3>2
  <2>2. CASE t # {}
    <3> DEFINE u == t \ {M[t]}
    <3>1. u \in SUBSET t /\ u # t
      BY <2>2
    <3>2. g[u] = h[u]
      BY <3>1, <1>2
    <3>3. t \in SUBSET T /\ t \in SUBSET U
      OBVIOUS
    <3>4. g[t] = F[<<M[t], g[u]>>]
      BY <2>2, <3>3, RecursStep
    <3>5. h[t] = F[<<M[t], h[u]>>]
      BY <2>2, <3>3, RecursStep
    <3> QED BY <3>2, <3>4, <3>5
  <2> QED BY <2>1, <2>2
<1>3. \A t \in SUBSET R : t \in G
  <2> HIDE DEF R, G
  <2> QED BY <1>1, <1>2, SubsetInduction
<1> QED BY <1>3

\* Every finite set can be folded in any order.
LEMMA RecursExists ==
  ASSUME NEW base, NEW F, NEW S, IsFiniteSet(S),
         NEW M, \A s \in SUBSET S : s # {} => M[s] \in s
  PROVE  \E g : RecursTo(g, base, F, M, S)
<1> DEFINE G == {T \in SUBSET S : \E g : RecursTo(g, base, F, M, T)}
           Of(u) == CHOOSE g : RecursTo(g, base, F, M, u)
<1>1. ASSUME NEW T \in SUBSET S, \A U \in SUBSET T : U # T => U \in G
      PROVE  T \in G
  <2> DEFINE Rest(s) == s \ {M[s]}
             h == [s \in SUBSET T |-> IF s = {} THEN base
                                      ELSE F[<<M[s], Of(Rest(s))[Rest(s)]>>]]
  <2>1. ASSUME NEW s \in SUBSET T, s # {}
        PROVE  Of(Rest(s))[Rest(s)] = h[Rest(s)]
    <3> DEFINE u == Rest(s)
    <3>1. u \in SUBSET T /\ u # T /\ IsFiniteSet(u)
      BY <2>1, FS_Subset
    <3>2. RecursTo(Of(u), base, F, M, u)
      BY <3>1, <1>1
    <3>3. CASE u = {}
      <4>1. h[u] = base
        BY <3>1, <3>3
      <4>2. Of(u)[{}] = base
        <5> HIDE DEF Of, u
        <5> QED BY <3>2, RecursBase
      <4> QED BY <3>3, <4>1, <4>2
    <3>4. CASE u # {}
      <4> DEFINE v == Rest(u)
      <4>1. v \in SUBSET u /\ v \in SUBSET T /\ v # T
        BY <3>1
      <4>2. RecursTo(Of(v), base, F, M, v)
        BY <4>1, <1>1
      <4>3. Of(u)[v] = Of(v)[v]
        <5>1. v \in SUBSET (u \cap v)
          BY <4>1
        <5>2. \A t \in SUBSET u : t # {} => M[t] \in t
          BY <3>1
        <5> DEFINE g == Of(u)
                   k == Of(v)
        <5>3. RecursTo(g, base, F, M, u) /\ RecursTo(k, base, F, M, v)
          BY <3>2, <4>2
        <5>4. IsFiniteSet(u)
          BY <3>1
        <5> SUFFICES g[v] = k[v]
          OBVIOUS
        <5> HIDE DEF Of, Rest, u, v, g, k
        <5> QED BY <5>1, <5>2, <5>3, <5>4, RecursUnique
      <4>4. Of(u)[u] = F[<<M[u], Of(u)[v]>>]
        <5>1. u \in SUBSET u
          OBVIOUS
        <5> HIDE DEF Of, u
        <5> QED BY <3>2, <3>4, <5>1, RecursStep
      <4>5. h[u] = F[<<M[u], Of(v)[v]>>]
        BY <3>1, <3>4
      <4> QED BY <4>3, <4>4, <4>5
    <3> QED BY <3>3, <3>4
  <2>2. h = [s \in SUBSET T |-> IF s = {} THEN base
                                ELSE F[<<M[s], h[s \ {M[s]}]>>]]
    <3> DEFINE B(s) == IF s = {} THEN base ELSE F[<<M[s], h[s \ {M[s]}]>>]
    <3>1. ASSUME NEW s \in SUBSET T PROVE h[s] = B(s)
      <4>1. CASE s = {}
        BY <4>1
      <4>2. CASE s # {}
        <5>1. h[s] = F[<<M[s], Of(Rest(s))[Rest(s)]>>]
          BY <4>2
        <5>2. Of(Rest(s))[Rest(s)] = h[Rest(s)]
          BY <4>2, <2>1
        <5>3. B(s) = F[<<M[s], h[Rest(s)]>>]
          BY <4>2
        <5> HIDE DEF h, Of, Rest, B
        <5> QED BY <5>1, <5>2, <5>3
      <4> QED BY <4>1, <4>2
    <3>2. h = [s \in SUBSET T |-> h[s]]
      OBVIOUS
    <3>3. h = [s \in SUBSET T |-> B(s)]
      <4> HIDE DEF h, B
      <4> QED BY <3>1, <3>2
    <3> QED BY <3>3
  <2>3. RecursTo(h, base, F, M, T)
    <3> HIDE DEF h
    <3> QED BY <2>2 DEF RecursTo
  <2> QED BY <2>3
<1>2. \A T \in SUBSET S : T \in G
  <2> HIDE DEF G
  <2> QED BY <1>1, SubsetInduction
<1> QED BY <1>2

\* As many points are drawn as the values of a function add up to.
PointsUpTo(f, H) == UNION {{g} \X (1 .. f[g]) : g \in H}

LEMMA SumIsPoints ==
  ASSUME NEW f, NEW S, IsFiniteSet(S), \A g \in S : f[g] \in Nat
  PROVE  \A H \in SUBSET S :
           Cardinality(PointsUpTo(f, H)) = SumFunctionOnSet(f, H)
<1> DEFINE G == {H \in SUBSET S : /\ IsFiniteSet(PointsUpTo(f, H))
                                  /\ Cardinality(PointsUpTo(f, H)) = SumFunctionOnSet(f, H)}
<1>1. ASSUME NEW H \in SUBSET S, \A U \in SUBSET H : U # H => U \in G
      PROVE  H \in G
  <2>1. CASE H = {}
    <3>1. PointsUpTo(f, H) = {}
      BY <2>1 DEF PointsUpTo
    <3> QED BY <2>1, <3>1, SumEmpty, FS_EmptySet
  <2>2. CASE H # {}
    <3>1. PICK g \in H : TRUE
      BY <2>2
    <3> DEFINE R == H \ {g}
               A == {g} \X (1 .. f[g])
               B == PointsUpTo(f, R)
    <3>2. R \in SUBSET H /\ R # H /\ R \in SUBSET S
      BY <3>1
    <3>3. IsFiniteSet(B) /\ Cardinality(B) = SumFunctionOnSet(f, R)
      BY <1>1, <3>2
    <3>4. f[g] \in Nat
      OBVIOUS
    <3>5. IsFiniteSet(A) /\ Cardinality(A) = f[g]
      <4>1. IsFiniteSet(1 .. f[g])
            /\ Cardinality(1 .. f[g]) = IF 1 > f[g] THEN 0 ELSE f[g] - 1 + 1
        BY <3>4, FS_Interval
      <4>2. Cardinality(1 .. f[g]) = f[g]
        BY <3>4, <4>1
      <4>3. IsFiniteSet({g}) /\ Cardinality({g}) = 1
        BY FS_Singleton
      <4>4. IsFiniteSet(A) /\ Cardinality(A) = Cardinality({g}) * Cardinality(1 .. f[g])
        BY <4>1, <4>3, FS_Product
      <4> QED BY <3>4, <4>2, <4>3, <4>4
    <3>6. PointsUpTo(f, H) = A \cup B
      <4>1. H = R \cup {g}
        BY <3>1
      <4> QED BY <4>1 DEF PointsUpTo
    <3>7. A \cap B = {}
      BY DEF PointsUpTo
    <3>8. SumFunctionOnSet(f, H) = f[g] + SumFunctionOnSet(f, R)
      <4>1. \A x \in S : f[x] \in Int
        OBVIOUS
      <4> QED BY <4>1, <3>1, SumOut
    <3>9. Cardinality(B) \in Nat
      BY <3>3, FS_CardinalityType
    <3> HIDE DEF A, B, R
    <3>10. /\ IsFiniteSet(A \cup B)
           /\ Cardinality(A \cup B) = Cardinality(A) + Cardinality(B) - Cardinality(A \cap B)
      BY <3>3, <3>5, FS_Union
    <3>11. Cardinality(A \cap B) = 0
      BY <3>7, FS_EmptySet
    <3>12. Cardinality(A \cup B) = SumFunctionOnSet(f, H)
      BY <3>3, <3>4, <3>5, <3>8, <3>9, <3>10, <3>11
    <3> QED BY <3>6, <3>10, <3>12
  <2> QED BY <2>1, <2>2
<1>2. \A H \in SUBSET S : H \in G
  <2> HIDE DEF G
  <2> QED BY <1>1, SubsetInduction
<1> QED BY <1>2
=============================================================================
