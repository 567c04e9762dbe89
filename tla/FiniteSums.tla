---------------------------- MODULE FiniteSums ----------------------------
(***************************************************************************)
(* What SumFunctionOnSet computes: the facts about sums over finite sets   *)
(* that the theorems about tallies need.  The library gives the operator   *)
(* as a recursive function and states nothing of it; the induction is done *)
(* by hand, on a minimal counterexample.                                   *)
(***************************************************************************)
EXTENDS Integers, FiniteSetsExt, FiniteSetTheorems, TLAPS

\* A set of subsets of a finite set that has a member has one that is minimal.
LEMMA MinimalSubset ==
    ASSUME NEW S, IsFiniteSet(S), NEW Bad \in SUBSET (SUBSET S), Bad # {}
    PROVE  \E m \in Bad : \A x \in m : m \ {x} \notin Bad
<1>1. Bad \subseteq FiniteSubsetsOf(S) BY FS_FiniteSubsetsOfFinite
<1>2. IsWellFoundedOn(StrictSubsetOrdering(S), FiniteSubsetsOf(S))
  BY FS_StrictSubsetOrderingWellFounded
<1>3. PICK m \in Bad : \A y \in Bad : ~(<<y, m>> \in StrictSubsetOrdering(S))
  BY <1>1, <1>2, WFMin
<1>4. ASSUME NEW x \in m, m \ {x} \in Bad PROVE FALSE
  <2>1. <<m \ {x}, m>> \in StrictSubsetOrdering(S) BY <1>4 DEF StrictSubsetOrdering
  <2> QED BY <1>3, <1>4, <2>1
<1> QED BY <1>4

\* The recursion behind the sum of f over the subsets of T.
Pick(s) == CHOOSE x \in s : TRUE
Adds(g, f, T) == g = [s \in SUBSET T |-> IF s = {} THEN 0 ELSE f[Pick(s)] + g[s \ {Pick(s)}]]

LEMMA SumUnfolds ==
    ASSUME NEW f, NEW S
    PROVE  SumFunctionOnSet(f, S) = (CHOOSE g : Adds(g, f, S))[S]
BY DEF SumFunctionOnSet, FoldFunctionOnSet, MapThenFoldSet, Adds, Pick

LEMMA PickIn == ASSUME NEW s, s # {} PROVE Pick(s) \in s
BY DEF Pick

LEMMA AddsAt ==
    ASSUME NEW f, NEW T, NEW g, Adds(g, f, T), NEW s \in SUBSET T
    PROVE  g[s] = IF s = {} THEN 0 ELSE f[Pick(s)] + g[s \ {Pick(s)}]
<1>1. g = [t \in SUBSET T |-> IF t = {} THEN 0 ELSE f[Pick(t)] + g[t \ {Pick(t)}]] BY DEF Adds
<1> QED BY <1>1

\* Two such functions agree.
LEMMA AddsUnique ==
    ASSUME NEW f, NEW T, IsFiniteSet(T), NEW U, T \subseteq U, NEW g, Adds(g, f, T), NEW h, Adds(h, f, U)
    PROVE  \A s \in SUBSET T : g[s] = h[s]
<1> DEFINE Bad == {s \in SUBSET T : g[s] # h[s]}
<1>1. ASSUME Bad # {} PROVE FALSE
  <2>1. PICK m \in Bad : \A x \in m : m \ {x} \notin Bad BY <1>1, MinimalSubset
  <2>2. m \in SUBSET T /\ m \in SUBSET U /\ m \ {Pick(m)} \in SUBSET T BY <2>1
  <2>3. g[m] = IF m = {} THEN 0 ELSE f[Pick(m)] + g[m \ {Pick(m)}] BY <2>2, AddsAt
  <2>4. h[m] = IF m = {} THEN 0 ELSE f[Pick(m)] + h[m \ {Pick(m)}] BY <2>2, AddsAt
  <2>5. m # {} => g[m \ {Pick(m)}] = h[m \ {Pick(m)}] BY <2>1, <2>2, PickIn
  <2>6. g[m] = h[m] BY <2>3, <2>4, <2>5
  <2> QED BY <2>1, <2>6
<1> QED BY <1>1

\* There is one.
LEMMA AddsExists ==
    ASSUME NEW f, NEW S, IsFiniteSet(S)
    PROVE  \A T \in SUBSET S : \E g : Adds(g, f, T)
<1> DEFINE Bad == {T \in SUBSET S : ~\E g : Adds(g, f, T)}
           Of(T) == CHOOSE g : Adds(g, f, T)
<1>1. ASSUME Bad # {} PROVE FALSE
  <2>1. PICK m \in Bad : \A x \in m : m \ {x} \notin Bad BY <1>1, MinimalSubset
  <2>2. m \in SUBSET S BY <2>1
  <2>s. ASSUME NEW x \in m, NEW s \in SUBSET (m \ {x}) PROVE \E g : Adds(g, f, s)
    <3>1. PICK g : Adds(g, f, m \ {x}) BY <2>1, <2>2
    <3> DEFINE r == [t \in SUBSET s |-> g[t]]
    <3>2. ASSUME NEW t \in SUBSET s
          PROVE  r[t] = IF t = {} THEN 0 ELSE f[Pick(t)] + r[t \ {Pick(t)}]
      BY <3>1, <3>2, AddsAt
    <3>3. r = [t \in SUBSET s |-> IF t = {} THEN 0 ELSE f[Pick(t)] + r[t \ {Pick(t)}]]
      <4>1. r = [t \in SUBSET s |-> r[t]] OBVIOUS
      <4> HIDE DEF r
      <4> QED BY <3>2, <4>1
    <3> HIDE DEF r
    <3> QED BY <3>3 DEF Adds
  <2> DEFINE v(s) == IF s = {} THEN 0 ELSE f[Pick(s)] + Of(s \ {Pick(s)})[s \ {Pick(s)}]
             r == [s \in SUBSET m |-> v(s)]
  <2>3. ASSUME NEW s \in SUBSET m, s # {}
        PROVE  r[s \ {Pick(s)}] = Of(s \ {Pick(s)})[s \ {Pick(s)}]
    <3> DEFINE u == s \ {Pick(s)}
    <3>1. Pick(s) \in m /\ u \in SUBSET (m \ {Pick(s)}) BY <2>3, PickIn
    <3>2. Adds(Of(u), f, u) BY <2>s, <3>1
    <3>3. Of(u)[u] = IF u = {} THEN 0 ELSE f[Pick(u)] + Of(u)[u \ {Pick(u)}]
      <4> HIDE DEF u, Of
      <4> QED BY <3>2, AddsAt
    <3>4. ASSUME u # {} PROVE Of(u)[u \ {Pick(u)}] = Of(u \ {Pick(u)})[u \ {Pick(u)}]
      <4> DEFINE w == u \ {Pick(u)}
      <4>1. w \in SUBSET (m \ {Pick(s)}) BY <3>1
      <4>2. Adds(Of(w), f, w) BY <2>s, <3>1, <4>1
      <4>3. IsFiniteSet(w) BY <2>2, <4>1, FS_Subset
      <4>4. w \subseteq u OBVIOUS
      <4> HIDE DEF w, u, Of
      <4>5. Of(w)[w] = Of(u)[w] BY <3>2, <4>2, <4>3, <4>4, AddsUnique
      <4> QED BY <4>5 DEF w
    <3>5. r[u] = v(u) BY <3>1
    <3> HIDE DEF u, Of, r
    <3>6. r[u] = Of(u)[u] BY <3>3, <3>4, <3>5
    <3> QED BY <3>6 DEF u
  <2>4. r = [s \in SUBSET m |-> IF s = {} THEN 0 ELSE f[Pick(s)] + r[s \ {Pick(s)}]]
    <3>1. \A s \in SUBSET m : v(s) = IF s = {} THEN 0 ELSE f[Pick(s)] + r[s \ {Pick(s)}]
      <4> HIDE DEF Of, r
      <4> QED BY <2>3
    <3>2. r = [s \in SUBSET m |-> v(s)] OBVIOUS
    <3> HIDE DEF v, r
    <3> QED BY <3>1, <3>2
  <2> HIDE DEF r
  <2>5. Adds(r, f, m) BY <2>4 DEF Adds
  <2> QED BY <2>1, <2>5
<1> QED BY <1>1

\* So the sum obeys the recursion.
LEMMA SumAt ==
    ASSUME NEW f, NEW S, IsFiniteSet(S)
    PROVE  SumFunctionOnSet(f, S) =
              IF S = {} THEN 0 ELSE f[Pick(S)] + SumFunctionOnSet(f, S \ {Pick(S)})
<1> DEFINE g == CHOOSE h : Adds(h, f, S)
           U == S \ {Pick(S)}
           h == CHOOSE k : Adds(k, f, U)
<1>1. Adds(g, f, S) BY AddsExists
<1>2. Adds(h, f, U) BY AddsExists
<1>3. IsFiniteSet(U) BY FS_Subset
<1>4. SumFunctionOnSet(f, S) = g[S] /\ SumFunctionOnSet(f, U) = h[U] BY SumUnfolds
<1> HIDE DEF g, h
<1>5. h[U] = g[U]
  <2> HIDE DEF U
  <2>1. U \subseteq S BY DEF U
  <2> QED BY <1>1, <1>2, <1>3, <2>1, AddsUnique
<1>6. g[S] = IF S = {} THEN 0 ELSE f[Pick(S)] + g[U] BY <1>1, AddsAt
<1> QED BY <1>4, <1>5, <1>6

\* Any element may be taken out first.
LEMMA SumTakesOut ==
    ASSUME NEW f, NEW S, IsFiniteSet(S), \A x \in S : f[x] \in Nat
    PROVE  /\ \A T \in SUBSET S : SumFunctionOnSet(f, T) \in Nat
           /\ \A T \in SUBSET S : \A x \in T :
                 SumFunctionOnSet(f, T) = f[x] + SumFunctionOnSet(f, T \ {x})
<1> DEFINE Sum(T) == SumFunctionOnSet(f, T)
<1>0. ASSUME NEW T \in SUBSET S
      PROVE  Sum(T) = IF T = {} THEN 0 ELSE f[Pick(T)] + Sum(T \ {Pick(T)})
  <2>1. IsFiniteSet(T) BY FS_Subset
  <2> QED BY <2>1, SumAt
<1> HIDE DEF Sum
<1>1. \A T \in SUBSET S : Sum(T) \in Nat
  <2> DEFINE Bad == {T \in SUBSET S : Sum(T) \notin Nat}
  <2>1. ASSUME Bad # {} PROVE FALSE
    <3>1. PICK m \in Bad : \A x \in m : m \ {x} \notin Bad BY <2>1, MinimalSubset
    <3>2. m # {} => Pick(m) \in m /\ Sum(m \ {Pick(m)}) \in Nat BY <3>1, PickIn
    <3>3. Sum(m) \in Nat BY <1>0, <3>1, <3>2
    <3> QED BY <3>1, <3>3
  <2> QED BY <2>1
<1>2. \A T \in SUBSET S : \A x \in T : Sum(T) = f[x] + Sum(T \ {x})
  <2> DEFINE Bad == {T \in SUBSET S : \E x \in T : Sum(T) # f[x] + Sum(T \ {x})}
  <2>1. ASSUME Bad # {} PROVE FALSE
    <3>1. PICK m \in Bad : \A x \in m : m \ {x} \notin Bad BY <2>1, MinimalSubset
    <3>2. PICK x \in m : Sum(m) # f[x] + Sum(m \ {x}) BY <3>1
    <3>p. PICK p \in m : p = Pick(m) BY <3>2, PickIn
    <3>3. Sum(m) = f[p] + Sum(m \ {p}) BY <1>0, <3>1, <3>p
    <3>4. CASE p = x BY <3>2, <3>3, <3>4
    <3>5. CASE p # x
      <4>1. x \in m \ {p} /\ p \in m \ {x} BY <3>5
      <4>2. Sum(m \ {p}) = f[x] + Sum((m \ {p}) \ {x}) BY <3>1, <4>1
      <4>3. Sum(m \ {x}) = f[p] + Sum((m \ {x}) \ {p}) BY <3>1, <4>1
      <4>4. (m \ {p}) \ {x} = (m \ {x}) \ {p} OBVIOUS
      <4>5. Sum((m \ {x}) \ {p}) \in Nat BY <1>1, <3>1
      <4>6. f[x] \in Nat /\ f[p] \in Nat BY <3>1
      <4> HIDE DEF Bad
      <4>7. Sum((m \ {p}) \ {x}) = Sum((m \ {x}) \ {p}) BY <4>4
      <4> QED BY <3>2, <3>3, <4>2, <4>3, <4>5, <4>6, <4>7
    <3> QED BY <3>4, <3>5
  <2> QED BY <2>1
<1> QED BY <1>1, <1>2 DEF Sum

LEMMA SumEmpty == ASSUME NEW f PROVE SumFunctionOnSet(f, {}) = 0
BY SumAt, FS_EmptySet

\* The same values under names that correspond one to one have the same sum.
LEMMA SumRenames ==
    ASSUME NEW S, IsFiniteSet(S), NEW f, \A x \in S : f[x] \in Nat,
           NEW g, NEW name, \A x \in S : g[name[x]] = f[x],
           \A x, y \in S : name[x] = name[y] => x = y
    PROVE  SumFunctionOnSet(f, S) = SumFunctionOnSet(g, {name[x] : x \in S})
<1> DEFINE Image(T) == {name[x] : x \in T}
           Bad == {T \in SUBSET S : SumFunctionOnSet(f, T) # SumFunctionOnSet(g, Image(T))}
<1>1. ASSUME Bad # {} PROVE FALSE
  <2>1. PICK m \in Bad : \A x \in m : m \ {x} \notin Bad BY <1>1, MinimalSubset
  <2>2. IsFiniteSet(m) /\ m \in SUBSET S BY <2>1, FS_Subset
  <2>3. CASE m = {}
    <3>1. Image(m) = {} BY <2>3
    <3>2. SumFunctionOnSet(g, Image(m)) = 0 BY <3>1, SumEmpty
    <3>3. SumFunctionOnSet(f, m) = 0 BY <2>3, SumEmpty
    <3> QED BY <2>1, <3>2, <3>3
  <2>4. CASE m # {}
    <3>1. PICK x \in m : TRUE BY <2>4
    <3>2. SumFunctionOnSet(f, m) = f[x] + SumFunctionOnSet(f, m \ {x}) BY <2>2, SumTakesOut
    <3>3. Image(m \ {x}) = Image(m) \ {name[x]} BY <2>2
    <3>4. SumFunctionOnSet(f, m \ {x}) = SumFunctionOnSet(g, Image(m \ {x})) BY <2>1, <2>2
    <3>5. IsFiniteSet(Image(m))
      <4>1. [x1 \in m |-> name[x1]] \in Surjection(m, Image(m)) BY DEF Surjection
      <4> HIDE DEF Image
      <4> QED BY <2>2, <4>1, FS_Surjection
    <3>6. \A y \in Image(m) : g[y] \in Nat BY <2>2
    <3>7. name[x] \in Image(m) OBVIOUS
    <3>8. SumFunctionOnSet(g, Image(m)) = g[name[x]] + SumFunctionOnSet(g, Image(m) \ {name[x]})
      <4> HIDE DEF Image
      <4> QED BY <3>5, <3>6, <3>7, SumTakesOut
    <3>9. g[name[x]] = f[x] BY <2>2
    <3> QED BY <2>1, <3>2, <3>3, <3>4, <3>8, <3>9
  <2> QED BY <2>3, <2>4
<1>2. S \notin Bad BY <1>1
<1> QED BY <1>2

\* A sum depends on the values at its indices only.
LEMMA SumSame ==
    ASSUME NEW S, IsFiniteSet(S), NEW f, \A x \in S : f[x] \in Nat, NEW g, \A x \in S : g[x] = f[x]
    PROVE  SumFunctionOnSet(f, S) = SumFunctionOnSet(g, S)
<1> DEFINE name == [x \in S |-> x]
<1>1. {name[x] : x \in S} = S OBVIOUS
<1>2. \A x \in S : g[name[x]] = f[x] OBVIOUS
<1>3. \A x, y \in S : name[x] = name[y] => x = y OBVIOUS
<1> HIDE DEF name
<1>4. SumFunctionOnSet(f, S) = SumFunctionOnSet(g, {name[x] : x \in S}) BY <1>2, <1>3, SumRenames
<1> QED BY <1>1, <1>4

\* The sum over a set is the sum over a part of it and the sum over the rest.
LEMMA SumSplits ==
    ASSUME NEW S, IsFiniteSet(S), NEW f, \A x \in S : f[x] \in Nat, NEW D \in SUBSET S
    PROVE  SumFunctionOnSet(f, S) = SumFunctionOnSet(f, D) + SumFunctionOnSet(f, S \ D)
<1> DEFINE Sum(T) == SumFunctionOnSet(f, T)
           Bad == {T \in SUBSET D : Sum((S \ D) \cup T) # Sum(T) + Sum(S \ D)}
<1>0. IsFiniteSet(D) /\ \A T \in SUBSET S : Sum(T) \in Nat BY FS_Subset, SumTakesOut
<1>1. ASSUME Bad # {} PROVE FALSE
  <2>1. PICK m \in Bad : \A x \in m : m \ {x} \notin Bad BY <1>0, <1>1, MinimalSubset
  <2>2. CASE m = {}
    <3>1. Sum(m) = 0 BY <2>2, SumEmpty
    <3>2. (S \ D) \cup m = S \ D BY <2>2
    <3>3. Sum(S \ D) \in Nat BY <1>0
    <3> HIDE DEF Sum
    <3>4. Sum((S \ D) \cup m) = Sum(m) + Sum(S \ D) BY <3>1, <3>2, <3>3
    <3> QED BY <2>1, <3>4
  <2>3. CASE m # {}
    <3>1. PICK x \in m : TRUE BY <2>3
    <3> DEFINE W == (S \ D) \cup m
    <3>2. W \in SUBSET S /\ x \in W /\ m \in SUBSET S BY <2>1, <3>1
    <3>3. W \ {x} = (S \ D) \cup (m \ {x}) BY <2>1, <3>1
    <3>4. m \ {x} \in SUBSET D /\ m \ {x} \notin Bad BY <2>1, <3>1
    <3>5. Sum((S \ D) \cup (m \ {x})) = Sum(m \ {x}) + Sum(S \ D) BY <3>4
    <3> HIDE DEF W
    <3>6. Sum(W) = f[x] + Sum(W \ {x}) /\ Sum(m) = f[x] + Sum(m \ {x})
      BY <3>1, <3>2, SumTakesOut
    <3>7. f[x] \in Nat /\ Sum(m \ {x}) \in Nat /\ Sum(S \ D) \in Nat BY <1>0, <3>2
    <3> HIDE DEF Sum, Bad
    <3>8. Sum(W \ {x}) = Sum(m \ {x}) + Sum(S \ D) BY <3>3, <3>5
    <3>9. Sum(W) = Sum(m) + Sum(S \ D) BY <3>6, <3>7, <3>8
    <3> QED BY <2>1, <3>9 DEF W, Bad
  <2> QED BY <2>2, <2>3
<1>2. D \notin Bad BY <1>1
<1>3. (S \ D) \cup D = S OBVIOUS
<1> QED BY <1>2, <1>3

\* A sum of zeros.
LEMMA SumZero ==
    ASSUME NEW S, IsFiniteSet(S), NEW f, \A x \in S : f[x] = 0
    PROVE  SumFunctionOnSet(f, S) = 0
<1> DEFINE Bad == {T \in SUBSET S : SumFunctionOnSet(f, T) # 0}
<1>1. ASSUME Bad # {} PROVE FALSE
  <2>1. PICK m \in Bad : \A x \in m : m \ {x} \notin Bad BY <1>1, MinimalSubset
  <2>2. IsFiniteSet(m) BY FS_Subset
  <2>3. SumFunctionOnSet(f, m) = IF m = {} THEN 0 ELSE f[Pick(m)] + SumFunctionOnSet(f, m \ {Pick(m)})
    BY <2>2, SumAt
  <2>4. m # {} => f[Pick(m)] = 0 /\ SumFunctionOnSet(f, m \ {Pick(m)}) = 0 BY <2>1, PickIn
  <2> QED BY <2>1, <2>3, <2>4
<1>2. S \notin Bad BY <1>1
<1> QED BY <1>2
=============================================================================
