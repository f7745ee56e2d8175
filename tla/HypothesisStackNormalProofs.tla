-------------------- MODULE HypothesisStackNormalProofs ---------------------
(***************************************************************************)
(* The properties of HypothesisStackNormal, proved.  The inductive         *)
(* invariant IndInv relates the stack to what was offered to it: Holds     *)
(* says who owns the hypotheses, Kept what the limits say about the stack, *)
(* Remembered what the stack still holds of what was offered.              *)
(*   The argument counts places: the k-th hypothesis of coverage v has the *)
(* place <<v, k>>, and Places(z, S, h, w) are those that the hypotheses of *)
(* S not worse than w take, when each coverage has its diversity.  Places  *)
(* only grow when hypotheses are added or replaced by better ones, and a   *)
(* pruning that throws one away leaves as many places above it taken as    *)
(* the stack has.                                                          *)
(***************************************************************************)
EXTENDS HypothesisStackNormal, FiniteSetTheorems, TLAPS

-----------------------------------------------------------------------------
(* Numbers and finite sets                                                 *)

\* Every non-empty set of natural numbers has a least element.
LEMMA LeastNatural ==
  ASSUME NEW T \in SUBSET Nat, T # {}
  PROVE  \E m \in T : \A k \in T : m <= k
<1> DEFINE R == {ss \in Nat \X Nat : ss[1] < ss[2]}
<1>1. IsWellFoundedOn(R, Nat)
  BY NatLessThanWellFounded DEF OpToRel
<1> HIDE DEF R
<1>2. PICK m \in T : \A k \in T : ~(<<k, m>> \in R)
  BY <1>1, WFMin, Zenon
<1>3. \A k \in T : ~(k < m)
  BY <1>2 DEF R
<1> QED BY <1>3

\* Induction: a set with 0 and the successor of each of its elements is all of Nat.
LEMMA SetInduction ==
  ASSUME NEW S \in SUBSET Nat, 0 \in S, \A n \in S : n + 1 \in S
  PROVE  S = Nat
<1> SUFFICES ASSUME Nat \ S # {} PROVE FALSE
  OBVIOUS
<1>1. PICK m \in Nat \ S : \A k \in Nat \ S : m <= k
  BY LeastNatural
<1>2. m # 0 /\ m - 1 \in Nat
  BY <1>1
<1>3. m - 1 \in S
  BY <1>1, <1>2
<1>4. (m - 1) + 1 \in S
  BY <1>3
<1> QED BY <1>1, <1>4

\* A finite set of integers has a least element.
LEMMA LeastInteger ==
  ASSUME NEW S \in SUBSET Int, IsFiniteSet(S), S # {}
  PROVE  \E m \in S : \A k \in S : m <= k
<1> DEFINE HasLeast(T) == \E m \in T : \A k \in T : m <= k
<1> DEFINE N == {n \in Nat : \A T \in SUBSET Int :
                   IsFiniteSet(T) /\ Cardinality(T) = n + 1 => HasLeast(T)}
<1>1. 0 \in N
  <2> SUFFICES ASSUME NEW T \in SUBSET Int, IsFiniteSet(T), Cardinality(T) = 1 PROVE HasLeast(T)
    OBVIOUS
  <2>1. PICK x : T = {x}
    BY FS_Singleton
  <2> QED BY <2>1
<1>2. ASSUME NEW n \in N PROVE n + 1 \in N
  <2> SUFFICES ASSUME NEW T \in SUBSET Int, IsFiniteSet(T), Cardinality(T) = (n + 1) + 1
               PROVE  HasLeast(T)
    OBVIOUS
  <2>1. T # {}
    BY FS_EmptySet
  <2>2. PICK x \in T : TRUE
    BY <2>1
  <2>3. IsFiniteSet(T \ {x}) /\ Cardinality(T \ {x}) = n + 1
    BY <2>2, FS_RemoveElement
  <2>4. PICK m \in T \ {x} : \A k \in T \ {x} : m <= k
    BY <2>3
  <2>5. CASE m <= x
    BY <2>4, <2>5
  <2>6. CASE x <= m
    <3>1. \A k \in T : x <= k
      BY <2>4, <2>6
    <3> QED BY <2>2, <3>1
  <2> QED BY <2>4, <2>5, <2>6
<1>3. N = Nat
  <2> HIDE DEF N
  <2>1. N \in SUBSET Nat
    BY DEF N
  <2> QED BY <1>1, <1>2, <2>1, SetInduction
<1>4. Cardinality(S) \in Nat /\ Cardinality(S) # 0
  BY FS_CardinalityType, FS_EmptySet
<1>5. Cardinality(S) - 1 \in Nat /\ (Cardinality(S) - 1) + 1 = Cardinality(S)
  BY <1>4
<1> HIDE DEF N
<1>6. Cardinality(S) - 1 \in N
  BY <1>3, <1>5
<1> QED BY <1>5, <1>6 DEF N

\* What the Min of a finite set is.
LEMMA MinIs ==
  ASSUME NEW S \in SUBSET Int, IsFiniteSet(S), S # {}
  PROVE  Min(S) \in S /\ \A k \in S : Min(S) <= k
BY LeastInteger DEF Min

\* The smaller of two numbers.
LEMMA MinPair ==
  ASSUME NEW a \in Int, NEW b \in Int
  PROVE  Min({a, b}) = IF a <= b THEN a ELSE b
<1>1. \E x \in {a, b} : \A y \in {a, b} : x <= y
  OBVIOUS
<1>2. Min({a, b}) \in {a, b} /\ \A y \in {a, b} : Min({a, b}) <= y
  BY <1>1 DEF Min
<1> QED BY <1>2

\* The larger of two numbers.
LEMMA MaxPair ==
  ASSUME NEW a \in Int, NEW b \in Int
  PROVE  Max({a, b}) = IF a >= b THEN a ELSE b
<1>1. \E x \in {a, b} : \A y \in {a, b} : x >= y
  OBVIOUS
<1>2. Max({a, b}) \in {a, b} /\ \A y \in {a, b} : Max({a, b}) >= y
  BY <1>1 DEF Max
<1> QED BY <1>2

\* The least address of a set of them.
LEMMA MinAddress ==
  ASSUME NEW S \in SUBSET Addresses, S # {}
  PROVE  Min(S) \in S
<1>1. Addresses \subseteq Nat /\ IsFiniteSet(Addresses)
  BY StackAssumption
<1>2. S \in SUBSET Int
  BY <1>1
<1>3. IsFiniteSet(S)
  BY <1>1, FS_Subset
<1> QED BY <1>2, <1>3, MinIs

\* What an injection does to cardinalities.
LEMMA NotFewer ==
  ASSUME NEW S, NEW T, NEW f, f \in [S -> T], \A x, y \in S : f[x] = f[y] => x = y,
         IsFiniteSet(T)
  PROVE  IsFiniteSet(S) /\ Cardinality(S) <= Cardinality(T)
<1>1. f \in Injection(S, T)
  BY DEF Injection, IsInjective
<1> QED BY <1>1, FS_Injection

-----------------------------------------------------------------------------
(* Places on a stack: the k-th hypothesis of coverage v has the place <<v, k>>. *)

Grid(X, cov) ==
  {p \in Coverages \X Nat : 1 <= p[2] /\ p[2] <= Cardinality({x \in X : cov[x] = p[1]})}

\* There are as many places as hypotheses.
LEMMA GridCount ==
  ASSUME NEW X, IsFiniteSet(X), NEW cov, cov \in [X -> Coverages]
  PROVE  IsFiniteSet(Grid(X, cov)) /\ Cardinality(Grid(X, cov)) = Cardinality(X)
<1> DEFINE Right(Y) == IsFiniteSet(Grid(Y, cov)) /\ Cardinality(Grid(Y, cov)) = Cardinality(Y)
<1> DEFINE N == {n \in Nat : \A Y \in SUBSET X : Cardinality(Y) = n => Right(Y)}
<1>1. 0 \in N
  <2> SUFFICES ASSUME NEW Y \in SUBSET X, Cardinality(Y) = 0 PROVE Right(Y)
    OBVIOUS
  <2>1. Y = {}
    BY FS_Subset, FS_EmptySet
  <2>2. ASSUME NEW v PROVE Cardinality({x \in Y : cov[x] = v}) = 0
    <3>1. {x \in Y : cov[x] = v} = {}
      BY <2>1
    <3> QED BY <3>1, FS_EmptySet
  <2>3. Grid(Y, cov) = {}
    BY <2>2 DEF Grid
  <2> QED BY <2>1, <2>3, FS_EmptySet
<1>2. ASSUME NEW n \in N PROVE n + 1 \in N
  <2> SUFFICES ASSUME NEW Y \in SUBSET X, Cardinality(Y) = n + 1 PROVE Right(Y)
    OBVIOUS
  <2>0. n \in Nat /\ \A Z \in SUBSET X : Cardinality(Z) = n => Right(Z)
    BY <1>2
  <2> HIDE DEF N
  <2>1. IsFiniteSet(Y) /\ Y # {}
    BY <2>0, FS_Subset, FS_EmptySet
  <2>2. PICK x \in Y : TRUE
    BY <2>1
  <2> DEFINE Z == Y \ {x}
             On(W, v) == {y \in W : cov[y] = v}
             place == <<cov[x], Cardinality(On(Y, cov[x]))>>
  <2>3. IsFiniteSet(Z) /\ Cardinality(Z) = n /\ Z \in SUBSET X
    <3>1. IsFiniteSet(Z) /\ Cardinality(Z) = Cardinality(Y) - 1
      BY <2>1, <2>2, FS_RemoveElement
    <3> QED BY <2>0, <3>1
  <2>4. IsFiniteSet(Grid(Z, cov)) /\ Cardinality(Grid(Z, cov)) = n
    BY <2>0, <2>3
  <2>5. ASSUME NEW v \in Coverages
        PROVE  /\ IsFiniteSet(On(Z, v)) /\ Cardinality(On(Z, v)) \in Nat
               /\ v # cov[x] => On(Y, v) = On(Z, v)
               /\ v = cov[x] => Cardinality(On(Y, v)) = Cardinality(On(Z, v)) + 1
    <3>1. IsFiniteSet(On(Z, v)) /\ Cardinality(On(Z, v)) \in Nat
      <4>1. On(Z, v) \in SUBSET Z
        OBVIOUS
      <4> QED BY <2>3, <4>1, FS_Subset, FS_CardinalityType
    <3>2. ASSUME v = cov[x] PROVE Cardinality(On(Y, v)) = Cardinality(On(Z, v)) + 1
      <4>1. On(Y, v) = On(Z, v) \cup {x} /\ x \notin On(Z, v)
        BY <2>2, <3>2
      <4> QED BY <3>1, <4>1, FS_AddElement
    <3>3. v # cov[x] => On(Y, v) = On(Z, v)
      OBVIOUS
    <3> QED BY <3>1, <3>2, <3>3
  <2>6. cov[x] \in Coverages
    BY <2>2
  <2>7. Grid(Y, cov) = Grid(Z, cov) \cup {place} /\ place \notin Grid(Z, cov)
    <3>1. place \in Coverages \X Nat /\ 1 <= place[2] /\ place[1] = cov[x]
          /\ place[2] = Cardinality(On(Z, cov[x])) + 1
      <4>1. Cardinality(On(Z, cov[x])) \in Nat
            /\ Cardinality(On(Y, cov[x])) = Cardinality(On(Z, cov[x])) + 1
        BY <2>5, <2>6
      <4> HIDE DEF On, Z
      <4> QED BY <2>6, <4>1
    <3>2. place \notin Grid(Z, cov)
      BY <2>5, <2>6, <3>1 DEF Grid
    <3>3. ASSUME NEW p \in Coverages \X Nat
          PROVE  p \in Grid(Y, cov) <=> p \in Grid(Z, cov) \cup {place}
      <4>1. CASE p[1] # cov[x]
        <5>1. On(Y, p[1]) = On(Z, p[1]) /\ p # place
          BY <2>5, <3>1, <4>1
        <5> QED BY <5>1 DEF Grid
      <4>2. CASE p[1] = cov[x]
        <5>1. Cardinality(On(Y, p[1])) = Cardinality(On(Z, p[1])) + 1
              /\ Cardinality(On(Z, p[1])) \in Nat
          BY <2>5, <4>2
        <5>2. p = place <=> p[2] = Cardinality(On(Z, p[1])) + 1
          BY <3>1, <4>2, <5>1
        <5>3. p \in Grid(Y, cov) <=> 1 <= p[2] /\ p[2] <= Cardinality(On(Y, p[1]))
          BY DEF Grid
        <5>4. p \in Grid(Z, cov) <=> 1 <= p[2] /\ p[2] <= Cardinality(On(Z, p[1]))
          BY DEF Grid
        <5> HIDE DEF place, On
        <5>5. p[2] \in Nat
          OBVIOUS
        <5> QED BY <5>1, <5>2, <5>3, <5>4, <5>5
      <4> QED BY <4>1, <4>2
    <3>4. Grid(Y, cov) \subseteq Coverages \X Nat /\ Grid(Z, cov) \subseteq Coverages \X Nat
      BY DEF Grid
    <3> HIDE DEF place, Z
    <3> QED BY <3>1, <3>2, <3>3, <3>4
  <2> HIDE DEF place, Z, On
  <2>8. IsFiniteSet(Grid(Y, cov)) /\ Cardinality(Grid(Y, cov)) = n + 1
    BY <2>0, <2>4, <2>7, FS_AddElement
  <2> QED BY <2>8
<1>3. N = Nat
  <2> HIDE DEF N
  <2>1. N \in SUBSET Nat
    BY DEF N
  <2> QED BY <1>1, <1>2, <2>1, SetInduction
<1> HIDE DEF N
<1>4. Cardinality(X) \in N
  BY <1>3, FS_CardinalityType
<1> QED BY <1>4 DEF N

\* The hypotheses of S, with their classes and scores in h, that cover v; those that are not
\* worse than w; and how many places they take when each coverage has its diversity.
OnV(S, h, v) == {a \in S : Cov(h[a]) = v}
AtW(S, h, w) == {a \in S : h[a].score >= w}
Count(S, h, v) == Cardinality(OnV(S, h, v))
Places(z, S, h, w) ==
  {p \in Coverages \X Nat :
     /\ 1 <= p[2]
     /\ \/ p[2] <= Count(AtW(S, h, w), h, p[1])
        \/ p[2] <= z.diversity /\ p[2] <= Count(S, h, p[1])}

Stacked(S, h) ==
  IsFiniteSet(S) /\ \A a \in S : h[a].class \in Classes /\ h[a].score \in Int

\* What the settings range over.
LEMMA SettingIs ==
  ASSUME NEW z \in Settings
  PROVE  z.size \in Nat /\ z.diversity \in Nat /\ z.nBest \in Nat
BY StackAssumption

\* The coverages and scores of the hypotheses on a stack.
LEMMA StackedIs ==
  ASSUME NEW S, NEW h, Stacked(S, h)
  PROVE  /\ IsFiniteSet(S)
         /\ \A a \in S : Cov(h[a]) \in Coverages /\ h[a].score \in Int
BY DEF Stacked, Classes, Cov

\* The hypotheses that cover v can be counted.
LEMMA CountIs ==
  ASSUME NEW S, NEW h, NEW v, IsFiniteSet(S)
  PROVE  IsFiniteSet(OnV(S, h, v)) /\ Count(S, h, v) \in Nat
<1>1. OnV(S, h, v) \in SUBSET S
  BY DEF OnV
<1> QED BY <1>1, FS_Subset, FS_CardinalityType DEF Count

\* A part has no more of each coverage; as many only when it has the same.
LEMMA CountMono ==
  ASSUME NEW S, NEW T, NEW h, NEW v, IsFiniteSet(S), T \subseteq S
  PROVE  /\ IsFiniteSet(T)
         /\ Count(T, h, v) \in Nat /\ Count(S, h, v) \in Nat
         /\ Count(T, h, v) <= Count(S, h, v)
         /\ Count(T, h, v) = Count(S, h, v) => OnV(T, h, v) = OnV(S, h, v)
<1>1. OnV(T, h, v) \in SUBSET OnV(S, h, v)
  BY DEF OnV
<1>2. IsFiniteSet(T)
  BY FS_Subset
<1> QED BY <1>1, <1>2, CountIs, FS_Subset DEF Count

\* The places that the hypotheses of S take by themselves.
LEMMA GridOf ==
  ASSUME NEW S, NEW h, Stacked(S, h)
  PROVE  LET cov == [a \in S |-> Cov(h[a])] IN
         /\ IsFiniteSet(Grid(S, cov)) /\ Cardinality(Grid(S, cov)) = Cardinality(S)
         /\ \A p : p \in Grid(S, cov) <=>
               p \in Coverages \X Nat /\ 1 <= p[2] /\ p[2] <= Count(S, h, p[1])
<1> DEFINE cov == [a \in S |-> Cov(h[a])]
<1>1. IsFiniteSet(S) /\ cov \in [S -> Coverages]
  BY StackedIs
<1>2. IsFiniteSet(Grid(S, cov)) /\ Cardinality(Grid(S, cov)) = Cardinality(S)
  BY <1>1, GridCount
<1>3. ASSUME NEW v PROVE {x \in S : cov[x] = v} = OnV(S, h, v)
  BY DEF OnV
<1> HIDE DEF cov
<1>4. \A p : p \in Grid(S, cov) <=>
               p \in Coverages \X Nat /\ 1 <= p[2] /\ p[2] <= Count(S, h, p[1])
  BY <1>3 DEF Grid, Count
<1> QED BY <1>2, <1>4 DEF cov

\* The places taken are finitely many.
LEMMA PlacesFinite ==
  ASSUME NEW z \in Settings, NEW S, NEW h, Stacked(S, h), NEW w
  PROVE  IsFiniteSet(Places(z, S, h, w)) /\ Cardinality(Places(z, S, h, w)) \in Nat
<1> DEFINE cov == [a \in S |-> Cov(h[a])]
<1>1. /\ IsFiniteSet(Grid(S, cov))
      /\ \A p : p \in Grid(S, cov) <=>
            p \in Coverages \X Nat /\ 1 <= p[2] /\ p[2] <= Count(S, h, p[1])
  BY GridOf
<1> HIDE DEF cov
<1>2. ASSUME NEW p \in Places(z, S, h, w) PROVE p \in Grid(S, cov)
  <2>1. /\ p \in Coverages \X Nat /\ 1 <= p[2]
        /\ \/ p[2] <= Count(AtW(S, h, w), h, p[1])
           \/ p[2] <= Count(S, h, p[1])
    BY DEF Places
  <2>2. AtW(S, h, w) \subseteq S
    BY DEF AtW
  <2>3. /\ Count(AtW(S, h, w), h, p[1]) \in Nat /\ Count(S, h, p[1]) \in Nat
        /\ Count(AtW(S, h, w), h, p[1]) <= Count(S, h, p[1])
    BY <2>2, StackedIs, CountMono
  <2>4. p[2] \in Nat
    BY <2>1
  <2> QED BY <1>1, <2>1, <2>3, <2>4
<1>3. Places(z, S, h, w) \in SUBSET Grid(S, cov)
  BY <1>2
<1> QED BY <1>1, <1>3, FS_Subset, FS_CardinalityType

\* Better ones in the place of each take the same places and more.
Better(f, S, g, T, h) ==
  /\ f \in [S -> T]
  /\ \A x, y \in S : f[x] = f[y] => x = y
  /\ \A x \in S : Cov(h[f[x]]) = Cov(g[x]) /\ h[f[x]].score >= g[x].score

\* With better ones in their place no coverage has fewer.
LEMMA CountBetter ==
  ASSUME NEW S, NEW T, NEW g, NEW h, Stacked(S, g), Stacked(T, h),
         NEW f, Better(f, S, g, T, h), NEW w \in Int, NEW u \in Int, u <= w, NEW v
  PROVE  /\ Count(AtW(S, g, w), g, v) <= Count(AtW(T, h, u), h, v)
         /\ Count(S, g, v) <= Count(T, h, v)
<1>1. /\ f \in [S -> T]
      /\ \A x, y \in S : f[x] = f[y] => x = y
      /\ \A x \in S : Cov(h[f[x]]) = Cov(g[x]) /\ h[f[x]].score >= g[x].score
  BY DEF Better
<1>2. IsFiniteSet(T) /\ \A x \in T : h[x].score \in Int
  BY StackedIs
<1>3. \A x \in S : g[x].score \in Int
  BY StackedIs
<1>4. Count(S, g, v) <= Count(T, h, v)
  <2> DEFINE A == OnV(S, g, v)
             B == OnV(T, h, v)
             e == [x \in A |-> f[x]]
  <2>1. e \in [A -> B] /\ \A x, y \in A : e[x] = e[y] => x = y
    BY <1>1 DEF OnV
  <2>2. IsFiniteSet(B)
    BY <1>2, CountIs
  <2> HIDE DEF A, B, e
  <2>3. Cardinality(A) <= Cardinality(B)
    BY <2>1, <2>2, NotFewer
  <2> QED BY <2>3 DEF A, B, Count
<1>5. Count(AtW(S, g, w), g, v) <= Count(AtW(T, h, u), h, v)
  <2> DEFINE A == OnV(AtW(S, g, w), g, v)
             B == OnV(AtW(T, h, u), h, v)
             e == [x \in A |-> f[x]]
  <2>1. e \in [A -> B] /\ \A x, y \in A : e[x] = e[y] => x = y
    <3>1. ASSUME NEW x \in A PROVE f[x] \in B
      <4>1. x \in S /\ g[x].score >= w /\ Cov(g[x]) = v
        BY DEF OnV, AtW
      <4>2. f[x] \in T /\ h[f[x]].score >= u /\ Cov(h[f[x]]) = v
        BY <1>1, <1>2, <1>3, <4>1
      <4> QED BY <4>2 DEF OnV, AtW
    <3>2. A \subseteq S
      BY DEF OnV, AtW
    <3> HIDE DEF A, B
    <3> QED BY <1>1, <3>1, <3>2
  <2>2. IsFiniteSet(B)
    <3>1. AtW(T, h, u) \subseteq T
      BY DEF AtW
    <3>2. IsFiniteSet(AtW(T, h, u))
      BY <1>2, <3>1, FS_Subset
    <3> QED BY <3>2, CountIs
  <2> HIDE DEF A, B, e
  <2>3. Cardinality(A) <= Cardinality(B)
    BY <2>1, <2>2, NotFewer
  <2> QED BY <2>3 DEF A, B, Count
<1> QED BY <1>4, <1>5

\* Those not worse than w are no more than all.
LEMMA AtWCount ==
  ASSUME NEW S, NEW h, Stacked(S, h), NEW w, NEW v
  PROVE  /\ Count(S, h, v) \in Nat /\ Count(AtW(S, h, w), h, v) \in Nat
         /\ Count(AtW(S, h, w), h, v) <= Count(S, h, v)
<1>1. AtW(S, h, w) \subseteq S
  BY DEF AtW
<1> QED BY <1>1, StackedIs, CountMono

\* Nor are fewer places taken.
LEMMA PlacesBetter ==
  ASSUME NEW z \in Settings, NEW S, NEW T, NEW g, NEW h, Stacked(S, g), Stacked(T, h),
         NEW f, Better(f, S, g, T, h), NEW w \in Int, NEW u \in Int, u <= w
  PROVE  /\ Places(z, S, g, w) \subseteq Places(z, T, h, u)
         /\ Cardinality(Places(z, S, g, w)) <= Cardinality(Places(z, T, h, u))
<1>1. ASSUME NEW p \in Places(z, S, g, w) PROVE p \in Places(z, T, h, u)
  <2>1. /\ p \in Coverages \X Nat /\ 1 <= p[2]
        /\ \/ p[2] <= Count(AtW(S, g, w), g, p[1])
           \/ p[2] <= z.diversity /\ p[2] <= Count(S, g, p[1])
    BY DEF Places
  <2>2. /\ Count(AtW(S, g, w), g, p[1]) <= Count(AtW(T, h, u), h, p[1])
        /\ Count(S, g, p[1]) <= Count(T, h, p[1])
    BY CountBetter
  <2>3. /\ Count(S, g, p[1]) \in Nat /\ Count(AtW(S, g, w), g, p[1]) \in Nat
        /\ Count(T, h, p[1]) \in Nat /\ Count(AtW(T, h, u), h, p[1]) \in Nat
    BY AtWCount
  <2>4. p[2] \in Nat
    BY <2>1
  <2>5. \/ p[2] <= Count(AtW(T, h, u), h, p[1])
        \/ p[2] <= z.diversity /\ p[2] <= Count(T, h, p[1])
    BY <2>1, <2>2, <2>3, <2>4
  <2> QED BY <2>1, <2>5 DEF Places
<1>2. Places(z, S, g, w) \in SUBSET Places(z, T, h, u)
  BY <1>1
<1> QED BY <1>2, PlacesFinite, FS_Subset

\* A set with the diverse ones D, whose others are not worse than w and no better than those of
\* D with their coverage, takes no more places than those not worse than w do.
Crowded(z, S, h, w, D, X) ==
  /\ D \subseteq X /\ X \subseteq S
  /\ \A v \in Coverages : Count(D, h, v) <= z.diversity
  /\ \A x \in X \ D : /\ h[x].score >= w
                      /\ \A d \in D : Cov(h[d]) = Cov(h[x]) => h[d].score >= h[x].score

\* A set that is Crowded has no more hypotheses than there are such places.
LEMMA Crowd ==
  ASSUME NEW z \in Settings, NEW S, NEW h, Stacked(S, h), NEW w \in Int, NEW D, NEW X,
         Crowded(z, S, h, w, D, X)
  PROVE  Cardinality(X) <= Cardinality(Places(z, S, h, w))
<1>0. /\ D \subseteq X /\ X \subseteq S
      /\ \A v \in Coverages : Count(D, h, v) <= z.diversity
      /\ \A x \in X \ D : /\ h[x].score >= w
                          /\ \A d \in D : Cov(h[d]) = Cov(h[x]) => h[d].score >= h[x].score
  BY DEF Crowded
<1>1. Stacked(X, h)
  BY <1>0, FS_Subset DEF Stacked
<1>2. \A a \in S : Cov(h[a]) \in Coverages /\ h[a].score \in Int
  BY StackedIs
<1> DEFINE cov == [a \in X |-> Cov(h[a])]
<1>3. /\ IsFiniteSet(Grid(X, cov)) /\ Cardinality(Grid(X, cov)) = Cardinality(X)
      /\ \A p : p \in Grid(X, cov) <=>
            p \in Coverages \X Nat /\ 1 <= p[2] /\ p[2] <= Count(X, h, p[1])
  BY <1>1, GridOf
<1> HIDE DEF cov
<1>4. ASSUME NEW v \in Coverages
      PROVE  \/ Count(X, h, v) <= Count(AtW(S, h, w), h, v)
             \/ Count(X, h, v) <= z.diversity /\ Count(X, h, v) <= Count(S, h, v)
  <2>1. CASE \E x \in X \ D : Cov(h[x]) = v
    <3>1. PICK x \in X \ D : Cov(h[x]) = v
      BY <2>1
    <3>2. ASSUME NEW a \in X, Cov(h[a]) = v PROVE h[a].score >= w
      <4>1. CASE a \in D
        <5>1. h[a].score >= h[x].score /\ h[x].score >= w
          BY <1>0, <3>1, <3>2, <4>1
        <5>2. h[a].score \in Int /\ h[x].score \in Int
          BY <1>0, <1>2, <3>1
        <5> QED BY <5>1, <5>2
      <4>2. CASE a \notin D
        BY <1>0, <4>2
      <4> QED BY <4>1, <4>2
    <3>3. OnV(X, h, v) \subseteq OnV(AtW(S, h, w), h, v)
      BY <1>0, <3>2 DEF OnV, AtW
    <3>4. IsFiniteSet(OnV(AtW(S, h, w), h, v))
      <4>1. AtW(S, h, w) \in SUBSET S
        BY DEF AtW
      <4>2. IsFiniteSet(AtW(S, h, w))
        BY <4>1, StackedIs, FS_Subset
      <4> QED BY <4>2, CountIs
    <3> QED BY <3>3, <3>4, FS_Subset DEF Count
  <2>2. CASE ~ \E x \in X \ D : Cov(h[x]) = v
    <3>1. OnV(X, h, v) = OnV(D, h, v)
      BY <1>0, <2>2 DEF OnV
    <3>2. Count(X, h, v) <= z.diversity
      BY <1>0, <3>1 DEF Count
    <3> QED BY <1>0, <3>2, StackedIs, CountMono
  <2> QED BY <2>1, <2>2
<1>5. ASSUME NEW p \in Grid(X, cov) PROVE p \in Places(z, S, h, w)
  <2>1. p \in Coverages \X Nat /\ 1 <= p[2] /\ p[2] <= Count(X, h, p[1])
    BY <1>3
  <2>2. \/ Count(X, h, p[1]) <= Count(AtW(S, h, w), h, p[1])
        \/ Count(X, h, p[1]) <= z.diversity /\ Count(X, h, p[1]) <= Count(S, h, p[1])
    BY <1>4, <2>1
  <2>3. /\ Count(S, h, p[1]) \in Nat /\ Count(AtW(S, h, w), h, p[1]) \in Nat
        /\ Count(X, h, p[1]) \in Nat
    BY <1>1, AtWCount
  <2>4. p[2] \in Nat /\ z.diversity \in Nat
    BY <2>1, SettingIs
  <2>5. \/ p[2] <= Count(AtW(S, h, w), h, p[1])
        \/ p[2] <= z.diversity /\ p[2] <= Count(S, h, p[1])
    BY <2>1, <2>2, <2>3, <2>4
  <2> QED BY <2>1, <2>5 DEF Places
<1>6. Grid(X, cov) \in SUBSET Places(z, S, h, w)
  BY <1>5
<1> QED BY <1>3, <1>6, PlacesFinite, FS_Subset

-----------------------------------------------------------------------------
(* PruneToSize                                                             *)

\* T is the k best of S, or all of S when there are fewer.
Top(k, T, S, h) ==
  /\ T \subseteq S
  /\ Cardinality(T) <= k
  /\ Cardinality(T) = k \/ T = S
  /\ \A a \in T : \A b \in S \ T : h[a].score >= h[b].score

\* What Best may return.
LEMMA BestIs ==
  ASSUME NEW k \in Nat, NEW S, IsFiniteSet(S), NEW h, NEW T \in Best(k, S, h)
  PROVE  Top(k, T, S, h)
<1>1. Cardinality(S) \in Nat
  BY FS_CardinalityType
<1>2. Min({k, Cardinality(S)}) = IF k <= Cardinality(S) THEN k ELSE Cardinality(S)
  BY <1>1, MinPair
<1>3. /\ T \in SUBSET S /\ Cardinality(T) = Min({k, Cardinality(S)})
      /\ \A a \in T : \A b \in S \ T : h[a].score >= h[b].score
  BY DEF Best, kSubset
<1>4. Cardinality(T) = Cardinality(S) => T = S
  BY <1>3, FS_Subset
<1> QED BY <1>1, <1>2, <1>3, <1>4 DEF Top

InBeam(S, h, best) == {a \in S : h[a].score > best + BeamWidth}

\* The stack k that comes out of st: with the diverse ones D and the m best F of the others
\* within the beam.
PrunedTo(z, st, best, h, k, D, F, m) ==
  /\ z.size > 0 /\ Cardinality(st.on) > z.size
  /\ D \subseteq st.on
  /\ \A v \in Coverages : Top(z.diversity, OnV(D, h, v), OnV(st.on, h, v), h)
  /\ m \in Nat /\ m >= z.size - Cardinality(D) /\ (m = 0 \/ m = z.size - Cardinality(D))
  /\ Top(m, F, InBeam(st.on, h, best) \ D, h)
  /\ k.on = D \cup F
  /\ \/ /\ F # {} /\ Cardinality(D \cup F) = z.size
        /\ \E x \in F : k.worst = h[x].score
        /\ \A x \in F : k.worst <= h[x].score
     \/ (F = {} \/ Cardinality(D \cup F) # z.size) /\ k.worst = st.worst
  /\ k.div = [v \in Coverages |-> k.div[v]]
  /\ \A v \in Coverages :
       \/ k.div[v] = st.div[v] /\ (z.diversity = 0 \/ Count(D, h, v) # z.diversity)
       \/ /\ z.diversity > 0 /\ Count(D, h, v) = z.diversity
          /\ \E x \in OnV(D, h, v) : k.div[v] = h[x].score
          /\ \A x \in OnV(D, h, v) : k.div[v] <= h[x].score

ScoresOf(X, h) == {h[a].score : a \in X}
Scored(X, h) == \A x \in X : h[x].score \in Int

\* The least score of some hypotheses.
LEMMA LeastScore ==
  ASSUME NEW X, NEW h, IsFiniteSet(X), X # {}, Scored(X, h)
  PROVE  /\ \E x \in X : Min(ScoresOf(X, h)) = h[x].score
         /\ \A x \in X : Min(ScoresOf(X, h)) <= h[x].score
<1> DEFINE T == ScoresOf(X, h)
<1>1. T \in SUBSET Int /\ T # {}
  BY DEF Scored, ScoresOf
<1>2. IsFiniteSet(T)
  <2> DEFINE e == [x \in X |-> h[x].score]
  <2>1. e \in Surjection(X, T)
    BY DEF Surjection, ScoresOf
  <2> HIDE DEF e, T
  <2> QED BY <2>1, FS_Surjection
<1> HIDE DEF T
<1>3. Min(T) \in T /\ \A y \in T : Min(T) <= y
  BY <1>1, <1>2, MinIs
<1> QED BY <1>3 DEF T, ScoresOf

\* What comes out of a diverse selection.
LEMMA DiverseIs ==
  ASSUME static \in Settings, NEW S, NEW h, Stacked(S, h), NEW D \in DiverseSets(S, h)
  PROVE  /\ D \subseteq S
         /\ \A v \in Coverages : Top(static.diversity, OnV(D, h, v), OnV(S, h, v), h)
<1>1. static.diversity \in Nat /\ IsFiniteSet(S)
  BY SettingIs, StackedIs
<1>2. CASE static.diversity = 0
  <2>1. D = {}
    BY <1>2 DEF DiverseSets
  <2>2. ASSUME NEW v \in Coverages PROVE Top(static.diversity, OnV(D, h, v), OnV(S, h, v), h)
    <3>1. OnV(D, h, v) = {} /\ Cardinality({}) = 0
      BY <2>1, FS_EmptySet DEF OnV
    <3> QED BY <1>2, <3>1 DEF Top
  <2> QED BY <2>1, <2>2
<1>3. CASE static.diversity # 0
  <2>1. /\ D \in SUBSET S
        /\ \A v \in Coverages :
             D \cap {a \in S : Cov(h[a]) = v} \in Best(static.diversity, {a \in S : Cov(h[a]) = v}, h)
    BY <1>3 DEF DiverseSets
  <2>2. ASSUME NEW v \in Coverages PROVE Top(static.diversity, OnV(D, h, v), OnV(S, h, v), h)
    <3>1. OnV(D, h, v) = D \cap {a \in S : Cov(h[a]) = v} /\ OnV(S, h, v) = {a \in S : Cov(h[a]) = v}
      BY <2>1 DEF OnV
    <3>2. OnV(D, h, v) \in Best(static.diversity, OnV(S, h, v), h)
      BY <2>1, <3>1
    <3> QED BY <1>1, <3>2, CountIs, BestIs
  <2> QED BY <2>1, <2>2
<1> QED BY <1>2, <1>3

\* What PruneToSize may return: the stack as it was, or a pruned one.
LEMMA PrunedIs ==
  ASSUME static \in Settings, NEW st, NEW h, Stacked(st.on, h), NEW best \in Int,
         NEW k \in Pruned(st, best, h)
  PROVE  \/ k = st /\ (static.size = 0 \/ Cardinality(st.on) <= static.size)
         \/ \E D, F, m : PrunedTo(static, st, best, h, k, D, F, m)
<1> DEFINE n == static.size
           S == st.on
<1>1. n \in Nat /\ static.diversity \in Nat /\ IsFiniteSet(S) /\ Cardinality(S) \in Nat
      /\ \A a \in S : h[a].score \in Int
  BY SettingIs, StackedIs, FS_CardinalityType
<1>2. CASE n = 0 \/ Cardinality(S) <= n
  BY <1>2 DEF Pruned
<1>3. CASE ~(n = 0 \/ Cardinality(S) <= n)
  <2> DEFINE Limit(D, v) ==
        LET mine == {a \in D : Cov(h[a]) = v}
        IN IF static.diversity > 0 /\ Cardinality(mine) = static.diversity
           THEN Min({h[a].score : a \in mine}) ELSE st.div[v]
      Beam == InBeam(S, h, best)
      Filled(D, F) ==
        [on    |-> D \cup F,
         worst |-> IF F # {} /\ Cardinality(D \cup F) = n THEN Min({h[a].score : a \in F}) ELSE st.worst,
         div   |-> [v \in Coverages |-> Limit(D, v)]]
  <2>1. PICK D \in DiverseSets(S, h) : \E F \in Best(Max({0, n - Cardinality(D)}), Beam \ D, h) :
          k = Filled(D, F)
    <3>1. Pruned(st, best, h) =
            UNION {{Filled(D, F) : F \in Best(Max({0, n - Cardinality(D)}), Beam \ D, h)}
                     : D \in DiverseSets(S, h)}
      BY <1>3 DEF Pruned, InBeam
    <3> HIDE DEF Filled, Beam, S, n
    <3> QED BY <3>1
  <2>2. PICK F \in Best(Max({0, n - Cardinality(D)}), Beam \ D, h) : k = Filled(D, F)
    BY <2>1
  <2> DEFINE m == Max({0, n - Cardinality(D)})
  <2>3. D \subseteq S /\ \A v \in Coverages : Top(static.diversity, OnV(D, h, v), OnV(S, h, v), h)
    BY DiverseIs
  <2>4. IsFiniteSet(D) /\ Cardinality(D) \in Nat
    BY <1>1, <2>3, FS_Subset, FS_CardinalityType
  <2>5. m \in Nat /\ m >= n - Cardinality(D) /\ (m = 0 \/ m = n - Cardinality(D))
    BY <1>1, <2>4, MaxPair
  <2>6. IsFiniteSet(Beam \ D)
    <3>1. Beam \ D \in SUBSET S
      BY DEF InBeam
    <3> QED BY <1>1, <3>1, FS_Subset
  <2>7. Top(m, F, Beam \ D, h)
    BY <2>2, <2>5, <2>6, BestIs
  <2>8. F \subseteq S /\ IsFiniteSet(F)
    <3>1. F \in SUBSET (Beam \ D)
      BY <2>7 DEF Top
    <3> QED BY <3>1, <2>6, FS_Subset DEF InBeam
  <2>9. /\ k.on = D \cup F
        /\ k.worst = IF F # {} /\ Cardinality(D \cup F) = n THEN Min({h[a].score : a \in F}) ELSE st.worst
        /\ k.div = [v \in Coverages |-> Limit(D, v)]
    BY <2>2
  <2>10. \/ /\ F # {} /\ Cardinality(D \cup F) = n
            /\ \E x \in F : k.worst = h[x].score
            /\ \A x \in F : k.worst <= h[x].score
         \/ (F = {} \/ Cardinality(D \cup F) # n) /\ k.worst = st.worst
    <3>1. CASE F # {} /\ Cardinality(D \cup F) = n
      <4>1. k.worst = Min(ScoresOf(F, h))
        BY <2>9, <3>1 DEF ScoresOf
      <4>2. Scored(F, h)
        BY <1>1, <2>8 DEF Scored
      <4> QED BY <2>8, <3>1, <4>1, <4>2, LeastScore
    <3>2. CASE ~(F # {} /\ Cardinality(D \cup F) = n)
      BY <2>9, <3>2
    <3> QED BY <3>1, <3>2
  <2>11. ASSUME NEW v \in Coverages
         PROVE  \/ k.div[v] = st.div[v] /\ (static.diversity = 0 \/ Count(D, h, v) # static.diversity)
                \/ /\ static.diversity > 0 /\ Count(D, h, v) = static.diversity
                   /\ \E x \in OnV(D, h, v) : k.div[v] = h[x].score
                   /\ \A x \in OnV(D, h, v) : k.div[v] <= h[x].score
    <3> DEFINE mine == OnV(D, h, v)
    <3>1. k.div[v] = IF static.diversity > 0 /\ Cardinality(mine) = static.diversity
                     THEN Min({h[a].score : a \in mine}) ELSE st.div[v]
      BY <2>9 DEF OnV
    <3>2. Count(D, h, v) = Cardinality(mine) /\ IsFiniteSet(mine)
      BY <2>4, CountIs DEF Count
    <3>3. CASE static.diversity > 0 /\ Cardinality(mine) = static.diversity
      <4>1. mine # {}
        BY <3>3, FS_EmptySet
      <4>2. Scored(mine, h)
        BY <1>1, <2>3 DEF OnV, Scored
      <4>3. k.div[v] = Min(ScoresOf(mine, h))
        BY <3>1, <3>3 DEF ScoresOf
      <4> HIDE DEF mine
      <4>4. /\ \E x \in mine : k.div[v] = h[x].score
            /\ \A x \in mine : k.div[v] <= h[x].score
        BY <3>2, <4>1, <4>2, <4>3, LeastScore
      <4> QED BY <3>2, <3>3, <4>4 DEF mine
    <3>4. CASE ~(static.diversity > 0 /\ Cardinality(mine) = static.diversity)
      <4> HIDE DEF mine
      <4> QED BY <1>1, <3>1, <3>2, <3>4
    <3> QED BY <3>3, <3>4
  <2>12. k.div = [v \in Coverages |-> k.div[v]]
    BY <2>9
  <2>13. n > 0 /\ Cardinality(S) > n
    BY <1>1, <1>3
  <2> HIDE DEF m
  <2>14. PrunedTo(static, st, best, h, k, D, F, m)
    BY <2>3, <2>5, <2>7, <2>9, <2>10, <2>11, <2>12, <2>13 DEF PrunedTo
  <2> QED BY <2>14
<1> QED BY <1>2, <1>3

\* What is known of the stack S at any time: its hypotheses, and what its limits say about them.
Kept(z, S, h, worst, div, best) ==
  /\ Stacked(S, h)
  /\ \A a \in S : h[a].score \in Scores /\ h[a].score <= best
  /\ \A a, b \in S : h[a].class = h[b].class => a = b
  /\ best \in Scores \cup {LogZero}
  /\ best # LogZero => \E a \in S : h[a].score = best
  /\ worst \in Int /\ worst <= best
  /\ \/ worst = LogZero
     \/ worst <= best + BeamWidth
     \/ z.size > 0 /\ Cardinality(Places(z, S, h, worst)) >= z.size
  /\ div \in [Coverages -> Scores \cup {LogZero}]
  /\ z.diversity > 0 => \A v \in Coverages :
       div[v] = LogZero \/ Count(AtW(S, h, div[v]), h, v) >= z.diversity

\* The scores and the limits of the beam are integers.
LEMMA NumbersAre ==
  /\ LogZero \in Int /\ BeamWidth \in Int /\ BeamWidth < 0 /\ Scores \subseteq Int
  /\ \A s \in Scores : LogZero < s + BeamWidth /\ LogZero < s
BY StackAssumption

Parts(z, S, best, h, K, D, F, m) ==
  /\ D \subseteq S /\ F \subseteq S /\ D \cap F = {} /\ K = D \cup F
  /\ IsFiniteSet(D) /\ IsFiniteSet(F) /\ IsFiniteSet(D \cup F)
  /\ Cardinality(D) \in Nat /\ Cardinality(F) \in Nat /\ Cardinality(D \cup F) \in Nat
  /\ Cardinality(D \cup F) = Cardinality(D) + Cardinality(F)
  /\ m \in Nat /\ m >= z.size - Cardinality(D) /\ (m = 0 \/ m = z.size - Cardinality(D))
  /\ \A x \in F : h[x].score > best + BeamWidth
  /\ Cardinality(F) <= m

Diverse(z, S, h, D) ==
  /\ \A v \in Coverages : Count(D, h, v) <= z.diversity /\ Count(D, h, v) \in Nat
  /\ \A x \in S \ D : Count(D, h, Cov(h[x])) = z.diversity
  /\ \A x \in S \ D : \A d \in D : Cov(h[d]) = Cov(h[x]) => h[d].score >= h[x].score

\* The sets of a pruning are finite, and its parts lie apart.
LEMMA PartsAre ==
  ASSUME NEW z \in Settings, NEW st, NEW best \in Int, NEW h, Stacked(st.on, h), NEW k, NEW D, NEW F,
         NEW m, PrunedTo(z, st, best, h, k, D, F, m)
  PROVE  Parts(z, st.on, best, h, k.on, D, F, m)
<1>1. /\ D \subseteq st.on /\ k.on = D \cup F
      /\ m \in Nat /\ m >= z.size - Cardinality(D) /\ (m = 0 \/ m = z.size - Cardinality(D))
      /\ F \subseteq InBeam(st.on, h, best) \ D /\ Cardinality(F) <= m
  BY DEF PrunedTo, Top
<1>2. F \subseteq st.on /\ D \cap F = {} /\ \A x \in F : h[x].score > best + BeamWidth
  BY <1>1 DEF InBeam
<1>3. IsFiniteSet(D) /\ IsFiniteSet(F)
  BY <1>1, <1>2, StackedIs, FS_Subset
<1>4. IsFiniteSet(D \cup F) /\ Cardinality(D \cup F) = Cardinality(D) + Cardinality(F) - Cardinality(D \cap F)
  BY <1>3, FS_Union
<1>5. Cardinality(D \cap F) = 0
  BY <1>2, FS_EmptySet
<1>6. Cardinality(D) \in Nat /\ Cardinality(F) \in Nat /\ Cardinality(D \cup F) \in Nat
  BY <1>3, <1>4, FS_CardinalityType
<1> QED BY <1>1, <1>2, <1>3, <1>4, <1>5, <1>6 DEF Parts

\* The diverse ones are the best of their coverage.
LEMMA DiverseAre ==
  ASSUME NEW z \in Settings, NEW st, NEW best \in Int, NEW h, Stacked(st.on, h), NEW k, NEW D, NEW F,
         NEW m, PrunedTo(z, st, best, h, k, D, F, m)
  PROVE  Diverse(z, st.on, h, D)
<1>1. \A v \in Coverages : Top(z.diversity, OnV(D, h, v), OnV(st.on, h, v), h)
  BY DEF PrunedTo
<1>2. D \subseteq st.on
  BY DEF PrunedTo
<1>3. IsFiniteSet(D)
  BY <1>2, StackedIs, FS_Subset
<1>4. \A v \in Coverages : Count(D, h, v) <= z.diversity /\ Count(D, h, v) \in Nat
  BY <1>1, <1>3, CountIs DEF Top, Count
<1>5. ASSUME NEW x \in st.on \ D
      PROVE  /\ Count(D, h, Cov(h[x])) = z.diversity
             /\ \A d \in D : Cov(h[d]) = Cov(h[x]) => h[d].score >= h[x].score
  <2>1. Cov(h[x]) \in Coverages
    BY StackedIs
  <2>2. x \in OnV(st.on, h, Cov(h[x])) \ OnV(D, h, Cov(h[x]))
    BY DEF OnV
  <2>3. Top(z.diversity, OnV(D, h, Cov(h[x])), OnV(st.on, h, Cov(h[x])), h)
    BY <1>1, <2>1
  <2>4. /\ Cardinality(OnV(D, h, Cov(h[x]))) = z.diversity
        /\ \A d \in OnV(D, h, Cov(h[x])) : h[d].score >= h[x].score
    BY <2>2, <2>3 DEF Top
  <2> QED BY <2>4 DEF OnV, Count
<1> QED BY <1>4, <1>5 DEF Diverse

\* One that is thrown away was not among the best of its coverage.
LEMMA LostFromCoverage ==
  ASSUME NEW z \in Settings, NEW st, NEW best \in Int, NEW h, Stacked(st.on, h), NEW k, NEW D, NEW F,
         NEW m, PrunedTo(z, st, best, h, k, D, F, m), NEW a \in st.on \ k.on
  PROVE  Count(AtW(st.on, h, h[a].score), h, Cov(h[a])) > z.diversity
<1>p. Parts(z, st.on, best, h, k.on, D, F, m)
  BY PartsAre
<1>d. Diverse(z, st.on, h, D)
  BY DiverseAre
<1>z. z.size \in Nat /\ z.diversity \in Nat
  BY SettingIs
<1> DEFINE v == Cov(h[a])
           A == OnV(D, h, v)
           B == OnV(AtW(st.on, h, h[a].score), h, v)
<1>1. a \in st.on \ D
  BY <1>p DEF Parts
<1>2. Cardinality(A) = z.diversity
  BY <1>1, <1>d DEF Count, Diverse
<1>3. IsFiniteSet(A)
  BY <1>p, CountIs DEF Parts
<1>4. A \cup {a} \subseteq B
  <2>1. \A x \in A : x \in st.on /\ h[x].score >= h[a].score /\ Cov(h[x]) = v
    BY <1>1, <1>d, <1>p DEF OnV, Diverse, Parts
  <2>2. h[a].score >= h[a].score
    BY StackedIs
  <2> QED BY <2>1, <2>2 DEF OnV, AtW
<1>5. a \notin A
  BY <1>1 DEF OnV
<1>6. IsFiniteSet(B)
  <2>1. AtW(st.on, h, h[a].score) \subseteq st.on
    BY DEF AtW
  <2>2. IsFiniteSet(AtW(st.on, h, h[a].score))
    BY <2>1, StackedIs, FS_Subset
  <2> QED BY <2>2, CountIs
<1> HIDE DEF A, B
<1>7. Cardinality(A \cup {a}) = z.diversity + 1
  BY <1>2, <1>3, <1>5, FS_AddElement
<1>8. Cardinality(A \cup {a}) <= Cardinality(B)
  BY <1>4, <1>6, FS_Subset
<1>9. Cardinality(B) \in Nat /\ z.diversity \in Nat
  BY <1>6, <1>z, FS_CardinalityType
<1>10. Cardinality(B) > z.diversity
  BY <1>7, <1>8, <1>9
<1> QED BY <1>10 DEF B, Count

\* Nor, within the beam, among the best that fit beside the diverse ones.
LEMMA LostFromStack ==
  ASSUME NEW z \in Settings, NEW st, NEW best \in Int, NEW h, Stacked(st.on, h), NEW k, NEW D, NEW F,
         NEW m, PrunedTo(z, st, best, h, k, D, F, m), NEW a \in st.on \ k.on,
         h[a].score > best + BeamWidth
  PROVE  /\ Cardinality(F) = m /\ \A x \in F : h[x].score >= h[a].score
         /\ Cardinality(Places(z, st.on, h, h[a].score)) > z.size
<1>p. Parts(z, st.on, best, h, k.on, D, F, m)
  BY PartsAre
<1>d. Diverse(z, st.on, h, D)
  BY DiverseAre
<1>z. z.size \in Nat /\ z.diversity \in Nat
  BY SettingIs
<1>1. a \in st.on \ D /\ a \notin F
  BY <1>p DEF Parts
<1>2. a \in (InBeam(st.on, h, best) \ D) \ F
  BY <1>1 DEF InBeam
<1>3. Cardinality(F) = m /\ \A x \in F : h[x].score >= h[a].score
  BY <1>2 DEF PrunedTo, Top
<1> DEFINE X == (D \cup F) \cup {a}
<1>4. Crowded(z, st.on, h, h[a].score, D, X)
  <2>1. D \subseteq X /\ X \subseteq st.on
    BY <1>p DEF Parts
  <2>2. \A v \in Coverages : Count(D, h, v) <= z.diversity
    BY <1>d DEF Diverse
  <2>3. h[a].score >= h[a].score
    BY StackedIs
  <2>4. ASSUME NEW x \in X \ D
        PROVE  /\ h[x].score >= h[a].score
               /\ \A d \in D : Cov(h[d]) = Cov(h[x]) => h[d].score >= h[x].score
    <3>1. h[x].score >= h[a].score
      BY <1>3, <2>3
    <3>2. x \in st.on \ D
      BY <2>1
    <3> QED BY <3>1, <3>2, <1>d DEF Diverse
  <2> QED BY <2>1, <2>2, <2>4 DEF Crowded
<1>5. Cardinality(X) = Cardinality(D \cup F) + 1
  BY <1>1, <1>p, FS_AddElement DEF Parts
<1>6. h[a].score \in Int
  BY StackedIs
<1> HIDE DEF X
<1>7. Cardinality(X) <= Cardinality(Places(z, st.on, h, h[a].score))
  BY <1>4, <1>6, Crowd
<1>8. Cardinality(D \cup F) >= z.size
  BY <1>3, <1>p, <1>z DEF Parts
<1>9. Cardinality(D \cup F) \in Nat /\ z.size \in Nat
      /\ Cardinality(Places(z, st.on, h, h[a].score)) \in Nat
  BY <1>p, <1>z, PlacesFinite DEF Parts
<1> QED BY <1>3, <1>5, <1>7, <1>8, <1>9

\* The best is kept.
LEMMA PrunedBest ==
  ASSUME NEW z \in Settings, NEW st, NEW best \in Int, NEW h, Stacked(st.on, h), NEW k, NEW D, NEW F,
         NEW m, PrunedTo(z, st, best, h, k, D, F, m),
         NEW a \in st.on, h[a].score = best
  PROVE  \E b \in k.on : h[b].score >= best
<1>p. Parts(z, st.on, best, h, k.on, D, F, m)
  BY PartsAre
<1>d. Diverse(z, st.on, h, D)
  BY DiverseAre
<1>z. z.size \in Nat /\ z.diversity \in Nat
  BY SettingIs
<1>1. CASE a \in k.on
  BY <1>1
<1>2. CASE a \notin k.on
  <2>1. h[a].score > best + BeamWidth
    BY NumbersAre
  <2>2. Cardinality(F) = m /\ \A x \in F : h[x].score >= best
    BY <1>2, <2>1, LostFromStack
  <2>3. CASE F # {}
    BY <2>2, <2>3, <1>p DEF Parts
  <2>4. CASE F = {}
    <3>1. m = 0
      BY <2>2, <2>4, FS_EmptySet
    <3>2. z.size > 0
      BY DEF PrunedTo
    <3>3. Cardinality(D) # 0
      BY <3>1, <3>2, <1>p, <1>z DEF Parts
    <3>4. PICK d \in D : TRUE
      BY <3>3, FS_EmptySet
    <3>5. z.diversity > 0
      <4>1. OnV(D, h, Cov(h[d])) # {} /\ Cov(h[d]) \in Coverages
        BY <3>4, <1>p, StackedIs DEF OnV, Parts
      <4>2. Count(D, h, Cov(h[d])) # 0
        BY <4>1, <1>p, CountIs, FS_EmptySet DEF Count, Parts
      <4>3. Count(D, h, Cov(h[d])) \in Nat /\ Count(D, h, Cov(h[d])) <= z.diversity
        BY <4>1, <1>d DEF Diverse
      <4> QED BY <4>2, <4>3, <1>z
    <3>6. a \in st.on \ D
      BY <1>2, <1>p DEF Parts
    <3>7. Count(D, h, Cov(h[a])) = z.diversity
      BY <3>6, <1>d DEF Diverse
    <3>8. OnV(D, h, Cov(h[a])) # {}
      BY <3>5, <3>7, FS_EmptySet DEF Count
    <3>9. PICK b \in D : Cov(h[b]) = Cov(h[a])
      BY <3>8 DEF OnV
    <3> QED BY <3>6, <3>9, <1>d, <1>p DEF Diverse, Parts
  <2> QED BY <2>3, <2>4
<1> QED BY <1>1, <1>2

\* Part of a stack is one.
LEMMA SubStacked ==
  ASSUME NEW S, NEW h, Stacked(S, h), NEW T, T \subseteq S
  PROVE  Stacked(T, h)
BY FS_Subset DEF Stacked

\* The limit that a pruning sets: the stack is full of hypotheses that are not worse.
LEMMA NewWorst ==
  ASSUME NEW z \in Settings, NEW st, NEW best \in Int, NEW h, Stacked(st.on, h), NEW k, NEW D, NEW F,
         NEW m, PrunedTo(z, st, best, h, k, D, F, m),
         Cardinality(D \cup F) = z.size, k.worst \in Int,
         \A x \in F : k.worst <= h[x].score
  PROVE  Cardinality(Places(z, k.on, h, k.worst)) >= z.size
<1>p. Parts(z, st.on, best, h, k.on, D, F, m)
  BY PartsAre
<1>d. Diverse(z, st.on, h, D)
  BY DiverseAre
<1>1. k.on \subseteq st.on /\ k.on = D \cup F
  BY <1>p DEF Parts
<1>2. Stacked(k.on, h)
  BY <1>1, SubStacked
<1>3. Crowded(z, k.on, h, k.worst, D, k.on)
  <2>1. D \subseteq k.on
    BY <1>1
  <2>2. \A v \in Coverages : Count(D, h, v) <= z.diversity
    BY <1>d DEF Diverse
  <2>3. ASSUME NEW x \in k.on \ D
        PROVE  /\ h[x].score >= k.worst
               /\ \A d \in D : Cov(h[d]) = Cov(h[x]) => h[d].score >= h[x].score
    <3>1. x \in F /\ x \in st.on \ D
      BY <1>1, <2>3
    <3>2. h[x].score \in Int
      BY <3>1, StackedIs
    <3>3. h[x].score >= k.worst
      BY <3>1, <3>2
    <3> QED BY <1>d, <3>1, <3>3 DEF Diverse
  <2> QED BY <2>1, <2>2, <2>3 DEF Crowded
<1>4. Cardinality(k.on) <= Cardinality(Places(z, k.on, h, k.worst))
  BY <1>2, <1>3, Crowd
<1>5. Cardinality(Places(z, k.on, h, k.worst)) \in Nat /\ Cardinality(k.on) = z.size /\ z.size \in Nat
  BY <1>1, <1>2, PlacesFinite, SettingIs
<1> QED BY <1>4, <1>5

\* What a full stack holds above its limit, all within the beam, is what a pruning keeps: it
\* does not come to one below the limit.
LEMMA WorstRises ==
  ASSUME NEW z \in Settings, NEW st, NEW best \in Int, NEW h, Stacked(st.on, h), NEW k, NEW D, NEW F,
         NEW m, PrunedTo(z, st, best, h, k, D, F, m),
         NEW w \in Int, w > best + BeamWidth,
         Cardinality(Places(z, st.on, h, w)) >= z.size,
         Cardinality(D \cup F) = z.size, NEW x \in F
  PROVE  h[x].score >= w
<1>p. Parts(z, st.on, best, h, k.on, D, F, m)
  BY PartsAre
<1>d. Diverse(z, st.on, h, D)
  BY DiverseAre
<1>s. \A a \in st.on : Cov(h[a]) \in Coverages /\ h[a].score \in Int
  BY StackedIs
<1>b. BeamWidth \in Int
  BY NumbersAre
<1> SUFFICES ASSUME h[x].score < w PROVE FALSE
  BY <1>p, <1>s DEF Parts
<1> DEFINE X == D \cup F
           v == Cov(h[x])
<1>1. X = k.on /\ X \subseteq st.on /\ x \in st.on \ D
  BY <1>p DEF Parts
<1>2. ASSUME NEW a \in st.on, h[a].score >= w PROVE a \in X
  <2> SUFFICES ASSUME a \notin X PROVE FALSE
    OBVIOUS
  <2>1. h[a].score > best + BeamWidth
    BY <1>2, <1>b, <1>s
  <2>2. a \in st.on \ k.on
    BY <1>1
  <2>3. \A y \in F : h[y].score >= h[a].score
    BY <2>1, <2>2, LostFromStack
  <2> QED BY <1>1, <1>2, <1>s, <2>3
<1>3. Stacked(X, h)
  BY <1>1, SubStacked
<1> DEFINE cov == [a \in X |-> Cov(h[a])]
<1>4. /\ IsFiniteSet(Grid(X, cov)) /\ Cardinality(Grid(X, cov)) = Cardinality(X)
      /\ \A p : p \in Grid(X, cov) <=>
            p \in Coverages \X Nat /\ 1 <= p[2] /\ p[2] <= Count(X, h, p[1])
  BY <1>3, GridOf
<1> HIDE DEF cov
<1>5. ASSUME NEW u \in Coverages
      PROVE  /\ Count(AtW(st.on, h, w), h, u) <= Count(X, h, u)
             /\ z.diversity <= Count(X, h, u) \/ Count(st.on, h, u) <= Count(X, h, u)
  <2>1. IsFiniteSet(X)
    BY <1>3, StackedIs
  <2>2. AtW(st.on, h, w) \subseteq X
    BY <1>2 DEF AtW
  <2>3. D \subseteq X
    OBVIOUS
  <2>4. Count(D, h, u) <= Count(X, h, u) /\ Count(D, h, u) \in Nat /\ Count(X, h, u) \in Nat
    BY <2>1, <2>3, CountMono
  <2>5. CASE \E a \in st.on \ D : Cov(h[a]) = u
    <3>1. Count(D, h, u) = z.diversity
      BY <1>d, <2>5 DEF Diverse
    <3> QED BY <2>1, <2>2, <2>4, <3>1, CountMono
  <2>6. CASE ~ \E a \in st.on \ D : Cov(h[a]) = u
    <3>1. OnV(st.on, h, u) = OnV(X, h, u)
      BY <1>1, <2>6 DEF OnV
    <3>2. Count(st.on, h, u) = Count(X, h, u)
      BY <3>1 DEF Count
    <3> QED BY <2>1, <2>2, <2>4, <3>2, CountMono
  <2> QED BY <2>5, <2>6
<1> DEFINE place == <<v, Count(X, h, v)>>
<1>6. v \in Coverages /\ Count(X, h, v) \in Nat /\ Count(X, h, v) >= 1
      /\ Count(AtW(st.on, h, w), h, v) < Count(X, h, v) /\ z.diversity < Count(X, h, v)
  <2>1. v \in Coverages
    BY <1>1, <1>s
  <2>2. IsFiniteSet(OnV(X, h, v)) /\ x \in OnV(X, h, v)
    <3>1. IsFiniteSet(X)
      BY <1>3, StackedIs
    <3>2. x \in OnV(X, h, v)
      BY DEF OnV
    <3> QED BY <3>1, <3>2, CountIs
  <2>3. Count(D, h, v) = z.diversity /\ z.diversity \in Nat
    BY <1>1, <1>d, SettingIs DEF Diverse
  <2>4. OnV(D, h, v) \subseteq OnV(X, h, v) \ {x}
    BY <1>1 DEF OnV
  <2>5. OnV(AtW(st.on, h, w), h, v) \subseteq OnV(X, h, v) \ {x}
    <3>1. ASSUME NEW a \in AtW(st.on, h, w) PROVE a \in X /\ a # x
      BY <1>1, <1>2, <1>s DEF AtW
    <3> QED BY <3>1 DEF OnV
  <2>6. IsFiniteSet(OnV(X, h, v) \ {x})
        /\ Cardinality(OnV(X, h, v) \ {x}) = Cardinality(OnV(X, h, v)) - 1
    BY <2>2, FS_RemoveElement
  <2>7. Cardinality(OnV(D, h, v)) <= Cardinality(OnV(X, h, v)) - 1
    <3>1. Cardinality(OnV(D, h, v)) <= Cardinality(OnV(X, h, v) \ {x})
      BY <2>4, <2>6, FS_Subset
    <3> QED BY <2>6, <3>1
  <2>8. Cardinality(OnV(AtW(st.on, h, w), h, v)) <= Cardinality(OnV(X, h, v)) - 1
    <3>1. Cardinality(OnV(AtW(st.on, h, w), h, v)) <= Cardinality(OnV(X, h, v) \ {x})
      BY <2>5, <2>6, FS_Subset
    <3> QED BY <2>6, <3>1
  <2>9. Count(X, h, v) \in Nat
    BY <1>3, StackedIs, CountIs
  <2>10. Count(AtW(st.on, h, w), h, v) \in Nat
    BY AtWCount
  <2>11. Count(D, h, v) <= Count(X, h, v) - 1 /\ Count(AtW(st.on, h, w), h, v) <= Count(X, h, v) - 1
    BY <2>7, <2>8 DEF Count
  <2> QED BY <2>1, <2>3, <2>9, <2>10, <2>11
<1>7. place \in Grid(X, cov) /\ place \notin Places(z, st.on, h, w)
  <2>1. place \in Coverages \X Nat /\ place[1] = v /\ place[2] = Count(X, h, v)
    BY <1>6
  <2>2. place \in Grid(X, cov)
    <3>1. 1 <= place[2] /\ place[2] <= Count(X, h, place[1])
      BY <1>6, <2>1
    <3> HIDE DEF place, X
    <3> QED BY <1>4, <2>1, <3>1
  <2>3. /\ ~(place[2] <= Count(AtW(st.on, h, w), h, place[1]))
        /\ ~(place[2] <= z.diversity)
    <3>1. Count(AtW(st.on, h, w), h, v) \in Nat /\ z.diversity \in Nat
      BY AtWCount, SettingIs
    <3> HIDE DEF X, v, place
    <3> QED BY <1>6, <2>1, <3>1
  <2> QED BY <2>2, <2>3 DEF Places
<1>8. Places(z, st.on, h, w) \subseteq Grid(X, cov)
  <2> SUFFICES ASSUME NEW p \in Places(z, st.on, h, w) PROVE p \in Grid(X, cov)
    OBVIOUS
  <2>1. /\ p \in Coverages \X Nat /\ 1 <= p[2]
        /\ \/ p[2] <= Count(AtW(st.on, h, w), h, p[1])
           \/ p[2] <= z.diversity /\ p[2] <= Count(st.on, h, p[1])
    BY DEF Places
  <2>2. /\ Count(AtW(st.on, h, w), h, p[1]) <= Count(X, h, p[1])
        /\ z.diversity <= Count(X, h, p[1]) \/ Count(st.on, h, p[1]) <= Count(X, h, p[1])
    BY <1>5, <2>1
  <2>3. /\ Count(st.on, h, p[1]) \in Nat /\ Count(AtW(st.on, h, w), h, p[1]) \in Nat
        /\ Count(X, h, p[1]) \in Nat /\ z.diversity \in Nat
    BY <1>3, AtWCount, SettingIs
  <2>4. p[2] \in Nat
    BY <2>1
  <2> HIDE DEF X
  <2>5. p[2] <= Count(X, h, p[1])
    BY <2>1, <2>2, <2>3, <2>4
  <2> QED BY <1>4, <2>1, <2>5
<1> HIDE DEF X, place
<1>9. IsFiniteSet(Places(z, st.on, h, w)) /\ Cardinality(Places(z, st.on, h, w)) \in Nat
  BY PlacesFinite
<1>10. Cardinality(Places(z, st.on, h, w) \cup {place}) = Cardinality(Places(z, st.on, h, w)) + 1
  BY <1>7, <1>9, FS_AddElement
<1>11. Places(z, st.on, h, w) \cup {place} \subseteq Grid(X, cov)
  BY <1>7, <1>8
<1>12. Cardinality(Places(z, st.on, h, w) \cup {place}) <= Cardinality(Grid(X, cov))
  BY <1>4, <1>11, FS_Subset
<1>13. Cardinality(Grid(X, cov)) = z.size /\ z.size \in Nat
  BY <1>4, SettingIs DEF X
<1> QED BY <1>9, <1>10, <1>12, <1>13

\* When no limit is set, the places above the old one are still taken.
LEMMA SameWorst ==
  ASSUME NEW z \in Settings, NEW st, NEW best \in Int, NEW h, Stacked(st.on, h), NEW k, NEW D, NEW F,
         NEW m, PrunedTo(z, st, best, h, k, D, F, m),
         NEW w \in Int, w > best + BeamWidth,
         Cardinality(Places(z, st.on, h, w)) >= z.size,
         F = {} \/ Cardinality(D \cup F) # z.size
  PROVE  Cardinality(Places(z, k.on, h, w)) >= z.size
<1>p. Parts(z, st.on, best, h, k.on, D, F, m)
  BY PartsAre
<1>d. Diverse(z, st.on, h, D)
  BY DiverseAre
<1>s. \A a \in st.on : Cov(h[a]) \in Coverages /\ h[a].score \in Int
  BY StackedIs
<1>b. BeamWidth \in Int
  BY NumbersAre
<1>z. z.size \in Nat /\ z.diversity \in Nat
  BY SettingIs
<1>1. Stacked(k.on, h) /\ D \subseteq k.on /\ k.on \subseteq st.on
  BY <1>p, SubStacked DEF Parts
<1>2. IsFiniteSet(Places(z, k.on, h, w)) /\ Cardinality(Places(z, k.on, h, w)) \in Nat
  BY <1>1, PlacesFinite
<1>3. CASE Cardinality(D) >= z.size
  <2>1. Crowded(z, k.on, h, w, D, D)
    BY <1>1, <1>d DEF Crowded, Diverse
  <2>2. Cardinality(D) <= Cardinality(Places(z, k.on, h, w))
    BY <1>1, <2>1, Crowd
  <2> QED BY <1>2, <1>3, <1>p, <1>z, <2>2 DEF Parts
<1>4. CASE Cardinality(D) < z.size
  <2>1. \A a \in st.on : h[a].score >= w => a \in k.on
    <3> SUFFICES ASSUME NEW a \in st.on, h[a].score >= w, a \notin k.on PROVE FALSE
      OBVIOUS
    <3>1. h[a].score > best + BeamWidth
      BY <1>b, <1>s
    <3>2. Cardinality(F) = m
      BY <3>1, LostFromStack
    <3>3. m = z.size - Cardinality(D) /\ m > 0
      BY <1>4, <1>p, <1>z DEF Parts
    <3>4. Cardinality(D \cup F) = z.size
      BY <1>p, <1>z, <3>2, <3>3 DEF Parts
    <3>5. F # {}
      <4>1. Cardinality(F) # 0
        BY <3>2, <3>3
      <4> QED BY <4>1, FS_EmptySet
    <3> QED BY <3>4, <3>5
  <2>2. ASSUME NEW u \in Coverages
        PROVE  /\ Count(AtW(st.on, h, w), h, u) = Count(AtW(k.on, h, w), h, u)
               /\ z.diversity <= Count(k.on, h, u) \/ Count(st.on, h, u) <= Count(k.on, h, u)
    <3>1. AtW(st.on, h, w) = AtW(k.on, h, w)
      BY <1>1, <2>1 DEF AtW
    <3>2. CASE \E a \in st.on \ D : Cov(h[a]) = u
      <4>1. Count(D, h, u) = z.diversity
        BY <1>d, <3>2 DEF Diverse
      <4>2. Count(D, h, u) <= Count(k.on, h, u)
        BY <1>1, StackedIs, CountMono
      <4> QED BY <3>1, <4>1, <4>2
    <3>3. CASE ~ \E a \in st.on \ D : Cov(h[a]) = u
      <4>1. OnV(st.on, h, u) = OnV(k.on, h, u)
        BY <1>1, <3>3 DEF OnV
      <4>2. Count(st.on, h, u) = Count(k.on, h, u) /\ Count(st.on, h, u) \in Nat
        BY <4>1, AtWCount DEF Count
      <4> QED BY <3>1, <4>2
    <3> QED BY <3>2, <3>3
  <2>3. ASSUME NEW p \in Places(z, st.on, h, w) PROVE p \in Places(z, k.on, h, w)
    <3>1. /\ p \in Coverages \X Nat /\ 1 <= p[2]
          /\ \/ p[2] <= Count(AtW(st.on, h, w), h, p[1])
             \/ p[2] <= z.diversity /\ p[2] <= Count(st.on, h, p[1])
      BY DEF Places
    <3>2. /\ Count(AtW(st.on, h, w), h, p[1]) = Count(AtW(k.on, h, w), h, p[1])
          /\ z.diversity <= Count(k.on, h, p[1]) \/ Count(st.on, h, p[1]) <= Count(k.on, h, p[1])
      BY <2>2, <3>1
    <3>3. Count(st.on, h, p[1]) \in Nat /\ Count(k.on, h, p[1]) \in Nat
      BY <1>1, AtWCount
    <3>4. p[2] \in Nat
      BY <3>1
    <3>5. \/ p[2] <= Count(AtW(k.on, h, w), h, p[1])
          \/ p[2] <= z.diversity /\ p[2] <= Count(k.on, h, p[1])
      BY <1>z, <3>1, <3>2, <3>3, <3>4
    <3> QED BY <3>1, <3>5 DEF Places
  <2>4. Places(z, st.on, h, w) \subseteq Places(z, k.on, h, w)
    BY <2>3
  <2>5. Cardinality(Places(z, st.on, h, w)) <= Cardinality(Places(z, k.on, h, w))
    BY <1>2, <2>4, FS_Subset
  <2>6. Cardinality(Places(z, st.on, h, w)) \in Nat
    BY PlacesFinite
  <2> QED BY <1>2, <1>z, <2>5, <2>6
<1> QED BY <1>3, <1>4, <1>p, <1>z DEF Parts

\* The limit of a coverage: it has its diversity of hypotheses that are not worse.
Above(z, S, h, w, v) == w = LogZero \/ Count(AtW(S, h, w), h, v) >= z.diversity

\* The limit that a pruning sets for a coverage is no lower than the one before.
LEMMA DivSet ==
  ASSUME NEW z \in Settings, NEW st, NEW best \in Int, NEW h, Stacked(st.on, h), NEW k, NEW D, NEW F,
         NEW m, PrunedTo(z, st, best, h, k, D, F, m), NEW v \in Coverages,
         NEW d, Count(D, h, v) = z.diversity, z.diversity > 0,
         NEW x \in OnV(D, h, v), d = h[x].score, \A y \in OnV(D, h, v) : d <= h[y].score,
         NEW w \in Int, Above(z, st.on, h, w, v), \A a \in st.on : LogZero <= h[a].score
  PROVE  Above(z, k.on, h, d, v) /\ d >= w
<1>p. Parts(z, st.on, best, h, k.on, D, F, m)
  BY PartsAre
<1>d. Diverse(z, st.on, h, D)
  BY DiverseAre
<1>s. \A a \in st.on : Cov(h[a]) \in Coverages /\ h[a].score \in Int
  BY StackedIs
<1>z. z.size \in Nat /\ z.diversity \in Nat
  BY SettingIs
<1>1. Stacked(k.on, h) /\ D \subseteq k.on /\ k.on \subseteq st.on
  BY <1>p, SubStacked DEF Parts
<1>2. x \in D /\ x \in st.on /\ d \in Int
  BY <1>1, <1>s DEF OnV
<1>3. IsFiniteSet(OnV(D, h, v)) /\ Cardinality(OnV(D, h, v)) = z.diversity
  BY <1>p, CountIs DEF Count, Parts
<1>4. Count(AtW(k.on, h, d), h, v) >= z.diversity
  <2>1. OnV(D, h, v) \subseteq OnV(AtW(k.on, h, d), h, v)
    <3>1. ASSUME NEW y \in OnV(D, h, v) PROVE y \in OnV(AtW(k.on, h, d), h, v)
      <4>1. y \in k.on /\ Cov(h[y]) = v /\ d <= h[y].score /\ h[y].score \in Int
        BY <1>1, <1>s DEF OnV
      <4> QED BY <1>2, <4>1 DEF OnV, AtW
    <3> QED BY <3>1
  <2>2. IsFiniteSet(OnV(AtW(k.on, h, d), h, v))
    <3>1. AtW(k.on, h, d) \subseteq k.on
      BY DEF AtW
    <3>2. IsFiniteSet(AtW(k.on, h, d))
      BY <1>1, <3>1, StackedIs, FS_Subset
    <3> QED BY <3>2, CountIs
  <2>3. Cardinality(OnV(D, h, v)) <= Cardinality(OnV(AtW(k.on, h, d), h, v))
    BY <2>1, <2>2, FS_Subset
  <2>4. Cardinality(OnV(AtW(k.on, h, d), h, v)) \in Nat
    BY <2>2, FS_CardinalityType
  <2> QED BY <1>3, <1>z, <2>3, <2>4 DEF Count
<1>5. d >= w
  <2>1. CASE w = LogZero
    BY <1>2, <2>1
  <2>2. CASE w # LogZero
    <3> SUFFICES ASSUME d < w PROVE FALSE
      BY <1>2
    <3> DEFINE B == OnV(AtW(st.on, h, w), h, v)
    <3>1. Cardinality(B) >= z.diversity
      BY <2>2 DEF Above, Count
    <3>2. x \notin B
      BY <1>2 DEF OnV, AtW
    <3>3. CASE B \subseteq D
      <4>1. B \subseteq OnV(D, h, v) \ {x}
        BY <3>2, <3>3 DEF OnV
      <4>2. IsFiniteSet(OnV(D, h, v) \ {x}) /\ Cardinality(OnV(D, h, v) \ {x}) = z.diversity - 1
        <5>1. IsFiniteSet(OnV(D, h, v) \ {x})
              /\ Cardinality(OnV(D, h, v) \ {x}) = Cardinality(OnV(D, h, v)) - 1
          BY <1>3, FS_RemoveElement
        <5> QED BY <1>3, <5>1
      <4> HIDE DEF B
      <4>3. Cardinality(B) <= z.diversity - 1 /\ Cardinality(B) \in Nat
        BY <4>1, <4>2, FS_Subset, FS_CardinalityType
      <4> QED BY <1>z, <3>1, <4>3
    <3>4. ASSUME NEW b \in B, b \notin D PROVE FALSE
      <4>1. b \in st.on \ D /\ Cov(h[b]) = v /\ h[b].score >= w
        BY <3>4 DEF OnV, AtW
      <4>2. h[x].score >= h[b].score
        <5>1. Cov(h[x]) = Cov(h[b])
          BY <4>1 DEF OnV
        <5> QED BY <1>d, <1>2, <4>1, <5>1 DEF Diverse
      <4> QED BY <1>s, <1>2, <4>1, <4>2
    <3> QED BY <3>3, <3>4
  <2> QED BY <2>1, <2>2
<1> QED BY <1>4, <1>5 DEF Above

\* Where a pruning sets no limit for a coverage the one before still holds.
LEMMA DivSame ==
  ASSUME NEW z \in Settings, NEW st, NEW best \in Int, NEW h, Stacked(st.on, h), NEW k, NEW D, NEW F,
         NEW m, PrunedTo(z, st, best, h, k, D, F, m), NEW v \in Coverages,
         Count(D, h, v) # z.diversity, NEW w \in Int, Above(z, st.on, h, w, v)
  PROVE  Above(z, k.on, h, w, v)
<1>p. Parts(z, st.on, best, h, k.on, D, F, m)
  BY PartsAre
<1>d. Diverse(z, st.on, h, D)
  BY DiverseAre
<1>1. \A x \in st.on : Cov(h[x]) = v => x \in k.on
  BY <1>p, <1>d DEF Parts, Diverse
<1>2. k.on \subseteq st.on
  BY <1>p DEF Parts
<1>3. OnV(AtW(st.on, h, w), h, v) = OnV(AtW(k.on, h, w), h, v)
  BY <1>1, <1>2 DEF OnV, AtW
<1> QED BY <1>3 DEF Above, Count

\* What a pruning leaves, and what it throws away.
Lost(z, S, h, best, T) ==
  \A a \in S \ T :
    /\ Count(AtW(S, h, h[a].score), h, Cov(h[a])) > z.diversity
    /\ h[a].score > best + BeamWidth =>
         z.size > 0 /\ Cardinality(Places(z, S, h, h[a].score)) > z.size

Fits(z, S, h, best) ==
  z.size > 0 => Cardinality(S) <= z.size \/ Cardinality(S) <= Cardinality(Places(z, S, h, best + 1))

\* The numbers of a stack.
LEMMA KeptIs ==
  ASSUME NEW z, NEW S, NEW h, NEW worst, NEW div, NEW best, Kept(z, S, h, worst, div, best)
  PROVE  /\ Stacked(S, h) /\ best \in Int /\ worst \in Int
         /\ \A a \in S : h[a].score \in Scores /\ h[a].score \in Int /\ h[a].score <= best
                         /\ LogZero < h[a].score
         /\ \A v \in Coverages : div[v] \in Int
BY NumbersAre DEF Kept

\* A pruning keeps Kept, throws away only what is Lost, leaves what Fits, and no limit falls.
LEMMA PruneStep ==
  ASSUME NEW z \in Settings, NEW st, NEW best, NEW h, NEW k, NEW D, NEW F, NEW m,
         Kept(z, st.on, h, st.worst, st.div, best), PrunedTo(z, st, best, h, k, D, F, m)
  PROVE  /\ Kept(z, k.on, h, k.worst, k.div, best)
         /\ k.on \subseteq st.on /\ Lost(z, st.on, h, best, k.on) /\ Fits(z, k.on, h, best)
         /\ k.worst >= st.worst
         /\ \A v \in Coverages : k.div[v] >= st.div[v]
<1>k. /\ Stacked(st.on, h) /\ best \in Int /\ st.worst \in Int
      /\ \A a \in st.on : h[a].score \in Scores /\ h[a].score \in Int /\ h[a].score <= best
                          /\ LogZero < h[a].score
      /\ \A v \in Coverages : st.div[v] \in Int
  BY KeptIs
<1>p. Parts(z, st.on, best, h, k.on, D, F, m)
  BY <1>k, PartsAre
<1>d. Diverse(z, st.on, h, D)
  BY <1>k, DiverseAre
<1>z. z.size \in Nat /\ z.diversity \in Nat /\ z.size > 0
  BY SettingIs DEF PrunedTo
<1>n. LogZero \in Int /\ BeamWidth \in Int /\ BeamWidth < 0
  BY NumbersAre
<1>1. Stacked(k.on, h) /\ D \subseteq k.on /\ k.on \subseteq st.on /\ F \subseteq k.on /\ k.on = D \cup F
  BY <1>k, <1>p, SubStacked DEF Parts
<1>2. Lost(z, st.on, h, best, k.on)
  <2> SUFFICES ASSUME NEW a \in st.on \ k.on
               PROVE  /\ Count(AtW(st.on, h, h[a].score), h, Cov(h[a])) > z.diversity
                      /\ h[a].score > best + BeamWidth =>
                           z.size > 0 /\ Cardinality(Places(z, st.on, h, h[a].score)) > z.size
    BY DEF Lost
  <2>1. Count(AtW(st.on, h, h[a].score), h, Cov(h[a])) > z.diversity
    BY <1>k, LostFromCoverage
  <2>2. h[a].score > best + BeamWidth => Cardinality(Places(z, st.on, h, h[a].score)) > z.size
    BY <1>k, LostFromStack
  <2> QED BY <1>z, <2>1, <2>2
<1>3. Fits(z, k.on, h, best)
  <2>1. CASE m = 0
    <3>1. F = {}
      <4>1. Cardinality(F) = 0 /\ IsFiniteSet(F)
        BY <1>p, <2>1 DEF Parts
      <4> QED BY <4>1, FS_EmptySet
    <3>2. Crowded(z, k.on, h, best + 1, D, k.on)
      BY <1>1, <1>d, <3>1 DEF Crowded, Diverse
    <3>3. best + 1 \in Int
      BY <1>k
    <3>4. Cardinality(k.on) <= Cardinality(Places(z, k.on, h, best + 1))
      BY <1>1, <3>2, <3>3, Crowd
    <3> QED BY <3>4 DEF Fits
  <2>2. CASE m # 0
    <3>1. Cardinality(k.on) <= z.size
      BY <1>p, <1>z, <2>2 DEF Parts
    <3> QED BY <3>1 DEF Fits
  <2> QED BY <2>1, <2>2
<1>w. \/ st.worst = LogZero
      \/ st.worst <= best + BeamWidth
      \/ Cardinality(Places(z, st.on, h, st.worst)) >= z.size
  BY DEF Kept
<1>4. /\ k.worst \in Int /\ k.worst <= best /\ k.worst >= st.worst
      /\ \/ k.worst = LogZero
         \/ k.worst <= best + BeamWidth
         \/ z.size > 0 /\ Cardinality(Places(z, k.on, h, k.worst)) >= z.size
  <2>1. CASE /\ F # {} /\ Cardinality(D \cup F) = z.size
             /\ \E x \in F : k.worst = h[x].score
             /\ \A x \in F : k.worst <= h[x].score
    <3>1. PICK x \in F : k.worst = h[x].score
      BY <2>1
    <3>2. x \in st.on /\ k.worst \in Int /\ k.worst <= best /\ LogZero < k.worst
      BY <1>k, <1>1, <3>1
    <3>3. Cardinality(Places(z, k.on, h, k.worst)) >= z.size
      BY <1>k, <2>1, <3>2, NewWorst
    <3>4. k.worst >= st.worst
      <4>1. CASE st.worst = LogZero
        BY <1>n, <3>2, <4>1
      <4>2. CASE st.worst <= best + BeamWidth
        <5>1. k.worst > best + BeamWidth
          BY <1>p, <3>1 DEF Parts
        <5> QED BY <1>k, <1>n, <3>2, <4>2, <5>1
      <4>3. CASE st.worst > best + BeamWidth /\ Cardinality(Places(z, st.on, h, st.worst)) >= z.size
        <5>1. Cardinality(D \cup F) = z.size
          BY <2>1
        <5>2. \A w \in Int : w = st.worst => h[x].score >= w
          BY <1>k, <4>3, <5>1, WorstRises
        <5> QED BY <1>k, <3>1, <5>2
      <4> QED BY <1>k, <1>n, <1>w, <4>1, <4>2, <4>3
    <3> QED BY <1>z, <3>2, <3>3, <3>4
  <2>2. CASE (F = {} \/ Cardinality(D \cup F) # z.size) /\ k.worst = st.worst
    <3>1. k.worst \in Int /\ k.worst <= best /\ k.worst >= st.worst
      BY <1>k, <2>2 DEF Kept
    <3>2. CASE st.worst > best + BeamWidth /\ Cardinality(Places(z, st.on, h, st.worst)) >= z.size
      <4>1. Cardinality(Places(z, k.on, h, st.worst)) >= z.size
        BY <1>k, <2>2, <3>2, SameWorst
      <4> QED BY <1>z, <2>2, <3>1, <4>1
    <3>3. CASE st.worst <= best + BeamWidth \/ st.worst = LogZero
      BY <2>2, <3>1, <3>3
    <3> QED BY <1>k, <1>n, <1>w, <3>2, <3>3
  <2> QED BY <2>1, <2>2 DEF PrunedTo
<1>5. ASSUME NEW v \in Coverages
      PROVE  /\ k.div[v] >= st.div[v] /\ k.div[v] \in Scores \cup {LogZero}
             /\ z.diversity > 0 => Above(z, k.on, h, k.div[v], v)
  <2>0. /\ st.div[v] \in Scores \cup {LogZero} /\ st.div[v] \in Int
        /\ z.diversity > 0 => Above(z, st.on, h, st.div[v], v)
    BY <1>k DEF Kept, Above
  <2>1. CASE k.div[v] = st.div[v] /\ (z.diversity = 0 \/ Count(D, h, v) # z.diversity)
    <3>1. z.diversity > 0 => Above(z, k.on, h, st.div[v], v)
      BY <1>k, <2>0, <2>1, DivSame
    <3> QED BY <2>0, <2>1, <3>1
  <2>2. CASE /\ z.diversity > 0 /\ Count(D, h, v) = z.diversity
             /\ \E x \in OnV(D, h, v) : k.div[v] = h[x].score
             /\ \A x \in OnV(D, h, v) : k.div[v] <= h[x].score
    <3>1. PICK x \in OnV(D, h, v) : k.div[v] = h[x].score
      BY <2>2
    <3>2. x \in st.on
      BY <1>1 DEF OnV
    <3>3. k.div[v] \in Scores
      BY <1>k, <3>1, <3>2
    <3>4. \A a \in st.on : LogZero <= h[a].score
      BY <1>k, <1>n
    <3>5. Above(z, k.on, h, k.div[v], v) /\ k.div[v] >= st.div[v]
      BY <1>k, <2>0, <2>2, <3>1, <3>4, DivSet
    <3> QED BY <3>3, <3>5
  <2> QED BY <2>1, <2>2 DEF PrunedTo
<1>6. best # LogZero => \E a \in k.on : h[a].score = best
  <2> SUFFICES ASSUME best # LogZero PROVE \E a \in k.on : h[a].score = best
    OBVIOUS
  <2>1. PICK a \in st.on : h[a].score = best
    BY DEF Kept
  <2>2. PICK b \in k.on : h[b].score >= best
    BY <1>k, <2>1, PrunedBest
  <2> QED BY <1>k, <1>1, <2>2
<1>7. k.div \in [Coverages -> Scores \cup {LogZero}]
  <2>1. k.div = [v \in Coverages |-> k.div[v]]
    BY DEF PrunedTo
  <2> QED BY <1>5, <2>1
<1>8. /\ \A a \in k.on : h[a].score \in Scores /\ h[a].score <= best
      /\ \A a, b \in k.on : h[a].class = h[b].class => a = b
      /\ best \in Scores \cup {LogZero}
  BY <1>1 DEF Kept
<1>9. Kept(z, k.on, h, k.worst, k.div, best)
  BY <1>1, <1>4, <1>5, <1>6, <1>7, <1>8 DEF Kept, Above
<1> QED BY <1>1, <1>2, <1>3, <1>4, <1>5, <1>9

-----------------------------------------------------------------------------
(* What was offered, as if every class were a hypothesis with its best score *)

Off(bo) == {c \in Classes : bo[c] # LogZero}
Hb(bo) == [c \in Classes |-> [class |-> c, score |-> bo[c]]]
IsOffer(bo) == bo \in [Classes -> Scores \cup {LogZero}]

Must(z, bo, best) ==
  {c \in Off(bo) :
     \/ Count(AtW(Off(bo), Hb(bo), bo[c]), Hb(bo), c[1]) <= z.diversity
     \/ /\ bo[c] > best + BeamWidth
        /\ z.size = 0 \/ Cardinality(Places(z, Off(bo), Hb(bo), bo[c])) <= z.size}

\* The stack S against what was offered.
Remembered(z, S, h, best, bo) ==
  /\ IsOffer(bo)
  /\ \A c \in Classes : bo[c] <= best
  /\ \E c \in Classes : bo[c] = best
  /\ \A a \in S : h[a].score <= bo[h[a].class]
  /\ \A c \in Must(z, bo, best) : \E a \in S : h[a].class = c /\ h[a].score = bo[c]

\* What was offered can be counted like a stack.
LEMMA OffIs ==
  ASSUME NEW bo, IsOffer(bo)
  PROVE  /\ Stacked(Off(bo), Hb(bo))
         /\ \A c \in Classes : bo[c] \in Int /\ LogZero <= bo[c] /\ (bo[c] # LogZero => LogZero < bo[c])
         /\ \A c \in Classes : Hb(bo)[c].class = c /\ Hb(bo)[c].score = bo[c] /\ Cov(Hb(bo)[c]) = c[1]
<1>1. ASSUME NEW c \in Classes
      PROVE  bo[c] \in Int /\ LogZero <= bo[c] /\ (bo[c] # LogZero => LogZero < bo[c])
  <2>1. bo[c] \in Scores \cup {LogZero}
    BY DEF IsOffer
  <2>2. /\ bo[c] = LogZero \/ (bo[c] \in Int /\ LogZero < bo[c])
        /\ LogZero \in Int
    BY <2>1, NumbersAre
  <2> QED BY <2>2
<1>2. \A c \in Classes : Hb(bo)[c].class = c /\ Hb(bo)[c].score = bo[c] /\ Cov(Hb(bo)[c]) = c[1]
  BY DEF Hb, Cov
<1>3. IsFiniteSet(Classes)
  BY StackAssumption, FS_Product DEF Classes
<1>4. Off(bo) \subseteq Classes
  BY DEF Off
<1>5. Stacked(Off(bo), Hb(bo))
  BY <1>1, <1>2, <1>3, <1>4, FS_Subset DEF Stacked
<1> QED BY <1>1, <1>2, <1>5

\* Each hypothesis of the stack stands for its class.
LEMMA StackBelowOffer ==
  ASSUME NEW z, NEW S, NEW h, NEW worst, NEW div, NEW best, Kept(z, S, h, worst, div, best),
         NEW bo, IsOffer(bo), \A a \in S : h[a].score <= bo[h[a].class]
  PROVE  Better([a \in S |-> h[a].class], S, h, Off(bo), Hb(bo))
<1>1. /\ Stacked(S, h)
      /\ \A a \in S : h[a].score \in Int /\ LogZero < h[a].score
  BY KeptIs
<1>2. /\ \A c \in Classes : bo[c] \in Int
      /\ \A c \in Classes : Hb(bo)[c].class = c /\ Hb(bo)[c].score = bo[c] /\ Cov(Hb(bo)[c]) = c[1]
  BY OffIs
<1>3. \A a, b \in S : h[a].class = h[b].class => a = b
  BY DEF Kept
<1>4. LogZero \in Int
  BY NumbersAre
<1>5. ASSUME NEW a \in S
      PROVE  /\ h[a].class \in Off(bo)
             /\ Cov(Hb(bo)[h[a].class]) = Cov(h[a]) /\ Hb(bo)[h[a].class].score >= h[a].score
  <2>1. h[a].class \in Classes
    BY <1>1 DEF Stacked
  <2>2. bo[h[a].class] \in Int /\ h[a].score <= bo[h[a].class] /\ h[a].score \in Int /\ LogZero < h[a].score
    BY <1>1, <1>2, <2>1
  <2>3. h[a].class \in Off(bo)
    BY <1>4, <2>1, <2>2 DEF Off
  <2> QED BY <1>2, <2>1, <2>2, <2>3 DEF Cov
<1> QED BY <1>3, <1>5 DEF Better

\* What a pruning throws away need not have been kept.
LEMMA PruneRemembers ==
  ASSUME NEW z \in Settings, NEW S, NEW h, NEW worst, NEW div, NEW best,
         Kept(z, S, h, worst, div, best), NEW bo, Remembered(z, S, h, best, bo),
         NEW T, T \subseteq S, Lost(z, S, h, best, T)
  PROVE  Remembered(z, T, h, best, bo)
<1>1. IsOffer(bo) /\ \A a \in S : h[a].score <= bo[h[a].class]
  BY DEF Remembered
<1>2. Better([a \in S |-> h[a].class], S, h, Off(bo), Hb(bo))
  BY <1>1, StackBelowOffer
<1>3. Stacked(S, h) /\ \A a \in S : h[a].score \in Int
  BY KeptIs
<1>4. Stacked(Off(bo), Hb(bo))
  BY <1>1, OffIs
<1>z. z.size \in Nat /\ z.diversity \in Nat
  BY SettingIs
<1>5. ASSUME NEW c \in Must(z, bo, best) PROVE \E a \in T : h[a].class = c /\ h[a].score = bo[c]
  <2>1. PICK a \in S : h[a].class = c /\ h[a].score = bo[c]
    BY DEF Remembered
  <2> SUFFICES ASSUME a \notin T PROVE FALSE
    BY <2>1
  <2>2. /\ Count(AtW(S, h, bo[c]), h, c[1]) > z.diversity
        /\ bo[c] > best + BeamWidth =>
             z.size > 0 /\ Cardinality(Places(z, S, h, bo[c])) > z.size
    BY <2>1 DEF Lost, Cov
  <2>3. bo[c] \in Int /\ bo[c] <= bo[c]
    BY <1>3, <2>1
  <2>4. Count(AtW(S, h, bo[c]), h, c[1]) <= Count(AtW(Off(bo), Hb(bo), bo[c]), Hb(bo), c[1])
    BY <1>2, <1>3, <1>4, <2>3, CountBetter
  <2>5. Cardinality(Places(z, S, h, bo[c])) <= Cardinality(Places(z, Off(bo), Hb(bo), bo[c]))
    BY <1>2, <1>3, <1>4, <2>3, PlacesBetter
  <2>6. /\ Count(AtW(S, h, bo[c]), h, c[1]) \in Nat
        /\ Count(AtW(Off(bo), Hb(bo), bo[c]), Hb(bo), c[1]) \in Nat
    BY <1>3, <1>4, AtWCount
  <2>7. /\ Cardinality(Places(z, S, h, bo[c])) \in Nat
        /\ Cardinality(Places(z, Off(bo), Hb(bo), bo[c])) \in Nat
    BY <1>3, <1>4, PlacesFinite
  <2> QED BY <1>z, <2>2, <2>4, <2>5, <2>6, <2>7 DEF Must
<1> QED BY <1>5 DEF Remembered

\* With more offered, less of what was offered before must survive.
LEMMA MustShrinks ==
  ASSUME NEW z \in Settings, NEW bo, NEW be, IsOffer(bo), IsOffer(be),
         \A c \in Classes : bo[c] <= be[c], NEW best \in Int, NEW better \in Int, best <= better,
         NEW d \in Must(z, be, better), be[d] = bo[d]
  PROVE  d \in Must(z, bo, best)
<1>1. /\ Stacked(Off(bo), Hb(bo)) /\ Stacked(Off(be), Hb(be))
      /\ \A c \in Classes : bo[c] \in Int /\ LogZero <= bo[c] /\ (bo[c] # LogZero => LogZero < bo[c])
      /\ \A c \in Classes : Hb(bo)[c].score = bo[c] /\ Cov(Hb(bo)[c]) = c[1]
      /\ \A c \in Classes : be[c] \in Int
      /\ \A c \in Classes : Hb(be)[c].score = be[c] /\ Cov(Hb(be)[c]) = c[1]
  BY OffIs
<1>n. LogZero \in Int /\ BeamWidth \in Int
  BY NumbersAre
<1>z. z.size \in Nat /\ z.diversity \in Nat
  BY SettingIs
<1>2. Off(bo) \subseteq Off(be) /\ Off(bo) \subseteq Classes
  BY <1>1, <1>n DEF Off
<1> DEFINE f == [c \in Off(bo) |-> c]
<1>3. Better(f, Off(bo), Hb(bo), Off(be), Hb(be))
  BY <1>1, <1>2 DEF Better
<1> HIDE DEF f
<1>4. d \in Off(be) /\ d \in Classes /\ d \in Off(bo) /\ bo[d] \in Int /\ bo[d] <= bo[d]
  BY <1>1 DEF Must, Off
<1>5. Count(AtW(Off(bo), Hb(bo), bo[d]), Hb(bo), d[1])
        <= Count(AtW(Off(be), Hb(be), bo[d]), Hb(be), d[1])
  BY <1>1, <1>3, <1>4, CountBetter
<1>6. Cardinality(Places(z, Off(bo), Hb(bo), bo[d])) <= Cardinality(Places(z, Off(be), Hb(be), bo[d]))
  BY <1>1, <1>3, <1>4, PlacesBetter
<1>7. /\ Count(AtW(Off(bo), Hb(bo), bo[d]), Hb(bo), d[1]) \in Nat
      /\ Count(AtW(Off(be), Hb(be), bo[d]), Hb(be), d[1]) \in Nat
  BY <1>1, AtWCount
<1>8. /\ Cardinality(Places(z, Off(bo), Hb(bo), bo[d])) \in Nat
      /\ Cardinality(Places(z, Off(be), Hb(be), bo[d])) \in Nat
  BY <1>1, PlacesFinite
<1>9. \/ Count(AtW(Off(be), Hb(be), bo[d]), Hb(be), d[1]) <= z.diversity
      \/ /\ bo[d] > better + BeamWidth
         /\ z.size = 0 \/ Cardinality(Places(z, Off(be), Hb(be), bo[d])) <= z.size
  BY DEF Must
<1>10. \/ Count(AtW(Off(bo), Hb(bo), bo[d]), Hb(bo), d[1]) <= z.diversity
       \/ /\ bo[d] > best + BeamWidth
          /\ z.size = 0 \/ Cardinality(Places(z, Off(bo), Hb(bo), bo[d])) <= z.size
  BY <1>4, <1>5, <1>6, <1>7, <1>8, <1>9, <1>n, <1>z
<1> QED BY <1>4, <1>10 DEF Must

\* A new score for a class.
Offer(bo, c, s) == [bo EXCEPT ![c] = Max({@, s})]

\* An offer changes the best score of its class only, and never to a lower one.
LEMMA OfferIs ==
  ASSUME NEW bo, IsOffer(bo), NEW c \in Classes, NEW s \in Scores \cup {LogZero}
  PROVE  /\ IsOffer(Offer(bo, c, s))
         /\ \A d \in Classes : bo[d] <= Offer(bo, c, s)[d]
         /\ \A d \in Classes : d # c => Offer(bo, c, s)[d] = bo[d]
         /\ Offer(bo, c, s)[c] = IF bo[c] >= s THEN bo[c] ELSE s
         /\ s <= bo[c] => Offer(bo, c, s) = bo
<1>1. /\ bo \in [Classes -> Scores \cup {LogZero}]
      /\ \A d \in Classes : bo[d] \in Int
  BY OffIs DEF IsOffer
<1>2. s \in Int
  BY NumbersAre
<1>3. Max({bo[c], s}) = IF bo[c] >= s THEN bo[c] ELSE s
  BY <1>1, <1>2, MaxPair
<1>4. /\ Offer(bo, c, s) \in [Classes -> Scores \cup {LogZero}]
      /\ Offer(bo, c, s)[c] = IF bo[c] >= s THEN bo[c] ELSE s
      /\ \A d \in Classes : d # c => Offer(bo, c, s)[d] = bo[d]
  BY <1>1, <1>3 DEF Offer
<1>5. \A d \in Classes : bo[d] <= Offer(bo, c, s)[d]
  <2> SUFFICES ASSUME NEW d \in Classes PROVE bo[d] <= Offer(bo, c, s)[d]
    OBVIOUS
  <2>1. CASE d = c
    BY <1>1, <1>2, <1>4, <2>1
  <2>2. CASE d # c
    BY <1>1, <1>4, <2>2
  <2> QED BY <2>1, <2>2
<1>6. s <= bo[c] => Offer(bo, c, s) = bo
  BY <1>1, <1>2, <1>3 DEF Offer
<1> QED BY <1>4, <1>5, <1>6 DEF IsOffer

\* A higher bar leaves out a hypothesis that is below it.
LEMMA CountStrict ==
  ASSUME NEW T, NEW h, Stacked(T, h), NEW x \in T, NEW s \in Int, h[x].score = s,
         NEW w \in Int, s < w
  PROVE  Count(AtW(T, h, w), h, Cov(h[x])) < Count(AtW(T, h, s), h, Cov(h[x]))
<1> DEFINE A == AtW(T, h, w)
           B == AtW(T, h, s)
           v == Cov(h[x])
<1>1. IsFiniteSet(T) /\ \A y \in T : h[y].score \in Int
  BY DEF Stacked
<1>2. A \subseteq B /\ B \subseteq T
  BY <1>1 DEF AtW
<1>3. IsFiniteSet(B)
  BY <1>1, <1>2, FS_Subset
<1>4. x \in OnV(B, h, v) /\ x \notin OnV(A, h, v)
  BY <1>1 DEF AtW, OnV
<1> HIDE DEF A, B, v
<1>5. /\ Count(A, h, v) \in Nat /\ Count(B, h, v) \in Nat
      /\ Count(A, h, v) <= Count(B, h, v)
      /\ Count(A, h, v) = Count(B, h, v) => OnV(A, h, v) = OnV(B, h, v)
  BY <1>2, <1>3, CountMono
<1>6. Count(A, h, v) < Count(B, h, v)
  BY <1>4, <1>5
<1> QED BY <1>6 DEF A, B, v

\* Nor does it leave its place, which is none that the diversity keeps.
LEMMA PlacesStrict ==
  ASSUME NEW z \in Settings, NEW T, NEW h, Stacked(T, h), NEW x \in T, NEW s \in Int,
         h[x].score = s, NEW w \in Int, s < w,
         Count(AtW(T, h, s), h, Cov(h[x])) > z.diversity
  PROVE  Cardinality(Places(z, T, h, w)) < Cardinality(Places(z, T, h, s))
<1> DEFINE v == Cov(h[x])
           n == Count(AtW(T, h, s), h, v)
           A == Places(z, T, h, w)
           B == Places(z, T, h, s)
<1>1. \A y \in T : Cov(h[y]) \in Coverages /\ h[y].score \in Int
  BY StackedIs
<1>2. Count(AtW(T, h, w), h, v) < n
  BY CountStrict
<1>3. n \in Nat /\ Count(AtW(T, h, w), h, v) \in Nat /\ z.diversity \in Nat /\ n > z.diversity
  BY AtWCount, SettingIs
<1>4. v \in Coverages
  BY <1>1
<1>5. <<v, n>> \in B
  BY <1>2, <1>3, <1>4 DEF Places
<1>6. <<v, n>> \notin A
  <2> SUFFICES ASSUME <<v, n>> \in A PROVE FALSE
    OBVIOUS
  <2>1. n <= Count(AtW(T, h, w), h, v) \/ n <= z.diversity
    BY DEF Places
  <2> HIDE DEF v, n
  <2> QED BY <1>2, <1>3, <2>1
<1>7. A \subseteq B
  <2> DEFINE f == [y \in T |-> y]
  <2>1. Better(f, T, h, T, h)
    BY <1>1 DEF Better
  <2> HIDE DEF f
  <2>2. s <= w
    OBVIOUS
  <2> QED BY <2>1, <2>2, PlacesBetter
<1>8. IsFiniteSet(B) /\ IsFiniteSet(A) /\ Cardinality(A) \in Nat /\ Cardinality(B) \in Nat
  BY PlacesFinite
<1>9. A # B
  BY <1>5, <1>6
<1> HIDE DEF A, B
<1>10. Cardinality(A) <= Cardinality(B) /\ (Cardinality(A) = Cardinality(B) => A = B)
  BY <1>7, <1>8, FS_Subset
<1>11. Cardinality(A) < Cardinality(B)
  BY <1>8, <1>9, <1>10
<1> QED BY <1>11 DEF A, B

\* A hypothesis that is discarded at once need not have been kept: it is worse than as many
\* hypotheses of its coverage as the diversity asks for, and below a limit that the beam or a
\* full stack has set.
LEMMA DiscardRemembers ==
  ASSUME NEW z \in Settings, NEW S, NEW h, NEW worst, NEW div, NEW best,
         Kept(z, S, h, worst, div, best), NEW bo, Remembered(z, S, h, best, bo),
         NEW c \in Classes, NEW s \in Scores \cup {LogZero},
         s = LogZero \/ (s < worst /\ (z.diversity = 0 \/ s < div[c[1]]))
  PROVE  Remembered(z, S, h, best, Offer(bo, c, s))
<1> DEFINE be == Offer(bo, c, s)
<1>0. /\ IsOffer(bo) /\ \A d \in Classes : bo[d] <= best
      /\ \E d \in Classes : bo[d] = best
      /\ \A a \in S : h[a].score <= bo[h[a].class]
      /\ \A d \in Must(z, bo, best) : \E a \in S : h[a].class = d /\ h[a].score = bo[d]
  BY DEF Remembered
<1>1. /\ IsOffer(be)
      /\ \A d \in Classes : bo[d] <= be[d]
      /\ \A d \in Classes : d # c => be[d] = bo[d]
      /\ be[c] = IF bo[c] >= s THEN bo[c] ELSE s
      /\ s <= bo[c] => be = bo
  BY <1>0, OfferIs
<1>2. /\ \A d \in Classes : bo[d] \in Int /\ LogZero <= bo[d]
      /\ \A d \in Classes : be[d] \in Int /\ (be[d] # LogZero => LogZero < be[d])
      /\ Stacked(Off(be), Hb(be))
      /\ \A d \in Classes : Hb(be)[d].class = d /\ Hb(be)[d].score = be[d] /\ Cov(Hb(be)[d]) = d[1]
  BY <1>0, <1>1, OffIs
<1>n. /\ LogZero \in Int /\ BeamWidth \in Int /\ s \in Int /\ (s # LogZero => LogZero < s)
      /\ \A t \in Scores : t \in Int
      /\ z.size \in Nat /\ z.diversity \in Nat
  BY NumbersAre, SettingIs
<1>k. /\ Stacked(S, h) /\ best \in Int /\ worst \in Int /\ worst <= best
      /\ \A a \in S : h[a].class \in Classes /\ h[a].score \in Int
      /\ \A v \in Coverages : div[v] \in Int
      /\ \/ worst = LogZero
         \/ worst <= best + BeamWidth
         \/ z.size > 0 /\ Cardinality(Places(z, S, h, worst)) >= z.size
      /\ z.diversity > 0 => \A v \in Coverages :
           div[v] = LogZero \/ Count(AtW(S, h, div[v]), h, v) >= z.diversity
  <2>1. /\ Stacked(S, h) /\ best \in Int /\ worst \in Int
        /\ \A v \in Coverages : div[v] \in Int
    BY KeptIs
  <2>2. \A a \in S : h[a].class \in Classes /\ h[a].score \in Int
    BY <2>1 DEF Stacked
  <2> QED BY <2>1, <2>2 DEF Kept
<1>v. c[1] \in Coverages
  BY DEF Classes
<1> HIDE DEF be
<1>3. CASE s <= bo[c]
  BY <1>1, <1>3 DEF be
<1>4. CASE ~(s <= bo[c])
  <2>1. /\ be[c] = s /\ bo[c] < s /\ LogZero < s /\ s < worst /\ s <= best
        /\ z.diversity = 0 \/ s < div[c[1]]
    BY <1>1, <1>2, <1>4, <1>n, <1>k
  <2>2. \A d \in Classes : be[d] <= best
    BY <1>0, <1>1, <2>1
  <2>3. \E d \in Classes : be[d] = best
    <3>1. PICK d \in Classes : bo[d] = best
      BY <1>0
    <3>2. d # c
      BY <1>k, <1>n, <2>1, <3>1
    <3> QED BY <1>1, <3>1, <3>2
  <2>4. ASSUME NEW a \in S PROVE h[a].score <= be[h[a].class]
    <3>1. h[a].class \in Classes /\ h[a].score \in Int
      BY <1>k
    <3>2. /\ h[a].score <= bo[h[a].class] /\ bo[h[a].class] <= be[h[a].class]
          /\ bo[h[a].class] \in Int /\ be[h[a].class] \in Int
      BY <1>0, <1>1, <1>2, <3>1
    <3> QED BY <3>1, <3>2
  <2> DEFINE f == [a \in S |-> h[a].class]
  <2>5. Better(f, S, h, Off(be), Hb(be))
    BY <1>1, <2>4, StackBelowOffer
  <2> HIDE DEF f
  <2>6. c \in Off(be) /\ Hb(be)[c].score = s /\ Cov(Hb(be)[c]) = c[1]
    BY <1>2, <1>n, <2>1 DEF Off
  <2>c. ASSUME NEW w \in Int, s < w
        PROVE  /\ Count(AtW(Off(be), Hb(be), w), Hb(be), c[1]) < Count(AtW(Off(be), Hb(be), s), Hb(be), c[1])
               /\ Count(AtW(Off(be), Hb(be), w), Hb(be), c[1]) \in Nat
               /\ Count(AtW(Off(be), Hb(be), s), Hb(be), c[1]) \in Nat
    <3>1. Count(AtW(Off(be), Hb(be), w), Hb(be), Cov(Hb(be)[c]))
            < Count(AtW(Off(be), Hb(be), s), Hb(be), Cov(Hb(be)[c]))
      BY <1>2, <1>n, <2>6, <2>c, CountStrict
    <3> QED BY <1>2, <2>6, <3>1, AtWCount
  <2>7. Count(AtW(Off(be), Hb(be), s), Hb(be), c[1]) > z.diversity
    <3>1. CASE z.diversity = 0
      <4>1. s + 1 \in Int /\ s < s + 1
        BY <1>n
      <4> QED BY <2>c, <3>1, <4>1
    <3>2. CASE z.diversity # 0
      <4>1. s < div[c[1]] /\ div[c[1]] \in Int /\ div[c[1]] # LogZero
        BY <1>k, <1>n, <1>v, <2>1, <3>2
      <4>2. Count(AtW(S, h, div[c[1]]), h, c[1]) >= z.diversity
        BY <1>k, <1>n, <1>v, <3>2, <4>1
      <4>3. div[c[1]] <= div[c[1]]
        BY <4>1
      <4>4. Count(AtW(S, h, div[c[1]]), h, c[1])
              <= Count(AtW(Off(be), Hb(be), div[c[1]]), Hb(be), c[1])
        BY <1>2, <1>k, <2>5, <4>1, <4>3, CountBetter
      <4>5. Count(AtW(S, h, div[c[1]]), h, c[1]) \in Nat
        BY <1>k, AtWCount
      <4> QED BY <1>n, <2>c, <4>1, <4>2, <4>4, <4>5
    <3> QED BY <3>1, <3>2
  <2>8. ASSUME s > best + BeamWidth
        PROVE  z.size > 0 /\ Cardinality(Places(z, Off(be), Hb(be), s)) > z.size
    <3>1. z.size > 0 /\ Cardinality(Places(z, S, h, worst)) >= z.size
      BY <1>k, <1>n, <2>1, <2>8
    <3>2. worst <= worst
      BY <1>k
    <3>3. Cardinality(Places(z, S, h, worst)) <= Cardinality(Places(z, Off(be), Hb(be), worst))
      BY <1>2, <1>k, <2>5, <3>2, PlacesBetter
    <3>4. Cardinality(Places(z, Off(be), Hb(be), worst)) < Cardinality(Places(z, Off(be), Hb(be), s))
      BY <1>2, <1>k, <1>n, <2>1, <2>6, <2>7, PlacesStrict
    <3>5. /\ Cardinality(Places(z, S, h, worst)) \in Nat
          /\ Cardinality(Places(z, Off(be), Hb(be), worst)) \in Nat
          /\ Cardinality(Places(z, Off(be), Hb(be), s)) \in Nat
      BY <1>2, <1>k, PlacesFinite
    <3> QED BY <1>n, <3>1, <3>3, <3>4, <3>5
  <2>9. c \notin Must(z, be, best)
    <3> SUFFICES ASSUME c \in Must(z, be, best) PROVE FALSE
      OBVIOUS
    <3>1. \/ Count(AtW(Off(be), Hb(be), s), Hb(be), c[1]) <= z.diversity
          \/ /\ s > best + BeamWidth
             /\ z.size = 0 \/ Cardinality(Places(z, Off(be), Hb(be), s)) <= z.size
      BY <2>1 DEF Must
    <3>2. /\ Count(AtW(Off(be), Hb(be), s), Hb(be), c[1]) \in Nat
          /\ Cardinality(Places(z, Off(be), Hb(be), s)) \in Nat
      BY <1>2, AtWCount, PlacesFinite
    <3> QED BY <1>n, <2>7, <2>8, <3>1, <3>2
  <2>10. ASSUME NEW d \in Must(z, be, best) PROVE \E a \in S : h[a].class = d /\ h[a].score = be[d]
    <3>1. d # c /\ d \in Classes
      BY <2>9 DEF Must, Off
    <3>2. be[d] = bo[d]
      BY <1>1, <3>1
    <3>3. best <= best
      BY <1>k
    <3>4. d \in Must(z, bo, best)
      BY <1>0, <1>1, <1>k, <3>2, <3>3, MustShrinks
    <3> QED BY <1>0, <3>2, <3>4
  <2>11. Remembered(z, S, h, best, be)
    BY <1>1, <2>2, <2>3, <2>4, <2>10 DEF Remembered
  <2> QED BY <2>11 DEF be
<1> QED BY <1>3, <1>4

-----------------------------------------------------------------------------
(* Adding a hypothesis                                                     *)

Same(S, g, h) == \A a \in S : h[a] = g[a]

\* Hypotheses outside of S do not count.
LEMMA CountSame ==
  ASSUME NEW S, NEW g, NEW h, Same(S, g, h)
  PROVE  /\ \A w, v : Count(AtW(S, h, w), h, v) = Count(AtW(S, g, w), g, v)
         /\ \A v : Count(S, h, v) = Count(S, g, v)
<1>1. ASSUME NEW w PROVE AtW(S, h, w) = AtW(S, g, w)
  BY DEF AtW, Same
<1>2. ASSUME NEW T, T \subseteq S, NEW v PROVE OnV(T, h, v) = OnV(T, g, v)
  BY <1>2 DEF OnV, Cov, Same
<1>3. ASSUME NEW w, NEW v PROVE Count(AtW(S, h, w), h, v) = Count(AtW(S, g, w), g, v)
  <2>1. AtW(S, g, w) \subseteq S
    BY DEF AtW
  <2>2. OnV(AtW(S, g, w), h, v) = OnV(AtW(S, g, w), g, v)
    BY <1>2, <2>1
  <2> QED BY <1>1, <2>2 DEF Count
<1>4. ASSUME NEW v PROVE Count(S, h, v) = Count(S, g, v)
  BY <1>2 DEF Count
<1> QED BY <1>3, <1>4

\* The same of the places.
LEMMA PlacesSame ==
  ASSUME NEW z, NEW S, NEW g, NEW h, Same(S, g, h), NEW w
  PROVE  Places(z, S, h, w) = Places(z, S, g, w)
BY CountSame DEF Places

\* Nor do they bear on Kept,
LEMMA KeptSame ==
  ASSUME NEW z, NEW S, NEW g, NEW h, Same(S, g, h), NEW worst, NEW div, NEW best,
         Kept(z, S, g, worst, div, best)
  PROVE  Kept(z, S, h, worst, div, best)
<1>1. /\ Stacked(S, g)
      /\ \A a \in S : g[a].score \in Scores /\ g[a].score <= best
      /\ \A a, b \in S : g[a].class = g[b].class => a = b
      /\ best \in Scores \cup {LogZero}
      /\ best # LogZero => \E a \in S : g[a].score = best
      /\ worst \in Int /\ worst <= best
      /\ \/ worst = LogZero
         \/ worst <= best + BeamWidth
         \/ z.size > 0 /\ Cardinality(Places(z, S, g, worst)) >= z.size
      /\ div \in [Coverages -> Scores \cup {LogZero}]
      /\ z.diversity > 0 => \A v \in Coverages :
           div[v] = LogZero \/ Count(AtW(S, g, div[v]), g, v) >= z.diversity
  BY DEF Kept
<1>2. Stacked(S, h)
  BY <1>1 DEF Stacked, Same
<1>3. \A a \in S : h[a].score \in Scores /\ h[a].score <= best
  BY <1>1 DEF Same
<1>4. \A a, b \in S : h[a].class = h[b].class => a = b
  BY <1>1 DEF Same
<1>5. best # LogZero => \E a \in S : h[a].score = best
  BY <1>1 DEF Same
<1>6. Places(z, S, h, worst) = Places(z, S, g, worst)
  BY PlacesSame
<1>7. \A v \in Coverages : Count(AtW(S, h, div[v]), h, v) = Count(AtW(S, g, div[v]), g, v)
  BY CountSame
<1> QED BY <1>1, <1>2, <1>3, <1>4, <1>5, <1>6, <1>7 DEF Kept

\* on Remembered,
LEMMA RememberedSame ==
  ASSUME NEW z, NEW S, NEW g, NEW h, Same(S, g, h), NEW best, NEW bo, Remembered(z, S, g, best, bo)
  PROVE  Remembered(z, S, h, best, bo)
BY DEF Remembered, Same

\* or on Fits.
LEMMA FitsSame ==
  ASSUME NEW z, NEW S, NEW g, NEW h, Same(S, g, h), NEW best, Fits(z, S, g, best)
  PROVE  Fits(z, S, h, best)
BY PlacesSame DEF Fits

\* The hypothesis p, whose equal and worse one, if there is one, has left the stack S.
Joins(S, g, rest, h, p) ==
  /\ rest \subseteq S /\ p \notin S
  /\ \A a \in rest : h[a] = g[a] /\ h[a].class # h[p].class
  /\ \A a \in S \ rest : g[a].class = h[p].class /\ g[a].score < h[p].score
  /\ h[p].class \in Classes /\ h[p].score \in Scores

BestWith(best, s) == IF s > best THEN s ELSE best
WorstNow(worst, best, s) == IF s > best /\ s + BeamWidth > worst THEN s + BeamWidth ELSE worst
DivWith(z, div, v, s) == IF z.diversity = 1 /\ s > div[v] THEN [div EXCEPT ![v] = s] ELSE div

\* Adding leaves a stack with better ones in the place of each.
LEMMA AddBetter ==
  ASSUME NEW z, NEW S, NEW g, NEW worst, NEW div, NEW best, Kept(z, S, g, worst, div, best),
         NEW rest, NEW h, NEW p, Joins(S, g, rest, h, p)
  PROVE  /\ Stacked(rest \cup {p}, h)
         /\ Better([a \in S |-> IF a \in rest THEN a ELSE p], S, g, rest \cup {p}, h)
<1>1. /\ rest \subseteq S /\ p \notin S
      /\ \A a \in rest : h[a] = g[a] /\ h[a].class # h[p].class
      /\ \A a \in S \ rest : g[a].class = h[p].class /\ g[a].score < h[p].score
      /\ h[p].class \in Classes /\ h[p].score \in Scores /\ h[p].score \in Int
  BY NumbersAre DEF Joins
<1>2. /\ IsFiniteSet(S)
      /\ \A a \in S : g[a].class \in Classes /\ g[a].score \in Int
      /\ \A a, b \in S : g[a].class = g[b].class => a = b
  BY DEF Kept, Stacked
<1>3. IsFiniteSet(rest \cup {p})
  BY <1>1, <1>2, FS_Subset, FS_AddElement
<1>4. Stacked(rest \cup {p}, h)
  BY <1>1, <1>2, <1>3 DEF Stacked
<1> DEFINE f == [a \in S |-> IF a \in rest THEN a ELSE p]
<1>5. f \in [S -> rest \cup {p}]
  OBVIOUS
<1>6. ASSUME NEW x \in S, NEW y \in S, f[x] = f[y] PROVE x = y
  <2>1. CASE x \in rest /\ y \in rest
    BY <1>6, <2>1
  <2>2. CASE x \notin rest /\ y \notin rest
    BY <1>1, <1>2, <2>2
  <2>3. CASE (x \in rest) # (y \in rest)
    BY <1>1, <1>6, <2>3
  <2> QED BY <2>1, <2>2, <2>3
<1>7. ASSUME NEW x \in S PROVE Cov(h[f[x]]) = Cov(g[x]) /\ h[f[x]].score >= g[x].score
  <2>1. CASE x \in rest
    BY <1>1, <1>2, <2>1 DEF Cov
  <2>2. CASE x \notin rest
    BY <1>1, <1>2, <2>2 DEF Cov
  <2> QED BY <2>1, <2>2
<1> QED BY <1>4, <1>5, <1>6, <1>7 DEF Better

\* Adding keeps Kept, with the limits as Add sets them, which do not fall.
LEMMA AddKept ==
  ASSUME NEW z \in Settings, NEW S, NEW g, NEW worst, NEW div, NEW best,
         Kept(z, S, g, worst, div, best), NEW rest, NEW h, NEW p, Joins(S, g, rest, h, p),
         NEW s, s = h[p].score, NEW v, v = Cov(h[p])
  PROVE  /\ Kept(z, rest \cup {p}, h, WorstNow(worst, best, s), DivWith(z, div, v, s), BestWith(best, s))
         /\ WorstNow(worst, best, s) >= worst
         /\ \A u \in Coverages : DivWith(z, div, v, s)[u] >= div[u]
<1> DEFINE T == rest \cup {p}
           b2 == BestWith(best, s)
           w2 == WorstNow(worst, best, s)
           d2 == DivWith(z, div, v, s)
           f == [a \in S |-> IF a \in rest THEN a ELSE p]
<1>1. /\ rest \subseteq S /\ p \notin S
      /\ \A a \in rest : h[a] = g[a] /\ h[a].class # h[p].class
      /\ \A a \in S \ rest : g[a].class = h[p].class /\ g[a].score < s
      /\ h[p].class \in Classes /\ s \in Scores /\ s \in Int /\ LogZero < s
  BY NumbersAre DEF Joins
<1>2. Stacked(T, h) /\ Better(f, S, g, T, h)
  BY AddBetter
<1>3. /\ Stacked(S, g)
      /\ \A a \in S : g[a].score \in Scores /\ g[a].score <= best
      /\ \A a, b \in S : g[a].class = g[b].class => a = b
      /\ best \in Scores \cup {LogZero}
      /\ best # LogZero => \E a \in S : g[a].score = best
      /\ worst \in Int /\ worst <= best
      /\ \/ worst = LogZero
         \/ worst <= best + BeamWidth
         \/ z.size > 0 /\ Cardinality(Places(z, S, g, worst)) >= z.size
      /\ div \in [Coverages -> Scores \cup {LogZero}]
      /\ z.diversity > 0 => \A u \in Coverages :
           div[u] = LogZero \/ Count(AtW(S, g, div[u]), g, u) >= z.diversity
  BY DEF Kept
<1>n. /\ LogZero \in Int /\ BeamWidth \in Int /\ BeamWidth < 0 /\ best \in Int
      /\ \A a \in S : g[a].score \in Int
      /\ \A u \in Coverages : div[u] \in Int
      /\ z.size \in Nat /\ z.diversity \in Nat
  BY <1>3, NumbersAre, SettingIs, KeptIs
<1>v. v \in Coverages
  BY <1>1 DEF Classes, Cov
<1>4. /\ b2 = IF s > best THEN s ELSE best
      /\ w2 = IF s > best /\ s + BeamWidth > worst THEN s + BeamWidth ELSE worst
      /\ d2 = IF z.diversity = 1 /\ s > div[v] THEN [div EXCEPT ![v] = s] ELSE div
  BY DEF BestWith, WorstNow, DivWith
<1> HIDE DEF T, b2, w2, d2, f
<1>5. b2 \in Scores \cup {LogZero} /\ b2 \in Int /\ b2 >= best /\ b2 >= s
  BY <1>1, <1>3, <1>4, <1>n
<1>6. ASSUME NEW a \in T PROVE h[a].score \in Scores /\ h[a].score <= b2
  <2>1. CASE a = p
    BY <1>1, <1>5, <2>1
  <2>2. CASE a # p
    <3>1. a \in S /\ h[a] = g[a]
      BY <1>1, <2>2 DEF T
    <3>2. h[a].score \in Scores /\ h[a].score <= best /\ h[a].score \in Int
      BY <1>3, <1>n, <3>1
    <3> QED BY <1>5, <1>n, <3>2
  <2> QED BY <2>1, <2>2
<1>7. ASSUME NEW a \in T, NEW b \in T, h[a].class = h[b].class PROVE a = b
  BY <1>1, <1>3, <1>7 DEF T
<1>8. \E a \in T : h[a].score = b2
  <2>1. CASE s > best
    BY <1>4, <2>1 DEF T
  <2>2. CASE ~(s > best)
    <3>1. best # LogZero /\ b2 = best /\ s <= best
      BY <1>1, <1>4, <1>n, <2>2
    <3>2. PICK a \in S : g[a].score = best
      BY <1>3, <3>1
    <3>3. a \in rest
      BY <1>1, <1>n, <3>1, <3>2
    <3>4. a \in T /\ h[a].score = b2
      BY <1>1, <3>1, <3>2, <3>3 DEF T
    <3> QED BY <3>4
  <2> QED BY <2>1, <2>2
<1>9. w2 \in Int /\ w2 <= b2 /\ w2 >= worst
  BY <1>1, <1>3, <1>4, <1>n
<1>10. \/ w2 = LogZero
       \/ w2 <= b2 + BeamWidth
       \/ z.size > 0 /\ Cardinality(Places(z, T, h, w2)) >= z.size
  <2>1. CASE s > best /\ s + BeamWidth > worst
    BY <1>1, <1>4, <1>n, <2>1
  <2>2. CASE ~(s > best /\ s + BeamWidth > worst)
    <3>1. w2 = worst
      BY <1>4, <2>2
    <3>2. CASE worst = LogZero \/ worst <= best + BeamWidth
      BY <1>3, <1>5, <1>n, <3>1, <3>2
    <3>3. CASE z.size > 0 /\ Cardinality(Places(z, S, g, worst)) >= z.size
      <4>1. worst <= worst
        BY <1>3
      <4>2. Cardinality(Places(z, S, g, worst)) <= Cardinality(Places(z, T, h, worst))
        BY <1>2, <1>3, <4>1, PlacesBetter
      <4>3. Cardinality(Places(z, S, g, worst)) \in Nat /\ Cardinality(Places(z, T, h, worst)) \in Nat
        BY <1>2, <1>3, PlacesFinite
      <4> QED BY <1>n, <3>1, <3>3, <4>2, <4>3
    <3> QED BY <1>3, <3>2, <3>3
  <2> QED BY <2>1, <2>2
<1>11. d2 \in [Coverages -> Scores \cup {LogZero}]
  BY <1>1, <1>3, <1>4
<1>12. \A u \in Coverages : d2[u] >= div[u]
  BY <1>1, <1>3, <1>4, <1>n, <1>v
<1>13. ASSUME z.diversity > 0, NEW u \in Coverages
       PROVE  d2[u] = LogZero \/ Count(AtW(T, h, d2[u]), h, u) >= z.diversity
  <2>1. CASE d2[u] = div[u]
    <3>1. CASE div[u] = LogZero
      BY <2>1, <3>1
    <3>2. CASE div[u] # LogZero
      <4>1. Count(AtW(S, g, div[u]), g, u) >= z.diversity
        BY <1>3, <1>13, <3>2
      <4>2. div[u] \in Int /\ div[u] <= div[u]
        BY <1>n
      <4>3. Count(AtW(S, g, div[u]), g, u) <= Count(AtW(T, h, div[u]), h, u)
        BY <1>2, <1>3, <4>2, CountBetter
      <4>4. Count(AtW(S, g, div[u]), g, u) \in Nat /\ Count(AtW(T, h, div[u]), h, u) \in Nat
        BY <1>2, <1>3, AtWCount
      <4> QED BY <1>n, <2>1, <4>1, <4>3, <4>4
    <3> QED BY <3>1, <3>2
  <2>2. CASE d2[u] # div[u]
    <3>1. u = v /\ d2[u] = s /\ z.diversity = 1
      BY <1>3, <1>4, <1>v, <2>2
    <3>2. p \in T /\ s + 1 \in Int /\ s < s + 1
      BY <1>1 DEF T
    <3>3. Count(AtW(T, h, s + 1), h, v) < Count(AtW(T, h, s), h, v)
      BY <1>1, <1>2, <3>2, CountStrict
    <3>4. Count(AtW(T, h, s + 1), h, v) \in Nat /\ Count(AtW(T, h, s), h, v) \in Nat
      BY <1>2, AtWCount
    <3> QED BY <3>1, <3>3, <3>4
  <2> QED BY <2>1, <2>2
<1>14. Kept(z, T, h, w2, d2, b2)
  BY <1>2, <1>5, <1>6, <1>7, <1>8, <1>9, <1>10, <1>11, <1>13 DEF Kept
<1> QED BY <1>9, <1>12, <1>14 DEF T, b2, w2, d2

\* Adding keeps Remembered: the one replaced is worse than its class was just offered.
LEMMA AddRemembers ==
  ASSUME NEW z \in Settings, NEW S, NEW g, NEW worst, NEW div, NEW best,
         Kept(z, S, g, worst, div, best), NEW bo, Remembered(z, S, g, best, bo),
         NEW rest, NEW h, NEW p, Joins(S, g, rest, h, p),
         NEW c, c = h[p].class, NEW s, s = h[p].score
  PROVE  Remembered(z, rest \cup {p}, h, BestWith(best, s), Offer(bo, c, s))
<1> DEFINE T == rest \cup {p}
           b2 == BestWith(best, s)
           be == Offer(bo, c, s)
<1>1. /\ rest \subseteq S /\ p \notin S
      /\ \A a \in rest : h[a] = g[a] /\ h[a].class # c
      /\ \A a \in S \ rest : g[a].class = c /\ g[a].score < s
      /\ c \in Classes /\ s \in Scores /\ s \in Int
  BY NumbersAre DEF Joins
<1>2. /\ IsOffer(bo) /\ \A d \in Classes : bo[d] <= best
      /\ \E d \in Classes : bo[d] = best
      /\ \A a \in S : g[a].score <= bo[g[a].class]
      /\ \A d \in Must(z, bo, best) : \E a \in S : g[a].class = d /\ g[a].score = bo[d]
  BY DEF Remembered
<1>3. /\ IsOffer(be)
      /\ \A d \in Classes : bo[d] <= be[d]
      /\ \A d \in Classes : d # c => be[d] = bo[d]
      /\ be[c] = IF bo[c] >= s THEN bo[c] ELSE s
  BY <1>1, <1>2, OfferIs
<1>4. \A d \in Classes : bo[d] \in Int /\ be[d] \in Int
  BY <1>2, <1>3, OffIs
<1>5. /\ best \in Int /\ \A a \in S : g[a].score \in Int
      /\ \A a \in S : g[a].class \in Classes
  <2>1. Stacked(S, g) /\ best \in Int
    BY KeptIs
  <2> QED BY <2>1 DEF Stacked
<1>6. b2 = IF s > best THEN s ELSE best
  BY DEF BestWith
<1> HIDE DEF T, b2, be
<1>7. b2 \in Int /\ b2 >= best /\ b2 >= s
  BY <1>1, <1>5, <1>6
<1>8. ASSUME NEW d \in Classes PROVE be[d] <= b2
  BY <1>1, <1>2, <1>3, <1>4, <1>5, <1>7
<1>9. \E d \in Classes : be[d] = b2
  <2>1. CASE s > best
    <3>1. be[c] = b2
      BY <1>1, <1>2, <1>3, <1>4, <1>5, <1>6, <2>1
    <3> QED BY <1>1, <3>1
  <2>2. CASE ~(s > best)
    <3>1. PICK d \in Classes : bo[d] = best
      BY <1>2
    <3>2. be[d] = b2
      BY <1>1, <1>3, <1>4, <1>5, <1>6, <2>2, <3>1
    <3> QED BY <3>2
  <2> QED BY <2>1, <2>2
<1>10. ASSUME NEW a \in T PROVE h[a].score <= be[h[a].class]
  <2>1. CASE a = p
    BY <1>1, <1>3, <1>4, <2>1
  <2>2. CASE a # p
    <3>1. a \in S /\ h[a] = g[a]
      BY <1>1, <2>2 DEF T
    <3>2. g[a].class \in Classes /\ g[a].score <= bo[g[a].class] /\ g[a].score \in Int
      BY <1>2, <1>5, <3>1
    <3>3. bo[g[a].class] <= be[g[a].class] /\ bo[g[a].class] \in Int /\ be[g[a].class] \in Int
      BY <1>3, <1>4, <3>2
    <3>4. g[a].score <= be[g[a].class]
      BY <3>2, <3>3
    <3> QED BY <3>1, <3>4
  <2> QED BY <2>1, <2>2
<1>11. ASSUME NEW d \in Must(z, be, b2), be[d] = bo[d]
       PROVE  \E a \in S : g[a].class = d /\ g[a].score = bo[d]
  <2>1. d \in Must(z, bo, best)
    BY <1>2, <1>3, <1>5, <1>7, <1>11, MustShrinks
  <2> QED BY <1>2, <2>1
<1>12. ASSUME NEW d \in Must(z, be, b2) PROVE \E a \in T : h[a].class = d /\ h[a].score = be[d]
  <2>0. d \in Classes
    BY DEF Must, Off
  <2>1. CASE d = c /\ be[c] = s
    BY <2>1 DEF T
  <2>2. CASE d = c /\ be[c] # s
    <3>1. be[d] = bo[d] /\ bo[d] > s
      BY <1>1, <1>3, <1>4, <2>2
    <3>2. PICK a \in S : g[a].class = d /\ g[a].score = bo[d]
      BY <1>11, <3>1
    <3> QED BY <1>1, <1>5, <2>2, <3>1, <3>2
  <2>3. CASE d # c
    <3>1. be[d] = bo[d]
      BY <1>3, <2>0, <2>3
    <3>2. PICK a \in S : g[a].class = d /\ g[a].score = bo[d]
      BY <1>11, <3>1
    <3>3. a \in T /\ h[a].class = d /\ h[a].score = be[d]
      BY <1>1, <2>3, <3>1, <3>2 DEF T
    <3> QED BY <3>3
  <2> QED BY <2>1, <2>2, <2>3
<1>13. Remembered(z, T, h, b2, be)
  BY <1>3, <1>8, <1>9, <1>10, <1>12 DEF Remembered
<1> QED BY <1>13 DEF T, b2, be

-----------------------------------------------------------------------------
(* Who holds the hypotheses                                                *)

\* Those of S are on the stack, and each of the others is in one arc list of these.
Holds(S, h, ar) ==
  /\ h \in [Addresses -> [class : Classes, score : Scores] \cup {Free}]
  /\ ar \in [Addresses -> SUBSET Addresses]
  /\ S \subseteq Addresses
  /\ \A a \in S : h[a] # Free
  /\ \A w \in Addresses : \A a \in ar[w] :
       w \in S /\ a \notin S /\ h[a] # Free /\ h[a].class = h[w].class /\ h[a].score <= h[w].score
  /\ \A a \in Addresses \ S : h[a] # Free => \E w \in Addresses : a \in ar[w]
  /\ \A v, w \in Addresses : \A a \in ar[v] : a \in ar[w] => v = w

\* Deleting those of S that are not in T, and their arcs.
LEMMA FreedHolds ==
  ASSUME NEW S, NEW h, NEW ar, Holds(S, h, ar), NEW T, T \subseteq S,
         NEW dead, dead = S \ T
  PROVE  /\ Holds(T, Freed(h, ar, dead), ArcsWithout(ar, dead))
         /\ Same(T, h, Freed(h, ar, dead))
         /\ \A a \in Addresses : h[a] = Free => Freed(h, ar, dead)[a] = Free
<1> DEFINE fh == Freed(h, ar, dead)
           fa == ArcsWithout(ar, dead)
<1>0. /\ h \in [Addresses -> [class : Classes, score : Scores] \cup {Free}]
      /\ ar \in [Addresses -> SUBSET Addresses]
      /\ S \subseteq Addresses
      /\ \A a \in S : h[a] # Free
      /\ \A w \in Addresses : \A a \in ar[w] :
           w \in S /\ a \notin S /\ h[a] # Free /\ h[a].class = h[w].class /\ h[a].score <= h[w].score
      /\ \A a \in Addresses \ S : h[a] # Free => \E w \in Addresses : a \in ar[w]
      /\ \A v, w \in Addresses : \A a \in ar[v] : a \in ar[w] => v = w
  BY DEF Holds
<1>1. /\ \A a \in Addresses : (\E w \in dead : a = w \/ a \in ar[w]) => fh[a] = Free
      /\ \A a \in Addresses : (~ \E w \in dead : a = w \/ a \in ar[w]) => fh[a] = h[a]
      /\ fh \in [Addresses -> [class : Classes, score : Scores] \cup {Free}]
  BY <1>0 DEF Freed
<1>2. /\ fa \in [Addresses -> SUBSET Addresses]
      /\ \A w \in Addresses : fa[w] = IF w \in dead THEN {} ELSE ar[w]
  BY <1>0 DEF ArcsWithout
<1> HIDE DEF fh, fa
<1>3. \A a \in T : a \in Addresses /\ fh[a] = h[a]
  BY <1>0, <1>1
<1>4. ASSUME NEW w \in Addresses, NEW a \in fa[w]
      PROVE  /\ w \in T /\ a \notin T /\ fh[a] # Free
             /\ fh[a].class = fh[w].class /\ fh[a].score <= fh[w].score
  <2>1. w \notin dead /\ a \in ar[w] /\ a \in Addresses
    BY <1>0, <1>2, <1>4
  <2>2. /\ w \in S /\ a \notin S /\ h[a] # Free /\ h[a].class = h[w].class /\ h[a].score <= h[w].score
    BY <1>0, <2>1
  <2>3. w \in T
    BY <2>1, <2>2
  <2>4. fh[a] = h[a]
    <3>1. ~ \E d \in dead : a = d \/ a \in ar[d]
      BY <1>0, <2>1, <2>2
    <3> QED BY <1>1, <2>1, <3>1
  <2> QED BY <1>3, <2>2, <2>3, <2>4
<1>5. ASSUME NEW a \in Addresses \ T, fh[a] # Free PROVE \E w \in Addresses : a \in fa[w]
  <2>1. ~(\E w \in dead : a = w \/ a \in ar[w]) /\ h[a] # Free
    BY <1>1, <1>5
  <2>2. a \notin S
    BY <2>1
  <2>3. PICK w \in Addresses : a \in ar[w]
    BY <1>0, <2>1, <2>2
  <2>4. w \notin dead
    BY <2>1, <2>3
  <2> QED BY <1>2, <2>3, <2>4
<1>6. ASSUME NEW v \in Addresses, NEW w \in Addresses, NEW a \in fa[v], a \in fa[w] PROVE v = w
  BY <1>0, <1>2, <1>6
<1>7. Holds(T, fh, fa)
  BY <1>0, <1>1, <1>2, <1>3, <1>4, <1>5, <1>6 DEF Holds
<1>8. \A a \in Addresses : h[a] = Free => fh[a] = Free
  BY <1>1
<1>9. Same(T, h, fh)
  BY <1>3 DEF Same
<1> QED BY <1>7, <1>8, <1>9 DEF fh, fa

IsNew(h, p, new) ==
  p \in Addresses /\ h[p] = Free /\ new \in [class : Classes, score : Scores]

\* A new hypothesis at a free address changes nothing else.
LEMMA NewIs ==
  ASSUME NEW S, NEW h, NEW ar, Holds(S, h, ar), NEW p, NEW new, IsNew(h, p, new)
  PROVE  /\ [h EXCEPT ![p] = new] \in [Addresses -> [class : Classes, score : Scores] \cup {Free}]
         /\ [h EXCEPT ![p] = new][p] = new /\ new # Free
         /\ \A a \in Addresses : a # p => [h EXCEPT ![p] = new][a] = h[a]
         /\ p \notin S /\ ar[p] = {}
         /\ \A w \in Addresses : p \notin ar[w]
<1>1. /\ h \in [Addresses -> [class : Classes, score : Scores] \cup {Free}]
      /\ p \in Addresses /\ h[p] = Free /\ new \in [class : Classes, score : Scores]
      /\ \A a \in S : h[a] # Free
      /\ \A w \in Addresses : \A a \in ar[w] : w \in S /\ h[a] # Free
  BY DEF Holds, IsNew
<1>2. new.score # LogZero
  BY <1>1, NumbersAre
<1>3. new # Free
  BY <1>2 DEF Free
<1> QED BY <1>1, <1>3

\* A new hypothesis that goes on the stack.
LEMMA NewHolds ==
  ASSUME NEW S, NEW h, NEW ar, Holds(S, h, ar), NEW p, NEW new, IsNew(h, p, new)
  PROVE  Holds(S \cup {p}, [h EXCEPT ![p] = new], ar)
<1> DEFINE g == [h EXCEPT ![p] = new]
<1>1. /\ g \in [Addresses -> [class : Classes, score : Scores] \cup {Free}]
      /\ g[p] = new /\ new # Free
      /\ \A a \in Addresses : a # p => g[a] = h[a]
      /\ p \notin S /\ ar[p] = {} /\ p \in Addresses
      /\ \A w \in Addresses : p \notin ar[w]
  BY NewIs DEF IsNew
<1> HIDE DEF g
<1>2. /\ ar \in [Addresses -> SUBSET Addresses]
      /\ S \subseteq Addresses
      /\ \A a \in S : h[a] # Free
      /\ \A w \in Addresses : \A a \in ar[w] :
           w \in S /\ a \notin S /\ h[a] # Free /\ h[a].class = h[w].class /\ h[a].score <= h[w].score
      /\ \A a \in Addresses \ S : h[a] # Free => \E w \in Addresses : a \in ar[w]
      /\ \A v, w \in Addresses : \A a \in ar[v] : a \in ar[w] => v = w
  BY DEF Holds
<1>3. ASSUME NEW w \in Addresses, NEW a \in ar[w]
      PROVE  /\ w \in S \cup {p} /\ a \notin S \cup {p} /\ g[a] # Free
             /\ g[a].class = g[w].class /\ g[a].score <= g[w].score
  <2>1. a \in Addresses /\ a # p /\ w # p
    BY <1>1, <1>2
  <2> QED BY <1>1, <1>2, <2>1
<1>4. \A a \in Addresses \ (S \cup {p}) : g[a] # Free => \E w \in Addresses : a \in ar[w]
  BY <1>1, <1>2
<1>5. \A a \in S \cup {p} : g[a] # Free
  BY <1>1, <1>2
<1>6. Holds(S \cup {p}, g, ar)
  BY <1>1, <1>2, <1>3, <1>4, <1>5 DEF Holds
<1> QED BY <1>6 DEF g

\* The loser e, equal to the new hypothesis, becomes an arc of it with all its own arcs.
LEMMA ReplaceHolds ==
  ASSUME NEW S, NEW h, NEW ar, Holds(S, h, ar), NEW p, NEW new, IsNew(h, p, new),
         NEW e \in S, h[e].class = new.class, h[e].score < new.score
  PROVE  Holds((S \ {e}) \cup {p}, [h EXCEPT ![p] = new], AddArc(ar, p, e))
<1> DEFINE g == [h EXCEPT ![p] = new]
           aa == AddArc(ar, p, e)
           T == (S \ {e}) \cup {p}
<1>1. /\ g \in [Addresses -> [class : Classes, score : Scores] \cup {Free}]
      /\ g[p] = new /\ new # Free
      /\ \A a \in Addresses : a # p => g[a] = h[a]
      /\ p \notin S /\ ar[p] = {} /\ p \in Addresses
      /\ \A w \in Addresses : p \notin ar[w]
  BY NewIs DEF IsNew
<1>2. /\ ar \in [Addresses -> SUBSET Addresses]
      /\ h \in [Addresses -> [class : Classes, score : Scores] \cup {Free}]
      /\ S \subseteq Addresses
      /\ \A a \in S : h[a] # Free
      /\ \A w \in Addresses : \A a \in ar[w] :
           w \in S /\ a \notin S /\ h[a] # Free /\ h[a].class = h[w].class /\ h[a].score <= h[w].score
      /\ \A a \in Addresses \ S : h[a] # Free => \E w \in Addresses : a \in ar[w]
      /\ \A v, w \in Addresses : \A a \in ar[v] : a \in ar[w] => v = w
  BY DEF Holds
<1>3. e # p /\ e \in Addresses
  BY <1>1, <1>2
<1>4. /\ aa \in [Addresses -> SUBSET Addresses]
      /\ aa[p] = ar[e] \cup {e} /\ aa[e] = {}
      /\ \A w \in Addresses : w # p /\ w # e => aa[w] = ar[w]
  BY <1>1, <1>2, <1>3 DEF AddArc
<1> HIDE DEF g, aa
<1>s. /\ \A a \in Addresses : h[a] # Free => h[a].score \in Int
      /\ new.score \in Int
  BY <1>2, NumbersAre DEF IsNew
<1>5. ASSUME NEW w \in Addresses, NEW a \in aa[w]
      PROVE  /\ w \in T /\ a \notin T /\ g[a] # Free
             /\ g[a].class = g[w].class /\ g[a].score <= g[w].score
  <2>1. CASE w = p /\ a = e
    BY <1>1, <1>2, <1>3, <1>s, <2>1
  <2>2. CASE w = p /\ a # e
    <3>1. a \in ar[e] /\ a \in Addresses /\ a # p
      BY <1>1, <1>2, <1>3, <1>4, <1>5, <2>2
    <3>2. a \notin S /\ h[a] # Free /\ h[a].class = h[e].class /\ h[a].score <= h[e].score
      BY <1>2, <1>3, <3>1
    <3>3. h[a].score <= new.score
      BY <1>2, <1>3, <1>s, <3>1, <3>2
    <3> QED BY <1>1, <2>2, <3>1, <3>2, <3>3
  <2>3. CASE w # p
    <3>1. a \in ar[w] /\ a \in Addresses /\ a # p /\ w # e
      BY <1>1, <1>2, <1>3, <1>4, <1>5, <2>3
    <3> QED BY <1>1, <1>2, <2>3, <3>1
  <2> QED BY <2>1, <2>2, <2>3
<1>6. ASSUME NEW a \in Addresses \ T, g[a] # Free PROVE \E w \in Addresses : a \in aa[w]
  <2>1. CASE a = e
    BY <1>1, <1>4, <2>1
  <2>2. CASE a # e
    <3>1. a \notin S /\ h[a] # Free
      BY <1>1, <1>6, <2>2
    <3>2. PICK w \in Addresses : a \in ar[w]
      BY <1>2, <3>1
    <3>3. CASE w = e
      BY <1>1, <1>4, <3>2, <3>3
    <3>4. CASE w # e
      <4>1. w # p
        BY <1>1, <3>2
      <4> QED BY <1>4, <3>2, <3>4, <4>1
    <3> QED BY <3>3, <3>4
  <2> QED BY <2>1, <2>2
<1>7. ASSUME NEW v \in Addresses, NEW w \in Addresses, NEW a \in aa[v], a \in aa[w] PROVE v = w
  <2>1. v # e /\ w # e
    BY <1>4, <1>7
  <2>2. ASSUME NEW u \in Addresses, u # p, u # e, a \in aa[u] PROVE a \in ar[u] /\ a \notin aa[p]
    <3>1. a \in ar[u] /\ a # e
      BY <1>2, <1>4, <2>2
    <3>2. a \notin ar[e]
      BY <1>2, <1>3, <2>2, <3>1
    <3> QED BY <1>4, <3>1, <3>2
  <2>3. CASE v = p \/ w = p
    BY <1>7, <2>1, <2>2, <2>3
  <2>4. CASE v # p /\ w # p
    <3>1. a \in ar[v] /\ a \in ar[w]
      BY <1>7, <2>1, <2>2, <2>4
    <3> QED BY <1>2, <3>1
  <2> QED BY <2>3, <2>4
<1>8. T \subseteq Addresses /\ \A a \in T : g[a] # Free
  BY <1>1, <1>2
<1> HIDE DEF T
<1>9. Holds(T, g, aa)
  BY <1>1, <1>4, <1>5, <1>6, <1>7, <1>8 DEF Holds
<1> QED BY <1>9 DEF T, g, aa

\* The hypothesis new at the address p.
Also(h, p, new) == [h EXCEPT ![p] = new]

Replaced(S, h, ar, p, new, e) ==
  /\ Holds((S \ {e}) \cup {p}, Freed(Also(h, p, new), ar, {e}), ArcsWithout(ar, {e}))
  /\ Same(S \ {e}, h, Freed(Also(h, p, new), ar, {e}))
  /\ Freed(Also(h, p, new), ar, {e})[p] = new

\* Without n-best lists the loser is deleted, with the arcs it has.
LEMMA ReplaceFreeHolds ==
  ASSUME NEW S, NEW h, NEW ar, Holds(S, h, ar), NEW p, NEW new, IsNew(h, p, new), NEW e \in S
  PROVE  Replaced(S, h, ar, p, new, e)
<1> DEFINE g == Freed(h, ar, {e})
           T == S \ {e}
<1>1. T \subseteq S /\ {e} = S \ T
  OBVIOUS
<1>2. /\ Holds(T, g, ArcsWithout(ar, {e})) /\ Same(T, h, g)
      /\ \A a \in Addresses : h[a] = Free => g[a] = Free
  BY <1>1, FreedHolds
<1>3. IsNew(g, p, new)
  BY <1>2 DEF IsNew
<1> HIDE DEF g
<1>4. Holds(T \cup {p}, [g EXCEPT ![p] = new], ArcsWithout(ar, {e}))
  BY <1>2, <1>3, NewHolds
<1>5. /\ h \in [Addresses -> [class : Classes, score : Scores] \cup {Free}]
      /\ p \in Addresses /\ p \notin S /\ p \notin ar[e] /\ e \in Addresses
  BY NewIs DEF IsNew, Holds
<1>6. [g EXCEPT ![p] = new] = Freed([h EXCEPT ![p] = new], ar, {e})
  <2> DEFINE l == [g EXCEPT ![p] = new]
             r == Freed([h EXCEPT ![p] = new], ar, {e})
  <2>1. g = [a \in Addresses |-> IF a \in {e} \cup ar[e] THEN Free ELSE h[a]]
    BY DEF g, Freed
  <2>2. r = [a \in Addresses |-> IF a \in {e} \cup ar[e] THEN Free ELSE [h EXCEPT ![p] = new][a]]
    BY DEF Freed
  <2>3. l = [a \in Addresses |-> IF a = p THEN new ELSE g[a]]
    BY <2>1
  <2>4. ASSUME NEW a \in Addresses PROVE l[a] = r[a]
    BY <1>5, <2>1, <2>2, <2>3
  <2> HIDE DEF l, r
  <2>5. l = r
    BY <2>2, <2>3, <2>4
  <2> QED BY <2>5 DEF l, r
<1>7. \A a \in T : [g EXCEPT ![p] = new][a] = h[a]
  <2>1. T \subseteq Addresses /\ p \notin T
    BY <1>5 DEF Holds
  <2>2. g \in [Addresses -> [class : Classes, score : Scores] \cup {Free}]
    BY <1>2 DEF Holds
  <2> HIDE DEF T
  <2> QED BY <1>2, <2>1, <2>2 DEF Same
<1>8. [g EXCEPT ![p] = new][p] = new
  <2>1. g \in [Addresses -> [class : Classes, score : Scores] \cup {Free}]
    BY <1>2 DEF Holds
  <2> QED BY <1>5, <2>1
<1>9. Same(T, h, [g EXCEPT ![p] = new])
  BY <1>7 DEF Same
<1> QED BY <1>4, <1>6, <1>8, <1>9 DEF Also, Replaced

\* The new hypothesis is the loser and becomes an arc of e.
LEMMA JoinHolds ==
  ASSUME NEW S, NEW h, NEW ar, Holds(S, h, ar), NEW p, NEW new, IsNew(h, p, new),
         NEW e \in S, h[e].class = new.class, new.score <= h[e].score
  PROVE  Holds(S, [h EXCEPT ![p] = new], AddArc(ar, e, p)) /\ Same(S, h, [h EXCEPT ![p] = new])
<1> DEFINE g == [h EXCEPT ![p] = new]
           aa == AddArc(ar, e, p)
<1>1. /\ g \in [Addresses -> [class : Classes, score : Scores] \cup {Free}]
      /\ g[p] = new /\ new # Free
      /\ \A a \in Addresses : a # p => g[a] = h[a]
      /\ p \notin S /\ ar[p] = {} /\ p \in Addresses
      /\ \A w \in Addresses : p \notin ar[w]
  BY NewIs DEF IsNew
<1>2. /\ ar \in [Addresses -> SUBSET Addresses]
      /\ S \subseteq Addresses
      /\ \A a \in S : h[a] # Free
      /\ \A w \in Addresses : \A a \in ar[w] :
           w \in S /\ a \notin S /\ h[a] # Free /\ h[a].class = h[w].class /\ h[a].score <= h[w].score
      /\ \A a \in Addresses \ S : h[a] # Free => \E w \in Addresses : a \in ar[w]
      /\ \A v, w \in Addresses : \A a \in ar[v] : a \in ar[w] => v = w
  BY DEF Holds
<1>3. e # p /\ e \in Addresses
  BY <1>1, <1>2
<1>4. /\ aa \in [Addresses -> SUBSET Addresses]
      /\ aa[e] = ar[e] \cup {p}
      /\ \A w \in Addresses : w # e => aa[w] = ar[w]
  BY <1>1, <1>2, <1>3 DEF AddArc
<1> HIDE DEF g, aa
<1>5. ASSUME NEW w \in Addresses, NEW a \in aa[w]
      PROVE  /\ w \in S /\ a \notin S /\ g[a] # Free
             /\ g[a].class = g[w].class /\ g[a].score <= g[w].score
  <2>1. CASE w = e /\ a = p
    BY <1>1, <1>2, <1>3, <2>1
  <2>2. CASE ~(w = e /\ a = p)
    <3>1. a \in ar[w]
      BY <1>4, <1>5, <2>2
    <3>2. a \in Addresses /\ a # p /\ w # p
      BY <1>1, <1>2, <3>1
    <3> QED BY <1>1, <1>2, <3>1, <3>2
  <2> QED BY <2>1, <2>2
<1>6. ASSUME NEW a \in Addresses \ S, g[a] # Free PROVE \E w \in Addresses : a \in aa[w]
  <2>1. CASE a = p
    BY <1>3, <1>4, <2>1
  <2>2. CASE a # p
    <3>1. PICK w \in Addresses : a \in ar[w]
      BY <1>1, <1>2, <1>6, <2>2
    <3>2. a \in aa[w]
      BY <1>4, <3>1
    <3> QED BY <3>2
  <2> QED BY <2>1, <2>2
<1>7. ASSUME NEW v \in Addresses, NEW w \in Addresses, NEW a \in aa[v], a \in aa[w] PROVE v = w
  <2>1. CASE a = p
    <3>1. \A u \in Addresses : u # e => p \notin aa[u]
      BY <1>1, <1>4
    <3> QED BY <1>7, <2>1, <3>1
  <2>2. CASE a # p
    <3>1. a \in ar[v] /\ a \in ar[w]
      BY <1>4, <1>7, <2>2
    <3> QED BY <1>2, <3>1
  <2> QED BY <2>1, <2>2
<1>8. \A a \in S : g[a] = h[a] /\ g[a] # Free
  BY <1>1, <1>2
<1>9. Holds(S, g, aa)
  BY <1>1, <1>2, <1>4, <1>5, <1>6, <1>7, <1>8 DEF Holds
<1>10. Same(S, h, g)
  BY <1>8 DEF Same
<1> QED BY <1>9, <1>10 DEF g, aa

\* Cutting the arc lists to what stays.
Shorter(T, h, ar, stay) ==
  [a \in Addresses |-> IF a \in (UNION {ar[b] : b \in T}) \ stay THEN Free ELSE h[a]]
Staying(ar, stay) == [a \in Addresses |-> ar[a] \cap stay]

\* Arcs that are cut are deleted, the others stay where they are.
LEMMA CutHolds ==
  ASSUME NEW T, NEW h, NEW ar, Holds(T, h, ar), NEW stay
  PROVE  /\ Holds(T, Shorter(T, h, ar, stay), Staying(ar, stay))
         /\ Same(T, h, Shorter(T, h, ar, stay))
<1> DEFINE g == Shorter(T, h, ar, stay)
           aa == Staying(ar, stay)
<1>2. /\ ar \in [Addresses -> SUBSET Addresses]
      /\ h \in [Addresses -> [class : Classes, score : Scores] \cup {Free}]
      /\ T \subseteq Addresses
      /\ \A a \in T : h[a] # Free
      /\ \A w \in Addresses : \A a \in ar[w] :
           w \in T /\ a \notin T /\ h[a] # Free /\ h[a].class = h[w].class /\ h[a].score <= h[w].score
      /\ \A a \in Addresses \ T : h[a] # Free => \E w \in Addresses : a \in ar[w]
      /\ \A v, w \in Addresses : \A a \in ar[v] : a \in ar[w] => v = w
  BY DEF Holds
<1>1. /\ g \in [Addresses -> [class : Classes, score : Scores] \cup {Free}]
      /\ \A a \in Addresses : (\E b \in T : a \in ar[b]) /\ a \notin stay => g[a] = Free
      /\ \A a \in Addresses : ~((\E b \in T : a \in ar[b]) /\ a \notin stay) => g[a] = h[a]
  <2> DEFINE U == UNION {ar[b] : b \in T}
  <2>1. \A a : a \in U <=> \E b \in T : a \in ar[b]
    OBVIOUS
  <2>2. g = [a \in Addresses |-> IF a \in U \ stay THEN Free ELSE h[a]]
    BY DEF Shorter
  <2> HIDE DEF U, g
  <2>3. g \in [Addresses -> [class : Classes, score : Scores] \cup {Free}]
    BY <1>2, <2>2
  <2>4. \A a \in Addresses : g[a] = IF a \in U \ stay THEN Free ELSE h[a]
    BY <2>2
  <2> QED BY <2>1, <2>3, <2>4
<1>4. /\ aa \in [Addresses -> SUBSET Addresses]
      /\ \A w \in Addresses : \A a : a \in aa[w] <=> a \in ar[w] /\ a \in stay
  BY <1>2 DEF Staying
<1> HIDE DEF g, aa
<1>8. \A a \in T : g[a] = h[a] /\ g[a] # Free
  BY <1>1, <1>2
<1>5. ASSUME NEW w \in Addresses, NEW a \in aa[w]
      PROVE  /\ w \in T /\ a \notin T /\ g[a] # Free
             /\ g[a].class = g[w].class /\ g[a].score <= g[w].score
  <2>1. a \in ar[w] /\ a \in stay /\ a \in Addresses
    BY <1>2, <1>4, <1>5
  <2>2. g[a] = h[a]
    BY <1>1, <2>1
  <2> QED BY <1>2, <1>8, <2>1, <2>2
<1>6. ASSUME NEW a \in Addresses \ T, g[a] # Free PROVE \E w \in Addresses : a \in aa[w]
  <2>1. h[a] # Free /\ ~((\E b \in T : a \in ar[b]) /\ a \notin stay)
    BY <1>1, <1>6
  <2>2. PICK w \in Addresses : a \in ar[w]
    BY <1>2, <2>1
  <2>3. w \in T
    BY <1>2, <2>2
  <2> QED BY <1>4, <2>1, <2>2, <2>3
<1>7. ASSUME NEW v \in Addresses, NEW w \in Addresses, NEW a \in aa[v], a \in aa[w] PROVE v = w
  BY <1>2, <1>4, <1>7
<1>9. Holds(T, g, aa)
  BY <1>1, <1>2, <1>4, <1>5, <1>6, <1>7, <1>8 DEF Holds
<1>10. Same(T, h, g)
  BY <1>8 DEF Same
<1> QED BY <1>9, <1>10 DEF g, aa

-----------------------------------------------------------------------------
(* The inductive invariant                                                 *)

FitsNow == Fits(static, m_hypos, hypo, m_bestScore)
IndInv ==
  /\ static \in Settings /\ expanded \in BOOLEAN
  /\ Holds(m_hypos, hypo, arcs)
  /\ Kept(static, m_hypos, hypo, m_worstScore, m_diversityWorstScore, m_bestScore)
  /\ Remembered(static, m_hypos, hypo, m_bestScore, bestOf)
  /\ FitsNow \/ Cardinality(m_hypos) <= ToleratedSize
  /\ expanded => FitsNow

Rises ==
  /\ m_worstScore' >= m_worstScore
  /\ \A v \in Coverages : m_diversityWorstScore'[v] >= m_diversityWorstScore[v]

\* PruneToSize, whichever stack comes out of it.
LEMMA PruningKeeps ==
  ASSUME static \in Settings, NEW st, NEW best, NEW h,
         Kept(static, st.on, h, st.worst, st.div, best), NEW k \in Pruned(st, best, h)
  PROVE  /\ Kept(static, k.on, h, k.worst, k.div, best)
         /\ k.on \subseteq st.on /\ Lost(static, st.on, h, best, k.on) /\ Fits(static, k.on, h, best)
         /\ k.worst >= st.worst
         /\ \A v \in Coverages : k.div[v] >= st.div[v]
<1>1. /\ Stacked(st.on, h) /\ best \in Int /\ st.worst \in Int
      /\ \A v \in Coverages : st.div[v] \in Int
  BY KeptIs
<1>2. \/ k = st /\ (static.size = 0 \/ Cardinality(st.on) <= static.size)
      \/ \E D, F, m : PrunedTo(static, st, best, h, k, D, F, m)
  BY <1>1, PrunedIs
<1>3. CASE k = st /\ (static.size = 0 \/ Cardinality(st.on) <= static.size)
  <2>1. Lost(static, st.on, h, best, k.on)
    BY <1>3 DEF Lost
  <2>2. Fits(static, k.on, h, best)
    BY <1>3 DEF Fits
  <2>3. k.worst >= st.worst /\ \A v \in Coverages : k.div[v] >= st.div[v]
    BY <1>1, <1>3
  <2> QED BY <1>3, <2>1, <2>2, <2>3
<1>4. CASE \E D, F, m : PrunedTo(static, st, best, h, k, D, F, m)
  <2>1. PICK D, F, m : PrunedTo(static, st, best, h, k, D, F, m)
    BY <1>4
  <2> QED BY <2>1, PruneStep
<1> QED BY <1>2, <1>3, <1>4

\* Add, when the equal one is out of the way.
LEMMA AddStep ==
  ASSUME IndInv, ~expanded, NEW rest, NEW h, NEW ar, NEW p,
         Joins(m_hypos, hypo, rest, h, p), Holds(rest \cup {p}, h, ar), Add(h, ar, rest, p),
         bestOf' = Offer(bestOf, h[p].class, h[p].score), static' = static, expanded' = expanded
  PROVE  IndInv' /\ Rises
<1> DEFINE s == h[p].score
           v == Cov(h[p])
           best == IF s > m_bestScore THEN s ELSE m_bestScore
           st == [on    |-> rest \cup {p},
                  worst |-> WorstWith(s),
                  div   |-> IF static.diversity = 1 /\ s > m_diversityWorstScore[v]
                            THEN [m_diversityWorstScore EXCEPT ![v] = s] ELSE m_diversityWorstScore]
           be == Offer(bestOf, h[p].class, h[p].score)
<1>1. PICK k \in IF Cardinality(st.on) > ToleratedSize THEN Pruned(st, best, h) ELSE {st} :
        /\ m_hypos' = k.on
        /\ m_worstScore' = k.worst /\ m_diversityWorstScore' = k.div
        /\ hypo' = Freed(h, ar, st.on \ k.on)
        /\ arcs' = ArcsWithout(ar, st.on \ k.on)
  BY DEF Add
<1>2. m_bestScore' = best
  BY DEF Add
<1>3. /\ static \in Settings /\ Holds(m_hypos, hypo, arcs)
      /\ Kept(static, m_hypos, hypo, m_worstScore, m_diversityWorstScore, m_bestScore)
      /\ Remembered(static, m_hypos, hypo, m_bestScore, bestOf)
  BY DEF IndInv
<1>4. /\ st.on = rest \cup {p}
      /\ st.worst = WorstNow(m_worstScore, m_bestScore, s)
      /\ st.div = DivWith(static, m_diversityWorstScore, v, s)
      /\ best = BestWith(m_bestScore, s)
  BY DEF WorstWith, WorstNow, DivWith, BestWith
<1>v. s = h[p].score /\ v = Cov(h[p]) /\ h[p].class = h[p].class
  OBVIOUS
<1> HIDE DEF st, best, s, v
<1>5. /\ Kept(static, st.on, h, st.worst, st.div, best)
      /\ st.worst >= m_worstScore
      /\ \A u \in Coverages : st.div[u] >= m_diversityWorstScore[u]
  <2>1. /\ Kept(static, rest \cup {p}, h, WorstNow(m_worstScore, m_bestScore, s),
                DivWith(static, m_diversityWorstScore, v, s), BestWith(m_bestScore, s))
        /\ WorstNow(m_worstScore, m_bestScore, s) >= m_worstScore
        /\ \A u \in Coverages :
             DivWith(static, m_diversityWorstScore, v, s)[u] >= m_diversityWorstScore[u]
    BY <1>3, <1>v, AddKept
  <2> QED BY <1>4, <2>1
<1>6. Remembered(static, st.on, h, best, be)
  <2>1. Remembered(static, rest \cup {p}, h, BestWith(m_bestScore, s), Offer(bestOf, h[p].class, s))
    BY <1>3, <1>v, AddRemembers
  <2> QED BY <1>4, <1>v, <2>1
<1>7. /\ Kept(static, k.on, h, k.worst, k.div, best) /\ k.on \subseteq st.on
      /\ Remembered(static, k.on, h, best, be)
      /\ Fits(static, k.on, h, best) \/ Cardinality(k.on) <= ToleratedSize
      /\ k.worst >= st.worst /\ \A u \in Coverages : k.div[u] >= st.div[u]
  <2>1. CASE k \in Pruned(st, best, h)
    <3>1. /\ Kept(static, k.on, h, k.worst, k.div, best)
          /\ k.on \subseteq st.on /\ Lost(static, st.on, h, best, k.on) /\ Fits(static, k.on, h, best)
          /\ k.worst >= st.worst /\ \A u \in Coverages : k.div[u] >= st.div[u]
      BY <1>3, <1>5, <2>1, PruningKeeps
    <3>2. Remembered(static, k.on, h, best, be)
      BY <1>3, <1>5, <1>6, <3>1, PruneRemembers
    <3> QED BY <3>1, <3>2
  <2>2. CASE k = st /\ ~(Cardinality(st.on) > ToleratedSize)
    <3>1. /\ IsFiniteSet(st.on) /\ st.worst \in Int /\ \A u \in Coverages : st.div[u] \in Int
      BY <1>5, KeptIs DEF Stacked
    <3>2. Cardinality(st.on) \in Int
      BY <3>1, FS_CardinalityType
    <3>3. ToleratedSize \in Int
      BY <1>3, SettingIs, StackAssumption DEF ToleratedSize
    <3>4. Cardinality(k.on) <= ToleratedSize
      BY <2>2, <3>2, <3>3
    <3> QED BY <1>5, <1>6, <2>2, <3>1, <3>4
  <2> QED BY <1>1, <2>1, <2>2
<1>8. /\ Holds(k.on, hypo', arcs') /\ Same(k.on, h, hypo')
  <2>1. Holds(st.on, h, ar)
    BY <1>4
  <2> QED BY <1>1, <1>7, <2>1, FreedHolds
<1>9. Kept(static, k.on, hypo', k.worst, k.div, best)
  BY <1>7, <1>8, KeptSame
<1>10. Remembered(static, k.on, hypo', best, be)
  BY <1>7, <1>8, RememberedSame
<1>11. Fits(static, k.on, hypo', best) \/ Cardinality(k.on) <= ToleratedSize
  BY <1>7, <1>8, FitsSame
<1>12. Rises
  <2>1. /\ m_worstScore \in Int /\ \A u \in Coverages : m_diversityWorstScore[u] \in Int
    BY <1>3, KeptIs
  <2>2. /\ st.worst \in Int /\ \A u \in Coverages : st.div[u] \in Int
    BY <1>5, KeptIs
  <2>3. /\ k.worst \in Int /\ \A u \in Coverages : k.div[u] \in Int
    BY <1>7, KeptIs
  <2> QED BY <1>1, <1>5, <1>7, <2>1, <2>2, <2>3 DEF Rises
<1>13. ToleratedSize' = ToleratedSize
  BY DEF ToleratedSize
<1>14. expanded \in BOOLEAN
  BY DEF IndInv
<1> HIDE DEF be
<1>15. bestOf' = be
  BY DEF be
<1>16. IndInv'
  BY <1>1, <1>2, <1>3, <1>8, <1>9, <1>10, <1>11, <1>13, <1>14, <1>15 DEF IndInv, FitsNow
<1> QED BY <1>12, <1>16

\* Decode's turn of the stack keeps the invariant, and no limit falls.
LEMMA ExpandStep ==
  ASSUME IndInv, Expand
  PROVE  IndInv' /\ Rises
<1> DEFINE now == [on |-> m_hypos, worst |-> m_worstScore, div |-> m_diversityWorstScore]
<1>1. PICK k \in Pruned(now, m_bestScore, hypo) :
        LET gone == m_hypos \ k.on
            left == ArcsWithout(arcs, gone)
        IN \E stay \in SUBSET UNION {left[a] : a \in k.on} :
             /\ m_hypos' = k.on
             /\ m_worstScore' = k.worst /\ m_diversityWorstScore' = k.div
             /\ arcs' = [a \in Addresses |-> left[a] \cap stay]
             /\ hypo' = [a \in Addresses |->
                           IF a \in (UNION {left[b] : b \in k.on}) \ stay THEN Free
                           ELSE Freed(hypo, arcs, gone)[a]]
  BY DEF Expand
<1> DEFINE gone == m_hypos \ k.on
           left == ArcsWithout(arcs, gone)
           h == Freed(hypo, arcs, gone)
<1>2. PICK stay \in SUBSET UNION {left[a] : a \in k.on} :
             /\ m_hypos' = k.on
             /\ m_worstScore' = k.worst /\ m_diversityWorstScore' = k.div
             /\ arcs' = [a \in Addresses |-> left[a] \cap stay]
             /\ hypo' = [a \in Addresses |->
                           IF a \in (UNION {left[b] : b \in k.on}) \ stay THEN Free ELSE h[a]]
  BY <1>1
<1>3. /\ ~expanded /\ expanded' = TRUE
      /\ static' = static /\ m_bestScore' = m_bestScore /\ bestOf' = bestOf
  BY DEF Expand
<1>4. /\ static \in Settings /\ Holds(m_hypos, hypo, arcs)
      /\ Kept(static, m_hypos, hypo, m_worstScore, m_diversityWorstScore, m_bestScore)
      /\ Remembered(static, m_hypos, hypo, m_bestScore, bestOf)
  BY DEF IndInv
<1>5. now.on = m_hypos /\ now.worst = m_worstScore /\ now.div = m_diversityWorstScore
  OBVIOUS
<1> HIDE DEF now
<1>6. /\ Kept(static, k.on, hypo, k.worst, k.div, m_bestScore)
      /\ k.on \subseteq m_hypos /\ Lost(static, m_hypos, hypo, m_bestScore, k.on)
      /\ Fits(static, k.on, hypo, m_bestScore)
      /\ k.worst >= m_worstScore /\ \A v \in Coverages : k.div[v] >= m_diversityWorstScore[v]
  BY <1>4, <1>5, PruningKeeps
<1>7. Remembered(static, k.on, hypo, m_bestScore, bestOf)
  BY <1>4, <1>6, PruneRemembers
<1>8. Holds(k.on, h, left) /\ Same(k.on, hypo, h)
  BY <1>4, <1>6, FreedHolds
<1> HIDE DEF h, left
<1>9. Holds(k.on, hypo', arcs') /\ Same(k.on, h, hypo')
  <2>1. /\ Holds(k.on, Shorter(k.on, h, left, stay), Staying(left, stay))
        /\ Same(k.on, h, Shorter(k.on, h, left, stay))
    BY <1>8, CutHolds
  <2>2. hypo' = Shorter(k.on, h, left, stay) /\ arcs' = Staying(left, stay)
    BY <1>2 DEF Shorter, Staying
  <2> QED BY <2>1, <2>2
<1>10. Same(k.on, hypo, hypo')
  BY <1>8, <1>9 DEF Same
<1>11. /\ Kept(static, k.on, hypo', k.worst, k.div, m_bestScore)
       /\ Remembered(static, k.on, hypo', m_bestScore, bestOf)
       /\ Fits(static, k.on, hypo', m_bestScore)
  BY <1>6, <1>7, <1>10, KeptSame, RememberedSame, FitsSame
<1>12. IndInv'
  BY <1>2, <1>3, <1>4, <1>9, <1>11 DEF IndInv, FitsNow
<1>13. Rises
  BY <1>2, <1>6 DEF Rises
<1> QED BY <1>12, <1>13

\* The new hypothesis in the place of its equal and worse one.
LEMMA ReplaceJoins ==
  ASSUME NEW S, NEW g, NEW e \in S, \A a, b \in S : g[a].class = g[b].class => a = b,
         NEW p, p \notin S, NEW h, \A a \in S \ {e} : h[a] = g[a],
         h[p].class = g[e].class, h[p].class \in Classes, h[p].score \in Scores,
         g[e].score < h[p].score
  PROVE  Joins(S, g, S \ {e}, h, p)
BY DEF Joins

\* So does AddPrune, with each of its outcomes.
LEMMA AddPruneStep ==
  ASSUME IndInv, NEW c \in Classes, NEW s \in Scores \cup {LogZero}, AddPrune(c, s)
  PROVE  IndInv' /\ Rises
<1> DEFINE new == [class |-> c, score |-> s]
           unused == {a \in Addresses : hypo[a] = Free}
           p == Min(unused)
<1>1. /\ ~expanded /\ unused # {}
      /\ bestOf' = Offer(bestOf, c, s)
      /\ Discard(new) \/ AddNew(new, p) \/ ReplaceEqual(new, p) \/ JoinEqual(new, p)
      /\ static' = static /\ expanded' = expanded
  BY DEF AddPrune, Offer
<1>2. p \in Addresses /\ hypo[p] = Free
  <2>1. p \in unused
    BY <1>1, MinAddress
  <2> QED BY <2>1
<1>3. new.class = c /\ new.score = s /\ Cov(new) = c[1]
  BY DEF Cov
<1>4. s # LogZero => IsNew(hypo, p, new)
  BY <1>2 DEF IsNew
<1> HIDE DEF new, unused, p
<1>5. /\ static \in Settings /\ expanded \in BOOLEAN /\ Holds(m_hypos, hypo, arcs)
      /\ Kept(static, m_hypos, hypo, m_worstScore, m_diversityWorstScore, m_bestScore)
      /\ Remembered(static, m_hypos, hypo, m_bestScore, bestOf)
      /\ FitsNow \/ Cardinality(m_hypos) <= ToleratedSize
  BY DEF IndInv
<1>6. \A a, b \in m_hypos : hypo[a].class = hypo[b].class => a = b
  BY <1>5 DEF Kept
<1>7. Rises \/ ~(m_worstScore' = m_worstScore /\ m_diversityWorstScore' = m_diversityWorstScore)
  <2>1. m_worstScore \in Int /\ \A v \in Coverages : m_diversityWorstScore[v] \in Int
    BY <1>5, KeptIs
  <2> QED BY <2>1 DEF Rises
<1>8. ToleratedSize' = ToleratedSize
  BY <1>1 DEF ToleratedSize
<1>9. CASE Discard(new)
  <2>1. /\ s = LogZero \/ (s < m_worstScore /\ (static.diversity = 0 \/ s < m_diversityWorstScore[c[1]]))
        /\ UNCHANGED <<hypo, m_hypos, arcs, m_bestScore, m_worstScore, m_diversityWorstScore>>
    <3>1. \/ s = LogZero
          \/ s < m_worstScore /\ ~(static.diversity > 0 /\ s >= m_diversityWorstScore[c[1]])
      BY <1>3, <1>9 DEF Discard, TooBad
    <3>2. static.diversity \in Nat /\ s \in Int /\ m_diversityWorstScore[c[1]] \in Int
      <4>1. c[1] \in Coverages
        BY DEF Classes
      <4> QED BY <1>5, <4>1, SettingIs, NumbersAre, KeptIs
    <3> QED BY <1>9, <3>1, <3>2 DEF Discard
  <2>2. Remembered(static, m_hypos, hypo, m_bestScore, Offer(bestOf, c, s))
    BY <1>5, <2>1, DiscardRemembers
  <2>3. IndInv'
    BY <1>1, <1>5, <1>8, <2>1, <2>2 DEF IndInv, FitsNow
  <2> QED BY <1>7, <2>1, <2>3
<1>10. ASSUME ~TooBad(new) PROVE s # LogZero /\ s \in Scores /\ s \in Int
  BY <1>3, <1>10, NumbersAre DEF TooBad
<1> DEFINE h == [hypo EXCEPT ![p] = new]
<1>11. ASSUME s # LogZero
       PROVE  /\ h[p] = new /\ p \notin m_hypos
              /\ \A a \in m_hypos : h[a] = hypo[a]
  <2>1. IsNew(hypo, p, new)
    BY <1>4, <1>11
  <2>2. m_hypos \subseteq Addresses
    BY <1>5 DEF Holds
  <2>3. /\ [hypo EXCEPT ![p] = new][p] = new /\ p \notin m_hypos
        /\ \A a \in Addresses : a # p => [hypo EXCEPT ![p] = new][a] = hypo[a]
    BY <1>5, <2>1, NewIs
  <2> QED BY <2>2, <2>3
<1>12. CASE AddNew(new, p)
  <2>1. ~TooBad(new) /\ Equals(new) = {} /\ Add(h, arcs, m_hypos, p)
    BY <1>12 DEF AddNew
  <2>2. s # LogZero /\ s \in Scores
    BY <1>10, <2>1
  <2>3. Holds(m_hypos \cup {p}, h, arcs)
    BY <1>4, <1>5, <2>2, NewHolds
  <2>4. /\ h[p] = new /\ p \notin m_hypos
        /\ \A a \in m_hypos : h[a] = hypo[a] /\ hypo[a].class # c
    BY <1>3, <1>11, <2>1, <2>2 DEF Equals
  <2> HIDE DEF h
  <2>5. Joins(m_hypos, hypo, m_hypos, h, p)
    BY <1>3, <2>2, <2>4 DEF Joins
  <2>6. bestOf' = Offer(bestOf, h[p].class, h[p].score)
    BY <1>1, <1>3, <2>4
  <2> QED BY <1>1, <2>1, <2>3, <2>5, <2>6, AddStep
<1>13. CASE ReplaceEqual(new, p)
  <2>0. ~TooBad(new)
    BY <1>13 DEF ReplaceEqual
  <2>1. PICK e \in Equals(new) :
          /\ s > hypo[e].score
          /\ IF static.nBest > 0
             THEN Add(h, AddArc(arcs, p, e), m_hypos \ {e}, p)
             ELSE Add(Freed(h, arcs, {e}), ArcsWithout(arcs, {e}), m_hypos \ {e}, p)
    BY <1>3, <1>13 DEF ReplaceEqual
  <2>2. s # LogZero /\ s \in Scores /\ s \in Int /\ IsNew(hypo, p, new)
    BY <1>4, <1>10, <2>0
  <2>3. e \in m_hypos /\ hypo[e].class = c /\ hypo[e].score \in Int /\ hypo[e].score < s
    <3>1. e \in m_hypos /\ hypo[e].class = c
      BY <1>3 DEF Equals
    <3>2. hypo[e].score \in Int
      BY <1>5, <3>1, KeptIs
    <3> QED BY <2>1, <2>2, <3>1, <3>2
  <2>4. /\ h[p] = new /\ p \notin m_hypos
        /\ \A a \in m_hypos : h[a] = hypo[a]
    BY <1>11, <2>2
  <2>5. CASE static.nBest > 0
    <3>1. Holds((m_hypos \ {e}) \cup {p}, h, AddArc(arcs, p, e))
      BY <1>3, <1>5, <2>2, <2>3, ReplaceHolds
    <3>2. Add(h, AddArc(arcs, p, e), m_hypos \ {e}, p)
      BY <2>1, <2>5
    <3> HIDE DEF h
    <3>3. Joins(m_hypos, hypo, m_hypos \ {e}, h, p)
      BY <1>3, <1>6, <2>2, <2>3, <2>4, ReplaceJoins
    <3>4. bestOf' = Offer(bestOf, h[p].class, h[p].score)
      BY <1>1, <1>3, <2>4
    <3> QED BY <1>1, <3>1, <3>2, <3>3, <3>4, AddStep
  <2>6. CASE ~(static.nBest > 0)
    <3> DEFINE g == Freed(h, arcs, {e})
    <3>1. /\ Holds((m_hypos \ {e}) \cup {p}, g, ArcsWithout(arcs, {e}))
          /\ \A a \in m_hypos \ {e} : g[a] = hypo[a]
          /\ g[p] = new
      <4>1. /\ Holds((m_hypos \ {e}) \cup {p}, Freed(Also(hypo, p, new), arcs, {e}),
                     ArcsWithout(arcs, {e}))
            /\ Same(m_hypos \ {e}, hypo, Freed(Also(hypo, p, new), arcs, {e}))
            /\ Freed(Also(hypo, p, new), arcs, {e})[p] = new
        <5>1. Replaced(m_hypos, hypo, arcs, p, new, e)
          BY <1>5, <2>2, <2>3, ReplaceFreeHolds
        <5> QED BY <5>1 DEF Replaced
      <4>2. Also(hypo, p, new) = h
        BY DEF Also
      <4> HIDE DEF h
      <4> QED BY <4>1, <4>2 DEF Same
    <3>2. Add(g, ArcsWithout(arcs, {e}), m_hypos \ {e}, p)
      BY <2>1, <2>6
    <3> HIDE DEF h, g
    <3>3. Joins(m_hypos, hypo, m_hypos \ {e}, g, p)
      BY <1>3, <1>6, <2>2, <2>3, <2>4, <3>1, ReplaceJoins
    <3>4. bestOf' = Offer(bestOf, g[p].class, g[p].score)
      BY <1>1, <1>3, <3>1
    <3> QED BY <1>1, <3>1, <3>2, <3>3, <3>4, AddStep
  <2> QED BY <2>5, <2>6
<1>14. CASE JoinEqual(new, p)
  <2>1. /\ ~TooBad(new)
        /\ UNCHANGED <<m_hypos, m_bestScore, m_worstScore, m_diversityWorstScore>>
    BY <1>14 DEF JoinEqual
  <2>2. PICK e \in Equals(new) :
          /\ s <= hypo[e].score
          /\ IF static.nBest > 0
             THEN arcs' = AddArc(arcs, e, p) /\ hypo' = h
             ELSE UNCHANGED <<arcs, hypo>>
    BY <1>3, <1>14 DEF JoinEqual
  <2>3. s # LogZero /\ s \in Scores /\ s \in Int /\ IsNew(hypo, p, new)
    BY <1>4, <1>10, <2>1
  <2>4. e \in m_hypos /\ hypo[e].class = c /\ hypo[e].score \in Int
    <3>1. e \in m_hypos /\ hypo[e].class = c
      BY <1>3 DEF Equals
    <3> QED BY <1>5, <3>1, KeptIs
  <2>5. Offer(bestOf, c, s) = bestOf
    <3>1. IsOffer(bestOf) /\ hypo[e].score <= bestOf[c]
      BY <1>5, <2>4 DEF Remembered
    <3>2. bestOf[c] \in Int
      BY <3>1, OffIs
    <3>3. s <= bestOf[c]
      BY <2>2, <2>3, <2>4, <3>1, <3>2
    <3> QED BY <3>1, <3>3, OfferIs
  <2>6. Holds(m_hypos, hypo', arcs') /\ Same(m_hypos, hypo, hypo')
    <3>1. CASE static.nBest > 0
      <4>1. /\ Holds(m_hypos, [hypo EXCEPT ![p] = new], AddArc(arcs, e, p))
            /\ Same(m_hypos, hypo, [hypo EXCEPT ![p] = new])
        BY <1>3, <1>5, <2>2, <2>3, <2>4, JoinHolds
      <4> QED BY <2>2, <3>1, <4>1
    <3>2. CASE ~(static.nBest > 0)
      BY <1>5, <2>2, <3>2 DEF Same
    <3> QED BY <3>1, <3>2
  <2>7. /\ Kept(static, m_hypos, hypo', m_worstScore, m_diversityWorstScore, m_bestScore)
        /\ Remembered(static, m_hypos, hypo', m_bestScore, bestOf)
        /\ FitsNow => Fits(static, m_hypos, hypo', m_bestScore)
    BY <1>5, <2>6, KeptSame, RememberedSame, FitsSame DEF FitsNow
  <2>8. IndInv'
    BY <1>1, <1>5, <1>8, <2>1, <2>5, <2>6, <2>7 DEF IndInv, FitsNow
  <2> QED BY <1>7, <2>1, <2>8
<1> QED BY <1>1, <1>9, <1>12, <1>13, <1>14

\* An empty stack has the invariant.
LEMMA InitInv == Init => IndInv
<1> SUFFICES ASSUME Init PROVE IndInv
  OBVIOUS
<1>1. /\ static \in Settings /\ hypo = [a \in Addresses |-> Free] /\ m_hypos = {}
      /\ arcs = [a \in Addresses |-> {}]
      /\ m_bestScore = LogZero /\ m_worstScore = LogZero
      /\ m_diversityWorstScore = [v \in Coverages |-> LogZero]
      /\ expanded = FALSE /\ bestOf = [c \in Classes |-> LogZero]
  BY DEF Init
<1>2. Holds(m_hypos, hypo, arcs)
  BY <1>1 DEF Holds
<1>3. Kept(static, m_hypos, hypo, m_worstScore, m_diversityWorstScore, m_bestScore)
  <2>1. Stacked({}, hypo)
    BY FS_EmptySet DEF Stacked
  <2>2. LogZero \in Int /\ LogZero <= LogZero
    BY NumbersAre
  <2> QED BY <1>1, <2>1, <2>2 DEF Kept
<1>4. Remembered(static, m_hypos, hypo, m_bestScore, bestOf)
  <2>1. IsOffer(bestOf) /\ \A c \in Classes : bestOf[c] = LogZero
    BY <1>1 DEF IsOffer
  <2>2. LogZero <= LogZero
    BY NumbersAre
  <2>3. Must(static, bestOf, m_bestScore) = {}
    BY <2>1 DEF Must, Off
  <2>4. Classes # {}
    <3>1. PICK v \in Coverages, f \in States : TRUE
      BY StackAssumption
    <3>2. <<v, f>> \in Classes
      BY <3>1 DEF Classes
    <3> QED BY <3>2
  <2> QED BY <1>1, <2>1, <2>2, <2>3, <2>4 DEF Remembered
<1>5. FitsNow
  BY <1>1, FS_EmptySet, SettingIs DEF FitsNow, Fits
<1> QED BY <1>1, <1>2, <1>3, <1>4, <1>5 DEF IndInv

\* Every step keeps it.
LEMMA StepInv == IndInv /\ [Next]_vars => IndInv'
<1> SUFFICES ASSUME IndInv, [Next]_vars PROVE IndInv'
  OBVIOUS
<1>1. CASE Expand
  BY <1>1, ExpandStep
<1>2. ASSUME NEW c \in Classes, NEW s \in Scores \cup {LogZero}, AddPrune(c, s) PROVE IndInv'
  BY <1>2, AddPruneStep
<1>3. CASE UNCHANGED vars
  BY <1>3 DEF vars, IndInv, FitsNow, ToleratedSize
<1> QED BY <1>1, <1>2, <1>3 DEF Next

\* The inductive invariant holds in every behaviour.
THEOREM IndInvHolds == Spec => []IndInv
BY InitInv, StepInv, PTL DEF Spec

-----------------------------------------------------------------------------
(* The properties                                                          *)

\* The sets of the properties in the terms of the proof.
LEMMA OfferedIs ==
  ASSUME IsOffer(bestOf)
  PROVE  /\ Offered = Off(bestOf)
         /\ \A v \in Coverages : OnCov(v) = OnV(Off(bestOf), Hb(bestOf), v)
         /\ \A c \in Classes : AtLeast(Offered, c) = AtW(Off(bestOf), Hb(bestOf), bestOf[c])
         /\ \A c \in Classes : AtLeast(OnCov(c[1]), c)
              = OnV(AtW(Off(bestOf), Hb(bestOf), bestOf[c]), Hb(bestOf), c[1])
<1>1. \A c \in Classes : Hb(bestOf)[c].score = bestOf[c] /\ Cov(Hb(bestOf)[c]) = c[1]
  BY OffIs
<1>2. Offered = Off(bestOf) /\ Offered \subseteq Classes
  BY DEF Offered, Off
<1>3. ASSUME NEW v \in Coverages PROVE OnCov(v) = OnV(Off(bestOf), Hb(bestOf), v)
  BY <1>1, <1>2 DEF OnCov, OnV
<1>4. ASSUME NEW c \in Classes
      PROVE  /\ AtLeast(Offered, c) = AtW(Off(bestOf), Hb(bestOf), bestOf[c])
             /\ AtLeast(OnCov(c[1]), c)
                  = OnV(AtW(Off(bestOf), Hb(bestOf), bestOf[c]), Hb(bestOf), c[1])
  <2>1. AtLeast(Offered, c) = AtW(Off(bestOf), Hb(bestOf), bestOf[c])
    BY <1>1, <1>2 DEF AtLeast, AtW
  <2>2. AtLeast(OnCov(c[1]), c) = OnV(AtW(Off(bestOf), Hb(bestOf), bestOf[c]), Hb(bestOf), c[1])
    BY <1>1, <1>2 DEF AtLeast, AtW, OnCov, OnV
  <2> QED BY <2>1, <2>2
<1> QED BY <1>2, <1>3, <1>4

\* The places of the model are those counted here.
LEMMA RoomIs ==
  ASSUME static \in Settings, IsOffer(bestOf), NEW w, NEW T, T = AtW(Off(bestOf), Hb(bestOf), w)
  PROVE  Room(T) = Places(static, Off(bestOf), Hb(bestOf), w)
<1> DEFINE S == Off(bestOf)
           h == Hb(bestOf)
           n(v) == Count(S, h, v)
           k(v) == Count(T, h, v)
           P(v) == {v} \X (1..Quota(v) \cup 1..Cardinality(T \cap OnCov(v)))
<1>1. Stacked(S, h) /\ \A c \in Classes : Cov(h[c]) = c[1]
  BY OffIs
<1>2. \A v \in Coverages : OnCov(v) = OnV(S, h, v)
  BY OfferedIs
<1>3. T \subseteq S
  BY DEF AtW
<1>4. ASSUME NEW v \in Coverages
      PROVE  /\ Cardinality(T \cap OnCov(v)) = k(v) /\ k(v) \in Nat /\ n(v) \in Nat
             /\ Quota(v) = IF static.diversity <= n(v) THEN static.diversity ELSE n(v)
             /\ Quota(v) \in Nat
  <2>1. T \cap OnCov(v) = OnV(T, h, v)
    BY <1>2, <1>3 DEF OnV
  <2>2. k(v) \in Nat /\ n(v) \in Nat
    BY <1>1, AtWCount
  <2>3. static.diversity \in Nat
    BY SettingIs
  <2>4. Quota(v) = Min({static.diversity, n(v)})
    BY <1>2 DEF Quota, Count
  <2> HIDE DEF n
  <2>5. Quota(v) = IF static.diversity <= n(v) THEN static.diversity ELSE n(v)
    BY <2>2, <2>3, <2>4, MinPair
  <2> QED BY <2>1, <2>2, <2>3, <2>5 DEF Count
<1>5. Room(T) = UNION {P(v) : v \in Coverages}
  BY DEF Room
<1>6. Places(static, S, h, w) =
        {p \in Coverages \X Nat :
           1 <= p[2] /\ (p[2] <= k(p[1]) \/ (p[2] <= static.diversity /\ p[2] <= n(p[1])))}
  BY DEF Places
<1>d. static.diversity \in Nat
  BY SettingIs
<1> HIDE DEF S, h, n, k
<1>7. ASSUME NEW p PROVE p \in Room(T) <=> p \in Places(static, S, h, w)
  <2>1. p \in Room(T) <=> \E v \in Coverages : p \in P(v)
    BY <1>5
  <2>2. ASSUME NEW v \in Coverages
        PROVE  p \in P(v) <=> /\ p \in Coverages \X Nat /\ p[1] = v /\ 1 <= p[2]
                              /\ p[2] <= Quota(v) \/ p[2] <= k(v)
    <3>1. Cardinality(T \cap OnCov(v)) = k(v) /\ k(v) \in Nat /\ Quota(v) \in Nat
      BY <1>4
    <3>2. P(v) = {v} \X (1..Quota(v) \cup 1..k(v))
      BY <3>1
    <3> HIDE DEF P
    <3>3. ASSUME p \in P(v)
          PROVE  /\ p \in Coverages \X Nat /\ p[1] = v /\ 1 <= p[2]
                 /\ p[2] <= Quota(v) \/ p[2] <= k(v)
      BY <3>1, <3>2, <3>3
    <3>4. ASSUME p \in Coverages \X Nat, p[1] = v, 1 <= p[2], p[2] <= Quota(v) \/ p[2] <= k(v)
          PROVE  p \in P(v)
      <4>1. p = <<v, p[2]>> /\ p[2] \in Nat
        BY <3>4
      <4>2. p[2] \in 1..Quota(v) \cup 1..k(v)
        BY <3>1, <3>4, <4>1
      <4> QED BY <3>2, <4>1, <4>2
    <3> QED BY <3>3, <3>4
  <2> HIDE DEF P
  <2>3. p \in Room(T) <=> /\ p \in Coverages \X Nat /\ 1 <= p[2]
                          /\ p[2] <= Quota(p[1]) \/ p[2] <= k(p[1])
    BY <2>1, <2>2
  <2>4. ASSUME p \in Coverages \X Nat
        PROVE  p[2] <= Quota(p[1]) <=> p[2] <= static.diversity /\ p[2] <= n(p[1])
    <3>1. /\ Quota(p[1]) = IF static.diversity <= n(p[1]) THEN static.diversity ELSE n(p[1])
          /\ n(p[1]) \in Nat
      BY <1>4, <2>4
    <3>2. p[2] \in Nat
      BY <2>4
    <3> QED BY <1>d, <3>1, <3>2
  <2> QED BY <1>6, <2>3, <2>4
<1>8. Room(T) = Places(static, S, h, w)
  BY <1>7
<1> QED BY <1>8 DEF S, h

\* The greatest of the scores offered.
LEMMA BestOfferedIs ==
  ASSUME NEW best \in Int, IsOffer(bestOf), \A c \in Classes : bestOf[c] <= best,
         \E c \in Classes : bestOf[c] = best
  PROVE  BestOffered = best
<1> DEFINE B == {bestOf[c] : c \in Classes}
<1>1. best \in B /\ \A x \in B : best >= x /\ x \in Int
  BY OffIs
<1>2. BestOffered = Max(B)
  BY DEF BestOffered
<1> HIDE DEF B
<1>3. Max(B) \in B /\ \A x \in B : Max(B) >= x
  BY <1>1 DEF Max
<1>4. Max(B) = best
  <2>1. Max(B) >= best /\ best >= Max(B) /\ Max(B) \in Int
    BY <1>1, <1>3
  <2> QED BY <2>1
<1> QED BY <1>2, <1>4

\* What the invariant says, part by part.
LEMMA InvFacts ==
  ASSUME IndInv
  PROVE  /\ static \in Settings /\ Holds(m_hypos, hypo, arcs) /\ IsOffer(bestOf)
         /\ Kept(static, m_hypos, hypo, m_worstScore, m_diversityWorstScore, m_bestScore)
         /\ Remembered(static, m_hypos, hypo, m_bestScore, bestOf)
         /\ m_bestScore \in Int
         /\ BestOffered = m_bestScore
<1>1. /\ static \in Settings /\ Holds(m_hypos, hypo, arcs)
      /\ Kept(static, m_hypos, hypo, m_worstScore, m_diversityWorstScore, m_bestScore)
      /\ Remembered(static, m_hypos, hypo, m_bestScore, bestOf)
  BY DEF IndInv
<1>2. m_bestScore \in Int
  BY <1>1, KeptIs
<1>3. /\ IsOffer(bestOf) /\ \A c \in Classes : bestOf[c] <= m_bestScore
      /\ \E c \in Classes : bestOf[c] = m_bestScore
  BY <1>1 DEF Remembered
<1> QED BY <1>1, <1>2, <1>3, BestOfferedIs

\* The places that the diversity asks for.
LEMMA DiversePlaces ==
  ASSUME IndInv
  PROVE  /\ Room({}) = Places(static, Off(bestOf), Hb(bestOf), m_bestScore + 1)
         /\ Cardinality(Room({})) \in Nat
<1> DEFINE w == m_bestScore + 1
<1>1. /\ static \in Settings /\ IsOffer(bestOf) /\ m_bestScore \in Int
      /\ \A c \in Classes : bestOf[c] <= m_bestScore
  BY InvFacts DEF Remembered
<1>2. /\ Stacked(Off(bestOf), Hb(bestOf))
      /\ \A c \in Classes : Hb(bestOf)[c].score = bestOf[c] /\ bestOf[c] \in Int
  BY <1>1, OffIs
<1>3. {} = AtW(Off(bestOf), Hb(bestOf), w)
  <2>1. ASSUME NEW c \in Off(bestOf) PROVE ~(Hb(bestOf)[c].score >= w)
    <3>1. c \in Classes
      BY DEF Off
    <3> QED BY <1>1, <1>2, <3>1
  <2> QED BY <2>1 DEF AtW
<1> HIDE DEF w
<1>4. Room({}) = Places(static, Off(bestOf), Hb(bestOf), w)
  BY <1>1, <1>3, RoomIs
<1>5. Cardinality(Room({})) \in Nat
  BY <1>1, <1>2, <1>4, PlacesFinite
<1> QED BY <1>4, <1>5 DEF w

\* What is on the stack takes no more places than what was offered.
LEMMA RoomFits ==
  ASSUME IndInv, FitsNow, static.size > 0
  PROVE  /\ Cardinality(m_hypos) \in Nat
         /\ Cardinality(m_hypos) <= static.size \/ Cardinality(m_hypos) <= Cardinality(Room({}))
<1> DEFINE w == m_bestScore + 1
<1>1. /\ static \in Settings /\ IsOffer(bestOf) /\ m_bestScore \in Int
      /\ Kept(static, m_hypos, hypo, m_worstScore, m_diversityWorstScore, m_bestScore)
      /\ \A a \in m_hypos : hypo[a].score <= bestOf[hypo[a].class]
  BY InvFacts DEF Remembered
<1>2. Better([a \in m_hypos |-> hypo[a].class], m_hypos, hypo, Off(bestOf), Hb(bestOf))
  BY <1>1, StackBelowOffer
<1>3. Stacked(m_hypos, hypo) /\ Stacked(Off(bestOf), Hb(bestOf))
  BY <1>1, KeptIs, OffIs
<1>4. w \in Int /\ w <= w
  BY <1>1
<1>5. Room({}) = Places(static, Off(bestOf), Hb(bestOf), w) /\ Cardinality(Room({})) \in Nat
  BY DiversePlaces
<1>6. \/ Cardinality(m_hypos) <= static.size
      \/ Cardinality(m_hypos) <= Cardinality(Places(static, m_hypos, hypo, w))
  BY DEF FitsNow, Fits
<1> HIDE DEF w
<1>7. Cardinality(Places(static, m_hypos, hypo, w)) <= Cardinality(Room({}))
  BY <1>1, <1>2, <1>3, <1>4, <1>5, PlacesBetter
<1>8. Cardinality(Places(static, m_hypos, hypo, w)) \in Nat
  BY <1>1, <1>3, PlacesFinite
<1>9. Cardinality(m_hypos) \in Nat
  BY <1>3, FS_CardinalityType DEF Stacked
<1> QED BY <1>5, <1>6, <1>7, <1>8, <1>9

\* All that must survive is remembered.
LEMMA MustSurviveIs ==
  ASSUME IndInv
  PROVE  MustSurvive = Must(static, bestOf, m_bestScore)
<1>1. static \in Settings /\ IsOffer(bestOf) /\ BestOffered = m_bestScore
  BY InvFacts
<1>2. /\ Offered = Off(bestOf) /\ Offered \subseteq Classes
      /\ \A c \in Classes : AtLeast(Offered, c) = AtW(Off(bestOf), Hb(bestOf), bestOf[c])
      /\ \A c \in Classes : AtLeast(OnCov(c[1]), c)
           = OnV(AtW(Off(bestOf), Hb(bestOf), bestOf[c]), Hb(bestOf), c[1])
  BY <1>1, OfferedIs DEF Off
<1>3. ASSUME NEW c \in Classes
      PROVE  /\ Room(AtLeast(Offered, c)) = Places(static, Off(bestOf), Hb(bestOf), bestOf[c])
             /\ Cardinality(AtLeast(OnCov(c[1]), c))
                  = Count(AtW(Off(bestOf), Hb(bestOf), bestOf[c]), Hb(bestOf), c[1])
  <2>1. Room(AtLeast(Offered, c)) = Places(static, Off(bestOf), Hb(bestOf), bestOf[c])
    BY <1>1, <1>2, RoomIs
  <2>2. Cardinality(AtLeast(OnCov(c[1]), c))
          = Count(AtW(Off(bestOf), Hb(bestOf), bestOf[c]), Hb(bestOf), c[1])
    BY <1>2 DEF Count
  <2> QED BY <2>1, <2>2
<1> QED BY <1>1, <1>2, <1>3 DEF MustSurvive, Must

\* Holds is what TypeOK and Owned ask for.
LEMMA OwnedIs ==
  ASSUME IndInv
  PROVE  TypeOK /\ Owned
<1>1. /\ hypo \in [Addresses -> [class : Classes, score : Scores] \cup {Free}]
      /\ arcs \in [Addresses -> SUBSET Addresses]
      /\ m_hypos \subseteq Addresses
      /\ \A a \in m_hypos : hypo[a] # Free
      /\ \A w \in Addresses : \A a \in arcs[w] :
           /\ w \in m_hypos /\ a \notin m_hypos /\ hypo[a] # Free
           /\ hypo[a].class = hypo[w].class /\ hypo[a].score <= hypo[w].score
      /\ \A a \in Addresses \ m_hypos : hypo[a] # Free => \E w \in Addresses : a \in arcs[w]
      /\ \A v, w \in Addresses : \A a \in arcs[v] : a \in arcs[w] => v = w
  BY DEF IndInv, Holds
<1>2. TypeOK
  BY <1>1 DEF TypeOK, IndInv, Kept
<1> DEFINE InArcs == UNION {arcs[w] : w \in Addresses}
<1>3. \A a : a \in InArcs <=> \E w \in Addresses : a \in arcs[w]
  OBVIOUS
<1> HIDE DEF InArcs
<1>4. m_hypos \cap InArcs = {}
  BY <1>1, <1>3
<1>5. m_hypos \cup InArcs = {a \in Addresses : hypo[a] # Free}
  BY <1>1, <1>3
<1>6. \A v, w \in Addresses : v # w => arcs[v] \cap arcs[w] = {}
  BY <1>1
<1>7. \A w \in Addresses : arcs[w] # {} => w \in m_hypos
  BY <1>1
<1>8. \A w \in m_hypos : \A a \in arcs[w] :
        hypo[a].class = hypo[w].class /\ hypo[a].score <= hypo[w].score
  BY <1>1
<1>9. Owned
  BY <1>4, <1>5, <1>6, <1>7, <1>8 DEF Owned, InArcs
<1> QED BY <1>2, <1>9

\* The invariant implies the properties.
LEMMA InvStack == IndInv => StackInv
<1> SUFFICES ASSUME IndInv PROVE StackInv
  OBVIOUS
<1>1. TypeOK /\ Owned
  BY OwnedIs
<1>2. \A a, b \in m_hypos : hypo[a].class = hypo[b].class => a = b
  BY InvFacts DEF Kept
<1>3. ASSUME static.size > 0
      PROVE  Cardinality(m_hypos) <= Max({ToleratedSize, Cardinality(Room({}))})
  <2>1. static \in Settings /\ Stacked(m_hypos, hypo)
    BY InvFacts, KeptIs
  <2>2. /\ static.size \in Nat /\ ToleratedSize \in Int /\ static.size <= ToleratedSize
        /\ Cardinality(m_hypos) \in Nat
    <3>1. Cardinality(m_hypos) \in Nat
      BY <2>1, FS_CardinalityType DEF Stacked
    <3>2. /\ static.size \in Nat /\ static.diversity \in Nat /\ DiversityRoom \in Nat
          /\ static.diversity * DiversityRoom \in Nat
      BY <2>1, SettingIs, StackAssumption
    <3>3. ToleratedSize = 2 * static.size - 1 + static.diversity * DiversityRoom
      BY DEF ToleratedSize
    <3> HIDE DEF ToleratedSize
    <3> DEFINE d == static.diversity * DiversityRoom
    <3>4. ToleratedSize = 2 * static.size - 1 + d /\ d \in Nat
      BY <3>2, <3>3
    <3> HIDE DEF d
    <3> QED BY <1>3, <3>1, <3>2, <3>4
  <2>3. Cardinality(Room({})) \in Nat
    BY DiversePlaces
  <2>4. \/ Cardinality(m_hypos) <= ToleratedSize
        \/ Cardinality(m_hypos) <= Cardinality(Room({}))
    <3>1. CASE FitsNow
      BY <1>3, <2>2, <3>1, RoomFits
    <3>2. CASE ~FitsNow
      BY <3>2 DEF IndInv
    <3> QED BY <3>1, <3>2
  <2>5. Max({ToleratedSize, Cardinality(Room({}))})
          = IF ToleratedSize >= Cardinality(Room({})) THEN ToleratedSize ELSE Cardinality(Room({}))
    BY <2>2, <2>3, MaxPair
  <2> QED BY <2>2, <2>3, <2>4, <2>5
<1> QED BY <1>1, <1>2, <1>3 DEF StackInv

\* What must survive is remembered, and when the stack is expanded it fits.
LEMMA InvNothingLost == IndInv => NothingGoodLost
<1> SUFFICES ASSUME IndInv, expanded PROVE NothingGoodLost
  BY DEF NothingGoodLost
<1>1. FitsNow
  BY DEF IndInv
<1>2. \A c \in MustSurvive : \E a \in m_hypos : hypo[a].class = c /\ hypo[a].score = bestOf[c]
  BY MustSurviveIs, InvFacts DEF Remembered
<1>3. ASSUME static.size > 0
      PROVE  Cardinality(m_hypos) <= Max({static.size, Cardinality(Room({}))})
  <2>1. /\ Cardinality(m_hypos) \in Nat /\ Cardinality(Room({})) \in Nat
        /\ Cardinality(m_hypos) <= static.size \/ Cardinality(m_hypos) <= Cardinality(Room({}))
    BY <1>1, <1>3, RoomFits, DiversePlaces
  <2>2. static.size \in Int
    BY InvFacts, SettingIs
  <2>3. Max({static.size, Cardinality(Room({}))})
          = IF static.size >= Cardinality(Room({})) THEN static.size ELSE Cardinality(Room({}))
    BY <2>1, <2>2, MaxPair
  <2> QED BY <2>1, <2>2, <2>3
<1> QED BY <1>2, <1>3 DEF NothingGoodLost

\* The best score is that of a hypothesis on the stack.
LEMMA InvBestKept == IndInv => BestKept
<1> SUFFICES ASSUME IndInv PROVE BestKept
  OBVIOUS
<1>1. m_bestScore = BestOffered
  BY InvFacts
<1>2. ASSUME Offered # {} PROVE \E a \in m_hypos : hypo[a].score = m_bestScore
  <2>1. PICK c \in Classes : bestOf[c] # LogZero
    BY <1>2 DEF Offered
  <2>2. /\ IsOffer(bestOf) /\ bestOf[c] <= m_bestScore /\ m_bestScore \in Int
        /\ m_bestScore # LogZero => \E a \in m_hypos : hypo[a].score = m_bestScore
    BY InvFacts DEF Remembered, Kept
  <2>3. bestOf[c] \in Int /\ LogZero < bestOf[c] /\ LogZero \in Int
    BY <2>1, <2>2, OffIs, NumbersAre
  <2> QED BY <2>2, <2>3
<1> QED BY <1>1, <1>2 DEF BestKept

\* StackInv: no two hypotheses of the stack are equal, each one that exists is on it or in one
\* arc list, and it grows no further than the tolerated size or the diversity allow.
THEOREM StackSound == Spec => []StackInv
BY IndInvHolds, InvStack, PTL

\* NothingGoodLost: lazy pruning and early discarding lose nothing that one pruning of all that
\* was offered would have kept whatever the order of equals.
THEOREM PruningIsSafe == Spec => []NothingGoodLost
BY IndInvHolds, InvNothingLost, PTL

\* BestKept: the best score is that of a hypothesis on the stack, at all times.
THEOREM BestIsKept == Spec => []BestKept
BY IndInvHolds, InvBestKept, PTL

\* LimitsRise: the limits for early discarding never fall, nor pass the best score.
THEOREM LimitsOnlyRise == Spec => LimitsRise
<1> DEFINE A == /\ m_worstScore' >= m_worstScore /\ m_worstScore' <= m_bestScore'
                /\ \A v \in Coverages : m_diversityWorstScore'[v] >= m_diversityWorstScore[v]
<1>1. IndInv /\ [Next]_vars => [A]_vars
  <2> SUFFICES ASSUME IndInv, Next PROVE A
    OBVIOUS
  <2>1. IndInv' /\ Rises
    <3>1. CASE Expand
      BY <3>1, ExpandStep
    <3>2. ASSUME NEW c \in Classes, NEW s \in Scores \cup {LogZero}, AddPrune(c, s)
          PROVE  IndInv' /\ Rises
      BY <3>2, AddPruneStep
    <3> QED BY <3>1, <3>2 DEF Next
  <2>2. m_worstScore' <= m_bestScore'
    BY <2>1 DEF IndInv, Kept
  <2> QED BY <2>1, <2>2 DEF Rises
<1>2. Spec => [][A]_vars
  BY <1>1, IndInvHolds, PTL DEF Spec
<1> QED BY <1>2 DEF LimitsRise
=============================================================================
