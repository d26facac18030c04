-------------------------------- MODULE Sums --------------------------------
(***************************************************************************)
(* Sums over finite sets, for the theorems about amounts: what the fold of *)
(* the library returns, whichever element it takes first.                  *)
(*                                                                         *)
(* Induction is by sets.  A set T of parts of S that has every part whose  *)
(* own parts it has has all of them, as strict inclusion is well founded.  *)
(***************************************************************************)
EXTENDS FiniteSetsExt, FiniteSetTheorems, TLAPS

SumOf(f, S) == MapThenSumSet(LAMBDA x : f[x], S)

\* The sets of a family, together.
Together(B, I) == UNION {B[i] : i \in I}

\* The element the fold takes next.
AnyOf(s) == CHOOSE x \in s : TRUE

\* The function the fold is defined by, and what it says of each part of S.
Accumulator(g, f, S) == g = [s \in SUBSET S |-> IF s = {} THEN 0 ELSE f[AnyOf(s)] + g[s \ {AnyOf(s)}]]
Accumulates(g, f, S) == \A s \in SUBSET S : g[s] = IF s = {} THEN 0 ELSE f[AnyOf(s)] + g[s \ {AnyOf(s)}]

-----------------------------------------------------------------------------
(* Induction.                                                               *)

\* What every part of S has that has it whenever its strict parts do.
LEMMA ByRemoval ==
    ASSUME NEW S, IsFiniteSet(S), NEW T, {} \in T,
           \A X \in SUBSET S : (\A Y \in SUBSET X : Y # X => Y \in T) => X \in T
    PROVE  SUBSET S \subseteq T
<1> SUFFICES ASSUME (SUBSET S) \ T # {} PROVE FALSE
  OBVIOUS
<1> DEFINE R == StrictSubsetOrdering(S)
           B == (SUBSET S) \ T
<1>1. FiniteSubsetsOf(S) = SUBSET S
  BY FS_FiniteSubsetsOfFinite
<1>2. IsWellFoundedOn(R, SUBSET S)
  <2>1. IsWellFoundedOn(StrictSubsetOrdering(S), FiniteSubsetsOf(S))
    BY FS_StrictSubsetOrderingWellFounded
  <2> QED
    BY <1>1, <2>1
<1>3. B \subseteq SUBSET S /\ B # {}
  OBVIOUS
<1> HIDE DEF R, B
<1>4. PICK X \in B : \A Y \in B : ~ (<<Y, X>> \in R)
  BY <1>2, <1>3, WFMin
<1>5. \A Y \in SUBSET X : Y # X => Y \in T
  BY <1>3, <1>4 DEF R, B, StrictSubsetOrdering
<1> QED
  BY <1>4, <1>5 DEF B

\* What the empty set has, and every part of S keeps when an element is added.
LEMMA ByElement ==
    ASSUME NEW S, IsFiniteSet(S), NEW T, {} \in T,
           \A X \in SUBSET S : \A x \in X : X \ {x} \in T => X \in T
    PROVE  S \in T
<1>1. ASSUME NEW X \in SUBSET S, \A Y \in SUBSET X : Y # X => Y \in T PROVE X \in T
  <2>1. CASE X = {}
    BY <2>1
  <2>2. CASE X # {}
    <3>1. PICK x \in X : TRUE
      BY <2>2
    <3>2. X \ {x} \in T
      BY <1>1
    <3> QED
      BY <3>1, <3>2
  <2> QED
    BY <2>1, <2>2
<1>2. SUBSET S \subseteq T
  BY <1>1, ByRemoval
<1> QED
  BY <1>2

-----------------------------------------------------------------------------
(* The fold is well defined.                                               *)

\* A set that is not empty has an element to take.
LEMMA AnyIn == \A s : s # {} => AnyOf(s) \in s
  BY DEF AnyOf

\* Two accumulators of the same terms agree.
LEMMA AccumulatesOnce ==
    ASSUME NEW S, IsFiniteSet(S), NEW f, NEW g, NEW h, Accumulates(g, f, S), Accumulates(h, f, S)
    PROVE  \A s \in SUBSET S : g[s] = h[s]
<1> DEFINE T == {s \in SUBSET S : g[s] = h[s]}
<1>1. {} \in T
  BY DEF Accumulates
<1>2. ASSUME NEW X \in SUBSET S, \A Y \in SUBSET X : Y # X => Y \in T PROVE X \in T
  <2>1. CASE X = {}
    BY <1>1, <2>1
  <2>2. CASE X # {}
    <3>1. AnyOf(X) \in X
      BY <2>2, AnyIn
    <3>2. X \ {AnyOf(X)} \in T
      BY <1>2, <3>1
    <3> QED
      BY <2>2, <3>2 DEF Accumulates
  <2> QED
    BY <2>1, <2>2
<1>3. SUBSET S \subseteq T
  <2> HIDE DEF T
  <2> QED
    BY <1>1, <1>2, ByRemoval
<1> QED
  BY <1>3

\* There is one: the sums of the strict parts, each from its own, make up that of the whole.
LEMMA SomeAccumulates ==
    ASSUME NEW S, IsFiniteSet(S), NEW f
    PROVE  \E g : Accumulator(g, f, S)
<1> DEFINE Is(g, X) == g = [s \in SUBSET X |-> IF s = {} THEN 0 ELSE f[AnyOf(s)] + g[s \ {AnyOf(s)}]]
           T == {X \in SUBSET S : \E g : Is(g, X)}
<1>1. \A g, X : Is(g, X) => Accumulates(g, f, X)
  BY DEF Accumulates
<1>2. {} \in T
  <2> DEFINE z == [s \in SUBSET {} |-> 0]
  <2>1. Is(z, {})
    OBVIOUS
  <2> QED
    BY <2>1
<1>3. ASSUME NEW X \in SUBSET S, \A Y \in SUBSET X : Y # X => Y \in T PROVE X \in T
  <2>1. CASE X = {}
    BY <1>2, <2>1
  <2>2. CASE X # {}
    <3> DEFINE at(Y) == CHOOSE g : Is(g, Y)
               val(Y) == IF Y = {} THEN 0 ELSE f[AnyOf(Y)] + at(Y \ {AnyOf(Y)})[Y \ {AnyOf(Y)}]
               h == [Y \in SUBSET X |-> val(Y)]
    <3>1. \A Y \in SUBSET X : Y # X => Is(at(Y), Y)
      <4> HIDE DEF Is
      <4> QED
        BY <1>3
    <3>2. ASSUME NEW Y \in SUBSET X, Y # {} PROVE h[Y] = f[AnyOf(Y)] + h[Y \ {AnyOf(Y)}]
      <4> DEFINE Z == Y \ {AnyOf(Y)}
      <4>1. AnyOf(Y) \in Y /\ Z \in SUBSET X /\ Z # X
        BY <3>2, AnyIn
      <4>2. Is(at(Z), Z)
        BY <3>1, <4>1
      <4>3. at(Z)[Z] = val(Z)
        <5>1. CASE Z = {}
          <6> HIDE DEF at
          <6> QED
            BY <4>2, <5>1
        <5>2. CASE Z # {}
          <6> DEFINE W == Z \ {AnyOf(Z)}
          <6>1. AnyOf(Z) \in Z /\ W \in SUBSET Z /\ W # X /\ W \in SUBSET X
            BY <5>2, <4>1, AnyIn
          <6>2. Is(at(W), W)
            BY <3>1, <6>1
          <6>3. Accumulates(at(Z), f, Z) /\ Accumulates(at(W), f, W)
            <7> HIDE DEF at, Is, Z, W
            <7> QED
              BY <1>1, <4>2, <6>2
          <6>4. Accumulates(at(Z), f, W)
            <7> HIDE DEF at, Z, W
            <7> QED
              BY <6>1, <6>3 DEF Accumulates
          <6>5. IsFiniteSet(W)
            BY <6>1, FS_Subset
          <6>6. at(Z)[W] = at(W)[W]
            <7> HIDE DEF at, Z, W
            <7> QED
              BY <6>3, <6>4, <6>5, AccumulatesOnce
          <6>7. at(Z)[Z] = f[AnyOf(Z)] + at(Z)[W]
            <7> HIDE DEF at
            <7> QED
              BY <5>2, <6>3 DEF Accumulates
          <6> QED
            BY <5>2, <6>6, <6>7
        <5> QED
          BY <5>1, <5>2
      <4>4. h[Z] = val(Z)
        BY <4>1
      <4> QED
        BY <3>2, <4>3, <4>4
    <3>3. Is(h, X)
      <4>1. h = [s \in SUBSET X |-> h[s]] /\ (\A s \in SUBSET X : s = {} => h[s] = 0)
        OBVIOUS
      <4> HIDE DEF h
      <4> QED
        BY <3>2, <4>1
    <3> QED
      BY <3>3
  <2> QED
    BY <2>1, <2>2
<1>4. SUBSET S \subseteq T
  <2> HIDE DEF T
  <2> QED
    BY <1>2, <1>3, ByRemoval
<1>5. \E g : Is(g, S)
  <2> HIDE DEF Is
  <2> QED
    BY <1>4
<1> QED
  BY <1>5 DEF Accumulator

\* The fold is what any accumulator says it is.
LEMMA SumAccumulated ==
    ASSUME NEW S, IsFiniteSet(S), NEW f, NEW g, Accumulates(g, f, S)
    PROVE  SumOf(f, S) = g[S]
<1> DEFINE it == CHOOSE h : Accumulator(h, f, S)
<1>1. Accumulator(it, f, S)
  BY SomeAccumulates
<1>2. SumOf(f, S) = it[S]
  BY DEF SumOf, MapThenSumSet, MapThenFoldSet, AnyOf, Accumulator
<1>3. Accumulates(it, f, S)
  <2> HIDE DEF it
  <2> QED
    BY <1>1 DEF Accumulates, Accumulator
<1> QED
  <2> HIDE DEF it
  <2> QED
    BY <1>2, <1>3, AccumulatesOnce

-----------------------------------------------------------------------------
(* What sums do.                                                            *)

\* Nothing adds up to 0.
LEMMA SumEmpty == \A f : SumOf(f, {}) = 0
<1> SUFFICES ASSUME NEW f PROVE SumOf(f, {}) = 0
  OBVIOUS
<1>1. IsFiniteSet({})
  BY FS_EmptySet
<1>2. PICK g : Accumulator(g, f, {})
  BY <1>1, SomeAccumulates
<1>3. Accumulates(g, f, {})
  BY <1>2 DEF Accumulator, Accumulates
<1> QED
  BY <1>1, <1>3, SumAccumulated DEF Accumulates

\* The fold takes an element and goes on.
LEMMA SumAny ==
    ASSUME NEW S, IsFiniteSet(S), NEW f, S # {}
    PROVE  SumOf(f, S) = f[AnyOf(S)] + SumOf(f, S \ {AnyOf(S)})
<1> DEFINE R == S \ {AnyOf(S)}
<1>1. PICK g : Accumulator(g, f, S)
  BY SomeAccumulates
<1>2. Accumulates(g, f, S)
  BY <1>1 DEF Accumulator, Accumulates
<1>3. R \in SUBSET S /\ IsFiniteSet(R)
  BY FS_Subset
<1>4. Accumulates(g, f, R)
  BY <1>2, <1>3 DEF Accumulates
<1>5. SumOf(f, S) = g[S] /\ SumOf(f, R) = g[R]
  <2> HIDE DEF R
  <2> QED
    BY <1>2, <1>3, <1>4, SumAccumulated
<1> QED
  BY <1>2, <1>5 DEF Accumulates

\* One term is its own sum.
LEMMA SumOne == \A f, x : f[x] \in Int => SumOf(f, {x}) = f[x]
<1> SUFFICES ASSUME NEW f, NEW x, f[x] \in Int PROVE SumOf(f, {x}) = f[x]
  OBVIOUS
<1>1. IsFiniteSet({x}) /\ {x} # {}
  BY FS_Singleton
<1>2. AnyOf({x}) = x
  BY AnyIn
<1>3. SumOf(f, {x}) = f[x] + SumOf(f, {})
  BY <1>1, <1>2, SumAny
<1> QED
  BY <1>3, SumEmpty

\* The integers a sum takes, and that it does not matter which element is taken out first.
LEMMA SumTakes ==
    ASSUME NEW S, IsFiniteSet(S), NEW f, \A x \in S : f[x] \in Int
    PROVE  /\ SumOf(f, S) \in Int
           /\ \A x \in S : SumOf(f, S) = f[x] + SumOf(f, S \ {x})
<1> DEFINE Takes(X) == /\ SumOf(f, X) \in Int
                       /\ \A x \in X : SumOf(f, X) = f[x] + SumOf(f, X \ {x})
           T == {X \in SUBSET S : Takes(X)}
<1>1. {} \in T
  BY SumEmpty
<1>2. ASSUME NEW X \in SUBSET S, \A Y \in SUBSET X : Y # X => Y \in T PROVE X \in T
  <2>1. CASE X = {}
    BY <1>1, <2>1
  <2>2. CASE X # {}
    <3> DEFINE a == AnyOf(X)
    <3>1. a \in X /\ IsFiniteSet(X)
      BY <2>2, AnyIn, FS_Subset
    <3>2. SumOf(f, X) = f[a] + SumOf(f, X \ {a})
      BY <2>2, <3>1, SumAny
    <3> HIDE DEF a
    <3>3. X \ {a} \in T
      BY <1>2, <3>1
    <3>4. SumOf(f, X) \in Int
      BY <3>1, <3>2, <3>3
    <3>5. ASSUME NEW x \in X, x # a PROVE SumOf(f, X) = f[x] + SumOf(f, X \ {x})
      <4> DEFINE Z == (X \ {a}) \ {x}
      <4>1. SumOf(f, X \ {a}) = f[x] + SumOf(f, Z)
        BY <3>3, <3>5
      <4>2. X \ {x} \in T /\ a \in X \ {x} /\ (X \ {x}) \ {a} = Z
        BY <1>2, <3>1, <3>5
      <4>3. SumOf(f, X \ {x}) = f[a] + SumOf(f, Z)
        <5> HIDE DEF Z
        <5> QED
          BY <4>2
      <4>4. Z \in T
        <5>1. Z \in SUBSET X /\ Z # X
          BY <3>1
        <5> HIDE DEF Z, T
        <5> QED
          BY <1>2, <5>1
      <4>5. SumOf(f, Z) \in Int /\ f[a] \in Int /\ f[x] \in Int
        BY <3>1, <3>5, <4>4
      <4> HIDE DEF Z
      <4> QED
        BY <3>2, <4>1, <4>3, <4>5
    <3> QED
      BY <3>2, <3>4, <3>5
  <2> QED
    BY <2>1, <2>2
<1>3. SUBSET S \subseteq T
  <2> HIDE DEF T
  <2> QED
    BY <1>1, <1>2, ByRemoval
<1> QED
  BY <1>3

\* A sum of natural numbers is one.
LEMMA SumNat ==
    ASSUME NEW S, IsFiniteSet(S), NEW f, \A x \in S : f[x] \in Nat
    PROVE  /\ SumOf(f, S) \in Nat
           /\ \A x \in S : SumOf(f, S) = f[x] + SumOf(f, S \ {x})
<1> DEFINE T == {X \in SUBSET S : SumOf(f, X) \in Nat}
<1>1. {} \in T
  BY SumEmpty
<1>2. ASSUME NEW X \in SUBSET S, NEW x \in X, X \ {x} \in T PROVE X \in T
  <2>1. IsFiniteSet(X) /\ \A y \in X : f[y] \in Int
    BY FS_Subset
  <2>2. SumOf(f, X) = f[x] + SumOf(f, X \ {x})
    BY <2>1, SumTakes
  <2> QED
    BY <1>2, <2>2
<1>3. S \in T
  <2> HIDE DEF T
  <2> QED
    BY <1>1, <1>2, ByElement
<1> QED
  BY <1>3, SumTakes

\* Part of a sum of natural numbers is not larger than the whole.
LEMMA SumPart ==
    ASSUME NEW S, IsFiniteSet(S), NEW f, \A x \in S : f[x] \in Nat, NEW R \in SUBSET S
    PROVE  SumOf(f, R) \in Nat /\ SumOf(f, R) <= SumOf(f, S)
<1> DEFINE T == {X \in SUBSET S : SumOf(f, X \cap R) <= SumOf(f, X)}
<1>1. {} \in T
  BY SumEmpty
<1>2. ASSUME NEW X \in SUBSET S, NEW x \in X, X \ {x} \in T PROVE X \in T
  <2>1. IsFiniteSet(X) /\ (\A y \in X : f[y] \in Nat) /\ IsFiniteSet(X \cap R) /\ (\A y \in X \cap R : f[y] \in Nat)
    BY FS_Subset
  <2>2. SumOf(f, X) = f[x] + SumOf(f, X \ {x}) /\ IsFiniteSet(X \ {x})
    BY <2>1, SumNat, FS_Subset
  <2>3. SumOf(f, X \ {x}) \in Nat /\ SumOf(f, (X \ {x}) \cap R) \in Nat /\ f[x] \in Nat
    BY <2>1, <2>2, SumNat, FS_Subset
  <2>4. SumOf(f, (X \ {x}) \cap R) <= SumOf(f, X \ {x})
    BY <1>2
  <2>5. SumOf(f, X \cap R) \in {SumOf(f, (X \ {x}) \cap R), f[x] + SumOf(f, (X \ {x}) \cap R)}
    <3>1. CASE x \in R
      <4>1. SumOf(f, X \cap R) = f[x] + SumOf(f, (X \cap R) \ {x}) /\ (X \cap R) \ {x} = (X \ {x}) \cap R
        BY <2>1, <3>1, SumNat
      <4> QED
        BY <4>1
    <3>2. CASE x \notin R
      <4>1. X \cap R = (X \ {x}) \cap R
        BY <3>2
      <4> QED
        BY <4>1
    <3> QED
      BY <3>1, <3>2
  <2>6. SumOf(f, X \cap R) <= SumOf(f, X)
    BY <2>2, <2>3, <2>4, <2>5
  <2> QED
    BY <2>6
<1>3. S \in T
  <2> HIDE DEF T
  <2> QED
    BY <1>1, <1>2, ByElement
<1>4. S \cap R = R /\ IsFiniteSet(R)
  BY FS_Subset
<1> QED
  BY <1>3, <1>4, SumNat

\* A sum in which no term is smaller is not smaller, and depends on the terms only.
LEMMA SumAtMost ==
    ASSUME NEW S, IsFiniteSet(S), NEW f, NEW g,
           \A x \in S : f[x] \in Int /\ g[x] \in Int /\ f[x] <= g[x]
    PROVE  SumOf(f, S) <= SumOf(g, S)
<1> DEFINE T == {X \in SUBSET S : SumOf(f, X) <= SumOf(g, X)}
<1>1. {} \in T
  BY SumEmpty
<1>2. ASSUME NEW X \in SUBSET S, NEW x \in X, X \ {x} \in T PROVE X \in T
  <2>1. IsFiniteSet(X) /\ IsFiniteSet(X \ {x})
    BY FS_Subset
  <2>2. SumOf(f, X) = f[x] + SumOf(f, X \ {x}) /\ SumOf(f, X \ {x}) \in Int
    BY <2>1, SumTakes
  <2>3. SumOf(g, X) = g[x] + SumOf(g, X \ {x}) /\ SumOf(g, X \ {x}) \in Int
    BY <2>1, SumTakes
  <2> QED
    BY <1>2, <2>2, <2>3
<1>3. S \in T
  <2> HIDE DEF T
  <2> QED
    BY <1>1, <1>2, ByElement
<1> QED
  BY <1>3

LEMMA SumSame ==
    ASSUME NEW S, IsFiniteSet(S), NEW f, NEW g, \A x \in S : f[x] \in Int /\ f[x] = g[x]
    PROVE  SumOf(f, S) = SumOf(g, S)
<1>1. SumOf(f, S) <= SumOf(g, S) /\ SumOf(g, S) <= SumOf(f, S)
  BY SumAtMost
<1>2. SumOf(f, S) \in Int /\ SumOf(g, S) \in Int
  BY SumTakes
<1> QED
  BY <1>1, <1>2

\* A factor of every term is one of the sum.
LEMMA SumTimes ==
    ASSUME NEW S, IsFiniteSet(S), NEW k \in Int, NEW f, NEW g,
           \A x \in S : f[x] \in Int /\ g[x] = k * f[x]
    PROVE  SumOf(g, S) = k * SumOf(f, S)
<1> DEFINE T == {X \in SUBSET S : SumOf(g, X) = k * SumOf(f, X)}
<1>1. {} \in T
  BY SumEmpty
<1>2. ASSUME NEW X \in SUBSET S, NEW x \in X, X \ {x} \in T PROVE X \in T
  <2>1. IsFiniteSet(X) /\ IsFiniteSet(X \ {x}) /\ \A y \in X : g[y] \in Int
    BY FS_Subset
  <2>2. SumOf(f, X) = f[x] + SumOf(f, X \ {x}) /\ SumOf(f, X \ {x}) \in Int /\ f[x] \in Int
    BY <2>1, SumTakes
  <2>3. SumOf(g, X) = k * f[x] + k * SumOf(f, X \ {x})
    BY <1>2, <2>1, SumTakes
  <2>4. \A a, b \in Int : k * (a + b) = k * a + k * b
    OBVIOUS
  <2> QED
    BY <2>2, <2>3, <2>4
<1>3. S \in T
  <2> HIDE DEF T
  <2> QED
    BY <1>1, <1>2, ByElement
<1> QED
  BY <1>3

\* A set is a part of it and the rest.
LEMMA SumParts ==
    ASSUME NEW S, IsFiniteSet(S), NEW f, \A x \in S : f[x] \in Nat, NEW R \in SUBSET S
    PROVE  SumOf(f, S) = SumOf(f, R) + SumOf(f, S \ R)
<1> DEFINE T == {X \in SUBSET S : SumOf(f, X) = SumOf(f, X \cap R) + SumOf(f, X \ R)}
<1>1. {} \in T
  BY SumEmpty
<1>2. ASSUME NEW X \in SUBSET S, NEW x \in X, X \ {x} \in T PROVE X \in T
  <2> DEFINE Y == X \ {x}
  <2>1. /\ IsFiniteSet(X) /\ \A y \in X : f[y] \in Nat
        /\ IsFiniteSet(X \cap R) /\ IsFiniteSet(X \ R) /\ IsFiniteSet(Y \cap R) /\ IsFiniteSet(Y \ R)
    BY FS_Subset
  <2>2. SumOf(f, X) = f[x] + SumOf(f, Y)
    BY <2>1, SumNat
  <2>3. SumOf(f, Y) = SumOf(f, Y \cap R) + SumOf(f, Y \ R)
    BY <1>2
  <2>4. f[x] \in Nat /\ SumOf(f, Y \cap R) \in Nat /\ SumOf(f, Y \ R) \in Nat
    BY <2>1, SumNat
  <2>5. CASE x \in R
    <3>1. (X \cap R) \ {x} = Y \cap R /\ X \ R = Y \ R
      BY <2>5
    <3>2. /\ SumOf(f, X \cap R) = f[x] + SumOf(f, Y \cap R)
          /\ SumOf(f, X \ R) = SumOf(f, Y \ R)
      <4>1. SumOf(f, X \cap R) = f[x] + SumOf(f, (X \cap R) \ {x})
        BY <2>1, <2>5, SumNat
      <4> HIDE DEF Y
      <4> QED
        BY <3>1, <4>1, Zenon
    <3>3. SumOf(f, X) = SumOf(f, X \cap R) + SumOf(f, X \ R)
      <4> HIDE DEF Y
      <4> QED
        BY <2>2, <2>3, <2>4, <3>2
    <3> QED
      BY <3>3
  <2>6. CASE x \notin R
    <3>1. (X \ R) \ {x} = Y \ R /\ X \cap R = Y \cap R
      BY <2>6
    <3>2. /\ SumOf(f, X \ R) = f[x] + SumOf(f, Y \ R)
          /\ SumOf(f, X \cap R) = SumOf(f, Y \cap R)
      <4>1. SumOf(f, X \ R) = f[x] + SumOf(f, (X \ R) \ {x})
        BY <2>1, <2>6, SumNat
      <4> HIDE DEF Y
      <4> QED
        BY <3>1, <4>1, Zenon
    <3>3. SumOf(f, X) = SumOf(f, X \cap R) + SumOf(f, X \ R)
      <4> HIDE DEF Y
      <4> QED
        BY <2>2, <2>3, <2>4, <3>2
    <3> QED
      BY <3>3
  <2> QED
    BY <2>5, <2>6
<1>3. S \in T
  <2> HIDE DEF T
  <2> QED
    BY <1>1, <1>2, ByElement
<1>4. S \cap R = R
  OBVIOUS
<1> QED
  BY <1>3, <1>4

\* The sum over a family of sets is at most the sum of theirs, and no less where no two of them meet.
LEMMA SumFamily ==
    ASSUME NEW I, IsFiniteSet(I), NEW B, NEW f, NEW w,
           \A i \in I : IsFiniteSet(B[i]) /\ (\A x \in B[i] : f[x] \in Nat) /\ w[i] = SumOf(f, B[i])
    PROVE  /\ IsFiniteSet(Together(B, I))
           /\ SumOf(f, Together(B, I)) <= SumOf(w, I)
           /\ (\A i, j \in I : i # j => B[i] \cap B[j] = {}) => SumOf(f, Together(B, I)) = SumOf(w, I)
<1> DEFINE All(J) == Together(B, J)
           Split  == \A i, j \in I : i # j => B[i] \cap B[j] = {}
           T == {J \in SUBSET I : /\ IsFiniteSet(All(J)) /\ SumOf(f, All(J)) <= SumOf(w, J)
                                  /\ Split => SumOf(f, All(J)) = SumOf(w, J)}
<1>1. {} \in T
  <2>1. All({}) = {} /\ IsFiniteSet({})
    BY FS_EmptySet DEF Together
  <2> QED
    BY <2>1, SumEmpty
<1>2. ASSUME NEW J \in SUBSET I, NEW i \in J, J \ {i} \in T PROVE J \in T
  <2> DEFINE U == All(J \ {i})
  <2>1. All(J) = U \cup B[i] /\ B[i] \in SUBSET All(J) /\ All(J) \ B[i] = U \ B[i] /\ U \ B[i] \in SUBSET U
    BY DEF Together
  <2>2. IsFiniteSet(U) /\ IsFiniteSet(B[i]) /\ IsFiniteSet(All(J))
    <3>1. IsFiniteSet(U) /\ IsFiniteSet(B[i])
      BY <1>2
    <3>2. IsFiniteSet(U \cup B[i])
      <4> HIDE DEF U
      <4> QED
        BY <3>1, FS_Union
    <3> QED
      BY <2>1, <3>1, <3>2
  <2>3. \A x \in All(J) : f[x] \in Nat
    BY DEF Together
  <2>4. SumOf(f, All(J)) = SumOf(f, B[i]) + SumOf(f, U \ B[i])
    <3> HIDE DEF All, U
    <3> QED
      BY <2>1, <2>2, <2>3, SumParts
  <2>5. SumOf(f, U \ B[i]) \in Nat /\ SumOf(f, U \ B[i]) <= SumOf(f, U) /\ SumOf(f, U) \in Nat
    <3>1. \A x \in U : f[x] \in Nat
      BY <2>1, <2>3
    <3> HIDE DEF All, U
    <3> QED
      BY <2>1, <2>2, <3>1, SumPart, SumNat
  <2>6. SumOf(f, B[i]) \in Nat /\ w[i] = SumOf(f, B[i])
    BY SumNat
  <2>7. SumOf(w, J) = w[i] + SumOf(w, J \ {i}) /\ SumOf(w, J \ {i}) \in Nat
    <3>1. IsFiniteSet(J) /\ \A k \in J : w[k] \in Nat
      <4>1. \A k \in J : SumOf(f, B[k]) \in Nat
        BY SumNat
      <4> QED
        BY <4>1, FS_Subset
    <3>2. IsFiniteSet(J \ {i}) /\ \A k \in J \ {i} : w[k] \in Nat
      BY <3>1, FS_Subset
    <3> QED
      BY <3>1, <3>2, SumNat
  <2>8. SumOf(f, U) <= SumOf(w, J \ {i}) /\ (Split => SumOf(f, U) = SumOf(w, J \ {i}))
    BY <1>2
  <2>9. Split => U \ B[i] = U
    BY DEF Together
  <2>10. SumOf(f, All(J)) <= SumOf(w, J) /\ (Split => SumOf(f, All(J)) = SumOf(w, J))
    <3> HIDE DEF All, U, Split
    <3> QED
      BY <2>4, <2>5, <2>6, <2>7, <2>8, <2>9
  <2> QED
    BY <2>2, <2>10
<1>3. I \in T
  <2> HIDE DEF T
  <2> QED
    BY <1>1, <1>2, ByElement
<1> QED
  BY <1>3
=============================================================================
