-------------------------------- MODULE Sums --------------------------------
(***************************************************************************)
(* Sums over finite sets: the facts about SumFunctionOnSet that the proofs *)
(* about weights and money need.                                           *)
(*                                                                         *)
(* The library's induction over finite sets takes a predicate as an        *)
(* operator; SubsetInduction takes it as the set of the subsets of which   *)
(* it holds, and so can be cited.  It follows from the least-number        *)
(* principle, applied to the cardinality of a least counterexample.        *)
(***************************************************************************)
EXTENDS Integers, FiniteSets, Functions, FiniteSetTheorems, TLAPS

\* A non-empty set whose members have ranks has one of the least rank.
LEMMA LeastRank ==
  ASSUME NEW S, S # {}, NEW f \in [S -> Nat]
  PROVE  \E i \in S : \A j \in S : f[i] <= f[j]
<1> DEFINE R == {f[i] : i \in S}
<1>1. R \in SUBSET Nat /\ R # {}
  OBVIOUS
<1>2. PICK n \in R : \A m \in R : ~(<<m, n>> \in OpToRel(<, Nat))
  BY <1>1, NatLessThanWellFounded, WFMin
<1>3. PICK i \in S : f[i] = n
  BY <1>2
<1>4. \A j \in S : ~(f[j] < f[i])
  BY <1>1, <1>2, <1>3 DEF OpToRel
<1> QED
  BY <1>4

\* A set that holds 0, and with a number the next, holds them all.
LEMMA NumberInduction ==
  ASSUME NEW P, 0 \in P, \A n \in Nat : n \in P => n + 1 \in P
  PROVE  \A n \in Nat : n \in P
<1> SUFFICES ASSUME {n \in Nat : n \notin P} # {}
             PROVE  FALSE
  OBVIOUS
<1> DEFINE B == {n \in Nat : n \notin P}
           f == [n \in B |-> n]
<1>1. B # {} /\ f \in [B -> Nat]
  OBVIOUS
<1>2. PICK n \in B : \A m \in B : f[n] <= f[m]
  <2> HIDE DEF f, B
  <2> QED
    BY <1>1, LeastRank
<1>3. n \in Nat /\ n # 0 /\ n - 1 \in Nat /\ n - 1 \notin P
  OBVIOUS
<1>4. f[n - 1] = n - 1 /\ f[n] = n
  BY <1>3
<1> QED
  BY <1>2, <1>3, <1>4

\* A collection of subsets of a finite set that holds a set whenever it holds
\* those that lack one member of it holds them all.
LEMMA SubsetInduction ==
  ASSUME NEW S, IsFiniteSet(S), NEW P,
         \A T \in SUBSET S : (\A x \in T : T \ {x} \in P) => T \in P
  PROVE  \A T \in SUBSET S : T \in P
<1> SUFFICES ASSUME {T \in SUBSET S : T \notin P} # {}
             PROVE  FALSE
  OBVIOUS
<1> DEFINE B == {T \in SUBSET S : T \notin P}
           f == [T \in B |-> Cardinality(T)]
<1>1. \A T \in SUBSET S : IsFiniteSet(T) /\ Cardinality(T) \in Nat
  BY FS_Subset, FS_CardinalityType
<1>2. B # {} /\ f \in [B -> Nat]
  BY <1>1
<1>3. PICK T \in B : \A U \in B : f[T] <= f[U]
  <2> HIDE DEF f, B
  <2> QED
    BY <1>2, LeastRank
<1>4. PICK x \in T : T \ {x} \notin P
  OBVIOUS
<1>5. T \ {x} \in B
  BY <1>4
<1>6. Cardinality(T \ {x}) = Cardinality(T) - 1
  BY <1>1, <1>4, FS_RemoveElement
<1>7. f[T] = Cardinality(T) /\ f[T \ {x}] = Cardinality(T \ {x})
  BY <1>5
<1> HIDE DEF f
<1> QED
  BY <1>1, <1>3, <1>5, <1>6, <1>7
-----------------------------------------------------------------------------
\* The recursion of SumFunctionOnSet: g is its solution on the subsets of S.
Pick(s) == CHOOSE x \in s : TRUE
Solves(g, f, S) ==
  g = [s \in SUBSET S |-> IF s = {} THEN 0 ELSE f[Pick(s)] + g[s \ {Pick(s)}]]

LEMMA PickIsIn ==
  ASSUME NEW s, s # {}
  PROVE  Pick(s) \in s
BY DEF Pick

LEMMA SumIsChosen ==
  ASSUME NEW f, NEW S
  PROVE  SumFunctionOnSet(f, S) = (CHOOSE g : Solves(g, f, S))[S]
BY DEF SumFunctionOnSet, FoldFunctionOnSet, MapThenFoldSet, Solves, Pick

\* Two solutions agree where both are defined.
LEMMA SumsAgree ==
  ASSUME NEW f, NEW A, NEW B, NEW g, Solves(g, f, A), NEW h, Solves(h, f, B),
         NEW T \in SUBSET A, T \in SUBSET B, IsFiniteSet(T)
  PROVE  g[T] = h[T]
<1> DEFINE P == {s \in SUBSET T : g[s] = h[s]}
<1>1. ASSUME NEW s \in SUBSET T, \A x \in s : s \ {x} \in P
      PROVE  s \in P
  <2>1. g[s] = IF s = {} THEN 0 ELSE f[Pick(s)] + g[s \ {Pick(s)}]
    BY DEF Solves
  <2>2. h[s] = IF s = {} THEN 0 ELSE f[Pick(s)] + h[s \ {Pick(s)}]
    BY DEF Solves
  <2>3. CASE s = {}
    BY <2>1, <2>2, <2>3
  <2>4. CASE s # {}
    <3>1. s \ {Pick(s)} \in P
      BY <1>1, <2>4, PickIsIn
    <3> QED
      BY <2>1, <2>2, <2>4, <3>1
  <2> QED
    BY <2>3, <2>4
<1> HIDE DEF P
<1>2. \A s \in SUBSET T : s \in P
  BY <1>1, SubsetInduction
<1>3. T \in P
  BY <1>2
<1> QED
  BY <1>3 DEF P

\* A solution exists: one for the subsets of up to n members extends to n + 1.
LEMMA SumsExist ==
  ASSUME NEW f, NEW S, IsFiniteSet(S)
  PROVE  \E g : Solves(g, f, S)
<1> DEFINE P == {T \in SUBSET S : \E g : Solves(g, f, T)}
<1>1. ASSUME NEW T \in SUBSET S, \A x \in T : T \ {x} \in P
      PROVE  T \in P
  <2>0. IsFiniteSet(T)
    BY FS_Subset
  <2>1. CASE T = {}
    <3> DEFINE g == [s \in SUBSET T |-> 0]
    <3>1. Solves(g, f, T)
      BY <2>1 DEF Solves
    <3> QED
      BY <3>1
  <2>2. CASE T # {}
    <3> DEFINE G(x) == CHOOSE g : Solves(g, f, T \ {x})
               c == Pick(T)
               u(s) == CHOOSE x \in T : x \notin s
               h == [s \in SUBSET T |-> IF s = T THEN f[c] + G(c)[T \ {c}] ELSE G(u(s))[s]]
    <3>1. \A x \in T : Solves(G(x), f, T \ {x})
      BY <1>1
    <3>2. \A s \in SUBSET T : s # T => u(s) \in T /\ s \in SUBSET (T \ {u(s)})
      OBVIOUS
    <3>3. c \in T
      BY <2>2, PickIsIn
    \* Two of the solutions below agree on the sets that lack both members.
    <3>4. ASSUME NEW x \in T, NEW y \in T, NEW s \in SUBSET (T \ {x}), s \in SUBSET (T \ {y})
          PROVE  G(x)[s] = G(y)[s]
      <4> DEFINE A == T \ {x}
                 B == T \ {y}
                 gx == G(x)
                 gy == G(y)
      <4>1. Solves(gx, f, A) /\ Solves(gy, f, B)
        BY <3>1
      <4>2. s \in SUBSET A /\ s \in SUBSET B /\ IsFiniteSet(s)
        BY <2>0, <3>4, FS_Subset
      <4> HIDE DEF A, B, gx, gy
      <4>3. gx[s] = gy[s]
        BY <4>1, <4>2, SumsAgree
      <4> QED
        BY <4>3 DEF gx, gy
    <3>5. ASSUME NEW s \in SUBSET T
          PROVE  h[s] = IF s = {} THEN 0 ELSE f[Pick(s)] + h[s \ {Pick(s)}]
      <4> HIDE DEF G
      <4>1. CASE s = T
        <5>1. h[s] = f[c] + G(c)[T \ {c}] /\ s # {}
          BY <4>1, <2>2
        <5>2. T \ {c} # T /\ T \ {c} \in SUBSET T
          BY <3>3
        <5>3. h[T \ {c}] = G(u(T \ {c}))[T \ {c}]
          BY <5>2
        <5>4. G(u(T \ {c}))[T \ {c}] = G(c)[T \ {c}]
          BY <3>2, <3>3, <3>4, <5>2
        <5> QED
          BY <4>1, <5>1, <5>3, <5>4
      <4>2. CASE s # T
        <5> DEFINE x == u(s)
        <5>1. x \in T /\ s \in SUBSET (T \ {x}) /\ h[s] = G(x)[s]
          BY <3>2, <4>2
        <5>2. G(x)[s] = IF s = {} THEN 0 ELSE f[Pick(s)] + G(x)[s \ {Pick(s)}]
          BY <3>1, <5>1 DEF Solves
        <5>3. CASE s = {}
          BY <5>1, <5>2, <5>3
        <5>4. CASE s # {}
          <6> DEFINE v == s \ {Pick(s)}
          <6>1. v \in SUBSET T /\ v # T /\ v \in SUBSET (T \ {x})
            BY <5>1
          <6>2. h[v] = G(u(v))[v] /\ u(v) \in T /\ v \in SUBSET (T \ {u(v)})
            BY <3>2, <6>1
          <6> HIDE DEF v, u, x, h
          <6>3. G(u(v))[v] = G(x)[v]
            BY <3>4, <5>1, <6>1, <6>2
          <6> QED
            BY <5>1, <5>2, <5>4, <6>2, <6>3 DEF v
        <5> QED
          BY <5>3, <5>4
      <4> QED
        BY <4>1, <4>2
    <3>6. h = [s \in SUBSET T |-> h[s]]
      OBVIOUS
    <3> HIDE DEF h
    <3>7. Solves(h, f, T)
      BY <3>5, <3>6 DEF Solves
    <3> QED
      BY <3>7
  <2> QED
    BY <2>1, <2>2
<1> HIDE DEF P
<1>2. \A T \in SUBSET S : T \in P
  BY <1>1, SubsetInduction
<1> QED
  BY <1>2 DEF P

\* The sum of nothing.
LEMMA SumOfNone ==
  ASSUME NEW f
  PROVE  SumFunctionOnSet(f, {}) = 0
<1> DEFINE g == CHOOSE h : Solves(h, f, {})
<1>1. IsFiniteSet({})
  BY FS_EmptySet
<1>2. Solves(g, f, {})
  BY <1>1, SumsExist
<1> HIDE DEF g
<1>3. g[{}] = 0
  BY <1>2 DEF Solves
<1> QED
  BY <1>3, SumIsChosen DEF g

\* The sum takes one member, and goes on with the rest.
LEMMA SumOfPick ==
  ASSUME NEW f, NEW S, IsFiniteSet(S), S # {}
  PROVE  SumFunctionOnSet(f, S) = f[Pick(S)] + SumFunctionOnSet(f, S \ {Pick(S)})
<1> DEFINE R == S \ {Pick(S)}
           g == CHOOSE k : Solves(k, f, S)
           h == CHOOSE k : Solves(k, f, R)
<1>1. IsFiniteSet(R) /\ R \in SUBSET S
  BY FS_RemoveElement
<1>2. Solves(g, f, S) /\ Solves(h, f, R)
  BY <1>1, SumsExist
<1>3. SumFunctionOnSet(f, S) = g[S] /\ SumFunctionOnSet(f, R) = h[R]
  BY SumIsChosen
<1> HIDE DEF g, h
<1>4. g[S] = f[Pick(S)] + g[R]
  BY <1>2 DEF Solves
<1> HIDE DEF R
<1>5. g[R] = h[R]
  BY <1>1, <1>2, SumsAgree
<1> QED
  BY <1>3, <1>4, <1>5 DEF R

\* Integers sum to an integer, and naturals to a natural.
LEMMA SumIsAnInteger ==
  ASSUME NEW S, IsFiniteSet(S), NEW f, \A x \in S : f[x] \in Int
  PROVE  /\ SumFunctionOnSet(f, S) \in Int
         /\ (\A x \in S : f[x] \in Nat) => SumFunctionOnSet(f, S) \in Nat
<1> DEFINE P == {T \in SUBSET S : /\ SumFunctionOnSet(f, T) \in Int
                                  /\ (\A x \in T : f[x] \in Nat) => SumFunctionOnSet(f, T) \in Nat}
<1>1. ASSUME NEW T \in SUBSET S, \A x \in T : T \ {x} \in P
      PROVE  T \in P
  <2>1. CASE T = {}
    BY <2>1, SumOfNone
  <2>2. CASE T # {}
    <3> DEFINE c == Pick(T)
    <3>1. c \in T /\ IsFiniteSet(T)
      BY <2>2, PickIsIn, FS_Subset
    <3>2. SumFunctionOnSet(f, T) = f[c] + SumFunctionOnSet(f, T \ {c})
      BY <2>2, <3>1, SumOfPick
    <3>3. T \ {c} \in P
      BY <1>1, <3>1
    <3> HIDE DEF c
    <3> QED
      BY <3>1, <3>2, <3>3
  <2> QED
    BY <2>1, <2>2
<1> HIDE DEF P
<1>2. \A T \in SUBSET S : T \in P
  BY <1>1, SubsetInduction
<1> QED
  BY <1>2 DEF P

\* Any member may be taken out of the sum.
LEMMA SumOfOne ==
  ASSUME NEW S, IsFiniteSet(S), NEW f, \A x \in S : f[x] \in Int, NEW a \in S
  PROVE  SumFunctionOnSet(f, S) = f[a] + SumFunctionOnSet(f, S \ {a})
<1> DEFINE P == {T \in SUBSET S : \A x \in T :
                   SumFunctionOnSet(f, T) = f[x] + SumFunctionOnSet(f, T \ {x})}
<1>0. \A T \in SUBSET S : IsFiniteSet(T) /\ SumFunctionOnSet(f, T) \in Int
  BY FS_Subset, SumIsAnInteger
<1>1. ASSUME NEW T \in SUBSET S, \A x \in T : T \ {x} \in P
      PROVE  T \in P
  <2> SUFFICES ASSUME NEW x \in T
               PROVE  SumFunctionOnSet(f, T) = f[x] + SumFunctionOnSet(f, T \ {x})
    OBVIOUS
  <2> DEFINE c == Pick(T)
  <2>1. c \in T
    BY PickIsIn
  <2>2. SumFunctionOnSet(f, T) = f[c] + SumFunctionOnSet(f, T \ {c})
    BY <1>0, SumOfPick
  <2> HIDE DEF c
  <2>3. CASE c = x
    BY <2>2, <2>3
  <2>4. CASE c # x
    <3> DEFINE R == (T \ {c}) \ {x}
    <3>1. SumFunctionOnSet(f, T \ {c}) = f[x] + SumFunctionOnSet(f, R)
      BY <1>1, <2>1, <2>4
    <3>2. (T \ {x}) \ {c} = R
      OBVIOUS
    <3>3. SumFunctionOnSet(f, T \ {x}) = f[c] + SumFunctionOnSet(f, (T \ {x}) \ {c})
      BY <1>1, <2>1, <2>4
    <3>4. f[x] \in Int /\ f[c] \in Int /\ SumFunctionOnSet(f, R) \in Int
      BY <1>0, <2>1
    <3> HIDE DEF R
    <3>5. SumFunctionOnSet(f, T) = f[c] + (f[x] + SumFunctionOnSet(f, R))
      BY <2>2, <3>1
    <3>6. SumFunctionOnSet(f, T \ {x}) = f[c] + SumFunctionOnSet(f, R)
      BY <3>2, <3>3
    <3> HIDE DEF P
    <3> QED
      BY <3>4, <3>5, <3>6
  <2> QED
    BY <2>3, <2>4
<1> HIDE DEF P
<1>2. \A T \in SUBSET S : T \in P
  BY <1>1, SubsetInduction
<1> QED
  BY <1>2 DEF P

\* A sum of smaller terms is smaller; in particular, only the terms of the set count.
LEMMA SumIsMonotone ==
  ASSUME NEW S, IsFiniteSet(S), NEW f, NEW g,
         \A x \in S : f[x] \in Int /\ g[x] \in Int /\ f[x] <= g[x]
  PROVE  SumFunctionOnSet(f, S) <= SumFunctionOnSet(g, S)
<1> DEFINE P == {T \in SUBSET S : SumFunctionOnSet(f, T) <= SumFunctionOnSet(g, T)}
<1>0. \A T \in SUBSET S :
        IsFiniteSet(T) /\ SumFunctionOnSet(f, T) \in Int /\ SumFunctionOnSet(g, T) \in Int
  BY FS_Subset, SumIsAnInteger
<1>1. ASSUME NEW T \in SUBSET S, \A x \in T : T \ {x} \in P
      PROVE  T \in P
  <2>1. CASE T = {}
    BY <2>1, SumOfNone
  <2>2. CASE T # {}
    <3>1. PICK x \in T : TRUE
      BY <2>2
    <3>2. /\ SumFunctionOnSet(f, T) = f[x] + SumFunctionOnSet(f, T \ {x})
          /\ SumFunctionOnSet(g, T) = g[x] + SumFunctionOnSet(g, T \ {x})
      BY <1>0, SumOfOne
    <3>3. SumFunctionOnSet(f, T \ {x}) <= SumFunctionOnSet(g, T \ {x})
      BY <1>1
    <3>4. /\ SumFunctionOnSet(f, T \ {x}) \in Int /\ SumFunctionOnSet(g, T \ {x}) \in Int
          /\ f[x] \in Int /\ g[x] \in Int /\ f[x] <= g[x]
      BY <1>0
    <3> QED
      BY <3>2, <3>3, <3>4
  <2> QED
    BY <2>1, <2>2
<1> HIDE DEF P
<1>2. \A T \in SUBSET S : T \in P
  BY <1>1, SubsetInduction
<1> QED
  BY <1>2 DEF P

\* Equal terms have equal sums.
LEMMA SumOfTheSame ==
  ASSUME NEW S, IsFiniteSet(S), NEW f, NEW g, \A x \in S : f[x] \in Int /\ f[x] = g[x]
  PROVE  SumFunctionOnSet(f, S) = SumFunctionOnSet(g, S)
<1>1. /\ SumFunctionOnSet(f, S) <= SumFunctionOnSet(g, S)
      /\ SumFunctionOnSet(g, S) <= SumFunctionOnSet(f, S)
  BY SumIsMonotone
<1>2. SumFunctionOnSet(f, S) \in Int /\ SumFunctionOnSet(g, S) \in Int
  BY SumIsAnInteger
<1> QED
  BY <1>1, <1>2

\* The sum of a combination of two terms is the combination of their sums.
LEMMA SumIsLinear ==
  ASSUME NEW S, IsFiniteSet(S), NEW f, NEW g, NEW h, NEW b \in Int, NEW c \in Int,
         \A x \in S : f[x] \in Int /\ g[x] \in Int /\ h[x] = (b * f[x]) + (c * g[x])
  PROVE  SumFunctionOnSet(h, S)
           = (b * SumFunctionOnSet(f, S)) + (c * SumFunctionOnSet(g, S))
<1> DEFINE P == {T \in SUBSET S : SumFunctionOnSet(h, T)
                   = (b * SumFunctionOnSet(f, T)) + (c * SumFunctionOnSet(g, T))}
<1>h. \A x \in S : h[x] \in Int
  OBVIOUS
<1>0. \A T \in SUBSET S : /\ IsFiniteSet(T) /\ SumFunctionOnSet(f, T) \in Int
                          /\ SumFunctionOnSet(g, T) \in Int /\ SumFunctionOnSet(h, T) \in Int
  BY <1>h, FS_Subset, SumIsAnInteger
<1>1. ASSUME NEW T \in SUBSET S, \A x \in T : T \ {x} \in P
      PROVE  T \in P
  <2>1. CASE T = {}
    BY <2>1, SumOfNone
  <2>2. CASE T # {}
    <3>1. PICK x \in T : TRUE
      BY <2>2
    <3>2. /\ SumFunctionOnSet(f, T) = f[x] + SumFunctionOnSet(f, T \ {x})
          /\ SumFunctionOnSet(g, T) = g[x] + SumFunctionOnSet(g, T \ {x})
          /\ SumFunctionOnSet(h, T) = h[x] + SumFunctionOnSet(h, T \ {x})
      BY <1>0, <1>h, SumOfOne
    <3>3. SumFunctionOnSet(h, T \ {x})
            = (b * SumFunctionOnSet(f, T \ {x})) + (c * SumFunctionOnSet(g, T \ {x}))
      BY <1>1
    <3>4. /\ SumFunctionOnSet(f, T \ {x}) \in Int /\ SumFunctionOnSet(g, T \ {x}) \in Int
          /\ f[x] \in Int /\ g[x] \in Int /\ h[x] = (b * f[x]) + (c * g[x])
      BY <1>0
    <3>5. SumFunctionOnSet(h, T)
            = (b * (f[x] + SumFunctionOnSet(f, T \ {x})))
                + (c * (g[x] + SumFunctionOnSet(g, T \ {x})))
      BY <3>2, <3>3, <3>4
    <3> QED
      BY <3>2, <3>5
  <2> QED
    BY <2>1, <2>2
<1> HIDE DEF P
<1>2. \A T \in SUBSET S : T \in P
  BY <1>1, SubsetInduction
<1> QED
  BY <1>2 DEF P

\* A part of a sum of natural numbers is no more than the whole.
LEMMA SumOfPart ==
  ASSUME NEW S, IsFiniteSet(S), NEW f, \A x \in S : f[x] \in Nat, NEW T \in SUBSET S
  PROVE  SumFunctionOnSet(f, T) <= SumFunctionOnSet(f, S)
<1> DEFINE P == {R \in SUBSET S :
                   \A Q \in SUBSET R : SumFunctionOnSet(f, Q) <= SumFunctionOnSet(f, R)}
<1>0. \A R \in SUBSET S : IsFiniteSet(R) /\ SumFunctionOnSet(f, R) \in Nat
  <2> SUFFICES ASSUME NEW R \in SUBSET S
               PROVE  IsFiniteSet(R) /\ SumFunctionOnSet(f, R) \in Nat
    OBVIOUS
  <2>1. IsFiniteSet(R) /\ \A x \in R : f[x] \in Nat
    BY FS_Subset
  <2> QED
    BY <2>1, SumIsAnInteger
<1>1. ASSUME NEW R \in SUBSET S, \A x \in R : R \ {x} \in P
      PROVE  R \in P
  <2> SUFFICES ASSUME NEW Q \in SUBSET R, Q # R
               PROVE  SumFunctionOnSet(f, Q) <= SumFunctionOnSet(f, R)
    BY <1>0
  <2>1. PICK x \in R : x \notin Q
    OBVIOUS
  <2>2. SumFunctionOnSet(f, Q) <= SumFunctionOnSet(f, R \ {x})
    BY <1>1, <2>1
  <2>3. SumFunctionOnSet(f, R) = f[x] + SumFunctionOnSet(f, R \ {x})
    BY <1>0, SumOfOne
  <2>4. /\ f[x] \in Nat /\ SumFunctionOnSet(f, Q) \in Nat
        /\ SumFunctionOnSet(f, R \ {x}) \in Nat
    BY <1>0
  <2> QED
    BY <2>2, <2>3, <2>4
<1> HIDE DEF P
<1>2. \A R \in SUBSET S : R \in P
  BY <1>1, SubsetInduction
<1> QED
  BY <1>2 DEF P

\* The set of the values of a function on a set.
ImageOf(h, S) == {h[x] : x \in S}

\* A finite set has finitely many values.
LEMMA ImageIsFinite ==
  ASSUME NEW S, IsFiniteSet(S), NEW h
  PROVE  IsFiniteSet(ImageOf(h, S))
<1> DEFINE k == [x \in S |-> h[x]]
<1>1. k \in Surjection(S, ImageOf(h, S))
  BY DEF Surjection, ImageOf
<1> QED
  BY <1>1, FS_Surjection

\* Summing over the values of h, each once, gives no more than over its arguments.
LEMMA SumOfImage ==
  ASSUME NEW S, IsFiniteSet(S), NEW h, NEW f, NEW g,
         \A x \in S : f[h[x]] \in Nat /\ g[x] = f[h[x]]
  PROVE  SumFunctionOnSet(f, ImageOf(h, S)) <= SumFunctionOnSet(g, S)
<1> DEFINE P == {T \in SUBSET S :
                   SumFunctionOnSet(f, ImageOf(h, T)) <= SumFunctionOnSet(g, T)}
<1>0. \A T \in SUBSET S : /\ IsFiniteSet(T) /\ IsFiniteSet(ImageOf(h, T))
                          /\ SumFunctionOnSet(g, T) \in Nat
                          /\ SumFunctionOnSet(f, ImageOf(h, T)) \in Nat
  <2> SUFFICES ASSUME NEW T \in SUBSET S
               PROVE  /\ IsFiniteSet(T) /\ IsFiniteSet(ImageOf(h, T))
                      /\ SumFunctionOnSet(g, T) \in Nat
                      /\ SumFunctionOnSet(f, ImageOf(h, T)) \in Nat
    OBVIOUS
  <2>1. IsFiniteSet(T)
    BY FS_Subset
  <2>2. IsFiniteSet(ImageOf(h, T))
    BY <2>1, ImageIsFinite
  <2>3. \A y \in ImageOf(h, T) : f[y] \in Nat
    BY DEF ImageOf
  <2> QED
    BY <2>1, <2>2, <2>3, SumIsAnInteger
<1>1. ASSUME NEW T \in SUBSET S, \A x \in T : T \ {x} \in P
      PROVE  T \in P
  <2>1. CASE T = {}
    <3>1. ImageOf(h, T) = {}
      BY <2>1 DEF ImageOf
    <3> QED
      BY <2>1, <3>1, SumOfNone
  <2>2. CASE T # {}
    <3>1. PICK x \in T : TRUE
      BY <2>2
    <3> DEFINE R == T \ {x}
    <3>2. SumFunctionOnSet(g, T) = g[x] + SumFunctionOnSet(g, R)
      BY <1>0, SumOfOne
    <3>3. SumFunctionOnSet(f, ImageOf(h, R)) <= SumFunctionOnSet(g, R)
      BY <1>1
    <3>4. /\ g[x] \in Nat /\ g[x] = f[h[x]] /\ SumFunctionOnSet(g, R) \in Nat
          /\ SumFunctionOnSet(f, ImageOf(h, R)) \in Nat
      BY <1>0
    <3>5. CASE h[x] \in ImageOf(h, R)
      <4>1. ImageOf(h, T) = ImageOf(h, R)
        BY <3>5 DEF ImageOf
      <4> QED
        BY <4>1, <3>2, <3>3, <3>4
    <3>6. CASE h[x] \notin ImageOf(h, R)
      <4>1. h[x] \in ImageOf(h, T) /\ ImageOf(h, T) \ {h[x]} = ImageOf(h, R)
        BY <3>6 DEF ImageOf
      <4>2. \A y \in ImageOf(h, T) : f[y] \in Int
        BY DEF ImageOf
      <4>3. SumFunctionOnSet(f, ImageOf(h, T))
              = f[h[x]] + SumFunctionOnSet(f, ImageOf(h, T) \ {h[x]})
        <5> DEFINE D == ImageOf(h, T)
                   y == h[x]
        <5>1. IsFiniteSet(D) /\ y \in D /\ \A z \in D : f[z] \in Int
          BY <1>0, <4>1, <4>2
        <5> HIDE DEF D, y
        <5>2. SumFunctionOnSet(f, D) = f[y] + SumFunctionOnSet(f, D \ {y})
          BY <5>1, SumOfOne
        <5> QED
          BY <5>2 DEF D, y
      <4> QED
        BY <4>1, <4>3, <3>2, <3>3, <3>4
    <3> QED
      BY <3>5, <3>6
  <2> QED
    BY <2>1, <2>2
<1> HIDE DEF P
<1>2. \A T \in SUBSET S : T \in P
  BY <1>1, SubsetInduction
<1> QED
  BY <1>2 DEF P

\* When no two arguments have the same value of h, the sums are equal.
LEMMA SumOfRenamed ==
  ASSUME NEW S, IsFiniteSet(S), NEW h, NEW f, NEW g,
         \A x \in S : f[h[x]] \in Int /\ g[x] = f[h[x]],
         \A x, y \in S : h[x] = h[y] => x = y
  PROVE  SumFunctionOnSet(f, ImageOf(h, S)) = SumFunctionOnSet(g, S)
<1> DEFINE P == {T \in SUBSET S :
                   SumFunctionOnSet(f, ImageOf(h, T)) = SumFunctionOnSet(g, T)}
<1>0. \A T \in SUBSET S : IsFiniteSet(T) /\ IsFiniteSet(ImageOf(h, T))
  BY FS_Subset, ImageIsFinite
<1>1. ASSUME NEW T \in SUBSET S, \A x \in T : T \ {x} \in P
      PROVE  T \in P
  <2>1. CASE T = {}
    <3>1. ImageOf(h, T) = {}
      BY <2>1 DEF ImageOf
    <3> QED
      BY <2>1, <3>1, SumOfNone
  <2>2. CASE T # {}
    <3>1. PICK x \in T : TRUE
      BY <2>2
    <3> DEFINE R == T \ {x}
               D == ImageOf(h, T)
               y == h[x]
    <3>2. SumFunctionOnSet(g, T) = g[x] + SumFunctionOnSet(g, R)
      BY <1>0, SumOfOne
    <3>3. SumFunctionOnSet(f, ImageOf(h, R)) = SumFunctionOnSet(g, R)
      BY <1>1
    <3>4. IsFiniteSet(D) /\ y \in D /\ D \ {y} = ImageOf(h, R) /\ \A z \in D : f[z] \in Int
      BY <1>0 DEF ImageOf
    <3>5. g[x] = f[y]
      OBVIOUS
    <3> HIDE DEF D, y
    <3>6. SumFunctionOnSet(f, D) = f[y] + SumFunctionOnSet(f, D \ {y})
      BY <3>4, SumOfOne
    <3> QED
      BY <3>2, <3>3, <3>4, <3>5, <3>6 DEF D
  <2> QED
    BY <2>1, <2>2
<1> HIDE DEF P
<1>2. \A T \in SUBSET S : T \in P
  BY <1>1, SubsetInduction
<1> QED
  BY <1>2 DEF P

\* A sum of equal terms.
LEMMA SumOfEqual ==
  ASSUME NEW S, IsFiniteSet(S), NEW c \in Int, NEW f, \A x \in S : f[x] = c
  PROVE  SumFunctionOnSet(f, S) = c * Cardinality(S)
<1> DEFINE P == {T \in SUBSET S : SumFunctionOnSet(f, T) = c * Cardinality(T)}
<1>0. \A T \in SUBSET S : IsFiniteSet(T) /\ Cardinality(T) \in Nat /\ \A x \in T : f[x] \in Int
  BY FS_Subset, FS_CardinalityType
<1>1. ASSUME NEW T \in SUBSET S, \A x \in T : T \ {x} \in P
      PROVE  T \in P
  <2>1. CASE T = {}
    <3>1. Cardinality({}) = 0
      BY FS_EmptySet
    <3>2. c * 0 = 0
      OBVIOUS
    <3> QED
      BY <2>1, <3>1, <3>2, SumOfNone
  <2>2. CASE T # {}
    <3>1. PICK x \in T : TRUE
      BY <2>2
    <3>2. SumFunctionOnSet(f, T) = f[x] + SumFunctionOnSet(f, T \ {x})
      BY <1>0, SumOfOne
    <3>3. SumFunctionOnSet(f, T \ {x}) = c * Cardinality(T \ {x}) /\ f[x] = c
      BY <1>1
    <3>4. Cardinality(T \ {x}) = Cardinality(T) - 1 /\ Cardinality(T) \in Nat
      BY <1>0, FS_RemoveElement
    <3> DEFINE n == Cardinality(T)
    <3>5. n \in Nat /\ SumFunctionOnSet(f, T) = c + (c * (n - 1))
      BY <3>2, <3>3, <3>4
    <3> HIDE DEF n
    <3>6. c + (c * (n - 1)) = c * n
      BY <3>5
    <3> QED
      BY <3>5, <3>6 DEF n
  <2> QED
    BY <2>1, <2>2
<1> HIDE DEF P
<1>2. \A T \in SUBSET S : T \in P
  BY <1>1, SubsetInduction
<1> QED
  BY <1>2 DEF P

\* A sum of terms that are all smaller, if there are any, is smaller.
LEMMA SumIsStrict ==
  ASSUME NEW S, IsFiniteSet(S), S # {}, NEW f, NEW g,
         \A x \in S : f[x] \in Int /\ g[x] \in Int /\ f[x] < g[x]
  PROVE  SumFunctionOnSet(f, S) < SumFunctionOnSet(g, S)
<1>1. PICK a \in S : TRUE
  OBVIOUS
<1> DEFINE T == S \ {a}
<1>2. IsFiniteSet(T) /\ \A x \in T : f[x] \in Int /\ g[x] \in Int /\ f[x] <= g[x]
  BY FS_Subset
<1>3. /\ SumFunctionOnSet(f, S) = f[a] + SumFunctionOnSet(f, T)
      /\ SumFunctionOnSet(g, S) = g[a] + SumFunctionOnSet(g, T)
  BY SumOfOne
<1> HIDE DEF T
<1>4. SumFunctionOnSet(f, T) <= SumFunctionOnSet(g, T)
  BY <1>2, SumIsMonotone
<1>5. SumFunctionOnSet(f, T) \in Int /\ SumFunctionOnSet(g, T) \in Int
  BY <1>2, SumIsAnInteger
<1> QED
  BY <1>3, <1>4, <1>5
=============================================================================
