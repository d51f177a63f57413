----------------------------- MODULE DataLemmas -----------------------------
(***************************************************************************)
(* What the proofs use of the data the modules compute with: sums of       *)
(* balances, the ring of past distributions, and the compounding of its    *)
(* entries.                                                                *)
(*                                                                         *)
(* Sums and compounding are folds, and what a fold yields for every input  *)
(* takes induction.  It is stated here of sets instead of predicates: a    *)
(* set of natural numbers that is not empty has a least element (from      *)
(* WFMin), so a set that is closed under the induction step has no least   *)
(* exception.                                                              *)
(***************************************************************************)
EXTENDS DistributionData, Functions, FiniteSets, Sequences,
        FiniteSetTheorems, WellFoundedInduction, TLAPS

-----------------------------------------------------------------------------
(* Induction.                                                              *)

LEMMA LeastNatural ==
    ASSUME NEW T \in SUBSET Nat, T # {}
    PROVE  \E m \in T : \A k \in T : m <= k
<1> DEFINE R == OpToRel(<, Nat)
<1>1. IsWellFoundedOn(R, Nat)
  BY NatLessThanWellFounded
<1>2. \A x, y \in Nat : x < y => <<x, y>> \in R
  BY DEF OpToRel
<1> HIDE DEF R
<1>3. PICK m \in T : \A y \in T : ~(<<y, m>> \in R)
  BY <1>1, WFMin
<1>4. ASSUME NEW k \in T
      PROVE  m <= k
  <2>1. ~(k < m)
    BY <1>2, <1>3
  <2> QED
    BY <2>1
<1> QED
  BY <1>4

LEMMA NatSetInduction ==
    ASSUME NEW T, 0 \in T, \A n \in Nat : n \in T => n + 1 \in T
    PROVE  \A n \in Nat : n \in T
<1> SUFFICES ASSUME Nat \ T # {} PROVE FALSE
  OBVIOUS
<1>1. PICK m \in Nat \ T : \A k \in Nat \ T : m <= k
  BY LeastNatural
<1>2. m # 0 /\ m - 1 \in Nat /\ (m - 1) + 1 = m
  BY <1>1
<1>3. m - 1 \in T
  BY <1>1, <1>2
<1> QED
  BY <1>1, <1>2, <1>3

\* A family that has every set whose proper subsets it has.
LEMMA FiniteSetInduction ==
    ASSUME NEW S, IsFiniteSet(S), NEW T,
           \A s \in SUBSET S : (\A r \in SUBSET s : r # s => r \in T) => s \in T
    PROVE  \A s \in SUBSET S : s \in T
<1> SUFFICES ASSUME NEW b \in SUBSET S, b \notin T PROVE FALSE
  OBVIOUS
<1> DEFINE Bad == {s \in SUBSET S : s \notin T}
           sizes == {Cardinality(s) : s \in Bad}
<1>1. \A s \in SUBSET S : IsFiniteSet(s) /\ Cardinality(s) \in Nat
  BY FS_Subset, FS_CardinalityType
<1>2. sizes \in SUBSET Nat /\ sizes # {}
  BY <1>1
<1>3. PICK m \in sizes : \A k \in sizes : m <= k
  BY <1>2, LeastNatural
<1>4. PICK s \in Bad : m = Cardinality(s)
  BY <1>3
<1>5. ASSUME NEW r \in SUBSET s, r # s
      PROVE  r \in T
  <2>1. r \in SUBSET S /\ Cardinality(r) <= Cardinality(s) /\ Cardinality(r) # Cardinality(s)
    BY <1>1, <1>4, <1>5, FS_Subset
  <2> SUFFICES ASSUME r \notin T PROVE FALSE
    OBVIOUS
  <2>2. Cardinality(r) \in sizes
    BY <2>1
  <2>3. Cardinality(s) <= Cardinality(r)
    BY <1>3, <1>4, <2>2
  <2>4. Cardinality(r) \in Nat /\ Cardinality(s) \in Nat
    BY <1>1, <1>4, <2>1
  <2> QED
    BY <2>1, <2>3, <2>4
<1> QED
  BY <1>4, <1>5

Picks(pick, S) == \A s \in SUBSET S : s # {} => pick[s] \in s

StepsIn(step, S, V) == \A x \in S : \A v \in V : step[x][v] \in V

IsFoldOn(h, S, V, base, pick, step) ==
    /\ h \in [SUBSET S -> V]
    /\ \A s \in SUBSET S :
          h[s] = IF s = {} THEN base ELSE step[pick[s]][h[s \ {pick[s]}]]

\* A function on the subsets of a finite set may be defined from its value on
\* the set without one element.
LEMMA SubsetRecursion ==
    ASSUME NEW S, IsFiniteSet(S), NEW V, NEW base \in V,
           NEW pick, Picks(pick, S), NEW step, StepsIn(step, S, V)
    PROVE  \E h : IsFoldOn(h, S, V, base, pick, step)
<1> DEFINE Small(n) == {s \in SUBSET S : Cardinality(s) <= n}
           Rec(h, D) == \A s \in D :
              h[s] = IF s = {} THEN base ELSE step[pick[s]][h[s \ {pick[s]}]]
           T == {n \in Nat : \E h \in [Small(n) -> V] : Rec(h, Small(n))}
<1>1. \A s \in SUBSET S : IsFiniteSet(s) /\ Cardinality(s) \in Nat
  BY FS_Subset, FS_CardinalityType
<1>2. \A s \in SUBSET S : s # {} =>
        /\ pick[s] \in S
        /\ s \ {pick[s]} \in SUBSET S
        /\ Cardinality(s \ {pick[s]}) = Cardinality(s) - 1
  BY <1>1, FS_RemoveElement DEF Picks
<1>3. 0 \in T
  <2> DEFINE h == [s \in Small(0) |-> base]
  <2>1. \A s \in Small(0) : s = {}
    BY <1>1, FS_EmptySet
  <2>2. h \in [Small(0) -> V] /\ Rec(h, Small(0))
    BY <2>1
  <2> QED
    BY <2>2
<1>4. ASSUME NEW n \in Nat, n \in T
      PROVE  n + 1 \in T
  <2>1. PICK g \in [Small(n) -> V] : Rec(g, Small(n))
    BY <1>4
  <2> DEFINE h == [s \in Small(n + 1) |->
                     IF s = {} THEN base ELSE step[pick[s]][g[s \ {pick[s]}]]]
  <2>2. \A s \in Small(n + 1) : s # {} =>
          pick[s] \in S /\ s \ {pick[s]} \in Small(n)
    BY <1>1, <1>2
  <2>3. h \in [Small(n + 1) -> V]
    BY <2>1, <2>2 DEF StepsIn
  <2>4. ASSUME NEW s \in Small(n)
        PROVE  s \in Small(n + 1) /\ h[s] = g[s]
    <3>1. s \in Small(n + 1)
      BY <1>1
    <3>2. g[s] = IF s = {} THEN base ELSE step[pick[s]][g[s \ {pick[s]}]]
      BY <2>1
    <3> QED
      BY <3>1, <3>2
  <2>5. Rec(h, Small(n + 1))
    BY <2>2, <2>4
  <2>6. n + 1 \in Nat
    OBVIOUS
  <2> HIDE DEF h, Rec, Small
  <2> QED
    BY <2>3, <2>5, <2>6
<1>5. Cardinality(S) \in T
  <2> HIDE DEF T
  <2> QED
    BY <1>1, <1>3, <1>4, NatSetInduction
<1>6. Small(Cardinality(S)) = SUBSET S
  BY <1>1, FS_Subset
<1> QED
  BY <1>5, <1>6 DEF IsFoldOn
-----------------------------------------------------------------------------
(* Sums (SumFunction of what the users' token accounts hold).              *)

\* One sum of a function over all subsets of a finite set, whichever element
\* CHOOSE takes first.
IsSumOn(h, f, S) ==
    /\ h \in [SUBSET S -> Int]
    /\ \A s \in SUBSET S :
          h[s] = IF s = {} THEN 0
                 ELSE LET x == CHOOSE x \in s : TRUE IN f[x] + h[s \ {x}]

LEMMA SumIsRecursive ==
    ASSUME NEW S, IsFiniteSet(S), NEW f, \A x \in S : f[x] \in Int
    PROVE  \E h : IsSumOn(h, f, S) /\ h[S] = SumFunctionOnSet(f, S)
<1> DEFINE pick == [s \in SUBSET S |-> CHOOSE x \in s : TRUE]
           step == [x \in S |-> [v \in Int |-> f[x] + v]]
           Def(h) == [s \in SUBSET S |->
                        IF s = {} THEN 0
                        ELSE LET x == CHOOSE x \in s : TRUE IN f[x] + h[s \ {x}]]
           iter == CHOOSE h : h = Def(h)
<1>1. Picks(pick, S)
  BY DEF Picks
<1>2. StepsIn(step, S, Int)
  BY DEF StepsIn
<1> HIDE DEF pick, step
<1>3. PICK h : IsFoldOn(h, S, Int, 0, pick, step)
  BY <1>1, <1>2, SubsetRecursion
<1>4. IsSumOn(h, f, S)
  <2> SUFFICES ASSUME NEW s \in SUBSET S, s # {}
               PROVE  h[s] = f[CHOOSE x \in s : TRUE] + h[s \ {CHOOSE x \in s : TRUE}]
    BY <1>3 DEF IsSumOn, IsFoldOn
  <2>1. pick[s] \in S /\ s \ {pick[s]} \in SUBSET S
    BY <1>1 DEF Picks
  <2>2. h[s \ {pick[s]}] \in Int
    BY <1>3, <2>1 DEF IsFoldOn
  <2>3. step[pick[s]][h[s \ {pick[s]}]] = f[pick[s]] + h[s \ {pick[s]}]
    BY <2>1, <2>2 DEF step
  <2> QED
    BY <1>3, <2>3 DEF pick, IsFoldOn
<1>5. h = Def(h)
  BY <1>4 DEF IsSumOn
<1>6. iter = Def(iter)
  BY <1>5
<1>7. SumFunctionOnSet(f, S) = iter[S]
  BY DEF SumFunctionOnSet, FoldFunctionOnSet, MapThenFoldSet
<1> HIDE DEF iter
<1>8. \A s \in SUBSET S :
         iter[s] = IF s = {} THEN 0
                   ELSE LET x == CHOOSE x \in s : TRUE IN f[x] + iter[s \ {x}]
  BY <1>6
<1>9. \A s \in SUBSET S : iter[s] \in Int
  <2> DEFINE T == {s \in SUBSET S : iter[s] \in Int}
  <2>1. ASSUME NEW s \in SUBSET S, \A r \in SUBSET s : r # s => r \in T
        PROVE  s \in T
    <3>1. CASE s = {}
      <4>1. iter[s] = 0
        BY <1>8, <3>1
      <4> QED
        BY <4>1
    <3>2. CASE s # {}
      <4> DEFINE x == CHOOSE x \in s : TRUE
      <4>1. x \in s
        BY <3>2
      <4>2. iter[s \ {x}] \in Int /\ f[x] \in Int
        BY <2>1, <4>1
      <4>3. iter[s] = f[x] + iter[s \ {x}]
        BY <1>8, <3>2
      <4> QED
        BY <4>2, <4>3
    <3> QED
      BY <3>1, <3>2
  <2>2. \A s \in SUBSET S : s \in T
    <3> HIDE DEF T
    <3> QED
      BY <2>1, FiniteSetInduction
  <2> QED
    BY <2>2
<1>10. iter \in [SUBSET S -> Int]
  BY <1>6, <1>9
<1>11. IsSumOn(iter, f, S)
  BY <1>8, <1>10 DEF IsSumOn
<1> QED
  BY <1>7, <1>11

LEMMA SumAnyOrder ==
    ASSUME NEW S, IsFiniteSet(S), NEW f, \A x \in S : f[x] \in Int,
           NEW h, IsSumOn(h, f, S)
    PROVE  \A s \in SUBSET S : \A x \in s : h[s] = f[x] + h[s \ {x}]
<1> DEFINE T == {s \in SUBSET S : \A x \in s : h[s] = f[x] + h[s \ {x}]}
<1>1. ASSUME NEW s \in SUBSET S, \A r \in SUBSET s : r # s => r \in T
      PROVE  s \in T
  <2> SUFFICES ASSUME NEW x \in s PROVE h[s] = f[x] + h[s \ {x}]
    OBVIOUS
  <2> DEFINE y == CHOOSE y \in s : TRUE
  <2>1. y \in s /\ h[s] = f[y] + h[s \ {y}]
    BY DEF IsSumOn
  <2> HIDE DEF y
  <2>2. CASE x = y
    BY <2>1, <2>2
  <2>3. CASE x # y
    <3>1. h[s \ {y}] = f[x] + h[(s \ {y}) \ {x}]
      BY <1>1, <2>1, <2>3
    <3>2. h[s \ {x}] = f[y] + h[(s \ {x}) \ {y}]
      BY <1>1, <2>1, <2>3
    <3>3. (s \ {x}) \ {y} = (s \ {y}) \ {x}
      OBVIOUS
    <3> DEFINE rest == h[(s \ {y}) \ {x}]
    <3>4. rest \in Int
      BY DEF IsSumOn
    <3>5. f[x] \in Int /\ f[y] \in Int
      BY <2>1
    <3>6. h[s] = f[y] + (f[x] + rest) /\ h[s \ {x}] = f[y] + rest
      BY <2>1, <3>1, <3>2, <3>3
    <3> HIDE DEF rest
    <3> QED
      BY <3>4, <3>5, <3>6
  <2> QED
    BY <2>2, <2>3
<1>2. \A s \in SUBSET S : s \in T
  <2> HIDE DEF T
  <2> QED
    BY <1>1, FiniteSetInduction
<1> QED
  BY <1>2

\* The sum over a set is any one element more than the sum over the others.
LEMMA SumTakesOne ==
    ASSUME NEW S, IsFiniteSet(S), NEW f, \A x \in S : f[x] \in Int
    PROVE  /\ SumFunctionOnSet(f, S) \in Int
           /\ S = {} => SumFunctionOnSet(f, S) = 0
           /\ \A x \in S :
                 /\ SumFunctionOnSet(f, S \ {x}) \in Int
                 /\ SumFunctionOnSet(f, S) = f[x] + SumFunctionOnSet(f, S \ {x})
<1>1. PICK h : IsSumOn(h, f, S) /\ h[S] = SumFunctionOnSet(f, S)
  BY SumIsRecursive
<1>2. h[S] \in Int /\ (S = {} => h[S] = 0)
  BY <1>1 DEF IsSumOn
<1>3. ASSUME NEW x \in S
      PROVE  h[S \ {x}] = SumFunctionOnSet(f, S \ {x})
  <2> DEFINE R == S \ {x}
  <2>1. IsFiniteSet(R) /\ R \in SUBSET S /\ \A z \in R : f[z] \in Int
    BY FS_Subset
  <2>2. PICK g : IsSumOn(g, f, R) /\ g[R] = SumFunctionOnSet(f, R)
    BY <2>1, SumIsRecursive
  <2> DEFINE T == {s \in SUBSET R : g[s] = h[s]}
  <2>3. ASSUME NEW s \in SUBSET R, \A r \in SUBSET s : r # s => r \in T
        PROVE  s \in T
    <3>1. CASE s = {}
      <4>1. g[s] = 0 /\ h[s] = 0
        BY <1>1, <2>1, <2>2, <3>1 DEF IsSumOn
      <4> QED
        BY <4>1
    <3>2. CASE s # {}
      <4> DEFINE y == CHOOSE y \in s : TRUE
      <4>1. /\ y \in s
            /\ g[s] = f[y] + g[s \ {y}]
            /\ h[s] = f[y] + h[s \ {y}]
        BY <1>1, <2>1, <2>2, <3>2 DEF IsSumOn
      <4> HIDE DEF y
      <4>2. s \ {y} \in T
        BY <2>3, <4>1
      <4> QED
        BY <4>1, <4>2
    <3> QED
      BY <3>1, <3>2
  <2>4. \A s \in SUBSET R : s \in T
    <3> HIDE DEF T, R
    <3> QED
      BY <2>1, <2>3, FiniteSetInduction
  <2>5. R \in T
    BY <2>4
  <2> QED
    BY <2>2, <2>5
<1>4. \A x \in S : h[S \ {x}] \in Int
  BY <1>1 DEF IsSumOn
<1>5. \A x \in S : h[S] = f[x] + h[S \ {x}]
  BY <1>1, SumAnyOrder
<1> QED
  BY <1>1, <1>2, <1>3, <1>4, <1>5

\* Sums are compared element by element, up to `per` for each element.
LEMMA SumCompare ==
    ASSUME NEW S, IsFiniteSet(S),
           NEW f, \A x \in S : f[x] \in Int, NEW a \in Int,
           NEW g, \A x \in S : g[x] \in Int, NEW b \in Int, NEW per \in Int,
           \A x \in S : a * f[x] <= b * g[x] + per
    PROVE  a * SumFunctionOnSet(f, S) <= b * SumFunctionOnSet(g, S) + per * Cardinality(S)
<1> DEFINE F(s) == SumFunctionOnSet(f, s)
           G(s) == SumFunctionOnSet(g, s)
           T == {s \in SUBSET S : a * F(s) <= b * G(s) + per * Cardinality(s)}
<1>1. ASSUME NEW s \in SUBSET S, \A r \in SUBSET s : r # s => r \in T
      PROVE  s \in T
  <2>1. IsFiniteSet(s) /\ \A x \in s : f[x] \in Int /\ g[x] \in Int
    BY FS_Subset
  <2>2. CASE s = {}
    <3>1. F(s) = 0 /\ G(s) = 0 /\ Cardinality(s) = 0
      BY <2>1, <2>2, SumTakesOne, FS_EmptySet
    <3> HIDE DEF F, G
    <3>2. a * 0 <= b * 0 + per * 0
      OBVIOUS
    <3> QED
      BY <3>1, <3>2
  <2>3. CASE s # {}
    <3>1. PICK x \in s : TRUE
      BY <2>3
    <3> DEFINE r == s \ {x}
    <3>2. r \in T
      BY <1>1
    <3>3. /\ F(r) \in Int /\ F(s) = f[x] + F(r)
          /\ G(r) \in Int /\ G(s) = g[x] + G(r)
      BY <2>1, SumTakesOne
    <3>4. /\ IsFiniteSet(r)
          /\ Cardinality(r) \in Nat
          /\ Cardinality(s) = Cardinality(r) + 1
      <4>1. IsFiniteSet(r) /\ Cardinality(r) = Cardinality(s) - 1
        BY <2>1, FS_RemoveElement
      <4>2. Cardinality(r) \in Nat /\ Cardinality(s) \in Nat
        BY <2>1, <4>1, FS_CardinalityType
      <4> QED
        BY <4>1, <4>2
    <3> DEFINE fx == f[x]
               gx == g[x]
               fr == F(r)
               gr == G(r)
               n == Cardinality(r)
    <3>5. /\ fx \in Int /\ gx \in Int /\ fr \in Int /\ gr \in Int /\ n \in Int
          /\ a * fx <= b * gx + per
          /\ a * fr <= b * gr + per * n
      BY <2>1, <3>2, <3>3, <3>4
    <3> HIDE DEF fx, gx, fr, gr, n
    <3>6. a * (fx + fr) <= b * (gx + gr) + per * (n + 1)
      <4>1. /\ a * (fx + fr) = a * fx + a * fr
            /\ b * (gx + gr) = b * gx + b * gr
            /\ per * (n + 1) = per * n + per
        BY <3>5
      <4>2. /\ a * fx \in Int /\ a * fr \in Int /\ b * gx \in Int /\ b * gr \in Int
            /\ per * n \in Int
        BY <3>5
      <4> QED
        BY <3>5, <4>1, <4>2
    <3> QED
      BY <3>3, <3>4, <3>6 DEF fx, gx, fr, gr, n
  <2> QED
    BY <2>2, <2>3
<1>2. \A s \in SUBSET S : s \in T
  <2> HIDE DEF T
  <2> QED
    BY <1>1, FiniteSetInduction
<1> QED
  BY <1>2

\* The sum of natural numbers is one, is not below any of them, and is 0 if
\* they are.
LEMMA SumOfNaturals ==
    ASSUME NEW S, IsFiniteSet(S), NEW f \in [S -> Nat]
    PROVE  /\ SumFunction(f) \in Nat
           /\ \A x \in S : f[x] <= SumFunction(f)
           /\ (\A x \in S : f[x] = 0) => SumFunction(f) = 0
<1> DEFINE F(s) == SumFunctionOnSet(f, s)
<1>1. SumFunction(f) = F(S)
  BY DEF SumFunction
<1> DEFINE T == {s \in SUBSET S : /\ F(s) \in Nat
                                  /\ (\A x \in s : f[x] = 0) => F(s) = 0}
<1>2. ASSUME NEW s \in SUBSET S, \A r \in SUBSET s : r # s => r \in T
      PROVE  s \in T
  <2>1. IsFiniteSet(s) /\ \A x \in s : f[x] \in Int /\ f[x] \in Nat
    BY FS_Subset
  <2>2. CASE s = {}
    BY <2>1, <2>2, SumTakesOne
  <2>3. ASSUME NEW x \in s
        PROVE  s \in T
    <3>1. F(s) = f[x] + F(s \ {x}) /\ F(s \ {x}) \in Int
      BY <2>1, SumTakesOne
    <3>2. s \ {x} \in T
      BY <1>2
    <3> QED
      BY <2>1, <3>1, <3>2
  <2> QED
    BY <2>2, <2>3
<1>3. \A s \in SUBSET S : s \in T
  <2> HIDE DEF T
  <2> QED
    BY <1>2, FiniteSetInduction
<1>4. ASSUME NEW x \in S
      PROVE  f[x] <= F(S)
  <2>1. F(S) = f[x] + F(S \ {x})
    BY SumTakesOne
  <2>2. F(S \ {x}) \in Nat /\ f[x] \in Nat
    BY <1>3
  <2> HIDE DEF F
  <2> QED
    BY <2>1, <2>2
<1> QED
  BY <1>1, <1>3, <1>4

\* Only what a set's elements map to counts.
LEMMA SumSame ==
    ASSUME NEW S, IsFiniteSet(S), NEW f, NEW g,
           \A x \in S : f[x] \in Int /\ g[x] = f[x]
    PROVE  SumFunctionOnSet(g, S) = SumFunctionOnSet(f, S)
<1>1. \A x \in S : f[x] \in Int /\ g[x] \in Int
  OBVIOUS
<1> DEFINE F == SumFunctionOnSet(f, S)
           G == SumFunctionOnSet(g, S)
<1>2. F \in Int /\ G \in Int /\ Cardinality(S) \in Nat
  BY <1>1, SumTakesOne, FS_CardinalityType
<1> DEFINE one == 1
           none == 0
<1>3. /\ one \in Int /\ none \in Int
      /\ \A x \in S : one * f[x] <= one * g[x] + none
      /\ \A x \in S : one * g[x] <= one * f[x] + none
  BY <1>1
<1> HIDE DEF one, none
<1>4. one * F <= one * G + none * Cardinality(S)
  BY <1>1, <1>3, SumCompare
<1>5. one * G <= one * F + none * Cardinality(S)
  BY <1>1, <1>3, SumCompare
<1> HIDE DEF F, G
<1> QED
  BY <1>2, <1>4, <1>5 DEF F, G, one, none

\* Changing one value changes the sum by as much.
LEMMA SumChange ==
    ASSUME NEW S, IsFiniteSet(S), NEW f \in [S -> Nat], NEW g \in [S -> Nat],
           NEW u \in S, \A x \in S \ {u} : g[x] = f[x]
    PROVE  SumFunction(g) = SumFunction(f) - f[u] + g[u]
<1> DEFINE R == S \ {u}
           v == g[u]
<1>1. g \in [S -> Nat] /\ v \in Nat /\ \A x \in R : f[x] \in Int /\ g[x] = f[x]
  OBVIOUS
<1>2. IsFiniteSet(R)
  BY FS_Subset
<1>3. SumFunction(f) = SumFunctionOnSet(f, S) /\ SumFunction(g) = SumFunctionOnSet(g, S)
  BY <1>1 DEF SumFunction
<1>4. SumFunctionOnSet(f, S) = f[u] + SumFunctionOnSet(f, R)
  BY SumTakesOne
<1>5. SumFunctionOnSet(g, S) = v + SumFunctionOnSet(g, R)
  <2>1. \A x \in S : g[x] \in Int
    BY <1>1
  <2> QED
    BY <1>1, <2>1, SumTakesOne
<1>6. SumFunctionOnSet(g, R) = SumFunctionOnSet(f, R)
  BY <1>1, <1>2, SumSame
<1>7. SumFunctionOnSet(f, R) \in Int
  BY SumTakesOne
<1> QED
  BY <1>1, <1>3, <1>4, <1>5, <1>6, <1>7
-----------------------------------------------------------------------------
(* The ring (DailyDistributionData.historic_distributions).                *)

\* An index that has gone round the ring once at most.
LEMMA RingWraps ==
    ASSUME NEW x \in 0 .. 2 * HISTORY_SIZE - 1
    PROVE  x % HISTORY_SIZE = IF x < HISTORY_SIZE THEN x ELSE x - HISTORY_SIZE
<1> DEFINE h == HISTORY_SIZE
           q == x \div h
           r == x % h
<1>1. h \in Nat \ {0} /\ x \in Int /\ 0 <= x /\ x < 2 * h
  BY DistributionAssumption
<1> HIDE DEF h
<1>2. q \in Int /\ r \in Int /\ 0 <= r /\ r < h /\ x = h * q + r
  BY <1>1
<1> HIDE DEF q, r
<1>3. q = 0 \/ q = 1
  <2>1. ~(q <= -1)
    <3> SUFFICES ASSUME q <= -1 PROVE FALSE
      OBVIOUS
    <3>1. h * q <= -h
      BY <1>1, <1>2
    <3>2. h * q \in Int
      BY <1>1, <1>2
    <3> QED
      BY <1>1, <1>2, <3>1, <3>2
  <2>2. ~(q >= 2)
    <3> SUFFICES ASSUME q >= 2 PROVE FALSE
      OBVIOUS
    <3>1. h * q >= 2 * h
      BY <1>1, <1>2
    <3>2. h * q \in Int
      BY <1>1, <1>2
    <3> QED
      BY <1>1, <1>2, <3>1, <3>2
  <2> QED
    BY <1>2, <2>1, <2>2
<1>4. (q = 0 => x = r) /\ (q = 1 => x = h + r)
  BY <1>1, <1>2
<1> QED
  BY <1>1, <1>2, <1>3, <1>4 DEF h, r

\* The ring holds the last HISTORY_SIZE entries of the log, oldest first from
\* the index on, and zeroed entries for the days before the first one.
RingHolds(d, l) ==
    \A j \in RingIndex :
        d.historic_distributions[(d.oldest_historic_index + j) % HISTORY_SIZE] =
            LET k == Len(l) - HISTORY_SIZE + j + 1
            IN  IF k >= 1 THEN l[k] ELSE ZeroedEntry

LEMMA RingInitially ==
    ASSUME NEW midnight
    PROVE  RingHolds(InitializeDistribution(midnight), << >>)
<1> SUFFICES ASSUME NEW j \in RingIndex
             PROVE  /\ j % HISTORY_SIZE \in RingIndex
                    /\ ~(Len(<< >>) - HISTORY_SIZE + j + 1 >= 1)
  BY DEF RingHolds, InitializeDistribution, RingIndex
<1>1. j \in 0 .. 2 * HISTORY_SIZE - 1 /\ j < HISTORY_SIZE
  BY DistributionAssumption DEF RingIndex
<1>2. j % HISTORY_SIZE = j
  BY <1>1, RingWraps
<1> QED
  BY <1>1, <1>2, DistributionAssumption DEF RingIndex

\* HistoricDistributions insertion writes over the oldest entry.
LEMMA RingInsert ==
    ASSUME NEW d \in DailyDistributionData, NEW e \in Entry, NEW l \in Seq(Entry),
           RingHolds(d, l)
    PROVE  RingHolds(InsertEntry(d, e), Append(l, e))
<1> DEFINE h == HISTORY_SIZE
           o == d.oldest_historic_index
           ring == d.historic_distributions
           n == InsertEntry(d, e)
           m == Append(l, e)
           wrap(x) == x % h
           held(i) == IF Len(l) - h + i + 1 >= 1 THEN l[Len(l) - h + i + 1] ELSE ZeroedEntry
<1>1. h \in Nat \ {0} /\ RingIndex = 0 .. h - 1
  BY DistributionAssumption DEF RingIndex
<1>2. o \in RingIndex /\ ring \in [RingIndex -> Entry]
  BY DEF DailyDistributionData
<1>3. /\ n.historic_distributions = [ring EXCEPT ![o] = e]
      /\ n.oldest_historic_index = wrap(o + 1)
  BY DEF InsertEntry, DailyDistributionData
<1>4. /\ Len(l) \in Nat /\ Len(m) = Len(l) + 1
      /\ m[Len(l) + 1] = e /\ \A k \in 1 .. Len(l) : m[k] = l[k]
  OBVIOUS
<1>5. \A i \in RingIndex : ring[wrap(o + i)] = held(i)
  BY DEF RingHolds
<1>6. \A x \in 0 .. 2 * h - 1 : wrap(x) = IF x < h THEN x ELSE x - h
  BY RingWraps
<1> SUFFICES ASSUME NEW j \in RingIndex
             PROVE  n.historic_distributions[wrap(n.oldest_historic_index + j)] =
                      IF Len(m) - h + j + 1 >= 1 THEN m[Len(m) - h + j + 1] ELSE ZeroedEntry
  BY DEF RingHolds
<1> HIDE DEF h, o, ring, n, m, wrap
<1> DEFINE p == wrap(n.oldest_historic_index + j)
<1>7. p = IF o + 1 + j < h THEN o + 1 + j ELSE o + 1 + j - h
  <2>1. o + 1 \in 0 .. 2 * h - 1
    BY <1>1, <1>2
  <2>2. wrap(o + 1) = IF o + 1 < h THEN o + 1 ELSE o + 1 - h
    BY <1>1, <1>2, <1>6, <2>1
  <2>3. wrap(o + 1) + j \in 0 .. 2 * h - 1
    BY <1>1, <1>2, <2>2
  <2>4. p = IF wrap(o + 1) + j < h THEN wrap(o + 1) + j ELSE wrap(o + 1) + j - h
    BY <1>1, <1>2, <1>3, <1>6, <2>2, <2>3
  <2> HIDE DEF p
  <2> QED
    BY <1>1, <1>2, <2>2, <2>4
<1> HIDE DEF p
<1>8. CASE j = h - 1
  <2>1. p = o
    BY <1>1, <1>2, <1>7, <1>8
  <2>2. Len(m) - h + j + 1 = Len(l) + 1 /\ Len(l) + 1 >= 1
    BY <1>1, <1>4, <1>8
  <2>3. n.historic_distributions[p] = e
    BY <1>2, <1>3, <2>1
  <2> QED
    BY <1>4, <2>2, <2>3 DEF p
<1>9. CASE j # h - 1
  <2>1. j + 1 \in RingIndex /\ o + (j + 1) \in 0 .. 2 * h - 1
    BY <1>1, <1>2, <1>9
  <2>2. p = wrap(o + (j + 1)) /\ p # o /\ p \in RingIndex
    BY <1>1, <1>2, <1>6, <1>7, <2>1
  <2>3. n.historic_distributions[p] = ring[wrap(o + (j + 1))]
    BY <1>2, <1>3, <2>2
  <2>4. n.historic_distributions[p] = held(j + 1)
    BY <1>5, <2>1, <2>3
  <2>5. Len(m) - h + j + 1 = Len(l) - h + (j + 1) + 1
    BY <1>1, <1>4
  <2>6. Len(l) - h + (j + 1) + 1 >= 1 => Len(l) - h + (j + 1) + 1 \in 1 .. Len(l)
    BY <1>1, <1>4, <2>1
  <2> QED
    BY <1>4, <2>4, <2>5, <2>6 DEF p
<1> QED
  BY <1>8, <1>9

\* What into_iter().skip(..) yields for n days.
LEMMA RingYields ==
    ASSUME NEW d \in DailyDistributionData, NEW l \in Seq(Entry), RingHolds(d, l),
           NEW n \in 0 .. HISTORY_SIZE
    PROVE  EntriesForDays(d, n) =
              [i \in 1..n |-> LET k == Len(l) - n + i
                              IN  IF k >= 1 THEN l[k] ELSE ZeroedEntry]
<1>1. HISTORY_SIZE \in Nat \ {0} /\ RingIndex = 0 .. HISTORY_SIZE - 1
  BY DistributionAssumption DEF RingIndex
<1> DEFINE o == d.oldest_historic_index
           held(i) == IF Len(l) - n + i >= 1 THEN l[Len(l) - n + i] ELSE ZeroedEntry
           stored(i) == d.historic_distributions[(o + (HISTORY_SIZE - n) + (i - 1)) % HISTORY_SIZE]
<1>2. o \in RingIndex /\ Len(l) \in Nat
  BY DEF DailyDistributionData
<1>3. ASSUME NEW i \in 1..n
      PROVE  stored(i) = held(i)
  <2> DEFINE j == (HISTORY_SIZE - n) + (i - 1)
  <2>1. /\ j \in RingIndex
        /\ o + (HISTORY_SIZE - n) + (i - 1) = o + j
        /\ Len(l) - HISTORY_SIZE + j + 1 = Len(l) - n + i
    BY <1>1, <1>2
  <2> HIDE DEF j
  <2>2. d.historic_distributions[(o + j) % HISTORY_SIZE] =
          IF Len(l) - HISTORY_SIZE + j + 1 >= 1
          THEN l[Len(l) - HISTORY_SIZE + j + 1] ELSE ZeroedEntry
    BY <2>1 DEF RingHolds
  <2> QED
    BY <2>1, <2>2
<1>4. ~(n > HISTORY_SIZE)
  BY <1>1
<1>5. EntriesForDays(d, n) = [i \in 1..n |-> stored(i)]
  BY <1>4 DEF EntriesForDays
<1> HIDE DEF stored, held
<1>6. [i \in 1..n |-> stored(i)] = [i \in 1..n |-> held(i)]
  BY <1>3
<1> QED
  BY <1>5, <1>6 DEF held

\* For as many days as there were distributions since: those.
LEMMA RingYieldsLast ==
    ASSUME NEW d \in DailyDistributionData, NEW l \in Seq(Entry), RingHolds(d, l),
           NEW k \in 0 .. Len(l), Len(l) - k <= HISTORY_SIZE
    PROVE  EntriesForDays(d, Len(l) - k) = SubSeq(l, k + 1, Len(l))
<1> DEFINE n == Len(l) - k
<1>1. n \in 0 .. HISTORY_SIZE /\ Len(l) \in Nat /\ HISTORY_SIZE \in Nat
  BY DistributionAssumption
<1>2. \A i \in 1..n : Len(l) - n + i >= 1 /\ Len(l) - n + i = k + i
  BY <1>1
<1>3. EntriesForDays(d, n) = [i \in 1..n |-> l[k + i]]
  <2> HIDE DEF n
  <2>1. EntriesForDays(d, n) =
           [i \in 1..n |-> IF Len(l) - n + i >= 1 THEN l[Len(l) - n + i] ELSE ZeroedEntry]
    BY <1>1, RingYields
  <2> QED
    BY <1>2, <2>1
<1>4. SubSeq(l, k + 1, Len(l)) = [i \in 1..n |-> l[k + i]]
  OBVIOUS
<1> QED
  BY <1>3, <1>4
-----------------------------------------------------------------------------
(* Rounding (RoundEven::round_ties_even).                                  *)

\* A quotient rounded half to even is not above a whole number the quotient is
\* not above.
LEMMA RoundBound ==
    ASSUME NEW n \in Nat, NEW d \in Nat \ {0}, NEW k \in Nat, n <= d * k
    PROVE  RoundTiesEven(n, d) \in 0 .. k
<1> DEFINE q == n \div d
           r == n % d
<1>1. q \in Int /\ r \in Int /\ 0 <= r /\ r < d /\ n = d * q + r
  OBVIOUS
<1>2. q >= 0
  OBVIOUS
<1> HIDE DEF q, r
<1>3. q <= k
  <2> SUFFICES ASSUME q >= k + 1 PROVE FALSE
    BY <1>1
  <2>1. d * q >= d * (k + 1)
    BY <1>1
  <2>2. d * (k + 1) = d * k + d
    OBVIOUS
  <2>3. d * k \in Int /\ d * q \in Int /\ d * (k + 1) \in Int
    BY <1>1
  <2> QED
    BY <1>1, <2>1, <2>2, <2>3
<1>4. q = k => r = 0
  BY <1>1
<1>5. RoundTiesEven(n, d) = IF 2 * r < d \/ (2 * r = d /\ q % 2 = 0) THEN q ELSE q + 1
  BY DEF RoundTiesEven, q, r
<1>6. q = k => RoundTiesEven(n, d) = q
  BY <1>1, <1>4, <1>5
<1> QED
  BY <1>1, <1>2, <1>3, <1>5, <1>6

\* And is at most half a unit above it.
LEMMA RoundNear ==
    ASSUME NEW n \in Nat, NEW d \in Nat \ {0}
    PROVE  /\ RoundTiesEven(n, d) \in Nat
           /\ d * RoundTiesEven(n, d) \in Nat
           /\ 2 * (d * RoundTiesEven(n, d)) <= 2 * n + d
<1> DEFINE q == n \div d
           r == n % d
           p == d * q
<1>1. q \in Nat /\ r \in Int /\ 0 <= r /\ r < d /\ n = d * q + r
  OBVIOUS
<1> HIDE DEF q, r
<1>2. p \in Nat /\ n = p + r /\ d * (q + 1) = p + d
  BY <1>1
<1>3. RoundTiesEven(n, d) = IF 2 * r < d \/ (2 * r = d /\ q % 2 = 0) THEN q ELSE q + 1
  BY DEF RoundTiesEven, q, r
<1>4. p = d * q
  OBVIOUS
<1> HIDE DEF p
<1>5. CASE RoundTiesEven(n, d) = q
  BY <1>1, <1>2, <1>4, <1>5
<1>6. CASE RoundTiesEven(n, d) = q + 1 /\ 2 * r >= d
  <2>1. d * RoundTiesEven(n, d) = p + d
    BY <1>2, <1>6
  <2> QED
    BY <1>1, <1>2, <1>6, <2>1
<1>7. RoundTiesEven(n, d) = q \/ (RoundTiesEven(n, d) = q + 1 /\ 2 * r >= d)
  BY <1>1, <1>3
<1> QED
  BY <1>5, <1>6, <1>7

\* One day's interest on a balance, at the rate half/s.
LEMMA InterestOfDay ==
    ASSUME NEW money \in Nat, NEW s \in Nat \ {0}, NEW half \in Nat
    PROVE  LET owed == SaturatingSub(RoundTiesEven(money * (s + half), s), money)
           IN  /\ owed \in Nat
               /\ (2 * s) * owed <= (2 * half) * money + s
<1> DEFINE n == money * (s + half)
           r == RoundTiesEven(n, s)
           sm == s * money
           hm == half * money
           sr == s * r
<1>1. n \in Nat /\ n = sm + hm /\ sm \in Nat /\ hm \in Nat
  OBVIOUS
<1> HIDE DEF n
<1>2. r \in Nat /\ sr \in Nat /\ 2 * sr <= 2 * n + s
  BY <1>1, RoundNear
<1>3. (2 * half) * money = 2 * hm
  OBVIOUS
<1> HIDE DEF r
<1>4. CASE r > money
  <2> DEFINE owed == r - money
  <2>1. owed \in Nat /\ SaturatingSub(r, money) = owed
    BY <1>2, <1>4 DEF SaturatingSub, MaxOf
  <2>2. s * owed = sr - sm
    BY <1>2
  <2>3. (2 * s) * owed = 2 * (sr - sm)
    <3> DEFINE so == s * owed
    <3>1. so = sr - sm
      BY <2>2
    <3> HIDE DEF sr, sm
    <3>2. (2 * s) * owed = 2 * so
      BY <2>1
    <3> QED
      BY <3>1, <3>2
  <2> HIDE DEF owed, sr, sm, hm
  <2>4. (2 * s) * owed <= 2 * hm + s
    BY <1>1, <1>2, <2>3
  <2> QED
    BY <1>3, <2>1, <2>4 DEF r, n
<1>5. CASE ~(r > money)
  <2>1. SaturatingSub(r, money) = 0
    BY <1>2, <1>5 DEF SaturatingSub, MaxOf
  <2>2. (2 * s) * 0 <= 2 * hm + s
    BY <1>1
  <2> QED
    BY <1>3, <2>1, <2>2 DEF r, n
<1> QED
  BY <1>4, <1>5

\* What a distribution gives the interest bank is enough, but for rounding, for
\* the interest at that rate on all that is neither in it nor in the future UBI
\* bank.
LEMMA InterestIsGiven ==
    ASSUME NEW s \in Nat \ {0}, NEW half \in Nat, NEW future \in Nat, NEW circ \in Nat,
           circ + future <= s
    PROVE  LET given == SaturatingSub(half, RoundTiesEven(future * half, s))
           IN  /\ given \in Nat
               /\ (2 * half) * circ <= (2 * s) * given + s
<1> DEFINE n == future * half
           r == RoundTiesEven(n, s)
           given == SaturatingSub(half, r)
           sr == s * r
           sh == s * half
           sg == s * given
           ch == half * circ
<1>1. n \in Nat
  OBVIOUS
<1>2. sh \in Nat /\ ch \in Nat /\ ch + n <= sh
  <2>1. /\ half * circ \in Nat /\ half * future \in Nat /\ half * s \in Nat
        /\ half * (circ + future) = half * circ + half * future
        /\ n = half * future /\ sh = half * s
    OBVIOUS
  <2>2. half * (circ + future) <= half * s
    OBVIOUS
  <2> QED
    BY <2>1, <2>2
<1> HIDE DEF n
<1>3. r \in Nat /\ sr \in Nat /\ 2 * sr <= 2 * n + s
  BY <1>1, RoundNear
<1> HIDE DEF r
<1>4. given \in Nat /\ given >= half - r
  BY <1>3 DEF SaturatingSub, MaxOf
<1> HIDE DEF given
<1>5. sg \in Nat /\ sg >= sh - sr
  <2>1. s * given >= s * (half - r)
    BY <1>3, <1>4
  <2>2. s * (half - r) = s * half - s * r
    BY <1>3
  <2> QED
    BY <1>4, <2>1, <2>2
<1>6. (2 * half) * circ = 2 * ch /\ (2 * s) * given = 2 * sg
  BY <1>4
<1> HIDE DEF sg, sh, sr, ch
<1>7. 2 * ch <= 2 * sg + s
  BY <1>1, <1>2, <1>3, <1>5
<1> QED
  BY <1>4, <1>6, <1>7 DEF given, r, n
-----------------------------------------------------------------------------
(* A distribution (DailyDistributionData::daily_distribution).             *)

\* The multiplier is even, so a distribution has two equal halves.
LEMMA HalvesMakeTotal ==
    ASSUME NEW increase \in Nat
    PROVE  LET total == increase * COMPTOKEN_DISTRIBUTION_MULTIPLIER
           IN  /\ total \in Nat
               /\ total \div 2 \in Nat
               /\ total = 2 * (total \div 2)
<1> DEFINE m == COMPTOKEN_DISTRIBUTION_MULTIPLIER \div 2
           total == increase * COMPTOKEN_DISTRIBUTION_MULTIPLIER
<1>1. m \in Nat /\ COMPTOKEN_DISTRIBUTION_MULTIPLIER = 2 * m
  BY DistributionAssumption
<1> HIDE DEF m
<1>2. total = 2 * (increase * m) /\ increase * m \in Nat
  BY <1>1
<1> HIDE DEF total
<1> DEFINE z == increase * m
<1>3. total = 2 * z /\ z \in Nat
  BY <1>2
<1> HIDE DEF z
<1>4. total \div 2 = z
  BY <1>3
<1> QED
  BY <1>3, <1>4 DEF total

\* What goes to verified humans is part of the UBI half.
LEMMA UbiBound ==
    ASSUME NEW ubi \in Nat, NEW v \in Nat
    PROVE  UbiForVerifiedHumans(ubi, v) \in 0 .. ubi
<1> DEFINE f == FUTURE_UBI_VERIFIED_HUMANS
<1>1. f \in Nat \ {0}
  BY DistributionAssumption
<1>2. CASE 2 * v >= f + v
  BY <1>2 DEF UbiForVerifiedHumans
<1>3. CASE ~(2 * v >= f + v)
  <2>1. 2 * v \in Nat /\ f + v \in Nat \ {0} /\ 2 * v <= f + v
    BY <1>1, <1>3
  <2> DEFINE a == 2 * v
             b == f + v
  <2> HIDE DEF a, b, f
  <2>2. a \in Nat /\ b \in Nat \ {0} /\ a <= b
    BY <2>1 DEF a, b
  <2>3. ubi * a \in Nat /\ ubi * a <= b * ubi
    BY <2>2
  <2>4. RoundTiesEven(ubi * a, b) \in 0 .. ubi
    BY <2>2, <2>3, RoundBound
  <2> QED
    BY <2>4, <1>3 DEF UbiForVerifiedHumans, a, b, f
<1> QED
  BY <1>2, <1>3

\* The three amounts of a distribution are natural numbers, and make its total
\* if the future UBI bank holds at most the supply: its interest is at most the
\* interest half and saturating_sub never saturates.
LEMMA ValuesMakeTotal ==
    ASSUME NEW total \in Nat, total = 2 * (total \div 2), NEW v \in Nat,
           NEW s \in Nat \ {0}, NEW future \in Nat
    PROVE  LET values == DistributionValues(total, v, s, future)
           IN  /\ values.interest_distribution \in Nat
               /\ values.ubi_for_verified_humans \in Nat
               /\ values.future_ubi_distribution \in Nat
               /\ TotalDistributed(values) \in Nat
               /\ future <= s => TotalDistributed(values) = total
<1> DEFINE half == total \div 2
           toHumans == UbiForVerifiedHumans(half, v)
           interest == RoundTiesEven(future * half, s)
           values == DistributionValues(total, v, s, future)
<1>1. half \in Nat /\ total = 2 * half
  OBVIOUS
<1> HIDE DEF half
<1>2. toHumans \in 0 .. half
  BY <1>1, UbiBound
<1>3. interest \in Nat /\ (future <= s => interest \in 0 .. half)
  <2>1. future * half \in Nat /\ (future <= s => future * half <= s * half)
    BY <1>1
  <2>2. future <= s => interest \in 0 .. half
    BY <1>1, <2>1, RoundBound
  <2> QED
    BY <2>1, <2>2, RoundNear
<1>4. values = [interest_distribution |-> SaturatingSub(half, interest),
                ubi_for_verified_humans |-> toHumans,
                future_ubi_distribution |-> (half - toHumans) + interest]
  BY DEF DistributionValues, half
<1> HIDE DEF toHumans, interest, values
<1>5. /\ SaturatingSub(half, interest) \in Nat
      /\ future <= s => SaturatingSub(half, interest) = half - interest
  BY <1>1, <1>3 DEF SaturatingSub, MaxOf
<1>6. /\ TotalDistributed(values) \in Nat
      /\ future <= s => TotalDistributed(values) = total
  BY <1>1, <1>2, <1>3, <1>4, <1>5 DEF TotalDistributed
<1> QED
  BY <1>1, <1>2, <1>3, <1>4, <1>5, <1>6 DEF values

\* The mark grows by at most what puts it at the day's mining.
LEMMA IncreaseBound ==
    ASSUME NEW d \in DailyDistributionData, NEW total \in Nat,
           NEW growth \in GrowthLimits
    PROVE  LET increase == HighWaterMarkIncrease(d, total, growth)
           IN  /\ increase \in Nat
               /\ \/ d.high_water_mark + increase = d.high_water_mark
                  \/ d.high_water_mark + increase <= total
<1> DEFINE g == growth \div COMPTOKEN_DISTRIBUTION_MULTIPLIER
           increase == HighWaterMarkIncrease(d, total, growth)
           uncapped == MaxOf(d.high_water_mark, total) - d.high_water_mark
<1>1. g \in Int
  BY DistributionAssumption
<1>2. d.high_water_mark \in Nat
  BY DEF DailyDistributionData
<1>3. MaxAllowableHwmIncrease(growth) = MaxOf(g, 1)
  BY DEF MaxAllowableHwmIncrease
<1> HIDE DEF g
<1>4. uncapped \in Nat /\ (uncapped = 0 \/ d.high_water_mark + uncapped = total)
  BY <1>2 DEF MaxOf
<1>5. MaxOf(g, 1) \in Nat
  BY <1>1 DEF MaxOf
<1>6. increase = IF d.yesterday_supply < MIN_SUPPLY_LIMIT_AMT
                 THEN uncapped ELSE MinOf(uncapped, MaxOf(g, 1))
  BY <1>3 DEF HighWaterMarkIncrease
<1> HIDE DEF uncapped
<1>7. increase \in Nat /\ increase <= uncapped
  BY <1>4, <1>5, <1>6 DEF MinOf
<1> QED
  BY <1>2, <1>4, <1>7

-----------------------------------------------------------------------------
(* And its entry.                                                          *)

LEMMA InsertTypes ==
    ASSUME NEW d \in DailyDistributionData, NEW e \in Entry
    PROVE  LET n == InsertEntry(d, e)
           IN  /\ n \in DailyDistributionData
               /\ n.historic_distributions[d.oldest_historic_index] = e
               /\ n.yesterday_supply = d.yesterday_supply
               /\ n.high_water_mark = d.high_water_mark
               /\ n.last_daily_distribution_time = d.last_daily_distribution_time
               /\ n.verified_humans = d.verified_humans
               /\ n.historic_distributions =
                     [d.historic_distributions EXCEPT ![d.oldest_historic_index] = e]
               /\ n.oldest_historic_index = (d.oldest_historic_index + 1) % HISTORY_SIZE
<1> DEFINE i == d.oldest_historic_index
           j == (i + 1) % HISTORY_SIZE
           ring == [d.historic_distributions EXCEPT ![i] = e]
           n == InsertEntry(d, e)
<1>1. i \in RingIndex /\ d.historic_distributions \in [RingIndex -> Entry]
  BY DEF DailyDistributionData
<1>2. j \in RingIndex
  BY <1>1, DistributionAssumption DEF RingIndex
<1>3. ring \in [RingIndex -> Entry] /\ ring[i] = e
  BY <1>1
<1>4. n = [d EXCEPT !.historic_distributions = ring, !.oldest_historic_index = j]
  BY DEF InsertEntry
<1> HIDE DEF n, j, ring
<1>5. /\ n \in DailyDistributionData
      /\ n.historic_distributions = ring
      /\ n.oldest_historic_index = j
      /\ n.yesterday_supply = d.yesterday_supply
      /\ n.high_water_mark = d.high_water_mark
      /\ n.last_daily_distribution_time = d.last_daily_distribution_time
      /\ n.verified_humans = d.verified_humans
  BY <1>2, <1>3, <1>4 DEF DailyDistributionData
<1> QED
  BY <1>3, <1>5 DEF n, j, ring

\* The ring and its index are those that InsertEntry leaves with this entry; it
\* holds no UBI while there are no verified humans.
Inserts(n, d, e) ==
    /\ n.historic_distributions =
          [d.historic_distributions EXCEPT ![d.oldest_historic_index] = e]
    /\ n.oldest_historic_index = (d.oldest_historic_index + 1) % HISTORY_SIZE
    /\ d.verified_humans = 0 => e.ubi = 0

\* What the interest bank is given for an entry, while nobody is verified: the
\* interest half that the entry promises on the supply s, but for what is due to
\* the future UBI bank.
Funds(interest, entry, s, future) ==
    \/ entry = NeutralEntry /\ interest = 0
    \/ /\ s > 0
       /\ \E half \in Nat :
             /\ entry = [num |-> s + half, den |-> s, ubi |-> 0]
             /\ interest = SaturatingSub(half, RoundTiesEven(future * half, s))

\* A result of daily_distribution on the data d and the supply s: the minted
\* total is the multiplier times the growth of the mark if the future UBI bank
\* holds at most the supply; the mark stays at a day's mining, and the new
\* baseline is the supply after the mints.
SoundResult(result, d, midnight, s, future) ==
    LET n == result.data
        values == result.values
    IN  /\ n \in DailyDistributionData
        /\ n.historic_distributions[d.oldest_historic_index] \in Entry
        /\ Inserts(n, d, n.historic_distributions[d.oldest_historic_index])
        /\ n.verified_humans = d.verified_humans
        /\ n.last_daily_distribution_time = midnight
        /\ values.interest_distribution \in Nat
        /\ values.ubi_for_verified_humans \in Nat
        /\ values.future_ubi_distribution \in Nat
        /\ d.verified_humans = 0 =>
              Funds(values.interest_distribution,
                    n.historic_distributions[d.oldest_historic_index], s, future)
        /\ TotalDistributed(values) \in Nat
        /\ \E increase \in Nat :
              /\ future <= s =>
                    TotalDistributed(values) = increase * COMPTOKEN_DISTRIBUTION_MULTIPLIER
              /\ n.high_water_mark = d.high_water_mark + increase
              /\ \/ increase = 0
                 \/ n.high_water_mark + d.yesterday_supply <= s
        /\ n.yesterday_supply = s + TotalDistributed(values)

\* daily_distribution is sound where the baseline is not above the supply.
LEMMA DistributionResult ==
    ASSUME NEW d \in DailyDistributionData, NEW midnight \in Int,
           NEW s \in Nat, NEW future \in Nat, NEW growth \in GrowthLimits,
           d.yesterday_supply <= s
    PROVE  SoundResult(DailyDistributionResult(d, midnight, s, future, growth), d, midnight,
                       s, future)
<1> DEFINE result == DailyDistributionResult(d, midnight, s, future, growth)
           dated == [d EXCEPT !.last_daily_distribution_time = midnight]
           mining == DailyMiningTotal(d, s)
           increase == HighWaterMarkIncrease(d, mining, growth)
           total == increase * COMPTOKEN_DISTRIBUTION_MULTIPLIER
           v == d.verified_humans
           values == DistributionValues(total, v, s, future)
           day == EntryOfDay(total, v, s)
<1>1. /\ dated \in DailyDistributionData
      /\ dated.oldest_historic_index = d.oldest_historic_index
      /\ dated.historic_distributions = d.historic_distributions
      /\ dated.verified_humans = d.verified_humans
      /\ dated.yesterday_supply = d.yesterday_supply
      /\ dated.high_water_mark = d.high_water_mark
      /\ dated.last_daily_distribution_time = midnight
      /\ d.yesterday_supply \in Nat /\ d.high_water_mark \in Nat /\ v \in Nat
      /\ d.oldest_historic_index \in RingIndex
  BY DEF DailyDistributionData
<1>2. mining \in Nat /\ mining = s - d.yesterday_supply
  BY <1>1 DEF DailyMiningTotal
<1> HIDE DEF dated
<1>3. CASE mining = 0
  <2>1. /\ result.values = NoDistribution
        /\ result.data = InsertEntry(dated, NeutralEntry)
    BY <1>3 DEF DailyDistributionResult, dated
  <2>2. NeutralEntry \in Entry
    BY DEF NeutralEntry, Entry
  <2>3. /\ result.data \in DailyDistributionData
        /\ result.data.historic_distributions[d.oldest_historic_index] = NeutralEntry
        /\ result.data.yesterday_supply = d.yesterday_supply
        /\ result.data.high_water_mark = d.high_water_mark
        /\ result.data.last_daily_distribution_time = midnight
        /\ result.data.verified_humans = d.verified_humans
        /\ Inserts(result.data, d, NeutralEntry)
    BY <1>1, <2>1, <2>2, InsertTypes DEF Inserts, NeutralEntry
  <2>4. /\ TotalDistributed(result.values) = 0
        /\ result.values.interest_distribution = 0
        /\ result.values.ubi_for_verified_humans = 0
        /\ result.values.future_ubi_distribution = 0
    BY <2>1 DEF NoDistribution, TotalDistributed
  <2>5. 0 = 0 * COMPTOKEN_DISTRIBUTION_MULTIPLIER
    BY DistributionAssumption
  <2> HIDE DEF result
  <2> QED
    BY <1>1, <1>2, <1>3, <2>2, <2>3, <2>4, <2>5 DEF result, SoundResult, Funds
<1>4. CASE mining # 0
  <2>1. s \in Nat \ {0}
    BY <1>1, <1>2, <1>4
  <2>2. /\ increase \in Nat
        /\ \/ d.high_water_mark + increase = d.high_water_mark
           \/ d.high_water_mark + increase <= mining
    BY <1>2, IncreaseBound
  <2>3. total \in Nat /\ total \div 2 \in Nat /\ total = 2 * (total \div 2)
    BY <2>2, HalvesMakeTotal
  <2> HIDE DEF total, increase
  <2>4. /\ values.interest_distribution \in Nat
        /\ values.ubi_for_verified_humans \in Nat
        /\ values.future_ubi_distribution \in Nat
        /\ TotalDistributed(values) \in Nat
        /\ future <= s => TotalDistributed(values) = total
    <3>1. v \in Nat
      BY <1>1
    <3> HIDE DEF v
    <3> QED
      BY <2>1, <2>3, <3>1, ValuesMakeTotal
  <2>5. /\ day \in Entry
        /\ v = 0 => day.ubi = 0 /\ Funds(values.interest_distribution, day, s, future)
    <3> DEFINE half == total \div 2
               u == UbiForVerifiedHumans(half, v)
    <3>1. half \in Nat
      BY <2>3
    <3> HIDE DEF half
    <3>2. u \in 0 .. half
      BY <1>1, <3>1, UbiBound
    <3> HIDE DEF u
    <3>3. u \in Nat
      BY <3>1, <3>2
    <3>4. v # 0 => u \div v \in Nat
      BY <1>1, <3>3
    <3>5. day = [num |-> s + half, den |-> s, ubi |-> IF v = 0 THEN 0 ELSE u \div v]
      BY DEF EntryOfDay, half, u
    <3>6. values.interest_distribution = SaturatingSub(half, RoundTiesEven(future * half, s))
      BY DEF DistributionValues, half
    <3> HIDE DEF values, day
    <3>7. v = 0 => Funds(values.interest_distribution, day, s, future)
      BY <2>1, <3>1, <3>5, <3>6 DEF Funds
    <3> QED
      BY <2>1, <3>1, <3>4, <3>5, <3>7 DEF Entry
  <2> DEFINE entered == InsertEntry(dated, day)
  <2>6. /\ result.values = values
        /\ result.data = [entered EXCEPT
                            !.high_water_mark = entered.high_water_mark + increase,
                            !.yesterday_supply = s + TotalDistributed(values)]
    BY <1>4 DEF DailyDistributionResult, dated, increase, total
  <2>7. /\ entered \in DailyDistributionData
        /\ entered.historic_distributions[d.oldest_historic_index] = day
        /\ entered.high_water_mark = d.high_water_mark
        /\ entered.last_daily_distribution_time = midnight
        /\ entered.verified_humans = d.verified_humans
        /\ Inserts(entered, d, day)
    BY <1>1, <2>5, InsertTypes DEF Inserts
  <2> HIDE DEF entered, values, day, result
  <2>8. /\ d.high_water_mark + increase \in Nat
        /\ s + TotalDistributed(values) \in Nat
    BY <1>1, <2>2, <2>3, <2>4
  <2>9. /\ result.data \in DailyDistributionData
        /\ result.data.historic_distributions = entered.historic_distributions
        /\ result.data.oldest_historic_index = entered.oldest_historic_index
        /\ result.data.verified_humans = entered.verified_humans
        /\ result.data.high_water_mark = d.high_water_mark + increase
        /\ result.data.yesterday_supply = s + TotalDistributed(values)
        /\ result.data.last_daily_distribution_time = midnight
    BY <2>6, <2>7, <2>8 DEF DailyDistributionData
  <2>10. increase = 0 \/ result.data.high_water_mark + d.yesterday_supply <= s
    BY <1>1, <1>2, <2>2, <2>9
  <2> QED
    BY <2>2, <2>4, <2>5, <2>6, <2>7, <2>9, <2>10 DEF total, result, SoundResult, Inserts
<1> QED
  BY <1>2, <1>3, <1>4
=============================================================================
