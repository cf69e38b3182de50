----------------------------- MODULE FoldLemmas -----------------------------
(***************************************************************************)
(* Lemmas about the folds and sums of the community modules, over finite   *)
(* sets.  A fold chooses a recursive function: that it exists and is       *)
(* unique is shown first.  The induction that each lemma needs is had by a *)
(* set: a set of subsets that has the empty one, and each that it has      *)
(* without one element, has them all (RemovalInduction).                   *)
(***************************************************************************)
EXTENDS Integers, FiniteSets, Functions, FiniteSetTheorems, WellFoundedInduction, TLAPS

\* A set of naturals has a least element.
LEMMA LeastOf == ASSUME NEW T, T \subseteq Nat, T # {} PROVE \E x \in T : \A y \in T : x <= y
  <1> DEFINE Less == {p \in Nat \X Nat : p[1] < p[2]}
  <1>1. OpToRel(<, Nat) = Less
    BY DEF OpToRel
  <1>2. IsWellFoundedOn(Less, Nat)
    BY <1>1, NatLessThanWellFounded
  <1>3. PICK x \in T : \A y \in T : ~(<<y, x>> \in Less)
    <2> HIDE DEF Less
    <2> QED
      BY <1>2, WFMin
  <1>4. \A y \in T : ~(y < x) /\ x \in Nat /\ y \in Nat
    BY <1>3
  <1> QED
    BY <1>4

\* A set of subsets that has a set when it has all smaller ones has them all.
LEMMA SubsetInduction ==
    ASSUME NEW D, IsFiniteSet(D), NEW P,
           \A s \in SUBSET D : (\A t \in SUBSET D : Cardinality(t) < Cardinality(s) => t \in P) => s \in P
    PROVE  \A s \in SUBSET D : s \in P
<1> DEFINE Bad == {s \in SUBSET D : s \notin P}
           Sizes == {Cardinality(s) : s \in Bad}
<1>1. \A s \in SUBSET D : Cardinality(s) \in Nat
  BY FS_Subset, FS_CardinalityType
<1>2. Sizes \subseteq Nat
  BY <1>1
<1> SUFFICES ASSUME Bad # {} PROVE FALSE
  OBVIOUS
<1>3. PICK n \in Sizes : \A k \in Sizes : n <= k
  <2>1. Sizes # {}
    OBVIOUS
  <2> HIDE DEF Sizes
  <2> QED
    BY <1>2, <2>1, LeastOf
<1>4. PICK s \in Bad : n = Cardinality(s)
  BY <1>3
<1>5. \A t \in SUBSET D : Cardinality(t) < Cardinality(s) => t \in P
  <2> SUFFICES ASSUME NEW t \in SUBSET D, Cardinality(t) < Cardinality(s), t \notin P PROVE FALSE
    OBVIOUS
  <2>1. Cardinality(t) \in Sizes
    OBVIOUS
  <2>2. n <= Cardinality(t)
    BY <2>1, <1>3
  <2> QED
    BY <1>1, <1>4, <2>2
<1> QED
  BY <1>4, <1>5

LEMMA SmallerWithout ==
    ASSUME NEW D, IsFiniteSet(D), NEW s \in SUBSET D, NEW x \in s
    PROVE  /\ Cardinality(s \ {x}) \in Nat /\ Cardinality(s) = Cardinality(s \ {x}) + 1
           /\ Cardinality(s \ {x}) < Cardinality(s)
<1>1. IsFiniteSet(s) /\ Cardinality(s) \in Nat
  BY FS_Subset, FS_CardinalityType
<1>2. IsFiniteSet(s \ {x}) /\ Cardinality(s \ {x}) = Cardinality(s) - 1
  BY <1>1, FS_RemoveElement
<1>3. Cardinality(s \ {x}) \in Nat
  BY <1>2, FS_CardinalityType
<1> QED
  BY <1>1, <1>2, <1>3

\* What follows from a set without one element holds of every set.
LEMMA RemovalInduction ==
    ASSUME NEW D, IsFiniteSet(D), NEW P, {} \in P,
           \A s \in SUBSET D : \A x \in s : s \ {x} \in P => s \in P
    PROVE  \A s \in SUBSET D : s \in P
<1>1. ASSUME NEW s \in SUBSET D, \A t \in SUBSET D : Cardinality(t) < Cardinality(s) => t \in P
      PROVE  s \in P
  <2>1. CASE s = {}
    BY <2>1
  <2>2. CASE s # {}
    <3>1. PICK x \in s : TRUE
      BY <2>2
    <3>2. Cardinality(s \ {x}) < Cardinality(s)
      BY SmallerWithout
    <3> QED
      BY <1>1, <3>2
  <2> QED
    BY <2>1, <2>2
<1> QED
  BY <1>1, SubsetInduction

-----------------------------------------------------------------------------
(* Folds.  c names the element that is taken out of a set first, step is   *)
(* what is done with it and with the fold of the others.                   *)
Folds(g, S, c, step, base) ==
    g = [s \in SUBSET S |-> IF s = {} THEN base ELSE step[<<c[s], g[s \ {c[s]}]>>]]

Picks(c, D) == \A s \in SUBSET D : s # {} => c[s] \in s

LEMMA FoldIsUnique ==
    ASSUME NEW D, IsFiniteSet(D), NEW c, Picks(c, D), NEW step, NEW base,
           NEW S \in SUBSET D, NEW T \in SUBSET D, NEW g, NEW h,
           Folds(g, S, c, step, base), Folds(h, T, c, step, base)
    PROVE  \A s \in SUBSET (S \cap T) : g[s] = h[s]
<1> DEFINE P == {s \in SUBSET D : s \in SUBSET (S \cap T) => g[s] = h[s]}
<1>1. ASSUME NEW s \in SUBSET D, \A t \in SUBSET D : Cardinality(t) < Cardinality(s) => t \in P
      PROVE  s \in P
  <2> SUFFICES ASSUME s \in SUBSET (S \cap T) PROVE g[s] = h[s]
    OBVIOUS
  <2>1. CASE s = {}
    <3>1. g[{}] = base /\ h[{}] = base
      BY DEF Folds
    <3> QED
      BY <2>1, <3>1
  <2>2. CASE s # {}
    <3>1. PICK x \in s : x = c[s]
      BY <2>2 DEF Picks
    <3>2. Cardinality(s \ {x}) < Cardinality(s)
      BY SmallerWithout
    <3>3. g[s \ {x}] = h[s \ {x}]
      BY <1>1, <3>2
    <3>4. g[s] = step[<<x, g[s \ {x}]>>]
      BY <2>2, <3>1 DEF Folds
    <3>5. h[s] = step[<<x, h[s \ {x}]>>]
      BY <2>2, <3>1 DEF Folds
    <3> QED
      BY <3>3, <3>4, <3>5
  <2> QED
    BY <2>1, <2>2
<1> HIDE DEF P
<1>2. \A s \in SUBSET D : s \in P
  BY <1>1, SubsetInduction
<1> QED
  BY <1>2 DEF P

LEMMA FoldExists ==
    ASSUME NEW D, IsFiniteSet(D), NEW c, Picks(c, D), NEW V, NEW base \in V,
           NEW step \in [D \X V -> V]
    PROVE  \E g \in [SUBSET D -> V] : Folds(g, D, c, step, base)
<1> DEFINE Has(s) == \E g \in [SUBSET s -> V] : Folds(g, s, c, step, base)
           P == {s \in SUBSET D : Has(s)}
<1>1. ASSUME NEW s \in SUBSET D, \A t \in SUBSET D : Cardinality(t) < Cardinality(s) => t \in P
      PROVE  s \in P
  <2> DEFINE At(t) == CHOOSE g \in [SUBSET t -> V] : Folds(g, t, c, step, base)
             New == [t \in SUBSET s |-> IF t = {} THEN base
                                        ELSE step[<<c[t], At(t \ {c[t]})[t \ {c[t]}]>>]]
  <2>1. ASSUME NEW t \in SUBSET s, NEW x \in t
        PROVE  At(t \ {x}) \in [SUBSET (t \ {x}) -> V] /\ Folds(At(t \ {x}), t \ {x}, c, step, base)
    <3>1. IsFiniteSet(t) /\ Cardinality(t) <= Cardinality(s) /\ IsFiniteSet(s)
      BY FS_Subset
    <3>2. Cardinality(t \ {x}) < Cardinality(t) /\ Cardinality(t \ {x}) \in Nat /\ Cardinality(t) \in Nat
      BY SmallerWithout, FS_CardinalityType, <3>1
    <3>3. Cardinality(t \ {x}) < Cardinality(s)
      BY <3>1, <3>2, FS_CardinalityType
    <3>4. Has(t \ {x})
      BY <1>1, <3>3
    <3> QED
      BY <3>4
  <2>2. ASSUME NEW t \in SUBSET s, t # {} PROVE c[t] \in t
    BY <2>2 DEF Picks
  <2> HIDE DEF At
  <2>3. New \in [SUBSET s -> V]
    <3> SUFFICES ASSUME NEW t \in SUBSET s PROVE New[t] \in V
      OBVIOUS
    <3>1. CASE t # {}
      <4>1. PICK x \in t : x = c[t]
        BY <2>2, <3>1
      <4>2. At(t \ {x})[t \ {x}] \in V
        <5>1. At(t \ {x}) \in [SUBSET (t \ {x}) -> V] /\ t \ {x} \in SUBSET (t \ {x})
          BY <2>1
        <5> QED
          BY <5>1
      <4>3. New[t] = step[<<x, At(t \ {x})[t \ {x}]>>]
        BY <3>1, <4>1
      <4> QED
        BY <4>2, <4>3
    <3> QED
      BY <3>1
  <2>4. ASSUME NEW t \in SUBSET s, NEW x \in t PROVE New[t \ {x}] = At(t \ {x})[t \ {x}]
    <3> DEFINE u == t \ {x}
    <3>1. At(u) \in [SUBSET u -> V] /\ Folds(At(u), u, c, step, base)
      BY <2>1
    <3>2. CASE u = {}
      <4>1. At(u)[u] = base
        BY <3>1, <3>2 DEF Folds
      <4>2. New[u] = base
        BY <3>2
      <4> QED
        BY <4>1, <4>2
    <3>3. CASE u # {}
      <4>1. PICK y \in u : y = c[u]
        BY <3>3, <2>2
      <4>2. At(u)[u] = step[<<y, At(u)[u \ {y}]>>]
        BY <3>1, <3>3, <4>1 DEF Folds
      <4>3. New[u] = step[<<y, At(u \ {y})[u \ {y}]>>]
        BY <3>3, <4>1
      <4>4. Folds(At(u \ {y}), u \ {y}, c, step, base)
        BY <2>1
      <4>5. At(u)[u \ {y}] = At(u \ {y})[u \ {y}]
        <5>1. u \in SUBSET D /\ u \ {y} \in SUBSET D /\ u \ {y} \in SUBSET (u \cap (u \ {y}))
          OBVIOUS
        <5> HIDE DEF u
        <5> QED
          BY <3>1, <4>4, <5>1, FoldIsUnique
      <4> QED
        BY <4>2, <4>3, <4>5
    <3> QED
      BY <3>2, <3>3
  <2>5. Folds(New, s, c, step, base)
    <3> SUFFICES \A t \in SUBSET s : New[t] = IF t = {} THEN base ELSE step[<<c[t], New[t \ {c[t]}]>>]
      BY Zenon DEF Folds
    <3> TAKE t \in SUBSET s
    <3>1. CASE t # {}
      <4>1. PICK x \in t : x = c[t]
        BY <2>2, <3>1
      <4>2. New[t] = step[<<x, At(t \ {x})[t \ {x}]>>]
        BY <3>1, <4>1
      <4> QED
        BY <2>4, <3>1, <4>1, <4>2
    <3> QED
      BY <3>1
  <2> HIDE DEF New
  <2> QED
    BY <2>3, <2>5
<1> HIDE DEF P
<1>2. \A s \in SUBSET D : s \in P
  BY <1>1, SubsetInduction
<1> QED
  BY <1>2 DEF P

-----------------------------------------------------------------------------
(* Sums.                                                                   *)
Chosen(s) == CHOOSE x \in s : TRUE

SumStep(f, g, s) == IF s = {} THEN 0 ELSE f[Chosen(s)] + g[s \ {Chosen(s)}]

SumsOf(f, g, D) == g = [s \in SUBSET D |-> SumStep(f, g, s)]

LEMMA SumIs == ASSUME NEW f PROVE SumFunction(f) = (CHOOSE g : SumsOf(f, g, DOMAIN f))[DOMAIN f]
  BY DEF SumFunction, SumFunctionOnSet, FoldFunctionOnSet, MapThenFoldSet, SumsOf, SumStep, Chosen

LEMMA SumsAt ==
    ASSUME NEW f, NEW g, NEW D, SumsOf(f, g, D), NEW s \in SUBSET D
    PROVE  /\ s = {} => g[s] = 0
           /\ s # {} => \E x \in s : x = Chosen(s) /\ g[s] = f[x] + g[s \ {x}]
<1>1. g[s] = SumStep(f, g, s)
  BY DEF SumsOf
<1>2. ASSUME s # {} PROVE Chosen(s) \in s
  BY <1>2 DEF Chosen
<1> QED
  BY <1>1, <1>2 DEF SumStep

LEMMA SumsAgree ==
    ASSUME NEW D, IsFiniteSet(D), NEW f, NEW e, NEW g, NEW h, NEW S \in SUBSET D, NEW T \in SUBSET D,
           SumsOf(f, g, S), SumsOf(e, h, T), \A x \in S \cap T : f[x] = e[x]
    PROVE  \A s \in SUBSET (S \cap T) : g[s] = h[s]
<1> DEFINE P == {s \in SUBSET D : s \in SUBSET (S \cap T) => g[s] = h[s]}
<1>1. ASSUME NEW s \in SUBSET D, \A t \in SUBSET D : Cardinality(t) < Cardinality(s) => t \in P
      PROVE  s \in P
  <2> SUFFICES ASSUME s \in SUBSET (S \cap T) PROVE g[s] = h[s]
    OBVIOUS
  <2>1. CASE s = {}
    BY <2>1, SumsAt
  <2>2. CASE s # {}
    <3>1. PICK x \in s : x = Chosen(s) /\ g[s] = f[x] + g[s \ {x}]
      BY <2>2, SumsAt
    <3>2. PICK y \in s : y = Chosen(s) /\ h[s] = e[y] + h[s \ {y}]
      BY <2>2, SumsAt
    <3>3. Cardinality(s \ {x}) < Cardinality(s)
      BY SmallerWithout
    <3>4. g[s \ {x}] = h[s \ {x}]
      BY <1>1, <3>3
    <3>5. y = x /\ f[x] = e[x]
      BY <3>1, <3>2
    <3> QED
      BY <3>1, <3>2, <3>4, <3>5
  <2> QED
    BY <2>1, <2>2
<1> HIDE DEF P
<1>2. \A s \in SUBSET D : s \in P
  BY <1>1, SubsetInduction
<1> QED
  BY <1>2 DEF P

LEMMA SumsExist ==
    ASSUME NEW D, IsFiniteSet(D), NEW f \in [D -> Int]
    PROVE  \E g \in [SUBSET D -> Int] : SumsOf(f, g, D)
<1> DEFINE c == [s \in SUBSET D |-> Chosen(s)]
           step == [p \in D \X Int |-> f[p[1]] + p[2]]
<1>1. Picks(c, D)
  BY DEF Picks, Chosen
<1>2. step \in [D \X Int -> Int]
  OBVIOUS
<1>3. \E g \in [SUBSET D -> Int] : Folds(g, D, c, step, 0)
  <2>1. 0 \in Int
    OBVIOUS
  <2> HIDE DEF c, step
  <2> QED
    BY <1>1, <1>2, <2>1, FoldExists, Zenon
<1>4. PICK g \in [SUBSET D -> Int] : Folds(g, D, c, step, 0)
  BY <1>3
<1>5. ASSUME NEW s \in SUBSET D PROVE g[s] = SumStep(f, g, s)
  <2>1. CASE s = {}
    <3>1. g[{}] = 0
      BY <1>4 DEF Folds
    <3> QED
      BY <2>1, <3>1 DEF SumStep
  <2>2. CASE s # {}
    <3>1. PICK x \in s : x = Chosen(s)
      BY <2>2 DEF Chosen
    <3>2. c[s] = x
      BY <3>1
    <3>3. g[s] = step[<<x, g[s \ {x}]>>]
      <4> HIDE DEF c, step
      <4> QED
        BY <1>4, <2>2, <3>2 DEF Folds
    <3>4. g[s \ {x}] \in Int /\ x \in D
      OBVIOUS
    <3>5. g[s] = f[x] + g[s \ {x}]
      BY <3>3, <3>4
    <3> QED
      BY <2>2, <3>1, <3>5 DEF SumStep
  <2> QED
    BY <2>1, <2>2
<1>6. SumsOf(f, g, D)
  BY <1>5 DEF SumsOf
<1> QED
  BY <1>6

\* One table has the sums over all parts of a domain.
IsTable(g, f, D) ==
    SumsOf(f, g, D) /\ \A s \in SUBSET D : SumFunction(Restrict(f, s)) = g[s]

LEMMA SumTable ==
    ASSUME NEW D, IsFiniteSet(D), NEW f \in [D -> Int]
    PROVE  \E g \in [SUBSET D -> Int] : IsTable(g, f, D)
<1>1. PICK g \in [SUBSET D -> Int] : SumsOf(f, g, D)
  BY SumsExist
<1>2. ASSUME NEW s \in SUBSET D PROVE SumFunction(Restrict(f, s)) = g[s]
  <2> DEFINE e == Restrict(f, s)
  <2>1. e \in [s -> Int] /\ DOMAIN e = s /\ \A x \in s : e[x] = f[x]
    BY DEF Restrict
  <2> HIDE DEF e
  <2>2. IsFiniteSet(s)
    BY FS_Subset
  <2>3. \E h : SumsOf(e, h, s)
    BY <2>1, <2>2, SumsExist
  <2>4. SumsOf(e, CHOOSE h : SumsOf(e, h, s), s)
    BY <2>3
  <2>5. PICK h : SumsOf(e, h, s) /\ SumFunction(e) = h[s]
    BY <2>1, <2>4, SumIs
  <2>6. s \in SUBSET (D \cap s)
    OBVIOUS
  <2>7. g[s] = h[s]
    BY <1>1, <2>1, <2>5, <2>6, SumsAgree
  <2> QED
    BY <2>5, <2>7 DEF e
<1> QED
  BY <1>1, <1>2 DEF IsTable

LEMMA RestrictAll == ASSUME NEW D, NEW f, f = [x \in D |-> f[x]] PROVE Restrict(f, D) = f
  BY DEF Restrict

LEMMA SumIsInt ==
    ASSUME NEW D, IsFiniteSet(D), NEW f \in [D -> Int] PROVE SumFunction(f) \in Int
<1>1. PICK g \in [SUBSET D -> Int] : IsTable(g, f, D)
  BY SumTable
<1>2. Restrict(f, D) = f /\ D \in SUBSET D
  BY RestrictAll
<1> QED
  BY <1>1, <1>2 DEF IsTable

LEMMA SumEmpty == ASSUME NEW f \in [{} -> Int] PROVE SumFunction(f) = 0
<1>1. IsFiniteSet({})
  BY FS_EmptySet
<1>2. PICK g \in [SUBSET {} -> Int] : IsTable(g, f, {})
  BY <1>1, SumTable
<1>3. Restrict(f, {}) = f /\ {} \in SUBSET {}
  BY RestrictAll
<1>4. g[{}] = 0
  BY <1>2, <1>3, SumsAt DEF IsTable
<1> QED
  BY <1>2, <1>3, <1>4 DEF IsTable

\* The sum does not depend on which element is taken first.
LEMMA SumRemove ==
    ASSUME NEW D, IsFiniteSet(D), NEW f \in [D -> Int], NEW x \in D
    PROVE  SumFunction(f) = f[x] + SumFunction(Restrict(f, D \ {x}))
<1>1. PICK g \in [SUBSET D -> Int] : IsTable(g, f, D)
  BY SumTable
<1> DEFINE P == {s \in SUBSET D : \A y \in s : g[s] = f[y] + g[s \ {y}]}
<1>2. ASSUME NEW s \in SUBSET D, \A t \in SUBSET D : Cardinality(t) < Cardinality(s) => t \in P
      PROVE  s \in P
  <2> SUFFICES ASSUME NEW y \in s PROVE g[s] = f[y] + g[s \ {y}]
    OBVIOUS
  <2>1. PICK z \in s : g[s] = f[z] + g[s \ {z}]
    BY <1>1, SumsAt DEF IsTable
  <2>2. CASE y = z
    BY <2>1, <2>2
  <2>3. CASE y # z
    <3>1. s \ {z} \in P /\ s \ {y} \in P
      BY <1>2, SmallerWithout
    <3>2. g[s \ {z}] = f[y] + g[(s \ {z}) \ {y}]
      BY <2>3, <3>1
    <3>3. g[s \ {y}] = f[z] + g[(s \ {y}) \ {z}]
      BY <2>3, <3>1
    <3>4. (s \ {y}) \ {z} = (s \ {z}) \ {y}
      OBVIOUS
    <3>5. PICK rest \in SUBSET D : rest = (s \ {y}) \ {z}
      OBVIOUS
    <3>6. g[rest] \in Int /\ f[y] \in Int /\ f[z] \in Int
      OBVIOUS
    <3>7. g[s] = f[z] + (f[y] + g[rest])
      BY <2>1, <3>2, <3>4, <3>5
    <3>8. g[s \ {y}] = f[z] + g[rest]
      BY <3>3, <3>5
    <3>9. \A a, b, k \in Int : b + (a + k) = a + (b + k)
      OBVIOUS
    <3> QED
      BY <3>6, <3>7, <3>8, <3>9
  <2> QED
    BY <2>2, <2>3
<1> HIDE DEF P
<1>3. D \in P
  <2>1. \A s \in SUBSET D : s \in P
    BY <1>2, SubsetInduction
  <2> QED
    BY <2>1
<1>4. g[D] = f[x] + g[D \ {x}]
  BY <1>3 DEF P
<1>5. Restrict(f, D) = f /\ D \in SUBSET D /\ D \ {x} \in SUBSET D
  BY RestrictAll
<1> QED
  BY <1>1, <1>4, <1>5 DEF IsTable

LEMMA SumOfPart ==
    ASSUME NEW D, IsFiniteSet(D), NEW f \in [D -> Int], NEW s \in SUBSET D
    PROVE  /\ SumFunction(Restrict(f, s)) \in Int
           /\ \A x \in s : SumFunction(Restrict(f, s)) = f[x] + SumFunction(Restrict(f, s \ {x}))
<1>1. IsFiniteSet(s)
  BY FS_Subset
<1>2. PICK e : e = Restrict(f, s)
  OBVIOUS
<1>3. e \in [s -> Int] /\ \A x \in s : e[x] = f[x]
  BY <1>2 DEF Restrict
<1>4. SumFunction(e) \in Int
  BY <1>1, <1>3, SumIsInt
<1>5. ASSUME NEW x \in s PROVE SumFunction(e) = f[x] + SumFunction(Restrict(f, s \ {x}))
  <2>1. Restrict(e, s \ {x}) = Restrict(f, s \ {x})
    BY <1>3 DEF Restrict
  <2>2. SumFunction(e) = e[x] + SumFunction(Restrict(e, s \ {x}))
    BY <1>1, <1>3, SumRemove
  <2> QED
    BY <1>3, <2>1, <2>2
<1> QED
  BY <1>2, <1>4, <1>5

LEMMA SumOfNone == ASSUME NEW f PROVE SumFunction(Restrict(f, {})) = 0
<1>1. Restrict(f, {}) \in [{} -> Int]
  BY DEF Restrict
<1> QED
  BY <1>1, SumEmpty

\* The sum of a sum.
LEMMA SumAdd ==
    ASSUME NEW D, IsFiniteSet(D), NEW f \in [D -> Int], NEW g \in [D -> Int], NEW h \in [D -> Int],
           \A x \in D : h[x] = f[x] + g[x]
    PROVE  SumFunction(h) = SumFunction(f) + SumFunction(g)
<1> DEFINE P == {s \in SUBSET D : SumFunction(Restrict(h, s))
                                = SumFunction(Restrict(f, s)) + SumFunction(Restrict(g, s))}
<1>1. {} \in P
  <2>1. {} \in SUBSET D /\ 0 = 0 + 0
    OBVIOUS
  <2> QED
    BY <2>1, SumOfNone
<1>2. ASSUME NEW s \in SUBSET D, NEW x \in s, s \ {x} \in P PROVE s \in P
  <2> DEFINE F(e) == SumFunction(Restrict(e, s))
             R(e) == SumFunction(Restrict(e, s \ {x}))
  <2>1. F(f) = f[x] + R(f) /\ F(g) = g[x] + R(g) /\ F(h) = h[x] + R(h)
    BY SumOfPart
  <2>2. R(f) \in Int /\ R(g) \in Int /\ R(h) \in Int
    BY SumOfPart
  <2>3. R(h) = R(f) + R(g) /\ h[x] = f[x] + g[x] /\ f[x] \in Int /\ g[x] \in Int
    BY <1>2
  <2>4. F(h) = F(f) + F(g)
    <3> HIDE DEF F, R
    <3> QED
      BY <2>1, <2>2, <2>3
  <2> QED
    BY <2>4
<1> HIDE DEF P
<1>3. \A s \in SUBSET D : s \in P
  BY <1>1, <1>2, RemovalInduction
<1>4. D \in P
  BY <1>3
<1>5. Restrict(f, D) = f /\ Restrict(g, D) = g /\ Restrict(h, D) = h
  BY RestrictAll
<1> QED
  BY <1>4, <1>5 DEF P

LEMMA SumZero ==
    ASSUME NEW D, IsFiniteSet(D), NEW f \in [D -> Int], \A x \in D : f[x] = 0
    PROVE  SumFunction(f) = 0
<1>1. \A x \in D : f[x] = f[x] + f[x]
  OBVIOUS
<1>2. PICK total \in Int : total = SumFunction(f)
  BY SumIsInt
<1>3. SumFunction(f) = SumFunction(f) + SumFunction(f)
  BY <1>1, SumAdd
<1>4. total = total + total
  BY <1>2, <1>3, Zenon
<1>5. total = 0
  BY ONLY total \in Int, <1>4, SMT
<1> QED
  BY <1>2, <1>5

\* A function that changes at one place changes its sum by as much.
LEMMA SumChange ==
    ASSUME NEW D, IsFiniteSet(D), NEW f \in [D -> Int], NEW g \in [D -> Int], NEW a \in D,
           \A x \in D : x # a => g[x] = f[x]
    PROVE  SumFunction(g) = SumFunction(f) + (g[a] - f[a])
<1>1. Restrict(f, D \ {a}) = Restrict(g, D \ {a})
  BY DEF Restrict
<1>2. PICK rest \in Int : rest = SumFunction(Restrict(f, D \ {a}))
  BY SumOfPart
<1>3. SumFunction(f) = f[a] + rest /\ SumFunction(g) = g[a] + rest
  BY <1>1, <1>2, SumRemove
<1>4. f[a] \in Int /\ g[a] \in Int
  OBVIOUS
<1> QED
  BY <1>2, <1>3, <1>4

LEMMA SumOfOne ==
    ASSUME NEW D, IsFiniteSet(D), NEW g \in [D -> Int], NEW a \in D,
           \A x \in D : x # a => g[x] = 0
    PROVE  SumFunction(g) = g[a]
<1>1. PICK f : f = [x \in D |-> 0]
  OBVIOUS
<1>0. f \in [D -> Int]
  BY <1>1
<1>2. SumFunction(f) = 0
  BY <1>0, <1>1, SumZero
<1>3. SumFunction(g) = SumFunction(f) + (g[a] - f[a])
  <2>1. \A x \in D : x # a => g[x] = f[x]
    BY <1>1
  <2> QED
    BY <1>0, <2>1, SumChange
<1>4. f[a] = 0 /\ g[a] \in Int
  BY <1>1
<1> QED
  BY <1>2, <1>3, <1>4

-----------------------------------------------------------------------------
(* Sums of natural numbers, and of parts.                                  *)
LEMMA SumIsNat ==
    ASSUME NEW D, IsFiniteSet(D), NEW f \in [D -> Nat] PROVE SumFunction(f) \in Nat
<1>0. f \in [D -> Int]
  OBVIOUS
<1> DEFINE P == {s \in SUBSET D : SumFunction(Restrict(f, s)) \in Nat}
<1>1. {} \in P
  BY SumOfNone
<1>2. ASSUME NEW s \in SUBSET D, NEW x \in s, s \ {x} \in P PROVE s \in P
  <2>1. SumFunction(Restrict(f, s)) = f[x] + SumFunction(Restrict(f, s \ {x}))
    BY <1>0, SumOfPart
  <2>2. SumFunction(Restrict(f, s \ {x})) \in Nat /\ f[x] \in Nat
    BY <1>2
  <2> QED
    BY <2>1, <2>2
<1> HIDE DEF P
<1>3. D \in P
  <2>1. \A s \in SUBSET D : s \in P
    BY <1>1, <1>2, RemovalInduction
  <2> QED
    BY <2>1
<1>4. Restrict(f, D) = f
  BY RestrictAll
<1> QED
  BY <1>3, <1>4 DEF P

\* Two parts without a common element.
LEMMA SumOfUnion ==
    ASSUME NEW D, IsFiniteSet(D), NEW f \in [D -> Int],
           NEW s \in SUBSET D, NEW t \in SUBSET D, s \cap t = {}
    PROVE  SumFunction(Restrict(f, s \cup t))
                = SumFunction(Restrict(f, s)) + SumFunction(Restrict(f, t))
<1> DEFINE P == {r \in SUBSET D : r \subseteq s =>
                    SumFunction(Restrict(f, r \cup t))
                        = SumFunction(Restrict(f, r)) + SumFunction(Restrict(f, t))}
<1>0. SumFunction(Restrict(f, t)) \in Int
  BY SumOfPart
<1>1. {} \in P
  <2>1. {} \cup t = t
    OBVIOUS
  <2> QED
    BY <1>0, <2>1, SumOfNone
<1>2. ASSUME NEW r \in SUBSET D, NEW x \in r, r \ {x} \in P PROVE r \in P
  <2> SUFFICES ASSUME r \subseteq s
               PROVE  SumFunction(Restrict(f, r \cup t))
                        = SumFunction(Restrict(f, r)) + SumFunction(Restrict(f, t))
    OBVIOUS
  <2>1. PICK all \in SUBSET D, rest \in SUBSET D : all = r \cup t /\ rest = r \ {x}
    OBVIOUS
  <2>2. x \in all /\ all \ {x} = rest \cup t
    BY <2>1
  <2>3. SumFunction(Restrict(f, all)) = f[x] + SumFunction(Restrict(f, all \ {x}))
    BY <2>2, SumOfPart
  <2>4. SumFunction(Restrict(f, r)) = f[x] + SumFunction(Restrict(f, r \ {x}))
    BY SumOfPart
  <2>5. SumFunction(Restrict(f, rest \cup t))
            = SumFunction(Restrict(f, rest)) + SumFunction(Restrict(f, t))
    BY <1>2, <2>1
  <2>6. PICK a \in Int, b \in Int, c \in Int :
            a = f[x] /\ b = SumFunction(Restrict(f, rest)) /\ c = SumFunction(Restrict(f, t))
    BY <1>0, SumOfPart
  <2>7. SumFunction(Restrict(f, all)) = a + (b + c)
    BY <2>2, <2>3, <2>5, <2>6
  <2>8. SumFunction(Restrict(f, r)) = a + b
    BY <2>1, <2>4, <2>6
  <2> QED
    BY <2>1, <2>6, <2>7, <2>8
<1> HIDE DEF P
<1>3. s \in P
  BY <1>1, <1>2, RemovalInduction
<1> QED
  BY <1>3 DEF P

\* A larger part has no smaller sum, nor has a part than any of its elements.
LEMMA SumGrows ==
    ASSUME NEW D, IsFiniteSet(D), NEW f \in [D -> Nat], NEW t \in SUBSET D
    PROVE  /\ SumFunction(Restrict(f, t)) \in Nat
           /\ \A s \in SUBSET t : SumFunction(Restrict(f, s)) <= SumFunction(Restrict(f, t))
           /\ \A x \in t : f[x] <= SumFunction(Restrict(f, t))
<1>1. ASSUME NEW s \in SUBSET D PROVE SumFunction(Restrict(f, s)) \in Nat
  <2>1. IsFiniteSet(s) /\ Restrict(f, s) \in [s -> Nat]
    BY FS_Subset DEF Restrict
  <2> QED
    BY <2>1, SumIsNat
<1>2. f \in [D -> Int]
  OBVIOUS
<1>3. ASSUME NEW s \in SUBSET t PROVE SumFunction(Restrict(f, s)) <= SumFunction(Restrict(f, t))
  <2>1. PICK rest \in SUBSET D : rest = t \ s
    OBVIOUS
  <2>2. s \cup rest = t /\ s \cap rest = {}
    BY <2>1
  <2>3. SumFunction(Restrict(f, t)) = SumFunction(Restrict(f, s)) + SumFunction(Restrict(f, rest))
    BY <1>2, <2>2, SumOfUnion
  <2>4. SumFunction(Restrict(f, s)) \in Nat /\ SumFunction(Restrict(f, rest)) \in Nat
    BY <1>1
  <2> QED
    BY <2>3, <2>4
<1>4. ASSUME NEW x \in t PROVE f[x] <= SumFunction(Restrict(f, t))
  <2>1. SumFunction(Restrict(f, t)) = f[x] + SumFunction(Restrict(f, t \ {x}))
    BY <1>2, SumOfPart
  <2>2. SumFunction(Restrict(f, t \ {x})) \in Nat /\ f[x] \in Nat
    BY <1>1
  <2> QED
    BY <2>1, <2>2
<1> QED
  BY <1>1, <1>3, <1>4

\* The sums of parts that have nothing in common are those of the whole.
LEMMA SumOfParts ==
    ASSUME NEW D, IsFiniteSet(D), NEW f \in [D -> Int], NEW I, IsFiniteSet(I),
           NEW p \in [I -> SUBSET D], \A i, j \in I : i # j => p[i] \cap p[j] = {},
           NEW sums, sums = [i \in I |-> SumFunction(Restrict(f, p[i]))]
    PROVE  SumFunction(sums) = SumFunction(Restrict(f, UNION {p[i] : i \in I}))
<1> DEFINE Whole(J) == UNION {p[i] : i \in J}
           P == {J \in SUBSET I : SumFunction(Restrict(sums, J)) = SumFunction(Restrict(f, Whole(J)))}
<1>0. sums \in [I -> Int]
  BY SumOfPart
<1>1. {} \in P
  <2>1. Whole({}) = {}
    OBVIOUS
  <2> QED
    BY <2>1, SumOfNone
<1>2. ASSUME NEW J \in SUBSET I, NEW i \in J, J \ {i} \in P PROVE J \in P
  <2>1. PICK rest \in SUBSET D : rest = Whole(J \ {i})
    <3>1. Whole(J \ {i}) \in SUBSET D
      OBVIOUS
    <3> QED
      BY <3>1, Zenon
  <2>2. Whole(J) = p[i] \cup rest /\ p[i] \cap rest = {}
    BY <2>1
  <2>3. SumFunction(Restrict(f, Whole(J)))
            = SumFunction(Restrict(f, p[i])) + SumFunction(Restrict(f, rest))
    BY <2>2, SumOfUnion
  <2>4. SumFunction(Restrict(sums, J)) = sums[i] + SumFunction(Restrict(sums, J \ {i}))
    BY <1>0, SumOfPart
  <2>5. SumFunction(Restrict(sums, J \ {i})) = SumFunction(Restrict(f, rest))
    BY <1>2, <2>1
  <2>6. sums[i] = SumFunction(Restrict(f, p[i]))
    OBVIOUS
  <2> QED
    BY <2>3, <2>4, <2>5, <2>6
<1> HIDE DEF P
<1>3. I \in P
  <2>1. \A J \in SUBSET I : J \in P
    BY <1>1, <1>2, RemovalInduction
  <2> QED
    BY <2>1
<1>4. Restrict(sums, I) = sums
  BY RestrictAll
<1> QED
  BY <1>3, <1>4 DEF P

\* The sum is at least as much as if all were the least.
LEMMA SumAtLeast ==
    ASSUME NEW D, IsFiniteSet(D), NEW f \in [D -> Int], NEW k \in Int, \A x \in D : f[x] >= k
    PROVE  SumFunction(f) >= Cardinality(D) * k
<1> DEFINE P == {s \in SUBSET D : SumFunction(Restrict(f, s)) >= Cardinality(s) * k}
<1>1. {} \in P
  BY SumOfNone, FS_EmptySet
<1>2. ASSUME NEW s \in SUBSET D, NEW x \in s, s \ {x} \in P PROVE s \in P
  <2>1. SumFunction(Restrict(f, s)) = f[x] + SumFunction(Restrict(f, s \ {x}))
    BY SumOfPart
  <2>2. PICK n \in Nat : n = Cardinality(s \ {x}) /\ Cardinality(s) = n + 1
    BY SmallerWithout
  <2>3. PICK m \in Int : m = SumFunction(Restrict(f, s \ {x}))
    BY SumOfPart
  <2>4. m >= n * k /\ f[x] >= k /\ f[x] \in Int
    BY <1>2, <2>2, <2>3
  <2>5. (n + 1) * k = n * k + k
    OBVIOUS
  <2>6. f[x] + m >= (n + 1) * k
    BY <2>4, <2>5
  <2> QED
    BY <2>1, <2>2, <2>3, <2>6
<1> HIDE DEF P
<1>3. D \in P
  <2>1. \A s \in SUBSET D : s \in P
    BY <1>1, <1>2, RemovalInduction
  <2> QED
    BY <2>1
<1>4. Restrict(f, D) = f
  BY RestrictAll
<1> QED
  BY <1>3, <1>4 DEF P
=============================================================================
