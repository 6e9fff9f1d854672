------------------------------- MODULE SumFacts -------------------------------
(***************************************************************************)
(* Sums of a function over a finite set.  MapThenSumSet and SumFunction    *)
(* are folds through a recursive function over the subsets of the set; the *)
(* facts below are the ones the proofs about amounts need.  The induction  *)
(* is over sets of subsets: a nonempty one has a smallest member, as every *)
(* nonempty set of naturals has.                                           *)
(***************************************************************************)
EXTENDS Integers, FiniteSetsExt, Functions, FiniteSetTheorems, TLAPS

\* The sum of f[x] for the x in S.
SumOf(f, S) == MapThenSumSet(LAMBDA x : f[x], S)

\* The recursive function behind the fold: g adds up every subset of S.
Pick(s) == CHOOSE x \in s : TRUE
AddsUp(f, S, g) ==
    g = [s \in SUBSET S |-> IF s = {} THEN 0 ELSE f[Pick(s)] + g[s \ {Pick(s)}]]
Adder(f, S) == CHOOSE g : AddsUp(f, S, g)

-----------------------------------------------------------------------------

LEMMA SumOfFold ==
    ASSUME NEW f, NEW S
    PROVE  SumOf(f, S) = Adder(f, S)[S]
  BY DEF SumOf, MapThenSumSet, MapThenFoldSet, Adder, AddsUp, Pick

LEMMA PickIn ==
    ASSUME NEW s, s # {}
    PROVE  Pick(s) \in s
  BY DEF Pick

\* A nonempty set of subsets of a finite set has one that contains no other.
LEMMA SmallestSubset ==
    ASSUME NEW S, IsFiniteSet(S), NEW T, T \subseteq SUBSET S, T # {}
    PROVE  \E s \in T : \A t \in T : t \subseteq s => t = s
<1>1. IsWellFoundedOn(StrictSubsetOrdering(S), FiniteSubsetsOf(S))
  BY FS_StrictSubsetOrderingWellFounded
<1>2. T \subseteq FiniteSubsetsOf(S) BY FS_FiniteSubsetsOfFinite
<1>3. PICK s \in T : \A t \in T : <<t, s>> \notin StrictSubsetOrdering(S)
  <2> HIDE DEF StrictSubsetOrdering
  <2> QED BY <1>1, <1>2, WFMin
<1> QED BY <1>3 DEF StrictSubsetOrdering

\* Every set of naturals that is not empty has a least element.
LEMMA Least ==
    ASSUME NEW S \in SUBSET Nat, S # {}
    PROVE  \E n \in S : \A m \in S : n <= m
<1>1. IsWellFoundedOn(OpToRel(<, Nat), Nat) BY NatLessThanWellFounded
<1>2. PICK n \in S : \A m \in S : ~(<<m, n>> \in OpToRel(<, Nat)) BY <1>1, WFMin
<1>3. \A m \in S : ~(m < n) BY <1>2 DEF OpToRel
<1> QED BY <1>3

\* Two functions that add up agree on the sets both know.
LEMMA AddersAgree ==
    ASSUME NEW f, NEW S, NEW T \in SUBSET S, IsFiniteSet(S), NEW g, NEW h,
           AddsUp(f, S, g), AddsUp(f, T, h)
    PROVE  g[T] = h[T]
<1> DEFINE Differ == {s \in SUBSET T : g[s] # h[s]}
<1>0. IsFiniteSet(T) BY FS_Subset
<1>1. SUFFICES ASSUME Differ # {} PROVE FALSE OBVIOUS
<1>2. PICK s \in Differ : \A t \in Differ : t \subseteq s => t = s
  <2>1. Differ \subseteq SUBSET T OBVIOUS
  <2> HIDE DEF Differ
  <2> QED BY <1>0, <1>1, <2>1, SmallestSubset
<1>3. CASE s = {} BY <1>3 DEF AddsUp
<1>4. CASE s # {}
  <2> DEFINE p == Pick(s)
  <2>1. p \in s /\ s \ {p} \in SUBSET T BY <1>4, PickIn
  <2>2. g[s \ {p}] = h[s \ {p}] BY <1>2, <2>1
  <2>3. g[s] = f[p] + g[s \ {p}] BY <1>4 DEF AddsUp
  <2>4. h[s] = f[p] + h[s \ {p}] BY <1>4 DEF AddsUp
  <2> QED BY <2>2, <2>3, <2>4
<1> QED BY <1>3, <1>4

\* A function that adds up exists for every finite set.
LEMMA AdderExists ==
    ASSUME NEW f, NEW S, IsFiniteSet(S)
    PROVE  AddsUp(f, S, Adder(f, S))
<1> DEFINE Bad == {s \in SUBSET S : ~ \E g : AddsUp(f, s, g)}
<1>1. SUFFICES ASSUME Bad # {} PROVE FALSE BY DEF Adder
<1>2. PICK s \in Bad : \A t \in Bad : t \subseteq s => t = s
  <2>1. Bad \subseteq SUBSET S OBVIOUS
  <2> HIDE DEF Bad
  <2> QED BY <1>1, <2>1, SmallestSubset
<1>3. \A t \in SUBSET s : t # s => AddsUp(f, t, Adder(f, t))
  BY <1>2 DEF Adder
<1> DEFINE Below(t) == Adder(f, t)[t]
           g == [t \in SUBSET s |->
                    IF t = {} THEN 0 ELSE f[Pick(t)] + Below(t \ {Pick(t)})]
<1>4. ASSUME NEW t \in SUBSET s, t # s PROVE g[t] = Below(t)
  <2>1. AddsUp(f, t, Adder(f, t)) BY <1>3, <1>4
  <2>2. CASE t = {} BY <2>1, <2>2 DEF AddsUp
  <2>3. CASE t # {}
    <3> DEFINE p == Pick(t)
               a == Adder(f, t)
    <3>1. p \in t BY <2>3, PickIn
    <3>2. t \ {p} \in SUBSET s /\ t \ {p} # s /\ IsFiniteSet(t) BY <1>2, <3>1, FS_Subset
    <3>3. AddsUp(f, t \ {p}, Adder(f, t \ {p})) BY <1>3, <3>2
    <3>4. a[t \ {p}] = Below(t \ {p})
      <4> HIDE DEF p
      <4> QED BY <2>1, <3>2, <3>3, AddersAgree
    <3>5. a[t] = f[p] + a[t \ {p}]
      <4> HIDE DEF a
      <4>1. AddsUp(f, t, a) BY <2>1 DEF a
      <4> QED BY <2>3, <4>1 DEF AddsUp
    <3> QED BY <2>3, <3>4, <3>5
  <2> QED BY <2>2, <2>3
<1>5. AddsUp(f, s, g)
  <2> HIDE DEF Below
  <2>1. ASSUME NEW t \in SUBSET s, t # {}
        PROVE  g[t] = f[Pick(t)] + g[t \ {Pick(t)}]
    <3>1. t \ {Pick(t)} \in SUBSET s /\ t \ {Pick(t)} # s BY <2>1, PickIn
    <3> QED BY <1>4, <2>1, <3>1
  <2>2. g = [t \in SUBSET s |-> IF t = {} THEN 0 ELSE f[Pick(t)] + g[t \ {Pick(t)}]]
    BY <2>1
  <2> HIDE DEF g
  <2> QED BY <2>2 DEF AddsUp
<1> QED BY <1>2, <1>5

-----------------------------------------------------------------------------
(* What a sum is *)

LEMMA SumEmpty ==
    ASSUME NEW f
    PROVE  SumOf(f, {}) = 0
<1>1. AddsUp(f, {}, Adder(f, {})) BY FS_EmptySet, AdderExists
<1> QED BY <1>1, SumOfFold DEF AddsUp

LEMMA SumPick ==
    ASSUME NEW f, NEW S, IsFiniteSet(S), S # {}
    PROVE  SumOf(f, S) = f[Pick(S)] + SumOf(f, S \ {Pick(S)})
<1> DEFINE p == Pick(S)
           R == S \ {p}
<1>1. IsFiniteSet(R) /\ R \in SUBSET S BY FS_Subset
<1>2. AddsUp(f, S, Adder(f, S)) /\ AddsUp(f, R, Adder(f, R)) BY <1>1, AdderExists
<1>3. Adder(f, S)[R] = Adder(f, R)[R]
  <2> HIDE DEF R
  <2> QED BY <1>1, <1>2, AddersAgree
<1>4. \A g : AddsUp(f, S, g) => g[S] = f[p] + g[R] BY DEF AddsUp
<1>5. Adder(f, S)[S] = f[p] + Adder(f, S)[R] BY <1>2, <1>4
<1> QED BY <1>3, <1>5, SumOfFold

LEMMA SumNat ==
    ASSUME NEW f, NEW S, IsFiniteSet(S), \A x \in S : f[x] \in Nat
    PROVE  SumOf(f, S) \in Nat
<1> DEFINE Bad == {s \in SUBSET S : SumOf(f, s) \notin Nat}
<1>1. SUFFICES ASSUME Bad # {} PROVE FALSE OBVIOUS
<1>2. PICK s \in Bad : \A t \in Bad : t \subseteq s => t = s
  <2>1. Bad \subseteq SUBSET S OBVIOUS
  <2> HIDE DEF Bad
  <2> QED BY <1>1, <2>1, SmallestSubset
<1>3. s # {} BY <1>2, SumEmpty
<1> DEFINE p == Pick(s)
<1>4. p \in s /\ s \ {p} \in SUBSET S /\ IsFiniteSet(s) BY <1>2, <1>3, PickIn, FS_Subset
<1>5. SumOf(f, s) = f[p] + SumOf(f, s \ {p}) BY <1>3, <1>4, SumPick
<1>6. SumOf(f, s \ {p}) \in Nat BY <1>2, <1>4
<1> QED BY <1>2, <1>4, <1>5, <1>6

\* A sum is one of its terms and the sum of the others.
LEMMA SumRemove ==
    ASSUME NEW f, NEW S, IsFiniteSet(S), \A x \in S : f[x] \in Nat, NEW x \in S
    PROVE  SumOf(f, S) = f[x] + SumOf(f, S \ {x})
<1> DEFINE Bad == {s \in SUBSET S : \E y \in s : SumOf(f, s) # f[y] + SumOf(f, s \ {y})}
<1>1. SUFFICES ASSUME Bad # {} PROVE FALSE OBVIOUS
<1>2. PICK s \in Bad : \A t \in Bad : t \subseteq s => t = s
  <2>1. Bad \subseteq SUBSET S OBVIOUS
  <2> HIDE DEF Bad
  <2> QED BY <1>1, <2>1, SmallestSubset
<1>3. PICK y \in s : SumOf(f, s) # f[y] + SumOf(f, s \ {y}) BY <1>2
<1> DEFINE p == Pick(s)
<1>4. /\ p \in s /\ s \in SUBSET S /\ IsFiniteSet(s)
      /\ SumOf(f, s) = f[p] + SumOf(f, s \ {p})
  BY <1>2, <1>3, PickIn, SumPick, FS_Subset
<1> HIDE DEF p
<1>5. p # y BY <1>3, <1>4
<1>6. SumOf(f, s \ {p}) = f[y] + SumOf(f, (s \ {p}) \ {y})
  <2>1. s \ {p} \notin Bad BY <1>2, <1>4
  <2> QED BY <1>3, <1>4, <1>5, <2>1
<1>7. SumOf(f, s \ {y}) = f[p] + SumOf(f, (s \ {y}) \ {p})
  <2>1. s \ {y} \notin Bad BY <1>2, <1>3, <1>4
  <2> QED BY <1>3, <1>4, <1>5, <2>1
<1>8. (s \ {p}) \ {y} = (s \ {y}) \ {p} OBVIOUS
<1>9. SumOf(f, (s \ {p}) \ {y}) \in Nat
  <2>1. IsFiniteSet((s \ {p}) \ {y}) BY <1>4, FS_Subset
  <2> QED BY <1>4, <2>1, SumNat
<1>10. f[p] \in Nat /\ f[y] \in Nat BY <1>3, <1>4
<1> QED BY <1>3, <1>4, <1>6, <1>7, <1>8, <1>9, <1>10

LEMMA SumAdd ==
    ASSUME NEW f, NEW S, IsFiniteSet(S), \A x \in S : f[x] \in Nat,
           NEW x, x \notin S, f[x] \in Nat
    PROVE  SumOf(f, S \cup {x}) = f[x] + SumOf(f, S)
<1>1. IsFiniteSet(S \cup {x}) BY FS_AddElement
<1>2. (S \cup {x}) \ {x} = S OBVIOUS
<1>3. \A y \in S \cup {x} : f[y] \in Nat OBVIOUS
<1> QED BY <1>1, <1>2, <1>3, SumRemove

\* Nothing adds up to nothing.
LEMMA SumZero ==
    ASSUME NEW f, NEW S, IsFiniteSet(S), \A x \in S : f[x] = 0
    PROVE  SumOf(f, S) = 0
<1> DEFINE Bad == {s \in SUBSET S : SumOf(f, s) # 0}
<1>1. SUFFICES ASSUME Bad # {} PROVE FALSE OBVIOUS
<1>2. PICK s \in Bad : \A t \in Bad : t \subseteq s => t = s
  <2>1. Bad \subseteq SUBSET S OBVIOUS
  <2> HIDE DEF Bad
  <2> QED BY <1>1, <2>1, SmallestSubset
<1>3. s # {} BY <1>2, SumEmpty
<1> DEFINE p == Pick(s)
<1>4. p \in s /\ s \ {p} \in SUBSET S /\ IsFiniteSet(s) BY <1>2, <1>3, PickIn, FS_Subset
<1>5. SumOf(f, s) = f[p] + SumOf(f, s \ {p}) BY <1>3, <1>4, SumPick
<1>6. SumOf(f, s \ {p}) = 0 BY <1>2, <1>4
<1> QED BY <1>2, <1>4, <1>5, <1>6

\* Only the values on the set count.
LEMMA SumSame ==
    ASSUME NEW f, NEW g, NEW S, IsFiniteSet(S), \A x \in S : f[x] = g[x]
    PROVE  SumOf(f, S) = SumOf(g, S)
<1> DEFINE Bad == {s \in SUBSET S : SumOf(f, s) # SumOf(g, s)}
<1>1. SUFFICES ASSUME Bad # {} PROVE FALSE OBVIOUS
<1>2. PICK s \in Bad : \A t \in Bad : t \subseteq s => t = s
  <2>1. Bad \subseteq SUBSET S OBVIOUS
  <2> HIDE DEF Bad
  <2> QED BY <1>1, <2>1, SmallestSubset
<1>3. s # {} BY <1>2, SumEmpty
<1> DEFINE p == Pick(s)
<1>4. p \in s /\ s \ {p} \in SUBSET S /\ IsFiniteSet(s) BY <1>2, <1>3, PickIn, FS_Subset
<1>5. SumOf(f, s) = f[p] + SumOf(f, s \ {p}) BY <1>3, <1>4, SumPick
<1>6. SumOf(g, s) = g[p] + SumOf(g, s \ {p}) BY <1>3, <1>4, SumPick
<1>7. SumOf(f, s \ {p}) = SumOf(g, s \ {p}) BY <1>2, <1>4
<1> QED BY <1>2, <1>4, <1>5, <1>6, <1>7

\* A larger set has no smaller sum.
LEMMA SumGrows ==
    ASSUME NEW f, NEW S, IsFiniteSet(S), \A x \in S : f[x] \in Nat, NEW T \in SUBSET S
    PROVE  SumOf(f, T) <= SumOf(f, S)
<1> DEFINE Bad == {s \in SUBSET S : T \subseteq s /\ ~(SumOf(f, T) <= SumOf(f, s))}
<1>1. SUFFICES ASSUME Bad # {} PROVE FALSE OBVIOUS
<1>2. PICK s \in Bad : \A t \in Bad : t \subseteq s => t = s
  <2>1. Bad \subseteq SUBSET S OBVIOUS
  <2> HIDE DEF Bad
  <2> QED BY <1>1, <2>1, SmallestSubset
<1>3. SumOf(f, T) \in Nat
  <2>1. IsFiniteSet(T) BY FS_Subset
  <2> QED BY <2>1, SumNat
<1>4. PICK y \in s : y \notin T
  <2>1. s # T BY <1>2, <1>3
  <2> QED BY <1>2, <2>1
<1>5. /\ IsFiniteSet(s) /\ IsFiniteSet(s \ {y}) /\ s \in SUBSET S
      /\ s \ {y} \in SUBSET S /\ T \subseteq s \ {y}
  BY <1>2, <1>4, FS_Subset
<1>6. SumOf(f, s) = f[y] + SumOf(f, s \ {y}) BY <1>5, SumRemove
<1>7. SumOf(f, T) <= SumOf(f, s \ {y}) BY <1>2, <1>4, <1>5
<1>8. f[y] \in Nat /\ SumOf(f, s \ {y}) \in Nat BY <1>5, SumNat
<1> QED BY <1>2, <1>3, <1>6, <1>7, <1>8

LEMMA SumOfFunction ==
    ASSUME NEW f
    PROVE  SumFunction(f) = SumOf(f, DOMAIN f)
  BY DEF SumOf, MapThenSumSet, MapThenFoldSet, SumFunction, SumFunctionOnSet, FoldFunctionOnSet
=============================================================================
