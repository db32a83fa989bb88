-------------------------------- MODULE Sums --------------------------------
(***************************************************************************)
(* Sums over finite sets, as the community modules define them: a recursive*)
(* function on the subsets of the set that takes out one element at a time.*)
(* What it computes is proved by induction on finite sets, in the form of a*)
(* smallest counterexample: a set B of sets for which the claim fails has a*)
(* minimal element, and taking an element out of that leaves B.            *)
(***************************************************************************)
EXTENDS FiniteSetsExt, Sequences, WellFoundedInduction, TLAPS

\* The element that the sum takes out first, and the function it is read from.
Elem(s) == CHOOSE x \in s : TRUE
Unfolds(g, f, D) == g = [s \in D |-> IF s = {} THEN 0 ELSE f[Elem(s)] + g[s \ {Elem(s)}]]

\* The sum of the community modules is such a function.
LEMMA SumDef ==
    ASSUME NEW f, NEW S
    PROVE  SumFunctionOnSet(f, S) = (CHOOSE g : Unfolds(g, f, SUBSET S))[S]
BY DEF SumFunctionOnSet, FoldFunctionOnSet, MapThenFoldSet, Unfolds, Elem

\* A set of natural numbers that is not empty has a smallest number.
LEMMA LeastNumber ==
    ASSUME NEW N, N \subseteq Nat, N # {}
    PROVE  \E n \in N : \A m \in N : n <= m
<1>1. PICK n \in N : \A m \in N : ~(<<m, n>> \in OpToRel(<, Nat))
  BY NatLessThanWellFounded, WFMin, Zenon
<1>2. n \in Nat /\ \A m \in N : m \in Nat /\ ~(m < n)
  BY <1>1, Zenon DEF OpToRel
<1>3. QED
  BY ONLY <1>2

\* The empty set is finite.
LEMMA FiniteEmpty == IsFiniteSet({})
<1>1. << >> \in Seq({}) /\ \A s \in {} : \E n \in 1..Len(<< >>) : << >>[n] = s
  OBVIOUS
<1>2. QED
  BY <1>1, Zenon DEF IsFiniteSet

\* A subset of a finite set is finite.
LEMMA FiniteSubset ==
    ASSUME NEW S, IsFiniteSet(S), NEW T, T \subseteq S
    PROVE  IsFiniteSet(T)
<1>1. PICK seq \in Seq(S) : \A s \in S : \E n \in 1..Len(seq) : seq[n] = s
  BY Zenon DEF IsFiniteSet
<1>2. CASE T = {}
  BY <1>2, FiniteEmpty, Zenon
<1>3. CASE T # {}
  <2>1. PICK x \in T : TRUE
    BY <1>3, Zenon
  <2> DEFINE f == [n \in 1..Len(seq) |-> IF seq[n] \in T THEN seq[n] ELSE x]
  <2>2. f \in Seq(T) /\ Len(f) = Len(seq)
    OBVIOUS
  <2>3. \A s \in T : \E n \in 1..Len(f) : f[n] = s
    BY <1>1, <2>2, Zenon
  <2>4. QED
    BY <2>2, <2>3, Zenon DEF IsFiniteSet
<1>4. QED
  BY <1>2, <1>3, Zenon

\* Finite sets are well founded: some set of B has no smaller one in B. The sets of B agree
\* outside the whole list of the elements of S. If no set of B were minimal, take the shortest
\* beginning of that list outside which the sets of some B without a minimal one agree: its
\* last element is in all of them or the ones without it are a B for a shorter beginning.
LEMMA MinimalSet ==
    ASSUME NEW S, IsFiniteSet(S), NEW B, B \subseteq SUBSET S, B # {}
    PROVE  \E s \in B : \A t \in B : ~(t \subseteq s /\ t # s)
<1>1. PICK seq \in Seq(S) : \A s \in S : \E n \in 1..Len(seq) : seq[n] = s
  BY Zenon DEF IsFiniteSet
<1> DEFINE first(k) == {seq[i] : i \in 1..k}
           agree(C, k) == \A s, t \in C : s \ first(k) = t \ first(k)
           minimal(C) == \E s \in C : \A t \in C : ~(t \subseteq s /\ t # s)
           bad == {k \in Nat : \E C \in SUBSET (SUBSET S) : C # {} /\ agree(C, k) /\ ~minimal(C)}
<1>2. SUFFICES ASSUME ~minimal(B) PROVE FALSE
  BY Zenon
<1>3. Len(seq) \in bad
  <2>1. Len(seq) \in Nat
    OBVIOUS
  <2>2. \A x \in S : x \in first(Len(seq))
    BY <1>1, Zenon
  <2>3. agree(B, Len(seq))
    <3> HIDE DEF first
    <3> QED BY <2>2, Zenon
  <2>4. QED
    <3> HIDE DEF agree, minimal
    <3> QED BY <1>2, <2>1, <2>3, Zenon
<1>4. PICK k \in bad : \A m \in bad : k <= m
  <2> HIDE DEF bad
  <2>1. bad \subseteq Nat
    BY Zenon DEF bad
  <2>2. QED
    BY <1>3, <2>1, LeastNumber, Zenon
<1>5. PICK C \in SUBSET (SUBSET S) : C # {} /\ agree(C, k) /\ ~minimal(C)
  <2> HIDE DEF agree, minimal
  <2> QED BY Zenon
<1>6. k \in Nat /\ k # 0
  <2>1. k \in Nat
    BY Zenon
  <2>2. ASSUME k = 0 PROVE FALSE
    <3>1. first(k) = {}
      BY <2>2
    <3>2. \A s, t \in C : s = t
      <4> HIDE DEF first, bad, minimal
      <4> QED BY <1>5, <3>1
    <3>3. QED
      <4>1. PICK s \in C : TRUE
        BY <1>5, Zenon
      <4>2. \A t \in C : ~(t \subseteq s /\ t # s)
        BY <3>2, Zenon
      <4> HIDE DEF agree, bad
      <4>3. QED
        BY <1>5, <4>2, Zenon
  <2>3. QED
    BY <2>1, <2>2, Zenon
<1> DEFINE j == k - 1
           x == seq[k]
           D == {s \in C : x \notin s}
<1>7. j \in Nat /\ j < k
  BY <1>6
<1>8. \A y : y \in first(k) <=> y \in first(j) \/ y = x
  <2>1. \A i : i \in 1..k <=> i \in 1..j \/ i = k
    BY <1>6
  <2>2. QED
    <3> HIDE DEF j, bad, x
    <3>1. ASSUME NEW y, y \in first(k) PROVE y \in first(j) \/ y = x
      <4>1. PICK i \in 1..k : y = seq[i]
        BY <3>1, Zenon
      <4>2. i \in 1..j \/ i = k
        BY <2>1, Zenon
      <4>3. QED
        BY <4>1, <4>2, Zenon DEF x
    <3>2. \A i \in 1..j : seq[i] \in first(k)
      BY <2>1, Zenon
    <3>3. x \in first(k)
      <4>1. k \in 1..k
        BY <2>1, Zenon
      <4>2. QED
        BY <4>1, Zenon DEF x
    <3>4. \A y \in first(j) : y \in first(k)
      BY <3>2, Zenon
    <3>5. QED
      <4> HIDE DEF first
      <4> QED BY <3>1, <3>3, <3>4, Zenon
<1>9. j \notin bad
  <2> HIDE DEF bad, j
  <2>1. ASSUME j \in bad PROVE k <= j
    BY <1>4, <2>1, Zenon
  <2>2. ~(k <= j)
    BY ONLY <1>6, <1>7
  <2>3. QED
    BY <2>1, <2>2, Zenon
<1>10. ASSUME NEW E \in SUBSET (SUBSET S), E # {}, agree(E, j) PROVE minimal(E)
  <2> HIDE DEF agree, minimal, j
  <2> QED BY <1>7, <1>9, <1>10, Zenon
<1> HIDE DEF bad, j, x, first
<1>11. CASE D = {}
  <2>1. \A s \in C : x \in s
    BY <1>11, Zenon
  <2>2. agree(C, j)
    <3> SUFFICES ASSUME NEW s \in C, NEW t \in C, NEW y PROVE y \in s \ first(j) => y \in t \ first(j)
      BY Zenon
    <3>1. s \ first(k) = t \ first(k)
      BY <1>5, Zenon
    <3>2. QED
      BY <1>8, <2>1, <3>1, Zenon
  <2>3. QED
    <3> HIDE DEF agree, minimal
    <3> QED BY <1>5, <1>10, <2>2, Zenon
<1>12. CASE D # {}
  <2>1. agree(D, j)
    <3> SUFFICES ASSUME NEW s \in D, NEW t \in D, NEW y PROVE y \in s \ first(j) => y \in t \ first(j)
      BY Zenon
    <3>1. s \ first(k) = t \ first(k)
      BY <1>5, Zenon
    <3>2. QED
      BY <1>8, <3>1, Zenon
  <2>2. D \in SUBSET (SUBSET S)
    BY Zenon
  <2>3. PICK s \in D : \A t \in D : ~(t \subseteq s /\ t # s)
    <3>1. minimal(D)
      <4> HIDE DEF agree, minimal, D
      <4> QED BY <1>10, <1>12, <2>1, <2>2, Zenon
    <3>2. QED
      BY <3>1, Zenon
  <2>4. \A t \in C : ~(t \subseteq s /\ t # s)
    BY <2>3, Zenon
  <2>5. QED
    <3> HIDE DEF agree
    <3> QED BY <1>5, <2>3, <2>4, Zenon
<1>13. QED
  BY <1>11, <1>12, Zenon

\* Two such functions agree where both are defined.
LEMMA Unique ==
    ASSUME NEW f, NEW S, NEW T, NEW g, NEW h, Unfolds(g, f, SUBSET S), Unfolds(h, f, SUBSET T),
           NEW r, IsFiniteSet(r), r \subseteq S, r \subseteq T
    PROVE  g[r] = h[r]
<1> DEFINE B == {s \in SUBSET r : g[s] # h[s]}
<1>1. SUFFICES ASSUME B # {} PROVE FALSE
  OBVIOUS
<1>2. PICK s \in B : \A t \in B : ~(t \subseteq s /\ t # s)
  <2>1. B \subseteq SUBSET r
    OBVIOUS
  <2>2. QED
    <3> HIDE DEF B
    <3> QED BY <1>1, <2>1, MinimalSet
<1>3. s \in SUBSET S /\ s \in SUBSET T
  OBVIOUS
<1>4. g[s] = IF s = {} THEN 0 ELSE f[Elem(s)] + g[s \ {Elem(s)}]
  BY Zenon, <1>3 DEF Unfolds
<1>5. h[s] = IF s = {} THEN 0 ELSE f[Elem(s)] + h[s \ {Elem(s)}]
  BY Zenon, <1>3 DEF Unfolds
<1>6. s # {}
  BY <1>4, <1>5
<1>7. Elem(s) \in s
  BY <1>6 DEF Elem
<1>8. s \ {Elem(s)} \notin B
  BY <1>2, <1>7
<1>9. QED
  BY <1>4, <1>5, <1>6, <1>8

\* There is such a function on the subsets of a finite set.
LEMMA Exists ==
    ASSUME NEW f, NEW S, IsFiniteSet(S)
    PROVE  \E g : Unfolds(g, f, SUBSET S)
<1> DEFINE B == {s \in SUBSET S : ~ \E g : Unfolds(g, f, SUBSET s)}
<1>1. SUFFICES ASSUME B # {} PROVE FALSE
  BY Zenon
<1>2. PICK T \in B : \A t \in B : ~(t \subseteq T /\ t # T)
  <2>1. B \subseteq SUBSET S
    OBVIOUS
  <2>2. QED
    <3> HIDE DEF B
    <3> QED BY <1>1, <2>1, MinimalSet
<1> DEFINE sum(s) == SumFunctionOnSet(f, s)
           h == [s \in SUBSET T |-> IF s = {} THEN 0 ELSE f[Elem(s)] + sum(s \ {Elem(s)})]
<1>3. \A s \in SUBSET T : s # {} => Elem(s) \in s
  BY DEF Elem
<1>4. ASSUME NEW r \in SUBSET T, r # T
      PROVE  sum(r) = h[r]
  <2>1. PICK g : Unfolds(g, f, SUBSET r)
    BY Zenon, <1>2, <1>4
  <2> DEFINE c(s) == CHOOSE k : Unfolds(k, f, SUBSET s)
  <2>2. Unfolds(c(r), f, SUBSET r) /\ sum(r) = c(r)[r]
    BY Zenon, <2>1, SumDef
  <2>3. c(r)[r] = IF r = {} THEN 0 ELSE f[Elem(r)] + c(r)[r \ {Elem(r)}]
    BY Zenon, <2>2 DEF Unfolds
  <2>4. CASE r = {}
    BY <2>2, <2>3, <2>4
  <2>5. CASE r # {}
    <3> DEFINE q == r \ {Elem(r)}
    <3>1. q \in SUBSET T /\ q # T /\ q \subseteq r
      BY <1>3, <2>5
    <3>2. PICK k : Unfolds(k, f, SUBSET q)
      BY Zenon, <1>2, <3>1
    <3>3. Unfolds(c(q), f, SUBSET q) /\ sum(q) = c(q)[q]
      BY Zenon, <3>2, SumDef
    <3>4. IsFiniteSet(q)
      BY FiniteSubset
    <3>5. c(q)[q] = c(r)[q]
      <4>1. q \subseteq r /\ q \subseteq q
        OBVIOUS
      <4>2. QED
        <5> HIDE DEF c, q
        <5> QED BY SMTT(40), <4>1, <3>3, <3>4, <2>2, Unique
    <3>6. QED
      BY <2>2, <2>3, <2>5, <3>3, <3>5
  <2>6. QED
    BY <2>4, <2>5
<1>5. h = [s \in SUBSET T |-> IF s = {} THEN 0 ELSE f[Elem(s)] + h[s \ {Elem(s)}]]
  <2>1. \A s \in SUBSET T : s # {} => sum(s \ {Elem(s)}) = h[s \ {Elem(s)}]
    BY Zenon, <1>3, <1>4
  <2>2. QED
    BY Zenon, <2>1
<1>6. Unfolds(h, f, SUBSET T)
  BY Zenon, <1>5 DEF Unfolds
<1>7. QED
  BY <1>2, <1>6

\* The sum of f over a finite set, one element at a time.
LEMMA SumUnfold ==
    ASSUME NEW f, NEW S, IsFiniteSet(S)
    PROVE  /\ SumFunctionOnSet(f, {}) = 0
           /\ S # {} => SumFunctionOnSet(f, S) = f[Elem(S)] + SumFunctionOnSet(f, S \ {Elem(S)})
<1> DEFINE c(s) == CHOOSE k : Unfolds(k, f, SUBSET s)
           q == S \ {Elem(S)}
<1>1. Unfolds(c({}), f, SUBSET {}) /\ Unfolds(c(S), f, SUBSET S) /\ Unfolds(c(q), f, SUBSET q)
  BY Zenon, Exists, FiniteEmpty, FiniteSubset
<1>2. c({})[{}] = 0
  BY Zenon, <1>1 DEF Unfolds
<1>3. c(S)[S] = IF S = {} THEN 0 ELSE f[Elem(S)] + c(S)[q]
  BY Zenon, <1>1 DEF Unfolds
<1>4. IsFiniteSet(q)
  BY FiniteSubset
<1>5. c(S)[q] = c(q)[q]
  <2>1. q \subseteq S /\ q \subseteq q
    OBVIOUS
  <2>2. QED
    <3> HIDE DEF c, q
    <3> QED BY SMTT(40), <2>1, <1>1, <1>4, Unique
<1>6. QED
  BY Zenon, <1>2, <1>3, <1>5, SumDef

\* A sum of integers is an integer.
LEMMA SumInt ==
    ASSUME NEW S, IsFiniteSet(S), NEW f, \A x \in S : f[x] \in Int
    PROVE  SumFunctionOnSet(f, S) \in Int
<1> DEFINE B == {s \in SUBSET S : SumFunctionOnSet(f, s) \notin Int}
<1>1. SUFFICES ASSUME B # {} PROVE FALSE
  OBVIOUS
<1>2. PICK s \in B : \A t \in B : ~(t \subseteq s /\ t # s)
  <2>1. B \subseteq SUBSET S
    OBVIOUS
  <2>2. QED
    <3> HIDE DEF B
    <3> QED BY <1>1, <2>1, MinimalSet
<1>3. IsFiniteSet(s)
  BY FiniteSubset
<1>4. CASE s = {}
  <2>1. SumFunctionOnSet(f, s) = 0
    BY Zenon, <1>4, FiniteEmpty, SumUnfold
  <2>2. QED
    BY <2>1
<1>5. CASE s # {}
  <2>1. Elem(s) \in s
    BY <1>5 DEF Elem
  <2>2. SumFunctionOnSet(f, s \ {Elem(s)}) \in Int
    BY <1>2, <2>1
  <2>3. QED
    BY <1>3, <1>5, <2>1, <2>2, SumUnfold
<1>6. QED
  BY <1>4, <1>5

\* An element can be taken out of the sum, whichever CHOOSE picks first.
LEMMA SumRemove ==
    ASSUME NEW S, IsFiniteSet(S), NEW f, \A x \in S : f[x] \in Int, NEW e \in S
    PROVE  SumFunctionOnSet(f, S) = f[e] + SumFunctionOnSet(f, S \ {e})
<1> DEFINE sum(s) == SumFunctionOnSet(f, s)
           B == {s \in SUBSET S : \E x \in s : sum(s) # f[x] + sum(s \ {x})}
<1>1. SUFFICES ASSUME B # {} PROVE FALSE
  BY Zenon
<1>2. PICK s \in B : \A t \in B : ~(t \subseteq s /\ t # s)
  <2>1. B \subseteq SUBSET S
    OBVIOUS
  <2>2. QED
    <3> HIDE DEF B
    <3> QED BY <1>1, <2>1, MinimalSet
<1>3. PICK x \in s : sum(s) # f[x] + sum(s \ {x})
  OBVIOUS
<1> DEFINE y == Elem(s)
           q == (s \ {y}) \ {x}
<1>4. \A t \in SUBSET S : IsFiniteSet(t) /\ sum(t) \in Int
  BY Zenon, FiniteSubset, SumInt
<1>5. y \in s
  BY DEF Elem
<1>6. sum(s) = f[y] + sum(s \ {y})
  BY <1>4, SumUnfold
<1>7. x # y
  BY <1>3, <1>6
<1> HIDE DEF y
<1>8. sum(s \ {y}) = f[x] + sum(q)
  <2>1. s \ {y} \notin B /\ x \in s \ {y} /\ s \ {y} \in SUBSET S
    BY Zenon, <1>2, <1>5, <1>7
  <2>2. QED
    BY Zenon, <2>1
<1>9. sum(s \ {x}) = f[y] + sum(q)
  <2>1. (s \ {x}) \ {y} = q
    OBVIOUS
  <2>2. s \ {x} \notin B /\ y \in s \ {x} /\ s \ {x} \in SUBSET S
    BY SMTT(40), <1>2, <1>5, <1>7
  <2>3. QED
    BY Zenon, <2>1, <2>2
<1>10. f[x] \in Int /\ f[y] \in Int /\ sum(q) \in Int
  BY <1>4, <1>5
<1> HIDE DEF sum
<1>11. QED
  BY <1>3, <1>6, <1>8, <1>9, <1>10

\* The sum depends only on the values in the set.
LEMMA SumSame ==
    ASSUME NEW S, IsFiniteSet(S), NEW f, NEW g, \A x \in S : f[x] = g[x]
    PROVE  SumFunctionOnSet(f, S) = SumFunctionOnSet(g, S)
<1> DEFINE B == {s \in SUBSET S : SumFunctionOnSet(f, s) # SumFunctionOnSet(g, s)}
<1>1. SUFFICES ASSUME B # {} PROVE FALSE
  OBVIOUS
<1>2. PICK s \in B : \A t \in B : ~(t \subseteq s /\ t # s)
  <2>1. B \subseteq SUBSET S
    OBVIOUS
  <2>2. QED
    <3> HIDE DEF B
    <3> QED BY <1>1, <2>1, MinimalSet
<1>3. IsFiniteSet(s)
  BY FiniteSubset
<1>4. s # {}
  BY Zenon, <1>2, <1>3, SumUnfold
<1>5. Elem(s) \in s
  BY <1>4 DEF Elem
<1>6. SumFunctionOnSet(f, s \ {Elem(s)}) = SumFunctionOnSet(g, s \ {Elem(s)})
  BY <1>2, <1>5
<1>7. QED
  BY <1>3, <1>4, <1>5, <1>6, SumUnfold

\* One element changes: the sum changes by as much.
LEMMA SumChange ==
    ASSUME NEW S, IsFiniteSet(S), NEW f, NEW g, NEW e \in S,
           \A x \in S : f[x] \in Int /\ g[x] \in Int,
           \A x \in S \ {e} : f[x] = g[x]
    PROVE  SumFunctionOnSet(g, S) = SumFunctionOnSet(f, S) - f[e] + g[e]
<1> DEFINE r == S \ {e}
<1>1. IsFiniteSet(r)
  BY FiniteSubset
<1>2. SumFunctionOnSet(f, r) = SumFunctionOnSet(g, r) /\ SumFunctionOnSet(f, r) \in Int
  BY <1>1, SumSame, SumInt
<1>3. /\ SumFunctionOnSet(f, S) = f[e] + SumFunctionOnSet(f, r)
      /\ SumFunctionOnSet(g, S) = g[e] + SumFunctionOnSet(g, r)
  BY SumRemove
<1>4. QED
  BY <1>2, <1>3

\* A sum of zeros is zero.
LEMMA SumZero ==
    ASSUME NEW S, IsFiniteSet(S), NEW f, \A x \in S : f[x] = 0
    PROVE  SumFunctionOnSet(f, S) = 0
<1> DEFINE B == {s \in SUBSET S : SumFunctionOnSet(f, s) # 0}
<1>1. SUFFICES ASSUME B # {} PROVE FALSE
  OBVIOUS
<1>2. PICK s \in B : \A t \in B : ~(t \subseteq s /\ t # s)
  <2>1. B \subseteq SUBSET S
    OBVIOUS
  <2>2. QED
    <3> HIDE DEF B
    <3> QED BY <1>1, <2>1, MinimalSet
<1>3. IsFiniteSet(s)
  BY FiniteSubset
<1>4. s # {}
  BY Zenon, <1>2, <1>3, SumUnfold
<1>5. Elem(s) \in s
  BY <1>4 DEF Elem
<1>6. SumFunctionOnSet(f, s \ {Elem(s)}) = 0
  BY <1>2, <1>5
<1>7. QED
  BY <1>3, <1>4, <1>5, <1>6, SumUnfold

\* A sum of naturals is a natural.
LEMMA SumNat ==
    ASSUME NEW S, IsFiniteSet(S), NEW f, \A x \in S : f[x] \in Nat
    PROVE  SumFunctionOnSet(f, S) \in Nat
<1> DEFINE B == {s \in SUBSET S : SumFunctionOnSet(f, s) \notin Nat}
<1>1. SUFFICES ASSUME B # {} PROVE FALSE
  OBVIOUS
<1>2. PICK s \in B : \A t \in B : ~(t \subseteq s /\ t # s)
  <2>1. B \subseteq SUBSET S
    OBVIOUS
  <2>2. QED
    <3> HIDE DEF B
    <3> QED BY <1>1, <2>1, MinimalSet
<1>3. IsFiniteSet(s)
  BY FiniteSubset
<1>4. ASSUME s = {} PROVE FALSE
  <2>1. SumFunctionOnSet(f, s) = 0
    BY Zenon, <1>4, FiniteEmpty, SumUnfold
  <2>2. QED
    BY <2>1
<1>5. Elem(s) \in s
  BY <1>4 DEF Elem
<1>6. SumFunctionOnSet(f, s \ {Elem(s)}) \in Nat
  BY <1>2, <1>5
<1>7. QED
  BY <1>3, <1>4, <1>5, <1>6, SumUnfold

\* A sum of naturals is at least each of them.
LEMMA SumMember ==
    ASSUME NEW S, IsFiniteSet(S), NEW f, \A x \in S : f[x] \in Nat, NEW e \in S
    PROVE  f[e] <= SumFunctionOnSet(f, S)
<1>1. IsFiniteSet(S \ {e})
  BY FiniteSubset
<1>2. SumFunctionOnSet(f, S \ {e}) \in Nat
  BY <1>1, SumNat
<1>3. SumFunctionOnSet(f, S) = f[e] + SumFunctionOnSet(f, S \ {e})
  BY SumRemove
<1>4. QED
  BY <1>2, <1>3

\* Two elements change: the sum changes by as much as the two together.
LEMMA SumShift ==
    ASSUME NEW S, IsFiniteSet(S), NEW f, NEW g, NEW a \in S, NEW b \in S, NEW k \in Int,
           \A x \in S : f[x] \in Int /\ g[x] \in Int,
           \A x \in S \ {a, b} : f[x] = g[x],
           g[a] + g[b] = f[a] + f[b] + (IF a = b THEN 2 * k ELSE k)
    PROVE  SumFunctionOnSet(g, S) = SumFunctionOnSet(f, S) + k
<1>1. CASE a = b
  <2>0. /\ \A x \in S \ {a} : f[x] = g[x]
        /\ \A x \in S : f[x] \in Int /\ g[x] \in Int
    BY <1>1
  <2>1. SumFunctionOnSet(g, S) = SumFunctionOnSet(f, S) - f[a] + g[a]
    BY ONLY <2>0, IsFiniteSet(S), a \in S, SumChange
  <2>2. SumFunctionOnSet(f, S) \in Int
    BY SumInt
  <2>3. QED
    BY <1>1, <2>1, <2>2
<1>2. CASE a # b
  <2> DEFINE q == S \ {a}
             r == q \ {b}
  <2>1. IsFiniteSet(q) /\ IsFiniteSet(r) /\ b \in q
    BY <1>2, FiniteSubset
  <2>2. /\ SumFunctionOnSet(f, S) = f[a] + SumFunctionOnSet(f, q)
        /\ SumFunctionOnSet(g, S) = g[a] + SumFunctionOnSet(g, q)
    BY SumRemove
  <2>3. /\ SumFunctionOnSet(f, q) = f[b] + SumFunctionOnSet(f, r)
        /\ SumFunctionOnSet(g, q) = g[b] + SumFunctionOnSet(g, r)
    BY <2>1, SumRemove
  <2>4. SumFunctionOnSet(f, r) = SumFunctionOnSet(g, r) /\ SumFunctionOnSet(f, r) \in Int
    BY <2>1, SumSame, SumInt
  <2>5. QED
    BY <1>2, <2>2, <2>3, <2>4
<1>3. QED
  BY <1>1, <1>2

=============================================================================
