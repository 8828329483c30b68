---------------------------- MODULE FoldTheorems ----------------------------
(***************************************************************************)
(* Facts about the sums and folds of Folding.  An induction over numbers   *)
(* or over the subsets of a finite set is stated for a set Good of those   *)
(* that have the property, which the provers can instantiate, where an     *)
(* operator could not be.                                                  *)
(***************************************************************************)
EXTENDS Folding, FiniteSets, Sequences, WellFoundedInduction, TLAPS

\* Induction over the natural numbers, for a set of numbers.
LEMMA NatInductionFor ==
    ASSUME NEW Good, \A n \in Nat : (\A m \in 0 .. n - 1 : m \in Good) => n \in Good
    PROVE  \A n \in Nat : n \in Good
<1> DEFINE Bad == Nat \ Good
<1>1. IsWellFoundedOn(OpToRel(<, Nat), Nat)
    BY NatLessThanWellFounded, ZenonT(60)
<1>2. ASSUME Bad # {} PROVE FALSE
  <2>1. PICK n \in Bad : \A m \in Bad : <<m, n>> \notin OpToRel(<, Nat)
    <3> HIDE DEF Bad
    <3>1. Bad \subseteq Nat
        BY DEF Bad
    <3> QED BY <1>1, <1>2, <3>1, WFMin, ZenonT(60)
  <2>2. ASSUME NEW m \in 0 .. n - 1 PROVE m \in Good
    <3>1. m < n /\ m \in Nat /\ n \in Nat
        OBVIOUS
    <3>2. <<m, n>> \in OpToRel(<, Nat)
        BY <3>1 DEF OpToRel
    <3> QED BY <2>1, <3>1, <3>2, ZenonT(60)
  <2> QED BY <2>2
<1> QED BY <1>2

\* Subsets of a finite set are finite.
LEMMA FiniteSubset ==
    ASSUME NEW S, IsFiniteSet(S), NEW T \in SUBSET S
    PROVE  IsFiniteSet(T)
<1>1. PICK q \in Seq(S) : \A x \in S : \E i \in 1 .. Len(q) : q[i] = x
    BY DEF IsFiniteSet
<1>2. CASE T = {}
  <2>1. << >> \in Seq(T)
      OBVIOUS
  <2> QED BY <1>2, <2>1, ZenonT(60) DEF IsFiniteSet
<1>3. CASE T # {}
  <2>1. PICK a \in T : TRUE
      BY <1>3
  <2> DEFINE r == [i \in 1 .. Len(q) |-> IF q[i] \in T THEN q[i] ELSE a]
  <2>2. r \in Seq(T) /\ Len(r) = Len(q) /\ \A x \in T : \E i \in 1 .. Len(q) : r[i] = x
    <3>1. Len(q) \in Nat /\ \A x \in T : \E i \in 1 .. Len(q) : q[i] = x
        BY <1>1
    <3>2. r \in [1 .. Len(q) -> T]
        BY <2>1, Zenon
    <3>3. \A x \in T : \E i \in 1 .. Len(q) : r[i] = x
        BY <3>1
    <3> HIDE DEF r
    <3>4. r \in Seq(T) /\ Len(r) = Len(q)
        BY <3>1, <3>2
    <3> QED BY <3>3, <3>4, Zenon
  <2> HIDE DEF r
  <2> QED BY <2>2 DEF IsFiniteSet
<1> QED BY <1>2, <1>3

\* The positions of a sequence are finitely many.
LEMMA FinitePositions == ASSUME NEW n \in Nat PROVE IsFiniteSet(1 .. n)
<1> DEFINE q == [i \in 1 .. n |-> i]
<1>1. q \in Seq(1 .. n) /\ Len(q) = n /\ \A x \in 1 .. n : \E i \in 1 .. n : q[i] = x
    OBVIOUS
<1> HIDE DEF q
<1> QED BY <1>1, ZenonT(60) DEF IsFiniteSet

\* Induction over the subsets of a finite set, for a set of subsets.
LEMMA SubsetInduction ==
    ASSUME NEW S, IsFiniteSet(S), NEW Good,
           \A s \in SUBSET S : (\A t \in SUBSET s : t # s => t \in Good) => s \in Good
    PROVE  \A s \in SUBSET S : s \in Good
<1> DEFINE Listing(s, n, q) == \A x \in s : \E i \in 1 .. n : q[i] = x
           Short == {n \in Nat : \A s \in SUBSET S : (\E q : Listing(s, n, q)) => s \in Good}
<1>1. ASSUME NEW n \in Nat, \A m \in 0 .. n - 1 : m \in Short PROVE n \in Short
  <2> SUFFICES ASSUME NEW s \in SUBSET S, NEW q, Listing(s, n, q) PROVE s \in Good
      OBVIOUS
  <2> SUFFICES ASSUME NEW t \in SUBSET s, t # s PROVE t \in Good
      OBVIOUS
  <2>1. PICK x \in s : x \notin t
      OBVIOUS
  <2>2. PICK k \in 1 .. n : q[k] = x
      OBVIOUS
  <2> DEFINE m == n - 1
             r == [i \in 1 .. m |-> IF i < k THEN q[i] ELSE q[i + 1]]
  <2>3. Listing(t, m, r)
    <3> SUFFICES ASSUME NEW y \in t PROVE \E i \in 1 .. m : r[i] = y
        OBVIOUS
    <3>1. PICK j \in 1 .. n : q[j] = y
        OBVIOUS
    <3>2. j # k
        BY <2>1, <2>2, <3>1
    <3>3. CASE j < k
      <4>1. j \in 1 .. m /\ r[j] = y
          BY <3>1, <3>3
      <4> QED BY <4>1
    <3>4. CASE j > k
      <4> DEFINE i == j - 1
      <4>1. i \in 1 .. m /\ ~(i < k) /\ i + 1 = j
          BY <3>4
      <4>2. r[i] = y
          BY <3>1, <4>1
      <4> QED BY <4>1, <4>2
    <3> QED BY <3>2, <3>3, <3>4
  <2>4. m \in Short /\ t \in SUBSET S
      BY <1>1
  <2> HIDE DEF m, r
  <2> QED BY <2>3, <2>4
<1>2. \A n \in Nat : n \in Short
  <2> HIDE DEF Short
  <2> QED BY <1>1, NatInductionFor
<1>3. ASSUME NEW s \in SUBSET S PROVE s \in Good
  <2>1. PICK n \in Nat : \E q : Listing(s, n, q)
    <3>1. PICK q \in Seq(s) : \A x \in s : \E i \in 1 .. Len(q) : q[i] = x
        BY FiniteSubset, ZenonT(60) DEF IsFiniteSet
    <3>2. Len(q) \in Nat /\ Listing(s, Len(q), q)
        BY <3>1
    <3> HIDE DEF Listing
    <3> QED BY <3>2
  <2> QED BY <1>2, <2>1, ZenonT(60)
<1> QED BY <1>3

-----------------------------------------------------------------------------
(* What a fold over the subsets of S is: g folds step, from base, over the *)
(* f of the elements, which pick takes out of a set one by one.            *)
FoldsOver(S, base, step, f, pick, g) ==
    \A s \in SUBSET S :
        g[s] = IF s = {} THEN base ELSE step[<<f[pick[s]], g[s \ {pick[s]}]>>]

Picks(pick, S) == \A s \in SUBSET S : s # {} => pick[s] \in s

\* Two folds agree where both are defined.
LEMMA FoldSame ==
    ASSUME NEW S, NEW T, NEW U, U \subseteq S, U \subseteq T, IsFiniteSet(U),
           NEW base, NEW step, NEW f, NEW pick, Picks(pick, U),
           NEW g, NEW h, FoldsOver(S, base, step, f, pick, g), FoldsOver(T, base, step, f, pick, h)
    PROVE  g[U] = h[U]
<1> DEFINE Same == {s \in SUBSET U : g[s] = h[s]}
<1>1. ASSUME NEW s \in SUBSET U, \A t \in SUBSET s : t # s => t \in Same PROVE s \in Same
  <2>0. s \in SUBSET S /\ s \in SUBSET T
      OBVIOUS
  <2>1. CASE s = {}
      BY <2>0, <2>1, ZenonT(60) DEF FoldsOver
  <2>2. CASE s # {}
    <3> DEFINE t == s \ {pick[s]}
    <3>1. pick[s] \in s
        BY <2>2 DEF Picks
    <3>2. t \in Same
        BY <1>1, <3>1
    <3>3. g[s] = step[<<f[pick[s]], g[t]>>]
        BY <2>0, <2>2 DEF FoldsOver
    <3>4. h[s] = step[<<f[pick[s]], h[t]>>]
        BY <2>0, <2>2 DEF FoldsOver
    <3> QED BY <3>2, <3>3, <3>4
  <2> QED BY <2>1, <2>2
<1>2. \A s \in SUBSET U : s \in Same
  <2> HIDE DEF Same
  <2> QED BY <1>1, SubsetInduction
<1> QED BY <1>2

\* There is such a fold, of the type of base and step.
LEMMA FoldExists ==
    ASSUME NEW S, IsFiniteSet(S), NEW D, NEW V, NEW base \in V, NEW step \in [D \X V -> V],
           NEW f, \A a \in S : f[a] \in D, NEW pick, Picks(pick, S)
    PROVE  \E g \in [SUBSET S -> V] : FoldsOver(S, base, step, f, pick, g)
<1> DEFINE IsFold(s, g) == g \in [SUBSET s -> V] /\ FoldsOver(s, base, step, f, pick, g)
           Good == {s \in SUBSET S : \E g : IsFold(s, g)}
<1>1. ASSUME NEW s \in SUBSET S, NEW t \in SUBSET s, NEW g, NEW h, IsFold(s, g), IsFold(t, h)
      PROVE  g[t] = h[t]
  <2>1. IsFiniteSet(t) /\ Picks(pick, t)
      BY FiniteSubset DEF Picks
  <2> QED BY <1>1, <2>1, FoldSame
<1>2. ASSUME NEW s \in SUBSET S, \A t \in SUBSET s : t # s => t \in Good PROVE s \in Good
  <2> DEFINE G(t) == CHOOSE g : IsFold(t, g)
             last == IF s = {} THEN base
                     ELSE step[<<f[pick[s]], G(s \ {pick[s]})[s \ {pick[s]}]>>]
             g == [t \in SUBSET s |-> IF t = s THEN last ELSE G(t)[t]]
  <2>1. ASSUME NEW t \in SUBSET s, t # s PROVE IsFold(t, G(t))
    <3>1. \E h : IsFold(t, h)
        BY <1>2, <2>1, ZenonT(60)
    <3> HIDE DEF IsFold
    <3> QED BY <3>1
  <2>2. ASSUME NEW t \in SUBSET s, t # {}
        PROVE  t \ {pick[t]} \in SUBSET t /\ t \ {pick[t]} # t /\ pick[t] \in S
      BY <2>2 DEF Picks
  <2> HIDE DEF G
  <2>3. last \in V
    <3>1. CASE s # {}
      <4> DEFINE t == s \ {pick[s]}
      <4>1. IsFold(t, G(t))
        <5> HIDE DEF IsFold
        <5> QED BY <2>1, <2>2, <3>1
      <4>2. G(t)[t] \in V
          BY <4>1, ZenonT(60)
      <4> QED BY <2>2, <3>1, <4>2
    <3> QED BY <3>1
  <2>4. g \in [SUBSET s -> V]
      BY <2>1, <2>3, ZenonT(60)
  <2>5. ASSUME NEW t \in SUBSET s
        PROVE  g[t] = IF t = {} THEN base ELSE step[<<f[pick[t]], g[t \ {pick[t]}]>>]
    <3> DEFINE u == t \ {pick[t]}
    <3>1. CASE t = s
        BY <2>2, <3>1
    <3>2. CASE t # s /\ t = {}
        BY <2>1, <3>2, ZenonT(60) DEF FoldsOver
    <3>3. CASE t # s /\ t # {}
      <4>1. u \in SUBSET t /\ u # s
          BY <2>2, <3>3
      <4>2. G(t)[u] = G(u)[u]
        <5>1. IsFold(t, G(t)) /\ IsFold(u, G(u))
            BY <2>1, <3>3, <4>1, ZenonT(60)
        <5> HIDE DEF IsFold
        <5>2. t \in SUBSET S
            OBVIOUS
        <5> QED BY <1>1, <4>1, <5>1, <5>2
      <4>3. G(t)[t] = step[<<f[pick[t]], G(t)[u]>>]
          BY <2>1, <3>3, ZenonT(60) DEF FoldsOver
      <4> QED BY <3>3, <4>1, <4>2, <4>3, ZenonT(60)
    <3> QED BY <3>1, <3>2, <3>3
  <2>6. IsFold(s, g)
      BY <2>4, <2>5, ZenonT(60) DEF FoldsOver
  <2> QED BY <2>6, ZenonT(60)
<1>3. S \in Good
  <2> HIDE DEF Good
  <2> QED BY <1>2, SubsetInduction
<1> QED BY <1>3, ZenonT(60)

-----------------------------------------------------------------------------
(* Sums. *)

\* A sum takes some element first, and then the others.
LEMMA SumStep ==
    ASSUME NEW S, IsFiniteSet(S), NEW f, \A a \in S : f[a] \in Int
    PROVE  IF S = {} THEN SumOf(f, S) = 0
           ELSE \E a \in S : SumOf(f, S) = f[a] + SumOf(f, S \ {a})
<1> DEFINE Pick(s) == CHOOSE x \in s : TRUE
           AddsUp(s, g) ==
               g = [t \in SUBSET s |-> IF t = {} THEN 0 ELSE f[Pick(t)] + g[t \ {Pick(t)}]]
<1>1. \A s : SumOf(f, s) = (CHOOSE g : AddsUp(s, g))[s]
    BY DEF SumOf, Fold!MapThenFoldSet
<1>2. ASSUME NEW s, s # {} PROVE Pick(s) \in s
    BY <1>2
<1> HIDE DEF Pick
\* What it means to add up, at one subset.
<1>3. ASSUME NEW s, NEW g, AddsUp(s, g), NEW t \in SUBSET s
      PROVE  g[t] = IF t = {} THEN 0 ELSE f[Pick(t)] + g[t \ {Pick(t)}]
  <2>1. g[t] = [u \in SUBSET s |-> IF u = {} THEN 0 ELSE f[Pick(u)] + g[u \ {Pick(u)}]][t]
      BY <1>3, ZenonT(60)
  <2> QED BY <2>1
\* A function that adds up exists.
<1>4. ASSUME NEW s \in SUBSET S PROVE \E g : AddsUp(s, g)
  <2> DEFINE step == [p \in Int \X Int |-> p[1] + p[2]]
             pick == [t \in SUBSET s |-> Pick(t)]
  <2>1. step \in [Int \X Int -> Int] /\ Picks(pick, s) /\ 0 \in Int
      BY <1>2 DEF Picks
  <2>2. IsFiniteSet(s) /\ \A a \in s : f[a] \in Int
      BY FiniteSubset
  <2>3. PICK g \in [SUBSET s -> Int] : FoldsOver(s, 0, step, f, pick, g)
    <3> HIDE DEF step, pick
    <3> QED BY ONLY <2>1, <2>2, FoldExists, ZenonT(60)
  <2>4. ASSUME NEW t \in SUBSET s, t # {}
        PROVE  g[t] = f[Pick(t)] + g[t \ {Pick(t)}]
    <3>1. Pick(t) \in t
        BY <1>2, <2>4
    <3>2. <<f[Pick(t)], g[t \ {Pick(t)}]>> \in Int \X Int
        BY <3>1
    <3> QED BY <2>3, <2>4, <3>2, ZenonT(60) DEF FoldsOver
  <2>5. g[{}] = 0
      BY <2>3, ZenonT(60) DEF FoldsOver
  <2>6. AddsUp(s, g)
      BY <2>4, <2>5, ZenonT(60)
  <2> HIDE DEF AddsUp
  <2> QED BY <2>6
<1> HIDE DEF AddsUp
\* Two of them agree where both are defined.
<1>5. ASSUME NEW T \in SUBSET S, NEW g, NEW h, AddsUp(S, g), AddsUp(T, h)
      PROVE  g[T] = h[T]
  <2> DEFINE Same == {s \in SUBSET T : g[s] = h[s]}
  <2>1. ASSUME NEW s \in SUBSET T, \A t \in SUBSET s : t # s => t \in Same PROVE s \in Same
    <3>1. s \in SUBSET S
        OBVIOUS
    <3>2. CASE s = {}
        BY <1>3, <1>5, <3>1, <3>2, ZenonT(60)
    <3>3. CASE s # {}
      <4> DEFINE t == s \ {Pick(s)}
      <4>1. t \in Same
          BY <1>2, <2>1, <3>3
      <4>2. g[s] = f[Pick(s)] + g[t]
          BY <1>3, <1>5, <3>1, <3>3
      <4>3. h[s] = f[Pick(s)] + h[t]
          BY <1>3, <1>5, <3>3
      <4> QED BY <4>1, <4>2, <4>3
    <3> QED BY <3>2, <3>3
  <2>2. \A s \in SUBSET T : s \in Same
    <3>1. IsFiniteSet(T)
        BY FiniteSubset
    <3> HIDE DEF Same
    <3> QED BY <2>1, <3>1, SubsetInduction
  <2> QED BY <2>2
<1> DEFINE T == S \ {Pick(S)}
           g == CHOOSE h : AddsUp(S, h)
           k == CHOOSE h : AddsUp(T, h)
<1>6. AddsUp(S, g) /\ AddsUp(T, k) /\ SumOf(f, S) = g[S] /\ SumOf(f, T) = k[T]
    BY <1>1, <1>4, ZenonT(60)
<1> HIDE DEF g, k
<1>7. g[T] = k[T]
    BY <1>5, <1>6
<1>8. CASE S = {}
    BY <1>3, <1>6, <1>8
<1>9. CASE S # {}
  <2>1. g[S] = f[Pick(S)] + g[T]
      BY <1>3, <1>6, <1>9
  <2> QED BY <1>2, <1>6, <1>7, <1>9, <2>1, ZenonT(60)
<1> QED BY <1>8, <1>9

\* Nothing adds up to zero.
LEMMA SumEmpty == ASSUME NEW f PROVE SumOf(f, {}) = 0
<1>1. IsFiniteSet({})
  <2>1. IsFiniteSet(1 .. 0) /\ 1 .. 0 = {}
      BY FinitePositions
  <2> QED BY <2>1
<1> QED BY <1>1, SumStep

\* A sum of integers is one, and a sum of natural numbers.
LEMMA SumType ==
    ASSUME NEW S, IsFiniteSet(S), NEW f, NEW R \in {Nat, Int}, \A a \in S : f[a] \in R
    PROVE  SumOf(f, S) \in R
<1> DEFINE Good == {s \in SUBSET S : SumOf(f, s) \in R}
<1>1. ASSUME NEW s \in SUBSET S, \A t \in SUBSET s : t # s => t \in Good PROVE s \in Good
  <2>1. CASE s = {}
      BY <2>1, SumEmpty
  <2>2. CASE s # {}
    <3>1. IsFiniteSet(s) /\ \A a \in s : f[a] \in Int
        BY FiniteSubset
    <3>2. PICK x \in s : SumOf(f, s) = f[x] + SumOf(f, s \ {x})
        BY <2>2, <3>1, SumStep
    <3>3. SumOf(f, s \ {x}) \in R
        BY <1>1
    <3> QED BY <3>2, <3>3
  <2> QED BY <2>1, <2>2
<1>2. \A s \in SUBSET S : s \in Good
  <2> HIDE DEF Good
  <2> QED BY <1>1, SubsetInduction
<1> QED BY <1>2

\* The order of the elements does not matter.
LEMMA SumRemove ==
    ASSUME NEW S, IsFiniteSet(S), NEW f, \A a \in S : f[a] \in Int, NEW x \in S
    PROVE  SumOf(f, S) = f[x] + SumOf(f, S \ {x})
<1> DEFINE Good == {s \in SUBSET S : \A y \in s : SumOf(f, s) = f[y] + SumOf(f, s \ {y})}
<1>1. ASSUME NEW s \in SUBSET S, \A t \in SUBSET s : t # s => t \in Good PROVE s \in Good
  <2> SUFFICES ASSUME NEW y \in s PROVE SumOf(f, s) = f[y] + SumOf(f, s \ {y})
      OBVIOUS
  <2>1. IsFiniteSet(s)
      BY FiniteSubset
  <2>2. PICK p \in s : SumOf(f, s) = f[p] + SumOf(f, s \ {p})
      BY <2>1, SumStep
  <2> DEFINE rest == SumOf(f, (s \ {y}) \ {p})
  <2>3. IsFiniteSet((s \ {y}) \ {p})
      BY FiniteSubset
  <2>4. CASE y = p
      BY <2>2, <2>4
  <2>5. CASE y # p
    <3>1. SumOf(f, s \ {p}) = f[y] + SumOf(f, (s \ {p}) \ {y})
        BY <1>1, <2>5
    <3>2. SumOf(f, s \ {y}) = f[p] + rest
        BY <1>1, <2>5
    <3>3. (s \ {p}) \ {y} = (s \ {y}) \ {p}
        OBVIOUS
    <3>4. SumOf(f, s) = f[p] + (f[y] + rest)
        BY <2>2, <3>1, <3>3
    <3>5. rest \in Int /\ f[p] \in Int /\ f[y] \in Int
        BY <2>3, SumType
    <3> HIDE DEF rest
    <3>6. f[p] + (f[y] + rest) = f[y] + (f[p] + rest)
        BY <3>5
    <3> QED BY <3>2, <3>4, <3>6
  <2> QED BY <2>4, <2>5
<1>2. \A s \in SUBSET S : s \in Good
  <2> HIDE DEF Good
  <2> QED BY <1>1, SubsetInduction
<1> QED BY <1>2

\* Only what f says of S matters.
LEMMA SumSame ==
    ASSUME NEW S, IsFiniteSet(S), NEW f, NEW g, \A a \in S : f[a] \in Int /\ f[a] = g[a]
    PROVE  SumOf(f, S) = SumOf(g, S)
<1> DEFINE Same == {s \in SUBSET S : SumOf(f, s) = SumOf(g, s)}
<1>1. ASSUME NEW s \in SUBSET S, \A t \in SUBSET s : t # s => t \in Same PROVE s \in Same
  <2>1. CASE s = {}
      BY <2>1, SumEmpty
  <2>2. CASE s # {}
    <3>1. PICK x \in s : TRUE
        BY <2>2
    <3>2. SumOf(f, s \ {x}) = SumOf(g, s \ {x})
        BY <1>1
    <3>3. IsFiniteSet(s) /\ \A a \in s : f[a] \in Int /\ g[a] \in Int
        BY FiniteSubset
    <3>4. SumOf(f, s) = f[x] + SumOf(f, s \ {x}) /\ SumOf(g, s) = g[x] + SumOf(g, s \ {x})
        BY <3>3, SumRemove
    <3> QED BY <3>2, <3>4
  <2> QED BY <2>1, <2>2
<1>2. \A s \in SUBSET S : s \in Same
  <2> HIDE DEF Same
  <2> QED BY <1>1, SubsetInduction
<1> QED BY <1>2

\* One term changes.
LEMMA SumChange ==
    ASSUME NEW S, IsFiniteSet(S), NEW f, NEW g, NEW x \in S,
           \A a \in S : f[a] \in Int /\ g[a] \in Int,
           \A a \in S \ {x} : f[a] = g[a]
    PROVE  SumOf(g, S) = SumOf(f, S) + (g[x] - f[x])
<1>1. IsFiniteSet(S \ {x})
    BY FiniteSubset
<1>2. SumOf(f, S \ {x}) = SumOf(g, S \ {x})
    BY <1>1, SumSame
<1>3. SumOf(f, S \ {x}) \in Int
    BY <1>1, SumType
<1> QED BY <1>2, <1>3, SumRemove

-----------------------------------------------------------------------------
(* Folds over sequences, from the left: the last element is taken out first. *)

Largest(t) == CHOOSE x \in t : \A y \in t : x >= y

FoldsTo(n, base, step, f, g) ==
    \A t \in SUBSET (1 .. n) :
        g[t] = IF t = {} THEN base ELSE step[<<f[Largest(t)], g[t \ {Largest(t)}]>>]

\* The largest of some positions is one of them.
LEMMA TopIs ==
    ASSUME NEW n \in Nat, NEW t \in SUBSET (1 .. n), t # {}
    PROVE  Largest(t) \in t /\ \A y \in t : Largest(t) >= y
<1> DEFINE S == 1 .. n
           Good == {s \in SUBSET S : s # {} => \E x \in s : \A y \in s : x >= y}
<1>1. ASSUME NEW s \in SUBSET S, \A u \in SUBSET s : u # s => u \in Good PROVE s \in Good
  <2> SUFFICES ASSUME s # {} PROVE \E x \in s : \A y \in s : x >= y
      OBVIOUS
  <2>1. PICK a \in s : TRUE
      BY ZenonT(60)
  <2>2. CASE s \ {a} = {}
      BY <2>2
  <2>3. CASE s \ {a} # {}
    <3>1. PICK b \in s \ {a} : \A y \in s \ {a} : b >= y
        BY <1>1, <2>3, ZenonT(60)
    <3>2. CASE a >= b
      <4>1. \A y \in s : a >= y
          BY <3>1, <3>2
      <4> QED BY <4>1
    <3>3. CASE ~(a >= b)
      <4>1. \A y \in s : b >= y
          BY <3>1, <3>3
      <4> QED BY <3>1, <4>1
    <3> QED BY <3>2, <3>3
  <2> QED BY <2>2, <2>3
<1>2. IsFiniteSet(S) /\ t \in SUBSET S
    BY FinitePositions
<1>3. \A s \in SUBSET S : s \in Good
  <2> HIDE DEF S, Good
  <2> QED BY <1>1, <1>2, SubsetInduction, ZenonT(60)
<1> QED BY <1>2, <1>3, ZenonT(60) DEF Largest

\* A fold of a sequence with a typed step has a value at every set of positions.
LEMMA FoldToExists ==
    ASSUME NEW D, NEW V, NEW base \in V, NEW step \in [D \X V -> V],
           NEW n \in Nat, NEW f, \A i \in 1 .. n : f[i] \in D
    PROVE  \E g \in [SUBSET (1 .. n) -> V] : FoldsTo(n, base, step, f, g)
<1> DEFINE S == 1 .. n
           pick == [t \in SUBSET S |-> Largest(t)]
<1>1. IsFiniteSet(S) /\ \A i \in S : f[i] \in D
    BY FinitePositions
<1>2. Picks(pick, S)
    BY TopIs, ZenonT(60) DEF Picks
<1>3. \E g \in [SUBSET S -> V] : FoldsOver(S, base, step, f, pick, g)
  <2> HIDE DEF S, pick
  <2> QED BY <1>1, <1>2, FoldExists, ZenonT(60)
<1> QED BY <1>3, ZenonT(60) DEF FoldsTo, FoldsOver

\* The fold of one more element is one step from the fold before it.
LEMMA FoldToStep ==
    ASSUME NEW base, NEW step, NEW n \in Nat, NEW m, m = n + 1,
           NEW f, NEW f0, \A i \in 1 .. n : f[i] = f0[i],
           NEW g, NEW h, FoldsTo(n, base, step, f, g), FoldsTo(m, base, step, f0, h)
    PROVE  h[1 .. m] = step[<<f0[m], g[1 .. n]>>]
<1> DEFINE U == 1 .. n
           S == 1 .. m
           pick == [t \in SUBSET S |-> Largest(t)]
<1>1. U \subseteq S /\ S \ {m} = U /\ m \in S
    OBVIOUS
<1>2. IsFiniteSet(U)
    BY FinitePositions
<1>3. ASSUME NEW t \in SUBSET S, t # {} PROVE Largest(t) \in t /\ \A y \in t : Largest(t) >= y
  <2>1. m \in Nat
      OBVIOUS
  <2> QED BY <1>3, <2>1, TopIs, ZenonT(60)
<1>4. FoldsOver(U, base, step, f0, pick, g)
  <2>1. ASSUME NEW t \in SUBSET U, t # {} PROVE f[Largest(t)] = f0[pick[t]]
      BY <1>1, <1>3, <2>1, ZenonT(60)
  <2> QED BY <1>1, <2>1, ZenonT(60) DEF FoldsTo, FoldsOver
<1>5. FoldsOver(S, base, step, f0, pick, h)
    BY ZenonT(60) DEF FoldsTo, FoldsOver
<1>6. Picks(pick, U)
    BY <1>1, <1>3 DEF Picks
<1>7. g[U] = h[U]
  <2>1. U \subseteq U
      OBVIOUS
  <2> HIDE DEF U, S, pick
  <2> QED BY ONLY <1>1, <1>2, <1>4, <1>5, <1>6, <2>1, FoldSame
<1>8. Largest(S) = m
  <2>1. Largest(S) \in S /\ Largest(S) >= m
      BY <1>1, <1>3, ZenonT(60)
  <2> QED BY <2>1
<1>9. h[S] = step[<<f0[Largest(S)], h[S \ {Largest(S)}]>>]
  <2> HIDE DEF S
  <2>1. S \in SUBSET S /\ S # {} /\ pick[S] = Largest(S)
      BY <1>1
  <2> HIDE DEF pick
  <2> QED BY <1>5, <2>1 DEF FoldsOver
<1> QED BY <1>1, <1>7, <1>8, <1>9, ZenonT(60)

\* No term of a sum of natural numbers exceeds it.
LEMMA SumBound ==
    ASSUME NEW S, IsFiniteSet(S), NEW f, \A a \in S : f[a] \in Nat, NEW x \in S
    PROVE  f[x] <= SumOf(f, S)
<1>1. SumOf(f, S) = f[x] + SumOf(f, S \ {x})
    BY SumRemove
<1>2. SumOf(f, S \ {x}) \in Nat
    BY SumType, FiniteSubset
<1> QED BY <1>1, <1>2

\* Two terms together do not exceed it either.
LEMMA SumBoundTwo ==
    ASSUME NEW S, IsFiniteSet(S), NEW f, \A a \in S : f[a] \in Nat,
           NEW x \in S, NEW y \in S, x # y
    PROVE  f[x] + f[y] <= SumOf(f, S)
<1>1. SumOf(f, S) = f[x] + SumOf(f, S \ {x})
    BY SumRemove
<1>2. f[y] <= SumOf(f, S \ {x}) /\ SumOf(f, S \ {x}) \in Nat
    BY SumBound, SumType, FiniteSubset
<1> QED BY <1>1, <1>2

\* Terms that are zero can be left out.
LEMMA SumSupport ==
    ASSUME NEW S, IsFiniteSet(S), NEW T, T \subseteq S, NEW f, \A a \in S : f[a] \in Int,
           \A a \in S \ T : f[a] = 0
    PROVE  SumOf(f, S) = SumOf(f, T)
<1> DEFINE Good == {s \in SUBSET S : SumOf(f, s) = SumOf(f, s \intersect T)}
<1>1. ASSUME NEW s \in SUBSET S, \A t \in SUBSET s : t # s => t \in Good PROVE s \in Good
  <2>1. CASE s \subseteq T
    <3>1. s \intersect T = s
        BY <2>1
    <3> QED BY <3>1
  <2>2. CASE ~(s \subseteq T)
    <3>1. PICK x \in s : x \notin T
        BY <2>2
    <3>2. SumOf(f, s) = f[x] + SumOf(f, s \ {x})
        BY SumRemove, FiniteSubset, ZenonT(60)
    <3>3. (s \ {x}) \intersect T = s \intersect T
        BY <3>1
    <3>4. SumOf(f, s \ {x}) = SumOf(f, s \intersect T)
        BY <1>1, <3>3
    <3>5. SumOf(f, s \ {x}) \in Int
        BY SumType, FiniteSubset
    <3> QED BY <3>1, <3>2, <3>4, <3>5
  <2> QED BY <2>1, <2>2
<1>2. S \in Good
  <2> HIDE DEF Good
  <2> QED BY <1>1, SubsetInduction
<1>3. S \intersect T = T
    OBVIOUS
<1> QED BY <1>2, <1>3

-----------------------------------------------------------------------------
(* What Without leaves of a sequence. *)

IsWithout(s, gone, g) ==
    g = [t \in SUBSET DOMAIN s |->
            IF t = {} THEN << >>
            ELSE IF s[Largest(t)] \in gone THEN g[t \ {Largest(t)}]
            ELSE Append(g[t \ {Largest(t)}], s[Largest(t)])]

\* Without as the choice of a function on sets of positions.
LEMMA WithoutUnfolds ==
    ASSUME NEW s, NEW gone PROVE Without(s, gone) = (CHOOSE g : IsWithout(s, gone, g))[DOMAIN s]
    BY DEF Without, IsWithout, Largest, FoldLeft, Fold!MapThenFoldSet

\* That recursion has a solution.
LEMMA WithoutExists ==
    ASSUME NEW M, NEW s \in Seq(M), NEW gone
    PROVE  \E g \in [SUBSET DOMAIN s -> Seq(M)] : IsWithout(s, gone, g)
<1> DEFINE n == Len(s)
           keep == [p \in M \X Seq(M) |-> IF p[1] \in gone THEN p[2] ELSE Append(p[2], p[1])]
<1>1. n \in Nat /\ DOMAIN s = 1 .. n /\ \A i \in 1 .. n : s[i] \in M
    OBVIOUS
<1>2. << >> \in Seq(M) /\ keep \in [M \X Seq(M) -> Seq(M)]
    OBVIOUS
<1>3. \A x \in M, w \in Seq(M) : keep[<<x, w>>] = IF x \in gone THEN w ELSE Append(w, x)
    OBVIOUS
<1> HIDE DEF n, keep
<1>4. PICK g \in [SUBSET (1 .. n) -> Seq(M)] : FoldsTo(n, << >>, keep, s, g)
    BY <1>1, <1>2, FoldToExists, ZenonT(60)
<1> DEFINE at(t) == IF t = {} THEN << >>
                    ELSE IF s[Largest(t)] \in gone THEN g[t \ {Largest(t)}]
                    ELSE Append(g[t \ {Largest(t)}], s[Largest(t)])
<1>5. ASSUME NEW t \in SUBSET (1 .. n) PROVE g[t] = at(t)
  <2>1. CASE t = {}
      BY <1>4, <2>1, ZenonT(60) DEF FoldsTo
  <2>2. CASE t # {}
    <3>1. Largest(t) \in t
        BY <1>1, <2>2, TopIs, ZenonT(60)
    <3>2. s[Largest(t)] \in M /\ g[t \ {Largest(t)}] \in Seq(M)
        BY <1>1, <3>1, ZenonT(60)
    <3>3. g[t] = keep[<<s[Largest(t)], g[t \ {Largest(t)}]>>]
        BY <1>4, <2>2, ZenonT(60) DEF FoldsTo
    <3> QED BY <1>3, <2>2, <3>2, <3>3, ZenonT(60)
  <2> QED BY <2>1, <2>2
<1>6. g = [t \in SUBSET (1 .. n) |-> at(t)]
  <2> HIDE DEF at
  <2> QED BY <1>5
<1>7. IsWithout(s, gone, g)
    BY <1>1, <1>6, ZenonT(60) DEF IsWithout
<1> QED BY <1>1, <1>7

\* w is what is left of the first k members of s: all that are not gone, each with
\* those that came before it still before it.
KeepsOrder(s, gone, k, w) ==
    /\ \A l \in 1 .. k : s[l] \notin gone => \E y \in DOMAIN w : w[y] = s[l]
    /\ \A x \in DOMAIN w : \E j \in 1 .. k :
          /\ w[x] = s[j]
          /\ \A l \in 1 .. j - 1 : s[l] \notin gone => \E y \in 1 .. x - 1 : w[y] = s[l]

\* One more member of the sequence, gone or kept.
LEMMA KeepsOrderStep ==
    ASSUME NEW M, NEW s \in Seq(M), NEW gone, NEW k \in Nat, k + 1 \in 1 .. Len(s),
           NEW w \in Seq(M), KeepsOrder(s, gone, k, w)
    PROVE  /\ s[k + 1] \in gone => KeepsOrder(s, gone, k + 1, w)
           /\ s[k + 1] \notin gone => KeepsOrder(s, gone, k + 1, Append(w, s[k + 1]))
<1>1. ASSUME s[k + 1] \in gone PROVE KeepsOrder(s, gone, k + 1, w)
  <2>1. \A l \in 1 .. k + 1 : s[l] \notin gone => l \in 1 .. k
      BY <1>1
  <2>2. \A j \in 1 .. k : j \in 1 .. k + 1
      OBVIOUS
  <2> QED BY <2>1, <2>2 DEF KeepsOrder
<1>2. ASSUME s[k + 1] \notin gone PROVE KeepsOrder(s, gone, k + 1, Append(w, s[k + 1]))
  <2> DEFINE u == Append(w, s[k + 1])
             n == Len(w)
  <2>1. /\ n \in Nat /\ DOMAIN w = 1 .. n /\ DOMAIN u = 1 .. n + 1 /\ u[n + 1] = s[k + 1]
        /\ \A y \in 1 .. n : u[y] = w[y]
      OBVIOUS
  <2> HIDE DEF u, n
  <2>2. ASSUME NEW l \in 1 .. k + 1, s[l] \notin gone PROVE \E y \in DOMAIN u : u[y] = s[l]
    <3>1. CASE l = k + 1
        BY <2>1, <3>1
    <3>2. CASE l \in 1 .. k
      <4>1. PICK y \in DOMAIN w : w[y] = s[l]
          BY <2>2, <3>2 DEF KeepsOrder
      <4> QED BY <2>1, <4>1
    <3> QED BY <3>1, <3>2
  <2>3. ASSUME NEW x \in DOMAIN u
        PROVE  \E j \in 1 .. k + 1 :
                  /\ u[x] = s[j]
                  /\ \A l \in 1 .. j - 1 : s[l] \notin gone => \E y \in 1 .. x - 1 : u[y] = s[l]
    <3>1. CASE x = n + 1
      <4>1. ASSUME NEW l \in 1 .. k, s[l] \notin gone PROVE \E y \in 1 .. n : u[y] = s[l]
        <5>1. PICK y \in DOMAIN w : w[y] = s[l]
            BY <4>1 DEF KeepsOrder
        <5> QED BY <2>1, <5>1
      <4>2. (k + 1) - 1 = k /\ (n + 1) - 1 = n /\ k + 1 \in 1 .. k + 1
          BY <2>1
      <4> QED BY <2>1, <3>1, <4>1, <4>2
    <3>2. CASE x \in 1 .. n
      <4>1. PICK j \in 1 .. k :
                /\ w[x] = s[j]
                /\ \A l \in 1 .. j - 1 : s[l] \notin gone => \E y \in 1 .. x - 1 : w[y] = s[l]
          BY <2>1, <3>2 DEF KeepsOrder
      <4>2. u[x] = s[j] /\ j \in 1 .. k + 1
          BY <2>1, <3>2, <4>1
      <4>3. ASSUME NEW l \in 1 .. j - 1, s[l] \notin gone PROVE \E y \in 1 .. x - 1 : u[y] = s[l]
        <5>1. PICK y \in 1 .. x - 1 : w[y] = s[l]
            BY <4>1, <4>3
        <5>2. u[y] = w[y]
            BY <2>1, <3>2
        <5> QED BY <5>1, <5>2
      <4> QED BY <4>2, <4>3
    <3> QED BY <2>1, <3>1, <3>2
  <2> QED BY <2>2, <2>3, ZenonT(60) DEF KeepsOrder, u
<1> QED BY <1>1, <1>2

\* What the mempool keeps when a block is committed.
LEMMA WithoutKeeps ==
    ASSUME NEW M, NEW s \in Seq(M), NEW gone
    PROVE  Without(s, gone) \in Seq(M) /\ KeepsOrder(s, gone, Len(s), Without(s, gone))
<1> DEFINE n == Len(s)
<1>1. n \in Nat /\ DOMAIN s = 1 .. n /\ \A i \in 1 .. n : s[i] \in M
    OBVIOUS
<1>2. PICK g : IsWithout(s, gone, g) /\ Without(s, gone) = g[1 .. n]
    BY <1>1, WithoutExists, WithoutUnfolds, ZenonT(60)
<1> HIDE DEF n
<1> DEFINE at(t) == IF t = {} THEN << >>
                    ELSE IF s[Largest(t)] \in gone THEN g[t \ {Largest(t)}]
                    ELSE Append(g[t \ {Largest(t)}], s[Largest(t)])
<1>3. \A t \in SUBSET DOMAIN s : g[t] = at(t)
  <2>1. g = [t \in SUBSET DOMAIN s |-> at(t)]
      BY <1>2, ZenonT(60) DEF IsWithout
  <2> HIDE DEF at
  <2> QED BY <2>1
<1> DEFINE Good == {k \in Nat : k <= n => g[1 .. k] \in Seq(M) /\ KeepsOrder(s, gone, k, g[1 .. k])}
<1>4. ASSUME NEW k \in Nat, \A m \in 0 .. k - 1 : m \in Good PROVE k \in Good
  <2> SUFFICES ASSUME k <= n PROVE g[1 .. k] \in Seq(M) /\ KeepsOrder(s, gone, k, g[1 .. k])
      OBVIOUS
  <2>1. 1 .. k \in SUBSET DOMAIN s
      BY <1>1
  <2>2. CASE k = 0
    <3>1. 1 .. k = {}
        BY <2>2
    <3>2. {} \in SUBSET DOMAIN s
        OBVIOUS
    <3>3. g[{}] = << >>
        BY <1>3, <3>2, ZenonT(60)
    <3>4. << >> \in Seq(M) /\ (\A x : x \notin DOMAIN << >>) /\ \A l : l \notin 1 .. k
        BY <2>2
    <3> QED BY <3>1, <3>3, <3>4, ZenonT(60) DEF KeepsOrder
  <2>3. CASE k # 0
    <3> DEFINE w == g[1 .. k - 1]
    <3>1. k - 1 \in Nat /\ (k - 1) + 1 = k /\ k \in 1 .. n /\ k - 1 \in 0 .. k - 1
        BY <1>1, <2>3
    <3>2. w \in Seq(M) /\ KeepsOrder(s, gone, k - 1, w)
        BY <1>1, <1>4, <3>1
    <3>3. Largest(1 .. k) = k
      <4>1. 1 .. k # {} /\ k \in 1 .. k
          BY <3>1
      <4>2. Largest(1 .. k) \in 1 .. k /\ Largest(1 .. k) >= k
          BY <4>1, TopIs, ZenonT(60)
      <4> QED BY <4>2
    <3>4. (1 .. k) \ {k} = 1 .. k - 1 /\ 1 .. k # {}
      <4>1. ASSUME NEW i PROVE i \in (1 .. k) \ {k} <=> i \in 1 .. k - 1
          OBVIOUS
      <4>2. k \in 1 .. k
          BY <3>1
      <4> QED BY ONLY <4>1, <4>2, ZenonT(60)
    <3>5. g[1 .. k] = IF s[k] \in gone THEN w ELSE Append(w, s[k])
      <4> DEFINE t == 1 .. k
      <4>1. t \in SUBSET DOMAIN s /\ t # {} /\ Largest(t) = k /\ t \ {k} = 1 .. k - 1
          BY <2>1, <3>3, <3>4
      <4> HIDE DEF t
      <4>2. g[t] = at(t)
        <5> HIDE DEF at
        <5> QED BY <1>3, <4>1
      <4> QED BY <4>1, <4>2, ZenonT(60) DEF t
    <3> HIDE DEF w
    <3>6. /\ s[k] \in gone => KeepsOrder(s, gone, k, w)
          /\ s[k] \notin gone => KeepsOrder(s, gone, k, Append(w, s[k]))
      <4> DEFINE m == k - 1
      <4>1. m \in Nat /\ m + 1 = k /\ m + 1 \in 1 .. Len(s) /\ KeepsOrder(s, gone, m, w)
          BY <3>1, <3>2 DEF n
      <4> HIDE DEF m
      <4>2. /\ s[m + 1] \in gone => KeepsOrder(s, gone, m + 1, w)
            /\ s[m + 1] \notin gone => KeepsOrder(s, gone, m + 1, Append(w, s[m + 1]))
          BY <3>2, <4>1, KeepsOrderStep
      <4> QED BY <4>1, <4>2
    <3>7. Append(w, s[k]) \in Seq(M)
        BY <1>1, <3>1, <3>2
    <3> QED BY <3>2, <3>5, <3>6, <3>7
  <2> QED BY <2>2, <2>3
<1>5. \A k \in Nat : k \in Good
  <2> HIDE DEF Good
  <2> QED BY <1>4, NatInductionFor
<1>6. n \in Good
    BY <1>1, <1>5
<1> QED BY <1>1, <1>2, <1>6 DEF n
=============================================================================
