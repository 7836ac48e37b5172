------------------------------ MODULE FoldTheorems ------------------------------
(***************************************************************************)
(* Induction over the naturals, and over the elements of a sequence that   *)
(* FoldLeft visits: MapThenFoldSet unfolded from the last index down.  A   *)
(* set takes the place of the predicate and a function that of the step.   *)
(***************************************************************************)
EXTENDS Integers, FiniteSetsExt, FiniteSetTheorems, WellFoundedInduction, TLAPS

-----------------------------------------------------------------------------
(* Induction.                                                              *)

LessWithinNat == {p \in Nat \X Nat : p[1] < p[2]}

(* Every nonempty set of naturals has a least element.                     *)
LEMMA LeastOf ==
    ASSUME NEW T, T \subseteq Nat, T # {}
    PROVE  \E x \in T : \A y \in T : x <= y
<1>1. OpToRel(<, Nat) = LessWithinNat
  BY Zenon DEF OpToRel, LessWithinNat
<1>2. IsWellFoundedOn(LessWithinNat, Nat)
  BY <1>1, NatLessThanWellFounded, Zenon
<1>3. PICK x \in T : \A y \in T : ~(<<y, x>> \in LessWithinNat)
  BY <1>2, WFMin, Zenon
<1>4. \A y \in T : ~(y < x)
  BY <1>3 DEF LessWithinNat
<1> QED
  BY <1>4

(* A set of naturals with zero and the successor of every member is all of *)
(* them.                                                                   *)
LEMMA Induction ==
    ASSUME NEW T, 0 \in T, \A k \in Nat : k \in T => k + 1 \in T
    PROVE  Nat \subseteq T
<1> DEFINE Out == {k \in Nat : k \notin T}
<1>1. ASSUME Out # {} PROVE FALSE
  <2> HIDE DEF Out
  <2>1. PICK x \in Out : \A y \in Out : x <= y
    BY <1>1, LeastOf DEF Out
  <2>2. x \in Nat /\ x \notin T
    BY DEF Out
  <2>3. x - 1 \in Nat /\ x - 1 \notin Out
    BY <2>1, <2>2
  <2>4. x - 1 \in T
    BY <2>3 DEF Out
  <2> QED
    BY <2>2, <2>3, <2>4
<1> QED
  BY <1>1

(* The step of a fold over 1 .. k + 1 goes through its last element. *)
LEMMA LastFolded ==
    ASSUME NEW k \in Nat, NEW s \in SUBSET (1 .. k + 1)
    PROVE  /\ k + 1 \in s => /\ Max(s) = k + 1
                             /\ s \ {Max(s)} \in SUBSET (1 .. k)
           /\ k + 1 \notin s => s \in SUBSET (1 .. k)
<1>1. k + 1 \notin s => s \in SUBSET (1 .. k)
  OBVIOUS
<1>2. ASSUME k + 1 \in s PROVE Max(s) = k + 1
  <2>1. \A y \in s : k + 1 >= y
    OBVIOUS
  <2>2. Max(s) \in s /\ \A y \in s : Max(s) >= y
    BY <1>2, <2>1, Zenon DEF Max
  <2>3. PICK m : m = Max(s)
    OBVIOUS
  <2>4. m \in 1 .. k + 1 /\ m >= k + 1
    BY <1>2, <2>2, <2>3
  <2> QED
    BY <2>3, <2>4
<1>3. ASSUME k + 1 \in s PROVE s \ {k + 1} \in SUBSET (1 .. k)
  OBVIOUS
<1> QED
  BY <1>1, <1>2, <1>3

(* A fold takes the last element of a prefix first.                        *)
LEMMA PrefixFolded ==
    ASSUME NEW n \in Nat, NEW k \in Nat, k < n
    PROVE  /\ 1 .. k \in SUBSET (1 .. n) /\ 1 .. k + 1 \in SUBSET (1 .. n) /\ 1 .. k + 1 # {}
           /\ Max(1 .. k + 1) = k + 1 /\ (1 .. k + 1) \ {Max(1 .. k + 1)} = 1 .. k
<1>1. k + 1 \in 1 .. k + 1
  OBVIOUS
<1>2. 1 .. k + 1 \in SUBSET (1 .. k + 1)
  OBVIOUS
<1>3. Max(1 .. k + 1) = k + 1
  BY <1>1, <1>2, LastFolded
<1> QED
  BY <1>1, <1>3

(* The largest index of a nonempty set of indices is one of them, and what *)
(* is left is still a set of indices.                                      *)
LEMMA MaxIsIn ==
    ASSUME NEW n \in Nat, NEW s \in SUBSET (1 .. n), s # {}
    PROVE  Max(s) \in s /\ s \ {Max(s)} \in SUBSET (1 .. n)
<1> DEFINE below == {n - x : x \in s}
<1>1. below \subseteq Nat /\ below # {}
  OBVIOUS
<1>2. PICK b \in below : \A y \in below : b <= y
  <2> HIDE DEF below
  <2> QED
    BY <1>1, LeastOf
<1>3. PICK x \in s : b = n - x
  BY <1>2
<1>4. ASSUME NEW y \in s PROVE x >= y
  <2>1. n - y \in below /\ x \in Nat /\ y \in Nat
    OBVIOUS
  <2>2. b <= n - y
    BY <1>2, <2>1
  <2> QED
    BY <1>3, <2>1, <2>2
<1>5. Max(s) \in s
  BY <1>4, Zenon DEF Max
<1> QED
  BY <1>5

-----------------------------------------------------------------------------
(* Folds over 1 .. n, with the steps given as a function.                  *)

Folded(f, n, base, step) ==
    f = [s \in SUBSET (1 .. n) |-> IF s = {} THEN base ELSE step[<<f[s \ {Max(s)}], Max(s)>>]]

(* A fold over 1 .. n is a function: built from the one over 1 .. n - 1.   *)
LEMMA FoldExists ==
    ASSUME NEW n \in Nat, NEW A, NEW base \in A, NEW step \in [A \X (1 .. n) -> A]
    PROVE  \E f \in [SUBSET (1 .. n) -> A] : Folded(f, n, base, step)
<1> DEFINE Fold(k) == \E f \in [SUBSET (1 .. k) -> A] : Folded(f, k, base, step)
           T == {k \in Nat : k <= n => Fold(k)}
<1>1. 0 \in T
  <2>1. SUBSET (1 .. 0) = {{}}
    OBVIOUS
  <2> DEFINE g == [s \in SUBSET (1 .. 0) |-> base]
  <2>2. g \in [SUBSET (1 .. 0) -> A] /\ Folded(g, 0, base, step)
    BY <2>1 DEF Folded
  <2> QED
    BY <2>2
<1>2. ASSUME NEW k \in Nat, k \in T PROVE k + 1 \in T
  <2>0. CASE ~(k + 1 <= n)
    BY <2>0
  <2>1. CASE k + 1 <= n
    <3>0. k <= n
      BY <2>1
    <3>1. PICK f \in [SUBSET (1 .. k) -> A] : Folded(f, k, base, step)
      BY <1>2, <3>0, Zenon
    <3> DEFINE g == [s \in SUBSET (1 .. k + 1) |->
                        IF k + 1 \in s THEN step[<<f[s \ {k + 1}], k + 1>>] ELSE f[s]]
    <3>2. ASSUME NEW s \in SUBSET (1 .. k + 1)
          PROVE  /\ g[s] \in A
                 /\ g[s] = IF s = {} THEN base ELSE step[<<g[s \ {Max(s)}], Max(s)>>]
      <4>1. CASE k + 1 \in s
        <5>1. Max(s) = k + 1 /\ s \ {Max(s)} \in SUBSET (1 .. k) /\ s # {}
          BY <4>1, LastFolded
        <5>2. s \ {Max(s)} \in SUBSET (1 .. k + 1) /\ k + 1 \notin s \ {Max(s)}
          BY <5>1
        <5>3. g[s \ {Max(s)}] = f[s \ {Max(s)}] /\ f[s \ {Max(s)}] \in A
          BY <5>1, <5>2
        <5>4. g[s] = step[<<f[s \ {k + 1}], k + 1>>]
          BY <4>1
        <5>5. k + 1 \in 1 .. n
          BY <2>1
        <5> QED
          BY <5>1, <5>3, <5>4, <5>5
      <4>2. CASE k + 1 \notin s
        <5>1. s \in SUBSET (1 .. k) /\ g[s] = f[s]
          BY <4>2, LastFolded
        <5>2. \A t \in SUBSET (1 .. k) : t \in SUBSET (1 .. k + 1) /\ k + 1 \notin t
          OBVIOUS
        <5>3. s \ {Max(s)} \in SUBSET (1 .. k) /\ g[s \ {Max(s)}] = f[s \ {Max(s)}]
          BY <5>1, <5>2
        <5>4. f[s] = IF s = {} THEN base ELSE step[<<f[s \ {Max(s)}], Max(s)>>]
          BY <3>1, <5>1, Zenon DEF Folded
        <5> QED
          BY <5>1, <5>3, <5>4
      <4> QED
        BY <4>1, <4>2
    <3> HIDE DEF g
    <3>3. g = [s \in SUBSET (1 .. k + 1) |-> g[s]]
      BY DEF g
    <3>4. Folded(g, k + 1, base, step)
      BY <3>2, <3>3, Zenon DEF Folded
    <3>5. g \in [SUBSET (1 .. k + 1) -> A]
      BY <3>2, <3>3
    <3> QED
      BY <3>4, <3>5
  <2> QED
    BY <2>0, <2>1
<1> HIDE DEF T
<1>3. Nat \subseteq T
  BY <1>1, <1>2, Induction
<1>4. n \in T /\ n <= n
  BY <1>3
<1> QED
  BY <1>4, Zenon DEF T

(* Two folds that start alike and take the same step agree on all of 1 ..  *)
(* n.                                                                      *)
LEMMA FoldUnique ==
    ASSUME NEW n \in Nat, NEW f, NEW g, f[{}] = g[{}],
           \A s \in SUBSET (1 .. n) : s # {} /\ f[s \ {Max(s)}] = g[s \ {Max(s)}] => f[s] = g[s]
    PROVE  f[1 .. n] = g[1 .. n]
<1> DEFINE T == {k \in Nat : \A s \in SUBSET (1 .. n) : s \subseteq 1 .. k => f[s] = g[s]}
<1>1. 0 \in T
  <2>1. \A s : s \subseteq 1 .. 0 => s = {}
    OBVIOUS
  <2> QED
    BY <2>1
<1>2. ASSUME NEW k \in Nat, k \in T PROVE k + 1 \in T
  <2>0. k + 1 \in Nat
    OBVIOUS
  <2>1. ASSUME NEW s \in SUBSET (1 .. n), s \subseteq 1 .. k + 1 PROVE f[s] = g[s]
    <3>1. CASE k + 1 \in s
      <4>1. s # {} /\ s \ {Max(s)} \subseteq 1 .. k /\ s \ {Max(s)} \in SUBSET (1 .. n)
        BY <2>1, <3>1, LastFolded
      <4>2. f[s \ {Max(s)}] = g[s \ {Max(s)}]
        BY <1>2, <4>1
      <4> QED
        BY <4>1, <4>2
    <3>2. CASE k + 1 \notin s
      BY <1>2, <2>1, <3>2, LastFolded
    <3> QED
      BY <3>1, <3>2
  <2> QED
    BY <2>0, <2>1, Zenon
<1> HIDE DEF T
<1>3. Nat \subseteq T
  BY <1>1, <1>2, Induction
<1>4. n \in T /\ 1 .. n \in SUBSET (1 .. n)
  BY <1>3
<1> QED
  BY <1>4 DEF T

-----------------------------------------------------------------------------
(* Sums over a finite set, taken in the order in which CHOOSE gives its    *)
(* elements.                                                               *)

Element(s) == CHOOSE x \in s : TRUE
Summed(g, f, D) ==
    g = [s \in SUBSET D |-> IF s = {} THEN 0 ELSE f[Element(s)] + g[s \ {Element(s)}]]

(* A set with the empty set, and with every set of D whose rest without    *)
(* one element is in it, has all sets of D.                                *)
LEMMA SetInduction ==
    ASSUME NEW D, IsFiniteSet(D), NEW T, {} \in T,
           \A s \in SUBSET D : s # {} /\ s \ {Element(s)} \in T => s \in T
    PROVE  SUBSET D \subseteq T
<1> DEFINE N == {k \in Nat : \A s \in SUBSET D : Cardinality(s) = k => s \in T}
<1>0. \A s \in SUBSET D : IsFiniteSet(s) /\ Cardinality(s) \in Nat
  BY FS_Subset, FS_CardinalityType
<1>1. 0 \in N
  <2>1. \A s \in SUBSET D : Cardinality(s) = 0 => s = {}
    BY <1>0, FS_EmptySet
  <2> QED
    BY <2>1
<1>2. ASSUME NEW k \in Nat, k \in N PROVE k + 1 \in N
  <2>1. ASSUME NEW s \in SUBSET D, Cardinality(s) = k + 1 PROVE s \in T
    <3>1. s # {}
      BY <2>1, FS_EmptySet
    <3>2. Element(s) \in s
      BY <3>1, Zenon DEF Element
    <3>3. PICK x : x = Element(s)
      OBVIOUS
    <3>4. Cardinality(s \ {x}) = Cardinality(s) - 1
      BY <1>0, <3>2, <3>3, FS_RemoveElement
    <3>5. s \ {x} \in SUBSET D /\ Cardinality(s \ {x}) = k
      BY <2>1, <3>4
    <3>6. s \ {x} \in T
      BY <1>2, <3>5
    <3> QED
      BY <3>1, <3>3, <3>6
  <2> QED
    BY <2>1
<1> HIDE DEF N
<1>3. Nat \subseteq N
  BY <1>1, <1>2, Induction
<1>4. ASSUME NEW s \in SUBSET D PROVE s \in T
  <2>1. Cardinality(s) \in N
    BY <1>0, <1>3
  <2> QED
    BY <2>1 DEF N
<1> QED
  BY <1>4

(* A sum over a finite set is a function, of integers when they are summed. *)
LEMMA SumExists ==
    ASSUME NEW D, IsFiniteSet(D), NEW f \in [D -> Int]
    PROVE  \E g \in [SUBSET D -> Int] : Summed(g, f, D)
<1> DEFINE Sum(g, s) == IF s = {} THEN 0 ELSE f[Element(s)] + g[s \ {Element(s)}]
           Fits(g, k) == \A s \in SUBSET D : Cardinality(s) <= k => g[s] = Sum(g, s)
           N == {k \in Nat : \E g \in [SUBSET D -> Int] : Fits(g, k)}
<1>0. \A s \in SUBSET D : IsFiniteSet(s) /\ Cardinality(s) \in Nat
  BY FS_Subset, FS_CardinalityType
<1>1. ASSUME NEW s \in SUBSET D, s # {}
      PROVE  /\ Element(s) \in s /\ s \ {Element(s)} \in SUBSET D
             /\ Cardinality(s \ {Element(s)}) = Cardinality(s) - 1
  <2>1. Element(s) \in s
    BY <1>1, Zenon DEF Element
  <2>2. PICK x : x = Element(s)
    OBVIOUS
  <2>3. Cardinality(s \ {x}) = Cardinality(s) - 1
    BY <1>0, <2>1, <2>2, FS_RemoveElement
  <2> QED
    BY <2>1, <2>2, <2>3
<1>2. ASSUME NEW g \in [SUBSET D -> Int], NEW s \in SUBSET D PROVE Sum(g, s) \in Int
  <2>1. CASE s = {}
    BY <2>1
  <2>2. CASE s # {}
    <3>1. f[Element(s)] \in Int /\ g[s \ {Element(s)}] \in Int
      BY <1>1, <2>2
    <3> QED
      BY <2>2, <3>1
  <2> QED
    BY <2>1, <2>2
<1>3. 0 \in N
  <2> DEFINE g == [s \in SUBSET D |-> 0]
  <2>1. g \in [SUBSET D -> Int]
    OBVIOUS
  <2>2. \A s \in SUBSET D : Cardinality(s) <= 0 => s = {}
    BY <1>0, FS_EmptySet
  <2>3. Fits(g, 0)
    BY <2>2
  <2> QED
    BY <2>1, <2>3
<1>4. ASSUME NEW k \in Nat, k \in N PROVE k + 1 \in N
  <2>1. PICK g \in [SUBSET D -> Int] : Fits(g, k)
    BY <1>4
  <2> DEFINE h == [s \in SUBSET D |-> Sum(g, s)]
  <2>2. h \in [SUBSET D -> Int]
    BY <1>2
  <2>3. ASSUME NEW s \in SUBSET D, Cardinality(s) <= k PROVE h[s] = g[s]
    BY <2>1, <2>3
  <2>4. ASSUME NEW s \in SUBSET D, Cardinality(s) <= k + 1 PROVE h[s] = Sum(h, s)
    <3>1. CASE s = {}
      BY <3>1
    <3>2. CASE s # {}
      <4>1. PICK r \in SUBSET D : r = s \ {Element(s)} /\ Cardinality(r) = Cardinality(s) - 1
        BY <1>1, <3>2
      <4>2. Cardinality(r) <= k
        BY <1>0, <2>4, <4>1
      <4>3. h[r] = g[r]
        BY <2>3, <4>2
      <4> QED
        BY <4>1, <4>3
    <3> QED
      BY <3>1, <3>2
  <2>5. Fits(h, k + 1)
    BY <2>4, Zenon
  <2> HIDE DEF h, Fits
  <2> QED
    BY <2>2, <2>5
<1> HIDE DEF N
<1>5. Nat \subseteq N
  BY <1>3, <1>4, Induction
<1>6. Cardinality(D) \in N
  BY <1>0, <1>5
<1>7. PICK g \in [SUBSET D -> Int] : Fits(g, Cardinality(D))
  BY <1>6 DEF N
<1>8. \A s \in SUBSET D : g[s] = Sum(g, s)
  BY <1>7, FS_Subset
<1>9. g = [s \in SUBSET D |-> g[s]]
  OBVIOUS
<1> QED
  BY <1>8, <1>9, Zenon DEF Summed

(* What a sum is for the empty set and with one element more.              *)
LEMMA SumSteps ==
    ASSUME NEW D, NEW f, NEW g, Summed(g, f, D)
    PROVE  /\ g[{}] = 0
           /\ \A s \in SUBSET D : s # {} =>
                /\ Element(s) \in s
                /\ s \ {Element(s)} \in SUBSET D
                /\ g[s] = f[Element(s)] + g[s \ {Element(s)}]
<1>1. {} \in SUBSET D
  OBVIOUS
<1>2. \A s \in SUBSET D :
        g[s] = IF s = {} THEN 0 ELSE f[Element(s)] + g[s \ {Element(s)}]
  BY Zenon DEF Summed
<1>3. \A s \in SUBSET D : s # {} => Element(s) \in s
  BY Zenon DEF Element
<1> QED
  BY <1>1, <1>2, <1>3

(* Sums keep a proportion that their terms have.                           *)
LEMMA SumsCompare ==
    ASSUME NEW D, IsFiniteSet(D), NEW a \in Int, NEW b \in Int,
           NEW f \in [D -> Int], NEW g \in [SUBSET D -> Int], Summed(g, f, D),
           NEW e \in [D -> Int], NEW h \in [SUBSET D -> Int], Summed(h, e, D),
           \A x \in D : a * f[x] <= b * e[x]
    PROVE  a * g[D] <= b * h[D]
<1> DEFINE T == {s \in SUBSET D : a * g[s] <= b * h[s]}
<1>1. {} \in T
  <2>1. g[{}] = 0 /\ h[{}] = 0
    BY SumSteps, Zenon
  <2> QED
    BY <2>1
<1>2. ASSUME NEW s \in SUBSET D, s # {}, s \ {Element(s)} \in T PROVE s \in T
  <2>1. PICK x \in D, r \in SUBSET D : /\ r = s \ {Element(s)} /\ x = Element(s)
                                       /\ g[s] = f[x] + g[r]
    BY <1>2, SumSteps
  <2>2. h[s] = e[x] + h[r]
    BY <1>2, <2>1, SumSteps
  <2>3. a * g[r] <= b * h[r] /\ a * f[x] <= b * e[x]
    BY <1>2, <2>1
  <2>4. /\ f[x] \in Int /\ g[r] \in Int /\ e[x] \in Int /\ h[r] \in Int
    OBVIOUS
  <2>5. a * (f[x] + g[r]) = a * f[x] + a * g[r]
    BY <2>4
  <2>6. b * (e[x] + h[r]) = b * e[x] + b * h[r]
    BY <2>4
  <2>7. a * f[x] + a * g[r] <= b * e[x] + b * h[r]
    <3>1. PICK i \in Int, j \in Int, k \in Int, l \in Int :
            i = a * f[x] /\ j = a * g[r] /\ k = b * e[x] /\ l = b * h[r]
      BY <2>4
    <3> QED
      BY <2>3, <3>1
  <2> QED
    BY <2>1, <2>2, <2>5, <2>6, <2>7
<1> HIDE DEF T
<1>3. SUBSET D \subseteq T
  BY <1>1, <1>2, SetInduction
<1> QED
  BY <1>3 DEF T

(* A sum of naturals is one, and no less than any of its terms.            *)
LEMMA SumsMember ==
    ASSUME NEW D, IsFiniteSet(D), NEW f \in [D -> Nat],
           NEW g \in [SUBSET D -> Int], Summed(g, f, D)
    PROVE  g[D] \in Nat /\ \A x \in D : f[x] <= g[D]
<1> DEFINE T == {s \in SUBSET D : g[s] \in Nat /\ \A x \in s : f[x] <= g[s]}
<1>1. {} \in T
  BY SumSteps
<1>2. ASSUME NEW s \in SUBSET D, s # {}, s \ {Element(s)} \in T PROVE s \in T
  <2>1. PICK y \in s, r \in SUBSET D : /\ r = s \ {y} /\ r \in T
                                       /\ g[s] = f[y] + g[r]
    BY <1>2, SumSteps
  <2>2. f[y] \in Nat /\ g[r] \in Nat /\ g[s] \in Nat
    BY <2>1
  <2>3. ASSUME NEW x \in s PROVE f[x] <= g[s]
    <3>1. CASE x = y
      BY <2>1, <2>2, <3>1
    <3>2. CASE x # y
      <4>1. f[x] <= g[r] /\ f[x] \in Nat
        BY <2>1, <3>2
      <4> QED
        BY <2>1, <2>2, <4>1
    <3> QED
      BY <3>1, <3>2
  <2> QED
    BY <2>2, <2>3
<1> HIDE DEF T
<1>3. SUBSET D \subseteq T
  BY <1>1, <1>2, SetInduction
<1> QED
  BY <1>3 DEF T

SumMap(f, D) == CHOOSE g : Summed(g, f, D)
Adds(g, f, D) ==
    IsFiniteSet(D) /\ f \in [D -> Int] /\ g \in [SUBSET D -> Int] /\ Summed(g, f, D)

LEMMA SumChosen ==
    ASSUME NEW D, IsFiniteSet(D), NEW f \in [D -> Int]
    PROVE  SumMap(f, D) \in [SUBSET D -> Int] /\ Summed(SumMap(f, D), f, D)
<1>1. PICK g \in [SUBSET D -> Int] : Summed(g, f, D)
  BY SumExists
<1>2. Summed(SumMap(f, D), f, D)
  BY <1>1, Zenon DEF SumMap
<1>3. PICK h : h = SumMap(f, D) /\ Summed(h, f, D)
  BY <1>2
<1> DEFINE T == {s \in SUBSET D : h[s] \in Int}
<1>4. {} \in T
  BY <1>3, SumSteps
<1>5. ASSUME NEW s \in SUBSET D, s # {}, s \ {Element(s)} \in T PROVE s \in T
  <2>1. /\ Element(s) \in s
        /\ s \ {Element(s)} \in SUBSET D
        /\ h[s] = f[Element(s)] + h[s \ {Element(s)}]
    <3>1. Summed(h, f, D)
      BY <1>3
    <3> QED
      BY <1>5, <3>1, SumSteps
  <2>2. f[Element(s)] \in Int /\ h[s \ {Element(s)}] \in Int
    BY <1>5, <2>1
  <2> QED
    BY <2>1, <2>2
<1> HIDE DEF T
<1>6. SUBSET D \subseteq T
  BY <1>4, <1>5, SetInduction
<1>7. \A s \in SUBSET D : h[s] \in Int
  BY <1>6 DEF T
<1>8. h = [s \in SUBSET D |-> h[s]]
  BY <1>3, Zenon DEF Summed
<1> QED
  BY <1>3, <1>7, <1>8

(* A set and its rest without an element: what two sums have more.         *)
Parted(g, f, h, e, D, s) ==
    \E x \in D, r \in SUBSET D :
       /\ x = Element(s) /\ r = s \ {Element(s)}
       /\ g[s] = f[x] + g[r] /\ h[s] = e[x] + h[r]
       /\ Cardinality(r) \in Nat /\ Cardinality(s) = Cardinality(r) + 1

LEMMA SumsStep ==
    ASSUME NEW D, NEW f, NEW g, Adds(g, f, D), NEW e, NEW h, Adds(h, e, D),
           NEW s \in SUBSET D, s # {}
    PROVE  Parted(g, f, h, e, D, s)
<1>0. /\ Element(s) \in s /\ s \ {Element(s)} \in SUBSET D
      /\ g[s] = f[Element(s)] + g[s \ {Element(s)}]
  <2>1. \A t \in SUBSET D : t # {} =>
          /\ Element(t) \in t /\ t \ {Element(t)} \in SUBSET D
          /\ g[t] = f[Element(t)] + g[t \ {Element(t)}]
    BY SumSteps DEF Adds
  <2> QED
    BY <2>1, Zenon
<1>1. PICK x \in D, r \in SUBSET D : /\ x = Element(s) /\ r = s \ {Element(s)} /\ x \in s
                                     /\ g[s] = f[x] + g[r]
  BY <1>0
<1>2. h[s] = e[x] + h[r]
  <2>1. \A t \in SUBSET D : t # {} => h[t] = e[Element(t)] + h[t \ {Element(t)}]
    BY SumSteps DEF Adds
  <2> QED
    BY <1>1, <2>1, Zenon
<1>3. IsFiniteSet(s)
  BY FS_Subset DEF Adds
<1>4. Cardinality(r) = Cardinality(s) - 1 /\ Cardinality(s) \in Nat
  BY <1>1, <1>3, FS_RemoveElement, FS_CardinalityType
<1>5. Cardinality(r) \in Nat
  BY <1>1, <1>3, FS_RemoveElement, FS_CardinalityType, FS_Subset
<1> QED
  BY <1>1, <1>2, <1>4, <1>5 DEF Parted

(* The sum of the squares is no less than the mean square of the sum. *)
Squares(e, f, D)  == \A x \in D : e[x] = f[x] * f[x]
MeanSquare(g, h, D) == g[D] * g[D] <= Cardinality(D) * h[D]

LEMMA SumOfSquares ==
    ASSUME NEW D, NEW f, NEW g, Adds(g, f, D), NEW e, NEW h, Adds(h, e, D), Squares(e, f, D)
    PROVE  MeanSquare(g, h, D)
<1>0. ASSUME NEW s \in SUBSET D, s # {}
      PROVE  \E x \in D, r \in SUBSET D :
                /\ x = Element(s) /\ r = s \ {Element(s)}
                /\ g[s] = f[x] + g[r] /\ h[s] = f[x] * f[x] + h[r]
                /\ Cardinality(r) \in Nat /\ Cardinality(s) = Cardinality(r) + 1
  <2>1. PICK x \in D, r \in SUBSET D :
                /\ x = Element(s) /\ r = s \ {Element(s)}
                /\ g[s] = f[x] + g[r] /\ h[s] = e[x] + h[r]
                /\ Cardinality(r) \in Nat /\ Cardinality(s) = Cardinality(r) + 1
    <3>1. Parted(g, f, h, e, D, s)
      BY <1>0, SumsStep
    <3> QED
      BY <3>1, Zenon DEF Parted
  <2>2. e[x] = f[x] * f[x]
    BY <2>1 DEF Squares
  <2> QED
    BY <2>1, <2>2, Zenon
<1>11. /\ IsFiniteSet(D) /\ f \in [D -> Int] /\ g \in [SUBSET D -> Int] /\ h \in [SUBSET D -> Int]
  BY DEF Adds
<1> DEFINE Spread(s) == \A c \in Int : 2 * c * g[s] <= h[s] + Cardinality(s) * (c * c)
           T == {s \in SUBSET D : Spread(s)}
           U == {s \in SUBSET D : g[s] * g[s] <= Cardinality(s) * h[s]}
<1>1. g[{}] = 0 /\ h[{}] = 0 /\ Cardinality({}) = 0 /\ {} \in SUBSET D
  BY SumSteps, FS_EmptySet DEF Adds
<1>2. {} \in T /\ {} \in U
  BY <1>1
<1>3. ASSUME NEW s \in SUBSET D, s # {}, s \ {Element(s)} \in T PROVE s \in T
  <2>1. PICK x \in D, r \in T :
                /\ g[s] = f[x] + g[r] /\ h[s] = f[x] * f[x] + h[r]
                /\ Cardinality(r) \in Nat /\ Cardinality(s) = Cardinality(r) + 1
    BY <1>0, <1>3
  <2>2. ASSUME NEW c \in Int PROVE 2 * c * g[s] <= h[s] + Cardinality(s) * (c * c)
    <3>1. PICK v \in Int, a \in Int, b \in Int, n \in Nat :
            v = f[x] /\ a = g[r] /\ b = h[r] /\ n = Cardinality(r)
      BY <1>11, <2>1
    <3>2. 2 * c * a <= b + n * (c * c)
      BY <2>1, <3>1
    <3>3. 2 * c * v <= v * v + c * c
      <4>1. (v - c) * (v - c) >= 0
        OBVIOUS
      <4> QED
        BY <4>1
    <3>4. 2 * c * (v + a) = 2 * c * v + 2 * c * a /\ (n + 1) * (c * c) = n * (c * c) + c * c
      OBVIOUS
    <3>5. 2 * c * (v + a) <= v * v + b + (n + 1) * (c * c)
      <4>1. PICK i \in Int, j \in Int, k \in Int, l \in Int, m \in Int :
              i = 2 * c * a /\ j = n * (c * c) /\ k = 2 * c * v /\ l = v * v /\ m = c * c
        OBVIOUS
      <4> QED
        BY <3>2, <3>3, <3>4, <4>1
    <3> QED
      BY <2>1, <3>1, <3>5
  <2> QED
    BY <2>2
<1>4. ASSUME NEW s \in SUBSET D, s # {}, s \ {Element(s)} \in U, s \ {Element(s)} \in T
      PROVE  s \in U
  <2>1. PICK x \in D, r \in T \cap U :
                /\ g[s] = f[x] + g[r] /\ h[s] = f[x] * f[x] + h[r]
                /\ Cardinality(r) \in Nat /\ Cardinality(s) = Cardinality(r) + 1
    BY <1>0, <1>4
  <2>2. PICK v \in Int, a \in Int, b \in Int, n \in Nat :
          v = f[x] /\ a = g[r] /\ b = h[r] /\ n = Cardinality(r)
    BY <1>11, <2>1
  <2>3. 2 * v * a <= b + n * (v * v)
    BY <2>1, <2>2
  <2>4. a * a <= n * b
    BY <2>1, <2>2
  <2>5. (v + a) * (v + a) = v * v + 2 * v * a + a * a
    OBVIOUS
  <2>6. (n + 1) * (v * v + b) = n * (v * v) + n * b + v * v + b
    OBVIOUS
  <2>7. (v + a) * (v + a) <= (n + 1) * (v * v + b)
    <3>1. PICK i \in Int, j \in Int, k \in Int, l \in Int, m \in Int :
              i = 2 * v * a /\ j = n * (v * v) /\ k = a * a /\ l = n * b /\ m = v * v
      OBVIOUS
    <3> QED
      BY <2>3, <2>4, <2>5, <2>6, <3>1
  <2> QED
    BY <2>1, <2>2, <2>7
<1> HIDE DEF T, U
<1>5. SUBSET D \subseteq T
  BY <1>11, <1>2, <1>3, SetInduction
<1>6. SUBSET D \subseteq U
  <2>1. \A s \in SUBSET D : s # {} => s \ {Element(s)} \in T
    BY <1>5
  <2>2. \A s \in SUBSET D : s # {} /\ s \ {Element(s)} \in U => s \in U
    BY <1>4, <2>1
  <2> QED
    BY <1>11, <1>2, <2>2, SetInduction
<1>7. D \in U
  BY <1>6
<1> QED
  BY <1>7 DEF U, MeanSquare

(* A sum of terms between two bounds is between as many times them.        *)
LEMMA SumWithin ==
    ASSUME NEW D, IsFiniteSet(D), NEW B \in Nat,
           NEW f \in [D -> -B .. B], NEW g \in [SUBSET D -> Int], Summed(g, f, D)
    PROVE  g[D] <= B * Cardinality(D) /\ -g[D] <= B * Cardinality(D)
<1> DEFINE T == {s \in SUBSET D : g[s] <= B * Cardinality(s) /\ -g[s] <= B * Cardinality(s)}
<1>1. {} \in T
  <2>1. g[{}] = 0 /\ Cardinality({}) = 0
    BY SumSteps, FS_EmptySet
  <2> QED
    BY <2>1
<1>2. ASSUME NEW s \in SUBSET D, s # {}, s \ {Element(s)} \in T PROVE s \in T
  <2>1. PICK x \in D, r \in T : x \in s /\ r = s \ {x} /\ g[s] = f[x] + g[r]
    BY <1>2, SumSteps
  <2>2. IsFiniteSet(s)
    BY FS_Subset
  <2>3. Cardinality(r) = Cardinality(s) - 1 /\ Cardinality(s) \in Nat
    BY <2>1, <2>2, FS_RemoveElement, FS_CardinalityType
  <2>4. PICK n \in Int, v \in Int, a \in Int :
          n = Cardinality(r) /\ v = f[x] /\ a = g[r] /\ v <= B /\ -v <= B
    BY <2>3
  <2>5. a <= B * n /\ -a <= B * n
    BY <2>1, <2>4
  <2>6. B * (n + 1) = B * n + B
    OBVIOUS
  <2>7. v + a <= B * (n + 1) /\ -(v + a) <= B * (n + 1)
    BY <2>4, <2>5, <2>6
  <2>8. Cardinality(s) = n + 1
    BY <2>3, <2>4
  <2> QED
    BY <2>1, <2>4, <2>7, <2>8
<1> HIDE DEF T
<1>3. SUBSET D \subseteq T
  BY <1>1, <1>2, SetInduction
<1>4. D \in T
  BY <1>3
<1> QED
  BY <1>4 DEF T

-----------------------------------------------------------------------------
(* The largest and the smallest of integers.                               *)

(* A set of integers that is bounded from above has a largest element, a   *)
(* set of naturals a smallest.                                             *)
LEMMA LargestOf ==
    ASSUME NEW T, T \subseteq Int, T # {}, \E B \in Int : \A y \in T : y <= B
    PROVE  Max(T) \in T /\ \A y \in T : y <= Max(T)
<1>0. PICK B \in Int : \A y \in T : y <= B
  OBVIOUS
<1> DEFINE below == {k \in Nat : B - k \in T}
<1>1. below \subseteq Nat /\ below # {}
  <2>1. PICK y \in T : y \in Int /\ y <= B
    BY <1>0
  <2>2. B - y \in below
    BY <2>1
  <2> QED
    BY <2>2
<1>2. PICK b \in below : \A y \in below : b <= y
  <2> HIDE DEF below
  <2> QED
    BY <1>1, LeastOf
<1>3. PICK x \in T : x = B - b
  BY <1>2
<1>4. ASSUME NEW y \in T PROVE x >= y
  <2>1. B - y \in below /\ y \in Int
    BY <1>0
  <2>2. b <= B - y
    BY <1>2, <2>1
  <2> QED
    BY <1>3, <2>1, <2>2
<1>5. Max(T) \in T /\ \A y \in T : Max(T) >= y
  BY <1>4, Zenon DEF Max
<1>6. \A y \in T : Max(T) \in Int /\ y \in Int
  BY <1>5
<1> QED
  BY <1>5, <1>6

LEMMA SmallestOf ==
    ASSUME NEW T, T \subseteq Nat, T # {}
    PROVE  Min(T) \in T /\ \A y \in T : Min(T) <= y
<1>1. PICK x \in T : \A y \in T : x <= y
  BY LeastOf
<1> QED
  BY <1>1, Zenon DEF Min

LEMMA SmallerOf ==
    ASSUME NEW a \in Int, NEW b \in Int
    PROVE  Min({a, b}) = IF a <= b THEN a ELSE b
<1>1. PICK x \in {a, b} : \A y \in {a, b} : x <= y
  OBVIOUS
<1>2. Min({a, b}) \in {a, b} /\ \A y \in {a, b} : Min({a, b}) <= y
  BY <1>1, Zenon DEF Min
<1> QED
  BY <1>2

LEMMA LargerOf ==
    ASSUME NEW a \in Int, NEW b \in Int
    PROVE  Max({a, b}) = IF a >= b THEN a ELSE b
<1>1. PICK x \in {a, b} : \A y \in {a, b} : x >= y
  OBVIOUS
<1>2. Max({a, b}) \in {a, b} /\ \A y \in {a, b} : Max({a, b}) >= y
  BY <1>1, Zenon DEF Max
<1> QED
  BY <1>2
=============================================================================
