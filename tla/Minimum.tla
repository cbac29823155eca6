-------------------------------- MODULE Minimum --------------------------------
(***************************************************************************)
(* A set of natural numbers has a least element.  Proofs that would go by  *)
(* induction take the least counterexample instead.  It also follows that  *)
(* a function can be iterated: what a recursive function over the naturals *)
(* needs to be the one its equation describes.                             *)
(***************************************************************************)
EXTENDS FiniteSetTheorems, TLAPS

\* The initial segments of the numbers in the set are finite, and the least is minimal.
LEMMA LeastNatural ==
  ASSUME NEW S \in SUBSET Nat, S # {}
  PROVE  \E m \in S : \A n \in S : m <= n
<1> DEFINE T == {0..n : n \in S}
           R == StrictSubsetOrdering(Nat)
<1>1. T \subseteq FiniteSubsetsOf(Nat) /\ T # {}
  <2>1. \A n \in Nat : IsFiniteSet(0..n) /\ 0..n \in SUBSET Nat
    BY FS_Interval
  <2>2. QED
    BY <2>1 DEF FiniteSubsetsOf
<1>2. IsWellFoundedOn(R, FiniteSubsetsOf(Nat))
  BY FS_StrictSubsetOrderingWellFounded
<1> HIDE DEF T, R
<1>3. PICK x \in T : \A y \in T : <<y, x>> \notin R
  BY <1>1, <1>2, WFMin
<1> USE DEF T, R
<1>4. PICK m \in S : x = 0..m
  OBVIOUS
<1>5. ASSUME NEW n \in S PROVE m <= n
  <2> SUFFICES ASSUME n < m PROVE FALSE
    OBVIOUS
  <2>1. 0..n \subseteq 0..m /\ m \in 0..m /\ m \notin 0..n /\ 0..m \subseteq Nat
    OBVIOUS
  <2>2. 0..n # 0..m
    BY <2>1
  <2>3. <<0..n, 0..m>> \in R
    <3>1. 0..n \in SUBSET Nat /\ 0..m \in SUBSET Nat
      BY <2>1
    <3>2. QED
      BY <2>1, <2>2, <3>1 DEF StrictSubsetOrdering
  <2>4. 0..n \in T
    OBVIOUS
  <2>5. QED
    BY <1>3, <1>4, <2>3, <2>4
<1>6. QED
  BY <1>5

\* The first values of an iteration of F from x
FirstValues(F, X, x, n) ==
  {g \in [0..n -> X] : g[0] = x /\ \A k \in 0..n - 1 : g[k + 1] = F[g[k]]}

\* There are any number of first values.
LEMMA FirstValuesExist ==
  ASSUME NEW X, NEW F \in [X -> X], NEW x \in X, NEW n \in Nat
  PROVE  FirstValues(F, X, x, n) # {}
<1> DEFINE S == {k \in Nat : FirstValues(F, X, x, k) = {}}
<1> SUFFICES ASSUME S # {} PROVE FALSE
  OBVIOUS
<1>1. PICK m \in S : \A k \in S : m <= k
  <2>1. S \in SUBSET Nat
    OBVIOUS
  <2> HIDE DEF S
  <2>2. QED
    BY <2>1, LeastNatural
<1>2. m # 0
  <2> SUFFICES ASSUME m = 0 PROVE FALSE
    OBVIOUS
  <2> DEFINE g == [k \in 0..0 |-> x]
  <2>1. g \in FirstValues(F, X, x, 0)
    BY DEF FirstValues
  <2>2. QED
    BY <2>1
<1>3. m - 1 \in Nat /\ m - 1 \notin S
  BY <1>1, <1>2
<1>4. PICK g : g \in FirstValues(F, X, x, m - 1)
  BY <1>3
<1> DEFINE h == [k \in 0..m |-> IF k = m THEN F[g[m - 1]] ELSE g[k]]
<1>5. m \in Nat /\ g \in [0..m - 1 -> X] /\ g[0] = x /\ \A k \in 0..m - 2 : g[k + 1] = F[g[k]]
  BY <1>1, <1>3, <1>4 DEF FirstValues
<1>6. h \in [0..m -> X]
  BY <1>2, <1>5
<1>7. h[0] = x
  BY <1>2, <1>5
<1>8. ASSUME NEW k \in 0..m - 1 PROVE h[k + 1] = F[h[k]]
  <2>1. CASE k = m - 1
    BY <1>5, <2>1
  <2>2. CASE k # m - 1
    BY <1>5, <2>2
  <2>3. QED
    BY <2>1, <2>2
<1> HIDE DEF h
<1>9. h \in FirstValues(F, X, x, m)
  BY <1>6, <1>7, <1>8 DEF FirstValues
<1>10. QED
  BY <1>1, <1>9

\* They are the same, however many there are.
LEMMA FirstValuesUnique ==
  ASSUME NEW X, NEW F \in [X -> X], NEW x \in X, NEW n \in Nat, NEW p \in Nat, n <= p,
         NEW g \in FirstValues(F, X, x, n), NEW h \in FirstValues(F, X, x, p)
  PROVE  \A k \in 0..n : g[k] = h[k]
<1> DEFINE S == {k \in 0..n : g[k] # h[k]}
<1> SUFFICES ASSUME S # {} PROVE FALSE
  OBVIOUS
<1>1. PICK m \in S : \A k \in S : m <= k
  <2>1. S \in SUBSET Nat
    OBVIOUS
  <2> HIDE DEF S
  <2>2. QED
    BY <2>1, LeastNatural
<1>2. /\ g[0] = x /\ h[0] = x
      /\ \A k \in 0..n - 1 : g[k + 1] = F[g[k]]
      /\ \A k \in 0..p - 1 : h[k + 1] = F[h[k]]
  BY DEF FirstValues
<1>3. m \in 0..n /\ m # 0
  BY <1>1, <1>2
<1>4. m - 1 \in 0..n - 1 /\ m - 1 \in 0..p - 1 /\ m - 1 \notin S /\ (m - 1) + 1 = m
  BY <1>1, <1>3
<1>5. g[m - 1] = h[m - 1]
  BY <1>4
<1>6. g[m] = F[g[m - 1]] /\ h[m] = F[h[m - 1]]
  BY <1>2, <1>4
<1>7. QED
  BY <1>1, <1>5, <1>6

\* f is F iterated from x
Iterates(f, F, X, x) == f \in [Nat -> X] /\ f[0] = x /\ \A n \in Nat : f[n + 1] = F[f[n]]

\* A function from a set to itself can be iterated from any element.
LEMMA Iteration ==
  ASSUME NEW X, NEW F \in [X -> X], NEW x \in X
  PROVE  \E f : Iterates(f, F, X, x)
<1> DEFINE G(n) == CHOOSE g : g \in FirstValues(F, X, x, n)
           f == [n \in Nat |-> G(n)[n]]
<1>1. \A n \in Nat : G(n) \in FirstValues(F, X, x, n)
  BY FirstValuesExist
<1> HIDE DEF G
<1>2. ASSUME NEW n \in Nat
      PROVE  G(n) \in [0..n -> X] /\ n \in 0..n /\ G(n)[n] \in X
  BY <1>1 DEF FirstValues
<1>3. f \in [Nat -> X]
  BY <1>2
<1>4. f[0] = x
  BY <1>1 DEF FirstValues
<1>5. ASSUME NEW n \in Nat PROVE f[n + 1] = F[f[n]]
  <2>1. n + 1 \in Nat /\ n \in 0..(n + 1) - 1 /\ n <= n + 1 /\ n \in 0..n
    OBVIOUS
  <2>2. G(n) \in FirstValues(F, X, x, n) /\ G(n + 1) \in FirstValues(F, X, x, n + 1)
    BY <1>1, <2>1
  <2>3. G(n)[n] = G(n + 1)[n]
    BY <2>1, <2>2, FirstValuesUnique
  <2>4. G(n + 1)[n + 1] = F[G(n + 1)[n]]
    BY <2>1, <2>2 DEF FirstValues
  <2>5. QED
    BY <2>1, <2>3, <2>4
<1> HIDE DEF f
<1>6. Iterates(f, F, X, x)
  BY <1>3, <1>4, <1>5, Zenon DEF Iterates
<1>7. QED
  BY <1>6
=============================================================================
