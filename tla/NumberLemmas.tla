---------------------------- MODULE NumberLemmas ----------------------------
(***************************************************************************)
(* Numbers, for the proofs about data: least and greatest elements,        *)
(* induction up to a number, and functions defined by recursion on it.     *)
(*                                                                         *)
(* Induction is stated with the set of the numbers that have the property, *)
(* and shown by its least counterexample.                                  *)
(***************************************************************************)
EXTENDS Integers, FiniteSetsExt, TLAPS, NaturalsInduction, WellFoundedInduction

(* A set of numbers that is not empty has a least element. *)
LEMMA MinOfNats ==
  ASSUME NEW T \in SUBSET Nat, T # {}
  PROVE  Min(T) \in T /\ \A y \in T : Min(T) <= y
<1>1. PICK x \in T : \A y \in T : ~(<<y, x>> \in OpToRel(<, Nat))
  BY NatLessThanWellFounded, WFMin
<1>2. \A y \in T : ~(y < x)
  BY <1>1 DEF OpToRel
<1>3. \A y \in T : x <= y
  BY <1>2
<1> QED
  BY <1>3 DEF Min

(* A bounded set of numbers that is not empty has a greatest element. *)
LEMMA MaxOfBounded ==
  ASSUME NEW N \in Nat, NEW T \in SUBSET (0..N), T # {}
  PROVE  Max(T) \in T /\ \A y \in T : y <= Max(T)
<1> DEFINE D == {N - y : y \in T}
<1>1. D \in SUBSET Nat
  OBVIOUS
<1>2. D # {}
  OBVIOUS
<1>3. PICK m : m = Min(D)
  OBVIOUS
<1> HIDE DEF D
<1>31. m \in D /\ \A z \in D : m <= z
  BY <1>1, <1>2, <1>3, MinOfNats
<1>4. PICK x \in T : m = N - x
  BY <1>31 DEF D
<1>5. \A y \in T : x >= y
  <2> SUFFICES ASSUME NEW y \in T PROVE x >= y
    OBVIOUS
  <2>1. N - y \in D
    BY DEF D
  <2>2. N - x <= N - y
    BY <1>31, <1>4, <2>1
  <2> QED
    BY <2>2
<1>6. \E z \in T : \A y \in T : z >= y
  BY <1>5
<1>7. Max(T) \in T /\ \A y \in T : Max(T) >= y
  BY <1>6 DEF Max
<1> QED
  BY <1>7

(* Whatever is in the set and not above the others is the least element. *)
LEMMA MinIs ==
  ASSUME NEW T \in SUBSET Nat, NEW x \in T, \A y \in T : x <= y
  PROVE  Min(T) = x
<1>1. PICK m : m = Min(T)
  OBVIOUS
<1>2. m \in T /\ \A y \in T : m <= y
  BY <1>1, MinOfNats
<1>3. m <= x /\ x <= m /\ m \in Nat /\ x \in Nat
  BY <1>2
<1> QED
  BY <1>1, <1>3

(* The same for the greatest. *)
LEMMA MaxIs ==
  ASSUME NEW N \in Nat, NEW T \in SUBSET (0..N), NEW x \in T, \A y \in T : y <= x
  PROVE  Max(T) = x
<1>1. PICK m : m = Max(T)
  OBVIOUS
<1>2. m \in T /\ \A y \in T : y <= m
  BY <1>1, MaxOfBounded
<1>3. m <= x /\ x <= m /\ m \in Nat /\ x \in Nat
  BY <1>2
<1> QED
  BY <1>1, <1>3

(* Induction up to N: the set of the numbers that have a property. *)
LEMMA UpTo ==
  ASSUME NEW N \in Nat, NEW T, 0 \in T,
         \A n \in 0..N : n < N /\ n \in T => n + 1 \in T
  PROVE  \A n \in 0..N : n \in T
<1> SUFFICES ASSUME \E n \in 0..N : n \notin T PROVE FALSE
  OBVIOUS
<1> DEFINE D == {n \in 0..N : n \notin T}
<1>1. D \in SUBSET Nat
  OBVIOUS
<1>2. D # {}
  OBVIOUS
<1>3. PICK m : m = Min(D)
  OBVIOUS
<1> HIDE DEF D
<1>4. m \in D /\ \A y \in D : m <= y
  BY <1>1, <1>2, <1>3, MinOfNats
<1>5. m \in 0..N /\ m \notin T /\ m # 0
  BY <1>4 DEF D
<1>6. m - 1 \in 0..N /\ m - 1 < N
  BY <1>5
<1>7. m - 1 \in T
  <2>1. ~(m <= m - 1)
    BY <1>5
  <2> QED
    BY <1>4, <1>6, <2>1 DEF D
<1>8. (m - 1) + 1 \in T
  BY <1>6, <1>7
<1>9. (m - 1) + 1 = m
  BY <1>5
<1> QED
  BY <1>5, <1>8, <1>9

(* The functions on 0..N that start with v and go from one value to the next by
   step. *)
StepsOn(N, V) == [1..N -> [V -> V]]
Follows(f, N, V, v, step) ==
  f \in [0..N -> V] /\ f[0] = v /\ \A n \in 1..N : f[n] = step[n][f[n - 1]]

(* There is such a function. *)
LEMMA Recursion ==
  ASSUME NEW N \in Nat, NEW V, NEW v \in V, NEW step \in StepsOn(N, V)
  PROVE  \E f : Follows(f, N, V, v, step)
<1> USE DEF StepsOn
<1> DEFINE Good(n, g) == g[0] = v /\ \A k \in 1..n : g[k] = step[k][g[k - 1]]
           T == {n \in 0..N : \E g \in [0..n -> V] : Good(n, g)}
<1>1. 0 \in T
  <2>1. [k \in 0..0 |-> v] \in [0..0 -> V] /\ Good(0, [k \in 0..0 |-> v])
    OBVIOUS
  <2>2. \E g \in [0..0 -> V] : Good(0, g)
    BY <2>1
  <2> QED
    BY <2>2
<1>2. ASSUME NEW n \in 0..N, n < N, n \in T PROVE n + 1 \in T
  <2>1. PICK g \in [0..n -> V] : Good(n, g)
    BY <1>2
  <2>2. PICK h : h = [k \in 0..(n + 1) |-> IF k = n + 1 THEN step[n + 1][g[n]] ELSE g[k]]
    OBVIOUS
  <2>3. n \in Nat /\ n + 1 \in 1..N /\ n + 1 \in 0..N
    BY <1>2
  <2>4. step[n + 1][g[n]] \in V
    BY <2>1, <2>3
  <2>5. h \in [0..(n + 1) -> V]
    BY <2>1, <2>2, <2>3, <2>4
  <2>6. h[0] = v
    BY <2>1, <2>2, <2>3
  <2>7. ASSUME NEW k \in 1..(n + 1) PROVE h[k] = step[k][h[k - 1]]
    <3>1. CASE k = n + 1
      <4>1. h[k] = step[n + 1][g[n]]
        BY <2>2, <2>3, <3>1
      <4>2. k - 1 = n /\ n \in 0..(n + 1) /\ n # n + 1
        BY <2>3, <3>1
      <4>3. h[n] = g[n]
        BY <2>2, <4>2
      <4> QED
        BY <3>1, <4>1, <4>2, <4>3
    <3>2. CASE k # n + 1
      <4>1. k \in 1..n /\ k - 1 \in 0..n /\ k - 1 # n + 1 /\ k \in 0..(n + 1) /\ k - 1 \in 0..(n + 1)
        BY <2>3, <3>2
      <4>2. h[k] = g[k] /\ h[k - 1] = g[k - 1]
        BY <2>2, <3>2, <4>1
      <4> QED
        BY <2>1, <4>1, <4>2
    <3> QED
      BY <3>1, <3>2
  <2> QED
    BY <2>3, <2>5, <2>6, <2>7
<1> HIDE DEF T
<1>3. \A n \in 0..N : n \in T
  BY <1>1, <1>2, UpTo
<1>4. PICK g \in [0..N -> V] : Good(N, g)
  BY <1>3 DEF T
<1> QED
  BY <1>4 DEF Follows
=============================================================================
