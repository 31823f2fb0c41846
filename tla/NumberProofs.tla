---- MODULE NumberProofs ----
(***************************************************************************)
(* What stands for induction over numbers in the proofs: a set of naturals *)
(* has a least element, so the first exception to a claim can be argued    *)
(* about; and a function that is defined by its value further on exists.   *)
(***************************************************************************)
EXTENDS Integers, FiniteSetTheorems, TLAPS

(* A set of naturals that is not empty has a least element.                *)
LEMMA LeastNumber ==
  ASSUME NEW N \in SUBSET Nat, N # {}
  PROVE  \E m \in N : \A k \in N : m <= k
<1> DEFINE T == {0 .. n : n \in N}
<1>1. T \subseteq FiniteSubsetsOf(Nat)
  <2> SUFFICES ASSUME NEW n \in N PROVE 0 .. n \in FiniteSubsetsOf(Nat)
    OBVIOUS
  <2>1. IsFiniteSet(0 .. n)
    BY FS_Interval
  <2> QED
    BY <2>1 DEF FiniteSubsetsOf
<1>2. IsWellFoundedOn(StrictSubsetOrdering(Nat), FiniteSubsetsOf(Nat))
  BY FS_StrictSubsetOrderingWellFounded
<1>3. T # {}
  OBVIOUS
<1> HIDE DEF T
<1>4. PICK x \in T : \A y \in T : ~ (<<y, x>> \in StrictSubsetOrdering(Nat))
  BY <1>1, <1>2, <1>3, WFMin
<1>5. PICK m \in N : x = 0 .. m
  BY DEF T
<1>6. SUFFICES ASSUME NEW k \in N, k < m PROVE FALSE
  OBVIOUS
<1>7. 0 .. k \in T
  BY DEF T
<1>8. 0 .. k \subseteq 0 .. m /\ 0 .. k # 0 .. m /\ 0 .. k \in SUBSET Nat /\ 0 .. m \in SUBSET Nat
  <2>1. m \in 0 .. m /\ m \notin 0 .. k
    BY <1>6
  <2> QED
    BY <1>6, <2>1
<1>9. <<0 .. k, x>> \in StrictSubsetOrdering(Nat)
  BY <1>5, <1>8 DEF StrictSubsetOrdering
<1> QED
  BY <1>4, <1>7, <1>9

(* A set of integers that is not empty and has an upper bound has a        *)
(* greatest element.                                                       *)
LEMMA GreatestNumber ==
  ASSUME NEW N \in SUBSET Int, N # {}, NEW hi \in Int, \A k \in N : k <= hi
  PROVE  \E m \in N : \A k \in N : k <= m
<1> DEFINE M == {hi - k : k \in N}
<1>1. M \in SUBSET Nat /\ M # {}
  <2>1. \A k \in N : hi - k \in Nat
    OBVIOUS
  <2>2. M \subseteq Nat
    BY <2>1
  <2> QED
    BY <2>2
<1> HIDE DEF M
<1>2. PICK d \in M : \A e \in M : d <= e
  BY <1>1, LeastNumber
<1>3. PICK m \in N : d = hi - m
  BY DEF M
<1>4. \A k \in N : k <= m
  <2> SUFFICES ASSUME NEW k \in N PROVE k <= m
    OBVIOUS
  <2>1. hi - k \in M
    BY DEF M
  <2> QED
    BY <1>2, <1>3, <2>1
<1> QED
  BY <1>4

---------------------------------------------------------------------------
(* The function on lo .. hi whose value is given at the numbers in H, and  *)
(* adds a set of its own to the value further on at any other; and the one *)
(* that has the value further on as it is: how far a loop over a text gets *)
(* from each position.                                                     *)
Collects(f, lo, hi, H, next, val, own) ==
  f = [k \in lo .. hi |-> IF k \in H THEN val[k] ELSE own[k] \cup f[next[k]]]

Jumps(f, lo, hi, H, next, val) ==
  f = [k \in lo .. hi |-> IF k \in H THEN val[k] ELSE f[next[k]]]

Onward(lo, hi, H, next) == \A k \in lo .. hi : k \notin H => next[k] \in k + 1 .. hi

LEMMA CollectsExists ==
  ASSUME NEW lo \in Int, NEW hi \in Int, lo <= hi + 1, NEW H, NEW next, NEW val, NEW own,
         Onward(lo, hi, H, next)
  PROVE  \E f : Collects(f, lo, hi, H, next, val, own)
<1> DEFINE N == {n \in Nat : lo + n <= hi + 1 /\ \E f : Collects(f, lo + n, hi, H, next, val, own)}
<1>1. hi + 1 - lo \in N
  <2> DEFINE f == [k \in {} |-> 0]
  <2>1. lo + (hi + 1 - lo) .. hi = {}
    OBVIOUS
  <2>2. Collects(f, lo + (hi + 1 - lo), hi, H, next, val, own)
    BY <2>1 DEF Collects
  <2>3. hi + 1 - lo \in Nat /\ lo + (hi + 1 - lo) <= hi + 1
    OBVIOUS
  <2> HIDE DEF f
  <2> QED
    BY <2>2, <2>3
<1>2. PICK n \in N : \A m \in N : n <= m
  <2>1. N \in SUBSET Nat /\ N # {}
    BY <1>1
  <2> HIDE DEF N
  <2> QED
    BY <2>1, LeastNumber
<1>3. SUFFICES ASSUME n # 0 PROVE FALSE
  <2>1. CASE n = 0
    <3>1. lo + 0 = lo
      OBVIOUS
    <3> QED
      BY <1>2, <2>1, <3>1
  <2> QED
    BY <2>1
<1>4. n \in Nat /\ lo + n <= hi + 1
  BY <1>2
<1>5. PICK f : Collects(f, lo + n, hi, H, next, val, own)
  BY <1>2
<1> DEFINE j == lo + (n - 1)
           Value(h, k) == IF k \in H THEN val[k] ELSE own[k] \cup h[next[k]]
           g == [k \in j .. hi |-> IF k = j THEN Value(f, j) ELSE f[k]]
<1>6. j \in lo .. hi
  BY <1>3, <1>4
<1>7. \A k \in lo + n .. hi : f[k] = Value(f, k)
  BY <1>5 DEF Collects
<1>8. ASSUME NEW k \in j .. hi PROVE g[k] = Value(g, k)
  <2>1. k # j => k \in lo + n .. hi
    BY <1>4, <1>6
  <2>2. CASE k \in H
    BY <1>7, <2>1, <2>2
  <2>3. CASE k \notin H
    <3>1. next[k] \in k + 1 .. hi
      BY <1>6, <2>3 DEF Onward
    <3>2. g[next[k]] = f[next[k]]
      BY <1>6, <3>1
    <3> QED
      BY <1>7, <2>1, <2>3, <3>2
  <2> QED
    BY <2>2, <2>3
<1>9. Collects(g, j, hi, H, next, val, own)
  <2>1. g = [k \in j .. hi |-> Value(g, k)]
    <3> HIDE DEF Value
    <3> QED
      BY <1>8
  <2> QED
    BY <2>1 DEF Collects
<1>10. n - 1 \in N
  <2>1. n - 1 \in Nat /\ lo + (n - 1) <= hi + 1
    BY <1>3, <1>4
  <2> HIDE DEF g
  <2> QED
    BY <1>9, <2>1
<1> HIDE DEF N
<1> QED
  BY <1>2, <1>4, <1>10

(* There is only one such function, and where it starts does not matter.   *)
LEMMA CollectsAgree ==
  ASSUME NEW a \in Int, NEW b \in Int, NEW hi \in Int,
         NEW H, NEW next, NEW val, NEW own, NEW f, NEW g,
         Collects(f, a, hi, H, next, val, own), Collects(g, b, hi, H, next, val, own),
         Onward(a, hi, H, next)
  PROVE  \A k \in a .. hi : b <= k => f[k] = g[k]
<1> DEFINE N == {k \in a .. hi : b <= k /\ f[k] # g[k]}
<1> SUFFICES ASSUME N # {} PROVE FALSE
  OBVIOUS
<1>1. N \in SUBSET Int /\ \A k \in N : k <= hi
  OBVIOUS
<1>2. PICK k \in N : \A m \in N : m <= k
  <2> HIDE DEF N
  <2> QED
    BY <1>1, GreatestNumber
<1>3. k \in a .. hi /\ k \in b .. hi /\ f[k] # g[k]
  BY <1>2
<1>4. /\ f[k] = IF k \in H THEN val[k] ELSE own[k] \cup f[next[k]]
      /\ g[k] = IF k \in H THEN val[k] ELSE own[k] \cup g[next[k]]
  BY <1>3 DEF Collects
<1>5. k \notin H
  BY <1>3, <1>4
<1>6. next[k] \in k + 1 .. hi
  BY <1>3, <1>5 DEF Onward
<1>7. f[next[k]] = g[next[k]]
  BY <1>2, <1>3, <1>6
<1> QED
  BY <1>3, <1>4, <1>5, <1>7

LEMMA JumpsExists ==
  ASSUME NEW lo \in Int, NEW hi \in Int, lo <= hi + 1, NEW H, NEW next, NEW val,
         Onward(lo, hi, H, next)
  PROVE  \E f : Jumps(f, lo, hi, H, next, val)
<1>1. PICK own : own = [k \in lo .. hi |-> {}]
  OBVIOUS
<1>2. PICK f : Collects(f, lo, hi, H, next, val, own)
  BY CollectsExists
<1>3. \A k \in lo .. hi : own[k] \cup f[next[k]] = f[next[k]]
  BY <1>1
<1>4. Jumps(f, lo, hi, H, next, val)
  BY <1>2, <1>3 DEF Collects, Jumps
<1> QED
  BY <1>4

LEMMA JumpsAgree ==
  ASSUME NEW a \in Int, NEW b \in Int, NEW hi \in Int,
         NEW H, NEW next, NEW val, NEW f, NEW g,
         Jumps(f, a, hi, H, next, val), Jumps(g, b, hi, H, next, val), Onward(a, hi, H, next)
  PROVE  \A k \in a .. hi : b <= k => f[k] = g[k]
<1> DEFINE N == {k \in a .. hi : b <= k /\ f[k] # g[k]}
<1> SUFFICES ASSUME N # {} PROVE FALSE
  OBVIOUS
<1>1. N \in SUBSET Int /\ \A k \in N : k <= hi
  OBVIOUS
<1>2. PICK k \in N : \A m \in N : m <= k
  <2> HIDE DEF N
  <2> QED
    BY <1>1, GreatestNumber
<1>3. k \in a .. hi /\ k \in b .. hi /\ f[k] # g[k]
  BY <1>2
<1>4. /\ f[k] = IF k \in H THEN val[k] ELSE f[next[k]]
      /\ g[k] = IF k \in H THEN val[k] ELSE g[next[k]]
  BY <1>3 DEF Jumps
<1>5. k \notin H
  BY <1>3, <1>4
<1>6. next[k] \in k + 1 .. hi
  BY <1>3, <1>5 DEF Onward
<1>7. f[next[k]] = g[next[k]]
  BY <1>2, <1>3, <1>6
<1> QED
  BY <1>3, <1>4, <1>5, <1>7

(* A function that has the same value at a number as at the next one, from *)
(* one place to another.                                                   *)
LEMMA SameAlong ==
  ASSUME NEW a \in Int, NEW b \in Int, a <= b, NEW f, \A k \in a .. b - 1 : f[k] = f[k + 1]
  PROVE  f[a] = f[b]
<1> DEFINE N == {k \in a .. b : f[k] # f[b]}
<1> SUFFICES ASSUME N # {} PROVE FALSE
  OBVIOUS
<1>1. N \in SUBSET Int /\ \A k \in N : k <= b
  OBVIOUS
<1>2. PICK k \in N : \A m \in N : m <= k
  <2> HIDE DEF N
  <2> QED
    BY <1>1, GreatestNumber
<1>3. k \in a .. b /\ f[k] # f[b] /\ k # b
  BY <1>2
<1>4. f[k] = f[k + 1] /\ k + 1 \in a .. b /\ k + 1 \notin N
  BY <1>2, <1>3
<1> QED
  BY <1>3, <1>4
====
