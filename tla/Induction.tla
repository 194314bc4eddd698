------------------------------- MODULE Induction -------------------------------
(***************************************************************************)
(* Induction over numbers in the form the proofs of this project use it: a *)
(* set of counterexamples has a least member, and a function that is       *)
(* defined step by step exists.                                            *)
(***************************************************************************)
EXTENDS Integers, FiniteSetTheorems, TLAPS

(* Every set of numbers has a least one. *)
LEMMA LeastNumber ==
  ASSUME NEW T, T \subseteq Nat, T # {}
  PROVE  \E n \in T : \A m \in T : n <= m
<1>1. IsWellFoundedOn(OpToRel(<, Nat), Nat)
  BY NatLessThanWellFounded
<1>2. PICK n \in T : \A m \in T : ~(<<m, n>> \in OpToRel(<, Nat))
  BY <1>1, WFMin
<1>3. \A m \in T : ~(m < n)
  <2> TAKE m \in T
  <2>1. m \in Nat /\ n \in Nat
    OBVIOUS
  <2>2. m < n => <<m, n>> \in OpToRel(<, Nat)
    BY <2>1 DEF OpToRel
  <2> QED
    BY <2>2, <1>2
<1> QED
  BY <1>3

(* A set of numbers with 0 and with the successor of each member has all.  *)
LEMMA AllNumbers ==
  ASSUME NEW T, 0 \in T, \A n \in Nat : n \in T => n + 1 \in T
  PROVE  Nat \subseteq T
<1> DEFINE Out == Nat \ T
<1> SUFFICES ASSUME Out # {}
             PROVE  FALSE
  OBVIOUS
<1>1. PICK n \in Out : \A m \in Out : n <= m
  <2>1. Out \subseteq Nat
    OBVIOUS
  <2> HIDE DEF Out
  <2> QED
    BY <2>1, LeastNumber
<1>2. n \in Nat /\ n # 0
  OBVIOUS
<1>3. n - 1 \in Nat /\ n - 1 \notin Out /\ (n - 1) + 1 = n
  BY <1>1, <1>2
<1> QED
  BY <1>3

(* The values that start at a and follow step f. *)
Follows(w, k, a, f) ==
  /\ w[0] = a
  /\ \A i \in 1..k : w[i] = f[<<i, w[i - 1]>>]

(* A function defined by recursion up to n exists. *)
LEMMA RecursionExists ==
  ASSUME NEW n \in Nat, NEW S, NEW a \in S, NEW f \in [(1..n) \X S -> S]
  PROVE  \E w \in [0..n -> S] : Follows(w, n, a, f)
<1> DEFINE Upto == {k \in Nat : k <= n => \E w \in [0..k -> S] : Follows(w, k, a, f)}
<1>1. 0 \in Upto
  <2> DEFINE w == [i \in 0..0 |-> a]
  <2>1. w \in [0..0 -> S] /\ Follows(w, 0, a, f)
    BY DEF Follows
  <2> QED
    BY <2>1
<1>2. ASSUME NEW k \in Nat, k \in Upto
      PROVE  k + 1 \in Upto
  <2> SUFFICES ASSUME k + 1 <= n
               PROVE  \E w \in [0..(k + 1) -> S] : Follows(w, k + 1, a, f)
    OBVIOUS
  <2>1. PICK w \in [0..k -> S] : Follows(w, k, a, f)
    BY <1>2
  <2> DEFINE v == [i \in 0..(k + 1) |-> IF i <= k THEN w[i] ELSE f[<<k + 1, w[k]>>]]
  <2>2. f[<<k + 1, w[k]>>] \in S
    <3>1. w[k] \in S /\ k + 1 \in 1..n
      OBVIOUS
    <3> QED
      BY <3>1
  <2>3. v \in [0..(k + 1) -> S]
    BY <2>2
  <2>4. v[0] = a
    BY <2>1 DEF Follows
  <2>5. ASSUME NEW i \in 1..(k + 1)
        PROVE  v[i] = f[<<i, v[i - 1]>>]
    <3>1. CASE i <= k
      BY <3>1, <2>1 DEF Follows
    <3>2. CASE i = k + 1
      <4>1. v[k + 1] = f[<<k + 1, w[k]>>] /\ v[k] = w[k]
        OBVIOUS
      <4>2. i - 1 = k
        BY <3>2
      <4> HIDE DEF v
      <4> QED
        BY <3>2, <4>1, <4>2
    <3> QED
      BY <3>1, <3>2
  <2> HIDE DEF v
  <2> QED
    BY <2>3, <2>4, <2>5 DEF Follows
<1>3. Nat \subseteq Upto
  <2> HIDE DEF Upto
  <2> QED
    BY <1>1, <1>2, AllNumbers
<1> QED
  BY <1>3

(* What starts at a and follows f up to n is determined by a and f. *)
LEMMA FollowersAgree ==
  ASSUME NEW a, NEW f, NEW n \in Nat, NEW k \in Nat,
         NEW v, NEW w, Follows(v, n, a, f), Follows(w, k, a, f)
  PROVE  \A i \in Nat : i <= n /\ i <= k => v[i] = w[i]
<1> DEFINE T == {i \in Nat : i <= n /\ i <= k => v[i] = w[i]}
<1>1. 0 \in T
  BY DEF Follows
<1>2. ASSUME NEW i \in Nat, i \in T
      PROVE  i + 1 \in T
  <2> SUFFICES ASSUME i + 1 <= n, i + 1 <= k
               PROVE  v[i + 1] = w[i + 1]
    OBVIOUS
  <2>1. v[i] = w[i] /\ i + 1 \in 1..n /\ i + 1 \in 1..k /\ (i + 1) - 1 = i
    BY <1>2
  <2> QED
    BY <2>1 DEF Follows
<1>3. Nat \subseteq T
  <2> HIDE DEF T
  <2> QED
    BY <1>1, <1>2, AllNumbers
<1> QED
  BY <1>3

(* A function defined by recursion on all numbers exists. *)
LEMMA RecursionForever ==
  ASSUME NEW S, NEW a \in S, NEW f \in [(Nat \ {0}) \X S -> S]
  PROVE  \E w \in [Nat -> S] :
           w[0] = a /\ \A i \in Nat \ {0} : w[i] = f[<<i, w[i - 1]>>]
<1> DEFINE Prefix(n, w) == w \in [0..n -> S] /\ Follows(w, n, a, f)
<1>1. ASSUME NEW n \in Nat
      PROVE  \E w : Prefix(n, w)
  <2> DEFINE g == [x \in (1..n) \X S |-> f[x]]
  <2>1. g \in [(1..n) \X S -> S]
    OBVIOUS
  <2>2. PICK w \in [0..n -> S] : Follows(w, n, a, g)
    <3> HIDE DEF g
    <3> QED
      BY <2>1, RecursionExists
  <2>3. \A i \in 1..n : g[<<i, w[i - 1]>>] = f[<<i, w[i - 1]>>]
    <3> TAKE i \in 1..n
    <3>1. <<i, w[i - 1]>> \in (1..n) \X S
      OBVIOUS
    <3> QED
      BY <3>1
  <2> HIDE DEF g
  <2> QED
    BY <2>2, <2>3 DEF Follows
<1> DEFINE P(n) == CHOOSE w : Prefix(n, w)
<1>2. \A n \in Nat : Prefix(n, P(n))
  BY <1>1, Zenon
<1>3. \A n \in Nat : P(n)[n] \in S
  <2> TAKE n \in Nat
  <2>1. P(n) \in [0..n -> S] /\ n \in 0..n
    BY <1>2
  <2> HIDE DEF P
  <2> QED
    BY <2>1
<1> DEFINE w == [n \in Nat |-> P(n)[n]]
<1>4. w \in [Nat -> S] /\ \A n \in Nat : w[n] = P(n)[n]
  <2> HIDE DEF P
  <2> QED
    BY <1>3
<1>5. w[0] = a
  <2>1. P(0)[0] = a
    <3>1. Prefix(0, P(0))
      BY <1>2
    <3> HIDE DEF P
    <3> QED
      BY <3>1 DEF Follows
  <2> HIDE DEF P
  <2> QED
    BY <2>1, <1>4
<1>6. ASSUME NEW i \in Nat \ {0}
      PROVE  w[i] = f[<<i, w[i - 1]>>]
  <2>1. PICK v : v = P(i) /\ Prefix(i, v)
    BY <1>2
  <2>2. PICK u : u = P(i - 1) /\ Prefix(i - 1, u)
    <3>1. i - 1 \in Nat
      OBVIOUS
    <3> HIDE DEF P, w
    <3> QED
      BY <3>1, <1>2
  <2>3. w[i] = v[i] /\ w[i - 1] = u[i - 1]
    <3> HIDE DEF P
    <3> QED
      BY <2>1, <2>2, <1>4
  <2>4. v[i - 1] = u[i - 1]
    <3>1. i - 1 \in Nat /\ i - 1 <= i /\ i \in Nat
      OBVIOUS
    <3>2. Follows(v, i, a, f) /\ Follows(u, i - 1, a, f)
      BY <2>1, <2>2
    <3> HIDE DEF P, w
    <3> QED
      BY <3>1, <3>2, FollowersAgree
  <2>5. v[i] = f[<<i, v[i - 1]>>]
    <3>1. Follows(v, i, a, f) /\ i \in 1..i
      BY <2>1
    <3> HIDE DEF P, w
    <3> QED
      BY <3>1 DEF Follows
  <2> HIDE DEF P, w
  <2> QED
    BY <2>3, <2>4, <2>5
<1> HIDE DEF w
<1> QED
  BY <1>4, <1>5, <1>6
=============================================================================
