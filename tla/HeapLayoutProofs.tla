--------------------------- MODULE HeapLayoutProofs ---------------------------
(***************************************************************************)
(* The arithmetic of allocator, barrier and collector for any word, page,  *)
(* group and int size that fit each other, and for every request.          *)
(***************************************************************************)
EXTENDS HeapLayout, Induction

(***************************************************************************)
(* Powers of two.                                                          *)
(***************************************************************************)

(* The recursive definition of Pow2 defines a function. *)
LEMMA PowerSteps == Pow2 = [n \in Nat |-> IF n = 0 THEN 1 ELSE 2 * Pow2[n - 1]]
<1>1. PICK S : S = Nat
  OBVIOUS
<1> DEFINE f == [x \in (Nat \ {0}) \X S |-> 2 * x[2]]
<1>2. PICK w \in [Nat -> S] : w[0] = 1 /\ \A i \in Nat \ {0} : w[i] = f[<<i, w[i - 1]>>]
  <2>1. 1 \in S /\ f \in [(Nat \ {0}) \X S -> S]
    BY <1>1
  <2> HIDE DEF f
  <2> QED
    BY <2>1, RecursionForever
<1>3. \A i \in Nat \ {0} : w[i] = 2 * w[i - 1]
  <2> TAKE i \in Nat \ {0}
  <2>1. <<i, w[i - 1]>> \in (Nat \ {0}) \X S
    BY <1>1
  <2> QED
    BY <1>2, <2>1
<1>4. w = [n \in Nat |-> IF n = 0 THEN 1 ELSE 2 * w[n - 1]]
  <2>1. \A n \in Nat : w[n] = IF n = 0 THEN 1 ELSE 2 * w[n - 1]
    BY <1>2, <1>3
  <2> QED
    BY <2>1
<1>5. \E g : g = [n \in Nat |-> IF n = 0 THEN 1 ELSE 2 * g[n - 1]]
  BY <1>4
<1> QED
  BY <1>5, Zenon DEF Pow2

(* Every power is twice the one before. *)
LEMMA Powers ==
  /\ Pow2[0] = 1
  /\ \A n \in Nat : Pow2[n] \in Nat \ {0} /\ Pow2[n + 1] = 2 * Pow2[n]
<1>1. \A n \in Nat : Pow2[n] = IF n = 0 THEN 1 ELSE 2 * Pow2[n - 1]
  BY PowerSteps
<1>2. Pow2[0] = 1 /\ \A n \in Nat : Pow2[n + 1] = 2 * Pow2[n]
  <2>1. \A n \in Nat : n + 1 \in Nat /\ n + 1 # 0 /\ (n + 1) - 1 = n
    OBVIOUS
  <2> QED
    BY <1>1, <2>1
<1> DEFINE T == {n \in Nat : Pow2[n] \in Nat \ {0}}
<1>3. 0 \in T /\ \A n \in Nat : n \in T => n + 1 \in T
  BY <1>2
<1>4. Nat \subseteq T
  <2> HIDE DEF T
  <2> QED
    BY <1>3, AllNumbers
<1> QED
  BY <1>2, <1>4

(* Powers multiply by adding what they are of. *)
LEMMA PowerOfSum ==
  ASSUME NEW m \in Nat, NEW n \in Nat
  PROVE  Pow2[m + n] = Pow2[m] * Pow2[n]
<1> DEFINE T == {k \in Nat : Pow2[m + k] = Pow2[m] * Pow2[k]}
<1>1. 0 \in T
  BY Powers
<1>2. ASSUME NEW k \in Nat, k \in T
      PROVE  k + 1 \in T
  <2>1. Pow2[m + k] = Pow2[m] * Pow2[k] /\ m + k \in Nat /\ m + (k + 1) = (m + k) + 1
    BY <1>2
  <2>2. Pow2[m + (k + 1)] = 2 * (Pow2[m] * Pow2[k]) /\ Pow2[k + 1] = 2 * Pow2[k]
    BY <2>1, Powers
  <2>3. Pow2[m] \in Nat /\ Pow2[k] \in Nat
    BY Powers
  <2>4. 2 * (Pow2[m] * Pow2[k]) = Pow2[m] * (2 * Pow2[k])
    BY <2>3
  <2> QED
    BY <2>2, <2>4
<1>3. Nat \subseteq T
  <2> HIDE DEF T
  <2> QED
    BY <1>1, <1>2, AllNumbers
<1> QED
  BY <1>3

(* A power divides every higher one, which is larger than it. *)
LEMMA PowersGrow ==
  ASSUME NEW m \in Nat, NEW n \in Nat, m <= n
  PROVE  /\ \E k \in Nat \ {0} : Pow2[n] = k * Pow2[m]
         /\ Pow2[m] <= Pow2[n]
         /\ m < n => 2 * Pow2[m] <= Pow2[n]
<1>1. n - m \in Nat /\ m + (n - m) = n
  OBVIOUS
<1>2. PICK k \in Nat \ {0} : Pow2[n] = k * Pow2[m] /\ k = Pow2[n - m]
  <2>1. Pow2[n] = Pow2[m] * Pow2[n - m]
    BY <1>1, PowerOfSum
  <2>2. Pow2[n - m] \in Nat \ {0} /\ Pow2[m] \in Nat
    BY <1>1, Powers
  <2>3. Pow2[m] * Pow2[n - m] = Pow2[n - m] * Pow2[m]
    BY <2>2
  <2> QED
    BY <2>1, <2>2, <2>3
<1>3. PICK p \in Nat \ {0} : p = Pow2[m]
  BY Powers
<1>4. p <= k * p
  OBVIOUS
<1>5. m < n => 2 * p <= k * p
  <2> SUFFICES ASSUME m < n
               PROVE  2 * p <= k * p
    OBVIOUS
  <2>1. (n - m) - 1 \in Nat /\ ((n - m) - 1) + 1 = n - m
    OBVIOUS
  <2>2. k = 2 * Pow2[(n - m) - 1] /\ Pow2[(n - m) - 1] \in Nat \ {0}
    BY <2>1, <1>2, Powers
  <2>3. k >= 2
    BY <2>2
  <2> QED
    BY <2>3
<1> QED
  BY <1>2, <1>3, <1>4, <1>5

(* Every number is below some power. *)
LEMMA PowersUnbounded ==
  ASSUME NEW n \in Nat
  PROVE  n < Pow2[n]
<1> DEFINE T == {k \in Nat : k < Pow2[k]}
<1>1. 0 \in T
  BY Powers
<1>2. ASSUME NEW k \in Nat, k \in T
      PROVE  k + 1 \in T
  BY <1>2, Powers
<1>3. Nat \subseteq T
  <2> HIDE DEF T
  <2> QED
    BY <1>1, <1>2, AllNumbers
<1> QED
  BY <1>3

(***************************************************************************)
(* The loop of size_to_group_index: how often n can be halved is the least *)
(* k such that n is below the k-th power.                                  *)
(***************************************************************************)
Below(n, k) == n < Pow2[k] /\ (k > 0 => Pow2[k - 1] <= n)

(* There is one such number ... *)
LEMMA BelowExists ==
  ASSUME NEW n \in Nat
  PROVE  \E k \in Nat : Below(n, k)
<1> DEFINE T == {k \in Nat : n < Pow2[k]}
<1>1. T \subseteq Nat /\ T # {}
  BY PowersUnbounded
<1>2. PICK k \in T : \A j \in T : k <= j
  <2> HIDE DEF T
  <2> QED
    BY <1>1, LeastNumber
<1>3. k > 0 => Pow2[k - 1] <= n
  <2> SUFFICES ASSUME k > 0
               PROVE  Pow2[k - 1] <= n
    OBVIOUS
  <2>1. k - 1 \in Nat /\ k - 1 \notin T
    BY <1>2
  <2> QED
    BY <2>1, Powers
<1> QED
  BY <1>2, <1>3 DEF Below

(* ... and only one. *)
LEMMA BelowUnique ==
  ASSUME NEW n \in Nat, NEW j \in Nat, NEW k \in Nat, Below(n, j), Below(n, k)
  PROVE  j = k
<1>1. ASSUME NEW a \in Nat, NEW b \in Nat, Below(n, a), Below(n, b), a < b
      PROVE  FALSE
  <2>1. b - 1 \in Nat /\ a <= b - 1 /\ b > 0
    BY <1>1
  <2>2. Pow2[a] <= Pow2[b - 1] /\ Pow2[b - 1] <= n /\ n < Pow2[a]
    BY <1>1, <2>1, PowersGrow DEF Below
  <2>3. Pow2[a] \in Nat /\ Pow2[b - 1] \in Nat
    BY <2>1, Powers
  <2> QED
    BY <2>2, <2>3
<1> QED
  BY <1>1

(* One halving takes one from it. *)
LEMMA BelowHalf ==
  ASSUME NEW n \in Nat \ {0}, NEW k \in Nat, Below(n \div 2, k)
  PROVE  Below(n, k + 1)
<1>1. n \div 2 \in Nat /\ 2 * (n \div 2) <= n /\ n <= 2 * (n \div 2) + 1
  OBVIOUS
<1>2. Pow2[k + 1] = 2 * Pow2[k] /\ Pow2[k] \in Nat \ {0} /\ (k + 1) - 1 = k
  BY Powers
<1>3. n < Pow2[k + 1]
  BY <1>1, <1>2 DEF Below
<1>4. Pow2[k] <= n
  <2>1. CASE k = 0
    BY <2>1, Powers
  <2>2. CASE k > 0
    <3>1. k - 1 \in Nat /\ (k - 1) + 1 = k
      BY <2>2
    <3>2. Pow2[k] = 2 * Pow2[k - 1] /\ Pow2[k - 1] \in Nat
      BY <3>1, Powers
    <3> QED
      BY <1>1, <2>2, <3>2 DEF Below
  <2> QED
    BY <2>1, <2>2
<1> QED
  BY <1>2, <1>3, <1>4 DEF Below

(* The recursive definition of Halvings defines a function. *)
LEMMA HalvingSteps ==
  Halvings = [n \in Nat |-> IF n = 0 THEN 0 ELSE 1 + Halvings[n \div 2]]
<1> DEFINE K(n) == CHOOSE k \in Nat : Below(n, k)
<1>1. \A n \in Nat : K(n) \in Nat /\ Below(n, K(n))
  <2> TAKE n \in Nat
  <2> QED
    BY BelowExists, Zenon
<1> DEFINE h == [n \in Nat |-> K(n)]
<1>2. \A n \in Nat : h[n] \in Nat /\ Below(n, h[n])
  <2> HIDE DEF K
  <2> QED
    BY <1>1
<1> HIDE DEF K, h
<1>3. h[0] = 0
  <2>1. Below(0, 0)
    BY Powers DEF Below
  <2> QED
    BY <1>2, <2>1, BelowUnique
<1>4. \A n \in Nat \ {0} : h[n] = 1 + h[n \div 2]
  <2> TAKE n \in Nat \ {0}
  <2>1. n \div 2 \in Nat
    OBVIOUS
  <2>2. PICK k \in Nat : k = h[n \div 2] /\ Below(n \div 2, k)
    BY <2>1, <1>2
  <2>3. Below(n, k + 1) /\ k + 1 \in Nat
    BY <2>2, BelowHalf
  <2>4. h[n] = k + 1
    BY <2>3, <1>2, BelowUnique
  <2> QED
    BY <2>2, <2>4
<1>5. h = [n \in Nat |-> IF n = 0 THEN 0 ELSE 1 + h[n \div 2]]
  <2>1. \A n \in Nat : h[n] = IF n = 0 THEN 0 ELSE 1 + h[n \div 2]
    BY <1>3, <1>4
  <2>2. h = [n \in Nat |-> h[n]]
    BY DEF h
  <2> QED
    BY <2>1, <2>2
<1>6. \E g : g = [n \in Nat |-> IF n = 0 THEN 0 ELSE 1 + g[n \div 2]]
  BY <1>5
<1> QED
  BY <1>6, Zenon DEF Halvings

(* What the loop computes. *)
LEMMA HalvingsCount ==
  ASSUME NEW n \in Nat
  PROVE  Halvings[n] \in Nat /\ Below(n, Halvings[n])
<1> DEFINE Bad == {k \in Nat : ~(Halvings[k] \in Nat /\ Below(k, Halvings[k]))}
<1> SUFFICES ASSUME Bad # {}
             PROVE  FALSE
  OBVIOUS
<1>1. PICK b \in Bad : \A k \in Bad : b <= k
  <2>1. Bad \subseteq Nat
    OBVIOUS
  <2> HIDE DEF Bad
  <2> QED
    BY <2>1, LeastNumber
<1>2. \A k \in Nat : Halvings[k] = IF k = 0 THEN 0 ELSE 1 + Halvings[k \div 2]
  BY HalvingSteps
<1>3. CASE b = 0
  BY <1>2, <1>3, Powers DEF Below
<1>4. CASE b # 0
  <2>1. b \div 2 \in Nat /\ b \div 2 < b /\ b \in Nat \ {0}
    BY <1>4
  <2>2. PICK k \in Nat : k = Halvings[b \div 2] /\ Below(b \div 2, k)
    <3>1. b \div 2 \notin Bad
      BY <1>1, <2>1
    <3> QED
      BY <3>1, <2>1
  <2>3. Halvings[b] = k + 1
    BY <1>2, <1>4, <2>1, <2>2
  <2>4. Below(b, k + 1)
    BY <2>1, <2>2, BelowHalf
  <2> QED
    BY <2>3, <2>4
<1> QED
  BY <1>3, <1>4

(* The range of an int is half of its words on either side of zero. *)
LEMMA IntBits ==
  /\ INT_BITS - 1 \in Nat /\ Pow2[INT_BITS - 1] \in Nat \ {0}
  /\ Pow2[INT_BITS] = 2 * Pow2[INT_BITS - 1]
<1>1. INT_BITS - 1 \in Nat /\ (INT_BITS - 1) + 1 = INT_BITS
  BY MachineAssumption, LayoutAssumption
<1> QED
  BY <1>1, Powers

(***************************************************************************)
(* Conversion to int: the identity on ints, and 2^INT_BITS less behind     *)
(* their largest.                                                          *)
(***************************************************************************)
LEMMA Conversion ==
  ASSUME NEW x \in Int
  PROVE  LET h == Pow2[INT_BITS - 1]
         IN /\ ToInt(x) \in (-h)..(h - 1)
            /\ x \in (-h)..(h - 1) => ToInt(x) = x
            /\ x \in h..(3 * h - 1) => ToInt(x) = x - 2 * h
            /\ x \in (-3 * h)..(-h - 1) => ToInt(x) = x + 2 * h
<1>1. PICK h \in Nat \ {0} : h = Pow2[INT_BITS - 1] /\ Pow2[INT_BITS] = 2 * h
  BY IntBits
<1>2. PICK r : r = (x + h) % (2 * h)
  OBVIOUS
<1>3. ToInt(x) = r - h
  BY <1>1, <1>2 DEF ToInt
<1>4. r \in 0..(2 * h - 1)
  BY <1>2
<1>5. x \in (-h)..(h - 1) => r = x + h
  BY <1>2
<1>6. x \in h..(3 * h - 1) => r = x - h
  BY <1>2
<1>7. x \in (-3 * h)..(-h - 1) => r = x + 3 * h
  BY <1>2
<1>8. /\ ToInt(x) \in (-h)..(h - 1)
      /\ x \in (-h)..(h - 1) => ToInt(x) = x
      /\ x \in h..(3 * h - 1) => ToInt(x) = x - 2 * h
      /\ x \in (-3 * h)..(-h - 1) => ToInt(x) = x + 2 * h
  BY <1>3, <1>4, <1>5, <1>6, <1>7
<1> QED
  BY <1>1, <1>8

(* Division by d of a multiple of d and a remainder. *)
LEMMA Divided ==
  ASSUME NEW d \in Nat \ {0}, NEW q \in Int, NEW r \in 0..(d - 1)
  PROVE  (q * d + r) \div d = q /\ (q * d + r) % d = r /\ (q * d) \div d = q
  OBVIOUS

(* A number without remainder is a multiple. *)
LEMMA Multiple ==
  ASSUME NEW x \in Nat, NEW d \in Nat \ {0}, x % d = 0
  PROVE  x \div d \in Nat /\ x = (x \div d) * d
  OBVIOUS

(***************************************************************************)
(* The sizes of words, headers, groups and pages.                          *)
(***************************************************************************)
LEMMA Sizes ==
  /\ WORD \in Nat \ {0} /\ GC_HEADER = 2 * WORD
  /\ MIN_GROUP_INDEX \in Nat /\ MAX_GROUP_INDEX \in Nat /\ PAGE_POWER \in Nat
  /\ MIN_GROUP_INDEX <= MAX_GROUP_INDEX
  /\ MIN_GROUP_SIZE = 4 * WORD /\ Pow2[MIN_GROUP_INDEX] = 4 * WORD
  /\ BYTES_PER_PAGE = Pow2[PAGE_POWER] /\ BYTES_PER_PAGE \in Nat \ {0}
  BY MachineAssumption, LayoutAssumption, Powers
     DEF GC_HEADER, MIN_GROUP_SIZE, BYTES_PER_PAGE

(* What a caller can pass. *)
LEMMA Requests ==
  /\ \A size \in Size : /\ size \in Int
                          /\ -Pow2[INT_BITS - 1] <= size /\ size < Pow2[INT_BITS - 1]
  /\ \A esize \in ElementSize : esize \in Nat \ {0}
<1>1. \A size \in Size : size \in (-Pow2[INT_BITS - 1])..(Pow2[INT_BITS - 1] - 1)
  BY MachineAssumption, Zenon
<1>2. \A esize \in ElementSize : esize \in Nat \ {0}
  BY MachineAssumption, Zenon
<1> QED
  BY <1>1, <1>2, IntBits

(* The largest object is far from the limits of an int. *)
LEMMA IntIsWide ==
  /\ Pow2[MAX_GROUP_INDEX] \in Nat
  /\ Pow2[MAX_GROUP_INDEX] + GC_HEADER <= Pow2[INT_BITS - 1]
<1>1. MAX_GROUP_INDEX < INT_BITS - 1 /\ INT_BITS - 1 \in Nat
  BY Sizes, IntBits, MachineAssumption, LayoutAssumption
<1>2. 2 * Pow2[MAX_GROUP_INDEX] <= Pow2[INT_BITS - 1]
  BY <1>1, Sizes, PowersGrow
<1>3. 4 * WORD <= Pow2[MAX_GROUP_INDEX]
  BY Sizes, PowersGrow
<1>4. Pow2[MAX_GROUP_INDEX] \in Nat /\ Pow2[INT_BITS - 1] \in Nat
  BY <1>1, Sizes, Powers
<1> QED
  BY <1>2, <1>3, <1>4, Sizes

(* A group has at least the smallest size, whatever is asked for. *)
LEMMA GroupIndexType ==
  ASSUME NEW s \in Int
  PROVE  size_to_group_index(s) \in Nat /\ size_to_group_index(s) >= MIN_GROUP_INDEX
<1>1. ToInt(s - 1) \in Int
  BY Conversion, IntBits
<1> DEFINE n == IF ToInt(s - 1) < 0 THEN -ToInt(s - 1) ELSE ToInt(s - 1)
<1>2. n \in Nat
  BY <1>1
<1>3. Halvings[n] \in Nat
  <2> HIDE DEF n
  <2> QED
    BY <1>2, HalvingsCount
<1>4. size_to_group_index(s) =
        IF Halvings[n] > MIN_GROUP_INDEX THEN Halvings[n] ELSE MIN_GROUP_INDEX
  BY DEF size_to_group_index
<1> HIDE DEF n
<1> QED
  BY <1>3, <1>4, Sizes

(***************************************************************************)
(* size_to_group_index finds the smallest group for any size that is an    *)
(* int.                                                                    *)
(***************************************************************************)
LEMMA GroupIndex ==
  ASSUME NEW s \in 1..(Pow2[INT_BITS - 1] - 1)
  PROVE  LET k == size_to_group_index(s)
         IN s <= Pow2[k] /\ (k = MIN_GROUP_INDEX \/ Pow2[k - 1] < s)
<1>1. s - 1 \in Nat /\ ToInt(s - 1) = s - 1 /\ s \in Nat
  BY Conversion, IntBits
<1>2. PICK j \in Nat : j = Halvings[s - 1] /\ Below(s - 1, j)
  BY <1>1, HalvingsCount
<1>3. size_to_group_index(s) = IF j > MIN_GROUP_INDEX THEN j ELSE MIN_GROUP_INDEX
  BY <1>1, <1>2 DEF size_to_group_index
<1>4. CASE j > MIN_GROUP_INDEX
  <2>1. j > 0 /\ j - 1 \in Nat
    BY <1>4, Sizes
  <2>2. Pow2[j] \in Nat /\ Pow2[j - 1] \in Nat
    BY <2>1, Powers
  <2>3. s - 1 < Pow2[j] /\ Pow2[j - 1] <= s - 1
    BY <1>2, <2>1 DEF Below
  <2>4. s <= Pow2[j] /\ Pow2[j - 1] < s
    BY <2>2, <2>3, <1>1
  <2> QED
    BY <1>3, <1>4, <2>4
<1>5. CASE ~(j > MIN_GROUP_INDEX)
  <2>1. Pow2[j] <= Pow2[MIN_GROUP_INDEX]
    BY <1>5, Sizes, PowersGrow
  <2>2. Pow2[j] \in Nat /\ Pow2[MIN_GROUP_INDEX] \in Nat /\ s - 1 < Pow2[j]
    BY <1>2, Sizes, Powers DEF Below
  <2>3. s <= Pow2[MIN_GROUP_INDEX]
    BY <2>1, <2>2, <1>1
  <2> QED
    BY <1>3, <1>5, <2>3
<1> QED
  BY <1>4, <1>5

(***************************************************************************)
(* A size that is no int any more with the header added is of no group: it *)
(* becomes so negative that the loop takes too many steps.                 *)
(***************************************************************************)
LEMMA OverflowNotServed ==
  ASSUME NEW size \in Nat, size < Pow2[INT_BITS - 1], GC_HEADER + size >= Pow2[INT_BITS - 1]
  PROVE  size_to_group_index(real_size(0, size)) > MAX_GROUP_INDEX
<1>1. PICK h \in Nat \ {0} : h = Pow2[INT_BITS - 1]
  BY IntBits
<1>2. PICK m \in Nat : m = Pow2[MAX_GROUP_INDEX] /\ m + 2 * WORD <= h
  BY <1>1, IntIsWide, Sizes
<1>3. PICK r \in Int : /\ r = real_size(0, size) /\ r = (GC_HEADER + size) - 2 * h
                       /\ r \in (-h)..(2 * WORD - h - 1)
  <2>1. GC_HEADER + size \in h..(3 * h - 1) /\ (GC_HEADER + size) - 2 * h \in (-h)..(2 * WORD - h - 1)
    BY <1>1, <1>2, Sizes
  <2>2. ToInt(GC_HEADER + size) = (GC_HEADER + size) - 2 * h
    BY <1>1, <2>1, Conversion
  <2>3. real_size(0, size) = ToInt(GC_HEADER + size)
    BY DEF real_size
  <2> QED
    BY <2>1, <2>2, <2>3
<1>4. PICK n \in Nat : /\ n = IF ToInt(r - 1) < 0 THEN -ToInt(r - 1) ELSE ToInt(r - 1)
                       /\ n >= m
  <2>1. CASE r = -h
    <3>1. ToInt(r - 1) = h - 1
      <4>1. r - 1 \in (-3 * h)..(-h - 1) /\ (r - 1) + 2 * h = h - 1
        BY <2>1
      <4> QED
        BY <4>1, <1>1, Conversion
    <3>2. h - 1 >= m
      BY <1>2, Sizes
    <3> QED
      BY <3>1, <3>2
  <2>2. CASE r # -h
    <3>1. ToInt(r - 1) = r - 1
      <4>1. r - 1 \in (-h)..(h - 1)
        BY <2>2, <1>2, <1>3, Sizes
      <4> QED
        BY <4>1, <1>1, Conversion
    <3>2. -(r - 1) >= m /\ r - 1 < 0
      BY <1>2, <1>3, Sizes
    <3> QED
      BY <3>1, <3>2
  <2> QED
    BY <2>1, <2>2
<1>5. PICK j \in Nat : j = Halvings[n] /\ Below(n, j)
  BY HalvingsCount
<1>6. j > MAX_GROUP_INDEX
  <2> SUFFICES ASSUME j <= MAX_GROUP_INDEX
               PROVE  FALSE
    BY Sizes
  <2>1. Pow2[j] <= m
    BY <1>2, Sizes, PowersGrow
  <2>2. n < Pow2[j] /\ Pow2[j] \in Nat
    BY <1>5, Powers DEF Below
  <2> QED
    BY <2>1, <2>2, <1>4
<1>7. size_to_group_index(r) = j
  <2>1. size_to_group_index(r) = IF j > MIN_GROUP_INDEX THEN j ELSE MIN_GROUP_INDEX
    BY <1>4, <1>5 DEF size_to_group_index
  <2> QED
    BY <2>1, <1>6, Sizes
<1> QED
  BY <1>3, <1>6, <1>7

(***************************************************************************)
(* How init_pages_for_group cuts pages: into one object, or one page into  *)
(* several.                                                                *)
(***************************************************************************)
LEMMA Carving ==
  ASSUME NEW index \in Nat, index >= MIN_GROUP_INDEX
  PROVE  \E n \in Nat \ {0} :
           /\ PageCount(index) \in Nat \ {0}
           /\ PageCount(index) * BYTES_PER_PAGE = n * Pow2[index]
           /\ n = (PageCount(index) * BYTES_PER_PAGE) \div Pow2[index]
           /\ Pow2[index] >= BYTES_PER_PAGE => n = 1
           /\ Pow2[index] < BYTES_PER_PAGE => PageCount(index) = 1
<1>1. PICK g \in Nat \ {0}, b \in Nat \ {0} : g = Pow2[index] /\ b = BYTES_PER_PAGE
  BY Powers, Sizes
<1> DEFINE per == g \div b
           n == ((IF per > 1 THEN per ELSE 1) * b) \div g
<1>2. PageCount(index) = (n * g) \div b
  BY <1>1 DEF PageCount
<1>3. CASE index >= PAGE_POWER
  <2>1. PICK j \in Nat \ {0} : g = j * b
    BY <1>1, <1>3, Sizes, PowersGrow
  <2>2. per = j /\ g \div g = 1
    BY <2>1, Divided
  <2>3. n = 1
    <3>1. (IF per > 1 THEN per ELSE 1) = j
      BY <2>2
    <3> HIDE DEF per
    <3> QED
      BY <3>1, <2>1, <2>2
  <2>4. PageCount(index) = j /\ g >= b
    <3>1. n * g = j * b
      BY <2>1, <2>3
    <3>2. (j * b) \div b = j
      BY Divided
    <3>3. g >= b
      BY <2>1
    <3> HIDE DEF n
    <3> QED
      BY <3>1, <3>2, <3>3, <1>2
  <2>5. j * b = 1 * g /\ 1 = (j * b) \div g
    BY <2>1, <2>2
  <2> HIDE DEF n, per
  <2> QED
    BY <2>4, <2>5, <1>1
<1>4. CASE index < PAGE_POWER
  <2>1. PICK j \in Nat \ {0} : b = j * g
    BY <1>1, <1>4, Sizes, PowersGrow
  <2>2. g < b
    <3>1. 2 * g <= b
      BY <1>1, <1>4, Sizes, PowersGrow
    <3> QED
      BY <3>1
  <2>3. per = 0
    BY <2>2
  <2>4. n = j
    <3>1. (IF per > 1 THEN per ELSE 1) * b = j * g
      BY <2>1, <2>3
    <3>2. (j * g) \div g = j
      BY Divided
    <3> HIDE DEF per
    <3> QED
      BY <3>1, <3>2
  <2>5. PageCount(index) = 1
    <3>1. n * g = b /\ b \div b = 1
      BY <2>1, <2>4
    <3> HIDE DEF n
    <3> QED
      BY <3>1, <1>2
  <2>6. 1 * b = j * g /\ j = (1 * b) \div g
    BY <2>1, Divided
  <2> HIDE DEF n, per
  <2> QED
    BY <2>2, <2>5, <2>6, <1>1
<1> QED
  BY <1>3, <1>4, Sizes
-----------------------------------------------------------------------------
(***************************************************************************)
(* The inductive invariant.  Nothing is laid out before RTinit_heap; a     *)
(* heap next to a static segment is one segment, described by the page     *)
(* table and the write vector to its last page.                            *)
(***************************************************************************)
PerLong == MIN_GROUP_SIZE * BITS_PER_LONG

Fixed == status = "up" /\ static_size > 0

LaidOut ==
  /\ first_partition_ptr \in Nat /\ DOMAIN pages \subseteq Nat
  /\ status = "start" => object = None /\ static_object = NoStatic
  /\ Fixed =>
       /\ DOMAIN segments = 1..2 /\ Len(segments) = 2
       /\ segments[1].type = "static" /\ segments[2].type = "heap"
       /\ first_partition_ptr \in Place /\ total_partition_pages \in Nat
       /\ last_partition_ptr = first_partition_ptr + total_partition_pages * BYTES_PER_PAGE
       /\ DOMAIN pages = 0..(total_partition_pages - 1)
       /\ RTwrite_vector_length \in Nat
       /\ RTwrite_vector_length * PerLong = total_partition_pages * BYTES_PER_PAGE

(* What RTallocate has computed for the object. *)
Computed ==
  object # None =>
    /\ object.size \in Size /\ object.size >= 0
    /\ object.class \in SC_NOPOINTERS..SC_METADATA
    /\ object.class # SC_METADATA => object.esize = 0
    /\ object.class = SC_METADATA => object.esize \in ElementSize
    /\ object.index = size_to_group_index(real_size(object.esize, object.size))
    /\ object.index <= MAX_GROUP_INDEX
    /\ object.gcptr \in Int
    /\ object.class = SC_METADATA => object.last_ptr = MetadataWord(object.gcptr, object.index)
    /\ object.class # SC_NOPOINTERS =>
         object.body_size = Pow2[object.index] - GC_HEADER
                              - (IF object.class = SC_METADATA THEN WORD ELSE 0)

(* Page p is the first of the object's pages, and it is the k-th there. *)
PlacedAt(p, k) ==
  LET count == PageCount(object.index)
      base == first_partition_ptr + p * BYTES_PER_PAGE
  IN /\ p + count <= total_partition_pages
     /\ k < (count * BYTES_PER_PAGE) \div Pow2[object.index]
     /\ object.gcptr = base + k * Pow2[object.index]
     /\ \A q \in p..(p + count - 1) : pages[q] = [group |-> object.index, base |-> base]

Placed == object # None /\ Fixed => \E p, k \in Nat : PlacedAt(p, k)

(* What RTstatic_allocate has computed for the static object. *)
StaticComputed ==
  static_object # NoStatic =>
    \E class \in SC_NOPOINTERS..SC_CUSTOM1, size \in Size :
      LET rounded == ToInt(ROUND_UPTO_LONG_ALIGNMENT(size))
      IN /\ rounded >= 0
         /\ static_object = [size |-> size, moved |-> rounded + WORD,
                             header |-> StaticHeader(rounded) + class]

IInv == LaidOut /\ Computed /\ Placed /\ StaticComputed
-----------------------------------------------------------------------------
(* Nothing is laid out at first. *)
LEMMA InitInv == Init => IInv
  BY DEF Init, IInv, LaidOut, Fixed, Computed, Placed, StaticComputed

(* The vector has exactly as many words as the pages need. *)
LEMMA VectorLength ==
  ASSUME NEW bytes \in Nat, bytes % BYTES_PER_PAGE = 0
  PROVE  /\ bytes \div BYTES_PER_PAGE \in Nat /\ bytes \div PerLong \in Nat
         /\ bytes = (bytes \div BYTES_PER_PAGE) * BYTES_PER_PAGE
         /\ (bytes \div PerLong) * PerLong = bytes
<1>1. PICK b \in Nat \ {0}, l \in Nat \ {0} : b = BYTES_PER_PAGE /\ l = PerLong /\ b % l = 0
  <2>1. PerLong = (4 * WORD) * (8 * WORD) /\ WORD \in Nat \ {0}
    BY Sizes DEF PerLong, BITS_PER_LONG
  <2>2. PerLong \in Nat \ {0}
    BY <2>1
  <2> QED
    BY <2>2, Sizes, LayoutAssumption DEF PerLong
<1>2. PICK c \in Nat : bytes = c * b /\ c = bytes \div b
  BY <1>1, Multiple
<1>3. PICK d \in Nat : b = d * l
  BY <1>1, Multiple
<1>4. bytes = (c * d) * l /\ c * d \in Nat
  <2>1. bytes = c * (d * l)
    BY <1>2, <1>3
  <2> QED
    BY <2>1
<1>5. bytes \div l = c * d
  <2>1. PICK e \in Nat : e = c * d
    BY <1>4
  <2> QED
    BY <2>1, <1>4, Divided
<1> QED
  BY <1>1, <1>2, <1>4, <1>5

(* RTinit_heap. *)
LEMMA InitHeapStep ==
  ASSUME IInv, NEW first \in HeapBytes, NEW static \in StaticBytes, RTinit_heap(first, static)
  PROVE  IInv'
<1>1. object' = None /\ static_object' = NoStatic /\ status' # "start"
  BY DEF IInv, LaidOut, RTinit_heap
<1>2. Computed' /\ Placed' /\ StaticComputed'
  BY <1>1 DEF Computed, Placed, StaticComputed
<1>3. LaidOut'
  <2>0. first_partition_ptr' \in Nat /\ DOMAIN pages' \subseteq Nat
    <3>1. first_partition_ptr' = first_partition_ptr \/ first_partition_ptr' \in Place
      BY DEF RTinit_heap, Mappings
    <3>2. first_partition_ptr' \in Nat
      BY <3>1, MachineAssumption DEF IInv, LaidOut
    <3>3. DOMAIN pages' = 0..(first \div BYTES_PER_PAGE - 1)
      BY DEF RTinit_heap
    <3> QED
      BY <3>2, <3>3
  <2> SUFFICES ASSUME Fixed'
               PROVE  /\ DOMAIN segments' = 1..2 /\ Len(segments') = 2
                      /\ segments'[1].type = "static" /\ segments'[2].type = "heap"
                      /\ first_partition_ptr' \in Place /\ total_partition_pages' \in Nat
                      /\ last_partition_ptr' = first_partition_ptr' + total_partition_pages' * BYTES_PER_PAGE
                      /\ DOMAIN pages' = 0..(total_partition_pages' - 1)
                      /\ RTwrite_vector_length' \in Nat
                      /\ RTwrite_vector_length' * PerLong = total_partition_pages' * BYTES_PER_PAGE
    BY <1>1, <2>0 DEF LaidOut
  <2>1. static > 0 /\ status' = "up" /\ static \in Nat /\ first \in Nat
    BY MachineAssumption DEF Fixed, RTinit_heap
  <2>2. PICK a \in Place, b \in Place :
          /\ first % BYTES_PER_PAGE = 0
          /\ segments' = Append(<<Segment(a, static, "static")>>, Segment(b, first, "heap"))
          /\ first_partition_ptr' = b /\ last_partition_ptr' = b + first
    BY <2>1 DEF RTinit_heap, SegmentAllowed, Mappings
  <2>3. /\ total_partition_pages' = first \div BYTES_PER_PAGE
        /\ RTwrite_vector_length' = first \div PerLong
        /\ DOMAIN pages' = 0..(first \div BYTES_PER_PAGE - 1)
    BY DEF RTinit_heap, PerLong
  <2>4. DOMAIN segments' = 1..2 /\ Len(segments') = 2
        /\ segments'[1].type = "static" /\ segments'[2].type = "heap"
    <3>1. PICK x, y : x = Segment(a, static, "static") /\ y = Segment(b, first, "heap")
      OBVIOUS
    <3>2. x.type = "static" /\ y.type = "heap"
      BY <3>1 DEF Segment
    <3>3. segments' = Append(<<x>>, y)
      BY <3>1, <2>2
    <3>4. PICK s \in Seq({x, y}) : s = <<x>> /\ Len(s) = 1 /\ s[1] = x
      <4>1. <<x>> \in Seq({x, y})
        OBVIOUS
      <4>2. Len(<<x>>) = 1 /\ <<x>>[1] = x
        OBVIOUS
      <4> QED
        BY <4>1, <4>2
    <3>5. Len(Append(s, y)) = 2 /\ Append(s, y)[1] = x /\ Append(s, y)[2] = y
          /\ DOMAIN Append(s, y) = 1..2
      BY <3>4
    <3> QED
      BY <3>2, <3>3, <3>4, <3>5
  <2> QED
    BY <2>1, <2>2, <2>3, <2>4, VectorLength
<1> QED
  BY <1>2, <1>3 DEF IInv

(* A second heap segment comes only without a static one. *)
LEMMA ExtendHeapStep ==
  ASSUME IInv, NEW index \in MIN_GROUP_INDEX..MAX_GROUP_INDEX, ExtendHeap(index)
  PROVE  IInv'
<1>1. ~Fixed /\ status' # "start" /\ UNCHANGED <<static_size, object, static_object>>
      /\ status = "up"
  <2>1. status = "up" /\ Len(segments) < MAX_SEGMENTS /\ MAX_SEGMENTS \in 1..2
    BY LayoutAssumption DEF ExtendHeap, SegmentAllowed
  <2> QED
    BY <2>1 DEF ExtendHeap, IInv, LaidOut
<1>2. ~Fixed'
  BY <1>1 DEF Fixed
<1>3. first_partition_ptr' \in Nat /\ DOMAIN pages' \subseteq Nat
  BY MachineAssumption DEF IInv, LaidOut, ExtendHeap, Mappings
<1> QED
  BY <1>1, <1>2, <1>3 DEF IInv, LaidOut, Computed, Placed, StaticComputed

(* RTstatic_allocate. *)
LEMMA StaticAllocateStep ==
  ASSUME IInv, NEW class \in SC_NOPOINTERS..SC_CUSTOM1, NEW size \in Size,
         RTstatic_allocate(class, size)
  PROVE  IInv'
<1>1. /\ UNCHANGED <<segments, first_partition_ptr, last_partition_ptr, total_partition_pages,
                     RTwrite_vector_length, pages, static_size, object>>
      /\ object = None /\ status = "up" /\ status' # "start"
  BY DEF RTstatic_allocate
<1>2. Fixed' => Fixed
  BY <1>1 DEF Fixed
<1>3. LaidOut' /\ Computed' /\ Placed'
  BY <1>1, <1>2 DEF IInv, LaidOut, Computed, Placed
<1>4. StaticComputed'
  BY DEF RTstatic_allocate, StaticComputed
<1> QED
  BY <1>3, <1>4 DEF IInv

(* RTallocate. *)
LEMMA AllocateStep ==
  ASSUME IInv, NEW class \in SC_NOPOINTERS..SC_METADATA, NEW esize, NEW size \in Size,
         esize = 0 \/ esize \in ElementSize, RTallocate(class, esize, size)
  PROVE  IInv'
<1>1. /\ UNCHANGED <<segments, first_partition_ptr, last_partition_ptr, total_partition_pages,
                     RTwrite_vector_length, static_size, static_object>>
      /\ object = None /\ status = "up"
  BY DEF RTallocate
<1>2. StaticComputed'
  BY <1>1 DEF IInv, StaticComputed
<1> DEFINE index == size_to_group_index(real_size(esize, size))
           body_size == Pow2[index] - GC_HEADER - (IF class = SC_METADATA THEN WORD ELSE 0)
<1>3. CASE size < 0 \/ index > MAX_GROUP_INDEX
  <2>1. status' = "stopped" /\ object' = None /\ pages' = pages
    BY <1>1, <1>3 DEF RTallocate
  <2> QED
    BY <1>1, <1>2, <2>1 DEF IInv, LaidOut, Fixed, Computed, Placed
<1>4. CASE ~(size < 0 \/ index > MAX_GROUP_INDEX)
  <2>1. PICK p \in DOMAIN pages :
          /\ p + PageCount(index) <= total_partition_pages
          /\ pages' = [q \in DOMAIN pages |->
                         IF q \in p..(p + PageCount(index) - 1)
                         THEN [group |-> index, base |-> first_partition_ptr + p * BYTES_PER_PAGE]
                         ELSE pages[q]]
          /\ \E gcptr \in CarvedAt(first_partition_ptr + p * BYTES_PER_PAGE, index) :
               object' = [gcptr |-> gcptr, index |-> index, class |-> class,
                          esize |-> esize, size |-> size,
                          last_ptr |-> IF class = SC_METADATA
                                       THEN MetadataWord(gcptr, index) ELSE 0,
                          body_size |-> IF class = SC_NOPOINTERS THEN 0 ELSE body_size]
          /\ status' = status
    BY <1>4 DEF RTallocate
  <2>2. index \in Nat /\ index >= MIN_GROUP_INDEX /\ index <= MAX_GROUP_INDEX /\ size >= 0
    <3>1. size \in Int /\ esize \in Nat
      BY Requests
    <3>2. real_size(esize, size) \in Int
      BY <3>1, Sizes, IntBits, Conversion DEF real_size
    <3>3. index \in Nat /\ index >= MIN_GROUP_INDEX
      <4> HIDE DEF body_size
      <4> QED
        BY <3>2, GroupIndexType
    <3> QED
      BY <3>1, <3>3, <1>4, Sizes
  <2> HIDE DEF index, body_size
  <2>3. PICK g \in Nat \ {0} : g = Pow2[index]
    BY <2>2, Powers
  <2>4. PICK base \in Nat : base = first_partition_ptr + p * BYTES_PER_PAGE
    <3>1. p \in Nat /\ first_partition_ptr \in Nat /\ BYTES_PER_PAGE \in Nat
      BY Sizes DEF IInv, LaidOut
    <3> QED
      BY <3>1
  <2>5. PICK k \in Nat, gcptr \in Nat :
          /\ k < (PageCount(index) * BYTES_PER_PAGE) \div g /\ gcptr = base + k * g
          /\ object' = [gcptr |-> gcptr, index |-> index, class |-> class,
                        esize |-> esize, size |-> size,
                        last_ptr |-> IF class = SC_METADATA
                                     THEN MetadataWord(gcptr, index) ELSE 0,
                        body_size |-> IF class = SC_NOPOINTERS THEN 0 ELSE body_size]
    <3>1. PICK ptr \in CarvedAt(base, index) :
          object' = [gcptr |-> ptr, index |-> index, class |-> class,
                     esize |-> esize, size |-> size,
                     last_ptr |-> IF class = SC_METADATA
                                  THEN MetadataWord(ptr, index) ELSE 0,
                     body_size |-> IF class = SC_NOPOINTERS THEN 0 ELSE body_size]
      BY <2>1, <2>4
    <3>2. PICK n \in Nat : n = (PageCount(index) * BYTES_PER_PAGE) \div g
      BY <2>2, <2>3, Carving
    <3>3. PICK k \in 0..(n - 1) : ptr = base + k * g
      BY <3>2, <2>3 DEF CarvedAt
    <3>4. k \in Nat /\ k < n /\ base + k * g \in Nat
      OBVIOUS
    <3> QED
      BY <3>1, <3>2, <3>3, <3>4
  <2>6. /\ object'.gcptr = gcptr /\ object'.index = index /\ object'.class = class
        /\ object'.esize = esize /\ object'.size = size
        /\ class = SC_METADATA => object'.last_ptr = MetadataWord(gcptr, index)
        /\ class # SC_NOPOINTERS => object'.body_size = body_size
    BY <2>5
  <2>7. /\ class # SC_METADATA => esize = 0
        /\ class = SC_METADATA => esize \in ElementSize
    BY DEF RTallocate
  <2>8. Computed'
    BY <2>2, <2>5, <2>6, <2>7 DEF Computed, index, body_size
  <2>9. LaidOut'
    BY <1>1, <2>1 DEF IInv, LaidOut, Fixed
  <2>10. Placed'
    <3> SUFFICES ASSUME Fixed'
                 PROVE  \E q, i \in Nat : PlacedAt(q, i)'
      BY DEF Placed
    <3>1. Fixed /\ p \in Nat /\ DOMAIN pages = 0..(total_partition_pages - 1)
      BY <1>1, <2>1 DEF IInv, LaidOut, Fixed
    <3>2. \A q \in p..(p + PageCount(index) - 1) : pages'[q] = [group |-> index, base |-> base]
      <4> TAKE q \in p..(p + PageCount(index) - 1)
      <4>1. q \in DOMAIN pages
        <5>1. PageCount(index) \in Nat /\ total_partition_pages \in Nat
          BY <3>1, <2>2, Carving DEF IInv, LaidOut
        <5> QED
          BY <5>1, <3>1, <2>1
      <4> QED
        BY <4>1, <2>1, <2>4
    <3>3. PlacedAt(p, k)'
      BY <1>1, <2>1, <2>3, <2>4, <2>5, <2>6, <3>2 DEF PlacedAt
    <3> QED
      BY <3>1, <3>3
  <2> QED
    BY <1>2, <2>8, <2>9, <2>10 DEF IInv
<1> QED
  BY <1>3, <1>4

(* Every step keeps the invariant. *)
LEMMA NextInv == IInv /\ [Next]_vars => IInv'
<1> SUFFICES ASSUME IInv, [Next]_vars
             PROVE  IInv'
  OBVIOUS
<1>1. ASSUME NEW class \in SC_NOPOINTERS..SC_CUSTOM1, NEW size \in Size, RTallocate(class, 0, size)
      PROVE  IInv'
  <2>1. class \in SC_NOPOINTERS..SC_METADATA
    BY DEF SC_NOPOINTERS, SC_CUSTOM1, SC_METADATA
  <2> QED
    BY <1>1, <2>1, AllocateStep
<1>2. ASSUME NEW esize \in ElementSize, NEW size \in Size, RTallocate(SC_METADATA, esize, size)
      PROVE  IInv'
  <2>1. SC_METADATA \in SC_NOPOINTERS..SC_METADATA
    BY DEF SC_NOPOINTERS, SC_METADATA
  <2> QED
    BY <1>2, <2>1, AllocateStep
<1>3. CASE UNCHANGED vars
  BY <1>3 DEF vars, IInv, LaidOut, Fixed, Computed, Placed, PlacedAt, StaticComputed
<1> QED
  BY <1>1, <1>2, <1>3, InitHeapStep, ExtendHeapStep, StaticAllocateStep DEF Next

(* The inductive invariant holds in every reachable state. *)
THEOREM Invariance == Spec => []IInv
  BY InitInv, NextInv, PTL DEF Spec
-----------------------------------------------------------------------------
(***************************************************************************)
(* What follows from the invariant.                                        *)
(***************************************************************************)

(* The fields of an object that was allocated. *)
LEMMA ObjectFields ==
  ASSUME IInv, Allocated
  PROVE  /\ object.size \in Nat /\ object.size < Pow2[INT_BITS - 1]
         /\ object.class # SC_METADATA => object.esize = 0
         /\ object.class = SC_METADATA => object.esize \in Nat \ {0}
         /\ object.index \in Nat /\ object.index >= MIN_GROUP_INDEX
         /\ object.index <= MAX_GROUP_INDEX
         /\ object.index = size_to_group_index(real_size(object.esize, object.size))
         /\ object.gcptr \in Int /\ Pow2[object.index] \in Nat \ {0}
<1>1. Computed /\ object # None
  BY DEF IInv, Allocated
<1>2. object.size \in Nat /\ object.size < Pow2[INT_BITS - 1]
  BY <1>1, Requests DEF Computed
<1>3. /\ object.class # SC_METADATA => object.esize = 0
      /\ object.class = SC_METADATA => object.esize \in Nat \ {0}
  BY <1>1, Requests DEF Computed
<1>4. real_size(object.esize, object.size) \in Int
  <2>1. PICK e \in Nat, n \in Nat : e = object.esize /\ n = object.size
    BY <1>2, <1>3
  <2>2. real_size(e, n) \in Int
    BY Sizes, IntBits, Conversion DEF real_size
  <2> QED
    BY <2>1, <2>2
<1>5. object.index \in Nat /\ object.index >= MIN_GROUP_INDEX
  BY <1>1, <1>4, GroupIndexType DEF Computed
<1> QED
  BY <1>1, <1>2, <1>3, <1>5, Powers DEF Computed

(* The smallest group with room, from what the loop computes. *)
LEMMA SmallestGroupHolds == IInv => SmallestGroup
<1> SUFFICES ASSUME IInv, Allocated, object.class = SC_METADATA => FitsInt
             PROVE  /\ Needed <= Pow2[object.index]
                    /\ object.index = MIN_GROUP_INDEX \/ Pow2[object.index - 1] < Needed
  BY DEF SmallestGroup
<1>1. PICK h \in Nat \ {0} : h = Pow2[INT_BITS - 1]
  BY IntBits
<1>2. PICK n \in Nat, e \in Nat : n = object.size /\ e = object.esize /\ n < h
  BY <1>1, ObjectFields
<1>3. real_size(e, n) = Needed /\ Needed \in 1..(h - 1)
  <2>1. CASE object.class # SC_METADATA
    <3>1. e = 0 /\ Needed = GC_HEADER + n /\ real_size(0, n) = ToInt(GC_HEADER + n)
      BY <1>2, <2>1, ObjectFields DEF Needed, real_size
    <3>2. GC_HEADER + n < h
      <4> SUFFICES ASSUME GC_HEADER + n >= h
                   PROVE  FALSE
        BY Sizes
      <4>1. size_to_group_index(real_size(0, n)) > MAX_GROUP_INDEX
        BY <1>1, <1>2, OverflowNotServed
      <4>2. size_to_group_index(real_size(0, n)) \in Nat
            /\ size_to_group_index(real_size(0, n)) <= MAX_GROUP_INDEX
        BY <1>2, <3>1, ObjectFields
      <4> QED
        BY <4>1, <4>2, Sizes
    <3>3. GC_HEADER + n \in 1..(h - 1) /\ GC_HEADER + n \in (-h)..(h - 1)
      BY <3>2, Sizes
    <3>4. ToInt(GC_HEADER + n) = GC_HEADER + n
      BY <3>3, <1>1, Conversion
    <3> QED
      BY <3>1, <3>3, <3>4
  <2>2. CASE object.class = SC_METADATA
    <3>1. PICK d \in Nat : d = e * n
      OBVIOUS
    <3>2. e # 0 /\ Needed = GC_HEADER + (d + WORD) /\ Needed < h
      BY <1>1, <1>2, <2>2, <3>1, ObjectFields DEF Needed, FitsInt
    <3>3. real_size(e, n) = ToInt(GC_HEADER + ToInt(d + WORD))
      BY <3>1, <3>2 DEF real_size
    <3>4. d + WORD \in (-h)..(h - 1) /\ Needed \in (-h)..(h - 1) /\ Needed \in 1..(h - 1)
      BY <3>2, Sizes
    <3>5. ToInt(d + WORD) = d + WORD
      BY <3>4, <1>1, Conversion, Sizes
    <3>6. ToInt(Needed) = Needed
      BY <3>4, <1>1, Conversion
    <3> QED
      BY <3>2, <3>3, <3>4, <3>5, <3>6
  <2> QED
    BY <2>1, <2>2
<1>4. object.index = size_to_group_index(Needed)
  BY <1>2, <1>3, ObjectFields
<1> QED
  BY <1>1, <1>3, <1>4, GroupIndex

(* A group's size is a whole number of words. *)
LEMMA GroupInWords ==
  ASSUME NEW index \in Nat, index >= MIN_GROUP_INDEX
  PROVE  /\ Pow2[index] \div WORD \in Nat
         /\ (Pow2[index] \div WORD) * WORD = Pow2[index]
<1>1. PICK k \in Nat \ {0} : Pow2[index] = k * Pow2[MIN_GROUP_INDEX]
  BY Sizes, PowersGrow
<1>2. PICK j \in Nat : j = k * 4 /\ Pow2[index] = j * WORD
  BY <1>1, Sizes
<1>3. (j * WORD) \div WORD = j
  BY Sizes, Divided
<1> QED
  BY <1>2, <1>3

(* Allocator and collector see the same body. *)
LEMMA BodyAgreesHolds == IInv => BodyAgrees
<1> SUFFICES ASSUME IInv, Allocated
             PROVE  /\ object.class \in {SC_POINTERS, SC_CUSTOM1} =>
                         Low + object.body_size = High
                    /\ object.class = SC_METADATA =>
                         LET count == ScannedCount(Pow2[object.index], object.esize)
                         IN /\ object.last_ptr = ScannedMetadata(object.gcptr, Pow2[object.index])
                            /\ Low + object.body_size = object.last_ptr
                            /\ Low + count * object.esize <= object.last_ptr
                            /\ FitsInt => object.size <= count
  BY DEF BodyAgrees
<1>1. PICK g \in Nat \ {0}, a \in Int : g = Pow2[object.index] /\ a = object.gcptr
  BY ObjectFields
<1>2. Low = a + 2 * WORD /\ High = a + g
  BY <1>1, Sizes DEF Low, High
<1>3. ASSUME object.class \in {SC_POINTERS, SC_CUSTOM1}
      PROVE  Low + object.body_size = High
  <2>1. object.class # SC_NOPOINTERS /\ object.class # SC_METADATA
    BY <1>3 DEF SC_NOPOINTERS, SC_POINTERS, SC_CUSTOM1, SC_METADATA
  <2>2. object.body_size = g - 2 * WORD - 0
    BY <1>1, <2>1, Sizes DEF IInv, Computed, Allocated
  <2> QED
    BY <1>2, <2>2, Sizes
<1>4. ASSUME object.class = SC_METADATA
      PROVE  LET count == ScannedCount(g, object.esize)
             IN /\ object.last_ptr = ScannedMetadata(object.gcptr, g)
                /\ Low + object.body_size = object.last_ptr
                /\ Low + count * object.esize <= object.last_ptr
                /\ FitsInt => object.size <= count
  <2>1. object.class # SC_NOPOINTERS
    BY <1>4 DEF SC_NOPOINTERS, SC_METADATA
  <2>2. object.body_size = g - 2 * WORD - WORD /\ object.last_ptr = MetadataWord(a, object.index)
    BY <1>1, <1>4, <2>1, Sizes DEF IInv, Computed, Allocated
  <2>3. PICK w \in Nat : w = g \div WORD /\ w * WORD = g
    BY <1>1, ObjectFields, GroupInWords
  <2>4. object.last_ptr = a + 2 * WORD + (w - 3) * WORD
    BY <1>1, <2>2, <2>3, Sizes DEF MetadataWord
  <2>5. object.last_ptr = a + g - WORD
    BY <2>3, <2>4, Sizes
  <2>6. PICK e \in Nat \ {0}, n \in Nat : e = object.esize /\ n = object.size
    BY <1>4, ObjectFields
  <2>7. PICK count \in Int : /\ count = ScannedCount(g, e)
                             /\ count * e <= g - 2 * WORD - WORD
                             /\ g - 2 * WORD - WORD < count * e + e
    <3>1. PICK x \in Int : x = g - 2 * WORD - WORD
      BY Sizes
    <3>2. x \div e \in Int /\ (x \div e) * e <= x /\ x < (x \div e) * e + e
      OBVIOUS
    <3>3. ScannedCount(g, e) = x \div e
      BY <3>1, Sizes DEF ScannedCount
    <3> QED
      BY <3>1, <3>2, <3>3
  <2>8. ASSUME FitsInt
        PROVE  n <= count
    <3>1. Needed <= g
      BY <1>1, <2>8, SmallestGroupHolds DEF SmallestGroup
    <3>2. PICK d \in Nat : d = e * n /\ Needed = 2 * WORD + (d + WORD)
      BY <2>6, Sizes DEF Needed
    <3>3. e * n < count * e + e
      BY <3>1, <3>2, <2>7, Sizes
    <3>4. e * n < e * (count + 1)
      BY <3>3
    <3> QED
      BY <3>4
  <2> QED
    BY <1>1, <1>2, <2>2, <2>5, <2>6, <2>7, <2>8, Sizes DEF ScannedMetadata
<1> QED
  BY <1>1, <1>3, <1>4

(* An address within some pages is in one of them. *)
LEMMA WithinPages ==
  ASSUME NEW b \in Nat \ {0}, NEW p \in Nat, NEW c \in Nat, NEW offset \in Int,
         p * b <= offset, offset < (p + c) * b
  PROVE  offset \div b \in p..(p + c - 1)
<1>1. PICK q \in Int : q = offset \div b /\ q * b <= offset /\ offset < (q + 1) * b
  <2>1. offset \div b \in Int /\ (offset \div b) * b <= offset
        /\ offset < (offset \div b) * b + b
    OBVIOUS
  <2> QED
    BY <2>1
<1>2. p * b < (q + 1) * b /\ q * b < (p + c) * b
  BY <1>1
<1>3. p < q + 1
  BY <1>2
<1>4. q < p + c
  BY <1>2
<1> QED
  BY <1>1, <1>3, <1>4

(***************************************************************************)
(* Where an object lies in a heap of t pages at f: its c pages from the    *)
(* p-th on hold n objects, and it is the k-th of them.                     *)
(***************************************************************************)
LiesAt(f, t, p, c, n, k) ==
  /\ f = first_partition_ptr /\ t = total_partition_pages /\ f \in Place
  /\ c = PageCount(object.index) /\ p + c <= t /\ k < n
  /\ c * BYTES_PER_PAGE = n * Pow2[object.index]
  /\ object.gcptr = (f + p * BYTES_PER_PAGE) + k * Pow2[object.index]
  /\ \A q \in p..(p + c - 1) :
       pages[q] = [group |-> object.index, base |-> f + p * BYTES_PER_PAGE]
  /\ Pow2[object.index] >= BYTES_PER_PAGE => n = 1
  /\ last_partition_ptr = f + t * BYTES_PER_PAGE

(* In a fixed heap an allocated object lies where the invariant placed it. *)
LEMMA Placement ==
  ASSUME IInv, Allocated, Fixed
  PROVE  \E f, t, p, c, n, k \in Nat : LiesAt(f, t, p, c, n, k)
<1>1. PICK p, k \in Nat : PlacedAt(p, k)
  BY DEF IInv, Placed, Allocated
<1>2. PICK n \in Nat :
        /\ PageCount(object.index) \in Nat
        /\ PageCount(object.index) * BYTES_PER_PAGE = n * Pow2[object.index]
        /\ n = (PageCount(object.index) * BYTES_PER_PAGE) \div Pow2[object.index]
        /\ Pow2[object.index] >= BYTES_PER_PAGE => n = 1
  BY ObjectFields, Carving
<1>3. /\ first_partition_ptr \in Nat /\ first_partition_ptr \in Place
      /\ total_partition_pages \in Nat
      /\ last_partition_ptr = first_partition_ptr + total_partition_pages * BYTES_PER_PAGE
  BY DEF IInv, LaidOut
<1>4. /\ p + PageCount(object.index) <= total_partition_pages
      /\ k < n
      /\ object.gcptr = (first_partition_ptr + p * BYTES_PER_PAGE) + k * Pow2[object.index]
      /\ \A q \in p..(p + PageCount(object.index) - 1) :
           pages[q] = [group |-> object.index, base |-> first_partition_ptr + p * BYTES_PER_PAGE]
  BY <1>1, <1>2 DEF PlacedAt
<1>5. LiesAt(first_partition_ptr, total_partition_pages, p, PageCount(object.index), n, k)
  BY <1>2, <1>3, <1>4 DEF LiesAt
<1> QED
  BY <1>2, <1>3, <1>5

(* Every pointer into an object leads to its header. *)
LEMMA InteriorPointers ==
  ASSUME IInv, Allocated, Fixed, NEW ptr \in object.gcptr..(High - 1)
  PROVE  IN_HEAP(ptr) /\ interior_to_gcptr(ptr) = object.gcptr /\ ptr \in Int
<1>1. PICK g \in Nat \ {0}, b \in Nat \ {0}, i \in Nat, a \in Int :
        g = Pow2[object.index] /\ b = BYTES_PER_PAGE /\ i = object.index /\ a = object.gcptr
  BY ObjectFields, Sizes
<1>0. PICK f, t, p, c, n, k \in Nat : LiesAt(f, t, p, c, n, k)
  BY Placement
<1>2.   /\ f = first_partition_ptr /\ f \in Place /\ p + c <= t /\ k < n
        /\ c * b = n * g /\ a = (f + p * b) + k * g
        /\ \A q \in p..(p + c - 1) : pages[q] = [group |-> i, base |-> f + p * b]
        /\ g >= b => n = 1
        /\ last_partition_ptr = f + t * b
  BY <1>0, <1>1 DEF LiesAt
<1>3. PICK r \in 0..(g - 1) : ptr = a + r
  <2>1. ptr \in a..(a + g - 1)
    BY <1>1 DEF High
  <2>2. ptr - a \in 0..(g - 1) /\ ptr = a + (ptr - a)
    BY <2>1
  <2> QED
    BY <2>2
<1>4. PICK offset \in Int : /\ offset = ptr - f /\ offset = p * b + (k * g + r)
                            /\ p * b <= offset /\ offset < (p + c) * b /\ 0 <= offset
  <2>1. ptr - f = p * b + (k * g + r)
    BY <1>2, <1>3
  <2>2. (k + 1) * g <= n * g
    BY <1>2
  <2>3. k * g + r < c * b /\ 0 <= k * g + r
    BY <2>2, <1>2
  <2>4. 0 <= p * b /\ (p + c) * b = p * b + c * b
    OBVIOUS
  <2> QED
    BY <2>1, <2>3, <2>4
<1>5. PICK q \in p..(p + c - 1) : q = offset \div b
  BY <1>4, WithinPages
<1>6. PTR_TO_PAGE_INDEX(ptr) = q /\ pages[q] = [group |-> i, base |-> f + p * b]
  BY <1>1, <1>2, <1>4, <1>5 DEF PTR_TO_PAGE_INDEX
<1>7. IN_HEAP(ptr)
  <2>1. (p + c) * b <= t * b
    BY <1>2
  <2>2. ptr \in f..(f + t * b - 1)
    BY <2>1, <1>3, <1>4
  <2>3. i # 0
    <3>1. 4 * WORD # 1
      BY Sizes
    <3> QED
      BY <3>1, <1>1, ObjectFields, Sizes, Powers
  <2> QED
    BY <2>2, <2>3, <1>2, <1>6 DEF IN_HEAP, IN_PARTITION
<1>8. CASE g >= b
  <2>1. k = 0 /\ a = f + p * b
    BY <1>2, <1>8
  <2>2. interior_to_gcptr(ptr) = f + p * b
    BY <1>1, <1>6, <1>8 DEF interior_to_gcptr
  <2> QED
    BY <1>1, <1>3, <1>7, <2>1, <2>2
<1>9. CASE g < b
  <2>1. PICK j \in Nat : b = j * g
    <3>1. i < PAGE_POWER
      <4> SUFFICES ASSUME PAGE_POWER <= i
                   PROVE  FALSE
        BY Sizes
      <4>1. b <= g
        BY <1>1, Sizes, PowersGrow
      <4> QED
        BY <4>1, <1>9
    <3> QED
      BY <1>1, <3>1, Sizes, PowersGrow
  <2>2. PICK e \in Nat : f = e * b
    <3>1. f % b = 0
      BY <1>1, <1>2, MachineAssumption, Zenon
    <3> QED
      BY <3>1, Multiple
  <2>3. PICK m \in Nat : a = m * g
    <3>1. a = (e * (j * g) + p * (j * g)) + k * g
      BY <1>2, <2>1, <2>2
    <3>2. PICK m \in Nat : m = e * j + p * j + k
      OBVIOUS
    <3>3. m * g = (e * (j * g) + p * (j * g)) + k * g
      BY <3>2
    <3> QED
      BY <3>1, <3>3
  <2>4. (ptr \div g) * g = a
    <3>1. (m * g + r) \div g = m
      BY Divided
    <3> QED
      BY <3>1, <2>3, <1>3
  <2>5. interior_to_gcptr(ptr) = (ptr \div g) * g
    BY <1>1, <1>6, <1>9 DEF interior_to_gcptr
  <2> QED
    BY <1>1, <1>3, <1>7, <2>4, <2>5
<1> QED
  BY <1>8, <1>9

(* A pointer near the start of a body retains its object and no other. *)
LEMMA PointersFindObjectHolds == IInv => PointersFindObject
<1> SUFFICES ASSUME IInv, Allocated, Fixed, NEW ptr \in object.gcptr..(High - 1)
             PROVE  RTtrace_pointer(ptr) =
                      IF ptr < Low + INTERIOR_PTR_RETENTION_LIMIT THEN {object.gcptr} ELSE {}
  BY DEF PointersFindObject, Fixed
<1>1. IN_HEAP(ptr) /\ interior_to_gcptr(ptr) = object.gcptr /\ ptr \in Int /\ object.gcptr \in Int
  BY InteriorPointers, ObjectFields
<1>2. INTERIOR_PTR_RETENTION_LIMIT \in Nat
  BY MachineAssumption
<1>3. valid_interior_ptr(object.gcptr, ptr) <=> ptr < Low + INTERIOR_PTR_RETENTION_LIMIT
  BY <1>1, <1>2, Sizes DEF valid_interior_ptr, Low
<1> QED
  BY <1>1, <1>3 DEF RTtrace_pointer

(* The bit of an object is in the vector and is taken for it again. *)
LEMMA BitFindsObjectHolds == IInv => BitFindsObject
<1> SUFFICES ASSUME IInv, Allocated, Fixed
             PROVE  LET b == mark_write_vector(object.gcptr)
                    IN /\ b.index \in 0..(RTwrite_vector_length - 1)
                       /\ b.bit \in 0..(BITS_PER_LONG - 1)
                       /\ scan_write_vector(b.index, b.bit) = object.gcptr
  BY DEF BitFindsObject, Fixed
<1>1. PICK g \in Nat \ {0}, b \in Nat \ {0}, M \in Nat \ {0}, L \in Nat \ {0}, len \in Nat :
        /\ g = Pow2[object.index] /\ b = BYTES_PER_PAGE /\ M = MIN_GROUP_SIZE
        /\ L = BITS_PER_LONG /\ len = RTwrite_vector_length
  <2>1. RTwrite_vector_length \in Nat
    BY DEF IInv, LaidOut
  <2>2. MIN_GROUP_SIZE \in Nat \ {0} /\ BITS_PER_LONG \in Nat \ {0}
    BY Sizes DEF BITS_PER_LONG
  <2> QED
    BY <2>1, <2>2, ObjectFields, Sizes
<1>0. PICK f, t, p, c, n, k \in Nat : LiesAt(f, t, p, c, n, k)
  BY Placement
<1>2.   /\ f = first_partition_ptr /\ t = total_partition_pages /\ p + c <= t /\ k < n
        /\ c * b = n * g /\ object.gcptr = (f + p * b) + k * g
  BY <1>0, <1>1 DEF LiesAt
<1>3. PICK s \in Nat, d \in Nat : g = s * M /\ b = d * (M * L)
  <2>1. M = Pow2[MIN_GROUP_INDEX]
    BY <1>1, Sizes
  <2>2. PICK s \in Nat \ {0} : g = s * M
    <3>1. PICK i \in Nat : i = object.index /\ MIN_GROUP_INDEX <= i
      BY ObjectFields
    <3>2. PICK s \in Nat \ {0} : Pow2[i] = s * Pow2[MIN_GROUP_INDEX]
      BY <3>1, Sizes, PowersGrow
    <3> QED
      BY <3>1, <3>2, <1>1, <2>1
  <2>3. PICK l \in Nat \ {0} : l = M * L /\ b % l = 0
    BY <1>1, LayoutAssumption
  <2>4. PICK d \in Nat : b = d * l
    <3>1. b \div l \in Nat /\ b = (b \div l) * l
      BY <2>3, Multiple
    <3> QED
      BY <3>1
  <2> QED
    BY <2>2, <2>3, <2>4
<1>4. len * (M * L) = t * b
  BY <1>1, <1>2 DEF IInv, LaidOut, PerLong
<1>5. PICK x \in Nat, offset \in Nat : /\ offset = object.gcptr - f /\ offset = x * M
                                       /\ offset < t * b
  <2>1. object.gcptr - f = p * b + k * g
    BY <1>2
  <2>2. p * b + k * g = (p * (d * L) + k * s) * M /\ p * (d * L) + k * s \in Nat
    <3>1. p * b = (p * (d * L)) * M
      BY <1>3
    <3>2. k * g = (k * s) * M
      BY <1>3
    <3> QED
      BY <3>1, <3>2
  <2>3. p * b + k * g < t * b
    <3>1. k * g < n * g
      BY <1>2
    <3>2. (p + c) * b <= t * b /\ (p + c) * b = p * b + c * b
      BY <1>2
    <3> QED
      BY <3>1, <3>2, <1>2
  <2>4. PICK y \in Nat : y = p * (d * L) + k * s
    BY <2>2
  <2>5. y * M \in Nat
    OBVIOUS
  <2> QED
    BY <2>1, <2>2, <2>3, <2>4, <2>5
<1>6. PICK PL \in Nat \ {0} : PL = M * L
  OBVIOUS
<1>7. PICK y \in Nat, z \in 0..(PL - 1) :
        y = offset \div PL /\ z = offset % PL /\ offset = y * PL + z
  <2>1. offset \div PL \in Nat /\ offset % PL \in 0..(PL - 1)
        /\ offset = (offset \div PL) * PL + (offset % PL)
    OBVIOUS
  <2> QED
    BY <2>1
<1>8. PICK v \in Int : z = v * M /\ v \in 0..(L - 1)
  <2>2. PICK v \in Int : v = x - y * L
    OBVIOUS
  <2>1. z = v * M
    <3>1. y * PL = (y * L) * M
      BY <1>6
    <3>2. v * M = x * M - (y * L) * M
      BY <2>2
    <3> QED
      BY <3>1, <3>2, <1>5, <1>7
  <2>3. 0 * M <= v * M /\ v * M < L * M
    BY <2>1, <2>2, <1>6, <1>7
  <2>4. 0 <= v
    BY <2>3
  <2>5. v < L
    BY <2>3
  <2>6. v \in 0..(L - 1)
    BY <2>4, <2>5
  <2> QED
    BY <2>1, <2>6
<1>9. z \div M = v
  BY <1>8, Divided
<1>10. y < len
  <2>1. y * PL <= offset /\ offset < len * PL
    BY <1>4, <1>5, <1>6, <1>7
  <2>2. y * PL < len * PL
    BY <2>1
  <2> QED
    BY <2>2
<1>11. mark_write_vector(object.gcptr) = [index |-> y, bit |-> v]
  BY <1>1, <1>2, <1>5, <1>6, <1>7, <1>9 DEF mark_write_vector
<1>12. scan_write_vector(y, v) = object.gcptr
  <2>1. scan_write_vector(y, v) = f + (y * M) * L + v * M
    BY <1>1, <1>2 DEF scan_write_vector
  <2>2. (y * M) * L = y * PL
    BY <1>6
  <2>3. object.gcptr = f + offset
    BY <1>5, ObjectFields
  <2> QED
    BY <2>1, <2>2, <2>3, <1>7, <1>8
<1> QED
  BY <1>1, <1>8, <1>10, <1>11, <1>12

(* A heap beside a static segment is one segment. *)
LEMMA HeapStaysPutHolds == IInv => HeapStaysPut
<1> SUFFICES ASSUME IInv, Fixed
             PROVE  /\ Cardinality({i \in DOMAIN segments : segments[i].type = "heap"}) = 1
                    /\ DOMAIN pages = 0..(total_partition_pages - 1)
                    /\ total_partition_pages * BYTES_PER_PAGE
                         = last_partition_ptr - first_partition_ptr
  BY DEF HeapStaysPut, Fixed
<1>1. {i \in DOMAIN segments : segments[i].type = "heap"} = {2}
  BY DEF IInv, LaidOut
<1>2. Cardinality({2}) = 1
  BY FS_Singleton
<1>3. PICK t \in Nat, b \in Nat, f \in Nat :
        /\ t = total_partition_pages /\ b = BYTES_PER_PAGE /\ f = first_partition_ptr
        /\ last_partition_ptr = f + t * b
  BY Sizes DEF IInv, LaidOut
<1>4. PICK z \in Nat : z = t * b
  OBVIOUS
<1>5. total_partition_pages * BYTES_PER_PAGE = last_partition_ptr - first_partition_ptr
  BY <1>3, <1>4
<1> QED
  BY <1>1, <1>2, <1>5 DEF IInv, LaidOut

(* Rounding keeps at least the size asked for, in less than a word. *)
LEMMA RoundedUp ==
  ASSUME NEW n \in Int
  PROVE  ROUND_UPTO_LONG_ALIGNMENT(n) \in n..(n + WORD - 1)
<1>1. PICK w \in Nat \ {0} : w = WORD
  BY Sizes
<1>2. ((n - 1) \div w) * w <= n - 1 /\ n - 1 < ((n - 1) \div w) * w + w
  OBVIOUS
<1> QED
  BY <1>1, <1>2 DEF ROUND_UPTO_LONG_ALIGNMENT

(* The header of a static object leads to the next one. *)
LEMMA StaticWalkStepHolds == IInv => StaticWalkStep
<1> SUFFICES ASSUME IInv, static_object # NoStatic,
                    static_object.moved <= Pow2[INT_BITS - 1 - LINK_INFO_BITS]
             PROVE  /\ WORD + ScannedSize(static_object.header) = static_object.moved
                    /\ ScannedSize(static_object.header) >= static_object.size
  BY DEF StaticWalkStep
<1>1. PICK class \in SC_NOPOINTERS..SC_CUSTOM1, size \in Size, r \in Int :
        /\ r = ToInt(ROUND_UPTO_LONG_ALIGNMENT(size)) /\ r >= 0
        /\ static_object.size = size /\ static_object.moved = r + WORD
        /\ static_object.header = StaticHeader(r) + class
  <2>1. PICK class \in SC_NOPOINTERS..SC_CUSTOM1, size \in Size :
          LET rounded == ToInt(ROUND_UPTO_LONG_ALIGNMENT(size))
          IN /\ rounded >= 0
             /\ static_object = [size |-> size, moved |-> rounded + WORD,
                                 header |-> StaticHeader(rounded) + class]
    BY DEF IInv, StaticComputed
  <2>2. ToInt(ROUND_UPTO_LONG_ALIGNMENT(size)) \in Int
    BY Requests, RoundedUp, Sizes, Conversion, IntBits
  <2> QED
    BY <2>1, <2>2
<1>2. PICK h \in Nat \ {0}, u \in Nat \ {0}, P \in Nat \ {0} :
        /\ h = Pow2[INT_BITS - 1] /\ u = Pow2[INT_BITS - 1 - LINK_INFO_BITS]
        /\ P = Pow2[LINK_INFO_BITS] /\ h = u * P /\ P > 3
  <2>1. /\ INT_BITS - 1 - LINK_INFO_BITS \in Nat /\ LINK_INFO_BITS \in Nat
        /\ (INT_BITS - 1 - LINK_INFO_BITS) + LINK_INFO_BITS = INT_BITS - 1
    BY MachineAssumption, LayoutAssumption
  <2>2. Pow2[INT_BITS - 1] = Pow2[INT_BITS - 1 - LINK_INFO_BITS] * Pow2[LINK_INFO_BITS]
    BY <2>1, PowerOfSum
  <2>3. Pow2[LINK_INFO_BITS] > 3
    BY <2>1, LayoutAssumption, Powers DEF SC_METADATA
  <2> QED
    BY <2>1, <2>2, <2>3, Powers, IntBits
<1>3. PICK w \in Nat \ {0} : w = WORD /\ r + w <= u
  BY <1>1, <1>2, Sizes
<1>4. class \in 0..2
  BY DEF SC_NOPOINTERS, SC_CUSTOM1
<1>5. r * P \in Nat /\ r * P + P <= h
  <2>1. (r + w) * P <= u * P
    BY <1>3
  <2>2. P <= w * P /\ (r + w) * P = r * P + w * P
    BY <1>1
  <2> QED
    BY <1>1, <1>2, <2>1, <2>2
<1>6. PICK x \in Nat : x = r * P
  BY <1>5
<1>7. StaticHeader(r) = x
  <2>1. x \in (-h)..(h - 1)
    BY <1>5, <1>6
  <2> QED
    BY <2>1, <1>2, <1>6, Conversion DEF StaticHeader
<1>8. ScannedSize(static_object.header) = r
  <2>1. x + class \in (-h)..(h - 1)
    BY <1>2, <1>4, <1>5, <1>6
  <2>2. ToInt(x + class) = x + class
    BY <2>1, <1>2, Conversion
  <2>3. class \in 0..(P - 1)
    BY <1>2, <1>4
  <2>4. (r * P + class) \div P = r
    BY <2>3, Divided
  <2> QED
    BY <1>1, <1>2, <1>6, <1>7, <2>2, <2>4 DEF ScannedSize
<1>9. r >= size /\ size \in Int
  <2>1. PICK y \in Int : /\ y = ROUND_UPTO_LONG_ALIGNMENT(size) /\ y \in size..(size + w - 1)
                         /\ size \in Int /\ size < h /\ -h <= size
    <3>1. size \in Int /\ size < h /\ -h <= size
      BY <1>2, Requests
    <3> QED
      BY <3>1, <1>3, RoundedUp
  <2>2. CASE y < h
    <3>1. y \in (-h)..(h - 1)
      BY <2>1, <2>2
    <3> QED
      BY <3>1, <2>1, <1>1, <1>2, Conversion
  <2>3. CASE y >= h
    <3>1. w <= h
      BY <1>2, <1>3, <1>5
    <3>2. y \in h..(3 * h - 1) /\ y - 2 * h < 0
      BY <2>1, <2>3, <3>1
    <3>3. r = y - 2 * h
      BY <3>2, <2>1, <1>1, <1>2, Conversion
    <3> QED
      BY <3>2, <3>3, <1>1
  <2> QED
    BY <2>1, <2>2, <2>3
<1> QED
  BY <1>1, <1>3, <1>8, <1>9
-----------------------------------------------------------------------------
(***************************************************************************)
(* RTallocate serves every request from the smallest group with room for   *)
(* header, data and metadata word, and none whose size with the header is  *)
(* no int.                                                                 *)
(***************************************************************************)
THEOREM GroupsFit == Spec => []SmallestGroup
  BY Invariance, SmallestGroupHolds, PTL

(***************************************************************************)
(* initialize_object_metadata and initialize_object_body on the one side   *)
(* and scan_memory_segment_with_metadata on the other agree where the      *)
(* metadata pointer is, and that what is scanned lies before it, was       *)
(* cleared, and holds all elements asked for.                              *)
(***************************************************************************)
THEOREM BodiesAgree == Spec => []BodyAgrees
  BY Invariance, BodyAgreesHolds, PTL

(***************************************************************************)
(* interior_to_gcptr, by mask or by page table, finds the header for every *)
(* pointer into an object, and RTtrace_pointer retains it for those into   *)
(* the first INTERIOR_PTR_RETENTION_LIMIT bytes of its body.               *)
(***************************************************************************)
THEOREM InteriorPointersCorrect == Spec => []PointersFindObject
  BY Invariance, PointersFindObjectHolds, PTL

(***************************************************************************)
(* The bit mark_write_vector sets is inside the vector RTinit_heap         *)
(* allocated, and scan_write_vector takes it for the same object.          *)
(***************************************************************************)
THEOREM BitsCorrect == Spec => []BitFindsObject
  BY Invariance, BitFindsObjectHolds, PTL

(***************************************************************************)
(* With a static segment, allocate_segment gives init_pages_for_group no   *)
(* second heap segment, so page table, vector and partition stay those of  *)
(* RTinit_heap.                                                            *)
(***************************************************************************)
THEOREM HeapFixed == Spec => []HeapStaysPut
  BY Invariance, HeapStaysPutHolds, PTL

(***************************************************************************)
(* scan_static_space gets from a header RTstatic_allocate wrote to the end *)
(* of the object, if the size has room beside the class in an int.         *)
(***************************************************************************)
THEOREM StaticHeadersCorrect == Spec => []StaticWalkStep
  BY Invariance, StaticWalkStepHolds, PTL
=============================================================================
