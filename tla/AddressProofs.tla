---------------------------- MODULE AddressProofs ----------------------------
(***************************************************************************)
(* What is proved of the calculations with addresses, for any number and   *)
(* width of the digits: additions carry, masks and prefixes are inverse,   *)
(* a base address and a count describe one network, and an address that is *)
(* read from a text is written as a text that is read as that address.     *)
(*                                                                         *)
(* The calculations work on octets, segments, bytes and bits; what they    *)
(* are for is said with one number per address.  The first part of the     *)
(* module is what leads from one to the other: recursive functions can be  *)
(* unfolded (Recursion), a sequence of digits and the number it writes     *)
(* determine each other (DigitsOf, WrittenBy), and so do a number and its  *)
(* bits (SameBits).  Then each calculation is what it is for the number of *)
(* its address: NewAddressIs, MaskIs, MaskPrefixIs, BaseAddressIs.         *)
(*                                                                         *)
(* The last part is about texts.  Splitting and joining them are inverse   *)
(* (JoinSplit, SplitJoin), and so are writing and reading numbers, as long *)
(* as no leading zero is read (NumeralHas, NumeralOfValue).  An IPv4 text  *)
(* has none (DottedIs); of an IPv6 text one can say where it has some, or  *)
(* what else is not written again (InetPtonIs).                            *)
(***************************************************************************)
EXTENDS AddressCalls, AddressText, WellFoundedInduction, FiniteSetTheorems,
        SequenceTheorems, TLAPS

(* A set of numbers that is not empty has a least one.                     *)
LEMMA LeastNumber ==
  ASSUME NEW S \in SUBSET Nat, S # {}
  PROVE  \E n \in S : \A m \in S : n <= m
<1> DEFINE R == OpToRel(<, Nat)
<1>1. IsWellFoundedOn(R, Nat)
  BY NatLessThanWellFounded
<1>2. \A x, y \in Nat : y < x => <<y, x>> \in R
  BY DEF OpToRel
<1> HIDE DEF R
<1>3. PICK n \in S : \A m \in S : <<m, n>> \notin R
  BY <1>1, WFMin
<1>4. \A m \in S : m \in Nat /\ n \in Nat /\ ~(m < n)
  BY <1>2, <1>3
<1>5. QED
  BY <1>3, <1>4

(* A set that has 0, and the successor of each number it has below n, has  *)
(* n: no number up to n is the least that is missing.                      *)
LEMMA Induction ==
  ASSUME NEW n \in Nat, NEW S, 0 \in S,
         \A i \in 0..(n - 1) : i \in S => i + 1 \in S
  PROVE  n \in S
<1> DEFINE Bad == {i \in 0..n : i \notin S}
<1> SUFFICES ASSUME Bad # {} PROVE FALSE
  OBVIOUS
<1>1. PICK i \in Bad : \A k \in Bad : i <= k
  <2>1. Bad \in SUBSET Nat
    OBVIOUS
  <2> HIDE DEF Bad
  <2>2. QED
    BY <2>1, LeastNumber
<1>2. i \in 1..n /\ i - 1 \in 0..(n - 1) /\ i - 1 \in S
  BY <1>1
<1>3. (i - 1) + 1 \in S
  BY <1>2
<1>4. QED
  BY <1>1, <1>2, <1>3

(* A first value and a step define a function up to any number: what a     *)
(* recursive definition of this form says can be unfolded.                 *)
Unfolds(f, n, T, t, G) ==
  /\ f \in [0..n -> T]
  /\ f[0] = t
  /\ \A i \in 1..n : f[i] = G[i][f[i - 1]]

(* A function with such a recursive definition exists.                     *)
LEMMA Recursion ==
  ASSUME NEW n \in Nat, NEW T, NEW t \in T, NEW G \in [1..n -> [T -> T]]
  PROVE  \E f : Unfolds(f, n, T, t, G)
<1> DEFINE Defined(m) == \E f : Unfolds(f, m, T, t, G)
           S == {m \in 0..n : Defined(m)}
<1>1. 0 \in S
  <2>1. [i \in 0..0 |-> t] \in [0..0 -> T]
    OBVIOUS
  <2>2. [i \in 0..0 |-> t][0] = t /\ 1..0 = {}
    OBVIOUS
  <2>3. Unfolds([i \in 0..0 |-> t], 0, T, t, G)
    BY <2>1, <2>2 DEF Unfolds
  <2>4. QED
    BY <2>3
<1>2. ASSUME NEW m \in 0..(n - 1), m \in S PROVE m + 1 \in S
  <2>1. PICK f : Unfolds(f, m, T, t, G)
    BY <1>2
  <2> DEFINE g == [i \in 0..(m + 1) |->
                     IF i = m + 1 THEN G[m + 1][f[m]] ELSE f[i]]
  <2>2. G[m + 1][f[m]] \in T
    BY <2>1 DEF Unfolds
  <2>3. g \in [0..(m + 1) -> T]
    BY <2>1, <2>2 DEF Unfolds
  <2>4. g[0] = t
    BY <2>1 DEF Unfolds
  <2>5. ASSUME NEW i \in 1..(m + 1) PROVE g[i] = G[i][g[i - 1]]
    <3>1. CASE i = m + 1
      BY <3>1
    <3>2. CASE i # m + 1
      BY <2>1, <3>2 DEF Unfolds
    <3>3. QED
      BY <3>1, <3>2
  <2>6. Unfolds(g, m + 1, T, t, G)
    <3> HIDE DEF g
    <3>1. QED
      BY <2>3, <2>4, <2>5 DEF Unfolds
  <2>7. QED
    BY <2>6
<1>3. n \in S
  <2>1. \A m \in 0..(n - 1) : m \in S => m + 1 \in S
    BY <1>2
  <2> HIDE DEF Defined, S
  <2>2. QED
    BY <1>1, <2>1, Induction
<1>4. QED
  BY <1>3
-----------------------------------------------------------------------------
(* The defining equations of the powers of two.                            *)
LEMMA Powers ==
  /\ Pow2[0] = 1
  /\ \A n \in Nat : Pow2[n] \in Nat \ {0} /\ Pow2[n + 1] = 2 * Pow2[n]
<1> DEFINE Is(f, m) == /\ f \in [0..m -> Nat \ {0}]
                       /\ f[0] = 1
                       /\ \A i \in 1..m : f[i] = 2 * f[i - 1]
<1>1. ASSUME NEW m \in Nat PROVE \E f : Is(f, m)
  <2> DEFINE T == Nat \ {0}
             G == [i \in 1..m |-> [x \in T |-> 2 * x]]
  <2>1. G \in [1..m -> [T -> T]]
    OBVIOUS
  <2>2. \A i \in 1..m : \A x \in T : G[i][x] = 2 * x
    OBVIOUS
  <2>3. 1 \in T
    OBVIOUS
  <2> HIDE DEF G, T
  <2>4. PICK f : Unfolds(f, m, T, 1, G)
    BY <2>1, <2>3, Recursion
  <2>5. \A i \in 1..m : f[i - 1] \in T
    BY <2>4 DEF Unfolds
  <2>6. \A i \in 1..m : f[i] = 2 * f[i - 1]
    BY <2>2, <2>4, <2>5 DEF Unfolds
  <2>7. QED
    BY <2>4, <2>6 DEF T, Unfolds
<1>2. ASSUME NEW m \in Nat, NEW f, Is(f, m), NEW o \in Nat, NEW g, Is(g, o),
             m <= o
      PROVE  g[m] = f[m]
  <2> DEFINE S == {i \in 0..m : g[i] = f[i]}
  <2>1. 0 \in S
    BY <1>2
  <2>2. ASSUME NEW i \in 0..(m - 1), i \in S PROVE i + 1 \in S
    <3>1. i + 1 \in 1..m /\ i + 1 \in 1..o /\ (i + 1) - 1 = i
      BY <1>2
    <3>2. g[i + 1] = 2 * g[i] /\ f[i + 1] = 2 * f[i]
      BY <1>2, <3>1
    <3>3. QED
      BY <2>2, <3>1, <3>2
  <2>3. m \in S
    <3> HIDE DEF S
    <3>1. QED
      BY <2>1, <2>2, Induction
  <2>4. QED
    BY <2>3
<1> DEFINE F == [m \in Nat |-> CHOOSE f : Is(f, m)]
           p == [m \in Nat |-> F[m][m]]
<1>3. \A m \in Nat : Is(F[m], m)
  BY <1>1
<1>4. \A m \in Nat : p[m] \in Nat \ {0}
  BY <1>3
<1>5. p[0] = 1
  BY <1>3
<1>6. ASSUME NEW m \in Nat PROVE p[m + 1] = 2 * p[m]
  <2>1. Is(F[m + 1], m + 1) /\ Is(F[m], m)
    <3> HIDE DEF F, Is
    <3>1. QED
      BY <1>3
  <2>2. m + 1 \in 1..(m + 1) /\ (m + 1) - 1 = m
    OBVIOUS
  <2> HIDE DEF F
  <2>3. F[m + 1][m + 1] = 2 * F[m + 1][m]
    BY <2>1, <2>2
  <2>4. F[m + 1][m] = F[m][m]
    <3> HIDE DEF Is
    <3>1. QED
      BY <1>2, <2>1
  <2>5. p[m + 1] = F[m + 1][m + 1] /\ p[m] = F[m][m]
    OBVIOUS
  <2>6. QED
    BY <2>3, <2>4, <2>5
<1>7. p = [n \in Nat |-> IF n = 0 THEN 1 ELSE 2 * p[n - 1]]
  <2>1. ASSUME NEW n \in Nat
        PROVE  p[n] = IF n = 0 THEN 1 ELSE 2 * p[n - 1]
    <3>1. CASE n = 0
      BY <1>5, <3>1
    <3>2. CASE n # 0
      <4>1. n - 1 \in Nat /\ (n - 1) + 1 = n
        BY <3>2
      <4> HIDE DEF p
      <4>2. QED
        BY <1>6, <3>2, <4>1
    <3>3. QED
      BY <3>1, <3>2
  <2>2. p = [n \in Nat |-> p[n]]
    OBVIOUS
  <2> HIDE DEF p
  <2>3. QED
    BY <2>1, <2>2
<1>8. Pow2 = [n \in Nat |-> IF n = 0 THEN 1 ELSE 2 * Pow2[n - 1]]
  <2> HIDE DEF p
  <2>1. QED
    BY <1>7 DEF Pow2
<1>9. Pow2[0] = 1
  BY <1>8
<1>10. \A n \in Nat : Pow2[n + 1] = 2 * Pow2[n]
  BY <1>8
<1>11. ASSUME NEW n \in Nat PROVE Pow2[n] \in Nat \ {0}
  <2> DEFINE S == {i \in 0..n : Pow2[i] \in Nat \ {0}}
  <2>1. 0 \in S
    BY <1>9
  <2>2. ASSUME NEW i \in 0..(n - 1), i \in S PROVE i + 1 \in S
    BY <1>10, <2>2
  <2>3. n \in S
    <3> HIDE DEF S
    <3>1. QED
      BY <2>1, <2>2, Induction
  <2>4. QED
    BY <2>3
<1>12. QED
  BY <1>9, <1>10, <1>11

(* 2^(m + n) = 2^m * 2^n.                                                  *)
LEMMA PowerSum == \A m, n \in Nat : Pow2[m + n] = Pow2[m] * Pow2[n]
<1> SUFFICES ASSUME NEW m \in Nat, NEW n \in Nat
             PROVE  Pow2[m + n] = Pow2[m] * Pow2[n]
  OBVIOUS
<1> DEFINE S == {i \in 0..n : Pow2[m + i] = Pow2[m] * Pow2[i]}
<1>1. 0 \in S
  BY Powers
<1>2. ASSUME NEW i \in 0..(n - 1), i \in S PROVE i + 1 \in S
  <2>1. Pow2[m + (i + 1)] = 2 * Pow2[m + i] /\ Pow2[i + 1] = 2 * Pow2[i]
    <3>1. m + (i + 1) = (m + i) + 1 /\ m + i \in Nat /\ i \in Nat
      OBVIOUS
    <3>2. QED
      BY <3>1, Powers
  <2>2. Pow2[m] \in Nat /\ Pow2[i] \in Nat
    BY Powers
  <2>3. 2 * (Pow2[m] * Pow2[i]) = Pow2[m] * (2 * Pow2[i])
    BY <2>2
  <2>4. QED
    BY <1>2, <2>1, <2>3
<1>3. n \in S
  <2> HIDE DEF S
  <2>1. QED
    BY <1>1, <1>2, Induction
<1>4. QED
  BY <1>3

(* Products of numbers.                                                    *)
LEMMA Product ==
  ASSUME NEW x \in Nat, NEW y \in Nat
  PROVE  x * y \in Nat
  OBVIOUS

(* A smaller factor leaves room for the other one.                         *)
LEMMA ProductMonotonic ==
  ASSUME NEW x \in Nat, NEW y \in Nat, NEW z \in Nat, x < y
  PROVE  x * z + z <= y * z
<1>1. PICK k \in Nat : y = x + 1 + k
  <2>1. y - x - 1 \in Nat /\ y = x + 1 + (y - x - 1)
    OBVIOUS
  <2>2. QED
    BY <2>1
<1>2. y * z = x * z + z + k * z
  BY <1>1
<1>3. k * z \in Nat /\ x * z \in Nat
  BY Product
<1>4. QED
  BY <1>2, <1>3

(* The weight of a digit of b bits that has k digits behind it.            *)
Weight(b, k) == Pow2[b * k]

(* The weight of a digit is the radix times that of the next one.          *)
LEMMA Weights ==
  ASSUME NEW b \in Nat
  PROVE  /\ Weight(b, 0) = 1
         /\ \A k \in Nat : Weight(b, k) \in Nat \ {0}
         /\ \A k \in Nat : Weight(b, k + 1) = Weight(b, k) * Pow2[b]
<1>1. b * 0 = 0
  OBVIOUS
<1>2. Weight(b, 0) = 1
  BY <1>1, Powers DEF Weight
<1>3. ASSUME NEW k \in Nat
      PROVE  /\ Weight(b, k) \in Nat \ {0}
             /\ Weight(b, k + 1) = Weight(b, k) * Pow2[b]
  <2>1. b * k \in Nat /\ b * (k + 1) = b * k + b
    BY Product
  <2> DEFINE bk == b * k
             bl == b * (k + 1)
  <2>2. bk \in Nat /\ bl = bk + b
    BY <2>1
  <2>3. Weight(b, k) = Pow2[bk] /\ Weight(b, k + 1) = Pow2[bl]
    BY DEF Weight
  <2> HIDE DEF bk, bl
  <2>4. QED
    BY <2>2, <2>3, PowerSum, Powers
<1>4. QED
  BY <1>2, <1>3

(* Quotient and remainder, and how they are recognised.                    *)
LEMMA Division ==
  ASSUME NEW x \in Nat, NEW d \in Nat \ {0}
  PROVE  /\ x \div d \in Nat /\ x % d \in 0..(d - 1)
         /\ x = (x \div d) * d + (x % d)
  OBVIOUS

(* Quotient and remainder are the only ones.                               *)
LEMMA Quotient ==
  ASSUME NEW x \in Nat, NEW d \in Nat \ {0},
         NEW q \in Nat, NEW r \in 0..(d - 1), x = q * d + r
  PROVE  x \div d = q /\ x % d = r
  OBVIOUS

(* Dividing twice is dividing by the product.                              *)
LEMMA DivisionTwice ==
  ASSUME NEW x \in Nat, NEW d \in Nat \ {0}, NEW e \in Nat \ {0}
  PROVE  (x \div d) \div e = x \div (d * e)
  OBVIOUS

-----------------------------------------------------------------------------
(* The sums on the way to the number that n digits write.                  *)
Sums(s, d, n, r) ==
  /\ s \in [0..n -> Nat]
  /\ s[0] = 0
  /\ \A i \in 1..n : s[i] = s[i - 1] * r + d[i]

(* Positional() is the last of the sums.                                   *)
LEMMA PositionalSums ==
  ASSUME NEW n \in Nat, NEW r \in Nat \ {0}, NEW d \in [1..n -> Nat]
  PROVE  \E s : Sums(s, d, n, r) /\ Positional(d, n, r) = s[n]
<1> DEFINE G == [i \in 1..n |-> [x \in Nat |-> x * r + d[i]]]
<1>1. G \in [1..n -> [Nat -> Nat]]
  OBVIOUS
<1>2. \A i \in 1..n : \A x \in Nat : G[i][x] = x * r + d[i]
  OBVIOUS
<1> HIDE DEF G
<1>3. PICK f : Unfolds(f, n, Nat, 0, G)
  BY <1>1, Recursion
<1> DEFINE sum[i \in 0..n] == IF i = 0 THEN 0 ELSE sum[i - 1] * r + d[i]
<1>4. f = [i \in 0..n |-> IF i = 0 THEN 0 ELSE f[i - 1] * r + d[i]]
  <2>1. ASSUME NEW i \in 0..n, i # 0 PROVE f[i] = f[i - 1] * r + d[i]
    <3>1. i \in 1..n /\ f[i - 1] \in Nat
      BY <1>3, <2>1 DEF Unfolds
    <3>2. QED
      BY <1>2, <1>3, <3>1 DEF Unfolds
  <2>2. f[0] = 0 /\ f \in [0..n -> Nat]
    BY <1>3 DEF Unfolds
  <2>3. QED
    BY <2>1, <2>2
<1>5. sum = [i \in 0..n |-> IF i = 0 THEN 0 ELSE sum[i - 1] * r + d[i]]
  BY <1>4
<1>6. Positional(d, n, r) = sum[n]
  BY DEF Positional
<1> HIDE DEF sum
<1>7. ASSUME NEW m \in 0..n PROVE sum[m] \in Nat
  <2> DEFINE S == {i \in 0..m : sum[i] \in Nat}
  <2>1. 0 \in S
    BY <1>5
  <2>2. ASSUME NEW i \in 0..(m - 1), i \in S PROVE i + 1 \in S
    <3>1. sum[i + 1] = sum[i] * r + d[i + 1]
      BY <1>5
    <3>2. sum[i] \in Nat /\ d[i + 1] \in Nat /\ r \in Nat
      BY <2>2
    <3>3. sum[i] * r + d[i + 1] \in Nat
      BY ONLY <3>2
    <3>4. QED
      BY <3>1, <3>3
  <2>3. m \in S
    <3> HIDE DEF S
    <3>1. QED
      BY <2>1, <2>2, Induction
  <2>4. QED
    BY <2>3
<1>8. sum \in [0..n -> Nat]
  BY <1>5, <1>7
<1>9. Sums(sum, d, n, r)
  BY <1>5, <1>8 DEF Sums
<1>10. QED
  BY <1>6, <1>9

(* Digits of b bits write a number of n * b bits; the sums are what the    *)
(* number leaves without its last digits, and the digits can be read off.  *)
LEMMA SumsAreQuotients ==
  ASSUME NEW n \in Nat, NEW b \in Nat, NEW d \in [1..n -> 0..(Pow2[b] - 1)],
         NEW s, Sums(s, d, n, Pow2[b])
  PROVE  \A i \in 0..n : s[i] = s[n] \div Weight(b, n - i)
<1> DEFINE r == Pow2[b]
<1>1. r \in Nat \ {0}
  BY Powers
<1>2. /\ s \in [0..n -> Nat]
      /\ \A i \in 1..n : s[i] = s[i - 1] * r + d[i] /\ d[i] \in 0..(r - 1)
  BY DEF Sums
<1> SUFFICES ASSUME NEW j \in 0..n
             PROVE  s[j] = s[n] \div Weight(b, n - j)
  OBVIOUS
<1> DEFINE S == {k \in 0..(n - j) : s[n - k] = s[n] \div Weight(b, k)}
<1>3. 0 \in S
  <2>1. n - 0 = n /\ s[n] \in Nat
    BY <1>2
  <2>2. s[n] \div 1 = s[n]
    BY <2>1
  <2>3. QED
    BY <2>1, <2>2, Weights
<1>4. ASSUME NEW k \in 0..(n - j - 1), k \in S PROVE k + 1 \in S
  <2>1. /\ n - k \in 1..n /\ n - (k + 1) = (n - k) - 1
        /\ (n - k) - 1 \in 0..n
    OBVIOUS
  <2>2. s[n - k] = s[(n - k) - 1] * r + d[n - k] /\ d[n - k] \in 0..(r - 1)
        /\ s[(n - k) - 1] \in Nat /\ s[n - k] \in Nat /\ s[n] \in Nat
    BY <1>2, <2>1
  <2>3. /\ Weight(b, k) \in Nat \ {0}
        /\ Weight(b, k + 1) = Weight(b, k) * r
    <3>1. k \in Nat
      OBVIOUS
    <3>2. QED
      BY ONLY b \in Nat, <3>1, Weights
  <2> HIDE DEF r
  <2>4. s[(n - k) - 1] = s[n - k] \div r
    BY <1>1, <2>2, Quotient
  <2>5. (s[n] \div Weight(b, k)) \div r = s[n] \div (Weight(b, k) * r)
    BY <1>1, <2>2, <2>3, DivisionTwice
  <2>6. QED
    BY <1>4, <2>1, <2>3, <2>4, <2>5
<1>5. n - j \in S
  <2>1. n - j \in Nat
    OBVIOUS
  <2> HIDE DEF S
  <2>2. QED
    BY <1>3, <1>4, <2>1, Induction
<1>6. n - (n - j) = j
  OBVIOUS
<1>7. QED
  BY <1>5, <1>6

(* A sum is below the weight of the next digit.                            *)
LEMMA SumsBelow ==
  ASSUME NEW n \in Nat, NEW b \in Nat, NEW d \in [1..n -> 0..(Pow2[b] - 1)],
         NEW s, Sums(s, d, n, Pow2[b])
  PROVE  s[n] \in Nat /\ s[n] < Weight(b, n)
<1> DEFINE r == Pow2[b]
<1>1. r \in Nat \ {0}
  BY Powers
<1>2. /\ s \in [0..n -> Nat] /\ s[0] = 0
      /\ \A i \in 1..n : s[i] = s[i - 1] * r + d[i] /\ d[i] \in 0..(r - 1)
  BY DEF Sums
<1> DEFINE S == {k \in 0..n : s[k] < Weight(b, k)}
<1>3. 0 \in S
  BY <1>2, Weights
<1>4. ASSUME NEW k \in 0..(n - 1), k \in S PROVE k + 1 \in S
  <2> DEFINE w == Weight(b, k)
  <2>1. s[k] \in Nat /\ s[k] < w /\ d[k + 1] \in 0..(r - 1)
    BY <1>2, <1>4
  <2>2. Weight(b, k + 1) = w * r
    <3>1. k \in Nat
      OBVIOUS
    <3>2. QED
      BY ONLY b \in Nat, <3>1, Weights DEF r
  <2>3. w \in Nat /\ r \in Nat
    <3>1. k \in Nat
      OBVIOUS
    <3>2. QED
      BY <1>1, <3>1, Weights
  <2> HIDE DEF w
  <2>4. s[k] * r + r <= w * r
    BY ONLY <2>3, <2>1, ProductMonotonic
  <2>5. s[k] * r \in Nat /\ w * r \in Nat
    BY ONLY <2>3, <2>1
  <2>6. s[k] * r + d[k + 1] < w * r
    BY ONLY <2>3, <2>1, <2>4, <2>5
  <2>7. s[k + 1] = s[k] * r + d[k + 1]
    BY <1>2
  <2>8. QED
    BY <2>2, <2>6, <2>7
<1>5. n \in S
  <2> HIDE DEF S
  <2>1. QED
    BY <1>3, <1>4, Induction
<1>6. QED
  BY <1>2, <1>5

(* A number is written by its digits: a sequence of digits and the number  *)
(* it writes determine each other.                                         *)
LEMMA DigitsOf ==
  ASSUME NEW n \in Nat, NEW b \in Nat, NEW d \in [1..n -> 0..(Pow2[b] - 1)]
  PROVE  /\ Positional(d, n, Pow2[b]) \in Nat
         /\ Positional(d, n, Pow2[b]) < Weight(b, n)
         /\ \A i \in 1..n :
              d[i] = (Positional(d, n, Pow2[b]) \div Weight(b, n - i))
                       % Pow2[b]
<1> DEFINE r == Pow2[b]
           x == Positional(d, n, r)
<1>1. r \in Nat \ {0}
  BY Powers
<1>2. d \in [1..n -> Nat]
  BY <1>1
<1>3. PICK s : Sums(s, d, n, r) /\ x = s[n]
  BY <1>1, <1>2, PositionalSums
<1>4. x \in Nat /\ x < Weight(b, n)
  BY <1>1, <1>3, SumsBelow
<1>5. ASSUME NEW i \in 1..n
      PROVE  d[i] = (x \div Weight(b, n - i)) % r
  <2>1. s[i] = x \div Weight(b, n - i)
    BY <1>3, SumsAreQuotients
  <2>2. s[i] = s[i - 1] * r + d[i] /\ s[i - 1] \in Nat /\ s[i] \in Nat
    BY <1>3 DEF Sums
  <2>3. d[i] \in 0..(r - 1)
    OBVIOUS
  <2> HIDE DEF r, x
  <2>4. d[i] = s[i] % r
    BY <1>1, <2>2, <2>3, Quotient
  <2>5. QED
    BY <2>1, <2>4
<1>6. QED
  BY <1>4, <1>5

(* The digits a number is divided into write that number.                  *)
LEMMA WrittenBy ==
  ASSUME NEW n \in Nat, NEW b \in Nat, NEW x \in Nat, x < Weight(b, n),
         NEW d, d = [i \in 1..n |-> (x \div Weight(b, n - i)) % Pow2[b]]
  PROVE  /\ d \in [1..n -> 0..(Pow2[b] - 1)]
         /\ Positional(d, n, Pow2[b]) = x
<1> DEFINE r == Pow2[b]
           Q(i) == x \div Weight(b, n - i)
<1>1. r \in Nat \ {0}
  BY Powers
<1>2. ASSUME NEW i \in 0..n PROVE Q(i) \in Nat
  <2>1. n - i \in Nat
    OBVIOUS
  <2>2. Weight(b, n - i) \in Nat \ {0}
    BY <2>1, Weights
  <2>3. QED
    BY <2>2, Division
<1>3. \A i \in 1..n : d[i] = Q(i) % r
  OBVIOUS
<1> HIDE DEF Q, r
<1>4. ASSUME NEW i \in 1..n
      PROVE  Q(i) % r \in 0..(r - 1) /\ Q(i) = (Q(i) \div r) * r + (Q(i) % r)
  <2>1. Q(i) \in Nat
    BY <1>2
  <2>2. QED
    BY <1>1, <2>1, Division
<1>5. d \in [1..n -> 0..(r - 1)]
  BY <1>3, <1>4
<1>6. ASSUME NEW i \in 1..n PROVE Q(i - 1) = Q(i) \div r
  <2> DEFINE w == Weight(b, n - i)
  <2>1. n - (i - 1) = (n - i) + 1 /\ n - i \in Nat
    OBVIOUS
  <2>2. Weight(b, n - (i - 1)) = w * r /\ w \in Nat \ {0}
    <3> DEFINE k == n - i
    <3>1. k \in Nat
      OBVIOUS
    <3>2. w = Weight(b, k) /\ Weight(b, n - (i - 1)) = Weight(b, k + 1)
      BY <2>1
    <3> HIDE DEF k
    <3>3. QED
      BY <3>1, <3>2, Weights DEF r
  <2>3. Q(i) = x \div w /\ Q(i - 1) = x \div (w * r)
    BY <2>2 DEF Q
  <2> HIDE DEF w
  <2>4. (x \div w) \div r = x \div (w * r)
    BY ONLY x \in Nat, <1>1, <2>2, DivisionTwice
  <2>5. QED
    BY <2>3, <2>4
<1>7. d \in [1..n -> Nat]
  BY <1>1, <1>5
<1>8. PICK s : Sums(s, d, n, r) /\ Positional(d, n, r) = s[n]
  BY <1>1, <1>7, PositionalSums
<1> DEFINE S == {i \in 0..n : s[i] = Q(i)}
<1>9. 0 \in S
  <2>1. s[0] = 0 /\ n - 0 = n
    BY <1>8 DEF Sums
  <2>2. x \div Weight(b, n) = 0
    <3> DEFINE w == Weight(b, n)
    <3>1. w \in Nat \ {0} /\ x < w
      BY Weights
    <3> HIDE DEF w
    <3>2. x \div w = 0
      BY ONLY x \in Nat, <3>1, Quotient
    <3>3. QED
      BY <3>2 DEF w
  <2>3. QED
    BY <2>1, <2>2 DEF Q
<1>10. ASSUME NEW i \in 0..(n - 1), i \in S PROVE i + 1 \in S
  <2>1. s[i + 1] = s[i] * r + d[i + 1] /\ i + 1 \in 1..n /\ (i + 1) - 1 = i
    BY <1>8 DEF Sums
  <2>2. s[i] = Q(i + 1) \div r /\ d[i + 1] = Q(i + 1) % r
    BY <1>3, <1>6, <1>10, <2>1
  <2>3. s[i + 1] = Q(i + 1)
    BY <1>4, <2>1, <2>2
  <2>4. QED
    BY <2>3
<1>11. n \in S
  <2> HIDE DEF S
  <2>1. QED
    BY <1>9, <1>10, Induction
<1>12. Q(n) = x
  <2>1. n - n = 0 /\ x \div 1 = x
    OBVIOUS
  <2>2. QED
    BY <2>1, Weights DEF Q
<1>13. QED
  BY <1>5, <1>8, <1>11, <1>12 DEF r
-----------------------------------------------------------------------------
(* Bits: their type, and those of a number without its last bits.          *)
LEMMA BitType ==
  ASSUME NEW x \in Nat, NEW m \in Nat
  PROVE  Bit(x, m) \in {0, 1}
<1>1. Pow2[m] \in Nat \ {0}
  BY Powers
<1>2. x \div Pow2[m] \in Nat
  BY <1>1, Division
<1>3. QED
  BY <1>2 DEF Bit

(* Dividing by a power of two drops the bits below it.                     *)
LEMMA HigherBits ==
  ASSUME NEW x \in Nat, NEW k \in Nat, NEW m \in Nat
  PROVE  Bit(x, k + m) = Bit(x \div Pow2[k], m)
<1>1. Pow2[k] \in Nat \ {0} /\ Pow2[m] \in Nat \ {0}
  BY Powers
<1>2. Pow2[k + m] = Pow2[k] * Pow2[m]
  BY PowerSum
<1>3. (x \div Pow2[k]) \div Pow2[m] = x \div (Pow2[k] * Pow2[m])
  BY ONLY x \in Nat, <1>1, DivisionTwice
<1>4. QED
  BY <1>2, <1>3 DEF Bit

(* Adding a multiple of a higher power does not change a bit.              *)
LEMMA LowerBits ==
  ASSUME NEW z \in Nat, NEW q \in Nat, NEW k \in Nat, NEW m \in 0..(k - 1)
  PROVE  Bit(q * Pow2[k] + z, m) = Bit(z, m)
<1> DEFINE t == Pow2[m]
           p == Pow2[k - m - 1]
           y == q * Pow2[k] + z
<1>1. k - m - 1 \in Nat /\ m \in Nat /\ m + 1 \in Nat
      /\ (m + 1) + (k - m - 1) = k
  OBVIOUS
<1>2. t \in Nat \ {0} /\ p \in Nat /\ Pow2[m + 1] = 2 * t
  BY <1>1, Powers
<1>3. Pow2[k] = (2 * t) * p
  BY <1>1, <1>2, PowerSum
<1> DEFINE zq == z \div t
           zr == z % t
<1>4. zq \in Nat /\ zr \in 0..(t - 1) /\ z = zq * t + zr
  BY <1>2, Division
<1> HIDE DEF t, p, zq, zr
<1>5. y = (2 * (q * p) + zq) * t + zr
  BY <1>2, <1>3, <1>4
<1>6. q * p \in Nat
  BY <1>2
<1>7. 2 * (q * p) + zq \in Nat
  BY <1>4, <1>6
<1>8. y \div t = 2 * (q * p) + zq
  <2>1. y \in Nat
    <3>1. (2 * (q * p) + zq) * t \in Nat
      BY ONLY <1>2, <1>7
    <3>2. QED
      BY <1>4, <1>5, <3>1
  <2> HIDE DEF y
  <2>2. QED
    BY ONLY <1>2, <1>4, <1>5, <1>7, <2>1, Quotient
<1>9. (2 * (q * p) + zq) % 2 = zq % 2
  BY <1>4, <1>6
<1>10. QED
  BY <1>8, <1>9 DEF Bit, t, zq

(* A bit of a number is a bit of one of its digits.                        *)
LEMMA BitsOfDigits ==
  ASSUME NEW n \in Nat, NEW b \in Nat, NEW d \in [1..n -> 0..(Pow2[b] - 1)],
         NEW i \in 1..n, NEW t \in 0..(b - 1)
  PROVE  Bit(Positional(d, n, Pow2[b]), b * (n - i) + t) = Bit(d[i], t)
<1> DEFINE x == Positional(d, n, Pow2[b])
           k == b * (n - i)
           y == x \div Pow2[k]
<1>1. x \in Nat /\ d[i] = (x \div Pow2[k]) % Pow2[b]
  BY DigitsOf DEF Weight
<1>2. k \in Nat /\ t \in Nat
  OBVIOUS
<1> HIDE DEF x, k
<1>3. Bit(x, k + t) = Bit(y, t)
  BY <1>1, <1>2, HigherBits
<1>4. y \in Nat
  <2>1. Pow2[k] \in Nat \ {0}
    BY <1>2, Powers
  <2>2. QED
    BY <1>1, <2>1, Division
<1> DEFINE r == Pow2[b]
           q == y \div r
<1>5. d[i] = y % r
  BY <1>1
<1> HIDE DEF y
<1>6. q \in Nat /\ y = q * Pow2[b] + d[i] /\ d[i] \in Nat
  <2>1. r \in Nat \ {0}
    BY Powers
  <2> HIDE DEF r
  <2>2. /\ y \div r \in Nat /\ y % r \in 0..(r - 1)
        /\ y = (y \div r) * r + (y % r)
    BY ONLY <1>4, <2>1, Division
  <2>3. QED
    BY <1>5, <2>2 DEF r
<1> HIDE DEF q
<1>7. Bit(y, t) = Bit(d[i], t)
  BY <1>6, LowerBits
<1>8. QED
  BY <1>3, <1>7 DEF x, k

(* Digits of one bit.                                                      *)
LEMMA BinaryWeights ==
  Pow2[1] = 2 /\ \A k \in Nat : Weight(1, k) = Pow2[k]
<1>1. Pow2[0 + 1] = 2 * Pow2[0] /\ 0 + 1 = 1
  BY Powers
<1>2. \A k \in Nat : 1 * k = k
  OBVIOUS
<1>3. QED
  BY <1>1, <1>2, Powers DEF Weight

(* Numbers of n bits that agree in each bit are equal.                     *)
LEMMA SameBits ==
  ASSUME NEW n \in Nat, NEW x \in Nat, NEW y \in Nat,
         x < Pow2[n], y < Pow2[n],
         \A m \in 0..(n - 1) : Bit(x, m) = Bit(y, m)
  PROVE  x = y
<1> DEFINE D(z) == [i \in 1..n |-> (z \div Weight(1, n - i)) % Pow2[1]]
<1>1. ASSUME NEW i \in 1..n
      PROVE  (x \div Weight(1, n - i)) % Pow2[1]
               = (y \div Weight(1, n - i)) % Pow2[1]
  <2>1. n - i \in Nat /\ n - i \in 0..(n - 1)
    OBVIOUS
  <2>2. Weight(1, n - i) = Pow2[n - i] /\ Pow2[1] = 2
    BY <2>1, BinaryWeights
  <2>3. Bit(x, n - i) = Bit(y, n - i)
    BY <2>1
  <2>4. QED
    BY <2>2, <2>3 DEF Bit
<1>2. D(x) = D(y)
  BY <1>1
<1>3. x < Weight(1, n) /\ y < Weight(1, n)
  BY BinaryWeights
<1>4. Positional(D(x), n, Pow2[1]) = x
  BY <1>3, WrittenBy
<1>5. Positional(D(y), n, Pow2[1]) = y
  BY <1>3, WrittenBy
<1>6. QED
  BY <1>2, <1>4, <1>5

(* & of two numbers, bit by bit.                                           *)
LEMMA BitAndBits ==
  ASSUME NEW n \in Nat, NEW x \in Nat, NEW y \in Nat
  PROVE  /\ BitAnd(x, y, n) \in Nat /\ BitAnd(x, y, n) < Pow2[n]
         /\ \A m \in 0..(n - 1) :
              Bit(BitAnd(x, y, n), m) = Bit(x, m) * Bit(y, m)
<1> DEFINE d == [i \in 1..n |-> Bit(x, n - i) * Bit(y, n - i)]
           z == Positional(d, n, Pow2[1])
<1>1. z = BitAnd(x, y, n)
  BY BinaryWeights DEF BitAnd
<1>2. ASSUME NEW i \in 1..n
      PROVE  Bit(x, n - i) * Bit(y, n - i) \in 0..(Pow2[1] - 1)
  <2>1. n - i \in Nat
    OBVIOUS
  <2>2. Bit(x, n - i) \in {0, 1} /\ Bit(y, n - i) \in {0, 1}
    BY <2>1, BitType
  <2>3. QED
    BY <2>2, BinaryWeights
<1>3. d \in [1..n -> 0..(Pow2[1] - 1)]
  BY <1>2
<1>4. /\ z \in Nat /\ z < Weight(1, n)
      /\ \A i \in 1..n : d[i] = (z \div Weight(1, n - i)) % Pow2[1]
  <2> HIDE DEF d
  <2>1. QED
    BY <1>3, DigitsOf
<1>5. z < Pow2[n]
  BY <1>4, BinaryWeights
<1>6. ASSUME NEW m \in 0..(n - 1)
      PROVE  Bit(z, m) = Bit(x, m) * Bit(y, m)
  <2>1. n - m \in 1..n /\ n - (n - m) = m /\ m \in Nat
    OBVIOUS
  <2>2. d[n - m] = Bit(x, m) * Bit(y, m)
    BY <2>1
  <2> HIDE DEF d, z
  <2>3. d[n - m] = (z \div Pow2[m]) % 2
    BY <1>4, <2>1, BinaryWeights
  <2>4. QED
    BY <2>2, <2>3 DEF Bit
<1>7. QED
  BY <1>1, <1>4, <1>5, <1>6

(* The bits of q zeros behind n - q ones.                                  *)
LEMMA OnesBits ==
  ASSUME NEW n \in Nat, NEW q \in 0..n
  PROVE  /\ Pow2[n] - Pow2[q] \in Nat /\ Pow2[n] - Pow2[q] < Pow2[n]
         /\ \A m \in 0..(n - 1) :
              Bit(Pow2[n] - Pow2[q], m) = IF m >= q THEN 1 ELSE 0
<1> DEFINE x == Pow2[n] - Pow2[q]
<1>1. x \in Nat /\ x < Pow2[n]
  <2> DEFINE u == Pow2[q]
             v == Pow2[n - q]
  <2>1. n - q \in Nat /\ q + (n - q) = n /\ q \in Nat
    OBVIOUS
  <2>2. u \in Nat \ {0} /\ v \in Nat \ {0} /\ Pow2[n] = u * v
    BY <2>1, Powers, PowerSum
  <2> HIDE DEF u, v
  <2>3. u <= u * v /\ u * v \in Nat
    BY ONLY <2>2
  <2>4. QED
    BY <2>2, <2>3 DEF u
<1>2. ASSUME NEW m \in 0..(n - 1), m >= q PROVE Bit(x, m) = 1
  <2> DEFINE u == Pow2[m]
             v == Pow2[n - m - 1]
             w == Pow2[q]
             e == Pow2[m - q]
  <2>1. /\ m \in Nat /\ q \in Nat /\ m - q \in Nat /\ q + (m - q) = m
        /\ n - m - 1 \in Nat /\ (m + 1) + (n - m - 1) = n /\ m + 1 \in Nat
    BY <1>2
  <2>2. /\ u \in Nat \ {0} /\ v \in Nat \ {0}
        /\ w \in Nat \ {0} /\ e \in Nat \ {0}
        /\ Pow2[m + 1] = 2 * u
    BY <2>1, Powers
  <2>3. Pow2[n] = (2 * u) * v
    BY <2>1, <2>2, PowerSum
  <2>4. u = w * e
    BY <2>1, PowerSum
  <2>5. x \in Nat /\ x = (2 * u) * v - w
    BY <1>1, <2>3
  <2> HIDE DEF u, v, w, e, x
  <2>6. x = (2 * v - 1) * u + (u - w)
    BY ONLY <2>2, <2>5
  <2>7. u - w \in 0..(u - 1) /\ 2 * v - 1 \in Nat
    <3>1. w <= w * e
      BY ONLY <2>2
    <3>2. QED
      BY <2>2, <2>4, <3>1
  <2>8. x \div u = 2 * v - 1
    BY ONLY <2>2, <2>5, <2>6, <2>7, Quotient
  <2>9. (2 * v - 1) % 2 = 1
    BY <2>2
  <2>10. QED
    BY <2>8, <2>9 DEF Bit, u
<1>3. ASSUME NEW m \in 0..(n - 1), m < q PROVE Bit(x, m) = 0
  <2> DEFINE u == Pow2[m]
             v == Pow2[n - m - 1]
             e == Pow2[q - m - 1]
  <2>1. /\ m \in Nat /\ q - m - 1 \in Nat /\ (m + 1) + (q - m - 1) = q
        /\ n - m - 1 \in Nat /\ (m + 1) + (n - m - 1) = n /\ m + 1 \in Nat
    BY <1>3
  <2>2. /\ u \in Nat \ {0} /\ v \in Nat \ {0} /\ e \in Nat \ {0}
        /\ Pow2[m + 1] = 2 * u
    BY <2>1, Powers
  <2>3. Pow2[n] = (2 * u) * v
    BY <2>1, <2>2, PowerSum
  <2>4. Pow2[q] = (2 * u) * e
    BY <2>1, <2>2, PowerSum
  <2>5. x \in Nat /\ x = (2 * u) * v - (2 * u) * e
    BY <1>1, <2>3, <2>4
  <2> HIDE DEF u, v, e, x
  <2>6. x = (2 * (v - e)) * u + 0
    BY ONLY <2>2, <2>5
  <2>7. v - e \in Nat
    BY ONLY <2>2, <2>5, <2>6
  <2>8. x \div u = 2 * (v - e)
    <3>1. 2 * (v - e) \in Nat /\ 0 \in 0..(u - 1)
      BY <2>2, <2>7
    <3>2. QED
      BY ONLY <2>2, <2>5, <2>6, <3>1, Quotient
  <2>9. (2 * (v - e)) % 2 = 0
    BY <2>7
  <2>10. QED
    BY <2>8, <2>9 DEF Bit, u
<1>4. QED
  BY <1>1, <1>2, <1>3

(* A number with its last q bits cleared.                                  *)
LEMMA ClearedBits ==
  ASSUME NEW x \in Nat, NEW q \in Nat, NEW m \in Nat
  PROVE  Bit((x \div Pow2[q]) * Pow2[q], m)
           = IF m >= q THEN Bit(x, m) ELSE 0
<1> DEFINE u == Pow2[q]
           c == x \div u
<1>1. u \in Nat \ {0}
  BY Powers
<1>2. c \in Nat
  BY <1>1, Division
<1>3. c * u \in Nat
  <2> HIDE DEF c, u
  <2>1. QED
    BY ONLY <1>1, <1>2
<1>4. CASE m >= q
  <2>1. m - q \in Nat /\ q + (m - q) = m
    BY <1>4
  <2>2. Bit(x, m) = Bit(c, m - q)
    BY <2>1, HigherBits
  <2>3. Bit(c * u, q + (m - q)) = Bit((c * u) \div Pow2[q], m - q)
    BY <1>3, <2>1, HigherBits
  <2> HIDE DEF c
  <2>4. (c * u) \div u = c
    <3> HIDE DEF u
    <3>1. c * u = c * u + 0 /\ 0 \in 0..(u - 1)
      BY ONLY <1>1, <1>2
    <3>2. QED
      BY ONLY <1>1, <1>2, <1>3, <3>1, Quotient
  <2>5. QED
    BY <1>4, <2>1, <2>2, <2>3, <2>4 DEF c
<1>5. CASE m < q
  <2>1. m \in 0..(q - 1)
    BY <1>5
  <2>2. Bit(c * Pow2[q] + 0, m) = Bit(0, m)
    <3> HIDE DEF c
    <3>1. QED
      BY <1>2, <2>1, LowerBits
  <2>3. Bit(0, m) = 0
    <3>1. Pow2[m] \in Nat \ {0}
      BY Powers
    <3>2. 0 \div Pow2[m] = 0
      BY <3>1
    <3>3. QED
      BY <3>2 DEF Bit
  <2>4. c * u + 0 = c * u
    BY <1>3
  <2>5. QED
    BY <1>5, <2>2, <2>3, <2>4
<1>6. QED
  BY <1>4, <1>5
-----------------------------------------------------------------------------
(* The sizes of addresses, and what an address is.                         *)
LEMMA Sizes ==
  ASSUME NEW v \in {4, 6}
  PROVE  /\ Digits(v) \in Nat \ {0} /\ DigitBits(v) \in Nat \ {0}
         /\ Width(v) \in Nat \ {0}
         /\ Radix(v) = Pow2[DigitBits(v)] /\ Radix(v) \in Nat \ {0}
         /\ Weight(DigitBits(v), Digits(v)) = Pow2[Width(v)]
<1>1. Digits(v) \in Nat \ {0} /\ DigitBits(v) \in Nat \ {0}
  BY WidthsAssumption DEF Digits, DigitBits
<1> DEFINE n == Digits(v)
           b == DigitBits(v)
<1> HIDE DEF n, b
<1>2. n * b \in Nat \ {0} /\ n * b = b * n
  BY <1>1 DEF n, b
<1>3. Width(v) = n * b
  BY DEF Width, n, b
<1>4. Width(v) \in Nat \ {0} /\ Weight(b, n) = Pow2[Width(v)]
  BY <1>2, <1>3 DEF Weight
<1>5. Radix(v) = Pow2[DigitBits(v)]
  BY DEF Radix
<1>6. Radix(v) \in Nat \ {0}
  BY <1>1, <1>5, Powers
<1>7. QED
  BY <1>1, <1>4, <1>5, <1>6 DEF n, b

(* An address and its number.                                              *)
LEMMA AddressIs ==
  ASSUME NEW v \in {4, 6}, NEW a \in Addresses(v)
  PROVE  /\ a.version = v
         /\ a.value \in [1..Digits(v) -> 0..(Pow2[DigitBits(v)] - 1)]
         /\ a = [version |-> v, value |-> a.value]
         /\ Number(a) = Positional(a.value, Digits(v), Pow2[DigitBits(v)])
         /\ Number(a) \in Nat /\ Number(a) < Pow2[Width(v)]
<1>1. /\ a.version = v
      /\ a.value \in [1..Digits(v) -> 0..(Pow2[DigitBits(v)] - 1)]
      /\ a = [version |-> v, value |-> a.value]
  BY DEF Addresses, Radix
<1>2. Number(a) = Positional(a.value, Digits(v), Pow2[DigitBits(v)])
  BY <1>1 DEF Number, Radix
<1>3. Number(a) \in Nat /\ Number(a) < Pow2[Width(v)]
  BY <1>1, <1>2, Sizes, DigitsOf
<1>4. QED
  BY <1>1, <1>2, <1>3

(* The address of a number.                                                *)
LEMMA AddressOf ==
  ASSUME NEW v \in {4, 6}, NEW x \in Nat, x < Pow2[Width(v)],
         NEW a,
         a = [version |-> v,
              value |-> [i \in 1..Digits(v) |->
                           (x \div Weight(DigitBits(v), Digits(v) - i))
                             % Pow2[DigitBits(v)]]]
  PROVE  a \in Addresses(v) /\ Number(a) = x
<1> DEFINE n == Digits(v)
           b == DigitBits(v)
           d == [i \in 1..n |-> (x \div Weight(b, n - i)) % Pow2[b]]
<1>1. n \in Nat /\ b \in Nat /\ x < Weight(b, n)
  BY Sizes
<1>2. d \in [1..n -> 0..(Pow2[b] - 1)] /\ Positional(d, n, Pow2[b]) = x
  <2> HIDE DEF n, b
  <2>1. QED
    BY <1>1, WrittenBy
<1>3. a = [version |-> v, value |-> d]
  OBVIOUS
<1> HIDE DEF d
<1>4. a \in Addresses(v)
  BY <1>2, <1>3 DEF Addresses, Radix
<1>5. a.version = v /\ a.value = d
  BY <1>3
<1>6. Number(a) = Positional(d, n, Pow2[b])
  BY <1>5 DEF Number, Radix
<1>7. QED
  BY <1>2, <1>4, <1>6

(* Addresses of one version with the same number are equal.                *)
LEMMA SameNumber ==
  ASSUME NEW v \in {4, 6}, NEW a \in Addresses(v), NEW c \in Addresses(v),
         Number(a) = Number(c)
  PROVE  a = c
<1> DEFINE n == Digits(v)
           b == DigitBits(v)
<1>1. n \in Nat /\ b \in Nat
  BY Sizes
<1>2. /\ a.value \in [1..n -> 0..(Pow2[b] - 1)]
      /\ c.value \in [1..n -> 0..(Pow2[b] - 1)]
      /\ a = [version |-> v, value |-> a.value]
      /\ c = [version |-> v, value |-> c.value]
      /\ Positional(a.value, n, Pow2[b]) = Positional(c.value, n, Pow2[b])
  BY AddressIs
<1> HIDE DEF n, b
<1> DEFINE x == Positional(a.value, n, Pow2[b])
           y == Positional(c.value, n, Pow2[b])
<1>3. \A i \in 1..n : a.value[i] = (x \div Weight(b, n - i)) % Pow2[b]
  BY <1>1, <1>2, DigitsOf
<1>4. \A i \in 1..n : c.value[i] = (y \div Weight(b, n - i)) % Pow2[b]
  BY <1>1, <1>2, DigitsOf
<1>5. a.value = c.value
  <2>1. x = y
    BY <1>2
  <2> HIDE DEF x, y
  <2>2. ASSUME NEW i \in 1..n PROVE a.value[i] = c.value[i]
    BY <1>3, <1>4, <2>1
  <2>3. /\ a.value = [i \in 1..n |-> a.value[i]]
        /\ c.value = [i \in 1..n |-> c.value[i]]
    BY <1>2
  <2>4. [i \in 1..n |-> a.value[i]] = [i \in 1..n |-> c.value[i]]
    BY ONLY <2>2
  <2>5. QED
    BY <2>3, <2>4
<1>6. QED
  BY <1>2, <1>5

(* to_uint32() is the number of an IPv4 address: a digit is shifted by the *)
(* bits of those behind it.                                                *)
LEMMA ToUint32IsNumber ==
  ASSUME NEW a \in Addresses(4)
  PROVE  ToUint32(a) = Number(a)
<1> DEFINE n == Octets
           b == OctetBits
           r == Pow2[b]
           d == a.value
           W(i) == Weight(b, n - i)
<1>1. Digits(4) = n /\ DigitBits(4) = b
  BY DEF Digits, DigitBits
<1>2. n \in Nat /\ b \in Nat
  BY WidthsAssumption
<1>3. d \in [1..n -> 0..(r - 1)] /\ Number(a) = Positional(d, n, r)
  BY <1>1, AddressIs
<1>4. r \in Nat \ {0}
  BY <1>2, Powers
<1>5. ASSUME NEW i \in 0..n PROVE W(i) \in Nat
  <2>1. n - i \in Nat
    BY <1>2
  <2>2. QED
    BY <1>2, <2>1, Weights
<1>6. ASSUME NEW i \in 1..n PROVE W(i - 1) = W(i) * r
  <2> DEFINE k == n - i
  <2>1. k \in Nat /\ n - (i - 1) = k + 1
    BY <1>2
  <2> HIDE DEF k
  <2>2. Weight(b, k + 1) = Weight(b, k) * r
    BY <1>2, <2>1, Weights
  <2>3. QED
    BY <2>1, <2>2 DEF k
<1>7. \A i \in 1..n : Pow2[OctetBits * (Octets - i)] = W(i)
  BY DEF Weight
<1>8. W(n) = 1
  <2>1. n - n = 0
    BY <1>2
  <2>2. QED
    BY <1>2, <2>1, Weights
<1>9. ToUint32(a) = LET sum[i \in 0..n] ==
                          IF i = 0 THEN 0 ELSE sum[i - 1] + d[i] * W(i)
                    IN  sum[n]
  BY DEF ToUint32, Weight
<1> HIDE DEF n, b, W, d, r
<1>10. d \in [1..n -> Nat]
  BY <1>3, <1>4
<1>11. PICK s : Sums(s, d, n, r) /\ Number(a) = s[n]
  BY <1>2, <1>3, <1>4, <1>10, PositionalSums
<1> DEFINE f == [i \in 0..n |-> s[i] * W(i)]
           sum[i \in 0..n] == IF i = 0 THEN 0 ELSE sum[i - 1] + d[i] * W(i)
<1>12. f = [i \in 0..n |-> IF i = 0 THEN 0 ELSE f[i - 1] + d[i] * W(i)]
  <2>1. f[0] = 0
    <3>1. s[0] = 0 /\ W(0) \in Nat /\ 0 \in 0..n
      BY <1>2, <1>5, <1>11 DEF Sums
    <3>2. QED
      BY <3>1
  <2>2. ASSUME NEW i \in 1..n PROVE f[i] = f[i - 1] + d[i] * W(i)
    <3>1. s[i] = s[i - 1] * r + d[i] /\ s[i - 1] \in Nat
      BY <1>2, <1>11 DEF Sums
    <3>2. d[i] \in Nat /\ W(i) \in Nat /\ W(i - 1) = W(i) * r
      BY <1>2, <1>5, <1>6, <1>10
    <3>3. s[i - 1] * (W(i) * r) + d[i] * W(i) = (s[i - 1] * r + d[i]) * W(i)
      BY ONLY <1>4, <3>1, <3>2
    <3>4. i - 1 \in 0..n /\ i \in 0..n
      BY <1>2
    <3>5. f[i] = s[i] * W(i) /\ f[i - 1] = s[i - 1] * W(i - 1)
      BY <3>4
    <3> HIDE DEF f
    <3>6. QED
      BY <3>1, <3>2, <3>3, <3>5
  <2>3. QED
    BY <1>2, <2>1, <2>2
<1>13. sum = [i \in 0..n |-> IF i = 0 THEN 0 ELSE sum[i - 1] + d[i] * W(i)]
  <2> HIDE DEF f
  <2>1. QED
    BY <1>12
<1>14. ToUint32(a) = sum[n]
  BY <1>9
<1> HIDE DEF sum
<1>15. ASSUME NEW m \in 0..n PROVE sum[m] = f[m]
  <2> DEFINE S == {i \in 0..m : sum[i] = f[i]}
  <2> HIDE DEF f
  <2>1. 0 \in S
    BY <1>2, <1>12, <1>13
  <2>2. ASSUME NEW i \in 0..(m - 1), i \in S PROVE i + 1 \in S
    <3>1. i + 1 \in 1..n /\ (i + 1) - 1 = i
      BY <1>2
    <3>2. /\ sum[i + 1] = sum[i] + d[i + 1] * W(i + 1)
          /\ f[i + 1] = f[i] + d[i + 1] * W(i + 1)
      BY <1>2, <1>12, <1>13, <3>1
    <3>3. QED
      BY <2>2, <3>2
  <2>3. m \in S
    <3> HIDE DEF S
    <3>1. QED
      BY <1>2, <2>1, <2>2, Induction
  <2>4. QED
    BY <2>3
<1>16. sum[n] = s[n] * W(n) /\ s[n] \in Nat
  BY <1>2, <1>11, <1>15 DEF Sums
<1>17. QED
  BY <1>8, <1>11, <1>14, <1>16

(* from_uint32_t() is its inverse.                                         *)
LEMMA FromUint32IsAddress ==
  ASSUME NEW x \in Nat, x < Pow2[Width(4)]
  PROVE  FromUint32(x) \in Addresses(4) /\ Number(FromUint32(x)) = x
<1>1. FromUint32(x)
        = [version |-> 4,
           value |-> [i \in 1..Digits(4) |->
                        (x \div Weight(DigitBits(4), Digits(4) - i))
                          % Pow2[DigitBits(4)]]]
  BY DEF FromUint32, Digits, DigitBits, Weight
<1>2. QED
  BY <1>1, AddressOf
-----------------------------------------------------------------------------
(* operator< of IPv6 addresses, which compares the segments from the left, *)
(* is the order of their numbers.                                          *)
LEMMA FirstDifferenceDecides ==
  ASSUME NEW n \in Nat, NEW b \in Nat,
         NEW c \in [1..n -> 0..(Pow2[b] - 1)],
         NEW d \in [1..n -> 0..(Pow2[b] - 1)],
         NEW i \in 1..n, c[i] < d[i],
         \A j \in 1..(i - 1) : c[j] = d[j]
  PROVE  Positional(c, n, Pow2[b]) < Positional(d, n, Pow2[b])
<1> DEFINE r == Pow2[b]
<1>1. r \in Nat \ {0}
  BY Powers
<1>2. c \in [1..n -> Nat] /\ d \in [1..n -> Nat]
  BY <1>1
<1>3. PICK s : Sums(s, c, n, r) /\ Positional(c, n, r) = s[n]
  BY <1>1, <1>2, PositionalSums
<1>4. PICK t : Sums(t, d, n, r) /\ Positional(d, n, r) = t[n]
  BY <1>1, <1>2, PositionalSums
<1>5. \A j \in 1..n : c[j] \in 0..(r - 1) /\ d[j] \in 0..(r - 1)
  OBVIOUS
<1> HIDE DEF r
<1>6. s[i - 1] = t[i - 1]
  <2> DEFINE S == {j \in 0..(i - 1) : s[j] = t[j]}
  <2>1. 0 \in S
    BY <1>3, <1>4 DEF Sums
  <2>2. ASSUME NEW j \in 0..((i - 1) - 1), j \in S PROVE j + 1 \in S
    <3>1. j + 1 \in 1..n /\ j + 1 \in 1..(i - 1) /\ (j + 1) - 1 = j
      OBVIOUS
    <3>2. s[j + 1] = s[j] * r + c[j + 1] /\ t[j + 1] = t[j] * r + d[j + 1]
      BY <1>3, <1>4, <3>1 DEF Sums
    <3>3. QED
      BY <2>2, <3>1, <3>2
  <2>3. i - 1 \in S
    <3>1. i - 1 \in Nat
      OBVIOUS
    <3> HIDE DEF S
    <3>2. QED
      BY <2>1, <2>2, <3>1, Induction
  <2>4. QED
    BY <2>3
<1>7. s[i] < t[i]
  <2>1. s[i] = s[i - 1] * r + c[i] /\ t[i] = t[i - 1] * r + d[i]
    BY <1>3, <1>4 DEF Sums
  <2>2. t[i - 1] * r \in Nat
    <3>1. t[i - 1] \in Nat
      BY <1>4 DEF Sums
    <3>2. QED
      BY ONLY <1>1, <3>1
  <2>3. QED
    BY <1>5, <1>6, <2>1, <2>2
<1> DEFINE S == {k \in 0..(n - i) : s[i + k] < t[i + k]}
<1>8. 0 \in S
  BY <1>7
<1>9. ASSUME NEW k \in 0..(n - i - 1), k \in S PROVE k + 1 \in S
  <2> DEFINE j == i + k
  <2>1. j + 1 \in 1..n /\ j \in 0..n /\ (j + 1) - 1 = j /\ i + (k + 1) = j + 1
    OBVIOUS
  <2>2. s[j] < t[j]
    BY <1>9
  <2> HIDE DEF j
  <2>3. s[j + 1] = s[j] * r + c[j + 1] /\ t[j + 1] = t[j] * r + d[j + 1]
        /\ s[j] \in Nat /\ t[j] \in Nat
    BY <1>3, <1>4, <2>1 DEF Sums
  <2>4. s[j] * r + r <= t[j] * r
    <3>1. s[j] \in Nat /\ t[j] \in Nat /\ r \in Nat
      BY <1>1, <2>3
    <3>2. QED
      BY ONLY <2>2, <3>1, ProductMonotonic
  <2>5. s[j] * r \in Nat /\ t[j] * r \in Nat
    <3>1. s[j] \in Nat /\ t[j] \in Nat
      BY <2>3
    <3>2. QED
      BY ONLY <1>1, <3>1
  <2>6. c[j + 1] \in 0..(r - 1) /\ d[j + 1] \in 0..(r - 1)
    BY <1>5, <2>1
  <2>7. s[j] * r + c[j + 1] < t[j] * r + d[j + 1]
    BY ONLY <1>1, <2>4, <2>5, <2>6
  <2>8. s[j + 1] < t[j + 1]
    BY <2>3, <2>7
  <2>9. s[i + (k + 1)] < t[i + (k + 1)]
    BY <2>1, <2>8
  <2>10. k + 1 \in 0..(n - i)
    OBVIOUS
  <2>11. QED
    BY ONLY <2>9, <2>10
<1>10. n - i \in S
  <2>1. n - i \in Nat
    OBVIOUS
  <2> HIDE DEF S
  <2>2. QED
    BY <1>8, <1>9, <2>1, Induction
<1>11. i + (n - i) = n
  OBVIOUS
<1>12. s[n] < t[n]
  BY <1>10, <1>11
<1>13. QED
  BY <1>3, <1>4, <1>12 DEF r

(* Of either version, an earlier address has a lower number.               *)
LEMMA PrecedesIsLess ==
  ASSUME NEW v \in {4, 6}, NEW a \in Addresses(v), NEW c \in Addresses(v)
  PROVE  Precedes(a, c) <=> Number(a) < Number(c)
<1>1. CASE v = 4
  BY <1>1, AddressIs, ToUint32IsNumber DEF Precedes, Precedes4
<1>2. CASE v = 6
  <2> DEFINE n == Segments
             b == SegmentBits
  <2>1. Digits(6) = n /\ DigitBits(6) = b
    BY DEF Digits, DigitBits
  <2>2. n \in Nat /\ b \in Nat
    BY WidthsAssumption
  <2>3. /\ a.value \in [1..n -> 0..(Pow2[b] - 1)]
        /\ c.value \in [1..n -> 0..(Pow2[b] - 1)]
        /\ Number(a) = Positional(a.value, n, Pow2[b])
        /\ Number(c) = Positional(c.value, n, Pow2[b])
        /\ Number(a) \in Nat /\ Number(c) \in Nat
        /\ a = [version |-> v, value |-> a.value]
        /\ c = [version |-> v, value |-> c.value]
        /\ a.version = 6
    BY <1>2, <2>1, AddressIs
  <2>4. Precedes(a, c) <=> Precedes6(a, c)
    BY <2>3 DEF Precedes
  <2>5. ASSUME Precedes6(a, c) PROVE Number(a) < Number(c)
    <3>1. PICK i \in 1..n : /\ a.value[i] < c.value[i]
                            /\ \A j \in 1..(i - 1) : a.value[j] = c.value[j]
      BY <2>5 DEF Precedes6
    <3> HIDE DEF n, b
    <3>2. QED
      BY <2>2, <2>3, <3>1, FirstDifferenceDecides
  <2>6. ASSUME Number(a) < Number(c) PROVE Precedes6(a, c)
    <3> DEFINE S == {i \in 1..n : a.value[i] # c.value[i]}
    <3>1. S # {}
      <4>1. a.value # c.value
        BY <2>3, <2>6
      <4>2. /\ a.value = [i \in 1..n |-> a.value[i]]
            /\ c.value = [i \in 1..n |-> c.value[i]]
        BY <2>3
      <4>3. ASSUME \A i \in 1..n : a.value[i] = c.value[i]
            PROVE  [i \in 1..n |-> a.value[i]] = [i \in 1..n |-> c.value[i]]
        BY ONLY <4>3
      <4>4. QED
        BY <4>1, <4>2, <4>3
    <3>2. PICK i \in S : \A j \in S : i <= j
      <4>1. S \in SUBSET Nat
        BY <2>2
      <4> HIDE DEF S
      <4>2. QED
        BY <3>1, <4>1, LeastNumber
    <3>3. i \in 1..n /\ a.value[i] # c.value[i]
      OBVIOUS
    <3>4. ASSUME NEW j \in 1..(i - 1) PROVE a.value[j] = c.value[j]
      <4>1. j \in 1..n /\ ~(i <= j)
        BY <2>2, <3>3
      <4>2. QED
        BY <3>2, <4>1
    <3>5. a.value[i] \in Nat /\ c.value[i] \in Nat
      <4>1. Pow2[b] \in Nat
        BY <2>2, Powers
      <4>2. /\ a.value[i] \in 0..(Pow2[b] - 1)
            /\ c.value[i] \in 0..(Pow2[b] - 1)
        BY <2>3, <3>3
      <4>3. QED
        BY ONLY <4>1, <4>2
    <3>6. CASE a.value[i] < c.value[i]
      BY <3>3, <3>4, <3>6 DEF Precedes6
    <3>7. CASE c.value[i] < a.value[i]
      <4> HIDE DEF n, b, S
      <4>1. \A j \in 1..(i - 1) : c.value[j] = a.value[j]
        BY <3>4
      <4>2. Number(c) < Number(a)
        BY <2>2, <2>3, <3>3, <3>7, <4>1, FirstDifferenceDecides
      <4>3. QED
        BY <2>3, <2>6, <4>2
    <3>8. QED
      BY <3>3, <3>5, <3>6, <3>7
  <2>7. QED
    BY <2>4, <2>5, <2>6
<1>3. QED
  BY <1>1, <1>2

-----------------------------------------------------------------------------
(* The loop of calculate_new_address() over the segments adds an index to  *)
(* the number of an IPv6 address: the sum is that of the segments and what *)
(* is left of the index, whose weight is that of a further segment.        *)
Carried(d, rest, e, n, r) ==
  \A i \in 1..n : d[i] + rest[i] = e[i] + r * rest[i - 1]

(* What is carried makes up for what a segment loses.                      *)
LEMMA CarriesAdd ==
  ASSUME NEW n \in Nat, NEW r \in Nat \ {0},
         NEW d \in [1..n -> Nat], NEW rest \in [0..n -> Nat], NEW e,
         \A i \in 1..n :
           rest[i - 1] = rest[i] \div r + (d[i] + (rest[i] % r)) \div r,
         \A i \in 1..n : e[i] = (d[i] + (rest[i] % r)) % r
  PROVE  (\A i \in 1..n : e[i] \in 0..(r - 1)) /\ Carried(d, rest, e, n, r)
<1>1. ASSUME NEW i \in 1..n
      PROVE  /\ e[i] \in 0..(r - 1)
             /\ d[i] + rest[i] = e[i] + r * rest[i - 1]
  <2> DEFINE x == rest[i]
             m == x % r
             y == d[i] + m
  <2>1. x \in Nat /\ d[i] \in Nat
    OBVIOUS
  <2>2. e[i] = y % r /\ rest[i - 1] = x \div r + y \div r
    OBVIOUS
  <2> HIDE DEF x
  <2>3. x \div r \in Nat /\ m \in 0..(r - 1) /\ x = (x \div r) * r + m
    BY <2>1, Division
  <2> HIDE DEF m
  <2>4. y \in Nat
    BY ONLY r \in Nat \ {0}, <2>1, <2>3
  <2> DEFINE z == y
  <2>5. z = d[i] + m /\ z \in Nat
    BY <2>4
  <2> HIDE DEF y, z
  <2>6. z \div r \in Nat /\ z % r \in 0..(r - 1)
        /\ z = (z \div r) * r + (z % r)
    BY <2>5, Division
  <2> DEFINE qx == x \div r
             qz == z \div r
             f  == z % r
  <2>7. f \in 0..(r - 1) /\ e[i] = f /\ rest[i - 1] = qx + qz
    BY <2>2, <2>6 DEF z
  <2>8. x = qx * r + m /\ d[i] + m = qz * r + f
        /\ qx \in Nat /\ qz \in Nat /\ m \in Nat /\ d[i] \in Nat
    BY <2>1, <2>3, <2>5, <2>6
  <2> HIDE DEF qx, qz, f
  <2>9. d[i] + x = f + r * (qx + qz)
    <3>1. r \in Nat /\ f \in Nat
      BY <2>7
    <3>2. qx \in Nat /\ qz \in Nat
      BY <2>8
    <3>3. /\ r * (qx + qz) = qx * r + qz * r
          /\ qx * r \in Nat /\ qz * r \in Nat
      BY ONLY <3>1, <3>2
    <3> DEFINE g == qx * r
               h == qz * r
               o == r * (qx + qz)
    <3>4. /\ x = g + m /\ d[i] + m = h + f /\ o = g + h
          /\ g \in Nat /\ h \in Nat /\ m \in Nat /\ d[i] \in Nat
          /\ f \in Nat
      BY <2>8, <3>1, <3>3
    <3> HIDE DEF g, h, o
    <3>5. d[i] + x = f + o
      BY ONLY <3>4
    <3>6. QED
      BY <3>5 DEF o
  <2>10. QED
    BY <2>7, <2>9 DEF x
<1>2. QED
  BY <1>1 DEF Carried

(* The new number and what is left make up the old number and the index.   *)
LEMMA CarriesSum ==
  ASSUME NEW n \in Nat, NEW b \in Nat,
         NEW d \in [1..n -> 0..(Pow2[b] - 1)],
         NEW e \in [1..n -> 0..(Pow2[b] - 1)],
         NEW rest \in [0..n -> Nat],
         Carried(d, rest, e, n, Pow2[b])
  PROVE  Positional(d, n, Pow2[b]) + rest[n]
           = Positional(e, n, Pow2[b]) + Weight(b, n) * rest[0]
<1> DEFINE r == Pow2[b]
<1>1. r \in Nat \ {0}
  BY Powers
<1>2. d \in [1..n -> Nat] /\ e \in [1..n -> Nat]
  <2>1. 0..(r - 1) \subseteq Nat
    BY <1>1
  <2>2. d \in [1..n -> 0..(r - 1)] /\ e \in [1..n -> 0..(r - 1)]
    OBVIOUS
  <2>3. QED
    BY ONLY <2>1, <2>2
<1>3. PICK s : Sums(s, d, n, r) /\ Positional(d, n, r) = s[n]
  BY <1>1, <1>2, PositionalSums
<1>4. PICK t : Sums(t, e, n, r) /\ Positional(e, n, r) = t[n]
  BY <1>1, <1>2, PositionalSums
<1>5. \A i \in 1..n : d[i] + rest[i] = e[i] + r * rest[i - 1]
  BY DEF Carried
<1>6. \A i \in 0..n : rest[i] \in Nat /\ s[i] \in Nat /\ t[i] \in Nat
  BY <1>3, <1>4 DEF Sums
<1>7. ASSUME NEW i \in 0..n PROVE Weight(b, i) \in Nat
  <2>1. i \in Nat
    OBVIOUS
  <2>2. QED
    BY <2>1, Weights
<1> DEFINE S == {i \in 0..n : s[i] + rest[i] = t[i] + Weight(b, i) * rest[0]}
<1>8. 0 \in S
  <2>1. s[0] = 0 /\ t[0] = 0 /\ rest[0] \in Nat /\ Weight(b, 0) = 1
    BY <1>3, <1>4, <1>6, Weights DEF Sums
  <2>2. QED
    BY <2>1
<1>9. ASSUME NEW i \in 0..(n - 1), i \in S PROVE i + 1 \in S
  <2> DEFINE j == i + 1
  <2>1. j \in 1..n /\ j - 1 = i /\ i \in 0..n /\ i \in Nat /\ j \in 0..n
    OBVIOUS
  <2>2. Weight(b, i + 1) = Weight(b, i) * Pow2[b]
    BY <2>1, Weights
  <2>3. s[j] = s[i] * r + d[j] /\ t[j] = t[i] * r + e[j]
    BY <1>3, <1>4, <2>1 DEF Sums
  <2>4. d[j] + rest[j] = e[j] + r * rest[i]
    BY <1>5, <2>1
  <2>5. s[i] + rest[i] = t[i] + Weight(b, i) * rest[0]
    BY <1>9
  <2>6. /\ s[i] \in Nat /\ t[i] \in Nat /\ rest[i] \in Nat
        /\ rest[j] \in Nat /\ rest[0] \in Nat
        /\ d[j] \in Nat /\ e[j] \in Nat /\ Weight(b, i) \in Nat
    BY <1>2, <1>6, <1>7, <2>1
  <2> DEFINE w == Weight(b, i)
             o == rest[0]
             x == s[i]
             y == t[i]
             z == rest[i]
             p == d[j]
             q == e[j]
             u == rest[j]
  <2>7. /\ x \in Nat /\ y \in Nat /\ z \in Nat /\ u \in Nat /\ o \in Nat
        /\ p \in Nat /\ q \in Nat /\ w \in Nat
        /\ x + z = y + w * o /\ p + u = q + r * z
    BY <2>4, <2>5, <2>6
  <2>8. s[j] = x * r + p /\ t[j] = y * r + q /\ Weight(b, j) = w * r
    BY <2>2, <2>3
  <2> HIDE DEF w, o, x, y, z, p, q, u, r
  <2>9. (x + z) * r = (y + w * o) * r
    BY <2>7
  <2>10. x * r + r * z = y * r + (w * r) * o
    BY ONLY <1>1, <2>7, <2>9
  <2>11. x * r + p + u = y * r + q + (w * r) * o
    <3> DEFINE f == x * r
               g == r * z
               h == y * r
               l == (w * r) * o
    <3>1. r * z \in Nat /\ x * r \in Nat /\ y * r \in Nat
      BY ONLY <1>1, <2>7
    <3>2. (w * r) * o \in Nat
      BY ONLY <1>1, <2>7
    <3>3. f + g = h + l /\ p + u = q + g
      BY <2>7, <2>10
    <3>4. /\ f \in Nat /\ g \in Nat /\ h \in Nat /\ l \in Nat
          /\ p \in Nat /\ q \in Nat /\ u \in Nat
      BY <2>7, <3>1, <3>2
    <3> HIDE DEF f, g, h, l
    <3>5. f + p + u = h + q + l
      BY ONLY <3>3, <3>4
    <3>6. QED
      BY <3>5 DEF f, h, l
  <2>12. s[j] + rest[j] = t[j] + Weight(b, j) * rest[0]
    BY <2>8, <2>11 DEF u, o
  <2>13. QED
    BY <2>1, <2>12
<1>10. n \in S
  <2> HIDE DEF S
  <2>1. QED
    BY <1>8, <1>9, Induction
<1>11. QED
  BY <1>3, <1>4, <1>10

(* calculate_new_address() of an IPv6 address.                             *)
LEMMA NewAddress6Is ==
  ASSUME NEW a \in Addresses(6), NEW k \in Nat, Refused \notin Addresses(6)
  PROVE  IF Number(a) + k < Pow2[Width(6)]
         THEN /\ NewAddress6(a, k) \in Addresses(6)
              /\ Number(NewAddress6(a, k)) = Number(a) + k
         ELSE NewAddress6(a, k) = Refused
<1> DEFINE n == Segments
           b == SegmentBits
           r == Radix(6)
           d == a.value
           rest[i \in 0..n] ==
             IF i = n THEN k
             ELSE rest[i + 1] \div r
                    + (d[i + 1] + (rest[i + 1] % r)) \div r
           e == [i \in 1..n |-> (d[i] + (rest[i] % r)) % r]
<1>1. Digits(6) = n /\ DigitBits(6) = b /\ r = Pow2[b]
  BY DEF Digits, DigitBits, Radix
<1>2. n \in Nat /\ b \in Nat
  BY WidthsAssumption
<1>3. d \in [1..n -> 0..(r - 1)] /\ Number(a) = Positional(d, n, r)
      /\ a = [version |-> 6, value |-> d]
  BY <1>1, AddressIs
<1>4. r \in Nat \ {0}
  BY <1>1, <1>2, Powers
<1>5. NewAddress6(a, k) = IF rest[0] # 0 THEN Refused
                          ELSE [a EXCEPT !.value = e]
  BY DEF NewAddress6
<1>6. [a EXCEPT !.value = e] = [version |-> 6, value |-> e]
  <2> HIDE DEF e
  <2>1. QED
    BY <1>3
<1> HIDE DEF n, b, r, d
<1>7. d \in [1..n -> Nat]
  BY <1>3, <1>4
<1>8. PICK g : /\ g \in [0..n -> Nat] /\ g[0] = k
               /\ \A i \in 1..n :
                    g[i] = g[i - 1] \div r
                             + (d[n - i + 1] + (g[i - 1] % r)) \div r
  <2> DEFINE G == [i \in 1..n |->
                     [x \in Nat |-> x \div r
                                      + (d[n - i + 1] + (x % r)) \div r]]
  <2>1. ASSUME NEW i \in 1..n, NEW x \in Nat
        PROVE  x \div r + (d[n - i + 1] + (x % r)) \div r \in Nat
    <3>1. n - i + 1 \in 1..n
      BY <1>2
    <3>2. d[n - i + 1] \in Nat
      BY <1>7, <3>1
    <3>3. x \div r \in Nat /\ x % r \in Nat
      <4>1. x \div r \in Nat /\ x % r \in 0..(r - 1)
        BY ONLY <1>4, x \in Nat, Division
      <4>2. QED
        BY ONLY <1>4, <4>1
    <3>4. d[n - i + 1] + (x % r) \in Nat
      BY <3>2, <3>3
    <3>5. (d[n - i + 1] + (x % r)) \div r \in Nat
      BY <1>4, <3>4, Division
    <3>6. QED
      BY <3>3, <3>5
  <2>2. G \in [1..n -> [Nat -> Nat]]
    BY <2>1
  <2>3. \A i \in 1..n : \A x \in Nat :
          G[i][x] = x \div r + (d[n - i + 1] + (x % r)) \div r
    OBVIOUS
  <2> HIDE DEF G
  <2>4. PICK g : Unfolds(g, n, Nat, k, G)
    BY <1>2, <2>2, Recursion
  <2>5. ASSUME NEW i \in 1..n
        PROVE  g[i] = g[i - 1] \div r
                        + (d[n - i + 1] + (g[i - 1] % r)) \div r
    <3>1. g[i] = G[i][g[i - 1]] /\ g[i - 1] \in Nat
      BY <1>2, <2>4 DEF Unfolds
    <3>2. QED
      BY <2>3, <3>1
  <2>6. QED
    BY <2>4, <2>5 DEF Unfolds
<1> DEFINE h == [i \in 0..n |-> g[n - i]]
<1>9. h = [i \in 0..n |->
             IF i = n THEN k
             ELSE h[i + 1] \div r + (d[i + 1] + (h[i + 1] % r)) \div r]
  <2>1. ASSUME NEW i \in 0..n, i # n
        PROVE  h[i] = h[i + 1] \div r + (d[i + 1] + (h[i + 1] % r)) \div r
    <3> DEFINE j == n - i
    <3>1. j \in 1..n /\ n - j + 1 = i + 1 /\ n - (i + 1) = j - 1
          /\ i + 1 \in 0..n
      BY <1>2, <2>1
    <3>2. h[i] = g[j] /\ h[i + 1] = g[j - 1]
      BY <3>1
    <3> HIDE DEF j, h
    <3>3. QED
      BY <1>8, <3>1, <3>2
  <2>2. h[n] = k
    BY <1>2, <1>8
  <2>3. \A i \in 0..n :
          h[i] = IF i = n THEN k
                 ELSE h[i + 1] \div r + (d[i + 1] + (h[i + 1] % r)) \div r
    <3> HIDE DEF h
    <3>1. QED
      BY <2>1, <2>2
  <2>4. h = [i \in 0..n |-> h[i]]
    OBVIOUS
  <2> HIDE DEF h
  <2>5. QED
    BY <2>3, <2>4
<1>10. rest = [i \in 0..n |->
                 IF i = n THEN k
                 ELSE rest[i + 1] \div r
                        + (d[i + 1] + (rest[i + 1] % r)) \div r]
  <2> HIDE DEF h
  <2>1. QED
    BY <1>9
<1> HIDE DEF rest
<1>11. rest[n] = k
  BY <1>2, <1>10
<1>12. ASSUME NEW i \in 1..n
       PROVE  rest[i - 1] = rest[i] \div r + (d[i] + (rest[i] % r)) \div r
  <2>1. i - 1 \in 0..n /\ i - 1 # n /\ (i - 1) + 1 = i
    BY <1>2
  <2>2. QED
    BY <1>10, <2>1
<1>13. ASSUME NEW i \in 0..n PROVE rest[i] \in Nat
  <2> DEFINE S == {j \in 0..(n - i) : rest[n - j] \in Nat}
  <2>1. 0 \in S
    <3>1. n - 0 = n /\ 0 \in 0..(n - i)
      BY <1>2
    <3>2. QED
      BY <1>11, <3>1
  <2>2. ASSUME NEW j \in 0..(n - i - 1), j \in S PROVE j + 1 \in S
    <3> DEFINE l == n - j
    <3>1. l \in 1..n /\ n - (j + 1) = l - 1 /\ j + 1 \in 0..(n - i)
      BY <1>2
    <3>2. rest[l] \in Nat
      BY <2>2
    <3>3. d[l] \in Nat
      BY <1>7, <3>1
    <3>4. rest[l] \div r \in Nat /\ rest[l] % r \in Nat
      <4> DEFINE x == rest[l]
      <4>1. x \in Nat
        BY <3>2
      <4> HIDE DEF x
      <4>2. x \div r \in Nat /\ x % r \in 0..(r - 1)
        BY ONLY <1>4, <4>1, Division
      <4>3. x % r \in Nat
        BY ONLY <1>4, <4>2
      <4>4. QED
        BY <4>2, <4>3 DEF x
    <3>5. d[l] + (rest[l] % r) \in Nat
      BY <3>3, <3>4
    <3>6. (d[l] + (rest[l] % r)) \div r \in Nat
      <4> DEFINE x == d[l] + (rest[l] % r)
      <4>1. x \in Nat
        BY <3>5
      <4> HIDE DEF x
      <4>2. x \div r \in Nat
        BY <1>4, <4>1, Division
      <4>3. QED
        BY <4>2 DEF x
    <3>7. rest[l - 1] \in Nat
      <4>1. rest[l - 1] = rest[l] \div r + (d[l] + (rest[l] % r)) \div r
        BY <1>12, <3>1
      <4>2. QED
        BY <3>4, <3>6, <4>1
    <3>8. QED
      BY <3>1, <3>7
  <2>3. n - i \in S
    <3>1. n - i \in Nat
      BY <1>2
    <3> HIDE DEF S
    <3>2. QED
      BY <2>1, <2>2, <3>1, Induction
  <2>4. n - (n - i) = i
    BY <1>2
  <2>5. QED
    BY <2>3, <2>4
<1>14. rest \in [0..n -> Nat]
  BY <1>10, <1>13
<1>15. e \in [1..n -> 0..(r - 1)] /\ Carried(d, rest, e, n, r)
  <2>1. \A i \in 1..n : e[i] = (d[i] + (rest[i] % r)) % r
    OBVIOUS
  <2>2. e = [i \in 1..n |-> e[i]]
    OBVIOUS
  <2> HIDE DEF e
  <2>3. /\ \A i \in 1..n : e[i] \in 0..(r - 1)
        /\ Carried(d, rest, e, n, r)
    BY ONLY <1>2, <1>4, <1>7, <1>12, <1>14, <2>1, CarriesAdd
  <2>4. QED
    BY <2>2, <2>3
<1> HIDE DEF e
<1> DEFINE x == Positional(d, n, r)
           y == Positional(e, n, r)
           w == Pow2[Width(6)]
<1>16. Weight(b, n) = w
  BY <1>1, Sizes
<1>17. x + k = y + w * rest[0]
  <2>1. d \in [1..n -> 0..(Pow2[b] - 1)] /\ e \in [1..n -> 0..(Pow2[b] - 1)]
        /\ Carried(d, rest, e, n, Pow2[b])
    BY <1>1, <1>3, <1>15
  <2>2. Positional(d, n, Pow2[b]) + rest[n]
          = Positional(e, n, Pow2[b]) + Weight(b, n) * rest[0]
    BY ONLY <1>2, <1>14, <2>1, CarriesSum
  <2>3. QED
    BY <1>1, <1>11, <1>16, <2>2
<1>18. x \in Nat /\ y \in Nat /\ y < w /\ rest[0] \in Nat /\ w \in Nat
  <2>1. y \in Nat /\ y < Weight(b, n) /\ x \in Nat
    BY <1>1, <1>2, <1>3, <1>15, DigitsOf
  <2>2. rest[0] \in Nat
    BY <1>2, <1>13
  <2>3. w \in Nat
    BY Sizes, Powers
  <2>4. QED
    BY <1>16, <2>1, <2>2, <2>3
<1> DEFINE new == [version |-> 6, value |-> e]
<1>19. new \in Addresses(6) /\ Number(new) = y
  <2>1. new \in Addresses(6)
    BY <1>1, <1>15 DEF Addresses, n, r
  <2>2. new.version = 6 /\ new.value = e
    OBVIOUS
  <2> HIDE DEF new
  <2>3. QED
    BY <1>1, <2>1, <2>2 DEF Number, r
<1>20. CASE rest[0] = 0
  <2>1. x + k = y
    BY <1>17, <1>18, <1>20
  <2>2. NewAddress6(a, k) = new
    BY <1>5, <1>6, <1>20
  <2> HIDE DEF new, x, y, w
  <2>3. Number(a) + k < w
    BY <1>3, <1>18, <2>1 DEF x
  <2>4. QED
    BY <1>3, <1>19, <2>1, <2>2, <2>3 DEF x, w
<1>21. CASE rest[0] # 0
  <2>1. NewAddress6(a, k) = Refused
    BY <1>5, <1>21
  <2>2. w * rest[0] >= w
    <3> HIDE DEF w, x, y
    <3> DEFINE o == rest[0]
    <3>1. o \in Nat \ {0} /\ w \in Nat
      BY <1>18, <1>21
    <3> HIDE DEF o
    <3>2. w * o >= w
      BY ONLY <3>1
    <3>3. QED
      BY <3>2 DEF o
  <2>3. ~(Number(a) + k < w)
    <3> HIDE DEF w, x, y
    <3>1. QED
      BY <1>3, <1>17, <1>18, <2>2 DEF x
  <2>4. QED
    BY <2>1, <2>3
<1>22. QED
  BY <1>20, <1>21

(* A host index has more bits than an IPv4 address.                        *)
LEMMA IndexIsWider ==
  /\ Pow2[IndexBits] \in Nat \ {0}
  /\ 2 * Pow2[Width(4)] <= Pow2[IndexBits]
<1> DEFINE d == IndexBits - Width(4) - 1
           w == Pow2[Width(4)]
           o == Pow2[d]
<1>1. /\ Width(4) \in Nat /\ Width(4) + 1 \in Nat /\ d \in Nat
      /\ IndexBits \in Nat /\ (Width(4) + 1) + d = IndexBits
  <2>1. 4 \in {4, 6}
    OBVIOUS
  <2>2. Width(4) \in Nat /\ Width(4) < IndexBits /\ IndexBits \in Nat
    BY <2>1, Sizes, WidthsAssumption DEF Width, Digits, DigitBits
  <2>3. QED
    BY <2>2
<1>2. Pow2[(Width(4) + 1) + d] = Pow2[Width(4) + 1] * o
  BY <1>1, PowerSum
<1>3. /\ Pow2[Width(4) + 1] = 2 * w /\ w \in Nat \ {0}
      /\ o \in Nat \ {0} /\ Pow2[IndexBits] \in Nat \ {0}
  BY <1>1, Powers
<1>4. Pow2[IndexBits] = (2 * w) * o
  BY <1>1, <1>2, <1>3
<1> HIDE DEF w, o
<1>5. 2 * w <= (2 * w) * o
  BY ONLY <1>3
<1>6. QED
  BY <1>3, <1>4, <1>5 DEF w

(* The sum that calculate_new_address() tests: that of IPv4 has 64 bits,   *)
(* and that of IPv6 is never formed in one variable.                       *)
Added(a, k) ==
  IF a.version = 4 THEN (Number(a) + k) % Pow2[IndexBits] ELSE Number(a) + k

(* calculate_new_address() of either version.                              *)
LEMMA NewAddressIs ==
  ASSUME NEW v \in {4, 6}, NEW a \in Addresses(v), NEW k \in Nat
  PROVE  /\ Added(a, k) \in Nat
         /\ IF Added(a, k) < Pow2[Width(v)]
            THEN /\ NewAddress(a, k) \in Addresses(v)
                 /\ Number(NewAddress(a, k)) = Added(a, k)
            ELSE NewAddress(a, k) = Refused
<1>1. Refused \notin Addresses(4) \cup Addresses(6)
  BY RefusedAssumption
<1>2. a.version = v /\ Number(a) \in Nat
  BY AddressIs
<1>3. CASE v = 4
  <2> DEFINE x == (Number(a) + k) % Pow2[IndexBits]
             w == Pow2[Width(4)]
  <2>1. w \in Nat /\ ToUint32(a) = Number(a)
    BY <1>2, <1>3, Sizes, Powers, ToUint32IsNumber
  <2>2. x \in Nat
    <3> DEFINE y == Number(a) + k
               o == Pow2[IndexBits]
    <3>1. y \in Nat /\ o \in Nat \ {0}
      BY <1>2, IndexIsWider
    <3> HIDE DEF y, o
    <3>2. y % o \in Nat
      BY ONLY <3>1
    <3>3. QED
      BY <3>2 DEF y, o
  <2>3. NewAddress(a, k) = IF x > w - 1 THEN Refused ELSE FromUint32(x)
    BY <1>2, <1>3, <2>1 DEF NewAddress, NewAddress4
  <2>4. Added(a, k) = x
    BY <1>2, <1>3 DEF Added
  <2> HIDE DEF x, w
  <2>5. CASE x < w
    <3>1. FromUint32(x) \in Addresses(4) /\ Number(FromUint32(x)) = x
      BY <2>2, <2>5, FromUint32IsAddress DEF w
    <3>2. NewAddress(a, k) = FromUint32(x)
      BY <2>1, <2>2, <2>3, <2>5
    <3>3. QED
      BY <1>3, <2>2, <2>4, <2>5, <3>1, <3>2 DEF w
  <2>6. CASE ~(x < w)
    <3>1. NewAddress(a, k) = Refused
      BY <2>1, <2>2, <2>3, <2>6
    <3>2. QED
      BY <1>3, <2>2, <2>4, <2>6, <3>1 DEF w
  <2>7. QED
    BY <2>5, <2>6
<1>4. CASE v = 6
  <2>1. Added(a, k) = Number(a) + k /\ Number(a) + k \in Nat
    BY <1>2, <1>4 DEF Added
  <2>2. NewAddress(a, k) = NewAddress6(a, k)
    BY <1>2, <1>4 DEF NewAddress
  <2>3. a \in Addresses(6)
    BY <1>4
  <2>4. IF Number(a) + k < Pow2[Width(6)]
        THEN /\ NewAddress6(a, k) \in Addresses(6)
             /\ Number(NewAddress6(a, k)) = Number(a) + k
        ELSE NewAddress6(a, k) = Refused
    BY <1>1, <2>3, NewAddress6Is
  <2> DEFINE new == NewAddress6(a, k)
  <2> HIDE DEF new
  <2>5. QED
    BY <1>4, <2>1, <2>2, <2>4 DEF new
<1>5. QED
  BY <1>3, <1>4

(* A sum that does not wrap.                                               *)
LEMMA NewAddressSum ==
  ASSUME NEW v \in {4, 6}, NEW a \in Addresses(v), NEW k \in Nat,
         v = 4 => Number(a) + k < Pow2[IndexBits]
  PROVE  IF Number(a) + k < Pow2[Width(v)]
         THEN /\ NewAddress(a, k) \in Addresses(v)
              /\ Number(NewAddress(a, k)) = Number(a) + k
         ELSE NewAddress(a, k) = Refused
<1> DEFINE x == Number(a) + k
           o == Pow2[IndexBits]
<1>1. a.version = v /\ x \in Nat /\ o \in Nat \ {0}
  BY AddressIs, IndexIsWider
<1>2. CASE v = 4
  <2>1. x < o
    BY <1>2
  <2>2. Added(a, k) = x % o
    BY <1>1, <1>2 DEF Added
  <2> HIDE DEF x, o
  <2>3. x % o = x
    BY ONLY <1>1, <2>1
  <2>4. Added(a, k) = x
    BY <2>2, <2>3
  <2>5. QED
    BY <2>4, NewAddressIs DEF x
<1>3. CASE v = 6
  <2>1. Added(a, k) = x
    BY <1>1, <1>3 DEF Added
  <2>2. QED
    BY <2>1, NewAddressIs
<1>4. QED
  BY <1>2, <1>3

(* A sum that wraps is lower than the address the index was added to.      *)
LEMMA WrappedSumIsLower ==
  ASSUME NEW a \in Addresses(4), NEW k \in 0..(Pow2[IndexBits] - 1),
         ~(Number(a) + k < Pow2[IndexBits])
  PROVE  Added(a, k) \in Nat /\ Added(a, k) < Number(a)
<1> DEFINE n == Number(a)
           o == Pow2[IndexBits]
           w == Pow2[Width(4)]
<1>1. a.version = 4 /\ n \in Nat /\ n < w
  <2>1. 4 \in {4, 6}
    OBVIOUS
  <2>2. QED
    BY <2>1, AddressIs
<1>2. o \in Nat \ {0} /\ w \in Nat /\ 2 * w <= o /\ k \in 0..(o - 1)
  BY IndexIsWider, Sizes, Powers
<1>3. Added(a, k) = (n + k) % o /\ ~(n + k < o)
  BY <1>1 DEF Added
<1> HIDE DEF n, o, w
<1>4. n + k = 1 * o + (n + k - o) /\ n + k - o \in 0..(o - 1)
      /\ n + k \in Nat
  BY ONLY <1>1, <1>2, <1>3
<1>5. (n + k) % o = n + k - o
  <2> DEFINE y == n + k
             r == n + k - o
  <2>1. y \in Nat /\ r \in 0..(o - 1) /\ y = 1 * o + r /\ 1 \in Nat
    BY <1>4
  <2> HIDE DEF y, r
  <2>2. y % o = r
    BY ONLY <1>2, <2>1, Quotient
  <2>3. QED
    BY <2>2 DEF y, r
<1>6. QED
  BY <1>1, <1>2, <1>3, <1>4, <1>5 DEF n

-----------------------------------------------------------------------------
(* What the calls are made with.                                           *)
CallsTypeOK ==
  /\ ip = Refused \/ ip \in Addresses(4) \cup Addresses(6)
  /\ index \in 0..(Pow2[IndexBits] - 1)

(* Every call is made with an address and a host index.                      *)
LEMMA CallsType == CallsSpec => []CallsTypeOK
<1>1. CallsInit => CallsTypeOK
  BY IndexIsWider DEF CallsInit, CallsTypeOK
<1>2. CallsTypeOK /\ [CallsNext]_callVars => CallsTypeOK'
  <2> SUFFICES ASSUME CallsTypeOK, [CallsNext]_callVars
               PROVE  CallsTypeOK'
    OBVIOUS
  <2>1. CASE Choose
    <3>1. [version : {6}, value : [1..Segments -> SegmentValues]]
            \subseteq Addresses(6)
      <4> SUFFICES ASSUME NEW a \in [version : {6},
                                     value : [1..Segments -> SegmentValues]]
                   PROVE  a \in Addresses(6)
        OBVIOUS
      <4>1. a.value \in [1..Segments -> 0..(Radix(6) - 1)]
        BY CallsAssumption
      <4>2. a = [version |-> 6, value |-> a.value] /\ Digits(6) = Segments
        BY DEF Digits
      <4>3. QED
        BY <4>1, <4>2 DEF Addresses
    <3>2. QED
      BY <2>1, <3>1 DEF Choose, CallsTypeOK
  <2>2. CASE Ask
    BY <2>2, CallsAssumption DEF Ask, CallsTypeOK
  <2>3. CASE UNCHANGED callVars
    BY <2>3 DEF callVars, CallsTypeOK
  <2>4. QED
    BY <2>1, <2>2, <2>3 DEF CallsNext
<1>3. QED
  BY <1>1, <1>2, PTL DEF CallsSpec

(* For any numbers and widths of digits and any index, unless the sum of   *)
(* an IPv4 address wraps: the address a host index is added to and the new *)
(* one differ by the index, whatever carries there are; the new one is     *)
(* refused exactly when it would not fit; and the comparison of addresses  *)
(* sees which is the later one.                                            *)
THEOREM NewAddressesAdd == CallsSpec => []NewAddressAdds
<1>1. CallsTypeOK => NewAddressAdds
  <2> SUFFICES ASSUME CallsTypeOK, ip # Refused, ~SumWraps(ip, index)
               PROVE  NewAddressAdds
    BY DEF NewAddressAdds
  <2>1. PICK v \in {4, 6} : ip \in Addresses(v)
    BY DEF CallsTypeOK
  <2>2. /\ ip.version = v /\ Number(ip) \in Nat /\ index \in Nat
    BY <2>1, AddressIs DEF CallsTypeOK
  <2> DEFINE new == NewAddress(ip, index)
             sum == Number(ip) + index
             w   == Pow2[Width(ip.version)]
  <2>3. v = 4 => sum < Pow2[IndexBits]
    BY <2>2, IndexIsWider DEF SumWraps
  <2>4. IF sum < w THEN new \in Addresses(v) /\ Number(new) = sum
                   ELSE new = Refused
    BY <2>1, <2>2, <2>3, NewAddressSum
  <2>5. ASSUME sum < w PROVE Precedes(ip, new) <=> index > 0
    <3>1. new \in Addresses(v) /\ Number(new) = sum
      BY <2>4, <2>5
    <3> HIDE DEF new
    <3>2. Precedes(ip, new) <=> Number(ip) < Number(new)
      BY <2>1, <3>1, PrecedesIsLess
    <3>3. QED
      BY <2>2, <3>1, <3>2
  <2>6. v = 4 \/ v = 6
    OBVIOUS
  <2>7. ASSUME new \in Addresses(v) PROVE new # Refused
    BY <2>6, <2>7, RefusedAssumption
  <2> HIDE DEF new, sum, w
  <2>8. QED
    BY <2>2, <2>4, <2>5, <2>7 DEF NewAddressAdds, new, sum, w
<1>2. QED
  BY <1>1, CallsType, PTL
-----------------------------------------------------------------------------
(* All ones, shifted left and cut off.                                     *)
LEMMA ShiftedOnes ==
  ASSUME NEW n \in Nat, NEW q \in 0..n
  PROVE  ((Pow2[n] - 1) * Pow2[q]) % Pow2[n] = Pow2[n] - Pow2[q]
<1> DEFINE w == Pow2[n]
           u == Pow2[q]
           x == (w - 1) * u
<1>1. w \in Nat \ {0} /\ u \in Nat \ {0}
  BY Powers
<1>2. w - u \in 0..(w - 1)
  BY <1>1, OnesBits
<1> HIDE DEF w, u
<1>3. x = (u - 1) * w + (w - u)
  BY ONLY <1>1
<1>4. x \in Nat /\ u - 1 \in Nat
  BY ONLY <1>1
<1> HIDE DEF x
<1>5. x % w = w - u
  BY ONLY <1>1, <1>2, <1>3, <1>4, Quotient
<1>6. QED
  BY <1>5 DEF x, w, u

(* Bit m counted from the right is in digit i from the left, at place t.   *)
LEMMA DigitPlace ==
  ASSUME NEW n \in Nat, NEW b \in Nat \ {0}, NEW w, w = n * b,
         NEW m \in 0..(w - 1)
  PROVE  \E i \in 1..n : \E t \in 0..(b - 1) : m = b * (n - i) + t
<1> DEFINE q == m \div b
           t == m % b
           i == n - q
<1>1. m \in Nat /\ m < n * b
  OBVIOUS
<1>2. q \in Nat /\ t \in 0..(b - 1) /\ m = q * b + t
  <2>1. m \in Nat
    BY <1>1
  <2>2. QED
    BY ONLY b \in Nat \ {0}, <2>1, Division
<1> HIDE DEF q, t
<1>3. q < n
  BY ONLY b \in Nat \ {0}, n \in Nat, <1>1, <1>2
<1>4. i \in 1..n /\ n - i = q
  BY <1>2, <1>3
<1>5. m = b * (n - i) + t
  <2>1. q * b = b * q
    BY <1>2
  <2>2. QED
    BY <1>2, <1>4, <2>1
<1>6. QED
  BY <1>2, <1>4, <1>5

(* Bit k of an address, counted from the left, is one of its number.       *)
LEMMA BitAtIs ==
  ASSUME NEW v \in {4, 6}, NEW a \in Addresses(v), NEW k \in 1..Width(v)
  PROVE  BitAt(a, k) = Bit(Number(a), Width(v) - k)
<1> DEFINE n == Digits(v)
           b == DigitBits(v)
           q == (k - 1) \div b
           m == (k - 1) % b
           i == 1 + q
           t == b - 1 - m
<1>1. n \in Nat \ {0} /\ b \in Nat \ {0} /\ Width(v) = n * b
  BY Sizes DEF Width
<1>2. /\ a.version = v /\ a.value \in [1..n -> 0..(Pow2[b] - 1)]
      /\ Number(a) = Positional(a.value, n, Pow2[b])
  BY AddressIs
<1>3. BitAt(a, k) = Bit(a.value[i], t)
  BY <1>2 DEF BitAt
<1>4. k - 1 \in Nat /\ k - 1 < n * b
  BY <1>1, Sizes
<1> HIDE DEF n, b
<1>5. q \in Nat /\ m \in 0..(b - 1) /\ k - 1 = q * b + m
  BY ONLY <1>1, <1>4, Division
<1> HIDE DEF q, m
<1>6. q < n
  BY ONLY <1>1, <1>4, <1>5
<1>7. i \in 1..n /\ t \in 0..(b - 1)
  BY <1>1, <1>5, <1>6
<1>8. b * (n - i) + t = n * b - k
  <2>1. b * (n - i) = n * b - q * b - b
    BY ONLY <1>1, <1>5
  <2>2. n * b \in Nat /\ q * b \in Nat
    BY ONLY <1>1, <1>5
  <2>3. QED
    BY <1>1, <1>4, <1>5, <2>1, <2>2
<1> HIDE DEF i, t
<1>9. Bit(Positional(a.value, n, Pow2[b]), b * (n - i) + t)
        = Bit(a.value[i], t)
  BY <1>1, <1>2, <1>7, BitsOfDigits
<1>10. QED
  BY <1>1, <1>2, <1>3, <1>8, <1>9

(* Addresses with the same bits are equal.                                 *)
LEMMA SameAddressBits ==
  ASSUME NEW v \in {4, 6}, NEW a \in Addresses(v), NEW c \in Addresses(v),
         \A k \in 1..Width(v) : BitAt(a, k) = BitAt(c, k)
  PROVE  a = c
<1> DEFINE w == Width(v)
<1>1. w \in Nat
  BY Sizes
<1>2. /\ Number(a) \in Nat /\ Number(a) < Pow2[w]
      /\ Number(c) \in Nat /\ Number(c) < Pow2[w]
  BY AddressIs
<1>3. ASSUME NEW m \in 0..(w - 1)
      PROVE  Bit(Number(a), m) = Bit(Number(c), m)
  <2>1. w - m \in 1..w /\ w - (w - m) = m
    BY <1>1
  <2>2. BitAt(a, w - m) = Bit(Number(a), w - (w - m))
    BY <2>1, BitAtIs
  <2>3. BitAt(c, w - m) = Bit(Number(c), w - (w - m))
    BY <2>1, BitAtIs
  <2>4. QED
    BY <2>1, <2>2, <2>3
<1> HIDE DEF w
<1>4. Number(a) = Number(c)
  BY <1>1, <1>2, <1>3, SameBits
<1>5. QED
  BY <1>4, SameNumber

(* Byte i from 0 of a mask of p ones.                                      *)
LEMMA MaskByteBits ==
  ASSUME NEW p \in Nat, NEW i \in Nat
  PROVE  /\ MaskByte(p, i) \in 0..(Pow2[ByteBits] - 1)
         /\ \A t \in 0..(ByteBits - 1) :
              Bit(MaskByte(p, i), t)
                = IF p - i * ByteBits >= ByteBits - t THEN 1 ELSE 0
<1> DEFINE n == ByteBits
           length == p - i * n
           x == MaskByte(p, i)
<1>1. n \in Nat /\ SegmentBits = 2 * n
  BY WidthsAssumption DEF ByteBits
<1>2. Pow2[n] \in Nat \ {0} /\ Pow2[0] = 1
  BY <1>1, Powers
<1>3. length \in Int
  <2>1. i * n \in Nat
    <3> HIDE DEF n
    <3>1. QED
      BY ONLY <1>1, i \in Nat
  <2>2. QED
    BY <2>1
<1>4. x = IF length >= n THEN Pow2[n] - 1
          ELSE IF length > 0
          THEN ((Pow2[n] - 1) * Pow2[n - length]) % Pow2[n]
          ELSE 0
  BY DEF MaskByte
<1> HIDE DEF n, length, x
<1>5. CASE length >= n
  <2>1. 0 \in 0..n
    BY <1>1
  <2>2. \A t \in 0..(n - 1) :
          Bit(Pow2[n] - Pow2[0], t) = IF t >= 0 THEN 1 ELSE 0
    BY <1>1, <2>1, OnesBits
  <2>3. x = Pow2[n] - Pow2[0] /\ x \in 0..(Pow2[n] - 1)
    BY <1>2, <1>4, <1>5
  <2>4. \A t \in 0..(n - 1) : length >= n - t /\ t >= 0
    BY <1>1, <1>3, <1>5
  <2>5. QED
    BY <2>2, <2>3, <2>4 DEF n, length, x
<1>6. CASE ~(length >= n) /\ length > 0
  <2>1. n - length \in 0..n
    BY <1>1, <1>3, <1>6
  <2>2. x = Pow2[n] - Pow2[n - length]
    BY <1>1, <1>4, <1>6, <2>1, ShiftedOnes
  <2>3. /\ Pow2[n] - Pow2[n - length] \in Nat
        /\ Pow2[n] - Pow2[n - length] < Pow2[n]
        /\ \A t \in 0..(n - 1) :
             Bit(Pow2[n] - Pow2[n - length], t)
               = IF t >= n - length THEN 1 ELSE 0
    BY <1>1, <2>1, OnesBits
  <2>4. \A t \in 0..(n - 1) : t >= n - length <=> length >= n - t
    BY <1>1, <1>3
  <2>5. x \in 0..(Pow2[n] - 1)
    BY <1>2, <2>2, <2>3
  <2>6. QED
    BY <2>2, <2>3, <2>4, <2>5 DEF n, length, x
<1>7. CASE ~(length >= n) /\ ~(length > 0)
  <2>1. x = 0 /\ x \in 0..(Pow2[n] - 1)
    BY <1>2, <1>4, <1>7
  <2>2. ASSUME NEW t \in 0..(n - 1) PROVE Bit(0, t) = 0
    <3>1. Pow2[t] \in Nat \ {0}
      BY <1>1, Powers
    <3>2. 0 \div Pow2[t] = 0
      BY <3>1
    <3>3. QED
      BY <3>2 DEF Bit
  <2>3. \A t \in 0..(n - 1) : ~(length >= n - t)
    BY <1>1, <1>3, <1>7
  <2>4. QED
    BY <2>1, <2>2, <2>3 DEF n, length, x
<1>8. QED
  BY <1>5, <1>6, <1>7

(* A segment is two of the bytes.                                          *)
LEMMA MaskSegmentBits ==
  ASSUME NEW p \in Nat, NEW i \in 1..Segments, NEW x,
         x = MaskByte(p, 2 * i - 2) * Pow2[ByteBits] + MaskByte(p, 2 * i - 1)
  PROVE  /\ x \in 0..(Pow2[SegmentBits] - 1)
         /\ \A t \in 0..(SegmentBits - 1) :
              Bit(x, t) = IF p >= i * SegmentBits - t THEN 1 ELSE 0
<1> DEFINE n == ByteBits
           h == MaskByte(p, 2 * i - 2)
           l == MaskByte(p, 2 * i - 1)
           w == Pow2[n]
           c == i * n
           f == (2 * i - 2) * n
           g == (2 * i - 1) * n
<1>1. n \in Nat /\ SegmentBits = 2 * n
  BY WidthsAssumption DEF ByteBits
<1>2. w \in Nat \ {0} /\ Pow2[SegmentBits] = w * w
  <2>1. SegmentBits = n + n
    BY <1>1
  <2>2. QED
    BY <1>1, <2>1, Powers, PowerSum
<1>3. i \in Nat /\ 2 * i - 2 \in Nat /\ 2 * i - 1 \in Nat
  BY WidthsAssumption
<1>4. /\ h \in 0..(w - 1) /\ l \in 0..(w - 1)
      /\ \A t \in 0..(n - 1) :
           Bit(h, t) = IF p - f >= n - t THEN 1 ELSE 0
      /\ \A t \in 0..(n - 1) :
           Bit(l, t) = IF p - g >= n - t THEN 1 ELSE 0
  BY <1>3, MaskByteBits
<1>5. /\ c \in Nat /\ f = 2 * c - 2 * n /\ g = 2 * c - n
      /\ i * SegmentBits = 2 * c
  <2>1. c \in Nat /\ f = 2 * c - 2 * n /\ g = 2 * c - n
        /\ i * (2 * n) = 2 * c
    <3> HIDE DEF n
    <3>1. QED
      BY ONLY <1>1, <1>3
  <2>2. QED
    BY <1>1, <2>1
<1>6. x = h * w + l
  OBVIOUS
<1> HIDE DEF n, h, l, w, c, f, g
<1>7. x \in 0..(w * w - 1)
  <2>1. h * w + w <= w * w /\ h * w \in Nat /\ w * w \in Nat
    BY ONLY <1>2, <1>4
  <2>2. QED
    BY <1>2, <1>4, <1>6, <2>1
<1>8. x \div w = h
  BY <1>2, <1>4, <1>6, <1>7, Quotient
<1>9. ASSUME NEW t \in 0..(n - 1)
      PROVE  Bit(x, t) = IF p >= 2 * c - t THEN 1 ELSE 0
  <2>1. Bit(h * Pow2[n] + l, t) = Bit(l, t)
    <3>1. h \in Nat /\ l \in Nat
      BY <1>2, <1>4
    <3>2. QED
      BY <1>1, <3>1, LowerBits
  <2>2. p - g >= n - t <=> p >= 2 * c - t
    BY <1>1, <1>5
  <2>3. QED
    BY <1>4, <1>6, <2>1, <2>2 DEF w
<1>10. ASSUME NEW t \in 0..(n - 1)
       PROVE  Bit(x, n + t) = IF p >= 2 * c - (n + t) THEN 1 ELSE 0
  <2>1. Bit(x, n + t) = Bit(x \div Pow2[n], t)
    BY <1>1, <1>2, <1>7, HigherBits
  <2>2. p - f >= n - t <=> p >= 2 * c - (n + t)
    BY <1>1, <1>5
  <2>3. QED
    BY <1>4, <1>8, <2>1, <2>2 DEF w
<1>11. ASSUME NEW t \in 0..(SegmentBits - 1)
       PROVE  Bit(x, t) = IF p >= i * SegmentBits - t THEN 1 ELSE 0
  <2>1. CASE t < n
    BY <1>1, <1>5, <1>9, <2>1
  <2>2. CASE t >= n
    <3>1. t - n \in 0..(n - 1) /\ n + (t - n) = t
      BY <1>1, <2>2
    <3>2. Bit(x, n + (t - n))
            = IF p >= 2 * c - (n + (t - n)) THEN 1 ELSE 0
      BY <1>10, <3>1
    <3>3. QED
      BY <1>5, <3>1, <3>2
  <2>3. QED
    BY <1>1, <2>1, <2>2
<1>12. QED
  BY <1>2, <1>7, <1>11

(* The mask of a prefix is an address, and its ones are the first ones.    *)
LEMMA MaskIs ==
  ASSUME NEW v \in {4, 6}, NEW p \in 1..Width(v)
  PROVE  /\ Mask(v, p) \in Addresses(v)
         /\ \A k \in 1..Width(v) :
              BitAt(Mask(v, p), k) = IF k <= p THEN 1 ELSE 0
<1>1. CASE v = 4
  <2> DEFINE w == Width(4)
             x == Pow2[w] - Pow2[w - p]
  <2>1. /\ w \in Nat /\ p \in 1..w /\ w - p \in 0..w /\ p \in Nat
        /\ Mask(v, p) = Mask4(p) /\ 4 \in {4, 6}
    BY <1>1, Sizes DEF Mask, ValidPrefix
  <2>2. Mask4(p) = FromUint32(((Pow2[w] - 1) * Pow2[w - p]) % Pow2[w])
    BY DEF Mask4
  <2> HIDE DEF w
  <2>3. Mask4(p) = FromUint32(x)
    BY <2>1, <2>2, ShiftedOnes
  <2>4. /\ x \in Nat /\ x < Pow2[w]
        /\ \A m \in 0..(w - 1) :
             Bit(x, m) = IF m >= w - p THEN 1 ELSE 0
    BY <2>1, OnesBits
  <2> HIDE DEF x
  <2>5. FromUint32(x) \in Addresses(4) /\ Number(FromUint32(x)) = x
    BY <2>4, FromUint32IsAddress DEF w
  <2>6. ASSUME NEW k \in 1..w
        PROVE  BitAt(FromUint32(x), k) = IF k <= p THEN 1 ELSE 0
    <3>1. BitAt(FromUint32(x), k) = Bit(x, w - k)
      BY <2>1, <2>5, BitAtIs DEF w
    <3>2. w - k \in 0..(w - 1) /\ (w - k >= w - p <=> k <= p)
      BY <2>1
    <3>3. QED
      BY <2>4, <3>1, <3>2
  <2>7. QED
    BY <1>1, <2>1, <2>3, <2>5, <2>6 DEF w
<1>2. CASE v = 6
  <2> DEFINE n == Segments
             b == SegmentBits
             c == Mask6(p)
             X(i) == MaskByte(p, 2 * i - 2) * Pow2[ByteBits]
                       + MaskByte(p, 2 * i - 1)
  <2>1. /\ n \in Nat \ {0} /\ b \in Nat \ {0} /\ Width(6) = n * b
        /\ p \in 1..Width(6) /\ n * b \in Nat
        /\ Digits(6) = n /\ DigitBits(6) = b /\ Radix(6) = Pow2[b]
        /\ Mask(v, p) = c
    BY <1>2, Sizes DEF Mask, ValidPrefix, Width, Digits, DigitBits, Radix
  <2>2. p \in Nat
    BY <2>1
  <2>3. /\ c.version = 6 /\ c.value = [i \in 1..n |-> X(i)]
        /\ c = [version |-> 6, value |-> c.value]
    BY DEF Mask6
  <2>4. \A i \in 1..n : c.value[i] = X(i)
    BY <2>3
  <2>5. ASSUME NEW i \in 1..n
        PROVE  /\ c.value[i] \in 0..(Pow2[b] - 1)
               /\ \A t \in 0..(b - 1) :
                    Bit(c.value[i], t) = IF p >= i * b - t THEN 1 ELSE 0
    BY <2>2, <2>4, MaskSegmentBits
  <2>6. c.value \in [1..n -> 0..(Pow2[b] - 1)]
    <3>1. \A i \in 1..n : c.value[i] \in 0..(Pow2[b] - 1)
      BY <2>5
    <3> HIDE DEF c
    <3>2. c.value = [i \in 1..n |-> c.value[i]]
      BY <2>3
    <3>3. QED
      BY <3>1, <3>2
  <2> HIDE DEF c
  <2>7. c \in Addresses(6)
    BY <2>1, <2>3, <2>6 DEF Addresses
  <2>8. ASSUME NEW k \in 1..Width(6)
        PROVE  BitAt(c, k) = IF k <= p THEN 1 ELSE 0
    <3> DEFINE q == (k - 1) \div b
               m == (k - 1) % b
               t == b - 1 - m
    <3>1. BitAt(c, k) = Bit(c.value[1 + q], t)
      BY <2>1, <2>3 DEF BitAt
    <3>2. k - 1 \in Nat /\ k - 1 < n * b
      BY <2>1
    <3> HIDE DEF n, b
    <3>3. q \in Nat /\ m \in 0..(b - 1) /\ k - 1 = q * b + m
      BY ONLY <2>1, <3>2, Division
    <3> HIDE DEF q, m
    <3>4. q < n
      BY ONLY <2>1, <3>2, <3>3
    <3>5. 1 + q \in 1..n /\ t \in 0..(b - 1)
      BY <2>1, <3>3, <3>4
    <3>6. (1 + q) * b - t = k
      <4>1. (1 + q) * b = q * b + b /\ q * b \in Nat
        BY ONLY <2>1, <3>3
      <4>2. QED
        BY <2>1, <3>3, <4>1
    <3> HIDE DEF t
    <3>7. Bit(c.value[1 + q], t) = IF p >= (1 + q) * b - t THEN 1 ELSE 0
      BY <2>5, <3>5
    <3>8. QED
      BY <2>2, <3>1, <3>6, <3>7
  <2>9. QED
    BY <1>2, <2>1, <2>7, <2>8
<1>3. QED
  BY <1>1, <1>2

(* The ones of an address that are its first ones are its prefix.          *)
LEMMA MaskPrefixCounts ==
  ASSUME NEW v \in {4, 6}, NEW a \in Addresses(v), NEW p \in 0..Width(v),
         \A k \in 1..Width(v) : BitAt(a, k) = IF k <= p THEN 1 ELSE 0
  PROVE  MaskPrefix(a) = p
<1> DEFINE ones == {k \in 1..Width(a.version) : BitAt(a, k) = 1}
<1>1. a.version = v /\ Width(v) \in Nat
  BY AddressIs, Sizes
<1>2. ones = 1..p
  BY <1>1
<1>3. MaskPrefix(a) = IF \E k \in ones : \E j \in 1..k : j \notin ones
                      THEN Refused ELSE Cardinality(ones)
  BY DEF MaskPrefix
<1> HIDE DEF ones
<1>4. ~(\E k \in ones : \E j \in 1..k : j \notin ones)
  BY <1>1, <1>2
<1>5. Cardinality(1..p) = p
  <2>1. p \in Int /\ 1 \in Int
    BY <1>1
  <2>2. Cardinality(1..p) = IF 1 > p THEN 0 ELSE p - 1 + 1
    BY <2>1, FS_Interval
  <2>3. QED
    BY <1>1, <2>2
<1>6. QED
  BY <1>2, <1>3, <1>4, <1>5

(* A prefix that is not refused says which bits are ones.                  *)
LEMMA MaskPrefixIs ==
  ASSUME NEW v \in {4, 6}, NEW a \in Addresses(v), MaskPrefix(a) # Refused
  PROVE  /\ MaskPrefix(a) \in 0..Width(v)
         /\ \A k \in 1..Width(v) :
              BitAt(a, k) = IF k <= MaskPrefix(a) THEN 1 ELSE 0
<1> DEFINE ones == {k \in 1..Width(a.version) : BitAt(a, k) = 1}
           w == Width(v)
           Missing == {k \in 1..w : k \notin ones}
           First(p) == \A k \in 1..w : k \in ones <=> k <= p
<1>1. a.version = v /\ w \in Nat
  BY AddressIs, Sizes
<1>2. \A k \in ones : \A j \in 1..k : j \in ones
  BY DEF MaskPrefix
<1>3. ASSUME NEW k \in 1..w
      PROVE  BitAt(a, k) = IF k \in ones THEN 1 ELSE 0
  <2>1. BitAt(a, k) = Bit(Number(a), w - k) /\ Number(a) \in Nat
    BY AddressIs, BitAtIs
  <2>2. w - k \in Nat
    BY <1>1
  <2>3. BitAt(a, k) \in {0, 1}
    BY <2>1, <2>2, BitType
  <2>4. QED
    BY <1>1, <2>3
<1>4. \E p \in 0..w : First(p)
  <2>1. CASE Missing = {}
    <3>1. First(w) /\ w \in 0..w
      BY <1>1, <2>1
    <3>2. QED
      BY <3>1
  <2>2. CASE Missing # {}
    <3>1. Missing \in SUBSET Nat
      BY <1>1
    <3> HIDE DEF Missing
    <3>2. PICK l \in Missing : \A k \in Missing : l <= k
      BY <2>2, <3>1, LeastNumber
    <3>3. l \in 1..w /\ l \notin ones
      BY <3>2 DEF Missing
    <3>4. ASSUME NEW k \in 1..w, k <= l - 1 PROVE k \in ones
      BY <1>1, <3>2, <3>3, <3>4 DEF Missing
    <3>5. ASSUME NEW k \in 1..w, ~(k <= l - 1) PROVE k \notin ones
      <4>1. l \in 1..k
        BY <1>1, <3>3, <3>5
      <4>2. QED
        BY <1>2, <3>3, <4>1
    <3> HIDE DEF ones, w
    <3>6. l - 1 \in 0..w
      BY <1>1, <3>3
    <3>7. First(l - 1)
      BY <3>4, <3>5
    <3>8. QED
      BY <3>6, <3>7
  <2>3. QED
    BY <2>1, <2>2
<1> HIDE DEF ones, w
<1>5. PICK p \in 0..w : First(p)
  BY <1>4
<1>6. \A k \in 1..w : BitAt(a, k) = IF k <= p THEN 1 ELSE 0
  BY <1>3, <1>5
<1>7. MaskPrefix(a) = p
  BY <1>5, <1>6, MaskPrefixCounts DEF w
<1>8. QED
  BY <1>5, <1>6, <1>7 DEF w

(* A prefix above zero is the one whose mask was read.                     *)
LEMMA MaskOfPrefix ==
  ASSUME NEW v \in {4, 6}, NEW a \in Addresses(v),
         MaskPrefix(a) \notin {Refused, 0}
  PROVE  MaskPrefix(a) \in 1..Width(v) /\ Mask(v, MaskPrefix(a)) = a
<1> DEFINE p == MaskPrefix(a)
           c == Mask(v, p)
<1>1. p \in 1..Width(v)
  BY MaskPrefixIs, Sizes
<1>2. \A k \in 1..Width(v) : BitAt(a, k) = IF k <= p THEN 1 ELSE 0
  BY MaskPrefixIs
<1> HIDE DEF p
<1>3. /\ c \in Addresses(v)
      /\ \A k \in 1..Width(v) : BitAt(c, k) = IF k <= p THEN 1 ELSE 0
  BY <1>1, MaskIs
<1> HIDE DEF c
<1>4. c = a
  BY <1>2, <1>3, SameAddressBits
<1>5. QED
  BY <1>1, <1>4 DEF c, p

(* For any widths, the mask of a valid prefix has that prefix, and a       *)
(* prefix above zero leads back to the mask it was read from: the two      *)
(* calculations the interfaces and the scan rely on are inverse.           *)
THEOREM MasksRoundTrip == CallsSpec => []MaskRoundTrip
<1>1. CallsTypeOK => MaskRoundTrip
  <2> SUFFICES ASSUME CallsTypeOK, ip # Refused
               PROVE  MaskRoundTrip
    BY DEF MaskRoundTrip
  <2>1. PICK v \in {4, 6} : ip \in Addresses(v)
    BY DEF CallsTypeOK
  <2>2. ip.version = v
    BY <2>1, AddressIs
  <2>3. ASSUME ValidPrefix(v, prefix)
        PROVE  MaskPrefix(Mask(v, prefix)) = prefix
    <3>1. prefix \in 1..Width(v)
      BY <2>3 DEF ValidPrefix
    <3>2. prefix \in 0..Width(v)
      BY <3>1, Sizes
    <3>3. /\ Mask(v, prefix) \in Addresses(v)
          /\ \A k \in 1..Width(v) :
               BitAt(Mask(v, prefix), k) = IF k <= prefix THEN 1 ELSE 0
      BY <3>1, MaskIs
    <3>4. QED
      BY <3>2, <3>3, MaskPrefixCounts
  <2>4. ASSUME MaskPrefix(ip) \notin {Refused, 0}
        PROVE  Mask(v, MaskPrefix(ip)) = ip
    BY <2>1, <2>4, MaskOfPrefix
  <2>5. QED
    BY <2>2, <2>3, <2>4 DEF MaskRoundTrip
<1>2. QED
  BY <1>1, CallsType, PTL

(* A base address has the ones that the address and the mask have both.    *)
LEMMA BaseAddressBits ==
  ASSUME NEW v \in {4, 6}, NEW a \in Addresses(v), NEW c \in Addresses(v)
  PROVE  /\ BaseAddress(a, c) \in Addresses(v)
         /\ \A k \in 1..Width(v) :
              BitAt(BaseAddress(a, c), k) = BitAt(a, k) * BitAt(c, k)
<1>0. a.version = v /\ c.version = v
  BY AddressIs
<1>1. CASE v = 4
  <2> DEFINE w == Width(4)
             x == BitAnd(Number(a), Number(c), w)
  <2>1. BaseAddress(a, c) = FromUint32(x)
    BY <1>0, <1>1, ToUint32IsNumber DEF BaseAddress
  <2>2. w \in Nat /\ Number(a) \in Nat /\ Number(c) \in Nat
    BY AddressIs, Sizes
  <2>3. /\ x \in Nat /\ x < Pow2[w]
        /\ \A m \in 0..(w - 1) :
             Bit(x, m) = Bit(Number(a), m) * Bit(Number(c), m)
    <3> HIDE DEF w
    <3>1. QED
      BY <2>2, BitAndBits
  <2> HIDE DEF x
  <2>4. FromUint32(x) \in Addresses(4) /\ Number(FromUint32(x)) = x
    BY <2>3, FromUint32IsAddress
  <2>5. ASSUME NEW k \in 1..w
        PROVE  BitAt(FromUint32(x), k) = BitAt(a, k) * BitAt(c, k)
    <3>1. w - k \in 0..(w - 1)
      BY <2>2
    <3>2. /\ BitAt(FromUint32(x), k) = Bit(x, w - k)
          /\ BitAt(a, k) = Bit(Number(a), w - k)
          /\ BitAt(c, k) = Bit(Number(c), w - k)
      BY <1>1, <2>4, BitAtIs
    <3> HIDE DEF w
    <3>3. QED
      BY <2>3, <3>1, <3>2
  <2>6. QED
    BY <1>1, <2>1, <2>4, <2>5
<1>2. CASE v = 6
  <2> DEFINE n == Segments
             b == SegmentBits
             X(i) == BitAnd(a.value[i], c.value[i], b)
             e == [version |-> 6, value |-> [i \in 1..n |-> X(i)]]
  <2>1. /\ n \in Nat \ {0} /\ b \in Nat \ {0} /\ Width(6) = n * b
        /\ n * b \in Nat
        /\ Digits(6) = n /\ DigitBits(6) = b /\ Radix(6) = Pow2[b]
    BY Sizes DEF Width, Digits, DigitBits, Radix
  <2>2. /\ a.value \in [1..n -> 0..(Pow2[b] - 1)]
        /\ c.value \in [1..n -> 0..(Pow2[b] - 1)]
        /\ a = [version |-> 6, value |-> a.value]
        /\ Pow2[b] \in Nat \ {0}
    BY <1>2, <2>1, AddressIs, Powers
  <2>3. BaseAddress(a, c) = e
    <3>1. BaseAddress(a, c) = [a EXCEPT !.value = [i \in 1..n |-> X(i)]]
      BY <1>0, <1>2 DEF BaseAddress
    <3>2. ASSUME NEW f, NEW g, a = [version |-> 6, value |-> f]
          PROVE  [a EXCEPT !.value = g] = [version |-> 6, value |-> g]
      BY ONLY <3>2
    <3>3. QED
      BY <2>2, <3>1, <3>2
  <2>4. \A i \in 1..n : e.value[i] = X(i)
    OBVIOUS
  <2>5. e.version = 6 /\ e.value = [i \in 1..n |-> e.value[i]]
        /\ e = [version |-> 6, value |-> e.value]
    OBVIOUS
  <2> HIDE DEF e
  <2>6. ASSUME NEW i \in 1..n
        PROVE  /\ e.value[i] \in 0..(Pow2[b] - 1)
               /\ \A t \in 0..(b - 1) :
                    Bit(e.value[i], t) = Bit(a.value[i], t)
                                           * Bit(c.value[i], t)
    <3>1. a.value[i] \in Nat /\ c.value[i] \in Nat /\ b \in Nat
      BY <2>1, <2>2
    <3>2. /\ X(i) \in Nat /\ X(i) < Pow2[b]
          /\ \A t \in 0..(b - 1) :
               Bit(X(i), t) = Bit(a.value[i], t) * Bit(c.value[i], t)
      BY <3>1, BitAndBits
    <3>3. e.value[i] = X(i)
      BY <2>4
    <3> HIDE DEF X
    <3>4. QED
      BY <2>2, <3>2, <3>3
  <2>7. e.value \in [1..n -> 0..(Pow2[b] - 1)]
    BY <2>5, <2>6
  <2>8. e \in Addresses(6)
    BY <2>1, <2>5, <2>7 DEF Addresses
  <2>9. ASSUME NEW k \in 1..Width(6)
        PROVE  BitAt(e, k) = BitAt(a, k) * BitAt(c, k)
    <3> DEFINE q == (k - 1) \div b
               m == (k - 1) % b
               t == b - 1 - m
    <3>1. /\ BitAt(e, k) = Bit(e.value[1 + q], t)
          /\ BitAt(a, k) = Bit(a.value[1 + q], t)
          /\ BitAt(c, k) = Bit(c.value[1 + q], t)
      BY <1>0, <1>2, <2>1, <2>5 DEF BitAt
    <3>2. k - 1 \in Nat /\ k - 1 < n * b
      BY <2>1
    <3> HIDE DEF n, b
    <3>3. q \in Nat /\ m \in 0..(b - 1) /\ k - 1 = q * b + m
      BY ONLY <2>1, <3>2, Division
    <3> HIDE DEF q, m
    <3>4. q < n
      BY ONLY <2>1, <3>2, <3>3
    <3>5. 1 + q \in 1..n /\ t \in 0..(b - 1)
      BY <2>1, <3>3, <3>4
    <3> HIDE DEF t
    <3>6. QED
      BY <2>6, <3>1, <3>5
  <2>10. QED
    BY <1>2, <2>3, <2>8, <2>9
<1>3. QED
  BY <1>1, <1>2

(* The base address is the address with the bits of the host cleared.      *)
LEMMA BaseAddressIs ==
  ASSUME NEW v \in {4, 6}, NEW a \in Addresses(v), NEW p \in 1..Width(v),
         NEW u, u = Pow2[Width(v) - p]
  PROVE  /\ BaseAddress(a, Mask(v, p)) \in Addresses(v)
         /\ Number(BaseAddress(a, Mask(v, p))) = (Number(a) \div u) * u
<1> DEFINE w == Width(v)
           q == w - p
           c == Mask(v, p)
           e == BaseAddress(a, c)
           x == Number(a)
           y == (x \div u) * u
<1>1. w \in Nat /\ q \in Nat /\ p \in 1..w /\ u = Pow2[q]
      /\ u \in Nat \ {0}
  BY Sizes, Powers
<1>2. x \in Nat /\ x < Pow2[w] /\ Pow2[w] \in Nat
  BY <1>1, AddressIs, Powers
<1>3. /\ c \in Addresses(v)
      /\ \A k \in 1..w : BitAt(c, k) = IF k <= p THEN 1 ELSE 0
  BY MaskIs
<1> HIDE DEF c
<1>4. /\ e \in Addresses(v)
      /\ \A k \in 1..w : BitAt(e, k) = BitAt(a, k) * BitAt(c, k)
  BY <1>3, BaseAddressBits
<1> HIDE DEF e
<1>5. Number(e) \in Nat /\ Number(e) < Pow2[w]
  BY <1>4, AddressIs
<1>6. y \in Nat /\ y < Pow2[w]
  <2> DEFINE z == x \div u
  <2> HIDE DEF x
  <2>1. z \in Nat /\ x % u \in 0..(u - 1) /\ x = z * u + (x % u)
    BY ONLY <1>1, <1>2, Division
  <2> HIDE DEF z
  <2>2. z * u \in Nat
    BY ONLY <1>1, <2>1
  <2>3. z * u <= x
    BY <1>1, <1>2, <2>1, <2>2
  <2>4. QED
    BY <1>2, <2>2, <2>3 DEF z
<1>7. ASSUME NEW m \in 0..(w - 1) PROVE Bit(Number(e), m) = Bit(y, m)
  <2> DEFINE k == w - m
  <2>1. k \in 1..w /\ w - k = m /\ m \in Nat /\ (k <= p <=> m >= q)
    BY <1>1
  <2>2. Bit(y, m) = IF m >= q THEN Bit(x, m) ELSE 0
    BY <1>1, <1>2, <2>1, ClearedBits
  <2>3. BitAt(e, k) = Bit(Number(e), m)
    BY <1>4, <2>1, BitAtIs
  <2>4. BitAt(a, k) = Bit(x, m)
    BY <2>1, BitAtIs
  <2>5. Bit(x, m) \in {0, 1}
    BY <1>2, <2>1, BitType
  <2> HIDE DEF k, x, y, q, w
  <2>6. QED
    BY <1>3, <1>4, <2>1, <2>2, <2>3, <2>4, <2>5
<1> HIDE DEF y
<1>8. Number(e) = y
  BY <1>1, <1>5, <1>6, <1>7, SameBits
<1>9. QED
  BY <1>4, <1>8 DEF c, e, y

(* A prefix splits the numbers of a version in networks of equal size.     *)
LEMMA PrefixSplits ==
  ASSUME NEW v \in {4, 6}, NEW p \in 1..Width(v)
  PROVE  /\ Pow2[Width(v)] \in Nat
         /\ Pow2[p] \in Nat \ {0} /\ Pow2[Width(v) - p] \in Nat \ {0}
         /\ Pow2[Width(v)] = Pow2[p] * Pow2[Width(v) - p]
         /\ Pow2[Width(v) - p] <= Pow2[Width(v)]
<1> DEFINE w == Pow2[Width(v)]
           o == Pow2[p]
           u == Pow2[Width(v) - p]
<1>1. /\ w \in Nat /\ o \in Nat \ {0} /\ u \in Nat \ {0} /\ w = o * u
  <2>1. /\ Width(v) \in Nat /\ p \in Nat /\ Width(v) - p \in Nat
        /\ p + (Width(v) - p) = Width(v)
    BY Sizes
  <2>2. Pow2[p + (Width(v) - p)] = Pow2[p] * Pow2[Width(v) - p]
    BY ONLY <2>1, PowerSum
  <2>3. QED
    BY <2>1, <2>2, Powers
<1> HIDE DEF w, o, u
<1>2. u <= w
  BY ONLY <1>1
<1>3. QED
  BY <1>1, <1>2 DEF w, o, u

(* An index leads to an address of the network exactly when the host bits  *)
(* can hold it.                                                            *)
LEMMA InsideNetwork ==
  ASSUME NEW v \in {4, 6}, NEW a \in Addresses(v), NEW p \in 1..Width(v),
         NEW k \in 0..(Pow2[IndexBits] - 1), NEW c, c = Mask(v, p),
         NEW e, e = BaseAddress(a, c), NEW new, new = NewAddress(e, k)
  PROVE  IF k < Pow2[Width(v) - p]
         THEN new \in Addresses(v) /\ BaseAddress(new, c) = e
         ELSE new = Refused \/ BaseAddress(new, c) # e
<1> DEFINE w == Pow2[Width(v)]
           o == Pow2[p]
           u == Pow2[Width(v) - p]
           z == Number(a) \div u
           y == z * u
<1>1. /\ w \in Nat /\ o \in Nat \ {0} /\ u \in Nat \ {0} /\ w = o * u
  BY PrefixSplits
<1>2. Number(a) \in Nat /\ Number(a) < w
  BY AddressIs
<1>3. e \in Addresses(v) /\ Number(e) = y
  BY BaseAddressIs
<1>4. ASSUME v = 4 => Number(e) + k < Pow2[IndexBits]
      PROVE  IF Number(e) + k < w
             THEN new \in Addresses(v) /\ Number(new) = Number(e) + k
             ELSE new = Refused
  <2>1. k \in Nat
    OBVIOUS
  <2>2. QED
    BY <1>3, <1>4, <2>1, NewAddressSum
<1>5. ASSUME new \in Addresses(v)
      PROVE  /\ BaseAddress(new, c) \in Addresses(v)
             /\ Number(BaseAddress(new, c)) = (Number(new) \div u) * u
  BY <1>5, BaseAddressIs
<1>6. z \in Nat /\ z < o
  <2> DEFINE x == Number(a)
             r == x % u
  <2>1. x \in Nat /\ x < o * u
    BY <1>1, <1>2
  <2> HIDE DEF w, o, u, x
  <2>2. z \in Nat /\ r \in 0..(u - 1) /\ x = z * u + r
    BY ONLY <1>1, <2>1, Division DEF z, x
  <2> HIDE DEF z, r
  <2>3. z < o
    BY ONLY <1>1, <2>1, <2>2
  <2>4. QED
    BY <2>2, <2>3
<1> HIDE DEF z, w, o, u
<1>7. y \in Nat /\ y + u <= w
  BY ONLY <1>1, <1>6
<1>8. CASE k < u
  <2>1. y + k < w /\ y + k \in Nat
    BY <1>1, <1>7, <1>8
  <2>2. v = 4 => y + k < Pow2[IndexBits]
    BY <1>1, <2>1, IndexIsWider DEF w
  <2>3. new \in Addresses(v) /\ Number(new) = y + k
    BY <1>3, <1>4, <2>1, <2>2
  <2>4. (y + k) \div u = z
    <3>1. k \in 0..(u - 1) /\ u \in Nat \ {0}
      BY <1>1, <1>8
    <3>2. z \in Nat /\ y + k = z * u + k /\ y + k \in Nat
      BY <1>6, <2>1
    <3> HIDE DEF y
    <3>3. QED
      BY ONLY <3>1, <3>2, Quotient
  <2>5. Number(BaseAddress(new, c)) = Number(e)
    BY <1>3, <1>5, <2>3, <2>4
  <2>6. BaseAddress(new, c) = e
    BY <1>3, <1>5, <2>3, <2>5, SameNumber
  <2>7. QED
    BY <1>8, <2>3, <2>6 DEF u
<1>9. CASE ~(k < u)
  <2>1. CASE v = 4 /\ ~(y + k < Pow2[IndexBits])
    <3> DEFINE x == Added(e, k)
    <3>1. x \in Nat /\ x < y
      BY <1>3, <2>1, WrappedSumIsLower
    <3>2. x < w
      BY <1>1, <1>7, <3>1
    <3>3. new \in Addresses(v) /\ Number(new) = x
      BY <1>3, <3>2, NewAddressIs DEF w
    <3> HIDE DEF x, y
    <3>4. (x \div u) * u # y
      <4> DEFINE q == x \div u
                 r == x % u
      <4>1. q \in Nat /\ r \in 0..(u - 1) /\ x = q * u + r
        BY ONLY <1>1, <3>1, Division
      <4> HIDE DEF q, r
      <4>2. q * u \in Nat /\ q * u <= x
        BY ONLY <1>1, <3>1, <4>1
      <4>3. q * u # y
        BY ONLY <1>7, <3>1, <4>2
      <4>4. QED
        BY <4>3 DEF q
    <3> USE DEF y
    <3>5. Number(BaseAddress(new, c)) # Number(e)
      BY <1>3, <1>5, <3>3, <3>4
    <3>6. QED
      BY <1>9, <3>5 DEF u
  <2>2. CASE y + k < w /\ (v = 4 => y + k < Pow2[IndexBits])
    <3> DEFINE x == y + k
               z2 == x \div u
               r == x % u
    <3>1. new \in Addresses(v) /\ Number(new) = x /\ x \in Nat
      BY <1>3, <1>4, <1>7, <2>2
    <3>2. x = y + k
      OBVIOUS
    <3> HIDE DEF x
    <3>3. z2 \in Nat /\ r \in 0..(u - 1) /\ x = z2 * u + r
      BY ONLY <1>1, <3>1, Division
    <3> HIDE DEF z2, r
    <3>4. z2 * u # y
      <4>1. z2 * u \in Nat
        BY ONLY <1>1, <3>3
      <4> HIDE DEF y
      <4>2. QED
        BY <1>1, <1>7, <1>9, <3>2, <3>3, <4>1
    <3>5. Number(BaseAddress(new, c)) # Number(e)
      BY <1>3, <1>5, <3>1, <3>4 DEF z2
    <3>6. QED
      BY <1>9, <3>5 DEF u
  <2>3. CASE ~(y + k < w) /\ (v = 4 => y + k < Pow2[IndexBits])
    BY <1>3, <1>4, <1>9, <2>3 DEF u
  <2>4. QED
    BY <2>1, <2>2, <2>3
<1>10. QED
  BY <1>8, <1>9

(* For any widths, the base address and the number of hosts describe one   *)
(* network: an index below the number leads to an address with the same    *)
(* base, and unless the number was saturated no other index does.          *)
THEOREM CountsFitNetworks == CallsSpec => []CountFitsNetwork
<1>1. CallsTypeOK => CountFitsNetwork
  <2> SUFFICES ASSUME CallsTypeOK, ip # Refused,
                      ValidPrefix(ip.version, prefix)
               PROVE  CountFitsNetwork
    BY DEF CountFitsNetwork
  <2>1. PICK v \in {4, 6} : ip \in Addresses(v)
    BY DEF CallsTypeOK
  <2>2. /\ ip.version = v /\ prefix \in 1..Width(v)
        /\ index \in Nat /\ index \in 0..(Pow2[IndexBits] - 1)
    BY <2>1, AddressIs DEF ValidPrefix, CallsTypeOK
  <2> DEFINE mask  == Mask(ip.version, prefix)
             base  == BaseAddress(ip, mask)
             count == AddressCount(ip.version, prefix)
             new   == NewAddress(base, index)
             inside == new # Refused /\ BaseAddress(new, mask) = base
             hosts == Pow2[Width(v) - prefix]
             full  == Pow2[IndexBits]
  <2>3. IF index < hosts
        THEN new \in Addresses(v) /\ BaseAddress(new, mask) = base
        ELSE new = Refused \/ BaseAddress(new, mask) # base
    BY <2>1, <2>2, InsideNetwork
  <2>4. new \in Addresses(v) => new # Refused
    <3> HIDE DEF new
    <3>1. v = 4 \/ v = 6
      OBVIOUS
    <3>2. QED
      BY <3>1, RefusedAssumption
  <2>5. inside <=> index < hosts
    BY <2>3, <2>4
  <2>6. count = IF v = 6 /\ Width(6) - prefix >= IndexBits
                THEN full - 1 ELSE hosts
    BY <2>2 DEF AddressCount, ValidPrefix
  <2>7. hosts \in Nat /\ full \in Nat
    <3>1. Width(v) - prefix \in Nat /\ IndexBits \in Nat
      BY <2>2, Sizes, WidthsAssumption
    <3>2. QED
      BY <3>1, Powers
  <2>8. ASSUME v = 6, Width(6) - prefix >= IndexBits
        PROVE  full <= hosts
    <3> DEFINE l == Width(6) - prefix - IndexBits
               o == Pow2[l]
    <3>1. l \in Nat /\ IndexBits \in Nat /\ IndexBits + l = Width(v) - prefix
      BY <2>2, <2>8, Sizes, WidthsAssumption
    <3>2. Pow2[IndexBits + l] = Pow2[IndexBits] * Pow2[l]
      BY ONLY <3>1, PowerSum
    <3>3. o \in Nat \ {0} /\ hosts = full * o
      BY <3>1, <3>2, Powers
    <3> HIDE DEF o, hosts, full
    <3>4. full <= full * o
      BY ONLY <2>7, <3>3
    <3>5. QED
      BY <3>3, <3>4
  <2> HIDE DEF new, inside, hosts, full, count
  <2>9. index < count => inside
    BY <2>2, <2>5, <2>6, <2>7, <2>8
  <2>10. count < full - 1 => (inside => index < count)
    BY <2>5, <2>6, <2>7
  <2>11. QED
    BY <2>9, <2>10
       DEF CountFitsNetwork, new, inside, count, full
<1>2. QED
  BY <1>1, CallsType, PTL
-----------------------------------------------------------------------------
(* Texts.  Induction over a text is induction over its characters or over  *)
(* its length; what is written in parts is read in the same parts          *)
(* (SplitJoin, JoinSplit), and what is written with digits is read as the  *)
(* same number (NumeralHas, NumeralOfValue).                               *)

(* A set that has the empty sequence, and with a sequence all that are one *)
(* element longer, has all sequences.                                      *)
LEMMA SequenceInduction ==
  ASSUME NEW C, NEW S, <<>> \in S,
         \A s \in Seq(C) : \A c \in C : s \in S => Append(s, c) \in S
  PROVE  \A s \in Seq(C) : s \in S
<1> SUFFICES ASSUME NEW s \in Seq(C) PROVE s \in S
  OBVIOUS
<1> DEFINE n == Len(s)
           Front(k) == SubSeq(s, 1, k)
           T == {k \in 0..n : Front(k) \in S}
<1>1. n \in Nat /\ Front(n) = s /\ \A k \in 1..n : s[k] \in C
  BY LenProperties, SubSeqFull
<1>2. Front(0) = <<>>
  BY SubSeqEmpty
<1>3. ASSUME NEW k \in 0..(n - 1)
      PROVE  Front(k) \in Seq(C) /\ Front(k + 1) = Append(Front(k), s[k + 1])
  <2>1. /\ k \in 0..n /\ k + 1 \in 1..n /\ (k + 1) - 1 = k
        /\ 1 \in 1..n /\ k + 1 \in 1..n
    BY <1>1
  <2>2. \A m \in 1..k : s[m] \in C
    BY <1>1, <2>1
  <2>3. Front(k) \in Seq(C)
    BY <1>1, <2>1, <2>2, SubSeqProperties
  <2>4. Front(k + 1) = Front(k) \o <<s[k + 1]>>
    BY <2>1, SubSeqRecursiveSecond
  <2> HIDE DEF Front, n
  <2>5. Front(k + 1) = Append(Front(k), s[k + 1])
    BY <1>1, <2>1, <2>3, <2>4, AppendIsConcat
  <2>6. QED
    BY <2>3, <2>5
<1> HIDE DEF Front, n
<1>4. 0 \in T
  BY <1>1, <1>2
<1>5. ASSUME NEW k \in 0..(n - 1), k \in T PROVE k + 1 \in T
  <2>1. k + 1 \in 0..n /\ s[k + 1] \in C /\ Front(k) \in S
    BY <1>1, <1>5
  <2>2. QED
    BY <1>3, <2>1
<1>6. n \in T
  <2> HIDE DEF T
  <2>1. QED
    BY <1>1, <1>4, <1>5, Induction
<1>7. QED
  BY <1>1, <1>6

(* A set that has every number of which it has all lower ones.             *)
LEMMA StrongInduction ==
  ASSUME NEW S,
         \A n \in Nat : (\A k \in 0..(n - 1) : k \in S) => n \in S
  PROVE  \A n \in Nat : n \in S
<1> DEFINE Bad == {n \in Nat : n \notin S}
<1> SUFFICES ASSUME Bad # {} PROVE FALSE
  OBVIOUS
<1>1. PICK n \in Bad : \A k \in Bad : n <= k
  <2>1. Bad \in SUBSET Nat
    OBVIOUS
  <2> HIDE DEF Bad
  <2>2. QED
    BY <2>1, LeastNumber
<1>2. \A k \in 0..(n - 1) : k \in Nat /\ k < n
  BY <1>1
<1>3. \A k \in 0..(n - 1) : k \in S
  BY <1>1, <1>2
<1>4. QED
  BY <1>1, <1>3

(* The value of a text of digits, from its first digits and the last one.  *)
LEMMA ValueIs ==
  ASSUME NEW r \in Nat \ {0}
  PROVE  /\ ValueOf(<<>>, r) = 0
         /\ \A t \in Seq(Nat) : ValueOf(t, r) \in Nat
         /\ \A t \in Seq(Nat) : \A c \in Nat :
              ValueOf(Append(t, c), r) = ValueOf(t, r) * r + c
<1>1. ASSUME NEW t \in Seq(Nat)
      PROVE  \E s : /\ Sums(s, t, Len(t), r) /\ ValueOf(t, r) = s[Len(t)]
                    /\ ValueOf(t, r) \in Nat
  <2>1. Len(t) \in Nat /\ t \in [1..Len(t) -> Nat]
    BY LenProperties
  <2>2. PICK s : Sums(s, t, Len(t), r) /\ ValueOf(t, r) = s[Len(t)]
    BY <2>1, PositionalSums DEF ValueOf
  <2>3. ValueOf(t, r) \in Nat
    BY <2>1, <2>2 DEF Sums
  <2>4. QED
    BY <2>2, <2>3
<1>2. ValueOf(<<>>, r) = 0
  <2>1. <<>> \in Seq(Nat) /\ Len(<<>>) = 0
    BY EmptySeq
  <2>2. QED
    BY <1>1, <2>1 DEF Sums
<1>3. ASSUME NEW t \in Seq(Nat), NEW c \in Nat
      PROVE  ValueOf(Append(t, c), r) = ValueOf(t, r) * r + c
  <2> DEFINE u == Append(t, c)
             n == Len(t)
  <2>1. /\ u \in Seq(Nat) /\ Len(u) = n + 1 /\ n \in Nat
        /\ u[n + 1] = c /\ \A k \in 1..n : u[k] = t[k]
    BY AppendProperties, LenProperties
  <2> HIDE DEF u, n
  <2>2. PICK s : Sums(s, t, n, r) /\ ValueOf(t, r) = s[n]
    BY <1>1 DEF n
  <2>3. PICK q : Sums(q, u, n + 1, r) /\ ValueOf(u, r) = q[n + 1]
    BY <1>1, <2>1
  <2> DEFINE S == {k \in 0..n : q[k] = s[k]}
  <2>4. 0 \in S
    BY <2>1, <2>2, <2>3 DEF Sums
  <2>5. ASSUME NEW k \in 0..(n - 1), k \in S PROVE k + 1 \in S
    <3>1. /\ k + 1 \in 1..n /\ k + 1 \in 1..(n + 1) /\ (k + 1) - 1 = k
          /\ k + 1 \in 0..n
      BY <2>1
    <3>2. /\ q[k + 1] = q[k] * r + u[k + 1]
          /\ s[k + 1] = s[k] * r + t[k + 1]
      BY <2>2, <2>3, <3>1 DEF Sums
    <3>3. QED
      BY <2>1, <2>5, <3>1, <3>2
  <2>6. n \in S
    <3> HIDE DEF S
    <3>1. QED
      BY <2>1, <2>4, <2>5, Induction
  <2>7. q[n + 1] = q[n] * r + u[n + 1]
    <3>1. n + 1 \in 1..(n + 1) /\ (n + 1) - 1 = n
      BY <2>1
    <3>2. QED
      BY <2>3, <3>1 DEF Sums
  <2>8. QED
    BY <2>1, <2>2, <2>3, <2>6, <2>7 DEF u
<1>4. QED
  BY <1>1, <1>2, <1>3

(* The last digit of a number, and what is left of it.                     *)
LEMMA LastDigit ==
  ASSUME NEW n \in Nat, NEW b \in Nat \ {0, 1}
  PROVE  /\ n \div b \in Nat /\ n % b \in 0..(b - 1)
         /\ n = (n \div b) * b + (n % b)
         /\ n \div b <= n
         /\ n > 0 => n \div b < n
         /\ n >= b => n \div b > 0
<1> DEFINE q == n \div b
           d == n % b
<1>1. q \in Nat /\ d \in 0..(b - 1) /\ n = q * b + d
  BY Division
<1> HIDE DEF q, d
<1>2. 2 * q <= q * b
  <2>1. 2 \in Nat /\ b \in Nat /\ 2 <= b /\ q \in Nat
    BY <1>1
  <2>2. 2 * q <= b * q
    BY ONLY <2>1, ProductMonotonic
  <2>3. b * q = q * b
    BY ONLY <2>1
  <2>4. QED
    BY <2>2, <2>3
<1>3. q * b \in Nat
  BY ONLY <1>1, b \in Nat
<1>4. 2 * q <= n
  BY ONLY <1>1, <1>2, <1>3, n \in Nat, b \in Nat
<1>5. n >= b => q > 0
  <2> SUFFICES ASSUME n >= b, q = 0 PROVE FALSE
    BY <1>1
  <2>1. n = d
    BY <1>1
  <2>2. QED
    BY <1>1, <2>1
<1>6. /\ q <= n
      /\ n > 0 => q < n
      /\ n >= b => q > 0
  BY ONLY <1>1, <1>4, <1>5, n \in Nat
<1>7. /\ q \in Nat /\ d \in 0..(b - 1)
      /\ n = q * b + d
      /\ q <= n
      /\ n > 0 => q < n
      /\ n >= b => q > 0
  BY <1>1, <1>6
<1>8. QED
  BY <1>7 DEF q, d

(* A numeral is the numeral of what is left, and the last digit.           *)
LEMMA NumeralIs ==
  ASSUME NEW n \in Nat, NEW b \in Nat \ {0, 1}
  PROVE  Numeral(n, b) = IF n < b THEN <<n>>
                         ELSE Append(Numeral(n \div b, b), n % b)
<1> DEFINE Is(f, m) ==
             f = [k \in 0..m |-> IF k < b THEN <<k>>
                                 ELSE Append(f[k \div b], k % b)]
<1> DEFINE At(f, k) == IF k < b THEN <<k>> ELSE Append(f[k \div b], k % b)
<1>a. ASSUME NEW m \in Nat, NEW f, Is(f, m), NEW k \in 0..m
      PROVE  f[k] = At(f, k)
  BY <1>a
<1>1. ASSUME NEW m \in Nat PROVE \E f : Is(f, m)
  <2> DEFINE S == {k \in 0..m : \E f : Is(f, k)}
  <2>1. 0 \in S
    <3>1. Is([k \in 0..0 |-> <<k>>], 0)
      OBVIOUS
    <3>2. 0 \in 0..m
      OBVIOUS
    <3> HIDE DEF Is
    <3>3. QED
      BY <3>1, <3>2
  <2>2. ASSUME NEW k \in 0..(m - 1), k \in S PROVE k + 1 \in S
    <3>1. PICK f : Is(f, k)
      BY <2>2
    <3> DEFINE g == [i \in 0..(k + 1) |->
                       IF i < b THEN <<i>> ELSE Append(f[i \div b], i % b)]
    <3>2. ASSUME NEW i \in 0..k PROVE g[i] = f[i]
      <4>1. f[i] = At(f, i)
        <5> HIDE DEF Is, At
        <5>1. QED
          BY <1>a, <3>1
      <4>2. QED
        BY <4>1
    <3>3. ASSUME NEW i \in 0..(k + 1), ~(i < b) PROVE g[i \div b] = f[i \div b]
      <4>1. i \in Nat /\ i > 0
        BY <3>3
      <4>2. i \div b \in Nat /\ i \div b < i
        BY <4>1, LastDigit
      <4>3. i \div b \in 0..k
        BY <4>2
      <4> HIDE DEF g
      <4>4. QED
        BY <3>2, <4>3
    <3>4. ASSUME NEW i \in 0..(k + 1)
          PROVE  g[i] = IF i < b THEN <<i>> ELSE Append(g[i \div b], i % b)
      BY <3>3
    <3>5. Is(g, k + 1)
      <4>1. g = [i \in 0..(k + 1) |-> g[i]]
        OBVIOUS
      <4> HIDE DEF g
      <4>2. QED
        BY <3>4, <4>1
    <3>6. k + 1 \in 0..m
      OBVIOUS
    <3> HIDE DEF Is, g
    <3>7. QED
      BY <3>5, <3>6
  <2>3. m \in S
    <3> HIDE DEF S
    <3>1. QED
      BY <2>1, <2>2, Induction
  <2>4. QED
    BY <2>3
<1>2. ASSUME NEW m \in Nat, NEW o \in Nat, NEW f, Is(f, m), NEW g, Is(g, o)
      PROVE  \A k \in Nat : k <= m /\ k <= o => f[k] = g[k]
  <2> DEFINE S == {k \in Nat : k <= m /\ k <= o => f[k] = g[k]}
  <2>1. ASSUME NEW k \in Nat, \A i \in 0..(k - 1) : i \in S PROVE k \in S
    <3> SUFFICES ASSUME k <= m, k <= o PROVE f[k] = g[k]
      OBVIOUS
    <3>1. f[k] = At(f, k) /\ g[k] = At(g, k)
      <4>1. k \in 0..m /\ k \in 0..o
        OBVIOUS
      <4> HIDE DEF Is, At
      <4>2. QED
        BY <1>a, <1>2, <4>1
    <3>2. CASE k < b
      BY <3>1, <3>2
    <3>3. CASE ~(k < b)
      <4>1. k \div b \in 0..(k - 1)
        <5>1. k > 0
          BY <3>3
        <5>2. k \div b \in Nat /\ k \div b < k
          BY <5>1, LastDigit
        <5> DEFINE q == k \div b
        <5> HIDE DEF q
        <5>3. q \in Nat /\ q < k
          BY <5>2 DEF q
        <5>4. q \in 0..(k - 1)
          BY ONLY <5>3, k \in Nat
        <5>5. QED
          BY <5>4 DEF q
      <4>2. k \div b \in S
        BY <2>1, <4>1
      <4>3. f[k \div b] = g[k \div b]
        BY <4>1, <4>2
      <4>4. QED
        BY <3>1, <3>3, <4>3
    <3>4. QED
      BY <3>2, <3>3
  <2>2. \A k \in Nat : k \in S
    <3> HIDE DEF S
    <3>1. QED
      BY <2>1, StrongInduction
  <2>3. QED
    BY <2>2
<1>3. ASSUME NEW m \in Nat PROVE \E f : Is(f, m) /\ Numeral(m, b) = f[m]
  <2>1. PICK f : Is(f, m)
    BY <1>1
  <2> DEFINE digits[k \in 0..m] ==
               IF k < b THEN <<k>> ELSE Append(digits[k \div b], k % b)
  <2>2. digits = [k \in 0..m |-> IF k < b THEN <<k>>
                                 ELSE Append(digits[k \div b], k % b)]
    BY <2>1
  <2>3. Numeral(m, b) = digits[m]
    BY DEF Numeral
  <2> HIDE DEF digits
  <2>4. QED
    BY <2>2, <2>3
<1>4. PICK f : Is(f, n) /\ Numeral(n, b) = f[n]
  BY <1>3
<1>5. f[n] = At(f, n)
  <2>1. n \in 0..n
    OBVIOUS
  <2> HIDE DEF Is, At
  <2>2. QED
    BY <1>a, <1>4, <2>1
<1>6. n \div b \in Nat /\ n \div b <= n
  BY LastDigit
<1>7. Numeral(n \div b, b) = f[n \div b]
  <2>1. PICK g : Is(g, n \div b) /\ Numeral(n \div b, b) = g[n \div b]
    BY <1>3, <1>6
  <2> HIDE DEF Is
  <2>2. \A k \in Nat : k <= n /\ k <= n \div b => f[k] = g[k]
    BY <1>2, <1>4, <1>6, <2>1
  <2>3. QED
    BY <1>6, <2>1, <2>2
<1>8. QED
  BY <1>4, <1>5, <1>7

(* A text of digits does not begin with a zero that could be left out.     *)
Leads(token) == Len(token) > 1 => token[1] # 0

(* One more digit at the end.                                              *)
LEMMA Appended ==
  ASSUME NEW T, NEW t \in Seq(T), NEW c \in T
  PROVE  /\ Append(t, c) \in Seq(T)
         /\ Append(t, c) # <<>>
         /\ Len(t) \in Nat
         /\ Len(Append(t, c)) = Len(t) + 1
         /\ Append(t, c)[Len(t) + 1] = c
         /\ \A k \in 1..Len(t) : Append(t, c)[k] = t[k] /\ t[k] \in T
         /\ t # <<>> => Len(t) > 0
         /\ Len(t) > 0 => Append(t, c)[1] = t[1]
<1>1. /\ Append(t, c) \in Seq(T)
      /\ Append(t, c) # <<>>
      /\ Len(Append(t, c)) = Len(t) + 1
      /\ \A k \in 1..Len(t) : Append(t, c)[k] = t[k]
      /\ Append(t, c)[Len(t) + 1] = c
  BY AppendProperties
<1>2. Len(t) \in Nat /\ \A k \in 1..Len(t) : t[k] \in T
  BY LenProperties
<1>3. t # <<>> => Len(t) > 0
  BY EmptySeq
<1> DEFINE u == Append(t, c)
           n == Len(t)
<1> HIDE DEF u, n
<1>4. n > 0 => u[1] = t[1]
  BY <1>1, <1>2 DEF u, n
<1>5. QED
  BY <1>1, <1>2, <1>3, <1>4 DEF u, n

(* What a numeral is: digits, none of which could be left out, that have   *)
(* the value of the number.                                                *)
LEMMA NumeralHas ==
  ASSUME NEW b \in Nat \ {0, 1}
  PROVE  \A n \in Nat :
           /\ Numeral(n, b) \in Seq(0..(b - 1))
           /\ Numeral(n, b) # <<>>
           /\ Leads(Numeral(n, b))
           /\ n > 0 => Numeral(n, b)[1] # 0
           /\ ValueOf(Numeral(n, b), b) = n
<1> DEFINE D == 0..(b - 1)
           Good(t, n) == /\ t \in Seq(D)
                         /\ t # <<>>
                         /\ Leads(t)
                         /\ n > 0 => t[1] # 0
                         /\ ValueOf(t, b) = n
           S == {n \in Nat : Good(Numeral(n, b), n)}
<1>1. D \subseteq Nat /\ b \in Nat \ {0}
  OBVIOUS
<1> HIDE DEF D
<1>2. ASSUME NEW n \in Nat, \A k \in 0..(n - 1) : k \in S PROVE n \in S
  <2>1. CASE n < b
    <3>1. Numeral(n, b) = <<n>>
      BY <2>1, NumeralIs
    <3>2. <<>> \in Seq(D) /\ <<>> \in Seq(Nat) /\ Len(<<>>) = 0 /\ n \in D
      BY <2>1, EmptySeq DEF D
    <3>3. <<n>> = Append(<<>>, n)
      OBVIOUS
    <3>4. ValueOf(<<n>>, b) = 0 * b + n
      BY <1>1, <3>2, <3>3, ValueIs
    <3>5. <<n>> \in Seq(D) /\ Len(<<n>>) = 1 /\ <<n>>[1] = n /\ <<n>> # <<>>
      BY <3>2
    <3>6. 0 * b + n = n
      OBVIOUS
    <3>7. Good(<<n>>, n)
      BY <3>4, <3>5, <3>6 DEF Leads
    <3>8. QED
      BY <3>1, <3>7
  <2>2. CASE ~(n < b)
    <3> DEFINE q == n \div b
               d == n % b
               t == Numeral(q, b)
    <3>1. /\ q \in Nat /\ d \in D /\ n = q * b + d /\ q < n /\ q > 0
      <4>1. /\ q \in Nat /\ d \in 0..(b - 1) /\ n = q * b + d
            /\ n > 0 => q < n
            /\ n >= b => q > 0
        BY LastDigit
      <4>2. n > 0 /\ n >= b
        BY <2>2
      <4> HIDE DEF q, d
      <4>3. QED
        BY <4>1, <4>2 DEF D
    <3>2. Numeral(n, b) = Append(t, d)
      BY <2>2, NumeralIs
    <3> HIDE DEF q, d
    <3>3. q \in S
      BY <1>2, <3>1
    <3>4. Good(t, q)
      BY <3>3
    <3> HIDE DEF t
    <3>5. /\ Append(t, d) \in Seq(D) /\ Append(t, d) # <<>>
          /\ Append(t, d)[1] = t[1]
      BY <3>1, <3>4, Appended
    <3>6. t \in Seq(Nat) /\ d \in Nat
      BY <1>1, <3>1, <3>4, SeqMonotonic
    <3>7. ValueOf(Append(t, d), b) = q * b + d
      BY <1>1, <3>4, <3>6, ValueIs
    <3>8. Good(Append(t, d), n)
      BY <3>1, <3>4, <3>5, <3>7 DEF Leads
    <3>9. QED
      BY <3>2, <3>8
  <2>3. QED
    BY <2>1, <2>2
<1>3. \A n \in Nat : n \in S
  <2> HIDE DEF S
  <2>1. QED
    BY <1>2, StrongInduction
<1>4. QED
  BY <1>3 DEF D

(* A text of digits none of which could be left out is the numeral of its  *)
(* value.                                                                  *)
LEMMA NumeralOfValue ==
  ASSUME NEW b \in Nat \ {0, 1}, NEW token \in Seq(0..(b - 1)),
         token # <<>>, Leads(token)
  PROVE  Numeral(ValueOf(token, b), b) = token
<1> DEFINE D == 0..(b - 1)
           Good(t) == /\ Numeral(ValueOf(t, b), b) = t
                      /\ t[1] # 0 => ValueOf(t, b) > 0
           S == {t \in Seq(D) : t # <<>> /\ Leads(t) => Good(t)}
<1>1. D \subseteq Nat /\ b \in Nat \ {0}
  OBVIOUS
<1> HIDE DEF D
<1>2. <<>> \in S
  BY EmptySeq
<1>3. ASSUME NEW t \in Seq(D), NEW c \in D, t \in S, Leads(Append(t, c))
      PROVE  Good(Append(t, c))
  <2>1. /\ t \in Seq(Nat) /\ c \in Nat /\ c < b
        /\ ValueOf(t, b) \in Nat
        /\ ValueOf(Append(t, c), b) = ValueOf(t, b) * b + c
    <3>1. t \in Seq(Nat) /\ c \in Nat /\ c < b
      BY <1>1, SeqMonotonic DEF D
    <3>2. QED
      BY <1>1, <3>1, ValueIs
  <2>2. CASE t = <<>>
    <3>1. ValueOf(t, b) = 0
      BY <1>1, <2>2, ValueIs
    <3>2. 0 * b + c = c
      BY <2>1
    <3>3. ValueOf(Append(t, c), b) = c
      BY <2>1, <3>1, <3>2
    <3>4. Append(t, c) = <<c>> /\ <<c>>[1] = c
      BY <2>2
    <3>5. Numeral(c, b) = <<c>>
      BY <2>1, NumeralIs
    <3>6. QED
      BY <2>1, <3>3, <3>4, <3>5
  <2>3. CASE t # <<>>
    <3> DEFINE v == ValueOf(t, b)
               w == ValueOf(Append(t, c), b)
    <3>1. t[1] # 0 /\ Leads(t)
      BY <1>3, <2>3, Appended DEF Leads
    <3>2. Numeral(v, b) = t /\ v > 0
      BY <1>3, <2>3, <3>1
    <3>3. v \in Nat /\ w = v * b + c /\ c \in 0..(b - 1) /\ v * b >= b
      <4>1. v \in Nat /\ w = v * b + c
        BY <2>1
      <4>2. c \in 0..(b - 1)
        BY DEF D
      <4> HIDE DEF v, w
      <4>3. PICK k \in Nat : v = k + 1
        <5>1. v - 1 \in Nat /\ v = (v - 1) + 1
          BY <3>2, <4>1
        <5>2. QED
          BY <5>1
      <4>4. v * b = k * b + b /\ k * b \in Nat
        BY ONLY <4>3, b \in Nat
      <4>5. v * b >= b
        BY ONLY <4>4, b \in Nat
      <4>6. QED
        BY <4>1, <4>2, <4>5
    <3> HIDE DEF v, w
    <3>4. w \in Nat /\ w >= b /\ w > 0
      <4>1. v * b \in Nat
        BY ONLY <3>3, b \in Nat
      <4>2. QED
        BY ONLY <3>3, <4>1, b \in Nat \ {0, 1}
    <3>5. w \div b = v /\ w % b = c
      BY <1>1, <3>3, <3>4, Quotient
    <3>6. Numeral(w, b) = Append(t, c)
      <4>1. Numeral(w, b) = IF w < b THEN <<w>>
                            ELSE Append(Numeral(w \div b, b), w % b)
        BY <3>4, NumeralIs
      <4>2. ~(w < b)
        BY <3>4
      <4>3. QED
        BY <3>2, <3>5, <4>1, <4>2, Zenon
    <3>7. QED
      BY <3>4, <3>6 DEF w
  <2>4. QED
    BY <2>2, <2>3
<1>4. \A t \in Seq(D) : t \in S
  <2>1. \A t \in Seq(D) : \A c \in D : t \in S => Append(t, c) \in S
    <3>1. \A t \in Seq(D) : \A c \in D : Append(t, c) \in Seq(D)
      BY Appended
    <3>2. QED
      BY <1>3, <3>1
  <2> HIDE DEF S
  <2>2. QED
    BY <1>2, <2>1, SequenceInduction
<1>5. QED
  BY <1>4 DEF D

(* The largest value of k digits.                                          *)
Largest(k, b) == Positional([i \in 1..k |-> b - 1], k, b)

(* One more digit, and the largest value is the base times as large.       *)
LEMMA LargestIs ==
  ASSUME NEW b \in Nat \ {0, 1}
  PROVE  /\ Largest(0, b) = 0
         /\ \A k \in Nat : Largest(k, b) \in Nat
         /\ \A k \in Nat :
              Largest(k + 1, b) = Largest(k, b) * b + (b - 1)
<1> DEFINE Top(k) == [i \in 1..k |-> b - 1]
<1>1. b - 1 \in Nat /\ b \in Nat \ {0}
  OBVIOUS
<1>2. ASSUME NEW k \in Nat PROVE Top(k) \in Seq(Nat) /\ Len(Top(k)) = k
  <2>1. Top(k) \in [1..k -> Nat]
    BY <1>1
  <2>2. Top(k) \in Seq(Nat)
    BY <2>1, SeqDef
  <2>3. DOMAIN Top(k) = 1..k
    OBVIOUS
  <2>4. Len(Top(k)) \in Nat /\ DOMAIN Top(k) = 1..Len(Top(k))
    BY <2>2, LenProperties
  <2> HIDE DEF Top
  <2>5. 1..k = 1..Len(Top(k))
    BY <2>3, <2>4
  <2>6. Len(Top(k)) = k
    <3> DEFINE n == Len(Top(k))
    <3> HIDE DEF n
    <3>1. n \in Nat /\ \A i \in Nat : i \in 1..n <=> i \in 1..k
      BY <2>4, <2>5 DEF n
    <3>2. n = k
      <4>1. n \in 1..n <=> n \in 1..k
        BY <3>1
      <4>2. k \in 1..n <=> k \in 1..k
        BY <3>1
      <4>3. QED
        BY <3>1, <4>1, <4>2
    <3>3. QED
      BY <3>2 DEF n
  <2>7. QED
    BY <2>2, <2>6
<1>3. ASSUME NEW k \in Nat PROVE Top(k + 1) = Append(Top(k), b - 1)
  <2>1. /\ Append(Top(k), b - 1) \in Seq(Nat)
        /\ Len(Append(Top(k), b - 1)) = k + 1
        /\ Append(Top(k), b - 1)[k + 1] = b - 1
        /\ \A i \in 1..k : Append(Top(k), b - 1)[i] = Top(k)[i]
    <3> HIDE DEF Top
    <3>1. QED
      BY <1>1, <1>2, AppendProperties
  <2>2. Top(k + 1) \in Seq(Nat) /\ Len(Top(k + 1)) = k + 1
    <3>1. k + 1 \in Nat
      OBVIOUS
    <3> HIDE DEF Top
    <3>2. QED
      BY <1>2, <3>1
  <2>3. /\ \A i \in 1..(k + 1) : Top(k + 1)[i] = b - 1
        /\ \A i \in 1..k : Top(k)[i] = b - 1
    OBVIOUS
  <2> HIDE DEF Top
  <2>4. \A i \in 1..(k + 1) : Top(k + 1)[i] = Append(Top(k), b - 1)[i]
    <3> SUFFICES ASSUME NEW i \in 1..(k + 1)
                 PROVE  Top(k + 1)[i] = Append(Top(k), b - 1)[i]
      OBVIOUS
    <3>1. i \in 1..k \/ i = k + 1
      OBVIOUS
    <3>2. QED
      BY <2>1, <2>3, <3>1
  <2>5. QED
    BY <2>1, <2>2, <2>4, SeqEqual
<1> HIDE DEF Top
<1>4. \A k \in Nat : Largest(k, b) = ValueOf(Top(k), b)
  BY <1>2 DEF ValueOf, Largest, Top
<1>5. \A k \in Nat : Largest(k, b) \in Nat
  BY <1>1, <1>2, <1>4, ValueIs
<1>6. ASSUME NEW k \in Nat
      PROVE  Largest(k + 1, b) = Largest(k, b) * b + (b - 1)
  <2>1. k + 1 \in Nat
    OBVIOUS
  <2>2. ValueOf(Append(Top(k), b - 1), b) = ValueOf(Top(k), b) * b + (b - 1)
    BY <1>1, <1>2, ValueIs
  <2>3. QED
    BY <1>3, <1>4, <2>1, <2>2
<1>7. Largest(0, b) = 0
  <2>1. Top(0) \in Seq(Nat) /\ Len(Top(0)) = 0
    BY <1>2
  <2>2. Top(0) = <<>>
    BY <2>1, EmptySeq
  <2>3. ValueOf(Top(0), b) = 0
    BY <1>1, <2>2, ValueIs
  <2>4. QED
    BY <1>4, <2>3
<1>8. QED
  BY <1>5, <1>6, <1>7

(* A text of k digits has at most the largest value of k digits.           *)
LEMMA ValueFits ==
  ASSUME NEW b \in Nat \ {0, 1}, NEW token \in Seq(0..(b - 1)), NEW d \in Nat,
         Len(token) <= d
  PROVE  ValueOf(token, b) \in Nat /\ ValueOf(token, b) <= Largest(d, b)
<1> DEFINE D == 0..(b - 1)
           S == {t \in Seq(D) : ValueOf(t, b) <= Largest(Len(t), b)}
<1>1. D \subseteq Nat /\ b \in Nat \ {0}
  OBVIOUS
<1> HIDE DEF D
<1>2. <<>> \in S
  <2>1. <<>> \in Seq(D) /\ Len(<<>>) = 0
    BY EmptySeq
  <2>2. ValueOf(<<>>, b) = 0 /\ Largest(0, b) = 0
    BY <1>1, LargestIs, ValueIs
  <2>3. QED
    BY <2>1, <2>2
<1>3. ASSUME NEW t \in Seq(D), NEW c \in D, t \in S PROVE Append(t, c) \in S
  <2>1. t \in Seq(Nat) /\ c \in Nat /\ c <= b - 1
    BY <1>1, SeqMonotonic DEF D
  <2> DEFINE v == ValueOf(t, b)
             m == Largest(Len(t), b)
  <2>2. v \in Nat /\ ValueOf(Append(t, c), b) = v * b + c
    BY <1>1, <2>1, ValueIs
  <2>3. /\ Append(t, c) \in Seq(D) /\ Len(t) \in Nat
        /\ Len(Append(t, c)) = Len(t) + 1
    BY Appended
  <2>4. m \in Nat /\ Largest(Len(t) + 1, b) = m * b + (b - 1)
    BY <2>3, LargestIs
  <2>5. v <= m
    BY <1>3
  <2> HIDE DEF v, m
  <2>6. v * b + c <= m * b + (b - 1)
    <3>1. PICK k \in Nat : m = v + k
      <4>1. m - v \in Nat /\ m = v + (m - v)
        BY <2>2, <2>4, <2>5
      <4>2. QED
        BY <4>1
    <3>2. m * b = v * b + k * b /\ k * b \in Nat /\ v * b \in Nat
      BY ONLY <2>2, <3>1, b \in Nat
    <3> DEFINE x == v * b
               y == k * b
               z == m * b
    <3>3. z = x + y /\ x \in Nat /\ y \in Nat
      BY <3>2
    <3>4. c \in Nat /\ c <= b - 1
      BY <2>1
    <3> HIDE DEF x, y, z
    <3>5. x + c <= z + (b - 1)
      BY ONLY <3>3, <3>4, b \in Nat
    <3>6. QED
      BY <3>5 DEF x, z
  <2>7. QED
    BY <2>2, <2>3, <2>4, <2>6
<1>4. token \in S
  <2>1. \A t \in Seq(D) : t \in S
    <3>1. \A t \in Seq(D) : \A c \in D : t \in S => Append(t, c) \in S
      BY <1>3
    <3> HIDE DEF S
    <3>2. QED
      BY <1>2, <3>1, SequenceInduction
  <2>2. QED
    BY <2>1 DEF D
<1> DEFINE n == Len(token)
           T == {k \in 0..(d - n) : Largest(n, b) <= Largest(n + k, b)}
<1>5. n \in Nat /\ d - n \in Nat /\ n + (d - n) = d
  <2>1. n \in Nat
    BY LenProperties
  <2> HIDE DEF n
  <2>2. n <= d
    BY DEF n
  <2>3. QED
    BY <2>1, <2>2
<1> HIDE DEF n
<1>6. 0 \in T
  <2>1. n + 0 = n /\ Largest(n, b) \in Nat
    BY <1>5, LargestIs
  <2>2. QED
    BY <1>5, <2>1
<1>7. ASSUME NEW k \in 0..(d - n - 1), k \in T PROVE k + 1 \in T
  <2>1. n + k \in Nat /\ n + (k + 1) = (n + k) + 1 /\ k + 1 \in 0..(d - n)
    BY <1>5
  <2> DEFINE l == Largest(n, b)
             m == Largest(n + k, b)
             o == Largest((n + k) + 1, b)
  <2>2. l \in Nat /\ m \in Nat /\ o = m * b + (b - 1) /\ l <= m
    BY <1>5, <1>7, <2>1, LargestIs
  <2> HIDE DEF l, m, o
  <2>3. m * b >= m
    <3>1. PICK k2 \in Nat : b = k2 + 1
      <4>1. b - 1 \in Nat /\ b = (b - 1) + 1
        OBVIOUS
      <4>2. QED
        BY <4>1
    <3>2. m * b = m * k2 + m /\ m * k2 \in Nat
      BY ONLY <2>2, <3>1
    <3>3. QED
      BY ONLY <2>2, <3>2
  <2>4. m * b \in Nat
    BY ONLY <2>2, b \in Nat
  <2>5. l <= o
    BY ONLY <2>2, <2>3, <2>4, b \in Nat \ {0, 1}
  <2>6. QED
    BY <2>1, <2>5 DEF l, o
<1>8. Largest(n, b) <= Largest(d, b)
  <2>1. d - n \in T
    <3>1. \A k \in 0..((d - n) - 1) : k \in T => k + 1 \in T
      BY <1>5, <1>7
    <3> HIDE DEF T
    <3>2. QED
      BY <1>5, <1>6, <3>1, Induction
  <2>2. QED
    BY <1>5, <2>1
<1>9. token \in Seq(Nat)
  BY <1>1, SeqMonotonic DEF D
<1>10. /\ ValueOf(token, b) \in Nat /\ Largest(n, b) \in Nat
       /\ Largest(d, b) \in Nat
  BY <1>1, <1>5, <1>9, LargestIs, ValueIs
<1>11. QED
  BY <1>4, <1>8, <1>10 DEF n

(* A number that is not larger is written in so many digits.               *)
LEMMA NumeralFits ==
  ASSUME NEW b \in Nat \ {0, 1}, NEW d \in Nat \ {0},
         NEW n \in Nat, n <= Largest(d, b)
  PROVE  Len(Numeral(n, b)) \in 1..d
<1> DEFINE S == {k \in 0..(d - 1) :
                   \A m \in Nat : m <= Largest(k + 1, b) =>
                     Len(Numeral(m, b)) \in 1..(k + 1)}
<1>1. ASSUME NEW k \in 0..(d - 1), NEW m \in Nat, m < b
      PROVE  Len(Numeral(m, b)) \in 1..(k + 1)
  <2>1. Numeral(m, b) = <<m>>
    BY <1>1, NumeralIs
  <2>2. Len(<<m>>) = 1
    OBVIOUS
  <2>3. QED
    BY <2>1, <2>2
<1>2. 0 \in S
  <2>1. 0 \in Nat /\ 0 + 1 = 1
    OBVIOUS
  <2>2. Largest(0 + 1, b) = 0 * b + (b - 1)
    BY <2>1, LargestIs
  <2>3. 0 * b = 0
    OBVIOUS
  <2>4. \A m \in Nat : m <= Largest(0 + 1, b) => m < b
    BY <2>2, <2>3
  <2>5. 0 \in 0..(d - 1)
    OBVIOUS
  <2>6. QED
    BY <1>1, <2>4, <2>5
<1>3. ASSUME NEW k \in 0..((d - 1) - 1), k \in S PROVE k + 1 \in S
  <2> SUFFICES ASSUME NEW m \in Nat, m <= Largest((k + 1) + 1, b)
               PROVE  Len(Numeral(m, b)) \in 1..((k + 1) + 1)
    OBVIOUS
  <2>1. CASE m < b
    <3>1. k + 1 \in 0..(d - 1)
      OBVIOUS
    <3>2. QED
      BY <1>1, <2>1, <3>1
  <2>2. CASE ~(m < b)
    <3> DEFINE q == m \div b
               e == m % b
               l == Largest(k + 1, b)
    <3>1. q \in Nat /\ e \in 0..(b - 1) /\ m = q * b + e
      BY LastDigit
    <3>2. Numeral(m, b) = Append(Numeral(q, b), e)
      BY <2>2, NumeralIs
    <3>3. l \in Nat /\ m <= l * b + (b - 1)
      <4>1. k + 1 \in Nat
        OBVIOUS
      <4>2. QED
        BY <4>1, LargestIs
    <3> HIDE DEF q, e, l
    <3>4. q <= l
      <4> SUFFICES ASSUME q > l PROVE FALSE
        BY <3>1, <3>3
      <4>1. PICK j \in Nat : q = l + 1 + j
        <5>1. q - l - 1 \in Nat /\ q = l + 1 + (q - l - 1)
          BY <3>1, <3>3
        <5>2. QED
          BY <5>1
      <4>2. q * b = l * b + b + j * b /\ j * b \in Nat /\ l * b \in Nat
        BY ONLY <3>3, <4>1, b \in Nat
      <4>3. QED
        BY ONLY <3>1, <3>3, <4>2, b \in Nat
    <3>5. Len(Numeral(q, b)) \in 1..(k + 1)
      BY <1>3, <3>1, <3>4 DEF l
    <3>6. Numeral(q, b) \in Seq(0..(b - 1))
      BY <3>1, NumeralHas
    <3>7. Len(Append(Numeral(q, b), e)) = Len(Numeral(q, b)) + 1
      BY <3>1, <3>6, Appended
    <3>8. QED
      BY <3>2, <3>5, <3>7
  <2>3. QED
    BY <2>1, <2>2
<1>4. d - 1 \in S
  <2>1. d - 1 \in Nat
    OBVIOUS
  <2> HIDE DEF S
  <2>2. QED
    BY <1>2, <1>3, <2>1, Induction
<1>5. (d - 1) + 1 = d
  OBVIOUS
<1>6. QED
  BY <1>4, <1>5

-----------------------------------------------------------------------------
(* What a character does to what is cut.                                   *)
Cutting(before, c, sep) ==
  IF c = sep
  THEN [parts |-> Append(before.parts, before.rest), rest |-> <<>>]
  ELSE [parts |-> before.parts, rest |-> Append(before.rest, c)]

(* What is cut: parts, and a rest.                                         *)
Pieces(C) == [parts : Seq(Seq(C)), rest : Seq(C)]

(* A character leaves parts and a rest again.                              *)
LEMMA CuttingType ==
  ASSUME NEW C, NEW sep, NEW c \in C, NEW x \in Pieces(C)
  PROVE  Cutting(x, c, sep) \in Pieces(C)
<1>1. x.parts \in Seq(Seq(C)) /\ x.rest \in Seq(C)
  BY DEF Pieces
<1>2. /\ Append(x.parts, x.rest) \in Seq(Seq(C))
      /\ Append(x.rest, c) \in Seq(C)
      /\ <<>> \in Seq(C)
  BY <1>1, AppendProperties, EmptySeq
<1>3. QED
  BY <1>1, <1>2 DEF Cutting, Pieces

(* The steps on the way to what is cut of a text.                          *)
Cuts(f, s, sep, C) ==
  /\ f \in [0..Len(s) -> Pieces(C)]
  /\ f[0] = [parts |-> <<>>, rest |-> <<>>]
  /\ \A k \in 1..Len(s) : f[k] = Cutting(f[k - 1], s[k], sep)

(* A text is cut in such steps, and the last of them has what is cut.      *)
LEMMA CutSteps ==
  ASSUME NEW C, NEW s \in Seq(C), NEW sep
  PROVE  \E f : Cuts(f, s, sep, C) /\ Cut(s, sep) = f[Len(s)]
<1> DEFINE n == Len(s)
           T == Pieces(C)
           t == [parts |-> <<>>, rest |-> <<>>]
           G == [k \in 1..n |-> [x \in T |-> Cutting(x, s[k], sep)]]
<1>1. n \in Nat /\ \A k \in 1..n : s[k] \in C
  BY LenProperties
<1>2. t \in T
  <2>1. <<>> \in Seq(Seq(C)) /\ <<>> \in Seq(C)
    BY EmptySeq
  <2>2. QED
    BY <2>1 DEF Pieces
<1>3. \A k \in 1..n : \A x \in T : Cutting(x, s[k], sep) \in T
  BY <1>1, CuttingType
<1> HIDE DEF T, t
<1>4. G \in [1..n -> [T -> T]]
  BY <1>3
<1>5. \A k \in 1..n : \A x \in T : G[k][x] = Cutting(x, s[k], sep)
  OBVIOUS
<1> HIDE DEF G
<1>6. PICK f : Unfolds(f, n, T, t, G)
  BY <1>1, <1>2, <1>4, Recursion
<1>7. /\ f \in [0..n -> T]
      /\ f[0] = t
      /\ \A k \in 1..n : f[k] = Cutting(f[k - 1], s[k], sep)
  <2>1. f \in [0..n -> T] /\ f[0] = t
    BY <1>6 DEF Unfolds
  <2>2. ASSUME NEW k \in 1..n PROVE f[k] = Cutting(f[k - 1], s[k], sep)
    <3>1. f[k - 1] \in T
      BY <1>1, <2>1
    <3>2. QED
      BY <1>5, <1>6, <3>1 DEF Unfolds
  <2>3. QED
    BY <2>1, <2>2
<1> DEFINE Form(g) ==
             g = [k \in 0..n |->
                    IF k = 0 THEN [parts |-> <<>>, rest |-> <<>>]
                    ELSE Cutting(g[k - 1], s[k], sep)]
<1>8. Form(f)
  <2>1. ASSUME NEW k \in 0..n
        PROVE  f[k] = IF k = 0 THEN [parts |-> <<>>, rest |-> <<>>]
                      ELSE Cutting(f[k - 1], s[k], sep)
    BY <1>1, <1>7 DEF t
  <2>2. f = [k \in 0..n |-> f[k]]
    BY <1>7
  <2>3. QED
    BY <2>1, <2>2
<1> DEFINE cut[k \in 0..n] ==
             IF k = 0 THEN [parts |-> <<>>, rest |-> <<>>]
             ELSE Cutting(cut[k - 1], s[k], sep)
<1>9. Form(cut)
  BY <1>8
<1>10. Cut(s, sep) = cut[n]
  BY DEF Cut, Cutting
<1> HIDE DEF cut
<1>11. ASSUME NEW m \in 0..n PROVE cut[m] = f[m]
  <2> DEFINE S == {k \in 0..m : cut[k] = f[k]}
  <2>1. \A k \in 0..n : cut[k] = IF k = 0
                                 THEN [parts |-> <<>>, rest |-> <<>>]
                                 ELSE Cutting(cut[k - 1], s[k], sep)
    BY <1>9
  <2> HIDE DEF Form
  <2>2. 0 \in S
    BY <1>1, <1>7, <2>1 DEF t
  <2>3. ASSUME NEW k \in 0..(m - 1), k \in S PROVE k + 1 \in S
    <3>1. k + 1 \in 1..n /\ k + 1 \in 0..n /\ (k + 1) - 1 = k /\ k + 1 # 0
          /\ k + 1 \in 0..m
      BY <1>1
    <3>2. /\ cut[k + 1] = Cutting(cut[k], s[k + 1], sep)
          /\ f[k + 1] = Cutting(f[k], s[k + 1], sep)
      BY <1>7, <2>1, <3>1
    <3>3. QED
      BY <2>3, <3>1, <3>2
  <2>4. m \in S
    <3> HIDE DEF S
    <3>1. m \in Nat
      BY <1>1
    <3>2. QED
      BY <2>2, <2>3, <3>1, Induction
  <2>5. QED
    BY <2>4
<1>12. cut[n] = f[n]
  BY <1>1, <1>11
<1>13. QED
  BY <1>7, <1>10, <1>12 DEF Cuts, T, t

(* What is cut of a text with one more character.                          *)
LEMMA CutIs ==
  ASSUME NEW C, NEW sep
  PROVE  /\ Cut(<<>>, sep) = [parts |-> <<>>, rest |-> <<>>]
         /\ \A s \in Seq(C) : Cut(s, sep) \in Pieces(C)
         /\ \A s \in Seq(C) : \A c \in C :
              Cut(Append(s, c), sep) = Cutting(Cut(s, sep), c, sep)
<1>1. Cut(<<>>, sep) = [parts |-> <<>>, rest |-> <<>>]
  <2>1. <<>> \in Seq(C) /\ Len(<<>>) = 0
    BY EmptySeq
  <2>2. PICK f : Cuts(f, <<>>, sep, C) /\ Cut(<<>>, sep) = f[0]
    BY <2>1, CutSteps
  <2>3. QED
    BY <2>2 DEF Cuts
<1>2. ASSUME NEW s \in Seq(C) PROVE Cut(s, sep) \in Pieces(C)
  <2>1. PICK f : Cuts(f, s, sep, C) /\ Cut(s, sep) = f[Len(s)]
    BY CutSteps
  <2>2. Len(s) \in Nat
    BY LenProperties
  <2>3. Len(s) \in 0..Len(s)
    BY <2>2
  <2>4. QED
    BY <2>1, <2>3 DEF Cuts
<1>3. ASSUME NEW s \in Seq(C), NEW c \in C
      PROVE  Cut(Append(s, c), sep) = Cutting(Cut(s, sep), c, sep)
  <2> DEFINE u == Append(s, c)
             n == Len(s)
  <2>1. /\ u \in Seq(C) /\ Len(u) = n + 1 /\ n \in Nat
        /\ u[n + 1] = c /\ \A k \in 1..n : u[k] = s[k]
    BY AppendProperties, LenProperties
  <2> HIDE DEF u, n
  <2>2. PICK f : Cuts(f, s, sep, C) /\ Cut(s, sep) = f[n]
    BY CutSteps DEF n
  <2>3. PICK g : Cuts(g, u, sep, C) /\ Cut(u, sep) = g[n + 1]
    BY <2>1, CutSteps
  <2>4. /\ f[0] = g[0]
        /\ \A k \in 1..n : f[k] = Cutting(f[k - 1], s[k], sep)
        /\ \A k \in 1..(n + 1) : g[k] = Cutting(g[k - 1], u[k], sep)
    BY <2>1, <2>2, <2>3 DEF Cuts, n
  <2> DEFINE S == {k \in 0..n : f[k] = g[k]}
  <2>5. 0 \in S
    BY <2>1, <2>4
  <2>6. ASSUME NEW k \in 0..(n - 1), k \in S PROVE k + 1 \in S
    <3>1. /\ k + 1 \in 1..n /\ k + 1 \in 1..(n + 1) /\ (k + 1) - 1 = k
          /\ k + 1 \in 0..n
      BY <2>1
    <3>2. /\ f[k + 1] = Cutting(f[k], s[k + 1], sep)
          /\ g[k + 1] = Cutting(g[k], u[k + 1], sep)
      BY <2>4, <3>1
    <3>3. QED
      BY <2>1, <2>6, <3>1, <3>2
  <2>7. n \in S
    <3> HIDE DEF S
    <3>1. QED
      BY <2>1, <2>5, <2>6, Induction
  <2>8. g[n + 1] = Cutting(g[n], u[n + 1], sep)
    <3>1. n + 1 \in 1..(n + 1) /\ (n + 1) - 1 = n
      BY <2>1
    <3>2. QED
      BY <2>4, <3>1
  <2>9. QED
    BY <2>1, <2>2, <2>3, <2>7, <2>8 DEF u
<1>4. QED
  BY <1>1, <1>2, <1>3

(* What a further part does to what is joined.                             *)
Joining(before, k, part, sep) ==
  (IF k = 1 THEN <<>> ELSE Append(before, sep)) \o part

(* A further part makes a text again.                                      *)
LEMMA JoiningType ==
  ASSUME NEW C, NEW sep \in C, NEW k, NEW x \in Seq(C), NEW part \in Seq(C)
  PROVE  Joining(x, k, part, sep) \in Seq(C)
<1>1. <<>> \in Seq(C) /\ Append(x, sep) \in Seq(C)
  BY AppendProperties, EmptySeq
<1> DEFINE y == IF k = 1 THEN <<>> ELSE Append(x, sep)
<1>2. y \in Seq(C)
  BY <1>1
<1> HIDE DEF y
<1>3. y \o part \in Seq(C)
  BY <1>2, ConcatProperties
<1>4. QED
  BY <1>3 DEF y, Joining

(* The steps on the way to what is joined of a sequence of parts.          *)
Joins(f, ps, sep, C) ==
  /\ f \in [0..Len(ps) -> Seq(C)]
  /\ f[0] = <<>>
  /\ \A k \in 1..Len(ps) : f[k] = Joining(f[k - 1], k, ps[k], sep)

(* Parts are joined in such steps, and the last of them is the text.       *)
LEMMA JoinSteps ==
  ASSUME NEW C, NEW ps \in Seq(Seq(C)), NEW sep \in C
  PROVE  \E f : Joins(f, ps, sep, C) /\ Join(ps, sep) = f[Len(ps)]
<1> DEFINE n == Len(ps)
           T == Seq(C)
           G == [k \in 1..n |-> [x \in T |-> Joining(x, k, ps[k], sep)]]
<1>1. n \in Nat /\ \A k \in 1..n : ps[k] \in T
  BY LenProperties
<1>2. <<>> \in T
  BY EmptySeq
<1>3. \A k \in 1..n : \A x \in T : Joining(x, k, ps[k], sep) \in T
  BY <1>1, JoiningType
<1> HIDE DEF T
<1>4. G \in [1..n -> [T -> T]]
  BY <1>3
<1>5. \A k \in 1..n : \A x \in T : G[k][x] = Joining(x, k, ps[k], sep)
  OBVIOUS
<1> HIDE DEF G
<1>6. PICK f : Unfolds(f, n, T, <<>>, G)
  BY <1>1, <1>2, <1>4, Recursion
<1>7. /\ f \in [0..n -> T]
      /\ f[0] = <<>>
      /\ \A k \in 1..n : f[k] = Joining(f[k - 1], k, ps[k], sep)
  <2>1. f \in [0..n -> T] /\ f[0] = <<>>
    BY <1>6 DEF Unfolds
  <2>2. ASSUME NEW k \in 1..n PROVE f[k] = Joining(f[k - 1], k, ps[k], sep)
    <3>1. f[k - 1] \in T
      BY <1>1, <2>1
    <3>2. QED
      BY <1>5, <1>6, <3>1 DEF Unfolds
  <2>3. QED
    BY <2>1, <2>2
<1> DEFINE Form(g) ==
             g = [k \in 0..n |-> IF k = 0 THEN <<>>
                                 ELSE Joining(g[k - 1], k, ps[k], sep)]
<1>8. Form(f)
  <2>1. ASSUME NEW k \in 0..n
        PROVE  f[k] = IF k = 0 THEN <<>>
                      ELSE Joining(f[k - 1], k, ps[k], sep)
    BY <1>1, <1>7
  <2>2. f = [k \in 0..n |-> f[k]]
    BY <1>7
  <2>3. QED
    BY <2>1, <2>2
<1> DEFINE joined[k \in 0..n] ==
             IF k = 0 THEN <<>> ELSE Joining(joined[k - 1], k, ps[k], sep)
<1>9. Form(joined)
  BY <1>8
<1>10. Join(ps, sep) = joined[n]
  BY DEF Join, Joining
<1> HIDE DEF joined
<1>11. ASSUME NEW m \in 0..n PROVE joined[m] = f[m]
  <2> DEFINE S == {k \in 0..m : joined[k] = f[k]}
  <2>1. \A k \in 0..n : joined[k] = IF k = 0 THEN <<>>
                                    ELSE Joining(joined[k - 1], k, ps[k], sep)
    BY <1>9
  <2> HIDE DEF Form
  <2>2. 0 \in S
    BY <1>1, <1>7, <2>1
  <2>3. ASSUME NEW k \in 0..(m - 1), k \in S PROVE k + 1 \in S
    <3>1. k + 1 \in 1..n /\ k + 1 \in 0..n /\ (k + 1) - 1 = k /\ k + 1 # 0
          /\ k + 1 \in 0..m
      BY <1>1
    <3>2. /\ joined[k + 1] = Joining(joined[k], k + 1, ps[k + 1], sep)
          /\ f[k + 1] = Joining(f[k], k + 1, ps[k + 1], sep)
      BY <1>7, <2>1, <3>1
    <3>3. QED
      BY <2>3, <3>1, <3>2
  <2>4. m \in S
    <3> HIDE DEF S
    <3>1. m \in Nat
      BY <1>1
    <3>2. QED
      BY <2>2, <2>3, <3>1, Induction
  <2>5. QED
    BY <2>4
<1>12. joined[n] = f[n]
  BY <1>1, <1>11
<1>13. QED
  BY <1>7, <1>10, <1>12 DEF Joins, T

(* What is joined of one more part.                                        *)
LEMMA JoinIs ==
  ASSUME NEW C, NEW sep \in C
  PROVE  /\ \A ps \in Seq(Seq(C)) : Join(ps, sep) \in Seq(C)
         /\ \A part \in Seq(C) : Join(<<part>>, sep) = part
         /\ \A ps \in Seq(Seq(C)) : \A part \in Seq(C) :
              ps # <<>> =>
                Join(Append(ps, part), sep)
                  = Append(Join(ps, sep), sep) \o part
<1>1. ASSUME NEW ps \in Seq(Seq(C)) PROVE Join(ps, sep) \in Seq(C)
  <2>1. PICK f : Joins(f, ps, sep, C) /\ Join(ps, sep) = f[Len(ps)]
    BY JoinSteps
  <2>2. Len(ps) \in Nat
    BY LenProperties
  <2>3. Len(ps) \in 0..Len(ps)
    BY <2>2
  <2>4. QED
    BY <2>1, <2>3 DEF Joins
<1>2. ASSUME NEW ps \in Seq(Seq(C)), NEW part \in Seq(C)
      PROVE  Join(Append(ps, part), sep)
               = Joining(Join(ps, sep), Len(ps) + 1, part, sep)
  <2> DEFINE u == Append(ps, part)
             n == Len(ps)
  <2>1. /\ u \in Seq(Seq(C)) /\ Len(u) = n + 1 /\ n \in Nat
        /\ u[n + 1] = part /\ \A k \in 1..n : u[k] = ps[k]
    BY AppendProperties, LenProperties
  <2> HIDE DEF u, n
  <2>2. PICK f : Joins(f, ps, sep, C) /\ Join(ps, sep) = f[n]
    BY JoinSteps DEF n
  <2>3. PICK g : Joins(g, u, sep, C) /\ Join(u, sep) = g[n + 1]
    BY <2>1, JoinSteps
  <2>4. /\ f[0] = g[0]
        /\ \A k \in 1..n : f[k] = Joining(f[k - 1], k, ps[k], sep)
        /\ \A k \in 1..(n + 1) : g[k] = Joining(g[k - 1], k, u[k], sep)
    BY <2>1, <2>2, <2>3 DEF Joins, n
  <2> DEFINE S == {k \in 0..n : f[k] = g[k]}
  <2>5. 0 \in S
    BY <2>1, <2>4
  <2>6. ASSUME NEW k \in 0..(n - 1), k \in S PROVE k + 1 \in S
    <3>1. /\ k + 1 \in 1..n /\ k + 1 \in 1..(n + 1) /\ (k + 1) - 1 = k
          /\ k + 1 \in 0..n
      BY <2>1
    <3>2. /\ f[k + 1] = Joining(f[k], k + 1, ps[k + 1], sep)
          /\ g[k + 1] = Joining(g[k], k + 1, u[k + 1], sep)
      BY <2>4, <3>1
    <3>3. QED
      BY <2>1, <2>6, <3>1, <3>2
  <2>7. n \in S
    <3> HIDE DEF S
    <3>1. QED
      BY <2>1, <2>5, <2>6, Induction
  <2>8. g[n + 1] = Joining(g[n], n + 1, u[n + 1], sep)
    <3>1. n + 1 \in 1..(n + 1) /\ (n + 1) - 1 = n
      BY <2>1
    <3>2. QED
      BY <2>4, <3>1
  <2>9. QED
    BY <2>1, <2>2, <2>3, <2>7, <2>8 DEF u, n
<1>3. ASSUME NEW part \in Seq(C) PROVE Join(<<part>>, sep) = part
  <2>1. <<>> \in Seq(Seq(C)) /\ Len(<<>>) = 0 /\ <<part>> = Append(<<>>, part)
    BY EmptySeq
  <2>2. Join(<<part>>, sep) = Joining(Join(<<>>, sep), 0 + 1, part, sep)
    BY <1>2, <2>1
  <2>3. Joining(Join(<<>>, sep), 0 + 1, part, sep) = <<>> \o part
    BY DEF Joining
  <2>4. QED
    BY <2>2, <2>3, ConcatEmptySeq
<1>4. ASSUME NEW ps \in Seq(Seq(C)), NEW part \in Seq(C), ps # <<>>
      PROVE  Join(Append(ps, part), sep) = Append(Join(ps, sep), sep) \o part
  <2>1. Len(ps) \in Nat \ {0}
    BY <1>4, EmptySeq
  <2>2. Len(ps) + 1 # 1
    BY <2>1
  <2>3. QED
    BY <1>2, <2>2 DEF Joining
<1>5. QED
  BY <1>1, <1>3, <1>4

(* A longer end.                                                           *)
LEMMA ConcatAppend ==
  ASSUME NEW C, NEW s \in Seq(C), NEW t \in Seq(C), NEW c \in C
  PROVE  s \o Append(t, c) = Append(s \o t, c)
<1>1. <<c>> \in Seq(C) /\ s \o t \in Seq(C)
  BY ConcatProperties
<1>2. Append(t, c) = t \o <<c>> /\ Append(s \o t, c) = (s \o t) \o <<c>>
  BY <1>1, AppendIsConcat
<1>3. (s \o t) \o <<c>> = s \o (t \o <<c>>)
  BY <1>1, ConcatAssociative
<1>4. QED
  BY <1>2, <1>3

(* A text is split into texts, at least one.                               *)
LEMMA SplitType ==
  ASSUME NEW C, NEW sep, NEW s \in Seq(C)
  PROVE  /\ Split(s, sep) \in Seq(Seq(C))
         /\ Split(s, sep) # <<>>
         /\ Cut(s, sep).parts \in Seq(Seq(C))
         /\ Cut(s, sep).rest \in Seq(C)
<1>1. Cut(s, sep) \in Pieces(C)
  BY CutIs
<1>2. Cut(s, sep).parts \in Seq(Seq(C)) /\ Cut(s, sep).rest \in Seq(C)
  BY <1>1 DEF Pieces
<1>3. QED
  BY <1>2, AppendProperties DEF Split

(* The parts of a text, joined, are the text.                              *)
LEMMA JoinSplit ==
  ASSUME NEW C, NEW sep \in C
  PROVE  \A s \in Seq(C) : Join(Split(s, sep), sep) = s
<1>a. ASSUME NEW ps \in Seq(Seq(C)), NEW part \in Seq(C), ps # <<>>
      PROVE  Join(Append(ps, part), sep) = Append(Join(ps, sep), sep) \o part
  BY <1>a, JoinIs
<1> DEFINE S == {s \in Seq(C) : Join(Split(s, sep), sep) = s}
<1>1. <<>> \in S
  <2>1. <<>> \in Seq(C)
    BY EmptySeq
  <2>2. Split(<<>>, sep) = <<<<>>>>
    <3>1. Cut(<<>>, sep) = [parts |-> <<>>, rest |-> <<>>]
      BY CutIs
    <3>2. Cut(<<>>, sep).parts = <<>> /\ Cut(<<>>, sep).rest = <<>>
      BY <3>1
    <3>3. Split(<<>>, sep) = Append(<<>>, <<>>)
      BY <3>2, Zenon DEF Split
    <3>4. QED
      BY <3>3
  <2>3. QED
    BY <2>1, <2>2, JoinIs
<1>2. ASSUME NEW s \in Seq(C), NEW c \in C, s \in S PROVE Append(s, c) \in S
  <2> DEFINE p == Cut(s, sep).parts
             r == Cut(s, sep).rest
  <2>1. p \in Seq(Seq(C)) /\ r \in Seq(C) /\ Split(s, sep) = Append(p, r)
    BY SplitType DEF Split
  <2>2. Cut(Append(s, c), sep) = Cutting(Cut(s, sep), c, sep)
    BY CutIs
  <2>3. Append(s, c) \in Seq(C) /\ Append(r, c) \in Seq(C) /\ <<>> \in Seq(C)
    BY <2>1, AppendProperties, EmptySeq
  <2>4. CASE c = sep
    <3>1. Split(Append(s, c), sep) = Append(Append(p, r), <<>>)
      BY <2>2, <2>4 DEF Cutting, Split
    <3> HIDE DEF p, r
    <3> DEFINE q == Append(p, r)
    <3>2. q \in Seq(Seq(C)) /\ q # <<>>
      BY <2>1, AppendProperties
    <3> HIDE DEF q
    <3>3. Join(Append(q, <<>>), sep) = Append(Join(q, sep), sep) \o <<>>
      BY <1>a, <2>3, <3>2
    <3>4. Join(q, sep) = s
      BY <1>2, <2>1 DEF q
    <3>5. Append(s, sep) \o <<>> = Append(s, sep)
      BY <2>3, <2>4, ConcatEmptySeq
    <3>6. QED
      BY <2>3, <2>4, <3>1, <3>3, <3>4, <3>5 DEF q
  <2>5. CASE c # sep
    <3>1. Split(Append(s, c), sep) = Append(p, Append(r, c))
      BY <2>2, <2>5 DEF Cutting, Split
    <3>2. Join(Append(p, r), sep) = s
      BY <1>2, <2>1
    <3> HIDE DEF p, r
    <3>3. CASE p = <<>>
      <4>1. Append(p, r) = <<r>> /\ Append(p, Append(r, c)) = <<Append(r, c)>>
        BY <3>3
      <4>2. r = s
        BY <2>1, <3>2, <4>1, JoinIs
      <4>3. Join(<<Append(r, c)>>, sep) = Append(r, c)
        BY <2>3, JoinIs
      <4>4. QED
        BY <2>3, <3>1, <4>1, <4>2, <4>3
    <3>4. CASE p # <<>>
      <4> DEFINE a == Append(Join(p, sep), sep)
      <4>1. a \in Seq(C)
        BY <2>1, AppendProperties, JoinIs
      <4>2. /\ Join(Append(p, r), sep) = a \o r
            /\ Join(Append(p, Append(r, c)), sep) = a \o Append(r, c)
        <5> DEFINE q == Append(r, c)
        <5>1. q \in Seq(C)
          BY <2>3
        <5> HIDE DEF q
        <5>2. Join(Append(p, q), sep) = a \o q
          BY <1>a, <2>1, <3>4, <5>1
        <5>3. Join(Append(p, r), sep) = a \o r
          BY <1>a, <2>1, <3>4
        <5>4. QED
          BY <5>2, <5>3 DEF q
      <4> HIDE DEF a
      <4>3. a \o Append(r, c) = Append(a \o r, c)
        BY <2>1, <4>1, ConcatAppend
      <4>4. QED
        BY <2>3, <3>1, <3>2, <4>2, <4>3
    <3>5. QED
      BY <3>3, <3>4
  <2>6. QED
    BY <2>4, <2>5
<1>3. \A s \in Seq(C) : s \in S
  <2> HIDE DEF S
  <2>1. QED
    BY <1>1, <1>2, SequenceInduction
<1>4. QED
  BY <1>3

(* Characters that are no separators make the rest longer.                 *)
LEMMA CutConcat ==
  ASSUME NEW C, NEW sep, NEW s \in Seq(C), NEW token \in Seq(C),
         ~Has(token, sep)
  PROVE  Cut(s \o token, sep)
           = [parts |-> Cut(s, sep).parts, rest |-> Cut(s, sep).rest \o token]
<1> DEFINE Longer(t) == [parts |-> Cut(s, sep).parts,
                         rest |-> Cut(s, sep).rest \o t]
           S == {t \in Seq(C) :
                   ~Has(t, sep) => Cut(s \o t, sep) = Longer(t)}
<1>1. Cut(s, sep) \in Pieces(C) /\ Cut(s, sep).rest \in Seq(C)
  BY CutIs, SplitType
<1>2. <<>> \in S
  <2>1. s \o <<>> = s /\ Cut(s, sep).rest \o <<>> = Cut(s, sep).rest
    BY <1>1, ConcatEmptySeq
  <2>2. Cut(s, sep) = [parts |-> Cut(s, sep).parts,
                       rest |-> Cut(s, sep).rest]
    BY <1>1 DEF Pieces
  <2>3. <<>> \in Seq(C)
    BY EmptySeq
  <2>4. QED
    BY <2>1, <2>2, <2>3
<1>3. ASSUME NEW t \in Seq(C), NEW c \in C, t \in S, ~Has(Append(t, c), sep)
      PROVE  Cut(s \o Append(t, c), sep) = Longer(Append(t, c))
  <2>1. ~Has(t, sep) /\ c # sep
    <3>1. /\ Len(Append(t, c)) = Len(t) + 1 /\ Len(t) \in Nat
          /\ Append(t, c)[Len(t) + 1] = c
          /\ \A k \in 1..Len(t) : Append(t, c)[k] = t[k]
      BY Appended
    <3>2. \A k \in 1..Len(t) : k \in 1..(Len(t) + 1)
      BY <3>1
    <3>3. Len(t) + 1 \in 1..(Len(t) + 1)
      BY <3>1
    <3>4. QED
      BY <1>3, <3>1, <3>2, <3>3 DEF Has
  <2>2. s \o Append(t, c) = Append(s \o t, c) /\ s \o t \in Seq(C)
    BY ConcatAppend, ConcatProperties
  <2>3. Cut(Append(s \o t, c), sep) = Cutting(Cut(s \o t, sep), c, sep)
    BY <2>2, CutIs
  <2>4. Cut(s \o t, sep) = Longer(t)
    BY <1>3, <2>1
  <2>5. Cutting(Longer(t), c, sep)
          = [parts |-> Cut(s, sep).parts,
             rest |-> Append(Cut(s, sep).rest \o t, c)]
    BY <2>1 DEF Cutting
  <2>6. Cut(s, sep).rest \o Append(t, c) = Append(Cut(s, sep).rest \o t, c)
    <3> DEFINE r == Cut(s, sep).rest
    <3>1. r \in Seq(C)
      BY <1>1
    <3> HIDE DEF r
    <3>2. r \o Append(t, c) = Append(r \o t, c)
      BY <3>1, ConcatAppend
    <3>3. QED
      BY <3>2 DEF r
  <2>7. QED
    BY <2>2, <2>3, <2>4, <2>5, <2>6
<1>4. \A t \in Seq(C) : t \in S
  <2>1. \A t \in Seq(C) : \A c \in C : t \in S => Append(t, c) \in S
    <3>1. \A t \in Seq(C) : \A c \in C : Append(t, c) \in Seq(C)
      BY AppendProperties
    <3> HIDE DEF Longer
    <3>2. QED
      BY <1>3, <3>1
  <2> HIDE DEF S
  <2>2. QED
    BY <1>2, <2>1, SequenceInduction
<1>5. QED
  BY <1>4

(* Parts without separators, joined, are split into the parts.             *)
LEMMA SplitJoin ==
  ASSUME NEW C, NEW sep \in C, NEW parts \in Seq(Seq(C)), parts # <<>>,
         \A k \in 1..Len(parts) : ~Has(parts[k], sep)
  PROVE  Split(Join(parts, sep), sep) = parts
<1> DEFINE Free(ps) == \A k \in 1..Len(ps) : ~Has(ps[k], sep)
           S == {ps \in Seq(Seq(C)) :
                   ps # <<>> /\ Free(ps) => Split(Join(ps, sep), sep) = ps}
<1>1. <<>> \in S
  BY EmptySeq
<1>2. ASSUME NEW ps \in Seq(Seq(C)), NEW p \in Seq(C), ps \in S,
             Free(Append(ps, p))
      PROVE  Split(Join(Append(ps, p), sep), sep) = Append(ps, p)
  <2>1. Free(ps) /\ ~Has(p, sep)
    <3>1. /\ Len(Append(ps, p)) = Len(ps) + 1 /\ Len(ps) \in Nat
          /\ Append(ps, p)[Len(ps) + 1] = p
          /\ \A k \in 1..Len(ps) : Append(ps, p)[k] = ps[k]
      BY Appended
    <3>2. \A k \in 1..Len(ps) : k \in 1..(Len(ps) + 1)
      BY <3>1
    <3>3. Len(ps) + 1 \in 1..(Len(ps) + 1)
      BY <3>1
    <3>4. QED
      BY <1>2, <3>1, <3>2, <3>3
  <2>2. <<>> \in Seq(C) /\ <<>> \o p = p
    BY EmptySeq, ConcatEmptySeq
  <2>3. CASE ps = <<>>
    <3>1. Append(ps, p) = <<p>> /\ Join(<<p>>, sep) = p
      BY <2>3, JoinIs
    <3>2. Cut(<<>>, sep) = [parts |-> <<>>, rest |-> <<>>]
      BY CutIs
    <3>3. Cut(p, sep) = [parts |-> <<>>, rest |-> p]
      <4>1. Cut(<<>> \o p, sep) = [parts |-> Cut(<<>>, sep).parts,
                                   rest |-> Cut(<<>>, sep).rest \o p]
        BY <2>1, <2>2, CutConcat
      <4>2. QED
        BY <2>2, <3>2, <4>1
    <3>4. Split(p, sep) = Append(<<>>, p)
      BY <3>3 DEF Split
    <3>5. QED
      BY <2>3, <3>1, <3>4
  <2>4. CASE ps # <<>>
    <3> DEFINE j == Join(ps, sep)
               a == Append(j, sep)
    <3>1. Join(Append(ps, p), sep) = a \o p
      <4>1. \A qs \in Seq(Seq(C)) : \A part \in Seq(C) :
              qs # <<>> =>
                Join(Append(qs, part), sep)
                  = Append(Join(qs, sep), sep) \o part
        BY JoinIs
      <4>2. QED
        BY <2>4, <4>1
    <3>2. j \in Seq(C) /\ a \in Seq(C)
      BY AppendProperties, JoinIs
    <3>3. Split(j, sep) = ps
      BY <1>2, <2>1, <2>4
    <3> HIDE DEF j
    <3>4. Cut(a, sep) = [parts |-> ps, rest |-> <<>>]
      <4>1. Cut(a, sep) = Cutting(Cut(j, sep), sep, sep)
        BY <3>2, CutIs
      <4>2. QED
        BY <3>3, <4>1 DEF Cutting, Split
    <3> HIDE DEF a
    <3>5. Cut(a \o p, sep) = [parts |-> Cut(a, sep).parts,
                              rest |-> Cut(a, sep).rest \o p]
      BY <2>1, <3>2, CutConcat
    <3>6. Cut(a \o p, sep) = [parts |-> ps, rest |-> p]
      BY <2>2, <3>4, <3>5
    <3>7. QED
      BY <3>1, <3>6 DEF Split
  <2>5. QED
    BY <2>3, <2>4
<1>3. \A ps \in Seq(Seq(C)) : ps \in S
  <2>1. \A ps \in Seq(Seq(C)) : \A p \in Seq(C) :
          ps \in S => Append(ps, p) \in S
    <3>1. \A ps \in Seq(Seq(C)) : \A p \in Seq(C) :
            Append(ps, p) \in Seq(Seq(C))
      BY AppendProperties
    <3> HIDE DEF Free
    <3>2. QED
      BY <1>2, <3>1
  <2> HIDE DEF S
  <2>2. QED
    BY <1>1, <2>1, SequenceInduction
<1>4. QED
  BY <1>3

(* A text of several parts has a separator.                                *)
LEMMA SplitHas ==
  ASSUME NEW C, NEW sep, NEW s \in Seq(C), Len(Split(s, sep)) > 1
  PROVE  Has(s, sep)
<1> SUFFICES ASSUME ~Has(s, sep) PROVE FALSE
  OBVIOUS
<1>1. <<>> \in Seq(C) /\ <<>> \o s = s
  BY EmptySeq, ConcatEmptySeq
<1>2. Cut(<<>>, sep).parts = <<>>
  BY CutIs
<1>3. Cut(<<>> \o s, sep) = [parts |-> Cut(<<>>, sep).parts,
                             rest |-> Cut(<<>>, sep).rest \o s]
  BY <1>1, CutConcat
<1>4. Cut(s, sep).parts = <<>>
  BY <1>1, <1>2, <1>3
<1>5. Split(s, sep) = <<Cut(s, sep).rest>>
  BY <1>4 DEF Split
<1>6. QED
  BY <1>5

(* A separator behind another one ends an empty part.                      *)
LEMMA SplitAdjacent ==
  ASSUME NEW C, NEW sep, NEW s \in Seq(C),
         NEW k \in 1..(Len(s) - 1), s[k] = sep, s[k + 1] = sep
  PROVE  \E m \in 1..Len(Split(s, sep)) : Split(s, sep)[m] = <<>>
<1> DEFINE Empty(ps) == \E m \in 1..Len(ps) : ps[m] = <<>>
           Ends(t) == Len(t) > 0 /\ t[Len(t)] = sep =>
                        Cut(t, sep).rest = <<>>
           Twice(t) == \E i \in 1..(Len(t) - 1) : t[i] = sep /\ t[i + 1] = sep
           S == {t \in Seq(C) :
                   Ends(t) /\ (Twice(t) => Empty(Cut(t, sep).parts))}
<1>1. <<>> \in S
  <2>1. <<>> \in Seq(C) /\ Len(<<>>) = 0
    BY EmptySeq
  <2>2. QED
    BY <2>1
<1>a. ASSUME NEW ps \in Seq(Seq(C)), NEW p \in Seq(C),
             Empty(ps) \/ p = <<>>
      PROVE  Empty(Append(ps, p))
  <2>1. /\ Len(Append(ps, p)) = Len(ps) + 1 /\ Len(ps) \in Nat
        /\ Append(ps, p)[Len(ps) + 1] = p
        /\ \A m \in 1..Len(ps) : Append(ps, p)[m] = ps[m]
    BY Appended
  <2>2. \A m \in 1..Len(ps) : m \in 1..(Len(ps) + 1)
    BY <2>1
  <2>3. Len(ps) + 1 \in 1..(Len(ps) + 1)
    BY <2>1
  <2>4. QED
    BY <1>a, <2>1, <2>2, <2>3
<1>2. ASSUME NEW t \in Seq(C), NEW c \in C, t \in S PROVE Append(t, c) \in S
  <2> DEFINE u == Append(t, c)
             p == Cut(t, sep).parts
             r == Cut(t, sep).rest
             n == Len(t)
  <2>1. /\ u \in Seq(C) /\ Len(u) = n + 1 /\ n \in Nat
        /\ u[n + 1] = c /\ \A i \in 1..n : u[i] = t[i]
    BY AppendProperties, LenProperties
  <2>2. Cut(u, sep) = Cutting(Cut(t, sep), c, sep)
    BY CutIs
  <2>3. p \in Seq(Seq(C)) /\ r \in Seq(C)
    BY SplitType
  <2>4. Ends(t) /\ (Twice(t) => Empty(p))
    BY <1>2
  <2>5. Ends(u)
    <3> SUFFICES ASSUME Len(u) > 0, u[Len(u)] = sep
                 PROVE  Cut(u, sep).rest = <<>>
      OBVIOUS
    <3>1. c = sep
      BY <2>1
    <3>2. QED
      BY <2>2, <3>1 DEF Cutting
  <2>6. ASSUME Twice(u) PROVE Empty(Cut(u, sep).parts)
    <3>1. PICK i \in 1..(Len(u) - 1) : u[i] = sep /\ u[i + 1] = sep
      BY <2>6
    <3>2. CASE i = n
      <4>1. n > 0 /\ t[n] = sep /\ c = sep
        <5>1. n \in 1..n /\ u[n] = t[n]
          BY <2>1, <3>1, <3>2
        <5>2. u[n + 1] = c
          BY <2>1
        <5> HIDE DEF u, n
        <5>3. QED
          BY <3>1, <3>2, <5>1, <5>2
      <4>2. r = <<>>
        BY <2>4, <4>1
      <4>3. Cut(u, sep).parts = Append(p, r)
        BY <2>2, <4>1 DEF Cutting
      <4> HIDE DEF p, r, Empty
      <4>4. QED
        BY <1>a, <2>3, <4>2, <4>3
    <3>3. CASE i # n
      <4>1. i \in 1..(n - 1) /\ i \in 1..n /\ i + 1 \in 1..n
        BY <2>1, <3>1, <3>3
      <4>2. t[i] = sep /\ t[i + 1] = sep
        BY <2>1, <3>1, <4>1
      <4>3. Empty(p)
        BY <2>4, <4>1, <4>2
      <4>4. Cut(u, sep).parts = p \/ Cut(u, sep).parts = Append(p, r)
        BY <2>2 DEF Cutting
      <4> HIDE DEF p, r, Empty
      <4>5. QED
        BY <1>a, <2>3, <4>3, <4>4
    <3>4. QED
      BY <3>2, <3>3
  <2>7. QED
    BY <2>1, <2>5, <2>6
<1>3. s \in S
  <2> HIDE DEF S
  <2>1. QED
    BY <1>1, <1>2, SequenceInduction
<1>4. Empty(Cut(s, sep).parts)
  BY <1>3
<1>5. Cut(s, sep).parts \in Seq(Seq(C)) /\ Cut(s, sep).rest \in Seq(C)
  BY SplitType
<1>6. Empty(Split(s, sep))
  <2> HIDE DEF Empty
  <2>1. QED
    BY <1>a, <1>4, <1>5 DEF Split
<1>7. QED
  BY <1>6

(* A character c before one that is no separator.                          *)
Followed(t, c, sep) ==
  \E i \in 1..(Len(t) - 1) : t[i] = c /\ t[i + 1] # sep

(* What is next to each other in a part is so in the text.                 *)
LEMMA SplitNext ==
  ASSUME NEW C, NEW sep, NEW s \in Seq(C), NEW z,
         NEW m \in 1..Len(Split(s, sep)), Followed(Split(s, sep)[m], z, sep)
  PROVE  Followed(s, z, sep)
<1> DEFINE P(t) == Followed(t, z, sep)
           Last(t, r) == r # <<>> => Len(t) > 0 /\ r[Len(r)] = t[Len(t)]
           Parts(t, ps) == \A i \in 1..Len(ps) : P(ps[i]) => P(t)
           Fact(t, ps, r) == Last(t, r) /\ Parts(t, ps) /\ (P(r) => P(t))
           S == {t \in Seq(C) : Fact(t, Cut(t, sep).parts, Cut(t, sep).rest)}
<1>a. Len(<<>>) = 0 /\ ~P(<<>>)
  BY DEF Followed
<1>b. ASSUME NEW t \in Seq(C), NEW c \in C
      PROVE  /\ P(t) => P(Append(t, c))
             /\ P(Append(t, c)) =>
                  P(t) \/ (Len(t) > 0 /\ t[Len(t)] = z /\ c # sep)
             /\ Len(t) > 0 /\ t[Len(t)] = z /\ c # sep => P(Append(t, c))
  <2> DEFINE u == Append(t, c)
             n == Len(t)
  <2>1. /\ Len(u) = n + 1 /\ n \in Nat
        /\ u[n + 1] = c /\ \A i \in 1..n : u[i] = t[i]
    BY AppendProperties, LenProperties
  <2> HIDE DEF u, n
  <2>2. ASSUME P(t) PROVE P(u)
    <3>1. PICK i \in 1..(n - 1) : t[i] = z /\ t[i + 1] # sep
      BY <2>2 DEF Followed, n
    <3>2. i \in 1..n /\ i + 1 \in 1..n /\ i \in 1..((n + 1) - 1)
      BY <2>1
    <3>3. u[i] = z /\ u[i + 1] # sep
      BY <2>1, <3>1, <3>2
    <3>4. QED
      BY <2>1, <3>2, <3>3 DEF Followed
  <2>3. ASSUME P(u) PROVE P(t) \/ (n > 0 /\ t[n] = z /\ c # sep)
    <3>1. PICK i \in 1..((n + 1) - 1) : u[i] = z /\ u[i + 1] # sep
      BY <2>1, <2>3 DEF Followed
    <3>2. CASE i = n
      <4>1. n > 0 /\ n \in 1..n
        BY <2>1, <3>2
      <4>2. QED
        BY <2>1, <3>1, <3>2, <4>1
    <3>3. CASE i # n
      <4>1. i \in 1..n /\ i + 1 \in 1..n /\ i \in 1..(n - 1)
        BY <2>1, <3>3
      <4>2. t[i] = z /\ t[i + 1] # sep
        BY <2>1, <3>1, <4>1
      <4>3. P(t)
        BY <4>1, <4>2 DEF Followed, n
      <4>4. QED
        BY <4>3
    <3>4. QED
      BY <3>2, <3>3
  <2>4. ASSUME n > 0, t[n] = z, c # sep PROVE P(u)
    <3>1. n \in 1..n /\ n \in 1..((n + 1) - 1)
      BY <2>1, <2>4
    <3>2. u[n] = z /\ u[n + 1] # sep
      BY <2>1, <2>4, <3>1
    <3>3. QED
      BY <2>1, <3>1, <3>2 DEF Followed
  <2>5. QED
    BY <2>2, <2>3, <2>4 DEF u, n
<1>c. ASSUME NEW t, NEW ps \in Seq(Seq(C)), NEW p \in Seq(C),
             Parts(t, ps), P(p) => P(t)
      PROVE  Parts(t, Append(ps, p))
  <2>1. /\ Len(Append(ps, p)) = Len(ps) + 1 /\ Len(ps) \in Nat
        /\ Append(ps, p)[Len(ps) + 1] = p
        /\ \A i \in 1..Len(ps) : Append(ps, p)[i] = ps[i]
    BY Appended
  <2> HIDE DEF P
  <2> SUFFICES ASSUME NEW i \in 1..Len(Append(ps, p)), P(Append(ps, p)[i])
               PROVE  P(t)
    OBVIOUS
  <2>2. i \in 1..Len(ps) \/ i = Len(ps) + 1
    BY <2>1
  <2>3. QED
    BY <1>c, <2>1, <2>2
<1> HIDE DEF P
<1>1. <<>> \in S
  <2>1. <<>> \in Seq(C)
    BY EmptySeq
  <2>2. Cut(<<>>, sep).parts = <<>> /\ Cut(<<>>, sep).rest = <<>>
    <3>1. Cut(<<>>, sep) = [parts |-> <<>>, rest |-> <<>>]
      BY CutIs
    <3>2. QED
      BY <3>1
  <2>3. Fact(<<>>, <<>>, <<>>)
    BY <1>a
  <2> HIDE DEF Fact
  <2>4. QED
    BY <2>1, <2>2, <2>3
<1>2. ASSUME NEW t \in Seq(C), NEW c \in C, t \in S PROVE Append(t, c) \in S
  <2> DEFINE u == Append(t, c)
             ps == Cut(t, sep).parts
             r == Cut(t, sep).rest
             n == Len(t)
  <2>1. u \in Seq(C) /\ Len(u) = n + 1 /\ n \in Nat /\ u[n + 1] = c
    BY AppendProperties, LenProperties
  <2>2. Cut(u, sep) = Cutting(Cut(t, sep), c, sep)
    BY CutIs
  <2>3. ps \in Seq(Seq(C)) /\ r \in Seq(C)
    BY SplitType
  <2>4. Fact(t, ps, r)
    BY <1>2
  <2>5. P(t) => P(u)
    BY <1>b
  <2>6. CASE c = sep
    <3>1. Cut(u, sep).parts = Append(ps, r) /\ Cut(u, sep).rest = <<>>
      BY <2>2, <2>6 DEF Cutting
    <3> HIDE DEF ps, r, u
    <3>2. Parts(u, Append(ps, r))
      <4>1. Parts(u, ps) /\ (P(r) => P(u))
        BY <2>4, <2>5
      <4> HIDE DEF Parts
      <4>2. QED
        BY <1>c, <2>3, <4>1
    <3>3. Fact(u, Append(ps, r), <<>>)
      BY <1>a, <3>2
    <3> HIDE DEF Fact
    <3>4. u \in S
      BY <2>1, <3>1, <3>3
    <3>5. QED
      BY <3>4 DEF u
  <2>7. CASE c # sep
    <3>1. Cut(u, sep).parts = ps /\ Cut(u, sep).rest = Append(r, c)
      BY <2>2, <2>7 DEF Cutting
    <3>2. Len(Append(r, c)) = Len(r) + 1 /\ Append(r, c)[Len(r) + 1] = c
      BY <2>3, Appended
    <3>3. P(Append(r, c)) => P(u)
      <4> SUFFICES ASSUME P(Append(r, c)) PROVE P(u)
        OBVIOUS
      <4>1. P(r) \/ (Len(r) > 0 /\ r[Len(r)] = z)
        BY <1>b, <2>3
      <4>2. CASE P(r)
        BY <2>4, <2>5, <4>2
      <4>3. CASE Len(r) > 0 /\ r[Len(r)] = z
        <5>1. r # <<>>
          BY <4>3
        <5>2. n > 0 /\ t[n] = z
          BY <2>4, <4>3, <5>1
        <5>3. QED
          BY <1>b, <2>7, <5>2
      <4>4. QED
        BY <4>1, <4>2, <4>3
    <3>4. Last(u, Append(r, c))
      BY <2>1, <3>2
    <3>5. Parts(u, ps)
      BY <2>4, <2>5
    <3> HIDE DEF Last, Parts, u, ps, r
    <3>6. Fact(u, ps, Append(r, c))
      BY <3>3, <3>4, <3>5
    <3> HIDE DEF Fact
    <3>7. u \in S
      BY <2>1, <3>1, <3>6
    <3>8. QED
      BY <3>7 DEF u
  <2>8. QED
    BY <2>6, <2>7
<1>3. s \in S
  <2> HIDE DEF S
  <2>1. QED
    BY <1>1, <1>2, SequenceInduction
<1>4. Cut(s, sep).parts \in Seq(Seq(C)) /\ Cut(s, sep).rest \in Seq(C)
  BY SplitType
<1>5. Parts(s, Split(s, sep))
  <2>1. Parts(s, Cut(s, sep).parts) /\ (P(Cut(s, sep).rest) => P(s))
    BY <1>3
  <2> HIDE DEF Parts
  <2>2. QED
    BY <1>c, <1>4, <2>1 DEF Split
<1>6. QED
  BY <1>5 DEF P

-----------------------------------------------------------------------------
(* The bases, and the largest segment.                                     *)
LEMMA Bases ==
  /\ OctetBase \in Nat \ {0, 1} /\ SegmentBase \in Nat \ {0, 1}
  /\ SegmentDigits \in Nat \ {0}
  /\ Radix(4) \in Nat \ {0} /\ Radix(6) \in Nat \ {0}
  /\ Largest(SegmentDigits, SegmentBase) = Radix(6) - 1
  /\ Digits(4) = Octets /\ Digits(6) = Segments
  /\ Octets \in Nat /\ Segments \in Nat /\ Octets > 1 /\ Segments > 1
<1>1. /\ OctetBase \in Nat \ {0, 1} /\ SegmentBase \in Nat \ {0, 1}
      /\ SegmentDigits \in Nat \ {0}
      /\ Octets > 1 /\ Segments > 1
  BY TextAssumption
<1>2. Largest(SegmentDigits, SegmentBase) = Radix(6) - 1
  BY TextAssumption DEF Largest
<1>3. Digits(4) = Octets /\ Digits(6) = Segments
  BY DEF Digits
<1>4. Octets \in Nat /\ Segments \in Nat
  BY WidthsAssumption
<1>5. Radix(4) \in Nat \ {0} /\ Radix(6) \in Nat \ {0}
  <2>1. DigitBits(4) \in Nat /\ DigitBits(6) \in Nat
    BY WidthsAssumption DEF DigitBits
  <2>2. QED
    BY <2>1, Powers DEF Radix
<1>6. QED
  BY <1>1, <1>2, <1>3, <1>4, <1>5

(* Digits of which none could be left out.                                 *)
Plain(token, b) ==
  /\ token \in Seq(0..(b - 1))
  /\ token # <<>>
  /\ Leads(token)

(* What has digits only is a text of digits.                               *)
LEMMA DigitsOnly ==
  ASSUME NEW C, NEW token \in Seq(C), NEW D,
         \A k \in 1..Len(token) : token[k] \in D
  PROVE  token \in Seq(D)
<1>1. Len(token) \in Nat /\ token \in [1..Len(token) -> C]
  BY LenProperties
<1>2. token \in [1..Len(token) -> D]
  BY <1>1
<1>3. QED
  BY <1>1, <1>2, SeqDef

(* Numerals that are written and read again: of plain parts, the text.     *)
LEMMA WrittenAgain ==
  ASSUME NEW C, NEW sep \in C, NEW s \in Seq(C), NEW b \in Nat \ {0, 1},
         NEW n \in Nat, Len(Split(s, sep)) = n,
         \A k \in 1..n : Plain(Split(s, sep)[k], b)
  PROVE  Join([k \in 1..n |-> Numeral(ValueOf(Split(s, sep)[k], b), b)], sep)
           = s
<1> DEFINE p == Split(s, sep)
<1>1. p \in Seq(Seq(C))
  BY SplitType
<1> HIDE DEF p
<1>2. p \in [1..n -> Seq(C)]
  BY <1>1, LenProperties DEF p
<1>3. \A k \in 1..n : Numeral(ValueOf(p[k], b), b) = p[k]
  <2> SUFFICES ASSUME NEW k \in 1..n PROVE Numeral(ValueOf(p[k], b), b) = p[k]
    OBVIOUS
  <2>1. Plain(p[k], b)
    BY DEF p
  <2>2. QED
    BY <2>1, NumeralOfValue DEF Plain
<1>4. [k \in 1..n |-> Numeral(ValueOf(p[k], b), b)] = p
  BY <1>2, <1>3
<1>5. Join(p, sep) = s
  BY JoinSplit DEF p
<1>6. QED
  BY <1>4, <1>5 DEF p

(* An IPv4 text that is read is an address, which is written as that text. *)
LEMMA DottedIs ==
  ASSUME NEW C, Dot \in C, NEW s \in Seq(C), FromDotted(s) # Refused
  PROVE  /\ FromDotted(s) \in Addresses(4)
         /\ ToString(FromDotted(s)) = s
<1> DEFINE p == Split(s, Dot)
           v == [k \in 1..Octets |-> ValueOf(p[k], OctetBase)]
           ip4 == [version |-> 4, value |-> v]
<1>1. /\ FromDotted(s) = ip4 /\ Len(p) = Octets
      /\ \A k \in 1..Octets : IsOctet(p[k])
  BY DEF FromDotted
<1>2. p \in Seq(Seq(C))
  BY SplitType
<1> HIDE DEF p
<1>3. \A k \in 1..Octets : p[k] \in Seq(C)
  BY <1>1, <1>2, LenProperties
<1>4. ASSUME NEW k \in 1..Octets
      PROVE  /\ Plain(p[k], OctetBase)
             /\ ValueOf(p[k], OctetBase) \in 0..(Radix(4) - 1)
  <2>1. IsOctet(p[k]) /\ p[k] \in Seq(C)
    BY <1>1, <1>3
  <2>2. p[k] \in Seq(0..(OctetBase - 1))
    BY <2>1, DigitsOnly DEF IsOctet
  <2>3. Plain(p[k], OctetBase)
    BY <2>1, <2>2 DEF IsOctet, Leads, Plain
  <2>4. p[k] \in Seq(Nat) /\ OctetBase \in Nat \ {0}
    <3>1. 0..(OctetBase - 1) \subseteq Nat /\ OctetBase \in Nat \ {0}
      BY Bases
    <3>2. QED
      BY <2>2, <3>1, SeqMonotonic
  <2>5. ValueOf(p[k], OctetBase) \in Nat
    BY <2>4, ValueIs
  <2>6. ValueOf(p[k], OctetBase) < Radix(4)
    BY <2>1 DEF IsOctet
  <2>7. QED
    BY <2>3, <2>5, <2>6, Bases
<1>5. v \in [1..Octets -> 0..(Radix(4) - 1)]
  BY <1>4
<1>6. ip4 \in Addresses(4)
  BY <1>5, Bases DEF Addresses
<1>7. ToString(ip4) = Join([k \in 1..Octets |-> Numeral(v[k], OctetBase)], Dot)
  BY Bases DEF ToString
<1>8. [k \in 1..Octets |-> Numeral(v[k], OctetBase)]
        = [k \in 1..Octets |-> Numeral(ValueOf(p[k], OctetBase), OctetBase)]
  OBVIOUS
<1>9. Join([k \in 1..Octets |-> Numeral(ValueOf(p[k], OctetBase), OctetBase)],
           Dot) = s
  <2>1. /\ Octets \in Nat /\ OctetBase \in Nat \ {0, 1}
        /\ \A k \in 1..Octets : Plain(Split(s, Dot)[k], OctetBase)
        /\ Len(Split(s, Dot)) = Octets
    BY <1>1, <1>4, Bases DEF p
  <2>2. QED
    BY <2>1, WrittenAgain DEF p
<1>10. QED
  BY <1>1, <1>6, <1>7, <1>8, <1>9

(* The groups of a text.                                                   *)
LEMMA GroupsType ==
  ASSUME NEW C, NEW s \in Seq(C)
  PROVE  Groups(s) \in Seq(Seq(C))
<1>1. <<>> \in Seq(Seq(C)) /\ Split(s, Colon) \in Seq(Seq(C))
  BY EmptySeq, SplitType
<1>2. QED
  BY <1>1 DEF Groups

(* A group of digits has the value of a segment.                           *)
LEMMA SegmentFits ==
  ASSUME NEW C, NEW token \in Seq(C), IsSegment(token)
  PROVE  /\ token \in Seq(0..(SegmentBase - 1)) /\ token # <<>>
         /\ ValueOf(token, SegmentBase) \in 0..(Radix(6) - 1)
<1>1. token \in Seq(0..(SegmentBase - 1))
  BY DigitsOnly DEF IsSegment
<1>2. Len(token) \in 1..SegmentDigits
  BY DEF IsSegment
<1>3. /\ ValueOf(token, SegmentBase) \in Nat
      /\ ValueOf(token, SegmentBase) <= Largest(SegmentDigits, SegmentBase)
  BY <1>1, <1>2, Bases, ValueFits
<1>4. token # <<>>
  BY <1>2, EmptySeq
<1>5. QED
  BY <1>1, <1>3, <1>4, Bases

(* How an IPv6 address is written.                                         *)
LEMMA Written6 ==
  ASSUME NEW addr, addr.version = 6
  PROVE  ToString(addr)
           = Join([k \in 1..Segments |-> Numeral(addr.value[k], SegmentBase)],
                  Colon)
<1>1. addr.version # 4 /\ Digits(addr.version) = Segments
  BY Bases
<1>2. QED
  BY <1>1 DEF ToString

(* An IPv6 text that is read is an address; without a gap and a zero that  *)
(* could be left out, the address is written as that text.                 *)
LEMMA InetPtonIs ==
  ASSUME NEW C, Colon \in C, NEW s \in Seq(C), InetPton(s) # Refused
  PROVE  /\ InetPton(s) \in Addresses(6)
         /\ /\ s # <<>>
            /\ ~\E k \in 1..(Len(s) - 1) : s[k] = Colon /\ s[k + 1] = Colon
            /\ ~Followed(s, 0, Colon)
            => ToString(InetPton(s)) = s
<1> DEFINE gaps  == {k \in 1..(Len(s) - 1) : s[k] = Colon /\ s[k + 1] = Colon}
           gap   == CHOOSE k \in gaps : TRUE
           left  == IF gaps = {} THEN Groups(s)
                    ELSE Groups(SubSeq(s, 1, gap - 1))
           right == IF gaps = {} THEN <<>>
                    ELSE Groups(SubSeq(s, gap + 2, Len(s)))
           given == left \o right
           Value(k) ==
             IF k <= Len(left) THEN ValueOf(left[k], SegmentBase)
             ELSE IF k > Segments - Len(right)
             THEN ValueOf(right[k - (Segments - Len(right))], SegmentBase)
             ELSE 0
           result == [version |-> 6,
                      value |-> [k \in 1..Segments |-> Value(k)]]
<1>1. /\ InetPton(s) = result
      /\ \A k \in 1..Len(given) : IsSegment(given[k])
      /\ IF gaps = {} THEN Len(given) = Segments ELSE Len(given) < Segments
  <2>1. InetPton(s) =
          IF \/ \E k \in 1..Len(given) : ~IsSegment(given[k])
             \/ IF gaps = {} THEN Len(given) # Segments
                ELSE Cardinality(gaps) > 1 \/ Len(given) >= Segments
          THEN Refused ELSE result
    BY DEF InetPton
  <2> DEFINE Wrong == \E k \in 1..Len(given) : ~IsSegment(given[k])
             Count == IF gaps = {} THEN Len(given) # Segments
                      ELSE Cardinality(gaps) > 1 \/ Len(given) >= Segments
  <2>2. ~Wrong /\ ~Count /\ InetPton(s) = result
    <3> HIDE DEF result, Wrong, Count
    <3>1. InetPton(s) = IF Wrong \/ Count THEN Refused ELSE result
      BY <2>1 DEF Wrong, Count
    <3>2. QED
      BY <3>1
  <2>3. given \in Seq(Seq(C))
    <3>1. /\ Len(s) \in Nat /\ \A k \in 1..Len(s) : s[k] \in C
          /\ <<>> \in Seq(Seq(C))
      BY EmptySeq, LenProperties
    <3>2. gaps # {} => gap \in 1..(Len(s) - 1)
      OBVIOUS
    <3> HIDE DEF gap
    <3>3. gaps # {} => /\ SubSeq(s, 1, gap - 1) \in Seq(C)
                       /\ SubSeq(s, gap + 2, Len(s)) \in Seq(C)
      <4> SUFFICES ASSUME gaps # {}
                   PROVE  /\ SubSeq(s, 1, gap - 1) \in Seq(C)
                          /\ SubSeq(s, gap + 2, Len(s)) \in Seq(C)
        OBVIOUS
      <4> HIDE DEF gaps
      <4>1. gap - 1 \in Int /\ gap + 2 \in Int /\ Len(s) \in Int /\ 1 \in Int
        BY <3>1, <3>2
      <4>2. /\ \A k \in 1..(gap - 1) : s[k] \in C
            /\ \A k \in (gap + 2)..Len(s) : s[k] \in C
        BY <3>1, <3>2
      <4>3. QED
        BY <4>1, <4>2, SubSeqProperties
    <3> HIDE DEF gaps
    <3>4. left \in Seq(Seq(C)) /\ right \in Seq(Seq(C))
      BY <3>1, <3>3, GroupsType
    <3> HIDE DEF left, right
    <3>5. QED
      BY <3>4, ConcatProperties
  <2>4. Len(given) \in Nat
    BY <2>3, LenProperties
  <2> HIDE DEF given, gaps, result
  <2>5. QED
    BY <2>2, <2>4, Bases
<1>2. left \in Seq(Seq(C)) /\ right \in Seq(Seq(C))
  <2>1. /\ Len(s) \in Nat /\ \A k \in 1..Len(s) : s[k] \in C
        /\ <<>> \in Seq(Seq(C))
    BY EmptySeq, LenProperties
  <2>2. gaps # {} => gap \in 1..(Len(s) - 1)
    OBVIOUS
  <2> HIDE DEF gap
  <2>3. gaps # {} => /\ SubSeq(s, 1, gap - 1) \in Seq(C)
                     /\ SubSeq(s, gap + 2, Len(s)) \in Seq(C)
    <3> SUFFICES ASSUME gaps # {}
                 PROVE  /\ SubSeq(s, 1, gap - 1) \in Seq(C)
                        /\ SubSeq(s, gap + 2, Len(s)) \in Seq(C)
      OBVIOUS
    <3> HIDE DEF gaps
    <3>1. gap - 1 \in Int /\ gap + 2 \in Int /\ Len(s) \in Int /\ 1 \in Int
      BY <2>1, <2>2
    <3>2. /\ \A k \in 1..(gap - 1) : s[k] \in C
          /\ \A k \in (gap + 2)..Len(s) : s[k] \in C
      BY <2>1, <2>2
    <3>3. QED
      BY <3>1, <3>2, SubSeqProperties
  <2> HIDE DEF gaps
  <2>4. QED
    BY <2>1, <2>3, GroupsType
<1>3. gaps = {} => /\ left = Groups(s) /\ right = <<>>
                   /\ given = left /\ Len(right) = 0
  <2> SUFFICES ASSUME gaps = {}
               PROVE  /\ left = Groups(s) /\ right = <<>>
                      /\ given = left /\ Len(right) = 0
    OBVIOUS
  <2>1. left = Groups(s) /\ right = <<>>
    OBVIOUS
  <2>2. Len(<<>>) = 0 /\ left \o <<>> = left
    <3> HIDE DEF left
    <3>1. QED
      BY <1>2, ConcatEmptySeq, EmptySeq
  <2>3. QED
    BY <2>1, <2>2
<1> DEFINE nogaps == gaps = {}
<1>a. nogaps <=> gaps = {}
  OBVIOUS
<1> HIDE DEF gaps, left, right, nogaps
<1>4. /\ Len(left) \in Nat /\ Len(right) \in Nat
      /\ Len(given) = Len(left) + Len(right)
      /\ \A k \in 1..Len(left) : given[k] = left[k] /\ left[k] \in Seq(C)
      /\ \A k \in 1..Len(right) :
           given[Len(left) + k] = right[k] /\ right[k] \in Seq(C)
  <2>1. /\ Len(left) \in Nat /\ Len(right) \in Nat
        /\ Len(given) = Len(left) + Len(right)
        /\ \A k \in 1..(Len(left) + Len(right)) :
             given[k] = IF k <= Len(left) THEN left[k]
                                          ELSE right[k - Len(left)]
    BY <1>2, ConcatProperties, LenProperties
  <2>2. /\ \A k \in 1..Len(left) : left[k] \in Seq(C)
        /\ \A k \in 1..Len(right) : right[k] \in Seq(C)
    BY <1>2, LenProperties
  <2> HIDE DEF given
  <2>3. \A k \in 1..Len(left) : given[k] = left[k]
    BY <2>1
  <2>4. ASSUME NEW k \in 1..Len(right) PROVE given[Len(left) + k] = right[k]
    <3>1. /\ Len(left) + k \in 1..(Len(left) + Len(right))
          /\ ~(Len(left) + k <= Len(left)) /\ (Len(left) + k) - Len(left) = k
      BY <2>1
    <3>2. QED
      BY <2>1, <3>1
  <2>5. QED
    BY <2>1, <2>2, <2>3, <2>4
<1> HIDE DEF given
<1>5. /\ \A k \in 1..Len(left) : IsSegment(left[k])
      /\ \A k \in 1..Len(right) : IsSegment(right[k])
  <2>1. \A k \in 1..Len(left) : k \in 1..Len(given)
    BY <1>4
  <2>2. \A k \in 1..Len(right) : Len(left) + k \in 1..Len(given)
    BY <1>4
  <2>3. QED
    BY <1>1, <1>4, <2>1, <2>2
<1>6. ASSUME NEW k \in 1..Segments PROVE Value(k) \in 0..(Radix(6) - 1)
  <2>1. CASE k <= Len(left)
    <3>1. k \in 1..Len(left)
      BY <1>4, <2>1, Bases
    <3>2. QED
      BY <1>4, <1>5, <2>1, <3>1, SegmentFits
  <2>2. CASE ~(k <= Len(left)) /\ k > Segments - Len(right)
    <3> DEFINE i == k - (Segments - Len(right))
    <3>1. i \in 1..Len(right)
      BY <1>4, <2>2, Bases
    <3>2. Value(k) = ValueOf(right[i], SegmentBase)
      BY <2>2
    <3> HIDE DEF i, Value
    <3>3. ValueOf(right[i], SegmentBase) \in 0..(Radix(6) - 1)
      BY <1>4, <1>5, <3>1, SegmentFits
    <3>4. QED
      BY <3>2, <3>3
  <2>3. CASE ~(k <= Len(left)) /\ ~(k > Segments - Len(right))
    <3>1. Value(k) = 0
      BY <2>3
    <3>2. 0 \in 0..(Radix(6) - 1)
      BY Bases
    <3>3. QED
      BY <3>1, <3>2
  <2>4. QED
    BY <2>1, <2>2, <2>3
<1>7. result \in Addresses(6)
  <2>1. [k \in 1..Segments |-> Value(k)] \in [1..Segments -> 0..(Radix(6) - 1)]
    BY <1>6
  <2> HIDE DEF Value
  <2>2. QED
    BY <2>1, Bases DEF Addresses
<1>8. ASSUME s # <<>>,
             ~\E k \in 1..(Len(s) - 1) : s[k] = Colon /\ s[k + 1] = Colon,
             ~Followed(s, 0, Colon)
      PROVE  ToString(result) = s
  <2>1. gaps = {}
    BY <1>8 DEF gaps
  <2>2. left = Split(s, Colon) /\ Len(left) = Segments
    <3>1. left = Groups(s) /\ given = left
      BY <1>3, <2>1
    <3>2. Len(given) = Segments
      BY <1>1, <2>1
    <3>3. Groups(s) = Split(s, Colon)
      BY <1>8 DEF Groups
    <3>4. QED
      BY <3>1, <3>2, <3>3
  <2>3. ASSUME NEW k \in 1..Segments
        PROVE  /\ Plain(left[k], SegmentBase)
               /\ Value(k) = ValueOf(left[k], SegmentBase)
    <3>1. k \in 1..Len(left) /\ k <= Len(left)
      BY <2>2, Bases
    <3>2. IsSegment(left[k]) /\ left[k] \in Seq(C)
      BY <1>4, <1>5, <3>1
    <3>3. left[k] \in Seq(0..(SegmentBase - 1)) /\ left[k] # <<>>
      BY <3>2, SegmentFits
    <3>4. Leads(left[k])
      <4> SUFFICES ASSUME Len(left[k]) > 1, left[k][1] = 0 PROVE FALSE
        BY DEF Leads
      <4> DEFINE token == left[k]
      <4>1. /\ Len(token) \in Nat
            /\ token \in [1..Len(token) -> 0..(SegmentBase - 1)]
        BY <3>3, LenProperties
      <4> HIDE DEF token
      <4>2. 2 \in 1..Len(token) /\ 1 \in 1..(Len(token) - 1)
        BY <4>1 DEF token
      <4>3. token[2] \in Nat
        <5>1. token[2] \in 0..(SegmentBase - 1)
          BY <4>1, <4>2
        <5>2. QED
          BY <5>1, Bases
      <4>4. token[1] = 0 /\ token[1 + 1] # Colon
        <5>1. token[1] = 0 /\ 1 + 1 = 2
          BY DEF token
        <5>2. Colon \notin Nat
          BY TextAssumption
        <5>3. QED
          BY <4>3, <5>1, <5>2
      <4>5. Followed(token, 0, Colon)
        BY <4>2, <4>4 DEF Followed
      <4>6. QED
        BY <1>8, <2>2, <3>1, <4>5, SplitNext DEF token
    <3>5. Plain(left[k], SegmentBase)
      BY <3>3, <3>4 DEF Plain
    <3>6. Value(k) = ValueOf(left[k], SegmentBase)
      BY <3>1
    <3>7. QED
      BY <3>5, <3>6
  <2> HIDE DEF Value
  <2>4. ToString(result)
          = Join([k \in 1..Segments |-> Numeral(Value(k), SegmentBase)], Colon)
    <3>a. /\ result.version = 6
          /\ result.value = [k \in 1..Segments |-> Value(k)]
      OBVIOUS
    <3> HIDE DEF result
    <3>b. ToString(result)
            = Join([k \in 1..Segments |->
                      Numeral(result.value[k], SegmentBase)], Colon)
      BY <3>a, Written6
    <3>1. ToString(result)
            = Join([k \in 1..Segments |->
                      Numeral([i \in 1..Segments |-> Value(i)][k],
                              SegmentBase)], Colon)
      BY <3>a, <3>b
    <3>2. [k \in 1..Segments |->
             Numeral([i \in 1..Segments |-> Value(i)][k], SegmentBase)]
            = [k \in 1..Segments |-> Numeral(Value(k), SegmentBase)]
      OBVIOUS
    <3>3. QED
      BY <3>1, <3>2
  <2>5. [k \in 1..Segments |-> Numeral(Value(k), SegmentBase)]
          = [k \in 1..Segments |->
               Numeral(ValueOf(left[k], SegmentBase), SegmentBase)]
    BY <2>3
  <2>6. Join([k \in 1..Segments |->
                Numeral(ValueOf(left[k], SegmentBase), SegmentBase)], Colon)
          = s
    <3>1. /\ Segments \in Nat /\ SegmentBase \in Nat \ {0, 1}
          /\ Len(Split(s, Colon)) = Segments
          /\ \A k \in 1..Segments : Plain(Split(s, Colon)[k], SegmentBase)
      BY <2>2, <2>3, Bases
    <3>2. Join([k \in 1..Segments |->
                  Numeral(ValueOf(Split(s, Colon)[k], SegmentBase),
                          SegmentBase)], Colon) = s
      BY <3>1, WrittenAgain
    <3>3. QED
      BY <2>2, <3>2
  <2>7. QED
    BY <2>4, <2>5, <2>6
<1> HIDE DEF result
<1>9. QED
  BY <1>1, <1>7, <1>8

(* An IPv6 address is written as a text that is read as the same address.  *)
LEMMA WrittenIsRead ==
  ASSUME NEW addr \in Addresses(6)
  PROVE  FromString(ToString(addr)) = addr
<1> DEFINE b == SegmentBase
           N == [k \in 1..Segments |-> Numeral(addr.value[k], SegmentBase)]
           C == Nat \cup {Colon}
           s == ToString(addr)
<1>1. /\ addr.version = 6
      /\ addr.value \in [1..Segments -> 0..(Radix(6) - 1)]
      /\ addr = [version |-> 6, value |-> addr.value]
  BY Bases DEF Addresses
<1>2. ASSUME NEW k \in 1..Segments
      PROVE  /\ N[k] \in Seq(0..(SegmentBase - 1)) /\ N[k] # <<>>
             /\ Len(N[k]) \in 1..SegmentDigits
             /\ ValueOf(N[k], SegmentBase) = addr.value[k]
  <2> DEFINE n == addr.value[k]
  <2>1. n \in 0..(Radix(6) - 1)
    BY <1>1
  <2> HIDE DEF n
  <2>2. n \in Nat /\ n <= Largest(SegmentDigits, SegmentBase)
    BY <2>1, Bases
  <2>3. N[k] = Numeral(n, SegmentBase)
    BY DEF n
  <2>4. SegmentBase \in Nat \ {0, 1} /\ SegmentDigits \in Nat \ {0}
    BY Bases
  <2> HIDE DEF N
  <2>5. QED
    BY <2>2, <2>3, <2>4, NumeralHas, NumeralFits DEF n
<1>3. ASSUME NEW k \in 1..Segments
      PROVE  /\ IsSegment(N[k])
             /\ N[k] \in Seq(C)
             /\ ~Has(N[k], Colon)
  <2> DEFINE token == N[k]
  <2>1. /\ token \in Seq(0..(SegmentBase - 1))
        /\ Len(token) \in 1..SegmentDigits
    BY <1>2
  <2> HIDE DEF token, N
  <2>2. \A i \in 1..Len(token) : token[i] \in 0..(SegmentBase - 1)
    BY <2>1, LenProperties
  <2>3. 0..(SegmentBase - 1) \subseteq Nat
    BY Bases
  <2>4. token \in Seq(C)
    <3>1. 0..(SegmentBase - 1) \subseteq C
      BY <2>3
    <3> HIDE DEF C
    <3>2. QED
      BY <2>1, <3>1, SeqMonotonic
  <2>5. ~Has(token, Colon)
    <3>1. Colon \notin Nat
      BY TextAssumption
    <3>2. QED
      BY <2>2, <2>3, <3>1 DEF Has
  <2>6. IsSegment(token)
    BY <2>1, <2>2 DEF IsSegment
  <2>7. QED
    BY <2>4, <2>5, <2>6 DEF token
<1>4. N \in Seq(Seq(C)) /\ Len(N) = Segments /\ N # <<>>
  <2>1. N \in [1..Segments -> Seq(C)] /\ Segments \in Nat /\ Segments > 1
    BY <1>3, Bases
  <2> HIDE DEF N, C
  <2>2. N \in Seq(Seq(C))
    BY <2>1, SeqDef
  <2>3. Len(N) = Segments
    BY <2>1, <2>2, LenProperties
  <2>4. QED
    BY <2>1, <2>2, <2>3, EmptySeq
<1>5. s = Join(N, Colon)
  BY <1>1, Written6
<1> HIDE DEF s, N
<1>6. s \in Seq(C) /\ Split(s, Colon) = N
  <2>1. Colon \in C
    OBVIOUS
  <2> HIDE DEF C
  <2>2. \A k \in 1..Len(N) : ~Has(N[k], Colon)
    BY <1>3, <1>4
  <2>3. Join(N, Colon) \in Seq(C)
    BY <1>4, <2>1, JoinIs
  <2>4. Split(Join(N, Colon), Colon) = N
    BY <1>4, <2>1, <2>2, SplitJoin
  <2>5. QED
    BY <1>5, <2>3, <2>4
<1>7. Has(s, Colon) /\ s # <<>> /\ Len(s) \in Nat
  <2>1. Len(Split(s, Colon)) > 1
    BY <1>4, <1>6, Bases
  <2> HIDE DEF C
  <2>2. Has(s, Colon)
    BY <1>6, <2>1, SplitHas
  <2>3. QED
    BY <1>6, <2>2, LenProperties DEF Has
<1>8. \A k \in 1..Len(s) : s[k] # Nul
  <2>1. Nul \notin C
    BY TextAssumption
  <2> HIDE DEF C
  <2>2. QED
    BY <1>6, <2>1, LenProperties
<1>9. ~\E k \in 1..(Len(s) - 1) : s[k] = Colon /\ s[k + 1] = Colon
  <2> SUFFICES ASSUME NEW k \in 1..(Len(s) - 1), s[k] = Colon,
                      s[k + 1] = Colon
               PROVE  FALSE
    OBVIOUS
  <2> HIDE DEF C
  <2>1. \E m \in 1..Len(Split(s, Colon)) : Split(s, Colon)[m] = <<>>
    BY <1>6, SplitAdjacent
  <2>2. \E m \in 1..Segments : N[m] = <<>>
    BY <1>4, <1>6, <2>1
  <2>3. QED
    BY <1>2, <2>2
<1>10. InetPton(s) = addr
  <2> DEFINE gaps  == {k \in 1..(Len(s) - 1) :
                         s[k] = Colon /\ s[k + 1] = Colon}
             gap   == CHOOSE k \in gaps : TRUE
             left  == IF gaps = {} THEN Groups(s)
                      ELSE Groups(SubSeq(s, 1, gap - 1))
             right == IF gaps = {} THEN <<>>
                      ELSE Groups(SubSeq(s, gap + 2, Len(s)))
             given == left \o right
             Value(k) ==
               IF k <= Len(left) THEN ValueOf(left[k], SegmentBase)
               ELSE IF k > Segments - Len(right)
               THEN ValueOf(right[k - (Segments - Len(right))], SegmentBase)
               ELSE 0
             result == [version |-> 6,
                        value |-> [k \in 1..Segments |-> Value(k)]]
             Wrong == \E k \in 1..Len(given) : ~IsSegment(given[k])
             Count == IF gaps = {} THEN Len(given) # Segments
                      ELSE Cardinality(gaps) > 1 \/ Len(given) >= Segments
  <2>1. InetPton(s) = IF Wrong \/ Count THEN Refused ELSE result
    BY DEF InetPton
  <2>2. gaps = {}
    BY <1>9
  <2>3. left = N /\ right = <<>>
    <3>1. left = Groups(s) /\ right = <<>>
      BY <2>2
    <3>2. Groups(s) = N
      BY <1>6, <1>7 DEF Groups
    <3>3. QED
      BY <3>1, <3>2
  <2>4. given = N
    <3>1. N \o <<>> = N
      BY <1>4, ConcatEmptySeq
    <3> HIDE DEF left, right
    <3>2. QED
      BY <2>3, <3>1
  <2>5. \A k \in 1..Segments : Value(k) = addr.value[k]
    <3> HIDE DEF left, right
    <3>1. ASSUME NEW k \in 1..Segments PROVE Value(k) = addr.value[k]
      <4>1. k <= Len(left)
        BY <1>4, <2>3, Bases
      <4>2. Value(k) = ValueOf(left[k], SegmentBase)
        BY <4>1
      <4> HIDE DEF Value
      <4>3. QED
        BY <1>2, <2>3, <4>2
    <3>2. QED
      BY <3>1
  <2>6. ~Count
    <3> HIDE DEF gaps, given
    <3>1. QED
      BY <1>4, <2>2, <2>4
  <2>7. ~Wrong
    <3> HIDE DEF given
    <3>1. QED
      BY <1>3, <1>4, <2>4
  <2>8. result = addr
    <3> HIDE DEF Value
    <3>1. [k \in 1..Segments |-> Value(k)] = addr.value
      BY <1>1, <2>5
    <3>2. QED
      BY <1>1, <3>1
  <2> HIDE DEF Wrong, Count, result
  <2>9. QED
    BY <2>1, <2>6, <2>7, <2>8
<1>11. FromString(s) = InetPton(s)
  <2>1. ~Has(s, Nul)
    BY <1>8 DEF Has
  <2>2. UpToNul(s) = s
    BY <2>1 DEF UpToNul
  <2>3. ~\E k \in 1..(Len(s) - 1) : s[k] = Nul
    BY <1>7, <1>8
  <2>4. QED
    BY <1>7, <2>2, <2>3 DEF FromString
<1>12. QED
  BY <1>10, <1>11 DEF s

(* The texts that are typed.                                               *)
TextType == text \in Seq(Typed)

(* Only such texts are typed.                                              *)
LEMMA TextsAreTexts == TextSpec => []TextType
<1>1. TextInit => TextType
  BY EmptySeq DEF TextInit, TextType
<1>2. ASSUME TextType, [Type]_text PROVE TextType'
  <2>1. CASE Type
    <3>1. PICK c \in Typed : text' = Append(text, c)
      BY <2>1 DEF Type
    <3>2. QED
      BY <1>2, <3>1, Appended DEF TextType
  <2>2. CASE UNCHANGED text
    BY <1>2, <2>2 DEF TextType
  <2>3. QED
    BY <1>2, <2>1, <2>2
<1>3. QED
  BY <1>1, <1>2, PTL DEF TextSpec

(* The address that a text is read as is written as a text that is read as *)
(* the same address; of IPv4 it is the text itself, and of IPv6 only what  *)
(* the comment of TextIsCanonical names can differ.                        *)
LEMMA TextIs ==
  ASSUME NEW C, {Dot, Colon, Nul} \subseteq C, NEW s \in Seq(C),
         FromString(s) # Refused
  PROVE  LET addr == FromString(s)
         IN  /\ addr \in Addresses(addr.version)
             /\ FromString(ToString(addr)) = addr
             /\ addr.version = 4 => ToString(addr) = s
             /\ addr.version = 6 /\ ToString(addr) # s =>
                  \/ Has(s, Nul)
                  \/ Followed(s, 0, Colon)
                  \/ \E k \in 1..(Len(s) - 1) :
                       s[k] = Colon /\ s[k + 1] = Colon
<1> DEFINE addr == FromString(s)
<1>1. \A v : \A a \in Addresses(v) : a.version = v
  BY DEF Addresses
<1>2. CASE Has(s, Colon)
  <2> DEFINE u == UpToNul(s)
  <2>1. addr = InetPton(u)
    BY <1>2 DEF FromString
  <2>2. u \in Seq(C)
    <3>1. Split(s, Nul) \in Seq(Seq(C)) /\ Split(s, Nul) # <<>>
      BY SplitType
    <3>2. Len(Split(s, Nul)) \in Nat /\ Len(Split(s, Nul)) # 0
      BY <3>1, EmptySeq, LenProperties
    <3>3. 1 \in 1..Len(Split(s, Nul))
      BY <3>2
    <3>4. Split(s, Nul)[1] \in Seq(C)
      BY <3>1, <3>3, LenProperties
    <3>5. QED
      BY <3>4 DEF UpToNul
  <2>3. ~Has(s, Nul) => u = s
    BY DEF UpToNul
  <2>4. s # <<>>
    BY <1>2, EmptySeq DEF Has
  <2> HIDE DEF u, addr
  <2>5. /\ InetPton(u) \in Addresses(6)
        /\ /\ u # <<>>
           /\ ~\E k \in 1..(Len(u) - 1) : u[k] = Colon /\ u[k + 1] = Colon
           /\ ~Followed(u, 0, Colon)
           => ToString(InetPton(u)) = u
    <3>1. InetPton(u) # Refused
      BY <2>1 DEF addr
    <3>2. QED
      BY <2>2, <3>1, InetPtonIs
  <2>6. addr \in Addresses(6) /\ addr.version = 6
    BY <1>1, <2>1, <2>5
  <2>7. FromString(ToString(addr)) = addr
    BY <2>6, WrittenIsRead
  <2>8. ToString(addr) # s =>
          \/ Has(s, Nul)
          \/ Followed(s, 0, Colon)
          \/ \E k \in 1..(Len(s) - 1) : s[k] = Colon /\ s[k + 1] = Colon
    BY <2>1, <2>3, <2>4, <2>5
  <2>9. addr.version # 4
    BY <2>6
  <2>10. QED
    BY <2>6, <2>7, <2>8, <2>9 DEF addr
<1>3. CASE ~Has(s, Colon)
  <2>1. addr = FromDotted(s)
    BY <1>3 DEF FromString
  <2>2. /\ FromDotted(s) \in Addresses(4)
        /\ ToString(FromDotted(s)) = s
    BY <2>1, DottedIs
  <2> HIDE DEF addr
  <2>3. addr \in Addresses(4) /\ addr.version = 4 /\ ToString(addr) = s
    BY <1>1, <2>1, <2>2
  <2>4. FromString(ToString(addr)) = addr
    BY <2>3 DEF addr
  <2>5. QED
    BY <2>3, <2>4 DEF addr
<1>4. QED
  BY <1>2, <1>3

(* ethernet_address_factory::from_string() reads what to_string() of the   *)
(* address it gives writes, as the same address, whatever the texts.       *)
THEOREM TextsAreCanonical == TextSpec => []TextIsCanonical
<1>1. TextType => TextIsCanonical
  <2> SUFFICES ASSUME TextType, FromString(text) # Refused
               PROVE  LET addr == FromString(text)
                      IN  /\ addr \in Addresses(addr.version)
                          /\ FromString(ToString(addr)) = addr
                          /\ addr.version = 4 => ToString(addr) = text
                          /\ addr.version = 6 /\ ToString(addr) # text =>
                               \/ Has(text, Nul)
                               \/ \E k \in 1..Len(text) :
                                    /\ text[k] = 0 /\ k < Len(text)
                                    /\ text[k + 1] # Colon
                               \/ \E k \in 1..(Len(text) - 1) :
                                    text[k] = Colon /\ text[k + 1] = Colon
    BY DEF TextIsCanonical
  <2> DEFINE C == Typed \cup {Dot, Colon, Nul}
  <2>1. text \in Seq(C) /\ {Dot, Colon, Nul} \subseteq C
    <3>1. Typed \subseteq C
      OBVIOUS
    <3>2. QED
      BY <3>1, SeqMonotonic DEF TextType
  <2> HIDE DEF C
  <2> DEFINE addr == FromString(text)
  <2>2. /\ addr \in Addresses(addr.version)
        /\ FromString(ToString(addr)) = addr
        /\ addr.version = 4 => ToString(addr) = text
        /\ addr.version = 6 /\ ToString(addr) # text =>
             \/ Has(text, Nul)
             \/ Followed(text, 0, Colon)
             \/ \E k \in 1..(Len(text) - 1) :
                  text[k] = Colon /\ text[k + 1] = Colon
    BY <2>1, TextIs
  <2>3. Followed(text, 0, Colon) =>
          \E k \in 1..Len(text) :
            text[k] = 0 /\ k < Len(text) /\ text[k + 1] # Colon
    <3>1. Len(text) \in Nat
      BY <2>1, LenProperties
    <3>2. QED
      BY <3>1 DEF Followed
  <2>4. QED
    BY <2>2, <2>3
<1>2. QED
  BY <1>1, TextsAreTexts, PTL
=============================================================================
