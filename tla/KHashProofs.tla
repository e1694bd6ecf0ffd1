------------------------------ MODULE KHashProofs ------------------------------
(***************************************************************************)
(* Theorems about KHash: the walk over a table of a power of two of        *)
(* buckets visits each of them, so a walk that starts in a table with an   *)
(* empty bucket ends there; and with this that entries are kept once, that *)
(* the counts are true, that lookups find what is stored, and that the     *)
(* table implements Registry.                                              *)
(***************************************************************************)
EXTENDS KHash, FunctionTheorems, FiniteSetTheorems, WellFoundedInduction, TLAPS

(* Least and greatest elements.  The library's induction theorems cannot be
   used; that the finite sets of numbers are well-founded can.               *)
LEMMA Least ==
  ASSUME NEW S \in SUBSET Nat, S # {}
  PROVE  \E m \in S : \A x \in S : m <= x
<1> DEFINE T == {1 .. m : m \in S}
<1>1. T \subseteq FiniteSubsetsOf(Nat) /\ T # {}
  <2>1. ASSUME NEW m \in S PROVE 1 .. m \in SUBSET Nat /\ IsFiniteSet(1 .. m)
    BY FS_Interval
  <2> QED
    BY <2>1 DEF FiniteSubsetsOf
<1>2. PICK t \in T : \A u \in T : <<u, t>> \notin StrictSubsetOrdering(Nat)
  <2> HIDE DEF T
  <2> QED
    BY <1>1, FS_StrictSubsetOrderingWellFounded, WFMin
<1>3. PICK m \in S : t = 1 .. m
  OBVIOUS
<1>4. ASSUME NEW x \in S, x < m PROVE FALSE
  <2>1. 1 .. x \subseteq 1 .. m /\ m \in 1 .. m /\ m \notin 1 .. x
    BY <1>4
  <2>2. <<1 .. x, 1 .. m>> \in StrictSubsetOrdering(Nat)
    BY <2>1 DEF StrictSubsetOrdering
  <2> QED
    BY <1>2, <1>3, <2>2
<1>5. \A x \in S : m <= x
  BY <1>4
<1> QED
  BY <1>5

LEMMA MinIsLeast ==
  ASSUME NEW S \in SUBSET Nat, S # {}
  PROVE  Min(S) \in S /\ \A x \in S : Min(S) <= x
  BY Least DEF Min

LEMMA MaxIsGreatest ==
  ASSUME NEW S \in SUBSET Nat, S # {}, NEW b \in Nat, \A x \in S : x <= b
  PROVE  Max(S) \in S /\ \A x \in S : x <= Max(S)
<1> DEFINE D == {d \in Nat : b - d \in S}
<1>1. PICK x \in S : TRUE
  OBVIOUS
<1>2. b - x \in D
  <2>1. b - x \in Nat /\ b - (b - x) = x
    OBVIOUS
  <2> QED
    BY <2>1
<1>3. PICK d \in D : \A e \in D : d <= e
  <2>1. D \in SUBSET Nat /\ D # {}
    BY <1>2
  <2> HIDE DEF D
  <2> QED
    BY <2>1, Least
<1>4. \A y \in S : y <= b - d
  <2> TAKE y \in S
  <2>1. b - y \in Nat /\ b - (b - y) = y
    OBVIOUS
  <2>2. d <= b - y
    BY <1>3, <2>1
  <2> QED
    BY <2>1, <2>2
<1>5. b - d \in S /\ \A y \in S : b - d >= y
  BY <1>4
<1> QED
  BY <1>5 DEF Max

------------------------------------------------------------------------------
(* The numbers of buckets.                                                   *)

LEMMA SizesListed ==
  Sizes = {4, 8, 16, 32, 64, 128, 256, 512, 1024, 2048, 4096, 8192, 16384, 32768,
           65536, 131072, 262144, 524288, 1048576, 2097152, 4194304, 8388608,
           16777216, 33554432, 67108864, 134217728, 268435456, 536870912,
           1073741824}
<1> DEFINE listed == {4, 8, 16, 32, 64, 128, 256, 512, 1024, 2048, 4096, 8192, 16384,
                      32768, 65536, 131072, 262144, 524288, 1048576, 2097152,
                      4194304, 8388608, 16777216, 33554432, 67108864, 134217728,
                      268435456, 536870912, 1073741824}
<1>1. ASSUME NEW e \in 2 .. 30 PROVE 2 ^ e \in listed
  <2>1. CASE e \in 2 .. 9
    <3>1. \/ e = 2 \/ e = 3 \/ e = 4 \/ e = 5 \/ e = 6 \/ e = 7 \/ e = 8 \/ e = 9
      BY <2>1
    <3>2. \/ 2 ^ e = 2 ^ 2 \/ 2 ^ e = 2 ^ 3 \/ 2 ^ e = 2 ^ 4 \/ 2 ^ e = 2 ^ 5
          \/ 2 ^ e = 2 ^ 6 \/ 2 ^ e = 2 ^ 7 \/ 2 ^ e = 2 ^ 8 \/ 2 ^ e = 2 ^ 9
      BY <3>1, Zenon
    <3> QED
      BY <3>2
  <2>2. CASE e \in 10 .. 16
    <3>1. \/ e = 10 \/ e = 11 \/ e = 12 \/ e = 13 \/ e = 14 \/ e = 15 \/ e = 16
      BY <2>2
    <3>2. \/ 2 ^ e = 2 ^ 10 \/ 2 ^ e = 2 ^ 11 \/ 2 ^ e = 2 ^ 12 \/ 2 ^ e = 2 ^ 13
          \/ 2 ^ e = 2 ^ 14 \/ 2 ^ e = 2 ^ 15 \/ 2 ^ e = 2 ^ 16
      BY <3>1, Zenon
    <3> QED
      BY <3>2
  <2>3. CASE e \in 17 .. 23
    <3>1. \/ e = 17 \/ e = 18 \/ e = 19 \/ e = 20 \/ e = 21 \/ e = 22 \/ e = 23
      BY <2>3
    <3>2. \/ 2 ^ e = 2 ^ 17 \/ 2 ^ e = 2 ^ 18 \/ 2 ^ e = 2 ^ 19 \/ 2 ^ e = 2 ^ 20
          \/ 2 ^ e = 2 ^ 21 \/ 2 ^ e = 2 ^ 22 \/ 2 ^ e = 2 ^ 23
      BY <3>1, Zenon
    <3> QED
      BY <3>2
  <2>4. CASE e \in 24 .. 30
    <3>1. \/ e = 24 \/ e = 25 \/ e = 26 \/ e = 27 \/ e = 28 \/ e = 29 \/ e = 30
      BY <2>4
    <3>2. \/ 2 ^ e = 2 ^ 24 \/ 2 ^ e = 2 ^ 25 \/ 2 ^ e = 2 ^ 26 \/ 2 ^ e = 2 ^ 27
          \/ 2 ^ e = 2 ^ 28 \/ 2 ^ e = 2 ^ 29 \/ 2 ^ e = 2 ^ 30
      BY <3>1, Zenon
    <3> QED
      BY <3>2
  <2> QED
    BY <2>1, <2>2, <2>3, <2>4
<1>2. \A x \in listed : x \in Sizes
  BY DEF Sizes
<1> QED
  BY <1>1, <1>2 DEF Sizes

LEMMA SizesProperties ==
  /\ Sizes \subseteq Nat
  /\ 4 \in Sizes
  /\ \A p \in Sizes : p >= 4 /\ p <= 2 ^ 30 /\ p % 2 = 0
  /\ \A p, q \in Sizes : p < q => 2 * p <= q
  /\ \A p \in Sizes : p < 2 ^ 30 => 2 * p \in Sizes
  /\ \A p \in Sizes : p = 4 \/ \E q \in Sizes : p = 2 * q
  BY SizesListed

------------------------------------------------------------------------------
(* The walk.  Two of its first n buckets are never the same: the difference    *)
(* of two triangular numbers is half a product of an odd and an even number.   *)

LEMMA Cancel ==
  ASSUME NEW q \in Nat \ {0}, NEW u \in Int, NEW v \in Int, q * u = q * v
  PROVE  u = v
<1>1. q * (u - v) = 0
  OBVIOUS
<1>2. u - v = 0
  <2>1. CASE u - v >= 1
    <3>1. q * (u - v) >= 1
      BY <2>1
    <3> QED
      BY <1>1, <3>1
  <2>2. CASE u - v <= -1
    <3>1. q * (u - v) <= -1
      BY <2>2
    <3> QED
      BY <1>1, <3>1
  <2> QED
    BY <2>1, <2>2
<1> QED
  BY <1>2

Odd(n) == n % 2 = 1
Divides(p, n) == \E d \in Nat : n = p * d

LEMMA OddTimes ==
  ASSUME NEW x \in Nat, NEW d \in Nat, Odd(x), Divides(2, x * d)
  PROVE  Divides(2, d)
<1>0. PICK c \in Nat : x * d = 2 * c
  BY DEF Divides
<1>1. PICK y \in Nat : x = 2 * y + 1
  <2>1. x = 2 * (x \div 2) + (x % 2) /\ x \div 2 \in Nat
    OBVIOUS
  <2> QED
    BY <2>1 DEF Odd
<1>2. d = 2 * (c - y * d)
  <2>1. (2 * y + 1) * d = 2 * (y * d) + d
    OBVIOUS
  <2>2. 2 * (y * d) + d = 2 * c
    BY <1>0, <1>1, <2>1
  <2>3. y * d \in Nat
    OBVIOUS
  <2> QED
    BY <2>2, <2>3
<1>3. c - y * d \in Nat
  <2>1. y * d \in Nat
    OBVIOUS
  <2> QED
    BY <1>2, <2>1
<1> QED
  BY <1>2, <1>3 DEF Divides

(* The powers of two that Euclid's lemma below is about.                     *)
Powers == {1, 2, 2 ^ 31} \cup Sizes

LEMMA PowersProperties ==
  /\ Powers \subseteq Nat \ {0}
  /\ \A p \in Powers : p = 1 \/ \E q \in Powers : q < p /\ p = 2 * q
  /\ \A n \in Sizes : 2 * n \in Powers
<1>1. \A p \in Sizes : p = 4 \/ \E q \in Sizes : p = 2 * q
  BY SizesProperties
<1>2. \A p \in Sizes : p >= 4 /\ p <= 2 ^ 30 /\ p \in Nat
  BY SizesProperties
<1>3. 2 ^ 30 \in Sizes
  BY SizesListed
<1>4. \A p \in Sizes : p < 2 ^ 30 => 2 * p \in Sizes
  BY SizesProperties
<1> HIDE DEF Sizes
<1> QED
  BY <1>1, <1>2, <1>3, <1>4 DEF Powers

LEMMA Euclid ==
  ASSUME NEW p \in Powers, NEW x \in Nat, NEW y \in Nat, Odd(x), Divides(p, x * y)
  PROVE  Divides(p, y)
<1> DEFINE Fails(m) == \E u, v \in Nat :
             /\ Odd(u) /\ Divides(m, u * v)
             /\ ~Divides(m, v)
           Bad == {m \in Powers : Fails(m)}
<1>1. SUFFICES ASSUME Bad # {} PROVE FALSE
  OBVIOUS
<1>2. PICK m \in Bad : \A o \in Bad : m <= o
  <2>1. Bad \in SUBSET Nat
    BY PowersProperties
  <2> HIDE DEF Bad
  <2> QED
    BY <1>1, <2>1, Least
<1>3. PICK u \in Nat, v \in Nat : Odd(u) /\ Divides(m, u * v) /\ ~Divides(m, v)
  BY <1>2
<1>4. PICK w \in Nat : u * v = m * w
  BY <1>3 DEF Divides
<1>5. m # 1
  <2>1. m = 1 => v = m * v
    OBVIOUS
  <2> QED
    BY <1>3, <2>1 DEF Divides
<1>6. PICK q \in Powers : q < m /\ m = 2 * q
  BY <1>5, PowersProperties
<1>7. q \in Nat \ {0} /\ q \notin Bad
  <2>1. m \in Nat
    BY PowersProperties
  <2> HIDE DEF Bad
  <2> QED
    BY <1>2, <1>6, <2>1, PowersProperties
\* Half the divisor does not fail, but the other half of it is divided too.
<1>8. u * v = q * (2 * w) /\ 2 * w \in Nat
  <2>1. (2 * q) * w = q * (2 * w)
    BY <1>7
  <2> QED
    BY <1>4, <1>6, <2>1
<1>9. PICK d \in Nat : v = q * d
  <2>1. Divides(q, u * v)
    BY <1>8 DEF Divides
  <2>2. ~Fails(q)
    BY <1>7
  <2>3. Divides(q, v)
    BY <1>3, <2>1, <2>2
  <2> QED
    BY <2>3 DEF Divides
<1>10. Divides(2, u * d)
  <2>1. q * (u * d) = u * (q * d)
    BY <1>7
  <2>2. q * (u * d) = q * (2 * w)
    BY <1>8, <1>9, <2>1
  <2>3. PICK a \in Int, b \in Int : a = u * d /\ b = 2 * w
    OBVIOUS
  <2>4. q * a = q * b
    BY <2>2, <2>3
  <2>5. q \in Nat \ {0}
    BY <1>7
  <2>6. a = b
    BY <2>4, <2>5, Cancel, Zenon
  <2> QED
    BY <2>3, <2>6 DEF Divides
<1>11. Divides(2, d)
  BY <1>3, <1>10, OddTimes
<1>12. PICK e \in Nat : d = 2 * e
  BY <1>11 DEF Divides
<1>13. v = m * e
  <2>1. q * (2 * e) = (2 * q) * e
    BY <1>7
  <2> QED
    BY <1>6, <1>9, <1>12, <2>1
<1> QED
  BY <1>3, <1>13 DEF Divides

(* A triangular number, as Probe computes it. *)
LEMMA Triangle ==
  ASSUME NEW s \in Nat
  PROVE  /\ (s * (s + 1)) \div 2 \in Nat
         /\ 2 * ((s * (s + 1)) \div 2) = s * (s + 1)
<1>1. PICK a \in Nat : a = s * (s + 1)
  OBVIOUS
<1>2. a % 2 = 0
  <2>1. \E y \in Nat : s = 2 * y \/ s = 2 * y + 1
    <3>1. s = 2 * (s \div 2) + (s % 2) /\ s \div 2 \in Nat /\ s % 2 \in {0, 1}
      OBVIOUS
    <3> QED
      BY <3>1
  <2>2. PICK y \in Nat : s = 2 * y \/ s = 2 * y + 1
    BY <2>1
  <2>3. CASE s = 2 * y
    <3>1. a = 2 * (y * (s + 1)) /\ y * (s + 1) \in Nat
      BY <1>1, <2>3
    <3> QED
      BY <3>1
  <2>4. CASE s = 2 * y + 1
    <3>1. a = 2 * (s * (y + 1)) /\ s * (y + 1) \in Nat
      BY <1>1, <2>4
    <3> QED
      BY <3>1
  <2> QED
    BY <2>2, <2>3, <2>4
<1>3. a \div 2 \in Nat /\ 2 * (a \div 2) = a
  BY <1>2
<1> QED
  BY <1>1, <1>3

LEMMA ProbeInTable ==
  ASSUME hash \in [Keys -> Nat], NEW k \in Keys, NEW n \in Nat \ {0}, NEW s \in Nat
  PROVE  Probe(k, n, s) \in 0 .. n - 1
<1>1. PICK t \in Nat : t = (s * (s + 1)) \div 2
  BY Triangle
<1>2. PICK h \in Nat : h = hash[k]
  OBVIOUS
<1>3. (h + t) % n \in 0 .. n - 1
  OBVIOUS
<1> QED
  BY <1>1, <1>2, <1>3 DEF Probe

LEMMA NoBucketTwice ==
  ASSUME hash \in [Keys -> Nat], NEW k \in Keys, NEW n \in Sizes,
         NEW s \in 0 .. n - 1, NEW t \in 0 .. n - 1, s < t
  PROVE  Probe(k, n, s) # Probe(k, n, t)
<1>1. n \in Nat \ {0}
  BY SizesProperties
<1>2. PICK h \in Nat : h = hash[k]
  OBVIOUS
<1>3. PICK u \in Nat, v \in Nat :
        /\ u = (s * (s + 1)) \div 2 /\ 2 * u = s * (s + 1)
        /\ v = (t * (t + 1)) \div 2 /\ 2 * v = t * (t + 1)
  BY <1>1, Triangle
<1>4. SUFFICES ASSUME (h + u) % n = (h + v) % n PROVE FALSE
  BY <1>2, <1>3 DEF Probe
<1>5. PICK q \in Nat, r \in Nat :
        /\ h + u = n * q + ((h + u) % n)
        /\ h + v = n * r + ((h + v) % n)
  <2>1. \A x \in Nat : x = n * (x \div n) + (x % n) /\ x \div n \in Nat
    BY <1>1
  <2>2. h + u \in Nat /\ h + v \in Nat
    OBVIOUS
  <2> QED
    BY <2>1, <2>2
<1>6. v - u = n * (r - q)
  <2>1. v - u = n * r - n * q
    <3>1. n * q \in Nat /\ n * r \in Nat /\ (h + u) % n \in Nat
      BY <1>1
    <3> QED
      BY <1>4, <1>5, <3>1
  <2>2. n * r - n * q = n * (r - q)
    BY <1>1
  <2> QED
    BY <2>1, <2>2
<1>7. PICK a \in Nat, b \in Nat : a = t - s /\ b = t + s + 1
  BY <1>1
<1>8. a * b = (2 * n) * (r - q)
  <2>1. a * b = t * (t + 1) - s * (s + 1)
    BY <1>1, <1>7
  <2>2. (2 * n) * (r - q) = 2 * (n * (r - q))
    BY <1>1
  <2> QED
    BY <1>3, <1>6, <2>1, <2>2
<1>9. r - q \in Nat
  <2>1. a * b >= 0
    OBVIOUS
  <2>2. r - q <= -1 => (2 * n) * (r - q) < 0
    BY <1>1
  <2> QED
    BY <1>8, <2>1, <2>2
<1>10. 2 * n \in Powers
  BY PowersProperties
<1>11. a \in 1 .. n - 1 /\ b \in 1 .. 2 * n - 1
  BY <1>1, <1>7
<1>12. Odd(a) \/ Odd(b)
  BY <1>1, <1>7 DEF Odd
<1>13. ~Divides(2 * n, a) /\ ~Divides(2 * n, b)
  <2>1. ASSUME NEW d \in Nat PROVE a # (2 * n) * d /\ b # (2 * n) * d
    <3>1. d = 0 => (2 * n) * d = 0
      BY <1>1
    <3>2. d >= 1 => (2 * n) * d >= 2 * n
      BY <1>1
    <3> QED
      BY <1>1, <1>11, <3>1, <3>2
  <2> QED
    BY <2>1 DEF Divides
<1>14. Divides(2 * n, a * b) /\ Divides(2 * n, b * a)
  <2>1. b * a = a * b
    OBVIOUS
  <2> QED
    BY <1>8, <1>9, <2>1 DEF Divides
<1> QED
  BY <1>10, <1>12, <1>13, <1>14, Euclid

(* So the first n buckets of a walk are all of them.                         *)
LEMMA EveryBucketMet ==
  ASSUME hash \in [Keys -> Nat], NEW k \in Keys, NEW n \in Sizes,
         NEW i \in 0 .. n - 1
  PROVE  \E s \in 0 .. n - 1 : Probe(k, n, s) = i
<1> DEFINE B == 0 .. n - 1
           P == [s \in B |-> Probe(k, n, s)]
<1>1. n \in Nat \ {0}
  BY SizesProperties
<1>2. P \in [B -> B]
  BY <1>1, ProbeInTable
<1>3. IsInjective(P)
  <2>1. ASSUME NEW s \in B, NEW t \in B, P[s] = P[t] PROVE s = t
    <3>1. CASE s < t
      BY <2>1, <3>1, NoBucketTwice
    <3>2. CASE t < s
      BY <2>1, <3>2, NoBucketTwice
    <3> QED
      BY <1>1, <3>1, <3>2
  <2> QED
    BY <2>1 DEF IsInjective
<1>4. IsFiniteSet(B) /\ Cardinality(B) = Cardinality(B)
  BY <1>1, FS_Interval
<1>5. P \in Surjection(B, B)
  <2>1. P \in Injection(B, B)
    BY <1>2, <1>3 DEF Injection
  <2> HIDE DEF P, B
  <2> QED
    BY <1>4, <2>1, FS_Injection
<1> QED
  BY <1>5 DEF Surjection

------------------------------------------------------------------------------
(* How large the tables are.                                                 *)

LEMMA UpperBoundProperties ==
  /\ UpperBound(0) = 0
  /\ UpperBound(4) = 3
  /\ \A n \in Nat : /\ UpperBound(n) \in Nat
                    /\ n >= 4 => UpperBound(n) < n /\ 2 * UpperBound(n) >= n
<1>1. UpperBound(0) = 0 /\ UpperBound(4) = 3
  BY DEF UpperBound
<1>2. ASSUME NEW n \in Nat
      PROVE  /\ UpperBound(n) \in Nat
             /\ n >= 4 => UpperBound(n) < n /\ 2 * UpperBound(n) >= n
  BY DEF UpperBound
<1> QED
  BY <1>1, <1>2

LEMMA RoundUpIs ==
  ASSUME NEW p \in Sizes, NEW m \in Nat, m <= p, \A q \in Sizes : q < p => q < m
  PROVE  RoundUp(m) = p
<1> DEFINE S == {q \in Sizes : q >= m}
<1>1. S \in SUBSET Nat /\ S # {} /\ p \in S /\ \A q \in S : q >= p
  <2>1. \A q \in Sizes : q \in Nat
    BY SizesProperties
  <2>2. p \in S
    BY <2>1
  <2>3. ASSUME NEW q \in S PROVE q \in Nat /\ q >= p
    BY <2>1
  <2> QED
    BY <2>2, <2>3
<1>2. Min(S) \in S /\ \A q \in S : Min(S) <= q
  <2> HIDE DEF S
  <2> QED
    BY <1>1, MinIsLeast
<1>3. Min(S) = p
  <2>1. Min(S) \in Nat /\ Min(S) >= p /\ Min(S) <= p /\ p \in Nat
    <3> HIDE DEF S
    <3> QED
      BY <1>1, <1>2
  <2> QED
    BY <2>1
<1> QED
  BY <1>3 DEF RoundUp

\* What a put asks for is at least what there is, and holds the entries.
LEMMA WantedFits ==
  ASSUME n_buckets \in Sizes \cup {0}, n_buckets <= MaxBuckets,
         size \in Nat, size <= UpperBound(n_buckets)
  PROVE  Wanted \in Sizes /\ n_buckets <= Wanted /\ size < UpperBound(Wanted)
<1>1. \A p \in Sizes : p \in Nat /\ p >= 4
  BY SizesProperties
<1>2. \A p, q \in Sizes : p < q => 2 * p <= q
  BY SizesProperties
<1>3. CASE n_buckets = 0
  <2>1. RoundUp(1) = 4
    <3>1. 4 \in Sizes /\ \A q \in Sizes : ~ (q < 4)
      BY <1>1, SizesProperties
    <3> HIDE DEF Sizes
    <3> QED
      BY <3>1, RoundUpIs
  <2>2. Wanted = 4
    BY <1>3, <2>1 DEF Wanted
  <2>3. size = 0
    BY <1>3, UpperBoundProperties
  <2> QED
    BY <1>3, <2>2, <2>3, UpperBoundProperties, SizesProperties
<1>4. CASE n_buckets \in Sizes /\ n_buckets > 2 * size
  <2>1. n_buckets \in Nat /\ n_buckets >= 4
    BY <1>1, <1>4
  <2>2. RoundUp(n_buckets - 1) = n_buckets
    <3>1. n_buckets - 1 \in Nat /\ n_buckets - 1 <= n_buckets
      BY <2>1
    <3>2. ASSUME NEW q \in Sizes, q < n_buckets PROVE q < n_buckets - 1
      <4>1. 2 * q <= n_buckets /\ q \in Nat /\ q >= 4
        BY <1>1, <1>2, <1>4, <3>2
      <4> QED
        BY <2>1, <4>1
    <3> HIDE DEF Sizes
    <3> QED
      BY <1>4, <3>1, <3>2, RoundUpIs
  <2>3. Wanted = n_buckets
    BY <1>4, <2>2 DEF Wanted
  <2>4. UpperBound(n_buckets) \in Nat /\ 2 * UpperBound(n_buckets) >= n_buckets
    BY <2>1, UpperBoundProperties
  <2> QED
    BY <1>4, <2>1, <2>3, <2>4
<1>5. CASE n_buckets \in Sizes /\ ~ (n_buckets > 2 * size)
  <2>1. n_buckets \in Nat /\ n_buckets >= 4
    BY <1>1, <1>5
  <2>2. 2 * n_buckets \in Sizes
    <3>1. n_buckets < 2 ^ 30
      BY <2>1, BoundAssumption
    <3> QED
      BY <1>5, <3>1, SizesProperties
  <2>3. RoundUp(n_buckets + 1) = 2 * n_buckets
    <3>1. n_buckets + 1 \in Nat /\ n_buckets + 1 <= 2 * n_buckets
      BY <2>1
    <3>2. ASSUME NEW q \in Sizes, q < 2 * n_buckets PROVE q < n_buckets + 1
      <4>1. ~ (n_buckets < q)
        BY <1>1, <1>2, <1>5, <2>1, <3>2
      <4> QED
        BY <1>1, <2>1, <4>1
    <3> HIDE DEF Sizes
    <3> QED
      BY <2>2, <3>1, <3>2, RoundUpIs
  <2>4. Wanted = 2 * n_buckets
    BY <1>5, <2>3 DEF Wanted
  <2>5. UpperBound(n_buckets) \in Nat /\ UpperBound(n_buckets) < n_buckets
    BY <2>1, UpperBoundProperties
  <2>6. UpperBound(2 * n_buckets) \in Nat
        /\ 2 * UpperBound(2 * n_buckets) >= 2 * n_buckets
    <3>1. 2 * n_buckets \in Nat /\ 2 * n_buckets >= 4
      BY <2>1
    <3> QED
      BY <3>1, UpperBoundProperties
  <2> QED
    BY <2>1, <2>2, <2>4, <2>5, <2>6
<1> QED
  BY <1>3, <1>4, <1>5

\* A table with fewer buckets in use than it has has one that is empty.
LEMMA EmptyBucket ==
  ASSUME NEW n \in Nat, NEW table,
         Cardinality({i \in 0 .. n - 1 : table[i] # "empty"}) < n
  PROVE  \E e \in 0 .. n - 1 : table[e] = "empty"
<1>1. SUFFICES ASSUME \A e \in 0 .. n - 1 : table[e] # "empty" PROVE FALSE
  OBVIOUS
<1> DEFINE used == {i \in 0 .. n - 1 : table[i] # "empty"}
<1>2. used = 0 .. n - 1
  BY <1>1
<1>3. Cardinality(0 .. n - 1) = n
  BY FS_Interval
<1>4. Cardinality(used) < n
  OBVIOUS
<1> HIDE DEF used
<1> QED
  BY <1>2, <1>3, <1>4

------------------------------------------------------------------------------
(* The invariant.                                                            *)

\* The step of k's walk at bucket i is reached: no empty bucket comes before.
OnWay(table, n, k, i) ==
  \E s \in 0 .. n - 1 :
    /\ Probe(k, n, s) = i
    /\ \A r \in 0 .. s - 1 : table[Probe(k, n, r)] # "empty"

Used == {i \in Buckets : flags[i] # "empty"}

Alive == Live \cup NewLive

InvTypes ==
  /\ hash \in [Keys -> Nat]
  /\ n_buckets \in Sizes \cup {0} /\ n_buckets <= MaxBuckets
  /\ upper_bound = UpperBound(n_buckets)
  /\ size \in Nat /\ n_occupied \in Nat
  /\ flags \in [Buckets -> Flag]
  /\ slots \in [IF pc = "rehash" THEN 0 .. new_buckets - 1 ELSE Buckets
                  -> Entry \cup {None}]
  /\ pc \in {"idle", "rehash", "store", "wild"}
  /\ arg \in Entry \cup {None}
  /\ j \in 0 .. n_buckets
  /\ hand \in Entry \cup {None}

\* What a call in kh_resize has set up, and that others find nothing of it.
InvPhase ==
  /\ pc \in {"idle", "wild"} =>
       arg = None /\ new_buckets = 0 /\ new_flags = Empties(0) /\ j = 0
  /\ pc \in {"rehash", "store"} =>
       /\ arg \in Entry
       /\ new_buckets \in Sizes /\ new_buckets <= MaxBuckets
       /\ n_buckets <= new_buckets
       /\ new_flags \in [0 .. new_buckets - 1 -> {"empty", "live"}]
  /\ pc = "rehash" =>
       /\ size < UpperBound(new_buckets)
       /\ \A i \in Buckets : i < j => flags[i] # "live"
  /\ pc = "store" => n_buckets = new_buckets /\ n_occupied < upper_bound
  /\ pc # "rehash" => hand = None

\* Every entry is in one place, and the names are all different.
InvEntries ==
  /\ Live \cap NewLive = {}
  /\ \A i \in Alive : slots[i] \in Entry
  /\ \A i, l \in Alive : slots[i].key = slots[l].key => i = l
  /\ hand # None => \A i \in Alive : slots[i].key # hand.key

InvCounts ==
  /\ size = Cardinality(Live) + Cardinality(NewLive) + (IF hand = None THEN 0 ELSE 1)
  /\ pc # "rehash" => n_occupied = Cardinality(Used) /\ n_occupied <= upper_bound

\* The walk of each name reaches its entry: in the table there is, and during
\* kh_resize in the one to be.
InvWays ==
  IF pc = "rehash"
  THEN \A i \in NewLive : OnWay(new_flags, new_buckets, slots[i].key, i)
  ELSE \A i \in Live : OnWay(flags, n_buckets, slots[i].key, i)

InvTable == InvTypes /\ InvPhase /\ InvEntries /\ InvCounts /\ InvWays

------------------------------------------------------------------------------
(* Where walks end.                                                          *)

\* Where there is an empty bucket, a walk ends before it is back where it began.
LEMMA WalkEnds ==
  ASSUME hash \in [Keys -> Nat], NEW k \in Keys, n_buckets \in Sizes,
         NEW e \in Buckets, flags[e] = "empty"
  PROVE  /\ Steps(k) \in 0 .. n_buckets - 1
         /\ Probe(k, n_buckets, Steps(k)) \in Buckets
         /\ \/ flags[Probe(k, n_buckets, Steps(k))] = "empty"
            \/ Holds(Probe(k, n_buckets, Steps(k)), k)
         /\ \A s \in 0 .. Steps(k) - 1 :
              /\ flags[Probe(k, n_buckets, s)] # "empty"
              /\ ~ Holds(Probe(k, n_buckets, s), k)
<1> DEFINE S == {s \in 0 .. 2 * n_buckets : Ends(k, s)}
<1>1. n_buckets \in Nat /\ n_buckets >= 4
  BY SizesProperties
<1>2. PICK s \in 0 .. n_buckets - 1 : Probe(k, n_buckets, s) = e
  BY EveryBucketMet DEF Buckets
<1>3. S \in SUBSET Nat /\ s \in S
  <2>1. s \in 0 .. 2 * n_buckets
    BY <1>1
  <2>2. Ends(k, s)
    BY <1>2 DEF Ends
  <2> QED
    BY <1>1, <2>1, <2>2
<1>4. PICK t \in S : t = Steps(k) /\ \A r \in S : t <= r
  <2>1. Min(S) \in S /\ \A r \in S : Min(S) <= r
    <3> HIDE DEF S
    <3> QED
      BY <1>3, MinIsLeast
  <2> QED
    BY <2>1 DEF Steps
<1>5. t \in 0 .. n_buckets - 1
  <2>1. t \in Nat /\ t <= s
    BY <1>3, <1>4
  <2> QED
    BY <1>1, <2>1
<1>6. Probe(k, n_buckets, t) \in Buckets
  BY <1>1, <1>5, ProbeInTable DEF Buckets
<1>7. ~ (t > 0 /\ Probe(k, n_buckets, t) = Probe(k, n_buckets, 0))
  <2>1. 0 \in 0 .. n_buckets - 1
    BY <1>1
  <2> QED
    BY <1>5, <2>1, NoBucketTwice
<1>8. flags[Probe(k, n_buckets, t)] = "empty" \/ Holds(Probe(k, n_buckets, t), k)
  <2>1. Ends(k, t)
    BY <1>4
  <2> QED
    BY <1>7, <2>1 DEF Ends
<1>9. ASSUME NEW r \in 0 .. t - 1
      PROVE  /\ flags[Probe(k, n_buckets, r)] # "empty"
             /\ ~ Holds(Probe(k, n_buckets, r), k)
  <2>1. r \in 0 .. 2 * n_buckets /\ ~ (t <= r)
    BY <1>1, <1>5
  <2>2. ~ Ends(k, r)
    BY <1>4, <2>1
  <2> QED
    BY <2>2 DEF Ends
<1> QED
  BY <1>4, <1>5, <1>6, <1>8, <1>9

LEMMA SomeEmpty ==
  ASSUME InvTypes, InvCounts, pc # "rehash", n_buckets \in Sizes
  PROVE  \E e \in Buckets : flags[e] = "empty"
<1>1. n_buckets \in Nat /\ n_buckets >= 4
  BY SizesProperties
<1>2. n_occupied = Cardinality(Used) /\ n_occupied <= UpperBound(n_buckets)
  BY DEF InvTypes, InvCounts
<1>3. UpperBound(n_buckets) \in Nat /\ UpperBound(n_buckets) < n_buckets
  BY <1>1, UpperBoundProperties
<1>4. n_occupied \in Nat
  BY DEF InvTypes
<1>5. Cardinality(Used) < n_buckets
  BY <1>1, <1>2, <1>3, <1>4
<1> QED
  BY <1>1, <1>5, EmptyBucket DEF Used, Buckets

LEMMA NotOnTheWay ==
  ASSUME hash \in [Keys -> Nat], NEW k \in Keys, n_buckets \in Sizes,
         NEW e \in Buckets, flags[e] = "empty",
         \A i \in Live : OnWay(flags, n_buckets, slots[i].key, i),
         ~ Holds(Probe(k, n_buckets, Steps(k)), k)
  PROVE  \A i \in Live : slots[i].key # k
<1> SUFFICES ASSUME NEW i \in Live, slots[i].key = k PROVE FALSE
  OBVIOUS
<1>1. n_buckets \in Nat
  BY SizesProperties
<1>2. PICK s \in 0 .. n_buckets - 1 :
        /\ Probe(k, n_buckets, s) = i
        /\ \A r \in 0 .. s - 1 : flags[Probe(k, n_buckets, r)] # "empty"
  <2>1. OnWay(flags, n_buckets, k, i)
    OBVIOUS
  <2> QED
    BY <2>1 DEF OnWay
<1>3. Holds(i, k)
  BY DEF Holds, Live
<1>4. PICK t \in 0 .. n_buckets - 1 :
        /\ t = Steps(k)
        /\ flags[Probe(k, n_buckets, t)] = "empty"
        /\ \A r \in 0 .. t - 1 : ~ Holds(Probe(k, n_buckets, r), k)
  BY WalkEnds
<1>5. CASE s < t
  <2>1. s \in 0 .. t - 1
    BY <1>1, <1>5
  <2> QED
    BY <1>2, <1>3, <1>4, <2>1
<1>6. CASE s = t
  BY <1>2, <1>3, <1>4, <1>6
<1>7. CASE t < s
  <2>1. t \in 0 .. s - 1
    BY <1>1, <1>7
  <2> QED
    BY <1>2, <1>4, <2>1
<1> QED
  BY <1>1, <1>5, <1>6, <1>7

\* What kh_get answers.
LEMMA GetFinds ==
  ASSUME InvTypes, InvCounts, InvWays, pc # "rehash", NEW k \in Keys
  PROVE  \/ kh_get(k) \in Live /\ slots[kh_get(k)].key = k
         \/ kh_get(k) = n_buckets /\ \A i \in Live : slots[i].key # k
<1>1. CASE n_buckets = 0
  <2>1. Live = {}
    BY <1>1 DEF Live, Buckets
  <2> QED
    BY <1>1, <2>1 DEF kh_get
<1>2. CASE n_buckets # 0
  <2>1. n_buckets \in Sizes /\ hash \in [Keys -> Nat]
    BY <1>2 DEF InvTypes
  <2>2. n_buckets \in Nat /\ n_buckets >= 4
    BY <2>1, SizesProperties
  <2>3. PICK e \in Buckets : flags[e] = "empty"
    BY <2>1, SomeEmpty
  <2>4. PICK b \in Buckets : b = Probe(k, n_buckets, Steps(k))
    BY <2>1, <2>3, WalkEnds
  <2>5. kh_get(k) = IF Holds(b, k) THEN b ELSE n_buckets
    BY <1>2, <2>4 DEF kh_get
  <2>6. CASE Holds(b, k)
    BY <2>5, <2>6 DEF Holds, Live
  <2>7. CASE ~ Holds(b, k)
    <3>1. \A i \in Live : OnWay(flags, n_buckets, slots[i].key, i)
      BY DEF InvWays
    <3>2. \A i \in Live : slots[i].key # k
      BY <2>1, <2>3, <2>4, <2>7, <3>1, NotOnTheWay
    <3> QED
      BY <2>5, <2>7, <3>2
  <2> QED
    BY <2>6, <2>7
<1> QED
  BY <1>1, <1>2

\* Where kh_put stores: at the key's own bucket, or, when it has none, at one
\* that is not live, and always at one its walk reaches.
LEMMA PutFinds ==
  ASSUME InvTypes, InvCounts, InvWays, pc # "rehash", n_buckets \in Sizes,
         NEW k \in Keys
  PROVE  /\ kh_put_bucket(k) \in Buckets
         /\ OnWay(flags, n_buckets, k, kh_put_bucket(k))
         /\ IF flags[kh_put_bucket(k)] = "live"
            THEN slots[kh_put_bucket(k)].key = k
            ELSE \A i \in Live : slots[i].key # k
<1> DEFINE sites == {s \in 0 .. Steps(k) - 1 :
                       flags[Probe(k, n_buckets, s)] = "deleted"}
<1>1. n_buckets \in Nat /\ n_buckets >= 4 /\ hash \in [Keys -> Nat]
  BY SizesProperties DEF InvTypes
<1>2. PICK e \in Buckets : flags[e] = "empty"
  BY SomeEmpty
<1>3. PICK t \in 0 .. n_buckets - 1 :
        /\ t = Steps(k)
        /\ Probe(k, n_buckets, t) \in Buckets
        /\ flags[Probe(k, n_buckets, t)] = "empty" \/ Holds(Probe(k, n_buckets, t), k)
        /\ \A r \in 0 .. t - 1 : flags[Probe(k, n_buckets, r)] # "empty"
  BY <1>1, <1>2, WalkEnds
<1>4. ~ Holds(Probe(k, n_buckets, t), k) => \A i \in Live : slots[i].key # k
  <2>1. \A i \in Live : OnWay(flags, n_buckets, slots[i].key, i)
    BY DEF InvWays
  <2> QED
    BY <1>1, <1>2, <1>3, <2>1, NotOnTheWay
<1>5. CASE Holds(Probe(k, n_buckets, t), k) \/ sites = {}
  <2>1. kh_put_bucket(k) = Probe(k, n_buckets, t)
    BY <1>3, <1>5 DEF kh_put_bucket
  <2>2. OnWay(flags, n_buckets, k, Probe(k, n_buckets, t))
    BY <1>3 DEF OnWay
  <2>3. flags[Probe(k, n_buckets, t)] = "live" => Holds(Probe(k, n_buckets, t), k)
    BY <1>3
  <2>4. Holds(Probe(k, n_buckets, t), k) =>
          /\ flags[Probe(k, n_buckets, t)] = "live"
          /\ slots[Probe(k, n_buckets, t)].key = k
    BY DEF Holds
  <2> QED
    BY <1>3, <1>4, <2>1, <2>2, <2>3, <2>4
<1>6. CASE ~ Holds(Probe(k, n_buckets, t), k) /\ sites # {}
  <2>1. kh_put_bucket(k) = Probe(k, n_buckets, Max(sites))
    BY <1>3, <1>6 DEF kh_put_bucket
  <2>2. PICK m \in sites : m = Max(sites)
    <3>1. sites \in SUBSET Nat /\ \A x \in sites : x <= n_buckets
      BY <1>1, <1>3
    <3> HIDE DEF sites
    <3> QED
      BY <1>1, <1>6, <3>1, MaxIsGreatest
  <2>3. m \in 0 .. t - 1 /\ flags[Probe(k, n_buckets, m)] = "deleted"
    BY <1>3
  <2>4. m \in 0 .. n_buckets - 1 /\ 0 .. m - 1 \subseteq 0 .. t - 1
    BY <1>1, <2>3
  <2>5. Probe(k, n_buckets, m) \in Buckets
    BY <1>1, <2>4, ProbeInTable DEF Buckets
  <2>6. OnWay(flags, n_buckets, k, Probe(k, n_buckets, m))
    BY <1>3, <2>4 DEF OnWay
  <2>7. kh_put_bucket(k) = Probe(k, n_buckets, m)
    BY <2>1, <2>2
  <2> HIDE DEF sites
  <2> QED
    BY <1>4, <1>6, <2>3, <2>5, <2>6, <2>7
<1> QED
  BY <1>5, <1>6

\* Where kh_resize puts the entry in the hand down.
LEMMA VacantFound ==
  ASSUME hash \in [Keys -> Nat], hand.key \in Keys, new_buckets \in Sizes,
         NEW e \in 0 .. new_buckets - 1, new_flags[e] = "empty"
  PROVE  /\ Vacant \in 0 .. new_buckets - 1
         /\ new_flags[Vacant] = "empty"
         /\ OnWay(new_flags, new_buckets, hand.key, Vacant)
<1> DEFINE P(s) == Probe(hand.key, new_buckets, s)
           S == {s \in 0 .. 2 * new_buckets : new_flags[P(s)] = "empty"}
<1>1. new_buckets \in Nat /\ new_buckets >= 4
  BY SizesProperties
<1>2. PICK s \in 0 .. new_buckets - 1 : P(s) = e
  BY EveryBucketMet
<1>3. S \in SUBSET Nat /\ s \in S
  <2>1. s \in 0 .. 2 * new_buckets /\ new_flags[P(s)] = "empty"
    BY <1>1, <1>2
  <2> QED
    BY <1>1, <2>1
<1>4. PICK t \in S : t = Min(S) /\ \A r \in S : t <= r
  <2>1. Min(S) \in S /\ \A r \in S : Min(S) <= r
    <3> HIDE DEF S
    <3> QED
      BY <1>3, MinIsLeast
  <2> QED
    BY <2>1
<1>5. t \in 0 .. new_buckets - 1 /\ new_flags[P(t)] = "empty"
  <2>1. t \in Nat /\ t <= s
    BY <1>3, <1>4
  <2> QED
    BY <1>1, <2>1
<1>6. Vacant = P(t)
  BY <1>4 DEF Vacant
<1>7. P(t) \in 0 .. new_buckets - 1
  BY <1>1, <1>5, ProbeInTable
<1>8. ASSUME NEW r \in 0 .. t - 1 PROVE new_flags[P(r)] # "empty"
  <2>1. r \in 0 .. 2 * new_buckets /\ ~ (t <= r)
    BY <1>1, <1>5
  <2> QED
    BY <1>4, <2>1
<1>9. OnWay(new_flags, new_buckets, hand.key, P(t))
  BY <1>5, <1>8 DEF OnWay
<1> HIDE DEF P, S
<1> QED
  BY <1>5, <1>6, <1>7, <1>9

------------------------------------------------------------------------------
(* The calls and the steps of kh_resize keep the invariant.                  *)

LEMMA TablesFinite ==
  ASSUME InvTypes, InvPhase
  PROVE  /\ n_buckets \in Nat
         /\ Live \subseteq Used /\ Used \subseteq Buckets
         /\ IsFiniteSet(Live) /\ IsFiniteSet(Used) /\ IsFiniteSet(NewLive)
         /\ NewLive = IF pc = "rehash"
                      THEN {i \in 0 .. new_buckets - 1 : new_flags[i] = "live"}
                      ELSE {}
<1>1. n_buckets \in Nat
  BY SizesProperties DEF InvTypes
<1>2. Live \subseteq Used /\ Used \subseteq Buckets
  BY DEF Live, Used
<1>3. IsFiniteSet(Buckets)
  BY <1>1, FS_Interval DEF Buckets
<1>4. IsFiniteSet(Live) /\ IsFiniteSet(Used)
  <2>1. Live \subseteq Buckets
    BY <1>2
  <2> QED
    BY <1>2, <1>3, <2>1, FS_Subset
<1>5. NewLive = IF pc = "rehash"
                THEN {i \in 0 .. new_buckets - 1 : new_flags[i] = "live"}
                ELSE {}
  BY DEF NewLive, InvPhase
<1>6. IsFiniteSet(NewLive)
  <2>1. CASE pc = "rehash"
    <3>1. new_buckets \in Nat
      BY <2>1, SizesProperties DEF InvPhase
    <3>2. IsFiniteSet(0 .. new_buckets - 1)
      BY <3>1, FS_Interval
    <3>3. NewLive \subseteq 0 .. new_buckets - 1
      BY <1>5, <2>1
    <3> QED
      BY <3>2, <3>3, FS_Subset
  <2>2. CASE pc # "rehash"
    BY <1>5, <2>2, FS_EmptySet
  <2> QED
    BY <2>1, <2>2
<1> QED
  BY <1>1, <1>2, <1>4, <1>5, <1>6

LEMMA InitTable == Init => InvTable
<1> SUFFICES ASSUME Init PROVE InvTable
  OBVIOUS
<1> USE DEF Init
<1>1. Buckets = {} /\ Live = {} /\ NewLive = {} /\ Used = {} /\ Alive = {}
  BY DEF Buckets, Live, NewLive, Used, Alive
<1>2. Empties(0) = [i \in {} |-> "empty"]
  BY DEF Empties
<1>3. InvTypes
  <2>1. hash \in [Keys -> Nat]
    BY HashAssumption
  <2>2. n_buckets <= MaxBuckets
    BY BoundAssumption
  <2>3. flags \in [Buckets -> Flag] /\ slots \in [Buckets -> Entry \cup {None}]
    BY <1>1, <1>2
  <2>4. upper_bound = UpperBound(n_buckets)
    BY UpperBoundProperties
  <2>5. j \in 0 .. n_buckets
    OBVIOUS
  <2> QED
    BY <2>1, <2>2, <2>3, <2>4, <2>5 DEF InvTypes
<1>4. InvCounts
  BY <1>1, FS_EmptySet DEF InvCounts
<1>5. InvPhase /\ InvEntries /\ InvWays
  BY <1>1 DEF InvPhase, InvEntries, InvWays
<1> QED
  BY <1>3, <1>4, <1>5 DEF InvTable


LEMMA StoreEffect ==
  ASSUME InvTable, pc \in {"idle", "store"}, n_occupied < upper_bound,
         NEW k \in Keys, NEW v \in Vals, Store(k, v), pc' = "idle"
  PROVE  \E x \in Buckets :
           /\ n_buckets \in Sizes
           /\ OnWay(flags, n_buckets, k, x)
           /\ IF x \in Live THEN slots[x].key = k ELSE \A i \in Live : slots[i].key # k
           /\ flags' = [flags EXCEPT ![x] = "live"]
           /\ slots' = [slots EXCEPT ![x] = [key |-> k, val |-> v]]
           /\ n_buckets' = n_buckets /\ upper_bound' = upper_bound
           /\ Buckets' = Buckets
           /\ Live' = Live \cup {x} /\ Used' = Used \cup {x}
           /\ NewLive = {} /\ NewLive' = {}
           /\ size' = IF x \in Live THEN size ELSE size + 1
           /\ n_occupied' = IF x \in Used THEN n_occupied ELSE n_occupied + 1
<1> USE DEF InvTable
<1>1. n_buckets \in Sizes
  <2>1. n_buckets = 0 => upper_bound = 0
    BY UpperBoundProperties DEF InvTypes
  <2> QED
    BY <2>1 DEF InvTypes
<1>2. PICK x \in Buckets :
        /\ x = kh_put_bucket(k)
        /\ OnWay(flags, n_buckets, k, x)
        /\ IF flags[x] = "live"
           THEN slots[x].key = k
           ELSE \A i \in Live : slots[i].key # k
  BY <1>1, PutFinds
<1>3. /\ flags' = [flags EXCEPT ![x] = "live"]
      /\ slots' = [slots EXCEPT ![x] = [key |-> k, val |-> v]]
      /\ size' = IF flags[x] = "live" THEN size ELSE size + 1
      /\ n_occupied' = IF flags[x] = "empty" THEN n_occupied + 1 ELSE n_occupied
      /\ n_buckets' = n_buckets /\ upper_bound' = upper_bound
  BY <1>2 DEF Store
<1>4. Buckets' = Buckets
  BY <1>3 DEF Buckets
<1>5. x \in Live <=> flags[x] = "live"
  BY DEF Live
<1>6. x \in Used <=> flags[x] # "empty"
  BY DEF Used
<1>7. flags \in [Buckets -> Flag]
  BY DEF InvTypes
<1>8. Live' = Live \cup {x} /\ Used' = Used \cup {x}
  BY <1>3, <1>4, <1>7 DEF Live, Used
<1>9. NewLive = {} /\ NewLive' = {}
  BY DEF NewLive
<1> QED
  BY <1>1, <1>2, <1>3, <1>4, <1>5, <1>6, <1>8, <1>9

LEMMA StoreKeeps ==
  ASSUME InvTable, pc \in {"idle", "store"}, n_occupied < upper_bound,
         NEW k \in Keys, NEW v \in Vals, Store(k, v), pc' = "idle",
         hash' = hash, hand' = hand, arg' = None, new_buckets' = 0,
         new_flags' = Empties(0), j' = 0
  PROVE  InvTable'
<1> DEFINE e == [key |-> k, val |-> v]
<1>1. PICK x \in Buckets :
        /\ n_buckets \in Sizes
        /\ OnWay(flags, n_buckets, k, x)
        /\ IF x \in Live THEN slots[x].key = k ELSE \A i \in Live : slots[i].key # k
        /\ flags' = [flags EXCEPT ![x] = "live"]
        /\ slots' = [slots EXCEPT ![x] = [key |-> k, val |-> v]]
        /\ n_buckets' = n_buckets /\ upper_bound' = upper_bound
        /\ Buckets' = Buckets
        /\ Live' = Live \cup {x} /\ Used' = Used \cup {x}
        /\ NewLive = {} /\ NewLive' = {}
        /\ size' = IF x \in Live THEN size ELSE size + 1
        /\ n_occupied' = IF x \in Used THEN n_occupied ELSE n_occupied + 1
  BY StoreEffect
<1>2. InvTypes /\ InvPhase /\ InvEntries /\ InvCounts /\ InvWays
  BY DEF InvTable
<1>3. e \in Entry
  BY DEF Entry
<1>4. /\ flags \in [Buckets -> Flag] /\ slots \in [Buckets -> Entry \cup {None}]
      /\ size \in Nat /\ n_occupied \in Nat /\ hand = None
  BY <1>2 DEF InvTypes, InvPhase
<1>5. n_buckets \in Nat /\ IsFiniteSet(Live) /\ IsFiniteSet(Used) /\ Live \subseteq Used
  BY <1>2, TablesFinite
<1>6. InvTypes'
  <2>1. flags' \in [Buckets' -> Flag]
    BY <1>1, <1>4 DEF Flag
  <2>2. slots' \in [Buckets' -> Entry \cup {None}]
    BY <1>1, <1>3, <1>4
  <2>3. upper_bound' = UpperBound(n_buckets')
    BY <1>1, <1>2 DEF InvTypes
  <2>4. size' \in Nat /\ n_occupied' \in Nat
    BY <1>1, <1>4
  <2>5. j' \in 0 .. n_buckets'
    BY <1>1, <1>5
  <2>6. n_buckets' <= MaxBuckets /\ hash' \in [Keys -> Nat] /\ n_buckets' \in Sizes
    BY <1>1, <1>2 DEF InvTypes
  <2> QED
    BY <1>4, <2>1, <2>2, <2>3, <2>4, <2>5, <2>6 DEF InvTypes
<1>7. InvPhase'
  BY <1>4 DEF InvPhase, Empties
<1>8. InvEntries'
  <2>1. Alive = Live /\ Alive' = Live \cup {x} /\ Live \subseteq Buckets
    BY <1>1 DEF Alive, Live
  <2>2. slots'[x] = e /\ \A i \in Live : i # x => slots'[i] = slots[i]
    BY <1>1, <1>4, <2>1
  <2>3. ASSUME NEW i \in Live, i # x PROVE slots[i].key # k
    BY <1>1, <1>2, <2>1, <2>3 DEF InvEntries
  <2>4. \A i \in Alive' : slots'[i] \in Entry
    BY <1>2, <1>3, <2>1, <2>2 DEF InvEntries
  <2>5. ASSUME NEW i \in Alive', NEW l \in Alive', slots'[i].key = slots'[l].key
        PROVE  i = l
    BY <1>2, <2>1, <2>2, <2>3, <2>5 DEF InvEntries
  <2> QED
    BY <1>1, <1>4, <2>4, <2>5 DEF InvEntries
<1>9. InvCounts'
  <2>1. Cardinality(Live') = IF x \in Live THEN Cardinality(Live) ELSE Cardinality(Live) + 1
    BY <1>1, <1>5, FS_AddElement
  <2>2. Cardinality(Used') = IF x \in Used THEN Cardinality(Used) ELSE Cardinality(Used) + 1
    BY <1>1, <1>5, FS_AddElement
  <2>3. Cardinality(Live) \in Nat /\ Cardinality(Used) \in Nat /\ Cardinality(NewLive) = 0
    BY <1>1, <1>5, FS_CardinalityType, FS_EmptySet
  <2>4. Cardinality(NewLive') = 0
    BY <1>1, FS_EmptySet
  <2>5. size = Cardinality(Live) + Cardinality(NewLive) + 0
    BY <1>2, <1>4 DEF InvCounts
  <2>6. size' = Cardinality(Live') + Cardinality(NewLive') + 0
    BY <1>1, <2>1, <2>3, <2>4, <2>5
  <2>7. n_occupied = Cardinality(Used)
    BY <1>2 DEF InvCounts
  <2>8. n_occupied' = Cardinality(Used')
    BY <1>1, <2>2, <2>7
  <2>9. n_occupied' <= upper_bound'
    <3>1. upper_bound \in Nat
      BY <1>2, <1>5, UpperBoundProperties DEF InvTypes
    <3> QED
      BY <1>1, <1>4, <3>1
  <2> QED
    BY <1>4, <2>6, <2>8, <2>9 DEF InvCounts
<1>10. InvWays'
  <2>1. \A i \in Live : OnWay(flags, n_buckets, slots[i].key, i)
    BY <1>2 DEF InvWays
  <2>2. ASSUME NEW i \in Live' PROVE OnWay(flags', n_buckets, slots'[i].key, i)
    <3>1. OnWay(flags, n_buckets, slots'[i].key, i)
      <4>1. CASE i = x
        BY <1>1, <1>4, <4>1
      <4>2. CASE i # x
        <5>1. i \in Live /\ slots'[i] = slots[i]
          BY <1>1, <1>4, <4>2 DEF Live
        <5> QED
          BY <2>1, <5>1
      <4> QED
        BY <4>1, <4>2
    <3>2. \A r : flags[r] # "empty" => flags'[r] # "empty"
      BY <1>1, <1>4
    <3> QED
      BY <3>1, <3>2 DEF OnWay
  <2>3. ASSUME NEW i \in Live' PROVE OnWay(flags, n_buckets, slots[i].key, i)'
    BY <1>1, <2>2, <2>3 DEF OnWay, Probe
  <2> QED
    BY <2>3 DEF InvWays
<1> QED
  BY <1>6, <1>7, <1>8, <1>9, <1>10 DEF InvTable

LEMMA DelEffect ==
  ASSUME InvTable, NEW k \in Keys, rpc_hash_del(k)
  PROVE  /\ pc = "idle"
         /\ UNCHANGED <<hash, n_buckets, n_occupied, upper_bound, pc, resizing>>
         /\ Buckets' = Buckets /\ NewLive = {} /\ NewLive' = {}
         /\ \/ /\ UNCHANGED <<flags, slots, size>>
               /\ \A i \in Live : slots[i].key # k
            \/ \E x \in Live :
                 /\ slots[x].key = k
                 /\ flags' = [flags EXCEPT ![x] = "deleted"]
                 /\ slots' = [slots EXCEPT ![x] = None]
                 /\ size' = size - 1
                 /\ Live' = Live \ {x} /\ Used' = Used
<1>1. /\ pc = "idle"
      /\ UNCHANGED <<hash, n_buckets, n_occupied, upper_bound, pc, resizing>>
  BY DEF rpc_hash_del
<1>2. Buckets' = Buckets /\ NewLive = {} /\ NewLive' = {}
  BY <1>1 DEF Buckets, NewLive
<1>3. n_buckets \in Nat /\ flags \in [Buckets -> Flag]
  BY TablesFinite DEF InvTable, InvTypes
<1>4. \/ kh_get(k) \in Live /\ slots[kh_get(k)].key = k
      \/ kh_get(k) = n_buckets /\ \A i \in Live : slots[i].key # k
  BY <1>1, GetFinds DEF InvTable
<1>5. CASE kh_get(k) = n_buckets /\ \A i \in Live : slots[i].key # k
  BY <1>1, <1>2, <1>5 DEF rpc_hash_del
<1>6. CASE kh_get(k) \in Live /\ slots[kh_get(k)].key = k
  <2>1. PICK x \in Live : x = kh_get(k) /\ slots[x].key = k
    BY <1>6
  <2>2. x \in Buckets /\ x # n_buckets /\ flags[x] = "live"
    BY <1>3 DEF Live, Buckets
  <2>3. /\ flags' = [flags EXCEPT ![x] = "deleted"]
        /\ slots' = [slots EXCEPT ![x] = None]
        /\ size' = size - 1
    BY <2>1, <2>2 DEF rpc_hash_del
  <2>4. Live' = Live \ {x} /\ Used' = Used
    BY <1>2, <1>3, <2>2, <2>3 DEF Live, Used
  <2> QED
    BY <1>1, <1>2, <2>1, <2>3, <2>4
<1> QED
  BY <1>4, <1>5, <1>6

\* A step that leaves everything but pc alone, where pc is no part of kh_resize.
LEMMA StaysTable ==
  ASSUME InvTable, pc = "idle", pc' \in {"idle", "wild"},
         UNCHANGED <<hash, counts, flags, slots, resizing>>
  PROVE  InvTable'
<1>1. /\ Buckets' = Buckets /\ Live' = Live /\ NewLive = {} /\ NewLive' = {}
      /\ Used' = Used /\ Alive' = Alive
  BY DEF Buckets, Live, NewLive, Used, Alive, counts
<1>2. InvTypes'
  BY <1>1 DEF InvTable, InvTypes, counts, resizing
<1>3. InvPhase'
  BY <1>1 DEF InvTable, InvPhase, counts, resizing
<1>4. InvEntries'
  BY <1>1 DEF InvTable, InvEntries, resizing
<1>5. InvCounts'
  BY <1>1 DEF InvTable, InvCounts, counts, resizing
<1>6. InvWays'
  BY <1>1 DEF InvTable, InvWays, OnWay, Probe, counts
<1> QED
  BY <1>2, <1>3, <1>4, <1>5, <1>6 DEF InvTable

LEMMA DelKeeps ==
  ASSUME InvTable, NEW k \in Keys, rpc_hash_del(k)
  PROVE  InvTable'
<1>1. /\ pc = "idle"
      /\ UNCHANGED <<hash, n_buckets, n_occupied, upper_bound, pc, resizing>>
      /\ Buckets' = Buckets /\ NewLive = {} /\ NewLive' = {}
  BY DelEffect
<1>2. CASE UNCHANGED <<flags, slots, size>>
  BY <1>1, <1>2, StaysTable DEF counts
<1>3. CASE ~ UNCHANGED <<flags, slots, size>>
  <2>1. PICK x \in Live :
          /\ slots[x].key = k
          /\ flags' = [flags EXCEPT ![x] = "deleted"]
          /\ slots' = [slots EXCEPT ![x] = None]
          /\ size' = size - 1
          /\ Live' = Live \ {x} /\ Used' = Used
    BY <1>3, DelEffect
  <2>2. InvTypes /\ InvPhase /\ InvEntries /\ InvCounts /\ InvWays
    BY DEF InvTable
  <2>3. /\ flags \in [Buckets -> Flag] /\ slots \in [Buckets -> Entry \cup {None}]
        /\ size \in Nat /\ hand = None
    BY <1>1, <2>2 DEF InvTypes, InvPhase
  <2>4. Cardinality(Live') = Cardinality(Live) - 1 /\ Cardinality(Live) \in Nat
    BY <2>1, <2>2, TablesFinite, FS_RemoveElement, FS_CardinalityType
  <2>5. Cardinality(NewLive) = 0 /\ Cardinality(NewLive') = 0
    BY <1>1, FS_EmptySet
  <2>6. size = Cardinality(Live) + Cardinality(NewLive) + 0
    BY <2>2, <2>3 DEF InvCounts
  <2>7. Cardinality(Live') \in Nat
    <3>1. IsFiniteSet(Live')
      BY <2>1, <2>2, TablesFinite, FS_RemoveElement
    <3> QED
      BY <3>1, FS_CardinalityType
  <2>8. size' \in Nat /\ size' = Cardinality(Live') + Cardinality(NewLive') + 0
    BY <2>1, <2>4, <2>5, <2>6, <2>7
  <2>9. InvTypes'
    <3>1. flags' \in [Buckets' -> Flag] /\ slots' \in [Buckets' -> Entry \cup {None}]
      BY <1>1, <2>1, <2>3 DEF Flag
    <3>2. /\ hash' \in [Keys -> Nat]
          /\ n_buckets' \in Sizes \cup {0} /\ n_buckets' <= MaxBuckets
          /\ upper_bound' = UpperBound(n_buckets')
          /\ n_occupied' \in Nat
          /\ pc' = "idle"
          /\ arg' \in Entry \cup {None}
          /\ j' \in 0 .. n_buckets'
          /\ hand' \in Entry \cup {None}
      BY <1>1, <2>2 DEF InvTypes, resizing
    <3> QED
      BY <2>8, <3>1, <3>2 DEF InvTypes
  <2>10. InvPhase'
    BY <1>1, <2>2 DEF InvPhase, resizing
  <2>11. InvEntries'
    <3>1. Alive = Live /\ Alive' = Live \ {x} /\ Live \subseteq Buckets
      BY <1>1, <2>1 DEF Alive, Live
    <3>2. \A i \in Alive' : slots'[i] = slots[i]
      BY <2>1, <2>3, <3>1
    <3>3. hand' = None
      BY <1>1, <2>3 DEF resizing
    <3> QED
      BY <1>1, <2>1, <2>2, <3>1, <3>2, <3>3 DEF InvEntries
  <2>12. InvCounts'
    <3>1. n_occupied' = Cardinality(Used') /\ n_occupied' <= upper_bound'
      BY <1>1, <2>1, <2>2 DEF InvCounts
    <3>2. hand' = None
      BY <1>1, <2>3 DEF resizing
    <3> QED
      BY <2>8, <3>1, <3>2 DEF InvCounts
  <2>13. InvWays'
    <3>1. \A r : flags[r] # "empty" => flags'[r] # "empty"
      BY <2>1, <2>3
    <3>2. ASSUME NEW i \in Live' PROVE OnWay(flags', n_buckets, slots'[i].key, i)
      <4>1. i \in Live /\ slots'[i] = slots[i]
        BY <2>1, <2>3 DEF Live
      <4>2. OnWay(flags, n_buckets, slots[i].key, i)
        BY <1>1, <2>2, <4>1 DEF InvWays
      <4> QED
        BY <3>1, <4>1, <4>2 DEF OnWay
    <3>3. ASSUME NEW i \in Live' PROVE OnWay(flags, n_buckets, slots[i].key, i)'
      BY <1>1, <3>2, <3>3 DEF OnWay, Probe
    <3> QED
      BY <1>1, <3>3 DEF InvWays
  <2> QED
    BY <2>9, <2>10, <2>11, <2>12, <2>13 DEF InvTable
<1> QED
  BY <1>2, <1>3

LEMMA ClearKeeps ==
  ASSUME InvTable, rpc_hash_clear
  PROVE  InvTable' /\ Live' = {} /\ NewLive' = {}
<1>1. /\ pc = "idle"
      /\ flags' = Empties(n_buckets)
      /\ slots' = [i \in Buckets |-> None]
      /\ size' = 0
      /\ n_occupied' = 0
      /\ UNCHANGED <<hash, n_buckets, upper_bound, pc, resizing>>
  BY DEF rpc_hash_clear
<1>2. InvTypes /\ InvPhase
  BY DEF InvTable
<1>3. Buckets' = Buckets /\ Empties(n_buckets) = [i \in Buckets |-> "empty"]
  BY <1>1 DEF Buckets, Empties
<1>4. Live' = {} /\ NewLive' = {} /\ Used' = {} /\ Alive' = {}
  BY <1>1, <1>3 DEF Live, NewLive, Used, Alive
<1>5. hand' = None
  BY <1>1, <1>2 DEF InvPhase, resizing
<1>6. InvTypes'
  <2>1. flags' \in [Buckets' -> Flag] /\ slots' \in [Buckets' -> Entry \cup {None}]
    BY <1>1, <1>3 DEF Flag
  <2>2. /\ hash' \in [Keys -> Nat]
        /\ n_buckets' \in Sizes \cup {0} /\ n_buckets' <= MaxBuckets
        /\ upper_bound' = UpperBound(n_buckets')
        /\ pc' = "idle"
        /\ arg' \in Entry \cup {None}
        /\ j' \in 0 .. n_buckets'
    BY <1>1, <1>2 DEF InvTypes, resizing
  <2> QED
    BY <1>1, <1>5, <2>1, <2>2 DEF InvTypes
<1>7. InvPhase'
  BY <1>1, <1>2 DEF InvPhase, resizing
<1>8. InvEntries' /\ InvWays'
  BY <1>1, <1>4, <1>5 DEF InvEntries, InvWays
<1>9. InvCounts'
  <2>1. Cardinality(Live') = 0 /\ Cardinality(NewLive') = 0 /\ Cardinality(Used') = 0
    BY <1>4, FS_EmptySet
  <2>2. upper_bound \in Nat
    BY <1>2, TablesFinite, UpperBoundProperties DEF InvTypes
  <2> QED
    BY <1>1, <1>5, <2>1, <2>2 DEF InvCounts
<1> QED
  BY <1>4, <1>6, <1>7, <1>8, <1>9 DEF InvTable

LEMMA SizeFits ==
  ASSUME InvTable, pc # "rehash"
  PROVE  size = Cardinality(Live) /\ size <= n_occupied /\ size <= UpperBound(n_buckets)
<1>1. Cardinality(NewLive) = 0
  <2>1. NewLive = {}
    BY DEF NewLive
  <2> QED
    BY <2>1, FS_EmptySet
<1>2. hand = None
  BY DEF InvTable, InvPhase
<1>3. size = Cardinality(Live) + Cardinality(NewLive) + 0
  BY <1>2 DEF InvTable, InvCounts
<1>4. Cardinality(Live) <= Cardinality(Used)
      /\ Cardinality(Live) \in Nat /\ Cardinality(Used) \in Nat
  BY TablesFinite, FS_Subset, FS_CardinalityType DEF InvTable
<1>5. n_occupied = Cardinality(Used) /\ n_occupied <= UpperBound(n_buckets)
  BY DEF InvTable, InvCounts, InvTypes
<1>6. UpperBound(n_buckets) \in Nat
  BY TablesFinite, UpperBoundProperties DEF InvTable
<1> QED
  BY <1>1, <1>3, <1>4, <1>5, <1>6

LEMMA ResizeEffect ==
  ASSUME InvTable, NEW k \in Keys, NEW v \in Vals, SetResizes(k, v)
  PROVE  /\ pc = "idle" /\ pc' = "rehash" /\ arg = None /\ hand = None
         /\ arg' = [key |-> k, val |-> v]
         /\ new_buckets' \in Sizes /\ new_buckets' <= MaxBuckets
         /\ n_buckets <= new_buckets' /\ n_buckets \in Nat /\ new_buckets' \in Nat
         /\ size < UpperBound(new_buckets')
         /\ new_flags' = [i \in 0 .. new_buckets' - 1 |-> "empty"]
         /\ slots' \in [0 .. new_buckets' - 1 -> Entry \cup {None}]
         /\ \A i \in Buckets : slots'[i] = slots[i]
         /\ j' = 0
         /\ UNCHANGED <<hash, counts, flags, hand>>
         /\ Buckets' = Buckets /\ Live' = Live /\ NewLive = {} /\ NewLive' = {}
         /\ Alive' = Live /\ Alive = Live
<1>1. /\ pc = "idle" /\ pc' = "rehash"
      /\ arg' = [key |-> k, val |-> v]
      /\ new_buckets' = Wanted /\ Wanted <= MaxBuckets
      /\ new_flags' = Empties(Wanted)
      /\ j' = 0
      /\ UNCHANGED <<hash, counts, flags, hand>>
      /\ slots' = [i \in 0 .. Max({n_buckets, Wanted}) - 1 |->
                     IF i < n_buckets THEN slots[i] ELSE None]
  BY DEF SetResizes
<1>2. Wanted \in Sizes /\ n_buckets <= Wanted /\ size < UpperBound(Wanted)
  BY <1>1, SizeFits, WantedFits DEF InvTable, InvTypes
<1>3. n_buckets \in Nat /\ Wanted \in Nat
  BY <1>2, TablesFinite, SizesProperties DEF InvTable
<1>4. Max({n_buckets, Wanted}) = Wanted
  <2> DEFINE S == {n_buckets, Wanted}
  <2>1. S \in SUBSET Nat /\ S # {} /\ \A x \in S : x <= Wanted
    BY <1>2, <1>3
  <2>2. Max(S) \in S /\ \A x \in S : x <= Max(S)
    <3> HIDE DEF S
    <3> QED
      BY <1>3, <2>1, MaxIsGreatest
  <2>3. PICK m \in S : m = Max(S) /\ \A x \in S : x <= m
    BY <2>2
  <2>4. m = Wanted
    BY <1>2, <1>3, <2>3
  <2> QED
    BY <2>3, <2>4
<1>5. slots \in [Buckets -> Entry \cup {None}]
  BY <1>1 DEF InvTable, InvTypes
<1>6. slots' \in [0 .. Wanted - 1 -> Entry \cup {None}]
  <2>1. slots' = [i \in 0 .. Wanted - 1 |-> IF i < n_buckets THEN slots[i] ELSE None]
    BY <1>1, <1>4
  <2>2. ASSUME NEW i \in 0 .. Wanted - 1, i < n_buckets PROVE i \in Buckets
    BY <1>3, <2>2 DEF Buckets
  <2> QED
    BY <1>5, <2>1, <2>2
<1>7. \A i \in Buckets : slots'[i] = slots[i]
  <2> TAKE i \in Buckets
  <2>1. i \in 0 .. Wanted - 1 /\ i < n_buckets
    BY <1>2, <1>3 DEF Buckets
  <2> QED
    BY <1>1, <1>4, <2>1
<1>8. new_flags' = [i \in 0 .. new_buckets' - 1 |-> "empty"]
  BY <1>1 DEF Empties
<1>9. Buckets' = Buckets /\ Live' = Live /\ NewLive = {}
  BY <1>1 DEF Buckets, Live, NewLive, counts
<1>10. NewLive' = {}
  BY <1>1, <1>8 DEF NewLive
<1>11. arg = None /\ hand = None
  BY <1>1 DEF InvTable, InvPhase
<1> QED
  BY <1>1, <1>2, <1>3, <1>6, <1>7, <1>8, <1>9, <1>10, <1>11 DEF Alive

LEMMA ResizeKeeps ==
  ASSUME InvTable, NEW k \in Keys, NEW v \in Vals, SetResizes(k, v)
  PROVE  InvTable'
<1>1. /\ pc = "idle" /\ pc' = "rehash" /\ hand = None
      /\ arg' = [key |-> k, val |-> v]
      /\ new_buckets' \in Sizes /\ new_buckets' <= MaxBuckets
      /\ n_buckets <= new_buckets'
      /\ size < UpperBound(new_buckets')
      /\ new_flags' = [i \in 0 .. new_buckets' - 1 |-> "empty"]
      /\ slots' \in [0 .. new_buckets' - 1 -> Entry \cup {None}]
      /\ \A i \in Buckets : slots'[i] = slots[i]
      /\ j' = 0
      /\ UNCHANGED <<hash, n_buckets, size, n_occupied, upper_bound, flags, hand>>
      /\ Buckets' = Buckets /\ Live' = Live /\ NewLive = {} /\ NewLive' = {}
      /\ Alive' = Live /\ Alive = Live
  BY ResizeEffect DEF counts
<1>2. InvTypes /\ InvPhase /\ InvEntries /\ InvCounts
  BY DEF InvTable
<1>3. arg' \in Entry
  BY <1>1 DEF Entry
<1>4. InvTypes'
  <2>1. /\ hash' \in [Keys -> Nat]
        /\ n_buckets' \in Sizes \cup {0} /\ n_buckets' <= MaxBuckets
        /\ upper_bound' = UpperBound(n_buckets')
        /\ size' \in Nat /\ n_occupied' \in Nat
        /\ flags' \in [Buckets' -> Flag]
        /\ hand' \in Entry \cup {None}
    BY <1>1, <1>2 DEF InvTypes
  <2>2. j' \in 0 .. n_buckets'
    BY <1>1, <1>2, TablesFinite
  <2> QED
    BY <1>1, <1>3, <2>1, <2>2 DEF InvTypes
<1>5. InvPhase'
  <2>1. new_flags' \in [0 .. new_buckets' - 1 -> {"empty", "live"}]
    BY <1>1
  <2>2. \A i \in Buckets' : ~ (i < j')
    BY <1>1, <1>2, TablesFinite DEF Buckets
  <2> QED
    BY <1>1, <1>3, <2>1, <2>2 DEF InvPhase
<1>6. InvEntries'
  <2>1. \A i \in Alive' : slots'[i] = slots[i]
    BY <1>1 DEF Live
  <2> QED
    BY <1>1, <1>2, <2>1 DEF InvEntries
<1>7. InvCounts'
  BY <1>1, <1>2 DEF InvCounts
<1>8. InvWays'
  BY <1>1 DEF InvWays
<1> QED
  BY <1>4, <1>5, <1>6, <1>7, <1>8 DEF InvTable

\* What the state of kh_resize in its loop is.
LEMMA Rehashing ==
  ASSUME InvTable, pc = "rehash"
  PROVE  /\ n_buckets \in Nat /\ new_buckets \in Nat /\ n_buckets <= new_buckets
         /\ new_buckets \in Sizes /\ hash \in [Keys -> Nat]
         /\ Buckets \subseteq 0 .. new_buckets - 1
         /\ flags \in [Buckets -> Flag]
         /\ new_flags \in [0 .. new_buckets - 1 -> {"empty", "live"}]
         /\ slots \in [0 .. new_buckets - 1 -> Entry \cup {None}]
         /\ j \in 0 .. n_buckets
         /\ NewLive = {i \in 0 .. new_buckets - 1 : new_flags[i] = "live"}
         /\ None \notin Entry
<1>1. /\ n_buckets \in Nat /\ hash \in [Keys -> Nat] /\ flags \in [Buckets -> Flag]
      /\ j \in 0 .. n_buckets
      /\ slots \in [0 .. new_buckets - 1 -> Entry \cup {None}]
  BY TablesFinite DEF InvTable, InvTypes
<1>2. /\ new_buckets \in Sizes /\ n_buckets <= new_buckets
      /\ new_flags \in [0 .. new_buckets - 1 -> {"empty", "live"}]
  BY DEF InvTable, InvPhase
<1>3. new_buckets \in Nat
  BY <1>2, SizesProperties
<1>4. Buckets \subseteq 0 .. new_buckets - 1
  BY <1>1, <1>2, <1>3 DEF Buckets
<1>5. None \notin Entry
  BY ValuesAssumption DEF Entry
<1>6. NewLive = {i \in 0 .. new_buckets - 1 : new_flags[i] = "live"}
  BY TablesFinite DEF InvTable
<1> QED
  BY <1>1, <1>2, <1>3, <1>4, <1>5, <1>6

LEMMA SkipKeeps ==
  ASSUME InvTable, Skip
  PROVE  /\ InvTable'
         /\ Alive' = Alive
<1>1. /\ pc = "rehash" /\ pc' = "rehash" /\ flags[j] # "live" /\ j < n_buckets
      /\ j' = j + 1
      /\ UNCHANGED <<hash, n_buckets, size, n_occupied, upper_bound, flags, slots,
                     arg, new_buckets, new_flags, hand>>
  BY DEF Skip, counts
<1>2. /\ Buckets' = Buckets /\ Live' = Live /\ NewLive' = NewLive /\ Alive' = Alive
  BY <1>1 DEF Buckets, Live, NewLive, Alive
<1>3. j \in 0 .. n_buckets /\ n_buckets \in Nat
  BY <1>1, Rehashing
<1>4. InvTypes'
  <2>1. j' \in 0 .. n_buckets'
    BY <1>1, <1>3
  <2> QED
    BY <1>1, <1>2, <2>1 DEF InvTable, InvTypes
<1>5. InvPhase'
  <2>1. \A i \in Buckets' : i < j' => flags'[i] # "live"
    <3> TAKE i \in Buckets'
    <3>1. i \in Int /\ (i < j \/ i = j \/ ~ (i < j'))
      BY <1>1, <1>2, <1>3 DEF Buckets
    <3>2. i < j => flags[i] # "live"
      BY <1>1, <1>2 DEF InvTable, InvPhase
    <3> QED
      BY <1>1, <3>1, <3>2
  <2> QED
    BY <1>1, <2>1 DEF InvTable, InvPhase
<1>6. InvEntries' /\ InvCounts'
  BY <1>1, <1>2 DEF InvTable, InvEntries, InvCounts
<1>7. InvWays'
  BY <1>1, <1>2 DEF InvTable, InvWays, OnWay, Probe
<1> QED
  BY <1>2, <1>4, <1>5, <1>6, <1>7 DEF InvTable

LEMMA TakeOutEffect ==
  ASSUME InvTable, TakeOut
  PROVE  /\ pc = "rehash" /\ pc' = "rehash" /\ hand = None
         /\ j \in Live /\ j \notin NewLive
         /\ hand' = slots[j] /\ hand' \in Entry
         /\ flags' = [flags EXCEPT ![j] = "deleted"]
         /\ slots' = [slots EXCEPT ![j] = None]
         /\ j' = j + 1
         /\ UNCHANGED <<hash, n_buckets, size, n_occupied, upper_bound, arg,
                        new_buckets, new_flags>>
         /\ Buckets' = Buckets /\ Live' = Live \ {j} /\ NewLive' = NewLive
         /\ Alive' = Alive \ {j}
         /\ \A i \in Alive' : slots'[i] = slots[i]
<1>1. /\ pc = "rehash" /\ pc' = "rehash" /\ hand = None
      /\ j < n_buckets /\ flags[j] = "live"
      /\ hand' = slots[j]
      /\ flags' = [flags EXCEPT ![j] = "deleted"]
      /\ slots' = [slots EXCEPT ![j] = None]
      /\ j' = j + 1
      /\ UNCHANGED <<hash, n_buckets, size, n_occupied, upper_bound, arg,
                     new_buckets, new_flags>>
  BY DEF TakeOut, counts
<1>2. /\ n_buckets \in Nat /\ j \in 0 .. n_buckets
      /\ flags \in [Buckets -> Flag]
      /\ slots \in [0 .. new_buckets - 1 -> Entry \cup {None}]
      /\ Buckets \subseteq 0 .. new_buckets - 1
      /\ NewLive = {i \in 0 .. new_buckets - 1 : new_flags[i] = "live"}
  BY <1>1, Rehashing
<1>3. j \in Live
  BY <1>1, <1>2 DEF Live, Buckets
<1>4. j \notin NewLive /\ hand' \in Entry
  BY <1>1, <1>3 DEF InvTable, InvEntries, Alive
<1>5. Buckets' = Buckets /\ NewLive' = NewLive
  BY <1>1 DEF Buckets, NewLive
<1>6. Live' = Live \ {j}
  BY <1>1, <1>2, <1>5 DEF Live
<1>7. Alive' = Alive \ {j}
  BY <1>4, <1>5, <1>6 DEF Alive
<1>8. ASSUME NEW i \in Alive' PROVE slots'[i] = slots[i]
  <2>1. i # j /\ i \in 0 .. new_buckets - 1
    BY <1>2, <1>7 DEF Alive, Live
  <2> QED
    BY <1>1, <1>2, <2>1
<1> QED
  BY <1>1, <1>3, <1>4, <1>5, <1>6, <1>7, <1>8

LEMMA TakeOutKeeps ==
  ASSUME InvTable, TakeOut
  PROVE  InvTable'
<1>1. /\ pc = "rehash" /\ pc' = "rehash" /\ hand = None
      /\ j \in Live /\ j \notin NewLive
      /\ hand' = slots[j] /\ hand' \in Entry
      /\ flags' = [flags EXCEPT ![j] = "deleted"]
      /\ slots' = [slots EXCEPT ![j] = None]
      /\ j' = j + 1
      /\ UNCHANGED <<hash, n_buckets, size, n_occupied, upper_bound, arg,
                     new_buckets, new_flags>>
      /\ Buckets' = Buckets /\ Live' = Live \ {j} /\ NewLive' = NewLive
      /\ Alive' = Alive \ {j}
      /\ \A i \in Alive' : slots'[i] = slots[i]
  BY TakeOutEffect
<1>2. /\ n_buckets \in Nat /\ j \in 0 .. n_buckets
      /\ flags \in [Buckets -> Flag]
      /\ slots \in [0 .. new_buckets - 1 -> Entry \cup {None}]
      /\ None \notin Entry
  BY <1>1, Rehashing
<1>3. InvTypes /\ InvPhase /\ InvEntries /\ InvCounts /\ InvWays
  BY DEF InvTable
<1>4. j \in Buckets /\ j \in Alive
  BY <1>1 DEF Live, Alive
<1>5. InvTypes'
  <2>1. flags' \in [Buckets' -> Flag]
    BY <1>1, <1>2 DEF Flag
  <2>2. slots' \in [0 .. new_buckets' - 1 -> Entry \cup {None}]
    BY <1>1, <1>2
  <2>3. j' \in 0 .. n_buckets'
    BY <1>1, <1>2, <1>4 DEF Buckets
  <2> QED
    BY <1>1, <1>3, <2>1, <2>2, <2>3 DEF InvTypes
<1>6. InvPhase'
  <2>1. \A i \in Buckets' : i < j' => flags'[i] # "live"
    <3> TAKE i \in Buckets'
    <3>1. i \in Int /\ (i < j \/ i = j \/ ~ (i < j'))
      BY <1>1, <1>2 DEF Buckets
    <3>2. i < j => flags[i] # "live"
      BY <1>1, <1>3 DEF InvPhase
    <3> QED
      BY <1>1, <1>2, <3>1, <3>2
  <2> QED
    BY <1>1, <1>3, <2>1 DEF InvPhase
<1>7. InvEntries'
  <2>1. Live' \cap NewLive' = {}
    BY <1>1, <1>3 DEF InvEntries
  <2>2. \A i \in Alive' : slots'[i] \in Entry
    BY <1>1, <1>3 DEF InvEntries
  <2>3. \A i, l \in Alive' : slots'[i].key = slots'[l].key => i = l
    BY <1>1, <1>3 DEF InvEntries
  <2>4. \A i \in Alive' : slots'[i].key # hand'.key
    BY <1>1, <1>3, <1>4 DEF InvEntries
  <2> QED
    BY <2>1, <2>2, <2>3, <2>4 DEF InvEntries
<1>8. InvCounts'
  <2>1. Cardinality(Live') = Cardinality(Live) - 1 /\ Cardinality(Live) \in Nat
    BY <1>1, <1>3, TablesFinite, FS_RemoveElement, FS_CardinalityType
  <2>2. Cardinality(NewLive') = Cardinality(NewLive) /\ Cardinality(NewLive) \in Nat
    BY <1>1, <1>3, TablesFinite, FS_CardinalityType
  <2>3. hand' # None
    BY <1>1, <1>2
  <2>4. size = Cardinality(Live) + Cardinality(NewLive) + 0
    BY <1>1, <1>3 DEF InvCounts
  <2> HIDE DEF Live, NewLive
  <2> QED
    BY <1>1, <2>1, <2>2, <2>3, <2>4 DEF InvCounts
<1>9. InvWays'
  <2>1. ASSUME NEW i \in NewLive' PROVE OnWay(new_flags, new_buckets, slots'[i].key, i)
    BY <1>1, <1>3 DEF InvWays, Alive
  <2>2. ASSUME NEW i \in NewLive' PROVE OnWay(new_flags, new_buckets, slots[i].key, i)'
    BY <1>1, <2>1, <2>2 DEF OnWay, Probe
  <2> QED
    BY <1>1, <2>2 DEF InvWays
<1> QED
  BY <1>5, <1>6, <1>7, <1>8, <1>9 DEF InvTable

\* Putting down: there is a vacant bucket, and what it held of the old table is
\* what is in the hand next.
LEMMA PutDownEffect ==
  ASSUME InvTable, PutDown
  PROVE  \E v \in 0 .. new_buckets - 1 :
           /\ pc = "rehash" /\ pc' = "rehash" /\ hand \in Entry
           /\ v \notin NewLive /\ OnWay(new_flags, new_buckets, hand.key, v)
           /\ new_flags' = [new_flags EXCEPT ![v] = "live"]
           /\ slots' = [slots EXCEPT ![v] = hand]
           /\ slots'[v] = hand
           /\ hand' = IF v \in Live THEN slots[v] ELSE None
           /\ flags' = IF v \in Live THEN [flags EXCEPT ![v] = "deleted"] ELSE flags
           /\ UNCHANGED <<hash, n_buckets, size, n_occupied, upper_bound, arg,
                          new_buckets, j>>
           /\ Buckets' = Buckets
           /\ Live' = Live \ {v} /\ NewLive' = NewLive \cup {v}
           /\ Alive' = Alive \cup {v}
           /\ \A i \in Alive : i # v => slots'[i] = slots[i]
<1>1. /\ pc = "rehash" /\ pc' = "rehash" /\ hand # None
      /\ new_flags' = [new_flags EXCEPT ![Vacant] = "live"]
      /\ slots' = [slots EXCEPT ![Vacant] = hand]
      /\ IF Vacant \in Buckets /\ flags[Vacant] = "live"
         THEN /\ hand' = slots[Vacant]
              /\ flags' = [flags EXCEPT ![Vacant] = "deleted"]
         ELSE /\ hand' = None
              /\ UNCHANGED flags
      /\ UNCHANGED <<hash, n_buckets, size, n_occupied, upper_bound, arg,
                     new_buckets, j>>
  BY DEF PutDown, counts
<1>2. /\ new_buckets \in Nat /\ new_buckets \in Sizes /\ hash \in [Keys -> Nat]
      /\ flags \in [Buckets -> Flag] /\ Buckets \subseteq 0 .. new_buckets - 1
      /\ new_flags \in [0 .. new_buckets - 1 -> {"empty", "live"}]
      /\ slots \in [0 .. new_buckets - 1 -> Entry \cup {None}]
      /\ NewLive = {i \in 0 .. new_buckets - 1 : new_flags[i] = "live"}
  BY <1>1, Rehashing
<1>3. hand \in Entry /\ hand.key \in Keys
  <2>1. hand \in Entry
    BY <1>1 DEF InvTable, InvTypes
  <2> QED
    BY <2>1 DEF Entry
<1>4. PICK e \in 0 .. new_buckets - 1 : new_flags[e] = "empty"
  <2>1. size = Cardinality(Live) + Cardinality(NewLive) + 1
    BY <1>1 DEF InvTable, InvCounts
  <2>2. Cardinality(Live) \in Nat /\ Cardinality(NewLive) \in Nat
    BY TablesFinite, FS_CardinalityType DEF InvTable
  <2>3. size < UpperBound(new_buckets)
    BY <1>1 DEF InvTable, InvPhase
  <2>4. UpperBound(new_buckets) \in Nat /\ UpperBound(new_buckets) < new_buckets
    BY <1>2, UpperBoundProperties, SizesProperties
  <2>5. Cardinality(NewLive) < new_buckets
    BY <1>2, <2>1, <2>2, <2>3, <2>4
  <2>6. NewLive = {i \in 0 .. new_buckets - 1 : new_flags[i] # "empty"}
    BY <1>2
  <2> QED
    BY <1>2, <2>5, <2>6, EmptyBucket
<1>5. PICK v \in 0 .. new_buckets - 1 :
        /\ v = Vacant
        /\ new_flags[v] = "empty"
        /\ OnWay(new_flags, new_buckets, hand.key, v)
  BY <1>2, <1>3, <1>4, VacantFound
<1>6. v \notin NewLive
  BY <1>2, <1>5
<1>7. v \in Live <=> Vacant \in Buckets /\ flags[Vacant] = "live"
  BY <1>5 DEF Live
<1>8. /\ new_flags' = [new_flags EXCEPT ![v] = "live"]
      /\ slots' = [slots EXCEPT ![v] = hand]
      /\ hand' = IF v \in Live THEN slots[v] ELSE None
      /\ flags' = IF v \in Live THEN [flags EXCEPT ![v] = "deleted"] ELSE flags
  BY <1>1, <1>5, <1>7
<1>9. Buckets' = Buckets
  BY <1>1 DEF Buckets
<1>10. Live' = Live \ {v}
  BY <1>2, <1>8, <1>9 DEF Live
<1>11. NewLive' = NewLive \cup {v}
  <2>1. NewLive' = {i \in DOMAIN new_flags' : new_flags'[i] = "live"}
    BY <1>1 DEF NewLive
  <2> QED
    BY <1>2, <1>8, <2>1
<1>12. Alive' = Alive \cup {v}
  BY <1>10, <1>11 DEF Alive
<1>13. slots'[v] = hand
  BY <1>2, <1>8
<1>14. ASSUME NEW i \in Alive, i # v PROVE slots'[i] = slots[i]
  BY <1>2, <1>8, <1>14 DEF Alive, Live
<1> QED
  BY <1>1, <1>3, <1>5, <1>6, <1>8, <1>9, <1>10, <1>11, <1>12, <1>13, <1>14

LEMMA PutDownKeeps ==
  ASSUME InvTable, PutDown
  PROVE  InvTable'
<1>1. PICK v \in 0 .. new_buckets - 1 :
        /\ pc = "rehash" /\ pc' = "rehash" /\ hand \in Entry
        /\ v \notin NewLive /\ OnWay(new_flags, new_buckets, hand.key, v)
        /\ new_flags' = [new_flags EXCEPT ![v] = "live"]
        /\ slots' = [slots EXCEPT ![v] = hand]
        /\ slots'[v] = hand
        /\ hand' = IF v \in Live THEN slots[v] ELSE None
        /\ flags' = IF v \in Live THEN [flags EXCEPT ![v] = "deleted"] ELSE flags
        /\ UNCHANGED <<hash, n_buckets, size, n_occupied, upper_bound, arg,
                       new_buckets, j>>
        /\ Buckets' = Buckets
        /\ Live' = Live \ {v} /\ NewLive' = NewLive \cup {v}
        /\ Alive' = Alive \cup {v}
        /\ \A i \in Alive : i # v => slots'[i] = slots[i]
  BY PutDownEffect
<1>2. /\ new_buckets \in Nat
      /\ flags \in [Buckets -> Flag]
      /\ new_flags \in [0 .. new_buckets - 1 -> {"empty", "live"}]
      /\ slots \in [0 .. new_buckets - 1 -> Entry \cup {None}]
      /\ None \notin Entry
  BY <1>1, Rehashing
<1>3. InvTypes /\ InvPhase /\ InvEntries /\ InvCounts /\ InvWays
  BY DEF InvTable
<1>4. hand # None
  BY <1>1, <1>2
<1>5. v \in Live => v \in Alive /\ slots[v] \in Entry /\ v \in Buckets
  BY <1>3 DEF InvEntries, Alive, Live
<1>6. InvTypes'
  <2>1. flags' \in [Buckets' -> Flag]
    BY <1>1, <1>2 DEF Flag
  <2>2. slots' \in [0 .. new_buckets' - 1 -> Entry \cup {None}]
    BY <1>1, <1>2
  <2>3. hand' \in Entry \cup {None}
    BY <1>1, <1>5
  <2> QED
    BY <1>1, <1>3, <2>1, <2>2, <2>3 DEF InvTypes
<1>7. InvPhase'
  <2>1. new_flags' \in [0 .. new_buckets' - 1 -> {"empty", "live"}]
    BY <1>1, <1>2
  <2>2. \A i \in Buckets' : i < j' => flags'[i] # "live"
    <3>1. \A i \in Buckets : i < j => flags[i] # "live"
      BY <1>1, <1>3 DEF InvPhase
    <3>2. \A i \in Buckets : flags'[i] = flags[i] \/ flags'[i] = "deleted"
      BY <1>1, <1>2
    <3> QED
      BY <1>1, <3>1, <3>2
  <2> QED
    BY <1>1, <1>3, <2>1, <2>2 DEF InvPhase
<1>8. InvEntries'
  <2>1. Live' \cap NewLive' = {}
    BY <1>1, <1>3 DEF InvEntries
  <2>2. \A i \in Alive' : slots'[i] \in Entry
    BY <1>1, <1>3 DEF InvEntries
  <2>3. ASSUME NEW i \in Alive', NEW l \in Alive', slots'[i].key = slots'[l].key
        PROVE  i = l
    BY <1>1, <1>3, <1>4, <2>3 DEF InvEntries
  <2>4. hand' # None => \A i \in Alive' : slots'[i].key # hand'.key
    <3>1. ASSUME v \in Live, NEW i \in Alive' PROVE slots'[i].key # slots[v].key
      BY <1>1, <1>3, <1>4, <1>5, <3>1 DEF InvEntries
    <3> QED
      BY <1>1, <3>1
  <2> QED
    BY <2>1, <2>2, <2>3, <2>4 DEF InvEntries
<1>9. InvCounts'
  <2>1. /\ Cardinality(Live') =
             IF v \in Live THEN Cardinality(Live) - 1 ELSE Cardinality(Live)
        /\ Cardinality(Live) \in Nat
    BY <1>1, <1>3, TablesFinite, FS_RemoveElement, FS_CardinalityType
  <2>2. /\ Cardinality(NewLive') = Cardinality(NewLive) + 1
        /\ Cardinality(NewLive) \in Nat
    BY <1>1, <1>3, TablesFinite, FS_AddElement, FS_CardinalityType
  <2>3. hand' = None <=> v \notin Live
    BY <1>1, <1>2, <1>5
  <2>4. size = Cardinality(Live) + Cardinality(NewLive) + 1
    BY <1>3, <1>4 DEF InvCounts
  <2> HIDE DEF Live, NewLive
  <2> QED
    BY <1>1, <2>1, <2>2, <2>3, <2>4 DEF InvCounts
<1>10. InvWays'
  <2>1. \A r : new_flags[r] # "empty" => new_flags'[r] # "empty"
    BY <1>1, <1>2
  <2>2. ASSUME NEW i \in NewLive'
        PROVE  OnWay(new_flags', new_buckets, slots'[i].key, i)
    <3>1. OnWay(new_flags, new_buckets, slots'[i].key, i)
      <4>1. CASE i = v
        BY <1>1, <4>1
      <4>2. CASE i # v
        <5>1. i \in NewLive /\ slots'[i] = slots[i]
          BY <1>1, <4>2 DEF Alive
        <5> QED
          BY <1>1, <1>3, <5>1 DEF InvWays
      <4> QED
        BY <4>1, <4>2
    <3> QED
      BY <2>1, <3>1 DEF OnWay
  <2>3. ASSUME NEW i \in NewLive' PROVE OnWay(new_flags, new_buckets, slots[i].key, i)'
    BY <1>1, <2>2, <2>3 DEF OnWay, Probe
  <2> QED
    BY <1>1, <2>3 DEF InvWays
<1> QED
  BY <1>6, <1>7, <1>8, <1>9, <1>10 DEF InvTable

\* When the loop has ended no bucket of the old table is live.
LEMMA SwapEffect ==
  ASSUME InvTable, Swap
  PROVE  /\ pc = "rehash" /\ pc' = "store" /\ hand = None /\ hand' = None
         /\ Live = {} /\ NewLive' = {} /\ Live' = NewLive /\ Used' = NewLive
         /\ Alive' = Alive /\ Alive = NewLive
         /\ Buckets' = 0 .. new_buckets - 1
         /\ flags' = new_flags /\ n_buckets' = new_buckets
         /\ n_occupied' = size /\ upper_bound' = UpperBound(new_buckets)
         /\ slots' \in [Buckets' -> Entry \cup {None}]
         /\ \A i \in Buckets' : slots'[i] = slots[i]
         /\ UNCHANGED <<hash, size, arg, new_buckets, new_flags, j, hand>>
<1>1. /\ pc = "rehash" /\ pc' = "store" /\ hand = None /\ j = n_buckets
      /\ flags' = new_flags /\ n_buckets' = new_buckets
      /\ n_occupied' = size /\ upper_bound' = UpperBound(new_buckets)
      /\ slots' = [i \in 0 .. new_buckets - 1 |-> slots[i]]
      /\ UNCHANGED <<hash, size, arg, new_buckets, new_flags, j, hand>>
  BY DEF Swap, resizing
<1>2. /\ new_buckets \in Nat /\ n_buckets \in Nat
      /\ new_flags \in [0 .. new_buckets - 1 -> {"empty", "live"}]
      /\ slots \in [0 .. new_buckets - 1 -> Entry \cup {None}]
      /\ NewLive = {i \in 0 .. new_buckets - 1 : new_flags[i] = "live"}
  BY <1>1, Rehashing
<1>3. Live = {}
  <2>1. \A i \in Buckets : i < j
    BY <1>1, <1>2 DEF Buckets
  <2>2. \A i \in Buckets : flags[i] # "live"
    BY <1>1, <2>1 DEF InvTable, InvPhase
  <2> QED
    BY <2>2 DEF Live
<1>4. Buckets' = 0 .. new_buckets - 1
  BY <1>1 DEF Buckets
<1>5. Live' = NewLive /\ Used' = NewLive
  BY <1>1, <1>2, <1>4 DEF Live, Used
<1>6. NewLive' = {}
  BY <1>1 DEF NewLive
<1>7. Alive' = Alive /\ Alive = NewLive
  BY <1>3, <1>5, <1>6 DEF Alive
<1>8. slots' \in [Buckets' -> Entry \cup {None}] /\ \A i \in Buckets' : slots'[i] = slots[i]
  BY <1>1, <1>2, <1>4
<1> QED
  BY <1>1, <1>3, <1>4, <1>5, <1>6, <1>7, <1>8

LEMMA SwapKeeps ==
  ASSUME InvTable, Swap
  PROVE  InvTable'
<1>1. /\ pc = "rehash" /\ pc' = "store" /\ hand = None /\ hand' = None
      /\ Live = {} /\ NewLive' = {} /\ Live' = NewLive /\ Used' = NewLive
      /\ Alive' = Alive /\ Alive = NewLive
      /\ Buckets' = 0 .. new_buckets - 1
      /\ flags' = new_flags /\ n_buckets' = new_buckets
      /\ n_occupied' = size /\ upper_bound' = UpperBound(new_buckets)
      /\ slots' \in [Buckets' -> Entry \cup {None}]
      /\ \A i \in Buckets' : slots'[i] = slots[i]
      /\ UNCHANGED <<hash, size, arg, new_buckets, new_flags, j, hand>>
  BY SwapEffect
<1>2. /\ new_buckets \in Nat /\ n_buckets \in Nat /\ new_buckets \in Sizes
      /\ n_buckets <= new_buckets /\ j \in 0 .. n_buckets
      /\ new_flags \in [0 .. new_buckets - 1 -> {"empty", "live"}]
      /\ NewLive = {i \in 0 .. new_buckets - 1 : new_flags[i] = "live"}
  BY <1>1, Rehashing
<1>3. InvTypes /\ InvPhase /\ InvEntries /\ InvCounts /\ InvWays
  BY DEF InvTable
<1>4. size < UpperBound(new_buckets)
  BY <1>1, <1>3 DEF InvPhase
<1>5. InvTypes'
  <2>1. flags' \in [Buckets' -> Flag]
    BY <1>1, <1>2 DEF Flag
  <2>2. n_buckets' \in Sizes \cup {0} /\ n_buckets' <= MaxBuckets
    BY <1>1, <1>2, <1>3 DEF InvPhase
  <2>3. j' \in 0 .. n_buckets'
    BY <1>1, <1>2
  <2> QED
    BY <1>1, <1>3, <2>1, <2>2, <2>3 DEF InvTypes
<1>6. InvPhase'
  BY <1>1, <1>2, <1>3, <1>4 DEF InvPhase
<1>7. \A i \in Alive' : slots'[i] = slots[i]
  BY <1>1, <1>2
<1>8. InvEntries'
  BY <1>1, <1>3, <1>7 DEF InvEntries
<1>9. InvCounts'
  <2>1. Cardinality(Live) = 0 /\ Cardinality(NewLive') = 0
    BY <1>1, FS_EmptySet
  <2>2. Cardinality(NewLive) \in Nat /\ size \in Nat
    BY <1>3, TablesFinite, FS_CardinalityType DEF InvTypes
  <2>3. size = Cardinality(Live) + Cardinality(NewLive) + 0
    BY <1>1, <1>3 DEF InvCounts
  <2>4. size = Cardinality(NewLive)
    BY <2>1, <2>2, <2>3
  <2>5. Cardinality(Live') = size /\ Cardinality(Used') = size
    BY <1>1, <2>4
  <2>6. UpperBound(new_buckets) \in Nat
    BY <1>2, UpperBoundProperties
  <2> QED
    BY <1>1, <1>4, <2>1, <2>2, <2>5, <2>6 DEF InvCounts
<1>10. InvWays'
  <2>1. ASSUME NEW i \in Live' PROVE OnWay(new_flags, new_buckets, slots'[i].key, i)
    BY <1>1, <1>3, <1>7 DEF InvWays
  <2>2. ASSUME NEW i \in Live' PROVE OnWay(flags, n_buckets, slots[i].key, i)'
    BY <1>1, <2>1, <2>2 DEF OnWay, Probe
  <2> QED
    BY <1>1, <2>2 DEF InvWays
<1> QED
  BY <1>5, <1>6, <1>8, <1>9, <1>10 DEF InvTable

LEMMA NextTable ==
  ASSUME InvTable, [Next]_vars
  PROVE  InvTable'
<1>1. ASSUME NEW k \in Keys, NEW v \in Vals, SetWithRoom(k, v) PROVE InvTable'
  <2>1. /\ pc = "idle" /\ n_occupied < upper_bound /\ Store(k, v) /\ pc' = "idle"
        /\ UNCHANGED <<hash, resizing>>
    BY <1>1 DEF SetWithRoom
  <2>2. /\ hand' = hand /\ arg' = None /\ new_buckets' = 0
        /\ new_flags' = Empties(0) /\ j' = 0
    BY <2>1 DEF InvTable, InvPhase, resizing
  <2> QED
    BY <2>1, <2>2, StoreKeeps
<1>2. ASSUME NEW k \in Keys, NEW v \in Vals, SetResizes(k, v) PROVE InvTable'
  BY <1>2, ResizeKeeps
<1>3. ASSUME NEW k \in Keys, rpc_hash_del(k) PROVE InvTable'
  BY <1>3, DelKeeps
<1>4. CASE rpc_hash_clear
  BY <1>4, ClearKeeps
<1>5. CASE SetWithoutMemory
  BY <1>5, StaysTable DEF SetWithoutMemory
<1>6. CASE Skip
  BY <1>6, SkipKeeps
<1>7. CASE TakeOut
  BY <1>7, TakeOutKeeps
<1>8. CASE PutDown
  BY <1>8, PutDownKeeps
<1>9. CASE Swap
  BY <1>9, SwapKeeps
<1>10. CASE SetAfterResize
  <2>1. /\ pc = "store" /\ Store(arg.key, arg.val) /\ pc' = "idle"
        /\ arg' = None /\ new_buckets' = 0 /\ new_flags' = Empties(0) /\ j' = 0
        /\ hash' = hash /\ hand' = hand
    BY <1>10 DEF SetAfterResize
  <2>2. arg.key \in Keys /\ arg.val \in Vals /\ n_occupied < upper_bound
    BY <2>1 DEF InvTable, InvPhase, Entry
  <2> QED
    BY <2>1, <2>2, StoreKeeps
<1>11. CASE UNCHANGED vars
  <2>1. /\ Buckets' = Buckets /\ Live' = Live /\ NewLive' = NewLive
        /\ Used' = Used /\ Alive' = Alive
    BY <1>11 DEF Buckets, Live, NewLive, Used, Alive, vars, counts, resizing
  <2>2. InvTypes' /\ InvPhase'
    BY <1>11, <2>1 DEF InvTable, InvTypes, InvPhase, vars, counts, resizing
  <2>3. InvEntries' /\ InvCounts'
    BY <1>11, <2>1 DEF InvTable, InvEntries, InvCounts, vars, counts, resizing
  <2>4. InvWays'
    BY <1>11, <2>1 DEF InvTable, InvWays, OnWay, Probe, vars, counts, resizing
  <2> QED
    BY <2>2, <2>3, <2>4 DEF InvTable
<1> QED
  BY <1>1, <1>2, <1>3, <1>4, <1>5, <1>6, <1>7, <1>8, <1>9, <1>10, <1>11
     DEF Next, rpc_hash_set, kh_resize_loop

LEMMA TableInvariant == Spec => []InvTable
  BY InitTable, NextTable, PTL DEF Spec

------------------------------------------------------------------------------
(* What is checked follows from the invariant.                               *)

\* In every reachable state the variables have their types: slots is as long as
\* the larger of the two tables in kh_resize, and as the table otherwise.
THEOREM TypeCorrect == Spec => []TypeOK
<1>1. InvTable => TypeOK
  <2> SUFFICES ASSUME InvTable PROVE TypeOK
    OBVIOUS
  <2>1. InvTypes /\ InvPhase
    BY DEF InvTable
  <2>2. n_buckets \in Nat /\ upper_bound \in Nat
    BY <2>1, TablesFinite, UpperBoundProperties DEF InvTypes
  <2>3. /\ new_buckets \in Nat
        /\ new_flags \in [0 .. new_buckets - 1 -> {"empty", "live"}]
        /\ \E n \in {n_buckets, new_buckets} :
             slots \in [0 .. n - 1 -> Entry \cup {None}]
    <3>1. CASE pc \in {"idle", "wild"}
      <4>1. new_buckets = 0 /\ new_flags = [i \in 0 .. 0 - 1 |-> "empty"]
        BY <2>1, <3>1 DEF InvPhase, Empties
      <4>2. slots \in [0 .. n_buckets - 1 -> Entry \cup {None}]
        BY <2>1, <3>1 DEF InvTypes, Buckets
      <4> QED
        BY <4>1, <4>2
    <3>2. CASE pc \in {"rehash", "store"}
      <4>1. /\ new_buckets \in Sizes
            /\ new_flags \in [0 .. new_buckets - 1 -> {"empty", "live"}]
            /\ pc = "store" => n_buckets = new_buckets
        BY <2>1, <3>2 DEF InvPhase
      <4>2. slots \in [0 .. new_buckets - 1 -> Entry \cup {None}]
        BY <2>1, <3>2, <4>1 DEF InvTypes, Buckets
      <4> QED
        BY <4>1, <4>2, SizesProperties
    <3> QED
      BY <2>1, <3>1, <3>2 DEF InvTypes
  <2> QED
    BY <2>1, <2>2, <2>3 DEF TypeOK, InvTypes
<1> QED
  BY <1>1, TableInvariant, PTL

LEMMA HeldOnce ==
  ASSUME InvTable
  PROVE  /\ Held \subseteq Entry
         /\ \A d, e \in Held : d.key = e.key => d = e
         /\ None \notin Entry
         /\ hand # None => hand \in Held
<1>1. /\ \A i \in Alive : slots[i] \in Entry
      /\ \A i, l \in Alive : slots[i].key = slots[l].key => i = l
      /\ hand # None => \A i \in Alive : slots[i].key # hand.key
      /\ hand \in Entry \cup {None}
  BY DEF InvTable, InvEntries, InvTypes
<1>2. None \notin Entry
  BY ValuesAssumption DEF Entry
<1>3. Held = {slots[i] : i \in Alive} \cup ({hand} \ {None})
  BY DEF Held, Alive
<1> QED
  BY <1>1, <1>2, <1>3

\* In every reachable state the two tables and the hand share no bucket, and
\* hold size entries between them under as many names: nothing that was set is
\* lost or stored twice while entries kick each other out.
THEOREM EntriesKeptOnce == Spec => []KeptOnce
<1>1. InvTable => KeptOnce
  <2> SUFFICES ASSUME InvTable PROVE KeptOnce
    OBVIOUS
  <2> DEFINE names == {slots[i].key : i \in Alive}
             name == [i \in Alive |-> slots[i].key]
             all == {e.key : e \in Held}
  <2>1. Live \cap NewLive = {}
    BY DEF InvTable, InvEntries
  <2>2. size = Cardinality(Live) + Cardinality(NewLive) + (IF hand = None THEN 0 ELSE 1)
    BY DEF InvTable, InvCounts
  <2>3. IsFiniteSet(Live) /\ IsFiniteSet(NewLive)
    BY TablesFinite DEF InvTable
  <2>4. IsFiniteSet(Alive) /\ Cardinality(Alive) = Cardinality(Live) + Cardinality(NewLive)
    <3>1. Cardinality(Live \cap NewLive) = 0
      BY <2>1, FS_EmptySet
    <3>2. Cardinality(Live) \in Nat /\ Cardinality(NewLive) \in Nat
      BY <2>3, FS_CardinalityType
    <3>3. /\ IsFiniteSet(Live \cup NewLive)
          /\ Cardinality(Live \cup NewLive) =
               Cardinality(Live) + Cardinality(NewLive) - Cardinality(Live \cap NewLive)
      BY <2>3, FS_Union
    <3> QED
      BY <3>1, <3>2, <3>3 DEF Alive
  <2>5. name \in Bijection(Alive, names)
    <3>1. \A i, l \in Alive : slots[i].key = slots[l].key => i = l
      BY DEF InvTable, InvEntries
    <3>2. name \in Injection(Alive, names)
      BY <3>1 DEF Injection, IsInjective
    <3>3. name \in Surjection(Alive, names)
      BY DEF Surjection
    <3> QED
      BY <3>2, <3>3 DEF Bijection
  <2>6. IsFiniteSet(names) /\ Cardinality(names) = Cardinality(Alive)
    <3>1. ExistsBijection(Alive, names)
      BY <2>5 DEF ExistsBijection
    <3> HIDE DEF name, names
    <3> QED
      BY <2>4, <3>1, FS_Bijection
  <2>7. all = IF hand = None THEN names ELSE names \cup {hand.key}
    BY DEF Held, Alive
  <2>8. hand # None => hand.key \notin names
    BY DEF InvTable, InvEntries
  <2>9. Cardinality(all) = size
    <3>1. Cardinality(names) \in Nat
      BY <2>6, FS_CardinalityType
    <3> HIDE DEF names, all
    <3>2. CASE hand = None
      BY <2>2, <2>4, <2>6, <2>7, <3>1, <3>2
    <3>3. CASE hand # None
      <4>1. Cardinality(names \cup {hand.key}) = Cardinality(names) + 1
        BY <2>6, <2>8, <3>3, FS_AddElement
      <4> QED
        BY <2>2, <2>4, <2>6, <2>7, <3>1, <3>3, <4>1
    <3> QED
      BY <3>2, <3>3
  <2> QED
    BY <2>1, <2>2, <2>9 DEF KeptOnce
<1> QED
  BY <1>1, TableInvariant, PTL

\* In every reachable state, between calls, size and n_occupied are the numbers
\* of live and of used buckets, not all buckets are used, and the table kh_put
\* would ask for has room for what there is.
THEOREM CountsAreTrue == Spec => []CountsTrue
<1>1. InvTable => CountsTrue
  <2> SUFFICES ASSUME InvTable, pc = "idle"
               PROVE  /\ size = Cardinality(Live)
                      /\ n_occupied = Cardinality(Used)
                      /\ n_occupied <= upper_bound
                      /\ n_buckets > 0 => upper_bound < n_buckets
                      /\ size < UpperBound(Wanted)
    BY DEF CountsTrue, Used
  <2>1. InvTypes /\ InvCounts
    BY DEF InvTable
  <2>2. size = Cardinality(Live) /\ size <= UpperBound(n_buckets)
    BY SizeFits
  <2>3. n_occupied = Cardinality(Used) /\ n_occupied <= upper_bound
    BY <2>1 DEF InvCounts
  <2>4. ASSUME n_buckets > 0 PROVE upper_bound < n_buckets
    <3>1. n_buckets \in Sizes
      BY <2>1, <2>4 DEF InvTypes
    <3>2. n_buckets \in Nat /\ n_buckets >= 4
      BY <3>1, SizesProperties
    <3> QED
      BY <2>1, <3>2, UpperBoundProperties DEF InvTypes
  <2>5. size < UpperBound(Wanted)
    BY <2>1, <2>2, WantedFits DEF InvTypes
  <2> QED
    BY <2>2, <2>3, <2>4, <2>5
<1> QED
  BY <1>1, TableInvariant, PTL

------------------------------------------------------------------------------
(* What the table stores, and the registry it is.                            *)

\* The names of a set of entries and what stands under them.
MapOf(entries) ==
  [k \in Keys |-> IF \E e \in entries : e.key = k
                  THEN (CHOOSE e \in entries : e.key = k).val
                  ELSE None]

Once(entries) == /\ entries \subseteq Entry
                 /\ \A d, e \in entries : d.key = e.key => d = e

LEMMA MapOfEntry ==
  ASSUME NEW entries, Once(entries), NEW e \in entries
  PROVE  e.key \in Keys /\ e.val \in Vals /\ MapOf(entries)[e.key] = e.val
<1>1. e.key \in Keys /\ e.val \in Vals
  BY DEF Once, Entry
<1>2. PICK d \in entries : d = (CHOOSE x \in entries : x.key = e.key) /\ d.key = e.key
  OBVIOUS
<1>3. d = e
  BY <1>2 DEF Once
<1>4. MapOf(entries)[e.key] = d.val
  BY <1>1, <1>2 DEF MapOf
<1> QED
  BY <1>1, <1>3, <1>4

LEMMA MapOfNone ==
  ASSUME NEW entries, NEW k \in Keys, \A e \in entries : e.key # k
  PROVE  MapOf(entries)[k] = None
  BY DEF MapOf

LEMMA MapOfDropped ==
  ASSUME NEW entries, Once(entries), NEW k \in Keys
  PROVE  MapOf({e \in entries : e.key # k}) = [MapOf(entries) EXCEPT ![k] = None]
<1> DEFINE others == {e \in entries : e.key # k}
<1>1. Once(others)
  BY DEF Once
<1>2. ASSUME NEW l \in Keys
      PROVE  MapOf(others)[l] = IF l = k THEN None ELSE MapOf(entries)[l]
  <2>1. CASE l = k
    <3>1. \A e \in others : e.key # l
      BY <2>1
    <3> HIDE DEF others
    <3> QED
      BY <2>1, <3>1, MapOfNone
  <2>2. CASE l # k /\ \E e \in entries : e.key = l
    <3>1. PICK e \in entries : e.key = l
      BY <2>2
    <3>2. e \in others
      BY <2>2, <3>1
    <3>3. MapOf(entries)[l] = e.val
      BY <3>1, MapOfEntry
    <3>4. MapOf(others)[l] = e.val
      <4> HIDE DEF others
      <4> QED
        BY <1>1, <3>1, <3>2, MapOfEntry
    <3> QED
      BY <2>2, <3>3, <3>4
  <2>3. CASE l # k /\ ~ \E e \in entries : e.key = l
    <3>1. \A e \in others : e.key # l
      BY <2>3
    <3>2. MapOf(others)[l] = None
      <4> HIDE DEF others
      <4> QED
        BY <3>1, MapOfNone
    <3>3. MapOf(entries)[l] = None
      BY <2>3, MapOfNone
    <3> QED
      BY <2>3, <3>2, <3>3
  <2> QED
    BY <2>1, <2>2, <2>3
<1>3. MapOf(others) = [l \in Keys |-> MapOf(others)[l]]
  BY DEF MapOf
<1>4. [MapOf(entries) EXCEPT ![k] = None]
        = [l \in Keys |-> IF l = k THEN None ELSE MapOf(entries)[l]]
  BY DEF MapOf
<1> HIDE DEF others
<1>5. MapOf(others) = [MapOf(entries) EXCEPT ![k] = None]
  BY <1>2, <1>3, <1>4
<1> QED
  BY <1>5 DEF others

LEMMA MapOfPut ==
  ASSUME NEW entries, Once(entries), NEW d \in Entry
  PROVE  MapOf({e \in entries : e.key # d.key} \cup {d})
           = [MapOf(entries) EXCEPT ![d.key] = d.val]
<1> DEFINE after == {e \in entries : e.key # d.key} \cup {d}
<1>1. Once(after) /\ d.key \in Keys
  BY DEF Once, Entry
<1>2. ASSUME NEW l \in Keys
      PROVE  MapOf(after)[l] = IF l = d.key THEN d.val ELSE MapOf(entries)[l]
  <2>1. CASE l = d.key
    <3>1. d \in after
      OBVIOUS
    <3> HIDE DEF after
    <3> QED
      BY <1>1, <2>1, <3>1, MapOfEntry
  <2>2. CASE l # d.key /\ \E e \in entries : e.key = l
    <3>1. PICK e \in entries : e.key = l
      BY <2>2
    <3>2. e \in after
      BY <2>2, <3>1
    <3>3. MapOf(entries)[l] = e.val
      BY <3>1, MapOfEntry
    <3>4. MapOf(after)[l] = e.val
      <4> HIDE DEF after
      <4> QED
        BY <1>1, <3>1, <3>2, MapOfEntry
    <3> QED
      BY <2>2, <3>3, <3>4
  <2>3. CASE l # d.key /\ ~ \E e \in entries : e.key = l
    <3>1. \A e \in after : e.key # l
      BY <2>3
    <3>2. MapOf(after)[l] = None
      <4> HIDE DEF after
      <4> QED
        BY <3>1, MapOfNone
    <3>3. MapOf(entries)[l] = None
      BY <2>3, MapOfNone
    <3> QED
      BY <2>3, <3>2, <3>3
  <2> QED
    BY <2>1, <2>2, <2>3
<1>3. MapOf(after) = [l \in Keys |-> MapOf(after)[l]]
  BY DEF MapOf
<1>4. [MapOf(entries) EXCEPT ![d.key] = d.val]
        = [l \in Keys |-> IF l = d.key THEN d.val ELSE MapOf(entries)[l]]
  BY DEF MapOf
<1> HIDE DEF after
<1>5. MapOf(after) = [MapOf(entries) EXCEPT ![d.key] = d.val]
  BY <1>2, <1>3, <1>4
<1> QED
  BY <1>5 DEF after

LEMMA HeldIs ==
  /\ Held = {slots[i] : i \in Alive} \cup ({hand} \ {None})
  /\ Contents = MapOf(Held)
  BY DEF Held, Alive, Contents, MapOf

\* In every reachable state, between calls, the lookup of a name finds what is
\* stored under it, and nothing where nothing is.
THEOREM LookupsFind == Spec => []LookupsAgree
<1>1. InvTable => LookupsAgree
  <2> SUFFICES ASSUME InvTable, pc = "idle", NEW k \in Keys
               PROVE  /\ rpc_hash_get(k) = Contents[k]
                      /\ rpc_hash_has(k) <=> Contents[k] # None
    BY DEF LookupsAgree
  <2>1. Alive = Live /\ hand = None /\ n_buckets \in Nat
    BY TablesFinite DEF Alive, NewLive, InvTable, InvPhase
  <2>2. Held = {slots[i] : i \in Live}
    BY <2>1, HeldIs
  <2>3. Once(Held) /\ Contents = MapOf(Held)
    BY HeldOnce, HeldIs DEF Once
  <2>4. \/ kh_get(k) \in Live /\ slots[kh_get(k)].key = k
        \/ kh_get(k) = n_buckets /\ \A i \in Live : slots[i].key # k
    BY GetFinds DEF InvTable
  <2>5. CASE kh_get(k) \in Live /\ slots[kh_get(k)].key = k
    <3>1. PICK x \in Live : x = kh_get(k) /\ slots[x].key = k
      BY <2>5
    <3>2. slots[x] \in Held
      BY <2>2
    <3>3. Contents[k] = slots[x].val /\ slots[x].val \in Vals
      BY <2>3, <3>1, <3>2, MapOfEntry
    <3>4. x # n_buckets
      BY <2>1 DEF Live, Buckets
    <3>5. size > 0
      <4>1. size = Cardinality(Live) /\ IsFiniteSet(Live) /\ Live # {}
        BY SizeFits, TablesFinite DEF InvTable
      <4>2. Cardinality(Live) \in Nat /\ Cardinality(Live) # 0
        BY <4>1, FS_EmptySet, FS_CardinalityType
      <4> QED
        BY <4>1, <4>2
    <3>6. Contents[k] # None
      BY <3>3, ValuesAssumption
    <3>7. rpc_hash_get(k) = slots[x].val
      BY <3>1, <3>4 DEF rpc_hash_get
    <3>8. rpc_hash_has(k)
      BY <3>1, <3>4, <3>5 DEF rpc_hash_has
    <3> QED
      BY <3>3, <3>6, <3>7, <3>8
  <2>6. CASE kh_get(k) = n_buckets /\ \A i \in Live : slots[i].key # k
    <3>1. \A e \in Held : e.key # k
      BY <2>2, <2>6
    <3>2. Contents[k] = None
      BY <2>3, <3>1, MapOfNone
    <3>3. rpc_hash_get(k) = None /\ ~ rpc_hash_has(k)
      BY <2>6 DEF rpc_hash_get, rpc_hash_has
    <3> QED
      BY <3>2, <3>3
  <2> QED
    BY <2>4, <2>5, <2>6
<1> QED
  BY <1>1, TableInvariant, PTL

LEMMA StoreHeld ==
  ASSUME InvTable, pc \in {"idle", "store"}, n_occupied < upper_bound,
         NEW k \in Keys, NEW v \in Vals, Store(k, v), pc' = "idle", hand' = hand
  PROVE  Held' = {e \in Held : e.key # k} \cup {[key |-> k, val |-> v]}
<1> DEFINE d == [key |-> k, val |-> v]
<1>1. PICK x \in Buckets :
        /\ IF x \in Live THEN slots[x].key = k ELSE \A i \in Live : slots[i].key # k
        /\ slots' = [slots EXCEPT ![x] = d]
        /\ Live' = Live \cup {x}
        /\ NewLive = {} /\ NewLive' = {}
  BY StoreEffect
<1>2. hand = None /\ slots \in [Buckets -> Entry \cup {None}]
  BY DEF InvTable, InvPhase, InvTypes
<1>3. \A i, l \in Live : slots[i].key = slots[l].key => i = l
  BY DEF InvTable, InvEntries, Alive
<1>4. Live \subseteq Buckets
  BY DEF Live
<1>5. Held = {slots[i] : i \in Live} /\ Held' = {slots'[i] : i \in Live \cup {x}}
  BY <1>1, <1>2 DEF Held
<1>6. slots'[x] = d /\ \A i \in Live : i # x => slots'[i] = slots[i]
  BY <1>1, <1>2, <1>4
<1>7. \A i \in Live : i # x <=> slots[i].key # k
  BY <1>1, <1>3
<1> HIDE DEF d
<1>8. Held' = {e \in Held : e.key # k} \cup {d}
  <2>1. ASSUME NEW e \in Held' PROVE e \in {c \in Held : c.key # k} \cup {d}
    BY <1>5, <1>6, <1>7, <2>1
  <2>2. ASSUME NEW e \in Held, e.key # k PROVE e \in Held'
    BY <1>1, <1>5, <1>6, <1>7, <2>2
  <2>3. d \in Held'
    BY <1>5, <1>6
  <2> QED
    BY <2>1, <2>2, <2>3
<1> QED
  BY <1>8 DEF d

LEMMA DelHeld ==
  ASSUME InvTable, NEW k \in Keys, rpc_hash_del(k)
  PROVE  Held' = {e \in Held : e.key # k}
<1>1. /\ NewLive = {} /\ NewLive' = {} /\ hand = None /\ hand' = None
      /\ Buckets' = Buckets
  BY DelEffect DEF InvTable, InvPhase, resizing
<1>2. slots \in [Buckets -> Entry \cup {None}]
  BY DelEffect DEF InvTable, InvTypes
<1>3. \A i, l \in Live : slots[i].key = slots[l].key => i = l
  BY DEF InvTable, InvEntries, Alive
<1>4. Live \subseteq Buckets
  BY DEF Live
<1>5. Held = {slots[i] : i \in Live} /\ Held' = {slots'[i] : i \in Live'}
  BY <1>1 DEF Held
<1>6. CASE UNCHANGED <<flags, slots, size>> /\ \A i \in Live : slots[i].key # k
  <2>1. Live' = Live
    BY <1>1, <1>6 DEF Live
  <2> QED
    BY <1>5, <1>6, <2>1
<1>7. CASE \E x \in Live : /\ slots[x].key = k
                           /\ slots' = [slots EXCEPT ![x] = None]
                           /\ Live' = Live \ {x}
  <2>1. PICK x \in Live : /\ slots[x].key = k
                          /\ slots' = [slots EXCEPT ![x] = None]
                          /\ Live' = Live \ {x}
    BY <1>7
  <2>2. \A i \in Live' : slots'[i] = slots[i]
    BY <1>2, <1>4, <2>1
  <2>3. \A i \in Live : i # x <=> slots[i].key # k
    BY <1>3, <2>1
  <2>4. ASSUME NEW e \in Held' PROVE e \in Held /\ e.key # k
    BY <1>5, <2>1, <2>2, <2>3, <2>4
  <2>5. ASSUME NEW e \in Held, e.key # k PROVE e \in Held'
    BY <1>5, <2>1, <2>2, <2>3, <2>5
  <2> QED
    BY <2>4, <2>5
<1> QED
  BY <1>6, <1>7, DelEffect

\* Between a put's call of kh_resize and its end the entries stay what they are.
LEMMA ResizeHeld ==
  ASSUME InvTable,
         \/ \E k \in Keys, v \in Vals : SetResizes(k, v)
         \/ kh_resize_loop
         \/ SetWithoutMemory
         \/ UNCHANGED vars
  PROVE  Held' = Held
<1>1. /\ \A i, l \in Alive : slots[i].key = slots[l].key => i = l
      /\ \A i \in Alive : slots[i] \in Entry
      /\ None \notin Entry
  BY HeldOnce DEF InvTable, InvEntries
<1>2. ASSUME NEW k \in Keys, NEW v \in Vals, SetResizes(k, v) PROVE Held' = Held
  <2>1. /\ hand = None /\ hand' = None /\ Alive' = Live /\ Alive = Live
        /\ \A i \in Live : slots'[i] = slots[i]
    BY <1>2, ResizeEffect DEF Live
  <2> QED
    BY <2>1, HeldIs DEF Held, Alive
<1>3. CASE Skip
  <2>1. hand' = hand /\ Live' = Live /\ NewLive' = NewLive /\ slots' = slots
    BY <1>3 DEF Skip, Live, NewLive, Buckets, counts
  <2> QED
    BY <2>1 DEF Held
<1>4. CASE TakeOut
  <2>1. /\ hand = None /\ j \in Alive /\ hand' = slots[j] /\ hand' \in Entry
        /\ Alive' = Alive \ {j} /\ \A i \in Alive' : slots'[i] = slots[i]
    BY <1>4, TakeOutEffect DEF Alive
  <2>2. Held' = {slots'[i] : i \in Alive'} \cup ({hand'} \ {None})
    BY DEF Held, Alive
  <2>3. Held = {slots[i] : i \in Alive} /\ hand' # None
    BY <1>1, <2>1, HeldIs
  <2> QED
    BY <2>1, <2>2, <2>3
<1>5. CASE PutDown
  <2>1. PICK v \in 0 .. new_buckets - 1 :
          /\ hand \in Entry /\ v \notin NewLive
          /\ slots'[v] = hand
          /\ hand' = IF v \in Live THEN slots[v] ELSE None
          /\ Alive' = Alive \cup {v}
          /\ \A i \in Alive : i # v => slots'[i] = slots[i]
    BY <1>5, PutDownEffect
  <2>2. Held' = {slots'[i] : i \in Alive'} \cup ({hand'} \ {None})
    BY DEF Held, Alive
  <2>3. Held = {slots[i] : i \in Alive} \cup {hand}
    BY <1>1, <2>1, HeldIs
  <2>4. v \in Live <=> v \in Alive
    BY <2>1 DEF Alive
  <2>5. ASSUME NEW e \in Held PROVE e \in Held'
    BY <1>1, <2>1, <2>2, <2>3, <2>4, <2>5
  <2>6. ASSUME NEW e \in Held' PROVE e \in Held
    BY <1>1, <2>1, <2>2, <2>3, <2>4, <2>6
  <2> QED
    BY <2>5, <2>6
<1>6. CASE Swap
  <2>1. /\ hand = None /\ hand' = None /\ Alive' = Alive
        /\ \A i \in Alive' : slots'[i] = slots[i]
    <3>1. \A i \in NewLive : i \in 0 .. new_buckets - 1
      BY <1>6, SwapEffect, TablesFinite DEF InvTable
    <3> QED
      BY <1>6, <3>1, SwapEffect
  <2>2. Held' = {slots'[i] : i \in Alive'} \cup ({hand'} \ {None})
    BY DEF Held, Alive
  <2> QED
    BY <2>1, <2>2, HeldIs
<1>7. CASE SetWithoutMemory
  <2>1. hand' = hand /\ Live' = Live /\ NewLive' = NewLive /\ slots' = slots
    BY <1>7 DEF SetWithoutMemory, Live, NewLive, Buckets, counts, resizing
  <2> QED
    BY <2>1 DEF Held
<1>8. CASE UNCHANGED vars
  <2>1. hand' = hand /\ Live' = Live /\ NewLive' = NewLive /\ slots' = slots
    BY <1>8 DEF vars, Live, NewLive, Buckets, counts, resizing
  <2> QED
    BY <2>1 DEF Held
<1> QED
  BY <1>2, <1>3, <1>4, <1>5, <1>6, <1>7, <1>8 DEF kh_resize_loop

LEMMA NextIsNames ==
  ASSUME InvTable, [Next]_vars
  PROVE  [Names!Next]_(Names!vars)
<1>1. Contents = MapOf(Held) /\ Contents' = MapOf(Held') /\ Once(Held)
  BY HeldIs, HeldOnce DEF Contents, MapOf, Once
<1>2. ASSUME pc \in {"idle", "store"}, n_occupied < upper_bound,
             NEW k \in Keys, NEW v \in Vals, Store(k, v), pc' = "idle", hand' = hand
      PROVE  Contents' = [Contents EXCEPT ![k] = v]
  <2> DEFINE d == [key |-> k, val |-> v]
  <2>1. d \in Entry /\ d.key = k /\ d.val = v
    BY DEF Entry
  <2>2. Held' = {e \in Held : e.key # d.key} \cup {d}
    BY <1>2, StoreHeld
  <2> HIDE DEF d
  <2> QED
    BY <1>1, <2>1, <2>2, MapOfPut
<1>3. ASSUME NEW k \in Keys, NEW v \in Vals, SetWithRoom(k, v)
      PROVE  Names!Set(k, v)
  <2>1. /\ pc = "idle" /\ n_occupied < upper_bound /\ Store(k, v) /\ pc' = "idle"
        /\ hand' = hand /\ arg' = arg
    BY <1>3 DEF SetWithRoom, resizing
  <2>2. arg = None
    BY <2>1 DEF InvTable, InvPhase
  <2> QED
    BY <1>2, <2>1, <2>2 DEF Names!Set
<1>4. ASSUME NEW k \in Keys, NEW v \in Vals, SetResizes(k, v)
      PROVE  Names!SetBegins(k, v)
  <2>1. arg = None /\ arg' = [key |-> k, val |-> v]
    BY <1>4, ResizeEffect
  <2>2. Held' = Held
    BY <1>4, ResizeHeld
  <2> QED
    BY <1>1, <2>1, <2>2 DEF Names!SetBegins
<1>5. ASSUME NEW k \in Keys, rpc_hash_del(k) PROVE Names!Del(k)
  <2>1. arg = None /\ arg' = arg
    BY <1>5, DelEffect DEF InvTable, InvPhase, resizing
  <2>2. Held' = {e \in Held : e.key # k}
    BY <1>5, DelHeld
  <2> QED
    BY <1>1, <2>1, <2>2, MapOfDropped DEF Names!Del
<1>6. ASSUME rpc_hash_clear PROVE Names!Clear
  <2>1. arg = None /\ arg' = None /\ hand' = None
    BY <1>6 DEF rpc_hash_clear, InvTable, InvPhase, resizing
  <2>2. Held' = {}
    BY <1>6, <2>1, ClearKeeps DEF Held
  <2>3. Contents' = [k \in Keys |-> None]
    BY <1>1, <2>2 DEF MapOf
  <2> QED
    BY <2>1, <2>3 DEF Names!Clear
<1>7. CASE kh_resize_loop \/ SetWithoutMemory \/ UNCHANGED vars
  <2>1. arg' = arg
    BY <1>7 DEF kh_resize_loop, Skip, TakeOut, PutDown, Swap, SetWithoutMemory,
                vars, resizing
  <2>2. Contents' = Contents
    BY <1>1, <1>7, ResizeHeld
  <2>3. UNCHANGED Names!vars
    BY <2>1, <2>2 DEF Names!vars
  <2> QED
    BY <2>3
<1>8. ASSUME SetAfterResize PROVE Names!SetIsDone
  <2>1. /\ pc = "store" /\ Store(arg.key, arg.val) /\ pc' = "idle" /\ arg' = None
        /\ hand' = hand
    BY <1>8 DEF SetAfterResize
  <2>2. /\ arg \in Entry /\ arg.key \in Keys /\ arg.val \in Vals
        /\ n_occupied < upper_bound
    BY <2>1 DEF InvTable, InvPhase, Entry
  <2>3. arg # None
    BY <2>2, HeldOnce
  <2>4. Contents' = [Contents EXCEPT ![arg.key] = arg.val]
    BY <1>2, <2>1, <2>2
  <2> QED
    BY <2>1, <2>3, <2>4 DEF Names!SetIsDone
<1>9. CASE \E k \in Keys, v \in Vals : rpc_hash_set(k, v)
  <2>1. PICK k \in Keys, v \in Vals : SetWithRoom(k, v) \/ SetResizes(k, v)
    BY <1>9 DEF rpc_hash_set
  <2>2. Names!Set(k, v) \/ Names!SetBegins(k, v)
    BY <1>3, <1>4, <2>1
  <2>3. Names!Next
    BY <2>2 DEF Names!Next
  <2> QED
    BY <2>3
<1>10. CASE \E k \in Keys : rpc_hash_del(k)
  <2>1. Names!Next
    BY <1>5, <1>10 DEF Names!Next
  <2> QED
    BY <2>1
<1>11. CASE rpc_hash_clear \/ SetAfterResize
  <2>1. Names!Next
    BY <1>6, <1>8, <1>11 DEF Names!Next
  <2> QED
    BY <2>1
<1> QED
  BY <1>7, <1>9, <1>10, <1>11 DEF Next

\* The table implements the registry: a call changes the one name it is about,
\* kh_resize and the kicking out in it none, and no value is found under
\* another name.
THEOREM RegistryImplemented == Spec => ImplementsRegistry
<1>1. Init => Names!Init
  <2> SUFFICES ASSUME Init PROVE Names!Init
    OBVIOUS
  <2>1. Live = {} /\ NewLive = {} /\ hand = None
    BY DEF Init, Live, NewLive, Buckets
  <2>2. Held = {}
    BY <2>1 DEF Held
  <2>3. Contents = [k \in Keys |-> None]
    BY <2>2 DEF Contents
  <2> QED
    BY <2>3 DEF Init, Names!Init
<1> QED
  BY <1>1, NextIsNames, TableInvariant, PTL DEF Spec, ImplementsRegistry, Names!Spec
==============================================================================
