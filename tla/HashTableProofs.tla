--------------------------- MODULE HashTableProofs ---------------------------
(* For every set of keys and values, every hash function and every smallest    *)
(* size: a search ends and finds what is stored, the counts are exact, and the *)
(* table is the dictionary of Dictionary.tla.  In the order of the proof: what *)
(* the probes of a key visit, what a search returns, what each operation makes *)
(* of a table, how the moves of a resize keep it, and the steps of Next.       *)
EXTENDS HashTable, FiniteSetTheorems, TLAPS

(* A non-empty set of natural numbers has a least element.                     *)
LEMMA Least ==
  ASSUME NEW T \in SUBSET Nat, T # {}
  PROVE  \E n \in T : \A m \in T : n <= m
<1> DEFINE R == OpToRel(<, Nat)
<1>1. IsWellFoundedOn(R, Nat)
  BY NatLessThanWellFounded
<1>2. \A x, y \in Nat : <<x, y>> \in R <=> x < y
  BY DEF OpToRel
<1> HIDE DEF R
<1>3. PICK n \in T : \A m \in T : ~(<<m, n>> \in R)
  BY <1>1, WFMin
<1>4. \A m \in T : m \in Nat /\ n \in Nat /\ ~(m < n)
  BY <1>2, <1>3
<1> QED BY <1>4

(* Induction up to N, for a set S of numbers.                                  *)
LEMMA Upwards ==
  ASSUME NEW N \in Nat, NEW S, 0 \in S, \A n \in 0..(N - 1) : n \in S => n + 1 \in S
  PROVE  \A n \in 0..N : n \in S
<1> DEFINE Bad == {n \in 0..N : n \notin S}
<1> SUFFICES ASSUME Bad # {} PROVE FALSE
  OBVIOUS
<1>0. Bad \in SUBSET Nat
  OBVIOUS
<1> HIDE DEF Bad
<1>1. PICK n \in Bad : \A m \in Bad : n <= m
  BY <1>0, Least
<1> USE DEF Bad
<1>2. n \in Nat /\ n # 0 /\ n - 1 \in 0..(N - 1) /\ n - 1 \notin Bad
  BY <1>1
<1> QED BY <1>1, <1>2

(* Size: the powers of two up to 2^30, which is as large as an int gets.       *)
LEMMA Doubles ==
  \A s \in 0..MaxShift :
    Size(s) \in Nat \ {0} /\ (s = 0 => Size(s) = 1) /\ (s > 0 => Size(s) = 2 * Size(s - 1))
<1> DEFINE P(n) == 2 ^ n \in Nat \ {0} /\ (n = 0 => 2 ^ n = 1) /\ (n > 0 => 2 ^ n = 2 * 2 ^ (n - 1))
<1>1. P(0) /\ P(1) /\ P(2) /\ P(3) /\ P(4) /\ P(5) /\ P(6) /\ P(7)
  OBVIOUS
<1>2. P(8) /\ P(9) /\ P(10) /\ P(11) /\ P(12) /\ P(13) /\ P(14) /\ P(15)
  OBVIOUS
<1>3. P(16) /\ P(17) /\ P(18) /\ P(19) /\ P(20) /\ P(21) /\ P(22) /\ P(23)
  OBVIOUS
<1>4. P(24) /\ P(25) /\ P(26) /\ P(27) /\ P(28) /\ P(29) /\ P(30)
  OBVIOUS
<1> HIDE DEF P
<1>5. \A s \in {0, 1, 2, 3, 4, 5, 6, 7, 8, 9, 10, 11, 12, 13, 14, 15} : P(s)
  BY <1>1, <1>2, Zenon
<1>6. \A s \in {16, 17, 18, 19, 20, 21, 22, 23, 24, 25, 26, 27, 28, 29, 30} : P(s)
  BY <1>3, <1>4, Zenon
<1>7. \A s \in 0..30 : P(s)
  BY <1>5, <1>6
<1> QED BY <1>7 DEF P, Size, MaxShift

(* Division with remainder; parity; multiples.                                 *)
LEMMA Remainder ==
  ASSUME NEW n \in Nat, NEW x \in Int, n > 0
  PROVE x % n \in 0..(n-1) /\ x = (n * (x \div n)) + (x % n) /\ (x \div n) \in Int
OBVIOUS

LEMMA Parity ==
  ASSUME NEW n \in Int
  PROVE  \E m \in Int : n = 2 * m \/ n = 2 * m + 1
<1>1. n % 2 \in 0..1 /\ n = (2 * (n \div 2)) + (n % 2) /\ n \div 2 \in Int
  BY Remainder
<1> QED BY <1>1

Odd(a) == \E k \in Int : a = 2 * k + 1
Multiple(b, z) == \E p \in Int : b = p * z

(* An odd factor does not share a divisor with a power of two.                 *)
LEMMA OddFactor ==
  \A s \in 0..MaxShift : \A a, b \in Int :
    Odd(a) /\ Multiple(a * b, 2 * Size(s)) => Multiple(b, 2 * Size(s))
<1> DEFINE Divides(s) == \A a, b \in Int :
             Odd(a) /\ Multiple(a * b, 2 * Size(s)) => Multiple(b, 2 * Size(s))
           S == {s \in 0..MaxShift : Divides(s)}
<1>1. MaxShift \in Nat
  BY DEF MaxShift
<1>2. Divides(0)
  <2> SUFFICES ASSUME NEW k \in Int, NEW b \in Int, NEW q \in Int,
                      (2 * k + 1) * b = q * (2 * Size(0))
               PROVE  \E p \in Int : b = p * (2 * Size(0))
    BY DEF Odd, Multiple
  <2>1. Size(0) = 1
    BY <1>1, Doubles
  <2>2. b = (q - k * b) * (2 * Size(0)) /\ q - k * b \in Int
    BY <2>1
  <2> QED BY <2>2
<1>3. ASSUME NEW s \in 0..(MaxShift - 1), Divides(s)
      PROVE  Divides(s + 1)
  <2> SUFFICES ASSUME NEW a \in Int, NEW k \in Int, a = 2 * k + 1,
                      NEW b \in Int, NEW q \in Int, a * b = q * (2 * Size(s + 1))
               PROVE  \E p \in Int : b = p * (2 * Size(s + 1))
    BY DEF Odd, Multiple
  <2> DEFINE z == Size(s)
  <2>1. z \in Nat \ {0} /\ Size(s + 1) = 2 * z
    BY <1>1, Doubles
  <2>2. a * b = (2 * q) * (2 * z) /\ 2 * q \in Int
    BY <2>1
  <2>3. PICK p \in Int : b = p * (2 * z)
    <3>1. Odd(a) /\ Multiple(a * b, 2 * z)
      BY <2>2 DEF Odd, Multiple
    <3> QED BY <1>3, <3>1, Zenon DEF Multiple
  <2> HIDE DEF z
  <2>4. a * p = 2 * q
    <3>1. (a * p) * z = (2 * q) * z
      BY <2>1, <2>2, <2>3
    <3>2. \A x, y \in Int : x * z = y * z => x = y
      BY <2>1
    <3>3. a * p \in Int /\ 2 * q \in Int
      OBVIOUS
    <3> QED BY <3>1, <3>2, <3>3, Zenon
  <2>5. p = (q - k * p) * 2 /\ q - k * p \in Int
    BY <2>4
  <2>6. b = (q - k * p) * (2 * (2 * z))
    BY <2>1, <2>3, <2>5
  <2> QED BY <2>1, <2>5, <2>6
<1> HIDE DEF Divides
<1>4. 0 \in S /\ \A s \in 0..(MaxShift - 1) : s \in S => s + 1 \in S
  BY <1>1, <1>2, <1>3
<1> HIDE DEF S
<1>5. \A s \in 0..MaxShift : s \in S
  BY <1>1, <1>4, Upwards
<1> QED BY <1>5 DEF Divides, S

Triangle(n) == (n * (n + 1)) \div 2

(* The n-th probe is n(n + 1)/2 buckets from the first.                        *)
LEMMA Triangles ==
  ASSUME NEW n \in Nat
  PROVE  Triangle(n) \in Nat /\ 2 * Triangle(n) = n * (n + 1)
<1>1. PICK m \in Int : n = 2 * m \/ n = 2 * m + 1
  BY Parity
<1>2. m \in Nat
  BY <1>1
<1>3. \A x \in Nat : (2 * x) \div 2 = x
  OBVIOUS
<1>4. CASE n = 2 * m
  <2>1. n * (n + 1) = 2 * (m * (n + 1)) /\ m * (n + 1) \in Nat
    BY <1>2, <1>4
  <2> QED BY <1>3, <2>1 DEF Triangle
<1>5. CASE n = 2 * m + 1
  <2>1. n * (n + 1) = 2 * (n * (m + 1)) /\ n * (m + 1) \in Nat
    BY <1>2, <1>5
  <2> QED BY <1>3, <2>1 DEF Triangle
<1> QED BY <1>1, <1>4, <1>5

(* The first Size(s) probes of a hash visit different buckets: were            *)
(* two the same, (n - m)(n + m + 1) would be a multiple of 2 * Size(s), one of *)
(* the factors is odd, and the other is smaller than that.                     *)
LEMMA ProbesDiffer ==
  ASSUME NEW s \in 0..MaxShift, NEW b \in Nat,
         NEW m \in 0..(Size(s) - 1), NEW n \in 0..(Size(s) - 1), m < n
  PROVE  (b + Triangle(m)) % Size(s) # (b + Triangle(n)) % Size(s)
<1> DEFINE z == Size(s)
           x == b + Triangle(m)
           y == b + Triangle(n)
<1> SUFFICES ASSUME x % z = y % z PROVE FALSE
  OBVIOUS
<1>1. z \in Nat \ {0}
  BY Doubles
<1>2. m \in Nat /\ n \in Nat /\ n < z
  BY <1>1
<1>3. x \in Nat /\ y \in Nat /\ 2 * (y - x) = n * (n + 1) - m * (m + 1)
  <2>1. /\ Triangle(m) \in Nat /\ 2 * Triangle(m) = m * (m + 1)
        /\ Triangle(n) \in Nat /\ 2 * Triangle(n) = n * (n + 1)
    BY <1>2, Triangles
  <2> QED BY <2>1
<1> HIDE DEF z, x, y
<1> DEFINE q == (y \div z) - (x \div z)
<1>4. q \in Int /\ y - x = q * z
  <2>1. x = (z * (x \div z)) + (x % z) /\ (x \div z) \in Int
    BY <1>1, <1>3, Remainder
  <2>2. y = (z * (y \div z)) + (y % z) /\ (y \div z) \in Int
    BY <1>1, <1>3, Remainder
  <2>3. x % z \in Int
    BY <1>1, <1>3
  <2> QED BY <1>1, <1>3, <2>1, <2>2, <2>3
<1> HIDE DEF q
<1>5. (n - m) * (n + m + 1) = q * (2 * z)
  <2>1. (n - m) * (n + m + 1) = n * (n + 1) - m * (m + 1)
    BY <1>2
  <2>2. q * (2 * z) = 2 * (q * z)
    BY <1>1, <1>4
  <2> QED BY <1>3, <1>4, <2>1, <2>2
<1>6. \A p \in Int : p * (2 * z) > 0 => p * (2 * z) >= 2 * z
  <2> SUFFICES ASSUME NEW p \in Int, p * (2 * z) > 0 PROVE p * (2 * z) >= 2 * z
    OBVIOUS
  <2> DEFINE w == p * (2 * z)
  <2>1. p <= 0 => w <= 0
    BY <1>1
  <2>2. p >= 1 => w >= 2 * z
    BY <1>1
  <2>3. w \in Int /\ w > 0
    BY <1>1
  <2> HIDE DEF w
  <2>4. p >= 1
    BY <2>1, <2>3
  <2>5. w >= 2 * z
    BY <2>2, <2>4
  <2> QED BY <2>5 DEF w
<1>7. PICK k \in Int : n - m = 2 * k \/ n - m = 2 * k + 1
  <2>1. n - m \in Int
    BY <1>2
  <2> QED BY <2>1, Parity
<1>8. CASE n - m = 2 * k + 1
  <2>1. Odd(n - m) /\ Multiple((n - m) * (n + m + 1), 2 * z)
    BY <1>4, <1>5, <1>8 DEF Odd, Multiple
  <2>2. n - m \in Int /\ n + m + 1 \in Int
    BY <1>2
  <2>3. PICK p \in Int : n + m + 1 = p * (2 * z)
    BY <2>1, <2>2, OddFactor, Zenon DEF z, Multiple
  <2> QED BY <1>1, <1>2, <1>6, <2>3
<1>9. CASE n - m = 2 * k
  <2>1. n + m + 1 = 2 * (k + m) + 1 /\ k + m \in Int
    BY <1>2, <1>9
  <2>2. Odd(n + m + 1) /\ Multiple((n + m + 1) * (n - m), 2 * z)
    <3>1. (n + m + 1) * (n - m) = (n - m) * (n + m + 1)
      BY <1>2
    <3>2. Multiple((n + m + 1) * (n - m), 2 * z)
      BY <1>4, <1>5, <3>1 DEF Multiple
    <3> QED BY <2>1, <3>2 DEF Odd
  <2>3. n - m \in Int /\ n + m + 1 \in Int
    BY <1>2
  <2>4. PICK p \in Int : n - m = p * (2 * z)
    BY <2>2, <2>3, OddFactor, Zenon DEF z, Multiple
  <2> QED BY <1>1, <1>2, <1>6, <2>4
<1> QED BY <1>7, <1>8, <1>9

(* Every entry of prime_mod may be divided by.                                 *)
LEMMA Primes ==
  \A s \in 0..MaxShift : prime_mod[s + 1] \in Nat \ {0}
<1> DEFINE P(n) == prime_mod[n] \in Nat \ {0}
<1>1. P(1) /\ P(2) /\ P(3) /\ P(4) /\ P(5) /\ P(6) /\ P(7) /\ P(8)
  BY DEF prime_mod
<1>2. P(9) /\ P(10) /\ P(11) /\ P(12) /\ P(13) /\ P(14) /\ P(15) /\ P(16)
  BY DEF prime_mod
<1>3. P(17) /\ P(18) /\ P(19) /\ P(20) /\ P(21) /\ P(22) /\ P(23) /\ P(24)
  BY DEF prime_mod
<1>4. P(25) /\ P(26) /\ P(27) /\ P(28) /\ P(29) /\ P(30) /\ P(31)
  BY DEF prime_mod
<1> HIDE DEF P
<1>5. \A n \in {1, 2, 3, 4, 5, 6, 7, 8, 9, 10, 11, 12, 13, 14, 15, 16} : P(n)
  BY <1>1, <1>2, Zenon
<1>6. \A n \in {17, 18, 19, 20, 21, 22, 23, 24, 25, 26, 27, 28, 29, 30, 31} : P(n)
  BY <1>3, <1>4, Zenon
<1>7. \A n \in 1..31 : P(n)
  BY <1>5, <1>6
<1> QED BY <1>7 DEF P, MaxShift

(* So the probes of a hash visit every bucket.                                 *)
LEMMA ProbeFacts ==
  ASSUME NEW t, t.shift \in 0..MaxShift, NEW h \in Nat
  PROVE  /\ \A n \in Nat : Probe(t, h, n) \in Buckets(t)
         /\ \A i \in Buckets(t) : \E n \in Probes(t) : Probe(t, h, n) = i
<1> DEFINE z == Size(t.shift)
           b == h % prime_mod[t.shift + 1]
           f == [n \in Probes(t) |-> Probe(t, h, n)]
<1>1. z \in Nat \ {0}
  BY Doubles
<1>2. b \in Nat
  BY Primes
<1>3. Buckets(t) = 0..(z - 1) /\ Probes(t) = Buckets(t)
  BY DEF Buckets, Probes
<1>4. \A n \in Nat : Probe(t, h, n) = (b + Triangle(n)) % z
  BY DEF Probe, Triangle
<1>5. \A n \in Nat : Triangle(n) \in Nat
  BY Triangles
<1> HIDE DEF z, b
<1>6. \A n \in Nat : Probe(t, h, n) \in Buckets(t)
  <2> TAKE n \in Nat
  <2>1. b + Triangle(n) \in Int
    BY <1>2, <1>5
  <2> QED BY <1>1, <1>3, <1>4, <2>1, Remainder
<1>7. f \in [Probes(t) -> Buckets(t)]
  <2>1. \A n \in Probes(t) : n \in Nat
    BY <1>3
  <2> QED BY <1>6, <2>1
<1>8. \A m, n \in Probes(t) : m < n => f[m] # f[n]
  <2> TAKE m, n \in Probes(t)
  <2> HAVE m < n
  <2>1. m \in Nat /\ n \in Nat /\ m \in 0..(Size(t.shift) - 1) /\ n \in 0..(Size(t.shift) - 1)
    BY <1>1, <1>3 DEF z
  <2>2. (b + Triangle(m)) % Size(t.shift) # (b + Triangle(n)) % Size(t.shift)
    BY <1>2, <2>1, ProbesDiffer
  <2> QED BY <1>4, <2>1, <2>2 DEF z
<1>9. f \in Injection(Probes(t), Buckets(t))
  <2>1. \A m, n \in Probes(t) : f[m] = f[n] => m = n
    <3> TAKE m, n \in Probes(t)
    <3>1. m \in Int /\ n \in Int
      BY <1>3
    <3> QED BY <1>8, <3>1
  <2> QED BY <1>7, <2>1 DEF Injection, IsInjective
<1>10. IsFiniteSet(Buckets(t))
  BY <1>1, <1>3, FS_Interval
<1>11. f \in Surjection(Probes(t), Buckets(t))
  BY <1>3, <1>9, <1>10, FS_Injection
<1> QED BY <1>6, <1>11 DEF Surjection

IsTable(t) ==
  DOMAIN t = {"shift", "nnodes", "noccupied", "hashes", "keys", "values", "shared"}

Typed(t) ==
  /\ IsTable(t)
  /\ t.shift \in MinShift..MaxShift
  /\ t.nnodes \in Nat /\ t.noccupied \in Nat /\ t.shared \in BOOLEAN
  /\ t.hashes \in [Buckets(t) -> Nat]
  /\ t.keys \in [Buckets(t) -> Pointers \cup {Null}]
  /\ t.values \in [Buckets(t) -> Pointers \cup Vals \cup {Null}]

Real(t) == {i \in Buckets(t) : IsReal(t.hashes[i])}
Occupied(t) == {i \in Buckets(t) : t.hashes[i] # UNUSED}

(* What holds of a table during every call, before its resize too.             *)

(* A key is stored under its hash, in one bucket.                              *)
Sound(t) ==
  \A i \in Real(t) : t.keys[i] \in Pointers /\ t.hashes[i] = KeyHash(KeyOf(t.keys[i]))

Once(t) == \A i, j \in Real(t) : KeyOf(t.keys[i]) = KeyOf(t.keys[j]) => i = j

(* No unused bucket is probed before bucket i.                                 *)
Reached(t, h, i) ==
  \E n \in Probes(t) :
    Probe(t, h, n) = i /\ \A m \in 0..(n - 1) : t.hashes[Probe(t, h, m)] # UNUSED

Reachable(t) == \A i \in Real(t) : Reached(t, t.hashes[i], i)

Counted(t) == t.nnodes = Cardinality(Real(t)) /\ t.noccupied = Cardinality(Occupied(t))

SharesKeys(t) == t.shared => t.values = t.keys

TInv(t) == Typed(t) /\ Sound(t) /\ Once(t) /\ Reachable(t) /\ Counted(t) /\ SharesKeys(t)

HasRoom(t) == t.noccupied < Size(t.shift)

-----------------------------------------------------------------------------
(* What the type of a table says of its buckets.                               *)
LEMMA BucketFacts ==
  ASSUME NEW t, Typed(t)
  PROVE  /\ t.shift \in 0..MaxShift /\ Size(t.shift) \in Nat \ {0}
         /\ Probes(t) = Buckets(t) /\ Buckets(t) = 0..(Size(t.shift) - 1)
         /\ IsFiniteSet(Buckets(t)) /\ Cardinality(Buckets(t)) = Size(t.shift)
         /\ IsFiniteSet(Real(t)) /\ IsFiniteSet(Occupied(t))
         /\ Real(t) \subseteq Occupied(t) /\ Occupied(t) \subseteq Buckets(t)
<1>1. t.shift \in 0..MaxShift
  BY TableAssumption DEF Typed, MaxShift
<1>2. Size(t.shift) \in Nat \ {0}
  BY <1>1, Doubles
<1>3. Probes(t) = Buckets(t) /\ Buckets(t) = 0..(Size(t.shift) - 1)
  BY DEF Probes, Buckets
<1>4. IsFiniteSet(Buckets(t)) /\ Cardinality(Buckets(t)) = Size(t.shift)
  BY <1>2, <1>3, FS_Interval
<1>5. Real(t) \subseteq Occupied(t) /\ Occupied(t) \subseteq Buckets(t)
  BY DEF Real, Occupied, IsReal, UNUSED
<1>6. IsFiniteSet(Real(t)) /\ IsFiniteSet(Occupied(t))
  BY <1>4, <1>5, FS_Subset
<1> QED BY <1>1, <1>2, <1>3, <1>4, <1>5, <1>6

(* The hash a key is stored under is real.                                     *)
LEMMA HashTypes ==
  /\ \A c \in Keys : KeyHash(c) \in Nat /\ IsReal(KeyHash(c))
  /\ \A k \in Pointers : KeyOf(k) \in Keys /\ k # Null
BY TableAssumption DEF KeyHash, IsReal, Keys

(* With an unused bucket left, every search ends there at the latest.          *)
LEMMA SearchEnds ==
  ASSUME NEW t, TInv(t), HasRoom(t), NEW c \in Keys
  PROVE  /\ FirstEnd(t, c) \in Probes(t) /\ Ends(t, c, FirstEnd(t, c))
         /\ \A m \in 0..(FirstEnd(t, c) - 1) : ~Ends(t, c, m)
<1>1. Typed(t)
  BY DEF TInv
<1>2. PICK i \in Buckets(t) : t.hashes[i] = UNUSED
  <2>1. SUFFICES ASSUME Occupied(t) = Buckets(t) PROVE FALSE
    BY DEF Occupied
  <2>2. t.noccupied = Size(t.shift) /\ Size(t.shift) \in Nat
    BY <1>1, <2>1, BucketFacts DEF TInv, Counted
  <2> QED BY <2>2 DEF HasRoom
<1>3. KeyHash(c) \in Nat
  BY HashTypes
<1>4. t.shift \in 0..MaxShift
  BY <1>1, BucketFacts
<1>5. PICK n \in Probes(t) : Probe(t, KeyHash(c), n) = i
  BY <1>3, <1>4, ProbeFacts
<1>6. Ends(t, c, n)
  BY <1>2, <1>5 DEF Ends
<1> DEFINE E == {m \in Probes(t) : Ends(t, c, m)}
<1>7. E \in SUBSET Nat /\ E # {}
  BY <1>1, <1>5, <1>6, BucketFacts
<1>8. PICK e \in E : \A m \in E : e <= m
  <2> HIDE DEF E
  <2> QED BY <1>7, Least
<1>9. e \in Probes(t) /\ Ends(t, c, e) /\ \A m \in 0..(e - 1) : ~Ends(t, c, m)
  <2>1. e \in Probes(t) /\ Ends(t, c, e)
    BY <1>8
  <2>2. \A m \in 0..(e - 1) : m \in Probes(t) /\ ~(e <= m)
    BY <1>1, <2>1, BucketFacts
  <2> QED BY <1>8, <2>1, <2>2
<1>10. \E m \in Probes(t) : Ends(t, c, m) /\ \A l \in 0..(m - 1) : ~Ends(t, c, l)
  BY <1>9
<1> QED BY <1>10 DEF FirstEnd

(* What hev_hash_table_lookup_node returns.                                    *)
Found(t, c, i) ==
  /\ i \in Buckets(t) /\ Reached(t, KeyHash(c), i)
  /\ IF IsReal(t.hashes[i]) THEN KeyOf(t.keys[i]) = c
     ELSE \A j \in Real(t) : KeyOf(t.keys[j]) # c

LEMMA LookupFound ==
  ASSUME NEW t, TInv(t), HasRoom(t), NEW c \in Keys
  PROVE  Found(t, c, LookupNode(t, c))
<1> DEFINE h == KeyHash(c)
           end == FirstEnd(t, c)
           at(n) == Probe(t, h, n)
           tombs == {n \in 0..(end - 1) : t.hashes[at(n)] = TOMBSTONE}
<1>1. end \in Probes(t) /\ Ends(t, c, end) /\ \A m \in 0..(end - 1) : ~Ends(t, c, m)
  BY SearchEnds
<1>2. Typed(t) /\ h \in Nat /\ IsReal(h)
  BY HashTypes DEF TInv
<1>3. Probes(t) \subseteq Nat /\ t.shift \in 0..MaxShift /\ Buckets(t) = Probes(t)
  BY <1>2, BucketFacts
<1>4. \A n \in Nat : at(n) \in Buckets(t)
  BY <1>2, <1>3, ProbeFacts
<1> HIDE DEF end, h
<1>5. \A m \in 0..(end - 1) : t.hashes[at(m)] # UNUSED /\ ~Holds(t, c, at(m)) /\ m \in Probes(t)
  <2> TAKE m \in 0..(end - 1)
  <2>1. m \in Probes(t)
    BY <1>1, <1>2, BucketFacts
  <2>2. ~Ends(t, c, m)
    BY <1>1
  <2> QED BY <2>1, <2>2 DEF Ends, h
<1>6. \A n \in 0..end : Reached(t, h, at(n)) /\ n \in Nat
  <2> TAKE n \in 0..end
  <2>1. n \in Probes(t) /\ n \in Nat
    BY <1>1, <1>2, <1>3, BucketFacts
  <2>2. \A m \in 0..(n - 1) : m \in 0..(end - 1)
    BY <1>1, <1>3, <2>1
  <2> QED BY <1>5, <2>1, <2>2 DEF Reached
<1>7. end \in 0..end /\ end \in Nat
  BY <1>1, <1>3
<1>8. CASE Holds(t, c, at(end))
  <2>1. t.hashes[at(end)] = h /\ t.hashes[at(end)] # UNUSED /\ KeyOf(t.keys[at(end)]) = c
    BY <1>2, <1>8 DEF Holds, UNUSED, IsReal, h
  <2>2. LookupNode(t, c) = at(end)
    BY <2>1 DEF LookupNode, end, h
  <2> QED BY <1>2, <1>4, <1>6, <1>7, <2>1, <2>2 DEF Found, h
<1>9. CASE t.hashes[at(end)] = UNUSED
  <2>1. \A j \in Real(t) : KeyOf(t.keys[j]) # c
    <3> SUFFICES ASSUME NEW j \in Real(t), KeyOf(t.keys[j]) = c PROVE FALSE
      OBVIOUS
    <3>1. j \in Buckets(t) /\ t.hashes[j] = h /\ t.keys[j] \in Pointers
      BY DEF Real, TInv, Sound, h
    <3>2. Holds(t, c, j)
      BY <3>1, HashTypes DEF Holds, h
    <3>3. Reached(t, h, j)
      BY <3>1 DEF TInv, Reachable
    <3>4. PICK n \in Probes(t) :
            at(n) = j /\ \A m \in 0..(n - 1) : t.hashes[at(m)] # UNUSED
      BY <3>3 DEF Reached
    <3>5. n \in Nat
      BY <1>3
    <3>6. CASE n < end
      BY <1>5, <1>7, <3>2, <3>4, <3>5, <3>6
    <3>7. CASE n = end
      BY <1>2, <1>9, <3>1, <3>4, <3>7 DEF IsReal, UNUSED
    <3>8. CASE n > end
      BY <1>7, <1>9, <3>4, <3>5, <3>8
    <3> QED BY <1>7, <3>5, <3>6, <3>7, <3>8
  <2>2. CASE tombs = {}
    <3>1. LookupNode(t, c) = at(end)
      BY <2>2 DEF LookupNode, end, h
    <3> QED BY <1>4, <1>6, <1>7, <1>9, <2>1, <3>1 DEF Found, IsReal, UNUSED, h
  <2>3. CASE tombs # {}
    <3> DEFINE first == CHOOSE n \in tombs : \A m \in tombs : n <= m
    <3>1. tombs \in SUBSET Nat
      BY <1>6, <1>7
    <3>2. first \in tombs
      <4> HIDE DEF tombs
      <4>1. \E n \in tombs : \A m \in tombs : n <= m
        BY <2>3, <3>1, Least
      <4> QED BY <4>1
    <3> HIDE DEF first
    <3>3. first \in 0..end /\ t.hashes[at(first)] = TOMBSTONE /\ first \in Nat
      BY <1>7, <3>2
    <3>4. LookupNode(t, c) = at(first)
      BY <1>9, <2>3 DEF LookupNode, end, h, first
    <3> QED BY <1>4, <1>6, <2>1, <3>3, <3>4 DEF Found, IsReal, TOMBSTONE, h
  <2> QED BY <2>2, <2>3
<1> QED BY <1>1, <1>8, <1>9 DEF Ends, h

-----------------------------------------------------------------------------
(* The entries of a table: the map it stands for.                              *)
Content(t) == {[key |-> t.keys[i], value |-> t.values[i]] : i \in Real(t)}

(* The probes of a table depend on its shift only.                             *)
LEMMA SameShift ==
  ASSUME NEW t, NEW w, w.shift = t.shift
  PROVE  /\ Buckets(w) = Buckets(t) /\ Probes(w) = Probes(t)
         /\ \A h, n : Probe(w, h, n) = Probe(t, h, n)
BY DEF Buckets, Probes, Probe

(* A bucket stays within reach as long as no used one becomes unused.          *)
LEMMA ReachedStays ==
  ASSUME NEW t, NEW w, w.shift = t.shift, Typed(t),
         \A i \in Buckets(t) : t.hashes[i] # UNUSED => w.hashes[i] # UNUSED,
         NEW h \in Nat, NEW i, Reached(t, h, i)
  PROVE  Reached(w, h, i)
<1>1. PICK n \in Probes(t) :
        Probe(t, h, n) = i /\ \A m \in 0..(n - 1) : t.hashes[Probe(t, h, m)] # UNUSED
  BY DEF Reached
<1>2. \A m \in 0..(n - 1) : m \in Nat
  OBVIOUS
<1>3. \A m \in 0..(n - 1) : Probe(t, h, m) \in Buckets(t)
  BY <1>2, BucketFacts, ProbeFacts
<1>4. \A m \in 0..(n - 1) : w.hashes[Probe(t, h, m)] # UNUSED
  BY <1>1, <1>3
<1> QED BY <1>1, <1>4, SameShift DEF Reached

(* A table has at most one bucket for every key.                               *)
LEMMA NodesBound ==
  ASSUME NEW t, TInv(t)
  PROVE  t.nnodes \in Nat /\ 2 * t.nnodes < Size(MaxShift)
<1> DEFINE f == [i \in Real(t) |-> KeyOf(t.keys[i])]
<1>1. f \in [Real(t) -> Keys]
  BY HashTypes DEF TInv, Sound
<1>2. f \in Injection(Real(t), Keys)
  BY <1>1 DEF TInv, Once, Injection, IsInjective
<1>3. Cardinality(Real(t)) <= Cardinality(Keys)
  BY <1>2, TableAssumption, FS_Injection
<1>4. t.nnodes \in Nat /\ t.nnodes = Cardinality(Real(t)) /\ Cardinality(Keys) \in Nat
  BY TableAssumption, FS_CardinalityType DEF TInv, Typed, Counted
<1>5. 2 * Cardinality(Keys) < Size(MaxShift) /\ Size(MaxShift) \in Nat
  BY TableAssumption, Doubles DEF Size, MaxShift
<1> QED BY <1>3, <1>4, <1>5

-----------------------------------------------------------------------------
(* Field by field, what hev_hash_table_insert_node writes.                     *)
IsWritten(w, t, i, k, v, keep) ==
  LET exists == IsReal(t.hashes[i]) IN
  /\ IsTable(w) /\ w.shift = t.shift
  /\ w.hashes = [t.hashes EXCEPT ![i] = IF exists THEN @ ELSE KeyHash(KeyOf(k))]
  /\ w.keys = IF exists /\ ~keep THEN t.keys ELSE [t.keys EXCEPT ![i] = k]
  /\ w.shared = (t.shared /\ w.keys[i] = v)
  /\ w.values = [(IF t.shared THEN w.keys ELSE t.values) EXCEPT ![i] = v]
  /\ w.nnodes = IF exists THEN t.nnodes ELSE t.nnodes + 1
  /\ w.noccupied = IF t.hashes[i] = UNUSED THEN t.noccupied + 1 ELSE t.noccupied

LEMMA WrittenParts ==
  ASSUME NEW t, Typed(t), NEW i, NEW k, NEW v, NEW keep
  PROVE  IsWritten(Written(t, i, k, v, keep), t, i, k, v, keep)
<1> DEFINE w == Written(t, i, k, v, keep)
           exists == IsReal(t.hashes[i])
           hashes == [t.hashes EXCEPT ![i] = IF exists THEN @ ELSE KeyHash(KeyOf(k))]
           keys == IF exists /\ ~keep THEN t.keys ELSE [t.keys EXCEPT ![i] = k]
           values == [(IF t.shared THEN keys ELSE t.values) EXCEPT ![i] = v]
           shared == t.shared /\ keys[i] = v
           nnodes == IF exists THEN t.nnodes ELSE t.nnodes + 1
           noccupied == IF t.hashes[i] = UNUSED THEN t.noccupied + 1 ELSE t.noccupied
<1>1. w = [t EXCEPT !.hashes = hashes, !.keys = keys, !.shared = shared, !.values = values,
                    !.nnodes = nnodes, !.noccupied = noccupied]
  BY Zenon DEF Written
<1> HIDE DEF w, hashes, keys, values, shared, nnodes, noccupied
<1>2. /\ IsTable(w) /\ w.shift = t.shift /\ w.nnodes = nnodes /\ w.noccupied = noccupied
      /\ w.hashes = hashes /\ w.keys = keys /\ w.values = values /\ w.shared = shared
  BY <1>1 DEF Typed, IsTable
<1> QED BY <1>2, Zenon DEF IsWritten, w, hashes, keys, values, shared, nnodes, noccupied

(* hev_hash_table_insert_node at the bucket of a search, before any resize:    *)
(* the entry of the key is the new one, all others stay.                       *)
LEMMA WrittenFacts ==
  ASSUME NEW t, TInv(t), NEW k \in Pointers, NEW v \in Pointers \cup Vals, NEW keep \in BOOLEAN,
         NEW i, Found(t, KeyOf(k), i)
  PROVE  LET w == Written(t, i, k, v, keep)
             exists == IsReal(t.hashes[i]) IN
         /\ TInv(w) /\ w.shift = t.shift
         /\ t.hashes[i] # UNUSED => w.noccupied = t.noccupied
         /\ Content(w) = {e \in Content(t) : KeyOf(e.key) # KeyOf(k)}
                           \cup {[key |-> IF exists /\ ~keep THEN t.keys[i] ELSE k, value |-> v]}
<1> DEFINE w == Written(t, i, k, v, keep)
           exists == IsReal(t.hashes[i])
<1>1. Typed(t) /\ i \in Buckets(t)
  BY DEF TInv, Found
<1>2. /\ IsTable(w) /\ w.shift = t.shift
      /\ w.hashes = [t.hashes EXCEPT ![i] = IF exists THEN @ ELSE KeyHash(KeyOf(k))]
      /\ w.keys = IF exists /\ ~keep THEN t.keys ELSE [t.keys EXCEPT ![i] = k]
      /\ w.shared = (t.shared /\ w.keys[i] = v)
      /\ w.values = [(IF t.shared THEN w.keys ELSE t.values) EXCEPT ![i] = v]
      /\ w.nnodes = IF exists THEN t.nnodes ELSE t.nnodes + 1
      /\ w.noccupied = IF t.hashes[i] = UNUSED THEN t.noccupied + 1 ELSE t.noccupied
  <2>1. IsWritten(w, t, i, k, v, keep)
    BY <1>1, WrittenParts
  <2> QED BY <2>1 DEF IsWritten
<1> HIDE DEF w
<1>3. KeyOf(k) \in Keys /\ k # Null /\ KeyHash(KeyOf(k)) \in Nat /\ IsReal(KeyHash(KeyOf(k)))
  BY HashTypes
<1>4. Buckets(w) = Buckets(t)
  BY <1>2, SameShift
<1>5. Typed(w)
  BY <1>1, <1>2, <1>3, <1>4 DEF Typed
<1>6. /\ IsReal(w.hashes[i]) /\ KeyOf(w.keys[i]) = KeyOf(k) /\ w.keys[i] \in Pointers
      /\ w.hashes[i] = KeyHash(KeyOf(k)) /\ w.values[i] = v
      /\ w.keys[i] = IF exists /\ ~keep THEN t.keys[i] ELSE k
  <2>1. exists => i \in Real(t) /\ KeyOf(t.keys[i]) = KeyOf(k)
    BY <1>1 DEF Found, Real
  <2>2. exists => t.keys[i] \in Pointers /\ t.hashes[i] = KeyHash(KeyOf(k))
    BY <2>1 DEF TInv, Sound
  <2> QED BY <1>1, <1>2, <1>3, <2>1, <2>2 DEF Typed
<1>7. \A j \in Buckets(t) \ {i} :
        w.hashes[j] = t.hashes[j] /\ w.keys[j] = t.keys[j] /\ w.values[j] = t.values[j]
  BY <1>1, <1>2 DEF Typed, TInv, SharesKeys
<1>8. Real(w) = Real(t) \cup {i} /\ Occupied(w) = Occupied(t) \cup {i}
  BY <1>1, <1>4, <1>6, <1>7 DEF Real, Occupied, IsReal, UNUSED
<1>9. \A j \in Real(t) \ {i} : KeyOf(t.keys[j]) # KeyOf(k)
  <2>1. CASE exists
    BY <1>1, <2>1 DEF TInv, Once, Found, Real
  <2>2. CASE ~exists
    BY <2>2 DEF Found
  <2> QED BY <2>1, <2>2
<1>10. Sound(w)
  BY <1>6, <1>7, <1>8 DEF TInv, Sound, Real
<1>11. Once(w)
  BY <1>6, <1>7, <1>8, <1>9 DEF TInv, Once, Real
<1>12. Reachable(w)
  <2>1. \A h \in Nat : \A j : Reached(t, h, j) => Reached(w, h, j)
    <3>1. \A j \in Buckets(t) : t.hashes[j] # UNUSED => w.hashes[j] # UNUSED
      BY <1>6, <1>7 DEF UNUSED, IsReal
    <3> QED BY <1>1, <1>2, <3>1, ReachedStays
  <2>2. Reached(w, w.hashes[i], i)
    BY <1>3, <1>6, <2>1 DEF Found
  <2>3. \A j \in Real(t) \ {i} : Reached(w, w.hashes[j], j)
    BY <1>1, <1>7, <2>1 DEF TInv, Reachable, Real, Typed
  <2> QED BY <1>8, <2>2, <2>3 DEF Reachable
<1>13. Counted(w)
  <2>1. IsFiniteSet(Real(t)) /\ IsFiniteSet(Occupied(t))
    BY <1>1, BucketFacts
  <2>2. exists <=> i \in Real(t)
    BY <1>1 DEF Real
  <2>3. t.hashes[i] # UNUSED <=> i \in Occupied(t)
    BY <1>1 DEF Occupied
  <2>4. Cardinality(Real(w)) = IF exists THEN Cardinality(Real(t)) ELSE Cardinality(Real(t)) + 1
    BY <1>8, <2>1, <2>2, FS_AddElement
  <2>5. Cardinality(Occupied(w)) = IF t.hashes[i] # UNUSED THEN Cardinality(Occupied(t))
                                   ELSE Cardinality(Occupied(t)) + 1
    BY <1>8, <2>1, <2>3, FS_AddElement
  <2> QED BY <1>2, <2>4, <2>5 DEF TInv, Counted
<1>14. SharesKeys(w)
  <2> SUFFICES ASSUME w.shared PROVE w.values = w.keys
    BY DEF SharesKeys
  <2>1. t.shared /\ w.keys[i] = v
    BY <1>2
  <2>2. w.values = [w.keys EXCEPT ![i] = v]
    BY <1>2, <2>1
  <2> QED BY <1>1, <1>4, <1>5, <2>1, <2>2 DEF Typed
<1>15. Content(w) = {e \in Content(t) : KeyOf(e.key) # KeyOf(k)}
                      \cup {[key |-> IF exists /\ ~keep THEN t.keys[i] ELSE k, value |-> v]}
  <2> DEFINE entry(j) == [key |-> t.keys[j], value |-> t.values[j]]
  <2>1. Content(w) = {entry(j) : j \in Real(t) \ {i}} \cup {[key |-> w.keys[i], value |-> v]}
    BY <1>6, <1>7, <1>8 DEF Content, Real
  <2>2. {e \in Content(t) : KeyOf(e.key) # KeyOf(k)} = {entry(j) : j \in Real(t) \ {i}}
    <3>1. i \in Real(t) => KeyOf(t.keys[i]) = KeyOf(k)
      BY DEF Real, Found
    <3> QED BY <1>9, <3>1 DEF Content
  <2> QED BY <1>6, <2>1, <2>2
<1>16. TInv(w)
  BY <1>5, <1>10, <1>11, <1>12, <1>13, <1>14 DEF TInv
<1> QED BY <1>2, <1>15, <1>16 DEF w

-----------------------------------------------------------------------------
(* hev_hash_table_remove_node for the buckets of I: the other entries stay.    *)
LEMMA RemovedFacts ==
  ASSUME NEW t, TInv(t), NEW I \in SUBSET Real(t)
  PROVE  LET w == RemoveNodes(t, I) IN
         /\ TInv(w) /\ w.shift = t.shift /\ w.noccupied = t.noccupied
         /\ Content(w) = {[key |-> t.keys[i], value |-> t.values[i]] : i \in Real(t) \ I}
<1> DEFINE w == RemoveNodes(t, I)
<1>1. Typed(t)
  BY DEF TInv
<1>2. /\ IsTable(w) /\ w.shift = t.shift /\ w.noccupied = t.noccupied /\ w.shared = t.shared
      /\ w.hashes = [i \in Buckets(t) |-> IF i \in I THEN TOMBSTONE ELSE t.hashes[i]]
      /\ w.keys = [i \in Buckets(t) |-> IF i \in I THEN Null ELSE t.keys[i]]
      /\ w.values = [i \in Buckets(t) |-> IF i \in I THEN Null ELSE t.values[i]]
      /\ w.nnodes = t.nnodes - Cardinality(I)
  BY <1>1 DEF RemoveNodes, Typed, IsTable
<1> HIDE DEF w
<1>3. Buckets(w) = Buckets(t)
  BY <1>2, SameShift
<1>4. IsFiniteSet(Real(t)) /\ IsFiniteSet(I) /\ Real(t) \subseteq Buckets(t)
  BY <1>1, BucketFacts, FS_Subset
<1>5. Real(w) = Real(t) \ I /\ Occupied(w) = Occupied(t)
  BY <1>2, <1>3, <1>4 DEF Real, Occupied, IsReal, UNUSED, TOMBSTONE
<1>6. Cardinality(Real(w)) = Cardinality(Real(t)) - Cardinality(I)
  <2>1. Real(t) \cap I = I
    OBVIOUS
  <2> QED BY <1>4, <1>5, <2>1, FS_Difference
<1>7. w.nnodes \in Nat /\ Counted(w)
  <2>1. Cardinality(Real(w)) \in Nat
    BY <1>4, <1>5, FS_CardinalityType, FS_Difference
  <2> QED BY <1>2, <1>5, <1>6, <2>1 DEF TInv, Counted
<1>8. Typed(w)
  BY <1>1, <1>2, <1>3, <1>7 DEF Typed, TOMBSTONE
<1>9. \A j \in Real(w) :
        w.hashes[j] = t.hashes[j] /\ w.keys[j] = t.keys[j] /\ w.values[j] = t.values[j]
  BY <1>2, <1>4, <1>5
<1>10. Sound(w) /\ Once(w)
  BY <1>5, <1>9 DEF TInv, Sound, Once
<1>11. Reachable(w)
  <2>1. \A j \in Buckets(t) : t.hashes[j] # UNUSED => w.hashes[j] # UNUSED
    BY <1>2 DEF UNUSED, TOMBSTONE
  <2>2. \A h \in Nat : \A j : Reached(t, h, j) => Reached(w, h, j)
    BY <1>1, <1>2, <2>1, ReachedStays
  <2>3. \A j \in Real(t) : t.hashes[j] \in Nat /\ Reached(t, t.hashes[j], j)
    BY <1>1, <1>4 DEF TInv, Reachable, Typed
  <2> QED BY <1>5, <1>9, <2>2, <2>3 DEF Reachable
<1>12. SharesKeys(w)
  BY <1>2 DEF SharesKeys, TInv
<1>13. Content(w) = {[key |-> t.keys[i], value |-> t.values[i]] : i \in Real(t) \ I}
  BY <1>5, <1>9 DEF Content
<1>14. TInv(w)
  BY <1>7, <1>8, <1>10, <1>11, <1>12 DEF TInv
<1> QED BY <1>2, <1>13, <1>14 DEF w

(* A table with empty arrays.                                                  *)
LEMMA EmptyFacts ==
  ASSUME NEW s \in MinShift..MaxShift, NEW b \in BOOLEAN
  PROVE  LET w == [EmptyTable(s) EXCEPT !.shared = b] IN
         /\ TInv(w) /\ w.shift = s /\ w.nnodes = 0 /\ w.noccupied = 0 /\ w.shared = b
         /\ \A i \in Buckets(w) : w.hashes[i] = UNUSED /\ w.keys[i] = Null /\ w.values[i] = Null
         /\ Content(w) = {}
<1> DEFINE w == [EmptyTable(s) EXCEPT !.shared = b]
<1>1. /\ IsTable(w) /\ w.shift = s /\ w.nnodes = 0 /\ w.noccupied = 0 /\ w.shared = b
      /\ w.hashes = [i \in 0..(Size(s) - 1) |-> UNUSED]
      /\ w.keys = [i \in 0..(Size(s) - 1) |-> Null]
      /\ w.values = [i \in 0..(Size(s) - 1) |-> Null]
  BY DEF EmptyTable, IsTable
<1> HIDE DEF w
<1>2. Buckets(w) = 0..(Size(s) - 1)
  BY <1>1 DEF Buckets
<1>3. Typed(w)
  BY <1>1, <1>2 DEF Typed, UNUSED
<1>4. Real(w) = {} /\ Occupied(w) = {}
  BY <1>1, <1>2 DEF Real, Occupied, IsReal, UNUSED
<1>5. TInv(w) /\ Content(w) = {}
  BY <1>1, <1>3, <1>4, FS_EmptySet
     DEF TInv, Sound, Once, Reachable, Counted, SharesKeys, Content
<1>6. \A i \in Buckets(w) : w.hashes[i] = UNUSED /\ w.keys[i] = Null /\ w.values[i] = Null
  BY <1>1, <1>2
<1> QED BY <1>1, <1>5, <1>6 DEF w

-----------------------------------------------------------------------------
(* A larger shift is a larger size.                                            *)
LEMMA SizesGrow ==
  \A b \in 0..MaxShift : \A a \in 0..b : Size(a) <= Size(b)
<1> DEFINE S == {b \in 0..MaxShift : \A a \in 0..b : Size(a) <= Size(b)}
<1>1. MaxShift \in Nat
  BY DEF MaxShift
<1>2. 0 \in S
  <2>1. Size(0) \in Nat
    BY <1>1, Doubles
  <2> QED BY <1>1, <2>1
<1>3. ASSUME NEW n \in 0..(MaxShift - 1), n \in S PROVE n + 1 \in S
  <2>1. n \in 0..MaxShift /\ n + 1 \in 0..MaxShift /\ n + 1 > 0
    BY <1>1
  <2>2. Size(n + 1) = 2 * Size(n) /\ Size(n) \in Nat /\ Size(n + 1) \in Nat
    BY <2>1, Doubles
  <2>3. ASSUME NEW a \in 0..(n + 1) PROVE Size(a) <= Size(n + 1)
    <3>1. CASE a = n + 1
      BY <2>2, <3>1
    <3>2. CASE a \in 0..n
      <4>1. Size(a) <= Size(n) /\ Size(a) \in Nat
        BY <1>1, <1>3, <2>1, <3>2, Doubles
      <4> QED BY <2>2, <4>1
    <3> QED BY <2>1, <2>3, <3>1, <3>2
  <2> QED BY <2>1, <2>3
<1> HIDE DEF S
<1>4. \A b \in 0..MaxShift : b \in S
  BY <1>1, <1>2, <1>3, Upwards
<1> QED BY <1>4 DEF S

(* get_closest_shift and set_shift_from_size leave room for the entries.       *)
LEMMA ShiftFacts ==
  ASSUME NEW n \in Nat, n < Size(MaxShift)
  PROVE  ShiftFor(n) \in MinShift..MaxShift /\ n < Size(ShiftFor(n))
<1> DEFINE T == {s \in 0..MaxShift : n < Size(s)}
           c == ClosestShift(n)
<1>1. MaxShift \in Nat /\ MinShift \in 0..MaxShift
  BY TableAssumption DEF MaxShift
<1>2. T \in SUBSET Nat /\ T # {}
  BY <1>1
<1>3. PICK i \in T : \A m \in T : i <= m
  <2> HIDE DEF T
  <2> QED BY <1>2, Least
<1>4. i > 0 => n >= Size(i - 1)
  <2> SUFFICES ASSUME i > 0 PROVE n >= Size(i - 1)
    OBVIOUS
  <2>1. i - 1 \in 0..MaxShift /\ ~(i <= i - 1)
    BY <1>1, <1>3
  <2>2. ~(n < Size(i - 1)) /\ Size(i - 1) \in Nat
    BY <1>3, <2>1, Doubles
  <2> QED BY <2>2
<1>5. c \in 0..MaxShift /\ n < Size(c)
  BY <1>3, <1>4 DEF ClosestShift
<1>6. CASE c > MinShift
  BY <1>1, <1>5, <1>6 DEF ShiftFor
<1>7. CASE ~(c > MinShift)
  <2>1. c \in 0..MinShift /\ Size(c) \in Nat /\ Size(MinShift) \in Nat
    BY <1>1, <1>5, <1>7, Doubles
  <2>2. Size(c) <= Size(MinShift)
    BY <1>1, <2>1, SizesGrow
  <2>3. ShiftFor(n) = MinShift
    BY <1>7 DEF ShiftFor
  <2> HIDE DEF c
  <2> QED BY <1>1, <1>5, <2>1, <2>2, <2>3
<1> QED BY <1>6, <1>7

-----------------------------------------------------------------------------
(* The recursion that moves the buckets is well defined.                       *)
MovesTo(f, t, new, n) ==
  f = [m \in 0..n |-> IF m = 0 THEN new ELSE Moved(f[m - 1], t, m - 1)]

LEMMA MovesExist ==
  ASSUME NEW t, NEW new, NEW N \in Nat
  PROVE  \E f : MovesTo(f, t, new, N)
<1> DEFINE S == {n \in 0..N : \E f : MovesTo(f, t, new, n)}
<1>1. 0 \in S
  <2> DEFINE f == [m \in 0..0 |-> new]
  <2>1. MovesTo(f, t, new, 0)
    BY DEF MovesTo
  <2> QED BY <2>1
<1>2. ASSUME NEW n \in 0..(N - 1), n \in S PROVE n + 1 \in S
  <2>1. PICK f : MovesTo(f, t, new, n)
    BY <1>2
  <2> DEFINE last == Moved(f[n], t, n)
             g == [m \in 0..(n + 1) |-> IF m = n + 1 THEN last ELSE f[m]]
  <2>2. \A m \in 0..n : g[m] = f[m]
    OBVIOUS
  <2>3. g[n + 1] = last
    OBVIOUS
  <2>4. g[n] = f[n]
    BY <2>2
  <2>5. \A m \in 0..(n + 1) : g[m] = IF m = 0 THEN new ELSE Moved(g[m - 1], t, m - 1)
    <3> TAKE m \in 0..(n + 1)
    <3>1. CASE m = 0
      <4>1. m \in 0..n
        BY <3>1
      <4>2. g[m] = f[m] /\ f[m] = new
        BY <2>1, <2>2, <3>1, <4>1 DEF MovesTo
      <4> QED BY <3>1, <4>2
    <3>2. CASE m = n + 1
      <4>1. m - 1 = n /\ m # 0
        BY <3>2
      <4>2. g[m] = Moved(g[m - 1], t, m - 1)
        BY <2>3, <2>4, <3>2, <4>1
      <4> QED BY <4>1, <4>2
    <3>3. CASE m \in 1..n
      <4>1. m \in 0..n /\ m - 1 \in 0..n /\ m # 0
        BY <3>3
      <4>2. f[m] = Moved(f[m - 1], t, m - 1)
        BY <2>1, <4>1 DEF MovesTo
      <4>3. g[m] = Moved(g[m - 1], t, m - 1)
        BY <2>2, <4>1, <4>2
      <4> QED BY <4>1, <4>3
    <3> QED BY <3>1, <3>2, <3>3
  <2>6. g = [m \in 0..(n + 1) |-> g[m]]
    OBVIOUS
  <2> HIDE DEF g
  <2>7. MovesTo(g, t, new, n + 1)
    BY <2>5, <2>6 DEF MovesTo
  <2> QED BY <2>7
<1> HIDE DEF S
<1>3. \A n \in 0..N : n \in S
  BY <1>1, <1>2, Upwards
<1> QED BY <1>3 DEF S

(* Moves(t, new) goes from bucket to bucket.                                   *)
LEMMA MovesSteps ==
  ASSUME NEW t, Typed(t), NEW new
  PROVE  /\ Moves(t, new)[0] = new
         /\ \A n \in 0..(Size(t.shift) - 1) : Moves(t, new)[n + 1] = Moved(Moves(t, new)[n], t, n)
<1> DEFINE N == Size(t.shift)
<1>1. N \in Nat
  BY BucketFacts
<1>2. PICK f : MovesTo(f, t, new, N)
  BY <1>1, MovesExist
<1>3. MovesTo(Moves(t, new), t, new, N)
  BY <1>2 DEF Moves, MovesTo
<1> DEFINE g == Moves(t, new)
<1> HIDE DEF g
<1>4. g = [m \in 0..N |-> IF m = 0 THEN new ELSE Moved(g[m - 1], t, m - 1)]
  BY <1>3 DEF MovesTo, g
<1>5. g[0] = new
  BY <1>1, <1>4
<1>6. ASSUME NEW n \in 0..(N - 1) PROVE g[n + 1] = Moved(g[n], t, n)
  <2>1. n + 1 \in 0..N /\ n + 1 # 0 /\ (n + 1) - 1 = n
    BY <1>1
  <2> HIDE DEF N
  <2> QED BY <1>4, <2>1
<1> QED BY <1>5, <1>6 DEF g

-----------------------------------------------------------------------------
EntryAt(t, i) == [key |-> t.keys[i], value |-> t.values[i]]
Before(t, n) == {i \in Real(t) : i < n}

(* The new table w when the first n buckets of t have moved.                   *)
MovedInv(w, t, n) ==
  /\ Typed(w) /\ Sound(w) /\ Once(w) /\ Reachable(w) /\ SharesKeys(w)
  /\ w.shift = ShiftFor(2 * t.nnodes) /\ w.shared = t.shared
  /\ w.nnodes = t.nnodes /\ w.noccupied = t.nnodes
  /\ Occupied(w) = Real(w)
  /\ Content(w) = {EntryAt(t, i) : i \in Before(t, n)}
  /\ Cardinality(Real(w)) = Cardinality(Before(t, n))

(* Nothing has moved yet.                                                      *)
LEMMA NewTableParts ==
  ASSUME NEW t, Typed(t), TInv(t)
  PROVE  MovedInv(NewTable(t), t, 0)
<1> DEFINE s == ShiftFor(2 * t.nnodes)
           w == NewTable(t)
<1>1. t.nnodes \in Nat /\ t.shared \in BOOLEAN
  BY DEF Typed
<1>2. s \in MinShift..MaxShift
  BY <1>1, NodesBound, ShiftFacts
<1> HIDE DEF s
<1>3. /\ IsTable(w) /\ w.shift = s /\ w.nnodes = t.nnodes /\ w.noccupied = t.nnodes
      /\ w.shared = t.shared
      /\ w.hashes = [i \in 0..(Size(s) - 1) |-> UNUSED]
      /\ w.keys = [i \in 0..(Size(s) - 1) |-> Null]
      /\ w.values = [i \in 0..(Size(s) - 1) |-> Null]
  BY DEF NewTable, OccupiedAfter, EmptyTable, IsTable, s
<1> HIDE DEF w
<1>4. Buckets(w) = 0..(Size(s) - 1)
  BY <1>3 DEF Buckets
<1>5. Typed(w)
  BY <1>1, <1>2, <1>3, <1>4 DEF Typed, UNUSED
<1>6. Real(w) = {} /\ Occupied(w) = {}
  BY <1>3, <1>4 DEF Real, Occupied, IsReal, UNUSED
<1>7. Before(t, 0) = {}
  <2>1. Real(t) \subseteq Nat
    BY BucketFacts
  <2> QED BY <2>1 DEF Before
<1>8. Sound(w) /\ Once(w) /\ Reachable(w) /\ SharesKeys(w)
  BY <1>3, <1>6 DEF Sound, Once, Reachable, SharesKeys
<1>9. Content(w) = {EntryAt(t, i) : i \in Before(t, 0)}
  BY <1>6, <1>7 DEF Content
<1> QED BY <1>3, <1>5, <1>6, <1>7, <1>8, <1>9 DEF MovedInv, s, w

(* One bucket moves: there is a free one on its way, because the new table has *)
(* more buckets than there are entries.                                        *)
LEMMA OneMove ==
  ASSUME NEW t, TInv(t), NEW n \in Buckets(t), NEW new, MovedInv(new, t, n)
  PROVE  MovedInv(Moved(new, t, n), t, n + 1)
<1>1. /\ Typed(t) /\ Typed(new) /\ n \in Nat /\ Real(t) \subseteq Nat
      /\ IsFiniteSet(Real(t)) /\ IsFiniteSet(Real(new)) /\ new.shift \in 0..MaxShift
      /\ Size(new.shift) \in Nat /\ Probes(new) = Buckets(new) /\ Probes(new) \subseteq Nat
  BY BucketFacts DEF TInv, MovedInv
<1>2. CASE ~IsReal(t.hashes[n])
  <2>1. Before(t, n + 1) = Before(t, n)
    BY <1>1, <1>2 DEF Before, Real
  <2>2. Moved(new, t, n) = new
    BY <1>2 DEF Moved
  <2> QED BY <2>1, <2>2 DEF MovedInv
<1>3. CASE IsReal(t.hashes[n])
  <2> DEFINE h == t.hashes[n]
             free == {m \in Probes(new) : new.hashes[Probe(new, h, m)] = UNUSED}
             first == CHOOSE m \in free : \A l \in free : m <= l
             j == Probe(new, h, first)
             w == Moved(new, t, n)
  <2>1. /\ n \in Real(t) /\ h \in Nat /\ h # UNUSED /\ t.keys[n] \in Pointers
        /\ h = KeyHash(KeyOf(t.keys[n])) /\ t.values[n] \in Pointers \cup Vals \cup {Null}
    BY <1>1, <1>3 DEF TInv, Sound, Real, Typed, IsReal, UNUSED
  <2>2. /\ Before(t, n + 1) = Before(t, n) \cup {n} /\ n \notin Before(t, n)
        /\ IsFiniteSet(Before(t, n))
    <3>1. Before(t, n) \subseteq Real(t)
      BY DEF Before
    <3>2. IsFiniteSet(Before(t, n))
      BY <1>1, <3>1, FS_Subset
    <3> QED BY <1>1, <2>1, <3>2 DEF Before
  <2>3. Cardinality(Before(t, n + 1)) = Cardinality(Before(t, n)) + 1
    BY <2>2, FS_AddElement
  <2>4. PICK b \in Buckets(new) : new.hashes[b] = UNUSED
    <3> SUFFICES ASSUME Occupied(new) = Buckets(new) PROVE FALSE
      BY DEF Occupied
    <3>1. Before(t, n + 1) \subseteq Real(t)
      BY DEF Before
    <3>2. Cardinality(Before(t, n + 1)) <= t.nnodes /\ Cardinality(Before(t, n)) \in Nat
      BY <1>1, <2>2, <3>1, FS_Subset, FS_CardinalityType DEF TInv, Counted
    <3>3. 2 * t.nnodes < Size(new.shift) /\ t.nnodes \in Nat
      BY NodesBound, ShiftFacts DEF MovedInv
    <3>4. Cardinality(Real(new)) = Size(new.shift)
      BY <1>1, BucketFacts DEF MovedInv
    <3>5. Cardinality(Real(new)) = Cardinality(Before(t, n))
      BY DEF MovedInv
    <3> QED BY <1>1, <2>3, <3>2, <3>3, <3>4, <3>5
  <2> HIDE DEF h
  <2>5. first \in free /\ \A l \in free : first <= l
    <3>1. \E m \in Probes(new) : Probe(new, h, m) = b
      BY <1>1, <2>1, <2>4, ProbeFacts
    <3>2. free \in SUBSET Nat /\ free # {}
      BY <1>1, <2>4, <3>1
    <3> HIDE DEF free
    <3>3. \E m \in free : \A l \in free : m <= l
      BY <3>2, Least
    <3> QED BY <3>3
  <2> HIDE DEF first
  <2>6. /\ first \in Probes(new) /\ new.hashes[j] = UNUSED
        /\ \A l \in 0..(first - 1) : new.hashes[Probe(new, h, l)] # UNUSED
    <3>1. first \in Probes(new) /\ new.hashes[j] = UNUSED
      BY <2>5
    <3>2. \A l \in 0..(first - 1) : l \in Probes(new) /\ ~(first <= l)
      BY <1>1, <3>1, BucketFacts
    <3> QED BY <2>5, <3>1, <3>2
  <2>7. j \in Buckets(new)
    BY <1>1, <2>1, <2>6, ProbeFacts
  <2>8. w = [new EXCEPT !.hashes[j] = t.hashes[n], !.keys[j] = t.keys[n],
                        !.values[j] = t.values[n]]
    BY <1>3 DEF Moved, j, first, free, h
  <2> HIDE DEF j, w, free
  <2>9. /\ IsTable(w) /\ w.shift = new.shift /\ w.nnodes = new.nnodes
        /\ w.noccupied = new.noccupied /\ w.shared = new.shared
        /\ w.hashes = [new.hashes EXCEPT ![j] = t.hashes[n]]
        /\ w.keys = [new.keys EXCEPT ![j] = t.keys[n]]
        /\ w.values = [new.values EXCEPT ![j] = t.values[n]]
    BY <1>1, <2>8 DEF Typed, IsTable
  <2>10. Buckets(w) = Buckets(new)
    BY <2>9, SameShift
  <2>11. /\ w.hashes[j] = h /\ w.keys[j] = t.keys[n] /\ w.values[j] = t.values[n]
         /\ \A l \in Buckets(new) \ {j} :
              w.hashes[l] = new.hashes[l] /\ w.keys[l] = new.keys[l] /\ w.values[l] = new.values[l]
    BY <1>1, <2>7, <2>9 DEF Typed, h
  <2>12. Typed(w)
    BY <1>1, <2>1, <2>7, <2>9, <2>10 DEF Typed, h
  <2>13. Real(w) = Real(new) \cup {j} /\ Occupied(w) = Occupied(new) \cup {j} /\ j \notin Real(new)
    BY <1>3, <2>1, <2>6, <2>7, <2>10, <2>11 DEF Real, Occupied, IsReal, UNUSED, h
  <2>14. Real(new) \subseteq Buckets(new) \ {j}
    BY <2>13 DEF Real
  <2>15. Sound(w)
    BY <2>1, <2>11, <2>13, <2>14 DEF MovedInv, Sound
  <2>16. \A l \in Real(new) : \E i \in Before(t, n) :
           new.keys[l] = t.keys[i] /\ new.values[l] = t.values[i]
    <3> TAKE l \in Real(new)
    <3>1. EntryAt(new, l) \in Content(new)
      BY DEF Content, EntryAt
    <3>2. PICK i \in Before(t, n) : EntryAt(new, l) = EntryAt(t, i)
      BY <3>1 DEF MovedInv
    <3> QED BY <3>2 DEF EntryAt
  <2>17. \A l \in Real(new) : KeyOf(new.keys[l]) # KeyOf(t.keys[n])
    BY <2>1, <2>2, <2>16 DEF TInv, Once, Before
  <2>18. Once(w)
    BY <2>11, <2>13, <2>14, <2>17 DEF MovedInv, Once
  <2>19. Reachable(w)
    <3>1. \A l \in Buckets(new) : new.hashes[l] # UNUSED => w.hashes[l] # UNUSED
      BY <2>1, <2>11
    <3>2. \A g \in Nat : \A l : Reached(new, g, l) => Reached(w, g, l)
      BY <1>1, <2>9, <3>1, ReachedStays
    <3>3. Reached(new, h, j)
      BY <2>6 DEF Reached, j
    <3>4. Reached(w, w.hashes[j], j)
      BY <2>1, <2>11, <3>2, <3>3
    <3>5. \A l \in Real(new) : new.hashes[l] \in Nat /\ Reached(new, new.hashes[l], l)
      BY <1>1, <2>14 DEF MovedInv, Reachable, Typed
    <3>6. \A l \in Real(new) : Reached(w, w.hashes[l], l)
      BY <2>11, <2>14, <3>2, <3>5
    <3> QED BY <2>13, <3>4, <3>6 DEF Reachable
  <2>20. SharesKeys(w)
    BY <1>1, <2>1, <2>9 DEF TInv, MovedInv, SharesKeys
  <2>21. Cardinality(Real(w)) = Cardinality(Before(t, n + 1))
    <3>1. Cardinality(Real(w)) = Cardinality(Real(new)) + 1
      BY <1>1, <2>13, FS_AddElement
    <3> QED BY <2>3, <3>1 DEF MovedInv
  <2>22. Content(w) = {EntryAt(t, i) : i \in Before(t, n + 1)}
    <3>1. Content(w) = Content(new) \cup {EntryAt(t, n)}
      BY <2>11, <2>13, <2>14 DEF Content, EntryAt
    <3> QED BY <2>2, <3>1 DEF MovedInv
  <2>23. /\ w.shift = ShiftFor(2 * t.nnodes) /\ w.shared = t.shared
         /\ w.nnodes = t.nnodes /\ w.noccupied = t.nnodes /\ Occupied(w) = Real(w)
    BY <2>9, <2>13 DEF MovedInv
  <2> QED BY <2>12, <2>15, <2>18, <2>19, <2>20, <2>21, <2>22, <2>23 DEF MovedInv, w
<1> QED BY <1>2, <1>3

(* hev_hash_table_resize keeps the entries and leaves no tombstone.            *)
LEMMA ResizeFacts ==
  ASSUME NEW t, TInv(t)
  PROVE  TInv(Resize(t)) /\ HasRoom(Resize(t)) /\ Content(Resize(t)) = Content(t)
<1> DEFINE N == Size(t.shift)
           f == Moves(t, NewTable(t))
           S == {n \in 0..N : MovedInv(f[n], t, n)}
           w == f[N]
<1>1. Typed(t) /\ N \in Nat /\ Buckets(t) = 0..(N - 1)
  BY BucketFacts DEF TInv
<1>2. f[0] = NewTable(t) /\ \A n \in 0..(N - 1) : f[n + 1] = Moved(f[n], t, n)
  BY <1>1, MovesSteps
<1> HIDE DEF f, N
<1>3. 0 \in S
  BY <1>1, <1>2, NewTableParts
<1>4. ASSUME NEW n \in 0..(N - 1), n \in S PROVE n + 1 \in S
  <2>1. MovedInv(Moved(f[n], t, n), t, n + 1)
    BY <1>1, <1>4, OneMove
  <2> QED BY <1>1, <1>2, <2>1
<1> HIDE DEF S
<1>5. N \in S
  <2>1. \A n \in 0..N : n \in S
    BY <1>1, <1>3, <1>4, Upwards
  <2> QED BY <1>1, <2>1
<1>6. MovedInv(w, t, N)
  BY <1>5 DEF S
<1> HIDE DEF w
<1>7. Before(t, N) = Real(t)
  BY <1>1 DEF Before, Real
<1>8. Content(w) = Content(t)
  BY <1>6, <1>7 DEF MovedInv, Content, EntryAt
<1>9. TInv(w)
  BY <1>6, <1>7 DEF TInv, MovedInv, Counted
<1>10. HasRoom(w)
  <2>1. 2 * t.nnodes < Size(w.shift) /\ t.nnodes \in Nat /\ w.noccupied = t.nnodes
    BY <1>6, NodesBound, ShiftFacts DEF MovedInv
  <2>2. Size(w.shift) \in Nat
    BY <1>6, BucketFacts DEF MovedInv
  <2> QED BY <2>1, <2>2 DEF HasRoom
<1>11. Resize(t) = w
  BY DEF Resize, w, f, N
<1> QED BY <1>8, <1>9, <1>10, <1>11

(* hev_hash_table_maybe_resize keeps the entries and leaves an unused bucket.  *)
LEMMA MaybeResizeFacts ==
  ASSUME NEW t, TInv(t)
  PROVE  /\ TInv(MaybeResize(t)) /\ HasRoom(MaybeResize(t))
         /\ Content(MaybeResize(t)) = Content(t)
<1>1. CASE MaybeResize(t) = Resize(t)
  BY <1>1, ResizeFacts
<1>2. CASE MaybeResize(t) = t /\ ~(Size(t.shift) <= t.noccupied + t.noccupied \div 16)
  <2>1. t.noccupied \in Nat /\ Size(t.shift) \in Nat
    BY BucketFacts DEF TInv, Typed
  <2>2. t.noccupied \div 16 \in Nat
    BY <2>1
  <2>3. HasRoom(t)
    BY <1>2, <2>1, <2>2 DEF HasRoom
  <2> QED BY <1>2, <2>3
<1> QED BY <1>1, <1>2 DEF MaybeResize

-----------------------------------------------------------------------------
(* What a table with these entries owns.                                       *)
Owns(entries) ==
  {e.key : e \in entries} \cup (IF destroys THEN {e.value : e \in entries} ELSE {})

(* A value the table owns is the value of one entry.                           *)
ValuesOnce(entries) ==
  destroys => /\ \A e \in entries : e.value \in Vals
              /\ \A e, f \in entries : e.value = f.value => e = f

(* The inductive invariant: between calls a bucket is always unused.           *)
HInv ==
  /\ TInv(table) /\ HasRoom(table) /\ destroys \in BOOLEAN
  /\ owned = Owns(Content(table)) /\ ValuesOnce(Content(table))

-----------------------------------------------------------------------------
(* The entries of a table have different keys.                                 *)
LEMMA ContentFacts ==
  ASSUME NEW t, TInv(t)
  PROVE  /\ \A e \in Content(t) : e.key \in Pointers
         /\ \A e, f \in Content(t) : KeyOf(e.key) = KeyOf(f.key) => e = f
         /\ \A i \in Real(t) : EntryAt(t, i) \in Content(t)
BY DEF TInv, Sound, Once, Content, EntryAt

(* hev_hash_table_insert_internal: what it stores, keeps and destroys.         *)
LEMMA InsertStep ==
  ASSUME HInv, NEW k \in Pointers, NEW v \in Pointers \cup Vals, NEW keep \in BOOLEAN,
         destroys => v \in Vals, InsertInternal(k, v, keep)
  PROVE  /\ HInv'
         /\ LET i == LookupNode(table, KeyOf(k))
                kept == IF IsReal(table.hashes[i]) /\ ~keep THEN table.keys[i] ELSE k
            IN /\ Content(table)' = {e \in Content(table) : KeyOf(e.key) # KeyOf(k)}
                                      \cup {[key |-> kept, value |-> v]}
               /\ IF IsReal(table.hashes[i])
                    THEN \E e \in Content(table) : e.key = table.keys[i] /\ KeyOf(e.key) = KeyOf(k)
                    ELSE \A e \in Content(table) : KeyOf(e.key) # KeyOf(k)
<1> DEFINE i == LookupNode(table, KeyOf(k))
           exists == IsReal(table.hashes[i])
           kept == IF exists /\ ~keep THEN table.keys[i] ELSE k
           new == [key |-> kept, value |-> v]
           C == Content(table)
           Others == {e \in C : KeyOf(e.key) # KeyOf(k)}
           w == Written(table, i, k, v, keep)
<1>1. TInv(table) /\ HasRoom(table) /\ KeyOf(k) \in Keys
  BY HashTypes DEF HInv
<1>2. Found(table, KeyOf(k), i)
  BY <1>1, LookupFound
<1>3. /\ Given(k, v) \cap owned = {} /\ table' = InsertNode(table, i, k, v, keep)
      /\ owned' = (owned \cup Given(k, v)) \ Destroyed(table, i, k, keep)
      /\ destroys' = destroys
  BY DEF InsertInternal
<1> HIDE DEF i
<1>4. /\ TInv(w) /\ w.shift = table.shift
      /\ table.hashes[i] # UNUSED => w.noccupied = table.noccupied
      /\ Content(w) = Others \cup {new}
  BY <1>1, <1>2, WrittenFacts
<1>5. TInv(table') /\ HasRoom(table') /\ Content(table') = Others \cup {new}
  <2>1. CASE table.hashes[i] = UNUSED
    <3>1. table' = MaybeResize(w)
      BY <1>3, <2>1 DEF InsertNode
    <3> HIDE DEF w
    <3> QED BY <1>4, <3>1, MaybeResizeFacts
  <2>2. CASE table.hashes[i] # UNUSED
    <3>1. table' = w
      BY <1>3, <2>2 DEF InsertNode
    <3> HIDE DEF w
    <3> QED BY <1>1, <1>4, <2>2, <3>1 DEF HasRoom
  <2> QED BY <2>1, <2>2
<1>6. /\ \A e \in C : e.key \in Pointers
      /\ \A e, f \in C : KeyOf(e.key) = KeyOf(f.key) => e = f
  BY <1>1, ContentFacts
<1>7. exists => /\ EntryAt(table, i) \in C /\ KeyOf(table.keys[i]) = KeyOf(k)
                /\ table.keys[i] \in Pointers
  BY <1>1, <1>2, ContentFacts DEF Found, Real, TInv, Sound
<1>8. ~exists => Others = C
  <2> SUFFICES ASSUME ~exists, NEW e \in C PROVE KeyOf(e.key) # KeyOf(k)
    OBVIOUS
  <2> QED BY <1>2 DEF Found, Content
<1>9. ASSUME exists PROVE C = Others \cup {EntryAt(table, i)}
  <2>1. EntryAt(table, i) \in C /\ EntryAt(table, i).key = table.keys[i]
    BY <1>7, <1>9 DEF EntryAt
  <2>2. ASSUME NEW e \in C, e \notin Others PROVE e = EntryAt(table, i)
    BY <1>6, <1>7, <1>9, <2>1, <2>2
  <2> QED BY <2>1, <2>2
<1>10. owned' = Owns(Others \cup {new}) /\ ValuesOnce(Others \cup {new})
  <2>1. owned = Owns(C) /\ ValuesOnce(C) /\ destroys \in BOOLEAN
    BY DEF HInv
  <2>2. k \notin owned /\ (destroys => v \notin owned)
    BY <1>3 DEF Given
  <2>3. Pointers \cap Vals = {}
    BY TableAssumption
  <2>4. new.key = kept /\ new.value = v
    OBVIOUS
  <2>5. /\ EntryAt(table, i).key = table.keys[i] /\ EntryAt(table, i).value = table.values[i]
    BY DEF EntryAt
  <2> HIDE DEF C, new
  <2>6. CASE ~exists
    <3>1. owned' = owned \cup Given(k, v) /\ Others = C /\ kept = k
      BY <1>3, <1>8, <2>6 DEF Destroyed
    <3>2. \A e \in C : e.key \in owned /\ (destroys => e.value \in owned)
      BY <2>1 DEF Owns
    <3>3. Owns(C \cup {new}) = Owns(C) \cup Given(k, v)
      BY <2>4, <3>1 DEF Owns, Given
    <3>4. ValuesOnce(C \cup {new})
      BY <2>1, <2>2, <2>4, <3>2 DEF ValuesOnce
    <3> QED BY <2>1, <3>1, <3>3, <3>4
  <2>7. CASE exists
    <3> DEFINE old == EntryAt(table, i)
               gone == IF keep THEN table.keys[i] ELSE k
    <3>1. /\ old.key = table.keys[i] /\ old.value = table.values[i] /\ old \in C
          /\ C = Others \cup {old} /\ old \notin Others
      BY <1>7, <1>9, <2>5, <2>7
    <3>2. owned' = (owned \cup Given(k, v)) \ ({gone} \cup IF destroys THEN {old.value} ELSE {})
      BY <1>3, <2>7, <3>1 DEF Destroyed
    <3> HIDE DEF old, Others
    <3>3. \A e \in C : e.key \in owned /\ (destroys => e.value \in owned)
      BY <2>1 DEF Owns
    <3>4. \A e \in Others : e \in C /\ e.key # old.key /\ (destroys => e.value # old.value)
      BY <1>6, <2>1, <3>1 DEF ValuesOnce
    <3>5. ValuesOnce(Others \cup {new})
      BY <2>1, <2>2, <2>4, <3>3, <3>4 DEF ValuesOnce
    <3>6. Owns(Others \cup {new}) = Owns(Others) \cup {kept} \cup (IF destroys THEN {v} ELSE {})
      BY <2>4 DEF Owns
    <3>7. owned = Owns(Others) \cup {old.key} \cup (IF destroys THEN {old.value} ELSE {})
      BY <2>1, <3>1 DEF Owns
    <3>8. /\ old.key \notin Owns(Others) /\ (destroys => old.value \notin Owns(Others))
          /\ (destroys => old.value # old.key /\ old.value # k /\ v # old.key /\ v # k)
      BY <1>6, <1>7, <2>1, <2>3, <2>7, <3>1, <3>4 DEF Owns, ValuesOnce
    <3>9. CASE keep
      <4>1. kept = k /\ gone = old.key
        BY <3>1, <3>9
      <4> QED BY <2>1, <2>2, <3>2, <3>5, <3>6, <3>7, <3>8, <4>1 DEF Given
    <3>10. CASE ~keep
      <4>1. kept = old.key /\ gone = k
        BY <2>7, <3>1, <3>10
      <4> QED BY <2>1, <2>2, <3>2, <3>5, <3>6, <3>7, <3>8, <4>1 DEF Given
    <3> QED BY <3>9, <3>10
  <2> QED BY <2>6, <2>7
<1>11. HInv'
  <2>1. Owns(Others \cup {new}) = Owns(Content(table))'
    BY <1>3, <1>5 DEF Owns
  <2>2. ValuesOnce(Content(table))'
    BY <1>3, <1>5, <1>10 DEF ValuesOnce
  <2> QED BY <1>3, <1>5, <1>10, <2>1, <2>2 DEF HInv
<1>12. IF exists THEN \E e \in C : e.key = table.keys[i] /\ KeyOf(e.key) = KeyOf(k)
       ELSE \A e \in C : KeyOf(e.key) # KeyOf(k)
  BY <1>7, <1>8 DEF EntryAt
<1> QED BY <1>5, <1>11, <1>12 DEF i

(* What the buckets of J own.                                                  *)
LEMMA OwnsBuckets ==
  ASSUME NEW t, NEW J
  PROVE  Owns({EntryAt(t, i) : i \in J})
           = {t.keys[i] : i \in J} \cup (IF destroys THEN {t.values[i] : i \in J} ELSE {})
<1> DEFINE E == {EntryAt(t, i) : i \in J}
<1>1. \A i : EntryAt(t, i).key = t.keys[i] /\ EntryAt(t, i).value = t.values[i]
  BY DEF EntryAt
<1>2. {e.key : e \in E} = {t.keys[i] : i \in J}
  BY <1>1
<1>3. {e.value : e \in E} = {t.values[i] : i \in J}
  BY <1>1
<1> QED BY <1>2, <1>3 DEF Owns

(* What is left when the buckets of I are removed.                             *)
LEMMA RemoveStep ==
  ASSUME HInv, NEW I \in SUBSET Real(table), destroys' = destroys,
         table' = MaybeResize(RemoveNodes(table, I)), owned' = owned \ Released(table, I)
  PROVE  HInv' /\ Content(table)' \in SUBSET Content(table)
<1> DEFINE Left == {EntryAt(table, i) : i \in Real(table) \ I}
           w == RemoveNodes(table, I)
<1>1. TInv(table)
  BY DEF HInv
<1>2. TInv(w) /\ Content(w) = Left
  BY <1>1, RemovedFacts DEF EntryAt
<1> HIDE DEF w
<1>3. TInv(table') /\ HasRoom(table') /\ Content(table') = Left
  BY <1>2, MaybeResizeFacts DEF w
<1>4. Left \in SUBSET Content(table)
  BY DEF Content, EntryAt
<1>5. owned' = Owns(Left)
  <2>1. owned = Owns(Content(table)) /\ ValuesOnce(Content(table)) /\ destroys \in BOOLEAN
    BY DEF HInv
  <2>2. Content(table) = {EntryAt(table, i) : i \in Real(table)}
    BY DEF Content, EntryAt
  <2>3. \A i \in Real(table) : table.keys[i] \in Pointers /\ (destroys => table.values[i] \in Vals)
    <3> TAKE i \in Real(table)
    <3>1. EntryAt(table, i) \in Content(table) /\ EntryAt(table, i).value = table.values[i]
      BY <2>2 DEF EntryAt
    <3> QED BY <1>1, <2>1, <3>1 DEF TInv, Sound, ValuesOnce
  <2>4. \A i, j \in Real(table) : table.keys[i] = table.keys[j] => i = j
    BY <1>1 DEF TInv, Once
  <2>5. ASSUME destroys, NEW i \in Real(table), NEW j \in Real(table),
               table.values[i] = table.values[j]
        PROVE  i = j
    <3>1. EntryAt(table, i) = EntryAt(table, j)
      BY <2>1, <2>2, <2>5 DEF ValuesOnce, EntryAt
    <3>2. table.keys[i] = table.keys[j]
      BY <3>1 DEF EntryAt
    <3> QED BY <2>4, <3>2
  <2>6. Owns(Content(table)) = {table.keys[i] : i \in Real(table)}
                                \cup (IF destroys THEN {table.values[i] : i \in Real(table)} ELSE {})
    BY <2>2, OwnsBuckets
  <2>7. Owns(Left) = {table.keys[i] : i \in Real(table) \ I}
                      \cup (IF destroys THEN {table.values[i] : i \in Real(table) \ I} ELSE {})
    BY OwnsBuckets
  <2>8. Pointers \cap Vals = {}
    BY TableAssumption
  <2>9. CASE destroys
    BY <2>1, <2>3, <2>4, <2>5, <2>6, <2>7, <2>8, <2>9 DEF Released
  <2>10. CASE ~destroys
    BY <2>1, <2>4, <2>6, <2>7, <2>10 DEF Released
  <2> QED BY <2>9, <2>10
<1>6. HInv'
  <2>1. Owns(Content(table))' = Owns(Left) /\ ValuesOnce(Content(table))'
    BY <1>3, <1>4 DEF HInv, Owns, ValuesOnce
  <2> QED BY <1>3, <1>5, <2>1 DEF HInv
<1> QED BY <1>3, <1>4, <1>6

(* hev_hash_table_remove_all and _steal_all.                                   *)
LEMMA RemoveAllStep ==
  ASSUME HInv, RemoveAll
  PROVE  HInv' /\ Content(table)' = {}
<1> DEFINE w == [EmptyTable(table.shift) EXCEPT !.shared = table.shared]
<1>1. TInv(table) /\ table.shift \in MinShift..MaxShift /\ table.shared \in BOOLEAN
  BY DEF HInv, TInv, Typed
<1>2. TInv(w) /\ Content(w) = {}
  BY <1>1, EmptyFacts
<1>3. table' = MaybeResize(w) /\ destroys' = destroys
  BY DEF RemoveAll
<1> HIDE DEF w
<1>4. TInv(table') /\ HasRoom(table') /\ Content(table') = {}
  BY <1>2, <1>3, MaybeResizeFacts
<1>5. owned' = {}
  <2>1. owned = Owns(Content(table))
    BY DEF HInv
  <2>2. owned' = owned \ Released(table, Real(table))
    BY DEF RemoveAll, Real
  <2>3. Released(table, Real(table)) = Owns(Content(table))
    <3>1. Content(table) = {EntryAt(table, i) : i \in Real(table)}
      BY DEF Content, EntryAt
    <3> QED BY <3>1, OwnsBuckets DEF Released
  <2> QED BY <2>1, <2>2, <2>3
<1>6. Owns(Content(table))' = {} /\ ValuesOnce(Content(table))'
  BY <1>4 DEF Owns, ValuesOnce
<1> QED BY <1>3, <1>4, <1>5, <1>6 DEF HInv

(* Every way to remove entries.                                                *)
LEMMA EraseStep ==
  ASSUME HInv, (\E c \in Keys : Remove(c)) \/ (\E S \in SUBSET Keys : ForeachRemove(S)) \/ RemoveAll
  PROVE  HInv' /\ Content(table)' \in SUBSET Content(table) /\ destroys' = destroys
<1>1. ASSUME NEW c \in Keys, Remove(c) PROVE HInv' /\ Content(table)' \in SUBSET Content(table)
  <2> DEFINE I == {LookupNode(table, c)}
  <2>1. Found(table, c, LookupNode(table, c))
    BY LookupFound DEF HInv
  <2>2. I \in SUBSET Real(table)
    BY <1>1, <2>1 DEF Remove, Contains, Found, Real
  <2>3. /\ destroys' = destroys /\ table' = MaybeResize(RemoveNodes(table, I))
        /\ owned' = owned \ Released(table, I)
    BY <1>1 DEF Remove
  <2> HIDE DEF I
  <2> QED BY <2>2, <2>3, RemoveStep
<1>2. ASSUME NEW S \in SUBSET Keys, ForeachRemove(S)
      PROVE  HInv' /\ Content(table)' \in SUBSET Content(table)
  <2> DEFINE I == {i \in Buckets(table) : IsReal(table.hashes[i]) /\ KeyOf(table.keys[i]) \in S}
  <2>1. I \in SUBSET Real(table)
    BY DEF Real
  <2>2. /\ destroys' = destroys /\ table' = MaybeResize(RemoveNodes(table, I))
        /\ owned' = owned \ Released(table, I)
    BY <1>2 DEF ForeachRemove
  <2> HIDE DEF I
  <2> QED BY <2>1, <2>2, RemoveStep
<1>3. destroys' = destroys
  BY DEF Remove, ForeachRemove, RemoveAll
<1> QED BY <1>1, <1>2, <1>3, RemoveAllStep

-----------------------------------------------------------------------------
(* HInv is inductive: a new table has it and every call keeps it.              *)
LEMMA InitHInv == Init => HInv
<1> SUFFICES ASSUME Init PROVE HInv
  OBVIOUS
<1>1. MinShift \in MinShift..MaxShift
  BY TableAssumption DEF MaxShift
<1>2. table = [EmptyTable(MinShift) EXCEPT !.shared = TRUE]
  <2> DEFINE f == EmptyTable(MinShift)
  <2>1. f.shared = TRUE /\ f = [x \in DOMAIN f |-> f[x]]
    BY DEF EmptyTable
  <2> HIDE DEF f
  <2>2. f = [f EXCEPT !.shared = TRUE]
    BY <2>1
  <2> QED BY <2>2 DEF Init, f
<1>3. TInv(table) /\ table.shift = MinShift /\ table.noccupied = 0 /\ Content(table) = {}
  BY <1>1, <1>2, EmptyFacts
<1>4. HasRoom(table)
  BY <1>1, <1>3, BucketFacts DEF HasRoom, TInv
<1> QED BY <1>3, <1>4 DEF Init, HInv, Owns, ValuesOnce

LEMMA NextHInv == HInv /\ [Next]_vars => HInv'
<1> SUFFICES ASSUME HInv, [Next]_vars PROVE HInv'
  OBVIOUS
<1>1. ASSUME NEW k \in Pointers, Add(k) PROVE HInv'
  <2>1. InsertInternal(k, k, TRUE) /\ ~destroys
    BY <1>1 DEF Add
  <2> QED BY <2>1, InsertStep
<1>2. ASSUME NEW k \in Pointers, NEW v \in Vals, Insert(k, v) PROVE HInv'
  BY <1>2, InsertStep DEF Insert
<1>3. ASSUME NEW k \in Pointers, NEW v \in Vals, Replace(k, v) PROVE HInv'
  BY <1>3, InsertStep DEF Replace
<1>4. CASE (\E c \in Keys : Remove(c)) \/ (\E S \in SUBSET Keys : ForeachRemove(S)) \/ RemoveAll
  BY <1>4, EraseStep
<1>5. CASE UNCHANGED vars
  BY <1>5 DEF vars, HInv, TInv, Typed, IsTable, Sound, Once, Reachable, Reached, Counted, SharesKeys,
     HasRoom, Owns, ValuesOnce, Content, Real, Occupied, Buckets, Probes
<1> QED BY <1>1, <1>2, <1>3, <1>4, <1>5 DEF Next

(* The arrays always have Size(shift) cells of their type and the shift stays  *)
(* between HASH_TABLE_MIN_SHIFT and what an int can hold.                      *)
THEOREM TypeCorrect == Spec => []TypeOK
<1>1. HInv => TypeOK
  <2> SUFFICES ASSUME HInv PROVE TypeOK
    OBVIOUS
  <2>1. Typed(table) /\ destroys \in BOOLEAN
    BY DEF HInv, TInv
  <2>2. owned \subseteq Pointers \cup Vals
    <3>1. /\ owned = Owns(Content(table)) /\ ValuesOnce(Content(table))
          /\ \A e \in Content(table) : e.key \in Pointers
      BY ContentFacts DEF HInv
    <3> QED BY <3>1 DEF Owns, ValuesOnce
  <2> QED BY <2>1, <2>2 DEF TypeOK, Typed
<1> QED BY <1>1, InitHInv, NextHInv, PTL DEF Spec

(* The while loop of hev_hash_table_lookup_node ends for every key: an unused  *)
(* bucket is always left, and the probes of every hash visit every bucket.     *)
THEOREM ProbesAlwaysEnd == Spec => []ProbesEnd
<1>1. HInv => ProbesEnd
  BY SearchEnds DEF HInv, ProbesEnd
<1> QED BY <1>1, InitHInv, NextHInv, PTL DEF Spec

(* nnodes and noccupied count the entries and the used buckets exactly, after  *)
(* any sequence of inserts, removals and resizes.                              *)
THEOREM CountsAreExact == Spec => []CountsExact
<1>1. HInv => CountsExact
  BY DEF HInv, TInv, Counted, CountsExact, Real, Occupied
<1> QED BY <1>1, InitHInv, NextHInv, PTL DEF Spec

(* A search for a stored key returns the one bucket that stores it.            *)
THEOREM LookupIsRight == Spec => []LookupFinds
<1>1. HInv => LookupFinds
  <2> SUFFICES ASSUME HInv, NEW c \in Keys, NEW i \in Buckets(table), Stores(c, i)
               PROVE  LookupNode(table, c) = i
    BY DEF LookupFinds
  <2> DEFINE j == LookupNode(table, c)
  <2>1. Found(table, c, j)
    BY LookupFound DEF HInv
  <2>2. i \in Real(table) /\ KeyOf(table.keys[i]) = c
    BY DEF Stores, Real
  <2>3. j \in Real(table) /\ KeyOf(table.keys[j]) = c
    BY <2>1, <2>2 DEF Found, Real
  <2> HIDE DEF j
  <2>4. i = j
    BY <2>2, <2>3 DEF HInv, TInv, Once
  <2> QED BY <2>4 DEF j
<1> QED BY <1>1, InitHInv, NextHInv, PTL DEF Spec

(* The refinement mapping.                                                     *)
LEMMA EntriesAreContent == Entries = Content(table) /\ Entries' = Content(table)'
BY DEF Entries, Content, Real

(* An insertion, a replacement or an addition sets one entry.                  *)
LEMMA InsertRefines ==
  ASSUME HInv, NEW k \in Pointers, NEW v \in Pointers \cup Vals, NEW keep \in BOOLEAN,
         destroys => v \in Vals, InsertInternal(k, v, keep)
  PROVE  IF keep THEN Dict!SetNew(k, v) ELSE Dict!Set(k, v)
<1> DEFINE i == LookupNode(table, KeyOf(k))
           exists == IsReal(table.hashes[i])
           kept == IF exists /\ ~keep THEN table.keys[i] ELSE k
           C == Content(table)
           O == {e \in C : KeyOf(e.key) # KeyOf(k)}
<1>1. /\ HInv' /\ Content(table)' = O \cup {[key |-> kept, value |-> v]}
      /\ IF exists THEN \E e \in C : e.key = table.keys[i] /\ KeyOf(e.key) = KeyOf(k)
                   ELSE \A e \in C : KeyOf(e.key) # KeyOf(k)
  BY InsertStep
<1>2. destroys' = destroys
  BY DEF InsertInternal
<1> HIDE DEF i, exists
<1>3. Dict!Others(k) = O
  BY EntriesAreContent DEF Dict!Others
<1>4. \A e : Dict!Entry(e, v) = [key |-> e, value |-> v]
  BY DEF Dict!Entry
<1>5. Dict!Becomes(O \cup {Dict!Entry(kept, v)})
  <2>1. owned' = Owns(Content(table))'
    BY <1>1 DEF HInv
  <2>2. Entries' = O \cup {Dict!Entry(kept, v)}
    BY <1>1, <1>4, EntriesAreContent
  <2>3. owned' = {e.key : e \in Entries'} \cup (IF destroys THEN {e.value : e \in Entries'} ELSE {})
    BY <1>2, <2>1, EntriesAreContent DEF Owns
  <2> QED BY <1>2, <2>2, <2>3 DEF Dict!Becomes
<1>6. CASE keep
  <2>1. kept = k
    BY <1>6
  <2> QED BY <1>3, <1>5, <1>6, <2>1 DEF Dict!SetNew
<1>7. CASE ~keep /\ exists
  <2>1. PICK e \in C : e.key = table.keys[i] /\ KeyOf(e.key) = KeyOf(k)
    BY <1>1, <1>7
  <2>2. kept = e.key /\ e \in Entries \ O
    BY <1>7, <2>1, EntriesAreContent
  <2> HIDE DEF kept, O
  <2>3. \E f \in Entries \ Dict!Others(k) :
          Dict!Becomes(Dict!Others(k) \cup {Dict!Entry(f.key, v)})
    BY <1>3, <1>5, <2>2
  <2> QED BY <1>7, <2>3 DEF Dict!Set
<1>8. CASE ~keep /\ ~exists
  <2>1. kept = k /\ Entries = O
    BY <1>1, <1>8, EntriesAreContent
  <2> HIDE DEF kept, O
  <2>2. Dict!SetNew(k, v)
    BY <1>3, <1>5, <2>1 DEF Dict!SetNew
  <2> QED BY <1>3, <1>8, <2>1, <2>2 DEF Dict!Set
<1> QED BY <1>6, <1>7, <1>8

(* The table is a dictionary that owns exactly the pointers it keeps: every    *)
(* call of hev-hash-table.c is one step of Dictionary.tla.                     *)
THEOREM ImplementsDictionary == Spec => DictSpec
<1>1. Init => Dict!DictInit
  <2> SUFFICES ASSUME Init PROVE Dict!DictInit
    OBVIOUS
  <2>1. MinShift \in MinShift..MaxShift
    BY TableAssumption DEF MaxShift
  <2>2. Entries = {}
    BY DEF Init, EmptyTable, Entries, IsReal, UNUSED, Buckets
  <2> QED BY <2>2 DEF Init, Dict!DictInit
<1>2. HInv /\ [Next]_vars => [Dict!DictNext]_(Dict!dictVars)
  <2> SUFFICES ASSUME HInv, [Next]_vars PROVE [Dict!DictNext]_(Dict!dictVars)
    OBVIOUS
  <2>1. ASSUME NEW k \in Pointers, Add(k) PROVE Dict!DictNext
    <3>1. InsertInternal(k, k, TRUE) /\ ~destroys
      BY <2>1 DEF Add
    <3>2. Dict!SetNew(k, k)
      BY <3>1, InsertRefines
    <3> QED BY <3>2 DEF Dict!DictNext
  <2>2. ASSUME NEW k \in Pointers, NEW v \in Vals, Insert(k, v) PROVE Dict!DictNext
    <3>1. Dict!Set(k, v)
      BY <2>2, InsertRefines DEF Insert
    <3> QED BY <3>1 DEF Dict!DictNext
  <2>3. ASSUME NEW k \in Pointers, NEW v \in Vals, Replace(k, v) PROVE Dict!DictNext
    <3>1. Dict!SetNew(k, v)
      BY <2>3, InsertRefines DEF Replace
    <3> QED BY <3>1 DEF Dict!DictNext
  <2>4. CASE (\E c \in Keys : Remove(c)) \/ (\E S \in SUBSET Keys : ForeachRemove(S)) \/ RemoveAll
    <3>1. HInv' /\ Content(table)' \in SUBSET Content(table) /\ destroys' = destroys
      BY <2>4, EraseStep
    <3>2. owned' = {e.key : e \in Entries'} \cup (IF destroys THEN {e.value : e \in Entries'} ELSE {})
      BY <3>1, EntriesAreContent DEF HInv, Owns
    <3>3. Dict!Becomes(Entries') /\ Entries' \in SUBSET Entries
      BY <3>1, <3>2, EntriesAreContent DEF Dict!Becomes
    <3> QED BY <3>3 DEF Dict!DictNext, Dict!Erase
  <2>5. CASE UNCHANGED vars
    BY <2>5 DEF vars, Dict!dictVars, Entries, Buckets
  <2> QED BY <2>1, <2>2, <2>3, <2>4, <2>5 DEF Next
<1> QED BY <1>1, <1>2, InitHInv, NextHInv, PTL DEF Spec, DictSpec, Dict!DictSpec

=============================================================================
