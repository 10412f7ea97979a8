----------------------------- MODULE Remainders ------------------------------
(***************************************************************************)
(* Remainders, quotients and least numbers: what the proofs about numbers, *)
(* counters that wrap and conversions need.                                *)
(***************************************************************************)
EXTENDS Integers, WellFoundedInduction, TLAPS

\* A set of numbers that is not empty has a least one.
LEMMA Least ==
  ASSUME NEW S, S \subseteq Nat, S # {}
  PROVE  \E i \in S : \A k \in S : i <= k
<1>1. IsWellFoundedOn({ss \in Nat \X Nat : ss[1] < ss[2]}, Nat)
  BY NatLessThanWellFounded DEF OpToRel
<1>2. PICK i \in S : \A k \in S : <<k, i>> \notin {ss \in Nat \X Nat : ss[1] < ss[2]}
  BY <1>1, WFMin
<1>3. \A k \in S : k \in Nat
  OBVIOUS
<1>4. \A k \in S : ~(k < i)
  BY <1>2, <1>3
<1>. QED
  BY <1>3, <1>4

LEMMA ModDef ==
  ASSUME NEW M \in Nat \ {0}, NEW a \in Int
  PROVE  a % M \in 0 .. M - 1 /\ \E q \in Int : a = M * q + (a % M)
<1>1. a % M \in 0 .. M - 1 /\ (a \div M) \in Int
  OBVIOUS
<1>2. a = M * (a \div M) + (a % M)
  OBVIOUS
<1>. QED
  BY <1>1, <1>2

\* No multiple of M but 0 is less than M away from 0.
LEMMA Multiple ==
  ASSUME NEW M \in Nat \ {0}, NEW q \in Int, -M < M * q, M * q < M
  PROVE  q = 0
<1>1. CASE q >= 1
  <2>1. M * q >= M
    BY <1>1
  <2>. QED
    BY <2>1
<1>2. CASE q <= -1
  <2>1. M * q <= -M
    BY <1>2
  <2>. QED
    BY <2>1
<1>. QED
  BY <1>1, <1>2

LEMMA Distribute ==
  ASSUME NEW M \in Int, NEW a \in Int, NEW b \in Int
  PROVE  M * (a + b) = M * a + M * b /\ M * (a - b) = M * a - M * b
  OBVIOUS

LEMMA Associate ==
  ASSUME NEW M \in Int, NEW k \in Int, NEW p \in Int
  PROVE  (k * M) * p = M * (k * p)
  OBVIOUS

\* The remainder is the only one.
LEMMA ModUnique ==
  ASSUME NEW M \in Nat \ {0}, NEW a \in Int, NEW q \in Int, NEW r \in 0 .. M - 1, a = M * q + r
  PROVE  a % M = r
<1>1. PICK s \in 0 .. M - 1 : s = a % M /\ \E p \in Int : a = M * p + s
  BY ModDef
<1>2. PICK p \in Int : a = M * p + s
  BY <1>1
<1>3. PICK x \in Int : x = M * q
  OBVIOUS
<1>4. PICK y \in Int : y = M * p
  OBVIOUS
<1>5. M * (q - p) = x - y
  BY <1>3, <1>4, Distribute
<1>6. x + r = y + s
  BY <1>2, <1>3, <1>4
<1>7. -M < x - y /\ x - y < M
  BY <1>6
<1>8. q - p = 0
  BY <1>5, <1>7, Multiple
<1>9. x = y
  BY <1>3, <1>4, <1>8
<1>. QED
  BY <1>1, <1>6, <1>9

\* A summand may be replaced by its remainder.
LEMMA ModAdd ==
  ASSUME NEW M \in Nat \ {0}, NEW a \in Int, NEW b \in Int
  PROVE  (a + b) % M = ((a % M) + b) % M
<1>1. PICK r \in 0 .. M - 1 : r = a % M /\ \E p \in Int : a = M * p + r
  BY ModDef
<1>2. PICK p \in Int : a = M * p + r
  BY <1>1
<1>3. PICK c \in Int : c = r + b
  OBVIOUS
<1>4. PICK s \in 0 .. M - 1 : s = c % M /\ \E q \in Int : c = M * q + s
  BY ModDef
<1>5. PICK q \in Int : c = M * q + s
  BY <1>4
<1>6. PICK x \in Int : x = M * p
  OBVIOUS
<1>7. PICK y \in Int : y = M * q
  OBVIOUS
<1>8. M * (p + q) = x + y
  BY <1>6, <1>7, Distribute
<1>9. a = x + r /\ r + b = y + s
  BY <1>2, <1>3, <1>5, <1>6, <1>7
<1>10. a + b = (x + y) + s
  BY <1>9
<1>11. a + b = M * (p + q) + s /\ a + b \in Int /\ p + q \in Int
  BY <1>8, <1>10
<1>12. (a + b) % M = s
  BY <1>11, ModUnique
<1>. QED
  BY <1>1, <1>3, <1>4, <1>12

\* A remainder by a multiple of M may be taken first.
LEMMA ModMultiple ==
  ASSUME NEW M \in Nat \ {0}, NEW N \in Nat \ {0}, NEW k \in Int, N = k * M, NEW a \in Int
  PROVE  (a % N) % M = a % M
<1>1. PICK c \in 0 .. N - 1 : c = a % N /\ \E p \in Int : a = N * p + c
  BY ModDef
<1>2. PICK p \in Int : a = N * p + c
  BY <1>1
<1>3. c \in Int
  OBVIOUS
<1>4. PICK s \in 0 .. M - 1 : s = c % M /\ \E q \in Int : c = M * q + s
  BY <1>3, ModDef
<1>5. PICK q \in Int : c = M * q + s
  BY <1>4
<1>6. PICK x \in Int : x = N * p
  OBVIOUS
<1>7. x = M * (k * p)
  BY <1>6, Associate
<1>8. PICK y \in Int : y = M * q
  OBVIOUS
<1>9. M * (k * p + q) = x + y
  BY <1>7, <1>8, Distribute
<1>10. a = x + c /\ c = y + s
  BY <1>2, <1>5, <1>6, <1>8
<1>11. a = M * (k * p + q) + s
  BY <1>9, <1>10
<1>12. a % M = s
  BY <1>11, ModUnique
<1>. QED
  BY <1>1, <1>4, <1>12

\* Sums of congruent numbers with the same number are congruent.
LEMMA ModSum ==
  ASSUME NEW M \in Nat \ {0}, NEW a \in Int, NEW b \in Int, NEW c \in Int, a % M = b % M
  PROVE  (a + c) % M = (b + c) % M
<1>1. (a + c) % M = ((a % M) + c) % M /\ (b + c) % M = ((b % M) + c) % M
  BY ModAdd
<1>. QED
  BY <1>1

\* Two numbers below M that have congruent sums with the same number are equal.
LEMMA ModCancel ==
  ASSUME NEW M \in Nat \ {0}, NEW e \in Int, NEW a \in 0 .. M - 1, NEW b \in 0 .. M - 1,
         (e + a) % M = (e + b) % M
  PROVE  a = b
<1>1. PICK c \in Int : c = e + a
  OBVIOUS
<1>2. PICK d \in Int : d = e + b
  OBVIOUS
<1>3. PICK r \in 0 .. M - 1 : r = c % M /\ \E p \in Int : c = M * p + r
  BY ModDef
<1>4. PICK p \in Int : c = M * p + r
  BY <1>3
<1>5. r = d % M /\ \E q \in Int : d = M * q + r
  <2>1. d % M = r
    BY <1>1, <1>2, <1>3
  <2>. QED
    BY <2>1, ModDef
<1>6. PICK q \in Int : d = M * q + r
  BY <1>5
<1>7. PICK x \in Int : x = M * p
  OBVIOUS
<1>8. PICK y \in Int : y = M * q
  OBVIOUS
<1>9. M * (p - q) = x - y
  BY <1>7, <1>8, Distribute
<1>10. x - y = a - b
  BY <1>1, <1>2, <1>4, <1>6, <1>7, <1>8
<1>11. p - q = 0
  BY <1>9, <1>10, Multiple
<1>12. x = y
  BY <1>7, <1>8, <1>11
<1>. QED
  BY <1>10, <1>12

LEMMA ModDistinct ==
  ASSUME NEW M \in Nat \ {0}, NEW e \in Int, NEW a \in 0 .. M - 1, NEW b \in 0 .. M - 1, a # b
  PROVE  (e + a) % M # (e + b) % M
BY ModCancel

\* A multiple of M below a number, and the rest of the number.
LEMMA Blocks ==
  ASSUME NEW M \in Nat \ {0}, NEW a \in Int, NEW n \in Int, a % M = 0, 0 <= a, a < n
  PROVE  /\ a > 0 => a >= M
         /\ (a + M) % M = 0
         /\ n - a < M => n % M = n - a
<1>1. PICK r \in 0 .. M - 1 : r = a % M /\ \E q \in Int : a = M * q + r
  BY ModDef
<1>2. PICK q \in Int : a = M * q + r
  BY <1>1
<1>3. PICK x \in Int : x = M * q
  OBVIOUS
<1>4. r = 0 /\ a = x
  BY <1>1, <1>2, <1>3
<1>5. a > 0 => a >= M
  <2>1. CASE q >= 1
    <3>1. M * q >= M
      BY <2>1
    <3>. QED
      BY <1>3, <1>4, <3>1
  <2>2. CASE q <= 0
    <3>1. M * q <= 0
      BY <2>2
    <3>. QED
      BY <1>3, <1>4, <3>1
  <2>. QED
    BY <2>1, <2>2
<1>6. (a + M) % M = 0
  <2>1. PICK b \in Int, e \in Int : b = a + M /\ e = q + 1
    OBVIOUS
  <2>2. M * (q + 1) = M * q + M * 1
    BY Distribute
  <2>3. M * e = x + M
    BY <1>3, <2>1, <2>2
  <2>4. b = M * e + 0
    BY <1>4, <2>1, <2>3
  <2>5. b % M = 0
    BY <2>4, ModUnique
  <2>. QED
    BY <2>1, <2>5
<1>7. ASSUME n - a < M PROVE n % M = n - a
  <2>1. PICK s \in 0 .. M - 1 : s = n - a
    BY <1>7
  <2>2. n = M * q + s
    BY <1>3, <1>4, <2>1
  <2>3. n % M = s
    BY <2>2, ModUnique
  <2>. QED
    BY <2>1, <2>3
<1>. QED
  BY <1>5, <1>6, <1>7

\* Quotient and remainder make up the number.
LEMMA DivDef ==
  ASSUME NEW M \in Nat \ {0}, NEW a \in Int
  PROVE  a \div M \in Int /\ a % M \in 0 .. M - 1 /\ a = M * (a \div M) + (a % M)
<1>1. a % M \in 0 .. M - 1 /\ (a \div M) \in Int
  OBVIOUS
<1>. QED
  BY <1>1, SMTT(30)

LEMMA DivUnique ==
  ASSUME NEW M \in Nat \ {0}, NEW a \in Int, NEW q \in Int, NEW r \in 0 .. M - 1, a = M * q + r
  PROVE  a \div M = q /\ a % M = r
<1>1. a % M = r
  BY ModUnique, Zenon
<1>2. PICK p \in Int : p = a \div M /\ a = M * p + r
  BY <1>1, DivDef
<1>3. M * p = M * q
  <2>1. PICK x \in Int, y \in Int : x = M * p /\ y = M * q
    OBVIOUS
  <2>. QED
    BY <1>2, <2>1
<1>4. p = q
  <2>1. PICK d \in Int : d = p - q
    OBVIOUS
  <2>2. M * d = M * p - M * q
    BY <2>1, Distribute
  <2>3. M * d = 0
    BY <1>3, <2>2
  <2>4. d = 0
    BY <2>3, Multiple
  <2>. QED
    BY <2>1, <2>4
<1>. QED
  BY <1>1, <1>2, <1>4

LEMMA DivNat ==
  ASSUME NEW M \in Nat \ {0}, NEW a \in Nat
  PROVE  a \div M \in Nat /\ a % M \in 0 .. M - 1 /\ a = M * (a \div M) + (a % M)
<1>1. PICK q \in Int, r \in 0 .. M - 1 : q = a \div M /\ r = a % M /\ a = M * q + r
  BY DivDef
<1>2. q >= 0
  <2> SUFFICES ASSUME q <= -1 PROVE FALSE
    OBVIOUS
  <2>1. M * q <= -M
    OBVIOUS
  <2>2. PICK x \in Int : x = M * q
    OBVIOUS
  <2>. QED
    BY <1>1, <2>1, <2>2
<1>. QED
  BY <1>1, <1>2

\* Times in units of 1/S, as ticks of 1/H, and back: less than a tick and a unit
\* are lost.
LEMMA RoundTrip ==
  ASSUME NEW S \in Nat \ {0}, NEW H \in Nat \ {0}, NEW t \in Nat,
         NEW p, p = (t * H) \div S, NEW a, a = (p * S) \div H
  PROVE  p \in Nat /\ p * S <= t * H /\ a \in Nat /\ a <= t /\ (t - a) * H < S + H
<1>1. PICK x \in Nat : x = t * H
  OBVIOUS
<1>2. PICK r \in 0 .. S - 1 : p \in Nat /\ x = S * p + r
  BY <1>1, DivNat
<1>3. PICK y \in Nat : y = S * p /\ p * S = y
  BY <1>2
<1>4. PICK s \in 0 .. H - 1 : a \in Nat /\ y = H * a + s
  <2>1. a = y \div H
    BY <1>3
  <2>2. y \div H \in Nat /\ y % H \in 0 .. H - 1 /\ y = H * (y \div H) + (y % H)
    BY <1>3, DivNat
  <2>. QED
    BY <2>1, <2>2
<1>5. PICK z \in Nat : z = H * a
  BY <1>4
<1>6. z <= x /\ x - z < S + H
  BY <1>2, <1>3, <1>4, <1>5
<1>7. H * (t - a) = x - z
  <2>1. H * (t - a) = H * t - H * a
    BY <1>4, Distribute
  <2>2. H * t = x
    BY <1>1
  <2>. QED
    BY <1>5, <2>1, <2>2
<1>8. a <= t
  <2> SUFFICES ASSUME t - a <= -1 PROVE FALSE
    BY <1>4
  <2>1. PICK d \in Int : d = t - a /\ d <= -1
    BY <1>4
  <2>2. H * d <= -H
    BY <2>1
  <2>. QED
    BY <1>6, <1>7, <2>1, <2>2
<1>9. (t - a) * H = x - z
  BY <1>4, <1>7
<1>. QED
  BY <1>1, <1>2, <1>3, <1>4, <1>6, <1>8, <1>9

\* A number from its three digits to the base M, the first of any size.
LEMMA Digits ==
  ASSUME NEW M \in Nat \ {0}, NEW x \in Nat
  PROVE  ((x \div (M * M)) * M + ((x \div M) % M)) * M + (x % M) = x
<1>1. PICK q \in Nat, r \in 0 .. M - 1 : q = x \div M /\ r = x % M /\ x = M * q + r
  BY DivNat
<1>2. PICK t \in Nat, m \in 0 .. M - 1 : t = q \div M /\ m = q % M /\ q = M * t + m
  BY DivNat
<1>3. PICK N \in Nat \ {0} : N = M * M
  OBVIOUS
<1>4. PICK low \in Nat : low = M * m + r
  OBVIOUS
<1>5. low \in 0 .. N - 1
  <2>1. M * m <= M * (M - 1)
    OBVIOUS
  <2>2. M * (M - 1) = N - M
    <3>1. M * (M - 1) = M * M - M * 1
      BY Distribute
    <3>. QED
      BY <1>3, <3>1
  <2>3. PICK y \in Int : y = M * m
    OBVIOUS
  <2>. QED
    BY <1>4, <2>1, <2>2, <2>3
<1>6. x = N * t + low
  <2>1. PICK u \in Int : u = M * t
    OBVIOUS
  <2>2. M * q = M * u + M * m
    BY <1>2, <2>1, Distribute
  <2>3. M * u = N * t
    <3>1. (M * M) * t = M * (M * t)
      BY Associate
    <3>. QED
      BY <1>3, <2>1, <3>1
  <2>4. PICK a \in Int, b \in Int, c \in Int : a = M * u /\ b = M * m /\ c = M * q
    BY <2>1
  <2>5. c = a + b /\ a = N * t
    BY <2>2, <2>3, <2>4
  <2>6. x = c + r /\ low = b + r
    BY <1>1, <1>4, <2>4
  <2>7. x = a + low
    BY <2>4, <2>5, <2>6
  <2>. QED
    BY <2>5, <2>7
<1>7. x \div N = t
  BY <1>5, <1>6, DivUnique
<1>8. t * M + m = q
  BY <1>2
<1>9. q * M + r = x
  BY <1>1
<1>. QED
  BY <1>1, <1>2, <1>3, <1>7, <1>8, <1>9

==============================================================================
