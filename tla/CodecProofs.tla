----------------------------- MODULE CodecProofs -----------------------------
(***************************************************************************)
(* What BitReader and H264Decoder do, for any width of a byte and of a     *)
(* word, any slices, and any payloads of units.  Bits read as a number are *)
(* the bits that the number is written as, an Exp-Golomb code is found     *)
(* exactly where one lies, and no read leaves the slice: numbers are       *)
(* powers of two and prefixes of bits, both built up from below.  In a     *)
(* packet of H.264 a start code lies only where a unit begins, so the scan *)
(* finds the units that were sent, and the decoder takes of them what its  *)
(* sender expects.  Of a parameter set of H.265 the bytes that arrive are  *)
(* a beginning of those written, and each read that succeeds takes the     *)
(* code of its field: what has been read agrees with what was written.     *)
(***************************************************************************)
EXTENDS BitReader, H265Parser, H264Decoder, Remainders, SequenceTheorems

------------------------------------------------------------------------------
(* Powers of two. *)

IsPowers(g, m) ==
  /\ g \in [0 .. m -> Nat \ {0}] /\ g[0] = 1
  /\ \A i \in 1 .. m : g[i] = 2 * g[i - 1]

LEMMA PowersExist ==
  ASSUME NEW m \in Nat
  PROVE  \E g : IsPowers(g, m)
<1>. DEFINE Up(n) == \E g : IsPowers(g, n)
<1>1. Up(0)
  <2>1. PICK g : g = [i \in 0 .. 0 |-> 1]
    OBVIOUS
  <2>2. g \in [0 .. 0 -> Nat \ {0}] /\ g[0] = 1 /\ \A i \in 1 .. 0 : g[i] = 2 * g[i - 1]
    BY <2>1
  <2>. QED
    BY <2>2 DEF IsPowers
<1>2. ASSUME NEW n \in Nat, Up(n) PROVE Up(n + 1)
  <2>1. PICK g \in [0 .. n -> Nat \ {0}] : g[0] = 1 /\ \A i \in 1 .. n : g[i] = 2 * g[i - 1]
    BY <1>2 DEF IsPowers
  <2>2. PICK x \in Nat \ {0} : x = g[n]
    BY <2>1
  <2>3. PICK h : h = [i \in 0 .. n + 1 |-> IF i = n + 1 THEN 2 * x ELSE g[i]]
    OBVIOUS
  <2>4. h \in [0 .. n + 1 -> Nat \ {0}]
    BY <2>1, <2>2, <2>3
  <2>5. h[0] = 1
    BY <2>1, <2>3
  <2>6. ASSUME NEW i \in 1 .. n + 1 PROVE h[i] = 2 * h[i - 1]
    <3>1. h[i - 1] = g[i - 1]
      BY <2>3
    <3>2. CASE i = n + 1
      <4>1. h[i] = 2 * x /\ i - 1 = n
        BY <2>3, <3>2
      <4>. QED
        BY <2>2, <3>1, <4>1
    <3>3. CASE i # n + 1
      <4>1. i \in 1 .. n /\ h[i] = g[i]
        BY <2>3, <3>3
      <4>. QED
        BY <2>1, <3>1, <4>1
    <3>. QED
      BY <3>2, <3>3
  <2>. QED
    BY <2>4, <2>5, <2>6 DEF IsPowers
<1>3. Up(m)
  <2>. SUFFICES ASSUME ~Up(m) PROVE FALSE
    OBVIOUS
  <2>. DEFINE S == {n \in Nat : ~Up(n)}
  <2>1. S \subseteq Nat /\ S # {}
    <3>. HIDE DEF Up
    <3>. QED
      OBVIOUS
  <2>2. PICK n \in S : \A k \in S : n <= k
    <3>. HIDE DEF S
    <3>. QED
      BY <2>1, Least
  <2>. HIDE DEF Up
  <2>3. n \in Nat /\ ~Up(n) /\ n # 0
    BY <1>1, <2>2
  <2>4. n - 1 \in Nat /\ ~(n <= n - 1) /\ n - 1 + 1 = n
    BY <2>3
  <2>5. Up(n - 1)
    BY <2>2, <2>4
  <2>. QED
    BY <1>2, <2>3, <2>4, <2>5
<1>. QED
  BY <1>3

LEMMA PowersAgree ==
  ASSUME NEW m \in Nat, NEW n \in Nat, NEW g, NEW h, IsPowers(g, m), IsPowers(h, n),
         NEW i \in Nat, i <= m, i <= n
  PROVE  g[i] = h[i]
<1>. SUFFICES ASSUME g[i] # h[i] PROVE FALSE
  OBVIOUS
<1>. DEFINE S == {k \in Nat : k <= m /\ k <= n /\ g[k] # h[k]}
<1>1. S \subseteq Nat /\ S # {}
  OBVIOUS
<1>2. PICK k \in S : \A j \in S : k <= j
  <2>. HIDE DEF S
  <2>. QED
    BY <1>1, Least
<1>3. k \in Nat /\ k # 0 /\ g[k] # h[k] /\ k <= m /\ k <= n
  BY <1>2 DEF IsPowers
<1>4. k - 1 \in Nat /\ k - 1 <= m /\ k - 1 <= n /\ ~(k <= k - 1) /\ k \in 1 .. m /\ k \in 1 .. n
  BY <1>3
<1>5. g[k - 1] = h[k - 1]
  BY <1>2, <1>4
<1>6. g[k] = 2 * g[k - 1] /\ h[k] = 2 * h[k - 1]
  BY <1>4 DEF IsPowers
<1>. QED
  BY <1>3, <1>5, <1>6

LEMMA Powers ==
  /\ Power2[0] = 1
  /\ \A n \in Nat : Power2[n] \in Nat \ {0} /\ Power2[n + 1] = 2 * Power2[n]
<1>. DEFINE F(f) == [n \in Nat |-> IF n = 0 THEN 1 ELSE 2 * f[n - 1]]
            Upto(n) == CHOOSE g : IsPowers(g, n)
<1>1. PICK p : p = [n \in Nat |-> Upto(n)[n]]
  OBVIOUS
<1>2. \A n \in Nat : IsPowers(Upto(n), n)
  BY PowersExist
<1>. HIDE DEF Upto
<1>3. p[0] = 1
  BY <1>1, <1>2 DEF IsPowers
<1>4. ASSUME NEW n \in Nat PROVE p[n] \in Nat \ {0} /\ p[n + 1] = 2 * p[n]
  <2>1. p[n] = Upto(n)[n] /\ p[n + 1] = Upto(n + 1)[n + 1]
    BY <1>1
  <2>2. IsPowers(Upto(n), n) /\ IsPowers(Upto(n + 1), n + 1) /\ n + 1 \in Nat
    BY <1>2
  <2>3. Upto(n)[n] = Upto(n + 1)[n]
    BY <2>2, PowersAgree
  <2>4. Upto(n)[n] \in Nat \ {0}
    BY <2>2 DEF IsPowers
  <2>5. n + 1 \in 1 .. n + 1 /\ n + 1 - 1 = n
    OBVIOUS
  <2>6. Upto(n + 1)[n + 1] = 2 * Upto(n + 1)[n + 1 - 1]
    BY <2>2, <2>5 DEF IsPowers
  <2>. QED
    BY <2>1, <2>3, <2>4, <2>5, <2>6
<1>5. p = F(p)
  <2>1. ASSUME NEW n \in Nat PROVE p[n] = F(p)[n]
    <3>1. CASE n = 0
      BY <1>3, <3>1
    <3>2. CASE n # 0
      <4>1. n - 1 \in Nat /\ n - 1 + 1 = n
        BY <3>2
      <4>2. p[n] = 2 * p[n - 1]
        BY <1>4, <4>1
      <4>. QED
        BY <3>2, <4>2
    <3>. QED
      BY <3>1, <3>2
  <2>. QED
    BY <1>1, <2>1
<1>6. PICK f : f = CHOOSE h : h = F(h)
  OBVIOUS
<1>7. f = F(f)
  BY <1>5, <1>6
<1>8. Power2 = f
  BY <1>6 DEF Power2
<1>9. ASSUME NEW n \in Nat PROVE f[n] = p[n]
  <2>. SUFFICES ASSUME f[n] # p[n] PROVE FALSE
    OBVIOUS
  <2>. DEFINE S == {k \in Nat : f[k] # p[k]}
  <2>1. S \subseteq Nat /\ S # {}
    OBVIOUS
  <2>2. PICK k \in S : \A j \in S : k <= j
    <3>. HIDE DEF S
    <3>. QED
      BY <2>1, Least
  <2>3. k \in Nat /\ f[k] # p[k] /\ f[k] = F(f)[k] /\ p[k] = F(p)[k]
    BY <1>5, <1>7, <2>2, Zenon
  <2>4. k # 0
    BY <2>3
  <2>5. k - 1 \in Nat /\ ~(k <= k - 1)
    BY <2>3, <2>4
  <2>6. f[k - 1] = p[k - 1]
    BY <2>2, <2>5
  <2>. QED
    BY <2>3, <2>4, <2>6
<1>. QED
  BY <1>3, <1>4, <1>8, <1>9

LEMMA PowerAt ==
  ASSUME NEW n \in Nat
  PROVE  /\ Power2[n] \in Nat /\ Power2[n] \in Nat \ {0}
         /\ Power2[n + 1] = 2 * Power2[n] /\ Power2[n + 1] \in Nat /\ Power2[n + 1] \in Nat \ {0}
<1>1. n + 1 \in Nat
  OBVIOUS
<1>. QED
  BY <1>1, Powers

LEMMA PowersGrow ==
  ASSUME NEW i \in Nat, NEW k \in Nat, i < k
  PROVE  2 * Power2[i] <= Power2[k]
<1>. SUFFICES ASSUME ~(2 * Power2[i] <= Power2[k]) PROVE FALSE
  OBVIOUS
<1>. DEFINE S == {n \in Nat : i < n /\ ~(2 * Power2[i] <= Power2[n])}
<1>1. S \subseteq Nat /\ S # {}
  OBVIOUS
<1>2. PICK n \in S : \A j \in S : n <= j
  <2>. HIDE DEF S
  <2>. QED
    BY <1>1, Least
<1>3. n \in Nat /\ i < n /\ ~(2 * Power2[i] <= Power2[n])
  BY <1>2
<1>4. n - 1 \in Nat /\ n - 1 + 1 = n /\ i <= n - 1 /\ ~(n <= n - 1)
  BY <1>3
<1>5. PICK x \in Nat, y \in Nat, z \in Nat : x = Power2[i] /\ y = Power2[n - 1] /\ z = Power2[n] /\ z = 2 * y
  BY <1>3, <1>4, Powers
<1>6. x <= y
  <2>1. CASE i = n - 1
    BY <1>5, <2>1
  <2>2. CASE i # n - 1
    <3>1. 2 * Power2[i] <= Power2[n - 1]
      BY <1>2, <1>4, <2>2
    <3>. QED
      BY <1>5, <3>1
  <2>. QED
    BY <2>1, <2>2
<1>. QED
  BY <1>3, <1>5, <1>6

------------------------------------------------------------------------------
(* The value of a sequence of bits. *)

Bit == {0, 1}

\* g[i] is the value of the first i of bits s.
IsValue(s, g) ==
  /\ g \in [0 .. Len(s) -> Nat] /\ g[0] = 0
  /\ \A i \in 1 .. Len(s) : g[i] = 2 * g[i - 1] + s[i]

LEMMA ValueExists ==
  ASSUME NEW s \in Seq(Bit)
  PROVE  \E g : IsValue(s, g)
<1>. DEFINE Up(n) == \E g \in [0 .. n -> Nat] : g[0] = 0 /\ \A i \in 1 .. n : g[i] = 2 * g[i - 1] + s[i]
<1>1. Len(s) \in Nat /\ \A i \in 1 .. Len(s) : s[i] \in Nat
  BY DEF Bit
<1>2. Up(0)
  <2>1. PICK g : g = [i \in 0 .. 0 |-> 0]
    OBVIOUS
  <2>2. g \in [0 .. 0 -> Nat] /\ g[0] = 0 /\ \A i \in 1 .. 0 : g[i] = 2 * g[i - 1] + s[i]
    BY <2>1
  <2>. QED
    BY <2>2
<1>3. ASSUME NEW n \in 0 .. Len(s) - 1, Up(n) PROVE Up(n + 1)
  <2>1. PICK g \in [0 .. n -> Nat] : g[0] = 0 /\ \A i \in 1 .. n : g[i] = 2 * g[i - 1] + s[i]
    BY <1>3
  <2>2. PICK x \in Nat, b \in Nat : x = g[n] /\ b = s[n + 1]
    <3>1. n \in 0 .. n /\ n + 1 \in 1 .. Len(s)
      BY <1>1
    <3>2. g[n] \in Nat /\ s[n + 1] \in Nat
      BY <1>1, <2>1, <3>1
    <3>. QED
      BY <3>2
  <2>3. PICK h : h = [i \in 0 .. n + 1 |-> IF i = n + 1 THEN 2 * x + b ELSE g[i]]
    OBVIOUS
  <2>4. h \in [0 .. n + 1 -> Nat]
    BY <2>1, <2>2, <2>3
  <2>5. h[0] = 0 /\ n \in Nat
    BY <1>1, <2>1, <2>3
  <2>6. ASSUME NEW i \in 1 .. n + 1 PROVE h[i] = 2 * h[i - 1] + s[i]
    <3>1. h[i - 1] = g[i - 1]
      BY <2>3, <2>5
    <3>2. CASE i = n + 1
      <4>1. h[i] = 2 * x + b /\ i - 1 = n
        BY <2>3, <2>5, <3>2
      <4>. QED
        BY <2>2, <3>1, <3>2, <4>1
    <3>3. CASE i # n + 1
      <4>1. i \in 1 .. n /\ h[i] = g[i]
        BY <2>3, <2>5, <3>3
      <4>. QED
        BY <2>1, <3>1, <4>1
    <3>. QED
      BY <3>2, <3>3
  <2>. QED
    BY <2>4, <2>5, <2>6
<1>4. Up(Len(s))
  <2>. SUFFICES ASSUME ~Up(Len(s)) PROVE FALSE
    OBVIOUS
  <2>. DEFINE S == {n \in Nat : n <= Len(s) /\ ~Up(n)}
  <2>1. S \subseteq Nat /\ S # {}
    <3>. HIDE DEF Up
    <3>. QED
      BY <1>1
  <2>2. PICK n \in S : \A k \in S : n <= k
    <3>. HIDE DEF S
    <3>. QED
      BY <2>1, Least
  <2>. HIDE DEF Up
  <2>3. n \in Nat /\ n <= Len(s) /\ ~Up(n) /\ n # 0
    BY <1>2, <2>2
  <2>4. n - 1 \in 0 .. Len(s) - 1 /\ n - 1 \in Nat /\ ~(n <= n - 1)
    BY <1>1, <2>3
  <2>5. Up(n - 1)
    BY <1>1, <2>2, <2>3, <2>4
  <2>6. Up(n - 1 + 1)
    BY <1>3, <2>4, <2>5
  <2>7. n - 1 + 1 = n
    BY <2>3
  <2>. QED
    BY <2>3, <2>6, <2>7
<1>. QED
  BY <1>4 DEF IsValue

LEMMA ValueIs ==
  ASSUME NEW s \in Seq(Bit), NEW g, IsValue(s, g)
  PROVE  Value(s) = g[Len(s)] /\ Value(s) \in Nat
<1>. DEFINE F(f) == [i \in 0 .. Len(s) |-> IF i = 0 THEN 0 ELSE 2 * f[i - 1] + s[i]]
<1>1. Len(s) \in Nat /\ g \in [0 .. Len(s) -> Nat]
  BY DEF IsValue
<1>2. g = F(g)
  <2>1. \A i \in 0 .. Len(s) : g[i] = F(g)[i]
    BY <1>1 DEF IsValue
  <2>. QED
    BY <1>1, <2>1
<1>3. PICK f : f = CHOOSE h : h = F(h)
  OBVIOUS
<1>4. f = F(f)
  BY <1>2, <1>3
<1>5. Value(s) = f[Len(s)]
  BY <1>3 DEF Value
<1>6. \A i \in 0 .. Len(s) : f[i] = g[i]
  <2>. SUFFICES ASSUME NEW i \in 0 .. Len(s), f[i] # g[i] PROVE FALSE
    OBVIOUS
  <2>. DEFINE S == {n \in Nat : n <= Len(s) /\ f[n] # g[n]}
  <2>1. S \subseteq Nat /\ S # {}
    BY <1>1
  <2>2. PICK n \in S : \A k \in S : n <= k
    <3>. HIDE DEF S
    <3>. QED
      BY <2>1, Least
  <2>3. n \in 0 .. Len(s) /\ f[n] # g[n] /\ f[n] = F(f)[n] /\ g[n] = F(g)[n]
    <3>1. n \in 0 .. Len(s) /\ f[n] # g[n]
      BY <1>1, <2>2
    <3>2. f[n] = F(f)[n] /\ g[n] = F(g)[n]
      BY <1>2, <1>4, Zenon
    <3>. QED
      BY <3>1, <3>2
  <2>4. n # 0
    BY <2>3
  <2>5. n - 1 \in Nat /\ n - 1 <= Len(s) /\ ~(n <= n - 1)
    BY <1>1, <2>3, <2>4
  <2>6. f[n - 1] = g[n - 1]
    BY <2>2, <2>5
  <2>. QED
    BY <2>3, <2>4, <2>6
<1>. QED
  BY <1>1, <1>5, <1>6

\* A prefix is what is left when the bits behind it are dropped.
LEMMA ValuePrefix ==
  ASSUME NEW s \in Seq(Bit), NEW g, IsValue(s, g), NEW i \in 0 .. Len(s), NEW k \in i .. Len(s)
  PROVE  \E r \in 0 .. Power2[k - i] - 1 : g[k] = Power2[k - i] * g[i] + r
<1>. DEFINE Up(n) == \E r \in 0 .. Power2[n - i] - 1 : g[n] = Power2[n - i] * g[i] + r
<1>1. Len(s) \in Nat /\ g \in [0 .. Len(s) -> Nat]
  BY DEF IsValue
<1>2. Up(i)
  <2>1. i - i = 0 /\ Power2[0] = 1 /\ g[i] \in Nat
    <3>1. i \in Int
      BY <1>1
    <3>2. g[i] \in Nat
      BY <1>1
    <3>. QED
      BY <3>1, <3>2, Powers
  <2>2. 0 \in 0 .. 1 - 1 /\ g[i] = 1 * g[i] + 0
    BY <2>1
  <2>. QED
    BY <2>1, <2>2
<1>3. ASSUME NEW n \in i .. Len(s) - 1, Up(n) PROVE Up(n + 1)
  <2>1. n - i \in Nat /\ n + 1 - i = n - i + 1 /\ n + 1 \in 1 .. Len(s) /\ n + 1 - 1 = n /\ n \in 0 .. Len(s)
    BY <1>1
  <2>2. PICK P \in Nat \ {0}, Q \in Nat : P = Power2[n - i] /\ Q = Power2[n + 1 - i] /\ Q = 2 * P
    <3>1. PICK d \in Nat : d = n - i /\ d + 1 = n + 1 - i
      BY <2>1
    <3>2. Power2[d] \in Nat \ {0} /\ Power2[d + 1] = 2 * Power2[d]
      BY Powers
    <3>. QED
      BY <3>1, <3>2
  <2>3. PICK x \in Nat, y \in Nat, z \in Nat, b \in Bit : x = g[i] /\ y = g[n] /\ z = g[n + 1] /\ b = s[n + 1]
    BY <1>1, <2>1
  <2>4. PICK r \in 0 .. P - 1 : y = P * x + r
    BY <1>3, <2>2, <2>3
  <2>5. z = 2 * y + b
    BY <2>1, <2>3 DEF IsValue
  <2>6. PICK c \in Nat : c = P * x
    OBVIOUS
  <2>7. Q * x = 2 * c
    <3>1. (P * 2) * x = 2 * (P * x)
      BY Associate
    <3>2. Q = P * 2
      BY <2>2
    <3>. QED
      BY <2>6, <3>1, <3>2
  <2>8. z = 2 * c + (2 * r + b) /\ 2 * r + b \in 0 .. Q - 1
    <3>1. r \in Nat /\ r <= P - 1 /\ P \in Nat /\ Q \in Nat /\ Q = 2 * P /\ b \in Nat /\ b <= 1
      BY <2>2 DEF Bit
    <3>2. y = c + r /\ z = 2 * y + b
      BY <2>4, <2>5, <2>6
    <3>. QED
      BY ONLY <3>1, <3>2, c \in Nat, z \in Nat, y \in Nat
  <2>9. PICK e \in 0 .. Q - 1 : z = Q * x + e
    BY <2>7, <2>8
  <2>10. g[n + 1] = Power2[n + 1 - i] * g[i] + e /\ e \in 0 .. Power2[n + 1 - i] - 1
    BY <2>2, <2>3, <2>9
  <2>. QED
    BY <2>10
<1>4. Up(k)
  <2>. SUFFICES ASSUME ~Up(k) PROVE FALSE
    OBVIOUS
  <2>. DEFINE S == {n \in Nat : i <= n /\ n <= Len(s) /\ ~Up(n)}
  <2>1. S \subseteq Nat /\ S # {}
    <3>. HIDE DEF Up
    <3>. QED
      BY <1>1
  <2>2. PICK n \in S : \A j \in S : n <= j
    <3>. HIDE DEF S
    <3>. QED
      BY <2>1, Least
  <2>. HIDE DEF Up
  <2>3. n \in Nat /\ i <= n /\ n <= Len(s) /\ ~Up(n) /\ n # i
    BY <1>2, <2>2
  <2>4. n - 1 \in i .. Len(s) - 1 /\ n - 1 \in Nat /\ ~(n <= n - 1) /\ n - 1 + 1 = n
    BY <1>1, <2>3
  <2>5. Up(n - 1)
    BY <1>1, <2>2, <2>4
  <2>. QED
    BY <1>3, <2>3, <2>4, <2>5
<1>. QED
  BY <1>4

\* Bits written as the value that they are read as are the same bits.
LEMMA FixedCodeBack ==
  ASSUME NEW s \in Seq(Bit)
  PROVE  Value(s) \in Nat /\ Value(s) < Power2[Len(s)] /\ FixedCode(Value(s), Len(s)) = s
<1>1. PICK g : IsValue(s, g)
  BY ValueExists
<1>2. PICK n \in Nat, v \in Nat : n = Len(s) /\ v = Value(s) /\ v = g[n]
  BY <1>1, ValueIs
<1>3. g \in [0 .. n -> Nat] /\ g[0] = 0
  BY <1>1, <1>2 DEF IsValue
<1>4. v < Power2[n]
  <2>1. PICK P \in Nat : P = Power2[n - 0] /\ n - 0 = n
    <3>1. Power2[n] \in Nat \ {0}
      BY Powers
    <3>2. n - 0 = n
      OBVIOUS
    <3>. QED
      BY <3>1, <3>2
  <2>2. PICK r \in 0 .. Power2[n - 0] - 1 : g[n] = Power2[n - 0] * g[0] + r
    BY <1>1, <1>2, <1>3, ValuePrefix
  <2>3. v = P * 0 + r
    BY <1>2, <1>3, <2>1, <2>2
  <2>. QED
    BY <2>1, <2>2, <2>3
<1>5. ASSUME NEW i \in 1 .. n PROVE BitAt(v, n - i) = s[i]
  <2>1. i \in 0 .. n /\ n \in i .. n /\ n - i \in Nat /\ i - 1 \in 0 .. n
    OBVIOUS
  <2>2. PICK P \in Nat \ {0} : P = Power2[n - i]
    BY <2>1, Powers
  <2>3. PICK x \in Nat, y \in Nat, b \in Bit : x = g[i] /\ y = g[i - 1] /\ b = s[i] /\ x = 2 * y + b
    <3>1. g[i] \in Nat /\ g[i - 1] \in Nat /\ s[i] \in Bit
      BY <1>2, <1>3, <2>1
    <3>2. g[i] = 2 * g[i - 1] + s[i]
      BY <1>1, <1>2 DEF IsValue
    <3>. QED
      BY <3>1, <3>2
  <2>4. PICK r \in 0 .. P - 1 : v = P * x + r
    <3>1. \E r \in 0 .. Power2[n - i] - 1 : g[n] = Power2[n - i] * g[i] + r
      <4>1. i \in 0 .. Len(s) /\ n \in i .. Len(s)
        BY <1>2, <2>1
      <4>. QED
        BY <1>1, <4>1, ValuePrefix
    <3>. QED
      BY <1>2, <2>2, <2>3, <3>1
  <2>5. v \div P = x
    BY <2>4, DivUnique
  <2>6. x % 2 = b
    <3>1. PICK M \in Nat \ {0} : M = 2
      OBVIOUS
    <3>2. x = M * y + b /\ b \in 0 .. M - 1
      BY <2>3, <3>1 DEF Bit
    <3>3. x % M = b
      BY <3>2, ModUnique
    <3>. QED
      BY <3>1, <3>3
  <2>. QED
    BY <2>2, <2>3, <2>5, <2>6 DEF BitAt
<1>6. FixedCode(v, n) = s
  <2>1. FixedCode(v, n) = [i \in 1 .. n |-> BitAt(v, n - i)]
    BY DEF FixedCode
  <2>2. s = [i \in 1 .. n |-> s[i]]
    BY <1>2
  <2>. QED
    BY <1>5, <2>1, <2>2
<1>. QED
  BY <1>2, <1>4, <1>6

\* A one in front of bits u.
LEMMA LeadingOne ==
  ASSUME NEW t \in Seq(Bit), NEW u \in Seq(Bit), Len(t) = Len(u) + 1, t[1] = 1,
         \A i \in 1 .. Len(u) : t[i + 1] = u[i]
  PROVE  Value(t) = Power2[Len(u)] + Value(u)
<1>1. PICK g, h : IsValue(t, g) /\ IsValue(u, h)
  BY ValueExists
<1>2. PICK n \in Nat : n = Len(u) /\ Len(t) = n + 1
  OBVIOUS
<1>3. g \in [0 .. n + 1 -> Nat] /\ h \in [0 .. n -> Nat] /\ g[0] = 0 /\ h[0] = 0
  BY <1>1, <1>2 DEF IsValue
<1>. DEFINE Up(k) == g[k + 1] = Power2[k] + h[k]
<1>4. Up(0)
  <2>1. g[1] = 2 * g[1 - 1] + t[1]
    BY <1>1, <1>2 DEF IsValue
  <2>2. 1 - 1 = 0 /\ 0 + 1 = 1
    OBVIOUS
  <2>3. g[1] = 1
    BY <1>3, <2>1, <2>2
  <2>. QED
    BY <1>3, <2>2, <2>3, Powers
<1>5. ASSUME NEW k \in 0 .. n - 1, Up(k) PROVE Up(k + 1)
  <2>1. k \in Nat /\ k + 1 \in 1 .. n /\ k + 1 + 1 \in 1 .. n + 1 /\ k + 1 + 1 - 1 = k + 1 /\ k + 1 - 1 = k
    BY <1>2
  <2>2. g[k + 1 + 1] = 2 * g[k + 1 + 1 - 1] + t[k + 1 + 1]
    BY <1>1, <1>2, <2>1 DEF IsValue
  <2>3. h[k + 1] = 2 * h[k + 1 - 1] + u[k + 1]
    BY <1>1, <1>2, <2>1 DEF IsValue
  <2>4. t[k + 1 + 1] = u[k + 1]
    BY <1>2, <2>1
  <2>5. PICK P \in Nat \ {0} : P = Power2[k] /\ Power2[k + 1] = 2 * P
    BY <2>1, Powers
  <2>6. PICK x \in Nat, y \in Nat, b \in Nat : x = h[k] /\ y = h[k + 1] /\ b = u[k + 1]
    <3>1. k \in 0 .. n /\ k + 1 \in 0 .. n
      BY <1>2, <2>1
    <3>2. h[k] \in Nat /\ h[k + 1] \in Nat
      BY <1>3, <3>1
    <3>3. u[k + 1] \in Nat
      BY <1>2, <2>1 DEF Bit
    <3>. QED
      BY <3>2, <3>3
  <2>7. g[k + 1] = P + x
    BY <1>5, <2>5, <2>6
  <2>8. g[k + 1 + 1] = 2 * (P + x) + b /\ y = 2 * x + b
    BY <2>1, <2>2, <2>3, <2>4, <2>6, <2>7
  <2>9. 2 * (P + x) + b = 2 * P + y
    BY ONLY <2>8, P \in Nat \ {0}, x \in Nat, b \in Nat, y \in Nat
  <2>. QED
    BY <2>5, <2>6, <2>8, <2>9
<1>6. Up(n)
  <2>. SUFFICES ASSUME ~Up(n) PROVE FALSE
    OBVIOUS
  <2>. DEFINE S == {k \in Nat : k <= n /\ ~Up(k)}
  <2>1. S \subseteq Nat /\ S # {}
    <3>. HIDE DEF Up
    <3>. QED
      BY <1>2
  <2>2. PICK k \in S : \A j \in S : k <= j
    <3>. HIDE DEF S
    <3>. QED
      BY <2>1, Least
  <2>. HIDE DEF Up
  <2>3. k \in Nat /\ k <= n /\ ~Up(k) /\ k # 0
    BY <1>4, <2>2
  <2>4. k - 1 \in 0 .. n - 1 /\ k - 1 \in Nat /\ ~(k <= k - 1) /\ k - 1 + 1 = k /\ k - 1 <= n
    BY <1>2, <2>3
  <2>5. Up(k - 1)
    BY <2>2, <2>4
  <2>. QED
    BY <1>5, <2>3, <2>4, <2>5
<1>. QED
  BY <1>1, <1>2, <1>6, ValueIs

LEMMA MagnitudeIs ==
  ASSUME NEW v \in Nat, NEW m \in 0 .. WordBits, Power2[m] <= v + 1, v + 1 < Power2[m + 1]
  PROVE  Magnitude(v) = m
<1>1. WordBits \in Nat
  BY WidthAssumption
<1>2. PICK k \in 0 .. WordBits : k = Magnitude(v) /\ Power2[k] <= v + 1 /\ v + 1 < Power2[k + 1]
  BY DEF Magnitude
<1>3. ASSUME NEW a \in Nat, NEW b \in Nat, Power2[b] <= v + 1, v + 1 < Power2[a + 1], a < b PROVE FALSE
  <2>1. PICK x \in Nat, y \in Nat, z \in Nat : x = Power2[a] /\ y = Power2[b] /\ z = Power2[a + 1] /\ z = 2 * x
    <3>1. Power2[a] \in Nat /\ Power2[a + 1] \in Nat /\ Power2[a + 1] = 2 * Power2[a] /\ Power2[b] \in Nat
      BY PowerAt
    <3>. QED
      BY <3>1
  <2>2. 2 * x <= y
    BY <1>3, <2>1, PowersGrow
  <2>. QED
    BY <1>3, <2>1, <2>2
<1>4. k \in Nat /\ m \in Nat
  BY <1>1
<1>. QED
  BY <1>2, <1>3, <1>4

\* The value of a code: z zeros, a one and z bits u.
LEMMA GolombBack ==
  ASSUME NEW z \in 0 .. WordBits - 1, NEW t \in Seq(Bit), NEW u \in Seq(Bit), Len(u) = z,
         Len(t) = z + 1, t[1] = 1, \A i \in 1 .. z : t[i + 1] = u[i],
         NEW v, v = Power2[z] + Value(u) - 1
  PROVE  v \in Nat /\ v < Power2[WordBits] /\ GolombCode(v) = [i \in 1 .. z |-> 0] \o t
<1>1. WordBits \in Nat /\ z \in Nat /\ z \in 0 .. WordBits
  BY WidthAssumption
<1>2. PICK P \in Nat \ {0}, Q \in Nat \ {0} : P = Power2[z] /\ Q = Power2[z + 1] /\ Q = 2 * P
  <2>1. /\ Power2[z] \in Nat \ {0} /\ Power2[z + 1] \in Nat \ {0}
        /\ Power2[z + 1] = 2 * Power2[z]
    BY <1>1, PowerAt
  <2>. QED
    BY <2>1
<1>3. PICK x \in Nat : x = Value(u) /\ x < P
  <2>1. Value(u) \in Nat /\ Value(u) < Power2[Len(u)]
    BY FixedCodeBack
  <2>. QED
    BY <1>2, <2>1
<1>4. v \in Nat /\ v = P + x - 1 /\ P <= v + 1 /\ v + 1 < Q
  <2>1. v = P + x - 1
    BY <1>2, <1>3
  <2>. QED
    <3>1. Q = 2 * P /\ x < P
      BY <1>2, <1>3
    <3>2. P \in Nat /\ P >= 1 /\ x \in Nat
      OBVIOUS
    <3>3. v \in Nat
      BY ONLY <2>1, <3>2
    <3>. QED
      BY ONLY <2>1, <3>1, <3>2, <3>3
<1>5. v < Power2[WordBits]
  <2>1. PICK W \in Nat : W = Power2[WordBits]
    BY <1>1, Powers
  <2>2. 2 * Power2[z] <= Power2[WordBits]
    BY <1>1, PowersGrow
  <2>. QED
    BY <1>2, <1>4, <2>1, <2>2
<1>6. Magnitude(v) = z
  BY <1>1, <1>2, <1>4, MagnitudeIs
<1>7. Value(t) = v + 1
  <2>1. Value(t) = Power2[Len(u)] + Value(u)
    <3>1. Len(t) = Len(u) + 1 /\ \A i \in 1 .. Len(u) : t[i + 1] = u[i]
      OBVIOUS
    <3>. QED
      BY <3>1, LeadingOne
  <2>2. Value(t) = P + x
    BY <1>2, <1>3, <2>1
  <2>. QED
    BY <1>4, <2>2
<1>8. FixedCode(v + 1, z + 1) = t
  BY <1>7, FixedCodeBack
<1>9. GolombCode(v) = [i \in 1 .. z |-> 0] \o FixedCode(v + 1, z + 1)
  BY <1>6 DEF GolombCode
<1>. QED
  BY <1>4, <1>5, <1>8, <1>9

------------------------------------------------------------------------------
(* The reads. *)

SliceReaders == [data : {s \in Seq(Bit) : Len(s) % ByteBits = 0}, pos : Nat]

\* A reader within its slice.
InSlice(r) == r \in SliceReaders /\ r.pos <= Len(r.data)

\* Where the first one is, if there is one.
LEMMA LeadingZerosIs ==
  ASSUME NEW r, InSlice(r)
  PROVE  \/ LeadingZeros(r) \in Int /\ LeadingZeros(r) < 0 /\ \A i \in r.pos + 1 .. Len(r.data) : r.data[i] = 0
         \/ /\ LeadingZeros(r) \in Nat /\ r.pos + LeadingZeros(r) + 1 <= Len(r.data)
            /\ r.data[r.pos + LeadingZeros(r) + 1] = 1
            /\ \A i \in r.pos + 1 .. r.pos + LeadingZeros(r) : r.data[i] = 0
<1>1. PICK d \in Seq(Bit), p \in Nat : d = r.data /\ p = r.pos /\ p <= Len(d)
  BY DEF InSlice, SliceReaders
<1>2. PICK n \in Nat : n = Len(d)
  OBVIOUS
<1>3. PICK I : I = {i \in p + 1 .. n : d[i] = 1}
  OBVIOUS
<1>4. LeadingZeros(r) = (IF I # {} THEN Min(I) ELSE 0) - p - 1
  BY <1>1, <1>2, <1>3 DEF LeadingZeros, SelectInSubSeq
<1>5. CASE I = {}
  <2>1. LeadingZeros(r) = 0 - p - 1
    BY <1>4, <1>5
  <2>2. \A i \in p + 1 .. n : d[i] # 1
    BY <1>3, <1>5
  <2>3. \A i \in p + 1 .. n : d[i] = 0
    BY <1>1, <1>2, <2>2 DEF Bit
  <2>. QED
    BY <1>1, <1>2, <2>1, <2>3
<1>6. CASE I # {}
  <2>1. I \subseteq Nat
    BY <1>3
  <2>2. PICK m \in I : \A k \in I : m <= k
    BY <1>6, <2>1, Least
  <2>3. Min(I) = m
    <3>1. \E x \in I : \A y \in I : x <= y
      BY <2>2
    <3>2. PICK x \in I : x = Min(I) /\ \A y \in I : x <= y
      BY <3>1 DEF Min
    <3>. QED
      BY <2>1, <2>2, <3>2
  <2>4. m \in p + 1 .. n /\ d[m] = 1
    BY <1>3, <2>2
  <2>5. PICK z \in Nat : z = m - p - 1
    BY <2>4
  <2>6. LeadingZeros(r) = z
    BY <1>4, <1>6, <2>3, <2>5
  <2>7. p + z + 1 = m /\ m <= n
    BY <2>4, <2>5
  <2>8. ASSUME NEW i \in p + 1 .. p + z PROVE d[i] = 0
    <3>1. i \in 1 .. n /\ i \in p + 1 .. n /\ ~(m <= i)
      BY <2>4, <2>5
    <3>2. d[i] # 1
      BY <1>3, <2>2, <3>1
    <3>. QED
      BY <1>1, <1>2, <3>1, <3>2 DEF Bit
  <2>. QED
    BY <1>1, <1>2, <2>4, <2>6, <2>7, <2>8
<1>. QED
  BY <1>5, <1>6

\* What a read o of r is that leaves the reader at p.
Leaves(r, o, p) ==
  /\ o.reader.data = r.data /\ o.reader.pos = p /\ o.reader \in SliceReaders
  /\ p \in Nat /\ r.pos <= p /\ p <= Len(r.data)

LEMMA SliceFacts ==
  ASSUME NEW r, InSlice(r)
  PROVE  /\ r.pos \in Nat /\ Len(r.data) \in Nat /\ r.data \in Seq(Bit)
         /\ r.pos <= Len(r.data) /\ Len(r.data) % ByteBits = 0
         /\ available_bits(r) \in Nat /\ r.pos + available_bits(r) = Len(r.data)
BY DEF InSlice, SliceReaders, available_bits

LEMMA GotIs ==
  ASSUME NEW r, InSlice(r), NEW n \in Nat, n <= available_bits(r), NEW v
  PROVE  /\ Got(r, n, v).ok /\ Got(r, n, v).value = v /\ Leaves(r, Got(r, n, v), r.pos + n)
         /\ ~Failed(r, n).ok /\ Failed(r, n).value = 0 /\ Leaves(r, Failed(r, n), r.pos + n)
         /\ InSlice(Advanced(r, n)) /\ Advanced(r, n).pos = r.pos + n /\ Advanced(r, n).data = r.data
<1>1. /\ r.pos \in Nat /\ Len(r.data) \in Nat /\ r.data \in Seq(Bit)
      /\ r.pos + available_bits(r) = Len(r.data) /\ available_bits(r) \in Nat
  BY SliceFacts
<1>2. r.pos + n \in Nat /\ r.pos <= r.pos + n /\ r.pos + n <= Len(r.data)
  BY <1>1
<1>3. PICK a : a = Advanced(r, n)
  OBVIOUS
<1>4. a \in SliceReaders /\ a.data = r.data /\ a.pos = r.pos + n
  BY <1>2, <1>3 DEF Advanced, InSlice, SliceReaders
<1>5. InSlice(a)
  BY <1>2, <1>4 DEF InSlice
<1>6. /\ Got(r, n, v).reader = a /\ Got(r, n, v).ok /\ Got(r, n, v).value = v
      /\ Failed(r, n).reader = a /\ ~Failed(r, n).ok /\ Failed(r, n).value = 0
  BY <1>3 DEF Got, Failed
<1>. QED
  BY <1>2, <1>3, <1>4, <1>5, <1>6 DEF Leaves

LEMMA ReadBitsIs ==
  ASSUME NEW r, InSlice(r), NEW n \in Nat
  PROVE  LET o == read_bits(r, n) IN
         /\ n > WordBits => ~o.ok /\ Leaves(r, o, r.pos)
         /\ n <= WordBits /\ n > available_bits(r) => ~o.ok /\ Leaves(r, o, Len(r.data))
         /\ n <= WordBits /\ n <= available_bits(r) =>
              /\ o.ok /\ o.value = Value(SubSeq(r.data, r.pos + 1, r.pos + n))
              /\ Leaves(r, o, r.pos + n)
<1>1. /\ r.pos \in Nat /\ available_bits(r) \in Nat /\ r.pos + available_bits(r) = Len(r.data)
      /\ WordBits \in Nat
  BY SliceFacts, WidthAssumption
<1>2. ~Failed(r, 0).ok /\ Leaves(r, Failed(r, 0), r.pos)
  <2>1. 0 \in Nat /\ 0 <= available_bits(r) /\ r.pos + 0 = r.pos
    BY <1>1
  <2>2. ~Failed(r, 0).ok /\ Leaves(r, Failed(r, 0), r.pos + 0)
    BY <2>1, GotIs
  <2>. QED
    BY <2>1, <2>2
<1>3. ~Failed(r, available_bits(r)).ok /\ Leaves(r, Failed(r, available_bits(r)), Len(r.data))
  <2>1. available_bits(r) <= available_bits(r)
    BY <1>1
  <2>2. /\ ~Failed(r, available_bits(r)).ok
        /\ Leaves(r, Failed(r, available_bits(r)), r.pos + available_bits(r))
    BY <1>1, <2>1, GotIs
  <2>. QED
    BY <1>1, <2>2
<1>4. CASE n > WordBits
  BY <1>1, <1>2, <1>4 DEF read_bits
<1>5. CASE n <= WordBits /\ n > available_bits(r)
  BY <1>1, <1>3, <1>5 DEF read_bits
<1>6. CASE n <= WordBits /\ n <= available_bits(r)
  <2>1. read_bits(r, n) = Got(r, n, Value(SubSeq(r.data, r.pos + 1, r.pos + n)))
    BY <1>1, <1>6 DEF read_bits
  <2>2. PICK v : v = Value(SubSeq(r.data, r.pos + 1, r.pos + n))
    OBVIOUS
  <2>3. Got(r, n, v).ok /\ Got(r, n, v).value = v /\ Leaves(r, Got(r, n, v), r.pos + n)
    BY <1>6, GotIs
  <2>. QED
    BY <1>1, <1>6, <2>1, <2>2, <2>3
<1>. QED
  BY <1>1, <1>4, <1>5, <1>6

\* b and e are the ends of the n bits after the first a of d.
Ends(d, a, n, b, e) == b = a + 1 /\ e = a + n /\ e <= Len(d)

\* u is the n bits after the first a of d.
Lies(u, d, a, n) == u \in Seq(Bit) /\ Len(u) = n /\ \A i \in 1 .. n : u[i] = d[a + i]

\* The bits between two places of a slice.
LEMMA Between ==
  ASSUME NEW d \in Seq(Bit), NEW a \in Nat, NEW n \in Nat, NEW b \in Nat, NEW e \in Nat,
         Ends(d, a, n, b, e)
  PROVE  Lies(SubSeq(d, b, e), d, a, n)
<1>. DEFINE u == SubSeq(d, b, e)
<1>0. b = a + 1 /\ e = a + n /\ e <= Len(d)
  BY DEF Ends
<1>1. PICK m \in Nat : m = Len(d) /\ a + n <= m
  BY <1>0
<1>2. \A i \in a + 1 .. a + n : i \in 1 .. m /\ d[i] \in Bit
  BY <1>1
<1>3. u = [i \in 1 .. n |-> d[a + i]]
  BY <1>0, <1>1
<1>4. \A i \in 1 .. n : d[a + i] \in Bit
  BY <1>2
<1>5. u \in [1 .. n -> Bit]
  BY <1>3, <1>4
<1>6. u \in Seq(Bit) /\ Len(u) = n
  <2>1. PICK f : f = u
    OBVIOUS
  <2>2. f \in [1 .. n -> Bit]
    BY <1>5, <2>1
  <2>3. f \in Seq(Bit) /\ Len(f) = n
    BY ONLY <2>2, n \in Nat
  <2>. QED
    BY <2>1, <2>3
<1>7. \A i \in 1 .. n : u[i] = d[a + i]
  BY <1>3
<1>. QED
  BY <1>6, <1>7 DEF Lies

\* An outcome of a read, as a record.
ReadRecord(ok, v, left) == [ok |-> ok, value |-> v, reader |-> left]

\* A code of Exp-Golomb is read exactly where one of u32 lies.
LEMMA GolombRead ==
  ASSUME NEW r, InSlice(r), NEW o, o = read_golomb(r)
  PROVE  /\ \E p : Leaves(r, o, p)
         /\ o = ReadRecord(o.ok, o.value, o.reader) /\ o.ok \in BOOLEAN
         /\ o.ok <=> HasCode(r.data, r.pos)
         /\ o.ok => o.value \in Nat /\ SubSeq(r.data, r.pos + 1, o.reader.pos) = GolombCode(o.value)
<1>1. PICK d \in Seq(Bit), p \in Nat, n \in Nat, avail \in Nat :
        /\ d = r.data /\ p = r.pos /\ n = Len(d) /\ avail = available_bits(r) /\ p + avail = n
  BY SliceFacts
<1>2. WordBits \in Nat /\ WordBits > 0 /\ MaxZeros = WordBits - 1
  BY WidthAssumption DEF MaxZeros
<1>3. PICK z : z = LeadingZeros(r)
  OBVIOUS
<1>4. \/ z \in Int /\ z < 0 /\ \A i \in p + 1 .. n : d[i] = 0
      \/ /\ z \in Nat /\ p + z + 1 <= n /\ d[p + z + 1] = 1
         /\ \A i \in p + 1 .. p + z : d[i] = 0
  BY <1>1, <1>3, LeadingZerosIs
\* Any code that lies there has these zeros.
<1>5. ASSUME NEW m \in 0 .. WordBits - 1, p + 2 * m + 1 <= n, d[p + m + 1] = 1,
             \A i \in p + 1 .. p + m : d[i] = 0
      PROVE  z = m
  <2>1. m \in Nat /\ p + m + 1 \in p + 1 .. n /\ p + m + 1 \in Nat
    <3>1. m \in 0 .. WordBits - 1 /\ p + 2 * m + 1 <= n
      BY <1>5
    <3>. QED
      BY ONLY <1>2, <3>1, p \in Nat, n \in Nat
  <2>2. z \in Nat /\ p + z + 1 <= n /\ d[p + z + 1] = 1 /\ \A i \in p + 1 .. p + z : d[i] = 0
    BY <1>4, <1>5, <2>1
  <2>3. ~(z < m)
    <3>1. z < m => p + z + 1 \in p + 1 .. p + m
      BY ONLY <2>1, <2>2, p \in Nat
    <3>. QED
      BY <1>5, <2>2, <3>1
  <2>4. ~(m < z)
    <3>1. m < z => p + m + 1 \in p + 1 .. p + z
      BY ONLY <2>1, <2>2, p \in Nat
    <3>. QED
      BY <1>5, <2>2, <3>1
  <2>. QED
    BY <2>1, <2>2, <2>3, <2>4
<1>6. CASE z < 0 \/ z > MaxZeros
  <2>1. PICK k : k = IF z > MaxZeros \/ avail > MaxZeros THEN MaxZeros + 1 ELSE avail
    OBVIOUS
  <2>2. o = Failed(r, k)
    BY <1>1, <1>3, <1>6, <2>1 DEF read_golomb
  <2>3. k \in Nat /\ k <= avail
    BY <1>1, <1>2, <1>4, <1>6, <2>1
  <2>4. Leaves(r, o, p + k) /\ ~o.ok /\ o = ReadRecord(FALSE, 0, Advanced(r, k))
    <3>1. ~Failed(r, k).ok /\ Leaves(r, Failed(r, k), r.pos + k)
      BY <1>1, <2>3, GotIs
    <3>. QED
      BY <1>1, <2>2, <3>1 DEF Failed, ReadRecord
  <2>5. ~HasCode(d, p)
    <3>. SUFFICES ASSUME NEW m \in 0 .. WordBits - 1, p + 2 * m + 1 <= n, d[p + m + 1] = 1,
                         \A i \in p + 1 .. p + m : d[i] = 0
                  PROVE  FALSE
      BY <1>1 DEF HasCode
    <3>1. z = m
      BY <1>5
    <3>. QED
      BY <1>2, <1>6, <3>1
  <2>6. o.ok = FALSE /\ o.value = 0 /\ o.reader = Advanced(r, k)
    BY <2>4 DEF ReadRecord
  <2>. QED
    BY <1>1, <2>4, <2>5, <2>6
<1>7. CASE ~(z < 0 \/ z > MaxZeros)
  <2>1. /\ z \in Nat /\ z \in 0 .. WordBits - 1 /\ p + z + 1 <= n /\ d[p + z + 1] = 1
        /\ \A i \in p + 1 .. p + z : d[i] = 0
    BY <1>2, <1>4, <1>7
  <2>0. z \in Nat
    BY <2>1
  <2>2. PICK r1 : r1 = Advanced(r, z + 1)
    OBVIOUS
  <2>3. InSlice(r1) /\ r1.pos = p + (z + 1) /\ r1.data = d
    <3>1. z + 1 \in Nat /\ z + 1 <= available_bits(r)
      BY <1>1, <2>1
    <3>2. InSlice(Advanced(r, z + 1)) /\ Advanced(r, z + 1).pos = r.pos + (z + 1) /\ Advanced(r, z + 1).data = r.data
      BY <3>1, GotIs
    <3>. QED
      BY <1>1, <2>2, <3>2
  <2>4. PICK avail1 \in Nat : avail1 = available_bits(r1) /\ p + (z + 1) + avail1 = n
    BY <1>1, <2>3, SliceFacts
  <2>5. PICK info : info = read_bits(r1, z)
    OBVIOUS
  <2>6. o = IF ~info.ok THEN info ELSE [info EXCEPT !.value = (Power2[z] + @ - 1) % Power2[WordBits]]
    BY <1>3, <1>7, <2>2, <2>5 DEF read_golomb
  <2>7. CASE z > avail1
    <3>1. info = Failed(r1, avail1) /\ ~info.ok /\ Leaves(r1, info, n)
      <4>1. z <= WordBits /\ ~(z > WordBits)
        BY <1>2, <2>1
      <4>2. ~info.ok /\ Leaves(r1, info, Len(r1.data))
        BY <2>1, <2>3, <2>4, <2>5, <2>7, <4>1, ReadBitsIs
      <4>3. info = Failed(r1, avail1)
        BY <2>4, <2>5, <2>7, <4>1 DEF read_bits
      <4>. QED
        BY <1>1, <2>3, <4>2, <4>3
    <3>2. o = info /\ o = ReadRecord(FALSE, 0, Advanced(r1, avail1))
      BY <2>6, <3>1 DEF Failed, ReadRecord
    <3>3. o.ok = FALSE /\ o.value = 0 /\ o.reader = Advanced(r1, avail1)
      BY <3>2 DEF ReadRecord
    <3>4. Leaves(r, o, n)
      <4>1. /\ o.reader.data = d /\ o.reader.pos = n /\ o.reader \in SliceReaders
        BY <2>3, <3>1, <3>2 DEF Leaves
      <4>2. n \in Nat /\ p <= n /\ n <= n
        BY ONLY <1>1, p \in Nat, n \in Nat, avail \in Nat
      <4>. QED
        BY <1>1, <4>1, <4>2 DEF Leaves
    <3>5. ~HasCode(d, p)
      <4>. SUFFICES ASSUME NEW m \in 0 .. WordBits - 1, p + 2 * m + 1 <= n, d[p + m + 1] = 1,
                           \A i \in p + 1 .. p + m : d[i] = 0
                    PROVE  FALSE
        BY <1>1 DEF HasCode
      <4>1. z = m
        BY <1>5
      <4>. QED
        BY <1>1, <2>1, <2>4, <2>7, <4>1
    <3>. QED
      BY <1>1, <3>2, <3>3, <3>4, <3>5
  <2>8. CASE z <= avail1
    <3>1. PICK u : u = SubSeq(d, p + (z + 1) + 1, p + (z + 1) + z)
      OBVIOUS
    <3>2. info = Got(r1, z, Value(u)) /\ info.ok /\ Leaves(r1, info, p + (z + 1) + z)
      <4>1. z <= WordBits /\ ~(z > WordBits) /\ ~(z > avail1)
        BY <1>2, <2>1, <2>4, <2>8
      <4>2. info = Got(r1, z, Value(u))
        BY <2>3, <2>4, <2>5, <3>1, <4>1 DEF read_bits
      <4>3. Got(r1, z, Value(u)).ok /\ Leaves(r1, Got(r1, z, Value(u)), r1.pos + z)
        BY <2>1, <2>3, <2>4, <2>8, GotIs
      <4>. QED
        BY <2>3, <4>2, <4>3
    <3>3. PICK w : w = (Power2[z] + Value(u) - 1) % Power2[WordBits]
      OBVIOUS
    <3>4. o = ReadRecord(TRUE, w, Advanced(r1, z))
      BY <2>6, <3>2, <3>3 DEF Got, ReadRecord
    <3>5. o.ok = TRUE /\ o.value = w /\ o.reader = Advanced(r1, z) /\ o.reader = info.reader
      BY <3>2, <3>4 DEF ReadRecord, Got
    <3>6. Leaves(r, o, p + (z + 1) + z)
      BY <1>1, <2>1, <2>3, <3>2, <3>5 DEF Leaves
    <3>7. p + (z + 1) + z <= n
      BY <1>1, <2>1, <2>4, <2>8
    <3>8. HasCode(d, p)
      <4>1. p + 2 * z + 1 <= n
        BY ONLY <2>1, <3>7, p \in Nat, n \in Nat
      <4>. QED
        BY <1>1, <2>1, <4>1 DEF HasCode
    \* The one and what follows it, and all of the code.
    <3>9. PICK t : t = SubSeq(d, p + z + 1, p + z + (z + 1))
      OBVIOUS
    <3>10. PICK c : c = SubSeq(d, p + 1, p + (z + (z + 1)))
      OBVIOUS
    <3>11. /\ u \in Seq(Bit) /\ Len(u) = z /\ \A i \in 1 .. z : u[i] = d[p + (z + 1) + i]
      <4>1. PICK a \in Nat : a = p + (z + 1)
        BY <2>1
      <4>2. PICK k \in Nat, b \in Nat, e \in Nat : k = z /\ b = a + 1 /\ e = a + k /\ e <= Len(d)
        <5>1. a + z <= Len(d)
          BY <1>1, <3>7, <4>1
        <5>2. z \in Nat
          BY <2>0, <2>1
        <5>3. z = z /\ a + 1 = a + 1 /\ a + z = a + z /\ a + 1 \in Nat /\ a + z \in Nat
          BY ONLY <5>2, a \in Nat
        <5>. QED
          BY <5>1, <5>2, <5>3
      <4>3. u = SubSeq(d, b, e) /\ Ends(d, a, k, b, e)
        BY <1>1, <3>1, <4>1, <4>2 DEF Ends
      <4>4. Lies(SubSeq(d, b, e), d, a, k)
        BY <4>3, Between, Zenon
      <4>. QED
        BY <1>1, <4>1, <4>2, <4>3, <4>4 DEF Lies
    <3>12. /\ t \in Seq(Bit) /\ Len(t) = z + 1 /\ \A i \in 1 .. z + 1 : t[i] = d[p + z + i]
      <4>1. p + z \in Nat /\ z + 1 \in Nat /\ p + z + (z + 1) <= n
        BY ONLY <2>1, <3>7, p \in Nat, n \in Nat
      <4>2. PICK a \in Nat, k \in Nat, b \in Nat, e \in Nat :
              a = p + z /\ k = z + 1 /\ b = a + 1 /\ e = a + k /\ e <= Len(d)
        BY <1>1, <4>1
      <4>3. t = SubSeq(d, b, e) /\ Ends(d, a, k, b, e)
        BY <1>1, <3>9, <4>2 DEF Ends
      <4>4. Lies(SubSeq(d, b, e), d, a, k)
        BY <4>3, Between, Zenon
      <4>. QED
        BY <1>1, <4>2, <4>3, <4>4 DEF Lies
    <3>13. /\ c \in Seq(Bit) /\ Len(c) = z + (z + 1) /\ \A i \in 1 .. z + (z + 1) : c[i] = d[p + i]
      <4>1. z + (z + 1) \in Nat /\ p + (z + (z + 1)) <= n
        BY ONLY <2>1, <3>7, p \in Nat, n \in Nat
      <4>2. PICK k \in Nat, b \in Nat, e \in Nat :
              k = z + (z + 1) /\ b = p + 1 /\ e = p + k /\ e <= Len(d)
        BY <1>1, <4>1
      <4>3. c = SubSeq(d, b, e) /\ Ends(d, p, k, b, e)
        BY <1>1, <3>10, <4>2 DEF Ends
      <4>4. Lies(SubSeq(d, b, e), d, p, k)
        BY <4>3, Between, Zenon
      <4>. QED
        BY <1>1, <4>2, <4>3, <4>4 DEF Lies
    <3>14. t[1] = 1 /\ \A i \in 1 .. z : t[i + 1] = u[i]
      <4>1. t[1] = d[p + z + 1]
        BY <2>1, <3>12
      <4>2. ASSUME NEW i \in 1 .. z PROVE t[i + 1] = u[i]
        <5>1. i + 1 \in 1 .. z + 1 /\ p + z + (i + 1) = p + (z + 1) + i
          BY ONLY <2>0, p \in Nat, i \in 1 .. z
        <5>2. t[i + 1] = d[p + z + (i + 1)] /\ u[i] = d[p + (z + 1) + i]
          BY <3>11, <3>12, <5>1
        <5>. QED
          BY <5>1, <5>2
      <4>. QED
        BY <2>1, <4>1, <4>2
    <3>15. PICK v : v = Power2[z] + Value(u) - 1
      OBVIOUS
    <3>16. /\ v \in Nat /\ v < Power2[WordBits]
           /\ GolombCode(v) = [i \in 1 .. z |-> 0] \o t
      BY <2>1, <3>11, <3>12, <3>14, <3>15, GolombBack
    <3>17. w = v
      <4>1. PICK W \in Nat \ {0} : W = Power2[WordBits]
        BY <1>2, PowerAt
      <4>2. v = W * 0 + v /\ v \in 0 .. W - 1 /\ v \in Int
        BY <3>16, <4>1
      <4>3. v % W = v
        BY <4>2, ModUnique
      <4>. QED
        BY <3>3, <3>15, <4>1, <4>3
    <3>18. c = [i \in 1 .. z |-> 0] \o t
      <4>1. PICK e : e = [i \in 1 .. z |-> 0]
        OBVIOUS
      <4>2. e \in Seq(Bit) /\ Len(e) = z /\ \A i \in 1 .. z : e[i] = 0
        BY <2>1, <4>1 DEF Bit
      <4>3. /\ Len(e \o t) = z + (z + 1) /\ e \o t \in Seq(Bit)
            /\ \A i \in 1 .. z + (z + 1) : (e \o t)[i] = IF i <= z THEN e[i] ELSE t[i - z]
        <5>1. /\ Len(e \o t) = Len(e) + Len(t) /\ e \o t \in Seq(Bit)
              /\ \A i \in 1 .. Len(e) + Len(t) : (e \o t)[i] = IF i <= Len(e) THEN e[i] ELSE t[i - Len(e)]
          <6>1. t \in Seq(Bit) /\ e \in Seq(Bit)
            BY <3>12, <4>2
          <6>. QED
            BY ONLY <6>1, ConcatProperties
        <5>. QED
          BY <3>12, <4>2, <5>1
      <4>4. ASSUME NEW i \in 1 .. z + (z + 1) PROVE c[i] = (e \o t)[i]
        <5>1. CASE i <= z
          <6>1. i \in 1 .. z /\ p + i \in p + 1 .. p + z
            BY <1>1, <2>1, <5>1
          <6>. QED
            BY <2>1, <3>13, <4>2, <4>3, <5>1, <6>1
        <5>2. CASE i > z
          <6>1. i - z \in 1 .. z + 1 /\ p + z + (i - z) = p + i /\ ~(i <= z)
            BY ONLY <2>0, <5>2, p \in Nat, i \in 1 .. z + (z + 1)
          <6>2. (e \o t)[i] = t[i - z]
            BY <4>3, <6>1
          <6>3. t[i - z] = d[p + z + (i - z)]
            BY <3>12, <6>1
          <6>. QED
            BY <3>13, <6>1, <6>2, <6>3
        <5>3. i <= z \/ i > z
          BY ONLY <2>0, i \in 1 .. z + (z + 1)
        <5>. QED
          BY <5>1, <5>2, <5>3
      <4>5. c = e \o t
        BY <3>13, <4>3, <4>4
      <4>. QED
        BY <4>1, <4>5
    <3>19. SubSeq(r.data, r.pos + 1, o.reader.pos) = c
      <4>1. o.reader.pos = p + (z + 1) + z
        BY <3>6 DEF Leaves
      <4>2. p + (z + 1) + z = p + (z + (z + 1))
        BY ONLY <2>0, p \in Nat
      <4>. QED
        BY <1>1, <3>10, <4>1, <4>2
    <3>. QED
      BY <1>1, <3>4, <3>5, <3>6, <3>8, <3>16, <3>17, <3>18, <3>19
  <2>. QED
    BY <2>1, <2>4, <2>7, <2>8
<1>. QED
  BY <1>6, <1>7

LEMMA SignedRead ==
  ASSUME NEW r, InSlice(r), NEW o, o = read_signed_golomb(r)
  PROVE  /\ \E p : Leaves(r, o, p)
         /\ o.ok <=> HasCode(r.data, r.pos)
         /\ o.ok => SubSeq(r.data, r.pos + 1, o.reader.pos) = SignedCode(o.value)
<1>1. PICK k : k = read_golomb(r)
  OBVIOUS
<1>2. PICK p : /\ Leaves(r, k, p) /\ k = ReadRecord(k.ok, k.value, k.reader) /\ k.ok \in BOOLEAN
               /\ k.ok <=> HasCode(r.data, r.pos)
               /\ k.ok => k.value \in Nat /\ SubSeq(r.data, r.pos + 1, k.reader.pos) = GolombCode(k.value)
  BY <1>1, GolombRead
<1>3. o = IF k.ok THEN [k EXCEPT !.value = Signed(@)] ELSE k
  BY <1>1 DEF read_signed_golomb
<1>4. CASE ~k.ok
  BY <1>2, <1>3, <1>4
<1>5. CASE k.ok
  <2>1. o.reader = k.reader /\ (o.ok <=> k.ok) /\ o.value = Signed(k.value)
    BY <1>2, <1>3, <1>5 DEF ReadRecord
  <2>2. Leaves(r, o, p)
    BY <1>2, <2>1 DEF Leaves
  <2>3. PICK v \in Nat : v = k.value
    BY <1>2, <1>5
  <2>4. (IF Signed(v) > 0 THEN 2 * Signed(v) - 1 ELSE -2 * Signed(v)) = v
    <3>1. PICK h \in Nat, b \in 0 .. 1 : v = 2 * h + b /\ v % 2 = b
      <4>1. PICK M \in Nat \ {0} : M = 2
        OBVIOUS
      <4>2. v \div M \in Nat /\ v % M \in 0 .. M - 1 /\ v = M * (v \div M) + (v % M)
        BY DivNat
      <4>. QED
        BY <4>1, <4>2
    <3>2. CASE b = 1
      <4>1. (v + 1) \div 2 = h + 1
        <5>1. PICK M \in Nat \ {0}, x \in Int, q \in Int : M = 2 /\ x = v + 1 /\ q = h + 1
          OBVIOUS
        <5>2. x = M * q + 0 /\ 0 \in 0 .. M - 1
          BY <3>1, <3>2, <5>1
        <5>3. x \div M = q
          BY <5>2, DivUnique
        <5>. QED
          BY <5>1, <5>3
      <4>2. Signed(v) = h + 1
        BY <3>1, <3>2, <4>1 DEF Signed
      <4>. QED
        BY <3>1, <3>2, <4>2
    <3>3. CASE b = 0
      <4>1. (v + 1) \div 2 = h
        <5>1. PICK M \in Nat \ {0}, x \in Int, q \in Int : M = 2 /\ x = v + 1 /\ q = h
          OBVIOUS
        <5>2. x = M * q + 1 /\ 1 \in 0 .. M - 1
          BY <3>1, <3>3, <5>1
        <5>3. x \div M = q
          BY <5>2, DivUnique
        <5>. QED
          BY <5>1, <5>3
      <4>2. Signed(v) = -h
        BY <3>1, <3>3, <4>1 DEF Signed
      <4>. QED
        BY <3>1, <3>3, <4>2
    <3>. QED
      BY <3>1, <3>2, <3>3
  <2>5. SignedCode(o.value) = GolombCode(v)
    BY <2>1, <2>3, <2>4 DEF SignedCode
  <2>. QED
    BY <1>2, <1>5, <2>1, <2>2, <2>3, <2>5
<1>. QED
  BY <1>4, <1>5

\* The next whole byte lies within a slice of whole bytes.
LEMMA NextByte ==
  ASSUME NEW M \in Nat \ {0}, NEW a \in Nat, NEW n \in Nat, a <= n, n % M = 0,
         NEW k, k = (M - (a % M)) % M
  PROVE  k \in Nat /\ k < M /\ (a + k) % M = 0 /\ a + k <= n
<1>1. PICK q \in Nat, r \in 0 .. M - 1 : a = M * q + r /\ a % M = r
  BY DivNat
<1>2. PICK m \in Nat : n = M * m
  <2>1. PICK m \in Nat, r1 \in 0 .. M - 1 : r1 = n % M /\ n = M * m + r1
    <3>1. n \div M \in Nat /\ n % M \in 0 .. M - 1 /\ n = M * (n \div M) + (n % M)
      BY DivNat
    <3>. QED
      BY <3>1
  <2>. QED
    BY <2>1
<1>3. PICK x \in Nat, y \in Nat : x = M * q /\ y = M * m
  OBVIOUS
<1>4. CASE r = 0
  <2>1. M = M * 1 + 0 /\ 0 \in 0 .. M - 1
    OBVIOUS
  <2>2. M % M = 0
    BY <2>1, ModUnique
  <2>3. k = 0
    BY <1>1, <1>4, <2>2
  <2>. QED
    BY <1>1, <1>4, <2>3
<1>5. CASE r # 0
  <2>1. PICK d \in 0 .. M - 1 : d = M - r
    BY <1>1, <1>5
  <2>2. d = M * 0 + d
    OBVIOUS
  <2>3. k = d
    BY <1>1, <2>1, <2>2, ModUnique
  <2>4. M * (q + 1) = x + M
    BY <1>3
  <2>5. a + k = M * (q + 1) + 0 /\ 0 \in 0 .. M - 1
    BY <1>1, <1>3, <2>1, <2>3, <2>4
  <2>6. (a + k) % M = 0
    <3>1. PICK e \in Int, f \in Int : e = a + k /\ f = q + 1
      BY <2>1, <2>3
    <3>2. e = M * f + 0 /\ 0 \in 0 .. M - 1
      BY <2>5, <3>1
    <3>3. e % M = 0
      BY <3>2, ModUnique
    <3>. QED
      BY <3>1, <3>3
  <2>7. q < m
    <3>. SUFFICES ASSUME m <= q PROVE FALSE
      OBVIOUS
    <3>1. PICK c \in Nat : q = m + c
      <4>1. q - m \in Nat /\ q = m + (q - m)
        OBVIOUS
      <4>. QED
        BY <4>1
    <3>2. M * q = M * m + M * c
      BY <3>1, Distribute
    <3>3. M * c \in Nat
      OBVIOUS
    <3>. QED
      BY <1>1, <1>2, <1>3, <1>5, <3>2, <3>3
  <2>8. M * (q + 1) <= n
    <3>1. PICK c \in Nat : m = (q + 1) + c
      <4>1. m - (q + 1) \in Nat /\ m = (q + 1) + (m - (q + 1))
        BY <2>7
      <4>. QED
        BY <4>1
    <3>2. M * m = M * (q + 1) + M * c
      BY <3>1, Distribute
    <3>3. M * c \in Nat /\ M * (q + 1) \in Nat
      OBVIOUS
    <3>. QED
      BY <1>2, <3>2, <3>3
  <2>. QED
    BY <2>1, <2>3, <2>5, <2>6, <2>8
<1>. QED
  BY <1>4, <1>5

------------------------------------------------------------------------------
(* The invariant.                                                           *)

BitsInv == InSlice(reader) /\ ReadsExact

\* A read that took what it should.
LEMMA ReadTook ==
  ASSUME InSlice(reader), NEW ask, NEW n \in Nat, NEW o, NEW p, Leaves(reader, o, p), Read(ask, n, o),
         ask \in {"golomb", "signed"} => (o.ok <=> HasCode(reader.data, reader.pos)),
         o.ok /\ ask = "bits" => SubSeq(reader.data, reader.pos + 1, p) = FixedCode(o.value, n),
         o.ok /\ ask = "golomb" => SubSeq(reader.data, reader.pos + 1, p) = GolombCode(o.value),
         o.ok /\ ask = "signed" => SubSeq(reader.data, reader.pos + 1, p) = SignedCode(o.value),
         ~o.ok /\ ask \in {"bits", "skip"} =>
           \/ n > WordBits /\ ask = "bits" /\ p = reader.pos
           \/ p = Len(reader.data) /\ p - reader.pos < n,
         ask = "align" => p % ByteBits = 0 /\ p - reader.pos < ByteBits
  PROVE  BitsInv'
<1>1. PICK d \in Seq(Bit), from \in Nat, m \in Nat :
        /\ d = reader.data /\ from = reader.pos /\ m = Len(d) /\ from <= m
  BY SliceFacts
<1>2. p \in Nat /\ from <= p /\ p <= m /\ reader'.data = d /\ reader'.pos = p /\ reader' \in SliceReaders
  BY <1>1 DEF Leaves, Read
<1>3. InSlice(reader)'
  BY <1>1, <1>2 DEF InSlice
<1>4. /\ last_read'.ask = ask /\ last_read'.n = n /\ last_read'.from = from
      /\ last_read'.ok = o.ok /\ last_read'.value = o.value
  BY <1>1 DEF Read
<1>5. PICK taken : taken = SubSeq(d, from + 1, p) /\ taken = Taken(last_read)'
  BY <1>1, <1>2, <1>4 DEF Taken
<1>6. Len(taken) = p - from
  <2>1. PICK k \in Nat, b \in Nat, e \in Nat : k = p - from /\ b = from + 1 /\ e = from + k /\ e = p
    BY <1>2
  <2>2. Ends(d, from, k, b, e) /\ taken = SubSeq(d, b, e)
    BY <1>1, <1>2, <1>5, <2>1 DEF Ends
  <2>3. Lies(SubSeq(d, b, e), d, from, k)
    BY <2>2, Between, Zenon
  <2>. QED
    BY <2>1, <2>2, <2>3 DEF Lies
<1>7. p = from => taken = <<>>
  BY <1>1, <1>5
<1>8. available_bits(reader)' = m - p
  BY <1>1, <1>2 DEF available_bits
<1>9. /\ ask = "bits" => CodeOf(last_read)' = FixedCode(o.value, n)
      /\ ask = "golomb" => CodeOf(last_read)' = GolombCode(o.value)
      /\ ask = "signed" => CodeOf(last_read)' = SignedCode(o.value)
  BY <1>4 DEF CodeOf
<1>10. reader'.pos \in last_read'.from .. Len(reader'.data)
  BY <1>1, <1>2, <1>4
<1>11. last_read'.ask \in {"golomb", "signed"} =>
         (last_read'.ok <=> HasCode(reader'.data, last_read'.from))
  BY <1>1, <1>2, <1>4
<1>12. last_read'.ok /\ last_read'.ask \in {"bits", "golomb", "signed"} => taken = CodeOf(last_read)'
  BY <1>1, <1>4, <1>5, <1>9
<1>13. ~last_read'.ok /\ last_read'.ask \in {"bits", "skip"} =>
         \/ last_read'.n > WordBits /\ last_read'.ask = "bits" /\ taken = <<>>
         \/ available_bits(reader)' = 0 /\ Len(taken) < last_read'.n
  BY <1>1, <1>2, <1>4, <1>6, <1>7, <1>8
<1>14. last_read'.ask = "align" => reader'.pos % ByteBits = 0 /\ Len(taken) < ByteBits
  BY <1>1, <1>2, <1>4, <1>6
<1>. QED
  BY <1>3, <1>5, <1>10, <1>11, <1>12, <1>13, <1>14 DEF BitsInv, ReadsExact

LEMMA BitsInvInit == BitsInit => BitsInv
<1>. SUFFICES ASSUME BitsInit PROVE BitsInv
  OBVIOUS
<1>1. /\ reader.data = <<>> /\ reader.pos = 0 /\ reader = [data |-> <<>>, pos |-> 0]
      /\ last_read.ask = "none" /\ last_read.ok /\ last_read.from = 0
  BY DEF BitsInit, Reader, NoRead
<1>2. <<>> \in Seq(Bit) /\ Len(<<>>) = 0
  OBVIOUS
<1>3. 0 % ByteBits = 0
  <2>1. PICK M \in Nat \ {0} : M = ByteBits
    BY WidthAssumption
  <2>2. 0 = M * 0 + 0 /\ 0 \in 0 .. M - 1
    OBVIOUS
  <2>3. 0 % M = 0
    BY <2>2, ModUnique
  <2>. QED
    BY <2>1, <2>3
<1>4. InSlice(reader)
  BY <1>1, <1>2, <1>3 DEF InSlice, SliceReaders
<1>5. ReadsExact
  BY <1>1, <1>2 DEF ReadsExact
<1>. QED
  BY <1>4, <1>5 DEF BitsInv

LEMMA BitsInvStep == BitsInv /\ [BitsNext]_bitvars => BitsInv'
<1>. SUFFICES ASSUME BitsInv, [BitsNext]_bitvars PROVE BitsInv'
  OBVIOUS
<1>1. PICK r : r = reader /\ InSlice(r)
  BY DEF BitsInv
<1>2. /\ r.pos \in Nat /\ Len(r.data) \in Nat /\ r.data \in Seq(Bit)
      /\ r.pos <= Len(r.data) /\ Len(r.data) % ByteBits = 0
      /\ available_bits(r) \in Nat /\ r.pos + available_bits(r) = Len(r.data)
  BY <1>1, SliceFacts
<1>3. WordBits \in Nat \ {0} /\ ByteBits \in Nat \ {0}
  BY WidthAssumption
<1>4. CASE Open
  <2>1. PICK s \in Slices : reader' = Reader(s) /\ last_read' = NoRead
    BY <1>4 DEF Open
  <2>2. s \in Seq(Bit) /\ Len(s) \in Nat /\ Len(s) % ByteBits = 0
    BY SlicesAssumption DEF Bit
  <2>3. reader'.data = s /\ reader'.pos = 0 /\ reader' \in SliceReaders
    BY <2>1, <2>2 DEF Reader, SliceReaders
  <2>4. InSlice(reader)'
    BY <2>2, <2>3 DEF InSlice
  <2>5. last_read'.ask = "none" /\ last_read'.ok /\ last_read'.from = 0
    BY <2>1 DEF NoRead
  <2>6. ReadsExact'
    BY <2>2, <2>3, <2>5 DEF ReadsExact
  <2>. QED
    BY <2>4, <2>6 DEF BitsInv
<1>5. CASE ReadBits
  <2>1. PICK n \in Nat : Read("bits", n, read_bits(reader, n))
    BY <1>3, <1>5 DEF ReadBits
  <2>2. PICK o : o = read_bits(r, n) /\ Read("bits", n, o)
    BY <1>1, <2>1
  <2>3. /\ n > WordBits => ~o.ok /\ Leaves(r, o, r.pos)
        /\ n <= WordBits /\ n > available_bits(r) => ~o.ok /\ Leaves(r, o, Len(r.data))
        /\ n <= WordBits /\ n <= available_bits(r) =>
             /\ o.ok /\ o.value = Value(SubSeq(r.data, r.pos + 1, r.pos + n))
             /\ Leaves(r, o, r.pos + n)
    BY <1>1, <2>2, ReadBitsIs
  <2>4. CASE n > WordBits
    <3>1. ~o.ok /\ Leaves(r, o, r.pos)
      BY <2>3, <2>4
    <3>. QED
      BY <1>1, <2>2, <2>4, <3>1, ReadTook
  <2>5. CASE n <= WordBits /\ n > available_bits(r)
    <3>1. ~o.ok /\ Leaves(r, o, Len(r.data)) /\ Len(r.data) - r.pos < n
      BY <1>2, <2>3, <2>5
    <3>. QED
      BY <1>1, <2>2, <3>1, ReadTook
  <2>6. CASE n <= WordBits /\ n <= available_bits(r)
    <3>1. PICK u : u = SubSeq(r.data, r.pos + 1, r.pos + n)
      OBVIOUS
    <3>2. o.ok /\ o.value = Value(u) /\ Leaves(r, o, r.pos + n)
      BY <2>3, <2>6, <3>1
    <3>3. u \in Seq(Bit) /\ Len(u) = n
      <4>1. PICK d \in Seq(Bit), p \in Nat : d = r.data /\ p = r.pos
        BY <1>2
      <4>2. PICK b \in Nat, e \in Nat : b = p + 1 /\ e = p + n
        OBVIOUS
      <4>3. Ends(d, p, n, b, e) /\ u = SubSeq(d, b, e)
        BY <1>2, <2>6, <3>1, <4>1, <4>2 DEF Ends
      <4>4. Lies(SubSeq(d, b, e), d, p, n)
        BY <4>3, Between, Zenon
      <4>. QED
        BY <4>3, <4>4 DEF Lies
    <3>4. u = FixedCode(o.value, n)
      BY <3>2, <3>3, FixedCodeBack
    <3>. QED
      BY <1>1, <2>2, <3>1, <3>2, <3>4, ReadTook
  <2>. QED
    BY <1>2, <1>3, <2>4, <2>5, <2>6
<1>6. CASE ReadGolomb
  <2>1. PICK o : o = read_golomb(r) /\ Read("golomb", 0, o)
    BY <1>1, <1>6 DEF ReadGolomb
  <2>2. PICK p : /\ Leaves(r, o, p) /\ (o.ok <=> HasCode(r.data, r.pos))
                 /\ o.ok => SubSeq(r.data, r.pos + 1, o.reader.pos) = GolombCode(o.value)
    BY <1>1, <2>1, GolombRead
  <2>3. o.reader.pos = p
    BY <2>2 DEF Leaves
  <2>. QED
    BY <1>1, <2>1, <2>2, <2>3, ReadTook
<1>7. CASE ReadSigned
  <2>1. PICK o : o = read_signed_golomb(r) /\ Read("signed", 0, o)
    BY <1>1, <1>7 DEF ReadSigned
  <2>2. PICK p : /\ Leaves(r, o, p) /\ (o.ok <=> HasCode(r.data, r.pos))
                 /\ o.ok => SubSeq(r.data, r.pos + 1, o.reader.pos) = SignedCode(o.value)
    BY <1>1, <2>1, SignedRead
  <2>3. o.reader.pos = p
    BY <2>2 DEF Leaves
  <2>. QED
    BY <1>1, <2>1, <2>2, <2>3, ReadTook
<1>8. CASE SkipBits
  <2>1. PICK n \in Nat : Read("skip", n, skip_bits(reader, n))
    BY <1>3, <1>8 DEF SkipBits
  <2>2. PICK o : o = skip_bits(r, n) /\ Read("skip", n, o)
    BY <1>1, <2>1
  <2>3. CASE n > available_bits(r)
    <3>1. o = Failed(r, available_bits(r))
      BY <2>2, <2>3 DEF skip_bits
    <3>2. available_bits(r) <= available_bits(r)
      BY <1>2
    <3>3. ~o.ok /\ Leaves(r, o, r.pos + available_bits(r))
      BY <1>1, <1>2, <3>1, <3>2, GotIs
    <3>4. ~o.ok /\ Leaves(r, o, Len(r.data)) /\ Len(r.data) - r.pos < n
      BY <1>2, <2>3, <3>3
    <3>. QED
      BY <1>1, <2>2, <3>4, ReadTook
  <2>4. CASE n <= available_bits(r)
    <3>1. o = Got(r, n, 0)
      BY <1>2, <2>2, <2>4 DEF skip_bits
    <3>2. o.ok /\ Leaves(r, o, r.pos + n)
      BY <1>1, <2>4, <3>1, GotIs
    <3>. QED
      BY <1>1, <2>2, <3>2, ReadTook
  <2>. QED
    BY <1>2, <2>3, <2>4
<1>9. CASE AlignByte
  <2>1. PICK o : o = align_byte(r) /\ Read("align", 0, o)
    BY <1>1, <1>9 DEF AlignByte
  <2>2. PICK k : k = (ByteBits - (r.pos % ByteBits)) % ByteBits
    OBVIOUS
  <2>3. k \in Nat /\ k < ByteBits /\ (r.pos + k) % ByteBits = 0 /\ r.pos + k <= Len(r.data)
    BY <1>2, <1>3, <2>2, NextByte
  <2>4. o = Got(r, k, 0) /\ k <= available_bits(r)
    BY <1>2, <2>1, <2>2, <2>3 DEF align_byte
  <2>5. o.ok /\ Leaves(r, o, r.pos + k)
    BY <1>1, <2>3, <2>4, GotIs
  <2>6. r.pos + k - r.pos < ByteBits
    BY <1>2, <1>3, <2>3
  <2>7. PICK p \in Nat : p = r.pos + k /\ p % ByteBits = 0 /\ p - r.pos < ByteBits
    BY <1>2, <2>3, <2>6
  <2>8. Leaves(reader, o, p) /\ p % ByteBits = 0 /\ p - reader.pos < ByteBits
    BY <1>1, <2>5, <2>7
  <2>. QED
    BY <1>1, <2>1, <2>8, ReadTook
<1>10. CASE UNCHANGED bitvars
  BY <1>10 DEF bitvars, BitsInv, InSlice, SliceReaders, ReadsExact, available_bits, Taken, CodeOf
<1>. QED
  BY <1>4, <1>5, <1>6, <1>7, <1>8, <1>9, <1>10 DEF BitsNext

------------------------------------------------------------------------------
(* H.264: units in a packet. *)

\* g is what steps make of a beginning, one after the other.
Recurs(g, m, T, base, step) ==
  g \in [0 .. m -> T] /\ g[0] = base /\ \A i \in 1 .. m : g[i] = step[i][g[i - 1]]

\* A function defined from below by steps that stay in T exists.
LEMMA Recursion ==
  ASSUME NEW m \in Nat, NEW T, NEW base \in T, NEW step \in [1 .. m -> [T -> T]]
  PROVE  \E g : Recurs(g, m, T, base, step)
<1>. DEFINE Up(n) == \E g \in [0 .. n -> T] :
                       g[0] = base /\ \A i \in 1 .. n : g[i] = step[i][g[i - 1]]
<1>1. Up(0)
  <2>1. PICK g : g = [i \in 0 .. 0 |-> base]
    OBVIOUS
  <2>2. g \in [0 .. 0 -> T] /\ g[0] = base /\ \A i \in 1 .. 0 : g[i] = step[i][g[i - 1]]
    BY <2>1
  <2>. QED
    BY <2>2
<1>2. ASSUME NEW n \in Nat, n < m, Up(n) PROVE Up(n + 1)
  <2>1. PICK g \in [0 .. n -> T] : g[0] = base /\ \A i \in 1 .. n : g[i] = step[i][g[i - 1]]
    BY <1>2
  <2>2. PICK x \in T : x = g[n]
    BY <2>1
  <2>3. PICK y \in T : y = step[n + 1][x]
    BY <1>2, <2>2
  <2>4. PICK h : h = [i \in 0 .. n + 1 |-> IF i = n + 1 THEN y ELSE g[i]]
    OBVIOUS
  <2>5. h \in [0 .. n + 1 -> T] /\ h[0] = base
    BY <2>1, <2>3, <2>4
  <2>6. ASSUME NEW i \in 1 .. n + 1 PROVE h[i] = step[i][h[i - 1]]
    <3>1. h[i - 1] = g[i - 1]
      BY <2>4
    <3>2. CASE i = n + 1
      <4>1. h[i] = y /\ i - 1 = n
        BY <2>4, <3>2
      <4>. QED
        BY <2>2, <2>3, <3>1, <3>2, <4>1
    <3>3. CASE i # n + 1
      <4>1. i \in 1 .. n /\ h[i] = g[i]
        BY <2>4, <3>3
      <4>. QED
        BY <2>1, <3>1, <4>1
    <3>. QED
      BY <3>2, <3>3
  <2>. QED
    BY <2>5, <2>6
<1>3. Up(m)
  <2>. SUFFICES ASSUME ~Up(m) PROVE FALSE
    OBVIOUS
  <2>. DEFINE S == {n \in Nat : n <= m /\ ~Up(n)}
  <2>1. S \subseteq Nat /\ S # {}
    <3>. HIDE DEF Up
    <3>. QED
      OBVIOUS
  <2>2. PICK n \in S : \A k \in S : n <= k
    <3>. HIDE DEF S
    <3>. QED
      BY <2>1, Least
  <2>. HIDE DEF Up
  <2>3. n \in Nat /\ ~Up(n) /\ n # 0 /\ n <= m
    BY <1>1, <2>2
  <2>4. n - 1 \in Nat /\ ~(n <= n - 1) /\ n - 1 + 1 = n /\ n - 1 < m /\ n - 1 <= m
    BY <2>3
  <2>5. Up(n - 1)
    BY <2>2, <2>4
  <2>. QED
    BY <1>2, <2>3, <2>4, <2>5
<1>. QED
  BY <1>3 DEF Recurs


\* What is known of a unit and its bytes.
LEMMA UnitFacts ==
  ASSUME NEW u \in UnitsSent
  PROVE  /\ u.code \in {3, 4} /\ u.type \in KnownTypes \cup {AUD} /\ u.type \in Nat /\ u.type # 0
         /\ u.payload \in Payloads /\ u.payload \in Seq(Nat) /\ Len(u.payload) \in Nat
         /\ Len(u.payload) > 0 /\ u.payload[Len(u.payload)] # 0
         /\ \A i \in 1 .. Len(u.payload) - 2 : ~StartsAt(u.payload, i)
<1>1. u.payload \in Payloads
  BY PayloadsAssumption DEF UnitsSent, Payload1
<1>2. u.code \in {3, 4} /\ u.type \in KnownTypes \cup {AUD} /\ u.type \in Nat /\ u.type # 0
  BY DEF UnitsSent, KnownTypes, NonIDR, IDR, SEI, SPS, PPS, AUD
<1>3. u.payload \in Seq(Nat) /\ u.payload # <<>>
  BY <1>1, PayloadsAssumption
<1>4. Len(u.payload) \in Nat /\ Len(u.payload) > 0
  BY <1>3
<1>. QED
  BY <1>1, <1>2, <1>3, <1>4, PayloadsAssumption

LEMMA Joined ==
  ASSUME NEW T, NEW h \in Seq(T), NEW p \in Seq(T), NEW w, w = h \o p
  PROVE  /\ w \in Seq(T) /\ Len(w) = Len(h) + Len(p)
         /\ \A i \in 1 .. Len(h) : w[i] = h[i]
         /\ \A i \in 1 .. Len(p) : w[Len(h) + i] = p[i]
<1>1. w \in Seq(T) /\ Len(w) = Len(h) + Len(p)
  BY ConcatProperties
<1>2. \A i \in 1 .. Len(h) : w[i] = h[i]
  BY ConcatProperties
<1>3. ASSUME NEW i \in 1 .. Len(p) PROVE w[Len(h) + i] = p[i]
  <2>1. PICK m \in Nat, k \in Nat : m = Len(h) /\ k = m + i /\ k > m /\ k <= m + Len(p) /\ k - m = i
    OBVIOUS
  <2>2. k \in 1 .. Len(h) + Len(p) /\ ~(k <= Len(h))
    BY <2>1
  <2>3. w[k] = p[k - Len(h)]
    BY <2>2, ConcatProperties
  <2>. QED
    BY <2>1, <2>3
<1>. QED
  BY <1>1, <1>2, <1>3

\* w is b behind a.
Joint(w, a, b, T) ==
  /\ w \in Seq(T) /\ Len(w) = Len(a) + Len(b)
  /\ \A i \in 1 .. Len(a) : w[i] = a[i]
  /\ \A i \in 1 .. Len(b) : w[Len(a) + i] = b[i]

LEMMA JointIs ==
  ASSUME NEW T, NEW a \in Seq(T), NEW b \in Seq(T)
  PROVE  Joint(a \o b, a, b, T)
BY ConcatProperties DEF Joint

\* The place of a byte of a unit.
IsWritten(w, c, t, p) ==
  /\ w \in Seq(Nat) /\ Len(w) = c + 1 + Len(p)
  /\ \A i \in 1 .. c - 1 : w[i] = 0
  /\ w[c] = 1 /\ w[c + 1] = t
  /\ \A i \in 1 .. Len(p) : w[c + 1 + i] = p[i]

LEMMA WrittenIs ==
  ASSUME NEW u \in UnitsSent
  PROVE  IsWritten(Written(u), u.code, u.type, u.payload)
<1>. DEFINE c == u.code
            p == u.payload
            w == Written(u)
<1>1. PICK t \in Nat : t = u.type
  BY UnitFacts
<1>2. p \in Seq(Nat)
  BY UnitFacts
<1>3. CASE c = 3
  <2>1. w = <<>> \o << 0, 0, 1, t >> \o p
    BY <1>1, <1>3 DEF Written
  <2>2. PICK h : h = << 0, 0, 1, t >>
    OBVIOUS
  <2>3. w = h \o p /\ h \in Seq(Nat)
    BY <2>1, <2>2
  <2>4. Len(h) = 4 /\ h[1] = 0 /\ h[2] = 0 /\ h[3] = 1 /\ h[4] = t
    BY <2>2
  <2>5. /\ w \in Seq(Nat) /\ Len(w) = Len(h) + Len(p)
        /\ \A i \in 1 .. Len(h) : w[i] = h[i]
        /\ \A i \in 1 .. Len(p) : w[Len(h) + i] = p[i]
    BY <1>2, <2>3, Joined
  <2>6. \A i \in 1 .. Len(p) : w[c + 1 + i] = p[i]
    <3>1. Len(h) = c + 1
      BY <1>3, <2>4
    <3>2. ASSUME NEW i \in 1 .. Len(p) PROVE w[c + 1 + i] = p[i]
      <4>1. w[Len(h) + i] = p[i]
        BY <2>5
      <4>. QED
        BY <3>1, <4>1
    <3>. QED
      BY <3>2
  <2>7. w[c] = 1 /\ w[c + 1] = u.type /\ \A i \in 1 .. c - 1 : w[i] = 0
    BY <1>1, <1>3, <2>4, <2>5
  <2>. QED
    BY <1>3, <2>4, <2>5, <2>6, <2>7 DEF IsWritten
<1>4. CASE c = 4
  <2>1. w = << 0 >> \o << 0, 0, 1, t >> \o p
    BY <1>1, <1>4 DEF Written
  <2>2. PICK h : h = << 0, 0, 0, 1, t >>
    OBVIOUS
  <2>3. w = h \o p /\ h \in Seq(Nat)
    BY <2>1, <2>2
  <2>4. Len(h) = 5 /\ h[1] = 0 /\ h[2] = 0 /\ h[3] = 0 /\ h[4] = 1 /\ h[5] = t
    BY <2>2
  <2>5. /\ w \in Seq(Nat) /\ Len(w) = Len(h) + Len(p)
        /\ \A i \in 1 .. Len(h) : w[i] = h[i]
        /\ \A i \in 1 .. Len(p) : w[Len(h) + i] = p[i]
    BY <1>2, <2>3, Joined
  <2>6. \A i \in 1 .. Len(p) : w[c + 1 + i] = p[i]
    <3>1. Len(h) = c + 1
      BY <1>4, <2>4
    <3>2. ASSUME NEW i \in 1 .. Len(p) PROVE w[c + 1 + i] = p[i]
      <4>1. w[Len(h) + i] = p[i]
        BY <2>5
      <4>. QED
        BY <3>1, <4>1
    <3>. QED
      BY <3>2
  <2>7. w[c] = 1 /\ w[c + 1] = u.type /\ \A i \in 1 .. c - 1 : w[i] = 0
    BY <1>1, <1>4, <2>4, <2>5
  <2>. QED
    BY <1>4, <2>4, <2>5, <2>6, <2>7 DEF IsWritten
<1>. QED
  BY <1>3, <1>4, UnitFacts DEF IsWritten

\* f is what the sequences before and at each place make together.
IsFlatten(f, seqs, n, T) ==
  f \in [1 .. n -> Seq(T)] /\ f[1] = seqs[1] /\ \A i \in 2 .. n : f[i] = f[i - 1] \o seqs[i]

LEMMA FlattenExists ==
  ASSUME NEW T, NEW n \in Nat \ {0}, NEW seqs \in [1 .. n -> Seq(T)]
  PROVE  \E f : IsFlatten(f, seqs, n, T)
<1>1. PICK m \in Nat : m + 1 = n
  <2>1. n - 1 \in Nat /\ n - 1 + 1 = n
    OBVIOUS
  <2>. QED
    BY <2>1
<1>2. PICK step : step = [i \in 1 .. m |-> [x \in Seq(T) |-> x \o seqs[i + 1]]]
  OBVIOUS
<1>3. ASSUME NEW i \in 1 .. m, NEW x \in Seq(T)
      PROVE  x \o seqs[i + 1] \in Seq(T) /\ step[i][x] = x \o seqs[i + 1]
  <2>1. seqs[i + 1] \in Seq(T)
    BY <1>1
  <2>. QED
    BY <1>2, <2>1, ConcatProperties
<1>4. step \in [1 .. m -> [Seq(T) -> Seq(T)]]
  BY <1>2, <1>3
<1>5. PICK base \in Seq(T) : base = seqs[1]
  OBVIOUS
<1>6. PICK g \in [0 .. m -> Seq(T)] : g[0] = base /\ \A i \in 1 .. m : g[i] = step[i][g[i - 1]]
  <2>1. PICK g : Recurs(g, m, Seq(T), base, step)
    BY <1>1, <1>4, <1>5, Recursion
  <2>. QED
    BY <2>1 DEF Recurs
<1>7. PICK f : f = [i \in 1 .. n |-> g[i - 1]]
  OBVIOUS
<1>8. f \in [1 .. n -> Seq(T)] /\ f[1] = seqs[1]
  BY <1>1, <1>5, <1>6, <1>7
<1>9. ASSUME NEW i \in 2 .. n PROVE f[i] = f[i - 1] \o seqs[i]
  <2>1. i - 1 \in 1 .. m /\ i - 1 + 1 = i
    BY <1>1
  <2>2. f[i] = g[i - 1] /\ f[i - 1] = g[i - 1 - 1] /\ g[i - 1 - 1] \in Seq(T)
    <3>1. i \in 1 .. n /\ i - 1 \in 1 .. n /\ i - 1 - 1 \in 0 .. m
      BY <1>1, <2>1
    <3>2. f[i] = g[i - 1] /\ f[i - 1] = g[i - 1 - 1]
      BY <1>7, <3>1
    <3>3. g[i - 1 - 1] \in Seq(T)
      BY <1>6, <3>1
    <3>. QED
      BY <3>2, <3>3
  <2>3. g[i - 1] = step[i - 1][g[i - 1 - 1]]
    BY <1>6, <2>1
  <2>4. step[i - 1][g[i - 1 - 1]] = g[i - 1 - 1] \o seqs[i - 1 + 1]
    BY <1>3, <2>1, <2>2
  <2>. QED
    BY <2>1, <2>2, <2>3, <2>4
<1>. QED
  BY <1>8, <1>9 DEF IsFlatten

LEMMA FlattenIs ==
  ASSUME NEW T, NEW n \in Nat \ {0}, NEW seqs \in [1 .. n -> Seq(T)]
  PROVE  \E f : IsFlatten(f, seqs, n, T) /\ FlattenSeq(seqs) = f[n]
<1>. DEFINE F(h) == [i \in 1 .. Len(seqs) |-> IF i = 1 THEN seqs[i] ELSE h[i - 1] \o seqs[i]]
<1>1. Len(seqs) = n /\ n # 0
  OBVIOUS
<1>2. PICK g : IsFlatten(g, seqs, n, T)
  BY FlattenExists
<1>3. g = F(g)
  <2>1. ASSUME NEW i \in 1 .. n PROVE g[i] = IF i = 1 THEN seqs[i] ELSE g[i - 1] \o seqs[i]
    <3>1. CASE i = 1
      BY <1>2, <3>1 DEF IsFlatten
    <3>2. CASE i # 1
      <4>1. i \in 2 .. n
        BY <3>2
      <4>2. g[i] = g[i - 1] \o seqs[i]
        BY <1>2, <4>1 DEF IsFlatten
      <4>. QED
        BY <3>2, <4>2
    <3>. QED
      BY <3>1, <3>2
  <2>2. g = [i \in 1 .. n |-> g[i]]
    <3>1. g \in [1 .. n -> Seq(T)]
      BY <1>2 DEF IsFlatten
    <3>. QED
      BY <3>1
  <2>. QED
    BY <1>1, <2>1, <2>2
<1>4. PICK f : f = CHOOSE h : h = F(h)
  OBVIOUS
<1>5. f = F(f)
  BY <1>3, <1>4
<1>6. FlattenSeq(seqs) = f[n]
  BY <1>1, <1>4 DEF FlattenSeq
<1>7. \A i \in 1 .. n : f[i] = IF i = 1 THEN seqs[i] ELSE f[i - 1] \o seqs[i]
  BY <1>1, <1>5, Zenon
<1>8. \A i \in 1 .. n : f[i] \in Seq(T)
  <2>. SUFFICES ASSUME NEW l \in 1 .. n, f[l] \notin Seq(T) PROVE FALSE
    OBVIOUS
  <2>. DEFINE S == {i \in Nat : 1 <= i /\ i <= n /\ f[i] \notin Seq(T)}
  <2>1. S \subseteq Nat /\ l \in S
    OBVIOUS
  <2>2. PICK i \in S : \A k \in S : i <= k
    <3>. HIDE DEF S
    <3>. QED
      BY <2>1, Least
  <2>3. i \in 1 .. n /\ f[i] \notin Seq(T) /\ seqs[i] \in Seq(T)
    BY <2>2
  <2>4. i # 1
    BY <1>7, <2>3
  <2>5. i - 1 \in 1 .. n /\ ~(i <= i - 1)
    BY <2>3, <2>4
  <2>6. f[i - 1] \in Seq(T)
    BY <2>2, <2>5
  <2>7. f[i] = f[i - 1] \o seqs[i]
    BY <1>7, <2>3, <2>4
  <2>. QED
    BY <2>3, <2>6, <2>7, ConcatProperties
<1>9. f \in [1 .. n -> Seq(T)]
  <2>1. f = [i \in 1 .. n |-> IF i = 1 THEN seqs[i] ELSE f[i - 1] \o seqs[i]]
    BY <1>1, <1>5, Zenon
  <2>. QED
    BY <1>8, <2>1
<1>10. f[1] = seqs[1] /\ \A i \in 2 .. n : f[i] = f[i - 1] \o seqs[i]
  <2>1. 1 \in 1 .. n /\ \A i \in 2 .. n : i \in 1 .. n /\ i # 1
    OBVIOUS
  <2>. QED
    BY <1>7, <2>1
<1>. QED
  BY <1>6, <1>9, <1>10 DEF IsFlatten

\* Each of the sequences lies in d, and ends in e.
Tiles(d, seqs, n, e) ==
  /\ e \in [0 .. n -> Nat] /\ e[0] = 0 /\ e[n] = Len(d)
  /\ \A k \in 1 .. n : e[k] = e[k - 1] + Len(seqs[k]) /\ e[k] <= Len(d)
  /\ \A k \in 1 .. n : \A j \in 1 .. Len(seqs[k]) : d[e[k - 1] + j] = seqs[k][j]

LEMMA Flattened ==
  ASSUME NEW T, NEW n \in Nat \ {0}, NEW seqs \in [1 .. n -> Seq(T)], NEW d, d = FlattenSeq(seqs)
  PROVE  d \in Seq(T) /\ \E e : Tiles(d, seqs, n, e)
<1>1. PICK f \in [1 .. n -> Seq(T)] :
        d = f[n] /\ f[1] = seqs[1] /\ \A i \in 2 .. n : f[i] = f[i - 1] \o seqs[i]
  <2>1. PICK f : IsFlatten(f, seqs, n, T) /\ d = f[n]
    BY FlattenIs
  <2>. QED
    BY <2>1 DEF IsFlatten
<1>2. PICK e : e = [k \in 0 .. n |-> IF k = 0 THEN 0 ELSE Len(f[k])]
  OBVIOUS
<1>3. e \in [0 .. n -> Nat] /\ e[0] = 0 /\ \A k \in 1 .. n : e[k] = Len(f[k])
  BY <1>1, <1>2
<1>4. ASSUME NEW k \in 1 .. n PROVE e[k] = e[k - 1] + Len(seqs[k])
  <2>1. CASE k = 1
    BY <1>1, <1>3, <2>1
  <2>2. CASE k # 1
    <3>1. k \in 2 .. n /\ k - 1 \in 1 .. n
      BY <2>2
    <3>2. f[k - 1] \in Seq(T) /\ seqs[k] \in Seq(T) /\ f[k] = f[k - 1] \o seqs[k]
      BY <1>1, <3>1
    <3>3. Len(f[k]) = Len(f[k - 1]) + Len(seqs[k])
      BY <3>2, ConcatProperties
    <3>. QED
      BY <1>3, <3>1, <3>3
  <2>. QED
    BY <2>1, <2>2
<1>. DEFINE Good(m) == \A k \in 1 .. m : /\ e[k] <= e[m]
                                         /\ \A j \in 1 .. Len(seqs[k]) : f[m][e[k - 1] + j] = seqs[k][j]
<1>5. Good(1)
  BY <1>1, <1>3
<1>6. ASSUME NEW m \in 1 .. n, m + 1 <= n, Good(m) PROVE Good(m + 1)
  <2>1. m + 1 \in 2 .. n /\ m + 1 \in 1 .. n /\ m + 1 - 1 = m
    BY <1>6
  <2>2. PICK g, s, h : g \in Seq(T) /\ s \in Seq(T) /\ g = f[m] /\ s = seqs[m + 1] /\ h = f[m + 1] /\ h = g \o s
    <3>0. f[m + 1] = f[m] \o seqs[m + 1]
      <4>1. PICK i \in 2 .. n : i = m + 1 /\ i - 1 = m
        BY <2>1
      <4>2. f[i] = f[i - 1] \o seqs[i]
        BY <1>1
      <4>. QED
        BY <4>1, <4>2
    <3>1. f[m] \in Seq(T) /\ seqs[m + 1] \in Seq(T) /\ f[m + 1] = f[m] \o seqs[m + 1]
      BY <1>1, <2>1, <3>0
    <3>. QED
      BY <3>1
  <2>3. /\ h \in Seq(T) /\ Len(h) = Len(g) + Len(s)
        /\ \A i \in 1 .. Len(g) : h[i] = g[i]
        /\ \A i \in 1 .. Len(s) : h[Len(g) + i] = s[i]
    <3>1. g \in Seq(T) /\ s \in Seq(T)
      BY <2>2
    <3>2. h = g \o s
      BY <2>2
    <3>. QED
      BY ONLY <3>1, <3>2, Joined
  <2>4. e[m] = Len(g) /\ e[m + 1] = Len(h)
    BY <1>3, <2>1, <2>2
  <2>5. ASSUME NEW k \in 1 .. m + 1
        PROVE  /\ e[k] <= e[m + 1]
               /\ \A j \in 1 .. Len(seqs[k]) : h[e[k - 1] + j] = seqs[k][j]
    <3>1. CASE k = m + 1
      <4>1. k - 1 = m /\ e[k - 1] = Len(g) /\ seqs[k] = s /\ e[k] = e[m + 1]
        BY <2>1, <2>2, <2>4, <3>1
      <4>2. e[k] \in Nat
        BY <1>3, <2>1, <3>1
      <4>3. \A j \in 1 .. Len(seqs[k]) : h[e[k - 1] + j] = seqs[k][j]
        BY ONLY <2>3, <4>1
      <4>4. e[k] <= e[m + 1]
        BY ONLY <4>1, <4>2
      <4>. QED
        BY ONLY <4>3, <4>4
    <3>2. CASE k # m + 1
      <4>1. k \in 1 .. m /\ k \in 1 .. n
        BY <2>1, <3>2
      <4>2. /\ e[k] <= e[m]
            /\ \A j \in 1 .. Len(seqs[k]) : g[e[k - 1] + j] = seqs[k][j]
        BY <1>6, <2>2, <4>1
      <4>3. PICK a \in Nat, b \in Nat, l \in Nat :
              a = e[k - 1] /\ b = e[k] /\ l = Len(seqs[k]) /\ b = a + l /\ b <= Len(g)
        <5>1. e[k - 1] \in Nat /\ e[k] \in Nat /\ Len(seqs[k]) \in Nat
          BY <1>3, <4>1
        <5>. QED
          BY <1>4, <2>4, <4>1, <4>2, <5>1
      <4>4. ASSUME NEW j \in 1 .. l PROVE h[a + j] = seqs[k][j]
        <5>1. a + j \in 1 .. Len(g)
          <6>1. PICK q \in Nat : q = Len(g)
            BY <2>2
          <6>2. a + l <= q
            BY <4>3, <6>1
          <6>. QED
            BY ONLY <6>1, <6>2, a \in Nat, l \in Nat, q \in Nat, j \in 1 .. l
        <5>2. h[a + j] = g[a + j]
          BY <2>3, <5>1
        <5>. QED
          BY <4>2, <4>3, <5>2
      <4>5. e[k] <= e[m + 1]
        <5>1. Len(g) \in Nat /\ Len(s) \in Nat
          BY <2>2
        <5>2. e[m + 1] = Len(g) + Len(s)
          BY <2>3, <2>4
        <5>3. b <= Len(g) + Len(s)
          BY ONLY <4>3, <5>1
        <5>. QED
          BY <4>3, <5>2, <5>3
      <4>. QED
        BY <4>3, <4>4, <4>5
    <3>. QED
      BY <3>1, <3>2
  <2>. QED
    BY <2>2, <2>5
<1>7. Good(n)
  <2>. SUFFICES ASSUME ~Good(n) PROVE FALSE
    OBVIOUS
  <2>. DEFINE S == {m \in Nat : 1 <= m /\ m <= n /\ ~Good(m)}
  <2>1. S \subseteq Nat /\ S # {}
    <3>1. n \in Nat /\ 1 <= n /\ n <= n
      OBVIOUS
    <3>. HIDE DEF Good
    <3>. QED
      BY <3>1
  <2>2. PICK m \in S : \A k \in S : m <= k
    <3>. HIDE DEF S
    <3>. QED
      BY <2>1, Least
  <2>. HIDE DEF Good
  <2>3. m \in 1 .. n /\ ~Good(m) /\ m # 1
    BY <1>5, <2>2
  <2>4. m - 1 \in 1 .. n /\ ~(m <= m - 1) /\ m - 1 + 1 = m /\ m - 1 + 1 <= n
    BY <2>3
  <2>5. Good(m - 1)
    BY <2>2, <2>4
  <2>. QED
    BY <1>6, <2>3, <2>4, <2>5
<1>. HIDE DEF Good
<1>8. \A k \in 1 .. n : e[k] <= e[n] /\ \A j \in 1 .. Len(seqs[k]) : f[n][e[k - 1] + j] = seqs[k][j]
  BY <1>7 DEF Good
<1>9. d \in Seq(T) /\ e[n] = Len(d) /\ f[n] = d
  BY <1>1, <1>3
<1>. QED
  <2>1. \A k \in 1 .. n : e[k] = e[k - 1] + Len(seqs[k]) /\ e[k] <= Len(d)
    BY <1>4, <1>8, <1>9
  <2>2. \A k \in 1 .. n : \A j \in 1 .. Len(seqs[k]) : d[e[k - 1] + j] = seqs[k][j]
    BY <1>8, <1>9
  <2>3. e \in [0 .. n -> Nat] /\ e[0] = 0
    BY <1>3
  <2>4. Tiles(d, seqs, n, e)
    BY <1>9, <2>1, <2>2, <2>3, Zenon DEF Tiles
  <2>. QED
    BY <1>9, <2>4

------------------------------------------------------------------------------
(* Start codes. *)

\* What find_units makes of the unit at k: the first zero of a longer start
\* code behind it stays with it.
FoundUnit(units, k) ==
  << units[k].type >> \o units[k].payload
  \o (IF k < Len(units) /\ units[k + 1].code = 4 THEN << 0 >> ELSE <<>>)

\* The bytes of a packet are those of its units one behind the other.
PacketOf(units) == FlattenSeq([i \in DOMAIN units |-> Written(units[i])])

\* d holds the units; the three bytes of the start code of unit k begin at c[k].
Lays(d, units, n, c) ==
  /\ d \in Seq(Nat) /\ c \in [1 .. n -> Nat \ {0}]
  /\ c[1] = units[1].code - 2
  /\ \A k \in 1 .. n : /\ d[c[k]] = 0 /\ d[c[k] + 1] = 0 /\ d[c[k] + 2] = 1
                       /\ d[c[k] + 3] = units[k].type
                       /\ \A j \in 1 .. Len(units[k].payload) : d[c[k] + 3 + j] = units[k].payload[j]
                       /\ units[k].code = 4 => d[c[k] - 1] = 0
                       /\ c[k] + 3 + Len(units[k].payload) <= Len(d)
  /\ \A k \in 1 .. n - 1 : c[k + 1] = c[k] + 3 + Len(units[k].payload) + units[k + 1].code - 2
  /\ Len(d) = c[n] + 3 + Len(units[n].payload)

LEMMA PacketLays ==
  ASSUME NEW n \in Nat \ {0}, NEW units \in [1 .. n -> UnitsSent], NEW d, d = PacketOf(units)
  PROVE  \E c : Lays(d, units, n, c)
<1>1. DOMAIN units = 1 .. n
  OBVIOUS
<1>2. PICK seqs : seqs = [i \in 1 .. n |-> Written(units[i])]
  OBVIOUS
<1>3. ASSUME NEW k \in 1 .. n
      PROVE  /\ units[k] \in UnitsSent /\ seqs[k] = Written(units[k]) /\ seqs[k] \in Seq(Nat)
             /\ units[k].code \in {3, 4} /\ Len(units[k].payload) \in Nat
             /\ Len(seqs[k]) = units[k].code + 1 + Len(units[k].payload)
  <2>1. units[k] \in UnitsSent /\ seqs[k] = Written(units[k])
    BY <1>2
  <2>2. seqs[k] \in Seq(Nat) /\ Len(seqs[k]) = units[k].code + 1 + Len(units[k].payload)
    BY <2>1, WrittenIs DEF IsWritten
  <2>3. units[k].code \in {3, 4} /\ Len(units[k].payload) \in Nat
    BY <2>1, UnitFacts
  <2>. QED
    BY <2>1, <2>2, <2>3
<1>4. seqs \in [1 .. n -> Seq(Nat)] /\ d = FlattenSeq(seqs)
  BY <1>1, <1>2, <1>3 DEF PacketOf
<1>5. d \in Seq(Nat)
  BY <1>4, Flattened
<1>6. PICK e \in [0 .. n -> Nat] :
        /\ e[0] = 0 /\ e[n] = Len(d)
        /\ \A k \in 1 .. n : e[k] = e[k - 1] + Len(seqs[k]) /\ e[k] <= Len(d)
        /\ \A k \in 1 .. n : \A j \in 1 .. Len(seqs[k]) : d[e[k - 1] + j] = seqs[k][j]
  <2>1. PICK e : Tiles(d, seqs, n, e)
    BY <1>4, Flattened
  <2>. QED
    BY <2>1 DEF Tiles
<1>7. PICK c : c = [k \in 1 .. n |-> e[k - 1] + units[k].code - 2]
  OBVIOUS
<1>8. ASSUME NEW k \in 1 .. n
      PROVE  /\ c[k] \in Nat \ {0} /\ e[k - 1] \in Nat /\ c[k] = e[k - 1] + units[k].code - 2
             /\ e[k] = c[k] + 3 + Len(units[k].payload) /\ e[k] <= Len(d)
  <2>1. PICK b \in Nat, o \in Nat, l \in Nat :
          b = e[k - 1] /\ o = units[k].code /\ (o = 3 \/ o = 4) /\ l = Len(units[k].payload)
    <3>1. k - 1 \in 0 .. n
      OBVIOUS
    <3>2. e[k - 1] \in Nat
      BY <1>6, <3>1
    <3>. QED
      BY <1>3, <3>2
  <2>4. o = 3 \/ o = 4
    BY <2>1
  <2>5. b + o - 2 \in Nat \ {0} /\ b + (o + 1 + l) \in Nat /\ b + (o + 1 + l) = b + o - 2 + 3 + l
    BY ONLY <2>4, b \in Nat, o \in Nat, l \in Nat
  <2>2. PICK q \in Nat \ {0}, x \in Nat : q = b + o - 2 /\ x = b + (o + 1 + l) /\ x = q + 3 + l
    BY <2>5
  <2>3. c[k] = q /\ e[k] = x /\ e[k] <= Len(d)
    BY <1>3, <1>6, <1>7, <2>1, <2>2
  <2>. QED
    BY <2>1, <2>2, <2>3
<1>9. ASSUME NEW k \in 1 .. n
      PROVE  /\ d[c[k]] = 0 /\ d[c[k] + 1] = 0 /\ d[c[k] + 2] = 1
             /\ d[c[k] + 3] = units[k].type
             /\ \A j \in 1 .. Len(units[k].payload) : d[c[k] + 3 + j] = units[k].payload[j]
             /\ units[k].code = 4 => d[c[k] - 1] = 0
  <2>0. units[k] \in UnitsSent /\ units[k].payload \in Seq(Nat)
    BY <1>3, UnitFacts
  <2>20. e[k - 1] \in Nat /\ c[k] \in Nat /\ c[k] = e[k - 1] + units[k].code - 2
    BY <1>8
  <2>21. units[k].code \in Nat /\ (units[k].code = 3 \/ units[k].code = 4)
    BY <1>3
  <2>22. PICK b \in Nat : b = e[k - 1]
    BY <2>20
  <2>23. PICK o \in Nat : o = units[k].code
    BY <2>21
  <2>24. PICK p \in Seq(Nat) : p = units[k].payload
    BY <2>0
  <2>25. PICK w : w = seqs[k]
    OBVIOUS
  <2>26. PICK q \in Nat : q = c[k]
    BY <2>20
  <2>1. /\ b \in Nat /\ o \in Nat /\ p \in Seq(Nat) /\ q \in Nat
        /\ b = e[k - 1] /\ o = units[k].code /\ (o = 3 \/ o = 4)
        /\ p = units[k].payload /\ w = seqs[k]
        /\ q = c[k] /\ q = b + o - 2
    BY <2>20, <2>21, <2>22, <2>23, <2>24, <2>25, <2>26
  <2>2. /\ Len(w) = o + 1 + Len(p) /\ Len(p) \in Nat
        /\ \A i \in 1 .. o - 1 : w[i] = 0
        /\ w[o] = 1 /\ w[o + 1] = units[k].type
        /\ \A i \in 1 .. Len(p) : w[o + 1 + i] = p[i]
    <3>1. IsWritten(Written(units[k]), units[k].code, units[k].type, units[k].payload)
      BY <2>0, WrittenIs
    <3>2. IsWritten(w, o, units[k].type, p)
      BY <1>3, <2>1, <3>1
    <3>3. Len(p) \in Nat
      BY <2>24
    <3>. QED
      BY <3>2, <3>3, Zenon DEF IsWritten
  <2>3. \A j \in 1 .. o + 1 + Len(p) : d[b + j] = w[j]
    <3>1. \A j \in 1 .. Len(w) : d[b + j] = w[j]
      BY <1>6, <2>22, <2>25
    <3>. QED
      BY <2>2, <3>1
  <2>8. PICK l \in Nat : l = Len(p)
    BY <2>24
  <2>9. /\ o - 2 \in 1 .. o + 1 + l /\ o - 1 \in 1 .. o + 1 + l /\ o \in 1 .. o + 1 + l
        /\ o + 1 \in 1 .. o + 1 + l /\ o - 2 \in 1 .. o - 1 /\ o - 1 \in 1 .. o - 1
        /\ 1 \in 1 .. o - 1 /\ 1 \in 1 .. o + 1 + l
    <3>1. o = 3 \/ o = 4
      BY <2>1
    <3>. QED
      BY ONLY <3>1, o \in Nat, l \in Nat
  <2>4. d[b + (o - 2)] = 0 /\ d[b + (o - 1)] = 0 /\ d[b + o] = 1 /\ d[b + (o + 1)] = units[k].type
    BY <2>2, <2>3, <2>8, <2>9
  <2>5. o = 4 => d[b + 1] = 0
    BY <2>2, <2>3, <2>8, <2>9
  <2>6. ASSUME NEW j \in 1 .. Len(p) PROVE d[b + (o + 1 + j)] = p[j]
    <3>1. o + 1 + j \in 1 .. o + 1 + Len(p)
      <4>1. j \in 1 .. l
        BY <2>8
      <4>2. o + 1 + j \in 1 .. o + 1 + l
        BY ONLY <4>1, o \in Nat, l \in Nat
      <4>. QED
        BY <2>8, <4>2
    <3>. QED
      BY <2>2, <2>3, <3>1
  <2>7. /\ q = b + (o - 2) /\ q + 1 = b + (o - 1) /\ q + 2 = b + o /\ q + 3 = b + (o + 1)
        /\ o = 4 => q - 1 = b + 1
        /\ \A j \in Int : q + 3 + j = b + (o + 1 + j)
    <3>1. q = b + o - 2
      BY <2>1
    <3>. QED
      BY ONLY <3>1, o \in Nat, b \in Nat, q \in Nat
  <2>10. d[q] = 0 /\ d[q + 1] = 0 /\ d[q + 2] = 1 /\ d[q + 3] = units[k].type
    BY <2>4, <2>7
  <2>11. o = 4 => d[q - 1] = 0
    BY <2>5, <2>7
  <2>12. ASSUME NEW j \in 1 .. Len(p) PROVE d[q + 3 + j] = p[j]
    <3>1. q + 3 + j = b + (o + 1 + j)
      BY <2>7
    <3>. QED
      BY <2>6, <3>1
  <2>. QED
    BY <2>1, <2>10, <2>11, <2>12
<1>10. ASSUME NEW k \in 1 .. n - 1
       PROVE  c[k + 1] = c[k] + 3 + Len(units[k].payload) + units[k + 1].code - 2
  <2>1. k \in 1 .. n /\ k + 1 \in 1 .. n /\ k + 1 - 1 = k
    OBVIOUS
  <2>2. c[k + 1] = e[k] + units[k + 1].code - 2
    BY <1>7, <2>1
  <2>. QED
    BY <1>8, <2>1, <2>2
<1>11. c \in [1 .. n -> Nat \ {0}] /\ c[1] = units[1].code - 2 /\ Len(d) = c[n] + 3 + Len(units[n].payload)
  <2>1. 1 \in 1 .. n /\ n \in 1 .. n
    OBVIOUS
  <2>2. c \in [1 .. n -> Nat \ {0}]
    BY <1>7, <1>8
  <2>3. c[1] = e[0] + units[1].code - 2 /\ units[1].code \in {3, 4}
    BY <1>3, <1>7, <2>1
  <2>. QED
    BY <1>6, <1>8, <2>1, <2>2, <2>3
<1>12. ASSUME NEW k \in 1 .. n PROVE c[k] + 3 + Len(units[k].payload) <= Len(d)
  BY <1>8
<1>13. \A k \in 1 .. n : /\ d[c[k]] = 0 /\ d[c[k] + 1] = 0 /\ d[c[k] + 2] = 1
                         /\ d[c[k] + 3] = units[k].type
                         /\ \A j \in 1 .. Len(units[k].payload) : d[c[k] + 3 + j] = units[k].payload[j]
                         /\ units[k].code = 4 => d[c[k] - 1] = 0
                         /\ c[k] + 3 + Len(units[k].payload) <= Len(d)
  BY <1>9, <1>12
<1>. QED
  BY <1>5, <1>10, <1>11, <1>13, Zenon DEF Lays

LEMMA StartsIs ==
  ASSUME NEW d \in Seq(Nat), NEW i \in Nat \ {0}, i + 2 <= Len(d)
  PROVE  StartsAt(d, i) <=> d[i] = 0 /\ d[i + 1] = 0 /\ d[i + 2] = 1
<1>1. PICK s : s = SubSeq(d, i, i + 2)
  OBVIOUS
<1>2. s = [j \in 1 .. 3 |-> d[i + j - 1]]
  <2>1. i + 2 - i + 1 = 3
    OBVIOUS
  <2>. QED
    BY <1>1, <2>1
<1>3. s[1] = d[i] /\ s[2] = d[i + 1] /\ s[3] = d[i + 2]
  <2>1. i + 1 - 1 = i /\ i + 2 - 1 = i + 1 /\ i + 3 - 1 = i + 2
    OBVIOUS
  <2>. QED
    BY <1>2, <2>1
<1>4. s = << 0, 0, 1 >> <=> s[1] = 0 /\ s[2] = 0 /\ s[3] = 1
  BY <1>2
<1>. QED
  BY <1>1, <1>3, <1>4 DEF StartsAt

\* Between a start code and the next, or the end, there is none.
LEMMA StartsOnly ==
  ASSUME NEW n \in Nat \ {0}, NEW units \in [1 .. n -> UnitsSent], NEW d, NEW c, Lays(d, units, n, c),
         NEW k \in 1 .. n
  PROVE  /\ StartsAt(d, c[k])
         /\ \A i \in c[k] + 1 .. Len(d) - 2 :
              (k < n => i < c[k + 1]) => ~StartsAt(d, i)
<1>1. PICK p \in Seq(Nat), l \in Nat, t \in Nat :
        /\ p = units[k].payload /\ l = Len(p) /\ t = units[k].type
        /\ t # 0 /\ l > 0 /\ p[l] # 0 /\ \A i \in 1 .. l - 2 : ~StartsAt(p, i)
  <2>1. units[k] \in UnitsSent
    OBVIOUS
  <2>. QED
    BY <2>1, UnitFacts
<1>2. d \in Seq(Nat) /\ Len(d) \in Nat /\ c[k] \in Nat \ {0}
  BY DEF Lays
<1>3. PICK q \in Nat, m \in Nat : q = c[k] /\ m = Len(d) /\ q # 0
  BY <1>2
<1>4. /\ d[q] = 0 /\ d[q + 1] = 0 /\ d[q + 2] = 1 /\ d[q + 3] = t
      /\ \A j \in 1 .. l : d[q + 3 + j] = p[j]
      /\ q + 3 + l <= m
  BY <1>1, <1>3 DEF Lays
<1>5. StartsAt(d, c[k])
  <2>1. q \in Nat \ {0} /\ q + 2 <= Len(d)
    <3>1. q + 3 + l <= m
      BY <1>4
    <3>2. q + 2 <= m
      BY ONLY <3>1, q \in Nat, l \in Nat, m \in Nat
    <3>. QED
      BY <1>3, <3>2
  <2>2. StartsAt(d, q)
    BY <1>2, <1>4, <2>1, StartsIs
  <2>. QED
    BY <1>3, <2>2
<1>6. ASSUME NEW i \in q + 1 .. m - 2, i <= q + 3 + l PROVE ~StartsAt(d, i)
  <2>1. i \in Nat \ {0} /\ i + 2 <= m /\ q + 1 <= i
    BY ONLY q \in Nat, m \in Nat, i \in q + 1 .. m - 2
  <2>2. StartsAt(d, i) <=> d[i] = 0 /\ d[i + 1] = 0 /\ d[i + 2] = 1
    BY <1>2, <1>3, <2>1, StartsIs
  <2>3. CASE i <= q + 3
    <3>1. i = q + 1 \/ i = q + 2 \/ i = q + 3
      BY ONLY <2>1, <2>3, q \in Nat
    <3>2. i = q + 1 => d[i + 1] = 1
      <4>1. i = q + 1 => i + 1 = q + 2
        BY ONLY q \in Nat
      <4>. QED
        BY <1>4, <4>1
    <3>3. i = q + 2 => d[i] = 1
      BY <1>4
    <3>4. i = q + 3 => d[i] = t
      BY <1>4
    <3>. QED
      BY <1>1, <2>2, <3>1, <3>2, <3>3, <3>4
  <2>4. CASE ~(i <= q + 3)
    <3>1. PICK j \in Nat : i = q + 3 + j /\ 1 <= j /\ j <= l
      <4>1. i \in Nat /\ i <= q + 3 + l
        BY <1>6, <2>1
      <4>2. i - (q + 3) \in Nat /\ i = q + 3 + (i - (q + 3)) /\ 1 <= i - (q + 3) /\ i - (q + 3) <= l
        BY ONLY <2>4, <4>1, q \in Nat, l \in Nat
      <4>. QED
        BY <4>2
    <3>2. d[i] = p[j]
      BY <1>4, <3>1
    <3>3. CASE j = l
      BY <1>1, <2>2, <3>2, <3>3
    <3>4. CASE j + 1 = l
      <4>1. i + 1 = q + 3 + l /\ l \in 1 .. l
        BY <3>1, <3>4
      <4>2. d[i + 1] = p[l]
        BY <1>4, <4>1
      <4>. QED
        BY <1>1, <2>2, <4>2
    <3>5. CASE j + 2 <= l
      <4>1. j \in 1 .. l - 2 /\ j + 1 \in 1 .. l /\ j + 2 \in 1 .. l /\ j \in Nat \ {0}
            /\ i + 1 = q + 3 + (j + 1) /\ i + 2 = q + 3 + (j + 2)
        BY <3>1, <3>5
      <4>2. d[i + 1] = p[j + 1] /\ d[i + 2] = p[j + 2]
        BY <1>4, <4>1
      <4>3. StartsAt(p, j) <=> p[j] = 0 /\ p[j + 1] = 0 /\ p[j + 2] = 1
        BY <1>1, <3>5, <4>1, StartsIs
      <4>4. ~StartsAt(p, j)
        BY <1>1, <4>1
      <4>. QED
        BY <2>2, <3>2, <4>2, <4>3, <4>4
    <3>6. j = l \/ j + 1 = l \/ j + 2 <= l
      BY <3>1
    <3>. QED
      BY <3>3, <3>4, <3>5, <3>6
  <2>. QED
    BY <2>3, <2>4
<1>7. ASSUME NEW i \in q + 1 .. m - 2, k < n => i < c[k + 1] PROVE ~StartsAt(d, i)
  <2>1. CASE k = n
    <3>1. m = q + 3 + l
      BY <1>1, <1>3, <2>1 DEF Lays
    <3>2. i <= q + 3 + l
      BY ONLY <3>1, q \in Nat, l \in Nat, m \in Nat, i \in q + 1 .. m - 2
    <3>. QED
      BY <1>6, <3>2
  <2>2. CASE k # n
    <3>1. k \in 1 .. n - 1 /\ k < n /\ k + 1 \in 1 .. n
      BY <2>2
    <3>2. PICK o \in Nat : o = units[k + 1].code /\ (o = 3 \/ o = 4)
      <4>1. units[k + 1] \in UnitsSent
        BY <3>1
      <4>2. units[k + 1].code \in {3, 4}
        BY <4>1, UnitFacts
      <4>. QED
        BY <4>2
    <3>3. PICK r \in Nat : r = c[k + 1] /\ r = q + 3 + l + o - 2
      <4>1. c[k + 1] \in Nat
        BY <3>1 DEF Lays
      <4>2. c[k + 1] = c[k] + 3 + Len(units[k].payload) + units[k + 1].code - 2
        BY <3>1 DEF Lays
      <4>. QED
        BY <1>1, <1>3, <3>2, <4>1, <4>2
    <3>4. i < r
      BY <1>7, <3>1, <3>3
    <3>5. CASE i <= q + 3 + l
      BY <1>6, <3>5
    <3>6. CASE ~(i <= q + 3 + l)
      <4>1. i + 2 = r + 1 /\ o = 4
        <5>1. o = 3 \/ o = 4
          BY <3>2
        <5>2. r = q + 3 + l + o - 2
          BY <3>3
        <5>. QED
          BY ONLY <3>4, <3>6, <5>1, <5>2, q \in Nat, l \in Nat, o \in Nat, r \in Nat, i \in q + 1 .. m - 2, m \in Nat
      <4>2. d[c[k + 1] + 1] = 0
        BY <3>1 DEF Lays
      <4>3. d[i + 2] = 0
        BY <3>3, <4>1, <4>2
      <4>4. i \in Nat \ {0} /\ i + 2 <= m
        BY ONLY q \in Nat, m \in Nat, i \in q + 1 .. m - 2
      <4>5. StartsAt(d, i) <=> d[i] = 0 /\ d[i + 1] = 0 /\ d[i + 2] = 1
        BY <1>2, <1>3, <4>4, StartsIs
      <4>. QED
        BY <4>3, <4>5
    <3>. QED
      BY <3>5, <3>6
  <2>. QED
    BY <2>1, <2>2
<1>. QED
  BY <1>3, <1>5, <1>7

\* Nor before the first.
LEMMA StartsFirst ==
  ASSUME NEW n \in Nat \ {0}, NEW units \in [1 .. n -> UnitsSent], NEW d, NEW c, Lays(d, units, n, c),
         NEW i \in 1 .. c[1] - 1
  PROVE  ~StartsAt(d, i)
<1>1. 1 \in 1 .. n
  OBVIOUS
<1>2. PICK o \in Nat : o = units[1].code /\ (o = 3 \/ o = 4)
  <2>1. units[1] \in UnitsSent
    BY <1>1
  <2>2. units[1].code \in {3, 4}
    BY <2>1, UnitFacts
  <2>. QED
    BY <2>2
<1>3. PICK q \in Nat : q = c[1] /\ q = o - 2
  BY <1>1, <1>2 DEF Lays
<1>4. q = 2 /\ i = 1
  <2>1. (o = 3 \/ o = 4) /\ q = o - 2 /\ i \in 1 .. q - 1
    BY <1>2, <1>3
  <2>. QED
    BY ONLY <2>1, o \in Nat, q \in Nat
<1>5. d \in Seq(Nat) /\ d[c[1] + 1] = 0 /\ c[1] + 3 + Len(units[1].payload) <= Len(d)
  BY <1>1 DEF Lays
<1>6. Len(units[1].payload) \in Nat
  BY <1>1, UnitFacts
<1>7. d[3] = 0 /\ 3 <= Len(d)
  <2>1. PICK l \in Nat, m \in Nat : l = Len(units[1].payload) /\ m = Len(d)
    BY <1>5, <1>6
  <2>2. q + 3 + l <= m /\ d[q + 1] = 0
    BY <1>3, <1>5, <2>1
  <2>3. q + 1 = 3 /\ 3 <= m
    BY ONLY <1>4, <2>2, l \in Nat, m \in Nat
  <2>. QED
    BY <2>1, <2>2, <2>3
<1>8. StartsAt(d, 1) <=> d[1] = 0 /\ d[1 + 1] = 0 /\ d[1 + 2] = 1
  BY <1>5, <1>7, StartsIs
<1>. QED
  BY <1>4, <1>7, <1>8

------------------------------------------------------------------------------
(* The scan of find_units. *)

Accs == [start : Nat, units : Seq(Seq(Nat))]

\* s is what the scan has found at each place.
Scans(s, d) ==
  /\ s \in [0 .. Len(d) - 3 -> Accs] /\ s[0] = [start |-> 0, units |-> <<>>]
  /\ \A i \in 1 .. Len(d) - 3 : s[i] = NextStart(d, s[i - 1], i)

\* The units of a scan, with the one that reaches the end of the packet.
WithLast(acc, d) ==
  IF acc.start > 0 /\ acc.start <= Len(d)
  THEN Append(acc.units, SubSeq(d, acc.start, Len(d))) ELSE acc.units

LEMMA NothingYet == [start |-> 0, units |-> <<>>] \in Accs
<1>1. PICK e \in Seq(Seq(Nat)) : e = <<>>
  <2>1. <<>> \in Seq(Seq(Nat))
    OBVIOUS
  <2>. QED
    BY <2>1
<1>. QED
  BY <1>1 DEF Accs

LEMMA NextTyped ==
  ASSUME NEW d \in Seq(Nat), NEW i \in 1 .. Len(d), NEW acc \in Accs
  PROVE  NextStart(d, acc, i) \in Accs
<1>1. PICK st \in Nat, us \in Seq(Seq(Nat)) : st = acc.start /\ us = acc.units
  BY DEF Accs
<1>2. CASE ~StartsAt(d, i)
  BY <1>2 DEF NextStart
<1>3. CASE StartsAt(d, i)
  <2>1. PICK x : x = IF st > 0 /\ st < i THEN Append(us, SubSeq(d, st, i - 1)) ELSE us
    OBVIOUS
  <2>2. x \in Seq(Seq(Nat))
    <3>1. CASE st > 0 /\ st < i
      <4>1. i \in Nat /\ i - 1 \in 1 .. Len(d) /\ st \in 1 .. Len(d)
        BY <3>1
      <4>2. SubSeq(d, st, i - 1) \in Seq(Nat)
        BY <4>1
      <4>. QED
        BY <1>1, <2>1, <3>1, <4>2
    <3>2. CASE ~(st > 0 /\ st < i)
      BY <1>1, <2>1, <3>2
    <3>. QED
      BY <3>1, <3>2
  <2>3. NextStart(d, acc, i) = [start |-> i + 3, units |-> x]
    BY <1>1, <1>3, <2>1 DEF NextStart
  <2>4. i + 3 \in Nat
    OBVIOUS
  <2>. QED
    BY <2>2, <2>3, <2>4 DEF Accs
<1>. QED
  BY <1>2, <1>3

LEMMA ScanExists ==
  ASSUME NEW d \in Seq(Nat), Len(d) >= 3
  PROVE  \E s : Scans(s, d)
<1>1. PICK m \in Nat : m = Len(d) - 3
  OBVIOUS
<1>2. PICK step : step = [i \in 1 .. m |-> [x \in Accs |-> NextStart(d, x, i)]]
  OBVIOUS
<1>3. ASSUME NEW i \in 1 .. m, NEW x \in Accs
      PROVE  NextStart(d, x, i) \in Accs /\ step[i][x] = NextStart(d, x, i)
  <2>1. i \in 1 .. Len(d)
    BY <1>1
  <2>. QED
    BY <1>2, <2>1, NextTyped
<1>4. step \in [1 .. m -> [Accs -> Accs]]
  BY <1>2, <1>3
<1>5. PICK base \in Accs : base = [start |-> 0, units |-> <<>>]
  BY NothingYet
<1>6. PICK s : Recurs(s, m, Accs, base, step)
  BY <1>1, <1>4, <1>5, Recursion
<1>7. s \in [0 .. m -> Accs] /\ s[0] = base /\ \A i \in 1 .. m : s[i] = step[i][s[i - 1]]
  BY <1>6 DEF Recurs
<1>8. ASSUME NEW i \in 1 .. m PROVE s[i] = NextStart(d, s[i - 1], i)
  <2>1. i - 1 \in 0 .. m
    BY <1>1
  <2>2. s[i - 1] \in Accs
    BY <1>7, <2>1
  <2>. QED
    BY <1>3, <1>7, <2>2
<1>. QED
  BY <1>1, <1>5, <1>7, <1>8 DEF Scans

LEMMA ScanIs ==
  ASSUME NEW d \in Seq(Nat), Len(d) >= 3
  PROVE  \E s : Scans(s, d) /\ find_units(d) = WithLast(s[Len(d) - 3], d)
<1>. DEFINE F(h) == [i \in 0 .. Len(d) - 3 |->
                       IF i = 0 THEN [start |-> 0, units |-> <<>>] ELSE NextStart(d, h[i - 1], i)]
<1>1. PICK m \in Nat : m = Len(d) - 3
  OBVIOUS
<1>2. PICK g : Scans(g, d)
  BY ScanExists
<1>3. g = F(g)
  <2>1. g \in [0 .. m -> Accs]
    BY <1>1, <1>2 DEF Scans
  <2>2. ASSUME NEW i \in 0 .. m
        PROVE  g[i] = IF i = 0 THEN [start |-> 0, units |-> <<>>] ELSE NextStart(d, g[i - 1], i)
    <3>1. CASE i = 0
      BY <1>2, <3>1 DEF Scans
    <3>2. CASE i # 0
      <4>1. i \in 1 .. m
        BY <3>2
      <4>2. g[i] = NextStart(d, g[i - 1], i)
        BY <1>1, <1>2, <4>1 DEF Scans
      <4>. QED
        BY <3>2, <4>2
    <3>. QED
      BY <3>1, <3>2
  <2>3. g = [i \in 0 .. m |-> g[i]]
    BY <2>1
  <2>. QED
    BY <1>1, <2>2, <2>3
<1>4. PICK f : f = CHOOSE h : h = F(h)
  OBVIOUS
<1>5. f = F(f)
  BY <1>3, <1>4
<1>6. find_units(d) = WithLast(f[Len(d) - 3], d)
  BY <1>4 DEF find_units, WithLast
<1>7. \A i \in 0 .. m : f[i] = IF i = 0 THEN [start |-> 0, units |-> <<>>] ELSE NextStart(d, f[i - 1], i)
  BY <1>1, <1>5, Zenon
<1>8. \A i \in 0 .. m : f[i] \in Accs
  <2>. SUFFICES ASSUME NEW l \in 0 .. m, f[l] \notin Accs PROVE FALSE
    OBVIOUS
  <2>. DEFINE S == {i \in Nat : i <= m /\ f[i] \notin Accs}
  <2>1. S \subseteq Nat /\ l \in S
    OBVIOUS
  <2>2. PICK i \in S : \A k \in S : i <= k
    <3>. HIDE DEF S
    <3>. QED
      BY <2>1, Least
  <2>3. i \in 0 .. m /\ f[i] \notin Accs /\ i \in Nat
    BY <2>2
  <2>4. i # 0
    <3>1. f[0] = [start |-> 0, units |-> <<>>]
      BY <1>1, <1>7
    <3>. QED
      BY <2>3, <3>1, NothingYet
  <2>5. i - 1 \in 0 .. m /\ ~(i <= i - 1) /\ i - 1 \in Nat /\ i - 1 <= m /\ i \in 1 .. Len(d)
    BY <1>1, <2>3, <2>4
  <2>6. f[i - 1] \in Accs
    BY <2>2, <2>5
  <2>7. f[i] = NextStart(d, f[i - 1], i)
    BY <1>7, <2>3, <2>4
  <2>. QED
    BY <2>3, <2>5, <2>6, <2>7, NextTyped
<1>9. f \in [0 .. m -> Accs]
  <2>1. f = [i \in 0 .. m |-> IF i = 0 THEN [start |-> 0, units |-> <<>>] ELSE NextStart(d, f[i - 1], i)]
    BY <1>1, <1>5, Zenon
  <2>. QED
    BY <1>7, <1>8, <2>1
<1>10. f[0] = [start |-> 0, units |-> <<>>] /\ \A i \in 1 .. m : f[i] = NextStart(d, f[i - 1], i)
  <2>1. 0 \in 0 .. m /\ \A i \in 1 .. m : i \in 0 .. m /\ i # 0
    BY <1>1
  <2>. QED
    BY <1>7, <2>1
<1>. QED
  BY <1>1, <1>6, <1>9, <1>10 DEF Scans

\* Where no start code lies nothing is found.
LEMMA ScanStays ==
  ASSUME NEW d \in Seq(Nat), Len(d) >= 3, NEW s, Scans(s, d), NEW a \in Nat, NEW b \in Nat,
         a <= b, b <= Len(d) - 3, \A i \in a + 1 .. b : ~StartsAt(d, i)
  PROVE  s[b] = s[a]
<1>. SUFFICES ASSUME s[b] # s[a] PROVE FALSE
  OBVIOUS
<1>. DEFINE S == {i \in Nat : a <= i /\ i <= b /\ s[i] # s[a]}
<1>1. S \subseteq Nat /\ b \in S
  OBVIOUS
<1>2. PICK i \in S : \A k \in S : i <= k
  <2>. HIDE DEF S
  <2>. QED
    BY <1>1, Least
<1>3. i \in Nat /\ a <= i /\ i <= b /\ s[i] # s[a] /\ i # a
  BY <1>2
<1>4. PICK m \in Nat : m = Len(d) - 3
  OBVIOUS
<1>5. i - 1 \in Nat /\ a <= i - 1 /\ i - 1 <= b /\ ~(i <= i - 1) /\ i \in a + 1 .. b /\ i \in 1 .. m
  BY <1>3, <1>4
<1>6. s[i - 1] = s[a]
  BY <1>2, <1>5
<1>7. ~StartsAt(d, i)
  BY <1>5
<1>8. s[i] = NextStart(d, s[i - 1], i)
  BY <1>4, <1>5 DEF Scans
<1>. QED
  BY <1>3, <1>6, <1>7, <1>8 DEF NextStart

\* The unit at k, as the scan cuts it.
LEMMA CutIs ==
  ASSUME NEW n \in Nat \ {0}, NEW units \in [1 .. n -> UnitsSent], NEW d, NEW c, Lays(d, units, n, c),
         NEW k \in 1 .. n, NEW e \in Nat, e = IF k < n THEN c[k + 1] - 1 ELSE Len(d)
  PROVE  SubSeq(d, c[k] + 3, e) = FoundUnit(units, k) /\ FoundUnit(units, k) \in Seq(Nat)
<1>1. PICK p \in Seq(Nat), l \in Nat, t \in Nat : p = units[k].payload /\ l = Len(p) /\ t = units[k].type
  <2>1. units[k] \in UnitsSent
    OBVIOUS
  <2>. QED
    BY <2>1, UnitFacts
<1>2. d \in Seq(Nat) /\ Len(d) \in Nat /\ c[k] \in Nat \ {0}
  BY DEF Lays
<1>3. PICK q \in Nat, m \in Nat : q = c[k] /\ m = Len(d) /\ q # 0
  BY <1>2
<1>4. /\ d[q + 3] = t /\ \A j \in 1 .. l : d[q + 3 + j] = p[j]
      /\ q + 3 + l <= m
  BY <1>1, <1>3 DEF Lays
<1>5. PICK z \in Seq(Nat) : z = IF k < Len(units) /\ units[k + 1].code = 4 THEN << 0 >> ELSE <<>>
  <2>1. << 0 >> \in Seq(Nat) /\ <<>> \in Seq(Nat)
    OBVIOUS
  <2>. QED
    BY <2>1
\* The zero behind the unit.
<1>6. e = q + 3 + l + Len(z) /\ e <= m /\ \A j \in 1 .. Len(z) : d[q + 3 + l + j] = z[j]
  <2>1. Len(units) = n
    OBVIOUS
  <2>2. CASE k = n
    <3>1. z = <<>> /\ e = m
      BY <1>3, <1>5, <2>1, <2>2
    <3>2. m = q + 3 + l
      BY <1>1, <1>3, <2>2 DEF Lays
    <3>. QED
      BY <3>1, <3>2
  <2>3. CASE k # n
    <3>1. k \in 1 .. n - 1 /\ k < n /\ k + 1 \in 1 .. n
      BY <2>3
    <3>2. units[k + 1] \in UnitsSent
      BY <3>1
    <3>3. units[k + 1].code \in {3, 4} /\ Len(units[k + 1].payload) \in Nat
      BY <3>2, UnitFacts
    <3>4. PICK o \in Nat : o = units[k + 1].code /\ (o = 3 \/ o = 4)
      BY <3>3
    <3>5. PICK r \in Nat : r = c[k + 1] /\ r = q + 3 + l + o - 2
      <4>1. c[k + 1] \in Nat
        BY <3>1 DEF Lays
      <4>2. c[k + 1] = c[k] + 3 + Len(units[k].payload) + units[k + 1].code - 2
        BY <3>1 DEF Lays
      <4>. QED
        BY <1>1, <1>3, <3>4, <4>1, <4>2
    <3>6. PICK x \in Nat : x = Len(units[k + 1].payload) /\ r + 3 + x <= m
      <4>1. c[k + 1] + 3 + Len(units[k + 1].payload) <= Len(d)
        BY <3>1 DEF Lays
      <4>. QED
        BY <1>3, <3>3, <3>5, <4>1
    <3>60. r + 3 + x <= m
      BY <3>6
    <3>7. e = r - 1
      BY <3>1, <3>5
    <3>8. CASE o = 3
      <4>1. z = <<>>
        BY <1>5, <2>1, <3>4, <3>8
      <4>2. r = q + 3 + l + 1
        BY <3>5, <3>8
      <4>3. e = q + 3 + l /\ e <= m
        BY ONLY <3>60, <3>7, <4>2, q \in Nat, l \in Nat, m \in Nat, x \in Nat, r \in Nat, e \in Nat
      <4>. QED
        BY <4>1, <4>3
    <3>9. CASE o = 4
      <4>1. z = << 0 >>
        BY <1>5, <2>1, <3>1, <3>4, <3>9
      <4>2. r = q + 3 + l + 2
        BY <3>5, <3>9
      <4>3. e = q + 3 + l + 1 /\ e <= m /\ r - 1 = q + 3 + l + 1
        BY ONLY <3>60, <3>7, <4>2, q \in Nat, l \in Nat, m \in Nat, x \in Nat, r \in Nat, e \in Nat
      <4>4. d[r - 1] = 0
        <5>1. d[c[k + 1] - 1] = 0
          BY <3>1, <3>4, <3>9 DEF Lays
        <5>. QED
          BY <3>5, <5>1
      <4>5. Len(z) = 1 /\ z[1] = 0
        BY <4>1
      <4>6. d[q + 3 + l + 1] = 0
        BY <4>3, <4>4
      <4>. QED
        BY <4>3, <4>5, <4>6
    <3>. QED
      BY <3>4, <3>8, <3>9
  <2>. QED
    BY <2>2, <2>3
<1>7. PICK h : h = << t >>
  OBVIOUS
<1>8. h \in Seq(Nat) /\ Len(h) = 1 /\ h[1] = t
  BY <1>7
<1>9. PICK hp : hp = h \o p
  OBVIOUS
<1>10. /\ hp \in Seq(Nat) /\ Len(hp) = Len(h) + Len(p)
       /\ \A i \in 1 .. Len(h) : hp[i] = h[i]
       /\ \A i \in 1 .. Len(p) : hp[Len(h) + i] = p[i]
  <2>1. h \in Seq(Nat) /\ p \in Seq(Nat)
    BY <1>1, <1>8
  <2>. QED
    BY ONLY <2>1, <1>9, Joined
<1>11. PICK f : f = hp \o z
  OBVIOUS
<1>12. /\ f \in Seq(Nat) /\ Len(f) = Len(hp) + Len(z)
       /\ \A i \in 1 .. Len(hp) : f[i] = hp[i]
       /\ \A i \in 1 .. Len(z) : f[Len(hp) + i] = z[i]
  <2>1. hp \in Seq(Nat) /\ z \in Seq(Nat)
    BY <1>5, <1>10
  <2>. QED
    BY ONLY <2>1, <1>11, Joined
<1>13. f = FoundUnit(units, k)
  BY <1>1, <1>5, <1>7, <1>9, <1>11 DEF FoundUnit
<1>14. PICK y \in Nat : y = Len(z)
  BY <1>5
<1>15. Len(hp) = 1 + l /\ Len(f) = 1 + l + y
  BY <1>1, <1>8, <1>10, <1>12, <1>14
<1>16. PICK b \in Nat : b = q + 3 /\ b + l + y = e /\ e - b + 1 = 1 + l + y /\ 1 <= b
  <2>1. e = q + 3 + l + y
    BY <1>6, <1>14
  <2>2. PICK b \in Nat : b = q + 3
    OBVIOUS
  <2>3. b + l + y = e /\ e - b + 1 = 1 + l + y /\ 1 <= b
    BY ONLY <2>1, <2>2, q \in Nat, l \in Nat, y \in Nat, e \in Nat, b \in Nat
  <2>. QED
    BY <2>2, <2>3
<1>17. SubSeq(d, b, e) = [i \in 1 .. 1 + l + y |-> d[b + i - 1]]
  <2>1. SubSeq(d, b, e) = [i \in 1 .. e - b + 1 |-> d[b + i - 1]]
    OBVIOUS
  <2>. QED
    BY <1>16, <2>1
<1>18. ASSUME NEW i \in 1 .. 1 + l + y PROVE d[b + i - 1] = f[i]
  <2>1. CASE i = 1
    <3>1. b + i - 1 = q + 3 /\ i \in 1 .. Len(hp) /\ i \in 1 .. Len(h)
      BY <1>8, <1>15, <1>16, <2>1
    <3>. QED
      BY <1>4, <1>8, <1>10, <1>12, <2>1, <3>1
  <2>2. CASE i # 1 /\ i <= 1 + l
    <3>1. PICK j \in 1 .. l : i = 1 + j /\ b + i - 1 = q + 3 + j /\ i \in 1 .. Len(hp)
      <4>1. i - 1 \in 1 .. l /\ i = 1 + (i - 1) /\ b + i - 1 = q + 3 + (i - 1) /\ i \in 1 .. 1 + l
        BY <1>16, <2>2
      <4>. QED
        BY <1>15, <4>1
    <3>2. j \in 1 .. Len(p) /\ hp[1 + j] = p[j]
      BY <1>1, <1>8, <1>10
    <3>3. d[q + 3 + j] = p[j]
      BY <1>4
    <3>. QED
      BY <1>12, <3>1, <3>2, <3>3
  <2>3. CASE ~(i <= 1 + l)
    <3>1. PICK j \in 1 .. y : i = 1 + l + j /\ b + i - 1 = q + 3 + l + j
      <4>1. i - (1 + l) \in 1 .. y /\ i = 1 + l + (i - (1 + l)) /\ b + i - 1 = q + 3 + l + (i - (1 + l))
        BY <1>16, <2>3
      <4>. QED
        BY <4>1
    <3>2. f[1 + l + j] = z[j]
      <4>1. j \in 1 .. Len(z)
        BY <1>14
      <4>2. f[Len(hp) + j] = z[j]
        BY <1>12, <4>1
      <4>. QED
        BY <1>15, <4>2
    <3>3. d[q + 3 + l + j] = z[j]
      BY <1>6, <1>14
    <3>. QED
      BY <3>1, <3>2, <3>3
  <2>. QED
    BY <2>1, <2>2, <2>3
<1>19. f = [i \in 1 .. 1 + l + y |-> f[i]]
  <2>1. f \in Seq(Nat)
    BY <1>12
  <2>2. f = [i \in 1 .. Len(f) |-> f[i]]
    BY ONLY <2>1
  <2>. QED
    BY <1>15, <2>2
<1>20. SubSeq(d, b, e) = f
  BY <1>17, <1>18, <1>19
<1>. QED
  BY <1>3, <1>12, <1>13, <1>16, <1>20

LEMMA Longer ==
  ASSUME NEW T, NEW n \in Nat, NEW f \in [1 .. n -> T], NEW m \in Nat, m < n
  PROVE  Append([j \in 1 .. m |-> f[j]], f[m + 1]) = [j \in 1 .. m + 1 |-> f[j]]
<1>1. PICK g : g = [j \in 1 .. m |-> f[j]]
  OBVIOUS
<1>2. PICK x \in T : x = f[m + 1]
  OBVIOUS
<1>3. g \in [1 .. m -> T]
  BY <1>1
<1>4. g \in Seq(T) /\ Len(g) = m
  BY ONLY <1>3, m \in Nat
<1>5. Append(g, x) = [i \in 1 .. m + 1 |-> IF i = m + 1 THEN x ELSE g[i]]
  <2>1. PICK a : a = Append(g, x)
    OBVIOUS
  <2>2. /\ a \in Seq(T) /\ Len(a) = Len(g) + 1
        /\ \A i \in 1 .. Len(g) : a[i] = g[i]
        /\ a[Len(g) + 1] = x
    BY <1>4, <2>1, AppendProperties
  <2>3. a \in Seq(T) /\ Len(a) = m + 1
    BY <1>4, <2>2
  <2>4. \A i \in 1 .. m + 1 : a[i] = IF i = m + 1 THEN x ELSE g[i]
    BY <1>4, <2>2
  <2>5. a = [i \in 1 .. m + 1 |-> a[i]]
    BY <2>3
  <2>. QED
    BY <2>1, <2>4, <2>5
<1>6. \A i \in 1 .. m + 1 : (IF i = m + 1 THEN x ELSE g[i]) = f[i]
  BY <1>1, <1>2
<1>. QED
  BY <1>1, <1>2, <1>5, <1>6

\* find_units finds the units of a packet, in order.
LEMMA UnitsFound ==
  ASSUME NEW n \in Nat \ {0}, NEW units \in [1 .. n -> UnitsSent]
  PROVE  /\ find_units(PacketOf(units)) = [k \in 1 .. n |-> FoundUnit(units, k)]
         /\ \A k \in 1 .. n : FoundUnit(units, k) \in Seq(Nat)
<1>1. PICK d, c : d = PacketOf(units) /\ Lays(d, units, n, c)
  BY PacketLays
<1>2. PICK m \in Nat : m = Len(d)
  <2>1. d \in Seq(Nat)
    BY <1>1 DEF Lays
  <2>. QED
    BY <2>1
<1>3. d \in Seq(Nat)
  BY <1>1 DEF Lays
<1>4. PICK F : F = [k \in 1 .. n |-> FoundUnit(units, k)]
  OBVIOUS
<1>5. ASSUME NEW k \in 1 .. n
      PROVE  /\ c[k] \in Nat \ {0} /\ Len(units[k].payload) \in Nat /\ Len(units[k].payload) > 0
             /\ c[k] + 3 + Len(units[k].payload) <= m /\ c[k] <= m - 3
  <2>1. units[k] \in UnitsSent
    OBVIOUS
  <2>2. PICK l \in Nat : l = Len(units[k].payload) /\ l > 0
    BY <2>1, UnitFacts
  <2>3. PICK q \in Nat : q = c[k] /\ q # 0
    <3>1. c \in [1 .. n -> Nat \ {0}]
      BY <1>1 DEF Lays
    <3>2. c[k] \in Nat \ {0}
      BY <3>1
    <3>. QED
      BY <3>2
  <2>4. q + 3 + l <= m
    BY <1>1, <1>2, <2>2, <2>3 DEF Lays
  <2>5. q <= m - 3
    BY ONLY <2>4, q \in Nat, l \in Nat, m \in Nat
  <2>. QED
    BY <2>2, <2>3, <2>4, <2>5
<1>6. ASSUME NEW k \in 1 .. n - 1
      PROVE  /\ c[k] + 3 < c[k + 1] /\ c[k + 1] \in Nat \ {0} /\ c[k + 1] <= m - 3
             /\ k \in 1 .. n /\ k + 1 \in 1 .. n
  <2>1. k \in 1 .. n /\ k + 1 \in 1 .. n
    OBVIOUS
  <2>2. units[k + 1] \in UnitsSent
    BY <2>1
  <2>3. units[k + 1].code \in {3, 4}
    BY <2>2, UnitFacts
  <2>4. PICK o \in Nat : o = units[k + 1].code /\ o >= 3
    BY <2>3
  <2>5. c[k + 1] = c[k] + 3 + Len(units[k].payload) + o - 2
    BY <1>1, <2>4 DEF Lays
  <2>6. PICK q \in Nat, l \in Nat : q = c[k] /\ l = Len(units[k].payload)
    BY <1>5, <2>1
  <2>7. c[k] + 3 < c[k + 1]
    <3>1. q + 3 < q + 3 + l + o - 2
      BY ONLY <2>4, q \in Nat, l \in Nat, o \in Nat
    <3>. QED
      BY <2>5, <2>6, <3>1
  <2>. QED
    BY <1>5, <2>1, <2>7
<1>7. m >= 3
  <2>1. PICK q \in Nat : q <= m - 3
    <3>1. 1 \in 1 .. n
      OBVIOUS
    <3>2. c[1] \in Nat \ {0} /\ c[1] <= m - 3
      BY <1>5, <3>1
    <3>. QED
      BY <3>2
  <2>. QED
    BY <2>1
<1>8. PICK s : Scans(s, d) /\ find_units(d) = WithLast(s[m - 3], d)
  BY <1>2, <1>3, <1>7, ScanIs
<1>9. ASSUME NEW k \in 1 .. n PROVE F[k] = FoundUnit(units, k) /\ F[k] \in Seq(Nat)
  <2>1. F[k] = FoundUnit(units, k)
    BY <1>4
  <2>2. PICK e \in Nat : e = IF k < n THEN c[k + 1] - 1 ELSE Len(d)
    <3>1. CASE k < n
      <4>0. k \in 1 .. n - 1
        BY <3>1
      <4>1. c[k + 1] \in Nat \ {0}
        BY <1>6, <4>0
      <4>. QED
        BY <3>1, <4>1
    <3>2. CASE ~(k < n)
      BY <1>2, <3>2
    <3>. QED
      BY <3>1, <3>2
  <2>3. FoundUnit(units, k) \in Seq(Nat)
    BY <1>1, <2>2, CutIs
  <2>. QED
    BY <2>1, <2>3
<1>10. F \in [1 .. n -> Seq(Nat)]
  BY <1>4, <1>9
<1>. DEFINE Fun(k) == [j \in 1 .. k |-> F[j]]
            At(k) == s[c[k]] = [start |-> c[k] + 3, units |-> Fun(k - 1)]
<1>11. At(1)
  <2>1. PICK q \in Nat : q = c[1] /\ q # 0 /\ q <= m - 3
    <3>1. 1 \in 1 .. n
      OBVIOUS
    <3>2. c[1] \in Nat \ {0} /\ c[1] <= m - 3
      BY <1>5, <3>1
    <3>. QED
      BY <3>2
  <2>2. q - 1 \in Nat /\ q - 1 <= m - 3 /\ 0 <= q - 1 /\ q \in 1 .. m - 3 /\ 0 + 1 = 1
    BY <1>2, <2>1
  <2>3. \A i \in 0 + 1 .. q - 1 : ~StartsAt(d, i)
    <3>1. ASSUME NEW i \in 1 .. c[1] - 1 PROVE ~StartsAt(d, i)
      BY <1>1, StartsFirst
    <3>. QED
      BY <2>1, <2>2, <3>1
  <2>4. s[q - 1] = s[0]
    BY <1>2, <1>3, <1>7, <1>8, <2>2, <2>3, ScanStays
  <2>5. s[0] = [start |-> 0, units |-> <<>>] /\ s[q] = NextStart(d, s[q - 1], q)
    BY <1>2, <1>8, <2>2 DEF Scans
  <2>6. StartsAt(d, q)
    BY <1>1, <2>1, StartsOnly
  <2>7. s[q] = [start |-> q + 3, units |-> <<>>]
    BY <2>4, <2>5, <2>6 DEF NextStart
  <2>8. Fun(0) = <<>>
    OBVIOUS
  <2>. QED
    BY <2>1, <2>7, <2>8
<1>12. ASSUME NEW k \in 1 .. n - 1, At(k) PROVE At(k + 1)
  <2>1. PICK q \in Nat, r \in Nat :
          /\ q = c[k] /\ r = c[k + 1] /\ q # 0 /\ r # 0 /\ q + 3 < r /\ r <= m - 3
    BY <1>5, <1>6
  <2>2. r - 1 \in Nat /\ r - 1 <= m - 3 /\ q <= r - 1 /\ r \in 1 .. m - 3
    BY ONLY <2>1, m \in Nat, q \in Nat, r \in Nat, SMTT(30)
  <2>3. \A i \in q + 1 .. r - 1 : ~StartsAt(d, i)
    <3>1. ASSUME NEW i \in q + 1 .. r - 1 PROVE ~StartsAt(d, i)
      <4>1. i \in q + 1 .. m - 2 /\ i < r
        BY ONLY <2>1, q \in Nat, r \in Nat, m \in Nat, i \in q + 1 .. r - 1
      <4>2. i \in c[k] + 1 .. Len(d) - 2 /\ i < c[k + 1]
        BY <1>2, <2>1, <4>1
      <4>. QED
        BY <1>1, <1>6, <4>2, StartsOnly
    <3>. QED
      BY <3>1
  <2>4. s[r - 1] = s[q]
    BY <1>2, <1>3, <1>7, <1>8, <2>2, <2>3, ScanStays
  <2>5. s[r] = NextStart(d, s[r - 1], r)
    BY <1>2, <1>8, <2>2 DEF Scans
  <2>6. StartsAt(d, r)
    BY <1>1, <1>6, <2>1, StartsOnly
  <2>7. s[q] = [start |-> q + 3, units |-> Fun(k - 1)]
    BY <1>12, <2>1
  <2>8. s[r] = [start |-> r + 3, units |-> Append(Fun(k - 1), SubSeq(d, q + 3, r - 1))]
    <3>. HIDE DEF Fun
    <3>1. PICK acc : acc = s[r - 1] /\ acc.start = q + 3 /\ acc.units = Fun(k - 1)
      BY <2>4, <2>7
    <3>2. s[r] = [start |-> r + 3,
                  units |-> IF acc.start > 0 /\ acc.start < r
                            THEN Append(acc.units, SubSeq(d, acc.start, r - 1)) ELSE acc.units]
      BY <2>5, <2>6, <3>1 DEF NextStart
    <3>3. acc.start > 0 /\ acc.start < r
      BY <2>1, <3>1
    <3>. QED
      BY <3>1, <3>2, <3>3
  <2>9. SubSeq(d, q + 3, r - 1) = F[k]
    <3>1. PICK e \in Nat : e = r - 1 /\ e = IF k < n THEN c[k + 1] - 1 ELSE Len(d)
      <4>1. k < n
        OBVIOUS
      <4>. QED
        BY <2>1, <2>2, <4>1
    <3>0. k \in 1 .. n
      BY <1>6
    <3>2. SubSeq(d, c[k] + 3, e) = FoundUnit(units, k)
      BY <1>1, <3>0, <3>1, CutIs
    <3>. QED
      BY <1>9, <2>1, <3>0, <3>1, <3>2
  <2>10. Append(Fun(k - 1), F[k]) = Fun(k)
    <3>1. k - 1 \in Nat /\ k - 1 < n /\ k - 1 + 1 = k
      OBVIOUS
    <3>2. Append(Fun(k - 1), F[k - 1 + 1]) = Fun(k - 1 + 1)
      BY <1>10, <3>1, Longer
    <3>. QED
      BY <3>1, <3>2
  <2>11. Fun(k + 1 - 1) = Fun(k)
    OBVIOUS
  <2>. HIDE DEF Fun
  <2>. QED
    <3>1. s[r] = [start |-> r + 3, units |-> Fun(k)]
      BY <2>8, <2>9, <2>10
    <3>2. s[r] = [start |-> r + 3, units |-> Fun(k + 1 - 1)]
      BY <2>11, <3>1, Zenon
    <3>3. r = c[k + 1]
      BY <2>1
    <3>4. s[c[k + 1]] = [start |-> c[k + 1] + 3, units |-> Fun(k + 1 - 1)]
      BY <3>2, <3>3
    <3>. QED
      BY <3>4
<1>13. At(n)
  <2>. SUFFICES ASSUME ~At(n) PROVE FALSE
    OBVIOUS
  <2>. HIDE DEF At
  <2>. DEFINE S == {k \in Nat : 1 <= k /\ k <= n /\ ~At(k)}
  <2>1. S \subseteq Nat /\ n \in S
    OBVIOUS
  <2>2. PICK k \in S : \A j \in S : k <= j
    <3>. HIDE DEF S
    <3>. QED
      BY <2>1, Least
  <2>3. k \in Nat /\ 1 <= k /\ k <= n /\ ~At(k) /\ k # 1
    BY <1>11, <2>2
  <2>4. /\ k - 1 \in Nat /\ 1 <= k - 1 /\ k - 1 <= n /\ k - 1 \in 1 .. n - 1
        /\ ~(k <= k - 1) /\ k - 1 + 1 = k
    BY <2>3
  <2>5. At(k - 1)
    BY <2>2, <2>4
  <2>. QED
    BY <1>12, <2>3, <2>4, <2>5
<1>14. PICK q \in Nat, l \in Nat :
         q = c[n] /\ l = Len(units[n].payload) /\ q <= m - 3 /\ m = q + 3 + l /\ l > 0
  <2>1. n \in 1 .. n
    OBVIOUS
  <2>2. Len(d) = c[n] + 3 + Len(units[n].payload)
    BY <1>1 DEF Lays
  <2>. QED
    BY <1>2, <1>5, <2>1, <2>2
<1>15. s[m - 3] = s[q]
  <2>1. m - 3 \in Nat /\ q <= m - 3 /\ m - 3 <= m - 3
    BY <1>7, <1>14
  <2>2. ASSUME NEW i \in q + 1 .. m - 3 PROVE ~StartsAt(d, i)
    <3>1. i \in c[n] + 1 .. Len(d) - 2 /\ ~(n < n)
      BY <1>2, <1>14
    <3>2. n \in 1 .. n
      OBVIOUS
    <3>. QED
      BY <1>1, <3>1, <3>2, StartsOnly
  <2>3. d \in Seq(Nat) /\ Len(d) >= 3 /\ Scans(s, d) /\ m - 3 <= Len(d) - 3
    BY <1>2, <1>3, <1>7, <1>8
  <2>. QED
    BY ONLY <2>1, <2>2, <2>3, q \in Nat, ScanStays
<1>16. s[m - 3] = [start |-> q + 3, units |-> Fun(n - 1)]
  BY <1>13, <1>14, <1>15
<1>17. find_units(d) = Append(Fun(n - 1), SubSeq(d, q + 3, m))
  <2>1. q + 3 > 0 /\ q + 3 <= Len(d)
    <3>1. q + 3 <= m
      BY <1>14
    <3>. QED
      BY <1>2, <3>1
  <2>. HIDE DEF Fun
  <2>. QED
    BY <1>2, <1>8, <1>16, <2>1 DEF WithLast
<1>18. SubSeq(d, q + 3, m) = F[n]
  <2>1. n \in 1 .. n /\ m = IF n < n THEN c[n + 1] - 1 ELSE Len(d)
    BY <1>2
  <2>2. SubSeq(d, c[n] + 3, m) = FoundUnit(units, n)
    BY <1>1, <2>1, CutIs
  <2>. QED
    BY <1>9, <1>14, <2>1, <2>2
<1>19. Append(Fun(n - 1), F[n]) = F
  <2>1. n - 1 \in Nat /\ n - 1 < n /\ n - 1 + 1 = n
    OBVIOUS
  <2>2. Append(Fun(n - 1), F[n - 1 + 1]) = Fun(n - 1 + 1)
    BY <1>10, <2>1, Longer
  <2>3. Fun(n) = F
    BY <1>10
  <2>. QED
    BY <2>1, <2>2, <2>3
<1>20. find_units(d) = F
  <2>. HIDE DEF Fun
  <2>. QED
    BY <1>17, <1>18, <1>19
<1>. QED
  BY <1>1, <1>4, <1>9, <1>20

------------------------------------------------------------------------------
(* H.264: the decoder. *)

ParameterSets == [sps : Seq(Nat), pps : Seq(Nat)]

Outcomes == [status : {"none", "frame", "error"}, key : BOOLEAN, sets : ParameterSets]

\* t is what the units up to each place make of the decoder.
Taking(t, sets, found, n) ==
  /\ t \in [0 .. n -> Outcomes] /\ t[0] = [status |-> "none", key |-> FALSE, sets |-> sets]
  /\ \A i \in 1 .. n : t[i] = Take(t[i - 1], found[i])

LEMMA TakeTyped ==
  ASSUME NEW acc \in Outcomes, NEW unit \in Seq(Nat), unit # <<>>
  PROVE  Take(acc, unit) \in Outcomes
<1>1. PICK p \in Seq(Nat) : p = payload(unit)
  BY HeadTailProperties DEF payload
<1>. QED
  BY <1>1 DEF Take, TakeUnit, Outcomes, ParameterSets

LEMMA TakesExist ==
  ASSUME NEW n \in Nat, NEW found \in [1 .. n -> Seq(Nat)], \A i \in 1 .. n : found[i] # <<>>,
         NEW sets \in ParameterSets
  PROVE  \E t : Taking(t, sets, found, n)
<1>1. PICK step : step = [i \in 1 .. n |-> [x \in Outcomes |-> Take(x, found[i])]]
  OBVIOUS
<1>2. ASSUME NEW i \in 1 .. n, NEW x \in Outcomes
      PROVE  Take(x, found[i]) \in Outcomes /\ step[i][x] = Take(x, found[i])
  <2>1. found[i] \in Seq(Nat) /\ found[i] # <<>>
    OBVIOUS
  <2>. QED
    BY <1>1, <2>1, TakeTyped
<1>3. step \in [1 .. n -> [Outcomes -> Outcomes]]
  BY <1>1, <1>2
<1>4. PICK base \in Outcomes : base = [status |-> "none", key |-> FALSE, sets |-> sets]
  BY DEF Outcomes
<1>5. PICK t : Recurs(t, n, Outcomes, base, step)
  BY <1>3, <1>4, Recursion
<1>6. t \in [0 .. n -> Outcomes] /\ t[0] = base /\ \A i \in 1 .. n : t[i] = step[i][t[i - 1]]
  BY <1>5 DEF Recurs
<1>7. ASSUME NEW i \in 1 .. n PROVE t[i] = Take(t[i - 1], found[i])
  <2>1. i - 1 \in 0 .. n
    OBVIOUS
  <2>2. t[i - 1] \in Outcomes
    BY <1>6, <2>1
  <2>. QED
    BY <1>2, <1>6, <2>2
<1>. QED
  BY <1>4, <1>6, <1>7 DEF Taking

LEMMA TakesIs ==
  ASSUME NEW n \in Nat, NEW found \in [1 .. n -> Seq(Nat)], \A i \in 1 .. n : found[i] # <<>>,
         NEW sets \in ParameterSets
  PROVE  \E t : Taking(t, sets, found, n) /\ TakeAll(sets, found) = t[n]
<1>. DEFINE F(h) == [i \in 0 .. Len(found) |->
                       IF i = 0 THEN [status |-> "none", key |-> FALSE, sets |-> sets]
                       ELSE Take(h[i - 1], found[i])]
<1>1. Len(found) = n
  OBVIOUS
<1>2. PICK g : Taking(g, sets, found, n)
  BY TakesExist
<1>3. g = F(g)
  <2>1. g \in [0 .. n -> Outcomes]
    BY <1>2 DEF Taking
  <2>2. ASSUME NEW i \in 0 .. n
        PROVE  g[i] = IF i = 0 THEN [status |-> "none", key |-> FALSE, sets |-> sets]
                      ELSE Take(g[i - 1], found[i])
    <3>1. CASE i = 0
      BY <1>2, <3>1 DEF Taking
    <3>2. CASE i # 0
      <4>1. i \in 1 .. n
        BY <3>2
      <4>2. g[i] = Take(g[i - 1], found[i])
        BY <1>2, <4>1 DEF Taking
      <4>. QED
        BY <3>2, <4>2
    <3>. QED
      BY <3>1, <3>2
  <2>3. g = [i \in 0 .. n |-> g[i]]
    BY <2>1
  <2>. QED
    BY <1>1, <2>2, <2>3
<1>4. PICK f : f = CHOOSE h : h = F(h)
  OBVIOUS
<1>5. f = F(f)
  BY <1>3, <1>4
<1>6. TakeAll(sets, found) = f[n]
  BY <1>1, <1>4 DEF TakeAll
<1>7. \A i \in 0 .. n : f[i] = IF i = 0 THEN [status |-> "none", key |-> FALSE, sets |-> sets]
                              ELSE Take(f[i - 1], found[i])
  BY <1>1, <1>5, Zenon
<1>8. \A i \in 0 .. n : f[i] \in Outcomes
  <2>. SUFFICES ASSUME NEW l \in 0 .. n, f[l] \notin Outcomes PROVE FALSE
    OBVIOUS
  <2>. DEFINE S == {i \in Nat : i <= n /\ f[i] \notin Outcomes}
  <2>1. S \subseteq Nat /\ l \in S
    OBVIOUS
  <2>2. PICK i \in S : \A k \in S : i <= k
    <3>. HIDE DEF S
    <3>. QED
      BY <2>1, Least
  <2>3. i \in 0 .. n /\ f[i] \notin Outcomes /\ i \in Nat
    BY <2>2
  <2>4. i # 0
    <3>1. 0 \in 0 .. n
      OBVIOUS
    <3>2. f[0] = [status |-> "none", key |-> FALSE, sets |-> sets]
      BY <1>7, <3>1
    <3>3. [status |-> "none", key |-> FALSE, sets |-> sets] \in Outcomes
      BY DEF Outcomes
    <3>. QED
      BY <2>3, <3>2, <3>3
  <2>5. i - 1 \in 0 .. n /\ ~(i <= i - 1) /\ i - 1 \in Nat /\ i - 1 <= n /\ i \in 1 .. n
    BY <2>3, <2>4
  <2>6. f[i - 1] \in Outcomes
    BY <2>2, <2>5
  <2>7. f[i] = Take(f[i - 1], found[i]) /\ found[i] \in Seq(Nat) /\ found[i] # <<>>
    BY <1>7, <2>3, <2>4, <2>5
  <2>. QED
    BY <2>3, <2>6, <2>7, TakeTyped
<1>9. f \in [0 .. n -> Outcomes]
  <2>1. f = [i \in 0 .. n |-> IF i = 0 THEN [status |-> "none", key |-> FALSE, sets |-> sets]
                              ELSE Take(f[i - 1], found[i])]
    BY <1>1, <1>5, Zenon
  <2>. QED
    BY <1>7, <1>8, <2>1
<1>10. /\ f[0] = [status |-> "none", key |-> FALSE, sets |-> sets]
       /\ \A i \in 1 .. n : f[i] = Take(f[i - 1], found[i])
  <2>1. 0 \in 0 .. n /\ \A i \in 1 .. n : i \in 0 .. n /\ i # 0
    OBVIOUS
  <2>. QED
    BY <1>7, <2>1
<1>. QED
  BY <1>6, <1>9, <1>10 DEF Taking

\* The payload of the last unit of a type among the first k, or what was known.
LastSet(units, k, type, old) ==
  IF {i \in 1 .. k : units[i].type = type} = {} THEN old
  ELSE units[CHOOSE m \in {i \in 1 .. k : units[i].type = type} :
               \A j \in {i \in 1 .. k : units[i].type = type} : j <= m].payload

LEMMA LastStep ==
  ASSUME NEW units, NEW k \in Nat \ {0}, NEW type, NEW old
  PROVE  /\ LastSet(units, 0, type, old) = old
         /\ units[k].type = type => LastSet(units, k, type, old) = units[k].payload
         /\ units[k].type # type => LastSet(units, k, type, old) = LastSet(units, k - 1, type, old)
<1>1. LastSet(units, 0, type, old) = old
  BY DEF LastSet
<1>2. ASSUME units[k].type = type PROVE LastSet(units, k, type, old) = units[k].payload
  <2>1. PICK S : S = {i \in 1 .. k : units[i].type = type}
    OBVIOUS
  <2>2. k \in S /\ \A j \in S : j \in Nat /\ j <= k
    BY <1>2, <2>1
  <2>3. PICK m : m = CHOOSE i \in S : \A j \in S : j <= i
    OBVIOUS
  <2>4. m \in S /\ \A j \in S : j <= m
    BY <2>2, <2>3
  <2>5. m = k
    BY <2>2, <2>4
  <2>6. LastSet(units, k, type, old) = units[m].payload
    BY <2>1, <2>2, <2>3 DEF LastSet
  <2>. QED
    BY <2>5, <2>6
<1>3. ASSUME units[k].type # type
      PROVE  LastSet(units, k, type, old) = LastSet(units, k - 1, type, old)
  <2>1. \A i \in 1 .. k : units[i].type = type => i \in 1 .. k - 1
    BY <1>3
  <2>2. {i \in 1 .. k : units[i].type = type} = {i \in 1 .. k - 1 : units[i].type = type}
    BY <2>1
  <2>3. PICK S : S = {i \in 1 .. k : units[i].type = type}
    OBVIOUS
  <2>4. LastSet(units, k, type, old) =
          IF S = {} THEN old ELSE units[CHOOSE i \in S : \A j \in S : j <= i].payload
    BY <2>3 DEF LastSet
  <2>5. LastSet(units, k - 1, type, old) =
          IF S = {} THEN old ELSE units[CHOOSE i \in S : \A j \in S : j <= i].payload
    <3>1. S = {i \in 1 .. k - 1 : units[i].type = type}
      BY <2>2, <2>3
    <3>. QED
      BY <3>1 DEF LastSet
  <2>. QED
    BY <2>4, <2>5
<1>. QED
  BY <1>1, <1>2, <1>3

\* A found unit has the type of the one sent and its payload, with at most a zero
\* more.
LEMMA FoundFacts ==
  ASSUME NEW n \in Nat \ {0}, NEW units \in [1 .. n -> UnitsSent], NEW k \in 1 .. n,
         FoundUnit(units, k) \in Seq(Nat)
  PROVE  /\ FoundUnit(units, k) # <<>> /\ nal_type(FoundUnit(units, k)) = units[k].type
         /\ payload(FoundUnit(units, k)) \in Seq(Nat)
         /\ Trimmed(payload(FoundUnit(units, k))) = units[k].payload
<1>1. PICK p \in Seq(Nat), l \in Nat, t \in Nat :
        p = units[k].payload /\ l = Len(p) /\ t = units[k].type /\ l > 0 /\ p[l] # 0
  <2>1. units[k] \in UnitsSent
    OBVIOUS
  <2>. QED
    BY <2>1, UnitFacts
<1>2. PICK h : h = << t >>
  OBVIOUS
<1>3. h \in Seq(Nat) /\ Len(h) = 1 /\ h[1] = t
  BY <1>2
<1>4. PICK hp : hp = h \o p
  OBVIOUS
<1>5. /\ hp \in Seq(Nat) /\ Len(hp) = Len(h) + Len(p)
      /\ \A i \in 1 .. Len(h) : hp[i] = h[i]
      /\ \A i \in 1 .. Len(p) : hp[Len(h) + i] = p[i]
  <2>1. h \in Seq(Nat) /\ p \in Seq(Nat)
    BY <1>1, <1>3
  <2>. QED
    BY ONLY <2>1, <1>4, Joined
<1>6. PICK z \in Seq(Nat) : /\ z = (IF k < Len(units) /\ units[k + 1].code = 4 THEN << 0 >> ELSE <<>>)
                            /\ z = << 0 >> \/ z = <<>>
  <2>1. << 0 >> \in Seq(Nat) /\ <<>> \in Seq(Nat)
    OBVIOUS
  <2>. QED
    BY <2>1
<1>7. PICK f : f = hp \o z
  OBVIOUS
<1>8. /\ f \in Seq(Nat) /\ Len(f) = Len(hp) + Len(z)
      /\ \A i \in 1 .. Len(hp) : f[i] = hp[i]
      /\ \A i \in 1 .. Len(z) : f[Len(hp) + i] = z[i]
  <2>1. hp \in Seq(Nat) /\ z \in Seq(Nat)
    BY <1>5, <1>6
  <2>. QED
    BY ONLY <2>1, <1>7, Joined
<1>9. f = FoundUnit(units, k)
  BY <1>1, <1>2, <1>4, <1>6, <1>7 DEF FoundUnit
<1>10. PICK y \in Nat : y = Len(z)
  BY <1>6
<1>11. Len(hp) = 1 + l /\ Len(f) = 1 + l + y
  BY <1>1, <1>3, <1>5, <1>8, <1>10
<1>12. f # <<>> /\ f[1] = t
  <2>1. 1 \in 1 .. Len(hp) /\ 1 \in 1 .. Len(h)
    BY <1>3, <1>11
  <2>2. f[1] = t
    BY <1>3, <1>5, <1>8, <2>1
  <2>3. Len(f) # 0
    BY <1>11
  <2>. QED
    BY <2>2, <2>3
<1>13. PICK s : s = Tail(f)
  OBVIOUS
<1>14. s \in Seq(Nat) /\ Len(s) = l + y /\ \A i \in 1 .. l + y : s[i] = f[i + 1]
  <2>1. Len(f) - 1 = l + y
    BY <1>11
  <2>. QED
    BY <1>8, <1>12, <1>13, <2>1, HeadTailProperties
<1>15. ASSUME NEW i \in 1 .. l PROVE s[i] = p[i]
  <2>1. i \in 1 .. Len(p) /\ i + 1 \in 1 .. Len(hp) /\ i \in 1 .. l + y /\ 1 + i = i + 1
    <3>1. l \in Nat /\ y \in Nat /\ Len(hp) = 1 + l /\ Len(p) = l
      BY <1>1, <1>10, <1>11
    <3>. QED
      BY <3>1
  <2>2. hp[1 + i] = p[i]
    BY <1>3, <1>5, <2>1
  <2>. QED
    BY <1>8, <1>14, <2>1, <2>2
<1>16. p = [i \in 1 .. l |-> p[i]]
  BY <1>1
<1>17. Trimmed(s) = p
  <2>1. CASE z = <<>>
    <3>1. y = 0 /\ Len(s) = l
      BY <1>10, <1>14, <2>1
    <3>2. s = [i \in 1 .. l |-> s[i]]
      BY <1>14, <3>1
    <3>3. s = p
      BY <1>15, <1>16, <3>2
    <3>. QED
      BY <1>1, <3>3 DEF Trimmed
  <2>2. CASE z = << 0 >>
    <3>1. y = 1 /\ z[1] = 0 /\ Len(s) = l + 1
      BY <1>10, <1>14, <2>2
    <3>2. s[l + 1] = 0
      <4>1. l + 1 \in 1 .. l + y /\ l + 1 + 1 = Len(hp) + 1 /\ 1 \in 1 .. Len(z)
        BY <1>10, <1>11, <3>1
      <4>2. s[l + 1] = f[l + 1 + 1]
        BY <1>14, <4>1
      <4>3. f[Len(hp) + 1] = z[1]
        BY <1>8, <4>1
      <4>. QED
        BY <3>1, <4>1, <4>2, <4>3
    <3>3. s # <<>>
      <4>1. Len(s) # 0
        BY <3>1
      <4>. QED
        BY <4>1
    <3>4. Trimmed(s) = SubSeq(s, 1, l)
      <4>1. l + 1 - 1 = l
        OBVIOUS
      <4>. QED
        BY <3>1, <3>2, <3>3, <4>1 DEF Trimmed, Front
    <3>5. SubSeq(s, 1, l) = [i \in 1 .. l |-> s[i]]
      BY <1>14, <3>1
    <3>. QED
      BY <1>15, <1>16, <3>4, <3>5
  <2>. QED
    BY <1>6, <2>1, <2>2
<1>. QED
  BY <1>1, <1>9, <1>12, <1>13, <1>14, <1>17 DEF nal_type, payload

StopTypes == SliceTypes \cup {AUD}

\* found holds the units of a packet.
Finds(found, units, n) ==
  /\ found = [k \in 1 .. n |-> FoundUnit(units, k)]
  /\ \A k \in 1 .. n : FoundUnit(units, k) \in Seq(Nat)

NoStops(units, k) == \A i \in 1 .. k : units[i].type \notin StopTypes

\* What is taken of the first k units, none of which stops the decoder.
UpTo(t, units, k, a, b) ==
  /\ t[k].status = "none" /\ t[k].key = FALSE
  /\ Trimmed(t[k].sets.sps) = LastSet(units, k, SPS, a)
  /\ Trimmed(t[k].sets.pps) = LastSet(units, k, PPS, b)

\* Up to the first slice or unknown unit the decoder takes the sets it is sent.
LEMMA TakesBefore ==
  ASSUME NEW n \in Nat \ {0}, NEW units \in [1 .. n -> UnitsSent],
         NEW found, Finds(found, units, n),
         NEW sets \in ParameterSets, NEW t, Taking(t, sets, found, n),
         NEW k \in 0 .. n, NoStops(units, k),
         NEW a, NEW b, Trimmed(sets.sps) = a, Trimmed(sets.pps) = b
  PROVE  UpTo(t, units, k, a, b)
<1>. USE DEF Finds, NoStops
<1>. DEFINE Up(m) == /\ t[m].status = "none" /\ t[m].key = FALSE
                     /\ Trimmed(t[m].sets.sps) = LastSet(units, m, SPS, a)
                     /\ Trimmed(t[m].sets.pps) = LastSet(units, m, PPS, b)
<1>1. Up(0)
  <2>0. 1 \in Nat \ {0}
    OBVIOUS
  <2>1. t[0] = [status |-> "none", key |-> FALSE, sets |-> sets]
    BY DEF Taking
  <2>2. LastSet(units, 0, SPS, a) = a /\ LastSet(units, 0, PPS, b) = b
    BY ONLY <2>0, LastStep
  <2>. QED
    BY <2>1, <2>2
<1>2. ASSUME NEW m \in 1 .. k, Up(m - 1) PROVE Up(m)
  <2>1. m \in 1 .. n /\ m - 1 \in 0 .. n /\ m \in Nat \ {0}
    OBVIOUS
  <2>2. PICK acc, unit, type, p, x :
          /\ acc \in Outcomes /\ acc = t[m - 1] /\ unit = found[m] /\ type = units[m].type /\ p = units[m].payload
          /\ x = payload(unit) /\ unit = FoundUnit(units, m)
    <3>1. t[m - 1] \in Outcomes
      BY <2>1 DEF Taking
    <3>2. found[m] = FoundUnit(units, m)
      BY <2>1
    <3>. QED
      BY <3>1, <3>2
  <2>3. nal_type(unit) = type /\ Trimmed(x) = p
    <3>1. m \in 1 .. n /\ FoundUnit(units, m) \in Seq(Nat)
      BY <2>1
    <3>2. nal_type(FoundUnit(units, m)) = units[m].type
      BY ONLY <3>1, n \in Nat \ {0}, units \in [1 .. n -> UnitsSent], FoundFacts
    <3>3. Trimmed(payload(FoundUnit(units, m))) = units[m].payload
      BY ONLY <3>1, n \in Nat \ {0}, units \in [1 .. n -> UnitsSent], FoundFacts
    <3>. QED
      BY <2>2, <3>2, <3>3
  <2>4. t[m] = Take(acc, unit)
    BY <2>1, <2>2 DEF Taking
  <2>5. type \in KnownTypes \cup {AUD} /\ type \notin StopTypes
    <3>1. units[m] \in UnitsSent
      BY <2>1
    <3>. QED
      BY <2>2, <3>1, UnitFacts
  <2>6. type \in {0, SEI, SPS, PPS} /\ type \in KnownTypes
    BY <2>5 DEF KnownTypes, StopTypes, SliceTypes
  <2>7. acc.status = "none" /\ acc.key = FALSE
    BY <1>2, <2>2
  <2>8. /\ t[m].status = "none" /\ t[m].key = FALSE
        /\ t[m].sets.sps = IF type = SPS THEN x ELSE acc.sets.sps
        /\ t[m].sets.pps = IF type = PPS THEN x ELSE acc.sets.pps
    <3>1. type \notin SliceTypes
      BY <2>5 DEF StopTypes
    <3>2. t[m] = TakeUnit(acc, unit)
      BY <2>4, <2>7 DEF Take
    <3>. QED
      BY <2>2, <2>3, <2>6, <2>7, <3>1, <3>2 DEF TakeUnit
  <2>9. /\ type = SPS => LastSet(units, m, SPS, a) = p
        /\ type # SPS => LastSet(units, m, SPS, a) = LastSet(units, m - 1, SPS, a)
        /\ type = PPS => LastSet(units, m, PPS, b) = p
        /\ type # PPS => LastSet(units, m, PPS, b) = LastSet(units, m - 1, PPS, b)
    BY <2>1, <2>2, LastStep
  <2>10. /\ Trimmed(acc.sets.sps) = LastSet(units, m - 1, SPS, a)
         /\ Trimmed(acc.sets.pps) = LastSet(units, m - 1, PPS, b)
    BY <1>2, <2>2
  <2>11. Trimmed(t[m].sets.sps) = LastSet(units, m, SPS, a)
    BY <2>3, <2>8, <2>9, <2>10
  <2>12. Trimmed(t[m].sets.pps) = LastSet(units, m, PPS, b)
    BY <2>3, <2>8, <2>9, <2>10
  <2>. QED
    BY <2>8, <2>11, <2>12
<1>3. Up(k)
  <2>. SUFFICES ASSUME ~Up(k) PROVE FALSE
    OBVIOUS
  <2>. HIDE DEF Up
  <2>. DEFINE S == {m \in Nat : m <= k /\ ~Up(m)}
  <2>1. S \subseteq Nat /\ k \in S
    OBVIOUS
  <2>2. PICK m \in S : \A j \in S : m <= j
    <3>. HIDE DEF S
    <3>. QED
      BY <2>1, Least
  <2>3. m \in Nat /\ m <= k /\ ~Up(m) /\ m # 0
    BY <1>1, <2>2
  <2>4. m - 1 \in Nat /\ m - 1 <= k /\ m \in 1 .. k /\ ~(m <= m - 1)
    BY <2>3
  <2>5. Up(m - 1)
    BY <2>2, <2>4
  <2>. QED
    BY <1>2, <2>3, <2>4, <2>5
<1>. QED
  BY <1>3 DEF UpTo

\* What is taken of n units when the one in the place s stops the decoder.
Stopped(t, n, s, type) ==
  /\ t[n].status = IF type = AUD THEN "error" ELSE "frame"
  /\ t[n].key <=> type = IDR
  /\ t[n].sets.sps = t[s - 1].sets.sps /\ t[n].sets.pps = t[s - 1].sets.pps

\* At a first slice or unknown unit it stops, and stays so.
LEMMA TakesAfter ==
  ASSUME NEW n \in Nat \ {0}, NEW units \in [1 .. n -> UnitsSent],
         NEW found, Finds(found, units, n),
         NEW sets \in ParameterSets, NEW t, Taking(t, sets, found, n),
         NEW s \in 1 .. n, units[s].type \in StopTypes, t[s - 1].status = "none", t[s - 1].key = FALSE
  PROVE  Stopped(t, n, s, units[s].type)
<1>. USE DEF Finds
<1>1. PICK acc, unit, type :
        /\ acc \in Outcomes /\ acc = t[s - 1] /\ unit = found[s] /\ type = units[s].type /\ unit = FoundUnit(units, s)
  <2>1. s - 1 \in 0 .. n
    OBVIOUS
  <2>2. t[s - 1] \in Outcomes
    BY <2>1 DEF Taking
  <2>. QED
    BY <2>2
<1>2. nal_type(unit) = type
  BY <1>1, FoundFacts
<1>3. t[s] = Take(acc, unit)
  BY <1>1 DEF Taking
<1>4. /\ t[s].status = IF type = AUD THEN "error" ELSE "frame"
      /\ t[s].key <=> type = IDR
      /\ t[s].sets.sps = acc.sets.sps /\ t[s].sets.pps = acc.sets.pps
  <2>0. t[s] = TakeUnit(acc, unit)
    BY <1>1, <1>3 DEF Take
  <2>1. type \in {NonIDR, IDR, AUD}
    BY <1>1 DEF StopTypes, SliceTypes
  <2>2. CASE type = AUD
    <3>1. type \notin KnownTypes
      BY <2>2 DEF AUD, KnownTypes, NonIDR, IDR, SEI, SPS, PPS
    <3>. QED
      BY <1>1, <1>2, <2>0, <2>2, <3>1 DEF TakeUnit, AUD, IDR, SliceTypes, NonIDR, SPS, PPS
  <2>3. CASE type # AUD
    <3>1. type \in SliceTypes /\ type \in KnownTypes /\ type # SPS /\ type # PPS
      BY <2>1, <2>3 DEF KnownTypes, SliceTypes, NonIDR, IDR, SPS, PPS
    <3>2. /\ t[s].status = "frame" /\ t[s].key = (type = IDR)
          /\ t[s].sets.sps = acc.sets.sps /\ t[s].sets.pps = acc.sets.pps
      BY <1>2, <2>0, <3>1 DEF TakeUnit
    <3>. QED
      BY <2>3, <3>2
  <2>. QED
    BY <2>2, <2>3
<1>5. t[s].status # "none"
  BY <1>4
<1>6. t[n] = t[s]
  <2>. SUFFICES ASSUME t[n] # t[s] PROVE FALSE
    OBVIOUS
  <2>. DEFINE S == {m \in Nat : s <= m /\ m <= n /\ t[m] # t[s]}
  <2>1. S \subseteq Nat /\ n \in S
    OBVIOUS
  <2>2. PICK m \in S : \A j \in S : m <= j
    <3>. HIDE DEF S
    <3>. QED
      BY <2>1, Least
  <2>3. m \in Nat /\ s <= m /\ m <= n /\ t[m] # t[s] /\ m # s
    BY <2>2
  <2>4. m - 1 \in Nat /\ s <= m - 1 /\ m - 1 <= n /\ m \in 1 .. n /\ ~(m <= m - 1)
    BY <2>3
  <2>5. t[m - 1] = t[s]
    BY <2>2, <2>4
  <2>6. t[m] = Take(t[m - 1], found[m])
    BY <2>4 DEF Taking
  <2>. QED
    BY <1>5, <2>3, <2>5, <2>6 DEF Take
<1>. QED
  BY <1>1, <1>4, <1>6 DEF Stopped

\* The payload of the last unit of a type among those seen, or what was known.
LastIn(units, seen, type, old) ==
  IF {i \in seen : units[i].type = type} = {} THEN old
  ELSE units[CHOOSE m \in {i \in seen : units[i].type = type} :
               \A j \in {i \in seen : units[i].type = type} : j <= m].payload

Stops(units) == {i \in DOMAIN units : units[i].type \in StopTypes}

Seen(units) == {i \in DOMAIN units : \A j \in Stops(units) : i <= j}

Answer(type) == IF type = AUD THEN "error" ELSE IF type = IDR THEN "key" ELSE "frame"

LEMMA KnownIs ==
  ASSUME NEW units, NEW sent
  PROVE  Known(sent, units) =
           [sets |-> [sps |-> LastIn(units, Seen(units), SPS, sent.sps),
                      pps |-> LastIn(units, Seen(units), PPS, sent.pps)],
            answer |-> IF Stops(units) = {} THEN "none"
                       ELSE Answer(units[CHOOSE i \in Stops(units) : i \in Seen(units)].type)]
BY Zenon DEF Known, LastIn, Seen, Stops, Answer, StopTypes

LEMMA KnownAll ==
  ASSUME NEW n \in Nat, NEW units \in [1 .. n -> UnitsSent], NEW sent,
         \A i \in 1 .. n : units[i].type \notin StopTypes
  PROVE  Known(sent, units) = [sets |-> [sps |-> LastSet(units, n, SPS, sent.sps),
                                         pps |-> LastSet(units, n, PPS, sent.pps)],
                               answer |-> "none"]
<1>1. DOMAIN units = 1 .. n
  OBVIOUS
<1>2. Stops(units) = {}
  BY <1>1 DEF Stops
<1>3. Seen(units) = 1 .. n
  BY <1>1, <1>2 DEF Seen
<1>4. ASSUME NEW type, NEW old
      PROVE  LastIn(units, Seen(units), type, old) = LastSet(units, n, type, old)
  BY <1>3 DEF LastIn, LastSet
<1>. QED
  BY <1>2, <1>4, KnownIs

LEMMA KnownUpTo ==
  ASSUME NEW n \in Nat, NEW units \in [1 .. n -> UnitsSent], NEW sent,
         NEW s \in 1 .. n, units[s].type \in StopTypes,
         \A i \in 1 .. s - 1 : units[i].type \notin StopTypes
  PROVE  Known(sent, units) = [sets |-> [sps |-> LastSet(units, s - 1, SPS, sent.sps),
                                         pps |-> LastSet(units, s - 1, PPS, sent.pps)],
                               answer |-> Answer(units[s].type)]
<1>1. DOMAIN units = 1 .. n
  OBVIOUS
<1>2. s \in Stops(units) /\ \A j \in Stops(units) : j \in 1 .. n /\ s <= j
  <2>1. s \in Stops(units)
    BY <1>1 DEF Stops
  <2>2. ASSUME NEW j \in Stops(units) PROVE j \in 1 .. n /\ s <= j
    <3>1. j \in 1 .. n /\ units[j].type \in StopTypes
      BY <1>1, <2>2 DEF Stops
    <3>2. j \notin 1 .. s - 1
      BY <3>1
    <3>. QED
      BY <3>1, <3>2
  <2>. QED
    BY <2>1, <2>2
<1>3. Seen(units) = 1 .. s
  <2>1. ASSUME NEW i \in Seen(units) PROVE i \in 1 .. s
    BY <1>1, <1>2 DEF Seen
  <2>2. ASSUME NEW i \in 1 .. s PROVE i \in Seen(units)
    <3>1. i \in 1 .. n /\ \A j \in Stops(units) : i <= j
      BY <1>2
    <3>. QED
      BY <1>1, <3>1 DEF Seen
  <2>. QED
    BY <2>1, <2>2
<1>4. (CHOOSE i \in Stops(units) : i \in Seen(units)) = s
  <2>1. PICK m : m = CHOOSE i \in Stops(units) : i \in Seen(units)
    OBVIOUS
  <2>2. s \in Seen(units)
    BY <1>3
  <2>3. m \in Stops(units) /\ m \in Seen(units)
    BY <1>2, <2>1, <2>2
  <2>4. m \in 1 .. s /\ s <= m
    BY <1>2, <1>3, <2>3
  <2>. QED
    BY <2>1, <2>4
<1>5. ASSUME NEW type, NEW old, units[s].type # type
      PROVE  LastIn(units, Seen(units), type, old) = LastSet(units, s - 1, type, old)
  <2>1. LastIn(units, Seen(units), type, old) = LastSet(units, s, type, old)
    BY <1>3 DEF LastIn, LastSet
  <2>2. s \in Nat \ {0}
    OBVIOUS
  <2>. QED
    BY <1>5, <2>1, <2>2, LastStep
<1>6. units[s].type # SPS /\ units[s].type # PPS
  BY DEF StopTypes, SliceTypes, NonIDR, IDR, AUD, SPS, PPS
<1>7. Stops(units) # {}
  BY <1>2
<1>. QED
  BY <1>4, <1>5, <1>6, <1>7, KnownIs

\* What a packet makes of the decoder is what its sender expects.
Agrees(e, w) ==
  /\ e \in Outcomes
  /\ Trimmed(e.sets.sps) = w.sets.sps /\ Trimmed(e.sets.pps) = w.sets.pps
  /\ e.status = (IF w.answer = "key" THEN "frame" ELSE w.answer)
  /\ e.key <=> w.answer = "key"

LEMMA Decoded ==
  ASSUME NEW n \in Nat \ {0}, NEW units \in [1 .. n -> UnitsSent], NEW sets \in ParameterSets, NEW sent,
         Trimmed(sets.sps) = sent.sps, Trimmed(sets.pps) = sent.pps
  PROVE  Agrees(TakeAll(sets, find_units(PacketOf(units))), Known(sent, units))
<1>1. PICK found : found = find_units(PacketOf(units))
  OBVIOUS
<1>2. found = [k \in 1 .. n |-> FoundUnit(units, k)] /\ \A k \in 1 .. n : FoundUnit(units, k) \in Seq(Nat)
  BY <1>1, UnitsFound
<1>3. \A k \in 1 .. n : FoundUnit(units, k) # <<>>
  BY <1>2, FoundFacts
<1>4. found \in [1 .. n -> Seq(Nat)] /\ \A k \in 1 .. n : found[k] # <<>>
  BY <1>2, <1>3
<1>5. PICK t : Taking(t, sets, found, n) /\ TakeAll(sets, found) = t[n]
  BY <1>4, TakesIs
<1>9. Finds(found, units, n)
  BY <1>2 DEF Finds
<1>6. t[n] \in Outcomes
  BY <1>5 DEF Taking
<1>7. CASE \A i \in 1 .. n : units[i].type \notin StopTypes
  <2>1. n \in 0 .. n
    OBVIOUS
  <2>4. NoStops(units, n)
    BY <1>7 DEF NoStops
  <2>2. UpTo(t, units, n, sent.sps, sent.pps)
    BY <1>5, <1>9, <2>1, <2>4, TakesBefore
  <2>3. Known(sent, units) = [sets |-> [sps |-> LastSet(units, n, SPS, sent.sps),
                                        pps |-> LastSet(units, n, PPS, sent.pps)],
                              answer |-> "none"]
    BY <1>7, KnownAll
  <2>. QED
    BY <1>1, <1>5, <1>6, <2>2, <2>3 DEF Agrees, UpTo
<1>8. CASE \E i \in 1 .. n : units[i].type \in StopTypes
  <2>. DEFINE S == {i \in Nat : 1 <= i /\ i <= n /\ units[i].type \in StopTypes}
  <2>1. PICK l \in 1 .. n : units[l].type \in StopTypes
    BY <1>8
  <2>2. S \subseteq Nat /\ l \in S
    BY <2>1
  <2>3. PICK s \in S : \A j \in S : s <= j
    <3>. HIDE DEF S
    <3>. QED
      BY <2>2, Least
  <2>4. s \in Nat /\ s \in 1 .. n /\ units[s].type \in StopTypes
    BY <2>3
  <2>5. \A i \in 1 .. s - 1 : units[i].type \notin StopTypes
    <3>. SUFFICES ASSUME NEW i \in 1 .. s - 1, units[i].type \in StopTypes PROVE FALSE
      OBVIOUS
    <3>1. i \in S /\ ~(s <= i)
      BY <2>4
    <3>. QED
      BY <2>3, <3>1
  <2>6. s - 1 \in 0 .. n
    BY <2>4
  <2>16. NoStops(units, s - 1)
    BY <2>5 DEF NoStops
  <2>17. UpTo(t, units, s - 1, sent.sps, sent.pps)
    BY <1>5, <1>9, <2>6, <2>16, TakesBefore
  <2>7. /\ t[s - 1].status = "none" /\ t[s - 1].key = FALSE
        /\ Trimmed(t[s - 1].sets.sps) = LastSet(units, s - 1, SPS, sent.sps)
        /\ Trimmed(t[s - 1].sets.pps) = LastSet(units, s - 1, PPS, sent.pps)
    BY <2>17 DEF UpTo
  <2>18. Stopped(t, n, s, units[s].type)
    BY <1>5, <1>9, <2>4, <2>7, TakesAfter
  <2>8. /\ t[n].status = IF units[s].type = AUD THEN "error" ELSE "frame"
        /\ t[n].key <=> units[s].type = IDR
        /\ t[n].sets.sps = t[s - 1].sets.sps /\ t[n].sets.pps = t[s - 1].sets.pps
    BY <2>18 DEF Stopped
  <2>9. Known(sent, units) = [sets |-> [sps |-> LastSet(units, s - 1, SPS, sent.sps),
                                        pps |-> LastSet(units, s - 1, PPS, sent.pps)],
                              answer |-> Answer(units[s].type)]
    BY <2>4, <2>5, KnownUpTo
  <2>10. AUD # IDR
    BY DEF AUD, IDR
  <2>11. PICK e, w, type : e = t[n] /\ w = Known(sent, units) /\ type = units[s].type
    OBVIOUS
  <2>12. /\ Trimmed(e.sets.sps) = w.sets.sps /\ Trimmed(e.sets.pps) = w.sets.pps
         /\ w.answer = Answer(type)
    BY <2>7, <2>8, <2>9, <2>11
  <2>13. e.status = IF type = AUD THEN "error" ELSE "frame"
    BY <2>8, <2>11
  <2>14. e.key <=> type = IDR
    BY <2>8, <2>11
  <2>15. Agrees(e, w)
    BY <1>6, <2>10, <2>11, <2>12, <2>13, <2>14 DEF Agrees, Answer
  <2>. QED
    BY <1>1, <1>5, <2>11, <2>15
<1>. QED
  BY <1>7, <1>8

\* Nothing is found in a start code alone, and nothing changes.
LEMMA StubDecoded ==
  ASSUME NEW sets \in ParameterSets
  PROVE  TakeAll(sets, find_units(<< 0, 0, 1 >>)) = [status |-> "none", key |-> FALSE, sets |-> sets]
<1>1. PICK d \in Seq(Nat) : d = << 0, 0, 1 >>
  <2>1. << 0, 0, 1 >> \in Seq(Nat)
    OBVIOUS
  <2>. QED
    BY <2>1
<1>2. Len(d) = 3 /\ Len(d) - 3 = 0
  BY <1>1
<1>3. PICK s : Scans(s, d) /\ find_units(d) = WithLast(s[Len(d) - 3], d)
  <2>1. d \in Seq(Nat) /\ Len(d) >= 3
    BY <1>1, <1>2
  <2>. QED
    BY ONLY <2>1, ScanIs
<1>4. s[0] = [start |-> 0, units |-> <<>>]
  BY <1>3 DEF Scans
<1>5. find_units(d) = <<>>
  BY <1>2, <1>3, <1>4 DEF WithLast
<1>6. PICK found : found = <<>>
  OBVIOUS
<1>7. found \in [1 .. 0 -> Seq(Nat)] /\ \A i \in 1 .. 0 : found[i] # <<>>
  BY <1>6
<1>8. PICK t : Taking(t, sets, found, 0) /\ TakeAll(sets, found) = t[0]
  BY <1>7, TakesIs
<1>9. t[0] = [status |-> "none", key |-> FALSE, sets |-> sets]
  BY <1>8 DEF Taking
<1>. QED
  BY <1>1, <1>5, <1>6, <1>8, <1>9

------------------------------------------------------------------------------
\* A decoder that did not panic holds what it was sent.
H264Inv ==
  frame.status # "panic" =>
    Agrees([status |-> frame.status, key |-> frame.key, sets |-> h264], wrote)

LEMMA H264Begins == H264Init => H264Inv
<1>1. NoSets \in ParameterSets /\ Trimmed(NoSet) = NoSet
  <2>1. <<>> \in Seq(Nat)
    OBVIOUS
  <2>. QED
    BY <2>1 DEF NoSets, NoSet, ParameterSets, Trimmed
<1>. QED
  BY <1>1 DEF H264Init, H264Inv, Agrees, Outcomes, NoFrame, NoSets

LEMMA H264Steps ==
  ASSUME H264Inv, H264Next
  PROVE  H264Inv'
<1>. SUFFICES ASSUME frame'.status # "panic"
              PROVE  Agrees([status |-> frame'.status, key |-> frame'.key, sets |-> h264'], wrote')
  BY DEF H264Inv
<1>1. ASSUME frame.status # "panic"
      PROVE  h264 \in ParameterSets /\ Trimmed(h264.sps) = wrote.sets.sps /\ Trimmed(h264.pps) = wrote.sets.pps
  BY <1>1 DEF H264Inv, Agrees, Outcomes
<1>2. ASSUME NEW e, e \in Outcomes, h264' = e.sets, frame' = [status |-> e.status, key |-> e.key],
             Agrees(e, wrote')
      PROVE  Agrees([status |-> frame'.status, key |-> frame'.key, sets |-> h264'], wrote')
  <2>1. e = [status |-> frame'.status, key |-> frame'.key, sets |-> h264']
    BY <1>2 DEF Outcomes
  <2>. QED
    BY <1>2, <2>1
<1>3. ASSUME NEW p \in Found, DecodePacket(p)
      PROVE  Agrees([status |-> frame'.status, key |-> frame'.key, sets |-> h264'], wrote')
  <2>1. PICK units \in Packets : p = [sent |-> units, found |-> find_units(PacketOf(units))]
    BY <1>3 DEF Found, PacketOf
  <2>2. PICK n \in Nat \ {0} : units \in [1 .. n -> UnitsSent]
    <3>1. units \in BoundedSeq(UnitsSent, MaxUnits) /\ units # <<>>
      BY DEF Packets
    <3>2. PICK n \in 0 .. MaxUnits : units \in [1 .. n -> UnitsSent]
      BY <3>1 DEF BoundedSeq, SeqOf
    <3>3. n # 0
      <4>. SUFFICES ASSUME n = 0 PROVE FALSE
        OBVIOUS
      <4>. QED
        BY <3>1, <3>2
    <3>. QED
      BY <3>2, <3>3, PayloadsAssumption
  <2>3. PICK e : e = TakeAll(h264, find_units(PacketOf(units)))
    OBVIOUS
  <2>4. frame.status # "panic" /\ wrote' = Known(wrote.sets, units)
        /\ h264' = e.sets /\ frame' = [status |-> e.status, key |-> e.key]
    BY <1>3, <2>1, <2>3 DEF DecodePacket, decode
  <2>5. Agrees(e, wrote')
    BY <1>1, <2>2, <2>3, <2>4, Decoded
  <2>6. e \in Outcomes
    BY <2>5 DEF Agrees
  <2>. QED
    BY <1>2, <2>4, <2>5, <2>6
<1>4. ASSUME DecodeStub
      PROVE  Agrees([status |-> frame'.status, key |-> frame'.key, sets |-> h264'], wrote')
  <2>1. PICK data \in {<<>>, << 0, 1 >>, << 0, 0, 1 >>} :
          IF Underflows(data) THEN frame' = [NoFrame EXCEPT !.status = "panic"] /\ UNCHANGED h264
          ELSE decode(find_units(data))
    BY <1>4 DEF DecodeStub
  <2>2. ~Underflows(data)
    BY <2>1 DEF NoFrame
  <2>3. data = << 0, 0, 1 >>
    BY <2>2 DEF Underflows
  <2>4. frame.status # "panic" /\ wrote' = [wrote EXCEPT !.answer = "none"]
    BY <1>4 DEF DecodeStub
  <2>5. PICK e : e = [status |-> "none", key |-> FALSE, sets |-> h264]
    OBVIOUS
  <2>6. h264' = e.sets /\ frame' = [status |-> e.status, key |-> e.key]
    BY <1>1, <2>1, <2>2, <2>3, <2>4, <2>5, StubDecoded DEF decode
  <2>7. e \in Outcomes
    BY <1>1, <2>4, <2>5 DEF Outcomes
  <2>8. wrote'.sets = wrote.sets /\ wrote'.answer = "none"
    BY <2>4
  <2>9. Agrees(e, wrote')
    BY <1>1, <2>4, <2>5, <2>7, <2>8 DEF Agrees
  <2>. QED
    BY <1>2, <2>6, <2>7, <2>9
<1>. QED
  BY <1>3, <1>4 DEF H264Next

LEMMA H264Holds == H264Inv => DecoderHoldsSent
BY DEF H264Inv, Agrees, DecoderHoldsSent

------------------------------------------------------------------------------
(* H.265: bytes with the byte 3 put in and taken out. *)

Octets == Seq(Bit)

LEMMA CodeBits ==
  ASSUME NEW v \in Nat, NEW n \in Nat
  PROVE  FixedCode(v, n) \in Seq(Bit) /\ Len(FixedCode(v, n)) = n
<1>1. ASSUME NEW i \in 1 .. n PROVE BitAt(v, n - i) \in Bit
  <2>1. PICK p \in Nat \ {0} : p = Power2[n - i]
    <3>1. n - i \in Nat
      OBVIOUS
    <3>. QED
      BY <3>1, Powers
  <2>2. v \div p \in Nat
    BY DivNat
  <2>3. (v \div p) % 2 \in 0 .. 1
    BY <2>2
  <2>. QED
    BY <2>1, <2>3 DEF BitAt, Bit
<1>2. FixedCode(v, n) \in [1 .. n -> Bit]
  BY <1>1 DEF FixedCode
<1>. QED
  BY <1>2

LEMMA Octet03 ==
  /\ Byte(0) \in Octets /\ Byte(3) \in Octets /\ Byte(0) # Byte(3)
<1>1. PICK n \in Nat \ {0} : n = ByteBits
  BY WidthAssumption
<1>2. Byte(0) \in Octets /\ Byte(3) \in Octets
  <2>1. FixedCode(0, n) \in Seq(Bit) /\ FixedCode(3, n) \in Seq(Bit)
    BY CodeBits
  <2>. QED
    BY <1>1, <2>1 DEF Byte, Octets
<1>3. Byte(0)[n] = 0 /\ Byte(3)[n] = 1
  <2>1. n \in 1 .. n /\ n - n = 0 /\ Power2[0] = 1
    BY Powers
  <2>2. BitAt(0, 0) = 0 /\ BitAt(3, 0) = 1
    BY <2>1 DEF BitAt
  <2>3. Byte(0)[n] = BitAt(0, n - n) /\ Byte(3)[n] = BitAt(3, n - n)
    BY <1>1, <2>1 DEF Byte, FixedCode
  <2>. QED
    BY <2>1, <2>2, <2>3
<1>. QED
  BY <1>2, <1>3

\* A byte b put behind a bytes that ends at z of out.
PutAt(out, b, a, z) ==
  /\ z \in Nat /\ z <= Len(out) /\ out[z] = b
  /\ \/ z = a + 1 /\ ~(a >= 2 /\ out[a - 1] = Byte(0) /\ out[a] = Byte(0) /\ b = Byte(3))
     \/ z = a + 2 /\ a >= 2 /\ out[a - 1] = Byte(0) /\ out[a] = Byte(0) /\ out[a + 1] = Byte(3)

\* The first k bytes of data, of which byte j is the last at e[j].
Puts(out, data, k, e) ==
  /\ out \in Seq(Octets) /\ e \in [0 .. k -> Nat] /\ e[0] = 0 /\ e[k] = Len(out)
  /\ \A j \in 1 .. k : PutAt(out, data[j], e[j - 1], e[j])

Putting(f, data, n) ==
  /\ f = [i \in 0 .. n |-> f[i]] /\ f[0] = <<>>
  /\ \A i \in 1 .. n : f[i] = Put(f[i - 1], data[i])

LEMMA PuttingIs ==
  ASSUME NEW data, NEW n \in Nat, n = Len(data)
  PROVE  \E f : Putting(f, data, n) /\ Escape(data) = f[n]
<1>. DEFINE Up(k) == \E g : Putting(g, data, k)
<1>1. Up(0)
  <2>1. PICK g : g = [i \in 0 .. 0 |-> <<>>]
    OBVIOUS
  <2>2. g = [i \in 0 .. 0 |-> g[i]] /\ g[0] = <<>>
    BY <2>1
  <2>3. Putting(g, data, 0)
    BY <2>2 DEF Putting
  <2>. QED
    BY <2>3
<1>2. ASSUME NEW k \in Nat, Up(k) PROVE Up(k + 1)
  <2>1. PICK g : Putting(g, data, k)
    BY <1>2
  <2>2. PICK h : h = [i \in 0 .. k + 1 |-> IF i = k + 1 THEN Put(g[k], data[k + 1]) ELSE g[i]]
    OBVIOUS
  <2>3. h = [i \in 0 .. k + 1 |-> h[i]] /\ h[0] = <<>> /\ h[k + 1] = Put(g[k], data[k + 1])
    BY <2>1, <2>2 DEF Putting
  <2>4. \A i \in 0 .. k : h[i] = g[i]
    BY <2>2
  <2>5. ASSUME NEW i \in 1 .. k + 1 PROVE h[i] = Put(h[i - 1], data[i])
    <3>1. CASE i = k + 1
      <4>1. i - 1 = k /\ k \in 0 .. k
        BY <3>1
      <4>2. h[i - 1] = g[k]
        BY <2>4, <4>1
      <4>. QED
        BY <2>3, <3>1, <4>2
    <3>2. CASE i # k + 1
      <4>1. i \in 1 .. k /\ i \in 0 .. k /\ i - 1 \in 0 .. k
        BY <3>2
      <4>2. g[i] = Put(g[i - 1], data[i])
        BY <2>1, <4>1 DEF Putting
      <4>. QED
        BY <2>4, <4>1, <4>2
    <3>. QED
      BY <3>1, <3>2
  <2>6. Putting(h, data, k + 1)
    BY <2>3, <2>5 DEF Putting
  <2>. QED
    BY <2>6
<1>3. Up(n)
  <2>. SUFFICES ASSUME ~Up(n) PROVE FALSE
    OBVIOUS
  <2>. DEFINE S == {k \in Nat : ~Up(k)}
  <2>1. S \subseteq Nat /\ S # {}
    <3>. HIDE DEF Up
    <3>. QED
      OBVIOUS
  <2>2. PICK k \in S : \A j \in S : k <= j
    <3>. HIDE DEF S
    <3>. QED
      BY <2>1, Least
  <2>. HIDE DEF Up
  <2>3. k \in Nat /\ ~Up(k) /\ k # 0
    BY <1>1, <2>2
  <2>4. k - 1 \in Nat /\ ~(k <= k - 1) /\ k - 1 + 1 = k
    BY <2>3
  <2>5. Up(k - 1)
    BY <2>2, <2>4
  <2>. QED
    BY <1>2, <2>3, <2>4, <2>5
<1>. DEFINE F(h) == [i \in 0 .. Len(data) |-> IF i = 0 THEN <<>> ELSE Put(h[i - 1], data[i])]
<1>4. PICK g : Putting(g, data, n)
  BY <1>3
<1>5. g = F(g)
  <2>1. \A i \in 0 .. n : g[i] = IF i = 0 THEN <<>> ELSE Put(g[i - 1], data[i])
    BY <1>4 DEF Putting
  <2>2. g = [i \in 0 .. n |-> g[i]]
    BY <1>4 DEF Putting
  <2>. QED
    BY <2>1, <2>2
<1>6. PICK f : f = CHOOSE h : h = F(h)
  OBVIOUS
<1>7. f = F(f)
  BY <1>5, <1>6
<1>8. Escape(data) = f[n]
  BY <1>6 DEF Escape
<1>9. \A i \in 0 .. n : f[i] = IF i = 0 THEN <<>> ELSE Put(f[i - 1], data[i])
  BY <1>7, Zenon
<1>10. f = [i \in 0 .. n |-> f[i]]
  BY <1>7
<1>11. Putting(f, data, n)
  <2>1. 0 \in 0 .. n /\ \A i \in 1 .. n : i \in 0 .. n /\ i # 0
    OBVIOUS
  <2>. QED
    BY <1>9, <1>10, <2>1 DEF Putting
<1>. QED
  BY <1>8, <1>11

LEMMA PutOne ==
  ASSUME NEW out \in Seq(Octets), NEW b \in Octets
  PROVE  \E z \in Nat, w \in Seq(Octets) :
           /\ w = Put(out, b) /\ z = Len(w) /\ Len(out) <= z
           /\ \A i \in 1 .. Len(out) : w[i] = out[i]
           /\ PutAt(w, b, Len(out), z)
<1>1. PICK n \in Nat : n = Len(out)
  OBVIOUS
<1>2. CASE Risky(out, b)
  <2>1. PICK t : t = <<Byte(3), b>>
    OBVIOUS
  <2>2. t \in Seq(Octets) /\ Len(t) = 2 /\ t[1] = Byte(3) /\ t[2] = b
    BY <2>1, Octet03
  <2>3. PICK w : w = out \o t
    OBVIOUS
  <2>4. w \in Seq(Octets) /\ Len(w) = n + 2 /\ (\A i \in 1 .. n : w[i] = out[i]) /\ w[n + 1] = Byte(3) /\ w[n + 2] = b
    <3>1. /\ w \in Seq(Octets) /\ Len(w) = n + 2 /\ \A i \in 1 .. n : w[i] = out[i]
          /\ \A i \in 1 .. 2 : w[n + i] = t[i]
      <4>1. Joint(w, out, t, Octets)
        BY <2>2, <2>3, JointIs
      <4>. QED
        BY <1>1, <2>2, <4>1 DEF Joint
    <3>. QED
      BY <2>2, <3>1
  <2>5. n >= 2 /\ out[n - 1] = Byte(0) /\ out[n] = Byte(0)
    BY <1>1, <1>2 DEF Risky
  <2>6. w[n - 1] = Byte(0) /\ w[n] = Byte(0)
    BY <2>4, <2>5
  <2>7. PutAt(w, b, n, n + 2)
    BY <2>4, <2>5, <2>6 DEF PutAt
  <2>8. w = Put(out, b)
    BY <1>2, <2>1, <2>3 DEF Put
  <2>. QED
    BY <1>1, <2>4, <2>7, <2>8
<1>3. CASE ~Risky(out, b)
  <2>1. PICK t : t = <<b>>
    OBVIOUS
  <2>2. t \in Seq(Octets) /\ Len(t) = 1 /\ t[1] = b
    BY <2>1
  <2>3. PICK w : w = out \o t
    OBVIOUS
  <2>4. w \in Seq(Octets) /\ Len(w) = n + 1 /\ (\A i \in 1 .. n : w[i] = out[i]) /\ w[n + 1] = b
    <3>1. /\ w \in Seq(Octets) /\ Len(w) = n + 1 /\ \A i \in 1 .. n : w[i] = out[i]
          /\ \A i \in 1 .. 1 : w[n + i] = t[i]
      <4>1. Joint(w, out, t, Octets)
        BY <2>2, <2>3, JointIs
      <4>. QED
        BY <1>1, <2>2, <4>1 DEF Joint
    <3>. QED
      BY <2>2, <3>1
  <2>5. ~(n >= 2 /\ out[n - 1] = Byte(0) /\ out[n] = Byte(0) /\ b = Byte(3))
    <3>1. b = Byte(3) => b \in {Byte(v) : v \in 0 .. 3}
      OBVIOUS
    <3>. QED
      BY <1>1, <1>3, <3>1 DEF Risky
  <2>6. n >= 2 => w[n - 1] = out[n - 1] /\ w[n] = out[n]
    BY <2>4
  <2>7. PutAt(w, b, n, n + 1)
    BY <2>4, <2>5, <2>6 DEF PutAt
  <2>8. w = Put(out, b)
    BY <1>3, <2>1, <2>3 DEF Put
  <2>. QED
    BY <1>1, <2>4, <2>7, <2>8
<1>. QED
  BY <1>2, <1>3

LEMMA EscapeLays ==
  ASSUME NEW data \in Seq(Octets), NEW n \in Nat, n = Len(data)
  PROVE  \E e : Puts(Escape(data), data, n, e)
<1>1. PICK f : Putting(f, data, n) /\ Escape(data) = f[n]
  BY PuttingIs
<1>. DEFINE Up(k) == \E e : Puts(f[k], data, k, e)
<1>2. Up(0)
  <2>1. f[0] = <<>>
    BY <1>1 DEF Putting
  <2>2. PICK e : e = [i \in 0 .. 0 |-> 0]
    OBVIOUS
  <2>3. e \in [0 .. 0 -> Nat] /\ e[0] = 0
    BY <2>2
  <2>4. <<>> \in Seq(Octets) /\ Len(<<>>) = 0
    OBVIOUS
  <2>5. Puts(f[0], data, 0, e)
    BY <2>1, <2>3, <2>4 DEF Puts
  <2>. QED
    BY <2>5
<1>3. ASSUME NEW k \in Nat, k < n, Up(k) PROVE Up(k + 1)
  <2>1. PICK e : Puts(f[k], data, k, e)
    BY <1>3
  <2>2. PICK out \in Seq(Octets), b \in Octets, m \in Nat : out = f[k] /\ b = data[k + 1] /\ m = Len(out)
    <3>1. f[k] \in Seq(Octets)
      BY <2>1 DEF Puts
    <3>2. data[k + 1] \in Octets
      BY <1>3
    <3>. QED
      BY <3>1, <3>2
  <2>3. PICK z \in Nat, w \in Seq(Octets) :
          /\ w = Put(out, b) /\ z = Len(w) /\ Len(out) <= z
          /\ \A i \in 1 .. Len(out) : w[i] = out[i]
          /\ PutAt(w, b, Len(out), z)
    BY PutOne
  <2>4. f[k + 1] = w
    <3>1. k + 1 \in 1 .. n /\ k + 1 - 1 = k
      BY <1>3
    <3>2. \A i \in 1 .. n : f[i] = Put(f[i - 1], data[i])
      BY <1>1 DEF Putting
    <3>3. PICK j \in 1 .. n : j = k + 1
      BY <3>1
    <3>4. f[j] = Put(f[j - 1], data[j])
      BY <3>2
    <3>5. j - 1 = k
      BY <3>3
    <3>6. f[j] = Put(f[k], data[j])
      BY <3>4, <3>5, Zenon
    <3>. QED
      BY <2>2, <2>3, <3>3, <3>6
  <2>5. e \in [0 .. k -> Nat] /\ e[0] = 0 /\ e[k] = m
    BY <2>1, <2>2 DEF Puts
  <2>6. PICK h : h = [i \in 0 .. k + 1 |-> IF i = k + 1 THEN z ELSE e[i]]
    OBVIOUS
  <2>7. /\ h \in [0 .. k + 1 -> Nat] /\ h[0] = 0 /\ h[k + 1] = z
        /\ \A i \in 0 .. k : h[i] = e[i]
    <3>1. \A i \in 0 .. k + 1 : i = k + 1 \/ i \in 0 .. k
      OBVIOUS
    <3>. QED
      BY <2>5, <2>6, <3>1
  <2>8. ASSUME NEW j \in 1 .. k + 1 PROVE PutAt(w, data[j], h[j - 1], h[j])
    <3>1. CASE j = k + 1
      <4>1. j - 1 = k /\ k \in 0 .. k
        BY <3>1
      <4>2. h[j - 1] = Len(out) /\ h[j] = z /\ data[j] = b
        BY <2>2, <2>5, <2>7, <3>1, <4>1
      <4>. QED
        BY <2>3, <4>2
    <3>2. CASE j # k + 1
      <4>1. j \in 1 .. k /\ j \in 0 .. k /\ j - 1 \in 0 .. k
        BY <3>2
      <4>2. PutAt(out, data[j], e[j - 1], e[j])
        BY <2>1, <2>2, <4>1 DEF Puts
      <4>3. PICK a \in Nat, y \in Nat : a = e[j - 1] /\ y = e[j] /\ h[j - 1] = a /\ h[j] = y
        BY <2>5, <2>7, <4>1
      <4>4. PutAt(out, data[j], a, y)
        BY <4>2, <4>3
      <4>5. y <= m /\ y >= 1 /\ a <= y /\ m <= z /\ \A i \in 1 .. m : w[i] = out[i]
        BY <2>2, <2>3, <4>4 DEF PutAt
      <4>6. w[y] = out[y] /\ (a >= 2 => w[a - 1] = out[a - 1] /\ w[a] = out[a]) /\ (a + 1 <= y => w[a + 1] = out[a + 1])
        BY <4>5
      <4>7. PutAt(w, data[j], a, y)
        BY <2>3, <4>4, <4>5, <4>6 DEF PutAt
      <4>. QED
        BY <4>3, <4>7
    <3>. QED
      BY <3>1, <3>2
  <2>9. Puts(w, data, k + 1, h)
    BY <2>3, <2>7, <2>8 DEF Puts
  <2>. QED
    BY <2>4, <2>9
<1>4. Up(n)
  <2>. SUFFICES ASSUME ~Up(n) PROVE FALSE
    OBVIOUS
  <2>. DEFINE S == {k \in Nat : k <= n /\ ~Up(k)}
  <2>1. S \subseteq Nat /\ S # {}
    <3>. HIDE DEF Up
    <3>. QED
      OBVIOUS
  <2>2. PICK k \in S : \A j \in S : k <= j
    <3>. HIDE DEF S
    <3>. QED
      BY <2>1, Least
  <2>. HIDE DEF Up
  <2>3. k \in Nat /\ k <= n /\ ~Up(k) /\ k # 0
    BY <1>2, <2>2
  <2>4. k - 1 \in Nat /\ ~(k <= k - 1) /\ k - 1 + 1 = k /\ k - 1 < n /\ k - 1 <= n
    BY <2>3
  <2>5. Up(k - 1)
    BY <2>2, <2>4
  <2>. QED
    BY <1>3, <2>3, <2>4, <2>5
<1>. QED
  BY <1>1, <1>4

LEMMA EscapedIs ==
  ASSUME NEW b \in Seq(Octets), NEW i \in Nat \ {0}
  PROVE  Escaped(b, i) <=> i + 2 <= Len(b) /\ b[i] = Byte(0) /\ b[i + 1] = Byte(0) /\ b[i + 2] = Byte(3)
<1>1. CASE i + 2 <= Len(b)
  <2>1. PICK s : s = SubSeq(b, i, i + 2)
    OBVIOUS
  <2>2. s = [k \in 1 .. 3 |-> b[i + k - 1]]
    BY <1>1, <2>1
  <2>3. Len(s) = 3 /\ s[1] = b[i] /\ s[2] = b[i + 1] /\ s[3] = b[i + 2]
    BY <2>2
  <2>4. PICK t : t = <<Byte(0), Byte(0), Byte(3)>>
    OBVIOUS
  <2>5. Len(t) = 3 /\ t[1] = Byte(0) /\ t[2] = Byte(0) /\ t[3] = Byte(3) /\ t = [k \in 1 .. 3 |-> t[k]]
    BY <2>4
  <2>6. s = t <=> s[1] = t[1] /\ s[2] = t[2] /\ s[3] = t[3]
    <3>1. ASSUME s[1] = t[1] /\ s[2] = t[2] /\ s[3] = t[3] PROVE s = t
      <4>1. \A k \in 1 .. 3 : s[k] = t[k]
        BY <3>1
      <4>2. s = [k \in 1 .. 3 |-> s[k]]
        BY <2>2
      <4>. QED
        BY <2>5, <4>1, <4>2
    <3>. QED
      BY <3>1
  <2>7. Escaped(b, i) <=> s = t
    BY <1>1, <2>1, <2>4 DEF Escaped
  <2>. QED
    BY <1>1, <2>3, <2>5, <2>6, <2>7
<1>2. CASE ~(i + 2 <= Len(b))
  BY <1>2 DEF Escaped
<1>. QED
  BY <1>1, <1>2

Unescaping(f, data, n) ==
  /\ f = [i \in 0 .. n |-> f[i]] /\ f[0] = [next |-> 1, out |-> <<>>]
  /\ \A i \in 1 .. n : f[i] = Unescape(f[i - 1], data, i)

LEMMA UnescapingIs ==
  ASSUME NEW data, NEW n \in Nat, n = Len(data)
  PROVE  \E f : Unescaping(f, data, n) /\ remove_emulation_prevention(data) = f[n].out
<1>. DEFINE Up(k) == \E g : Unescaping(g, data, k)
<1>1. Up(0)
  <2>1. PICK g : g = [i \in 0 .. 0 |-> [next |-> 1, out |-> <<>>]]
    OBVIOUS
  <2>2. g = [i \in 0 .. 0 |-> g[i]] /\ g[0] = [next |-> 1, out |-> <<>>]
    BY <2>1
  <2>3. Unescaping(g, data, 0)
    BY <2>2 DEF Unescaping
  <2>. QED
    BY <2>3
<1>2. ASSUME NEW k \in Nat, Up(k) PROVE Up(k + 1)
  <2>1. PICK g : Unescaping(g, data, k)
    BY <1>2
  <2>2. PICK h : h = [i \in 0 .. k + 1 |-> IF i = k + 1 THEN Unescape(g[k], data, k + 1) ELSE g[i]]
    OBVIOUS
  <2>3. h = [i \in 0 .. k + 1 |-> h[i]] /\ h[0] = [next |-> 1, out |-> <<>>] /\ h[k + 1] = Unescape(g[k], data, k + 1)
    BY <2>1, <2>2 DEF Unescaping
  <2>4. \A i \in 0 .. k : h[i] = g[i]
    BY <2>2
  <2>5. ASSUME NEW i \in 1 .. k + 1 PROVE h[i] = Unescape(h[i - 1], data, i)
    <3>1. CASE i = k + 1
      <4>1. i - 1 = k /\ k \in 0 .. k
        BY <3>1
      <4>2. h[i - 1] = g[k]
        BY <2>4, <4>1
      <4>. QED
        BY <2>3, <3>1, <4>2
    <3>2. CASE i # k + 1
      <4>1. i \in 1 .. k /\ i \in 0 .. k /\ i - 1 \in 0 .. k
        BY <3>2
      <4>2. g[i] = Unescape(g[i - 1], data, i)
        BY <2>1, <4>1 DEF Unescaping
      <4>. QED
        BY <2>4, <4>1, <4>2
    <3>. QED
      BY <3>1, <3>2
  <2>6. Unescaping(h, data, k + 1)
    BY <2>3, <2>5 DEF Unescaping
  <2>. QED
    BY <2>6
<1>3. Up(n)
  <2>. SUFFICES ASSUME ~Up(n) PROVE FALSE
    OBVIOUS
  <2>. DEFINE S == {k \in Nat : ~Up(k)}
  <2>1. S \subseteq Nat /\ S # {}
    <3>. HIDE DEF Up
    <3>. QED
      OBVIOUS
  <2>2. PICK k \in S : \A j \in S : k <= j
    <3>. HIDE DEF S
    <3>. QED
      BY <2>1, Least
  <2>. HIDE DEF Up
  <2>3. k \in Nat /\ ~Up(k) /\ k # 0
    BY <1>1, <2>2
  <2>4. k - 1 \in Nat /\ ~(k <= k - 1) /\ k - 1 + 1 = k
    BY <2>3
  <2>5. Up(k - 1)
    BY <2>2, <2>4
  <2>. QED
    BY <1>2, <2>3, <2>4, <2>5
<1>. DEFINE F(h) == [i \in 0 .. Len(data) |-> IF i = 0 THEN [next |-> 1, out |-> <<>>] ELSE Unescape(h[i - 1], data, i)]
<1>4. PICK g : Unescaping(g, data, n)
  BY <1>3
<1>5. g = F(g)
  <2>1. \A i \in 0 .. n : g[i] = IF i = 0 THEN [next |-> 1, out |-> <<>>] ELSE Unescape(g[i - 1], data, i)
    BY <1>4 DEF Unescaping
  <2>2. g = [i \in 0 .. n |-> g[i]]
    BY <1>4 DEF Unescaping
  <2>. QED
    BY <2>1, <2>2
<1>6. PICK f : f = CHOOSE h : h = F(h)
  OBVIOUS
<1>7. f = F(f)
  BY <1>5, <1>6
<1>8. remove_emulation_prevention(data) = f[n].out
  BY <1>6 DEF remove_emulation_prevention
<1>9. \A i \in 0 .. n : f[i] = IF i = 0 THEN [next |-> 1, out |-> <<>>] ELSE Unescape(f[i - 1], data, i)
  BY <1>7, Zenon
<1>10. f = [i \in 0 .. n |-> f[i]]
  BY <1>7
<1>11. Unescaping(f, data, n)
  <2>1. 0 \in 0 .. n /\ \A i \in 1 .. n : i \in 0 .. n /\ i # 0
    OBVIOUS
  <2>. QED
    BY <1>9, <1>10, <2>1 DEF Unescaping
<1>. QED
  BY <1>8, <1>11

\* x is the first k elements of s.
PrefixOf(x, s, k, T) == x \in Seq(T) /\ Len(x) = k /\ \A i \in 1 .. k : x[i] = s[i]

\* Where the loop is in the bytes b, cut from those put: it has the first k of
\* data, and is not in the middle of what it takes out.
Undone(acc, b, data, n, e, i, k) ==
  /\ PrefixOf(acc.out, data, k, Octets) /\ acc.next \in Nat /\ acc.next > i
  /\ acc.next <= Len(b) =>
       /\ k < n /\ acc.next = e[k + 1]
       /\ acc.next >= 2 => ~Escaped(b, acc.next - 1)

LEMMA UnescapeStep ==
  ASSUME NEW data \in Seq(Octets), NEW n \in Nat, n = Len(data), NEW out, NEW e, Puts(out, data, n, e),
         NEW b, NEW l \in Nat, PrefixOf(b, out, l, Octets), l <= Len(out),
         NEW i \in 1 .. l, NEW acc, NEW k \in 0 .. n, Undone(acc, b, data, n, e, i - 1, k)
  PROVE  \E m \in 0 .. n : Undone(Unescape(acc, b, i), b, data, n, e, i, m)
<1>1. /\ b \in Seq(Octets) /\ Len(b) = l /\ \A j \in 1 .. l : b[j] = out[j]
  BY DEF PrefixOf
<1>2. /\ out \in Seq(Octets) /\ e \in [0 .. n -> Nat] /\ e[0] = 0 /\ e[n] = Len(out)
      /\ \A j \in 1 .. n : PutAt(out, data[j], e[j - 1], e[j])
  BY DEF Puts
<1>3. PICK x \in Seq(Octets), q \in Nat : x = acc.out /\ q = acc.next
  BY DEF Undone, PrefixOf
<1>4. /\ Len(x) = k /\ (\A j \in 1 .. k : x[j] = data[j]) /\ q >= i
      /\ q <= l => k < n /\ q = e[k + 1] /\ (q >= 2 => ~Escaped(b, q - 1))
  BY <1>1, <1>3 DEF Undone, PrefixOf
<1>5. CASE i < q
  <2>1. Unescape(acc, b, i) = acc
    BY <1>3, <1>5 DEF Unescape
  <2>2. Undone(acc, b, data, n, e, i, k)
    BY <1>3, <1>5 DEF Undone
  <2>. QED
    BY <2>1, <2>2
<1>6. CASE i = q
  <2>1. /\ k + 1 \in 1 .. n /\ k + 1 \in 0 .. n /\ e[k + 1] = i /\ i \in Nat \ {0}
        /\ i >= 2 => ~Escaped(b, i - 1)
    BY <1>4, <1>6
  <2>2. PutAt(out, data[k + 1], e[k + 1 - 1], i)
    BY <1>2, <2>1
  <2>3. out[i] = data[k + 1] /\ b[i] = data[k + 1] /\ data[k + 1] \in Octets
    BY <1>1, <2>1, <2>2 DEF PutAt
  \* What lies behind it.
  <2>4. ASSUME i + 1 <= l
        PROVE  /\ k + 2 \in 1 .. n
               /\ PutAt(out, data[k + 2], i, e[k + 2])
    <3>1. k + 1 # n
      BY <1>2, <2>1, <2>4
    <3>2. k + 2 \in 1 .. n /\ k + 2 - 1 = k + 1
      BY <2>1, <3>1
    <3>3. PutAt(out, data[k + 2], e[k + 2 - 1], e[k + 2])
      BY <1>2, <3>2
    <3>. QED
      BY <2>1, <3>2, <3>3
  <2>5. CASE Escaped(b, i)
    <3>1. i + 2 <= l /\ b[i] = Byte(0) /\ b[i + 1] = Byte(0) /\ b[i + 2] = Byte(3)
      BY <1>1, <2>1, <2>5, EscapedIs
    <3>2. out[i] = Byte(0) /\ out[i + 1] = Byte(0) /\ out[i + 2] = Byte(3)
      <4>1. i \in 1 .. l /\ i + 1 \in 1 .. l /\ i + 2 \in 1 .. l
        BY <3>1
      <4>2. b[i] = out[i] /\ b[i + 1] = out[i + 1] /\ b[i + 2] = out[i + 2]
        BY <1>1, <4>1
      <4>. QED
        BY <3>1, <4>2, Zenon
    <3>3. k + 2 \in 1 .. n /\ e[k + 2] = i + 1 /\ data[k + 2] = Byte(0)
      BY <2>1, <2>4, <3>1, <3>2, Octet03 DEF PutAt
    <3>4. k + 2 # n
      BY <1>2, <3>1, <3>3
    <3>5. k + 3 \in 1 .. n /\ k + 3 - 1 = k + 2
      BY <3>3, <3>4
    <3>6. PutAt(out, data[k + 3], i + 1, e[k + 3])
      <4>1. PutAt(out, data[k + 3], e[k + 3 - 1], e[k + 3])
        BY <1>2, <3>5
      <4>. QED
        BY <3>3, <3>5, <4>1
    <3>7. e[k + 3] = i + 3
      <4>1. i + 1 >= 2 /\ i + 1 - 1 = i /\ i + 1 + 1 = i + 2 /\ i + 1 + 2 = i + 3
        BY <2>1
      <4>2. CASE e[k + 3] = i + 2
        <5>2. PutAt(out, data[k + 3], i + 1, i + 2)
          BY <3>6, <4>2
        <5>3. out[i + 2] = data[k + 3]
          BY <5>2 DEF PutAt
        <5>4. i + 2 # i + 1 + 2
          BY <2>1
        <5>5. ~(i + 1 >= 2 /\ out[i + 1 - 1] = Byte(0) /\ out[i + 1] = Byte(0) /\ data[k + 3] = Byte(3))
          BY <5>2, <5>4 DEF PutAt
        <5>. QED
          BY <3>2, <4>1, <5>3, <5>5
      <4>. QED
        BY <3>6, <4>1, <4>2 DEF PutAt
    <3>8. PICK t : t = <<Byte(0), Byte(0)>>
      OBVIOUS
    <3>9. t \in Seq(Octets) /\ Len(t) = 2 /\ t[1] = Byte(0) /\ t[2] = Byte(0)
      BY <3>8, Octet03
    <3>10. PICK y : y = x \o t
      OBVIOUS
    <3>11. PrefixOf(y, data, k + 2, Octets)
      <4>1. Joint(y, x, t, Octets)
        BY <3>9, <3>10, JointIs
      <4>2. /\ y \in Seq(Octets) /\ Len(y) = k + 2 /\ \A j \in 1 .. k : y[j] = x[j]
            /\ \A j \in 1 .. 2 : y[k + j] = t[j]
        BY <1>4, <3>9, <4>1 DEF Joint
      <4>3. y[k + 1] = data[k + 1] /\ y[k + 2] = data[k + 2]
        <5>1. y[k + 1] = t[1] /\ y[k + 2] = t[2]
          BY <4>2
        <5>. QED
          BY <2>3, <3>1, <3>3, <3>9, <5>1
      <4>4. ASSUME NEW j \in 1 .. k + 2 PROVE y[j] = data[j]
        <5>1. j \in 1 .. k \/ j = k + 1 \/ j = k + 2
          OBVIOUS
        <5>. QED
          BY <1>4, <4>2, <4>3, <5>1
      <4>. QED
        BY <4>2, <4>4 DEF PrefixOf
    <3>12. PICK r : r = [next |-> i + 3, out |-> y]
      OBVIOUS
    <3>13. Unescape(acc, b, i) = r
      BY <1>3, <1>6, <2>5, <3>8, <3>10, <3>12 DEF Unescape
    <3>14. ~Escaped(b, i + 2)
      <4>1. PICK v \in Nat \ {0} : v = i + 2 /\ b[v] = Byte(3)
        BY <3>1
      <4>2. ~Escaped(b, v)
        BY <1>1, <4>1, EscapedIs, Octet03
      <4>. QED
        BY <4>1, <4>2, Zenon
    <3>15. Undone(r, b, data, n, e, i, k + 2)
      <4>1. r.next = i + 3 /\ r.out = y /\ i + 3 - 1 = i + 2 /\ k + 2 < n /\ i + 3 > i /\ i + 3 \in Nat
            /\ k + 2 + 1 = k + 3
        BY <2>1, <3>5, <3>12
      <4>. QED
        BY <3>7, <3>11, <3>14, <4>1 DEF Undone
    <3>16. k + 2 \in 0 .. n
      BY <3>3
    <3>. QED
      BY <3>13, <3>15, <3>16
  <2>6. CASE ~Escaped(b, i)
    <3>1. PICK y : y = Append(x, data[k + 1])
      OBVIOUS
    <3>2. PrefixOf(y, data, k + 1, Octets)
      <4>1. y \in Seq(Octets) /\ Len(y) = k + 1 /\ y[k + 1] = data[k + 1] /\ \A j \in 1 .. k : y[j] = x[j]
        BY <1>4, <2>3, <3>1, AppendProperties
      <4>2. ASSUME NEW j \in 1 .. k + 1 PROVE y[j] = data[j]
        <5>1. j \in 1 .. k \/ j = k + 1
          OBVIOUS
        <5>. QED
          BY <1>4, <4>1, <5>1
      <4>. QED
        BY <4>1, <4>2 DEF PrefixOf
    <3>3. PICK r : r = [next |-> i + 1, out |-> y]
      OBVIOUS
    <3>4. Unescape(acc, b, i) = r
      BY <1>3, <1>6, <2>3, <2>6, <3>1, <3>3 DEF Unescape
    <3>5. ASSUME i + 1 <= l PROVE k + 2 \in 1 .. n /\ e[k + 2] = i + 1
      <4>1. k + 2 \in 1 .. n /\ PutAt(out, data[k + 2], i, e[k + 2])
        BY <2>4, <3>5
      <4>2. CASE e[k + 2] = i + 2 /\ i >= 2 /\ out[i - 1] = Byte(0) /\ out[i] = Byte(0) /\ out[i + 1] = Byte(3)
        <5>1. i - 1 \in Nat \ {0} /\ i - 1 + 2 <= l /\ i - 1 + 1 = i /\ i - 1 + 2 = i + 1
              /\ i - 1 \in 1 .. l /\ i \in 1 .. l /\ i + 1 \in 1 .. l
          BY <2>1, <3>5, <4>2
        <5>2. b[i - 1] = Byte(0) /\ b[i] = Byte(0) /\ b[i + 1] = Byte(3)
          BY <1>1, <4>2, <5>1
        <5>3. Escaped(b, i - 1)
          BY <1>1, <5>1, <5>2, EscapedIs
        <5>. QED
          BY <2>1, <4>2, <5>3
      <4>. QED
        BY <4>1, <4>2 DEF PutAt
    <3>6. Undone(r, b, data, n, e, i, k + 1)
      <4>1. r.next = i + 1 /\ r.out = y /\ i + 1 - 1 = i /\ i + 1 > i /\ i + 1 \in Nat /\ k + 1 + 1 = k + 2
        BY <2>1, <3>3
      <4>2. i + 1 <= Len(b) => k + 1 < n /\ i + 1 = e[k + 2]
        BY <1>1, <3>5
      <4>. QED
        BY <2>6, <3>2, <4>1, <4>2 DEF Undone
    <3>. QED
      BY <2>1, <3>4, <3>6
  <2>. QED
    BY <2>5, <2>6
<1>. QED
  BY <1>4, <1>5, <1>6

\* Of any beginning of the bytes put, taking out gives a beginning of the data.
LEMMA UnescapeBack ==
  ASSUME NEW data \in Seq(Octets), NEW out, out = Escape(data),
         NEW b, NEW l \in Nat, PrefixOf(b, out, l, Octets), l <= Len(out)
  PROVE  \E k \in 0 .. Len(data) : PrefixOf(remove_emulation_prevention(b), data, k, Octets)
<1>1. PICK n \in Nat : n = Len(data)
  OBVIOUS
<1>2. PICK e : Puts(out, data, n, e)
  BY <1>1, EscapeLays
<1>3. Len(b) = l
  BY DEF PrefixOf
<1>4. PICK f : Unescaping(f, b, l) /\ remove_emulation_prevention(b) = f[l].out
  BY <1>3, UnescapingIs
<1>. DEFINE Up(i) == \E k \in 0 .. n : Undone(f[i], b, data, n, e, i, k)
<1>5. Up(0)
  <2>1. f[0].next = 1 /\ f[0].out = <<>>
    BY <1>4 DEF Unescaping
  <2>2. PrefixOf(<<>>, data, 0, Octets)
    <3>1. <<>> \in Seq(Octets) /\ Len(<<>>) = 0
      OBVIOUS
    <3>. QED
      BY <3>1 DEF PrefixOf
  <2>3. 1 <= l => 0 < n /\ 1 = e[0 + 1]
    <3>1. /\ e[0] = 0 /\ e[n] = Len(out) /\ \A j \in 1 .. n : PutAt(out, data[j], e[j - 1], e[j])
      BY <1>2 DEF Puts
    <3>2. 1 <= l => 0 < n
      BY <3>1
    <3>3. 0 < n => e[1] = 1
      <4>1. 0 < n => PutAt(out, data[1], e[1 - 1], e[1])
        BY <3>1
      <4>2. 1 - 1 = 0
        OBVIOUS
      <4>3. 0 < n => PutAt(out, data[1], 0, e[1])
        BY <3>1, <4>1, <4>2
      <4>. QED
        BY <4>3 DEF PutAt
    <3>. QED
      BY <3>2, <3>3
  <2>4. Undone(f[0], b, data, n, e, 0, 0)
    BY <1>3, <2>1, <2>2, <2>3 DEF Undone
  <2>. QED
    BY <2>4
<1>6. ASSUME NEW i \in Nat, i < l, Up(i) PROVE Up(i + 1)
  <2>1. PICK k \in 0 .. n : Undone(f[i], b, data, n, e, i, k)
    BY <1>6
  <2>2. i + 1 \in 1 .. l /\ i + 1 - 1 = i
    BY <1>6
  <2>3. PICK j \in 1 .. l : j = i + 1
    BY <2>2
  <2>4. f[i + 1] = Unescape(f[i], b, i + 1)
    <3>1. \A m \in 1 .. l : f[m] = Unescape(f[m - 1], b, m)
      BY <1>4 DEF Unescaping
    <3>2. f[j] = Unescape(f[j - 1], b, j)
      BY <3>1
    <3>3. j - 1 = i
      BY <2>3
    <3>4. f[j] = Unescape(f[i], b, j)
      BY <3>2, <3>3, Zenon
    <3>. QED
      BY <2>3, <3>4, Zenon
  <2>5. Undone(f[i], b, data, n, e, i + 1 - 1, k)
    BY <2>1, <2>2
  <2>6. \E m \in 0 .. n : Undone(Unescape(f[i], b, i + 1), b, data, n, e, i + 1, m)
    BY <1>1, <1>2, <2>2, <2>5, UnescapeStep
  <2>. QED
    BY <2>4, <2>6
<1>7. Up(l)
  <2>. SUFFICES ASSUME ~Up(l) PROVE FALSE
    OBVIOUS
  <2>. DEFINE S == {i \in Nat : i <= l /\ ~Up(i)}
  <2>1. S \subseteq Nat /\ S # {}
    <3>. HIDE DEF Up
    <3>. QED
      OBVIOUS
  <2>2. PICK i \in S : \A j \in S : i <= j
    <3>. HIDE DEF S
    <3>. QED
      BY <2>1, Least
  <2>. HIDE DEF Up
  <2>3. i \in Nat /\ i <= l /\ ~Up(i) /\ i # 0
    BY <1>5, <2>2
  <2>4. i - 1 \in Nat /\ ~(i <= i - 1) /\ i - 1 + 1 = i /\ i - 1 < l /\ i - 1 <= l
    BY <2>3
  <2>5. Up(i - 1)
    BY <2>2, <2>4
  <2>. QED
    BY <1>6, <2>3, <2>4, <2>5
<1>. QED
  BY <1>1, <1>4, <1>7 DEF Undone

------------------------------------------------------------------------------
(* H.265: a number written is the number read. *)

LEMMA Halved ==
  ASSUME NEW P \in Nat \ {0}, NEW Q \in Nat \ {0}, Q = 2 * P, NEW v \in Nat
  PROVE  v \div P = 2 * (v \div Q) + ((v \div P) % 2) /\ v \div P \in Nat
<1>1. PICK x \in Nat, r \in 0 .. P - 1 : x = v \div P /\ v = P * x + r
  BY DivNat
<1>2. PICK h \in Nat, b \in 0 .. 1 : b = x % 2 /\ x = 2 * h + b
  <2>1. PICK M \in Nat \ {0} : M = 2
    OBVIOUS
  <2>2. x \div M \in Nat /\ x % M \in 0 .. M - 1 /\ x = M * (x \div M) + (x % M)
    BY DivNat
  <2>. QED
    BY <2>1, <2>2
<1>3. PICK y \in Nat : y = P * h
  OBVIOUS
<1>4. P * x = 2 * y + P * b
  <2>1. P * (2 * h + b) = P * (2 * h) + P * b
    BY Distribute
  <2>2. P * (2 * h) = 2 * (P * h)
    BY ONLY P \in Nat, h \in Nat
  <2>. QED
    BY <1>2, <1>3, <2>1, <2>2
<1>5. PICK s \in 0 .. Q - 1 : s = P * b + r
  <2>1. b = 0 \/ b = 1
    BY <1>2
  <2>2. CASE b = 0
    <3>1. P * b = 0
      BY <2>2
    <3>. QED
      BY <1>1, <3>1
  <2>3. CASE b = 1
    <3>1. P * b = P
      BY <2>3
    <3>. QED
      BY <1>1, <3>1
  <2>. QED
    BY <2>1, <2>2, <2>3
<1>6. Q * h = 2 * y
  <2>1. (2 * P) * h = 2 * (P * h)
    BY ONLY P \in Nat, h \in Nat
  <2>. QED
    BY <1>3, <2>1
<1>7. P * b \in Nat
  BY <1>2
<1>8. v = Q * h + s
  BY <1>1, <1>4, <1>5, <1>6, <1>7
<1>9. v \div Q = h
  BY <1>8, DivUnique
<1>. QED
  BY <1>1, <1>2, <1>9

LEMMA FixedCodeValue ==
  ASSUME NEW v \in Nat, NEW n \in Nat, v < Power2[n]
  PROVE  Value(FixedCode(v, n)) = v
<1>1. PICK s \in Seq(Bit) : s = FixedCode(v, n) /\ Len(s) = n
  BY CodeBits
<1>2. PICK g : g = [i \in 0 .. n |-> v \div Power2[n - i]]
  OBVIOUS
<1>3. ASSUME NEW i \in 0 .. n PROVE g[i] \in Nat
  <2>1. n - i \in Nat
    OBVIOUS
  <2>2. PICK P \in Nat \ {0} : P = Power2[n - i]
    BY <2>1, Powers
  <2>3. v \div P \in Nat
    BY DivNat
  <2>. QED
    BY <1>2, <2>2, <2>3
<1>4. g[0] = 0
  <2>1. PICK P \in Nat \ {0} : P = Power2[n]
    BY Powers
  <2>2. PICK q \in Int, x \in Int, t \in 0 .. P - 1 : q = 0 /\ x = v /\ t = v /\ x = P * q + t
    <3>1. v \in 0 .. P - 1 /\ v = P * 0 + v /\ v \in Int
      BY <2>1
    <3>2. PICK q \in Int : q = 0
      OBVIOUS
    <3>. QED
      BY <3>1, <3>2
  <2>3. x \div P = q
    BY ONLY <2>2, DivUnique, P \in Nat \ {0}, x \in Int, q \in Int, t \in 0 .. P - 1
  <2>4. v \div P = 0
    BY <2>2, <2>3
  <2>5. n - 0 = n /\ 0 \in 0 .. n
    OBVIOUS
  <2>6. g[0] = v \div Power2[n - 0]
    BY <1>2, <2>5
  <2>. QED
    BY <2>1, <2>4, <2>5, <2>6
<1>5. g[n] = v
  <2>1. n - n = 0 /\ n \in 0 .. n /\ Power2[0] = 1
    BY Powers
  <2>2. g[n] = v \div Power2[n - n]
    BY <1>2, <2>1
  <2>3. PICK P \in Nat \ {0} : P = 1
    OBVIOUS
  <2>4. v = P * v + 0 /\ 0 \in 0 .. P - 1
    BY <2>3
  <2>5. v \div P = v
    BY <2>4, DivUnique
  <2>. QED
    BY <2>1, <2>2, <2>3, <2>5
<1>6. ASSUME NEW i \in 1 .. n PROVE g[i] = 2 * g[i - 1] + s[i]
  <2>1. PICK k \in Nat : k = n - i /\ k + 1 = n - (i - 1) /\ i \in 0 .. n /\ i - 1 \in 0 .. n
    OBVIOUS
  <2>2. PICK P \in Nat \ {0}, Q \in Nat \ {0} : P = Power2[k] /\ Q = Power2[k + 1] /\ Q = 2 * P
    BY PowerAt
  <2>3. v \div P = 2 * (v \div Q) + ((v \div P) % 2)
    BY <2>2, Halved
  <2>4. s[i] = (v \div P) % 2
    BY <1>1, <2>1, <2>2 DEF FixedCode, BitAt
  <2>5. g[i] = v \div P /\ g[i - 1] = v \div Q
    <3>1. g[i] = v \div Power2[n - i]
      BY <1>2, <2>1
    <3>2. \A j \in 0 .. n : g[j] = v \div Power2[n - j]
      BY <1>2
    <3>3. g[i - 1] = v \div Power2[n - (i - 1)]
      BY <2>1, <3>2
    <3>. QED
      BY <2>1, <2>2, <3>1, <3>3
  <2>. QED
    BY <2>3, <2>4, <2>5
<1>7. g \in [0 .. n -> Nat]
  BY <1>2, <1>3
<1>8. IsValue(s, g)
  BY <1>1, <1>4, <1>6, <1>7 DEF IsValue
<1>9. Value(s) = g[Len(s)]
  BY <1>8, ValueIs
<1>. QED
  BY <1>1, <1>5, <1>9

\* c lies in w behind the first p of it.
CodeAt(w, p, c) == \A i \in 1 .. Len(c) : w[p + i] = c[i]

\* The reader of rec, a beginning of w, at p; u lies in w behind it.
LEMMA TakenIs ==
  ASSUME NEW w, NEW rec \in Seq(Bit), NEW l \in Nat, PrefixOf(rec, w, l, Bit),
         NEW p \in Nat, NEW u \in Seq(Bit), p + Len(u) <= l, CodeAt(w, p, u)
  PROVE  SubSeq(rec, p + 1, p + Len(u)) = u
<1>1. PICK n \in Nat : n = Len(u)
  OBVIOUS
<1>2. Len(rec) = l /\ (\A i \in 1 .. l : rec[i] = w[i]) /\ \A i \in 1 .. Len(u) : w[p + i] = u[i]
  BY DEF PrefixOf, CodeAt
<1>3. PICK b \in Nat, e \in Nat : b = p + 1 /\ e = p + n /\ Ends(rec, p, n, b, e)
  <2>1. Ends(rec, p, n, p + 1, p + n)
    BY <1>1, <1>2 DEF Ends
  <2>2. p + 1 \in Nat /\ p + n \in Nat
    OBVIOUS
  <2>. QED
    BY <2>1, <2>2
<1>4. PICK s : s = SubSeq(rec, b, e)
  OBVIOUS
<1>5. Lies(s, rec, p, n)
  BY <1>3, <1>4, Between
<1>6. s \in Seq(Bit) /\ Len(s) = n /\ \A i \in 1 .. n : s[i] = rec[p + i]
  BY <1>5 DEF Lies
<1>7. ASSUME NEW i \in 1 .. n PROVE s[i] = u[i]
  <2>1. p + i \in 1 .. l
    BY <1>1
  <2>2. rec[p + i] = w[p + i] /\ s[i] = rec[p + i] /\ w[p + i] = u[i]
    BY <1>1, <1>2, <1>6, <2>1
  <2>. QED
    BY <2>2
<1>8. s = u
  BY ONLY <1>1, <1>6, <1>7, u \in Seq(Bit)
<1>. QED
  BY <1>1, <1>3, <1>4, <1>8

\* The code of v: m zeros, a one and m bits u.
IsCode(c, v, m, u) ==
  /\ c \in Seq(Bit) /\ u \in Seq(Bit) /\ Len(u) = m /\ Len(c) = 2 * m + 1
  /\ \A i \in 1 .. m : c[i] = 0
  /\ c[m + 1] = 1
  /\ \A i \in 1 .. m : c[m + 1 + i] = u[i]
  /\ Power2[m] + Value(u) - 1 = v

LEMMA GolombLays ==
  ASSUME NEW v \in Nat, NEW m \in 0 .. WordBits - 1, Power2[m] <= v + 1, v + 1 < Power2[m + 1]
  PROVE  \E u : IsCode(GolombCode(v), v, m, u)
<1>1. m \in Nat /\ m + 1 \in Nat /\ m \in 0 .. WordBits
  BY WidthAssumption
<1>2. Magnitude(v) = m
  BY <1>1, MagnitudeIs
<1>3. PICK z : z = [i \in 1 .. m |-> 0]
  OBVIOUS
<1>4. z \in Seq(Bit) /\ Len(z) = m /\ \A i \in 1 .. m : z[i] = 0
  <2>1. z \in [1 .. m -> Bit]
    BY <1>3 DEF Bit
  <2>. QED
    BY <1>1, <1>3, <2>1
<1>5. PICK t \in Seq(Bit) : t = FixedCode(v + 1, m + 1) /\ Len(t) = m + 1
  <2>1. v + 1 \in Nat
    OBVIOUS
  <2>. QED
    BY <1>1, <2>1, CodeBits
<1>6. Value(t) = v + 1
  <2>1. v + 1 \in Nat
    OBVIOUS
  <2>. QED
    BY <1>1, <1>5, <2>1, FixedCodeValue
<1>7. t[1] = 1
  <2>1. PICK P \in Nat \ {0}, Q \in Nat \ {0} : P = Power2[m] /\ Q = Power2[m + 1] /\ Q = 2 * P
    BY <1>1, PowerAt
  <2>2. PICK x \in Nat, q \in Int, r \in 0 .. P - 1 : x = v + 1 /\ q = 1 /\ x = P * q + r
    <3>1. PICK r \in 0 .. P - 1 : r = v + 1 - P
      BY <2>1
    <3>2. PICK x \in Nat, q \in Int : x = v + 1 /\ q = 1
      OBVIOUS
    <3>3. P * q = P
      BY <3>2
    <3>4. x = P * q + r
      BY <3>1, <3>2, <3>3
    <3>. QED
      BY <3>2, <3>4
  <2>3. x \div P = q
    BY ONLY <2>2, DivUnique, P \in Nat \ {0}, x \in Nat, q \in Int, r \in 0 .. P - 1
  <2>4. BitAt(v + 1, m) = 1
    BY <2>1, <2>2, <2>3 DEF BitAt
  <2>5. t[1] = BitAt(v + 1, m + 1 - 1)
    BY <1>1, <1>5 DEF FixedCode
  <2>6. m + 1 - 1 = m
    BY <1>1
  <2>. QED
    BY <2>4, <2>5, <2>6
<1>8. PICK u : u = [i \in 1 .. m |-> t[i + 1]]
  OBVIOUS
<1>9. u \in Seq(Bit) /\ Len(u) = m /\ \A i \in 1 .. m : t[i + 1] = u[i]
  <2>1. \A i \in 1 .. m : t[i + 1] \in Bit
    BY <1>1, <1>5
  <2>2. u \in [1 .. m -> Bit]
    BY <1>8, <2>1
  <2>. QED
    BY <1>1, <1>8, <2>2
<1>10. Value(t) = Power2[m] + Value(u)
  BY <1>1, <1>5, <1>7, <1>9, LeadingOne
<1>11. PICK c : c = GolombCode(v) /\ c = z \o t
  BY <1>2, <1>3, <1>5 DEF GolombCode
<1>12. Joint(c, z, t, Bit)
  BY <1>4, <1>5, <1>11, JointIs
<1>13. /\ c \in Seq(Bit) /\ Len(c) = m + (m + 1)
       /\ \A i \in 1 .. m : c[i] = z[i]
       /\ \A i \in 1 .. m + 1 : c[m + i] = t[i]
  BY <1>4, <1>5, <1>12 DEF Joint
<1>14. c[m + 1] = 1
  BY <1>1, <1>7, <1>13
<1>15. ASSUME NEW i \in 1 .. m PROVE c[m + 1 + i] = u[i]
  <2>1. i + 1 \in 1 .. m + 1 /\ m + (i + 1) = m + 1 + i
    BY <1>1
  <2>2. c[m + (i + 1)] = t[i + 1]
    BY <1>13, <2>1
  <2>. QED
    BY <1>9, <2>1, <2>2
<1>16. Power2[m] + Value(u) - 1 = v
  <2>1. Value(u) \in Nat /\ Power2[m] \in Nat
    BY <1>1, <1>9, FixedCodeBack, Powers
  <2>. QED
    BY <1>6, <1>10, <2>1
<1>17. IsCode(c, v, m, u)
  BY <1>1, <1>4, <1>9, <1>13, <1>14, <1>15, <1>16 DEF IsCode
<1>. QED
  BY <1>11, <1>17

\* The reader r is at p of l bits, which w begins with.
ReadsAt(r, w, p, l) ==
  /\ InSlice(r) /\ r.pos = p /\ p \in Nat /\ l \in Nat /\ PrefixOf(r.data, w, l, Bit)

LEMMA GolombReadBack ==
  ASSUME NEW r, NEW w, NEW p, NEW l, ReadsAt(r, w, p, l),
         NEW v \in Nat, NEW m \in 0 .. WordBits - 1, Power2[m] <= v + 1, v + 1 < Power2[m + 1],
         CodeAt(w, p, GolombCode(v)), NEW o, o = read_golomb(r), o.ok
  PROVE  o.value = v /\ o.reader.pos = p + Len(GolombCode(v))
<1>1. PICK c, u : c = GolombCode(v) /\ IsCode(c, v, m, u)
  BY GolombLays
<1>2. /\ c \in Seq(Bit) /\ u \in Seq(Bit) /\ Len(u) = m /\ Len(c) = 2 * m + 1
      /\ \A i \in 1 .. m : c[i] = 0
      /\ c[m + 1] = 1
      /\ \A i \in 1 .. m : c[m + 1 + i] = u[i]
      /\ Power2[m] + Value(u) - 1 = v
  BY <1>1 DEF IsCode
<1>3. PICK d \in Seq(Bit) : d = r.data /\ Len(d) = l /\ (\A i \in 1 .. l : d[i] = w[i]) /\ p \in Nat /\ l \in Nat
  BY DEF ReadsAt, PrefixOf
<1>4. InSlice(r) /\ r.pos = p
  BY DEF ReadsAt
<1>5. m \in Nat /\ WordBits \in Nat /\ m <= WordBits - 1 /\ p \in Nat /\ l \in Nat
  BY <1>3, WidthAssumption
<1>6. \A i \in 1 .. 2 * m + 1 : w[p + i] = c[i]
  BY <1>1, <1>2 DEF CodeAt
<1>7. (\A i \in 1 .. m : w[p + i] = 0) /\ w[p + m + 1] = 1 /\ \A i \in 1 .. m : w[p + m + 1 + i] = u[i]
  <2>1. ASSUME NEW i \in 1 .. m PROVE w[p + i] = 0 /\ w[p + m + 1 + i] = u[i]
    <3>1. i \in 1 .. 2 * m + 1 /\ m + 1 + i \in 1 .. 2 * m + 1 /\ p + (m + 1 + i) = p + m + 1 + i
      BY ONLY <1>5, i \in 1 .. m
    <3>2. w[p + (m + 1 + i)] = c[m + 1 + i] /\ w[p + i] = c[i]
      BY <1>6, <3>1
    <3>. QED
      BY <1>2, <3>1, <3>2
  <2>2. w[p + m + 1] = 1
    <3>1. m + 1 \in 1 .. 2 * m + 1 /\ p + (m + 1) = p + m + 1
      BY <1>3, <1>5
    <3>2. w[p + (m + 1)] = c[m + 1]
      BY <1>6, <3>1
    <3>. QED
      BY <1>2, <3>1, <3>2
  <2>. QED
    BY <2>1, <2>2
\* A one behind k zeros.
<1>8. ASSUME NEW k \in Nat, p + k + 1 <= l, d[p + k + 1] = 1, \A i \in p + 1 .. p + k : d[i] = 0
      PROVE  k = m
  <2>1. ~(k < m)
    <3>1. k < m => k + 1 \in 1 .. m /\ p + k + 1 \in 1 .. l /\ p + (k + 1) = p + k + 1
      BY <1>3, <1>5, <1>8
    <3>2. k < m => w[p + (k + 1)] = 0 /\ d[p + k + 1] = w[p + k + 1]
      BY <1>3, <1>7, <3>1
    <3>. QED
      BY <1>8, <3>1, <3>2
  <2>2. ~(m < k)
    <3>1. m < k => p + m + 1 \in p + 1 .. p + k /\ p + m + 1 \in 1 .. l
      BY <1>3, <1>5, <1>8
    <3>2. m < k => d[p + m + 1] = 0 /\ d[p + m + 1] = w[p + m + 1]
      BY <1>3, <1>8, <3>1
    <3>. QED
      BY <1>7, <3>2
  <2>. QED
    BY <1>5, <2>1, <2>2
<1>9. HasCode(d, p)
  BY <1>3, <1>4, GolombRead
<1>10. p + 2 * m + 1 <= l
  <2>1. PICK k \in 0 .. WordBits - 1 : p + 2 * k + 1 <= l /\ d[p + k + 1] = 1 /\ \A i \in p + 1 .. p + k : d[i] = 0
    BY <1>3, <1>9 DEF HasCode
  <2>2. k \in Nat /\ p + k + 1 <= l
    BY <1>3, <1>5, <2>1
  <2>3. k = m
    BY <1>8, <2>1, <2>2
  <2>. QED
    BY <2>1, <2>3
<1>11. PICK z : z = LeadingZeros(r)
  OBVIOUS
<1>12. z = m
  <2>1. \/ z \in Int /\ z < 0 /\ \A i \in p + 1 .. l : d[i] = 0
        \/ /\ z \in Nat /\ p + z + 1 <= l /\ d[p + z + 1] = 1
           /\ \A i \in p + 1 .. p + z : d[i] = 0
    BY <1>3, <1>4, <1>11, LeadingZerosIs
  <2>2. p + m + 1 \in p + 1 .. l /\ p + m + 1 \in 1 .. l
    BY <1>3, <1>5, <1>10
  <2>3. d[p + m + 1] = 1
    BY <1>3, <1>7, <2>2
  <2>. QED
    BY <1>8, <2>1, <2>2, <2>3
<1>13. PICK a : a = Advanced(r, m + 1) /\ InSlice(a) /\ a.pos = p + m + 1 /\ a.data = d
  <2>1. m + 1 \in Nat /\ m + 1 <= available_bits(r)
    BY <1>3, <1>4, <1>5, <1>10 DEF available_bits
  <2>2. PICK x : x = m + 1
    OBVIOUS
  <2>3. InSlice(Advanced(r, x)) /\ Advanced(r, x).pos = r.pos + x /\ Advanced(r, x).data = r.data
    BY <1>4, <2>1, <2>2, GotIs
  <2>. QED
    BY <1>3, <1>4, <1>5, <2>2, <2>3
<1>14. PICK info : info = read_bits(a, m)
  OBVIOUS
<1>15. /\ info.ok /\ info.value = Value(SubSeq(d, p + m + 1 + 1, p + m + 1 + m))
       /\ Leaves(a, info, p + m + 1 + m)
  <2>1. m <= WordBits /\ m <= available_bits(a)
    <3>1. available_bits(a) = l - (p + m + 1)
      BY <1>3, <1>13 DEF available_bits
    <3>. QED
      BY ONLY <1>5, <1>10, <3>1
  <2>. QED
    BY <1>5, <1>13, <1>14, <2>1, ReadBitsIs
<1>16. info.value = Value(u)
  <2>1. PICK q \in Nat : q = p + m + 1
    BY <1>3, <1>5
  <2>2. PrefixOf(d, w, l, Bit)
    BY <1>3 DEF ReadsAt
  <2>3. q + Len(u) <= l /\ CodeAt(w, q, u)
    BY <1>2, <1>5, <1>7, <1>10, <2>1 DEF CodeAt
  <2>4. SubSeq(d, q + 1, q + Len(u)) = u
    <3>1. u \in Seq(Bit) /\ l \in Nat /\ q + Len(u) <= l /\ CodeAt(w, q, u)
      BY <1>2, <1>5, <2>3
    <3>2. d \in Seq(Bit)
      OBVIOUS
    <3>. QED
      BY ONLY <2>2, <3>1, <3>2, q \in Nat, TakenIs
  <2>. QED
    BY <1>2, <1>15, <2>1, <2>4
<1>17. o = [info EXCEPT !.value = (Power2[m] + @ - 1) % Power2[WordBits]]
  <2>1. ~(m < 0) /\ ~(m > MaxZeros)
    BY <1>5 DEF MaxZeros
  <2>. QED
    BY <1>11, <1>12, <1>13, <1>14, <1>15, <2>1 DEF read_golomb
<1>18. v % Power2[WordBits] = v
  <2>1. PICK x \in Nat, y \in Nat, N \in Nat \ {0} : x = Power2[m] /\ y = Power2[m + 1] /\ N = Power2[WordBits] /\ y = 2 * x
    BY <1>5, PowerAt
  <2>2. y <= N
    <3>1. m < WordBits
      BY <1>5
    <3>. QED
      BY <1>5, <2>1, <3>1, PowersGrow
  <2>3. v \in 0 .. N - 1
    BY <2>1, <2>2
  <2>4. v % N = v
    BY <2>3
  <2>. QED
    BY <2>1, <2>4
<1>19. o.value = v /\ o.reader = info.reader
  <2>1. Value(u) \in Nat
    BY <1>2, FixedCodeBack
  <2>2. PICK x : x = (Power2[m] + info.value - 1) % Power2[WordBits]
    OBVIOUS
  <2>3. x = v
    BY <1>2, <1>16, <1>18, <2>2
  <2>4. o = [info EXCEPT !.value = x]
    BY <1>17, <2>2
  <2>5. info = ReadRecord(info.ok, info.value, info.reader)
    BY <1>14 DEF read_bits, Failed, Got, ReadRecord
  <2>. QED
    BY <2>3, <2>4, <2>5 DEF ReadRecord
<1>20. info.reader.pos = p + m + 1 + m
  BY <1>15 DEF Leaves
<1>. QED
  BY <1>1, <1>2, <1>3, <1>5, <1>19, <1>20

\* A field, and a value that it can hold.
HoldsValue(f, v) ==
  /\ f.kind \in {"u", "ue", "se", "skip"} /\ f.n \in Nat
  /\ f.kind = "u" => v \in Nat /\ v < Power2[f.n]
  /\ f.kind = "ue" => v \in 0 .. 6
  /\ f.kind = "se" => v \in {3, -2}

LEMMA SmallPowers == Power2[0] = 1 /\ Power2[1] = 2 /\ Power2[2] = 4 /\ Power2[3] = 8
<1>1. Power2[0] = 1 /\ \A n \in Nat : Power2[n + 1] = 2 * Power2[n]
  BY Powers
<1>2. Power2[0 + 1] = 2 /\ 0 + 1 = 1
  BY <1>1
<1>3. Power2[1 + 1] = 4 /\ 1 + 1 = 2
  BY <1>1, <1>2
<1>4. Power2[2 + 1] = 8 /\ 2 + 1 = 3
  BY <1>1, <1>3
<1>. QED
  BY <1>1, <1>2, <1>3, <1>4

LEMMA SmallMagnitude ==
  ASSUME NEW v \in 0 .. 6
  PROVE  \E m \in 0 .. WordBits - 1 : Power2[m] <= v + 1 /\ v + 1 < Power2[m + 1]
<1>1. WordBits \in Nat /\ WordBits >= 3
  BY WidthAssumption, ParserAssumption
<1>2. Power2[0] = 1 /\ Power2[1] = 2 /\ Power2[2] = 4 /\ Power2[3] = 8
  BY SmallPowers
<1>3. 0 + 1 = 1 /\ 1 + 1 = 2 /\ 2 + 1 = 3
  OBVIOUS
<1>4. 0 \in 0 .. WordBits - 1 /\ 1 \in 0 .. WordBits - 1 /\ 2 \in 0 .. WordBits - 1
  BY <1>1
<1>5. CASE v = 0
  BY <1>2, <1>3, <1>4, <1>5
<1>6. CASE v \in {1, 2}
  <2>1. Power2[1] <= v + 1 /\ v + 1 < Power2[1 + 1]
    BY <1>2, <1>3, <1>6
  <2>. QED
    BY <1>4, <2>1
<1>7. CASE v \in 3 .. 6
  <2>1. Power2[2] <= v + 1 /\ v + 1 < Power2[2 + 1]
    BY <1>2, <1>3, <1>7
  <2>. QED
    BY <1>4, <2>1
<1>. QED
  BY <1>5, <1>6, <1>7

LEMMA GolombBits ==
  ASSUME NEW v \in 0 .. 6
  PROVE  GolombCode(v) \in Seq(Bit)
<1>1. PICK m \in 0 .. WordBits - 1 : Power2[m] <= v + 1 /\ v + 1 < Power2[m + 1]
  BY SmallMagnitude
<1>2. v \in Nat
  OBVIOUS
<1>3. PICK u : IsCode(GolombCode(v), v, m, u)
  BY <1>1, <1>2, GolombLays
<1>. QED
  BY <1>3 DEF IsCode

LEMMA SignedCodes ==
  ASSUME NEW v \in {3, -2}
  PROVE  \E k \in 0 .. 6 : SignedCode(v) = GolombCode(k) /\ Signed(k) = v
<1>1. CASE v = 3
  <2>1. SignedCode(v) = GolombCode(5)
    BY <1>1 DEF SignedCode
  <2>2. Signed(5) = 3
    BY DEF Signed
  <2>. QED
    BY <1>1, <2>1, <2>2
<1>2. CASE v = -2
  <2>1. ~(v > 0) /\ -2 * v = 4
    <3>1. PICK x \in Int : x = v /\ x + 2 = 0
      BY <1>2
    <3>2. ~(x > 0) /\ -2 * x = 4
      BY ONLY <3>1, x \in Int
    <3>. QED
      BY <3>1, <3>2
  <2>2. SignedCode(v) = GolombCode(4)
    BY <2>1 DEF SignedCode
  <2>3. Signed(4) = -2
    BY DEF Signed
  <2>. QED
    BY <1>2, <2>2, <2>3
<1>. QED
  BY <1>1, <1>2

LEMMA ZerosBits ==
  ASSUME NEW n \in Nat
  PROVE  Zeros(n) \in Seq(Bit) /\ Len(Zeros(n)) = n
<1>1. PICK z : z = [i \in 1 .. n |-> 0]
  OBVIOUS
<1>2. z \in [1 .. n -> Bit]
  BY <1>1 DEF Bit
<1>3. z \in Seq(Bit) /\ Len(z) = n
  BY <1>1, <1>2
<1>. QED
  BY <1>1, <1>3 DEF Zeros

LEMMA EncodedBits ==
  ASSUME NEW f, NEW set, HoldsValue(f, set[f.name])
  PROVE  Encoded(f, set) \in Seq(Bit)
<1>1. CASE f.kind = "u"
  <2>1. Encoded(f, set) = FixedCode(set[f.name], f.n)
    BY <1>1 DEF Encoded
  <2>2. set[f.name] \in Nat /\ f.n \in Nat
    BY <1>1 DEF HoldsValue
  <2>. QED
    BY <2>1, <2>2, CodeBits
<1>2. CASE f.kind = "ue"
  <2>1. Encoded(f, set) = GolombCode(set[f.name])
    BY <1>2 DEF Encoded
  <2>2. set[f.name] \in 0 .. 6
    BY <1>2 DEF HoldsValue
  <2>. QED
    BY <2>1, <2>2, GolombBits
<1>3. CASE f.kind = "se"
  <2>1. Encoded(f, set) = SignedCode(set[f.name])
    BY <1>3 DEF Encoded
  <2>2. PICK k \in 0 .. 6 : SignedCode(set[f.name]) = GolombCode(k)
    BY <1>3, SignedCodes DEF HoldsValue
  <2>. QED
    BY <2>1, <2>2, GolombBits
<1>4. CASE f.kind = "skip"
  <2>1. Encoded(f, set) = Zeros(f.n)
    BY <1>4 DEF Encoded
  <2>2. f.n \in Nat
    BY DEF HoldsValue
  <2>. QED
    BY <2>1, <2>2, ZerosBits
<1>. QED
  BY <1>1, <1>2, <1>3, <1>4 DEF HoldsValue

LEMMA NextReads ==
  ASSUME NEW r, NEW w, NEW p, NEW l, ReadsAt(r, w, p, l), NEW o, NEW q, Leaves(r, o, q)
  PROVE  ReadsAt(o.reader, w, q, l) /\ o.reader.data = r.data
<1>1. /\ o.reader.data = r.data /\ o.reader.pos = q /\ o.reader \in SliceReaders
      /\ q \in Nat /\ q <= Len(o.reader.data)
  BY DEF Leaves
<1>2. InSlice(o.reader)
  BY <1>1 DEF InSlice
<1>. QED
  BY <1>1, <1>2 DEF ReadsAt

\* Where the code of a field lies, a read of the field that succeeds takes it.
LEMMA FieldReadBack ==
  ASSUME NEW r, NEW w, NEW p, NEW l, ReadsAt(r, w, p, l),
         NEW f, NEW set, HoldsValue(f, set[f.name]), CodeAt(w, p, Encoded(f, set)),
         NEW o, o = ReadField(r, f), o.ok
  PROVE  /\ ReadsAt(o.reader, w, p + Len(Encoded(f, set)), l) /\ o.reader.data = r.data
         /\ f.kind # "skip" => o.value = set[f.name]
<1>1. InSlice(r) /\ r.pos = p /\ p \in Nat /\ l \in Nat /\ PrefixOf(r.data, w, l, Bit)
  BY DEF ReadsAt
<1>2. PICK d \in Seq(Bit) : d = r.data /\ Len(d) = l /\ available_bits(r) = l - p
  BY <1>1 DEF PrefixOf, available_bits
<1>3. CASE f.kind = "u"
  <2>1. PICK n \in Nat, v \in Nat : n = f.n /\ v = set[f.name] /\ v < Power2[n]
    BY <1>3 DEF HoldsValue
  <2>2. PICK c \in Seq(Bit) : c = Encoded(f, set) /\ Len(c) = n /\ c = FixedCode(v, n)
    BY <1>3, <2>1, CodeBits DEF Encoded
  <2>3. o = read_bits(r, n)
    BY <1>3, <2>1 DEF ReadField
  <2>4. n <= WordBits /\ n <= l - p /\ o.value = Value(SubSeq(d, p + 1, p + n)) /\ Leaves(r, o, p + n)
    <3>1. WordBits \in Nat
      BY WidthAssumption
    <3>. QED
      BY <1>1, <1>2, <2>1, <2>3, <3>1, ReadBitsIs
  <2>5. SubSeq(d, p + 1, p + n) = c
    <3>1. p + Len(c) <= l /\ CodeAt(w, p, c) /\ PrefixOf(d, w, l, Bit)
      BY <1>1, <1>2, <2>1, <2>2, <2>4
    <3>2. p \in Nat /\ l \in Nat /\ d \in Seq(Bit) /\ c \in Seq(Bit) /\ Len(c) = n
      BY <1>1, <1>2, <2>2
    <3>3. SubSeq(d, p + 1, p + Len(c)) = c
      BY ONLY <3>1, <3>2, TakenIs
    <3>. QED
      BY <3>2, <3>3, Zenon
  <2>6. o.value = v
    <3>1. Value(FixedCode(v, n)) = v
      BY <2>1, FixedCodeValue
    <3>. QED
      BY <2>2, <2>4, <2>5, <3>1, Zenon
  <2>7. ReadsAt(o.reader, w, p + n, l) /\ o.reader.data = r.data
    BY <2>4, NextReads
  <2>. QED
    BY <2>1, <2>2, <2>6, <2>7
<1>4. CASE f.kind = "ue"
  <2>1. PICK v \in 0 .. 6 : v = set[f.name]
    BY <1>4 DEF HoldsValue
  <2>2. PICK m \in 0 .. WordBits - 1 : Power2[m] <= v + 1 /\ v + 1 < Power2[m + 1]
    BY SmallMagnitude
  <2>3. Encoded(f, set) = GolombCode(v) /\ o = read_golomb(r)
    BY <1>4, <2>1 DEF Encoded, ReadField
  <2>4. CodeAt(w, p, GolombCode(v)) /\ v \in Nat
    BY <2>3
  <2>5. o.value = v /\ o.reader.pos = p + Len(GolombCode(v))
    BY <2>2, <2>3, <2>4, GolombReadBack
  <2>6. PICK q : Leaves(r, o, q)
    BY <1>1, <2>3, GolombRead
  <2>7. q = p + Len(GolombCode(v))
    BY <2>5, <2>6 DEF Leaves
  <2>8. ReadsAt(o.reader, w, q, l) /\ o.reader.data = r.data
    BY <2>6, NextReads
  <2>. QED
    BY <2>1, <2>3, <2>5, <2>7, <2>8
<1>5. CASE f.kind = "se"
  <2>1. PICK v \in 0 .. 6 : SignedCode(set[f.name]) = GolombCode(v) /\ Signed(v) = set[f.name]
    BY <1>5, SignedCodes DEF HoldsValue
  <2>2. PICK m \in 0 .. WordBits - 1 : Power2[m] <= v + 1 /\ v + 1 < Power2[m + 1]
    BY SmallMagnitude
  <2>3. PICK k : k = read_golomb(r)
    OBVIOUS
  <2>4. o = IF k.ok THEN [k EXCEPT !.value = Signed(@)] ELSE k
    BY <1>5, <2>3 DEF ReadField, read_signed_golomb
  <2>5. Encoded(f, set) = GolombCode(v)
    BY <1>5, <2>1 DEF Encoded
  <2>6. PICK q : Leaves(r, k, q) /\ k = ReadRecord(k.ok, k.value, k.reader)
    BY <1>1, <2>3, GolombRead
  <2>7. k.ok /\ o.reader = k.reader /\ o.value = Signed(k.value)
    BY <2>4, <2>6 DEF ReadRecord
  <2>8. CodeAt(w, p, GolombCode(v)) /\ v \in Nat
    BY <2>5
  <2>9. k.value = v /\ k.reader.pos = p + Len(GolombCode(v))
    BY <2>2, <2>3, <2>7, <2>8, GolombReadBack
  <2>10. q = p + Len(GolombCode(v))
    BY <2>6, <2>9 DEF Leaves
  <2>11. ReadsAt(k.reader, w, q, l) /\ k.reader.data = r.data
    BY <2>6, NextReads
  <2>. QED
    BY <2>1, <2>5, <2>7, <2>9, <2>10, <2>11
<1>6. CASE f.kind = "skip"
  <2>1. PICK n \in Nat : n = f.n
    BY DEF HoldsValue
  <2>2. Encoded(f, set) = Zeros(n) /\ o = skip_bits(r, n)
    BY <1>6, <2>1 DEF Encoded, ReadField
  <2>3. n <= available_bits(r)
    <3>1. n > available_bits(r) => ~o.ok
      BY <2>2 DEF skip_bits, Failed
    <3>. QED
      BY <1>1, <1>2, <3>1
  <2>4. o = Got(r, n, 0)
    BY <1>1, <1>2, <2>2, <2>3 DEF skip_bits
  <2>5. Leaves(r, o, p + n)
    BY <1>1, <2>3, <2>4, GotIs
  <2>6. ReadsAt(o.reader, w, p + n, l) /\ o.reader.data = r.data
    BY <2>5, NextReads
  <2>. QED
    BY <1>6, <2>2, <2>6, ZerosBits
<1>. QED
  BY <1>3, <1>4, <1>5, <1>6 DEF HoldsValue

------------------------------------------------------------------------------
(* H.265: the bits that arrive are a beginning of those written. *)

\* data is the whole bytes of the bits w.
WholeBytes(data, w) ==
  /\ data \in Seq(Octets)
  /\ \A i \in 1 .. Len(data) :
       /\ Len(data[i]) = ByteBits /\ i * ByteBits <= Len(w)
       /\ \A j \in 1 .. ByteBits : data[i][j] = w[(i - 1) * ByteBits + j]

LEMMA BytesAre ==
  ASSUME NEW w \in Seq(Bit)
  PROVE  WholeBytes(Bytes(w), w)
<1>1. PICK B \in Nat \ {0} : B = ByteBits
  BY WidthAssumption
<1>2. PICK n \in Nat, m \in Nat : n = Len(w) /\ m = n \div B /\ m * B <= n
  <2>1. PICK n \in Nat : n = Len(w)
    OBVIOUS
  <2>2. PICK m \in Nat, s \in 0 .. B - 1 : m = n \div B /\ n = B * m + s
    BY DivNat
  <2>3. PICK y \in Int : y = B * m
    OBVIOUS
  <2>4. m * B = y /\ n = y + s
    BY <2>2, <2>3
  <2>5. m * B <= n
    BY <2>4
  <2>. QED
    BY <2>1, <2>2, <2>5
<1>3. PICK data : data = Bytes(w) /\ data = [i \in 1 .. m |-> SubSeq(w, (i - 1) * B + 1, i * B)]
  BY <1>1, <1>2 DEF Bytes
<1>4. ASSUME NEW i \in 1 .. m
      PROVE  /\ data[i] \in Octets /\ Len(data[i]) = B /\ i * B <= n
             /\ \A j \in 1 .. B : data[i][j] = w[(i - 1) * B + j]
  <2>1. PICK a \in Nat, z \in Nat : a = (i - 1) * B /\ z = i * B /\ z = a + B /\ z <= n
    <3>1. (i - 1) * B = B * (i - 1) /\ i * B = B * i /\ m * B = B * m
      BY <1>2
    <3>2. B * (i - 1) = B * i - B * 1
      BY Distribute
    <3>3. PICK k \in Nat : k = m - i
      BY ONLY m \in Nat, i \in 1 .. m
    <3>4. B * (m - i) = B * m - B * i
      BY <1>2, Distribute
    <3>5. B * k \in Nat
      OBVIOUS
    <3>6. PICK x \in Int, y \in Int : x = B * i /\ y = B * m /\ y - x >= 0 /\ y <= n
      BY <1>2, <3>1, <3>3, <3>4, <3>5
    <3>7. B * (i - 1) \in Nat
      <4>1. i - 1 \in Nat
        OBVIOUS
      <4>. QED
        BY <4>1
    <3>8. PICK a \in Nat : a = B * (i - 1) /\ a = x - B
      BY <3>2, <3>6, <3>7
    <3>. QED
      BY <3>1, <3>6, <3>8
  <2>2. data[i] = SubSeq(w, a + 1, z)
    BY <1>3, <2>1
  <2>3. Ends(w, a, B, a + 1, z) /\ a + 1 \in Nat
    BY <1>2, <2>1 DEF Ends
  <2>4. Lies(SubSeq(w, a + 1, z), w, a, B)
    BY <2>1, <2>3, Between
  <2>5. data[i] \in Seq(Bit) /\ Len(data[i]) = B /\ \A j \in 1 .. B : data[i][j] = w[a + j]
    BY <2>2, <2>4 DEF Lies
  <2>. QED
    BY <2>1, <2>5 DEF Octets
<1>5. data \in Seq(Octets) /\ Len(data) = m
  <2>1. data \in [1 .. m -> Octets]
    BY <1>3, <1>4
  <2>2. Len(data) = m
    BY <1>2, <1>3
  <2>. QED
    BY ONLY <2>1, <2>2, m \in Nat
<1>6. WholeBytes(data, w)
  BY <1>1, <1>2, <1>4, <1>5 DEF WholeBytes
<1>. QED
  BY <1>3, <1>6

LEMMA FlatPrefix ==
  ASSUME NEW w \in Seq(Bit), NEW data, WholeBytes(data, w),
         NEW k \in 0 .. Len(data), NEW x, PrefixOf(x, data, k, Octets)
  PROVE  \E l \in Nat : l <= Len(w) /\ l % ByteBits = 0 /\ PrefixOf(FlattenSeq(x), w, l, Bit)
<1>1. PICK B \in Nat \ {0} : B = ByteBits
  BY WidthAssumption
<1>2. k \in Nat /\ x \in Seq(Octets) /\ Len(x) = k /\ \A i \in 1 .. k : x[i] = data[i]
  BY DEF PrefixOf, WholeBytes
<1>3. CASE k = 0
  <2>1. x = <<>>
    BY <1>2, <1>3
  <2>2. FlattenSeq(<<>>) = <<>>
    BY DEF FlattenSeq
  <2>3. PICK y \in Seq(Bit) : y = <<>> /\ Len(y) = 0
    <3>1. <<>> \in Seq(Bit) /\ Len(<<>>) = 0
      OBVIOUS
    <3>. QED
      BY <3>1
  <2>4. PrefixOf(FlattenSeq(x), w, 0, Bit)
    <3>1. PrefixOf(y, w, 0, Bit)
      BY <2>3 DEF PrefixOf
    <3>2. FlattenSeq(x) = y
      BY <2>1, <2>2, <2>3, Zenon
    <3>. QED
      BY <3>1, <3>2
  <2>5. PICK z \in Nat : z = 0 /\ z <= Len(w) /\ z % B = 0
    <3>1. 0 % B = 0 /\ 0 <= Len(w)
      OBVIOUS
    <3>. QED
      BY <3>1
  <2>. QED
    BY <1>1, <2>4, <2>5
<1>4. CASE k # 0
  <2>1. k \in Nat \ {0} /\ x \in [1 .. k -> Seq(Bit)]
    BY <1>2, <1>4 DEF Octets
  <2>2. PICK d : d = FlattenSeq(x)
    OBVIOUS
  <2>3. PICK e : d \in Seq(Bit) /\ Tiles(d, x, k, e)
    BY <2>1, <2>2, Flattened
  <2>4. /\ e \in [0 .. k -> Nat] /\ e[0] = 0 /\ e[k] = Len(d)
        /\ \A j \in 1 .. k : e[j] = e[j - 1] + Len(x[j])
        /\ \A j \in 1 .. k : \A t \in 1 .. Len(x[j]) : d[e[j - 1] + t] = x[j][t]
    BY <2>3 DEF Tiles
  <2>5. ASSUME NEW j \in 1 .. k
        PROVE  /\ Len(x[j]) = B /\ j * B <= Len(w)
               /\ \A t \in 1 .. B : x[j][t] = w[(j - 1) * B + t]
    <3>1. j \in 1 .. Len(data) /\ x[j] = data[j]
      BY <1>2
    <3>2. /\ Len(data[j]) = B /\ j * B <= Len(w)
          /\ \A t \in 1 .. B : data[j][t] = w[(j - 1) * B + t]
      <4>1. /\ Len(data[j]) = ByteBits /\ j * ByteBits <= Len(w)
            /\ \A t \in 1 .. ByteBits : data[j][t] = w[(j - 1) * ByteBits + t]
        BY <3>1, Zenon DEF WholeBytes
      <4>. QED
        BY <1>1, <4>1, Zenon
    <3>. QED
      BY <3>1, <3>2, Zenon
  <2>6. ASSUME NEW i \in 0 .. k PROVE e[i] = i * B
    <3>. SUFFICES ASSUME e[i] # i * B PROVE FALSE
      OBVIOUS
    <3>. DEFINE S == {j \in Nat : j <= k /\ e[j] # j * B}
    <3>1. S \subseteq Nat /\ S # {}
      <4>1. i \in S
        BY <1>2
      <4>. QED
        BY <4>1
    <3>2. PICK j \in S : \A h \in S : j <= h
      <4>. HIDE DEF S
      <4>. QED
        BY <3>1, Least
    <3>3. j \in Nat /\ j <= k /\ e[j] # j * B
      BY <3>2
    <3>4. j # 0
      <4>1. 0 * B = 0
        OBVIOUS
      <4>. QED
        BY <2>4, <3>3, <4>1
    <3>5. j - 1 \in Nat /\ j - 1 <= k /\ ~(j <= j - 1) /\ j \in 1 .. k
      BY <1>2, <3>3, <3>4
    <3>6. e[j - 1] = (j - 1) * B
      BY <3>2, <3>5
    <3>7. e[j] = e[j - 1] + B
      BY <2>4, <2>5, <3>5
    <3>8. (j - 1) * B + B = j * B
      BY ONLY <3>3, B \in Nat
    <3>. QED
      BY <3>3, <3>6, <3>7, <3>8
  <2>7. PICK l \in Nat : l = k * B /\ Len(d) = l /\ l <= Len(w)
    <3>1. k \in 1 .. k /\ k \in 0 .. k
      BY <1>2, <1>4
    <3>2. k * B <= Len(w) /\ e[k] = k * B
      BY <2>5, <2>6, <3>1
    <3>3. k * B \in Nat
      BY <1>2
    <3>. QED
      BY <2>4, <3>2, <3>3
  <2>8. ASSUME NEW i \in 1 .. l PROVE d[i] = w[i]
    <3>1. PICK q \in Nat, t \in 1 .. B : i = q * B + t /\ q + 1 \in 1 .. k
      <4>1. i - 1 \in Nat
        OBVIOUS
      <4>2. PICK q \in Nat, s \in 0 .. B - 1 : i - 1 = B * q + s
        BY <4>1, DivNat
      <4>3. B * q = q * B
        OBVIOUS
      <4>4. PICK t \in 1 .. B : t = s + 1 /\ i = q * B + t
        BY <4>2, <4>3
      <4>5. q < k
        <5>. SUFFICES ASSUME q >= k PROVE FALSE
          BY <1>2
        <5>1. PICK h \in Nat : h = q - k
          BY <1>2
        <5>2. B * (q - k) = B * q - B * k
          BY <1>2, Distribute
        <5>3. B * h \in Nat
          OBVIOUS
        <5>4. B * k = l
          BY <1>2, <2>7
        <5>5. B * q >= l
          BY <5>1, <5>2, <5>3, <5>4
        <5>. QED
          BY <4>2, <5>5
      <4>6. q + 1 \in 1 .. k
        BY ONLY <4>5, q \in Nat, k \in Nat
      <4>. QED
        BY <4>4, <4>6
    <3>2. PICK j \in 1 .. k : j = q + 1 /\ j - 1 = q /\ j - 1 \in 0 .. k
      BY <3>1
    <3>3. e[j - 1] = (j - 1) * B
      BY <2>6, <3>2
    <3>4. e[j - 1] = q * B
      BY <3>2, <3>3
    <3>5. d[e[j - 1] + t] = x[j][t]
      BY <2>4, <2>5, <3>1
    <3>6. x[j][t] = w[(j - 1) * B + t]
      BY <2>5, <3>1
    <3>7. x[j][t] = w[q * B + t]
      BY <3>2, <3>6
    <3>. QED
      BY <3>1, <3>4, <3>5, <3>7
  <2>9. l % B = 0
    <3>1. PICK y \in Int, q \in Int, s \in 0 .. B - 1 : y = l /\ q = k /\ s = 0 /\ y = B * q + s
      <4>1. l = B * k + 0 /\ 0 \in 0 .. B - 1
        BY <1>2, <2>7
      <4>2. PICK s \in 0 .. B - 1 : s = 0
        OBVIOUS
      <4>. QED
        BY <1>2, <4>1, <4>2
    <3>2. y % B = s
      BY ONLY <3>1, ModUnique, B \in Nat \ {0}, y \in Int, q \in Int, s \in 0 .. B - 1
    <3>. QED
      BY <3>1, <3>2
  <2>10. PrefixOf(d, w, l, Bit)
    BY <2>3, <2>7, <2>8 DEF PrefixOf
  <2>. QED
    BY <1>1, <2>2, <2>7, <2>9, <2>10
<1>. QED
  BY <1>3, <1>4

LEMMA PaddedBegins ==
  ASSUME NEW bits \in Seq(Bit)
  PROVE  Padded(bits) \in Seq(Bit) /\ CodeAt(Padded(bits), 0, bits)
<1>1. PICK B \in Nat \ {0} : B = ByteBits
  BY WidthAssumption
<1>2. PICK n \in Nat : n = Len(bits) + 1
  OBVIOUS
<1>3. PICK k \in Nat : k = (B - (n % B)) % B
  <2>1. PICK s \in 0 .. B - 1 : s = n % B
    BY <1>1, <1>2, ModDef
  <2>2. PICK a \in Int : a = B - s
    OBVIOUS
  <2>3. a % B \in 0 .. B - 1
    BY ModDef
  <2>4. a % B \in Nat
    BY <2>3
  <2>. QED
    BY <2>1, <2>2, <2>4
<1>4. PICK z \in Seq(Bit) : z = Zeros(k)
  BY ZerosBits
<1>5. PICK y \in Seq(Bit) : y = <<1>>
  <2>1. <<1>> \in Seq(Bit)
    BY DEF Bit
  <2>. QED
    BY <2>1
<1>6. PICK x \in Seq(Bit) : x = bits \o y /\ Joint(x, bits, y, Bit)
  <2>1. Joint(bits \o y, bits, y, Bit)
    BY JointIs
  <2>. QED
    BY <2>1 DEF Joint
<1>7. PICK v \in Seq(Bit) : v = x \o z /\ Joint(v, x, z, Bit)
  <2>1. Joint(x \o z, x, z, Bit)
    BY JointIs
  <2>. QED
    BY <2>1 DEF Joint
<1>8. Padded(bits) = v
  BY <1>1, <1>2, <1>3, <1>4, <1>5, <1>6, <1>7 DEF Padded
<1>9. ASSUME NEW i \in 1 .. Len(bits) PROVE v[0 + i] = bits[i]
  <2>1. i \in 1 .. Len(x) /\ x[i] = bits[i]
    BY <1>6 DEF Joint
  <2>2. v[i] = x[i]
    BY <1>7, <2>1 DEF Joint
  <2>. QED
    BY <2>1, <2>2
<1>. QED
  BY <1>8, <1>9 DEF CodeAt

\* Whatever is cut from the end of a unit.
LEMMA ReceivedBegins ==
  ASSUME NEW u, u.cut \in Nat, NEW w \in Seq(Bit), w = WriteSet(u.type, u.set)
  PROVE  \E l \in Nat : l <= Len(w) /\ l % ByteBits = 0 /\ PrefixOf(FlattenSeq(Received(u)), w, l, Bit)
<1>1. PICK data : data = Bytes(w) /\ WholeBytes(data, w)
  BY BytesAre
<1>2. data \in Seq(Octets)
  BY <1>1 DEF WholeBytes
<1>3. PICK out : out = Escape(data)
  OBVIOUS
<1>4. out \in Seq(Octets)
  <2>1. PICK e : Puts(out, data, Len(data), e)
    <3>1. Len(data) \in Nat
      BY <1>2
    <3>. QED
      BY <1>2, <1>3, <3>1, EscapeLays
  <2>. QED
    BY <2>1 DEF Puts
<1>5. PICK m \in Int : m = Len(out) - u.cut
  BY <1>4
<1>6. PICK b : b = SubSeq(out, 1, m)
  OBVIOUS
<1>7. \E l \in Nat : l <= Len(out) /\ PrefixOf(b, out, l, Octets)
  <2>1. CASE m >= 1
    <3>1. m <= Len(out) /\ m \in Nat
      BY <1>4, <1>5, <2>1
    <3>2. b = [i \in 1 .. m |-> out[i]]
      BY <1>4, <1>6, <2>1, <3>1
    <3>3. \A i \in 1 .. m : out[i] \in Octets
      BY <1>4, <3>1
    <3>4. b \in [1 .. m -> Octets]
      BY <3>2, <3>3
    <3>5. Len(b) = m
      BY <3>1, <3>2
    <3>6. b \in Seq(Octets)
      BY ONLY <3>1, <3>4
    <3>7. PrefixOf(b, out, m, Octets)
      BY <3>2, <3>5, <3>6 DEF PrefixOf
    <3>. QED
      BY <3>1, <3>7
  <2>2. CASE ~(m >= 1)
    <3>1. b = <<>>
      BY <1>4, <1>6, <2>2
    <3>2. <<>> \in Seq(Octets) /\ Len(<<>>) = 0
      OBVIOUS
    <3>3. PrefixOf(b, out, 0, Octets)
      BY <3>1, <3>2 DEF PrefixOf
    <3>4. 0 <= Len(out) /\ 0 \in Nat
      BY <1>4
    <3>. QED
      BY <3>3, <3>4
  <2>. QED
    BY <2>1, <2>2
<1>8. PICK x : x = remove_emulation_prevention(b) /\ \E k \in 0 .. Len(data) : PrefixOf(x, data, k, Octets)
  <2>1. PICK l \in Nat : l <= Len(out) /\ PrefixOf(b, out, l, Octets)
    BY <1>7
  <2>2. \E k \in 0 .. Len(data) : PrefixOf(remove_emulation_prevention(b), data, k, Octets)
    BY <1>2, <1>3, <2>1, UnescapeBack
  <2>. QED
    BY <2>2
<1>9. Received(u) = x
  BY <1>1, <1>3, <1>5, <1>6, <1>8 DEF Received
<1>. QED
  BY <1>1, <1>8, <1>9, FlatPrefix

------------------------------------------------------------------------------
(* H.265: the fields of a syntax, read one after another. *)

ParseBase(bits) == [ok |-> TRUE, reader |-> Reader(bits), set |-> None]

\* f[i] is what the first i fields of the syntax make.
Parsing(f, syntax, bits, n) ==
  /\ f = [i \in 0 .. n |-> f[i]] /\ f[0] = ParseBase(bits)
  /\ \A i \in 1 .. n : f[i] = Step(f[i - 1], syntax[i])

LEMMA ParsingIs ==
  ASSUME NEW syntax, NEW bits, NEW n \in Nat, n = Len(syntax)
  PROVE  \E f : Parsing(f, syntax, bits, n) /\ Parse(syntax, bits) = f[n]
<1>. DEFINE Up(k) == \E g : Parsing(g, syntax, bits, k)
<1>1. Up(0)
  <2>1. PICK g : g = [i \in 0 .. 0 |-> ParseBase(bits)]
    OBVIOUS
  <2>2. g = [i \in 0 .. 0 |-> g[i]] /\ g[0] = ParseBase(bits)
    BY <2>1
  <2>3. Parsing(g, syntax, bits, 0)
    BY <2>2 DEF Parsing
  <2>. QED
    BY <2>3
<1>2. ASSUME NEW k \in Nat, Up(k) PROVE Up(k + 1)
  <2>1. PICK g : Parsing(g, syntax, bits, k)
    BY <1>2
  <2>2. PICK h : h = [i \in 0 .. k + 1 |-> IF i = k + 1 THEN Step(g[k], syntax[k + 1]) ELSE g[i]]
    OBVIOUS
  <2>3. h = [i \in 0 .. k + 1 |-> h[i]] /\ h[0] = ParseBase(bits) /\ h[k + 1] = Step(g[k], syntax[k + 1])
    BY <2>1, <2>2 DEF Parsing
  <2>4. \A i \in 0 .. k : h[i] = g[i]
    BY <2>2
  <2>5. ASSUME NEW i \in 1 .. k + 1 PROVE h[i] = Step(h[i - 1], syntax[i])
    <3>1. CASE i = k + 1
      <4>1. i - 1 = k /\ k \in 0 .. k
        BY <3>1
      <4>2. h[i - 1] = g[k]
        BY <2>4, <4>1
      <4>. QED
        BY <2>3, <3>1, <4>2
    <3>2. CASE i # k + 1
      <4>1. i \in 1 .. k /\ i \in 0 .. k /\ i - 1 \in 0 .. k
        BY <3>2
      <4>2. g[i] = Step(g[i - 1], syntax[i])
        BY <2>1, <4>1 DEF Parsing
      <4>. QED
        BY <2>4, <4>1, <4>2
    <3>. QED
      BY <3>1, <3>2
  <2>6. Parsing(h, syntax, bits, k + 1)
    BY <2>3, <2>5 DEF Parsing
  <2>. QED
    BY <2>6
<1>3. Up(n)
  <2>. SUFFICES ASSUME ~Up(n) PROVE FALSE
    OBVIOUS
  <2>. DEFINE S == {k \in Nat : ~Up(k)}
  <2>1. S \subseteq Nat /\ S # {}
    <3>. HIDE DEF Up
    <3>. QED
      OBVIOUS
  <2>2. PICK k \in S : \A j \in S : k <= j
    <3>. HIDE DEF S
    <3>. QED
      BY <2>1, Least
  <2>. HIDE DEF Up
  <2>3. k \in Nat /\ ~Up(k) /\ k # 0
    BY <1>1, <2>2
  <2>4. k - 1 \in Nat /\ ~(k <= k - 1) /\ k - 1 + 1 = k
    BY <2>3
  <2>5. Up(k - 1)
    BY <2>2, <2>4
  <2>. QED
    BY <1>2, <2>3, <2>4, <2>5
<1>. DEFINE F(h) == [i \in 0 .. Len(syntax) |-> IF i = 0 THEN ParseBase(bits) ELSE Step(h[i - 1], syntax[i])]
<1>4. PICK g : Parsing(g, syntax, bits, n)
  BY <1>3
<1>5. g = F(g)
  <2>1. \A i \in 0 .. n : g[i] = IF i = 0 THEN ParseBase(bits) ELSE Step(g[i - 1], syntax[i])
    BY <1>4 DEF Parsing
  <2>2. g = [i \in 0 .. n |-> g[i]]
    BY <1>4 DEF Parsing
  <2>. QED
    BY <2>1, <2>2
<1>6. PICK f : f = CHOOSE h : h = F(h)
  OBVIOUS
<1>7. f = F(f)
  BY <1>5, <1>6
<1>8. Parse(syntax, bits) = f[n]
  BY <1>6 DEF Parse, ParseBase
<1>9. \A i \in 0 .. n : f[i] = IF i = 0 THEN ParseBase(bits) ELSE Step(f[i - 1], syntax[i])
  BY <1>7, Zenon
<1>10. f = [i \in 0 .. n |-> f[i]]
  BY <1>7
<1>11. Parsing(f, syntax, bits, n)
  <2>1. 0 \in 0 .. n /\ \A i \in 1 .. n : i \in 0 .. n /\ i # 0
    OBVIOUS
  <2>. QED
    BY <1>9, <1>10, <2>1 DEF Parsing
<1>. QED
  BY <1>8, <1>11

Plain(f) == f.on = "always" /\ f.kind # "skip"

\* A field that depends on one before it depends on one that is always there.
Depends(syntax, i) ==
  \/ syntax[i].on = "always"
  \/ \E j \in 1 .. i - 1 : Plain(syntax[j]) /\ syntax[j].name = syntax[i].on

PartOf(some, set) == \A name \in DOMAIN some : some[name] = set[name]

\* Of a set whose code lies in w, all has been read up to q, by the first i of
\* the fields.
Reached(acc, w, q, l, set, syntax, i) ==
  acc.ok => /\ ReadsAt(acc.reader, w, q, l) /\ PartOf(acc.set, set)
            /\ \A j \in 1 .. i : Plain(syntax[j]) => syntax[j].name \in DOMAIN acc.set

CodeIn(set, f) == IF Present(set, f) THEN Encoded(f, set) ELSE <<>>

LEMMA WithIs ==
  ASSUME NEW some, NEW set, PartOf(some, set), NEW name
  PROVE  /\ PartOf(With(some, name, set[name]), set)
         /\ DOMAIN With(some, name, set[name]) = DOMAIN some \cup {name}
BY DEF With, PartOf

LEMMA StepReached ==
  ASSUME NEW acc, NEW w, NEW q, NEW l, NEW set, NEW syntax, NEW i \in Nat \ {0},
         Reached(acc, w, q, l, set, syntax, i - 1),
         HoldsValue(syntax[i], set[syntax[i].name]), Depends(syntax, i),
         CodeAt(w, q, CodeIn(set, syntax[i])), NEW z, z = q + Len(CodeIn(set, syntax[i]))
  PROVE  Reached(Step(acc, syntax[i]), w, z, l, set, syntax, i)
<1>. DEFINE f == syntax[i]
            c == CodeIn(set, syntax[i])
            next == Step(acc, syntax[i])
<1>1. CASE ~acc.ok
  <2>1. next = acc
    BY <1>1 DEF Step
  <2>. QED
    BY <1>1, <2>1 DEF Reached
<1>2. CASE acc.ok
  <2>1. /\ ReadsAt(acc.reader, w, q, l) /\ PartOf(acc.set, set)
        /\ \A j \in 1 .. i - 1 : Plain(syntax[j]) => syntax[j].name \in DOMAIN acc.set
    BY <1>2 DEF Reached
  <2>2. Present(acc.set, f) <=> Present(set, f)
    <3>1. CASE f.on = "always"
      BY <3>1 DEF Present
    <3>2. CASE f.on # "always"
      <4>1. f.on \in DOMAIN acc.set
        BY <2>1, <3>2 DEF Depends
      <4>2. acc.set[f.on] = set[f.on]
        BY <2>1, <4>1 DEF PartOf
      <4>. QED
        BY <4>2 DEF Present
    <3>. QED
      BY <3>1, <3>2
  <2>3. CASE ~Present(set, f)
    <3>1. next = acc
      BY <2>2, <2>3 DEF Step
    <3>2. q \in Nat
      BY <2>1 DEF ReadsAt
    <3>3. z = q
      BY <2>3, <3>2 DEF CodeIn
    <3>4. ~Plain(f)
      BY <2>3 DEF Present, Plain
    <3>5. \A j \in 1 .. i : j \in 1 .. i - 1 \/ j = i
      OBVIOUS
    <3>. QED
      BY <2>1, <3>1, <3>3, <3>4, <3>5 DEF Reached
  <2>4. CASE Present(set, f)
    <3>1. PICK o : o = ReadField(acc.reader, f)
      OBVIOUS
    <3>2. next = [ok |-> o.ok, reader |-> o.reader,
                  set |-> IF f.kind = "skip" THEN acc.set ELSE With(acc.set, f.name, o.value)]
      BY <1>2, <2>2, <2>4, <3>1 DEF Step
    <3>3. c = Encoded(f, set)
      BY <2>4 DEF CodeIn
    <3>4. CASE ~o.ok
      BY <3>2, <3>4 DEF Reached
    <3>5. CASE o.ok
      <4>1. CodeAt(w, q, Encoded(f, set))
        BY <3>3
      <4>2. /\ ReadsAt(o.reader, w, q + Len(Encoded(f, set)), l)
            /\ f.kind # "skip" => o.value = set[f.name]
        BY <2>1, <3>1, <3>5, <4>1, FieldReadBack
      <4>3. ReadsAt(o.reader, w, z, l)
        BY <3>3, <4>2
      <4>4. PICK s : /\ s = IF f.kind = "skip" THEN acc.set ELSE With(acc.set, f.name, o.value)
                     /\ next.set = s /\ next.reader = o.reader
        <5>1. PICK s : s = IF f.kind = "skip" THEN acc.set ELSE With(acc.set, f.name, o.value)
          OBVIOUS
        <5>2. next = [ok |-> o.ok, reader |-> o.reader, set |-> s]
          BY <3>2, <5>1, Zenon
        <5>3. next.set = s /\ next.reader = o.reader
          BY <5>2
        <5>. QED
          BY <5>1, <5>3
      <4>5. PartOf(s, set) /\ DOMAIN acc.set \subseteq DOMAIN s /\ (Plain(f) => f.name \in DOMAIN s)
        <5>1. CASE f.kind = "skip"
          BY <2>1, <4>4, <5>1 DEF Plain
        <5>2. CASE f.kind # "skip"
          <6>1. s = With(acc.set, f.name, set[f.name])
            BY <4>2, <4>4, <5>2
          <6>2. PartOf(s, set) /\ DOMAIN s = DOMAIN acc.set \cup {f.name}
            BY <2>1, <6>1, WithIs
          <6>. QED
            BY <6>2
        <5>. QED
          BY <5>1, <5>2
      <4>6. \A j \in 1 .. i : Plain(syntax[j]) => syntax[j].name \in DOMAIN s
        <5>1. \A j \in 1 .. i : j \in 1 .. i - 1 \/ j = i
          OBVIOUS
        <5>. QED
          BY <2>1, <4>5, <5>1
      <4>. QED
        BY <4>3, <4>4, <4>5, <4>6 DEF Reached
    <3>. QED
      BY <3>4, <3>5
  <2>. QED
    BY <2>3, <2>4
<1>. QED
  BY <1>1, <1>2

\* What has been read stays.
Later(acc, old) ==
  acc.ok => /\ old.ok /\ DOMAIN old.set \subseteq DOMAIN acc.set
            /\ \A name \in DOMAIN old.set : acc.set[name] = old.set[name]

LEMMA StepLater ==
  ASSUME NEW acc, NEW old, Later(acc, old), NEW f
  PROVE  Later(Step(acc, f), old)
<1>1. CASE ~acc.ok \/ ~Present(acc.set, f)
  <2>1. Step(acc, f) = acc
    BY <1>1 DEF Step
  <2>. QED
    BY <2>1
<1>2. CASE acc.ok /\ Present(acc.set, f)
  <2>1. PICK o : o = ReadField(acc.reader, f)
    OBVIOUS
  <2>2. Step(acc, f) = [ok |-> o.ok, reader |-> o.reader,
                        set |-> IF f.kind = "skip" THEN acc.set ELSE With(acc.set, f.name, o.value)]
    BY <1>2, <2>1 DEF Step
  <2>3. PICK s : s = Step(acc, f).set
    OBVIOUS
  <2>4. DOMAIN acc.set \subseteq DOMAIN s /\ \A name \in DOMAIN acc.set : s[name] = acc.set[name]
    <3>1. CASE f.kind = "skip"
      BY <2>2, <2>3, <3>1
    <3>2. CASE f.kind # "skip"
      <4>1. s = With(acc.set, f.name, o.value)
        BY <2>2, <2>3, <3>2
      <4>. QED
        BY <4>1 DEF With
    <3>. QED
      BY <3>1, <3>2
  <2>. QED
    BY <1>2, <2>3, <2>4 DEF Later
<1>. QED
  BY <1>1, <1>2

\* The syntax from one of its places on.
Sound(syntax, n, set) ==
  \A i \in 1 .. n : HoldsValue(syntax[i], set[syntax[i].name]) /\ Depends(syntax, i)

\* The code of a set, as it lies in w from p on, ending at z.
Laid(w, p, z, syntax, n, set) ==
  \E e \in [0 .. n -> Nat] :
    /\ e[0] = p /\ e[n] = z
    /\ \A i \in 1 .. n : /\ e[i] = e[i - 1] + Len(CodeIn(set, syntax[i]))
                         /\ CodeAt(w, e[i - 1], CodeIn(set, syntax[i]))

Stepping(g, syntax, n) == \A i \in 1 .. n : g[i] = Step(g[i - 1], syntax[i])

LEMMA Segment ==
  ASSUME NEW n \in Nat, NEW syntax, NEW g, Stepping(g, syntax, n),
         NEW w, NEW l, NEW set, Sound(syntax, n, set),
         NEW p, NEW z, Laid(w, p, z, syntax, n, set), Reached(g[0], w, p, l, set, syntax, 0)
  PROVE  Reached(g[n], w, z, l, set, syntax, n)
<1>1. PICK e \in [0 .. n -> Nat] :
        /\ e[0] = p /\ e[n] = z
        /\ \A i \in 1 .. n : /\ e[i] = e[i - 1] + Len(CodeIn(set, syntax[i]))
                             /\ CodeAt(w, e[i - 1], CodeIn(set, syntax[i]))
  BY DEF Laid
<1>. DEFINE Up(i) == Reached(g[i], w, e[i], l, set, syntax, i)
<1>2. Up(0)
  BY <1>1
<1>3. ASSUME NEW i \in 1 .. n, Up(i - 1) PROVE Up(i)
  <2>1. /\ e[i] = e[i - 1] + Len(CodeIn(set, syntax[i]))
        /\ CodeAt(w, e[i - 1], CodeIn(set, syntax[i]))
    BY <1>1
  <2>2. HoldsValue(syntax[i], set[syntax[i].name]) /\ Depends(syntax, i)
    BY DEF Sound
  <2>3. g[i] = Step(g[i - 1], syntax[i])
    BY DEF Stepping
  <2>4. i \in Nat \ {0}
    OBVIOUS
  <2>5. Reached(Step(g[i - 1], syntax[i]), w, e[i], l, set, syntax, i)
    BY <1>3, <2>1, <2>2, <2>4, StepReached
  <2>. QED
    BY <2>3, <2>5
<1>4. Up(n)
  <2>. SUFFICES ASSUME ~Up(n) PROVE FALSE
    OBVIOUS
  <2>. DEFINE S == {i \in Nat : i <= n /\ ~Up(i)}
  <2>1. S \subseteq Nat /\ S # {}
    <3>. HIDE DEF Up
    <3>. QED
      OBVIOUS
  <2>2. PICK i \in S : \A j \in S : i <= j
    <3>. HIDE DEF S
    <3>. QED
      BY <2>1, Least
  <2>. HIDE DEF Up
  <2>3. i \in Nat /\ i <= n /\ ~Up(i) /\ i # 0
    BY <1>2, <2>2
  <2>4. i - 1 \in Nat /\ ~(i <= i - 1) /\ i \in 1 .. n /\ i - 1 <= n
    BY <2>3
  <2>5. Up(i - 1)
    BY <2>2, <2>4
  <2>. QED
    BY <1>3, <2>3, <2>4, <2>5
<1>. QED
  BY <1>1, <1>4

LEMMA SegmentLater ==
  ASSUME NEW n \in Nat, NEW syntax, NEW g, Stepping(g, syntax, n)
  PROVE  Later(g[n], g[0])
<1>. DEFINE Up(i) == Later(g[i], g[0])
<1>1. Up(0)
  BY DEF Later
<1>2. ASSUME NEW i \in 1 .. n, Up(i - 1) PROVE Up(i)
  <2>1. g[i] = Step(g[i - 1], syntax[i])
    BY DEF Stepping
  <2>2. Later(Step(g[i - 1], syntax[i]), g[0])
    BY <1>2, StepLater
  <2>. QED
    BY <2>1, <2>2
<1>3. Up(n)
  <2>. SUFFICES ASSUME ~Up(n) PROVE FALSE
    OBVIOUS
  <2>. DEFINE S == {i \in Nat : i <= n /\ ~Up(i)}
  <2>1. S \subseteq Nat /\ S # {}
    <3>. HIDE DEF Up
    <3>. QED
      OBVIOUS
  <2>2. PICK i \in S : \A j \in S : i <= j
    <3>. HIDE DEF S
    <3>. QED
      BY <2>1, Least
  <2>. HIDE DEF Up
  <2>3. i \in Nat /\ i <= n /\ ~Up(i) /\ i # 0
    BY <1>1, <2>2
  <2>4. i - 1 \in Nat /\ ~(i <= i - 1) /\ i \in 1 .. n /\ i - 1 <= n
    BY <2>3
  <2>5. Up(i - 1)
    BY <2>2, <2>4
  <2>. QED
    BY <1>2, <2>3, <2>4, <2>5
<1>. QED
  BY <1>3

------------------------------------------------------------------------------
(* H.265: the fields of the syntaxes, by name, and the values they hold. *)

GolombNames ==
  {"sps_id", "chroma_format_idc", "pic_width_in_luma_samples", "pic_height_in_luma_samples",
   "conf_win_left_offset", "conf_win_right_offset", "conf_win_top_offset", "conf_win_bottom_offset",
   "pps_id", "num_ref_idx_l0_default_active_minus1", "num_ref_idx_l1_default_active_minus1"}

\* The flags.
Flags ==
  {"tier_flag", "progressive_source_flag", "interlaced_source_flag", "non_packed_constraint_flag",
   "frame_only_constraint_flag", "base_layer_internal_flag", "base_layer_available_flag",
   "temporal_id_nesting_flag", "conformance_window_flag", "dependent_slice_segments_enabled_flag",
   "output_flag_present_flag", "sign_data_hiding_enabled_flag", "cabac_init_present_flag",
   "constrained_intra_pred_flag", "transform_skip_enabled_flag"}

WideNames ==
  {"profile_space", "profile_idc", "profile_compatibility_flags", "level_idc", "vps_id",
   "max_layers_minus1", "max_sub_layers_minus1", "num_extra_slice_header_bits"}

FieldNames == GolombNames \cup Flags \cup WideNames \cup {"init_qp_minus26", "reserved"}

KindOf(name) ==
  IF name = "init_qp_minus26" THEN "se" ELSE IF name \in GolombNames THEN "ue" ELSE "u"

WidthOf(name) ==
  IF KindOf(name) # "u" THEN 0
  ELSE IF name = "profile_compatibility_flags" THEN WordBits
  ELSE IF name = "level_idc" THEN 8
  ELSE IF name = "max_layers_minus1" THEN 6
  ELSE IF name = "profile_idc" THEN 5
  ELSE IF name = "vps_id" THEN 4
  ELSE IF name \in {"max_sub_layers_minus1", "num_extra_slice_header_bits"} THEN 3
  ELSE IF name = "profile_space" THEN 2
  ELSE 1

Records ==
  [kind : {"u", "ue", "se", "skip"}, name : FieldNames, n : Nat,
   on : {"always", "chroma_format_idc", "conformance_window_flag"}, is : Nat]

\* The name of a field says how it is coded.
CodedByName(f) ==
  f.kind # "skip" => f.kind = KindOf(f.name) /\ f.n = WidthOf(f.name)

Fields == {f \in Records : CodedByName(f)}

PlainFields == {f \in Fields : f.on = "always"}

LEMMA WordsAre == WordBits \in Nat
BY WidthAssumption

LEMMA UIs ==
  ASSUME NEW name \in FieldNames, NEW n \in Nat, KindOf(name) = "u", WidthOf(name) = n
  PROVE  U(name, n) \in PlainFields
BY DEF U, Field, PlainFields, Fields, Records, CodedByName

LEMMA UEIs ==
  ASSUME NEW name \in GolombNames
  PROVE  UE(name) \in PlainFields
<1>1. name \in FieldNames /\ KindOf(name) = "ue"
  BY DEF GolombNames, KindOf, FieldNames
<1>2. WidthOf(name) = 0
  BY <1>1 DEF WidthOf
<1>. QED
  BY <1>1, <1>2 DEF UE, Field, PlainFields, Fields, Records, CodedByName

LEMMA SEIs == SE("init_qp_minus26") \in PlainFields
<1>1. KindOf("init_qp_minus26") = "se"
  BY DEF KindOf
<1>2. WidthOf("init_qp_minus26") = 0
  BY <1>1 DEF WidthOf
<1>. QED
  BY <1>1, <1>2 DEF SE, Field, PlainFields, Fields, Records, CodedByName, FieldNames

LEMMA ReservedIs ==
  ASSUME NEW n \in Nat
  PROVE  Reserved(n) \in PlainFields
BY DEF Reserved, Field, PlainFields, Fields, Records, CodedByName, FieldNames

LEMMA FlagIs ==
  ASSUME NEW name \in Flags
  PROVE  U(name, 1) \in PlainFields
<1>1. name \in FieldNames /\ KindOf(name) = "u"
  BY DEF Flags, KindOf, GolombNames, FieldNames
<1>2. WidthOf(name) = 1
  BY <1>1 DEF WidthOf, Flags
<1>. QED
  BY <1>1, <1>2, UIs DEF WideNames

LEMMA WideIs ==
  /\ U("profile_space", 2) \in PlainFields /\ U("profile_idc", 5) \in PlainFields
  /\ U("profile_compatibility_flags", WordBits) \in PlainFields /\ U("level_idc", 8) \in PlainFields
  /\ U("vps_id", 4) \in PlainFields /\ U("max_layers_minus1", 6) \in PlainFields
  /\ U("max_sub_layers_minus1", 3) \in PlainFields
  /\ U("num_extra_slice_header_bits", 3) \in PlainFields
<1>1. \A name \in WideNames : name \in FieldNames /\ KindOf(name) = "u"
  BY DEF KindOf, GolombNames, WideNames, FieldNames
<1>2. /\ WidthOf("profile_space") = 2 /\ WidthOf("profile_idc") = 5
      /\ WidthOf("profile_compatibility_flags") = WordBits /\ WidthOf("level_idc") = 8
      /\ WidthOf("vps_id") = 4 /\ WidthOf("max_layers_minus1") = 6
      /\ WidthOf("max_sub_layers_minus1") = 3 /\ WidthOf("num_extra_slice_header_bits") = 3
  BY <1>1 DEF WidthOf, WideNames
<1>3. U("profile_space", 2) \in PlainFields /\ U("profile_idc", 5) \in PlainFields
  BY <1>1, <1>2, UIs DEF WideNames
<1>4. U("profile_compatibility_flags", WordBits) \in PlainFields
  BY <1>1, <1>2, UIs, WordsAre DEF WideNames
<1>5. U("level_idc", 8) \in PlainFields /\ U("vps_id", 4) \in PlainFields
  BY <1>1, <1>2, UIs DEF WideNames
<1>6. U("max_layers_minus1", 6) \in PlainFields /\ U("max_sub_layers_minus1", 3) \in PlainFields
  BY <1>1, <1>2, UIs DEF WideNames
<1>7. U("num_extra_slice_header_bits", 3) \in PlainFields
  BY <1>1, <1>2, UIs DEF WideNames
<1>. QED
  BY <1>3, <1>4, <1>5, <1>6, <1>7

LEMMA ProfileIs == ProfileTierLevel \in Seq(PlainFields)
<1>1. /\ U("tier_flag", 1) \in PlainFields /\ U("progressive_source_flag", 1) \in PlainFields
      /\ U("interlaced_source_flag", 1) \in PlainFields
      /\ U("non_packed_constraint_flag", 1) \in PlainFields
      /\ U("frame_only_constraint_flag", 1) \in PlainFields
  BY FlagIs DEF Flags
<1>2. Reserved(44) \in PlainFields
  BY ReservedIs
<1>. QED
  BY <1>1, <1>2, WideIs DEF ProfileTierLevel

LEMMA VPSIs == VPSSyntax \in Seq(PlainFields)
<1>1. PICK s : s = <<U("vps_id", 4), U("base_layer_internal_flag", 1), U("base_layer_available_flag", 1),
    U("max_layers_minus1", 6), U("max_sub_layers_minus1", 3),
    U("temporal_id_nesting_flag", 1), Reserved(16)>>
  OBVIOUS
<1>2. /\ U("base_layer_internal_flag", 1) \in PlainFields
      /\ U("base_layer_available_flag", 1) \in PlainFields
      /\ U("temporal_id_nesting_flag", 1) \in PlainFields
  BY FlagIs DEF Flags
<1>3. Reserved(16) \in PlainFields
  BY ReservedIs
<1>4. s \in Seq(PlainFields)
  BY <1>1, <1>2, <1>3, WideIs
<1>5. VPSSyntax = s \o ProfileTierLevel
  BY <1>1 DEF VPSSyntax
<1>. QED
  BY <1>4, <1>5, ProfileIs, ConcatProperties

LEMMA HeadIs ==
  /\ SPSHead \in Seq(PlainFields) /\ Len(SPSHead) \in Nat /\ Len(SPSHead) >= 3
  /\ SPSHead[2] = U("max_sub_layers_minus1", 3)
<1>1. PICK s : s = <<U("vps_id", 4), U("max_sub_layers_minus1", 3), U("temporal_id_nesting_flag", 1)>>
  OBVIOUS
<1>2. U("temporal_id_nesting_flag", 1) \in PlainFields
  BY FlagIs DEF Flags
<1>3. s \in Seq(PlainFields) /\ Len(s) = 3 /\ s[2] = U("max_sub_layers_minus1", 3)
  BY <1>1, <1>2, WideIs
<1>4. SPSHead = s \o ProfileTierLevel
  BY <1>1 DEF SPSHead
<1>5. Joint(SPSHead, s, ProfileTierLevel, PlainFields)
  BY <1>3, <1>4, ProfileIs, JointIs
<1>6. Len(ProfileTierLevel) \in Nat
  BY ProfileIs
<1>7. /\ SPSHead \in Seq(PlainFields) /\ Len(SPSHead) = 3 + Len(ProfileTierLevel)
      /\ \A i \in 1 .. 3 : SPSHead[i] = s[i]
  BY <1>3, <1>5 DEF Joint
<1>. QED
  BY <1>3, <1>6, <1>7

LEMMA PPSIs == PPSSyntax \in Seq(PlainFields)
<1>1. /\ U("dependent_slice_segments_enabled_flag", 1) \in PlainFields
      /\ U("output_flag_present_flag", 1) \in PlainFields
      /\ U("sign_data_hiding_enabled_flag", 1) \in PlainFields
      /\ U("cabac_init_present_flag", 1) \in PlainFields
      /\ U("constrained_intra_pred_flag", 1) \in PlainFields
      /\ U("transform_skip_enabled_flag", 1) \in PlainFields
  BY FlagIs DEF Flags
<1>2. /\ UE("pps_id") \in PlainFields /\ UE("sps_id") \in PlainFields
      /\ UE("num_ref_idx_l0_default_active_minus1") \in PlainFields
      /\ UE("num_ref_idx_l1_default_active_minus1") \in PlainFields
  BY UEIs DEF GolombNames
<1>. QED
  BY <1>1, <1>2, WideIs, SEIs DEF PPSSyntax

LEMMA WhenIs ==
  ASSUME NEW name \in {"chroma_format_idc", "conformance_window_flag"}, NEW v \in Nat, NEW f \in PlainFields
  PROVE  When(name, v, f) \in Fields /\ When(name, v, f).on = name
BY DEF When, PlainFields, Fields, Records, CodedByName

LEMMA TailIs ==
  SPSTail \in Seq(Fields) /\ Len(SPSTail) = 10 /\ \A i \in 1 .. 10 : Depends(SPSTail, i)
<1>1. PICK s : s = SPSTail
  OBVIOUS
<1>2. /\ UE("sps_id") \in PlainFields /\ UE("chroma_format_idc") \in PlainFields
      /\ UE("pic_width_in_luma_samples") \in PlainFields
      /\ UE("pic_height_in_luma_samples") \in PlainFields
      /\ UE("conf_win_left_offset") \in PlainFields /\ UE("conf_win_right_offset") \in PlainFields
      /\ UE("conf_win_top_offset") \in PlainFields /\ UE("conf_win_bottom_offset") \in PlainFields
  BY UEIs DEF GolombNames
<1>3. U("conformance_window_flag", 1) \in PlainFields /\ Reserved(1) \in PlainFields
  BY FlagIs, ReservedIs DEF Flags
<1>4. PICK a, b, c, d, e, f, g, h, i, j :
        /\ a = UE("sps_id") /\ b = UE("chroma_format_idc")
        /\ c = When("chroma_format_idc", 3, Reserved(1))
        /\ d = UE("pic_width_in_luma_samples") /\ e = UE("pic_height_in_luma_samples")
        /\ f = U("conformance_window_flag", 1)
        /\ g = Window(UE("conf_win_left_offset")) /\ h = Window(UE("conf_win_right_offset"))
        /\ i = Window(UE("conf_win_top_offset")) /\ j = Window(UE("conf_win_bottom_offset"))
  OBVIOUS
<1>5. s = <<a, b, c, d, e, f, g, h, i, j>>
  BY <1>1, <1>4 DEF SPSTail
<1>6. /\ a \in PlainFields /\ b \in PlainFields /\ d \in PlainFields /\ e \in PlainFields
      /\ f \in PlainFields
  BY <1>2, <1>3, <1>4
<1>7. c \in Fields /\ c.on = "chroma_format_idc"
  BY <1>3, <1>4, WhenIs
<1>8. /\ g \in Fields /\ g.on = "conformance_window_flag" /\ h \in Fields /\ h.on = "conformance_window_flag"
      /\ i \in Fields /\ i.on = "conformance_window_flag" /\ j \in Fields /\ j.on = "conformance_window_flag"
  BY <1>2, <1>4, WhenIs DEF Window
<1>9. /\ a \in Fields /\ b \in Fields /\ d \in Fields /\ e \in Fields /\ f \in Fields
      /\ a.on = "always" /\ b.on = "always" /\ d.on = "always" /\ e.on = "always" /\ f.on = "always"
  BY <1>6 DEF PlainFields
<1>10. s \in Seq(Fields) /\ Len(s) = 10
  BY <1>5, <1>7, <1>8, <1>9
<1>11. /\ s[1] = a /\ s[2] = b /\ s[3] = c /\ s[4] = d /\ s[5] = e
       /\ s[6] = f /\ s[7] = g /\ s[8] = h /\ s[9] = i /\ s[10] = j
  BY <1>5
<1>12. /\ Plain(s[2]) /\ s[2].name = "chroma_format_idc"
       /\ Plain(s[6]) /\ s[6].name = "conformance_window_flag"
  <2>1. b.kind = "ue" /\ b.name = "chroma_format_idc"
    BY <1>4 DEF UE, Field
  <2>2. f.kind = "u" /\ f.name = "conformance_window_flag"
    BY <1>4 DEF U, Field
  <2>. QED
    BY <1>9, <1>11, <2>1, <2>2 DEF Plain
<1>13. ASSUME NEW k \in 1 .. 10 PROVE Depends(s, k)
  <2>1. CASE k \in {1, 2, 4, 5, 6}
    <3>1. s[k].on = "always"
      BY <1>9, <1>11, <2>1
    <3>. QED
      BY <3>1 DEF Depends
  <2>2. CASE k = 3
    <3>1. s[k].on = "chroma_format_idc" /\ 2 \in 1 .. k - 1
      BY <1>7, <1>11, <2>2
    <3>. QED
      BY <1>12, <3>1 DEF Depends
  <2>3. CASE k \in {7, 8, 9, 10}
    <3>1. s[k].on = "conformance_window_flag" /\ 6 \in 1 .. k - 1
      BY <1>8, <1>11, <2>3
    <3>. QED
      BY <1>12, <3>1 DEF Depends
  <2>. QED
    BY <2>1, <2>2, <2>3
<1>. QED
  BY <1>1, <1>10, <1>13

LEMMA PlainDepends ==
  ASSUME NEW s \in Seq(PlainFields)
  PROVE  /\ s \in Seq(Fields)
         /\ \A i \in 1 .. Len(s) : Depends(s, i) /\ (s[i].kind # "skip" => Plain(s[i]))
<1>1. PlainFields \subseteq Fields
  BY DEF PlainFields
<1>2. s \in Seq(Fields)
  BY <1>1
<1>3. ASSUME NEW i \in 1 .. Len(s) PROVE s[i].on = "always"
  <2>1. s[i] \in PlainFields
    OBVIOUS
  <2>. QED
    BY <2>1 DEF PlainFields
<1>. QED
  BY <1>2, <1>3 DEF Depends, Plain

------------------------------------------------------------------------------
(* H.265: a set that is written and read. *)

\* What a set written holds.
LEMMA ValuesFit ==
  ASSUME NEW t \in SetTypes, NEW set \in Sets(t), NEW n \in Nat, NEW syntax \in Seq(Fields),
         syntax = Syntax(t), n = Len(syntax)
  PROVE  /\ \A i \in 1 .. n : HoldsValue(syntax[i], set[syntax[i].name])
         /\ \A i \in 1 .. n : syntax[i] = U("max_sub_layers_minus1", 3) =>
              set.max_sub_layers_minus1 \in {0, 1}
<1>1. PICK high \in BOOLEAN, layers \in {0, 1}, chroma \in {1, 3}, window \in {0, 1} :
        set = SetOf(t, high, layers, chroma, window)
  BY DEF Sets
<1>2. PICK all : all = {f \in {syntax[i] : i \in DOMAIN syntax} : f.kind # "skip"}
  OBVIOUS
<1>3. PICK names : names = {f.name : f \in all}
  OBVIOUS
<1>4. set = [name \in names |->
        CASE name = "max_sub_layers_minus1"   -> layers
          [] name = "chroma_format_idc"       -> chroma
          [] name = "conformance_window_flag" -> window
          [] OTHER -> Filled(CHOOSE f \in all : f.name = name, high)]
  BY <1>1, <1>2, <1>3 DEF SetOf
<1>5. DOMAIN syntax = 1 .. n /\ \A i \in 1 .. n : syntax[i] \in Fields
  OBVIOUS
<1>6. all \subseteq Fields /\ \A f \in all : f.kind # "skip"
  BY <1>2, <1>5
<1>7. Power2[1] = 2 /\ Power2[3] = 8
  BY SmallPowers
<1>8. ASSUME NEW i \in 1 .. n, syntax[i].kind # "skip"
      PROVE  syntax[i] \in all /\ syntax[i].name \in names
  BY <1>2, <1>3, <1>5, <1>8
<1>9. ASSUME NEW i \in 1 .. n PROVE HoldsValue(syntax[i], set[syntax[i].name])
  <2>1. PICK f \in Fields : f = syntax[i]
    BY <1>5
  <2>2. PICK v : v = set[f.name]
    OBVIOUS
  <2>3. f.kind \in {"u", "ue", "se", "skip"} /\ f.n \in Nat
        /\ (f.kind # "skip" => f.kind = KindOf(f.name) /\ f.n = WidthOf(f.name))
    BY DEF Fields, Records, CodedByName
  <2>4. CASE f.kind = "skip"
    <3>1. HoldsValue(f, v)
      BY <2>3, <2>4 DEF HoldsValue
    <3>. QED
      BY <2>1, <2>2, <3>1
  <2>5. CASE f.kind # "skip"
    <3>1. f \in all /\ f.name \in names
      BY <1>8, <2>1, <2>5
    <3>2. CASE f.name = "max_sub_layers_minus1"
      <4>1. v = layers
        BY <1>4, <2>2, <3>1, <3>2
      <4>2. f.kind = "u" /\ f.n = 3
        BY <2>3, <2>5, <3>2 DEF KindOf, WidthOf, GolombNames
      <4>3. HoldsValue(f, v)
        BY <1>7, <4>1, <4>2 DEF HoldsValue
      <4>. QED
        BY <2>1, <2>2, <4>3
    <3>3. CASE f.name = "chroma_format_idc"
      <4>1. v = chroma
        BY <1>4, <2>2, <3>1, <3>3
      <4>2. f.kind = "ue"
        BY <2>3, <2>5, <3>3 DEF KindOf, GolombNames
      <4>3. HoldsValue(f, v)
        BY <2>3, <4>1, <4>2 DEF HoldsValue
      <4>. QED
        BY <2>1, <2>2, <4>3
    <3>4. CASE f.name = "conformance_window_flag"
      <4>1. v = window
        BY <1>4, <2>2, <3>1, <3>4
      <4>2. f.kind = "u" /\ f.n = 1
        BY <2>3, <2>5, <3>4 DEF KindOf, WidthOf, GolombNames
      <4>3. HoldsValue(f, v)
        BY <1>7, <4>1, <4>2 DEF HoldsValue
      <4>. QED
        BY <2>1, <2>2, <4>3
    <3>5. CASE f.name \notin {"max_sub_layers_minus1", "chroma_format_idc", "conformance_window_flag"}
      <4>1. v = Filled(CHOOSE g \in all : g.name = f.name, high)
        BY <1>4, <2>2, <3>1, <3>5
      <4>2. PICK g \in all : g.name = f.name /\ v = Filled(g, high)
        BY <3>1, <4>1
      <4>3. g \in Fields /\ g.kind # "skip"
        BY <1>6
      <4>4. g.kind = f.kind /\ g.n = f.n
        BY <2>3, <2>5, <4>2, <4>3 DEF Fields, CodedByName
      <4>5. CASE f.kind = "u"
        <5>1. PICK P \in Nat \ {0} : P = Power2[f.n]
          BY <2>3, Powers
        <5>2. v = IF high THEN P - 1 ELSE 0
          BY <4>2, <4>4, <4>5, <5>1 DEF Filled
        <5>3. v \in Nat /\ v < Power2[f.n]
          BY <5>1, <5>2
        <5>4. HoldsValue(f, v)
          BY <2>3, <4>5, <5>3 DEF HoldsValue
        <5>. QED
          BY <2>1, <2>2, <5>4
      <4>6. CASE f.kind = "ue"
        <5>1. v = IF high THEN 6 ELSE 0
          BY <4>2, <4>4, <4>6 DEF Filled
        <5>2. HoldsValue(f, v)
          BY <2>3, <4>6, <5>1 DEF HoldsValue
        <5>. QED
          BY <2>1, <2>2, <5>2
      <4>7. CASE f.kind = "se"
        <5>1. v = IF high THEN 3 ELSE -2
          BY <4>2, <4>4, <4>7 DEF Filled
        <5>2. HoldsValue(f, v)
          BY <2>3, <4>7, <5>1 DEF HoldsValue
        <5>. QED
          BY <2>1, <2>2, <5>2
      <4>. QED
        BY <2>3, <2>5, <4>5, <4>6, <4>7
    <3>. QED
      BY <3>2, <3>3, <3>4, <3>5
  <2>. QED
    BY <2>4, <2>5
<1>10. ASSUME NEW i \in 1 .. n, syntax[i] = U("max_sub_layers_minus1", 3)
       PROVE  set.max_sub_layers_minus1 \in {0, 1}
  <2>1. syntax[i].kind # "skip" /\ syntax[i].name = "max_sub_layers_minus1"
    BY <1>10 DEF U, Field
  <2>2. "max_sub_layers_minus1" \in names
    BY <1>8, <2>1
  <2>3. set["max_sub_layers_minus1"] = layers
    BY <1>4, <2>2
  <2>. QED
    BY <2>3
<1>. QED
  BY <1>9, <1>10

LEMMA CodeInBits ==
  ASSUME NEW f, NEW set, HoldsValue(f, set[f.name])
  PROVE  CodeIn(set, f) \in Seq(Bit)
<1>1. <<>> \in Seq(Bit)
  OBVIOUS
<1>2. Encoded(f, set) \in Seq(Bit)
  BY EncodedBits
<1>. QED
  BY <1>1, <1>2 DEF CodeIn

\* Where what is written of a set lies, each of its fields does.
LEMMA WriteLaid ==
  ASSUME NEW n \in Nat \ {0}, NEW syntax \in Seq(Fields), n = Len(syntax), NEW set,
         \A i \in 1 .. n : HoldsValue(syntax[i], set[syntax[i].name])
  PROVE  /\ Write(syntax, set) \in Seq(Bit)
         /\ \A w : \A p \in Nat : CodeAt(w, p, Write(syntax, set)) =>
              Laid(w, p, p + Len(Write(syntax, set)), syntax, n, set)
<1>1. PICK codes : codes = [i \in 1 .. n |-> CodeIn(set, syntax[i])]
  OBVIOUS
<1>2. codes \in [1 .. n -> Seq(Bit)]
  BY <1>1, CodeInBits
<1>3. PICK d : d = FlattenSeq(codes)
  OBVIOUS
<1>4. d = Write(syntax, set)
  <2>1. DOMAIN syntax = 1 .. n
    OBVIOUS
  <2>. QED
    BY <1>1, <1>3, <2>1 DEF Write, CodeIn
<1>5. PICK e : d \in Seq(Bit) /\ Tiles(d, codes, n, e)
  BY <1>2, <1>3, Flattened
<1>6. /\ e \in [0 .. n -> Nat] /\ e[0] = 0 /\ e[n] = Len(d)
      /\ \A i \in 1 .. n : e[i] = e[i - 1] + Len(codes[i]) /\ e[i] <= Len(d)
      /\ \A i \in 1 .. n : \A j \in 1 .. Len(codes[i]) : d[e[i - 1] + j] = codes[i][j]
  BY <1>5 DEF Tiles
<1>7. ASSUME NEW w, NEW p \in Nat, CodeAt(w, p, d) PROVE Laid(w, p, p + Len(d), syntax, n, set)
  <2>1. PICK h : h = [i \in 0 .. n |-> p + e[i]]
    OBVIOUS
  <2>2. h \in [0 .. n -> Nat] /\ h[0] = p /\ h[n] = p + Len(d) /\ \A i \in 0 .. n : h[i] = p + e[i]
    BY <1>6, <2>1
  <2>3. ASSUME NEW i \in 1 .. n
        PROVE  /\ h[i] = h[i - 1] + Len(CodeIn(set, syntax[i]))
               /\ CodeAt(w, h[i - 1], CodeIn(set, syntax[i]))
    <3>1. PICK c \in Seq(Bit) : c = CodeIn(set, syntax[i]) /\ c = codes[i]
      BY <1>1, <1>2
    <3>2. i \in 0 .. n /\ i - 1 \in 0 .. n
      OBVIOUS
    <3>3. PICK a \in Nat, z \in Nat : a = e[i - 1] /\ z = e[i]
      BY <1>6, <3>2
    <3>4. z = a + Len(c) /\ z <= Len(d) /\ \A j \in 1 .. Len(c) : d[a + j] = c[j]
      BY <1>6, <3>1, <3>3
    <3>5. h[i - 1] = p + a /\ h[i] = p + z
      BY <2>2, <3>2, <3>3
    <3>6. \A j \in 1 .. Len(d) : w[p + j] = d[j]
      BY <1>7 DEF CodeAt
    <3>7. ASSUME NEW j \in 1 .. Len(c) PROVE w[h[i - 1] + j] = c[j]
      <4>1. a + j \in 1 .. Len(d) /\ p + (a + j) = (p + a) + j
        BY <1>5, <3>1, <3>4
      <4>2. w[p + (a + j)] = d[a + j]
        BY <3>6, <4>1
      <4>. QED
        BY <3>4, <3>5, <4>1, <4>2
    <3>8. h[i] = h[i - 1] + Len(c)
      <4>1. Len(c) \in Nat
        BY <3>1
      <4>. QED
        BY <3>4, <3>5, <4>1
    <3>. QED
      BY <3>1, <3>7, <3>8 DEF CodeAt
  <2>. QED
    BY <2>2, <2>3 DEF Laid
<1>. QED
  BY <1>4, <1>5, <1>7

\* What an active set of type t is of the set that an encoder wrote.
WholeOf(t, some, set) ==
  /\ \A name \in HeadNames(t) : some[name] = set[name]
  /\ \/ t = "Sps" /\ set.max_sub_layers_minus1 > 0
     \/ \A name \in DOMAIN some : some[name] = set[name]

\* The reader of rec before anything is read.
LEMMA BaseReached ==
  ASSUME NEW w, NEW l \in Nat, NEW rec, l % ByteBits = 0, PrefixOf(rec, w, l, Bit), NEW set, NEW syntax
  PROVE  Reached(ParseBase(rec), w, 0, l, set, syntax, 0)
<1>1. rec \in Seq(Bit) /\ Len(rec) = l
  BY DEF PrefixOf
<1>2. PICK r : r = Reader(rec)
  OBVIOUS
<1>3. r.data = rec /\ r.pos = 0 /\ r \in SliceReaders
  BY <1>1, <1>2 DEF Reader, SliceReaders
<1>4. InSlice(r)
  BY <1>1, <1>3 DEF InSlice
<1>5. ReadsAt(r, w, 0, l)
  BY <1>3, <1>4 DEF ReadsAt
<1>6. ParseBase(rec).reader = r /\ ParseBase(rec).set = <<>>
  BY <1>2 DEF ParseBase, None
<1>7. PartOf(<<>>, set)
  <2>1. DOMAIN <<>> = {}
    OBVIOUS
  <2>. QED
    BY <2>1 DEF PartOf
<1>. QED
  BY <1>5, <1>6, <1>7 DEF Reached

NamesOf(syntax) == {syntax[i].name : i \in {j \in DOMAIN syntax : syntax[j].kind # "skip"}}

AllRead(acc, syntax, set) ==
  acc.ok => \A name \in NamesOf(syntax) : name \in DOMAIN acc.set /\ acc.set[name] = set[name]

AllFit(syntax, n, set) == \A i \in 1 .. n : HoldsValue(syntax[i], set[syntax[i].name])

\* A syntax whose fields are all always there.
LEMMA PlainRead ==
  ASSUME NEW n \in Nat \ {0}, NEW syntax \in Seq(PlainFields), n = Len(syntax), NEW set, AllFit(syntax, n, set),
         NEW w, NEW l \in Nat, NEW rec, l % ByteBits = 0, PrefixOf(rec, w, l, Bit),
         CodeAt(w, 0, Write(syntax, set)),
         NEW g, g[0] = ParseBase(rec), Stepping(g, syntax, n)
  PROVE  /\ Reached(g[n], w, Len(Write(syntax, set)), l, set, syntax, n)
         /\ AllRead(g[n], syntax, set)
<1>0. \A i \in 1 .. n : HoldsValue(syntax[i], set[syntax[i].name])
  BY DEF AllFit
<1>1. /\ syntax \in Seq(Fields)
      /\ \A i \in 1 .. n : Depends(syntax, i) /\ (syntax[i].kind # "skip" => Plain(syntax[i]))
  BY PlainDepends
<1>2. Sound(syntax, n, set)
  BY <1>0, <1>1 DEF Sound
<1>3. PICK d : d = Write(syntax, set) /\ d \in Seq(Bit) /\ Laid(w, 0, 0 + Len(d), syntax, n, set)
  BY <1>0, <1>1, WriteLaid
<1>4. Laid(w, 0, Len(d), syntax, n, set)
  <2>1. 0 + Len(d) = Len(d)
    BY <1>3
  <2>. QED
    BY <1>3, <2>1
<1>5. Reached(g[0], w, 0, l, set, syntax, 0)
  BY BaseReached
<1>6. Reached(g[n], w, Len(d), l, set, syntax, n)
  BY <1>2, <1>4, <1>5, Segment
<1>7. ASSUME g[n].ok, NEW i \in DOMAIN syntax, syntax[i].kind # "skip"
      PROVE  syntax[i].name \in DOMAIN g[n].set /\ g[n].set[syntax[i].name] = set[syntax[i].name]
  <2>1. i \in 1 .. n
    OBVIOUS
  <2>2. Plain(syntax[i])
    BY <1>1, <1>7, <2>1
  <2>3. syntax[i].name \in DOMAIN g[n].set
    BY <1>6, <1>7, <2>1, <2>2 DEF Reached
  <2>. QED
    BY <1>6, <1>7, <2>3 DEF Reached, PartOf
<1>. QED
  BY <1>3, <1>6, <1>7 DEF AllRead, NamesOf

LEMMA NoLayers ==
  ASSUME NEW set, set.max_sub_layers_minus1 \in {0, 1}
  PROVE  /\ SubLayers(set) \in Seq(Bit)
         /\ set.max_sub_layers_minus1 = 0 => SubLayers(set) = <<>>
<1>1. CASE set.max_sub_layers_minus1 = 0
  <2>1. <<>> \in Seq(Bit)
    OBVIOUS
  <2>. QED
    BY <1>1, <2>1 DEF SubLayers
<1>2. CASE set.max_sub_layers_minus1 # 0
  <2>1. PICK k \in Nat : k = 2 * (MaxSubLayers - 1)
    <3>1. MaxSubLayers - 1 \in Nat
      BY ParserAssumption
    <3>. QED
      BY <3>1
  <2>2. PICK a \in Seq(Bit) : a = <<0, 1>>
    <3>1. <<0, 1>> \in Seq(Bit)
      BY DEF Bit
    <3>. QED
      BY <3>1
  <2>3. PICK z \in Seq(Bit) : z = Zeros(k)
    BY ZerosBits
  <2>4. PICK c \in Seq(Bit) : c = FixedCode(90, 8)
    <3>1. 90 \in Nat /\ 8 \in Nat
      OBVIOUS
    <3>. QED
      BY <3>1, CodeBits
  <2>5. SubLayers(set) = a \o z \o c
    BY <1>2, <2>1, <2>2, <2>3, <2>4 DEF SubLayers
  <2>6. a \o z \in Seq(Bit)
    BY ConcatProperties
  <2>7. a \o z \o c \in Seq(Bit)
    BY <2>6, ConcatProperties
  <2>. QED
    BY <1>2, <2>5, <2>7
<1>. QED
  BY <1>1, <1>2

\* What is read of a beginning of w, if all the reads succeed.
ReadWhole(t, set, w) ==
  \A l \in Nat : \A rec : \A acc :
    l % ByteBits = 0 /\ PrefixOf(rec, w, l, Bit) /\ acc = Parse(Syntax(t), rec) /\ acc.ok =>
      WholeOf(t, acc.set, set)

LEMMA PlainWhole ==
  ASSUME NEW t \in SetTypes, t # "Sps", NEW set \in Sets(t), NEW w, w = WriteSet(t, set)
  PROVE  w \in Seq(Bit) /\ ReadWhole(t, set, w)
<1>1. PICK syntax \in Seq(PlainFields) : syntax = Syntax(t)
  BY VPSIs, PPSIs DEF SetTypes, Syntax
<1>2. PICK n \in Nat \ {0} : n = Len(syntax)
  <2>1. Len(VPSSyntax) # 0
    BY DEF VPSSyntax
  <2>2. Len(PPSSyntax) # 0
    BY DEF PPSSyntax
  <2>3. Len(syntax) # 0
    BY <1>1, <2>1, <2>2 DEF SetTypes, Syntax
  <2>4. Len(syntax) \in Nat
    BY <1>1
  <2>. QED
    BY <2>3, <2>4
<1>3. syntax \in Seq(Fields)
  BY <1>1, PlainDepends
<1>4. AllFit(syntax, n, set)
  BY <1>1, <1>2, <1>3, ValuesFit DEF AllFit
<1>5. PICK d \in Seq(Bit) : d = Write(syntax, set)
  BY <1>2, <1>3, <1>4, WriteLaid DEF AllFit
<1>6. w = Padded(d)
  BY <1>1, <1>5 DEF WriteSet
<1>7. CodeAt(w, 0, Write(syntax, set))
  BY <1>5, <1>6, PaddedBegins
<1>8. ASSUME NEW l \in Nat, NEW rec, l % ByteBits = 0, PrefixOf(rec, w, l, Bit),
             NEW acc, acc = Parse(Syntax(t), rec), acc.ok
      PROVE  WholeOf(t, acc.set, set)
  <2>1. PICK g : Parsing(g, syntax, rec, n) /\ acc = g[n]
    BY <1>8, <1>1, <1>2, ParsingIs
  <2>2. g[0] = ParseBase(rec) /\ Stepping(g, syntax, n)
    BY <2>1 DEF Parsing, Stepping
  <2>3. Reached(g[n], w, Len(Write(syntax, set)), l, set, syntax, n) /\ AllRead(g[n], syntax, set)
    BY <1>8, <1>1, <1>2, <1>4, <1>7, <2>2, PlainRead
  <2>4. HeadNames(t) = NamesOf(syntax)
    BY <1>1 DEF HeadNames, NamesOf
  <2>5. \A name \in DOMAIN acc.set : acc.set[name] = set[name]
    BY <1>8, <2>1, <2>3 DEF Reached, PartOf
  <2>. QED
    BY <1>8, <2>1, <2>3, <2>4, <2>5 DEF WholeOf, AllRead
<1>9. w \in Seq(Bit)
  BY <1>5, <1>6, PaddedBegins
<1>. QED
  BY <1>8, <1>9 DEF ReadWhole

LEMMA SPSWhole ==
  ASSUME NEW t \in SetTypes, t = "Sps", NEW set \in Sets(t), NEW w, w = WriteSet(t, set)
  PROVE  w \in Seq(Bit) /\ ReadWhole(t, set, w)
<1>1. PICK head \in Seq(PlainFields), tail \in Seq(Fields) : head = SPSHead /\ tail = SPSTail
  BY HeadIs, TailIs
<1>2. PICK h \in Nat \ {0} : h = Len(head) /\ h >= 3 /\ head[2] = U("max_sub_layers_minus1", 3)
  BY <1>1, HeadIs
<1>3. Len(tail) = 10 /\ \A i \in 1 .. 10 : Depends(tail, i)
  BY <1>1, TailIs
<1>4. head \in Seq(Fields)
  BY <1>1, PlainDepends
<1>5. PICK syntax : syntax = head \o tail /\ Joint(syntax, head, tail, Fields)
  BY <1>1, <1>4, JointIs
<1>6. /\ syntax = Syntax(t) /\ syntax \in Seq(Fields) /\ Len(syntax) = h + 10
      /\ \A i \in 1 .. h : syntax[i] = head[i]
      /\ \A i \in 1 .. 10 : syntax[h + i] = tail[i]
  BY <1>1, <1>2, <1>3, <1>5 DEF Joint, Syntax
<1>7. PICK n \in Nat : n = h + 10 /\ n = Len(syntax)
  BY <1>2, <1>6
<1>8. /\ \A i \in 1 .. n : HoldsValue(syntax[i], set[syntax[i].name])
      /\ \A i \in 1 .. n : syntax[i] = U("max_sub_layers_minus1", 3) => set.max_sub_layers_minus1 \in {0, 1}
  BY <1>6, <1>7, ValuesFit
<1>9. AllFit(head, h, set)
  <2>1. \A i \in 1 .. h : i \in 1 .. n
    BY <1>2, <1>7
  <2>. QED
    BY <1>6, <1>8, <2>1 DEF AllFit
<1>10. AllFit(tail, 10, set)
  <2>1. \A i \in 1 .. 10 : h + i \in 1 .. n
    BY <1>2, <1>7
  <2>. QED
    BY <1>6, <1>8, <2>1 DEF AllFit
<1>11. set.max_sub_layers_minus1 \in {0, 1}
  <2>1. 2 \in 1 .. n /\ 2 \in 1 .. h
    BY <1>2, <1>7
  <2>2. syntax[2] = U("max_sub_layers_minus1", 3)
    BY <1>2, <1>6, <2>1
  <2>. QED
    BY <1>8, <2>1, <2>2
<1>12. PICK a \in Seq(Bit), b \in Seq(Bit), c \in Seq(Bit) :
         a = Write(head, set) /\ b = SubLayers(set) /\ c = Write(tail, set)
  <2>1. Write(head, set) \in Seq(Bit)
    BY <1>2, <1>4, <1>9, WriteLaid DEF AllFit
  <2>2. Write(tail, set) \in Seq(Bit)
    <3>1. PICK k \in Nat \ {0} : k = 10
      OBVIOUS
    <3>2. k = Len(tail) /\ \A i \in 1 .. k : HoldsValue(tail[i], set[tail[i].name])
      BY <1>3, <1>10, <3>1 DEF AllFit
    <3>. QED
      BY <1>1, <3>2, WriteLaid
  <2>. QED
    BY <1>11, <2>1, <2>2, NoLayers
<1>13. PICK x \in Seq(Bit) : x = a \o b /\ Joint(x, a, b, Bit)
  <2>1. Joint(a \o b, a, b, Bit)
    BY JointIs
  <2>. QED
    BY <2>1 DEF Joint
<1>14. PICK y \in Seq(Bit) : y = x \o c /\ Joint(y, x, c, Bit)
  <2>1. Joint(x \o c, x, c, Bit)
    BY JointIs
  <2>. QED
    BY <2>1 DEF Joint
<1>15. w = Padded(y) /\ CodeAt(w, 0, y)
  <2>1. w = Padded(y)
    BY <1>1, <1>12, <1>13, <1>14 DEF WriteSet
  <2>. QED
    BY <2>1, PaddedBegins
<1>16. CodeAt(w, 0, Write(head, set))
  <2>1. ASSUME NEW i \in 1 .. Len(a) PROVE w[0 + i] = a[i]
    <3>1. i \in 1 .. Len(x) /\ x[i] = a[i]
      BY <1>13 DEF Joint
    <3>2. i \in 1 .. Len(y) /\ y[i] = x[i]
      BY <1>14, <3>1 DEF Joint
    <3>3. w[0 + i] = y[i]
      BY <1>15, <3>2 DEF CodeAt
    <3>. QED
      BY <3>1, <3>2, <3>3
  <2>. QED
    BY <1>12, <2>1 DEF CodeAt
<1>17. ASSUME NEW l \in Nat, NEW rec, l % ByteBits = 0, PrefixOf(rec, w, l, Bit),
             NEW acc, acc = Parse(Syntax(t), rec), acc.ok
      PROVE  WholeOf(t, acc.set, set)
  <2>1. PICK g : Parsing(g, syntax, rec, n) /\ acc = g[n]
    <3>1. acc = Parse(syntax, rec)
      BY <1>17, <1>6, Zenon
    <3>2. \E f : Parsing(f, syntax, rec, n) /\ Parse(syntax, rec) = f[n]
      BY <1>7, ParsingIs
    <3>. QED
      BY <3>1, <3>2, Zenon
  <2>2. g[0] = ParseBase(rec) /\ \A i \in 1 .. n : g[i] = Step(g[i - 1], syntax[i])
    BY <2>1 DEF Parsing
  <2>3. Stepping(g, head, h)
    <3>1. ASSUME NEW i \in 1 .. h PROVE g[i] = Step(g[i - 1], head[i])
      <4>1. i \in 1 .. n
        BY <1>2, <1>7
      <4>2. g[i] = Step(g[i - 1], syntax[i])
        BY <2>2, <4>1
      <4>. QED
        BY <1>6, <4>2
    <3>. QED
      BY <3>1 DEF Stepping
  <2>4. Reached(g[h], w, Len(Write(head, set)), l, set, head, h) /\ AllRead(g[h], head, set)
    BY <1>17, <1>1, <1>2, <1>9, <1>16, <2>2, <2>3, PlainRead
  <2>5. PICK f : f = [i \in 0 .. 10 |-> g[h + i]]
    OBVIOUS
  <2>6. f[0] = g[h] /\ f[10] = g[n]
    BY <1>2, <1>7, <2>5
  <2>7. Stepping(f, tail, 10)
    <3>1. ASSUME NEW i \in 1 .. 10 PROVE f[i] = Step(f[i - 1], tail[i])
      <4>1. PICK k \in 1 .. n : k = h + i /\ k - 1 = h + (i - 1) /\ i \in 0 .. 10 /\ i - 1 \in 0 .. 10
        <5>1. n = h + 10 /\ h \in Nat /\ n \in Nat
          BY <1>7
        <5>2. PICK k \in Int : k = h + i
          OBVIOUS
        <5>3. k \in 1 .. n /\ k - 1 = h + (i - 1) /\ i \in 0 .. 10 /\ i - 1 \in 0 .. 10
          BY ONLY <5>1, <5>2, i \in 1 .. 10, h \in Nat \ {0}
        <5>. QED
          BY <5>2, <5>3
      <4>2. g[k] = Step(g[k - 1], syntax[k])
        BY <2>2
      <4>3. f[i] = g[k] /\ f[i - 1] = g[k - 1]
        BY <2>5, <4>1
      <4>4. syntax[k] = tail[i]
        BY <1>6, <4>1
      <4>. QED
        BY <4>2, <4>3, <4>4
    <3>. QED
      BY <3>1 DEF Stepping
  <2>8. 10 \in Nat
    OBVIOUS
  <2>9. Later(f[10], f[0])
    BY <2>7, <2>8, SegmentLater
  <2>10. Later(acc, g[h])
    BY <2>1, <2>6, <2>9
  <2>11. HeadNames(t) = NamesOf(head)
    BY <1>1 DEF HeadNames, NamesOf
  <2>12. \A name \in HeadNames(t) : acc.set[name] = set[name]
    BY <1>17, <2>4, <2>10, <2>11 DEF Later, AllRead
  <2>13. CASE set.max_sub_layers_minus1 > 0
    BY <2>12, <2>13 DEF WholeOf
  <2>14. CASE ~(set.max_sub_layers_minus1 > 0)
    <3>1. b = <<>>
      <4>1. set.max_sub_layers_minus1 = 0
        BY <1>11, <2>14
      <4>. QED
        BY <1>11, <1>12, <4>1, NoLayers
    <3>2. Len(x) = Len(a) /\ Len(a) \in Nat
      BY <1>12, <1>13, <3>1 DEF Joint
    <3>3. CodeAt(w, Len(a), Write(tail, set))
      <4>1. ASSUME NEW i \in 1 .. Len(c) PROVE w[Len(a) + i] = c[i]
        <5>1. y[Len(a) + i] = c[i] /\ Len(y) = Len(a) + Len(c)
          BY <1>14, <3>2 DEF Joint
        <5>2. Len(a) + i \in 1 .. Len(y) /\ 0 + (Len(a) + i) = Len(a) + i
          BY <1>12, <3>2, <5>1
        <5>3. w[0 + (Len(a) + i)] = y[Len(a) + i]
          BY <1>15, <5>2 DEF CodeAt
        <5>. QED
          BY <5>1, <5>2, <5>3
      <4>. QED
        BY <1>12, <4>1 DEF CodeAt
    <3>4. PICK k \in Nat \ {0} : k = 10 /\ k = Len(tail)
      BY <1>3
    <3>5. \A i \in 1 .. k : HoldsValue(tail[i], set[tail[i].name])
      BY <1>10, <3>4 DEF AllFit
    <3>6. PICK z : Laid(w, Len(a), z, tail, k, set)
      BY <1>1, <3>2, <3>3, <3>4, <3>5, WriteLaid
    <3>7. Sound(tail, k, set)
      BY <1>3, <3>4, <3>5 DEF Sound
    <3>8. Reached(f[0], w, Len(a), l, set, tail, 0)
      BY <1>12, <2>4, <2>6 DEF Reached
    <3>9. Stepping(f, tail, k)
      BY <2>7, <3>4
    <3>10. Reached(f[k], w, z, l, set, tail, k)
      BY <3>6, <3>7, <3>8, <3>9, Segment
    <3>11. Reached(acc, w, z, l, set, tail, k)
      BY <2>1, <2>6, <3>4, <3>10
    <3>12. \A name \in DOMAIN acc.set : acc.set[name] = set[name]
      BY <1>17, <3>11 DEF Reached, PartOf
    <3>. QED
      BY <2>12, <3>12 DEF WholeOf
  <2>. QED
    BY <2>13, <2>14
<1>18. w \in Seq(Bit)
  BY <1>15, PaddedBegins
<1>. QED
  BY <1>17, <1>18 DEF ReadWhole

------------------------------------------------------------------------------
(* H.265: the invariant. *)

H265Inv == DOMAIN active = SetTypes /\ DOMAIN accepted = SetTypes /\ ParameterSetsWhole

LEMMA WholeIs ==
  ParameterSetsWhole <=> \A t \in SetTypes : active[t] # None => WholeOf(t, active[t], accepted[t])
BY DEF ParameterSetsWhole, WholeOf

LEMMA WholeIsNext ==
  ParameterSetsWhole' <=>
    \A t \in SetTypes : active'[t] # None => WholeOf(t, active'[t], accepted'[t])
BY DEF ParameterSetsWhole, WholeOf

LEMMA ParsesWhole ==
  ASSUME NEW p \in Parses, p.parsed.ok
  PROVE  p.type \in SetTypes /\ WholeOf(p.type, p.parsed.set, p.set)
<1>1. PICK u \in Units :
        p = [type |-> u.type, set |-> u.set, parsed |-> Parse(Syntax(u.type), FlattenSeq(Received(u)))]
  BY DEF Parses
<1>2. PICK t \in SetTypes : u \in [type : {t}, set : Sets(t), cut : Cuts]
  BY DEF Units
<1>3. u.type = t /\ u.set \in Sets(t) /\ u.cut \in Nat
  BY <1>2, ParserAssumption
<1>4. PICK set \in Sets(t) : set = u.set
  BY <1>3
<1>5. PICK w : w = WriteSet(t, set)
  OBVIOUS
<1>6. w \in Seq(Bit) /\ ReadWhole(t, set, w)
  <2>1. CASE t = "Sps"
    BY <1>5, <2>1, SPSWhole
  <2>2. CASE t # "Sps"
    BY <1>5, <2>2, PlainWhole
  <2>. QED
    BY <2>1, <2>2
<1>7. PICK rec : rec = FlattenSeq(Received(u))
  OBVIOUS
<1>8. PICK l \in Nat : l % ByteBits = 0 /\ PrefixOf(rec, w, l, Bit)
  <2>1. w = WriteSet(u.type, u.set)
    BY <1>3, <1>4, <1>5
  <2>. QED
    BY <1>3, <1>6, <1>7, <2>1, ReceivedBegins
<1>9. PICK acc : acc = Parse(Syntax(t), rec)
  OBVIOUS
<1>10. p.type = t /\ p.set = set /\ p.parsed = acc
  BY <1>1, <1>3, <1>4, <1>7, <1>9
<1>11. WholeOf(t, acc.set, set)
  BY <1>6, <1>8, <1>9, <1>10 DEF ReadWhole
<1>. QED
  BY <1>10, <1>11

LEMMA H265Begins == H265Init => H265Inv
<1>. SUFFICES ASSUME H265Init PROVE H265Inv
  OBVIOUS
<1>1. /\ active = [t \in SetTypes |-> None] /\ accepted = [t \in SetTypes |-> None]
  BY DEF H265Init
<1>2. ParameterSetsWhole
  BY <1>1, WholeIs
<1>. QED
  BY <1>1, <1>2 DEF H265Inv

LEMMA H265Steps == H265Inv /\ [H265Next]_h265vars => H265Inv'
<1>. SUFFICES ASSUME H265Inv, [H265Next]_h265vars PROVE H265Inv'
  OBVIOUS
<1>1. /\ DOMAIN active = SetTypes /\ DOMAIN accepted = SetTypes
      /\ \A t \in SetTypes : active[t] # None => WholeOf(t, active[t], accepted[t])
  BY WholeIs DEF H265Inv
<1>2. CASE UNCHANGED <<active, accepted>>
  <2>1. active' = active /\ accepted' = accepted
    BY <1>2
  <2>2. ParameterSetsWhole'
    BY <1>1, <2>1, WholeIsNext
  <2>. QED
    BY <1>1, <2>1, <2>2 DEF H265Inv
<1>3. ASSUME NEW p \in Parses, ParseParameterSet(p) PROVE H265Inv'
  <2>1. CASE ~p.parsed.ok
    <3>1. UNCHANGED <<active, accepted>>
      BY <1>3, <2>1 DEF ParseParameterSet
    <3>. QED
      BY <1>2, <3>1
  <2>2. CASE p.parsed.ok
    <3>1. p.type \in SetTypes /\ WholeOf(p.type, p.parsed.set, p.set)
      BY <2>2, ParsesWhole
    <3>2. /\ active' = [active EXCEPT ![p.type] = p.parsed.set]
          /\ accepted' = [accepted EXCEPT ![p.type] = p.set]
      BY <1>3, <2>2 DEF ParseParameterSet
    <3>3. ASSUME NEW t \in SetTypes, active'[t] # None PROVE WholeOf(t, active'[t], accepted'[t])
      <4>1. CASE t = p.type
        <5>1. active'[t] = p.parsed.set /\ accepted'[t] = p.set
          BY <1>1, <3>1, <3>2, <4>1
        <5>. QED
          BY <3>1, <4>1, <5>1
      <4>2. CASE t # p.type
        <5>1. active'[t] = active[t] /\ accepted'[t] = accepted[t]
          BY <1>1, <3>2, <4>2
        <5>. QED
          BY <1>1, <3>3, <5>1
      <4>. QED
        BY <4>1, <4>2
    <3>4. ParameterSetsWhole'
      BY <3>3, WholeIsNext
    <3>5. DOMAIN active' = SetTypes /\ DOMAIN accepted' = SetTypes
      BY <1>1, <3>2
    <3>. QED
      BY <3>4, <3>5 DEF H265Inv
  <2>. QED
    BY <2>1, <2>2
<1>4. CASE ParseStub
  BY <1>2, <1>4 DEF ParseStub
<1>5. CASE UNCHANGED h265vars
  BY <1>2, <1>5 DEF h265vars
<1>. QED
  BY <1>3, <1>4, <1>5 DEF H265Next
==============================================================================
