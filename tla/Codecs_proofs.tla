------------------------------ MODULE Codecs_proofs -----------------------------
(***************************************************************************)
(* What every form of a number tells of it, for bytes of any width and     *)
(* numbers of any size.  Each form the code reads back lists the low       *)
(* digits of some number, and Value takes such a list back to what they    *)
(* are digits of.                                                          *)
(***************************************************************************)
EXTENDS Codecs, Arithmetic_proofs

\* The low len digits of m, the most significant first.
LowDigits(len, m, base) == [i \in 1..len |-> Digit(m, base, len - i)]

LEMMA Division ==
    ASSUME NEW u \in Int, NEW d \in Nat \ {0}
    PROVE  u = (u \div d) * d + (u % d) /\ u % d \in 0..(d - 1) /\ u \div d \in Int
OBVIOUS

LEMMA DivisionIs ==
    ASSUME NEW u \in Int, NEW d \in Nat \ {0}, NEW q \in Int, NEW r \in 0..(d - 1),
           u = q * d + r
    PROVE  u \div d = q /\ u % d = r
OBVIOUS

\* Dividing twice, and the remainder of both divisions together.
LEMMA DivideTwice ==
    ASSUME NEW u \in Nat, NEW a \in Nat \ {0}, NEW b \in Nat \ {0}
    PROVE  /\ (u \div a) \div b = u \div (a * b)
           /\ u % (a * b) = ((u \div a) % b) * a + (u % a)
<1> DEFINE v == u \div a
           r == u % a
           w == v \div b
           t == v % b
<1>1. u = v * a + r /\ r \in 0..(a - 1) /\ v \in Int  BY Division
<1> HIDE DEF v, r
<1>2. v = w * b + t /\ t \in 0..(b - 1) /\ w \in Int  BY <1>1, Division
<1> HIDE DEF w, t
<1>3. a * b \in Nat \ {0}  OBVIOUS
<1>4. t * a + r \in 0..(a * b - 1)
  <2>1. t * a <= (b - 1) * a /\ t * a >= 0 /\ t * a \in Int  BY <1>2
  <2>2. (b - 1) * a = a * b - a  OBVIOUS
  <2> QED  BY <1>1, <1>3, <2>1, <2>2
<1>5. u = w * (a * b) + (t * a + r)
  <2>1. (w * b + t) * a = w * (a * b) + t * a  BY <1>2
  <2>2. w * (a * b) \in Int /\ t * a \in Int  BY <1>2
  <2> QED  BY <1>1, <1>2, <2>1, <2>2
<1>6. u \div (a * b) = w /\ u % (a * b) = t * a + r
  <2> DEFINE d == a * b
             z == t * a + r
  <2>1. u \in Int /\ d \in Nat \ {0} /\ z \in 0..(d - 1) /\ u = w * d + z
    BY <1>3, <1>4, <1>5
  <2> HIDE DEF d, z
  <2>2. u \div d = w /\ u % d = z  BY <1>2, <2>1, DivisionIs
  <2> QED  BY <2>2 DEF d, z
<1> QED  BY <1>3, <1>6 DEF v, r, w, t

LEMMA Quotient ==
    ASSUME NEW u \in Nat, NEW d \in Nat \ {0} PROVE u \div d \in Nat /\ u % d \in Nat
OBVIOUS

LEMMA DigitIs ==
    ASSUME NEW m \in Nat, NEW b \in Nat, b >= 2, NEW i \in Nat
    PROVE  /\ Power(b, i) \in Nat \ {0}
           /\ m \div Power(b, i) \in Nat
           /\ Digit(m, b, i) \in 0..(b - 1)
<1>1. Power(b, i) \in Nat \ {0}  BY PowerPositive
<1>2. m \div Power(b, i) \in Nat  BY <1>1, Quotient
<1> QED  BY <1>1, <1>2 DEF Digit

\* One digit more: the low i + 1 digits are the low i and the one before.
LEMMA OneMoreDigit ==
    ASSUME NEW m \in Nat, NEW b \in Nat, b >= 2, NEW i \in Nat
    PROVE  /\ m \div Power(b, i + 1) = (m \div Power(b, i)) \div b
           /\ m % Power(b, i + 1) = Digit(m, b, i) * Power(b, i) + (m % Power(b, i))
           /\ m % Power(b, i + 1) = ((m \div b) % Power(b, i)) * b + (m % b)
<1> DEFINE d == Power(b, i)
<1>1. b \in Nat \ {0} /\ b \in Int /\ d \in Nat \ {0}  BY DigitIs
<1>2. Power(b, i + 1) = b * d /\ b * d = d * b  BY <1>1, PowerSucc
<1> HIDE DEF d
<1>3. (m \div d) \div b = m \div (d * b) /\ m % (d * b) = ((m \div d) % b) * d + (m % d)
  BY <1>1, DivideTwice
<1>4. m % (b * d) = ((m \div b) % d) * b + (m % b)
  BY <1>1, DivideTwice
<1> QED  BY <1>2, <1>3, <1>4 DEF Digit, d

\* A quotient's digits are the number's.
LEMMA QuotientDigits ==
    ASSUME NEW m \in Nat, NEW b \in Nat, b >= 2, NEW i \in Nat, NEW j \in Nat
    PROVE  /\ (m \div Power(b, i)) \div Power(b, j) = m \div Power(b, i + j)
           /\ Digit(m \div Power(b, i), b, j) = Digit(m, b, i + j)
<1> DEFINE d == Power(b, i)
           e == Power(b, j)
<1>1. d \in Nat \ {0} /\ e \in Nat \ {0}  BY DigitIs
<1>2. b \in Int /\ Power(b, i + j) = d * e  BY PowerAdd
<1> HIDE DEF d, e
<1>3. (m \div d) \div e = m \div (d * e)  BY <1>1, DivideTwice
<1>4. (m \div d) \div e = m \div Power(b, i + j)  BY <1>2, <1>3
<1> QED  BY <1>4 DEF Digit, d, e

\* Value reads the low digits of m as m modulo a power of the base.
LEMMA ValueIs ==
    ASSUME NEW m \in Nat, NEW b \in Nat, b >= 2, NEW len \in Nat
    PROVE  Value(LowDigits(len, m, b), b) = m % Power(b, len)
<1> DEFINE s == LowDigits(len, m, b)
           Eq(h) == h = [i \in 0..len |-> IF i = 0 THEN 0 ELSE h[i - 1] * b + s[i]]
           f == CHOOSE h : Eq(h)
           g == [i \in 0..len |-> (m \div Power(b, len - i)) % Power(b, i)]
<1>1. s \in [1..len -> Nat]
  <2>1. ASSUME NEW i \in 1..len PROVE Digit(m, b, len - i) \in Nat
    <3>1. len - i \in Nat  OBVIOUS
    <3>2. Digit(m, b, len - i) \in 0..(b - 1)  BY <3>1, DigitIs
    <3> QED  BY <3>2
  <2> QED  BY <2>1 DEF LowDigits
<1>2. Len(s) = len  BY <1>1
<1>3. ASSUME NEW i \in 1..len PROVE s[i] = Digit(m, b, len - i)  BY DEF LowDigits
<1>4. Value(s, b) = f[len]
  <2> HIDE DEF s
  <2> QED  BY <1>2 DEF Value
<1> HIDE DEF s
<1>5. ASSUME NEW i \in 0..len
      PROVE  g[i] = IF i = 0 THEN 0 ELSE g[i - 1] * b + s[i]
  <2>1. CASE i = 0
    <3>1. Power(b, 0) = 1  BY PowerZero
    <3>2. m \div Power(b, len - 0) \in Nat
      <4>1. len - 0 \in Nat  OBVIOUS
      <4> QED  BY <4>1, DigitIs
    <3>3. (m \div Power(b, len - 0)) % 1 = 0  BY <3>2
    <3> QED  BY <2>1, <3>1, <3>3
  <2>2. CASE i # 0
    <3> DEFINE j == len - i
               v == m \div Power(b, j)
    <3>1. j \in Nat /\ i - 1 \in Nat /\ i - 1 \in 0..len /\ i \in 1..len
          /\ (i - 1) + 1 = i /\ len - (i - 1) = j + 1
      BY <2>2
    <3> HIDE DEF j
    <3>2. v \in Nat  BY <3>1, DigitIs
    <3>3. m \div Power(b, j + 1) = v \div b  BY <3>1, OneMoreDigit
    <3>4. s[i] = v % b  BY <3>1, <1>3 DEF j, Digit
    <3>5. g[i] = v % Power(b, i)  BY DEF j
    <3>6. g[i - 1] = (v \div b) % Power(b, i - 1)  BY <3>1, <3>3
    <3> HIDE DEF v
    <3>7. v % Power(b, i) = ((v \div b) % Power(b, i - 1)) * b + (v % b)
      BY <3>1, <3>2, OneMoreDigit
    <3> QED  BY <2>2, <3>4, <3>5, <3>6, <3>7
  <2> QED  BY <2>1, <2>2
<1>6. Eq(g)
  <2> DEFINE h == [i \in 0..len |-> IF i = 0 THEN 0 ELSE g[i - 1] * b + s[i]]
  <2>1. ASSUME NEW i \in 0..len PROVE g[i] = h[i]  BY <1>5
  <2>2. g = [i \in 0..len |-> g[i]] /\ h = [i \in 0..len |-> h[i]]  OBVIOUS
  <2> HIDE DEF g
  <2> QED  BY <2>1, <2>2
<1>7. Eq(f)  BY <1>6
<1>8. ASSUME NEW i \in 0..len PROVE f[i] = IF i = 0 THEN 0 ELSE f[i - 1] * b + s[i]
  BY <1>7
<1> DEFINE S == {i \in Nat : i <= len => f[i] = g[i]}
<1> HIDE DEF f, g, Eq
<1>9. 0 \in S
  <2>1. 0 \in 0..len  OBVIOUS
  <2> QED  BY <2>1, <1>5, <1>8
<1>10. ASSUME NEW i \in Nat, i \in S PROVE i + 1 \in S
  <2> SUFFICES ASSUME i + 1 <= len PROVE f[i + 1] = g[i + 1]
    OBVIOUS
  <2>1. i + 1 \in 0..len /\ i + 1 # 0 /\ (i + 1) - 1 = i  OBVIOUS
  <2>2. f[i + 1] = f[i] * b + s[i + 1]  BY <2>1, <1>8
  <2>3. g[i + 1] = g[i] * b + s[i + 1]  BY <2>1, <1>5
  <2>4. f[i] = g[i]  BY <1>10
  <2> QED  BY <2>2, <2>3, <2>4
<1> HIDE DEF S
<1>11. len \in S  BY <1>9, <1>10, Induction
<1>12. f[len] = g[len]  BY <1>11 DEF S
<1>13. g[len] = m % Power(b, len)
  <2>1. len - len = 0 /\ Power(b, 0) = 1 /\ m \div 1 = m  BY PowerZero
  <2>2. g[len] = (m \div Power(b, len - len)) % Power(b, len)  BY DEF g
  <2> QED  BY <2>1, <2>2
<1> QED  BY <1>4, <1>12, <1>13 DEF s

------------------------------------------------------------------------------
(* Each form is a list of low digits. *)

LEMMA BaseIs == Base \in Nat /\ Base >= 2
<1>1. Width - 1 \in Nat /\ (Width - 1) + 1 = Width  BY CodecAssumption
<1>2. Power(2, Width) = 2 * Power(2, Width - 1)
  <2>1. Power(2, (Width - 1) + 1) = 2 * Power(2, Width - 1)  BY <1>1, PowerSucc
  <2> QED  BY <1>1, <2>1
<1>3. Power(2, Width - 1) \in Nat \ {0}  BY <1>1, PowerPositive
<1> QED  BY <1>2, <1>3 DEF Base

LEMMA MagnitudeIs == \A m \in Int : Magnitude(m) \in Nat /\ (m >= 0 => Magnitude(m) = m)
BY DEF Magnitude

\* A number has no digits beyond those that are counted.
LEMMA CountBounds ==
    ASSUME NEW m \in Nat, NEW b \in Nat, b >= 2
    PROVE  /\ Count(m, b) \in Nat
           /\ m < Power(b, Count(m, b))
           /\ m = 0 => Count(m, b) = 0
           /\ m # 0 => Count(m, b) # 0 /\ Power(b, Count(m, b) - 1) <= m
           /\ \A i \in Nat : i >= Count(m, b) => Digit(m, b, i) = 0
<1> DEFINE c == Count(m, b)
<1>1. c \in Nat /\ HasDigits(m, b, c)  BY CountIs
<1> HIDE DEF c
<1>2. m = 0 => c = 0  BY <1>1 DEF HasDigits
<1>3. m # 0 => c # 0 /\ Power(b, c - 1) <= m  BY <1>1 DEF HasDigits
<1>4. m < Power(b, c)
  <2>1. CASE m = 0
    <3>1. Power(b, c) \in Nat \ {0}  BY <1>1, DigitIs
    <3> QED  BY <2>1, <3>1
  <2>2. CASE m # 0  BY <1>1, <2>2 DEF HasDigits
  <2> QED  BY <2>1, <2>2
<1>5. ASSUME NEW i \in Nat, i >= c PROVE Digit(m, b, i) = 0
  <2> DEFINE d == Power(b, i)
  <2>1. b \in Nat \ {0}  OBVIOUS
  <2>2. Power(b, c) <= d  BY <1>1, <1>5, <2>1, PowerMonotone
  <2>3. d \in Nat \ {0} /\ Power(b, c) \in Nat  BY <1>1, DigitIs
  <2> HIDE DEF d
  <2>4. m \in 0..(d - 1) /\ m = 0 * d + m  BY <1>4, <2>2, <2>3
  <2>5. m \div d = 0  BY <2>3, <2>4, DivisionIs
  <2>6. 0 % b = 0  OBVIOUS
  <2> QED  BY <2>5, <2>6 DEF Digit, d
<1> QED  BY <1>1, <1>2, <1>3, <1>4, <1>5 DEF c

LEMMA SmallRemainder ==
    ASSUME NEW m \in Nat, NEW d \in Nat, m < d PROVE m % d = m
OBVIOUS

LEMMA DigitsAre ==
    ASSUME NEW m \in Nat, NEW b \in Nat, b >= 2
    PROVE  /\ Digits(m, b) = LowDigits(Count(m, b), m, b)
           /\ Digits(m, b) \in [1..Count(m, b) -> Nat]
           /\ Len(Digits(m, b)) = Count(m, b)
           /\ \A i \in 1..Count(m, b) : Digits(m, b)[i] = Digit(m, b, Count(m, b) - i)
           /\ Value(Digits(m, b), b) = m
<1> DEFINE c == Count(m, b)
           s == Digits(m, b)
<1>1. s = [i \in 1..c |-> Digit(m, b, c - i)]  BY DEF Digits
<1>2. c \in Nat /\ m < Power(b, c)  BY CountBounds
<1> HIDE DEF c, s
<1>3. ASSUME NEW i \in 1..c PROVE Digit(m, b, c - i) \in Nat
  <2>1. c - i \in Nat  BY <1>2
  <2>2. Digit(m, b, c - i) \in 0..(b - 1)  BY <2>1, DigitIs
  <2> QED  BY <2>2
<1>4. s \in [1..c -> Nat]  BY <1>1, <1>3
<1>5. Len(s) = c  BY <1>2, <1>4
<1>6. s = LowDigits(c, m, b)  BY <1>1 DEF LowDigits
<1>7. Value(s, b) = m % Power(b, c)  BY <1>2, <1>6, ValueIs
<1>8. Power(b, c) \in Nat  BY <1>2, DigitIs
<1>9. Value(s, b) = m  BY <1>2, <1>7, <1>8, SmallRemainder
<1> QED  BY <1>1, <1>4, <1>5, <1>6, <1>9 DEF c, s

\* Padding and truncation leave the low digits.
LEMMA PlaintextBytesIs ==
    ASSUME NEW m \in Int, NEW len \in Nat
    PROVE  PlaintextBytes(len, m) = LowDigits(len, Magnitude(m), Base)
<1> DEFINE a == Magnitude(m)
           c == Count(a, Base)
           s == Digits(a, Base)
<1>1. a \in Nat /\ Base \in Nat /\ Base >= 2  BY BaseIs, MagnitudeIs
<1>2. PlaintextBytes(len, m) =
          IF Len(s) <= len THEN Zeros(len - Len(s)) \o s
          ELSE SubSeq(s, Len(s) - len + 1, Len(s))
  BY DEF PlaintextBytes, Export
<1> HIDE DEF a
<1>3. /\ c \in Nat
      /\ \A i \in Nat : i >= c => Digit(a, Base, i) = 0
  BY <1>1, CountBounds
<1>4. /\ s \in [1..c -> Nat] /\ Len(s) = c
      /\ \A i \in 1..c : s[i] = Digit(a, Base, c - i)
  BY <1>1, DigitsAre
<1> HIDE DEF s, c
<1>5. CASE c <= len
  <2>1. PlaintextBytes(len, m) = Zeros(len - c) \o s  BY <1>2, <1>4, <1>5
  <2>2. len - c \in Nat  BY <1>3, <1>5
  <2>3. Zeros(len - c) \o s =
            [i \in 1..len |-> IF i <= len - c THEN 0 ELSE s[i - (len - c)]]
    BY <1>3, <1>4, <2>2 DEF Zeros
  <2>4. ASSUME NEW i \in 1..len
        PROVE  (IF i <= len - c THEN 0 ELSE s[i - (len - c)]) = Digit(a, Base, len - i)
    <3>1. CASE i <= len - c
      <4>1. len - i \in Nat /\ len - i >= c  BY <1>3, <3>1
      <4> QED  BY <1>3, <3>1, <4>1
    <3>2. CASE ~(i <= len - c)
      <4>1. i - (len - c) \in 1..c /\ c - (i - (len - c)) = len - i  BY <1>3, <3>2
      <4> QED  BY <1>4, <3>2, <4>1
    <3> QED  BY <3>1, <3>2
  <2> QED  BY <2>1, <2>3, <2>4 DEF LowDigits, a
<1>6. CASE ~(c <= len)
  <2>1. PlaintextBytes(len, m) = SubSeq(s, c - len + 1, c)  BY <1>2, <1>4, <1>6
  <2>2. SubSeq(s, c - len + 1, c) = [i \in 1..len |-> s[i + (c - len)]]
    BY <1>3, <1>4, <1>6
  <2>3. ASSUME NEW i \in 1..len PROVE s[i + (c - len)] = Digit(a, Base, len - i)
    <3>1. i + (c - len) \in 1..c /\ c - (i + (c - len)) = len - i  BY <1>3, <1>6
    <3> QED  BY <1>4, <3>1
  <2> QED  BY <2>1, <2>2, <2>3 DEF LowDigits, a
<1> QED  BY <1>5, <1>6 DEF a

\* As many bytes are needed as mpz_export writes.
LEMMA BytesNeededIs ==
    ASSUME NEW m \in Nat \ {0} PROVE BytesNeeded(m) = Count(m, Base)
<1> DEFINE w == Width
           c == Count(m, Base)
           k == BitLength(m)
<1>1. w \in Nat \ {0}  BY CodecAssumption
<1>2. c \in Nat /\ c # 0 /\ m < Power(Base, c) /\ Power(Base, c - 1) <= m
  BY BaseIs, CountBounds
<1>3. k \in Nat \ {0} /\ Power(2, k - 1) <= m /\ m < Power(2, k)
  BY BitLengthBounds
<1>4. BytesNeeded(m) = (k + w - 1) \div w  BY DEF BytesNeeded
<1> HIDE DEF c, k
<1>5. ASSUME NEW i \in Nat PROVE w * i \in Nat /\ Power(Base, i) = Power(2, w * i)
  <2>1. w * i \in Nat  BY <1>1
  <2>2. Power(Power(2, w), i) = Power(2, w * i)  BY <1>1, PowerPower
  <2> QED  BY <2>1, <2>2 DEF Base
<1>6. ASSUME NEW i \in Nat, NEW j \in Nat, Power(2, i) < Power(2, j) PROVE i < j
  <2> SUFFICES ASSUME j <= i PROVE FALSE
    OBVIOUS
  <2>1. Power(2, j) <= Power(2, i)  BY PowerMonotone
  <2>2. Power(2, j) \in Nat \ {0} /\ Power(2, i) \in Nat \ {0}  BY PowerPositive
  <2> QED  BY <1>6, <2>1, <2>2
<1>7. c - 1 \in Nat /\ k - 1 \in Nat  BY <1>2, <1>3
<1>8. k - 1 < w * c
  <2>1. Power(2, k - 1) < Power(2, w * c)
    <3>1. Power(2, k - 1) \in Nat /\ Power(2, w * c) \in Nat
      BY <1>2, <1>5, <1>7, PowerPositive
    <3>2. m < Power(2, w * c)  BY <1>2, <1>5
    <3> QED  BY <1>3, <3>1, <3>2
  <2> QED  BY <1>2, <1>5, <1>6, <1>7, <2>1
<1>9. w * (c - 1) < k
  <2>1. Power(2, w * (c - 1)) < Power(2, k)
    <3>1. Power(2, w * (c - 1)) \in Nat /\ Power(2, k) \in Nat
      BY <1>3, <1>5, <1>7, PowerPositive
    <3>2. Power(2, w * (c - 1)) <= m  BY <1>2, <1>5, <1>7
    <3> QED  BY <1>3, <3>1, <3>2
  <2> QED  BY <1>3, <1>5, <1>6, <1>7, <2>1
<1>10. (k + w - 1) \div w = c
  <2> DEFINE r == (k + w - 1) - c * w
  <2>1. w * (c - 1) = c * w - w /\ w * c = c * w /\ c * w \in Int  BY <1>1, <1>2
  <2>2. r \in 0..(w - 1)  BY <1>1, <1>3, <1>8, <1>9, <2>1
  <2>3. k + w - 1 \in Int /\ k + w - 1 = c * w + r  BY <1>1, <1>3, <2>1
  <2> HIDE DEF r
  <2> QED  BY <1>1, <1>2, <2>2, <2>3, DivisionIs
<1> QED  BY <1>4, <1>10 DEF c

\* The array of a ciphertext holds the low digits, and what is written outside it
\* are those there is no room for.
LEMMA CiphertextBytesIs ==
    ASSUME NEW m \in Nat, NEW len \in Nat
    PROVE  /\ CiphertextBytes(len, m) = LowDigits(len, m, Base)
           /\ WritesOutside(len, m) <=> m >= Power(Base, len)
<1> DEFINE c == Count(m, Base)
           s == Digits(m, Base)
           start == len - BytesNeeded(m)
<1>1. Base \in Nat /\ Base >= 2 /\ Magnitude(m) = m  BY BaseIs, MagnitudeIs
<1>2. /\ c \in Nat /\ (m = 0 => c = 0) /\ m < Power(Base, c)
      /\ m # 0 => c # 0 /\ Power(Base, c - 1) <= m
      /\ \A i \in Nat : i >= c => Digit(m, Base, i) = 0
  BY <1>1, CountBounds
<1>3. Len(s) = c /\ \A i \in 1..c : s[i] = Digit(m, Base, c - i)  BY <1>1, DigitsAre
<1>4. m # 0 => start = len - c  BY BytesNeededIs
<1>5. CiphertextBytes(len, m) =
          [i \in 1..len |-> IF i - start \in 1..Len(s) THEN s[i - start] ELSE 0]
  BY <1>1 DEF CiphertextBytes, Export
<1>6. WritesOutside(len, m) = \E i \in 1..Len(s) : start + i \notin 1..len
  BY <1>1 DEF WritesOutside, Export
<1> HIDE DEF c, s, start
<1>7. ASSUME NEW i \in 1..len
      PROVE  (IF i - start \in 1..c THEN s[i - start] ELSE 0) = Digit(m, Base, len - i)
  <2>1. CASE m # 0 /\ i - start \in 1..c
    <3>1. c - (i - start) = len - i  BY <1>2, <1>4, <2>1
    <3> QED  BY <1>3, <2>1, <3>1
  <2>2. CASE m # 0 /\ i - start \notin 1..c
    <3>1. len - i \in Nat /\ len - i >= c  BY <1>2, <1>4, <2>2
    <3> QED  BY <1>2, <2>2, <3>1
  <2>3. CASE m = 0
    <3>1. c = 0 /\ len - i \in Nat /\ len - i >= c  BY <1>2, <2>3
    <3>2. i - start \notin 1..c  BY <3>1
    <3> QED  BY <1>2, <3>1, <3>2
  <2> QED  BY <2>1, <2>2, <2>3
<1>8. CiphertextBytes(len, m) = LowDigits(len, m, Base)
  BY <1>3, <1>5, <1>7 DEF LowDigits
<1>9. ASSUME WritesOutside(len, m) PROVE m >= Power(Base, len)
  <2>1. PICK i \in 1..c : start + i \notin 1..len  BY <1>3, <1>6, <1>9
  <2>2. m # 0  BY <1>2, <2>1
  <2>3. c - 1 \in Nat /\ len <= c - 1  BY <1>2, <1>4, <2>1, <2>2
  <2>4. Power(Base, len) <= Power(Base, c - 1)
    <3>1. Base \in Nat \ {0}  BY <1>1
    <3> QED  BY <2>3, <3>1, PowerMonotone
  <2>5. Power(Base, len) \in Nat /\ Power(Base, c - 1) \in Nat  BY <1>1, <2>3, DigitIs
  <2> QED  BY <1>2, <2>2, <2>4, <2>5
<1>10. ASSUME m >= Power(Base, len) PROVE WritesOutside(len, m)
  <2>1. m # 0
    <3>1. Power(Base, len) \in Nat \ {0}  BY <1>1, DigitIs
    <3> QED  BY <1>10, <3>1
  <2>2. len < c
    <3> SUFFICES ASSUME c <= len PROVE FALSE
      BY <1>2
    <3>1. Base \in Nat \ {0}  BY <1>1
    <3>2. Power(Base, c) <= Power(Base, len)  BY <1>2, <3>1, PowerMonotone
    <3>3. Power(Base, len) \in Nat /\ Power(Base, c) \in Nat  BY <1>1, <1>2, DigitIs
    <3> QED  BY <1>2, <1>10, <3>2, <3>3
  <2>3. 1 \in 1..Len(s) /\ start + 1 \notin 1..len  BY <1>2, <1>3, <1>4, <2>1, <2>2
  <2> QED  BY <1>6, <2>3
<1> QED  BY <1>8, <1>9, <1>10

\* The bytes of a number before the first that is 0 are the digits of what the
\* others leave of it.
LEMMA UpToNulIs ==
    ASSUME NEW m \in Nat
    PROVE  \E k \in 0..Count(m, Base) :
               /\ Import(UpToNul(Digits(m, Base))) = m \div Power(Base, k)
               /\ k = 0 \/ Digit(m, Base, k - 1) = 0
               /\ \A j \in k..(Count(m, Base) - 1) : Digit(m, Base, j) # 0
<1> DEFINE c == Count(m, Base)
           s == Digits(m, Base)
           T == {l \in 0..c : l = c \/ s[l + 1] = 0}
           Is(l) == (\A i \in 1..l : s[i] # 0) /\ (l = c \/ s[l + 1] = 0)
           e == StrLen(s)
<1>1. Base \in Nat /\ Base >= 2  BY BaseIs
<1>2. c \in Nat /\ m < Power(Base, c)  BY <1>1, CountBounds
<1>3. /\ s \in [1..c -> Nat] /\ Len(s) = c
      /\ \A i \in 1..c : s[i] = Digit(m, Base, c - i)
  BY <1>1, DigitsAre
<1> HIDE DEF c, s
<1>4. \E l \in 0..c : Is(l)
  <2>1. c \in T /\ T \subseteq Nat  BY <1>2
  <2> HIDE DEF T
  <2>2. T # {}  BY <2>1
  <2>3. PICK l \in T : \A y \in T : l <= y  BY <2>1, <2>2, LeastNumber
  <2>4. l \in 0..c /\ (l = c \/ s[l + 1] = 0)  BY <2>3 DEF T
  <2>5. ASSUME NEW i \in 1..l, s[i] = 0 PROVE FALSE
    <3>1. i - 1 \in 0..c /\ (i - 1) + 1 = i /\ i - 1 < l  BY <1>2, <2>4
    <3>2. i - 1 \in T  BY <2>5, <3>1 DEF T
    <3> QED  BY <2>3, <2>4, <3>1, <3>2
  <2> QED  BY <2>4, <2>5
<1>5. e \in 0..c /\ Is(e)
  <2>1. e = CHOOSE l \in 0..c : Is(l)  BY <1>3 DEF StrLen
  <2> HIDE DEF e, Is
  <2> QED  BY <1>4, <2>1
<1>6. UpToNul(s) = SubSeq(s, 1, e)  BY DEF UpToNul
<1> HIDE DEF e
<1> DEFINE k == c - e
           v == m \div Power(Base, k)
<1>7. k \in 0..c /\ k \in Nat /\ e \in Nat /\ k + e = c  BY <1>2, <1>5
<1> HIDE DEF k
<1>8. v \in Nat /\ Power(Base, k) \in Nat \ {0} /\ Power(Base, e) \in Nat \ {0}
  BY <1>1, <1>7, DigitIs
<1>9. v < Power(Base, e)
  <2> DEFINE a == Power(Base, k)
             b == Power(Base, e)
  <2>1. Power(Base, c) = a * b
    <3>1. Power(Base, k + e) = a * b  BY <1>1, <1>7, PowerAdd
    <3> QED  BY <1>7, <3>1
  <2>2. a \in Nat \ {0} /\ b \in Nat \ {0}  BY <1>8
  <2>3. m < a * b  BY <1>2, <2>1
  <2> HIDE DEF a, b
  <2>4. m = (m \div a) * a + (m % a) /\ m % a \in 0..(a - 1) /\ m \div a \in Int
    BY <2>2, Division
  <2>5. m \div a < b
    <3> DEFINE u == m \div a
               r == m % a
    <3>1. m = u * a + r /\ r >= 0 /\ u \in Int /\ r \in Int  BY <2>2, <2>4
    <3> HIDE DEF u, r
    <3>2. ASSUME u >= b PROVE FALSE
      <4>1. u * a >= b * a /\ b * a = a * b /\ u * a \in Int /\ a * b \in Int
        BY <2>2, <3>1, <3>2
      <4> QED  BY <2>3, <3>1, <4>1
    <3> QED  BY <2>2, <3>1, <3>2 DEF u
  <2> QED  BY <2>5 DEF a, b
<1>10. SubSeq(s, 1, e) = LowDigits(e, v, Base)
  <2>1. SubSeq(s, 1, e) = [i \in 1..e |-> s[i]]  BY <1>2, <1>3, <1>5
  <2>2. ASSUME NEW i \in 1..e PROVE s[i] = Digit(v, Base, e - i)
    <3>1. i \in 1..c /\ e - i \in Nat /\ c - i = k + (e - i)  BY <1>2, <1>7
    <3>2. Digit(v, Base, e - i) = Digit(m, Base, k + (e - i))
      BY <1>1, <1>7, <3>1, QuotientDigits
    <3> QED  BY <1>3, <3>1, <3>2
  <2> HIDE DEF v
  <2> QED  BY <2>1, <2>2 DEF LowDigits
<1>11. Import(UpToNul(s)) = v
  <2> HIDE DEF v
  <2>1. Value(LowDigits(e, v, Base), Base) = v % Power(Base, e)  BY <1>1, <1>7, <1>8, ValueIs
  <2>2. v % Power(Base, e) = v  BY <1>8, <1>9, SmallRemainder
  <2> QED  BY <1>6, <1>10, <2>1, <2>2 DEF Import
<1>12. k = 0 \/ Digit(m, Base, k - 1) = 0
  <2> SUFFICES ASSUME k # 0 PROVE Digit(m, Base, k - 1) = 0
    OBVIOUS
  <2>1. e # c /\ e + 1 \in 1..c /\ c - (e + 1) = k - 1  BY <1>2, <1>5, <1>7
  <2> QED  BY <1>3, <1>5, <2>1
<1>13. ASSUME NEW j \in k..(c - 1) PROVE Digit(m, Base, j) # 0
  <2>1. c - j \in 1..e /\ c - j \in 1..c /\ c - (c - j) = j  BY <1>2, <1>7
  <2> QED  BY <1>3, <1>5, <2>1
<1> QED  BY <1>7, <1>11, <1>12, <1>13 DEF c, s

------------------------------------------------------------------------------
(* The number on its way.  While it is out, its bytes are those of the       *)
(* number sent; when it is back, it is what they told of it.                 *)

Typed ==
    /\ number \in Int
    /\ sent.number \in Int
    /\ sent.len \in Nat

Out ==
    /\ form # "number" => form = sent.form
    /\ form \in {"packed", "text"} => bytes = Export(sent.number)
    /\ form = "array" => bytes = LowDigits(sent.len, Magnitude(sent.number), Base)
    /\ form = "hex" => sent.number > 0 /\ bytes = Hex(sent.number)
    /\ outside => form = "array"

Answers == PackedMagnitude /\ ArraysHoldLowBytes /\ StringsEndAtNul /\ HexIsExact

IInv == Typed /\ Out /\ Answers

LEMMA InitInductive == Init => IInv
<1> SUFFICES ASSUME Init PROVE IInv
  OBVIOUS
<1>1. Typed  BY CodecAssumption DEF Init, Typed
<1>2. Out  BY DEF Init, Out
<1>3. Answers
  BY DEF Init, Answers, Back, PackedMagnitude, ArraysHoldLowBytes, StringsEndAtNul, HexIsExact
<1> QED  BY <1>1, <1>2, <1>3 DEF IInv

\* A number that goes out in a form that Out describes.
LEMMA GoingOut ==
    ASSUME IInv, NEW f \in {"packed", "array", "text", "hex"}, NEW len \in Nat, NEW s,
           GoesOut(f, len, s),
           f \in {"packed", "text"} => s = Export(number),
           f = "array" => s = LowDigits(len, Magnitude(number), Base),
           f = "hex" => number > 0 /\ s = Hex(number),
           outside' => f = "array"
    PROVE  IInv'
<1>1. /\ form' = f /\ bytes' = s /\ number' = number
      /\ sent' = [form |-> f, len |-> len, number |-> number]
  BY DEF GoesOut
<1>2. sent'.form = f /\ sent'.len = len /\ sent'.number = number  BY <1>1
<1>3. Typed'  BY <1>1, <1>2 DEF IInv, Typed
<1>4. Out'  BY <1>1, <1>2 DEF Out, LowDigits, Export, Hex
<1>5. Answers'
  BY <1>1 DEF Answers, Back, PackedMagnitude, ArraysHoldLowBytes, StringsEndAtNul, HexIsExact
<1> QED  BY <1>3, <1>4, <1>5 DEF IInv

\* A number that comes back with what its form tells of it.
LEMMA ComingBack ==
    ASSUME IInv, NEW f \in {"packed", "array", "text", "hex"}, NEW m \in Int,
           ComesBack(f, m),
           Answers'
    PROVE  IInv'
<1>1. /\ form = f /\ form' = "number" /\ number' = m /\ ~outside' /\ sent' = sent
  BY DEF ComesBack
<1>2. Typed'  BY <1>1 DEF IInv, Typed
<1>3. Out'  BY <1>1 DEF Out
<1> QED  BY <1>2, <1>3 DEF IInv

LEMMA UnpackAnswers ==
    ASSUME IInv, Unpack PROVE Import(bytes) \in Int /\ Answers'
<1> DEFINE M == Magnitude(sent.number)
<1>1. /\ form = "packed" /\ form' = "number" /\ sent' = sent /\ number' = Import(bytes)
  BY DEF Unpack, ComesBack
<1>2. sent.form = "packed" /\ bytes = Export(sent.number)  BY <1>1 DEF IInv, Out
<1>3. M \in Nat /\ Base \in Nat /\ Base >= 2  BY BaseIs, MagnitudeIs DEF IInv, Typed
<1>4. Import(bytes) = M  BY <1>2, <1>3, DigitsAre DEF Export, Import
<1> QED  BY <1>1, <1>2, <1>3, <1>4
         DEF Answers, Back, PackedMagnitude, ArraysHoldLowBytes, StringsEndAtNul, HexIsExact

LEMMA FromBytesAnswers ==
    ASSUME IInv, PlaintextFromBytes PROVE Import(bytes) \in Int /\ Answers'
<1> DEFINE M == Magnitude(sent.number)
<1>1. /\ form = "array" /\ form' = "number" /\ sent' = sent /\ number' = Import(bytes)
  BY DEF PlaintextFromBytes, ComesBack
<1>2. sent.form = "array" /\ bytes = LowDigits(sent.len, M, Base)  BY <1>1 DEF IInv, Out
<1>3. M \in Nat /\ Base \in Nat /\ Base >= 2 /\ sent.len \in Nat
  BY BaseIs, MagnitudeIs DEF IInv, Typed
<1>4. Import(bytes) = M % Power(Base, sent.len)  BY <1>2, <1>3, ValueIs DEF Import
<1>5. M % Power(Base, sent.len) \in Int
  <2>1. Power(Base, sent.len) \in Nat \ {0}  BY <1>3, DigitIs
  <2> QED  BY <1>3, <2>1, Quotient
<1> QED  BY <1>1, <1>2, <1>4, <1>5
         DEF Answers, Back, PackedMagnitude, ArraysHoldLowBytes, StringsEndAtNul, HexIsExact, Base

LEMMA FromStrAnswers ==
    ASSUME IInv, PlaintextFromStr PROVE Import(UpToNul(bytes)) \in Int /\ Answers'
<1> DEFINE M == Magnitude(sent.number)
<1>1. /\ form = "text" /\ form' = "number" /\ sent' = sent
      /\ number' = Import(UpToNul(bytes))
  BY DEF PlaintextFromStr, ComesBack
<1>2. sent.form = "text" /\ bytes = Digits(M, Base)  BY <1>1 DEF IInv, Out, Export
<1>3. M \in Nat /\ Base \in Nat /\ Base >= 2  BY BaseIs, MagnitudeIs DEF IInv, Typed
<1>4. PICK k \in 0..Count(M, Base) :
          /\ Import(UpToNul(bytes)) = M \div Power(Base, k)
          /\ k = 0 \/ Digit(M, Base, k - 1) = 0
          /\ \A j \in k..(Count(M, Base) - 1) : Digit(M, Base, j) # 0
  BY <1>2, <1>3, UpToNulIs
<1>5. M \div Power(Base, k) \in Int
  <2>1. k \in Nat  BY <1>3, CountBounds
  <2> QED  BY <1>3, <2>1, DigitIs
<1>6. StringsEndAtNul'
  BY <1>1, <1>4 DEF StringsEndAtNul, Base, Magnitude, Digit
<1> QED  BY <1>1, <1>2, <1>4, <1>5, <1>6
         DEF Answers, Back, PackedMagnitude, ArraysHoldLowBytes, HexIsExact

LEMMA FromHexAnswers ==
    ASSUME IInv, KeyFromHex PROVE Value(bytes, 16) \in Int /\ Answers'
<1>1. /\ form = "hex" /\ form' = "number" /\ sent' = sent /\ number' = Value(bytes, 16)
  BY DEF KeyFromHex, ComesBack
<1>2. sent.form = "hex" /\ sent.number > 0 /\ bytes = Hex(sent.number) /\ sent.number \in Int
  BY <1>1 DEF IInv, Out, Typed
<1>3. sent.number \in Nat /\ bytes = Digits(sent.number, 16)  BY <1>2 DEF Hex
<1>4. Value(bytes, 16) = sent.number  BY <1>3, DigitsAre
<1> QED  BY <1>1, <1>2, <1>4
         DEF Answers, Back, PackedMagnitude, ArraysHoldLowBytes, StringsEndAtNul, HexIsExact

LEMMA NextInductive == IInv /\ [Next]_vars => IInv'
<1> SUFFICES ASSUME IInv, [Next]_vars PROVE IInv'
  OBVIOUS
<1>1. number \in Int  BY DEF IInv, Typed
<1>2. ASSUME form = "number" PROVE ~outside  BY <1>2 DEF IInv, Out
<1>3. CASE Pack
  <2>1. GoesOut("packed", 0, Export(number)) /\ ~outside'  BY <1>2, <1>3 DEF Pack, GoesOut
  <2> QED  BY <2>1, GoingOut
<1>4. CASE Unpack
  <2>1. ComesBack("packed", Import(bytes))  BY <1>4 DEF Unpack
  <2> QED  BY <1>4, <2>1, UnpackAnswers, ComingBack
<1>5. ASSUME NEW len \in Lengths, PlaintextToBytes(len) PROVE IInv'
  <2>1. GoesOut("array", len, PlaintextBytes(len, number)) /\ ~outside'
    BY <1>2, <1>5 DEF PlaintextToBytes, GoesOut
  <2>2. len \in Nat  BY CodecAssumption
  <2>3. PlaintextBytes(len, number) = LowDigits(len, Magnitude(number), Base)
    BY <1>1, <2>2, PlaintextBytesIs
  <2> QED  BY <2>1, <2>2, <2>3, GoingOut
<1>6. ASSUME NEW len \in Lengths, CiphertextToBytes(len) PROVE IInv'
  <2>1. /\ number >= 0 /\ GoesOut("array", len, CiphertextBytes(len, number))
        /\ outside' = WritesOutside(len, number)
    BY <1>6 DEF CiphertextToBytes
  <2>2. len \in Nat /\ number \in Nat /\ Magnitude(number) = number
    BY <1>1, <2>1, CodecAssumption, MagnitudeIs
  <2>3. CiphertextBytes(len, number) = LowDigits(len, Magnitude(number), Base)
    BY <2>2, CiphertextBytesIs
  <2> QED  BY <2>1, <2>2, <2>3, GoingOut
<1>7. CASE PlaintextFromBytes
  <2>1. ComesBack("array", Import(bytes))  BY <1>7 DEF PlaintextFromBytes
  <2> QED  BY <1>7, <2>1, FromBytesAnswers, ComingBack
<1>8. CASE PlaintextToStr
  <2>1. GoesOut("text", 0, Export(number)) /\ ~outside'
    BY <1>2, <1>8 DEF PlaintextToStr, GoesOut
  <2> QED  BY <2>1, GoingOut
<1>9. CASE PlaintextFromStr
  <2>1. ComesBack("text", Import(UpToNul(bytes)))  BY <1>9 DEF PlaintextFromStr
  <2> QED  BY <1>9, <2>1, FromStrAnswers, ComingBack
<1>10. CASE KeyToHex
  <2>1. number > 0 /\ GoesOut("hex", 0, Hex(number)) /\ ~outside'
    BY <1>2, <1>10 DEF KeyToHex, GoesOut
  <2> QED  BY <2>1, GoingOut
<1>11. CASE KeyFromHex
  <2>1. ComesBack("hex", Value(bytes, 16))  BY <1>11 DEF KeyFromHex
  <2> QED  BY <1>11, <2>1, FromHexAnswers, ComingBack
<1>12. CASE UNCHANGED vars
  <2>1. Typed'  BY <1>12 DEF IInv, Typed, vars
  <2>2. Out'  BY <1>12 DEF IInv, Out, vars, LowDigits, Export, Hex
  <2>3. Answers'
    BY <1>12 DEF IInv, vars, Answers, Back, PackedMagnitude, ArraysHoldLowBytes,
                 StringsEndAtNul, HexIsExact
  <2> QED  BY <2>1, <2>2, <2>3 DEF IInv
<1> QED  BY <1>3, <1>4, <1>5, <1>6, <1>7, <1>8, <1>9, <1>10, <1>11, <1>12 DEF Next

LEMMA Inductive == Spec => []IInv
BY InitInductive, NextInductive, PTL DEF Spec

\* A number that msgpack brings, of any size, is the one that was sent, but for
\* the sign of a negative one.
THEOREM PackedMagnitudeAlways == Spec => []PackedMagnitude
<1>1. IInv => PackedMagnitude  BY DEF IInv, Answers
<1> QED  BY Inductive, <1>1, PTL

\* What paillier_plaintext_from_bytes reads from an array of any length, that
\* paillier_plaintext_to_bytes or paillier_ciphertext_to_bytes filled, is the
\* number modulo the number of values the array can have.
THEOREM ArraysHoldLowBytesAlways == Spec => []ArraysHoldLowBytes
<1>1. IInv => ArraysHoldLowBytes  BY DEF IInv, Answers
<1> QED  BY Inductive, <1>1, PTL

\* paillier_plaintext_from_str reads back the bytes of paillier_plaintext_to_str
\* before the first 0, and all of them if there is none.
THEOREM StringsEndAtNulAlways == Spec => []StringsEndAtNul
<1>1. IInv => StringsEndAtNul  BY DEF IInv, Answers
<1> QED  BY Inductive, <1>1, PTL

\* A key of any length comes back from hexadecimal as it went out.
THEOREM HexIsExactAlways == Spec => []HexIsExact
<1>1. IInv => HexIsExact  BY DEF IInv, Answers
<1> QED  BY Inductive, <1>1, PTL

\* "These behave like the corresponding functions for paillier_plaintext_t's",
\* which write nowhere but in the array of len bytes they allocate, however short
\* it is.  paillier_ciphertext_to_bytes does not behave so: for every number an
\* array of len bytes has no room for, and for no other, it writes outside it.
THEOREM ShortArraysOverrun ==
    ASSUME NEW len \in Lengths, number \in Int, CiphertextToBytes(len)
    PROVE  outside' <=> number >= Power(Base, len)
<1>1. number \in Nat /\ len \in Nat  BY CodecAssumption DEF CiphertextToBytes
<1>2. outside' = WritesOutside(len, number)  BY DEF CiphertextToBytes
<1> QED  BY <1>1, <1>2, CiphertextBytesIs
==============================================================================
