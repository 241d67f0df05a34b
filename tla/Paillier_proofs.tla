---------------------------- MODULE Paillier_proofs ----------------------------
(***************************************************************************)
(* That paillier_dec is the inverse of paillier_enc for the keys the       *)
(* library generates, and a homomorphism for its two operations.           *)
(***************************************************************************)
EXTENDS Paillier, Arithmetic_proofs

------------------------------------------------------------------------------
(* The functions of GMP. *)

LEMMA InvertIs ==
    ASSUME NEW a \in Int, NEW m \in Nat \ {0}, Unit(a, m)
    PROVE  Invert(a, m) \in 0..(m - 1) /\ Cong(a * Invert(a, m), 1, m)
<1>1. PICK y \in Int : Cong(a * y, 1, m)  BY DEF Unit
<1> DEFINE z == y % m
<1>2. z \in 0..(m - 1) /\ Cong(z, y, m)  BY CongMod
<1>3. z \in Int  BY <1>2
<1> HIDE DEF z
<1>4. a * z \in Int /\ a * y \in Int  BY <1>3
<1>5. Cong(a * z, a * y, m)  BY <1>2, <1>3, CongRefl, CongMul
<1>6. Cong(a * z, 1, m)  BY <1>1, <1>4, <1>5, CongTrans
<1>7. (a * z) % m = 1 % m  BY <1>4, <1>6, CongIff
<1>8. Invert(a, m) \in 0..(m - 1) /\ (a * Invert(a, m)) % m = 1 % m
  BY <1>2, <1>7 DEF Invert
<1>9. Invert(a, m) \in Int /\ a * Invert(a, m) \in Int  BY <1>8
<1> QED  BY <1>8, <1>9, CongIff

LEMMA InvertibleIsUnit ==
    ASSUME NEW a \in Int, NEW m \in Nat \ {0} PROVE Invertible(a, m) <=> Unit(a, m)
<1>1. ASSUME Invertible(a, m) PROVE Unit(a, m)
  <2>1. PICK y \in 0..(m - 1) : (a * y) % m = 1 % m  BY <1>1 DEF Invertible
  <2>2. y \in Int /\ a * y \in Int  BY <2>1
  <2>3. Cong(a * y, 1, m)  BY <2>1, <2>2, CongIff
  <2> QED  BY <2>2, <2>3 DEF Unit
<1>2. ASSUME Unit(a, m) PROVE Invertible(a, m)
  <2>1. Invert(a, m) \in 0..(m - 1) /\ Cong(a * Invert(a, m), 1, m)  BY <1>2, InvertIs
  <2>2. Invert(a, m) \in Int /\ a * Invert(a, m) \in Int  BY <2>1
  <2>3. (a * Invert(a, m)) % m = 1 % m  BY <2>1, <2>2, CongIff
  <2> QED  BY <2>1, <2>3 DEF Invertible
<1> QED  BY <1>1, <1>2

\* One step of squaring and multiplying, on k and k \div 2.
SquareMultiply(k, half, base, m) ==
    LET square == (half * half) % m
    IN  IF k % 2 = 0 THEN square ELSE (square * base) % m

SquaresTo(base, abs, m) ==
    LET power[k \in 0..abs] ==
            IF k = 0 THEN 1 % m
            ELSE LET half   == power[k \div 2]
                     square == (half * half) % m
                 IN  IF k % 2 = 0 THEN square ELSE (square * base) % m
    IN  power[abs]

LEMMA SquareMultiplyIs ==
    ASSUME NEW base \in Int, NEW m \in Nat \ {0}, NEW k \in Nat \ {0}
    PROVE  SquareMultiply(k, Power(base, k \div 2) % m, base, m) = Power(base, k) % m
<1> DEFINE j == k \div 2
           u == Power(base, j)
           v == u % m
           s == (v * v) % m
<1>1. j \in Nat /\ k = (j + j) + (k % 2) /\ k % 2 \in {0, 1}  OBVIOUS
<1>2. u \in Int  BY <1>1, PowerSucc
<1>3. Power(base, j + j) = u * u  BY <1>1, PowerAdd
<1>u. u * u \in Int
  <2> HIDE DEF u
  <2> QED  BY <1>2
<1>4. v \in Int /\ Cong(v, u, m)
  <2> HIDE DEF u
  <2>1. v \in 0..(m - 1) /\ Cong(v, u, m)  BY <1>2, CongMod
  <2> HIDE DEF v
  <2> QED  BY <2>1
<1>5. s \in Int /\ Cong(s, u * u, m)
  <2> HIDE DEF u, v
  <2>1. v * v \in Int  BY <1>4
  <2>2. Cong(v * v, u * u, m)  BY <1>2, <1>4, CongMul
  <2>3. s \in 0..(m - 1) /\ Cong(s, v * v, m)  BY <2>1, CongMod
  <2>4. s \in Int  BY <2>3
  <2> HIDE DEF s
  <2> QED  BY <1>u, <2>1, <2>2, <2>3, <2>4, CongTrans
<1>6. CASE k % 2 = 0
  <2>1. k = j + j  BY <1>1, <1>6
  <2>2. s % m = (u * u) % m
    <3> HIDE DEF s, u
    <3> QED  BY <1>5, <1>u, CongIff
  <2>3. s % m = s
    <3> HIDE DEF u, v
    <3>1. v * v \in Int  BY <1>4
    <3>2. s \in 0..(m - 1)  BY <3>1, CongMod
    <3> HIDE DEF s
    <3> QED  BY <3>2
  <2>4. s = Power(base, k) % m  BY <1>3, <2>1, <2>2, <2>3
  <2> QED  BY <1>6, <2>4 DEF SquareMultiply
<1>7. CASE k % 2 # 0
  <2>1. k = (j + j) + 1 /\ j + j \in Nat  BY <1>1, <1>7
  <2>2. Power(base, k) = base * (u * u)  BY <1>3, <2>1, PowerSucc
  <2>3. base * (u * u) = (u * u) * base /\ (u * u) * base \in Int
    <3> HIDE DEF u
    <3> QED  BY <1>2
  <2>4. (s * base) % m = ((u * u) * base) % m
    <3> HIDE DEF s, u
    <3>1. s * base \in Int  BY <1>5
    <3>2. Cong(s * base, (u * u) * base, m)  BY <1>5, <1>u, CongRefl, CongMul
    <3> QED  BY <2>3, <3>1, <3>2, CongIff
  <2>5. (s * base) % m = Power(base, k) % m  BY <2>2, <2>3, <2>4
  <2> QED  BY <1>7, <2>5 DEF SquareMultiply
<1> QED  BY <1>6, <1>7

LEMMA SquaresToPower ==
    ASSUME NEW base \in Int, NEW abs \in Nat, NEW m \in Nat \ {0}
    PROVE  SquaresTo(base, abs, m) = Power(base, abs) % m
<1> DEFINE Eq(h) == h = [k \in 0..abs |->
                           IF k = 0 THEN 1 % m
                           ELSE SquareMultiply(k, h[k \div 2], base, m)]
           f == CHOOSE h : Eq(h)
           g == [k \in 0..abs |-> Power(base, k) % m]
<1>1. ASSUME NEW k \in 0..abs, k # 0 PROVE k \div 2 \in 0..abs /\ k \div 2 \in 0..(k - 1)
  BY <1>1
<1>2. Eq(g)
  <2>1. ASSUME NEW k \in 0..abs
        PROVE  g[k] = IF k = 0 THEN 1 % m ELSE SquareMultiply(k, g[k \div 2], base, m)
    <3>1. CASE k = 0  BY <3>1, PowerZero
    <3>2. CASE k # 0
      <4>1. g[k \div 2] = Power(base, k \div 2) % m  BY <1>1, <3>2
      <4>2. k \in Nat \ {0}  BY <3>2
      <4>3. SquareMultiply(k, Power(base, k \div 2) % m, base, m) = Power(base, k) % m
        BY <4>2, SquareMultiplyIs
      <4>4. g[k] = Power(base, k) % m  OBVIOUS
      <4> HIDE DEF g
      <4> QED  BY <3>2, <4>1, <4>3, <4>4
    <3> QED  BY <3>1, <3>2
  <2>2. g = [k \in 0..abs |-> g[k]]  OBVIOUS
  <2> HIDE DEF g
  <2> QED  BY <2>1, <2>2
<1>3. Eq(f)
  <2> HIDE DEF g
  <2> QED  BY <1>2
<1>4. SquaresTo(base, abs, m) = f[abs]  BY DEF SquaresTo, SquareMultiply
<1> HIDE DEF f
<1> DEFINE S == {k \in Nat : k <= abs => f[k] = Power(base, k) % m}
<1>5. ASSUME NEW k \in Nat, \A j \in 0..(k - 1) : j \in S PROVE k \in S
  <2> SUFFICES ASSUME k <= abs PROVE f[k] = Power(base, k) % m
    OBVIOUS
  <2>1. k \in 0..abs  OBVIOUS
  <2>2. f[k] = IF k = 0 THEN 1 % m ELSE SquareMultiply(k, f[k \div 2], base, m)
    BY <1>3, <2>1
  <2>3. CASE k = 0  BY <2>2, <2>3, PowerZero
  <2>4. CASE k # 0
    <3>1. k \div 2 \in 0..(k - 1)  BY <1>1, <2>1, <2>4
    <3>2. \A i \in 0..(k - 1) : i <= abs  OBVIOUS
    <3>3. f[k \div 2] = Power(base, k \div 2) % m  BY <1>5, <3>1, <3>2
    <3>4. k \in Nat \ {0}  BY <2>4
    <3> QED  BY <2>2, <2>4, <3>3, <3>4, SquareMultiplyIs
  <2> QED  BY <2>3, <2>4
<1> HIDE DEF S
<1>6. abs \in S  BY <1>5, CompleteInduction
<1> QED  BY <1>4, <1>6 DEF S

\* mpz_powm computes powers modulo m.
LEMMA PowModIs ==
    ASSUME NEW b \in Int, NEW e \in Nat, NEW m \in Nat \ {0}
    PROVE  PowMod(b, e, m) = Power(b, e) % m
<1>1. PowMod(b, e, m) = SquaresTo(b % m, e, m)
  <2>1. ~(e < 0)  OBVIOUS
  <2> QED  BY <2>1 DEF PowMod, SquaresTo
<1>2. b % m \in Int /\ Cong(b % m, b, m)
  <2>1. b % m \in 0..(m - 1) /\ Cong(b % m, b, m)  BY CongMod
  <2> QED  BY <2>1
<1>3. PowMod(b, e, m) = Power(b % m, e) % m  BY <1>1, <1>2, SquaresToPower
<1>4. Cong(Power(b % m, e), Power(b, e), m)  BY <1>2, CongPower
<1>5. Power(b % m, e) \in Int /\ Power(b, e) \in Int  BY <1>2, PowerSucc
<1> QED  BY <1>3, <1>4, <1>5, CongIff

\* A negative power is a power of the inverse.
LEMMA PowModNegative ==
    ASSUME NEW b \in Int, NEW e \in Int, e < 0, NEW m \in Nat \ {0}, Unit(b, m)
    PROVE  PowMod(b, e, m) = Power(Invert(b, m), -e) % m
<1>1. PowMod(b, e, m) = SquaresTo(Invert(b, m), -e, m)  BY DEF PowMod, SquaresTo
<1>2. Invert(b, m) \in Int
  <2>1. Invert(b, m) \in 0..(m - 1)  BY InvertIs
  <2> QED  BY <2>1
<1>3. -e \in Nat  OBVIOUS
<1> QED  BY <1>1, <1>2, <1>3, SquaresToPower

LEMMA LcmIs ==
    ASSUME NEW a \in Nat \ {0}, NEW b \in Nat \ {0}
    PROVE  /\ Lcm(a, b) \in 1..(a * b)
           /\ Lcm(a, b) % a = 0 /\ Lcm(a, b) % b = 0
           /\ \A k \in 1..(Lcm(a, b) - 1) : k % a # 0 \/ k % b # 0
<1> DEFINE T == {l \in Nat \ {0} : l % a = 0 /\ l % b = 0}
<1>1. a * b \in T
  <2>1. a * b \in Nat \ {0}  OBVIOUS
  <2>2. a * b = 0 + b * a /\ a * b = 0 + a * b  OBVIOUS
  <2>3. Cong(a * b, 0, a) /\ Cong(a * b, 0, b)  BY <2>2 DEF Cong
  <2>4. (a * b) % a = 0 % a /\ (a * b) % b = 0 % b  BY <2>1, <2>3, CongIff
  <2>5. 0 % a = 0 /\ 0 % b = 0  OBVIOUS
  <2> QED  BY <2>1, <2>4, <2>5
<1>2. PICK d \in T : \A z \in T : d <= z
  <2>1. T \subseteq Nat /\ T # {}  BY <1>1
  <2> HIDE DEF T
  <2> QED  BY <2>1, LeastNumber
<1>3. d \in 1..(a * b)
  <2>1. d \in Nat \ {0} /\ d <= a * b  BY <1>1, <1>2
  <2>2. a * b \in Int  OBVIOUS
  <2> QED  BY <2>1, <2>2
<1>4. \A k \in 1..(d - 1) : k % a # 0 \/ k % b # 0
  <2> SUFFICES ASSUME NEW k \in 1..(d - 1), k % a = 0, k % b = 0 PROVE FALSE
    OBVIOUS
  <2>1. k \in T /\ k < d  BY <1>3
  <2>2. d <= k  BY <1>2, <2>1
  <2>3. d \in Nat /\ k \in Nat  BY <1>3
  <2> HIDE DEF T
  <2> QED  BY <2>1, <2>2, <2>3
<1>5. d % a = 0 /\ d % b = 0  OBVIOUS
<1> HIDE DEF T
<1> QED  BY <1>3, <1>4, <1>5 DEF Lcm

\* The least common multiple is a multiple of both numbers and divides their
\* product.
LEMMA LcmDivides ==
    ASSUME NEW a \in Nat \ {0}, NEW b \in Nat \ {0}
    PROVE  /\ Lcm(a, b) \in Nat \ {0}
           /\ \E k \in Nat : Lcm(a, b) = a * k
           /\ \E k \in Nat : Lcm(a, b) = b * k
           /\ \E k \in Nat : a * b = Lcm(a, b) * k
<1> DEFINE l == Lcm(a, b)
           r == (a * b) % l
<1>1. /\ l \in 1..(a * b) /\ l % a = 0 /\ l % b = 0
      /\ \A k \in 1..(l - 1) : k % a # 0 \/ k % b # 0
  BY LcmIs
<1>2. l \in Nat \ {0} /\ l \in Int  BY <1>1
<1> HIDE DEF l
<1>3. ASSUME NEW u \in Nat, NEW c \in Nat \ {0}, u % c = 0
      PROVE  \E k \in Nat : u = c * k
  <2>1. u = (u % c) + (u \div c) * c /\ u \div c \in Nat  OBVIOUS
  <2>2. u = c * (u \div c)  BY <1>3, <2>1
  <2> QED  BY <2>1, <2>2
<1>p. a * b \in Nat /\ a \in Int /\ b \in Int  OBVIOUS
<1>4. r \in 0..(l - 1) /\ Cong(r, a * b, l) /\ r \in Int
  <2>1. r \in 0..(l - 1) /\ Cong(r, a * b, l)  BY <1>2, <1>p, CongMod
  <2> HIDE DEF r
  <2> QED  BY <1>2, <2>1
<1> HIDE DEF r
<1>5. ASSUME NEW c \in Nat \ {0}, NEW e \in Nat, a * b = c * e, l % c = 0 PROVE r % c = 0
  <2>1. PICK k \in Nat : l = c * k  BY <1>2, <1>3, <1>5
  <2>2. PICK j \in Int : r = (a * b) + j * l  BY <1>4 DEF Cong
  <2>3. r = 0 + (e + (j * k)) * c
    <3>1. r = c * e + j * (c * k)  BY <1>5, <2>1, <2>2
    <3>2. c * e + j * (c * k) = 0 + (e + (j * k)) * c  OBVIOUS
    <3> QED  BY <3>1, <3>2
  <2>4. e + (j * k) \in Int /\ 0 \in Int  OBVIOUS
  <2>5. Cong(r, 0, c)  BY <2>3, <2>4 DEF Cong
  <2>6. r % c = 0 % c /\ 0 % c = 0  BY <1>4, <2>5, CongIff
  <2> QED  BY <2>6
<1>6. r % a = 0 /\ r % b = 0
  <2>1. a * b = b * a  OBVIOUS
  <2> QED  BY <1>1, <1>5, <2>1
<1>7. r = 0  BY <1>1, <1>2, <1>4, <1>6
<1>8. \E k \in Nat : a * b = l * k
  <2>1. (a * b) % l = 0  BY <1>7 DEF r
  <2> QED  BY <1>2, <1>3, <1>p, <2>1
<1>9. (\E k \in Nat : l = a * k) /\ (\E k \in Nat : l = b * k)
  BY <1>1, <1>2, <1>3
<1> QED  BY <1>2, <1>8, <1>9 DEF l

------------------------------------------------------------------------------
(* Keys. *)

\* The primes of a key are odd, and less than twice each other.
LEMMA KeyPrimes ==
    /\ P \in Nat /\ Q \in Nat /\ P > 2 /\ Q > 2
    /\ IsPrime(P) /\ IsPrime(Q)
    /\ P < 2 * Q /\ Q < 2 * P
    /\ P % 2 = 1 /\ Q % 2 = 1
    /\ BitLength(n) = Bits
<1> DEFINE h == Power(2, Bits \div 2)
<1>1. /\ Bits \in Nat \ {0}
      /\ P \in 0..(h - 1) /\ Q \in 0..(h - 1)
      /\ IsPrime(P) /\ IsPrime(Q) /\ BitSet(P * Q, Bits - 1)
  BY KeyAssumption DEF KeyPairs
<1>2. PICK g \in Nat \ {0} : g < P /\ P < 2 * g /\ g < Q /\ Q < 2 * g
  BY <1>1, ProductLength
<1>3. BitLength(P * Q) = Bits  BY <1>1, ProductLength
<1>4. h \in Nat \ {0}
  <2>1. 2 \in Nat \ {0} /\ Bits \div 2 \in Nat  BY <1>1
  <2> QED  BY <2>1, PowerPositive
<1>5. P \in Nat /\ Q \in Nat
  <2> HIDE DEF h
  <2> QED  BY <1>1, <1>4
<1>6. P > 2 /\ Q > 2 /\ P < 2 * Q /\ Q < 2 * P
  BY <1>2, <1>5
<1>7. ASSUME NEW p \in Nat, IsPrime(p), p > 2 PROVE p % 2 = 1
  <2>1. p % 2 # 0  BY <1>7 DEF IsPrime
  <2> QED  BY <2>1
<1> QED  BY <1>1, <1>3, <1>5, <1>6, <1>7 DEF n

\* A prime of the key does not divide the other one minus 1.
LEMMA KeyUnits == Unit(Q - 1, P) /\ Unit(P - 1, Q)
<1>1. ASSUME NEW p \in Nat, NEW q \in Nat, p > 2, q > 2, IsPrime(p), q < 2 * p,
             p % 2 = 1, q % 2 = 1
      PROVE  Unit(q - 1, p)
  <2>1. ~Cong(q - 1, 0, p)
    <3> SUFFICES ASSUME Cong(q - 1, 0, p) PROVE FALSE
      OBVIOUS
    <3>1. PICK k \in Int : q - 1 = 0 + k * p  BY DEF Cong
    <3>2. k = 1
      <4>1. CASE k <= 0
        <5>1. k * p <= 0  BY <1>1, <4>1
        <5> QED  BY <1>1, <3>1, <5>1
      <4>2. CASE k >= 2
        <5>1. k * p >= 2 * p  BY <1>1, <4>2
        <5> QED  BY <1>1, <3>1, <5>1
      <4> QED  BY <4>1, <4>2
    <3>3. q = p + 1  BY <3>1, <3>2
    <3> QED  BY <1>1, <3>3
  <2> QED  BY <1>1, <2>1, PrimeUnit
<1> QED  BY <1>1, KeyPrimes

\* lambda is a multiple of both primes minus 1, and a unit modulo n.
LEMMA LambdaIs ==
    /\ lambda \in Nat \ {0}
    /\ \E k \in Nat : lambda = (P - 1) * k
    /\ \E k \in Nat : lambda = (Q - 1) * k
    /\ Unit(lambda, n)
<1>1. P - 1 \in Nat \ {0} /\ Q - 1 \in Nat \ {0} /\ P \in Int /\ Q \in Int
  BY KeyPrimes
<1>2. /\ lambda \in Nat \ {0}
      /\ \E k \in Nat : lambda = (P - 1) * k
      /\ \E k \in Nat : lambda = (Q - 1) * k
      /\ \E k \in Nat : (P - 1) * (Q - 1) = lambda * k
  BY <1>1, LcmDivides DEF lambda
<1>3. PICK k \in Nat : (P - 1) * (Q - 1) = lambda * k  BY <1>2
<1>4. ASSUME NEW p \in Int PROVE Unit(p - 1, p)
  <2>1. (p - 1) * (p - 1) = 1 + (p - 2) * p /\ p - 2 \in Int /\ p - 1 \in Int  OBVIOUS
  <2>2. Cong((p - 1) * (p - 1), 1, p)  BY <2>1 DEF Cong
  <2> QED  BY <2>1, <2>2 DEF Unit
<1>5. Unit((P - 1) * (Q - 1), P) /\ Unit((P - 1) * (Q - 1), Q)
  BY <1>1, <1>4, KeyUnits, UnitMul
<1>i. lambda \in Int /\ k \in Int  BY <1>2
<1>6. Unit(lambda, P) /\ Unit(lambda, Q)
  <2>1. Unit(lambda * k, P) /\ Unit(lambda * k, Q)  BY <1>3, <1>5
  <2> QED  BY <1>1, <1>i, <2>1, UnitFactor
<1>7. Unit(lambda, n)  BY <1>1, <1>i, <1>6, UnitProduct DEF n
<1> QED  BY <1>2, <1>7

LEMMA ModulusIs ==
    /\ n \in Nat /\ n > 8 /\ n_squared \in Nat \ {0} /\ n_squared = n * n
    /\ n_plusone = 1 + n
<1>1. P \in Nat /\ Q \in Nat /\ P > 2 /\ Q > 2  BY KeyPrimes
<1>2. P * Q \in Nat /\ P * Q > 8  BY <1>1
<1>3. n \in Nat /\ n > 8  BY <1>2 DEF n
<1>4. n * n \in Nat \ {0} /\ n + 1 = 1 + n  BY <1>3
<1> QED  BY <1>3, <1>4 DEF n_squared, n_plusone

\* What is prime to both primes is a unit.
LEMMA UnitModN ==
    ASSUME NEW r \in Int PROVE Unit(r, n) <=> r % P # 0 /\ r % Q # 0
<1>1. P \in Nat \ {0} /\ Q \in Nat \ {0} /\ P \in Int /\ Q \in Int /\ IsPrime(P) /\ IsPrime(Q)
  BY KeyPrimes
<1>2. ASSUME NEW p \in Nat \ {0}, IsPrime(p) PROVE Unit(r, p) <=> r % p # 0
  <2>1. Unit(r, p) <=> ~Cong(r, 0, p)  BY <1>2, PrimeZero
  <2>2. Cong(r, 0, p) <=> r % p = 0 % p  BY CongIff
  <2>3. 0 % p = 0  OBVIOUS
  <2> QED  BY <2>1, <2>2, <2>3
<1>3. Unit(r, n) <=> Unit(r, P) /\ Unit(r, Q)  BY <1>1, UnitProduct DEF n
<1> QED  BY <1>1, <1>2, <1>3

\* Carmichael's theorem for n.
LEMMA Carmichael ==
    ASSUME P # Q, NEW r \in Int, Unit(r, n)
    PROVE  Cong(Power(r, lambda), 1, n)
<1>1. P \in Int /\ Q \in Int /\ IsPrime(P) /\ IsPrime(Q) /\ P > 2 /\ Q > 2  BY KeyPrimes
<1>2. Unit(r, P) /\ Unit(r, Q)  BY <1>1, UnitProduct DEF n
<1>3. ASSUME NEW p \in Int, IsPrime(p), p > 2, Unit(r, p), NEW k \in Nat, lambda = (p - 1) * k
      PROVE  Cong(Power(r, lambda), 1, p)
  <2>1. p - 1 \in Nat  BY <1>3
  <2>2. Cong(Power(r, p - 1), 1, p)  BY <1>3, Fermat
  <2>3. Power(r, p - 1) \in Int  BY <2>1, PowerSucc
  <2>4. Cong(Power(Power(r, p - 1), k), Power(1, k), p)  BY <2>2, <2>3, CongPower
  <2>5. Power(Power(r, p - 1), k) = Power(r, lambda)  BY <1>3, <2>1, PowerPower
  <2>6. Power(1, k) = 1  BY PowerOne
  <2> QED  BY <2>4, <2>5, <2>6
<1>4. Cong(Power(r, lambda), 1, P)  BY <1>1, <1>2, <1>3, LambdaIs
<1>5. Cong(Power(r, lambda), 1, Q)  BY <1>1, <1>2, <1>3, LambdaIs
<1>6. Unit(P, Q)  BY <1>1, PrimesCoprime
<1>7. Power(r, lambda) \in Int
  <2>1. lambda \in Nat  BY LambdaIs
  <2> QED  BY <2>1, PowerSucc
<1> QED  BY <1>1, <1>4, <1>5, <1>6, <1>7, CongProduct DEF n

------------------------------------------------------------------------------
(* Encryption and decryption.  A number c stands for m if its power lambda   *)
(* is 1 + m lambda n modulo n^2: this is what decryption reads.              *)

Holds(c, m) == Cong(Power(c, lambda), 1 + (m * lambda) * n, n_squared)

\* The quotient by n that completes the key and that decrypts.
LEMMA QuotientIs ==
    ASSUME NEW N \in Nat, N > 1, NEW v \in Int, NEW k \in Int, Cong(v, 1 + k * N, N * N)
    PROVE  ((v % (N * N)) - 1) \div N = k % N
<1> DEFINE r == k % N
           w == 1 + r * N
<1>1. r \in 0..(N - 1) /\ Cong(k, r, N)
  <2>1. N \in Nat \ {0}  OBVIOUS
  <2> QED  BY <2>1, CongMod
<1>2. r \in Int  BY <1>1
<1> HIDE DEF r
<1>3. N * N \in Nat \ {0} /\ w \in Int /\ 1 + k * N \in Int /\ k * N \in Int /\ r * N \in Int
  BY <1>2
<1>4. Cong(k * N, r * N, N * N)
  <2>1. N \in Int  OBVIOUS
  <2> QED  BY <1>1, <1>2, <2>1, CongScale
<1>5. Cong(1 + k * N, w, N * N)  BY <1>3, <1>4, CongRefl, CongAdd
<1>6. w \in 0..((N * N) - 1)
  <2>1. 0 <= r * N /\ r * N <= (N - 1) * N  BY <1>1
  <2>2. (N - 1) * N = (N * N) - N  OBVIOUS
  <2> QED  BY <1>3, <2>1, <2>2
<1>7. Cong(v, w, N * N)  BY <1>3, <1>5, CongTrans
<1>8. v % (N * N) = w % (N * N)  BY <1>3, <1>7, CongIff
<1>9. w % (N * N) = w
  <2> DEFINE M == N * N
  <2>1. M \in Nat \ {0} /\ w \in 0..(M - 1)  BY <1>3, <1>6
  <2> HIDE DEF M, w
  <2>2. w % M = w  BY <2>1
  <2> QED  BY <2>2 DEF M
<1>10. (w - 1) \div N = r
  <2>1. w - 1 = r * N  BY <1>3
  <2>2. (r * N) \div N = r
    <3>1. r * N = 0 + r * N /\ 0 \in 0..(N - 1)  BY <1>3
    <3> QED  BY <1>2, <3>1
  <2> QED  BY <2>1, <2>2
<1> QED  BY <1>8, <1>9, <1>10 DEF r

\* x is the inverse of lambda, whichever primes of the right length the key has.
LEMMA KeyIsWhole ==
    /\ log_lambda = lambda % n
    /\ Unit(log_lambda, n)
    /\ x \in 0..(n - 1)
    /\ Cong(lambda * x, 1, n)
<1>1. lambda \in Nat /\ lambda \in Int /\ Unit(lambda, n)
  <2>1. lambda \in Nat /\ Unit(lambda, n)  BY LambdaIs
  <2> QED  BY <2>1
<1>2. n \in Nat /\ n > 8 /\ n \in Int /\ n \in Nat \ {0} /\ n_squared \in Nat \ {0}
  BY ModulusIs
<1>3. log_lambda = lambda % n
  <2>1. PowMod(n_plusone, lambda, n_squared) = Power(1 + n, lambda) % (n * n)
    <3>1. n_plusone \in Int  BY <1>2, ModulusIs
    <3> QED  BY <1>1, <1>2, <3>1, ModulusIs, PowModIs
  <2>2. PICK t \in Int : Power(1 + n, lambda) = (1 + lambda * n) + t * (n * n)
    BY <1>1, <1>2, Binomial
  <2>3. Cong(Power(1 + n, lambda), 1 + lambda * n, n * n)  BY <2>2 DEF Cong
  <2>4. Power(1 + n, lambda) \in Int
    <3>1. 1 + n \in Int  BY <1>2
    <3> QED  BY <1>1, <3>1, PowerSucc
  <2>5. ((Power(1 + n, lambda) % (n * n)) - 1) \div n = lambda % n
    <3>1. n > 1  BY <1>2
    <3> QED  BY <1>1, <1>2, <2>3, <2>4, <3>1, QuotientIs
  <2> QED  BY <2>1, <2>5 DEF log_lambda
<1> DEFINE l == lambda % n
<1>4. l \in Int /\ Cong(lambda, l, n) /\ Cong(l, lambda, n)
  <2>1. l \in 0..(n - 1) /\ Cong(lambda, l, n) /\ Cong(l, lambda, n)  BY <1>1, <1>2, CongMod
  <2> QED  BY <2>1
<1>5. Unit(l, n)
  <2> HIDE DEF l
  <2> QED  BY <1>1, <1>2, <1>4, UnitCong
<1>6. x \in 0..(n - 1) /\ Cong(l * x, 1, n)
  <2>1. x = Invert(l, n)  BY <1>3 DEF x
  <2> HIDE DEF l
  <2> QED  BY <1>2, <1>4, <1>5, <2>1, InvertIs
<1>7. x \in Int  BY <1>6
<1>8. Cong(lambda * x, 1, n)
  <2> HIDE DEF l
  <2>1. lambda * x \in Int /\ l * x \in Int  BY <1>1, <1>4, <1>7
  <2>2. Cong(lambda * x, l * x, n)  BY <1>1, <1>2, <1>4, <1>7, CongRefl, CongMul
  <2> QED  BY <1>2, <1>6, <2>1, <2>2, CongTrans
<1> QED  BY <1>3, <1>5, <1>6, <1>8

\* What paillier_dec returns for a number that stands for m.
LEMMA DecIs ==
    ASSUME NEW c \in 0..(n_squared - 1), NEW m \in Int, Holds(c, m)
    PROVE  Dec[c] = m % n
<1>1. lambda \in Nat /\ lambda \in Int
  <2>1. lambda \in Nat  BY LambdaIs
  <2> QED  BY <2>1
<1>2. n \in Nat /\ n > 1 /\ n \in Int /\ n \in Nat \ {0} /\ n_squared = n * n
      /\ n_squared \in Nat \ {0}
  BY ModulusIs
<1>3. c \in Int  BY <1>2
<1>4. x \in Int /\ Cong(lambda * x, 1, n)
  <2>1. x \in 0..(n - 1) /\ Cong(lambda * x, 1, n)  BY KeyIsWhole
  <2> QED  BY <1>2, <2>1
<1> DEFINE k == m * lambda
           r == k % n
<1>5. k \in Int  BY <1>1
<1>6. r \in Int /\ Cong(r, k, n)
  <2> HIDE DEF k
  <2>1. r \in 0..(n - 1) /\ Cong(r, k, n)  BY <1>2, <1>5, CongMod
  <2> QED  BY <1>2, <2>1
<1>7. (PowMod(c, lambda, n_squared) - 1) \div n = r
  <2>1. PowMod(c, lambda, n_squared) = Power(c, lambda) % (n * n)
    BY <1>1, <1>2, <1>3, PowModIs
  <2>2. Power(c, lambda) \in Int  BY <1>1, <1>3, PowerSucc
  <2>3. Cong(Power(c, lambda), 1 + k * n, n * n)  BY <1>2 DEF Holds
  <2> HIDE DEF k
  <2>4. ((Power(c, lambda) % (n * n)) - 1) \div n = r
    BY <1>2, <1>5, <2>2, <2>3, QuotientIs
  <2> QED  BY <2>1, <2>4
<1>8. Dec[c] = (r * x) % n  BY <1>7 DEF Dec
<1>9. (r * x) % n = m % n
  <2>1. Cong(r * x, k * x, n)
    <3> HIDE DEF k, r
    <3> QED  BY <1>2, <1>4, <1>5, <1>6, CongRefl, CongMul
  <2>2. k * x = m * (lambda * x) /\ m * (lambda * x) \in Int /\ lambda * x \in Int
    BY <1>1, <1>4
  <2>3. Cong(m * (lambda * x), m * 1, n)  BY <1>2, <1>4, <2>2, CongRefl, CongMul
  <2>4. m * 1 = m  OBVIOUS
  <2>5. r * x \in Int
    <3> HIDE DEF r
    <3> QED  BY <1>4, <1>6
  <2>6. Cong(r * x, m * (lambda * x), n)  BY <2>1, <2>2
  <2> HIDE DEF k, r
  <2>7. Cong(r * x, m, n)  BY <1>2, <2>2, <2>3, <2>4, <2>5, <2>6, CongTrans
  <2> QED  BY <1>2, <2>5, <2>7, CongIff
<1> QED  BY <1>8, <1>9

\* A power of n + 1, negative exponents included.
LEMMA PowerOfNPlusOne ==
    ASSUME NEW m \in Int
    PROVE  /\ PowMod(n_plusone, m, n_squared) \in 0..(n_squared - 1)
           /\ Cong(PowMod(n_plusone, m, n_squared), 1 + m * n, n_squared)
<1> DEFINE g == 1 + n
<1>1. n \in Int /\ n_squared \in Nat \ {0} /\ n_squared = n * n /\ n_plusone = g
      /\ n_squared \in Int /\ g \in Int
  BY ModulusIs
<1>2. ASSUME NEW z \in Int, NEW k \in Nat
      PROVE  Power(1 + z * n, k) \in Int /\ Cong(Power(1 + z * n, k), 1 + (k * z) * n, n_squared)
  <2> DEFINE y == z * n
  <2>1. y \in Int /\ 1 + y \in Int  BY <1>1
  <2>2. PICK t \in Int : Power(1 + y, k) = (1 + k * y) + t * (y * y)
    <3> HIDE DEF y
    <3> QED  BY <2>1, Binomial
  <2>3. k * y = (k * z) * n /\ t * (y * y) = ((t * z) * z) * n_squared /\ (t * z) * z \in Int
    BY <1>1
  <2>4. Cong(Power(1 + y, k), 1 + (k * z) * n, n_squared)  BY <2>2, <2>3 DEF Cong
  <2>5. Power(1 + y, k) \in Int
    <3> HIDE DEF y
    <3> QED  BY <2>1, PowerSucc
  <2> QED  BY <2>4, <2>5
<1>3. ASSUME NEW v \in Int, Cong(v, 1 + m * n, n_squared)
      PROVE  /\ v % n_squared \in 0..(n_squared - 1)
             /\ Cong(v % n_squared, 1 + m * n, n_squared)
  <2>1. v % n_squared \in 0..(n_squared - 1) /\ Cong(v % n_squared, v, n_squared)
    BY <1>1, CongMod
  <2>2. v % n_squared \in Int /\ 1 + m * n \in Int  BY <1>1, <2>1
  <2> QED  BY <1>1, <1>3, <2>1, <2>2, CongTrans
<1>4. CASE m >= 0
  <2>1. m \in Nat  BY <1>4
  <2>2. PowMod(n_plusone, m, n_squared) = Power(g, m) % n_squared
    BY <1>1, <2>1, PowModIs
  <2>3. g = 1 + 1 * n /\ m * 1 = m /\ 1 \in Int  BY <1>1
  <2>4. Power(g, m) \in Int /\ Cong(Power(g, m), 1 + m * n, n_squared)
    BY <1>2, <2>1, <2>3
  <2> QED  BY <1>3, <2>2, <2>4
<1>5. CASE m < 0
  <2> DEFINE y == Invert(g, n_squared)
             z == 1 + (-1) * n
  <2>1. z \in Int /\ g * z \in Int /\ g * z = 1 + (-1) * n_squared /\ -1 \in Int
    BY <1>1
  <2> HIDE DEF z
  <2>2. Cong(g * z, 1, n_squared)  BY <2>1 DEF Cong
  <2>3. Unit(g, n_squared)  BY <2>1, <2>2 DEF Unit
  <2> HIDE DEF g
  <2>4. y \in 0..(n_squared - 1) /\ Cong(g * y, 1, n_squared)  BY <1>1, <2>3, InvertIs
  <2>5. y \in Int /\ g * y \in Int  BY <1>1, <2>4
  <2>6. PowMod(n_plusone, m, n_squared) = Power(y, -m) % n_squared
    BY <1>1, <1>5, <2>3, PowModNegative
  <2> HIDE DEF y
  <2>7. Cong(y, z, n_squared)
    <3>1. Cong(1, g * z, n_squared)  BY <1>1, <2>1, <2>2, CongSym
    <3>2. Cong(g * y, g * z, n_squared)  BY <1>1, <2>1, <2>4, <2>5, <3>1, CongTrans
    <3> QED  BY <1>1, <2>1, <2>3, <2>5, <3>2, UnitCancel
  <2>8. -m \in Nat  BY <1>5
  <2>9. Cong(Power(y, -m), Power(z, -m), n_squared)  BY <1>1, <2>1, <2>5, <2>7, <2>8, CongPower
  <2>10. Power(z, -m) \in Int /\ Cong(Power(z, -m), 1 + m * n, n_squared)
    <3>1. (-m) * (-1) = m  OBVIOUS
    <3>2. Power(z, -m) \in Int /\ Cong(Power(z, -m), 1 + ((-m) * (-1)) * n, n_squared)
      BY <1>2, <2>1, <2>8 DEF z
    <3> QED  BY <3>1, <3>2
  <2>11. Power(y, -m) \in Int  BY <2>5, <2>8, PowerSucc
  <2>12. 1 + m * n \in Int  BY <1>1
  <2>13. Cong(Power(y, -m), 1 + m * n, n_squared)
    BY <1>1, <2>9, <2>10, <2>11, <2>12, CongTrans
  <2> QED  BY <1>3, <2>6, <2>11, <2>13
<1> QED  BY <1>4, <1>5

\* What paillier_enc computes, for any blinding factor.
LEMMA EncIs ==
    ASSUME NEW m \in Int, NEW r \in Int
    PROVE  /\ Enc(m, r) \in 0..(n_squared - 1)
           /\ Cong(Enc(m, r), (1 + m * n) * Power(r, n), n_squared)
<1>1. n \in Nat /\ n \in Int /\ n_squared \in Nat \ {0} /\ n_squared \in Int
  BY ModulusIs
<1> DEFINE u == PowMod(n_plusone, m, n_squared)
           w == Power(r, n)
           v == PowMod(r, n, n_squared)
<1>2. u \in 0..(n_squared - 1) /\ Cong(u, 1 + m * n, n_squared)  BY PowerOfNPlusOne
<1>3. w \in Int  BY <1>1, PowerSucc
<1>4. v \in 0..(n_squared - 1) /\ Cong(v, w, n_squared)
  <2>1. v = w % n_squared  BY <1>1, PowModIs
  <2> HIDE DEF v, w
  <2> QED  BY <1>1, <1>3, <2>1, CongMod
<1>5. Enc(m, r) = (u * v) % n_squared  BY DEF Enc
<1> HIDE DEF u, v, w
<1>6. u \in Int /\ v \in Int /\ u * v \in Int /\ 1 + m * n \in Int /\ (1 + m * n) * w \in Int
  <2>1. u \in Int /\ v \in Int /\ 1 + m * n \in Int  BY <1>1, <1>2, <1>4
  <2> QED  BY <1>3, <2>1
<1>7. Cong(u * v, (1 + m * n) * w, n_squared)  BY <1>1, <1>2, <1>3, <1>4, <1>6, CongMul
<1>8. Enc(m, r) \in 0..(n_squared - 1) /\ Cong(Enc(m, r), u * v, n_squared)
  BY <1>1, <1>5, <1>6, CongMod
<1>9. Enc(m, r) \in Int  BY <1>1, <1>8
<1>10. Cong(Enc(m, r), (1 + m * n) * w, n_squared)  BY <1>1, <1>6, <1>7, <1>8, <1>9, CongTrans
<1> QED  BY <1>8, <1>10 DEF w

------------------------------------------------------------------------------
(* What a ciphertext stands for.                                             *)

LEMMA Moduli ==
    /\ n \in Int /\ n \in Nat \ {0} /\ n > 8
    /\ n_squared \in Int /\ n_squared \in Nat \ {0} /\ n_squared = n * n
    /\ lambda \in Nat /\ lambda \in Int /\ x \in Int
<1>1. lambda \in Nat  BY LambdaIs
<1>2. x \in 0..(n - 1)  BY KeyIsWhole
<1> QED  BY <1>1, <1>2, ModulusIs

LEMMA HoldsMul ==
    ASSUME NEW c \in Int, NEW d \in Int, NEW m \in Int, NEW l \in Int,
           Holds(c, m), Holds(d, l)
    PROVE  Holds(c * d, m + l)
<1> USE Moduli
<1> DEFINE u == 1 + (m * lambda) * n
           v == 1 + (l * lambda) * n
           w == 1 + ((m + l) * lambda) * n
           k == (m * lambda) * (l * lambda)
<1>1. Power(c, lambda) \in Int /\ Power(d, lambda) \in Int  BY PowerSucc
<1>2. u * v = w + k * n_squared  OBVIOUS
<1>3. u \in Int /\ v \in Int /\ w \in Int /\ k \in Int  OBVIOUS
<1>4. Cong(Power(c, lambda), u, n_squared) /\ Cong(Power(d, lambda), v, n_squared)
  BY DEF Holds
<1> HIDE DEF u, v, k
<1>5. Cong(Power(c, lambda) * Power(d, lambda), u * v, n_squared)
  BY <1>1, <1>3, <1>4, CongMul
<1> HIDE DEF w
<1>6. Cong(u * v, w, n_squared)  BY <1>2, <1>3 DEF Cong
<1>7. Power(c * d, lambda) = Power(c, lambda) * Power(d, lambda)  BY PowerMul
<1>8. Power(c, lambda) * Power(d, lambda) \in Int /\ u * v \in Int  BY <1>1, <1>3
<1>9. Cong(Power(c * d, lambda), w, n_squared)  BY <1>3, <1>5, <1>6, <1>7, <1>8, CongTrans
<1> QED  BY <1>9 DEF Holds, w

LEMMA HoldsCong ==
    ASSUME NEW c \in Int, NEW d \in Int, NEW m \in Int, Cong(d, c, n_squared), Holds(c, m)
    PROVE  Holds(d, m)
<1> USE Moduli
<1>1. Power(c, lambda) \in Int /\ Power(d, lambda) \in Int  BY PowerSucc
<1>2. Cong(Power(d, lambda), Power(c, lambda), n_squared)  BY CongPower
<1>3. 1 + (m * lambda) * n \in Int  OBVIOUS
<1>4. Cong(Power(d, lambda), 1 + (m * lambda) * n, n_squared)
  BY <1>1, <1>2, <1>3, CongTrans DEF Holds
<1> QED  BY <1>4 DEF Holds

LEMMA HoldsModN ==
    ASSUME NEW c \in Int, NEW m \in Int, NEW l \in Int, Cong(m, l, n), Holds(c, m)
    PROVE  Holds(c, l)
<1> USE Moduli
<1>1. PICK k \in Int : m = l + k * n  BY DEF Cong
<1>2. 1 + (m * lambda) * n = (1 + (l * lambda) * n) + (k * lambda) * n_squared
  BY <1>1
<1>3. k * lambda \in Int /\ 1 + (m * lambda) * n \in Int /\ 1 + (l * lambda) * n \in Int
  OBVIOUS
<1>4. Cong(1 + (m * lambda) * n, 1 + (l * lambda) * n, n_squared)
  BY <1>2, <1>3 DEF Cong
<1>5. Power(c, lambda) \in Int  BY PowerSucc
<1>6. Cong(Power(c, lambda), 1 + (l * lambda) * n, n_squared)
  BY <1>3, <1>4, <1>5, CongTrans DEF Holds
<1> QED  BY <1>6 DEF Holds

LEMMA HoldsPower ==
    ASSUME NEW c \in Int, NEW m \in Int, Holds(c, m), NEW k \in Nat
    PROVE  Holds(Power(c, k), k * m)
<1> USE Moduli
<1> DEFINE S == {i \in Nat : Holds(Power(c, i), i * m)}
<1>1. 0 \in S
  <2>1. Power(c, 0) = 1 /\ Power(1, lambda) = 1  BY PowerZero, PowerOne
  <2>2. 1 + ((0 * m) * lambda) * n = 1 /\ 0 * m \in Int  OBVIOUS
  <2>3. Cong(1, 1, n_squared)  BY CongRefl
  <2>4. Holds(Power(c, 0), 0 * m)  BY <2>1, <2>2, <2>3 DEF Holds
  <2> QED  BY <2>4
<1>2. ASSUME NEW i \in Nat, i \in S PROVE i + 1 \in S
  <2>1. Power(c, i) \in Int /\ Power(c, i + 1) = c * Power(c, i)  BY PowerSucc
  <2>2. i * m \in Int /\ m + i * m = (i + 1) * m  OBVIOUS
  <2>3. Holds(Power(c, i), i * m)  BY <1>2
  <2>4. Holds(c * Power(c, i), m + i * m)  BY <2>1, <2>2, <2>3, HoldsMul
  <2> QED  BY <2>1, <2>2, <2>4
<1> HIDE DEF S
<1>3. k \in S  BY <1>1, <1>2, Induction
<1> QED  BY <1>3 DEF S

LEMMA HoldsInverse ==
    ASSUME NEW c \in Int, NEW m \in Int, Holds(c, m),
           NEW y \in Int, Cong(c * y, 1, n_squared)
    PROVE  Holds(y, -m)
<1> USE Moduli
<1> DEFINE u == Power(c, lambda)
           v == Power(y, lambda)
           w == 1 + (m * lambda) * n
           z == 1 + ((-m) * lambda) * n
           k == -((m * lambda) * (m * lambda))
<1>1. u \in Int /\ v \in Int  BY PowerSucc
<1>2. w \in Int /\ z \in Int /\ k \in Int /\ w * z = 1 + k * n_squared /\ -m \in Int  OBVIOUS
<1>3. Cong(u, w, n_squared)  BY DEF Holds
<1>4. Unit(u, n_squared)
  <2>1. Unit(c, n_squared)  BY DEF Unit
  <2> QED  BY <2>1, UnitPower
<1>5. Cong(u * v, 1, n_squared)
  <2>1. c * y \in Int  OBVIOUS
  <2>2. Cong(Power(c * y, lambda), Power(1, lambda), n_squared)  BY <2>1, CongPower
  <2>3. Power(c * y, lambda) = u * v /\ Power(1, lambda) = 1  BY PowerMul, PowerOne
  <2> QED  BY <2>2, <2>3
<1> HIDE DEF u, v, w, z, k
<1>6. w * z \in Int /\ u * z \in Int /\ u * v \in Int  BY <1>1, <1>2
<1>7. Cong(w * z, 1, n_squared)  BY <1>2 DEF Cong
<1>8. Cong(u * z, w * z, n_squared)  BY <1>1, <1>2, <1>3, CongRefl, CongMul
<1>9. Cong(u * z, 1, n_squared)  BY <1>6, <1>7, <1>8, CongTrans
<1>10. Cong(1, u * z, n_squared)  BY <1>6, <1>9, CongSym
<1>11. Cong(u * v, u * z, n_squared)  BY <1>5, <1>6, <1>10, CongTrans
<1>12. Cong(v, z, n_squared)  BY <1>1, <1>2, <1>4, <1>11, UnitCancel
<1> QED  BY <1>12 DEF Holds, v, z

\* Every ciphertext stands for a number.
LEMMA HoldsSome ==
    ASSUME P # Q, NEW c \in Int, Unit(c, n)
    PROVE  \E m \in Int : Holds(c, m)
<1> USE Moduli
<1>1. PICK k \in Int : Power(c, lambda) = 1 + k * n  BY Carmichael DEF Cong
<1>2. PICK j \in Int : lambda * x = 1 + j * n  BY KeyIsWhole DEF Cong
<1> DEFINE m == k * x
<1>3. m \in Int /\ -(k * j) \in Int  OBVIOUS
<1>4. (m * lambda) * n = (k * (lambda * x)) * n  OBVIOUS
<1>5. (k * (1 + j * n)) * n = k * n + (k * j) * n_squared  OBVIOUS
<1>6. 1 + k * n = (1 + (m * lambda) * n) + (-(k * j)) * n_squared
  <2>1. (m * lambda) * n = k * n + (k * j) * n_squared  BY <1>2, <1>4, <1>5
  <2>2. k * n \in Int /\ (k * j) * n_squared \in Int
        /\ (-(k * j)) * n_squared = -((k * j) * n_squared)
    OBVIOUS
  <2> QED  BY <2>1, <2>2
<1> HIDE DEF m
<1>7. Holds(c, m)  BY <1>1, <1>3, <1>6 DEF Holds, Cong
<1> QED  BY <1>3, <1>7

\* A ciphertext is a unit, and stands for the plaintext.
LEMMA HoldsEnc ==
    ASSUME P # Q, NEW m \in Int, NEW r \in Int, Unit(r, n)
    PROVE  Unit(Enc(m, r), n) /\ Holds(Enc(m, r), m)
<1> USE Moduli
<1> DEFINE g == 1 + m * n
           w == Power(r, n)
<1>1. g \in Int /\ w \in Int /\ g * w \in Int
  <2>1. w \in Int /\ g \in Int  BY PowerSucc
  <2> HIDE DEF g, w
  <2> QED  BY <2>1
<1>2. Enc(m, r) \in Int /\ Cong(Enc(m, r), g * w, n_squared)
  <2>1. Enc(m, r) \in 0..(n_squared - 1) /\ Cong(Enc(m, r), g * w, n_squared)
    BY EncIs
  <2> HIDE DEF g, w
  <2> QED  BY <2>1
<1>3. Holds(g, m)
  <2> DEFINE y == m * n
  <2>1. y \in Int  OBVIOUS
  <2>2. PICK t \in Int : Power(1 + y, lambda) = (1 + lambda * y) + t * (y * y)
    <3> HIDE DEF y
    <3> QED  BY <2>1, Binomial
  <2>3. lambda * y = (m * lambda) * n /\ t * (y * y) = ((t * m) * m) * n_squared
        /\ (t * m) * m \in Int
    OBVIOUS
  <2> QED  BY <2>2, <2>3 DEF Holds, Cong
<1>4. Holds(w, 0)
  <2>1. PICK k \in Int : Power(r, lambda) = 1 + k * n  BY Carmichael DEF Cong
  <2> DEFINE y == k * n
  <2>2. y \in Int  OBVIOUS
  <2>3. PICK t \in Int : Power(1 + y, n) = (1 + n * y) + t * (y * y)
    <3> HIDE DEF y
    <3> QED  BY <2>2, Binomial
  <2>4. n * y = k * n_squared /\ t * (y * y) = ((t * k) * k) * n_squared
        /\ k + ((t * k) * k) \in Int /\ k * n_squared \in Int /\ ((t * k) * k) * n_squared \in Int
        /\ (k + ((t * k) * k)) * n_squared = k * n_squared + ((t * k) * k) * n_squared
    OBVIOUS
  <2>5. Power(w, lambda) = Power(Power(r, lambda), n)
    <3>1. Power(w, lambda) = Power(r, n * lambda)  BY PowerPower
    <3>2. Power(Power(r, lambda), n) = Power(r, lambda * n)  BY PowerPower
    <3>3. n * lambda = lambda * n  OBVIOUS
    <3> QED  BY <3>1, <3>2, <3>3
  <2>6. 1 + (0 * lambda) * n = 1  OBVIOUS
  <2>7. Power(w, lambda) = 1 + (k + ((t * k) * k)) * n_squared
    BY <2>1, <2>3, <2>4, <2>5
  <2> QED  BY <2>4, <2>6, <2>7 DEF Holds, Cong
<1>5. Holds(g * w, m)
  <2>1. m + 0 = m /\ 0 \in Int  OBVIOUS
  <2> HIDE DEF g, w
  <2>2. Holds(g * w, m + 0)  BY <1>1, <1>3, <1>4, <2>1, HoldsMul
  <2> QED  BY <2>1, <2>2
<1>6. Holds(Enc(m, r), m)
  <2> HIDE DEF g, w
  <2> QED  BY <1>1, <1>2, <1>5, HoldsCong
<1>7. Unit(Enc(m, r), n)
  <2>1. Unit(g, n)
    <3>1. g * 1 = 1 + m * n  OBVIOUS
    <3>2. Cong(g * 1, 1, n) /\ 1 \in Int  BY <3>1 DEF Cong
    <3> HIDE DEF g
    <3> QED  BY <3>2 DEF Unit
  <2>2. Unit(w, n)  BY UnitPower
  <2> HIDE DEF g, w
  <2>3. Unit(g * w, n)  BY <1>1, <2>1, <2>2, UnitMul
  <2>4. Cong(Enc(m, r), g * w, n)  BY <1>1, <1>2, CongDivisor
  <2>5. Cong(g * w, Enc(m, r), n)  BY <1>1, <1>2, <2>4, CongSym
  <2> QED  BY <1>1, <1>2, <2>3, <2>5, UnitCong
<1> QED  BY <1>6, <1>7

------------------------------------------------------------------------------
(* Decryption inverts encryption, and takes the operations on ciphertexts to *)
(* sums and multiples.                                                       *)

Ciphertext(c) == c \in 0..(n_squared - 1) /\ Unit(c, n)

\* paillier_dec returns a number below n, whatever it is given.
LEMMA DecRange ==
    ASSUME NEW c \in 0..(n_squared - 1) PROVE Dec[c] \in 0..(n - 1)
<1> USE Moduli
<1> DEFINE v == (PowMod(c, lambda, n_squared) - 1) \div n
<1>1. PowMod(c, lambda, n_squared) = Power(c, lambda) % n_squared  BY PowModIs
<1>2. Power(c, lambda) \in Int
  <2>1. c \in Int  OBVIOUS
  <2> QED  BY <2>1, PowerSucc
<1>3. Power(c, lambda) % n_squared \in Int
  <2>1. Power(c, lambda) % n_squared \in 0..(n_squared - 1)  BY <1>2, CongMod
  <2> QED  BY <2>1
<1>4. v \in Int
  <2>1. \A u \in Int : (u - 1) \div n \in Int  OBVIOUS
  <2> QED  BY <1>1, <1>3, <2>1
<1>5. Dec[c] = (v * x) % n  BY DEF Dec
<1> HIDE DEF v
<1>6. v * x \in Int  BY <1>4
<1> QED  BY <1>5, <1>6, CongMod

\* A ciphertext stands for its decryption.
LEMMA HoldsDec ==
    ASSUME P # Q, NEW c, Ciphertext(c)
    PROVE  c \in Int /\ Dec[c] \in Int /\ Dec[c] \in 0..(n - 1) /\ Holds(c, Dec[c])
<1> USE Moduli
<1>1. c \in 0..(n_squared - 1) /\ Unit(c, n) /\ c \in Int  BY DEF Ciphertext
<1>2. PICK m \in Int : Holds(c, m)  BY <1>1, HoldsSome
<1>3. Dec[c] = m % n  BY <1>1, <1>2, DecIs
<1>4. m % n \in 0..(n - 1) /\ Cong(m, m % n, n)  BY CongMod
<1>5. m % n \in Int  BY <1>4
<1>6. Holds(c, m % n)  BY <1>1, <1>2, <1>4, <1>5, HoldsModN
<1> QED  BY <1>1, <1>3, <1>4, <1>5, <1>6

\* paillier_dec inverts paillier_enc: for the keys of any two different primes
\* the library generates, every plaintext, negative ones included, and every
\* blinding factor that is a unit.
THEOREM DecInvertsEnc ==
    ASSUME P # Q, NEW m \in Int, NEW r \in Int, Unit(r, n)
    PROVE  Ciphertext(Enc(m, r)) /\ Dec[Enc(m, r)] = m % n
<1>1. Enc(m, r) \in 0..(n_squared - 1)  BY EncIs
<1>2. Unit(Enc(m, r), n) /\ Holds(Enc(m, r), m)  BY HoldsEnc
<1> QED  BY <1>1, <1>2, DecIs DEF Ciphertext

\* A number congruent to a ciphertext modulo n^2 is one, for the same number.
LEMMA CiphertextMod ==
    ASSUME NEW a \in Int, Unit(a, n), NEW m \in Int, Holds(a, m)
    PROVE  Ciphertext(a % n_squared) /\ Dec[a % n_squared] = m % n
<1> USE Moduli
<1> DEFINE c == a % n_squared
<1>1. c \in 0..(n_squared - 1) /\ Cong(c, a, n_squared) /\ Cong(a, c, n_squared)
  BY CongMod
<1>2. c \in Int  BY <1>1
<1> HIDE DEF c
<1>3. Holds(c, m)  BY <1>1, <1>2, HoldsCong
<1>4. Cong(a, c, n)  BY <1>1, <1>2, CongDivisor
<1>5. Unit(c, n)  BY <1>2, <1>4, UnitCong
<1>6. Dec[c] = m % n  BY <1>1, <1>3, DecIs
<1> QED  BY <1>1, <1>5, <1>6 DEF Ciphertext, c

\* paillier_mul adds the plaintexts.
THEOREM MulAdds ==
    ASSUME P # Q, NEW c, NEW d, Ciphertext(c), Ciphertext(d)
    PROVE  Ciphertext(Mul(c, d)) /\ Dec[Mul(c, d)] = (Dec[c] + Dec[d]) % n
<1> USE Moduli
<1>1. /\ c \in Int /\ Dec[c] \in Int /\ Holds(c, Dec[c]) /\ Unit(c, n)
      /\ d \in Int /\ Dec[d] \in Int /\ Holds(d, Dec[d]) /\ Unit(d, n)
  BY HoldsDec DEF Ciphertext
<1>2. c * d \in Int /\ Dec[c] + Dec[d] \in Int  BY <1>1
<1>3. Holds(c * d, Dec[c] + Dec[d])  BY <1>1, HoldsMul
<1>4. Unit(c * d, n)  BY <1>1, UnitMul
<1> QED  BY <1>2, <1>3, <1>4, CiphertextMod DEF Mul

\* paillier_exp multiplies the plaintext, by a negative number too.
THEOREM ExpMultiplies ==
    ASSUME P # Q, NEW c, Ciphertext(c), NEW k \in Int
    PROVE  Ciphertext(Exp(c, k)) /\ Dec[Exp(c, k)] = (Dec[c] * k) % n
<1> USE Moduli
<1>1. c \in Int /\ Dec[c] \in Int /\ Holds(c, Dec[c]) /\ Unit(c, n)
  BY HoldsDec DEF Ciphertext
<1>2. k * Dec[c] = Dec[c] * k /\ Dec[c] * k \in Int  BY <1>1
<1>3. CASE k \in Nat
  <2>1. Power(c, k) \in Int /\ Unit(Power(c, k), n)  BY <1>1, <1>3, PowerSucc, UnitPower
  <2>2. Holds(Power(c, k), Dec[c] * k)  BY <1>1, <1>2, <1>3, HoldsPower
  <2>3. Exp(c, k) = Power(c, k) % n_squared  BY <1>1, <1>3, PowModIs DEF Exp
  <2> QED  BY <1>2, <2>1, <2>2, <2>3, CiphertextMod
<1>4. CASE k < 0
  <2> DEFINE y == Invert(c, n_squared)
             j == -k
  <2>1. Unit(c, n_squared)  BY <1>1, UnitProduct
  <2>2. y \in 0..(n_squared - 1) /\ Cong(c * y, 1, n_squared)  BY <1>1, <2>1, InvertIs
  <2>3. y \in Int /\ c * y \in Int /\ j \in Nat /\ -Dec[c] \in Int
    <3>1. y \in Int  BY <2>2
    <3> HIDE DEF y
    <3> QED  BY <1>1, <1>4, <3>1
  <2>4. Exp(c, k) = Power(y, j) % n_squared  BY <1>1, <1>4, <2>1, PowModNegative DEF Exp
  <2>5. j * (-Dec[c]) = Dec[c] * k  BY <1>1
  <2> HIDE DEF y, j
  <2>6. Holds(y, -Dec[c])  BY <1>1, <2>2, <2>3, HoldsInverse
  <2>7. Holds(Power(y, j), Dec[c] * k)  BY <2>3, <2>5, <2>6, HoldsPower
  <2>8. Unit(y, n)
    <3>1. Cong(c * y, 1, n)  BY <2>2, <2>3, CongDivisor
    <3>2. c * y = y * c  BY <1>1, <2>3
    <3>3. Cong(y * c, 1, n)  BY <3>1, <3>2
    <3> QED  BY <1>1, <3>3 DEF Unit
  <2>9. Power(y, j) \in Int /\ Unit(Power(y, j), n)  BY <2>3, <2>8, PowerSucc, UnitPower
  <2> QED  BY <1>2, <2>4, <2>7, <2>9, CiphertextMod
<1> QED  BY <1>3, <1>4

------------------------------------------------------------------------------
(* The blinding factors that are not units, and keys of one prime.           *)

\* A factor that shares a prime with n takes two plaintexts to one ciphertext.
LEMMA SharedFactorHarms ==
    ASSUME NEW r \in Int, ~Unit(r, n)
    PROVE  \E m \in 0..(n - 1) : Dec[Enc(m, r)] # m
<1> USE Moduli
<1>1. /\ P \in Nat /\ Q \in Nat /\ P > 2 /\ Q > 2 /\ P \in Int /\ Q \in Int
      /\ P \in Nat \ {0} /\ Q \in Nat \ {0} /\ IsPrime(P) /\ IsPrime(Q) /\ n = P * Q
  BY KeyPrimes DEF n
<1>2. ASSUME NEW p \in Nat, NEW q \in Nat, p > 2, q > 2, n = p * q, Cong(r, 0, p)
      PROVE  \E m \in 0..(n - 1) : Dec[Enc(m, r)] # m
  <2>1. q \in 0..(n - 1) /\ 0 \in 0..(n - 1) /\ q # 0 /\ q \in Int /\ 0 \in Int
    <3>1. q < p * q  BY <1>2
    <3> QED  BY <1>2, <3>1
  <2>2. PICK k \in Int : r = 0 + k * p  BY <1>2 DEF Cong
  <2> DEFINE v == Power(r, n - 1)
  <2>3. n - 1 \in Nat /\ (n - 1) + 1 = n  OBVIOUS
  <2>4. v \in Int /\ Power(r, n) = r * v  BY <2>3, PowerSucc
  <2> HIDE DEF v
  <2>5. (1 + q * n) * (r * v) = (1 + 0 * n) * (r * v) + (k * v) * n_squared
    <3>1. (q * n) * ((k * p) * v) = (k * v) * ((p * q) * n)  BY <1>2, <2>4
    <3>2. (q * n) * (r * v) = (k * v) * n_squared  BY <1>2, <2>2, <3>1
    <3>3. r * v \in Int /\ (1 + q * n) * (r * v) = (r * v) + (q * n) * (r * v)
          /\ (1 + 0 * n) * (r * v) = r * v
      BY <2>1, <2>4
    <3> QED  BY <3>2, <3>3
  <2> DEFINE a == Enc(q, r)
             b == Enc(0, r)
             c == (1 + q * n) * (r * v)
             d == (1 + 0 * n) * (r * v)
  <2>6. /\ a \in 0..(n_squared - 1) /\ Cong(a, c, n_squared)
        /\ b \in 0..(n_squared - 1) /\ Cong(b, d, n_squared)
    BY <2>1, <2>4, EncIs
  <2>7. c \in Int /\ d \in Int /\ k * v \in Int  BY <2>1, <2>4
  <2>8. a \in Int /\ b \in Int
    <3> HIDE DEF a, b, c, d
    <3> QED  BY <2>6
  <2>9. Cong(c, d, n_squared)  BY <2>5, <2>7 DEF Cong
  <2>10. a = b
    <3> HIDE DEF a, b, c, d
    <3>1. Cong(d, b, n_squared)  BY <2>6, <2>7, <2>8, CongSym
    <3>2. Cong(a, d, n_squared)  BY <2>6, <2>7, <2>8, <2>9, CongTrans
    <3>3. Cong(a, b, n_squared)  BY <2>7, <2>8, <3>1, <3>2, CongTrans
    <3> QED  BY <2>6, <3>3, CongSmall
  <2>11. Dec[Enc(q, r)] # q \/ Dec[Enc(0, r)] # 0  BY <2>1, <2>10
  <2> QED  BY <2>1, <2>11
<1>3. Cong(r, 0, P) \/ Cong(r, 0, Q)
  <2>1. ~Unit(r, P) \/ ~Unit(r, Q)  BY <1>1, UnitProduct
  <2> QED  BY <1>1, <2>1, PrimeUnit
<1>4. P * Q = Q * P  BY <1>1
<1> QED  BY <1>1, <1>2, <1>3, <1>4

\* With two different primes a blinding factor is harmless if it is prime to n,
\* and only then.
THEOREM HarmlessIffUnit ==
    ASSUME P # Q, NEW r \in Int
    PROVE  (\A m \in 0..(n - 1) : Dec[Enc(m, r)] = m) <=> r % P # 0 /\ r % Q # 0
<1> USE Moduli
<1>1. ASSUME Unit(r, n), NEW m \in 0..(n - 1) PROVE Dec[Enc(m, r)] = m
  <2>1. m \in Int  OBVIOUS
  <2>2. Dec[Enc(m, r)] = m % n  BY <1>1, <2>1, DecInvertsEnc
  <2> QED  BY <2>2
<1>2. ASSUME ~Unit(r, n) PROVE \E m \in 0..(n - 1) : Dec[Enc(m, r)] # m
  BY <1>2, SharedFactorHarms
<1> QED  BY <1>1, <1>2, UnitModN

\* A key of one prime twice reads P in what 0 becomes with the factor P + 1,
\* which is prime to n.
THEOREM OnePrimeTwiceFails ==
    ASSUME P = Q
    PROVE  \E r \in 1..(n - 1) : /\ r % P # 0 /\ r % Q # 0
                                 /\ \E m \in 0..(n - 1) : Dec[Enc(m, r)] # m
<1> USE Moduli
<1> DEFINE r == 1 + P
           w == Power(r, n)
<1>1. /\ P \in Nat /\ P > 2 /\ P \in Int /\ P % 2 = 1 /\ n = P * P
      /\ n_squared = (P * P) * (P * P)
  BY KeyPrimes DEF n
<1>p. P \in Nat /\ P \in Int  BY <1>1
<1>r. r \in Int  BY <1>p
<1>2. r \in 1..(n - 1) /\ r \in Int /\ P \in 0..(n - 1) /\ P # 0
  <2>1. 3 * P <= P * P  BY <1>1
  <2> QED  BY <1>1, <2>1
<1>3. r % P = 1
  <2>1. r = 1 + 1 * P /\ 1 \in 0..(P - 1)  BY <1>1
  <2>2. Cong(r, 1, P)  BY <2>1 DEF Cong
  <2>3. P \in Nat \ {0} /\ 1 \in Int  BY <1>1
  <2>4. r % P = 1 % P  BY <1>2, <2>2, <2>3, CongIff
  <2> QED  BY <1>1, <2>4
<1>4. \E e \in Int : w = 1 + (((P * P) * P) + e * n_squared)
  <2>1. PICK c \in Int, t \in Int :
           /\ 2 * c = P * (P - 1)
           /\ Power(1 + P, P) = ((1 + P * P) + c * (P * P)) + t * ((P * P) * P)
    BY <1>p, BinomialThird
  <2> DEFINE h == P \div 2
             v == 1 + (h + t) * P
             s == (P * P) * v
  <2>2. h \in Int /\ P = (2 * h) + 1  BY <1>1
  <2> HIDE DEF h
  <2>3. c = P * h
    <3>1. P * (P - 1) = 2 * (P * h)  BY <2>2
    <3>2. P * h \in Int  BY <1>1, <2>2
    <3> QED  BY <2>1, <3>1, <3>2
  <2>4. Power(1 + P, P) = 1 + s
    <3>1. ((1 + P * P) + (P * h) * (P * P)) + t * ((P * P) * P) = 1 + s
      BY <1>1, <2>2
    <3> QED  BY <2>1, <2>3, <3>1
  <2>5. v \in Int /\ s \in Int
    <3>1. v \in Int  BY <1>1, <2>2
    <3> HIDE DEF v
    <3> QED  BY <1>1, <3>1
  <2>6. PICK u \in Int : Power(1 + s, P) = (1 + P * s) + u * (s * s)
    <3> HIDE DEF s
    <3> QED  BY <1>1, <2>5, Binomial
  <2> DEFINE e == (h + t) + u * (v * v)
  <2>7. w = Power(1 + s, P)
    <3>1. Power(Power(r, P), P) = Power(r, P * P)
      <4> HIDE DEF r, w, s, v, e
      <4> QED  BY <1>p, <1>r, PowerPower
    <3> QED  BY <1>1, <2>4, <3>1
  <2>8. P * s = ((P * P) * P) + (h + t) * n_squared  BY <1>1, <2>2
  <2>9. u * (s * s) = (u * (v * v)) * n_squared
    <3> HIDE DEF v
    <3> QED  BY <1>1, <2>5
  <2>10. /\ h + t \in Int /\ u * (v * v) \in Int /\ (P * P) * P \in Int
         /\ (h + t) * n_squared \in Int /\ (u * (v * v)) * n_squared \in Int
         /\ e * n_squared = (h + t) * n_squared + (u * (v * v)) * n_squared
    <3>1. h + t \in Int /\ u * (v * v) \in Int /\ (P * P) * P \in Int
      <4> HIDE DEF v
      <4> QED  BY <1>1, <2>2, <2>5
    <3> DEFINE f == h + t
               g == u * (v * v)
    <3>2. f \in Int /\ g \in Int  BY <3>1
    <3> HIDE DEF f, g
    <3>3. f * n_squared \in Int /\ g * n_squared \in Int
          /\ (f + g) * n_squared = f * n_squared + g * n_squared
      BY <3>2
    <3> QED  BY <3>1, <3>3 DEF f, g
  <2>11. w = 1 + (((P * P) * P) + e * n_squared) /\ e \in Int
    <3> HIDE DEF w, s, v
    <3> QED  BY <2>6, <2>7, <2>8, <2>9, <2>10
  <2> HIDE DEF e
  <2> QED  BY <2>11
<1>5. PICK e \in Int : w = 1 + (((P * P) * P) + e * n_squared)  BY <1>4
<1>w. w \in Int  BY <1>2, PowerSucc
<1>6. Holds(w, P)
  <2> DEFINE y == ((P * P) * P) + e * n_squared
             f == 1 + e * P
  <2>1. y \in Int /\ y = ((P * P) * P) * f /\ f \in Int  BY <1>1
  <2>2. PICK t \in Int : Power(1 + y, lambda) = (1 + lambda * y) + t * (y * y)
    <3>1. y \in Int  BY <2>1
    <3> HIDE DEF y, f, w
    <3> QED  BY <3>1, Binomial
  <2> DEFINE g == (lambda * e) + t * ((P * P) * (f * f))
  <2>3. lambda * y = (P * lambda) * n + (lambda * e) * n_squared  BY <1>1
  <2>4. t * (y * y) = (t * ((P * P) * (f * f))) * n_squared
    <3>1. y * y = ((P * P) * (f * f)) * n_squared
      <4> HIDE DEF f, y
      <4>1. (((P * P) * P) * f) * (((P * P) * P) * f)
                = ((P * P) * (f * f)) * ((P * P) * (P * P))
        BY <1>1, <2>1
      <4> QED  BY <1>1, <2>1, <4>1
    <3> HIDE DEF f, y
    <3>2. (P * P) * (f * f) \in Int  BY <1>1, <2>1
    <3> QED  BY <3>1, <3>2
  <2>5. /\ lambda * e \in Int /\ t * ((P * P) * (f * f)) \in Int /\ (P * lambda) * n \in Int
    <3> HIDE DEF f
    <3> QED  BY <1>1, <2>1
  <2>6. g \in Int
        /\ g * n_squared = (lambda * e) * n_squared + (t * ((P * P) * (f * f))) * n_squared
        /\ (lambda * e) * n_squared \in Int
        /\ (t * ((P * P) * (f * f))) * n_squared \in Int
    <3> DEFINE a == lambda * e
               b == t * ((P * P) * (f * f))
    <3>1. a \in Int /\ b \in Int  BY <2>5
    <3> HIDE DEF a, b
    <3>2. a + b \in Int /\ (a + b) * n_squared = a * n_squared + b * n_squared
          /\ a * n_squared \in Int /\ b * n_squared \in Int
      BY <3>1
    <3> QED  BY <3>2 DEF a, b
  <2>7. Power(w, lambda) = (1 + (P * lambda) * n) + g * n_squared
    <3>1. Power(w, lambda) = Power(1 + y, lambda)  BY <1>5
    <3> HIDE DEF y, f, w
    <3> QED  BY <2>2, <2>3, <2>4, <2>5, <2>6, <3>1
  <2> HIDE DEF g, w
  <2> QED  BY <2>6, <2>7 DEF Holds, Cong
<1>7. Dec[Enc(0, r)] = P
  <2> DEFINE c == Enc(0, r)
  <2> HIDE DEF w, r
  <2>1. c \in 0..(n_squared - 1) /\ Cong(c, (1 + 0 * n) * w, n_squared)
    <3>1. 0 \in Int  OBVIOUS
    <3> QED  BY <1>2, <3>1, EncIs DEF w
  <2>2. (1 + 0 * n) * w = w  BY <1>w
  <2>3. c \in Int  BY <2>1
  <2> HIDE DEF c
  <2>4. Holds(c, P)  BY <1>1, <1>6, <1>w, <2>1, <2>2, <2>3, HoldsCong
  <2>5. Dec[c] = P % n  BY <1>1, <2>1, <2>4, DecIs
  <2>6. P % n = P  BY <1>2
  <2> QED  BY <2>5, <2>6 DEF c
<1>8. 0 \in 0..(n - 1)  OBVIOUS
<1> HIDE DEF r, w
<1> QED  BY <1>2, <1>3, <1>7, <1>8
==============================================================================
