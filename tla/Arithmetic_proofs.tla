----------------------------- MODULE Arithmetic_proofs -----------------------------
(***************************************************************************)
(* Elementary number theory: induction, congruences, powers, primes and    *)
(* Fermat's little theorem, digits.  Induction is stated with sets, not    *)
(* operators: the set of the numbers that have the property is what the    *)
(* provers can instantiate.                                                *)
(***************************************************************************)
EXTENDS Arithmetic, WellFoundedInduction, FiniteSetTheorems, TLAPS

------------------------------------------------------------------------------
(* Induction. *)

LEMMA LessThan ==
    \E R : /\ IsWellFoundedOn(R, Nat)
           /\ \A m, n \in Nat : m < n => <<m, n>> \in R
<1> DEFINE R == OpToRel(<, Nat)
<1>1. IsWellFoundedOn(R, Nat)  BY NatLessThanWellFounded
<1>2. \A m, n \in Nat : m < n => <<m, n>> \in R  BY DEF OpToRel
<1> HIDE DEF R
<1> QED  BY <1>1, <1>2

\* A set of natural numbers that is not empty has a least element.
LEMMA LeastNumber ==
    ASSUME NEW T, T \subseteq Nat, T # {}
    PROVE  \E x \in T : \A y \in T : x <= y
<1>1. PICK R : /\ IsWellFoundedOn(R, Nat)
               /\ \A m, n \in Nat : m < n => <<m, n>> \in R
  BY LessThan
<1>2. IsWellFoundedOn(R, Nat)  BY <1>1
<1>3. \A m, n \in Nat : m < n => <<m, n>> \in R  BY <1>1
<1>4. PICK x \in T : \A y \in T : ~(<<y, x>> \in R)
  <2> HIDE <1>1
  <2>1. IsWellFoundedOn(R, Nat) /\ T \subseteq Nat /\ T # {}  BY <1>2
  <2>2. IsWellFoundedOn(R, Nat)  BY <2>1
  <2> QED  BY <2>1, <2>2, WFMin
<1>5. ASSUME NEW y \in T PROVE x <= y
  <2>1. x \in Nat /\ y \in Nat  OBVIOUS
  <2>2. ~(y < x)  BY <1>3, <1>4, <2>1
  <2> QED  BY <2>1, <2>2
<1> QED  BY <1>5

\* Induction: each number is in S if all smaller ones are.
LEMMA CompleteInduction ==
    ASSUME NEW S, \A n \in Nat : (\A m \in 0..(n - 1) : m \in S) => n \in S
    PROVE  \A n \in Nat : n \in S
<1> SUFFICES ASSUME NEW n \in Nat, n \notin S PROVE FALSE
  OBVIOUS
<1> DEFINE T == Nat \ S
<1>1. PICK x \in T : \A y \in T : x <= y
  <2>1. T \subseteq Nat /\ T # {}  OBVIOUS
  <2> HIDE DEF T
  <2> QED  BY <2>1, LeastNumber
<1>2. x \in Nat /\ x \notin S  OBVIOUS
<1>3. \A m \in 0..(x - 1) : m \in S
  <2> SUFFICES ASSUME NEW m \in 0..(x - 1), m \notin S PROVE FALSE
    OBVIOUS
  <2>1. m \in T /\ m < x  BY <1>2
  <2>2. x <= m  BY <1>1, <2>1
  <2> QED  BY <1>2, <2>1, <2>2
<1> QED  BY <1>2, <1>3

LEMMA Induction ==
    ASSUME NEW S, 0 \in S, \A n \in Nat : n \in S => n + 1 \in S
    PROVE  \A n \in Nat : n \in S
<1>1. ASSUME NEW n \in Nat, \A m \in 0..(n - 1) : m \in S
      PROVE  n \in S
  <2>1. CASE n = 0  BY <2>1
  <2>2. CASE n # 0
    <3>1. n - 1 \in Nat /\ n - 1 \in 0..(n - 1)  BY <2>2
    <3>2. (n - 1) + 1 \in S  BY <1>1, <3>1
    <3> QED  BY <3>2
  <2> QED  BY <2>1, <2>2
<1> QED  BY <1>1, CompleteInduction

------------------------------------------------------------------------------
(* Powers. *)

\* What the recursive definition of a power says: h holds the powers up to k.
IsPowers(h, b, k) == h = [i \in 0..k |-> IF i = 0 THEN 1 ELSE b * h[i - 1]]

LEMMA PowersExist ==
    ASSUME NEW b \in Int, NEW k \in Nat
    PROVE  \E h \in [0..k -> Int] : IsPowers(h, b, k)
<1> DEFINE S == {j \in Nat : \E h \in [0..j -> Int] : IsPowers(h, b, j)}
<1>1. 0 \in S
  <2>1. IsPowers([i \in 0..0 |-> 1], b, 0)  BY DEF IsPowers
  <2> QED  BY <2>1
<1>2. ASSUME NEW j \in Nat, j \in S PROVE j + 1 \in S
  <2>1. PICK h \in [0..j -> Int] : IsPowers(h, b, j)  BY <1>2
  <2> DEFINE g == [i \in 0..(j + 1) |-> IF i = 0 THEN 1 ELSE b * h[i - 1]]
  <2>2. ASSUME NEW i \in 0..j PROVE g[i] = h[i]
    BY <2>1 DEF IsPowers
  <2>3. ASSUME NEW i \in 0..(j + 1), i # 0 PROVE g[i - 1] = h[i - 1] /\ h[i - 1] \in Int
    <3>1. i - 1 \in 0..j  BY <2>3
    <3> QED  BY <2>2, <3>1
  <2>4. IsPowers(g, b, j + 1)  BY <2>3 DEF IsPowers
  <2>5. g \in [0..(j + 1) -> Int]  BY <2>3
  <2> QED  BY <2>4, <2>5
<1> HIDE DEF S
<1>3. k \in S  BY <1>1, <1>2, Induction
<1> QED  BY <1>3 DEF S

LEMMA PowersAgree ==
    ASSUME NEW b \in Int, NEW j \in Nat, NEW k \in Nat, j <= k,
           NEW g, IsPowers(g, b, j), NEW h, IsPowers(h, b, k)
    PROVE  g[j] = h[j]
<1> DEFINE S == {i \in Nat : i <= j => g[i] = h[i]}
<1>1. 0 \in S  BY DEF IsPowers
<1>2. ASSUME NEW i \in Nat, i \in S PROVE i + 1 \in S
  <2> SUFFICES ASSUME i + 1 <= j PROVE g[i + 1] = h[i + 1]
    OBVIOUS
  <2>1. i + 1 \in 0..j /\ i + 1 \in 0..k /\ i + 1 # 0 /\ (i + 1) - 1 = i  OBVIOUS
  <2>2. g[i + 1] = b * g[i] /\ h[i + 1] = b * h[i]  BY <2>1 DEF IsPowers
  <2> QED  BY <1>2, <2>2
<1> HIDE DEF S
<1>3. j \in S  BY <1>1, <1>2, Induction
<1> QED  BY <1>3 DEF S

LEMMA PowerIs ==
    ASSUME NEW b \in Int, NEW k \in Nat
    PROVE  \E h \in [0..k -> Int] : IsPowers(h, b, k) /\ Power(b, k) = h[k]
<1> DEFINE f == CHOOSE h : h = [i \in 0..k |-> IF i = 0 THEN 1 ELSE b * h[i - 1]]
<1>1. PICK g \in [0..k -> Int] : IsPowers(g, b, k)  BY PowersExist
<1>2. f = [i \in 0..k |-> IF i = 0 THEN 1 ELSE b * f[i - 1]]  BY <1>1 DEF IsPowers
<1>3. Power(b, k) = f[k]  BY DEF Power
<1>4. IsPowers(f, b, k)  BY <1>2 DEF IsPowers
<1> HIDE DEF f
<1>5. f[k] = g[k]  BY <1>1, <1>4, PowersAgree
<1> QED  BY <1>1, <1>3, <1>5

\* The two equations of a power.
LEMMA PowerZero == ASSUME NEW b \in Int PROVE Power(b, 0) = 1
BY PowerIs DEF IsPowers

LEMMA PowerSucc ==
    ASSUME NEW b \in Int, NEW k \in Nat
    PROVE  /\ Power(b, k) \in Int
           /\ Power(b, k + 1) = b * Power(b, k)
<1>1. PICK g \in [0..k -> Int] : IsPowers(g, b, k) /\ Power(b, k) = g[k]  BY PowerIs
<1>2. PICK h \in [0..(k + 1) -> Int] : IsPowers(h, b, k + 1) /\ Power(b, k + 1) = h[k + 1]
  <2>1. k + 1 \in Nat  OBVIOUS
  <2> QED  BY <2>1, PowerIs
<1>3. g[k] = h[k]  BY <1>1, <1>2, PowersAgree
<1>4. h[k + 1] = b * h[k]
  <2>1. k + 1 \in 0..(k + 1) /\ k + 1 # 0 /\ (k + 1) - 1 = k  OBVIOUS
  <2> QED  BY <1>2, <2>1 DEF IsPowers
<1> QED  BY <1>1, <1>2, <1>3, <1>4

------------------------------------------------------------------------------
(* Congruences. *)

Cong(a, b, m) == \E k \in Int : a = b + k * m

LEMMA CongRefl ==
    ASSUME NEW a \in Int, NEW m \in Int PROVE Cong(a, a, m)
<1>1. a = a + 0 * m  OBVIOUS
<1> QED  BY <1>1 DEF Cong

LEMMA CongSym ==
    ASSUME NEW a \in Int, NEW b \in Int, NEW m \in Int, Cong(a, b, m)
    PROVE  Cong(b, a, m)
<1>1. PICK k \in Int : a = b + k * m  BY DEF Cong
<1>2. b = a + (-k) * m  BY <1>1
<1> QED  BY <1>2 DEF Cong

LEMMA CongTrans ==
    ASSUME NEW a \in Int, NEW b \in Int, NEW c \in Int, NEW m \in Int,
           Cong(a, b, m), Cong(b, c, m)
    PROVE  Cong(a, c, m)
<1>1. PICK k \in Int : a = b + k * m  BY DEF Cong
<1>2. PICK l \in Int : b = c + l * m  BY DEF Cong
<1>3. a = c + (k + l) * m /\ k + l \in Int  BY <1>1, <1>2
<1> QED  BY <1>3 DEF Cong

LEMMA CongAdd ==
    ASSUME NEW a \in Int, NEW b \in Int, NEW c \in Int, NEW d \in Int, NEW m \in Int,
           Cong(a, b, m), Cong(c, d, m)
    PROVE  Cong(a + c, b + d, m) /\ Cong(a - c, b - d, m)
<1>1. PICK k \in Int : a = b + k * m  BY DEF Cong
<1>2. PICK l \in Int : c = d + l * m  BY DEF Cong
<1>3. /\ a + c = (b + d) + (k + l) * m
      /\ a - c = (b - d) + (k - l) * m
      /\ k + l \in Int /\ k - l \in Int
  BY <1>1, <1>2
<1> QED  BY <1>3 DEF Cong

LEMMA CongMul ==
    ASSUME NEW a \in Int, NEW b \in Int, NEW c \in Int, NEW d \in Int, NEW m \in Int,
           Cong(a, b, m), Cong(c, d, m)
    PROVE  Cong(a * c, b * d, m)
<1>1. PICK k \in Int : a = b + k * m  BY DEF Cong
<1>2. PICK l \in Int : c = d + l * m  BY DEF Cong
<1>3. a * c = (b * d) + (((b * l) + (k * d)) + ((k * l) * m)) * m  BY <1>1, <1>2
<1>4. ((b * l) + (k * d)) + ((k * l) * m) \in Int  OBVIOUS
<1> QED  BY <1>3, <1>4 DEF Cong

\* A number is congruent to its remainder, and to no other number below m.
LEMMA CongMod ==
    ASSUME NEW a \in Int, NEW m \in Nat \ {0}
    PROVE  a % m \in 0..(m - 1) /\ Cong(a, a % m, m) /\ Cong(a % m, a, m)
<1>1. a = (a % m) + (a \div m) * m /\ a \div m \in Int /\ a % m \in 0..(m - 1)
  OBVIOUS
<1>2. Cong(a, a % m, m)  BY <1>1 DEF Cong
<1> QED  BY <1>1, <1>2, CongSym

LEMMA CongSmall ==
    ASSUME NEW m \in Nat \ {0}, NEW a \in 0..(m - 1), NEW b \in 0..(m - 1), Cong(a, b, m)
    PROVE  a = b
<1>1. PICK k \in Int : a = b + k * m  BY DEF Cong
<1>2. CASE k >= 1
  <2>1. k * m >= m  BY <1>2
  <2> QED  BY <1>1, <2>1
<1>3. CASE k <= -1
  <2>1. k * m <= -m  BY <1>3
  <2> QED  BY <1>1, <2>1
<1>4. CASE k = 0  BY <1>1, <1>4
<1> QED  BY <1>2, <1>3, <1>4

LEMMA CongIff ==
    ASSUME NEW a \in Int, NEW b \in Int, NEW m \in Nat \ {0}
    PROVE  Cong(a, b, m) <=> a % m = b % m
<1>1. /\ a % m \in 0..(m - 1) /\ b % m \in 0..(m - 1)
      /\ Cong(a, a % m, m) /\ Cong(a % m, a, m)
      /\ Cong(b, b % m, m) /\ Cong(b % m, b, m)
  BY CongMod
<1>2. ASSUME Cong(a, b, m) PROVE a % m = b % m
  <2>1. Cong(a % m, b, m)  BY <1>1, <1>2, CongTrans
  <2>2. Cong(a % m, b % m, m)  BY <1>1, <2>1, CongTrans
  <2> QED  BY <1>1, <2>2, CongSmall
<1>3. ASSUME a % m = b % m PROVE Cong(a, b, m)
  <2>1. Cong(a, b % m, m)  BY <1>1, <1>3
  <2> QED  BY <1>1, <2>1, CongTrans
<1> QED  BY <1>2, <1>3

LEMMA CongDivisor ==
    ASSUME NEW a \in Int, NEW b \in Int, NEW m \in Int, NEW l \in Int, Cong(a, b, m * l)
    PROVE  Cong(a, b, m) /\ Cong(a, b, l)
<1>1. PICK k \in Int : a = b + k * (m * l)  BY DEF Cong
<1>2. a = b + (k * l) * m /\ a = b + (k * m) * l /\ k * l \in Int /\ k * m \in Int
  BY <1>1
<1> QED  BY <1>2 DEF Cong

LEMMA CongScale ==
    ASSUME NEW a \in Int, NEW b \in Int, NEW m \in Int, NEW l \in Int, Cong(a, b, m)
    PROVE  Cong(a * l, b * l, m * l)
<1>1. PICK k \in Int : a = b + k * m  BY DEF Cong
<1>2. a * l = (b * l) + k * (m * l)  BY <1>1
<1> QED  BY <1>2 DEF Cong

------------------------------------------------------------------------------
(* Laws of powers. *)

LEMMA PowerAdd ==
    ASSUME NEW b \in Int, NEW j \in Nat, NEW k \in Nat
    PROVE  Power(b, j + k) = Power(b, j) * Power(b, k)
<1> DEFINE S == {i \in Nat : Power(b, j + i) = Power(b, j) * Power(b, i)}
<1>1. 0 \in S
  <2>1. Power(b, j) \in Int  BY PowerSucc
  <2> QED  BY <2>1, PowerZero
<1>2. ASSUME NEW i \in Nat, i \in S PROVE i + 1 \in S
  <2>1. Power(b, j) \in Int /\ Power(b, i) \in Int /\ Power(b, j + i) \in Int  BY PowerSucc
  <2>2. Power(b, i + 1) = b * Power(b, i)  BY PowerSucc
  <2>3. j + (i + 1) = (j + i) + 1 /\ j + i \in Nat  OBVIOUS
  <2>4. Power(b, j + (i + 1)) = b * Power(b, j + i)  BY <2>3, PowerSucc
  <2>5. b * (Power(b, j) * Power(b, i)) = Power(b, j) * (b * Power(b, i))  BY <2>1
  <2> QED  BY <1>2, <2>2, <2>4, <2>5
<1> HIDE DEF S
<1>3. k \in S  BY <1>1, <1>2, Induction
<1> QED  BY <1>3 DEF S

LEMMA PowerMul ==
    ASSUME NEW a \in Int, NEW b \in Int, NEW k \in Nat
    PROVE  Power(a * b, k) = Power(a, k) * Power(b, k)
<1> DEFINE S == {i \in Nat : Power(a * b, i) = Power(a, i) * Power(b, i)}
<1> a * b \in Int  OBVIOUS
<1>1. 0 \in S  BY PowerZero
<1>2. ASSUME NEW i \in Nat, i \in S PROVE i + 1 \in S
  <2>1. /\ Power(a * b, i + 1) = (a * b) * Power(a * b, i)
        /\ Power(a, i + 1) = a * Power(a, i) /\ Power(a, i) \in Int
        /\ Power(b, i + 1) = b * Power(b, i) /\ Power(b, i) \in Int
    BY PowerSucc
  <2>2. (a * b) * (Power(a, i) * Power(b, i)) = (a * Power(a, i)) * (b * Power(b, i))
    BY <2>1
  <2> QED  BY <1>2, <2>1, <2>2
<1> HIDE DEF S
<1>3. k \in S  BY <1>1, <1>2, Induction
<1> QED  BY <1>3 DEF S

LEMMA PowerPower ==
    ASSUME NEW b \in Int, NEW j \in Nat, NEW k \in Nat
    PROVE  Power(Power(b, j), k) = Power(b, j * k)
<1> DEFINE S == {i \in Nat : Power(Power(b, j), i) = Power(b, j * i)}
<1> Power(b, j) \in Int  BY PowerSucc
<1>1. 0 \in S
  <2>1. j * 0 = 0  OBVIOUS
  <2> QED  BY <2>1, PowerZero
<1>2. ASSUME NEW i \in Nat, i \in S PROVE i + 1 \in S
  <2>1. Power(Power(b, j), i + 1) = Power(b, j) * Power(b, j * i)  BY <1>2, PowerSucc
  <2>2. j * i \in Nat /\ j * (i + 1) = j + (j * i)  OBVIOUS
  <2>3. Power(b, j * (i + 1)) = Power(b, j) * Power(b, j * i)  BY <2>2, PowerAdd
  <2> QED  BY <2>1, <2>3
<1> HIDE DEF S
<1>3. k \in S  BY <1>1, <1>2, Induction
<1> QED  BY <1>3 DEF S

LEMMA PowerOne == ASSUME NEW k \in Nat PROVE Power(1, k) = 1
<1> DEFINE S == {i \in Nat : Power(1, i) = 1}
<1>1. 0 \in S  BY PowerZero
<1>2. ASSUME NEW i \in Nat, i \in S PROVE i + 1 \in S
  BY <1>2, PowerSucc
<1> HIDE DEF S
<1>3. k \in S  BY <1>1, <1>2, Induction
<1> QED  BY <1>3 DEF S

LEMMA CongPower ==
    ASSUME NEW a \in Int, NEW b \in Int, NEW m \in Int, NEW k \in Nat, Cong(a, b, m)
    PROVE  Cong(Power(a, k), Power(b, k), m)
<1> DEFINE S == {i \in Nat : Cong(Power(a, i), Power(b, i), m)}
<1>1. 0 \in S  BY PowerZero, CongRefl
<1>2. ASSUME NEW i \in Nat, i \in S PROVE i + 1 \in S
  <2>1. /\ Power(a, i + 1) = a * Power(a, i) /\ Power(a, i) \in Int
        /\ Power(b, i + 1) = b * Power(b, i) /\ Power(b, i) \in Int
    BY PowerSucc
  <2>2. Cong(a * Power(a, i), b * Power(b, i), m)  BY <1>2, <2>1, CongMul
  <2> QED  BY <2>1, <2>2
<1> HIDE DEF S
<1>3. k \in S  BY <1>1, <1>2, Induction
<1> QED  BY <1>3 DEF S

------------------------------------------------------------------------------
(* Units: numbers that have an inverse. *)

Unit(a, m) == \E y \in Int : Cong(a * y, 1, m)

LEMMA UnitMul ==
    ASSUME NEW a \in Int, NEW b \in Int, NEW m \in Int, Unit(a, m), Unit(b, m)
    PROVE  Unit(a * b, m)
<1>1. PICK y \in Int : Cong(a * y, 1, m)  BY DEF Unit
<1>2. PICK z \in Int : Cong(b * z, 1, m)  BY DEF Unit
<1>3. Cong((a * y) * (b * z), 1 * 1, m)  BY <1>1, <1>2, CongMul
<1>4. (a * y) * (b * z) = (a * b) * (y * z) /\ y * z \in Int /\ 1 * 1 = 1  OBVIOUS
<1> QED  BY <1>3, <1>4 DEF Unit

LEMMA UnitFactor ==
    ASSUME NEW a \in Int, NEW b \in Int, NEW m \in Int, Unit(a * b, m)
    PROVE  Unit(a, m) /\ Unit(b, m)
<1>1. PICK y \in Int : Cong((a * b) * y, 1, m)  BY DEF Unit
<1>2. (a * b) * y = a * (b * y) /\ (a * b) * y = b * (a * y) /\ b * y \in Int /\ a * y \in Int
  OBVIOUS
<1> QED  BY <1>1, <1>2 DEF Unit

LEMMA UnitCong ==
    ASSUME NEW a \in Int, NEW b \in Int, NEW m \in Int, Cong(a, b, m), Unit(a, m)
    PROVE  Unit(b, m)
<1>1. PICK y \in Int : Cong(a * y, 1, m)  BY DEF Unit
<1>2. Cong(b * y, a * y, m)  BY CongSym, CongRefl, CongMul
<1>3. Cong(b * y, 1, m)  BY <1>1, <1>2, CongTrans
<1> QED  BY <1>3 DEF Unit

LEMMA UnitCancel ==
    ASSUME NEW u \in Int, NEW a \in Int, NEW b \in Int, NEW m \in Int,
           Unit(u, m), Cong(u * a, u * b, m)
    PROVE  Cong(a, b, m)
<1>1. PICK y \in Int : Cong(u * y, 1, m)  BY DEF Unit
<1>2. ASSUME NEW c \in Int PROVE Cong(y * (u * c), c, m)
  <2>1. Cong((u * y) * c, 1 * c, m)  BY <1>1, CongRefl, CongMul
  <2>2. (u * y) * c = y * (u * c) /\ 1 * c = c  OBVIOUS
  <2> QED  BY <2>1, <2>2
<1>3. /\ u * a \in Int /\ u * b \in Int
      /\ y * (u * a) \in Int /\ y * (u * b) \in Int
  OBVIOUS
<1>4. Cong(y * (u * a), y * (u * b), m)  BY <1>3, CongRefl, CongMul
<1>5. Cong(a, y * (u * a), m)  BY <1>2, <1>3, CongSym
<1>6. Cong(a, y * (u * b), m)  BY <1>3, <1>4, <1>5, CongTrans
<1>7. Cong(y * (u * b), b, m)  BY <1>2
<1> QED  BY <1>3, <1>6, <1>7, CongTrans

LEMMA UnitPower ==
    ASSUME NEW a \in Int, NEW m \in Int, NEW k \in Nat, Unit(a, m)
    PROVE  Unit(Power(a, k), m)
<1> DEFINE S == {i \in Nat : Unit(Power(a, i), m)}
<1>1. 0 \in S
  <2>1. Cong(1 * 1, 1, m)  BY CongRefl
  <2> QED  BY <2>1, PowerZero DEF Unit
<1>2. ASSUME NEW i \in Nat, i \in S PROVE i + 1 \in S
  BY <1>2, PowerSucc, UnitMul
<1> HIDE DEF S
<1>3. k \in S  BY <1>1, <1>2, Induction
<1> QED  BY <1>3 DEF S

\* A unit modulo two numbers is one modulo their product, and conversely.
LEMMA UnitProduct ==
    ASSUME NEW a \in Int, NEW m \in Int, NEW l \in Int
    PROVE  Unit(a, m * l) <=> Unit(a, m) /\ Unit(a, l)
<1>1. ASSUME Unit(a, m), Unit(a, l) PROVE Unit(a, m * l)
  <2>1. PICK y \in Int : Cong(a * y, 1, m)  BY <1>1 DEF Unit
  <2>2. PICK z \in Int : Cong(a * z, 1, l)  BY <1>1 DEF Unit
  <2>3. PICK j \in Int : a * y = 1 + j * m  BY <2>1 DEF Cong
  <2>4. PICK k \in Int : a * z = 1 + k * l  BY <2>2 DEF Cong
  <2> DEFINE w == (y + z) - ((a * y) * z)
  <2>5. a * w = ((a * y) + (a * z)) - ((a * y) * (a * z))  OBVIOUS
  <2>6. ((a * y) + (a * z)) - ((a * y) * (a * z)) = 1 + (-(j * k)) * (m * l)
    BY <2>3, <2>4
  <2>7. w \in Int /\ -(j * k) \in Int  OBVIOUS
  <2> HIDE DEF w
  <2>8. Cong(a * w, 1, m * l)  BY <2>5, <2>6, <2>7 DEF Cong
  <2> QED  BY <2>7, <2>8 DEF Unit
<1>2. ASSUME Unit(a, m * l) PROVE Unit(a, m) /\ Unit(a, l)
  <2>1. PICK y \in Int : Cong(a * y, 1, m * l)  BY <1>2 DEF Unit
  <2>2. a * y \in Int /\ 1 \in Int  OBVIOUS
  <2>3. Cong(a * y, 1, m) /\ Cong(a * y, 1, l)  BY <2>1, <2>2, CongDivisor
  <2> QED  BY <2>3 DEF Unit
<1> QED  BY <1>1, <1>2

\* What two coprime numbers divide, their product divides.
LEMMA CongProduct ==
    ASSUME NEW p \in Int, NEW q \in Int, Unit(p, q), NEW a \in Int, NEW b \in Int,
           Cong(a, b, p), Cong(a, b, q)
    PROVE  Cong(a, b, p * q)
<1>1. PICK k \in Int : a = b + k * p  BY DEF Cong
<1>2. PICK l \in Int : a = b + l * q  BY DEF Cong
<1>3. p * k = (p * 0) + l * q  BY <1>1, <1>2
<1>4. Cong(p * k, p * 0, q)  BY <1>3 DEF Cong
<1>5. Cong(k, 0, q)  BY <1>4, UnitCancel
<1>6. PICK j \in Int : k = 0 + j * q  BY <1>5 DEF Cong
<1>7. a = b + j * (p * q)  BY <1>1, <1>6
<1> QED  BY <1>7 DEF Cong

------------------------------------------------------------------------------
(* Primes. *)

\* A number that a prime does not divide is a unit modulo the prime.
LEMMA PrimeUnit ==
    ASSUME NEW p \in Int, IsPrime(p), NEW a \in Int, ~Cong(a, 0, p)
    PROVE  Unit(a, p)
<1>p. p \in Nat \ {0} /\ p > 1 /\ \A d \in 2..(p - 1) : p % d # 0
  BY DEF IsPrime
<1> DEFINE T == {z \in Nat \ {0} : \E y \in Int : Cong(a * y, z, p)}
<1>1. p \in T
  <2>1. a * 0 = p + (-1) * p /\ -1 \in Int /\ 0 \in Int  BY <1>p
  <2>2. Cong(a * 0, p, p)  BY <2>1 DEF Cong
  <2>3. \E y \in Int : Cong(a * y, p, p)  BY <2>1, <2>2
  <2> QED  BY <1>p, <2>3
<1>2. PICK d \in T : \A z \in T : d <= z
  <2>1. T \subseteq Nat /\ T # {}  BY <1>1
  <2> HIDE DEF T
  <2> QED  BY <2>1, LeastNumber
<1>3. d \in Nat \ {0} /\ d <= p  BY <1>1, <1>2
<1>4. PICK y \in Int : Cong(a * y, d, p)  BY <1>2
<1>5. p % d = 0
  <2> DEFINE k == p \div d
  <2>1. p = (p % d) + k * d /\ p % d \in 0..(d - 1) /\ k \in Int  BY <1>3, <1>p
  <2> HIDE DEF k
  <2>i. /\ d \in Int /\ a * y \in Int /\ k * d \in Int /\ k * (a * y) \in Int
        /\ p % d \in Int
    BY <1>3, <2>1
  <2>2. Cong(k * (a * y), k * d, p)  BY <1>4, <2>1, <2>i, CongRefl, CongMul
  <2>3. Cong(0 - k * (a * y), p - k * d, p)
    <3>1. 0 = p + (-1) * p /\ 0 \in Int /\ -1 \in Int  BY <1>p
    <3>2. Cong(0, p, p)  BY <3>1 DEF Cong
    <3> QED  BY <2>i, <2>2, <3>1, <3>2, CongAdd
  <2>4. 0 - k * (a * y) = a * ((-k) * y) /\ (-k) * y \in Int /\ p - k * d = p % d
    BY <1>3, <1>p, <2>1
  <2>5. Cong(a * ((-k) * y), p % d, p)  BY <2>3, <2>4
  <2>6. ASSUME p % d # 0 PROVE FALSE
    <3>1. p % d \in T
      <4>1. p % d \in Nat \ {0}  BY <1>3, <2>1, <2>6
      <4> QED  BY <2>4, <2>5, <4>1
    <3>2. d <= p % d  BY <1>2, <3>1
    <3> QED  BY <1>3, <2>1, <3>2
  <2> QED  BY <2>6
<1>6. d = 1
  <2>1. d = 1 \/ d = p  BY <1>3, <1>5, <1>p
  <2>2. ASSUME d = p PROVE FALSE
    <3>1. Cong(a * 1, a % p, p) /\ a % p \in 0..(p - 1)  BY <1>p, CongMod
    <3>2. a % p # 0
      <4>1. 0 % p = 0  BY <1>p
      <4> QED  BY <1>p, <4>1, CongIff
    <3>3. a % p \in T  BY <3>1, <3>2
    <3>4. p <= a % p  BY <1>2, <2>2, <3>3
    <3> QED  BY <1>p, <3>1, <3>4
  <2> QED  BY <2>1, <2>2
<1> QED  BY <1>4, <1>6 DEF Unit

LEMMA PrimeZero ==
    ASSUME NEW p \in Int, IsPrime(p), NEW a \in Int
    PROVE  Unit(a, p) <=> ~Cong(a, 0, p)
<1>1. ASSUME Unit(a, p), Cong(a, 0, p) PROVE FALSE
  <2>p. p \in Nat \ {0} /\ p > 1  BY DEF IsPrime
  <2>1. PICK y \in Int : Cong(a * y, 1, p)  BY <1>1 DEF Unit
  <2>2. Cong(y, y, p)  BY CongRefl
  <2>3. 0 * y = 0 /\ 0 \in Int /\ 1 \in Int /\ a * y \in Int  OBVIOUS
  <2>6. Cong(a * y, 0 * y, p)  BY <1>1, <2>2, <2>3, CongMul
  <2>7. Cong(1, a * y, p)  BY <2>1, <2>3, CongSym
  <2>4. Cong(1, 0, p)  BY <2>3, <2>6, <2>7, CongTrans
  <2>5. 1 \in 0..(p - 1) /\ 0 \in 0..(p - 1)  BY <2>p
  <2> QED  BY <2>p, <2>4, <2>5, CongSmall
<1> QED  BY <1>1, PrimeUnit

\* The smaller numbers are units, other primes too.
LEMMA SmallUnit ==
    ASSUME NEW p \in Int, IsPrime(p), NEW a \in 1..(p - 1)
    PROVE  Unit(a, p)
<1>1. p \in Nat \ {0} /\ a \in 0..(p - 1) /\ 0 \in 0..(p - 1) /\ a \in Int /\ a # 0
  BY DEF IsPrime
<1>2. ~Cong(a, 0, p)  BY <1>1, CongSmall
<1> QED  BY <1>1, <1>2, PrimeUnit

LEMMA PrimesCoprime ==
    ASSUME NEW p \in Int, NEW q \in Int, IsPrime(p), IsPrime(q), p # q
    PROVE  Unit(p, q) /\ Unit(q, p)
<1>1. ASSUME NEW x \in Int, NEW y \in Int, IsPrime(x), IsPrime(y), x # y PROVE ~Cong(x, 0, y)
  <2> SUFFICES ASSUME Cong(x, 0, y) PROVE FALSE
    OBVIOUS
  <2>1. /\ x \in Nat \ {0} /\ y \in Nat \ {0} /\ x > 1 /\ y > 1
        /\ \A d \in 2..(x - 1) : x % d # 0
    BY <1>1 DEF IsPrime
  <2>2. x % y = 0 % y  BY <2>1, CongIff
  <2>3. x % y = 0  BY <2>1, <2>2
  <2>4. y > x  BY <1>1, <2>1, <2>3
  <2>5. x % y = x  BY <2>1, <2>4
  <2> QED  BY <2>1, <2>3, <2>5
<1> QED  BY <1>1, PrimeUnit

------------------------------------------------------------------------------
(* Fermat's little theorem: a times the numbers below p are these numbers    *)
(* again, in another order.                                                  *)

\* pr gives every set of numbers up to n its product.
IsProduct(pr, n) ==
    /\ pr \in [SUBSET (1..n) -> Int]
    /\ pr[{}] = 1
    /\ \A T \in SUBSET (1..n) : \A x \in T : pr[T] = x * pr[T \ {x}]

LEMMA ProductsExist ==
    ASSUME NEW n \in Nat PROVE \E pr : IsProduct(pr, n)
<1> DEFINE S == {k \in Nat : \E pr : IsProduct(pr, k)}
<1>1. 0 \in S
  <2>1. SUBSET (1..0) = {{}}  OBVIOUS
  <2>2. IsProduct([T \in SUBSET (1..0) |-> 1], 0)  BY <2>1 DEF IsProduct
  <2> QED  BY <2>2
<1>2. ASSUME NEW k \in Nat, k \in S PROVE k + 1 \in S
  <2>1. PICK pr : IsProduct(pr, k)  BY <1>2
  <2> DEFINE z == k + 1
             U == SUBSET (1..z)
             g == [T \in U |-> IF z \in T THEN z * pr[T \ {z}] ELSE pr[T]]
  <2>2. ASSUME NEW T \in U PROVE T \ {z} \in SUBSET (1..k) /\ (z \notin T => T \in SUBSET (1..k))
    OBVIOUS
  <2>3. ASSUME NEW T \in SUBSET (1..k) PROVE pr[T] \in Int
    BY <2>1 DEF IsProduct
  <2>4. g \in [U -> Int]
    <3>1. ASSUME NEW T \in U PROVE (IF z \in T THEN z * pr[T \ {z}] ELSE pr[T]) \in Int
      <4>1. pr[T \ {z}] \in Int  BY <2>2, <2>3
      <4>2. z \in Int  OBVIOUS
      <4>3. z * pr[T \ {z}] \in Int  BY <4>1, <4>2
      <4>4. z \notin T => pr[T] \in Int  BY <2>2, <2>3
      <4> QED  BY <4>3, <4>4
    <3> QED  BY <3>1
  <2>5. g[{}] = 1
    <3>1. {} \in U /\ z \notin {}  OBVIOUS
    <3> QED  BY <2>1, <3>1 DEF IsProduct
  <2>6. ASSUME NEW T \in U, NEW x \in T PROVE g[T] = x * g[T \ {x}]
    <3>1. T \ {x} \in U /\ x \in Int  OBVIOUS
    <3>2. CASE z \notin T
      <4>1. T \in SUBSET (1..k) /\ z \notin T \ {x}  BY <2>2, <3>2
      <4>2. g[T] = pr[T] /\ g[T \ {x}] = pr[T \ {x}]  BY <3>1, <3>2, <4>1
      <4> QED  BY <2>1, <4>1, <4>2 DEF IsProduct
    <3>3. CASE z \in T /\ x = z
      <4>1. g[T] = z * pr[T \ {z}] /\ g[T \ {x}] = pr[T \ {z}]  BY <3>1, <3>3
      <4> QED  BY <3>3, <4>1
    <3>4. CASE z \in T /\ x # z
      <4>1. g[T] = z * pr[T \ {z}] /\ g[T \ {x}] = z * pr[(T \ {x}) \ {z}]
        BY <3>1, <3>4
      <4>2. (T \ {x}) \ {z} = (T \ {z}) \ {x} /\ x \in T \ {z}  BY <3>4
      <4>3. pr[T \ {z}] = x * pr[(T \ {z}) \ {x}]  BY <2>1, <2>2, <4>2 DEF IsProduct
      <4>4. pr[(T \ {z}) \ {x}] \in Int
        <5>1. (T \ {z}) \ {x} \in SUBSET (1..k)  BY <2>2
        <5> QED  BY <2>3, <5>1
      <4>5. \A u, v, w \in Int : u * (v * w) = v * (u * w)  OBVIOUS
      <4>6. z \in Int  OBVIOUS
      <4> HIDE DEF g, z
      <4> QED  BY <3>1, <4>1, <4>2, <4>3, <4>4, <4>5, <4>6
    <3> QED  BY <3>2, <3>3, <3>4
  <2>7. IsProduct(g, z)  BY <2>4, <2>5, <2>6 DEF IsProduct
  <2> QED  BY <2>7
<1> HIDE DEF S
<1>3. n \in S  BY <1>1, <1>2, Induction
<1> QED  BY <1>3 DEF S

\* Fermat's theorem, which decryption rests on: what a prime p does not divide is 1
\* to the power p - 1.
THEOREM Fermat ==
    ASSUME NEW p \in Int, IsPrime(p), NEW a \in Int, Unit(a, p)
    PROVE  Cong(Power(a, p - 1), 1, p)
<1>p. p \in Nat \ {0} /\ p > 1  BY DEF IsPrime
<1> DEFINE n == p - 1
           All == 1..n
           F(i) == (a * i) % p
           Image(k) == {F(i) : i \in 1..k}
<1>n. n \in Nat  BY <1>p
<1>1. PICK pr : IsProduct(pr, n)  BY <1>n, ProductsExist
<1>i. ASSUME NEW i \in All
      PROVE  i \in Int /\ i \in 0..(p - 1) /\ Unit(i, p) /\ a * i \in Int
  <2>1. i \in 1..(p - 1)  OBVIOUS
  <2>2. Unit(i, p)  BY <2>1, SmallUnit
  <2> QED  BY <2>2
<1>2. ASSUME NEW i \in Int, i \in All
      PROVE  F(i) \in All /\ Cong(F(i), a * i, p) /\ Cong(a * i, F(i), p)
  <2>1. F(i) \in 0..(p - 1) /\ Cong(F(i), a * i, p) /\ Cong(a * i, F(i), p)
    BY <1>p, <1>2, <1>i, CongMod
  <2>2. Unit(a * i, p)  BY <1>2, <1>i, UnitMul
  <2>3. ~Cong(a * i, 0, p)  BY <1>2, <1>i, <2>2, PrimeZero
  <2>4. F(i) # 0
    <3>1. ASSUME F(i) = 0 PROVE Cong(a * i, 0, p)  BY <2>1, <3>1
    <3> QED  BY <2>3, <3>1
  <2> QED  BY <2>1, <2>4
<1>3. ASSUME NEW i \in All, NEW j \in All, F(i) = F(j) PROVE i = j
  <2>1. /\ i \in Int /\ j \in Int /\ a * i \in Int /\ a * j \in Int
        /\ i \in 0..(p - 1) /\ j \in 0..(p - 1)
    BY <1>i
  <2>2. Cong(a * i, a * j, p)
    <3>1. /\ Cong(a * i, F(i), p) /\ Cong(F(j), a * j, p)
          /\ F(i) \in All /\ F(j) \in All
      BY <1>2, <2>1
    <3>3. F(i) \in Int /\ F(j) \in Int  BY <3>1, <1>n
    <3>2. Cong(a * i, F(j), p)  BY <1>3, <3>1
    <3> HIDE DEF F
    <3> QED  BY <2>1, <3>1, <3>2, <3>3, CongTrans
  <2>3. Cong(i, j, p)  BY <2>1, <2>2, UnitCancel
  <2> QED  BY <1>p, <2>1, <2>3, CongSmall
<1>4. ASSUME NEW z \in All PROVE \E i \in All : F(i) = z
  <2>1. PICK y \in Int : Cong(a * y, 1, p)  BY DEF Unit
  <2>z. z \in Int /\ z \in 0..(p - 1)  BY <1>i
  <2> DEFINE i == (y * z) % p
  <2>i. y * z \in Int /\ a * y \in Int /\ (a * y) * z \in Int  BY <2>z
  <2>2. i \in 0..(p - 1) /\ Cong(i, y * z, p)  BY <1>p, <2>i, CongMod
  <2>3. i \in Int /\ a * i \in Int  BY <2>2
  <2> HIDE DEF i
  <2>4. Cong(a * i, a * (y * z), p)  BY <2>2, <2>3, <2>i, CongRefl, CongMul
  <2>5. Cong((a * y) * z, 1 * z, p)  BY <2>1, <2>z, <2>i, CongRefl, CongMul
  <2>6. (a * y) * z = a * (y * z) /\ 1 * z = z  BY <2>z
  <2>7. Cong(a * i, z, p)  BY <2>3, <2>4, <2>5, <2>6, <2>i, <2>z, CongTrans
  <2>8. F(i) = z
    <3>1. (a * i) % p = z % p  BY <1>p, <2>3, <2>7, <2>z, CongIff
    <3>2. z % p = z  BY <1>p, <2>z
    <3> QED  BY <3>1, <3>2
  <2>9. i # 0
    <3>1. ASSUME i = 0 PROVE F(i) = 0  BY <3>1, <1>p
    <3>2. z # 0  OBVIOUS
    <3> QED  BY <2>8, <3>1, <3>2
  <2>10. i \in All  BY <2>2, <2>9
  <2> QED  BY <2>8, <2>10
<1>5. Image(n) = All
  <2>1. ASSUME NEW z \in Image(n) PROVE z \in All
    <3>1. PICK i \in All : z = F(i)  OBVIOUS
    <3>2. F(i) \in All  BY <1>2, <1>i
    <3> QED  BY <3>1, <3>2
  <2>2. ASSUME NEW z \in All PROVE z \in Image(n)
    <3>1. PICK i \in All : F(i) = z  BY <1>4
    <3> QED  BY <3>1
  <2> QED  BY <2>1, <2>2
<1>6. ASSUME NEW k \in Nat, k + 1 <= n
      PROVE  /\ k + 1 \in All /\ F(k + 1) \in Int
             /\ pr[1..k] \in Int /\ pr[Image(k)] \in Int
             /\ pr[1..(k + 1)] = (k + 1) * pr[1..k]
             /\ pr[Image(k + 1)] = F(k + 1) * pr[Image(k)]
  <2>1. k + 1 \in All /\ k + 1 \in 1..(k + 1)  BY <1>6, <1>n
  <2>2. F(k + 1) \in All /\ F(k + 1) \in Int
    <3>1. k + 1 \in Int  OBVIOUS
    <3>2. F(k + 1) \in All  BY <1>2, <2>1, <3>1
    <3> QED  BY <3>2, <1>n
  <2>3. /\ 1..k \subseteq All /\ 1..(k + 1) \subseteq All
        /\ (1..(k + 1)) \ {k + 1} = 1..k
    BY <1>6, <1>n
  <2>4. /\ Image(k + 1) \subseteq All /\ Image(k) \subseteq All
    <3>1. \A i \in All : F(i) \in All  BY <1>2, <1>i
    <3> HIDE DEF F, All
    <3> QED  BY <2>3, <3>1
  <2>5. Image(k + 1) \ {F(k + 1)} = Image(k) /\ F(k + 1) \in Image(k + 1)
    <3>1. \A i \in 1..k : F(i) # F(k + 1)
      <4> SUFFICES ASSUME NEW i \in 1..k, F(i) = F(k + 1) PROVE FALSE
        OBVIOUS
      <4>1. i \in All  BY <2>3
      <4>2. i = k + 1  BY <1>3, <2>1, <4>1
      <4> QED  BY <4>2
    <3>2. 1..(k + 1) = (1..k) \cup {k + 1}  OBVIOUS
    <3> HIDE DEF F
    <3> QED  BY <3>1, <3>2
  <2> HIDE DEF Image, F
  <2>6. pr[1..k] \in Int /\ pr[Image(k)] \in Int
    BY <1>1, <2>3, <2>4 DEF IsProduct
  <2>7. pr[1..(k + 1)] = (k + 1) * pr[1..k]
    BY <1>1, <2>1, <2>3 DEF IsProduct
  <2>8. pr[Image(k + 1)] = F(k + 1) * pr[Image(k)]
    BY <1>1, <2>4, <2>5 DEF IsProduct
  <2> QED  BY <2>1, <2>2, <2>6, <2>7, <2>8
<1>0. 1..0 = {} /\ Image(0) = {} /\ pr[{}] = 1
  BY <1>1 DEF IsProduct
<1>7. Cong(pr[Image(n)], Power(a, n) * pr[1..n], p)
  <2> DEFINE S == {k \in Nat : k <= n =>
                      Cong(pr[Image(k)], Power(a, k) * pr[1..k], p)}
  <2> HIDE DEF Image
  <2>1. 0 \in S
    <3>1. Power(a, 0) = 1  BY PowerZero
    <3>2. Cong(1, 1 * 1, p)
      <4>1. 1 * 1 = 1  OBVIOUS
      <4> QED  BY <4>1, CongRefl
    <3> QED  BY <1>0, <3>1, <3>2
  <2>2. ASSUME NEW k \in Nat, k \in S PROVE k + 1 \in S
    <3> SUFFICES ASSUME k + 1 <= n
                 PROVE  Cong(pr[Image(k + 1)], Power(a, k + 1) * pr[1..(k + 1)], p)
      OBVIOUS
    <3>1. /\ k + 1 \in All /\ F(k + 1) \in Int
          /\ pr[1..k] \in Int /\ pr[Image(k)] \in Int
          /\ pr[1..(k + 1)] = (k + 1) * pr[1..k]
          /\ pr[Image(k + 1)] = F(k + 1) * pr[Image(k)]
      BY <1>6
    <3>2. Power(a, k) \in Int /\ Power(a, k + 1) = a * Power(a, k)  BY PowerSucc
    <3>3. k + 1 \in Int /\ a * (k + 1) \in Int /\ k <= n  BY <1>n
    <3>4. Cong(F(k + 1), a * (k + 1), p)  BY <1>2, <3>1, <3>3
    <3>5. Cong(pr[Image(k)], Power(a, k) * pr[1..k], p)  BY <2>2, <3>3
    <3> DEFINE u == Power(a, k)
               v == pr[1..k]
               w == k + 1
    <3>6. u \in Int /\ v \in Int /\ u * v \in Int /\ w \in Int
      <4>1. u \in Int /\ v \in Int /\ w \in Int  BY <3>1, <3>2, <3>3
      <4> HIDE DEF u, v, w
      <4> QED  BY <4>1
    <3> HIDE DEF F, u, v, w
    <3>7. Cong(F(k + 1) * pr[Image(k)], (a * w) * (u * v), p)
      BY <3>1, <3>3, <3>4, <3>5, <3>6, CongMul DEF u, v, w
    <3>8. (a * w) * (u * v) = (a * u) * (w * v)  BY <3>6
    <3> QED  BY <3>1, <3>2, <3>7, <3>8 DEF u, v, w
  <2> HIDE DEF S
  <2>3. n \in S  BY <1>n, <2>1, <2>2, Induction
  <2> QED  BY <1>n, <2>3 DEF S
<1>8. pr[1..n] \in Int /\ Unit(pr[1..n], p)
  <2> DEFINE S == {k \in Nat : k <= n => Unit(pr[1..k], p)}
  <2>1. 0 \in S
    <3>1. Cong(1 * 1, 1, p)
      <4>1. 1 * 1 = 1  OBVIOUS
      <4> QED  BY <4>1, CongRefl
    <3> QED  BY <1>0, <3>1 DEF Unit
  <2>2. ASSUME NEW k \in Nat, k \in S PROVE k + 1 \in S
    <3> SUFFICES ASSUME k + 1 <= n PROVE Unit(pr[1..(k + 1)], p)
      OBVIOUS
    <3>1. /\ k + 1 \in All /\ pr[1..k] \in Int
          /\ pr[1..(k + 1)] = (k + 1) * pr[1..k]
      BY <1>6
    <3>2. Unit(k + 1, p)  BY <1>i, <3>1
    <3>3. Unit(pr[1..k], p)  BY <2>2, <1>n
    <3>4. k + 1 \in Int  OBVIOUS
    <3>5. Unit((k + 1) * pr[1..k], p)  BY <3>1, <3>2, <3>3, <3>4, UnitMul
    <3> QED  BY <3>1, <3>5
  <2> HIDE DEF S
  <2>3. n \in S  BY <1>n, <2>1, <2>2, Induction
  <2>4. pr[1..n] \in Int  BY <1>1 DEF IsProduct
  <2> QED  BY <1>n, <2>3, <2>4 DEF S
<1> DEFINE W == pr[1..n]
           A == Power(a, n)
<1>9. W \in Int /\ A \in Int  BY <1>8, <1>n, PowerSucc
<1>10. Cong(W, A * W, p)  BY <1>5, <1>7
<1>11. Unit(W, p)  BY <1>8
<1> HIDE DEF W, A
<1>12. A * W = W * A /\ W = W * 1 /\ W * A \in Int /\ W * 1 \in Int  BY <1>9
<1>13. Cong(W * A, W * 1, p)
  <2>1. Cong(W * 1, W * A, p)  BY <1>10, <1>12
  <2> QED  BY <1>12, <2>1, CongSym
<1>14. Cong(A, 1, p)  BY <1>9, <1>11, <1>13, UnitCancel
<1> QED  BY <1>14 DEF A

------------------------------------------------------------------------------
(* Powers of 1 + z, up to the second and the third power of z.               *)

LEMMA Binomial ==
    ASSUME NEW z \in Int, NEW k \in Nat
    PROVE  \E t \in Int : Power(1 + z, k) = (1 + k * z) + t * (z * z)
<1> DEFINE S == {j \in Nat : \E t \in Int : Power(1 + z, j) = (1 + j * z) + t * (z * z)}
<1> 1 + z \in Int  OBVIOUS
<1>1. 0 \in S
  <2>1. 1 = (1 + 0 * z) + 0 * (z * z) /\ 0 \in Int  OBVIOUS
  <2>2. Power(1 + z, 0) = 1  BY PowerZero
  <2> QED  BY <2>1, <2>2
<1>2. ASSUME NEW j \in Nat, j \in S PROVE j + 1 \in S
  <2>1. PICK t \in Int : Power(1 + z, j) = (1 + j * z) + t * (z * z)  BY <1>2
  <2>2. Power(1 + z, j + 1) = (1 + z) * Power(1 + z, j)  BY PowerSucc
  <2>3. (1 + z) * ((1 + j * z) + t * (z * z))
            = (1 + (j + 1) * z) + ((j + t) + (t * z)) * (z * z)
    OBVIOUS
  <2> DEFINE u == (j + t) + (t * z)
  <2>4. u \in Int /\ j + 1 \in Nat  OBVIOUS
  <2>5. Power(1 + z, j + 1) = (1 + (j + 1) * z) + u * (z * z)
    BY <2>1, <2>2, <2>3
  <2> HIDE DEF u
  <2> QED  BY <2>4, <2>5
<1> HIDE DEF S
<1>3. k \in S  BY <1>1, <1>2, Induction
<1> QED  BY <1>3 DEF S

LEMMA BinomialThird ==
    ASSUME NEW z \in Int, NEW k \in Nat
    PROVE  \E c \in Int, t \in Int :
               /\ 2 * c = k * (k - 1)
               /\ Power(1 + z, k) = ((1 + k * z) + c * (z * z)) + t * ((z * z) * z)
<1> DEFINE Is(j, c, t) ==
        /\ 2 * c = j * (j - 1)
        /\ Power(1 + z, j) = ((1 + j * z) + c * (z * z)) + t * ((z * z) * z)
           S == {j \in Nat : \E c \in Int, t \in Int : Is(j, c, t)}
<1> 1 + z \in Int  OBVIOUS
<1>1. 0 \in S
  <2>1. 1 = ((1 + 0 * z) + 0 * (z * z)) + 0 * ((z * z) * z) /\ 0 \in Int /\ 2 * 0 = 0 * (0 - 1)
    OBVIOUS
  <2>2. Power(1 + z, 0) = 1  BY PowerZero
  <2>3. Is(0, 0, 0)  BY <2>1, <2>2
  <2> HIDE DEF Is
  <2> QED  BY <2>3
<1>2. ASSUME NEW j \in Nat, j \in S PROVE j + 1 \in S
  <2>1. PICK c \in Int, t \in Int : Is(j, c, t)  BY <1>2
  <2>2. Power(1 + z, j + 1) = (1 + z) * Power(1 + z, j)  BY PowerSucc
  <2> DEFINE u == (t + c) + (t * z)
  <2>3. (1 + z) * (((1 + j * z) + c * (z * z)) + t * ((z * z) * z))
            = ((1 + (j + 1) * z) + (c + j) * (z * z)) + u * ((z * z) * z)
    OBVIOUS
  <2>4. u \in Int /\ c + j \in Int  OBVIOUS
  <2>5. 2 * (c + j) = (j + 1) * ((j + 1) - 1)  BY <2>1
  <2>6. Is(j + 1, c + j, u)  BY <2>1, <2>2, <2>3, <2>5
  <2> HIDE DEF Is, u
  <2> QED  BY <2>4, <2>6
<1> HIDE DEF S
<1>3. k \in S  BY <1>1, <1>2, Induction
<1> QED  BY <1>3 DEF S

------------------------------------------------------------------------------
(* The size of a power, and the digits of a number.                          *)

LEMMA PowerPositive ==
    ASSUME NEW b \in Nat \ {0}, NEW k \in Nat PROVE Power(b, k) \in Nat \ {0}
<1> DEFINE S == {i \in Nat : Power(b, i) \in Nat \ {0}}
<1>1. 0 \in S  BY PowerZero
<1>2. ASSUME NEW i \in Nat, i \in S PROVE i + 1 \in S
  <2>1. Power(b, i + 1) = b * Power(b, i)  BY PowerSucc
  <2>2. \A u, v \in Nat \ {0} : u * v \in Nat \ {0}  OBVIOUS
  <2>3. Power(b, i) \in Nat \ {0}  BY <1>2
  <2>4. b * Power(b, i) \in Nat \ {0}  BY <2>2, <2>3
  <2> QED  BY <2>1, <2>4
<1> HIDE DEF S
<1>3. k \in S  BY <1>1, <1>2, Induction
<1> QED  BY <1>3 DEF S

LEMMA PowerMonotone ==
    ASSUME NEW b \in Nat \ {0}, NEW j \in Nat, NEW k \in Nat, j <= k
    PROVE  Power(b, j) <= Power(b, k)
<1>1. k - j \in Nat /\ j + (k - j) = k  OBVIOUS
<1>2. Power(b, k) = Power(b, j) * Power(b, k - j)  BY <1>1, PowerAdd
<1>3. Power(b, j) \in Nat \ {0} /\ Power(b, k - j) \in Nat \ {0}  BY <1>1, PowerPositive
<1>4. \A u, v \in Nat \ {0} : u <= u * v  OBVIOUS
<1> QED  BY <1>2, <1>3, <1>4

HasDigits(k, b, c) ==
    /\ k = 0 => c = 0
    /\ k # 0 => c # 0 /\ Power(b, c - 1) <= k /\ k < Power(b, c)

LEMMA DigitsStep ==
    ASSUME NEW b \in Nat, b >= 2, NEW k \in Nat \ {0}, NEW c \in Nat,
           HasDigits(k \div b, b, c)
    PROVE  HasDigits(k, b, c + 1)
<1> DEFINE d == k \div b
<1>1. d \in Nat /\ b * d <= k /\ k < b * (d + 1)
  <2>1. k = (k % b) + d * b /\ k % b \in 0..(b - 1) /\ d \in Int  OBVIOUS
  <2>2. d >= 0  OBVIOUS
  <2> HIDE DEF d
  <2> QED  BY <2>1, <2>2
<1>2. HasDigits(d, b, c)  OBVIOUS
<1> HIDE DEF d
<1>3. b \in Nat \ {0} /\ b \in Int  OBVIOUS
<1>4. Power(b, c) \in Nat \ {0} /\ Power(b, c + 1) = b * Power(b, c)
  BY <1>3, PowerPositive, PowerSucc
<1>5. CASE d = 0
  <2>1. c = 0  BY <1>2, <1>5 DEF HasDigits
  <2>2. Power(b, c) = 1  BY <2>1, <1>3, PowerZero
  <2>3. Power(b, (c + 1) - 1) <= k /\ k < Power(b, c + 1)
    <3>1. (c + 1) - 1 = c  OBVIOUS
    <3> QED  BY <1>1, <1>4, <1>5, <2>2, <3>1
  <2> QED  BY <2>3 DEF HasDigits
<1>6. CASE d # 0
  <2>1. c # 0 /\ Power(b, c - 1) <= d /\ d < Power(b, c)  BY <1>2, <1>6 DEF HasDigits
  <2>2. c - 1 \in Nat /\ (c - 1) + 1 = c /\ (c + 1) - 1 = c  BY <2>1
  <2>3. Power(b, c) = b * Power(b, c - 1) /\ Power(b, c - 1) \in Int
    BY <1>3, <2>2, PowerSucc
  <2>4. Power(b, (c + 1) - 1) <= k
    <3>1. b * Power(b, c - 1) <= b * d  BY <1>1, <2>1, <2>3
    <3> QED  BY <1>1, <1>4, <2>2, <2>3, <3>1
  <2>5. k < Power(b, c + 1)
    <3>1. d + 1 <= Power(b, c)  BY <1>1, <1>4, <2>1
    <3>2. b * (d + 1) <= b * Power(b, c)  BY <1>1, <1>4, <3>1
    <3>3. b * (d + 1) \in Int /\ b * Power(b, c) \in Int  BY <1>1, <1>4
    <3> QED  BY <1>1, <1>4, <3>2, <3>3
  <2> QED  BY <2>4, <2>5 DEF HasDigits
<1> QED  BY <1>5, <1>6

LEMMA DigitsAgree ==
    ASSUME NEW b \in Nat, b >= 2, NEW k \in Nat, NEW c \in Nat, NEW d \in Nat,
           HasDigits(k, b, c), HasDigits(k, b, d)
    PROVE  c = d
<1>1. ASSUME NEW x \in Nat, NEW y \in Nat, HasDigits(k, b, x), HasDigits(k, b, y), x < y
      PROVE  FALSE
  <2>1. k # 0  BY <1>1 DEF HasDigits
  <2>2. k < Power(b, x) /\ Power(b, y - 1) <= k /\ y # 0  BY <1>1, <2>1 DEF HasDigits
  <2>3. b \in Nat \ {0} /\ y - 1 \in Nat /\ x <= y - 1  BY <1>1
  <2>4. Power(b, x) <= Power(b, y - 1)  BY <2>3, PowerMonotone
  <2>5. Power(b, x) \in Nat /\ Power(b, y - 1) \in Nat  BY <2>3, PowerPositive
  <2> QED  BY <2>2, <2>4, <2>5
<1> QED  BY <1>1

LEMMA DigitsExist ==
    ASSUME NEW b \in Nat, b >= 2, NEW k \in Nat
    PROVE  \E c \in Nat : HasDigits(k, b, c)
<1> DEFINE S == {i \in Nat : \E c \in Nat : HasDigits(i, b, c)}
<1>1. ASSUME NEW i \in Nat, \A j \in 0..(i - 1) : j \in S PROVE i \in S
  <2>1. CASE i = 0
    <3>1. HasDigits(0, b, 0)  BY DEF HasDigits
    <3> QED  BY <2>1, <3>1
  <2>2. CASE i # 0
    <3>1. i \div b \in 0..(i - 1)  BY <2>2
    <3>2. PICK c \in Nat : HasDigits(i \div b, b, c)  BY <1>1, <3>1
    <3>3. HasDigits(i, b, c + 1) /\ c + 1 \in Nat  BY <2>2, <3>2, DigitsStep
    <3> QED  BY <3>3
  <2> QED  BY <2>1, <2>2
<1> HIDE DEF S
<1>2. k \in S  BY <1>1, CompleteInduction
<1> QED  BY <1>2 DEF S

\* Count counts digits.
LEMMA CountIs ==
    ASSUME NEW m \in Nat, NEW b \in Nat, b >= 2
    PROVE  Count(m, b) \in Nat /\ HasDigits(m, b, Count(m, b))
<1> DEFINE Eq(h) == h = [k \in 0..m |-> IF k = 0 THEN 0 ELSE 1 + h[k \div b]]
           f == CHOOSE h : Eq(h)
           g == [k \in 0..m |-> CHOOSE c \in Nat : HasDigits(k, b, c)]
<1>1. ASSUME NEW k \in 0..m, k # 0 PROVE k \div b \in 0..m /\ k \div b \in 0..(k - 1)
  BY <1>1
<1>2. ASSUME NEW k \in 0..m PROVE g[k] \in Nat /\ HasDigits(k, b, g[k])
  <2>1. k \in Nat  OBVIOUS
  <2>2. \E c \in Nat : HasDigits(k, b, c)  BY <2>1, DigitsExist
  <2> QED  BY <2>2
<1>3. Eq(g)
  <2>1. ASSUME NEW k \in 0..m PROVE g[k] = IF k = 0 THEN 0 ELSE 1 + g[k \div b]
    <3>1. CASE k = 0  BY <1>2, <3>1 DEF HasDigits
    <3>2. CASE k # 0
      <4>1. k \div b \in 0..m  BY <1>1, <3>2
      <4>2. g[k \div b] \in Nat /\ HasDigits(k \div b, b, g[k \div b])  BY <1>2, <4>1
      <4>3. g[k] \in Nat /\ HasDigits(k, b, g[k])  BY <1>2
      <4> HIDE DEF g
      <4>4. HasDigits(k, b, g[k \div b] + 1) /\ g[k \div b] + 1 \in Nat
        <5>1. k \in Nat \ {0}  BY <3>2
        <5> QED  BY <4>2, <5>1, DigitsStep
      <4>5. g[k] = g[k \div b] + 1
        <5>1. k \in Nat  OBVIOUS
        <5> QED  BY <4>3, <4>4, <5>1, DigitsAgree
      <4> QED  BY <3>2, <4>2, <4>5
    <3> QED  BY <3>1, <3>2
  <2>2. g = [k \in 0..m |-> g[k]]  OBVIOUS
  <2> HIDE DEF g
  <2> QED  BY <2>1, <2>2
<1>4. Eq(f)
  <2> HIDE DEF g
  <2> QED  BY <1>3
<1>5. Count(m, b) = f[m]  BY DEF Count
<1> HIDE DEF f
<1> DEFINE S == {k \in Nat : k <= m => f[k] \in Nat /\ HasDigits(k, b, f[k])}
<1>6. ASSUME NEW k \in Nat, \A j \in 0..(k - 1) : j \in S PROVE k \in S
  <2> SUFFICES ASSUME k <= m PROVE f[k] \in Nat /\ HasDigits(k, b, f[k])
    OBVIOUS
  <2>1. k \in 0..m  OBVIOUS
  <2>2. f[k] = IF k = 0 THEN 0 ELSE 1 + f[k \div b]  BY <1>4, <2>1
  <2>3. CASE k = 0  BY <2>2, <2>3 DEF HasDigits
  <2>4. CASE k # 0
    <3>1. k \div b \in 0..(k - 1) /\ k \div b <= m
      <4>1. k \div b \in 0..(k - 1)  BY <1>1, <2>1, <2>4
      <4>2. \A i \in 0..(k - 1) : i <= m  BY <2>1
      <4> QED  BY <4>1, <4>2
    <3>2. f[k \div b] \in Nat /\ HasDigits(k \div b, b, f[k \div b])  BY <1>6, <3>1
    <3>3. HasDigits(k, b, f[k \div b] + 1)  BY <2>4, <3>2, DigitsStep
    <3>4. f[k] = f[k \div b] + 1  BY <2>2, <2>4, <3>2
    <3> QED  BY <3>2, <3>3, <3>4
  <2> QED  BY <2>3, <2>4
<1> HIDE DEF S
<1>7. m \in S  BY <1>6, CompleteInduction
<1> QED  BY <1>5, <1>7 DEF S

LEMMA BitLengthIs ==
    ASSUME NEW m \in Nat, NEW k \in Nat \ {0}, Power(2, k - 1) <= m, m < Power(2, k)
    PROVE  BitLength(m) = k
<1>1. k - 1 \in Nat /\ 2 \in Nat \ {0}  OBVIOUS
<1>2. Power(2, k - 1) \in Nat \ {0}  BY <1>1, PowerPositive
<1>3. m # 0  BY <1>2
<1>4. HasDigits(m, 2, k)  BY <1>3 DEF HasDigits
<1>5. Count(m, 2) \in Nat /\ HasDigits(m, 2, Count(m, 2))  BY CountIs
<1>6. Count(m, 2) = k  BY <1>4, <1>5, DigitsAgree
<1> QED  BY <1>3, <1>6 DEF BitLength

\* The numbers of one length lie between two powers of 2.
LEMMA BitLengthBounds ==
    ASSUME NEW m \in Nat \ {0}
    PROVE  /\ BitLength(m) \in Nat \ {0}
           /\ Power(2, BitLength(m) - 1) <= m
           /\ m < Power(2, BitLength(m))
<1>1. Count(m, 2) \in Nat /\ HasDigits(m, 2, Count(m, 2))  BY CountIs
<1>2. BitLength(m) = Count(m, 2)  BY DEF BitLength
<1> QED  BY <1>1, <1>2 DEF HasDigits

\* Two numbers of half the bits whose product has its top bit: the number of
\* bits is even, the product has that length, and neither number is twice the
\* other.
LEMMA ProductLength ==
    ASSUME NEW bits \in Nat \ {0},
           NEW p \in 0..(Power(2, bits \div 2) - 1),
           NEW q \in 0..(Power(2, bits \div 2) - 1),
           BitSet(p * q, bits - 1)
    PROVE  /\ bits % 2 = 0
           /\ BitLength(p * q) = bits
           /\ \E g \in Nat \ {0} : g < p /\ p < 2 * g /\ g < q /\ q < 2 * g
<1> DEFINE h == bits \div 2
           H == Power(2, h)
           T == Power(2, bits - 1)
<1>1. h \in Nat /\ bits = (2 * h) + (bits % 2) /\ bits % 2 \in {0, 1} /\ bits - 1 \in Nat
  OBVIOUS
<1>t. 2 \in Nat \ {0} /\ 2 \in Int  OBVIOUS
<1>2. H \in Nat \ {0} /\ T \in Nat \ {0}  BY <1>1, <1>t, PowerPositive
<1>3. p \in Nat /\ q \in Nat /\ p < H /\ q < H /\ p * q \in Nat
  <2>1. p \in Nat /\ q \in Nat /\ p < H /\ q < H  BY <1>2
  <2> QED  BY <2>1
<1>4. T <= p * q
  <2>1. ((p * q) \div T) % 2 = 1  BY DEF BitSet
  <2> HIDE DEF T
  <2> DEFINE m == p * q
  <2>2. m \in Nat /\ (m \div T) % 2 = 1  BY <1>3, <2>1
  <2> HIDE DEF m
  <2>3. ASSUME m < T PROVE FALSE
    <3>1. m \div T = 0  BY <1>2, <2>2, <2>3
    <3> QED  BY <2>2, <3>1
  <2>4. T <= m  BY <1>2, <2>2, <2>3
  <2> QED  BY <2>4 DEF m
<1>5. p * q < H * H
  <2> HIDE DEF H
  <2> QED  BY <1>2, <1>3
<1>6. bits % 2 = 0
  <2> SUFFICES ASSUME bits % 2 = 1 PROVE FALSE
    BY <1>1
  <2>1. bits - 1 = h + h  BY <1>1
  <2>2. T = H * H  BY <1>1, <1>t, <2>1, PowerAdd
  <2> HIDE DEF T, H, h
  <2> QED  BY <1>2, <1>3, <1>4, <1>5, <2>2
<1>7. h - 1 \in Nat /\ (h - 1) + 1 = h /\ bits - 1 = h + (h - 1) /\ bits = h + h
  BY <1>1, <1>6
<1> DEFINE g == Power(2, h - 1)
<1>8. g \in Nat \ {0} /\ H = 2 * g /\ T = H * g /\ Power(2, bits) = H * H
  <2>1. g \in Nat \ {0}  BY <1>7, <1>t, PowerPositive
  <2>2. H = 2 * g  BY <1>7, <1>t, PowerSucc
  <2>3. T = H * g
    <3>1. Power(2, h + (h - 1)) = Power(2, h) * Power(2, h - 1)
      BY <1>1, <1>7, <1>t, PowerAdd
    <3> QED  BY <1>7, <3>1
  <2>4. Power(2, bits) = H * H
    <3>1. Power(2, h + h) = Power(2, h) * Power(2, h)  BY <1>1, <1>t, PowerAdd
    <3> QED  BY <1>7, <3>1
  <2> QED  BY <2>1, <2>2, <2>3, <2>4
<1>9. BitLength(p * q) = bits  BY <1>3, <1>4, <1>5, <1>8, BitLengthIs
<1>10. \A u, v \in Nat : u < 2 * g /\ v < 2 * g /\ (2 * g) * g <= u * v => g < u
  <2>1. g \in Nat \ {0}  BY <1>8
  <2> HIDE DEF g
  <2> SUFFICES ASSUME NEW u \in Nat, NEW v \in Nat, v < 2 * g, (2 * g) * g <= u * v, u <= g
               PROVE  FALSE
    BY <2>1
  <2>2. u * v <= g * v  BY <2>1
  <2>3. g * v < g * (2 * g)  BY <2>1
  <2>4. g * (2 * g) = (2 * g) * g /\ g * v \in Int /\ u * v \in Int /\ (2 * g) * g \in Int
    BY <2>1
  <2> QED  BY <2>2, <2>3, <2>4
<1>11. g < p /\ g < q
  <2>1. p * q = q * p  BY <1>3
  <2>2. p < 2 * g /\ q < 2 * g /\ (2 * g) * g <= p * q  BY <1>3, <1>4, <1>8
  <2> HIDE DEF g
  <2> QED  BY <1>3, <1>10, <2>1, <2>2
<1> QED  BY <1>3, <1>6, <1>8, <1>9, <1>11
==============================================================================
