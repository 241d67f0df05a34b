---------------------- MODULE PaillierCryptosystem_proofs ----------------------
(***************************************************************************)
(* The operators on ciphers compute modulo n, for any key, any number of   *)
(* variables of either class, any plain operands and blinding factors.     *)
(***************************************************************************)
EXTENDS PaillierCryptosystem, Paillier_proofs

\* The invariant: what was assigned is a ciphertext.
IInv == TypeOK /\ \A v \in assigned : raw[v] \in Units

LEMMA UnitsAreCiphertexts == \A c : c \in Units <=> Ciphertext(c)
<1> USE Moduli
<1>1. ASSUME NEW c \in 0..(n_squared - 1)
      PROVE  c \in Int /\ (Invertible(c, n) <=> Unit(c, n))
  <2>1. c \in Int  OBVIOUS
  <2> QED  BY <2>1, InvertibleIsUnit
<1>2. ~Unit(0, n)
  <2>1. P \in Nat /\ P > 2 /\ 0 \in Int  BY KeyPrimes
  <2>2. 0 % P = 0  BY <2>1
  <2> QED  BY <2>1, <2>2, UnitModN
<1>3. ASSUME NEW c, c \in Units PROVE Ciphertext(c)
  <2>1. c \in 0..(n_squared - 1) /\ Invertible(c, n)  BY <1>3 DEF Units
  <2> QED  BY <1>1, <2>1 DEF Ciphertext
<1>4. ASSUME NEW c, Ciphertext(c) PROVE c \in Units
  <2>1. c \in 0..(n_squared - 1) /\ Unit(c, n)  BY <1>4 DEF Ciphertext
  <2>2. c # 0  BY <1>2, <2>1
  <2>3. c \in 1..(n_squared - 1)  BY <2>1, <2>2
  <2> QED  BY <1>1, <2>1, <2>3 DEF Units
<1> QED  BY <1>3, <1>4

\* What a cipher holds can be decrypted, and is a number below n^2.
LEMMA RawRange ==
    ASSUME NEW c \in Units \cup {0}
    PROVE  c \in 0..(n_squared - 1) /\ c \in Int /\ Dec[c] \in 0..(n - 1) /\ Dec[c] \in Int
<1> USE Moduli
<1>1. c \in 0..(n_squared - 1)
  <2>1. 0 \in 0..(n_squared - 1)  OBVIOUS
  <2> QED  BY <2>1, UnitsAreCiphertexts DEF Ciphertext
<1>2. c \in Int  BY <1>1
<1>3. Dec[c] \in 0..(n - 1)  BY <1>1, DecRange
<1>4. Dec[c] \in Int  BY <1>3
<1> QED  BY <1>1, <1>2, <1>3, <1>4

LEMMA BlindIsUnit == ASSUME NEW r \in Blinds PROVE r \in Int /\ Unit(r, n)
<1>1. r \in Units  BY BlindsAssumption DEF BlindsAssumption
<1> QED  BY <1>1, RawRange, UnitsAreCiphertexts DEF Ciphertext

LEMMA EncUnit ==
    ASSUME NEW m \in Int, NEW r \in Blinds
    PROVE  Enc(m, r) \in Units /\ Dec[Enc(m, r)] = m % n
BY BlindIsUnit, DecInvertsEnc, UnitsAreCiphertexts, PrimesAssumption
   DEF PrimesAssumption

LEMMA MulUnit ==
    ASSUME NEW c \in Units, NEW d \in Units
    PROVE  Mul(c, d) \in Units /\ Dec[Mul(c, d)] = (Dec[c] + Dec[d]) % n
BY MulAdds, UnitsAreCiphertexts, PrimesAssumption DEF PrimesAssumption

LEMMA MulZero ==
    ASSUME NEW c \in Units \cup {0}, NEW d \in Units \cup {0}, c = 0 \/ d = 0
    PROVE  Mul(c, d) = 0
<1>1. c \in Int /\ d \in Int  BY RawRange
<1>2. c * d = 0  BY <1>1
<1>3. n_squared \in Nat \ {0}  BY Moduli
<1> QED  BY <1>2, <1>3 DEF Mul

LEMMA MulClosed ==
    ASSUME NEW c \in Units \cup {0}, NEW d \in Units \cup {0}
    PROVE  Mul(c, d) \in Units \cup {0}
BY MulZero, MulUnit

LEMMA ExpUnit ==
    ASSUME NEW c \in Units, NEW k \in Int
    PROVE  Exp(c, k) \in Units /\ Dec[Exp(c, k)] = (Dec[c] * k) % n
BY ExpMultiplies, UnitsAreCiphertexts, PrimesAssumption DEF PrimesAssumption

LEMMA ExpClosed ==
    ASSUME NEW c \in Units \cup {0}, NEW k \in Int, ~(k < 0 /\ c = 0)
    PROVE  Exp(c, k) \in Units \cup {0}
<1> USE Moduli
<1>1. CASE c \in Units  BY <1>1, ExpUnit
<1>2. CASE c = 0 /\ k = 0
  <2>1. Exp(c, k) = Power(c, 0) % n_squared /\ Power(c, 0) = 1
    <3>1. 0 \in Int /\ 0 \in Nat  OBVIOUS
    <3> QED  BY <1>2, <3>1, PowModIs, PowerZero DEF Exp
  <2>2. n_squared > 1
    <3>1. n * n > 1  BY Moduli
    <3> QED  BY <3>1
  <2>3. 1 % n_squared = 1  BY <2>2
  <2>4. Exp(c, k) = 1  BY <2>1, <2>3
  <2>5. Cong(1 * 1, 1, n) /\ 1 \in 0..(n_squared - 1)
    <3>1. 1 * 1 = 1  OBVIOUS
    <3> QED  BY <2>2, <3>1, CongRefl
  <2>6. Ciphertext(1)  BY <2>5 DEF Ciphertext, Unit
  <2> QED  BY <2>4, <2>6, UnitsAreCiphertexts
<1>3. CASE c = 0 /\ k > 0
  <2>1. k - 1 \in Nat /\ (k - 1) + 1 = k /\ k \in Nat  BY <1>3
  <2>2. Power(0, k) = 0 * Power(0, k - 1) /\ Power(0, k - 1) \in Int
    <3>1. 0 \in Int  OBVIOUS
    <3>2. Power(0, (k - 1) + 1) = 0 * Power(0, k - 1) /\ Power(0, k - 1) \in Int
      BY <2>1, <3>1, PowerSucc
    <3> QED  BY <2>1, <3>2
  <2>3. Power(0, k) = 0  BY <2>2
  <2>4. Exp(c, k) = 0 % n_squared
    <3>1. 0 \in Int  OBVIOUS
    <3> QED  BY <1>3, <2>1, <2>3, <3>1, PowModIs DEF Exp
  <2>5. 0 % n_squared = 0  OBVIOUS
  <2> QED  BY <2>4, <2>5
<1> QED  BY <1>1, <1>2, <1>3

\* The pool's powers of blinding factors are encryptions of 0.
LEMMA BlindPower ==
    ASSUME NEW r \in Blinds
    PROVE  PowMod(r, n, n_squared) \in Units /\ Dec[PowMod(r, n, n_squared)] = 0
<1> USE Moduli
<1> DEFINE w == Power(r, n)
           e == Enc(0, r)
<1>0. 0 \in Int /\ n \in Nat  OBVIOUS
<1>1. r \in Int /\ w \in Int  BY BlindIsUnit, PowerSucc
<1>2. PowMod(r, n, n_squared) = w % n_squared  BY <1>0, <1>1, PowModIs
<1>3. e \in 0..(n_squared - 1) /\ Cong(e, (1 + 0 * n) * w, n_squared)
  BY <1>0, <1>1, EncIs
<1>4. e \in Units /\ Dec[e] = 0 % n  BY <1>0, EncUnit
<1> HIDE DEF e, w
<1>5. (1 + 0 * n) * w = w /\ 0 % n = 0 /\ e \in Int  BY <1>1, <1>3
<1>6. e % n_squared = w % n_squared  BY <1>1, <1>3, <1>5, CongIff
<1>7. e % n_squared = e  BY <1>3
<1> QED  BY <1>2, <1>4, <1>5, <1>6, <1>7

------------------------------------------------------------------------------
(* Operators on values are operators modulo n.                               *)

\* Congruent operands give equal sums.
LEMMA ModSum ==
    ASSUME NEW a \in Int, NEW b \in Int, NEW c \in Int, Cong(b, c, n)
    PROVE  (a + (b % n)) % n = (a + c) % n
<1> USE Moduli
<1>1. b % n \in 0..(n - 1) /\ Cong(b % n, b, n)  BY CongMod
<1>2. b % n \in Int  BY <1>1
<1>3. Cong(b % n, c, n)  BY <1>1, <1>2, CongTrans
<1>4. Cong(a + (b % n), a + c, n)  BY <1>2, <1>3, CongRefl, CongAdd
<1> DEFINE u == a + (b % n)
           v == a + c
<1>5. u \in Int /\ v \in Int  BY <1>2
<1>6. Cong(u, v, n)  BY <1>4
<1> HIDE DEF u, v
<1>7. u % n = v % n  BY <1>5, <1>6, CongIff
<1> QED  BY <1>7 DEF u, v

\* The steps as updates of one variable: what each operation stores.
LEMMA AddCipherStores ==
    ASSUME IInv, NEW v \in Vars, NEW w \in Vars
    PROVE  /\ Mul(raw[v], raw[w]) \in Units \cup {0}
           /\ {v, w} \subseteq assigned =>
                 /\ Mul(raw[v], raw[w]) \in Units
                 /\ Dec[Mul(raw[v], raw[w])] = (Dec[raw[v]] + Dec[raw[w]]) % n
<1>1. raw[v] \in Units \cup {0} /\ raw[w] \in Units \cup {0}  BY DEF IInv, TypeOK
<1> QED  BY <1>1, MulClosed, MulUnit DEF IInv

LEMMA AddEncStores ==
    ASSUME IInv, NEW v \in Vars, NEW m \in Int, NEW r \in Blinds
    PROVE  /\ Mul(raw[v], Enc(m, r)) \in Units \cup {0}
           /\ v \in assigned =>
                 /\ Mul(raw[v], Enc(m, r)) \in Units
                 /\ Dec[Mul(raw[v], Enc(m, r))] = (Dec[raw[v]] + (m % n)) % n
<1>1. raw[v] \in Units \cup {0}  BY DEF IInv, TypeOK
<1>2. Enc(m, r) \in Units /\ Dec[Enc(m, r)] = m % n  BY EncUnit
<1> QED  BY <1>1, <1>2, MulClosed, MulUnit DEF IInv

LEMMA SubCipherStores ==
    ASSUME IInv, NEW v \in Vars, NEW w \in Vars, raw[w] # 0
    PROVE  /\ Mul(raw[v], Exp(raw[w], -1)) \in Units \cup {0}
           /\ {v, w} \subseteq assigned =>
                 /\ Mul(raw[v], Exp(raw[w], -1)) \in Units
                 /\ Dec[Mul(raw[v], Exp(raw[w], -1))] = (Dec[raw[v]] - Dec[raw[w]]) % n
<1>1. raw[v] \in Units \cup {0} /\ raw[w] \in Units  BY DEF IInv, TypeOK
<1>2. -1 \in Int  OBVIOUS
<1>3. Exp(raw[w], -1) \in Units /\ Dec[Exp(raw[w], -1)] = (Dec[raw[w]] * (-1)) % n
  BY <1>1, <1>2, ExpUnit
<1>4. ASSUME {v, w} \subseteq assigned
      PROVE  (Dec[raw[v]] + ((Dec[raw[w]] * (-1)) % n)) % n = (Dec[raw[v]] - Dec[raw[w]]) % n
  <2> DEFINE a == Dec[raw[v]]
             b == Dec[raw[w]]
  <2>1. a \in Int /\ b \in Int  BY <1>1, RawRange
  <2> HIDE DEF a, b
  <2>2. b * (-1) \in Int /\ -b \in Int /\ b * (-1) = -b /\ a + (-b) = a - b  BY <2>1
  <2>3. Cong(b * (-1), -b, n)  BY <2>2, CongRefl, Moduli
  <2>4. (a + ((b * (-1)) % n)) % n = (a + (-b)) % n  BY <2>1, <2>2, <2>3, ModSum
  <2> QED  BY <2>2, <2>4 DEF a, b
<1> QED  BY <1>1, <1>3, <1>4, MulClosed, MulUnit DEF IInv

LEMMA RecryptStores ==
    ASSUME IInv, NEW v \in Vars, NEW r \in Blinds
    PROVE  /\ Mul(raw[v], PowMod(r, n, n_squared)) \in Units \cup {0}
           /\ v \in assigned =>
                 /\ Mul(raw[v], PowMod(r, n, n_squared)) \in Units
                 /\ Dec[Mul(raw[v], PowMod(r, n, n_squared))] = Dec[raw[v]] % n
<1> DEFINE d == PowMod(r, n, n_squared)
<1>1. raw[v] \in Units \cup {0} /\ Dec[raw[v]] \in Int  BY RawRange DEF IInv, TypeOK
<1>2. d \in Units /\ Dec[d] = 0  BY BlindPower
<1> HIDE DEF d
<1>3. Dec[raw[v]] + 0 = Dec[raw[v]]  BY <1>1
<1>4. v \in assigned => Mul(raw[v], d) \in Units /\ Dec[Mul(raw[v], d)] = (Dec[raw[v]] + Dec[d]) % n
  BY <1>2, MulUnit DEF IInv
<1>5. Mul(raw[v], d) \in Units \cup {0}  BY <1>1, <1>2, MulClosed
<1> QED  BY <1>2, <1>3, <1>4, <1>5 DEF d

LEMMA MultiplyStores ==
    ASSUME IInv, NEW v \in Vars, NEW p \in Int, ~(p < 0 /\ raw[v] = 0)
    PROVE  /\ Exp(raw[v], p) \in Units \cup {0}
           /\ v \in assigned =>
                 /\ Exp(raw[v], p) \in Units
                 /\ Dec[Exp(raw[v], p)] = (Dec[raw[v]] * p) % n
<1>1. raw[v] \in Units \cup {0}  BY DEF IInv, TypeOK
<1> QED  BY <1>1, ExpClosed, ExpUnit DEF IInv

------------------------------------------------------------------------------
(* Every step stores in a variable what the operation gives on numbers, if   *)
(* its operands were assigned, or aborts over one that was not.              *)

IsOperation(name, v, a) ==
    /\ v \in Vars /\ a \in Vars \cup Plains
    /\ name \in {"=", "+=", "-=", "*="} \/ (name = "recrypt" /\ a = v)

Computes(name, v, a, c) ==
    /\ c \in Units \cup {0}
    /\ Reads(name, v, a) \subseteq assigned =>
          /\ c \in Units
          /\ Dec[c] = Algebra!Result(name, Dec[raw[v]], Plain(a)) % n

Stores(name, v, a) ==
    /\ IsOperation(name, v, a)
    /\ \E c : Computes(name, v, a, c) /\ Store(name, v, a, c)

Aborts(name, v, a) ==
    /\ IsOperation(name, v, a)
    /\ ~(Reads(name, v, a) \subseteq assigned)
    /\ Abort(name, v, a)

LEMMA PlainIs ==
    ASSUME IInv
    PROVE  /\ \A v \in Vars : Plain(v) = Dec[raw[v]] /\ Dec[raw[v]] \in Int
                              /\ Dec[raw[v]] \in 0..(n - 1)
           /\ \A p \in Plains : Plain(p) = p /\ p \in Int /\ {p} \cap Vars = {}
           /\ \A a \in Vars \cup Plains : Plain(a) \in Int
<1>1. ASSUME NEW v \in Vars
      PROVE  Plain(v) = Dec[raw[v]] /\ Dec[raw[v]] \in Int /\ Dec[raw[v]] \in 0..(n - 1)
  <2>1. raw[v] \in Units \cup {0}  BY DEF IInv, TypeOK
  <2> QED  BY <2>1, RawRange DEF Plain
<1>2. ASSUME NEW p \in Plains PROVE Plain(p) = p /\ p \in Int /\ {p} \cap Vars = {}
  BY ProgramAssumption DEF ProgramAssumption, Plain
<1> QED  BY <1>1, <1>2

LEMMA PlainSteps ==
    ASSUME IInv, NEW v \in Vars, NEW p \in Plains
    PROVE  /\ AssignPlain(v, p) => Stores("=", v, p)
           /\ AddPlain(v, p) => Stores("+=", v, p)
           /\ SubPlain(v, p) => Stores("-=", v, p)
           /\ MultiplyPlain(v, p) => Stores("*=", v, p) \/ Aborts("*=", v, p)
<1> USE Moduli
<1>p. p \in Int /\ Plain(p) = p /\ {p} \cap Vars = {} /\ Dec[raw[v]] \in Int  BY PlainIs
<1>o. \A name \in {"=", "+=", "-=", "*="} : IsOperation(name, v, p)  BY DEF IsOperation
<1>r. \A name \in {"+=", "-=", "*="} : Reads(name, v, p) = {v}  BY <1>p DEF Reads
<1>1. ASSUME AssignPlain(v, p) PROVE Stores("=", v, p)
  <2>1. PICK r \in Blinds : Store("=", v, p, Enc(p, r))  BY <1>1 DEF AssignPlain
  <2>2. Enc(p, r) \in Units /\ Dec[Enc(p, r)] = p % n  BY <1>p, EncUnit
  <2>3. Computes("=", v, p, Enc(p, r))
    BY <1>p, <2>2 DEF Computes, Algebra!Result
  <2> QED  BY <1>o, <2>1, <2>3 DEF Stores
<1>2. ASSUME AddPlain(v, p) PROVE Stores("+=", v, p)
  <2>1. PICK r \in Blinds : Store("+=", v, p, Mul(raw[v], Enc(p, r)))
    BY <1>2 DEF AddPlain
  <2>2. (Dec[raw[v]] + (p % n)) % n = (Dec[raw[v]] + p) % n
    <3>1. Cong(p, p, n)  BY <1>p, CongRefl
    <3> QED  BY <1>p, <3>1, ModSum
  <2>3. Computes("+=", v, p, Mul(raw[v], Enc(p, r)))
    BY <1>p, <1>r, <2>2, AddEncStores DEF Computes, Algebra!Result
  <2> QED  BY <1>o, <2>1, <2>3 DEF Stores
<1>3. ASSUME SubPlain(v, p) PROVE Stores("-=", v, p)
  <2>1. PICK r \in Blinds : Store("-=", v, p, Mul(raw[v], Enc(n - p, r)))
    BY <1>3 DEF SubPlain
  <2>2. n - p \in Int /\ -p \in Int /\ Dec[raw[v]] + (-p) = Dec[raw[v]] - p  BY <1>p
  <2>3. (Dec[raw[v]] + ((n - p) % n)) % n = (Dec[raw[v]] - p) % n
    <3>1. n - p = (-p) + 1 * n  BY <1>p
    <3>2. Cong(n - p, -p, n)  BY <3>1 DEF Cong
    <3> QED  BY <1>p, <2>2, <3>2, ModSum
  <2>4. Computes("-=", v, p, Mul(raw[v], Enc(n - p, r)))
    BY <1>p, <1>r, <2>2, <2>3, AddEncStores DEF Computes, Algebra!Result
  <2> QED  BY <1>o, <2>1, <2>4 DEF Stores
<1>4. ASSUME MultiplyPlain(v, p) PROVE Stores("*=", v, p) \/ Aborts("*=", v, p)
  <2>1. CASE p < 0 /\ raw[v] = 0
    <3>1. Abort("*=", v, p)  BY <1>4, <2>1 DEF MultiplyPlain
    <3>2. v \notin assigned
      <4>1. ~Unit(0, n)
        <5>1. P \in Nat /\ P > 2 /\ 0 \in Int  BY KeyPrimes
        <5>2. 0 % P = 0  BY <5>1
        <5> QED  BY <5>1, <5>2, UnitModN
      <4>2. 0 \notin Units  BY <4>1, UnitsAreCiphertexts DEF Ciphertext
      <4> QED  BY <2>1, <4>2 DEF IInv
    <3> QED  BY <1>o, <1>r, <3>1, <3>2 DEF Aborts
  <2>2. CASE ~(p < 0 /\ raw[v] = 0)
    <3>1. Store("*=", v, p, Exp(raw[v], p))  BY <1>4, <2>2 DEF MultiplyPlain
    <3>2. Computes("*=", v, p, Exp(raw[v], p))
      BY <1>p, <1>r, <2>2, MultiplyStores DEF Computes, Algebra!Result
    <3> QED  BY <1>o, <3>1, <3>2 DEF Stores
  <2> QED  BY <2>1, <2>2
<1> QED  BY <1>1, <1>2, <1>3, <1>4

LEMMA CipherSteps ==
    ASSUME IInv, NEW v \in Vars, NEW w \in Vars
    PROVE  /\ AssignCipher(v, w) => Stores("=", v, w)
           /\ AddCipher(v, w) => Stores("+=", v, w)
           /\ SubCipher(v, w) => Stores("-=", v, w) \/ Aborts("-=", v, w)
           /\ Recrypt(v) => Stores("recrypt", v, v)
<1> USE Moduli
<1>p. /\ Plain(w) = Dec[raw[w]] /\ Plain(v) = Dec[raw[v]]
      /\ Dec[raw[w]] \in 0..(n - 1)
  BY PlainIs
<1>o. \A name \in {"=", "+=", "-="} : IsOperation(name, v, w)  BY DEF IsOperation
<1>r. \A name \in {"+=", "-="} : Reads(name, v, w) = {v, w}  BY DEF Reads
<1>1. ASSUME AssignCipher(v, w) PROVE Stores("=", v, w)
  <2>1. Store("=", v, w, raw[w])  BY <1>1 DEF AssignCipher
  <2>2. raw[w] \in Units \cup {0} /\ Reads("=", v, w) = {w}  BY DEF IInv, TypeOK, Reads
  <2>3. Dec[raw[w]] % n = Dec[raw[w]]
    <3>1. \A m \in 0..(n - 1) : m % n = m  OBVIOUS
    <3> QED  BY <1>p, <3>1
  <2>4. Computes("=", v, w, raw[w])
    BY <1>p, <2>2, <2>3 DEF Computes, Algebra!Result, IInv
  <2> QED  BY <1>o, <2>1, <2>4 DEF Stores
<1>2. ASSUME AddCipher(v, w) PROVE Stores("+=", v, w)
  <2>1. Store("+=", v, w, Mul(raw[v], raw[w]))  BY <1>2 DEF AddCipher
  <2>2. Computes("+=", v, w, Mul(raw[v], raw[w]))
    BY <1>p, <1>r, AddCipherStores DEF Computes, Algebra!Result
  <2> QED  BY <1>o, <2>1, <2>2 DEF Stores
<1>3. ASSUME SubCipher(v, w) PROVE Stores("-=", v, w) \/ Aborts("-=", v, w)
  <2>1. CASE raw[w] = 0
    <3>1. Abort("-=", v, w)  BY <1>3, <2>1 DEF SubCipher
    <3>2. w \notin assigned
      <4>1. ~Unit(0, n)
        <5>1. P \in Nat /\ P > 2 /\ 0 \in Int  BY KeyPrimes
        <5>2. 0 % P = 0  BY <5>1
        <5> QED  BY <5>1, <5>2, UnitModN
      <4>2. 0 \notin Units  BY <4>1, UnitsAreCiphertexts DEF Ciphertext
      <4> QED  BY <2>1, <4>2 DEF IInv
    <3> QED  BY <1>o, <1>r, <3>1, <3>2 DEF Aborts
  <2>2. CASE raw[w] # 0
    <3>1. Store("-=", v, w, Mul(raw[v], Exp(raw[w], -1)))  BY <1>3, <2>2 DEF SubCipher
    <3>2. Computes("-=", v, w, Mul(raw[v], Exp(raw[w], -1)))
      BY <1>p, <1>r, <2>2, SubCipherStores DEF Computes, Algebra!Result
    <3> QED  BY <1>o, <3>1, <3>2 DEF Stores
  <2> QED  BY <2>1, <2>2
<1>4. ASSUME Recrypt(v) PROVE Stores("recrypt", v, v)
  <2>1. PICK r \in Blinds : Store("recrypt", v, v, Mul(raw[v], PowMod(r, n, n_squared)))
    BY <1>4 DEF Recrypt
  <2>2. Reads("recrypt", v, v) = {v}  BY DEF Reads
  <2>3. Computes("recrypt", v, v, Mul(raw[v], PowMod(r, n, n_squared)))
    BY <2>2, RecryptStores DEF Computes, Algebra!Result
  <2>4. IsOperation("recrypt", v, v)  BY DEF IsOperation
  <2> QED  BY <2>1, <2>3, <2>4 DEF Stores
<1> QED  BY <1>1, <1>2, <1>3, <1>4

LEMMA PrivateSteps ==
    ASSUME IInv, NEW v \in Private, NEW a \in Private \cup Plains
    PROVE  /\ PrivateAdd(v, a) => Stores("+=", v, a)
           /\ PrivateSub(v, a) => Stores("-=", v, a)
           /\ PrivateMultiply(v, a) => Stores("*=", v, a)
<1>v. v \in Vars /\ a \in Vars \cup Plains  BY ProgramAssumption DEF ProgramAssumption
<1>o. \A name \in {"+=", "-=", "*="} : IsOperation(name, v, a)  BY <1>v DEF IsOperation
<1>p. Plain(v) \in Int /\ Plain(a) \in Int /\ Plain(v) = Dec[raw[v]]  BY <1>v, PlainIs
<1>1. ASSUME NEW name \in {"+=", "-=", "*="}, NEW m \in Int, Reencrypt(name, v, a, m),
             m = Algebra!Result(name, Plain(v), Plain(a))
      PROVE  Stores(name, v, a)
  <2>1. PICK r \in Blinds : Store(name, v, a, Enc(m, r))  BY <1>1 DEF Reencrypt
  <2>2. Enc(m, r) \in Units /\ Dec[Enc(m, r)] = m % n  BY EncUnit
  <2>3. Computes(name, v, a, Enc(m, r))  BY <1>1, <1>p, <2>2 DEF Computes
  <2> QED  BY <1>o, <2>1, <2>3 DEF Stores
<1>2. ASSUME PrivateAdd(v, a) PROVE Stores("+=", v, a)
  <2>1. /\ Plain(a) + Plain(v) \in Int
        /\ Plain(a) + Plain(v) = Algebra!Result("+=", Plain(v), Plain(a))
    BY <1>p DEF Algebra!Result
  <2> QED  BY <1>1, <1>2, <2>1 DEF PrivateAdd
<1>3. ASSUME PrivateSub(v, a) PROVE Stores("-=", v, a)
  <2>1. /\ Plain(v) - Plain(a) \in Int
        /\ Plain(v) - Plain(a) = Algebra!Result("-=", Plain(v), Plain(a))
    BY <1>p DEF Algebra!Result
  <2> QED  BY <1>1, <1>3, <2>1 DEF PrivateSub
<1>4. ASSUME PrivateMultiply(v, a) PROVE Stores("*=", v, a)
  <2>1. /\ Plain(a) * Plain(v) \in Int
        /\ Plain(a) * Plain(v) = Algebra!Result("*=", Plain(v), Plain(a))
    BY <1>p DEF Algebra!Result
  <2> QED  BY <1>1, <1>4, <2>1 DEF PrivateMultiply
<1> QED  BY <1>2, <1>3, <1>4

LEMMA Steps ==
    ASSUME IInv, Next
    PROVE  \E name, v, a : Stores(name, v, a) \/ Aborts(name, v, a)
<1>1. ASSUME NEW v \in Vars, NEW p \in Plains, AssignPlain(v, p)
      PROVE  \E name, u, a : Stores(name, u, a)
  BY <1>1, PlainSteps
<1>2. ASSUME NEW v \in Vars, NEW w \in Vars, AssignCipher(v, w)
      PROVE  \E name, u, a : Stores(name, u, a)
  BY <1>2, CipherSteps
<1>3. ASSUME NEW v \in Vars, Recrypt(v)
      PROVE  \E name, u, a : Stores(name, u, a)
  BY <1>3, CipherSteps
<1>4. ASSUME NEW v \in Vars, NEW w \in Vars, AddCipher(v, w) \/ SubCipher(v, w)
      PROVE  \E name, u, a : Stores(name, u, a) \/ Aborts(name, u, a)
  BY <1>4, CipherSteps
<1>5. ASSUME NEW v \in Vars, NEW p \in Plains,
             AddPlain(v, p) \/ SubPlain(v, p) \/ MultiplyPlain(v, p)
      PROVE  \E name, u, a : Stores(name, u, a) \/ Aborts(name, u, a)
  BY <1>5, PlainSteps
<1>6. ASSUME NEW v \in Private, NEW a \in Private \cup Plains,
             PrivateAdd(v, a) \/ PrivateSub(v, a) \/ PrivateMultiply(v, a)
      PROVE  \E name, u, b : Stores(name, u, b)
  BY <1>6, PrivateSteps
<1> QED  BY <1>1, <1>2, <1>3, <1>4, <1>5, <1>6 DEF Next, PublicKeyOperator, PrivateKeyOperator

------------------------------------------------------------------------------
(* The theorems. *)

LEMMA InvStep == ASSUME IInv, [Next]_vars PROVE IInv'
<1>1. CASE UNCHANGED vars
  BY <1>1 DEF vars, IInv, TypeOK, Units
<1>2. CASE Next
  <2>1. PICK name, v, a : Stores(name, v, a) \/ Aborts(name, v, a)  BY <1>2, Steps
  <2>2. CASE Stores(name, v, a)
    <3>1. PICK c : Computes(name, v, a, c) /\ Store(name, v, a, c)  BY <2>2 DEF Stores
    <3>2. IsOperation(name, v, a) /\ op' \in Operation
      BY <2>2, <3>1 DEF Stores, Store, Applied, IsOperation, Operation
    <3>3. /\ raw' = [raw EXCEPT ![v] = c] /\ aborted' = aborted
          /\ assigned' = IF Reads(name, v, a) \subseteq assigned
                         THEN assigned \cup {v} ELSE assigned \ {v}
      BY <3>1 DEF Store
    <3>4. v \in Vars /\ c \in Units \cup {0}
          /\ (Reads(name, v, a) \subseteq assigned => c \in Units)
      BY <3>1, <3>2 DEF IsOperation, Computes
    <3>5. TypeOK'  BY <3>2, <3>3, <3>4 DEF IInv, TypeOK
    <3>6. \A u \in assigned' : raw'[u] \in Units
      BY <3>3, <3>4 DEF IInv, TypeOK
    <3> QED  BY <3>5, <3>6 DEF IInv, Units
  <2>3. CASE Aborts(name, v, a)
    <3>1. /\ op' \in Operation /\ aborted' = TRUE /\ UNCHANGED <<raw, assigned>>
      BY <2>3 DEF Aborts, Abort, Applied, IsOperation, Operation
    <3> QED  BY <3>1 DEF IInv, TypeOK, Units
  <2> QED  BY <2>1, <2>2, <2>3
<1> QED  BY <1>1, <1>2

LEMMA Invariant == Spec => []IInv
<1>1. Init => IInv  BY DEF Init, IInv, TypeOK
<1> QED  BY <1>1, InvStep, PTL DEF Spec

\* A variable holds a ciphertext of the key or the integer 0, at all times.
THEOREM TypeCorrect == Spec => []TypeOK
<1>1. IInv => TypeOK  BY DEF IInv
<1> QED  BY <1>1, Invariant, PTL

\* The length of n / 2, that dec() compares with, is at least 3.
LEMMA HalfLength ==
    /\ halfN \in Nat \ {0} /\ halfN >= 4
    /\ BitLength(halfN) \in Nat /\ BitLength(halfN) > 2
    /\ Power(2, BitLength(halfN) - 1) <= halfN
    /\ halfN < Power(2, BitLength(halfN))
<1> DEFINE B == BitLength(halfN)
<1>2. halfN \in Nat \ {0} /\ halfN >= 4  BY ModulusIs DEF halfN
<1>3. B \in Nat \ {0} /\ Power(2, B - 1) <= halfN /\ halfN < Power(2, B)
  BY <1>2, BitLengthBounds
<1>t. 2 \in Nat \ {0} /\ 2 \in Int  OBVIOUS
<1>4. B > 2
  <2> SUFFICES ASSUME B <= 2 PROVE FALSE
    BY <1>3
  <2>1. B \in Nat /\ 2 \in Nat  BY <1>3
  <2>2. Power(2, B) <= Power(2, 2)
    <3> HIDE DEF B
    <3> QED  BY <1>t, <2>1, PowerMonotone
  <2>3. Power(2, 2) = 4
    <3>1. Power(2, 0) = 1  BY <1>t, PowerZero
    <3>2. Power(2, 0 + 1) = 2 * 1  BY <1>t, <3>1, PowerSucc
    <3>3. Power(2, 1 + 1) = 2 * Power(2, 1)  BY <1>t, PowerSucc
    <3> QED  BY <3>2, <3>3
  <2>4. Power(2, B) \in Nat
    <3> HIDE DEF B
    <3> QED  BY <1>t, <2>1, PowerPositive
  <2> QED  BY <1>2, <1>3, <2>2, <2>3, <2>4
<1> QED  BY <1>2, <1>3, <1>4

\* Signs are right where SmallValuesSigned says, for keys of any size.
THEOREM SignsOfSmallValues == Spec => []SmallValuesSigned
<1>1. ASSUME IInv PROVE SmallValuesSigned
  <2> SUFFICES ASSUME NEW v \in assigned
               PROVE  LET m == Dec[raw[v]]
                      IN  /\ m > halfN => SignedDec(raw[v]) = m - n
                          /\ m < Power(2, BitLength(halfN) - 2) => SignedDec(raw[v]) = m
    BY DEF SmallValuesSigned
  <2> DEFINE m == Dec[raw[v]]
             B == BitLength(halfN)
  <2>1. m \in 0..(n - 1) /\ m \in Nat
    <3>1. raw[v] \in Units \cup {0}  BY <1>1 DEF IInv
    <3> QED  BY <3>1, RawRange
  <2>2. halfN \in Nat \ {0} /\ halfN >= 4  BY HalfLength
  <2>3. B \in Nat \ {0} /\ Power(2, B - 1) <= halfN /\ halfN < Power(2, B)
    BY HalfLength
  <2>t. 2 \in Nat \ {0} /\ 2 \in Int  OBVIOUS
  <2>4. B > 2  BY HalfLength
  <2>5. SignedDec(raw[v]) = IF BitLength(m) >= B - 1 /\ m # halfN THEN m - n ELSE m
    BY DEF SignedDec
  <2> HIDE DEF m, B
  <2>6. B - 2 \in Nat /\ B - 1 \in Nat /\ Power(2, B - 2) \in Nat /\ Power(2, B - 1) \in Nat
        /\ Power(2, B - 2) <= Power(2, B - 1)
    <3>1. B - 2 \in Nat /\ B - 1 \in Nat /\ B - 2 <= B - 1  BY <2>3, <2>4
    <3> QED  BY <2>t, <3>1, PowerPositive, PowerMonotone
  <2>7. ASSUME m > halfN PROVE BitLength(m) >= B - 1
    <3>1. m \in Nat \ {0}  BY <2>1, <2>2, <2>7
    <3>2. BitLength(m) \in Nat \ {0} /\ m < Power(2, BitLength(m))  BY <3>1, BitLengthBounds
    <3>3. ASSUME BitLength(m) <= B - 2 PROVE FALSE
      <4>1. BitLength(m) \in Nat  BY <3>2
      <4>2. Power(2, BitLength(m)) <= Power(2, B - 2) /\ Power(2, BitLength(m)) \in Nat
        BY <2>t, <2>6, <3>3, <4>1, PowerMonotone, PowerPositive
      <4> QED  BY <2>1, <2>2, <2>3, <2>6, <2>7, <3>2, <4>2
    <3> QED  BY <2>3, <3>2, <3>3
  <2>8. ASSUME m < Power(2, B - 2) PROVE ~(BitLength(m) >= B - 1)
    <3>1. CASE m = 0
      <4>1. BitLength(m) = 1  BY <3>1 DEF BitLength
      <4> QED  BY <2>3, <2>4, <4>1
    <3>2. CASE m # 0
      <4>1. m \in Nat \ {0}  BY <2>1, <3>2
      <4>2. BitLength(m) \in Nat \ {0} /\ Power(2, BitLength(m) - 1) <= m
        BY <4>1, BitLengthBounds
      <4>3. ASSUME BitLength(m) >= B - 1 PROVE FALSE
        <5>1. BitLength(m) - 1 \in Nat /\ B - 2 <= BitLength(m) - 1  BY <2>3, <4>2, <4>3
        <5>2. Power(2, B - 2) <= Power(2, BitLength(m) - 1)
              /\ Power(2, BitLength(m) - 1) \in Nat
          BY <2>t, <2>6, <5>1, PowerMonotone, PowerPositive
        <5> QED  BY <2>1, <2>6, <2>8, <4>2, <5>2
      <4> QED  BY <4>3
    <3> QED  BY <3>1, <3>2
  <2>9. m > halfN => SignedDec(raw[v]) = m - n
    <3>1. m > halfN => m # halfN  BY <2>1, <2>2
    <3> QED  BY <2>5, <2>7, <3>1
  <2>10. m < Power(2, B - 2) => SignedDec(raw[v]) = m  BY <2>5, <2>8
  <2> QED  BY <2>9, <2>10 DEF m, B
<1> QED  BY <1>1, Invariant, PTL

\* "Return negative values if > N/2", says the comment over the test of dec().
\* The test goes by lengths and also makes a value below n/2 negative, for every
\* key: each that is at most one bit shorter than n/2.
THEOREM PositivesMadeNegative ==
    ASSUME NEW c \in Units,
           Power(2, BitLength(halfN) - 2) <= Dec[c], Dec[c] < halfN
    PROVE  SignedDec(c) = Dec[c] - n
<1> DEFINE m == Dec[c]
           B == BitLength(halfN)
<1>1. m \in 0..(n - 1) /\ m \in Nat  BY RawRange
<1>2. halfN \in Nat /\ B \in Nat /\ B > 2  BY HalfLength
<1>3. SignedDec(c) = IF BitLength(m) >= B - 1 /\ m # halfN THEN m - n ELSE m
  BY DEF SignedDec
<1>4. Power(2, B - 2) <= m /\ m < halfN  OBVIOUS
<1> HIDE DEF m, B
<1>5. Power(2, B - 2) \in Nat \ {0}
  <2>1. 2 \in Nat \ {0} /\ B - 2 \in Nat  BY <1>2
  <2> QED  BY <2>1, PowerPositive
<1>6. BitLength(m) >= B - 1
  <2>1. m \in Nat \ {0}  BY <1>1, <1>4, <1>5
  <2>2. BitLength(m) \in Nat \ {0} /\ m < Power(2, BitLength(m))  BY <2>1, BitLengthBounds
  <2> SUFFICES ASSUME BitLength(m) <= B - 2 PROVE FALSE
    BY <1>2, <2>2
  <2>3. 2 \in Nat \ {0} /\ BitLength(m) \in Nat /\ B - 2 \in Nat  BY <1>2, <2>2
  <2>4. Power(2, BitLength(m)) <= Power(2, B - 2) /\ Power(2, BitLength(m)) \in Nat
    BY <2>3, PowerMonotone, PowerPositive
  <2> QED  BY <1>1, <1>4, <1>5, <2>2, <2>4
<1>7. SignedDec(c) = m - n  BY <1>1, <1>2, <1>3, <1>4, <1>6
<1> QED  BY <1>7 DEF m

Val == [v \in Vars |-> Value(v)]

LEMMA ValIs ==
    ASSUME IInv
    PROVE  /\ \A v \in assigned : v \in Vars /\ Val[v] = Dec[raw[v]] /\ Val[v] # Undef
           /\ \A v \in Vars \ assigned : Val[v] = Undef
<1>1. ASSUME NEW v \in assigned PROVE v \in Vars /\ Val[v] = Dec[raw[v]] /\ Val[v] # Undef
  <2>1. v \in Vars  BY DEF IInv, TypeOK
  <2>2. Dec[raw[v]] \in Int  BY <2>1, PlainIs
  <2> QED  BY <2>1, <2>2, ProgramAssumption DEF ProgramAssumption, Val, Value
<1> QED  BY <1>1 DEF Val, Value

LEMMA StepImplements ==
    ASSUME IInv, IInv', Next PROVE Algebra!Next
<1>1. PICK name, v, a : Stores(name, v, a) \/ Aborts(name, v, a)  BY Steps
<1>2. IsOperation(name, v, a)  BY <1>1 DEF Stores, Aborts
<1>3. v \in Vars /\ a \in Vars \cup Plains  BY <1>2 DEF IsOperation
<1>v. Val = [u \in Vars |-> Value(u)]  BY DEF Val
<1>4. Reads(name, v, a) \subseteq assigned <=> Undef \notin Algebra!Operands(name, v, a)
  <2>1. Algebra!Number(a) = IF a \in Vars THEN Val[a] ELSE a
    BY DEF Algebra!Number, Val
  <2>2. Algebra!Number(a) = Undef <=> a \in Vars /\ a \notin assigned
    <3>1. CASE a \in Vars  BY <2>1, <3>1, ValIs
    <3>2. CASE a \notin Vars
      BY <1>3, <2>1, <3>2, ProgramAssumption DEF ProgramAssumption
    <3> QED  BY <3>1, <3>2
  <2>3. Val[v] = Undef <=> v \notin assigned  BY <1>3, ValIs
  <2>4. Algebra!Operands(name, v, a)
            = IF name = "=" THEN {Algebra!Number(a)} ELSE {Val[v], Algebra!Number(a)}
    BY DEF Algebra!Operands, Val
  <2> QED  BY <2>2, <2>3, <2>4 DEF Reads
<1>5. Algebra!Apply(name, v, a)
  <2>1. CASE Stores(name, v, a)
    <3>1. PICK c : Computes(name, v, a, c) /\ Store(name, v, a, c)  BY <2>1 DEF Stores
    <3>2. /\ op' = [name |-> name, dest |-> v, arg |-> a]
          /\ raw' = [raw EXCEPT ![v] = c] /\ aborted' = aborted
          /\ assigned' = IF Reads(name, v, a) \subseteq assigned
                         THEN assigned \cup {v} ELSE assigned \ {v}
      BY <3>1 DEF Store, Applied
    <3>r. raw \in [Vars -> Units \cup {0}] /\ assigned \subseteq Vars  BY DEF IInv, TypeOK
    <3>3. CASE Reads(name, v, a) \subseteq assigned
      <4>1. Dec[c] = Algebra!Result(name, Dec[raw[v]], Plain(a)) % n
        BY <3>1, <3>3 DEF Computes
      <4>2. Plain(a) = Algebra!Number(a)
        <5>1. CASE a \in Vars
          <6>1. a \in assigned  BY <3>3, <5>1 DEF Reads
          <6>2. Val[a] = Dec[raw[a]]  BY <6>1, ValIs
          <6> QED  BY <5>1, <6>2 DEF Plain, Algebra!Number, Val
        <5>2. CASE a \notin Vars  BY <5>2 DEF Plain, Algebra!Number
        <5> QED  BY <5>1, <5>2
      <4>3. Algebra!Result(name, Dec[raw[v]], Plain(a)) = Algebra!Result(name, Val[v], Plain(a))
        <5>1. CASE name = "="  BY <5>1 DEF Algebra!Result
        <5>2. CASE name # "="
          <6>1. v \in assigned  BY <3>3, <5>2 DEF Reads
          <6>2. Val[v] = Dec[raw[v]]  BY <6>1, ValIs
          <6> QED  BY <6>2
        <5> QED  BY <5>1, <5>2
      <4>4. Val' = [Val EXCEPT ![v] = Algebra!Result(name, Val[v], Algebra!Number(a)) % n]
        <5>1. ASSUME NEW u \in Vars PROVE Val'[u] = IF u = v THEN Dec[c] ELSE Val[u]
          BY <1>3, <3>2, <3>3, <3>r DEF Val, Value
        <5> QED  BY <1>3, <4>1, <4>2, <4>3, <5>1 DEF Val
      <4> QED  BY <1>4, <3>2, <3>3, <4>4 DEF Algebra!Apply, Val
    <3>4. CASE ~(Reads(name, v, a) \subseteq assigned)
      <4>1. Val' = [Val EXCEPT ![v] = Undef]
        <5>1. ASSUME NEW u \in Vars PROVE Val'[u] = IF u = v THEN Undef ELSE Val[u]
          BY <1>3, <3>2, <3>4, <3>r DEF Val, Value
        <5> QED  BY <1>3, <5>1 DEF Val
      <4> QED  BY <1>4, <3>2, <3>4, <4>1 DEF Algebra!Apply, Val
    <3> QED  BY <3>3, <3>4
  <2>2. CASE Aborts(name, v, a)
    <3>1. /\ op' = [name |-> name, dest |-> v, arg |-> a]
          /\ aborted' = TRUE /\ UNCHANGED <<raw, assigned>>
          /\ ~(Reads(name, v, a) \subseteq assigned)
      BY <2>2 DEF Aborts, Abort, Applied
    <3>2. Val' = Val  BY <3>1 DEF Val, Value
    <3> QED  BY <1>4, <3>1, <3>2 DEF Algebra!Apply, Val
  <2> QED  BY <1>1, <2>1, <2>2
<1>6. ~aborted  BY DEF Next
<1> QED  BY <1>2, <1>5, <1>6 DEF Algebra!Next, IsOperation

\* The operators on ciphers of either class implement those on numbers modulo
\* n, for every key the library generates from two different primes.
THEOREM AlgebraImplemented == Spec => ImplementsAlgebra
<1>1. Init => Algebra!Init
  BY DEF Init, Algebra!Init, Value
<1>2. IInv /\ IInv' /\ [Next]_vars => [Algebra!Next]_<<[v \in Vars |-> Value(v)], aborted, op>>
  <2> SUFFICES ASSUME IInv, IInv', [Next]_vars
               PROVE  [Algebra!Next]_<<[v \in Vars |-> Value(v)], aborted, op>>
    OBVIOUS
  <2>1. CASE UNCHANGED vars  BY <2>1 DEF vars, Value
  <2>2. CASE Next  BY <2>2, StepImplements
  <2> QED  BY <2>1, <2>2
<1> QED  BY <1>1, <1>2, Invariant, PTL DEF Spec, ImplementsAlgebra, Algebra!Spec
==============================================================================
