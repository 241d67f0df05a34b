------------------------------- MODULE Paillier -------------------------------
(***************************************************************************)
(* LibPaillier: key generation, encryption, decryption and the two         *)
(* homomorphic operations, on exact integers (the library's mpz_t do not   *)
(* overflow).  The random numbers a function draws are its arguments.      *)
(***************************************************************************)
EXTENDS Arithmetic

CONSTANTS
    P, Q,         \* the primes the key was generated from
    Bits          \* pub->bits: the modulusbits given to paillier_keygen

\* mpz_invert(a, m)
Invert(a, m) == CHOOSE y \in 0..(m - 1) : (a * y) % m = 1 % m

Invertible(a, m) == \E y \in 0..(m - 1) : (a * y) % m = 1 % m

\* mpz_powm(b, e, m): a negative exponent raises the inverse of b.
PowMod(b, e, m) ==
    LET base == IF e < 0 THEN Invert(b, m) ELSE b % m
        abs  == IF e < 0 THEN -e ELSE e
        power[k \in 0..abs] ==
            IF k = 0 THEN 1 % m
            ELSE LET half   == power[k \div 2]
                     square == (half * half) % m
                 IN  IF k % 2 = 0 THEN square ELSE (square * base) % m
    IN  power[abs]

Lcm(a, b) == CHOOSE l \in 1..(a * b) :
    /\ l % a = 0 /\ l % b = 0
    /\ \A k \in 1..(l - 1) : k % a # 0 \/ k % b # 0

------------------------------------------------------------------------------
\* The pairs paillier_keygen can leave its loop with: primes of modulusbits/2
\* bits, until bit modulusbits-1 of the product is set.
KeyPairs(modulusbits) ==
    LET primes == {p \in 0..(Power(2, modulusbits \div 2) - 1) : IsPrime(p)}
    IN  {pair \in primes \X primes : BitSet(pair[1] * pair[2], modulusbits - 1)}

ASSUME KeyAssumption == Bits \in Nat \ {0} /\ <<P, Q>> \in KeyPairs(Bits)

n == P * Q
n_squared == n * n
n_plusone == n + 1
lambda == Lcm(P - 1, Q - 1)

\* complete_prvkey: x inverts the logarithm of (n + 1) ^ lambda.
log_lambda == (PowMod(n_plusone, lambda, n_squared) - 1) \div n
x == Invert(log_lambda, n)

\* paillier_enc, with blinding factor r.
Enc(m, r) == (PowMod(n_plusone, m, n_squared) * PowMod(r, n, n_squared)) % n_squared

\* paillier_dec
Dec[c \in 0..(n_squared - 1)] ==
    (((PowMod(c, lambda, n_squared) - 1) \div n) * x) % n

\* Mutant: the product is not reduced.
Mul_unreduced(c, d) == c * d

\* paillier_mul
Mul(c, d) == (c * d) % n_squared

\* paillier_exp
Exp(c, m) == PowMod(c, m, n_squared)
==============================================================================
