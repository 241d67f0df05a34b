-------------------------------- MODULE Arithmetic --------------------------------
(***************************************************************************)
(* What the library takes from GMP and C: powers, digits and primes.       *)
(***************************************************************************)
EXTENDS Integers

\* b to the power k.  The ^ of the standard modules is the same, but means
\* nothing to the provers.
Power(b, k) ==
    LET power[i \in 0..k] == IF i = 0 THEN 1 ELSE b * power[i - 1]
    IN  power[k]

\* The number of digits of m to a base, none for 0.
Count(m, base) ==
    LET count[k \in 0..m] == IF k = 0 THEN 0 ELSE 1 + count[k \div base]
    IN  count[m]

\* mpz_sizeinbase(m, 2); 0 has one digit.
BitLength(m) == IF m = 0 THEN 1 ELSE Count(m, 2)

\* mpz_tstbit
BitSet(m, b) == (m \div Power(2, b)) % 2 = 1

\* mpz_probab_prime_p
IsPrime(p) == p > 1 /\ \A d \in 2..(p - 1) : p % d # 0
==============================================================================
