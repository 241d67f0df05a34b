--------------------------- MODULE MC_CipherBinding ----------------------------
(* An instance of CipherBinding for TLC. *)
EXTENDS CipherBinding, TLC

CONSTANTS s1, s2, s3, p1, p2, a, b, c

\* Of the objects without a private key two have the same modulus, those with
\* one have different keys.
TwoKeys == (s1 :> 3) @@ (s2 :> 3) @@ (s3 :> 5) @@ (p1 :> 3) @@ (p2 :> 5)

SomePlains == {-1, 7}

VarSymmetry == Permutations(Vars)
==============================================================================
