------------------------------- MODULE MC_Keygen -------------------------------
(* Instances of Keygen for TLC. *)
EXTENDS Keygen

\* One pair with a product of 6 bits, one with a product of 8.
SmallPairs == {<<5, 7>>, <<11, 13>>}

\* The pairs of primes of 3 bits, the most that is drawn for 7 bits, with the
\* largest products.
LargestPairs == {<<5, 7>>, <<7, 7>>}
==============================================================================
