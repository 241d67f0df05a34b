----------------------------- MODULE MC_Paillier ------------------------------
(* Instances of PaillierCryptosystem for TLC: n = 5 * 7 = 35. *)
EXTENDS PaillierCryptosystem

SomePlains == {-1, 2, 17, 40}
TwoBlinds == {1, 6}

\* The operation last applied is left out of what tells two states apart: no
\* step reads it, and the properties of steps are checked on every step.
ProgramState == <<raw, assigned, aborted>>
==============================================================================
