------------------------ MODULE PaillierCryptosystem -------------------------
(***************************************************************************)
(* Programs over cipher variables of one key.  Bound to a                  *)
(* PaillierCryptosystem (the public key alone) the operators compute on    *)
(* ciphertexts; bound to a PaillierCryptosystemPrivateKey those of         *)
(* PrivateKeyInterface hide them, and decrypt, compute and encrypt again.  *)
(* A variable holds the ciphertext of a Cipher object, an mpz that starts  *)
(* as 0.  Variables of both kinds in one program stand for the two ends of *)
(* a remote call: a client's ciphers and the server's, of the same key.    *)
(***************************************************************************)
EXTENDS Paillier

CONSTANTS
    Vars,         \* the Cipher objects of the program
    Private,      \* those bound to the cryptosystem with the private key
    Plains,       \* the plain operands the program uses
    Blinds,       \* the blinding factors that are drawn
    Undef         \* the value of a variable nothing was assigned to

\* The ciphertexts, among all mpz: what has an inverse modulo n^2.
Units == {c \in 1..(n_squared - 1) : Invertible(c, n)}

\* The loop of paillier_keygen does not exclude P = Q, which no key of a real
\* size ever meets.
ASSUME PrimesAssumption == P # Q

\* paillier_enc draws any r below n and does not look for a common factor
\* with n, which is found with the odds of factoring n: none is drawn here.
\* Blinds is closed under products, as a recryption draws several.
ASSUME BlindsAssumption ==
    /\ Blinds \subseteq Units \cap 1..(n - 1) /\ Blinds # {}
    /\ \A r, s \in Blinds : (r * s) % n \in Blinds

ASSUME ProgramAssumption ==
    /\ Plains \subseteq Int /\ Vars \cap Int = {}
    /\ Private \subseteq Vars
    /\ Undef \notin Int

VARIABLES
    raw,          \* raw[v]: the ciphertext in v
    assigned,     \* variables whose value comes from assigned ones only
    aborted,      \* GMP has aborted the program on a division by zero
    op            \* the operation the program applied last

vars == <<raw, assigned, aborted, op>>

\* The second operand is a cipher or a plain number.
Operation == [name : {"=", "+=", "-=", "*=", "recrypt"},
              dest : Vars, arg : Vars \cup Plains]

TypeOK ==
    /\ raw \in [Vars -> Units \cup {0}]
    /\ assigned \subseteq Vars
    /\ aborted \in BOOLEAN
    /\ op \in Operation \cup {Undef}

Init ==
    /\ raw = [v \in Vars |-> 0]
    /\ assigned = {}
    /\ aborted = FALSE
    /\ op = Undef

------------------------------------------------------------------------------
halfN == n \div 2

\* Mutant: the threshold is one digit lower.
SignedDec_earlier(c) ==
    LET m == Dec[c]
    IN  IF BitLength(m) >= BitLength(halfN) - 2 /\ m # halfN THEN m - n ELSE m

\* PaillierCryptosystemPrivateKey::dec(p, c, signedValue)
SignedDec(c) ==
    LET m == Dec[c]
    IN  IF BitLength(m) >= BitLength(halfN) - 1 /\ m # halfN THEN m - n ELSE m

------------------------------------------------------------------------------
Applied(name, v, a) == op' = [name |-> name, dest |-> v, arg |-> a]

\* The ciphers an operation reads.
Reads(name, v, a) == (IF name = "=" THEN {} ELSE {v}) \cup ({a} \cap Vars)

\* The operation leaves ciphertext c in v.
Store(name, v, a, c) ==
    /\ Applied(name, v, a)
    /\ raw' = [raw EXCEPT ![v] = c]
    /\ assigned' = IF Reads(name, v, a) \subseteq assigned
                   THEN assigned \cup {v} ELSE assigned \ {v}
    /\ UNCHANGED aborted

\* mpz_powm: 0 has no inverse to raise.
Abort(name, v, a) ==
    /\ Applied(name, v, a)
    /\ aborted' = TRUE
    /\ UNCHANGED <<raw, assigned>>

\* v = p: enc.
AssignPlain(v, p) == \E r \in Blinds : Store("=", v, p, Enc(p, r))

\* v = w copies the raw value; so does c.raw() = r, which is how a cipher
\* crosses from one class to the other.
AssignCipher(v, w) == Store("=", v, w, raw[w])

\* recrypt(): multiply by blinding powers out of the pool.  A product of them
\* is the power of a product.
Recrypt(v) ==
    \E r \in Blinds : Store("recrypt", v, v, Mul(raw[v], PowMod(r, n, n_squared)))

------------------------------------------------------------------------------
(* AdditiveInterface::Cipher, on PaillierCryptosystemBase. *)

AddCipher(v, w) == Store("+=", v, w, Mul(raw[v], raw[w]))

AddPlain(v, p) == \E r \in Blinds : Store("+=", v, p, Mul(raw[v], Enc(p, r)))

\* The default subFrom: add w to the power -1.
SubCipher(v, w) ==
    IF raw[w] = 0 THEN Abort("-=", v, w)
    ELSE Store("-=", v, w, Mul(raw[v], Exp(raw[w], -1)))

\* Mutant: the operands of mpz_sub are swapped.
SubPlain_swapped(v, p) == \E r \in Blinds : Store("-=", v, p, Mul(raw[v], Enc(p - n, r)))

\* Paillier's own subFrom for a Plain encrypts n - p.
SubPlain(v, p) == \E r \in Blinds : Store("-=", v, p, Mul(raw[v], Enc(n - p, r)))

\* plainMultiplyTo
MultiplyPlain(v, p) ==
    IF p < 0 /\ raw[v] = 0 THEN Abort("*=", v, p)
    ELSE Store("*=", v, p, Exp(raw[v], p))

\* The cipher operand may be of either class: both derive from this one.
PublicKeyOperator ==
    \E v \in Vars \ Private :
        \/ \E w \in Vars : AddCipher(v, w) \/ SubCipher(v, w)
        \/ \E p \in Plains :
               AddPlain(v, p) \/ SubPlain(v, p) \/ MultiplyPlain(v, p)

------------------------------------------------------------------------------
(* PrivateKeyInterface::Cipher: a cipher operand is decrypted first, which a  *)
(* cipher of the other class cannot be.                                      *)

Plain(a) == IF a \in Vars THEN Dec[raw[a]] ELSE a

Reencrypt(name, v, a, m) == \E r \in Blinds : Store(name, v, a, Enc(m, r))

PrivateAdd(v, a) == Reencrypt("+=", v, a, Plain(a) + Plain(v))
PrivateSub(v, a) == Reencrypt("-=", v, a, Plain(v) - Plain(a))
PrivateMultiply(v, a) == Reencrypt("*=", v, a, Plain(a) * Plain(v))

PrivateKeyOperator ==
    \E v \in Private, a \in Private \cup Plains :
        PrivateAdd(v, a) \/ PrivateSub(v, a) \/ PrivateMultiply(v, a)

------------------------------------------------------------------------------
Next ==
    /\ ~aborted
    /\ \/ \E v \in Vars, p \in Plains : AssignPlain(v, p)
       \/ \E v, w \in Vars : AssignCipher(v, w)
       \/ \E v \in Vars : Recrypt(v)
       \/ PublicKeyOperator
       \/ PrivateKeyOperator

Spec == Init /\ [][Next]_vars

------------------------------------------------------------------------------
(* Properties. *)

\* What a variable stands for.
Value(v) == IF v \in assigned THEN Dec[raw[v]] ELSE Undef

Algebra == INSTANCE ModularAlgebra
    WITH val <- [v \in Vars |-> Value(v)], stopped <- aborted, N <- n

\* Every operator on ciphers does what it does on numbers modulo n, whichever
\* of the two classes it comes from, whatever its operands went through before
\* and however often they were blinded again; a program is aborted only by an
\* operator with an operand nothing was assigned to.
ImplementsAlgebra == Algebra!Spec

\* The sign a decoded value gets is right for every negative number down to
\* -n/2 and for the positive ones below the threshold of dec().
SmallValuesSigned ==
    \A v \in assigned :
        LET m == Dec[raw[v]]
        IN  /\ m > halfN => SignedDec(raw[v]) = m - n
            /\ m < Power(2, BitLength(halfN) - 2) => SignedDec(raw[v]) = m
==============================================================================
