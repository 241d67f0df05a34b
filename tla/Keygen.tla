-------------------------------- MODULE Keygen --------------------------------
(***************************************************************************)
(* paillier_keygen, one draw of a random number a step, and the key pair   *)
(* it leaves: a random device is opened, the seed is read from it, primes  *)
(* are drawn until their product has modulusbits bits, the keys are        *)
(* completed.  The arithmetic is that of Paillier, for the primes drawn so *)
(* far.                                                                    *)
(***************************************************************************)
EXTENDS Arithmetic

CONSTANTS
    Sizes,        \* the values of modulusbits
    FairPairs,    \* pairs of primes that draws without end give in a row
    NULL          \* no number

ASSUME KeygenAssumption ==
    /\ Sizes \subseteq Nat \ {0, 1}
    /\ NULL \notin Int

VARIABLES
    modulusbits,  \* the argument
    pc,           \* "open", "read", "p", "q", "product", "done" or "crashed"
    unread,       \* bytes of the seed paillier_get_rand_file still waits for
    p, q

vars == <<modulusbits, pc, unread, p, q>>

Number == INSTANCE Paillier WITH P <- p, Q <- q, Bits <- modulusbits

TypeOK ==
    /\ modulusbits \in Sizes
    /\ pc \in {"open", "read", "p", "q", "product", "done", "crashed"}
    /\ unread \in 0..(modulusbits \div 8 + 1)
    /\ {p, q} \subseteq 0..(Power(2, modulusbits \div 2) - 1) \cup {NULL}

Init ==
    /\ modulusbits \in Sizes
    /\ pc = "open"
    /\ unread = modulusbits \div 8 + 1
    /\ p = NULL
    /\ q = NULL

\* fopen gives NULL when the process has no file descriptor left, and the fread
\* of NULL does not return.
Open ==
    /\ pc = "open"
    /\ pc' \in {"read", "crashed"}
    /\ UNCHANGED <<modulusbits, unread, p, q>>

\* fread gives some of the bytes asked for; a call that gives none leaves
\* the loop where it is.
Read ==
    /\ pc = "read"
    /\ \E s \in 1..unread : unread' = unread - s
    /\ pc' = IF unread' = 0 THEN "p" ELSE "read"
    /\ UNCHANGED <<modulusbits, p, q>>

\* Mutant: numbers of one bit more are drawn.
Drawn_longer == 0..(Power(2, modulusbits \div 2 + 1) - 1)

\* mpz_urandomb(.., modulusbits / 2)
Drawn == 0..(Power(2, modulusbits \div 2) - 1)

\* do mpz_urandomb while not prime
DrawP(r) ==
    /\ pc = "p" /\ r \in Drawn
    /\ p' = r
    /\ pc' = IF IsPrime(r) THEN "q" ELSE "p"
    /\ UNCHANGED <<modulusbits, unread, q>>

DrawQ(r) ==
    /\ pc = "q" /\ r \in Drawn
    /\ q' = r
    /\ pc' = IF IsPrime(r) THEN "product" ELSE "q"
    /\ UNCHANGED <<modulusbits, unread, p>>

\* Mutant: any two primes will do.
Test_none ==
    /\ pc = "product"
    /\ pc' = "done"
    /\ UNCHANGED <<modulusbits, unread, p, q>>

\* Mutant: one bit less is asked of the product.
Test_lowerBit ==
    /\ pc = "product"
    /\ pc' = IF BitSet(p * q, modulusbits - 2) THEN "done" ELSE "p"
    /\ UNCHANGED <<modulusbits, unread, p, q>>

\* Mutant: bits are counted from 1.
Test_fromOne ==
    /\ pc = "product"
    /\ pc' = IF BitSet(p * q, modulusbits) THEN "done" ELSE "p"
    /\ UNCHANGED <<modulusbits, unread, p, q>>

\* while( !mpz_tstbit(n, modulusbits - 1) )
Test ==
    /\ pc = "product"
    /\ pc' = IF BitSet(p * q, modulusbits - 1) THEN "done" ELSE "p"
    /\ UNCHANGED <<modulusbits, unread, p, q>>

Next == Open \/ Read \/ Test \/ \E r \in Drawn : DrawP(r) \/ DrawQ(r)

Spec == Init /\ [][Next]_vars

\* The loop goes on, the random device gives bytes in the end, and draws that
\* never stop give each of FairPairs, the second number right after the first.
FairSpec ==
    /\ Spec
    /\ WF_vars(Next)
    /\ \A pair \in FairPairs :
          /\ SF_vars(DrawP(pair[1]))
          /\ SF_vars(DrawQ(pair[2]))
          /\ SF_vars(p = pair[1] /\ DrawQ(pair[2]))

------------------------------------------------------------------------------
(* Properties. *)

\* The random number r blinds without harm.
Harmless(r) == \A m \in 0..(Number!n - 1) : Number!Dec[Number!Enc(m, r)] = m

PrimeToN(r) == r % p # 0 /\ r % q # 0

\* The keys of two different primes are whole, as the bit asked of the product
\* also excludes a p that divides q - 1, and decryption is the inverse of
\* encryption for the blinding factors prime to n and no others: what
\* paillier_enc, which draws any r below n, makes from 0 or from a multiple of
\* p or q is not decrypted to every plaintext.  A key of one prime twice, which
\* the loop may end with, also fails for some that are prime to n.
KeyDecrypts ==
    pc = "done" =>
        IF p # q
        THEN /\ Number!Invertible(Number!log_lambda, Number!n)
             /\ \A r \in 0..(Number!n - 1) : Harmless(r) <=> PrimeToN(r)
        ELSE \E r \in 1..(Number!n - 1) : PrimeToN(r) /\ ~Harmless(r)

\* The client of a key, who gets n in hexadecimal and takes its length for
\* modulusbits, draws blinding factors of the length the owner draws.
LengthSurvives == pc = "done" => BitLength(Number!n) = modulusbits

\* Key generation ends for an even modulusbits: some pair of primes has a
\* product of that many bits.
EvenEnds == modulusbits % 2 = 0 => <>(pc \in {"done", "crashed"})

\* A keypair of length modulusbits is generated whatever the length, as the
\* header says.  The numbers drawn for an odd length have no product that long,
\* and the loop goes on for ever.
EveryLengthEnds == <>(pc \in {"done", "crashed"})
==============================================================================
