----------------------------- MODULE Keygen_proofs -----------------------------
(***************************************************************************)
(* The pairs of primes paillier_keygen ends with are those Paillier        *)
(* assumes: what is proved of the keys of two primes holds of them.        *)
(***************************************************************************)
EXTENDS Keygen, Arithmetic_proofs

NumberProofs == INSTANCE Paillier_proofs WITH P <- p, Q <- q, Bits <- modulusbits

\* What the loop has found so far.
Found ==
    /\ pc \in {"q", "product", "done"} => p \in Drawn /\ IsPrime(p)
    /\ pc \in {"product", "done"} => q \in Drawn /\ IsPrime(q)
    /\ pc = "done" => BitSet(p * q, modulusbits - 1)

IInv == TypeOK /\ Found

LEMMA InitInductive == Init => IInv
<1> SUFFICES ASSUME Init PROVE IInv
  OBVIOUS
<1>1. modulusbits \in Nat  BY KeygenAssumption DEF Init
<1>2. modulusbits \div 8 + 1 \in 0..(modulusbits \div 8 + 1)  BY <1>1
<1>3. TypeOK  BY <1>2 DEF Init, TypeOK
<1>4. Found  BY DEF Init, Found
<1> QED  BY <1>3, <1>4 DEF IInv

LEMMA NextInductive == IInv /\ [Next]_vars => IInv'
<1> SUFFICES ASSUME IInv, [Next]_vars PROVE IInv'
  OBVIOUS
<1>1. TypeOK /\ Found  BY DEF IInv
<1>0. CASE Open
  <2>1. TypeOK'  BY <1>0, <1>1 DEF TypeOK, Open
  <2>2. pc' \in {"read", "crashed"}  BY <1>0 DEF Open
  <2>3. Found'  BY <2>2 DEF Found
  <2> QED  BY <2>1, <2>3 DEF IInv
<1>2. CASE Read
  <2>1. PICK s \in 1..unread : unread' = unread - s  BY <1>2 DEF Read
  <2>2. modulusbits \in Nat /\ unread \in 0..(modulusbits \div 8 + 1)
    BY <1>1, KeygenAssumption DEF TypeOK
  <2>3. unread' \in 0..(modulusbits \div 8 + 1)  BY <2>1, <2>2
  <2>4. TypeOK'  BY <1>1, <1>2, <2>3 DEF TypeOK, Read
  <2>5. pc' \in {"read", "p"}  BY <1>2 DEF Read
  <2>6. Found'  BY <2>5 DEF Found
  <2> QED  BY <2>4, <2>6 DEF IInv
<1>3. CASE Test
  <2>1. TypeOK'  BY <1>1, <1>3 DEF TypeOK, Test
  <2>2. /\ pc = "product" /\ pc' \in {"done", "p"}
        /\ pc' = "done" => BitSet(p * q, modulusbits - 1)
        /\ modulusbits' = modulusbits /\ p' = p /\ q' = q /\ Drawn' = Drawn
    BY <1>3 DEF Test, Drawn
  <2>3. Found'  BY <1>1, <2>2 DEF Found
  <2> QED  BY <2>1, <2>3 DEF IInv
<1>4. ASSUME NEW r \in Drawn, DrawP(r) PROVE IInv'
  <2>1. TypeOK'  BY <1>1, <1>4 DEF TypeOK, DrawP, Drawn
  <2>2. /\ pc' \in {"q", "p"}
        /\ pc' = "q" => IsPrime(r)
        /\ p' = r /\ Drawn' = Drawn
    BY <1>4 DEF DrawP, Drawn
  <2>3. Found'  BY <1>4, <2>2 DEF Found
  <2> QED  BY <2>1, <2>3 DEF IInv
<1>5. ASSUME NEW r \in Drawn, DrawQ(r) PROVE IInv'
  <2>1. TypeOK'  BY <1>1, <1>5 DEF TypeOK, DrawQ, Drawn
  <2>2. /\ pc = "q" /\ pc' \in {"product", "q"}
        /\ pc' = "product" => IsPrime(r)
        /\ p' = p /\ q' = r /\ Drawn' = Drawn
    BY <1>5 DEF DrawQ, Drawn
  <2>3. Found'  BY <1>1, <1>5, <2>2 DEF Found
  <2> QED  BY <2>1, <2>3 DEF IInv
<1>6. CASE UNCHANGED vars
  <2>1. TypeOK'  BY <1>1, <1>6 DEF TypeOK, vars
  <2>2. Found'  BY <1>1, <1>6 DEF Found, vars, Drawn
  <2> QED  BY <2>1, <2>2 DEF IInv
<1> QED  BY <1>0, <1>2, <1>3, <1>4, <1>5, <1>6 DEF Next

LEMMA Inductive == Spec => []IInv
BY InitInductive, NextInductive, PTL DEF Spec

\* The variables of paillier_keygen have their types: the numbers drawn have at
\* most half of modulusbits.
THEOREM TypeCorrect == Spec => []TypeOK
<1>1. IInv => TypeOK  BY DEF IInv
<1> QED  BY Inductive, <1>1, PTL

------------------------------------------------------------------------------
\* What the loop leaves is what Paillier assumes of P, Q and Bits.
LEMMA DoneIsKeyPair ==
    ASSUME IInv, pc = "done" PROVE NumberProofs!KeyAssumption
<1>1. modulusbits \in Nat \ {0}  BY KeygenAssumption DEF IInv, TypeOK
<1>2. /\ p \in 0..(Power(2, modulusbits \div 2) - 1) /\ IsPrime(p)
      /\ q \in 0..(Power(2, modulusbits \div 2) - 1) /\ IsPrime(q)
      /\ BitSet(p * q, modulusbits - 1)
  BY DEF IInv, Found, Drawn
<1>3. <<p, q>> \in NumberProofs!KeyPairs(modulusbits)
  BY <1>2 DEF NumberProofs!KeyPairs, NumberProofs!Power, NumberProofs!IsPrime,
              NumberProofs!BitSet, Power, IsPrime, BitSet
<1> QED  BY <1>1, <1>3 DEF NumberProofs!KeyAssumption

\* The two instances define the same numbers.
LEMMA SameNumbers ==
    /\ Number!n = NumberProofs!n
    /\ Number!log_lambda = NumberProofs!log_lambda
    /\ \A m, r : Number!Dec[Number!Enc(m, r)] = NumberProofs!Dec[NumberProofs!Enc(m, r)]
<1>1. Number!n = NumberProofs!n  BY DEF Number!n, NumberProofs!n
<1>2. Number!n_squared = NumberProofs!n_squared
  BY <1>1 DEF Number!n_squared, NumberProofs!n_squared
<1>3. Number!n_plusone = NumberProofs!n_plusone
  BY <1>1 DEF Number!n_plusone, NumberProofs!n_plusone
<1>4. \A a, b : Number!Lcm(a, b) = NumberProofs!Lcm(a, b)
  BY DEF Number!Lcm, NumberProofs!Lcm
<1>5. Number!lambda = NumberProofs!lambda  BY <1>4 DEF Number!lambda, NumberProofs!lambda
<1>6. \A a, m : Number!Invert(a, m) = NumberProofs!Invert(a, m)
  BY DEF Number!Invert, NumberProofs!Invert
<1>7. \A b, e, m : Number!PowMod(b, e, m) = NumberProofs!PowMod(b, e, m)
  BY DEF Number!PowMod, NumberProofs!PowMod, Number!Invert, NumberProofs!Invert
<1>8. Number!log_lambda = NumberProofs!log_lambda
  BY <1>1, <1>2, <1>3, <1>5, <1>7 DEF Number!log_lambda, NumberProofs!log_lambda
<1>9. Number!x = NumberProofs!x  BY <1>1, <1>6, <1>8 DEF Number!x, NumberProofs!x
<1>10. Number!Dec = NumberProofs!Dec
  BY <1>1, <1>2, <1>5, <1>7, <1>9 DEF Number!Dec, NumberProofs!Dec
<1>11. \A m, r : Number!Enc(m, r) = NumberProofs!Enc(m, r)
  BY <1>1, <1>2, <1>3, <1>7 DEF Number!Enc, NumberProofs!Enc
<1> QED  BY <1>1, <1>8, <1>10, <1>11

\* modulusbits survives the key's way through hexadecimal: the product of the
\* primes has as many bits.
THEOREM LengthSurvivesAlways == Spec => []LengthSurvives
<1>1. IInv => LengthSurvives
  <2> SUFFICES ASSUME IInv, pc = "done" PROVE BitLength(Number!n) = modulusbits
    BY DEF LengthSurvives
  <2>1. modulusbits \in Nat \ {0}  BY KeygenAssumption DEF IInv, TypeOK
  <2>2. /\ p \in 0..(Power(2, modulusbits \div 2) - 1)
        /\ q \in 0..(Power(2, modulusbits \div 2) - 1)
        /\ BitSet(p * q, modulusbits - 1)
    BY DEF IInv, Found, Drawn
  <2>3. BitLength(p * q) = modulusbits  BY <2>1, <2>2, ProductLength
  <2> QED  BY <2>3 DEF Number!n
<1> QED  BY Inductive, <1>1, PTL

\* Key generation never ends with a key for an odd modulusbits: the safety half
\* of what makes EveryLengthEnds fail.
THEOREM OddNeverEnds == Spec => [](modulusbits % 2 = 1 => pc # "done")
<1>1. IInv => (modulusbits % 2 = 1 => pc # "done")
  <2> SUFFICES ASSUME IInv, modulusbits % 2 = 1, pc = "done" PROVE FALSE
    OBVIOUS
  <2>1. modulusbits \in Nat \ {0}  BY KeygenAssumption DEF IInv, TypeOK
  <2>2. /\ p \in 0..(Power(2, modulusbits \div 2) - 1)
        /\ q \in 0..(Power(2, modulusbits \div 2) - 1)
        /\ BitSet(p * q, modulusbits - 1)
    BY DEF IInv, Found, Drawn
  <2>3. modulusbits % 2 = 0  BY <2>1, <2>2, ProductLength
  <2> QED  BY <2>3
<1> QED  BY Inductive, <1>1, PTL

\* The keys of two different primes decrypt what is blinded by a number prime to
\* n, and only that; the key of one prime twice does not even do so.
THEOREM KeysDecrypt == Spec => []KeyDecrypts
<1>1. ASSUME IInv, pc = "done" PROVE KeyDecrypts
  <2>1. NumberProofs!KeyAssumption  BY <1>1, DoneIsKeyPair
  <2>2. NumberProofs!n \in Nat \ {0} /\ NumberProofs!n \in Int
    <3>1. NumberProofs!n \in Nat /\ NumberProofs!n > 8  BY <2>1, NumberProofs!ModulusIs
    <3> QED  BY <3>1
  <2>3. ASSUME NEW r PROVE Harmless(r) <=> \A m \in 0..(NumberProofs!n - 1) :
                               NumberProofs!Dec[NumberProofs!Enc(m, r)] = m
    BY SameNumbers DEF Harmless
  <2>4. CASE p # q
    <3>1. NumberProofs!log_lambda \in Int
          /\ NumberProofs!Unit(NumberProofs!log_lambda, NumberProofs!n)
      <4>1. /\ NumberProofs!log_lambda = NumberProofs!lambda % NumberProofs!n
            /\ NumberProofs!lambda \in Nat
            /\ NumberProofs!Unit(NumberProofs!log_lambda, NumberProofs!n)
        BY <2>1, NumberProofs!KeyIsWhole, NumberProofs!LambdaIs
      <4> QED  BY <4>1, <2>2
    <3>2. NumberProofs!Invertible(NumberProofs!log_lambda, NumberProofs!n)
      BY <2>1, <2>2, <3>1, NumberProofs!InvertibleIsUnit
    <3>3. Number!Invertible(Number!log_lambda, Number!n)
      BY <3>2, SameNumbers DEF Number!Invertible, NumberProofs!Invertible
    <3>4. ASSUME NEW r \in 0..(Number!n - 1) PROVE Harmless(r) <=> PrimeToN(r)
      <4>1. r \in Int  BY <2>2, SameNumbers
      <4>2. (\A m \in 0..(NumberProofs!n - 1) : NumberProofs!Dec[NumberProofs!Enc(m, r)] = m)
              <=> r % p # 0 /\ r % q # 0
        BY <2>1, <2>4, <4>1, NumberProofs!HarmlessIffUnit
      <4> QED  BY <2>3, <4>2 DEF PrimeToN
    <3> QED  BY <2>4, <3>3, <3>4 DEF KeyDecrypts
  <2>5. CASE p = q
    <3>1. PICK r \in 1..(NumberProofs!n - 1) :
             /\ r % p # 0 /\ r % q # 0
             /\ \E m \in 0..(NumberProofs!n - 1) : NumberProofs!Dec[NumberProofs!Enc(m, r)] # m
      BY <2>1, <2>5, NumberProofs!OnePrimeTwiceFails
    <3>2. r \in 1..(Number!n - 1)  BY <3>1, SameNumbers
    <3>3. PrimeToN(r) /\ ~Harmless(r)  BY <2>3, <3>1 DEF PrimeToN
    <3> QED  BY <2>5, <3>2, <3>3 DEF KeyDecrypts
  <2> QED  BY <2>4, <2>5
<1>2. IInv => KeyDecrypts  BY <1>1 DEF KeyDecrypts
<1> QED  BY Inductive, <1>2, PTL
==============================================================================
