-------------------------------- MODULE Codecs --------------------------------
(***************************************************************************)
(* How an integer becomes bytes and comes back: the msgpack form of a      *)
(* Plain and of a ciphertext, LibPaillier's byte arrays and strings, the   *)
(* hexadecimal form of a key.  A number goes out in one of these forms and *)
(* is read back, again and again.  Bytes have Width bits, the most         *)
(* significant byte comes first.                                           *)
(***************************************************************************)
EXTENDS Arithmetic, Sequences

CONSTANTS
    Width,        \* bits of a byte: 8 in the code, fewer in a small instance
    Numbers,      \* the integers to begin with
    Lengths       \* the lengths of the byte arrays asked for

ASSUME CodecAssumption ==
    /\ Width \in Nat \ {0}
    /\ Numbers \subseteq Int
    /\ Lengths \subseteq Nat

VARIABLES
    number,       \* the integer, before it goes out and after it came back
    bytes,        \* what it is while it is out
    form,         \* "number", or the form it is in: "packed", "array", "text", "hex"
    sent,         \* the integer that went out last, and how: form and length
    outside       \* bytes of it were written outside their array

vars == <<number, bytes, form, sent, outside>>

Base == Power(2, Width)
Magnitude(m) == IF m < 0 THEN -m ELSE m

\* The digit of m that counts base^i.
Digit(m, base, i) == (m \div Power(base, i)) % base

\* None for 0, as mpz_export counts.
Digits(m, base) == LET c == Count(m, base) IN [i \in 1..c |-> Digit(m, base, c - i)]

Value(s, base) ==
    LET value[i \in 0..Len(s)] == IF i = 0 THEN 0 ELSE value[i - 1] * base + s[i]
    IN  value[Len(s)]

\* Mutant: the least significant byte first.
Export_lowestFirst(m) ==
    [i \in 1..Count(Magnitude(m), Base) |-> Digit(Magnitude(m), Base, i - 1)]

\* mpz_export(.., 1, 1, 0, 0, m): the magnitude, without leading zeros.
Export(m) == Digits(Magnitude(m), Base)

\* mpz_import(.., len, 1, 1, 0, 0, s)
Import(s) == Value(s, Base)

\* mpz_get_str(0, 16, m), for a number that is not negative
Hex(m) == IF m = 0 THEN <<0>> ELSE Digits(m, 16)

Zeros(k) == [i \in 1..k |-> 0]

------------------------------------------------------------------------------
\* Mutant: the first bytes are kept, as for a little-endian number.
PlaintextBytes_first(len, m) ==
    LET all == Export(m)
        written == Len(all)
    IN  IF written <= len THEN Zeros(len - written) \o all
        ELSE SubSeq(all, 1, len)

\* paillier_plaintext_to_bytes: "pad with leading zeros", or "truncate
\* leading garbage".
PlaintextBytes(len, m) ==
    LET all == Export(m)
        written == Len(all)
    IN  IF written <= len THEN Zeros(len - written) \o all
        ELSE SubSeq(all, written - len + 1, written)

\* PAILLIER_BITS_TO_BYTES(mpz_sizeinbase(m, 2))
BytesNeeded(m) == (BitLength(m) + Width - 1) \div Width

\* paillier_ciphertext_to_bytes: all bytes are written from where they would
\* have to begin to end with the buffer, even if that is before the buffer.
CiphertextBytes(len, m) ==
    LET all == Export(m)
        start == len - BytesNeeded(m)
    IN  [i \in 1..len |-> IF i - start \in 1..Len(all) THEN all[i - start] ELSE 0]

WritesOutside(len, m) ==
    LET all == Export(m)
        start == len - BytesNeeded(m)
    IN  \E i \in 1..Len(all) : start + i \notin 1..len

\* strlen of bytes that a 0 follows.
StrLen(s) ==
    CHOOSE k \in 0..Len(s) :
        /\ \A i \in 1..k : s[i] # 0
        /\ k = Len(s) \/ s[k + 1] = 0

UpToNul(s) == SubSeq(s, 1, StrLen(s))

------------------------------------------------------------------------------
Init ==
    /\ number \in Numbers
    /\ bytes = <<>>
    /\ form = "number"
    /\ sent = [form |-> "number", len |-> 0, number |-> 0]
    /\ outside = FALSE

GoesOut(f, len, s) ==
    /\ form = "number"
    /\ form' = f
    /\ bytes' = s
    /\ sent' = [form |-> f, len |-> len, number |-> number]
    /\ UNCHANGED number

ComesBack(f, m) ==
    /\ form = f
    /\ form' = "number"
    /\ number' = m
    /\ bytes' = <<>>
    /\ outside' = FALSE
    /\ UNCHANGED sent

\* mpz_class_packable::msgpack_pack, msgpack_unpack
Pack == GoesOut("packed", 0, Export(number)) /\ UNCHANGED outside
Unpack == ComesBack("packed", Import(bytes))

PlaintextToBytes(len) ==
    GoesOut("array", len, PlaintextBytes(len, number)) /\ UNCHANGED outside
PlaintextFromBytes == ComesBack("array", Import(bytes))

\* Ciphertexts are not negative.
CiphertextToBytes(len) ==
    /\ number >= 0
    /\ GoesOut("array", len, CiphertextBytes(len, number))
    /\ outside' = WritesOutside(len, number)

PlaintextToStr == GoesOut("text", 0, Export(number)) /\ UNCHANGED outside

\* Mutant: the string's terminator is read as a byte.
PlaintextFromStr_withNul == ComesBack("text", Import(Append(UpToNul(bytes), 0)))

PlaintextFromStr == ComesBack("text", Import(UpToNul(bytes)))

\* paillier_pubkey_to_hex, paillier_prvkey_to_hex: n and lambda are positive.
KeyToHex ==
    /\ number > 0
    /\ GoesOut("hex", 0, Hex(number))
    /\ UNCHANGED outside

\* Mutant: the digits are read to base 10.
KeyFromHex_decimal == ComesBack("hex", Value(bytes, 10))

\* paillier_pubkey_from_hex, paillier_prvkey_from_hex
KeyFromHex == ComesBack("hex", Value(bytes, 16))

Next ==
    \/ Pack \/ Unpack
    \/ \E len \in Lengths : PlaintextToBytes(len)
    \/ \E len \in Lengths : CiphertextToBytes(len)
    \/ PlaintextFromBytes
    \/ PlaintextToStr \/ PlaintextFromStr
    \/ KeyToHex \/ KeyFromHex

Spec == Init /\ [][Next]_vars

------------------------------------------------------------------------------
(* Properties. *)

Back(f) == form = "number" /\ sent.form = f

\* Over msgpack every number that is not negative arrives as it was sent, 0
\* included; a negative one loses its sign and nothing else.
PackedMagnitude == Back("packed") => number = Magnitude(sent.number)

\* An array of len bytes holds the number modulo Base^len: padding changes
\* nothing and truncation drops the high bytes only.
ArraysHoldLowBytes ==
    Back("array") => number = Magnitude(sent.number) % Power(Base, sent.len)

\* A string gives its number back if no byte of it is 0; if one is, what
\* comes back is the number in the bytes before it.
StringsEndAtNul ==
    Back("text") =>
        LET m == Magnitude(sent.number)
        IN  \E k \in 0..Count(m, Base) :
                /\ number = m \div Power(Base, k)
                /\ k = 0 \/ Digit(m, Base, k - 1) = 0
                /\ \A j \in k..(Count(m, Base) - 1) : Digit(m, Base, j) # 0

\* A key read back from its hexadecimal form is the key that went out.
HexIsExact == Back("hex") => number = sent.number
==============================================================================
