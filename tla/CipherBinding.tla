----------------------------- MODULE CipherBinding -----------------------------
(***************************************************************************)
(* Ciphers and the cryptosystems they are bound to: a program with several *)
(* objects of the class that has a private key and of the class that has   *)
(* not, as a process has that is a client of one peer and the server of    *)
(* another.  A Cipher keeps a reference to its cryptosystem for life and   *)
(* computes under it; copying a cipher copies the reference, assigning to  *)
(* one does not.  Ciphers of the two classes are of different types, which *)
(* only a conversion to a Plain brings together, and stay apart here.      *)
(* Encryption is ideal: a ciphertext names its key, a modulus, and the     *)
(* number in it.                                                           *)
(***************************************************************************)
EXTENDS Integers

CONSTANTS
    Vars,         \* names of Cipher variables
    Systems,      \* the cryptosystem objects
    Private,      \* those of them with a private key
    KeyOf,        \* KeyOf[s]: the modulus of s; two objects may have the same
    Plains,       \* the plain numbers a program uses
    None          \* out of scope; no number

ASSUME BindingAssumption ==
    /\ Private \subseteq Systems
    /\ KeyOf \in [Systems -> Nat \ {0}]
    /\ Plains \subseteq Int
    /\ None \notin Systems \cup Int

VARIABLES
    system,       \* system[v]: the object v is bound to, or None
    raw,          \* raw[v]: the ciphertext in v
    clear         \* clear[v]: what v would hold if it were a clear number, or None

vars == <<system, raw, clear>>

\* Blank is the integer 0 a cipher starts with; Junk is what decrypts to a
\* number that has nothing to do with the program.
Blank == [key |-> 0, m |-> 0]
Junk == [key |-> 0, m |-> 1]

Encrypted == UNION {[key : {KeyOf[s]}, m : 0..(KeyOf[s] - 1)] : s \in Systems}

TypeOK ==
    /\ system \in [Vars -> Systems \cup {None}]
    /\ raw \in [Vars -> Encrypted \cup {Blank, Junk}]
    /\ clear \in [Vars -> Int \cup {None}]

Init ==
    /\ system = [v \in Vars |-> None]
    /\ raw = [v \in Vars |-> Blank]
    /\ clear = [v \in Vars |-> None]

------------------------------------------------------------------------------
Scope == {v \in Vars : system[v] # None}

\* The check operator= has commented out: "cryptosystem is same (same values)".
SameKey(v, w) == KeyOf[system[v]] = KeyOf[system[w]]

\* What the types of v and w allow to be assigned or added.
SameClass(v, w) == system[v] \in Private <=> system[w] \in Private

\* Mutant: the number is not reduced.
Enc_unreduced(s, p) == [key |-> KeyOf[s], m |-> p]

Enc(s, p) == [key |-> KeyOf[s], m |-> p % KeyOf[s]]

\* addTo: 0 multiplies to 0, a ciphertext of another key gives no ciphertext of
\* this one.
AddTo(s, c, d) ==
    IF Blank \in {c, d} THEN Blank
    ELSE IF c.key = KeyOf[s] /\ d.key = KeyOf[s] THEN Enc(s, c.m + d.m)
    ELSE Junk

\* Mutant: both are decrypted with the key of the sum.
AddPrivately_oneKey(s, c, t, d) ==
    IF c.key = KeyOf[s] /\ d.key = KeyOf[s] THEN Enc(s, c.m + d.m) ELSE Junk

\* The += of a private key: c is decrypted with the key of s, d with that of its
\* own t, and the sum is encrypted under s.  What is not a ciphertext of the key
\* decrypts to some number.
AddPrivately(s, c, t, d) ==
    IF c.key = KeyOf[s] /\ d.key = KeyOf[t] THEN Enc(s, c.m + d.m) ELSE Junk

\* What v += w leaves in v.
RawSum(v, w) ==
    IF system[v] \in Private
    THEN AddPrivately(system[v], raw[v], system[w], raw[w])
    ELSE AddTo(system[v], raw[v], raw[w])

\* A program that multiplies ciphertexts of two keys, or uses a blank cipher,
\* has no right to a value.
ClearSum(v, w) ==
    IF \/ None \in {clear[v], clear[w]}
       \/ system[v] \notin Private /\ ~SameKey(v, w)
    THEN None
    ELSE (clear[v] + clear[w]) % KeyOf[system[v]]

Store(v, c, m) ==
    /\ raw' = [raw EXCEPT ![v] = c]
    /\ clear' = [clear EXCEPT ![v] = m]

\* A new cipher begins its life with this binding and value.
Enter(v, s, c, m) ==
    /\ v \notin Scope
    /\ system' = [system EXCEPT ![v] = s]
    /\ Store(v, c, m)

------------------------------------------------------------------------------
\* Cipher v(s);
Declare(v, s) == Enter(v, s, Blank, None)

\* Cipher v(w), and what passing by value and growing a vector do.
Copy(v, w) ==
    /\ w \in Scope
    /\ Enter(v, system[w], raw[w], clear[w])

Leave(v) ==
    /\ v \in Scope
    /\ system' = [system EXCEPT ![v] = None]
    /\ Store(v, Blank, None)

\* v = p
AssignPlain(v, p) ==
    /\ v \in Scope
    /\ Store(v, Enc(system[v], p), p % KeyOf[system[v]])
    /\ UNCHANGED system

\* v = w
Assign(v, w) ==
    /\ {v, w} \subseteq Scope /\ SameClass(v, w)
    /\ Store(v, raw[w], IF SameKey(v, w) THEN clear[w] ELSE None)
    /\ UNCHANGED system

\* v += w
Add(v, w) ==
    /\ {v, w} \subseteq Scope /\ SameClass(v, w)
    /\ Store(v, RawSum(v, w), ClearSum(v, w))
    /\ UNCHANGED system

\* u = v + w: += on a copy of v, which is then assigned to u.
Sum(u, v, w) ==
    /\ {u, v, w} \subseteq Scope /\ SameClass(u, v) /\ SameClass(v, w)
    /\ Store(u, RawSum(v, w), IF SameKey(u, v) THEN ClearSum(v, w) ELSE None)
    /\ UNCHANGED system

\* Cipher u = v + w: u is a copy of that copy.
NewSum(u, v, w) ==
    /\ {v, w} \subseteq Scope /\ SameClass(v, w)
    /\ Enter(u, system[v], RawSum(v, w), ClearSum(v, w))

Next ==
    \/ \E v \in Vars, s \in Systems : Declare(v, s)
    \/ \E v, w \in Vars : Copy(v, w) \/ Assign(v, w) \/ Add(v, w)
    \/ \E u, v, w \in Vars : Sum(u, v, w) \/ NewSum(u, v, w)
    \/ \E v \in Vars, p \in Plains : AssignPlain(v, p)
    \/ \E v \in Vars : Leave(v)

Spec == Init /\ [][Next]_vars

------------------------------------------------------------------------------
(* Properties. *)

\* "as if they were clear values": through copies, assignments and sums, also
\* between objects that have the same key, and between any two with a private
\* key, a cipher holds, under the key of its own cryptosystem, the number a clear
\* variable would hold.  That is lost by the ciphers whose value went through an
\* assignment between two keys or a product of ciphertexts of two keys, which
\* nothing stops, and by no other, even if it is bound to the same object.
AsClearValues ==
    \A v \in Scope : clear[v] # None => raw[v] = Enc(system[v], clear[v])
==============================================================================
