-------------------------- MODULE CipherBinding_proofs --------------------------
(***************************************************************************)
(* Ciphers may be taken for clear numbers, whatever objects of their key   *)
(* they are bound to, until their value goes through an assignment between *)
(* two keys or a product of ciphertexts of two.                            *)
(***************************************************************************)
EXTENDS CipherBinding, TLAPS

USE BindingAssumption DEF BindingAssumption

LEMMA ModRange ==
    ASSUME NEW k \in Nat \ {0}, NEW x \in Int
    PROVE  x % k \in 0..(k - 1)
BY SMT

LEMMA ModIdentity ==
    ASSUME NEW k \in Nat \ {0}, NEW x \in 0..(k - 1)
    PROVE  x % k = x
BY SMT

LEMMA KeyPositive == ASSUME NEW s \in Systems PROVE KeyOf[s] \in Nat \ {0}
OBVIOUS

\* What encryption and addition give is what raw may hold.
LEMMA EncType == ASSUME NEW s \in Systems, NEW p \in Int PROVE Enc(s, p) \in Encrypted
<1>1. p % KeyOf[s] \in 0..(KeyOf[s] - 1)  BY KeyPositive, ModRange
<1> QED  BY <1>1 DEF Enc, Encrypted

LEMMA NumberType ==
    ASSUME NEW c \in Encrypted \cup {Blank, Junk} PROVE c.m \in Int
<1>1. CASE c \in {Blank, Junk}  BY <1>1 DEF Blank, Junk
<1>2. CASE c \in Encrypted
  <2>1. PICK s \in Systems : c \in [key : {KeyOf[s]}, m : 0..(KeyOf[s] - 1)]
    BY <1>2 DEF Encrypted
  <2> QED  BY <2>1, KeyPositive
<1> QED  BY <1>1, <1>2

LEMMA AddToType ==
    ASSUME NEW s \in Systems, NEW t,
           NEW c \in Encrypted \cup {Blank, Junk}, NEW d \in Encrypted \cup {Blank, Junk}
    PROVE  /\ AddTo(s, c, d) \in Encrypted \cup {Blank, Junk}
           /\ AddPrivately(s, c, t, d) \in Encrypted \cup {Blank, Junk}
<1>1. c.m + d.m \in Int  BY NumberType
<1> QED  BY <1>1, EncType DEF AddTo, AddPrivately

------------------------------------------------------------------------------
\* A number that v stands for is below the modulus of v's key, and is what v
\* encrypts.
Holds(s, c, m) == m # None => m \in 0..(KeyOf[s] - 1) /\ c = [key |-> KeyOf[s], m |-> m]

Binding == TypeOK /\ \A v \in Scope : Holds(system[v], raw[v], clear[v])

LEMMA HoldsEnc ==
    ASSUME NEW s \in Systems, NEW p \in Int
    PROVE  /\ Holds(s, Enc(s, p), p % KeyOf[s])
           /\ p % KeyOf[s] \in Int
<1>1. p % KeyOf[s] \in 0..(KeyOf[s] - 1)  BY KeyPositive, ModRange
<1> QED  BY <1>1, KeyPositive DEF Holds, Enc

\* The sum of two ciphers holds what ClearSum says of it, if anything.
LEMMA HoldsSum ==
    ASSUME TypeOK, NEW v \in Scope, NEW w \in Scope,
           Holds(system[v], raw[v], clear[v]), Holds(system[w], raw[w], clear[w])
    PROVE  /\ Holds(system[v], RawSum(v, w), ClearSum(v, w))
           /\ RawSum(v, w) \in Encrypted \cup {Blank, Junk}
           /\ ClearSum(v, w) \in Int \cup {None}
<1> DEFINE s == system[v]
           t == system[w]
<1> v \in Vars /\ w \in Vars /\ s \in Systems /\ t \in Systems  BY DEF Scope, TypeOK
<1>1. RawSum(v, w) \in Encrypted \cup {Blank, Junk}
  BY AddToType DEF TypeOK, RawSum
<1>2. CASE ClearSum(v, w) = None
  BY <1>1, <1>2 DEF Holds
<1>3. CASE ClearSum(v, w) # None
  <2>0. /\ None \notin {clear[v], clear[w]}
        /\ s \in Private \/ SameKey(v, w)
    BY <1>3 DEF ClearSum
  <2>1. /\ raw[v] = [key |-> KeyOf[s], m |-> clear[v]]
        /\ raw[w] = [key |-> KeyOf[t], m |-> clear[w]]
        /\ clear[v] \in Int /\ clear[w] \in Int
    BY <2>0 DEF Holds, TypeOK
  <2>2. KeyOf[s] # 0 /\ KeyOf[t] # 0  BY KeyPositive
  <2>3. Blank \notin {raw[v], raw[w]}
    <3>1. raw[v].key # Blank.key /\ raw[w].key # Blank.key  BY <2>1, <2>2 DEF Blank
    <3> QED  BY <3>1
  <2>4. RawSum(v, w) = Enc(s, clear[v] + clear[w])
    <3>1. /\ raw[v].key = KeyOf[s] /\ raw[w].key = KeyOf[t]
          /\ raw[v].m = clear[v] /\ raw[w].m = clear[w]
      BY <2>1
    <3>2. CASE s \in Private  BY <3>1, <3>2 DEF RawSum, AddPrivately
    <3>3. CASE s \notin Private
      <4>1. KeyOf[t] = KeyOf[s]  BY <2>0, <3>3 DEF SameKey
      <4>2. RawSum(v, w) = AddTo(s, raw[v], raw[w])  BY <3>3 DEF RawSum
      <4> QED  BY <2>3, <3>1, <4>1, <4>2 DEF AddTo
    <3> QED  BY <3>2, <3>3
  <2>5. ClearSum(v, w) = (clear[v] + clear[w]) % KeyOf[s]  BY <2>0 DEF ClearSum
  <2> QED  BY <1>1, <2>1, <2>4, <2>5, HoldsEnc
<1> QED  BY <1>2, <1>3

\* A value read under another object of the same key is the same value.
LEMMA HoldsSameKey ==
    ASSUME NEW v, NEW w, SameKey(v, w), NEW c, NEW m, Holds(system[w], c, m)
    PROVE  Holds(system[v], c, m)
BY DEF Holds, SameKey

\* One variable gets a binding and a value, the others keep theirs.
LEMMA OneChanged ==
    ASSUME Binding, NEW v \in Vars, NEW s \in Systems \cup {None},
           NEW c \in Encrypted \cup {Blank, Junk}, NEW m \in Int \cup {None},
           system' = [system EXCEPT ![v] = s], Store(v, c, m),
           s # None => Holds(s, c, m)
    PROVE  Binding'
<1>1. TypeOK'  BY DEF Binding, TypeOK, Store
<1>2. \A u \in Scope' : Holds(system'[u], raw'[u], clear'[u])
  <2> SUFFICES ASSUME NEW u \in Vars, system'[u] # None
               PROVE  Holds(system'[u], raw'[u], clear'[u])
    BY DEF Scope
  <2>1. CASE u = v  BY <2>1 DEF Binding, TypeOK, Store
  <2>2. CASE u # v  BY <2>2 DEF Binding, TypeOK, Store, Scope
  <2> QED  BY <2>1, <2>2
<1>3. \A u \in Vars : Holds(system'[u], raw'[u], clear'[u])
                      <=> Holds(system[u], raw[u], clear[u])'
  BY DEF Holds
<1> QED  BY <1>1, <1>2 DEF Binding, Holds

LEMMA BindingStep ==
    ASSUME Binding, [Next]_vars
    PROVE  Binding'
<1> USE DEF Binding
<1> \A v \in Scope : v \in Vars /\ system[v] \in Systems  BY DEF Scope, TypeOK
<1> \A v \in Vars : /\ raw[v] \in Encrypted \cup {Blank, Junk}
                    /\ clear[v] \in Int \cup {None}
  BY DEF TypeOK
<1>1. ASSUME NEW v \in Vars, NEW s \in Systems, Declare(v, s)  PROVE Binding'
  <2>1. Holds(s, Blank, None)  BY DEF Holds
  <2> QED  BY <1>1, <2>1, OneChanged DEF Declare, Enter
<1>2. ASSUME NEW v \in Vars, NEW w \in Vars, Copy(v, w)  PROVE Binding'
  BY <1>2, OneChanged DEF Copy, Enter
<1>3. ASSUME NEW v \in Vars, NEW w \in Vars, Assign(v, w)  PROVE Binding'
  <2> DEFINE m == IF SameKey(v, w) THEN clear[w] ELSE None
  <2>1. /\ v \in Scope /\ w \in Scope
        /\ system' = [system EXCEPT ![v] = system[v]]
        /\ Store(v, raw[w], m)
    BY <1>3 DEF Assign, TypeOK
  <2>2. Holds(system[v], raw[w], m) /\ m \in Int \cup {None}
    <3>1. CASE SameKey(v, w)  BY <2>1, <3>1, HoldsSameKey
    <3>2. CASE ~SameKey(v, w)  BY <3>2 DEF Holds
    <3> QED  BY <3>1, <3>2
  <2> HIDE DEF m
  <2> QED  BY <2>1, <2>2, OneChanged
<1>4. ASSUME NEW v \in Vars, NEW w \in Vars, Add(v, w)  PROVE Binding'
  <2>1. /\ v \in Scope /\ w \in Scope
        /\ system' = [system EXCEPT ![v] = system[v]]
    BY <1>4 DEF Add, TypeOK
  <2> QED  BY <1>4, <2>1, HoldsSum, OneChanged DEF Add
<1>5. ASSUME NEW u \in Vars, NEW v \in Vars, NEW w \in Vars, Sum(u, v, w)  PROVE Binding'
  <2> DEFINE c == RawSum(v, w)
             m == IF SameKey(u, v) THEN ClearSum(v, w) ELSE None
  <2>1. /\ u \in Scope /\ v \in Scope /\ w \in Scope
        /\ system' = [system EXCEPT ![u] = system[u]]
        /\ Store(u, c, m)
    BY <1>5 DEF Sum, TypeOK
  <2>2. /\ Holds(system[v], c, ClearSum(v, w))
        /\ c \in Encrypted \cup {Blank, Junk}
        /\ ClearSum(v, w) \in Int \cup {None}
    BY <2>1, HoldsSum
  <2>3. Holds(system[u], c, m)
    <3>1. CASE SameKey(u, v)  BY <2>2, <3>1, HoldsSameKey
    <3>2. CASE ~SameKey(u, v)  BY <3>2 DEF Holds
    <3> QED  BY <3>1, <3>2
  <2>4. m \in Int \cup {None}  BY <2>2
  <2> HIDE DEF c, m
  <2> QED  BY <2>1, <2>2, <2>3, <2>4, OneChanged
<1>6. ASSUME NEW u \in Vars, NEW v \in Vars, NEW w \in Vars, NewSum(u, v, w)  PROVE Binding'
  <2>1. v \in Scope /\ w \in Scope
    BY <1>6 DEF NewSum
  <2> QED  BY <1>6, <2>1, HoldsSum, OneChanged DEF NewSum, Enter
<1>7. ASSUME NEW v \in Vars, NEW p \in Plains, AssignPlain(v, p)  PROVE Binding'
  <2>1. /\ v \in Scope
        /\ system' = [system EXCEPT ![v] = system[v]]
    BY <1>7 DEF AssignPlain, TypeOK
  <2>2. p \in Int  OBVIOUS
  <2>3. /\ Enc(system[v], p) \in Encrypted
        /\ Holds(system[v], Enc(system[v], p), p % KeyOf[system[v]])
        /\ p % KeyOf[system[v]] \in Int
    BY <2>1, <2>2, EncType, HoldsEnc
  <2> QED  BY <1>7, <2>1, <2>3, OneChanged DEF AssignPlain
<1>8. ASSUME NEW v \in Vars, Leave(v)  PROVE Binding'
  BY <1>8, OneChanged DEF Leave
<1>9. CASE UNCHANGED vars
  BY <1>9 DEF vars, TypeOK, Scope, Holds
<1> QED  BY <1>1, <1>2, <1>3, <1>4, <1>5, <1>6, <1>7, <1>8, <1>9 DEF Next

LEMMA BindingInvariant == Spec => []Binding
<1>1. Init => Binding
  BY DEF Init, Binding, TypeOK, Scope
<1>2. Binding /\ [Next]_vars => Binding'
  BY BindingStep
<1> QED  BY <1>1, <1>2, PTL DEF Spec

------------------------------------------------------------------------------
\* The variables of a program over ciphers keep their types: what is stored is an
\* encryption below its key's modulus, the blank of a new Cipher, or the number
\* that means nothing.
THEOREM TypeCorrect == Spec => []TypeOK
<1>1. Binding => TypeOK  BY DEF Binding
<1> QED  BY <1>1, BindingInvariant, PTL

\* Ciphers behave as clear numbers, for any number of variables, objects and
\* keys, as long as their values stay clear of assignments between two keys and
\* products of ciphertexts of two: what the assertion that operator= has commented
\* out would make sure of.
THEOREM CiphersAsClearValues == Spec => []AsClearValues
<1>1. Binding => AsClearValues
  <2> SUFFICES ASSUME Binding, NEW v \in Scope, clear[v] # None
               PROVE  raw[v] = Enc(system[v], clear[v])
    BY DEF AsClearValues
  <2>1. v \in Vars /\ system[v] \in Systems  BY DEF Scope, Binding, TypeOK
  <2>2. /\ clear[v] \in 0..(KeyOf[system[v]] - 1)
        /\ raw[v] = [key |-> KeyOf[system[v]], m |-> clear[v]]
    BY DEF Binding, Holds
  <2>3. clear[v] % KeyOf[system[v]] = clear[v]
    BY <2>1, <2>2, KeyPositive, ModIdentity
  <2> QED  BY <2>2, <2>3 DEF Enc
<1> QED  BY <1>1, BindingInvariant, PTL
==============================================================================
