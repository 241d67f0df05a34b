---------------------------- MODULE ModularAlgebra ----------------------------
(***************************************************************************)
(* What a user of ciphers sees through the C++ operators: variables that   *)
(* hold numbers modulo N.  A variable nothing was assigned to is undefined *)
(* and makes undefined what is computed from it; the program may stop on   *)
(* an operator that has such an operand, and for no other reason.          *)
(***************************************************************************)
EXTENDS Integers

CONSTANTS
    Vars,         \* the cipher variables
    N,            \* the modulus, above 1
    Plains,       \* the plain operands a program uses
    Undef         \* no number and no operation

VARIABLES
    val,          \* val[v]: the number v stands for
    stopped,
    op            \* the operation the program applied last

Init ==
    /\ val = [v \in Vars |-> Undef]
    /\ stopped = FALSE
    /\ op = Undef

Number(a) == IF a \in Vars THEN val[a] ELSE a

Operands(name, v, a) ==
    IF name = "=" THEN {Number(a)} ELSE {val[v], Number(a)}

Result(name, x, y) ==
    CASE name = "="  -> y
      [] name = "+=" -> x + y
      [] name = "-=" -> x - y
      [] name = "*=" -> x * y
      [] name = "recrypt" -> x

\* v is assigned, changed by, or blinded again with the number a.
Apply(name, v, a) ==
    /\ op' = [name |-> name, dest |-> v, arg |-> a]
    /\ \/ /\ Undef \notin Operands(name, v, a)
          /\ val' = [val EXCEPT ![v] = Result(name, @, Number(a)) % N]
          /\ UNCHANGED stopped
       \/ /\ Undef \in Operands(name, v, a)
          /\ val' = [val EXCEPT ![v] = Undef]
          /\ UNCHANGED stopped
       \/ /\ Undef \in Operands(name, v, a)
          /\ stopped' = TRUE
          /\ UNCHANGED val

Next ==
    /\ ~stopped
    /\ \/ \E name \in {"=", "+=", "-=", "*="}, v \in Vars, a \in Vars \cup Plains :
              Apply(name, v, a)
       \/ \E v \in Vars : Apply("recrypt", v, v)

Spec == Init /\ [][Next]_<<val, stopped, op>>
==============================================================================
