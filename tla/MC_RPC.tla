------------------------------- MODULE MC_RPC --------------------------------
(* Instances of RPCSystem for TLC. *)
EXTENDS RPCSystem, TLC

CONSTANTS c1, c2, k1, k2, ks, none

\* One client with a key, the others without.
OneKey == [c \in Clients |-> IF c = c1 THEN k1 ELSE none]

\* Every client has a key of its own.
AllKeyed == [c \in Clients |-> IF c = c1 THEN k1 ELSE k2]

\* DOT on vectors of one length, DOT on something else, and *.
DotOf(len) == [proc |-> Dot, len |-> len, typed |-> TRUE]
IllTyped(p) == [proc |-> p, len |-> 0, typed |-> FALSE]
Product == [proc |-> Mult, len |-> 0, typed |-> TRUE]
Unknown == [proc |-> "?", len |-> 0, typed |-> TRUE]

MainCalls == {DotOf(2), Product}
ServiceCalls == MainCalls \cup {IllTyped(Dot), IllTyped(Xchg)}
AllCalls == {DotOf(0), DotOf(2), Product, Unknown,
             IllTyped(Dot), IllTyped(Mult), IllTyped(Xchg)}

WorkerSymmetry == Permutations(Workers)
==============================================================================
