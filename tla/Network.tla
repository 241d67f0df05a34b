------------------------------- MODULE Network -------------------------------
(***************************************************************************)
(* The msgpack-rpc transport between RPCClient objects and one RPCServer,  *)
(* as the code uses it: a call is sent once and gives a future; the server *)
(* hands every request to dispatch() once, on any of its threads and in    *)
(* any order; a reply is matched to the future by its message id.          *)
(***************************************************************************)
EXTENDS Naturals, Sequences

CONSTANTS
    Clients,      \* the RPCClient objects that are ever constructed
    ClientKey,    \* ClientKey[c]: public key of c's localCS, NoKey without one
    ServerKey,    \* public key of the server's _localCS, NoKey without one
    Keys, NoKey,  \* the public keys, and the empty string sent for "no key"
    Garbage,      \* what is read as a key in a deleted cryptosystem
    Calls,        \* the calls a client's owner may make: procedure and arguments
    MaxReq        \* bound: calls one client makes, its key exchange included

Xchg == "XCHANGE_KEYS"
Dot  == "DOT"
Mult == "*"

\* "?" stands for every name no procedure has.
ProcName == {Xchg, Dot, Mult, "?"}

\* len is the length of DOT's vector argument; typed is FALSE when the
\* arguments do not convert to the procedure's types.
Call == [proc : ProcName, len : Nat, typed : BOOLEAN]

ASSUME NetworkAssumption ==
    /\ Calls \subseteq Call
    /\ \A k \in Calls : k.proc = Xchg => ~k.typed   \* keys go out once
    /\ NoKey \notin Keys
    /\ Garbage \notin Keys \cup {NoKey}
    /\ ClientKey \in [Clients -> Keys \cup {NoKey}]
    /\ ServerKey \in Keys \cup {NoKey}
    /\ MaxReq \in Nat /\ MaxReq > 0

VARIABLES
    requests,     \* every request ever sent
    replies       \* every reply ever sent

Request == [client : Clients, seq : 1..MaxReq, proc : ProcName,
            len : Nat, typed : BOOLEAN]

\* A vector result lists, element by element, the key its cipher was
\* computed under; Garbage stands for a modulus that is no client's.  An error
\* is one of msgpack's codes, or the text of another exception.
Result == [kind : {"key"}, key : Keys \cup {NoKey}]
     \cup [kind : {"vector"}, keys : Seq(Keys \cup {Garbage})]
     \cup [kind : {"product"}]
     \cup [kind : {"error"}, code : {"NO_METHOD_ERROR", "ARGUMENT_ERROR", "EXCEPTION"}]

Reply == [client : Clients, seq : 1..MaxReq, body : Result]

Keyed(c) == ClientKey[c] # NoKey

IsReplyTo(p, r) == p.client = r.client /\ p.seq = r.seq

NetworkTypeOK ==
    /\ requests \subseteq Request
    /\ replies \subseteq Reply
==============================================================================
