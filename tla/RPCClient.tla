------------------------------ MODULE RPCClient ------------------------------
(***************************************************************************)
(* RPCClient<PrivateCryptosystemType>: the constructor, which exchanges    *)
(* keys and blocks until the answer or a timeout; the calls, each giving a *)
(* future; the getters, which wait for a future and bind the result to     *)
(* localCS or remoteCS.  ClientKey[c] tells which constructor was used: a  *)
(* client without a key has localCS = NULL.                                *)
(***************************************************************************)
EXTENDS Network

VARIABLES
    client,       \* client[c]: how far the object has come
    serverCS,     \* serverCS[c]: the key c's remoteCS holds, NoKey for NULL
    sent,         \* sent[c]: calls made so far
    future        \* future[c][i]: the future of c's i-th call

clientVars == <<client, serverCS, sent, future, requests>>

ClientPhase == {"new", "exchanging", "ready", "failed", "crashed"}

FutureState == [kind : {"unsent", "waiting", "timeout"}] \cup Result

ClientTypeOK ==
    /\ client \in [Clients -> ClientPhase]
    /\ serverCS \in [Clients -> Keys \cup {NoKey}]
    /\ sent \in [Clients -> 0..MaxReq]
    /\ future \in [Clients -> [1..MaxReq -> FutureState]]

ClientInit ==
    /\ client = [c \in Clients |-> "new"]
    /\ serverCS = [c \in Clients |-> NoKey]
    /\ sent = [c \in Clients |-> 0]
    /\ future = [c \in Clients |-> [i \in 1..MaxReq |-> [kind |-> "unsent"]]]
    /\ requests = {}

------------------------------------------------------------------------------
Become(c, p) == client' = [client EXCEPT ![c] = p]

Resolve(c, i, f) == future' = [future EXCEPT ![c][i] = f]

\* Mutant: the first message has number 0.
Send_fromZero(c, proc, len, typed) ==
    /\ sent[c] < MaxReq
    /\ sent' = [sent EXCEPT ![c] = @ + 1]
    /\ requests' = requests \cup
           {[client |-> c, seq |-> sent[c], proc |-> proc, len |-> len, typed |-> typed]}
    /\ Resolve(c, sent[c] + 1, [kind |-> "waiting"])

\* call(): pack the arguments, send the request, return its future.
Send(c, proc, len, typed) ==
    /\ sent[c] < MaxReq
    /\ sent' = [sent EXCEPT ![c] = @ + 1]
    /\ requests' = requests \cup
           {[client |-> c, seq |-> sent[c] + 1, proc |-> proc,
             len |-> len, typed |-> typed]}
    /\ Resolve(c, sent[c] + 1, [kind |-> "waiting"])

\* Mutant: the constructor does not wait for the answer.
Construct_async(c) ==
    /\ client[c] = "new"
    /\ Become(c, "ready")
    /\ Send(c, Xchg, 0, TRUE)
    /\ UNCHANGED serverCS

\* The constructor calls XCHANGE_KEYS with the client's key, or with "".
Construct(c) ==
    /\ client[c] = "new"
    /\ Become(c, "exchanging")
    /\ Send(c, Xchg, 0, TRUE)
    /\ UNCHANGED serverCS

\* get<std::string>(): a non-empty key becomes remoteCS.
FinishConstruct(c) ==
    /\ client[c] = "exchanging"
    /\ \E p \in replies :
        /\ p.client = c /\ p.seq = 1
        /\ p.body.kind = "key"
        /\ serverCS' = [serverCS EXCEPT ![c] = p.body.key]
        /\ Resolve(c, 1, p.body)
    /\ Become(c, "ready")
    /\ UNCHANGED <<sent, requests>>

\* get throws the error the server answered with, or the new cryptosystem
\* throws though a key came: there is no object.
ConstructThrows(c) ==
    /\ client[c] = "exchanging"
    /\ \E p \in replies :
        /\ p.client = c /\ p.seq = 1
        /\ p.body.kind = "error" \/ (p.body.kind = "key" /\ p.body.key # NoKey)
        /\ Resolve(c, 1, p.body)
    /\ Become(c, "failed")
    /\ UNCHANGED <<serverCS, sent, requests>>

\* Mutant: the constructor catches the timeout.
ConstructTimeout_caught(c) ==
    /\ client[c] = "exchanging"
    /\ Become(c, "ready")
    /\ Resolve(c, 1, [kind |-> "timeout"])
    /\ UNCHANGED <<serverCS, sent, requests>>

\* get throws timeout_error out of the constructor: there is no object.
ConstructTimeout(c) ==
    /\ client[c] = "exchanging"
    /\ Become(c, "failed")
    /\ Resolve(c, 1, [kind |-> "timeout"])
    /\ UNCHANGED <<serverCS, sent, requests>>

------------------------------------------------------------------------------
\* newLocalCipher(): its assert tests a string literal and never fires, so
\* a NULL localCS is dereferenced.
NewLocalCipher(c) ==
    /\ client[c] = "ready"
    /\ Become(c, IF Keyed(c) THEN "ready" ELSE "crashed")
    /\ UNCHANGED <<serverCS, sent, future, requests>>

\* newRemoteCipher(): dereferences remoteCS, which is NULL if the server
\* answered with an empty key.
NewRemoteCipher(c) ==
    /\ client[c] = "ready"
    /\ Become(c, IF serverCS[c] # NoKey THEN "ready" ELSE "crashed")
    /\ UNCHANGED <<serverCS, sent, future, requests>>

\* getLocalCipherVector("DOT", v), getRemoteCipher("*", x, y) or a name the
\* server does not know.  The arguments of * are remote ciphers, which exist
\* only if remoteCS does.
MakeCall(c, k) ==
    /\ client[c] = "ready"
    /\ k.proc = Mult => serverCS[c] # NoKey
    /\ Send(c, k.proc, k.len, k.typed)
    /\ UNCHANGED <<client, serverCS>>

\* Binding the elements of a vector to localCS dereferences it.
NeedsLocalCS(body) == body.kind = "vector" /\ body.keys # <<>>

\* Mutant: any reply to the client resolves the future.
Receive_anyReply(c, i) ==
    /\ client[c] = "ready"
    /\ future[c][i].kind = "waiting"
    /\ \E p \in replies :
        /\ p.client = c
        /\ \/ /\ NeedsLocalCS(p.body) /\ ~Keyed(c)
              /\ Become(c, "crashed")
              /\ UNCHANGED future
           \/ /\ NeedsLocalCS(p.body) => Keyed(c)
              /\ Resolve(c, i, p.body)
              /\ UNCHANGED client
    /\ UNCHANGED <<serverCS, sent, requests>>

\* getLocalCipherVector / getRemoteCipher of a future: wait for the reply
\* and bind it to localCS or remoteCS.  A remote error is thrown.
Receive(c, i) ==
    /\ client[c] = "ready"
    /\ future[c][i].kind = "waiting"
    /\ \E p \in replies :
        /\ p.client = c /\ p.seq = i
        /\ \/ /\ NeedsLocalCS(p.body) /\ ~Keyed(c)
              /\ Become(c, "crashed")
              /\ UNCHANGED future
           \/ /\ NeedsLocalCS(p.body) => Keyed(c)
              /\ Resolve(c, i, p.body)
              /\ UNCHANGED client
    /\ UNCHANGED <<serverCS, sent, requests>>

\* get throws timeout_error: a reply that still comes is dropped.
CallTimeout(c, i) ==
    /\ client[c] = "ready"
    /\ future[c][i].kind = "waiting"
    /\ Resolve(c, i, [kind |-> "timeout"])
    /\ UNCHANGED <<client, serverCS, sent, requests>>

------------------------------------------------------------------------------
\* Steps a client takes when an answer is there.
ClientReceives(c) ==
    \/ FinishConstruct(c) \/ ConstructThrows(c)
    \/ \E i \in 1..MaxReq : Receive(c, i)

\* Steps the program that owns the client, or the clock, may or may not take.
ClientMoves(c) ==
    \/ Construct(c) \/ ConstructTimeout(c)
    \/ NewLocalCipher(c) \/ NewRemoteCipher(c)
    \/ \E k \in Calls : MakeCall(c, k)
    \/ \E i \in 1..MaxReq : CallTimeout(c, i)

ClientNext == \E c \in Clients : ClientReceives(c) \/ ClientMoves(c)
==============================================================================
