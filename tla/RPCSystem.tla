------------------------------ MODULE RPCSystem ------------------------------
(***************************************************************************)
(* One RPCServer and the RPCClient objects that talk to it, with the       *)
(* properties that relate the two sides.                                   *)
(***************************************************************************)
EXTENDS RPCServer, RPCClient

vars == <<serverVars, clientVars>>

Init == ServerInit /\ ClientInit

Next ==
    \/ ServerNext /\ UNCHANGED clientVars
    \/ ClientNext /\ UNCHANGED serverVars

Spec == Init /\ [][Next]_vars

\* run() is reached, both dispatch threads keep running, and a client that
\* waits for an answer takes it when it comes.  Nobody has to make a call,
\* and nothing forces a timeout or an exception.
FairSpec ==
    /\ Spec
    /\ WF_vars(Run /\ UNCHANGED clientVars)
    /\ \A w \in Workers : WF_vars(Proceed(w) /\ UNCHANGED clientVars)
    /\ \A c \in Clients : WF_vars(ClientReceives(c) /\ UNCHANGED serverVars)

------------------------------------------------------------------------------
(* What holds whoever connects. *)

\* Every variable of both sides has its type.
TypeOK == NetworkTypeOK /\ ServerTypeOK /\ ClientTypeOK

\* An exchange with a key that was answered with an exception.
ExchangeFailed ==
    \E p \in replies, r \in requests :
        /\ IsReplyTo(p, r) /\ p.body = Error("EXCEPTION")
        /\ r.proc = Xchg /\ r.typed /\ Keyed(r.client)

\* However many key exchanges overlap and delete each other's objects, the
\* server of a set of exchanges that all succeeded has a cryptosystem to work
\* with: _remoteCS dangles only while some thread is between the delete and
\* the assignment, or once an exchange has ended in an exception.
OnlyFailedExchangesDangle ==
    remoteCS \notin live =>
        \/ remoteCS = NULL
        \/ phase = "crashed"
        \/ \E w \in Workers : pc[w] = "assign"
        \/ ExchangeFailed

\* A request dispatch() took is either in the hands of exactly one thread or
\* answered, and answered once: no path of a handler forgets req.result() or
\* reaches it twice.
AnsweredOnce ==
    /\ \A p, q \in replies : IsReplyTo(p, q) => p = q
    /\ \A v, w \in Workers : job[v] = job[w] /\ job[v] # NULL => v = w
    /\ \A r \in dispatched :
          (\E p \in replies : IsReplyTo(p, r)) <=> ~(\E w \in Workers : job[w] = r)

\* A client constructed with a key never gets back a vector of another
\* length from DOT: its key was in the slot before its constructor returned,
\* and the slot never becomes NULL again, so unpack() always finds a
\* cryptosystem to bind the ciphers to.
VectorsComplete ==
    \A p \in replies, r \in requests :
        IsReplyTo(p, r) /\ p.body.kind = "vector" /\ Keyed(r.client)
            => Len(p.body.keys) = r.len

\* A client with a key, of a server with a key, never dereferences a NULL
\* cryptosystem, whatever it calls and whatever comes back.
KeyedClientsNeverCrash ==
    \A c \in Clients : Keyed(c) /\ ServerKey # NoKey => client[c] # "crashed"

------------------------------------------------------------------------------
(* What holds as long as one client only has a key. *)

OneKeyedClient == \A c, d \in Clients : Keyed(c) /\ Keyed(d) => c = d

\* No thread computes with, or deletes, a cryptosystem another thread has
\* already deleted, and the server is never killed by one.
NoUseAfterDelete ==
    /\ phase # "crashed"
    /\ \A w \in Workers :
          /\ pc[w] = "compute" => cs[w] \in live \cup {NULL}
          /\ pc[w] = "delete" => {remoteCS, cs[w]} \subseteq live

\* Every element DOT returns to a client was computed under that client's key.
DotUnderCallersKey ==
    \A p \in replies :
        p.body.kind = "vector" /\ Keyed(p.client) =>
            \A i \in 1..Len(p.body.keys) : p.body.keys[i] = ClientKey[p.client]

\* The cryptosystem DOT has bound a client's vector to, if it is still there, is
\* the one that client's key exchange left in the slot.
BoundToCallersKey ==
    \A w \in Workers :
        pc[w] = "compute" /\ Keyed(job[w].client) /\ cs[w] \in live
            => ClientKey[cs[w]] = ClientKey[job[w].client]

\* From the moment a client's constructor has returned, client and server
\* hold each other's keys.
KeysAgree ==
    \A c \in Clients : client[c] = "ready" =>
        /\ serverCS[c] = ServerKey
        /\ Keyed(c) => remoteCS \in live /\ ClientKey[remoteCS] = ClientKey[c]

------------------------------------------------------------------------------
(* Liveness. *)

\* A constructor returns, by an answer or a timeout.
ConstructReturns ==
    \A c \in Clients : client[c] = "exchanging" ~> client[c] \in {"ready", "failed"}

\* A call made by a client that stays alive comes back.
CallsReturn ==
    \A c \in Clients, i \in 1..MaxReq :
        future[c][i].kind = "waiting" ~>
            future[c][i].kind # "waiting" \/ client[c] = "crashed"
==============================================================================
