------------------------------ MODULE KeyedClient -----------------------------
(***************************************************************************)
(* RPCSystem as the owner of its one client with a key sees it: threads,   *)
(* requests in flight and the shared slot are hidden, and what is left is  *)
(* KeyedService.                                                           *)
(***************************************************************************)
EXTENDS RPCSystem

\* The client constructed with a key.
Me == CHOOSE c \in Clients : Keyed(c)

\* There is one, no other client has a key, and the server has one.
MyService ==
    /\ \E c \in Clients : Keyed(c)
    /\ OneKeyedClient
    /\ ServerKey # NoKey

MyRequests == {r \in requests : r.client = Me}

Service == INSTANCE KeyedService WITH
    MyKey   <- ClientKey[Me],
    open    <- phase = "running",
    offered <- procs,
    status  <- client[Me],
    learnt  <- serverCS[Me],
    asked   <- MyRequests,
    future  <- future[Me]

\* Under MyService, whatever the dispatch threads interleave and the other
\* clients do, the owner of the one client with a key sees a service in which
\* each call has one outcome unless its procedure throws, late answers change
\* nothing and the server never dies.
ImplementsKeyedService == Service!Spec
==============================================================================
