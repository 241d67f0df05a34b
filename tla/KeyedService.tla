----------------------------- MODULE KeyedService -----------------------------
(***************************************************************************)
(* What the owner of an RPCClient with a key may rely on, without threads, *)
(* messages or shared slots: the constructor exchanges the keys or throws, *)
(* and from then on a call ends in the one outcome its procedure and       *)
(* arguments determine, in an exception of the procedure, or in a timeout. *)
(***************************************************************************)
EXTENDS Naturals

CONSTANTS
    Me, MyKey,    \* the client, and the public key of its localCS
    ServerKey,    \* the server's public key
    NoKey,        \* no key
    Calls,        \* the calls the owner may make: procedure and arguments
    MaxReq        \* bound: calls the client makes, its key exchange included

VARIABLES
    open,         \* the server runs
    offered,      \* the procedures the server has
    status,       \* "new", "exchanging", "ready" or "failed"
    learnt,       \* the server's key as the client knows it
    asked,        \* the calls made so far, numbered
    future        \* future[i]: the future of the i-th call

vars == <<open, offered, status, learnt, asked, future>>

Init ==
    /\ open = FALSE
    /\ offered = {"XCHANGE_KEYS"}
    /\ status = "new"
    /\ learnt = NoKey
    /\ asked = {}
    /\ future = [i \in 1..MaxReq |-> [kind |-> "unsent"]]

\* What a call comes to when its procedure throws nothing.
Outcome(r) ==
    IF r.proc \notin offered        THEN [kind |-> "error", code |-> "NO_METHOD_ERROR"]
    ELSE IF r.proc = "XCHANGE_KEYS" THEN [kind |-> "key", key |-> ServerKey]
    ELSE IF ~r.typed                THEN [kind |-> "error", code |-> "ARGUMENT_ERROR"]
    ELSE IF r.proc = "DOT"          THEN [kind |-> "vector",
                                          keys |-> [i \in 1..r.len |-> MyKey]]
    ELSE [kind |-> "product"]

Exception == [kind |-> "error", code |-> "EXCEPTION"]

\* What a call may be answered with: its outcome, or an exception of the
\* procedure.
Answers(r) ==
    {Outcome(r)} \cup {a \in {Exception} : r.proc \in offered}

------------------------------------------------------------------------------
\* The server is set up, then opened for good.
Offer(p) ==
    /\ ~open
    /\ offered' = offered \cup {p}
    /\ UNCHANGED <<open, status, learnt, asked, future>>

Open ==
    /\ ~open
    /\ open' = TRUE
    /\ UNCHANGED <<offered, status, learnt, asked, future>>

Ask(i, proc, len, typed) ==
    /\ \A r \in asked : r.seq < i
    /\ asked' = asked \cup
           {[client |-> Me, seq |-> i, proc |-> proc, len |-> len, typed |-> typed]}
    /\ future' = [future EXCEPT ![i] = [kind |-> "waiting"]]
    /\ UNCHANGED <<open, offered, learnt>>

Connect ==
    /\ status = "new"
    /\ status' = "exchanging"
    /\ Ask(1, "XCHANGE_KEYS", 0, TRUE)

Connected ==
    /\ open
    /\ status = "exchanging"
    /\ status' = "ready"
    /\ learnt' = ServerKey
    /\ future' = [future EXCEPT ![1] = [kind |-> "key", key |-> ServerKey]]
    /\ UNCHANGED <<open, offered, asked>>

ConnectFails ==
    /\ status = "exchanging"
    /\ status' = "failed"
    /\ \/ future' = [future EXCEPT ![1] = [kind |-> "timeout"]]
       \/ /\ open
          /\ \E a \in {[kind |-> "key", key |-> ServerKey], Exception} :
                future' = [future EXCEPT ![1] = a]
    /\ UNCHANGED <<open, offered, learnt, asked>>

Invoke(i, k) ==
    /\ status = "ready"
    /\ Ask(i, k.proc, k.len, k.typed)
    /\ UNCHANGED status

Answered(r) ==
    /\ open
    /\ status = "ready"
    /\ future[r.seq].kind = "waiting"
    /\ \E a \in Answers(r) : future' = [future EXCEPT ![r.seq] = a]
    /\ UNCHANGED <<open, offered, status, learnt, asked>>

TimedOut(i) ==
    /\ status = "ready"
    /\ future[i].kind = "waiting"
    /\ future' = [future EXCEPT ![i] = [kind |-> "timeout"]]
    /\ UNCHANGED <<open, offered, status, learnt, asked>>

Next ==
    \/ \E p \in {"DOT", "*"} : Offer(p)
    \/ Open
    \/ Connect \/ Connected \/ ConnectFails
    \/ \E i \in 1..MaxReq : TimedOut(i) \/ \E k \in Calls : Invoke(i, k)
    \/ \E r \in asked : Answered(r)

Spec == Init /\ [][Next]_vars
==============================================================================
