-------------------------- MODULE RPCSystem_proofs ---------------------------
(***************************************************************************)
(* Theorems about RPCSystem, for any clients, keys, calls and threads:     *)
(* what holds whoever has a key; what the one, unlocked _remoteCS slot is  *)
(* enough for, when one client only is constructed with a key; and the     *)
(* service that client's owner sees.                                       *)
(***************************************************************************)
EXTENDS KeyedClient, SequenceTheorems, TLAPS

\* A request that is sent is a request.
LEMMA SendType ==
    ASSUME TypeOK, NEW c \in Clients, NEW proc \in ProcName, NEW len \in Nat,
           NEW typed \in BOOLEAN, Send(c, proc, len, typed)
    PROVE  /\ requests' \subseteq Request
           /\ sent' \in [Clients -> 0..MaxReq]
           /\ future' \in [Clients -> [1..MaxReq -> FutureState]]
<1>1. sent[c] \in 0..MaxReq /\ sent[c] < MaxReq
  BY DEF Send, TypeOK, ClientTypeOK
<1>2. sent[c] + 1 \in 1..MaxReq
  BY <1>1, NetworkAssumption
<1>3. [kind |-> "waiting"] \in FutureState
  BY DEF FutureState
<1>4. [client |-> c, seq |-> sent[c] + 1, proc |-> proc, len |-> len, typed |-> typed]
          \in Request
  BY <1>2 DEF Request
<1>5. requests' \subseteq Request
  BY <1>4 DEF Send, TypeOK, NetworkTypeOK
<1>6. sent' \in [Clients -> 0..MaxReq]
  BY <1>2, NetworkAssumption DEF Send, TypeOK, ClientTypeOK
<1>7. future' \in [Clients -> [1..MaxReq -> FutureState]]
  BY <1>2, <1>3 DEF Send, Resolve, TypeOK, ClientTypeOK
<1> QED
  BY <1>5, <1>6, <1>7

\* A handler's end keeps the types when its answer is a result.
LEMMA FinishType ==
    ASSUME TypeOK, NEW w \in Workers, NEW body \in Result,
           job[w] # NULL, Finish(w, body)
    PROVE  /\ replies' \subseteq Reply
           /\ pc' \in [Workers -> PcValues]
           /\ job' \in [Workers -> Request \cup {NULL}]
           /\ cs' \in [Workers -> Clients \cup {NULL}]
           /\ out' \in [Workers -> Seq(Keys \cup {Garbage})]
<1>1. job[w] \in Request
  BY DEF TypeOK, ServerTypeOK
<1>2. job[w].client \in Clients /\ job[w].seq \in 1..MaxReq
  BY <1>1 DEF Request
<1>3. replies' \subseteq Reply
  BY <1>2 DEF Finish, AnswerTo, TypeOK, NetworkTypeOK, Reply
<1>4. pc' \in [Workers -> PcValues]
  BY DEF Finish, Goto, TypeOK, ServerTypeOK, PcValues
<1>5. job' \in [Workers -> Request \cup {NULL}]
  BY DEF Finish, TypeOK, ServerTypeOK
<1>6. cs' \in [Workers -> Clients \cup {NULL}]
  BY DEF Finish, TypeOK, ServerTypeOK
<1>7. out' \in [Workers -> Seq(Keys \cup {Garbage})]
  BY DEF Finish, TypeOK, ServerTypeOK
<1> QED
  BY <1>3, <1>4, <1>5, <1>6, <1>7

------------------------------------------------------------------------------
(* The types, and the facts about threads and objects they rest on. *)

\* A thread's place in the code fits the request it runs.
Handlers ==
    \A w \in Workers :
        /\ job[w] = NULL <=> pc[w] = "idle"
        /\ job[w] # NULL => job[w] \in dispatched
        /\ pc[w] \in {"check", "delete", "assign"} =>
              job[w].proc = Xchg /\ job[w].typed /\ Keyed(job[w].client)
        /\ pc[w] = "answer" => job[w].proc = Xchg
        /\ pc[w] \in {"unpack", "compute"} => job[w].proc = Dot

\* Only a key exchange with a key allocates a cryptosystem.
LiveKeyed == \A c \in live : Keyed(c)

Basic == TypeOK /\ Handlers /\ LiveKeyed

\* NULL is no request: it is not a client, and a job in hand is a request.
LEMMA JobType ==
    ASSUME Basic, NEW w \in Workers, pc[w] # "idle"
    PROVE  /\ job[w] # NULL
           /\ job[w] \in Request
           /\ job[w].client \in Clients
           /\ job[w].len \in Nat
BY DEF Basic, Handlers, TypeOK, ServerTypeOK, Request

LEMMA BasicInit == Init => Basic
<1> SUFFICES ASSUME Init PROVE Basic
  OBVIOUS
<1>1. NetworkTypeOK
  BY DEF Init, ServerInit, ClientInit, NetworkTypeOK
<1>2. ServerTypeOK
  BY DEF Init, ServerInit, ServerTypeOK, PcValues
<1>3. ClientTypeOK
  <2>1. 0 \in 0..MaxReq
    BY NetworkAssumption
  <2>2. [kind |-> "unsent"] \in FutureState
    BY DEF FutureState
  <2> QED
    BY <2>1, <2>2 DEF Init, ClientInit, ClientTypeOK, ClientPhase
<1>4. Handlers /\ LiveKeyed
  BY DEF Init, ServerInit, Handlers, LiveKeyed
<1> QED
  BY <1>1, <1>2, <1>3, <1>4 DEF Basic, TypeOK

\* When a handler ends, the other threads are as they were.
LEMMA FinishBasic ==
    ASSUME Basic, NEW w \in Workers, pc[w] # "idle", NEW body \in Result,
           Finish(w, body),
           UNCHANGED <<phase, procs, remoteCS, live, dispatched, clientVars>>
    PROVE  Basic'
<1>1. job[w] # NULL
  BY JobType
<1>2. NetworkTypeOK' /\ ServerTypeOK'
  BY <1>1, FinishType DEF Basic, TypeOK, NetworkTypeOK, ServerTypeOK, clientVars
<1>3. ClientTypeOK'
  BY DEF Basic, TypeOK, ClientTypeOK, clientVars
<1>4. Handlers'
  BY DEF Basic, Handlers, Finish, Goto, TypeOK, ServerTypeOK
<1>5. LiveKeyed'
  BY DEF Basic, LiveKeyed
<1> QED
  BY <1>2, <1>3, <1>4, <1>5 DEF Basic, TypeOK

LEMMA BasicServer ==
    ASSUME Basic, ServerNext, UNCHANGED clientVars
    PROVE  Basic'
<1> USE DEF Basic, TypeOK
<1>0. ClientTypeOK'
  BY DEF ClientTypeOK, clientVars
<1>1. ASSUME NEW p \in {Dot, Mult}, RegisterProc(p) PROVE Basic'
  BY <1>0, <1>1 DEF RegisterProc, NetworkTypeOK, ServerTypeOK, Handlers, LiveKeyed, clientVars
<1>2. ASSUME Run PROVE Basic'
  BY <1>0, <1>2 DEF Run, NetworkTypeOK, ServerTypeOK, Handlers, LiveKeyed, clientVars
<1>3. ASSUME NEW w \in Workers, NEW r \in requests, Dispatch(w, r) PROVE Basic'
  <2>1. /\ r \in Request /\ r # NULL
        /\ r.client \in Clients /\ r.seq \in 1..MaxReq
        /\ r.proc \in ProcName
    BY ServerAssumption DEF NetworkTypeOK, Request
  <2>2. CASE r.proc \notin procs
    <3>1. Error("NO_METHOD_ERROR") \in Result
      BY DEF Error, Result
    <3>2. replies' \subseteq Reply
      BY <1>3, <2>1, <2>2, <3>1 DEF Dispatch, AnswerTo, NetworkTypeOK, Reply
    <3> QED
      BY <1>0, <1>3, <2>2, <3>2 DEF Dispatch, NetworkTypeOK, ServerTypeOK,
                                    Handlers, LiveKeyed, clientVars
  <2>3. CASE r.proc \in procs
    <3>1. FirstStep(r) \in {"check", "answer", "unpack", "multiply"}
      BY DEF FirstStep
    <3>2. job' = [job EXCEPT ![w] = r] /\ pc' = [pc EXCEPT ![w] = FirstStep(r)]
      BY <1>3, <2>3 DEF Dispatch, Goto
    <3>3. NetworkTypeOK' /\ ServerTypeOK' /\ LiveKeyed'
      BY <1>3, <2>1, <2>3, <3>1, <3>2 DEF Dispatch, NetworkTypeOK, ServerTypeOK, PcValues,
                                    LiveKeyed, clientVars
    <3>4. /\ FirstStep(r) = "check" => r.proc = Xchg /\ r.typed /\ Keyed(r.client)
          /\ FirstStep(r) = "answer" => r.proc = Xchg
          /\ FirstStep(r) = "unpack" => r.proc = Dot
      BY DEF FirstStep, Xchg, Dot
    <3>5. Handlers'
      BY <1>3, <2>1, <2>3, <3>1, <3>2, <3>4 DEF Dispatch, Handlers, ServerTypeOK
    <3> QED
      BY <1>0, <3>3, <3>5
  <2> QED
    BY <2>2, <2>3
<1>4. ASSUME NEW w \in Workers, CheckSlot(w) PROVE Basic'
  BY <1>0, <1>4 DEF CheckSlot, At, Goto, NetworkTypeOK, ServerTypeOK, PcValues,
                    Handlers, LiveKeyed, clientVars
<1>5. ASSUME NEW w \in Workers, DeleteOld(w) PROVE Basic'
  BY <1>0, <1>5 DEF DeleteOld, At, Goto, NetworkTypeOK, ServerTypeOK, PcValues,
                    Handlers, LiveKeyed, clientVars
<1>6. ASSUME NEW w \in Workers, AssignNew(w) PROVE Basic'
  BY <1>0, <1>6, JobType DEF AssignNew, At, Goto, NetworkTypeOK, ServerTypeOK, PcValues,
                    Handlers, LiveKeyed, clientVars
<1>7. ASSUME NEW w \in Workers, AnswerKey(w) PROVE Basic'
  <2>1. [kind |-> "key", key |-> ServerKey] \in Result
    BY NetworkAssumption DEF Result
  <2> QED
    BY <1>7, <2>1, FinishBasic DEF AnswerKey, At
<1>8. ASSUME NEW w \in Workers, Unpack(w) PROVE Basic'
  <2>1. CASE ~job[w].typed
    <3>1. Error("ARGUMENT_ERROR") \in Result
      BY DEF Error, Result
    <3> QED
      BY <1>8, <2>1, <3>1, FinishBasic DEF Unpack, At
  <2>2. CASE job[w].typed
    <3>1. /\ pc[w] = "unpack"
          /\ pc' = [pc EXCEPT ![w] = "compute"] /\ cs' = [cs EXCEPT ![w] = remoteCS]
          /\ UNCHANGED <<phase, procs, remoteCS, live, job, out, dispatched, replies, requests>>
      BY <1>8, <2>2 DEF Unpack, Bind, At, Goto, clientVars
    <3>2. NetworkTypeOK' /\ ServerTypeOK'
      BY <3>1 DEF NetworkTypeOK, ServerTypeOK, PcValues
    <3>3. Handlers'
      BY <3>1 DEF ServerTypeOK, Handlers
    <3>4. LiveKeyed'
      BY <3>1 DEF LiveKeyed
    <3> QED
      BY <1>0, <3>2, <3>3, <3>4
  <2> QED
    BY <2>1, <2>2
<1>9. ASSUME NEW w \in Workers, ComputeElement(w) PROVE Basic'
  <2>1. KeyRead(w) \subseteq Keys \cup {Garbage}
    BY <1>9, NetworkAssumption DEF KeyRead, LiveKeyed, Keyed, ServerTypeOK
  <2>2. out' \in [Workers -> Seq(Keys \cup {Garbage})]
    <3>1. CASE UNCHANGED out
      BY <3>1 DEF ServerTypeOK
    <3>2. ASSUME NEW k \in KeyRead(w), out' = [out EXCEPT ![w] = Append(@, k)]
          PROVE  out' \in [Workers -> Seq(Keys \cup {Garbage})]
      <4>1. out[w] \in Seq(Keys \cup {Garbage}) /\ k \in Keys \cup {Garbage}
        BY <2>1 DEF ServerTypeOK
      <4>2. Append(out[w], k) \in Seq(Keys \cup {Garbage})
        BY <4>1, AppendProperties
      <4> QED
        BY <3>2, <4>2 DEF ServerTypeOK
    <3> QED
      BY <1>9, <3>1, <3>2 DEF ComputeElement
  <2> QED
    BY <1>0, <1>9, <2>2 DEF ComputeElement, At, NetworkTypeOK, ServerTypeOK,
                            Handlers, LiveKeyed, clientVars
<1>10. ASSUME NEW w \in Workers, AnswerVector(w) PROVE Basic'
  <2>1. [kind |-> "vector", keys |-> out[w]] \in Result
    BY DEF Result, ServerTypeOK
  <2> QED
    BY <1>10, <2>1, FinishBasic DEF AnswerVector, At
<1>11. ASSUME NEW w \in Workers, Multiply(w) PROVE Basic'
  <2>1. [kind |-> "product"] \in Result /\ Error("ARGUMENT_ERROR") \in Result
    BY DEF Error, Result
  <2> QED
    BY <1>11, <2>1, FinishBasic DEF Multiply, At
<1>12. ASSUME NEW w \in Workers, Fail(w) PROVE Basic'
  <2>1. Error("EXCEPTION") \in Result
    BY DEF Error, Result
  <2> QED
    BY <1>12, <2>1, FinishBasic DEF Fail, At
<1> QED
  BY <1>1, <1>2, <1>3, <1>4, <1>5, <1>6, <1>7, <1>8, <1>9, <1>10, <1>11, <1>12
     DEF ServerNext, WorkerStep, Proceed

LEMMA BasicClient ==
    ASSUME Basic, ClientNext, UNCHANGED serverVars
    PROVE  Basic'
<1> USE DEF Basic, TypeOK
<1>0. ServerTypeOK' /\ Handlers' /\ LiveKeyed' /\ replies' \subseteq Reply
  <2>1. requests \subseteq requests'
    BY DEF ClientNext, ClientReceives, ClientMoves, FinishConstruct, Receive, Construct,
           ConstructThrows, ConstructTimeout, NewLocalCipher, NewRemoteCipher, MakeCall, CallTimeout, Send
  <2> QED
    BY <2>1 DEF ServerTypeOK, NetworkTypeOK, Handlers, LiveKeyed, serverVars
<1>1. \A p \in replies : p.client \in Clients /\ p.seq \in 1..MaxReq /\ p.body \in FutureState
  BY DEF NetworkTypeOK, Reply, FutureState
<1>2. [kind |-> "timeout"] \in FutureState
  BY DEF FutureState
<1>3. 1 \in 1..MaxReq
  BY NetworkAssumption
<1>4. ASSUME NEW c \in Clients, Construct(c) PROVE Basic'
  BY <1>0, <1>4, SendType DEF Construct, Become, NetworkTypeOK, ClientTypeOK, ClientPhase,
                              ProcName
<1>5. ASSUME NEW c \in Clients, FinishConstruct(c) PROVE Basic'
  <2>1. PICK p \in replies :
            /\ p.body.kind = "key"
            /\ serverCS' = [serverCS EXCEPT ![c] = p.body.key]
            /\ Resolve(c, 1, p.body)
    BY <1>5 DEF FinishConstruct
  <2>2. p.body.key \in Keys \cup {NoKey}
    BY <2>1 DEF NetworkTypeOK, Reply, Result
  <2>3. future' \in [Clients -> [1..MaxReq -> FutureState]]
    BY <1>1, <1>3, <2>1 DEF Resolve, ClientTypeOK
  <2> QED
    BY <1>0, <1>5, <2>1, <2>2, <2>3
       DEF FinishConstruct, Become, NetworkTypeOK, ClientTypeOK, ClientPhase
<1>6. ASSUME NEW c \in Clients, ConstructTimeout(c) PROVE Basic'
  BY <1>0, <1>2, <1>3, <1>6
     DEF ConstructTimeout, Resolve, Become, NetworkTypeOK, ClientTypeOK, ClientPhase
<1>7. ASSUME NEW c \in Clients, NewLocalCipher(c) PROVE Basic'
  BY <1>0, <1>7 DEF NewLocalCipher, Become, NetworkTypeOK, ClientTypeOK, ClientPhase
<1>8. ASSUME NEW c \in Clients, NewRemoteCipher(c) PROVE Basic'
  BY <1>0, <1>8 DEF NewRemoteCipher, Become, NetworkTypeOK, ClientTypeOK, ClientPhase
<1>9. ASSUME NEW c \in Clients, NEW k \in Calls, MakeCall(c, k) PROVE Basic'
  <2>1. k.proc \in ProcName /\ k.len \in Nat /\ k.typed \in BOOLEAN
    BY NetworkAssumption DEF Call
  <2> QED
    BY <1>0, <1>9, <2>1, SendType DEF MakeCall, NetworkTypeOK, ClientTypeOK
<1>10. ASSUME NEW c \in Clients, NEW i \in 1..MaxReq, Receive(c, i) PROVE Basic'
  <2>1. PICK p \in replies :
            \/ Become(c, "crashed") /\ UNCHANGED future
            \/ Resolve(c, i, p.body) /\ UNCHANGED client
    BY <1>10 DEF Receive
  <2>2. future' \in [Clients -> [1..MaxReq -> FutureState]]
    <3>1. CASE UNCHANGED future
      BY <3>1 DEF ClientTypeOK
    <3>2. CASE Resolve(c, i, p.body)
      BY <1>1, <3>2 DEF Resolve, ClientTypeOK
    <3> QED
      BY <2>1, <3>1, <3>2
  <2> QED
    BY <1>0, <1>10, <2>1, <2>2 DEF Receive, Become, NetworkTypeOK, ClientTypeOK, ClientPhase
<1>11. ASSUME NEW c \in Clients, NEW i \in 1..MaxReq, CallTimeout(c, i) PROVE Basic'
  BY <1>0, <1>2, <1>11
     DEF CallTimeout, Resolve, NetworkTypeOK, ClientTypeOK, ClientPhase
<1>12. ASSUME NEW c \in Clients, ConstructThrows(c) PROVE Basic'
  <2>1. PICK p \in replies : Resolve(c, 1, p.body)
    BY <1>12 DEF ConstructThrows
  <2>2. future' \in [Clients -> [1..MaxReq -> FutureState]]
    BY <1>1, <1>3, <2>1 DEF Resolve, ClientTypeOK
  <2> QED
    BY <1>0, <1>12, <2>2
       DEF ConstructThrows, Become, NetworkTypeOK, ClientTypeOK, ClientPhase
<1> QED
  BY <1>4, <1>5, <1>6, <1>7, <1>8, <1>9, <1>10, <1>11, <1>12
     DEF ClientNext, ClientReceives, ClientMoves

LEMMA BasicStep == Basic /\ [Next]_vars => Basic'
<1> SUFFICES ASSUME Basic, [Next]_vars PROVE Basic'
  OBVIOUS
<1>1. CASE UNCHANGED vars
  BY <1>1 DEF vars, serverVars, clientVars, Basic, TypeOK, NetworkTypeOK, ServerTypeOK,
              ClientTypeOK, Handlers, LiveKeyed
<1> QED
  BY <1>1, BasicServer, BasicClient DEF Next

\* Types, where each thread is in its handler, and that only objects of clients
\* with a key are allocated.
THEOREM SpecBasic == Spec => []Basic
<1> QED
  BY BasicInit, BasicStep, PTL DEF Spec

\* Both sides keep their types, for any clients, keys, calls and threads.
THEOREM TypeCorrect == Spec => []TypeOK
<1>1. Basic => TypeOK
  BY DEF Basic
<1> QED
  BY <1>1, SpecBasic, PTL

------------------------------------------------------------------------------
(* The slot dangles only inside a key exchange, or after one that failed. *)

\* What has failed has failed.
LEMMA FailedStays ==
    ASSUME ExchangeFailed, replies \subseteq replies', requests \subseteq requests'
    PROVE  ExchangeFailed'
BY DEF ExchangeFailed, IsReplyTo, Error, Keyed

\* Answers and calls are never taken back.
LEMMA MessagesStay ==
    ASSUME [Next]_vars
    PROVE  replies \subseteq replies' /\ requests \subseteq requests'
<1>1. ASSUME NEW w \in Workers, WorkerStep(w) PROVE replies \subseteq replies'
  BY <1>1 DEF WorkerStep, Proceed, Dispatch, CheckSlot, DeleteOld, AssignNew, AnswerKey, Unpack,
              ComputeElement, AnswerVector, Multiply, Fail, Finish, AnswerTo
<1>2. CASE ServerNext /\ UNCHANGED clientVars
  BY <1>1, <1>2 DEF ServerNext, Run, RegisterProc, clientVars
<1>3. CASE ClientNext /\ UNCHANGED serverVars
  BY <1>3 DEF ClientNext, ClientReceives, ClientMoves, FinishConstruct, ConstructThrows, Receive,
              Construct, ConstructTimeout, NewLocalCipher, NewRemoteCipher, MakeCall,
              CallTimeout, Send, serverVars
<1> QED
  BY <1>2, <1>3 DEF Next, vars, serverVars, clientVars

LEMMA SlotStep == Basic /\ OnlyFailedExchangesDangle /\ [Next]_vars => OnlyFailedExchangesDangle'
<1> SUFFICES ASSUME Basic, OnlyFailedExchangesDangle, [Next]_vars
             PROVE  OnlyFailedExchangesDangle'
  OBVIOUS
<1> USE DEF OnlyFailedExchangesDangle, Basic, TypeOK, ServerTypeOK
<1>0. ExchangeFailed => ExchangeFailed'
  BY MessagesStay, FailedStays
<1>1. CASE UNCHANGED <<phase, remoteCS, live, pc>>
  BY <1>0, <1>1
<1>2. ASSUME NEW w \in Workers, DeleteOld(w) PROVE OnlyFailedExchangesDangle'
  BY <1>2 DEF DeleteOld, Goto
<1>3. ASSUME NEW w \in Workers, AssignNew(w) PROVE OnlyFailedExchangesDangle'
  BY <1>3 DEF AssignNew
<1>4. ASSUME NEW w \in Workers, pc[w] # "assign", UNCHANGED <<remoteCS, live>>,
             phase' = phase \/ phase' = "crashed",
             \A v \in Workers \ {w} : pc'[v] = pc[v]
      PROVE  OnlyFailedExchangesDangle'
  BY <1>0, <1>4
<1>5. ASSUME NEW w \in Workers, WorkerStep(w) PROVE OnlyFailedExchangesDangle'
  <2>1. ASSUME NEW r \in requests, Dispatch(w, r) PROVE OnlyFailedExchangesDangle'
    BY <1>4, <2>1 DEF Dispatch, At, Goto
  <2>2. CASE CheckSlot(w)
    BY <1>4, <2>2 DEF CheckSlot, At, Goto
  <2>3. CASE AnswerKey(w) \/ Unpack(w) \/ AnswerVector(w) \/ Multiply(w)
    BY <1>4, <2>3 DEF AnswerKey, Unpack, AnswerVector, Multiply, At, Goto, Finish
  <2>4. CASE ComputeElement(w)
    BY <1>4, <2>4 DEF ComputeElement, At
  <2>5. CASE Fail(w)
    <3>1. CASE pc[w] # "assign"
      BY <1>4, <2>5, <3>1 DEF Fail, At, Goto, Finish
    <3>2. CASE pc[w] = "assign"
      <4> DEFINE p == [client |-> job[w].client, seq |-> job[w].seq,
                       body |-> Error("EXCEPTION")]
      <4>1. /\ job[w] \in requests /\ job[w].proc = Xchg /\ job[w].typed
            /\ Keyed(job[w].client)
        BY <3>2, JobType DEF Handlers
      <4>2. p \in replies' /\ IsReplyTo(p, job[w]) /\ p.body = Error("EXCEPTION")
        BY <2>5 DEF Fail, Finish, AnswerTo, IsReplyTo
      <4>3. job[w] \in requests'
        BY <4>1, MessagesStay
      <4>4. ExchangeFailed'
        BY <4>1, <4>2, <4>3, Zenon DEF ExchangeFailed, IsReplyTo, Keyed, Error
      <4> QED
        BY <4>4
    <3> QED
      BY <3>1, <3>2
  <2> QED
    BY <1>2, <1>3, <1>5, <2>1, <2>2, <2>3, <2>4, <2>5 DEF WorkerStep, Proceed
<1>6. CASE Run \/ \E p \in {Dot, Mult} : RegisterProc(p)
  BY <1>0, <1>6 DEF Run, RegisterProc
<1>7. CASE UNCHANGED serverVars
  BY <1>1, <1>7 DEF serverVars
<1> QED
  BY <1>1, <1>5, <1>6, <1>7 DEF Next, ServerNext, vars, serverVars

\* However many clients exchange keys at once, the shared slot holds a deleted
\* cryptosystem only while a thread is between delete and new, or after an
\* exchange that was answered with an exception.
THEOREM SlotSafe == Spec => []OnlyFailedExchangesDangle
<1>1. Init => OnlyFailedExchangesDangle
  BY DEF Init, ServerInit, OnlyFailedExchangesDangle
<1> QED
  BY <1>1, SpecBasic, SlotStep, PTL DEF Spec

------------------------------------------------------------------------------
(* Requests are numbered apart, and each is answered once. *)

\* A client numbers its requests from 1, one by one.
Numbered ==
    /\ \A r, s \in requests : r.client = s.client /\ r.seq = s.seq => r = s
    /\ \A r \in requests : r.seq <= sent[r.client]
    /\ \A c \in Clients : client[c] = "new" <=> sent[c] = 0

\* Only a request that was dispatched is answered.
Solicited == \A p \in replies : \E r \in dispatched : IsReplyTo(p, r)

Bookkeeping == Numbered /\ Solicited /\ AnsweredOnce

LEMMA NumberedStep == Basic /\ Numbered /\ [Next]_vars => Numbered'
<1> SUFFICES ASSUME Basic, Numbered, [Next]_vars PROVE Numbered'
  OBVIOUS
<1> USE DEF Basic, TypeOK, NetworkTypeOK, ClientTypeOK
<1>1. ASSUME NEW c \in Clients, NEW proc, NEW len, NEW typed, Send(c, proc, len, typed),
             client' = client \/ client' = [client EXCEPT ![c] = "exchanging"],
             client'[c] # "new"
      PROVE  Numbered'
  <2> DEFINE new == [client |-> c, seq |-> sent[c] + 1, proc |-> proc,
                     len |-> len, typed |-> typed]
  <2>1. requests' = requests \cup {new} /\ sent' = [sent EXCEPT ![c] = @ + 1]
    BY <1>1 DEF Send
  <2>2. sent[c] \in Nat /\ \A r \in requests : r.client \in Clients /\ r.seq \in Nat
    BY NetworkAssumption DEF Request
  <2>3. \A r \in requests : r.client = c => r.seq # sent[c] + 1
    BY <2>2 DEF Numbered
  <2>4. \A r, s \in requests' : r.client = s.client /\ r.seq = s.seq => r = s
    BY <2>1, <2>3 DEF Numbered
  <2>5. \A r \in requests' : r.seq <= sent'[r.client]
    BY <2>1, <2>2 DEF Numbered
  <2>6. \A d \in Clients : client'[d] = "new" <=> sent'[d] = 0
    BY <1>1, <2>1, <2>2 DEF Numbered
  <2> QED
    BY <2>4, <2>5, <2>6 DEF Numbered
<1>2. ASSUME NEW c \in Clients, Construct(c) PROVE Numbered'
  BY <1>1, <1>2 DEF Construct, Become
<1>3. ASSUME NEW c \in Clients, NEW k \in Calls, MakeCall(c, k) PROVE Numbered'
  BY <1>1, <1>3 DEF MakeCall
<1>4. ASSUME UNCHANGED <<requests, sent>>,
             client' = client \/ \E c \in Clients, s \in ClientPhase \ {"new"} :
                                     client[c] # "new" /\ client' = [client EXCEPT ![c] = s]
      PROVE  Numbered'
  BY <1>4 DEF Numbered
<1>5. CASE UNCHANGED clientVars
  BY <1>4, <1>5 DEF clientVars
<1>6. ASSUME NEW c \in Clients,
             \/ ClientReceives(c)
             \/ ConstructTimeout(c) \/ NewLocalCipher(c) \/ NewRemoteCipher(c)
             \/ \E i \in 1..MaxReq : CallTimeout(c, i)
      PROVE  Numbered'
  BY <1>4, <1>6 DEF ClientReceives, FinishConstruct, ConstructThrows, Receive,
                    ConstructTimeout, CallTimeout, NewLocalCipher, NewRemoteCipher, Become, ClientPhase
<1> QED
  BY <1>2, <1>3, <1>5, <1>6 DEF Next, ClientNext, ClientMoves, vars

\* When a handler ends, its request is answered and no other is touched.
LEMMA FinishBookkeeping ==
    ASSUME Basic, Bookkeeping, NEW w \in Workers, pc[w] # "idle", NEW body,
           Finish(w, body), UNCHANGED <<dispatched, requests>>
    PROVE  Solicited' /\ AnsweredOnce'
<1> DEFINE p == [client |-> job[w].client, seq |-> job[w].seq, body |-> body]
<1>1. job[w] # NULL /\ job[w] \in dispatched /\ dispatched \subseteq requests
  BY DEF Basic, Handlers, TypeOK, ServerTypeOK
<1>2. replies' = replies \cup {p} /\ job' = [job EXCEPT ![w] = NULL]
  BY DEF Finish, AnswerTo
<1>3. job \in [Workers -> Request \cup {NULL}]
  BY DEF Basic, TypeOK, ServerTypeOK
<1>4. IsReplyTo(p, job[w])
  BY DEF IsReplyTo
<1>5. ~ \E q \in replies : IsReplyTo(q, job[w])
  BY <1>1 DEF Bookkeeping, AnsweredOnce
<1>6. \A r \in requests : IsReplyTo(p, r) <=> r = job[w]
  BY <1>1, <1>4 DEF Bookkeeping, Numbered, IsReplyTo
<1>7. Solicited'
  BY <1>1, <1>2, <1>4 DEF Bookkeeping, Solicited, IsReplyTo
<1>8. \A q, s \in replies' : IsReplyTo(q, s) => q = s
  BY <1>2, <1>4, <1>5 DEF Bookkeeping, AnsweredOnce, IsReplyTo
<1>9. \A u, v \in Workers : job'[u] = job'[v] /\ job'[u] # NULL => u = v
  BY <1>2, <1>3 DEF Bookkeeping, AnsweredOnce
<1>10. ASSUME NEW r \in dispatched
       PROVE  (\E q \in replies' : IsReplyTo(q, r)) <=> ~(\E v \in Workers : job'[v] = r)
  <2>1. r \in requests /\ r # NULL
    BY <1>1, ServerAssumption DEF Basic, TypeOK, NetworkTypeOK
  <2>2. CASE r = job[w]
    BY <1>2, <1>3, <1>4, <2>1, <2>2 DEF Bookkeeping, AnsweredOnce
  <2>3. CASE r # job[w]
    <3>1. (\E q \in replies' : IsReplyTo(q, r)) <=> (\E q \in replies : IsReplyTo(q, r))
      BY <1>2, <1>6, <2>1, <2>3
    <3>2. (\E v \in Workers : job'[v] = r) <=> (\E v \in Workers : job[v] = r)
      BY <1>2, <1>3, <2>1, <2>3
    <3> QED
      BY <3>1, <3>2 DEF Bookkeeping, AnsweredOnce
  <2> QED
    BY <2>2, <2>3
<1> QED
  BY <1>7, <1>8, <1>9, <1>10 DEF AnsweredOnce, IsReplyTo

LEMMA DispatchBookkeeping ==
    ASSUME Basic, Bookkeeping, NEW w \in Workers, NEW r \in requests, Dispatch(w, r),
           UNCHANGED requests
    PROVE  Solicited' /\ AnsweredOnce'
<1>1. job \in [Workers -> Request \cup {NULL}] /\ job[w] = NULL /\ r # NULL
  BY ServerAssumption
     DEF Dispatch, At, Basic, Handlers, TypeOK, NetworkTypeOK, ServerTypeOK
<1>2. r \notin dispatched /\ dispatched' = dispatched \cup {r} /\ dispatched \subseteq requests
  BY DEF Dispatch, Basic, TypeOK, ServerTypeOK
<1>3. \A v \in Workers : job[v] # r
  BY <1>1, <1>2 DEF Basic, Handlers
<1>4. \A q \in replies : ~IsReplyTo(q, r)
  BY <1>2 DEF Bookkeeping, Numbered, Solicited, IsReplyTo
<1>5. CASE r.proc \notin procs
  <2> DEFINE p == [client |-> r.client, seq |-> r.seq, body |-> Error("NO_METHOD_ERROR")]
  <2>1. replies' = replies \cup {p} /\ UNCHANGED job
    BY <1>5 DEF Dispatch, AnswerTo
  <2>2. \A s \in requests : IsReplyTo(p, s) <=> s = r
    BY DEF Bookkeeping, Numbered, IsReplyTo
  <2>3. Solicited'
    BY <1>2, <2>1, <2>2 DEF Bookkeeping, Solicited
  <2>4. \A q, s \in replies' : IsReplyTo(q, s) => q = s
    BY <1>4, <2>1 DEF Bookkeeping, AnsweredOnce, IsReplyTo
  <2>5. \A s \in dispatched' :
          (\E q \in replies' : IsReplyTo(q, s)) <=> ~(\E v \in Workers : job'[v] = s)
    BY <1>2, <1>3, <2>1, <2>2 DEF Bookkeeping, AnsweredOnce
  <2> QED
    BY <2>1, <2>3, <2>4, <2>5 DEF Bookkeeping, AnsweredOnce
<1>6. CASE r.proc \in procs
  <2>1. job' = [job EXCEPT ![w] = r] /\ UNCHANGED replies
    BY <1>6 DEF Dispatch
  <2>2. Solicited'
    BY <1>2, <2>1 DEF Bookkeeping, Solicited
  <2>3. \A u, v \in Workers : job'[u] = job'[v] /\ job'[u] # NULL => u = v
    BY <1>1, <1>3, <2>1 DEF Bookkeeping, AnsweredOnce
  <2>4. \A s \in dispatched' :
          (\E q \in replies' : IsReplyTo(q, s)) <=> ~(\E v \in Workers : job'[v] = s)
    <3>1. ASSUME NEW s \in dispatched
          PROVE  (\E v \in Workers : job'[v] = s) <=> (\E v \in Workers : job[v] = s)
      <4>1. s # NULL /\ s # r
        BY <1>2, ServerAssumption DEF Basic, TypeOK, NetworkTypeOK
      <4> QED
        BY <1>1, <2>1, <4>1
    <3>2. \E v \in Workers : job'[v] = r
      BY <1>1, <2>1
    <3> QED
      BY <1>2, <1>4, <2>1, <3>1, <3>2 DEF Bookkeeping, AnsweredOnce
  <2> QED
    BY <2>1, <2>2, <2>3, <2>4 DEF Bookkeeping, AnsweredOnce
<1> QED
  BY <1>5, <1>6

LEMMA BookkeepingStep == Basic /\ Bookkeeping /\ [Next]_vars => Bookkeeping'
<1> SUFFICES ASSUME Basic, Bookkeeping, [Next]_vars PROVE Solicited' /\ AnsweredOnce'
  BY NumberedStep DEF Bookkeeping
<1>1. CASE UNCHANGED <<replies, job, dispatched>>
  BY <1>1 DEF Bookkeeping, Solicited, AnsweredOnce
<1>2. ASSUME NEW w \in Workers, WorkerStep(w), UNCHANGED clientVars
      PROVE  Solicited' /\ AnsweredOnce'
  <2>0. UNCHANGED requests
    BY <1>2 DEF clientVars
  <2>1. CASE \E r \in requests : Dispatch(w, r)
    BY <2>0, <2>1, DispatchBookkeeping
  <2>2. CASE CheckSlot(w) \/ DeleteOld(w) \/ AssignNew(w) \/ ComputeElement(w)
    BY <1>1, <2>2 DEF CheckSlot, DeleteOld, AssignNew, ComputeElement
  <2>3. CASE AnswerKey(w) \/ AnswerVector(w) \/ Multiply(w)
    BY <2>0, <2>3, FinishBookkeeping DEF AnswerKey, AnswerVector, Multiply, At
  <2>4. CASE Unpack(w)
    BY <1>1, <2>0, <2>4, FinishBookkeeping DEF Unpack, At
  <2>5. CASE Fail(w)
    BY <2>0, <2>5, FinishBookkeeping DEF Fail, At
  <2> QED
    BY <1>2, <2>1, <2>2, <2>3, <2>4, <2>5 DEF WorkerStep, Proceed
<1>3. CASE Run \/ \E p \in {Dot, Mult} : RegisterProc(p)
  BY <1>1, <1>3 DEF Run, RegisterProc
<1>4. CASE UNCHANGED serverVars
  BY <1>1, <1>4 DEF serverVars
<1> QED
  BY <1>2, <1>3, <1>4 DEF Next, ServerNext, vars

\* Message numbers name requests, replies answer some request, and no request is
\* answered twice or lost.
THEOREM SpecBookkeeping == Spec => []Bookkeeping
<1>1. Init => Bookkeeping
  BY DEF Init, ServerInit, ClientInit, Bookkeeping, Numbered, Solicited, AnsweredOnce
<1> QED
  BY <1>1, SpecBasic, BookkeepingStep, PTL DEF Spec

\* Every request a thread took is in one thread's hands or answered, never
\* both, and never answered twice.
THEOREM AnswersOnce == Spec => []AnsweredOnce
<1>1. Bookkeeping => AnsweredOnce
  BY DEF Bookkeeping
<1> QED
  BY <1>1, SpecBookkeeping, PTL

------------------------------------------------------------------------------
(* A client with a key finds a cryptosystem in the slot. *)

\* A request that is the key exchange of a constructor; another call of the
\* same name does not carry a string.
Exchange(r) == r.proc = Xchg /\ r.typed

\* Key exchanges are the first calls.
Exchanges == \A r \in requests : Exchange(r) <=> r.seq = 1

\* Everything a keyed client sees once its key exchange was answered implies
\* that the slot was assigned.
SlotAssigned ==
    /\ \A w \in Workers :
          pc[w] = "answer" /\ Keyed(job[w].client) => remoteCS # NULL
    /\ \A p \in replies : p.body.kind = "key" /\ Keyed(p.client) => remoteCS # NULL
    /\ \A c \in Clients :
          client[c] \in {"ready", "crashed"} /\ Keyed(c) => remoteCS # NULL
    /\ \A r \in requests : ~Exchange(r) /\ Keyed(r.client) => remoteCS # NULL

\* A thread that computes for a keyed client copied that cryptosystem, and
\* has answered a part of the vector.
PartOfVector ==
    \A w \in Workers :
        /\ pc[w] # "compute" => out[w] = <<>>
        /\ pc[w] = "compute" =>
              /\ Keyed(job[w].client) => cs[w] # NULL
              /\ Len(out[w]) <= job[w].len

Complete == Exchanges /\ SlotAssigned /\ PartOfVector /\ VectorsComplete

LEMMA FinishComplete ==
    ASSUME Basic, Bookkeeping, Complete, NEW w \in Workers, pc[w] # "idle", NEW body,
           Finish(w, body), UNCHANGED <<remoteCS, clientVars>>,
           body.kind = "key" /\ Keyed(job[w].client) => remoteCS # NULL,
           body.kind = "vector" /\ Keyed(job[w].client) => Len(body.keys) = job[w].len
    PROVE  Complete'
<1> DEFINE p == [client |-> job[w].client, seq |-> job[w].seq, body |-> body]
<1>1. replies' = replies \cup {p}
  BY DEF Finish, AnswerTo
<1>2. job[w] \in requests
  BY DEF Basic, Handlers, TypeOK, ServerTypeOK
<1>3. \A v \in Workers : /\ v # w => job'[v] = job[v] /\ pc'[v] = pc[v]
                         /\ v # w => cs'[v] = cs[v] /\ out'[v] = out[v]
  BY DEF Finish, Goto, Basic, TypeOK, ServerTypeOK
<1>4. pc'[w] = "idle" /\ out'[w] = <<>>
  BY DEF Finish, Goto, Basic, TypeOK, ServerTypeOK
<1>5. Exchanges'
  BY DEF Complete, Exchanges, clientVars
<1>6. SlotAssigned'
  <2>1. \A q \in replies' : q.body.kind = "key" /\ Keyed(q.client) => remoteCS' # NULL
    BY <1>1 DEF Complete, SlotAssigned
  <2>2. \A v \in Workers : pc'[v] = "answer" /\ Keyed(job'[v].client) => remoteCS' # NULL
    BY <1>3, <1>4 DEF Complete, SlotAssigned
  <2> QED
    BY <2>1, <2>2 DEF Complete, SlotAssigned, clientVars
<1>7. PartOfVector'
  BY <1>3, <1>4 DEF Complete, PartOfVector
<1>8. ASSUME NEW q \in replies', NEW r \in requests, IsReplyTo(q, r),
             q.body.kind = "vector", Keyed(r.client)
      PROVE  Len(q.body.keys) = r.len
  <2>1. CASE q \in replies
    BY <1>8, <2>1 DEF Complete, VectorsComplete
  <2>2. CASE q = p
    <3>1. r = job[w]
      BY <1>2, <1>8, <2>2 DEF IsReplyTo, Bookkeeping, Numbered
    <3> QED
      BY <1>8, <2>2, <3>1
  <2> QED
    BY <1>1, <2>1, <2>2
<1>9. VectorsComplete'
  BY <1>8 DEF VectorsComplete, clientVars, IsReplyTo
<1> QED
  BY <1>5, <1>6, <1>7, <1>9 DEF Complete

LEMMA CompleteServer ==
    ASSUME Basic, Bookkeeping, Complete, ServerNext, UNCHANGED clientVars
    PROVE  Complete'
<1> USE DEF Basic, TypeOK, ServerTypeOK
<1>0. Exchanges'
  BY DEF Complete, Exchanges, clientVars
<1>1. ASSUME UNCHANGED <<remoteCS, pc, job, cs, out, replies>> PROVE Complete'
  BY <1>0, <1>1 DEF Complete, SlotAssigned, PartOfVector, VectorsComplete, IsReplyTo, clientVars
<1>2. ASSUME NEW w \in Workers, NEW r \in requests, Dispatch(w, r) PROVE Complete'
  <2>1. CASE r.proc \notin procs
    <3> DEFINE p == [client |-> r.client, seq |-> r.seq, body |-> Error("NO_METHOD_ERROR")]
    <3>1. /\ replies' = replies \cup {p}
          /\ p.body.kind # "key" /\ p.body.kind # "vector"
      BY <1>2, <2>1 DEF Dispatch, AnswerTo, Error
    <3>2. SlotAssigned' /\ PartOfVector'
      BY <1>2, <2>1, <3>1 DEF Dispatch, Complete, SlotAssigned, PartOfVector, clientVars
    <3>3. VectorsComplete'
      BY <3>1 DEF Complete, VectorsComplete, clientVars, IsReplyTo
    <3> QED
      BY <1>0, <3>2, <3>3 DEF Complete
  <2>2. CASE r.proc \in procs
    <3>1. /\ job' = [job EXCEPT ![w] = r] /\ pc' = [pc EXCEPT ![w] = FirstStep(r)]
          /\ UNCHANGED <<replies, remoteCS, cs, out>> /\ pc[w] = "idle"
      BY <1>2, <2>2 DEF Dispatch, Goto, At
    <3>2. /\ FirstStep(r) # "compute"
          /\ FirstStep(r) = "answer" /\ Keyed(r.client) => ~Exchange(r)
      BY DEF FirstStep, Exchange
    <3>3. SlotAssigned' /\ PartOfVector'
      BY <3>1, <3>2 DEF Complete, SlotAssigned, PartOfVector, clientVars
    <3>4. VectorsComplete'
      BY <3>1 DEF Complete, VectorsComplete, clientVars, IsReplyTo
    <3> QED
      BY <1>0, <3>3, <3>4 DEF Complete
  <2> QED
    BY <2>1, <2>2
<1>3. ASSUME NEW w \in Workers, CheckSlot(w) \/ DeleteOld(w) \/ AssignNew(w) PROVE Complete'
  <2>1. /\ remoteCS # NULL => remoteCS' # NULL
        /\ pc'[w] # "compute" /\ pc[w] # "compute"
        /\ pc'[w] = "answer" => remoteCS' # NULL
    BY <1>3, JobType, ServerAssumption DEF CheckSlot, DeleteOld, AssignNew, At, Goto
  <2>2. /\ UNCHANGED <<job, out, replies>>
        /\ \A v \in Workers \ {w} : pc'[v] = pc[v] /\ cs'[v] = cs[v]
    BY <1>3 DEF CheckSlot, DeleteOld, AssignNew, Goto
  <2>3. SlotAssigned' /\ PartOfVector'
    BY <2>1, <2>2 DEF Complete, SlotAssigned, PartOfVector, clientVars
  <2>4. VectorsComplete'
    BY <2>2 DEF Complete, VectorsComplete, clientVars, IsReplyTo
  <2> QED
    BY <1>0, <2>3, <2>4 DEF Complete
<1>4. ASSUME NEW w \in Workers, AnswerKey(w) PROVE Complete'
  BY <1>4, FinishComplete DEF AnswerKey, At, Complete, SlotAssigned
<1>5. ASSUME NEW w \in Workers, Unpack(w) PROVE Complete'
  <2>1. CASE ~job[w].typed
    BY <1>5, <2>1, FinishComplete DEF Unpack, At, Error
  <2>2. CASE job[w].typed
    <3>1. /\ cs' = [cs EXCEPT ![w] = remoteCS] /\ pc' = [pc EXCEPT ![w] = "compute"]
          /\ UNCHANGED <<remoteCS, job, out, replies>> /\ pc[w] = "unpack"
      BY <1>5, <2>2 DEF Unpack, Bind, Goto, At
    <3>2. Keyed(job[w].client) => remoteCS # NULL
      <4>1. job[w].proc = Dot /\ job[w] \in requests
        BY <3>1 DEF Handlers
      <4> QED
        BY <4>1 DEF Complete, SlotAssigned, Exchange, Dot, Xchg
    <3>3. out[w] = <<>> /\ job[w].len \in Nat
      BY <3>1, JobType DEF Complete, PartOfVector
    <3>4. Len(out[w]) <= job[w].len
      BY <3>3
    <3>5. SlotAssigned' /\ PartOfVector'
      BY <3>1, <3>2, <3>4 DEF Complete, SlotAssigned, PartOfVector, clientVars
    <3>6. VectorsComplete'
      BY <3>1 DEF Complete, VectorsComplete, clientVars, IsReplyTo
    <3> QED
      BY <1>0, <3>5, <3>6 DEF Complete
  <2> QED
    BY <2>1, <2>2
<1>6. ASSUME NEW w \in Workers, ComputeElement(w) PROVE Complete'
  <2>1. UNCHANGED <<remoteCS, pc, job, cs, replies>> /\ pc[w] = "compute"
    BY <1>6 DEF ComputeElement, At
  <2>2. CASE UNCHANGED out
    BY <1>1, <2>1, <2>2
  <2>3. ASSUME NEW k, out' = [out EXCEPT ![w] = Append(@, k)] PROVE Complete'
    <3>1. out'[w] = Append(out[w], k) /\ \A v \in Workers \ {w} : out'[v] = out[v]
      BY <2>3
    <3>2. Len(out'[w]) = Len(out[w]) + 1 /\ Len(out[w]) \in Nat
      BY <3>1
    <3>3. Len(out[w]) < job[w].len /\ job[w].len \in Nat
      BY <1>6, <2>1, JobType DEF ComputeElement
    <3>4. PartOfVector'
      BY <2>1, <3>1, <3>2, <3>3 DEF Complete, PartOfVector
    <3>5. SlotAssigned' /\ VectorsComplete'
      BY <2>1 DEF Complete, SlotAssigned, VectorsComplete, clientVars, IsReplyTo
    <3> QED
      BY <1>0, <3>4, <3>5 DEF Complete
  <2> QED
    BY <1>6, <2>2, <2>3 DEF ComputeElement
<1>7. ASSUME NEW w \in Workers, AnswerVector(w) PROVE Complete'
  <2> DEFINE body == [kind |-> "vector", keys |-> out[w]]
  <2>1. pc[w] = "compute" /\ Finish(w, body) /\ UNCHANGED <<remoteCS, clientVars>>
    BY <1>7 DEF AnswerVector, At
  <2>2. Keyed(job[w].client) => Len(out[w]) = job[w].len
    BY <1>7, <2>1 DEF AnswerVector, Complete, PartOfVector
  <2>3. body.kind # "key" /\ body.keys = out[w]
    OBVIOUS
  <2> QED
    BY <2>1, <2>2, <2>3, FinishComplete
<1>8. ASSUME NEW w \in Workers, Multiply(w) PROVE Complete'
  <2> DEFINE body == IF job[w].typed THEN [kind |-> "product"] ELSE Error("ARGUMENT_ERROR")
  <2>1. body.kind # "key" /\ body.kind # "vector"
    BY DEF Error
  <2>2. pc[w] # "idle" /\ Finish(w, body) /\ UNCHANGED remoteCS
    BY <1>8 DEF Multiply, At
  <2> HIDE DEF body
  <2> QED
    BY <2>1, <2>2, FinishComplete
<1>9. CASE Run \/ \E p \in {Dot, Mult} : RegisterProc(p)
  BY <1>1, <1>9 DEF Run, RegisterProc
<1>10. ASSUME NEW w \in Workers, Fail(w) PROVE Complete'
  BY <1>10, FinishComplete DEF Fail, At, Error
<1> QED
  BY <1>2, <1>3, <1>4, <1>5, <1>6, <1>7, <1>8, <1>9, <1>10 DEF ServerNext, WorkerStep, Proceed

LEMMA CompleteClient ==
    ASSUME Basic, Bookkeeping, Complete, ClientNext, UNCHANGED serverVars
    PROVE  Complete'
<1> USE DEF Basic, TypeOK, ClientTypeOK
<1>0. UNCHANGED <<remoteCS, pc, job, cs, out, replies, dispatched>> /\ PartOfVector'
  BY DEF serverVars, Complete, PartOfVector
<1>1. ASSUME UNCHANGED requests,
             \A c \in Clients : client'[c] \in {"ready", "crashed"} /\ Keyed(c)
                                   => remoteCS # NULL
      PROVE  Complete'
  BY <1>0, <1>1 DEF Complete, Exchanges, SlotAssigned, VectorsComplete, IsReplyTo
<1>2. ASSUME NEW c \in Clients, NEW proc, NEW len, NEW typed, Send(c, proc, len, typed),
             client' = client \/ client' = [client EXCEPT ![c] = "exchanging"],
             IF proc = Xchg /\ typed THEN sent[c] = 0
             ELSE sent[c] # 0 /\ (Keyed(c) => remoteCS # NULL)
      PROVE  Complete'
  <2> DEFINE new == [client |-> c, seq |-> sent[c] + 1, proc |-> proc,
                     len |-> len, typed |-> typed]
  <2>1. requests' = requests \cup {new} /\ sent' = [sent EXCEPT ![c] = @ + 1]
    BY <1>2 DEF Send
  <2>2. Exchanges'
    BY <1>2, <2>1, NetworkAssumption DEF Complete, Exchanges, Exchange
  <2>3. SlotAssigned'
    BY <1>0, <1>2, <2>1 DEF Complete, SlotAssigned, Exchange
  <2>4. \A q \in replies : ~IsReplyTo(q, new)
    <3>1. \A q \in replies : \E r \in requests : IsReplyTo(q, r)
      BY DEF Bookkeeping, Solicited, ServerTypeOK
    <3>2. \A r \in requests : r.client = c => r.seq # sent[c] + 1
      BY NetworkAssumption DEF Bookkeeping, Numbered, NetworkTypeOK, Request
    <3> QED
      BY <3>1, <3>2 DEF IsReplyTo
  <2>5. VectorsComplete'
    BY <1>0, <2>1, <2>4 DEF Complete, VectorsComplete, IsReplyTo
  <2> QED
    BY <1>0, <2>2, <2>3, <2>5 DEF Complete
<1>3. ASSUME NEW c \in Clients, Construct(c) PROVE Complete'
  BY <1>2, <1>3 DEF Construct, Become, Bookkeeping, Numbered
<1>4. ASSUME NEW c \in Clients, FinishConstruct(c) PROVE Complete'
  BY <1>1, <1>4 DEF FinishConstruct, Become, Complete, SlotAssigned
<1>5. ASSUME NEW c \in Clients, NEW k \in Calls, MakeCall(c, k) PROVE Complete'
  <2>1. ~(k.proc = Xchg /\ k.typed)
    BY NetworkAssumption
  <2> QED
    BY <1>2, <1>5, <2>1 DEF MakeCall, Complete, SlotAssigned, Bookkeeping, Numbered
<1>6. ASSUME NEW c \in Clients,
             \/ \E i \in 1..MaxReq : Receive(c, i) \/ CallTimeout(c, i)
             \/ ConstructThrows(c) \/ ConstructTimeout(c)
             \/ NewLocalCipher(c) \/ NewRemoteCipher(c)
      PROVE  Complete'
  BY <1>1, <1>6 DEF Receive, CallTimeout, ConstructThrows, ConstructTimeout,
                    NewLocalCipher, NewRemoteCipher, Become, Complete, SlotAssigned
<1> QED
  BY <1>3, <1>4, <1>5, <1>6 DEF ClientNext, ClientReceives, ClientMoves

\* A client with a key asks for nothing before its exchange assigned the slot, so
\* a vector for it misses no element.
THEOREM SpecComplete == Spec => []Complete
<1>1. Init => Complete
  BY DEF Init, ServerInit, ClientInit, Complete, Exchanges, SlotAssigned, PartOfVector,
         VectorsComplete
<1>2. Basic /\ Bookkeeping /\ Complete /\ [Next]_vars => Complete'
  <2> SUFFICES ASSUME Basic, Bookkeeping, Complete, [Next]_vars PROVE Complete'
    OBVIOUS
  <2>1. CASE UNCHANGED vars
    BY <2>1 DEF vars, serverVars, clientVars, Complete, Exchanges, SlotAssigned, PartOfVector,
                VectorsComplete, IsReplyTo
  <2> QED
    BY <2>1, CompleteServer, CompleteClient DEF Next
<1> QED
  BY <1>1, <1>2, SpecBasic, SpecBookkeeping, PTL DEF Spec

\* A client with a key gets a vector of the length it sent, whoever else
\* exchanges keys meanwhile.
THEOREM CompleteVectors == Spec => []VectorsComplete
<1>1. Complete => VectorsComplete
  BY DEF Complete
<1> QED
  BY <1>1, SpecComplete, PTL

------------------------------------------------------------------------------
(* What a client learns of the server's key. *)

\* Every answer to a key exchange carries the server's key, and a client that
\* is ready took it from one.
ServerKeyLearnt ==
    /\ \A p \in replies : p.body.kind = "key" => p.body.key = ServerKey
    /\ \A c \in Clients : client[c] = "ready" => serverCS[c] = ServerKey

Learnt == ServerKeyLearnt /\ KeyedClientsNeverCrash

LEMMA LearntServer ==
    ASSUME Learnt, ServerNext, UNCHANGED clientVars
    PROVE  Learnt'
<1>1. ASSUME UNCHANGED replies PROVE Learnt'
  BY <1>1 DEF Learnt, ServerKeyLearnt, KeyedClientsNeverCrash, clientVars
<1>2. ASSUME NEW r, NEW body, AnswerTo(r, body),
             body.kind = "key" => body.key = ServerKey
      PROVE  Learnt'
  BY <1>2 DEF AnswerTo, Learnt, ServerKeyLearnt, KeyedClientsNeverCrash, clientVars
<1>3. ASSUME NEW w \in Workers, WorkerStep(w) PROVE Learnt'
  <2>1. ASSUME NEW r \in requests, Dispatch(w, r) PROVE Learnt'
    BY <1>1, <1>2, <2>1 DEF Dispatch, Error
  <2>2. CASE CheckSlot(w) \/ DeleteOld(w) \/ AssignNew(w) \/ ComputeElement(w)
    BY <1>1, <2>2 DEF CheckSlot, DeleteOld, AssignNew, ComputeElement
  <2>3. CASE AnswerKey(w) \/ AnswerVector(w) \/ Unpack(w) \/ Fail(w)
    BY <1>1, <1>2, <2>3 DEF AnswerKey, AnswerVector, Unpack, Fail, Finish, Error
  <2>4. CASE Multiply(w)
    <3> DEFINE body == IF job[w].typed THEN [kind |-> "product"] ELSE Error("ARGUMENT_ERROR")
    <3>1. body.kind # "key"
      BY DEF Error
    <3>2. AnswerTo(job[w], body)
      BY <2>4 DEF Multiply, Finish
    <3> HIDE DEF body
    <3> QED
      BY <1>2, <3>1, <3>2
  <2> QED
    BY <1>3, <2>1, <2>2, <2>3, <2>4 DEF WorkerStep, Proceed
<1>4. CASE Run \/ \E p \in {Dot, Mult} : RegisterProc(p)
  BY <1>1, <1>4 DEF Run, RegisterProc
<1> QED
  BY <1>3, <1>4 DEF ServerNext

LEMMA LearntClient ==
    ASSUME Basic, Learnt, ClientNext, UNCHANGED serverVars
    PROVE  Learnt'
<1> USE DEF Basic, TypeOK, ClientTypeOK, Learnt, ServerKeyLearnt, KeyedClientsNeverCrash
<1>0. UNCHANGED replies
  BY DEF serverVars
<1>1. ASSUME NEW c \in Clients, Construct(c) PROVE Learnt'
  BY <1>0, <1>1 DEF Construct, Become
<1>2. ASSUME NEW c \in Clients, FinishConstruct(c) PROVE Learnt'
  BY <1>0, <1>2 DEF FinishConstruct, Become
<1>3. ASSUME NEW c \in Clients, ConstructThrows(c) \/ ConstructTimeout(c) PROVE Learnt'
  BY <1>0, <1>3 DEF ConstructThrows, ConstructTimeout, Become
<1>4. ASSUME NEW c \in Clients, NewLocalCipher(c) \/ NewRemoteCipher(c) PROVE Learnt'
  BY <1>0, <1>4 DEF NewLocalCipher, NewRemoteCipher, Become
<1>5. ASSUME NEW c \in Clients, NEW k \in Calls, MakeCall(c, k) PROVE Learnt'
  BY <1>0, <1>5 DEF MakeCall
<1>6. ASSUME NEW c \in Clients, NEW i \in 1..MaxReq, Receive(c, i) PROVE Learnt'
  <2>1. UNCHANGED serverCS
        /\ (UNCHANGED client \/ (~Keyed(c) /\ client' = [client EXCEPT ![c] = "crashed"]))
    BY <1>6 DEF Receive, Become
  <2> QED
    BY <1>0, <2>1
<1>7. ASSUME NEW c \in Clients, NEW i \in 1..MaxReq, CallTimeout(c, i) PROVE Learnt'
  BY <1>0, <1>7 DEF CallTimeout
<1> QED
  BY <1>1, <1>2, <1>3, <1>4, <1>5, <1>6, <1>7 DEF ClientNext, ClientReceives, ClientMoves

\* A client that is ready holds the server's key, and none with a key has crashed.
THEOREM SpecLearnt == Spec => []Learnt
<1>1. Init => Learnt
  BY DEF Init, ServerInit, ClientInit, Learnt, ServerKeyLearnt, KeyedClientsNeverCrash
<1>2. Basic /\ Learnt /\ [Next]_vars => Learnt'
  <2> SUFFICES ASSUME Basic, Learnt, [Next]_vars PROVE Learnt'
    OBVIOUS
  <2>1. CASE UNCHANGED vars
    BY <2>1 DEF vars, serverVars, clientVars, Learnt, ServerKeyLearnt, KeyedClientsNeverCrash
  <2> QED
    BY <2>1, LearntServer, LearntClient DEF Next
<1> QED
  BY <1>1, <1>2, SpecBasic, PTL DEF Spec

\* A client with a key, of a server with a key, dereferences no NULL
\* cryptosystem, whatever other clients do.
THEOREM KeyedClientsSurvive == Spec => []KeyedClientsNeverCrash
<1>1. Learnt => KeyedClientsNeverCrash
  BY DEF Learnt
<1> QED
  BY <1>1, SpecLearnt, PTL

------------------------------------------------------------------------------
(* One client only is constructed with a key.                                *)

\* The slot is written by one key exchange: while a thread is in it the slot
\* is NULL, and once the slot is assigned no such exchange is left to run.
OneInstall ==
    /\ phase # "crashed"
    /\ \A w \in Workers :
          /\ pc[w] # "delete"
          /\ pc[w] \in {"check", "assign"} => remoteCS = NULL
    /\ remoteCS # NULL =>
          /\ remoteCS \in live
          /\ client[remoteCS] # "new"
          /\ \A r \in requests : Exchange(r) /\ Keyed(r.client) => r \in dispatched

\* So a pointer a thread copied stays good, and what it computes with is the
\* key of the one client that has one.
GoodCopies ==
    /\ \A w \in Workers : cs[w] \in live \cup {NULL}
    /\ \A w \in Workers : \A i \in 1..Len(out[w]) :
          \A c \in Clients : Keyed(c) => out[w][i] = ClientKey[c]

Sole == OneInstall /\ GoodCopies /\ DotUnderCallersKey

\* Two threads in a key exchange with a key would run the same request.
LEMMA OneExchange ==
    ASSUME OneKeyedClient, Basic, Bookkeeping, Complete,
           NEW r \in requests, NEW s \in requests,
           Exchange(r), Exchange(s), Keyed(r.client), Keyed(s.client)
    PROVE  r = s
<1>1. r.client \in Clients /\ s.client \in Clients
  BY DEF Basic, TypeOK, NetworkTypeOK, Request
<1>2. r.client = s.client
  BY <1>1 DEF OneKeyedClient
<1>3. r.seq = 1 /\ s.seq = 1
  BY DEF Complete, Exchanges
<1> QED
  BY <1>2, <1>3 DEF Bookkeeping, Numbered

LEMMA FinishSole ==
    ASSUME OneKeyedClient, Basic, Sole, NEW w \in Workers, pc[w] # "idle", NEW body,
           Finish(w, body),
           UNCHANGED <<phase, remoteCS, live, dispatched, clientVars>>,
           body.kind = "vector" => body.keys = out[w]
    PROVE  Sole'
<1> DEFINE p == [client |-> job[w].client, seq |-> job[w].seq, body |-> body]
<1>1. replies' = replies \cup {p}
  BY DEF Finish, AnswerTo
<1>2. /\ pc' = [pc EXCEPT ![w] = "idle"] /\ cs' = [cs EXCEPT ![w] = NULL]
      /\ out' = [out EXCEPT ![w] = <<>>]
  BY DEF Finish, Goto
<1>3. job[w].client \in Clients
  BY JobType
<1>4. OneInstall'
  BY <1>2 DEF Sole, OneInstall, clientVars, Basic, TypeOK, ServerTypeOK
<1>5. GoodCopies'
  <2>1. \A v \in Workers : cs'[v] \in {cs[v], NULL} /\ out'[v] \in {out[v], <<>>}
    BY <1>2 DEF Basic, TypeOK, ServerTypeOK
  <2>2. \A v \in Workers : cs'[v] \in live \cup {NULL}
    BY <2>1 DEF Sole, GoodCopies
  <2>3. ASSUME NEW v \in Workers, NEW i \in 1..Len(out'[v]), NEW c \in Clients, Keyed(c)
        PROVE  out'[v][i] = ClientKey[c]
    <3>1. CASE out'[v] = out[v]
      BY <2>3, <3>1 DEF Sole, GoodCopies
    <3>2. CASE out'[v] = <<>>
      BY <2>3, <3>2
    <3> QED
      BY <2>1, <3>1, <3>2
  <2> QED
    BY <2>2, <2>3 DEF GoodCopies
<1>6. DotUnderCallersKey'
  BY <1>1, <1>3 DEF Sole, GoodCopies, DotUnderCallersKey
<1> QED
  BY <1>4, <1>5, <1>6 DEF Sole

LEMMA SoleServer ==
    ASSUME OneKeyedClient, Basic, Bookkeeping, Complete, Sole,
           ServerNext, UNCHANGED clientVars
    PROVE  Sole'
<1> USE DEF Basic, TypeOK, ServerTypeOK
<1>1. ASSUME UNCHANGED <<phase, remoteCS, live, pc, cs, out, dispatched, replies>> PROVE Sole'
  BY <1>1 DEF Sole, OneInstall, GoodCopies, DotUnderCallersKey, clientVars
<1>2. ASSUME NEW w \in Workers, NEW r \in requests, Dispatch(w, r) PROVE Sole'
  <2>1. /\ UNCHANGED <<phase, remoteCS, live, cs, out>>
        /\ dispatched' = dispatched \cup {r} /\ r \notin dispatched
    BY <1>2 DEF Dispatch
  <2>2. GoodCopies'
    BY <2>1 DEF Sole, GoodCopies
  <2>3. CASE r.proc \notin procs
    <3> DEFINE p == [client |-> r.client, seq |-> r.seq, body |-> Error("NO_METHOD_ERROR")]
    <3>1. UNCHANGED pc /\ replies' = replies \cup {p} /\ p.body.kind # "vector"
      BY <1>2, <2>3 DEF Dispatch, AnswerTo, Error
    <3> QED
      BY <2>1, <2>2, <3>1 DEF Sole, OneInstall, DotUnderCallersKey, clientVars
  <2>4. CASE r.proc \in procs
    <3>1. pc' = [pc EXCEPT ![w] = FirstStep(r)] /\ UNCHANGED replies
      BY <1>2, <2>4 DEF Dispatch, Goto
    <3>2. /\ FirstStep(r) \notin {"delete", "assign"}
          /\ FirstStep(r) = "check" => Exchange(r) /\ Keyed(r.client)
      BY DEF FirstStep, Exchange
    <3>3. FirstStep(r) = "check" => remoteCS = NULL
      BY <2>1, <3>2 DEF Sole, OneInstall
    <3>4. OneInstall'
      BY <2>1, <3>1, <3>2, <3>3 DEF Sole, OneInstall, clientVars
    <3>5. DotUnderCallersKey'
      BY <3>1 DEF Sole, DotUnderCallersKey
    <3> QED
      BY <2>2, <3>4, <3>5 DEF Sole
  <2> QED
    BY <2>3, <2>4
<1>3. ASSUME NEW w \in Workers, CheckSlot(w) PROVE Sole'
  <2>1. pc' = [pc EXCEPT ![w] = "assign"]
    BY <1>3 DEF CheckSlot, At, Goto, Sole, OneInstall
  <2> QED
    BY <1>3, <2>1 DEF CheckSlot, At, Sole, OneInstall, GoodCopies, DotUnderCallersKey, clientVars
<1>4. ASSUME NEW w \in Workers, DeleteOld(w) PROVE FALSE
  BY <1>4 DEF DeleteOld, At, Sole, OneInstall
<1>5. ASSUME NEW w \in Workers, AssignNew(w) PROVE Sole'
  <2>1. /\ pc[w] = "assign" /\ pc' = [pc EXCEPT ![w] = "answer"]
        /\ remoteCS' = job[w].client /\ live' = live \cup {job[w].client}
        /\ UNCHANGED <<phase, job, cs, out, dispatched, replies>>
    BY <1>5 DEF AssignNew, At, Goto
  <2>2. /\ job[w] \in dispatched /\ job[w] \in requests /\ job[w] # NULL
        /\ Exchange(job[w]) /\ Keyed(job[w].client) /\ job[w].client \in Clients
    BY <2>1, JobType DEF Handlers, Exchange
  <2>3. \A v \in Workers : pc'[v] \in {"check", "assign"} => FALSE
    <3>1. ASSUME NEW v \in Workers, pc[v] \in {"check", "assign"} PROVE v = w
      <4>1. /\ job[v] \in requests /\ job[v] # NULL
            /\ Exchange(job[v]) /\ Keyed(job[v].client)
        BY <3>1, JobType DEF Handlers, Exchange
      <4>2. job[v] = job[w]
        BY <2>2, <4>1, OneExchange
      <4> QED
        BY <4>1, <4>2 DEF Bookkeeping, AnsweredOnce
    <3> QED
      BY <2>1, <3>1
  <2>4. client[job[w].client] # "new"
    <3>1. job[w].seq = 1 /\ job[w].seq <= sent[job[w].client]
      BY <2>2 DEF Complete, Exchanges, Bookkeeping, Numbered
    <3>2. sent[job[w].client] # 0
      BY <3>1
    <3> QED
      BY <2>2, <3>2 DEF Bookkeeping, Numbered
  <2>5. \A r \in requests : Exchange(r) /\ Keyed(r.client) => r \in dispatched
    BY <2>2, OneExchange
  <2>6. OneInstall'
    BY <2>1, <2>2, <2>3, <2>4, <2>5 DEF Sole, OneInstall, clientVars
  <2>7. GoodCopies' /\ DotUnderCallersKey'
    BY <2>1 DEF Sole, GoodCopies, DotUnderCallersKey
  <2> QED
    BY <2>6, <2>7 DEF Sole
<1>6. ASSUME NEW w \in Workers, AnswerKey(w) PROVE Sole'
  BY <1>6, FinishSole DEF AnswerKey, At
<1>7. ASSUME NEW w \in Workers, Unpack(w) PROVE Sole'
  <2>1. CASE ~job[w].typed
    BY <1>7, <2>1, FinishSole DEF Unpack, At, Error
  <2>2. CASE job[w].typed
    <3>1. /\ cs' = [cs EXCEPT ![w] = remoteCS] /\ pc' = [pc EXCEPT ![w] = "compute"]
          /\ UNCHANGED <<phase, remoteCS, live, out, dispatched, replies>>
      BY <1>7, <2>2 DEF Unpack, Bind, Goto
    <3> QED
      BY <3>1 DEF Sole, OneInstall, GoodCopies, DotUnderCallersKey, clientVars
  <2> QED
    BY <2>1, <2>2
<1>8. ASSUME NEW w \in Workers, ComputeElement(w) PROVE Sole'
  <2>1. /\ cs[w] \in live
        /\ UNCHANGED <<phase, remoteCS, live, pc, cs, dispatched, replies>>
    BY <1>8 DEF ComputeElement, Sole, GoodCopies
  <2>2. PICK k \in KeyRead(w) : out' = [out EXCEPT ![w] = Append(@, k)]
    BY <1>8, <2>1 DEF ComputeElement
  <2>3. k = ClientKey[cs[w]] /\ Keyed(cs[w])
    BY <2>1, <2>2 DEF KeyRead, LiveKeyed
  <2>4. \A c \in Clients : Keyed(c) => k = ClientKey[c]
    BY <2>1, <2>3 DEF OneKeyedClient
  <2>5. /\ out'[w] = Append(out[w], k) /\ out[w] \in Seq(Keys \cup {Garbage})
        /\ \A v \in Workers \ {w} : out'[v] = out[v]
    BY <2>2
  <2>6. k \in Keys \cup {Garbage}
    BY <2>1, <2>3, NetworkAssumption DEF Keyed
  <2>7. \A i \in 1..Len(out'[w]) :
           out'[w][i] = k \/ (i \in 1..Len(out[w]) /\ out'[w][i] = out[w][i])
    <3> DEFINE S == Keys \cup {Garbage}
    <3>1. out[w] \in Seq(S) /\ k \in S
      BY <2>5, <2>6
    <3> HIDE DEF S
    <3>2. /\ Len(Append(out[w], k)) = Len(out[w]) + 1 /\ Len(out[w]) \in Nat
          /\ \A i \in 1..Len(out[w]) : Append(out[w], k)[i] = out[w][i]
          /\ Append(out[w], k)[Len(out[w]) + 1] = k
      BY <3>1, AppendProperties
    <3>3. SUFFICES ASSUME NEW i \in 1..Len(out'[w])
                   PROVE  out'[w][i] = k \/ (i \in 1..Len(out[w]) /\ out'[w][i] = out[w][i])
      OBVIOUS
    <3>4. i = Len(out[w]) + 1 \/ i \in 1..Len(out[w])
      BY <2>5, <3>2
    <3> QED
      BY <2>5, <3>2, <3>4
  <2>8. ASSUME NEW v \in Workers, NEW i \in 1..Len(out'[v]), NEW c \in Clients, Keyed(c)
        PROVE  out'[v][i] = ClientKey[c]
    <3>1. CASE v = w
      BY <2>4, <2>7, <2>8, <3>1 DEF Sole, GoodCopies
    <3>2. CASE v # w
      BY <2>5, <2>8, <3>2 DEF Sole, GoodCopies
    <3> QED
      BY <3>1, <3>2
  <2>9. GoodCopies'
    BY <2>1, <2>8 DEF Sole, GoodCopies
  <2>10. OneInstall' /\ DotUnderCallersKey'
    BY <2>1 DEF Sole, OneInstall, DotUnderCallersKey, clientVars
  <2> QED
    BY <2>9, <2>10 DEF Sole
<1>9. ASSUME NEW w \in Workers, AnswerVector(w) PROVE Sole'
  BY <1>9, FinishSole DEF AnswerVector, At
<1>10. ASSUME NEW w \in Workers, Multiply(w) PROVE Sole'
  <2> DEFINE body == IF job[w].typed THEN [kind |-> "product"] ELSE Error("ARGUMENT_ERROR")
  <2>1. body.kind # "vector"
    BY DEF Error
  <2>2. /\ pc[w] # "idle" /\ Finish(w, body)
        /\ UNCHANGED <<phase, remoteCS, live, dispatched>>
    BY <1>10 DEF Multiply, At
  <2> HIDE DEF body
  <2> QED
    BY <2>1, <2>2, FinishSole
<1>11. ASSUME NEW p \in {Dot, Mult}, RegisterProc(p) PROVE Sole'
  BY <1>1, <1>11 DEF RegisterProc
<1>12. ASSUME Run PROVE Sole'
  BY <1>12 DEF Run, Sole, OneInstall, GoodCopies, DotUnderCallersKey, clientVars
<1>13. ASSUME NEW w \in Workers, Fail(w) PROVE Sole'
  BY <1>13, FinishSole DEF Fail, At, Error
<1> QED
  BY <1>2, <1>3, <1>4, <1>5, <1>6, <1>7, <1>8, <1>9, <1>10, <1>11, <1>12, <1>13
     DEF ServerNext, WorkerStep, Proceed

LEMMA SoleClient ==
    ASSUME OneKeyedClient, Basic, Sole, ClientNext, UNCHANGED serverVars
    PROVE  Sole'
<1> USE DEF Basic, TypeOK, ClientTypeOK, ServerTypeOK
<1>1. GoodCopies' /\ DotUnderCallersKey'
  BY DEF Sole, GoodCopies, DotUnderCallersKey, serverVars
<1>2. ASSUME \A c \in Clients : client[c] # "new" => client'[c] # "new",
             \A r \in requests' \ requests :
                 Exchange(r) /\ Keyed(r.client) => remoteCS = NULL
      PROVE  Sole'
  BY <1>1, <1>2 DEF Sole, OneInstall, serverVars
<1>3. ASSUME NEW c \in Clients, Construct(c) PROVE Sole'
  <2>1. Keyed(c) => remoteCS = NULL
    BY <1>3 DEF Construct, Sole, OneInstall, LiveKeyed, OneKeyedClient
  <2>2. \A r \in requests' \ requests : r.client = c
    BY <1>3 DEF Construct, Send
  <2>3. \A d \in Clients : client[d] # "new" => client'[d] # "new"
    BY <1>3 DEF Construct, Become
  <2> QED
    BY <1>2, <2>1, <2>2, <2>3
<1>4. ASSUME NEW c \in Clients, NEW k \in Calls, MakeCall(c, k) PROVE Sole'
  <2>1. ~(k.proc = Xchg /\ k.typed)
    BY NetworkAssumption
  <2>2. \A r \in requests' \ requests : ~Exchange(r)
    BY <1>4, <2>1 DEF MakeCall, Send, Exchange
  <2> QED
    BY <1>2, <1>4, <2>1, <2>2 DEF MakeCall
<1>5. ASSUME NEW c \in Clients,
             \/ ClientReceives(c)
             \/ \E i \in 1..MaxReq : CallTimeout(c, i)
             \/ ConstructTimeout(c) \/ NewLocalCipher(c) \/ NewRemoteCipher(c)
      PROVE  Sole'
  BY <1>2, <1>5 DEF ClientReceives, Receive, FinishConstruct, ConstructThrows, CallTimeout,
                    ConstructTimeout, NewLocalCipher, NewRemoteCipher, Become
<1> QED
  BY <1>3, <1>4, <1>5 DEF ClientNext, ClientMoves

LEMMA SpecSole == ASSUME OneKeyedClient PROVE Spec => []Sole
<1>1. Init => Sole
  BY DEF Init, ServerInit, ClientInit, Sole, OneInstall, GoodCopies, DotUnderCallersKey
<1>2. Basic /\ Bookkeeping /\ Complete /\ Sole /\ [Next]_vars => Sole'
  <2> SUFFICES ASSUME Basic, Bookkeeping, Complete, Sole, [Next]_vars PROVE Sole'
    OBVIOUS
  <2>1. CASE UNCHANGED vars
    BY <2>1 DEF vars, serverVars, clientVars, Sole, OneInstall, GoodCopies, DotUnderCallersKey
  <2> QED
    BY <2>1, SoleServer, SoleClient DEF Next
<1> QED
  BY <1>1, <1>2, SpecBasic, SpecBookkeeping, SpecComplete, PTL DEF Spec

------------------------------------------------------------------------------
\* With one keyed client no thread touches a deleted cryptosystem and the
\* server survives.
THEOREM OneKeyNoUseAfterDelete == ASSUME OneKeyedClient PROVE Spec => []NoUseAfterDelete
<1>1. Sole => NoUseAfterDelete
  BY DEF Sole, OneInstall, GoodCopies, NoUseAfterDelete
<1> QED
  BY <1>1, SpecSole, PTL

\* With one keyed client every element DOT returns to it is under its key.
THEOREM OneKeyDot == ASSUME OneKeyedClient PROVE Spec => []DotUnderCallersKey
<1>1. Sole => DotUnderCallersKey
  BY DEF Sole
<1> QED
  BY <1>1, SpecSole, PTL

\* With one keyed client, once its constructor returned, client and server
\* hold each other's keys.
THEOREM OneKeyAgreement == ASSUME OneKeyedClient PROVE Spec => []KeysAgree
<1>1. Basic /\ Complete /\ Learnt /\ Sole => KeysAgree
  <2> SUFFICES ASSUME Basic, Complete, Learnt, Sole, NEW c \in Clients, client[c] = "ready"
               PROVE  /\ serverCS[c] = ServerKey
                      /\ Keyed(c) => remoteCS \in live /\ ClientKey[remoteCS] = ClientKey[c]
    BY DEF KeysAgree
  <2>1. serverCS[c] = ServerKey
    BY DEF Learnt, ServerKeyLearnt
  <2>2. ASSUME Keyed(c) PROVE remoteCS \in live /\ remoteCS = c
    <3>1. remoteCS # NULL
      BY <2>2 DEF Complete, SlotAssigned
    <3>2. remoteCS \in live /\ remoteCS \in Clients
      BY <3>1 DEF Sole, OneInstall, Basic, TypeOK, ServerTypeOK
    <3> QED
      BY <2>2, <3>2 DEF Basic, LiveKeyed, OneKeyedClient
  <2> QED
    BY <2>1, <2>2
<1> QED
  BY <1>1, SpecBasic, SpecComplete, SpecLearnt, SpecSole, PTL

------------------------------------------------------------------------------
(* RPCSystem implements KeyedService for its one client with a key.          *)

LEMMA MeIs ==
    ASSUME MyService
    PROVE  /\ Me \in Clients /\ Keyed(Me)
           /\ \A c \in Clients : Keyed(c) => c = Me
           /\ ServerKey # NoKey
<1>1. Me \in Clients /\ Keyed(Me)
  BY DEF MyService, Me
<1>2. \A c \in Clients : Keyed(c) => c = Me
  BY <1>1 DEF MyService, OneKeyedClient
<1> QED
  BY <1>1, <1>2 DEF MyService

\* Nothing is answered before the procedures are all registered.
Registered ==
    /\ Xchg \in procs
    /\ phase = "setup" => replies = {} /\ \A w \in Workers : pc[w] = "idle"

\* A thread that has come this far into a handler has passed its tests.
Underway ==
    \A w \in Workers :
        /\ job[w] # NULL => job[w].proc \in procs
        /\ pc[w] = "multiply" => job[w].proc = Mult
        /\ pc[w] = "compute" => job[w].typed

\* Each reply to the client with the key is the one outcome of its request, or
\* the exception its procedure ended with.
RightAnswers ==
    \A p \in replies, r \in requests :
        IsReplyTo(p, r) /\ r.client = Me => p.body \in Service!Answers(r)

Outcomes == Registered /\ Underway /\ RightAnswers

\* A handler that ends with one of its request's answers keeps all three.
LEMMA FinishOutcomes ==
    ASSUME Basic, Bookkeeping, Outcomes, NEW w \in Workers, pc[w] # "idle",
           phase # "setup", NEW body, Finish(w, body),
           UNCHANGED <<phase, procs, clientVars>>,
           job[w].client = Me => body \in Service!Answers(job[w])
    PROVE  Outcomes'
<1> DEFINE p == [client |-> job[w].client, seq |-> job[w].seq, body |-> body]
<1>1. replies' = replies \cup {p} /\ UNCHANGED requests
  BY DEF Finish, AnswerTo, clientVars
<1>2. job[w] \in requests
  BY DEF Basic, Handlers, TypeOK, ServerTypeOK
<1>3. Registered'
  BY DEF Outcomes, Registered
<1>4. Underway'
  BY DEF Finish, Goto, Basic, TypeOK, ServerTypeOK, Outcomes, Underway
<1>5. \A r : Service!Answers(r)' = Service!Answers(r)
  BY DEF Service!Answers, Service!Outcome, Service!Exception
<1>6. ASSUME NEW q \in replies', NEW r \in requests, IsReplyTo(q, r), r.client = Me
      PROVE  q.body \in Service!Answers(r)
  <2>1. CASE q \in replies
    BY <1>6, <2>1 DEF Outcomes, RightAnswers
  <2>2. CASE q = p
    <3>1. r = job[w]
      BY <1>2, <1>6, <2>2 DEF IsReplyTo, Bookkeeping, Numbered
    <3> QED
      BY <1>6, <2>2, <3>1
  <2> QED
    BY <1>1, <2>1, <2>2
<1>7. RightAnswers'
  BY <1>1, <1>5, <1>6 DEF RightAnswers, IsReplyTo
<1> QED
  BY <1>3, <1>4, <1>7 DEF Outcomes

LEMMA OutcomesServer ==
    ASSUME MyService, Basic, Bookkeeping, Complete, Sole, Outcomes, ServerNext, UNCHANGED clientVars
    PROVE  Outcomes'
<1> USE DEF Basic, TypeOK, ServerTypeOK
<1>1. UNCHANGED requests
  BY DEF clientVars
<1>2. ASSUME UNCHANGED <<phase, procs, replies, job>>,
             NEW w \in Workers, pc[w] # "idle", pc'[w] # "multiply",
             \A v \in Workers \ {w} : pc'[v] = pc[v],
             pc'[w] = "compute" => job[w].typed
      PROVE  Outcomes'
  <2>1. phase # "setup"
    BY <1>2 DEF Outcomes, Registered
  <2> QED
    BY <1>1, <1>2, <2>1 DEF Outcomes, Registered, Underway, RightAnswers, IsReplyTo,
                            Service!Answers, Service!Outcome, Service!Exception
<1>3. ASSUME NEW p \in {Dot, Mult}, RegisterProc(p) PROVE Outcomes'
  <2>1. /\ phase = "setup" /\ replies' = {} /\ procs \subseteq procs'
        /\ UNCHANGED <<phase, pc, job>>
    BY <1>3 DEF RegisterProc, Outcomes, Registered
  <2>2. Registered' /\ RightAnswers'
    BY <2>1 DEF Outcomes, Registered, RightAnswers
  <2>3. Underway'
    BY <2>1 DEF Outcomes, Underway
  <2> QED
    BY <2>2, <2>3 DEF Outcomes
<1>4. ASSUME Run PROVE Outcomes'
  BY <1>1, <1>4 DEF Run, Outcomes, Registered, Underway, RightAnswers, IsReplyTo,
                    Service!Answers, Service!Outcome, Service!Exception
<1>5. ASSUME NEW w \in Workers, NEW r \in requests, Dispatch(w, r) PROVE Outcomes'
  <2>1. phase = "running" /\ UNCHANGED <<phase, procs>>
    BY <1>5 DEF Dispatch, At
  <2>2. Registered'
    BY <2>1 DEF Outcomes, Registered
  <2>3. CASE r.proc \notin procs
    <3> DEFINE p == [client |-> r.client, seq |-> r.seq, body |-> Error("NO_METHOD_ERROR")]
    <3>1. UNCHANGED <<pc, job>> /\ replies' = replies \cup {p}
      BY <1>5, <2>3 DEF Dispatch, AnswerTo
    <3>2. Error("NO_METHOD_ERROR") \in Service!Answers(r)
      BY <2>3 DEF Service!Answers, Service!Outcome, Error
    <3>3. \A s \in requests : IsReplyTo(p, s) => s = r
      BY DEF IsReplyTo, Bookkeeping, Numbered
    <3>4. \A q \in replies', s \in requests :
             IsReplyTo(q, s) /\ s.client = Me => q.body \in Service!Answers(s)
      BY <3>1, <3>2, <3>3 DEF Outcomes, RightAnswers
    <3>5. RightAnswers'
      BY <1>1, <2>1, <3>4 DEF RightAnswers, IsReplyTo, Service!Answers, Service!Outcome,
                              Service!Exception
    <3>6. Underway'
      BY <2>1, <3>1 DEF Outcomes, Underway
    <3> QED
      BY <2>2, <3>5, <3>6 DEF Outcomes
  <2>4. CASE r.proc \in procs
    <3>1. job' = [job EXCEPT ![w] = r] /\ pc' = [pc EXCEPT ![w] = FirstStep(r)]
          /\ UNCHANGED replies
      BY <1>5, <2>4 DEF Dispatch, Goto
    <3>2. FirstStep(r) # "compute" /\ (FirstStep(r) = "multiply" => r.proc = Mult)
      BY <2>4 DEF FirstStep
    <3>3. Underway'
      BY <2>1, <2>4, <3>1, <3>2 DEF Outcomes, Underway
    <3>4. RightAnswers'
      BY <1>1, <2>1, <3>1 DEF Outcomes, RightAnswers, IsReplyTo, Service!Answers,
                              Service!Outcome, Service!Exception
    <3> QED
      BY <2>2, <3>3, <3>4 DEF Outcomes
  <2> QED
    BY <2>3, <2>4
<1>6. ASSUME NEW w \in Workers, CheckSlot(w) \/ AssignNew(w) PROVE Outcomes'
  BY <1>2, <1>6 DEF CheckSlot, AssignNew, At, Goto
<1>7. ASSUME NEW w \in Workers, DeleteOld(w) PROVE FALSE
  BY <1>7 DEF DeleteOld, At, Sole, OneInstall
<1>8. ASSUME NEW w \in Workers, ComputeElement(w) PROVE Outcomes'
  <2>1. UNCHANGED <<phase, procs, replies, job, pc>> /\ pc[w] = "compute"
    BY <1>8 DEF ComputeElement, At, Sole, GoodCopies
  <2> QED
    BY <1>2, <2>1 DEF Outcomes, Underway
<1>9. ASSUME NEW w \in Workers, AnswerKey(w) PROVE Outcomes'
  <2>1. job[w].proc = Xchg /\ Xchg \in procs
    BY <1>9 DEF AnswerKey, At, Handlers, Outcomes, Registered
  <2>2. Service!Outcome(job[w]) = [kind |-> "key", key |-> ServerKey]
    BY <2>1 DEF Service!Outcome, Xchg
  <2> QED
    BY <1>9, <2>2, FinishOutcomes DEF AnswerKey, At, Service!Answers
<1>10. ASSUME NEW w \in Workers, Unpack(w) PROVE Outcomes'
  <2>1. CASE ~job[w].typed
    <3>1. job[w].proc = Dot /\ job[w].proc \in procs
      BY <1>10 DEF Unpack, At, Handlers, Outcomes, Underway
    <3>2. Service!Outcome(job[w]) = Error("ARGUMENT_ERROR")
      BY <2>1, <3>1 DEF Service!Outcome, Error, Dot
    <3> QED
      BY <1>10, <2>1, <3>2, FinishOutcomes DEF Unpack, At, Service!Answers
  <2>2. CASE job[w].typed
    BY <1>2, <1>10, <2>2 DEF Unpack, At, Goto
  <2> QED
    BY <2>1, <2>2
<1>11. ASSUME NEW w \in Workers, AnswerVector(w) PROVE Outcomes'
  <2>1. /\ pc[w] = "compute" /\ phase = "running"
        /\ job[w].proc = Dot /\ job[w].proc \in procs /\ job[w].typed
    BY <1>11 DEF AnswerVector, At, Handlers, Outcomes, Underway
  <2>2. ASSUME job[w].client = Me
        PROVE  out[w] = [i \in 1..job[w].len |-> ClientKey[Me]]
    <3>1. Len(out[w]) = job[w].len /\ out[w] \in Seq(Keys \cup {Garbage})
      BY <1>11, <2>1, <2>2, MeIs
         DEF AnswerVector, Complete, PartOfVector
    <3>2. \A i \in 1..Len(out[w]) : out[w][i] = ClientKey[Me]
      BY MeIs DEF Sole, GoodCopies
    <3>3. out[w] = [i \in 1..Len(out[w]) |-> out[w][i]]
      BY <3>1
    <3> QED
      BY <3>1, <3>2, <3>3
  <2>3. Service!Outcome(job[w]) =
            [kind |-> "vector", keys |-> [i \in 1..job[w].len |-> ClientKey[Me]]]
    BY <2>1 DEF Service!Outcome, Dot
  <2> QED
    BY <1>11, <2>1, <2>2, <2>3, FinishOutcomes DEF AnswerVector, Service!Answers
<1>12. ASSUME NEW w \in Workers, Multiply(w) PROVE Outcomes'
  <2> DEFINE body == IF job[w].typed THEN [kind |-> "product"] ELSE Error("ARGUMENT_ERROR")
  <2>1. /\ pc[w] # "idle" /\ phase = "running" /\ Finish(w, body)
        /\ UNCHANGED <<phase, procs>>
        /\ job[w].proc = Mult /\ job[w].proc \in procs
    BY <1>12 DEF Multiply, At, Outcomes, Underway, Handlers
  <2>2. body \in Service!Answers(job[w])
    BY <2>1 DEF Service!Answers, Service!Outcome, Error, Mult
  <2> HIDE DEF body
  <2> QED
    BY <2>1, <2>2, FinishOutcomes
<1>13. ASSUME NEW w \in Workers, Fail(w) PROVE Outcomes'
  <2>1. pc[w] # "idle" /\ phase = "running"
    BY <1>13 DEF Fail, At
  <2>2. job[w].proc \in procs
    BY <2>1 DEF Handlers, Outcomes, Underway
  <2>3. Error("EXCEPTION") \in Service!Answers(job[w])
    BY <2>2 DEF Service!Answers, Service!Exception, Error
  <2> QED
    BY <1>13, <2>1, <2>3, FinishOutcomes DEF Fail
<1> QED
  BY <1>3, <1>4, <1>5, <1>6, <1>7, <1>8, <1>9, <1>10, <1>11, <1>12, <1>13
     DEF ServerNext, WorkerStep, Proceed

LEMMA OutcomesClient ==
    ASSUME Basic, Bookkeeping, Outcomes, ClientNext, UNCHANGED serverVars
    PROVE  Outcomes'
<1>1. UNCHANGED <<phase, procs, replies, job, pc>>
  BY DEF serverVars
<1>2. ASSUME NEW r \in requests', r \notin requests, NEW p \in replies PROVE ~IsReplyTo(p, r)
  <2>1. PICK c \in Clients : r.client = c /\ r.seq = sent[c] + 1
    BY <1>2 DEF ClientNext, ClientReceives, ClientMoves, FinishConstruct, Receive, Construct,
                ConstructThrows, ConstructTimeout, NewLocalCipher, NewRemoteCipher, MakeCall, CallTimeout, Send
  <2>2. PICK s \in requests : IsReplyTo(p, s)
    BY DEF Bookkeeping, Solicited, Basic, TypeOK, ServerTypeOK
  <2>3. s.seq <= sent[s.client] /\ s.seq \in 1..MaxReq /\ sent[c] \in 0..MaxReq
    BY DEF Bookkeeping, Numbered, Basic, TypeOK, NetworkTypeOK, ClientTypeOK, Request
  <2> QED
    BY <2>1, <2>2, <2>3, NetworkAssumption DEF IsReplyTo
<1>3. Registered' /\ Underway'
  BY <1>1 DEF Outcomes, Registered, Underway
<1>4. RightAnswers'
  BY <1>1, <1>2 DEF Outcomes, RightAnswers, IsReplyTo, Service!Answers, Service!Outcome,
                    Service!Exception
<1> QED
  BY <1>3, <1>4 DEF Outcomes

LEMMA SpecOutcomes == ASSUME MyService PROVE Spec => []Outcomes
<1>1. Init => Outcomes
  BY ServerAssumption DEF Init, ServerInit, Outcomes, Registered, Underway, RightAnswers
<1>2. Basic /\ Bookkeeping /\ Complete /\ Sole /\ Outcomes /\ [Next]_vars => Outcomes'
  <2> SUFFICES ASSUME Basic, Bookkeeping, Complete, Sole, Outcomes, [Next]_vars PROVE Outcomes'
    OBVIOUS
  <2>1. CASE UNCHANGED vars
    BY <2>1 DEF vars, serverVars, clientVars, Outcomes, Registered, Underway, RightAnswers,
                IsReplyTo, Service!Answers, Service!Outcome, Service!Exception
  <2> QED
    BY <2>1, OutcomesServer, OutcomesClient DEF Next
<1>3. Spec => []Sole
  BY SpecSole DEF MyService
<1> QED
  BY <1>1, <1>2, <1>3, SpecBasic, SpecBookkeeping, SpecComplete, PTL DEF Spec

------------------------------------------------------------------------------
(* Every step is a step of the service, or hidden from the client's owner. *)

Hidden == UNCHANGED <<phase, procs, client[Me], serverCS[Me], requests, future[Me]>>

LEMMA HiddenStep == Hidden => UNCHANGED Service!vars
BY DEF Hidden, Service!vars, MyRequests

\* Setting the server up is visible; what its threads do is not.
LEMMA ServerImplements ==
    ASSUME Sole, Sole', ServerNext, UNCHANGED clientVars
    PROVE  [Service!Next]_(Service!vars)
<1>1. UNCHANGED <<client, serverCS, requests, future, MyRequests>>
  BY DEF clientVars, MyRequests
<1>2. ASSUME NEW p \in {Dot, Mult}, RegisterProc(p) PROVE Service!Next
  <2>1. Service!Offer(p)
    BY <1>1, <1>2 DEF RegisterProc, Service!Offer
  <2> QED
    BY <2>1 DEF Service!Next, Dot, Mult
<1>3. ASSUME Run PROVE Service!Next
  <2>1. Service!Open
    BY <1>1, <1>3 DEF Run, Service!Open
  <2> QED
    BY <2>1 DEF Service!Next
<1>4. ASSUME NEW w \in Workers, WorkerStep(w) PROVE Hidden
  <2>1. UNCHANGED procs /\ (UNCHANGED phase \/ phase' = "crashed")
    BY <1>4 DEF WorkerStep, Proceed, Dispatch, CheckSlot, DeleteOld, AssignNew, AnswerKey, Unpack,
                ComputeElement, AnswerVector, Multiply, Fail
  <2>2. phase' # "crashed"
    BY DEF Sole, OneInstall
  <2> QED
    BY <1>1, <2>1, <2>2 DEF Hidden
<1> QED
  BY <1>2, <1>3, <1>4, HiddenStep DEF ServerNext

\* A call the client sends is a call of the service.
LEMMA SendAsks ==
    ASSUME MyService, Basic, Bookkeeping, NEW proc, NEW len, NEW typed, Send(Me, proc, len, typed),
           UNCHANGED <<serverVars, serverCS>>
    PROVE  /\ sent[Me] + 1 \in 1..MaxReq
           /\ Service!Ask(sent[Me] + 1, proc, len, typed)
<1> DEFINE i == sent[Me] + 1
           new == [client |-> Me, seq |-> i, proc |-> proc, len |-> len, typed |-> typed]
<1> USE MeIs
<1>1. sent[Me] \in 0..MaxReq /\ sent[Me] < MaxReq
  BY DEF Basic, TypeOK, ClientTypeOK, Send
<1>2. i \in 1..MaxReq
  BY <1>1, NetworkAssumption
<1>3. \A r \in MyRequests : r.seq < i
  <2>1. \A r \in MyRequests : r.seq <= sent[Me] /\ r.seq \in Nat
    BY DEF MyRequests, Bookkeeping, Numbered, Basic, TypeOK, NetworkTypeOK, Request
  <2> QED
    BY <1>1, <2>1
<1>4. requests' = requests \cup {new}
  BY DEF Send
<1>5. MyRequests' = MyRequests \cup {new}
  BY <1>4 DEF MyRequests
<1>6. future[Me]' = [future[Me] EXCEPT ![i] = [kind |-> "waiting"]]
  BY DEF Send, Resolve, Basic, TypeOK, ClientTypeOK
<1>7. UNCHANGED <<phase = "running", procs, serverCS[Me]>>
  BY DEF serverVars
<1> QED
  BY <1>2, <1>3, <1>5, <1>6, <1>7 DEF Service!Ask

\* What the client with the key does is what the service allows.
LEMMA MineImplements ==
    ASSUME MyService, Basic, Bookkeeping, Complete, Learnt, Sole, Outcomes,
           ClientReceives(Me) \/ ClientMoves(Me), UNCHANGED serverVars
    PROVE  [Service!Next]_(Service!vars)
<1> USE MeIs DEF Basic, TypeOK, ClientTypeOK
<1>1. UNCHANGED <<phase, procs, replies>>
  BY DEF serverVars
<1>2. 1 \in 1..MaxReq
  BY NetworkAssumption
<1>3. \A p \in replies : p.client = Me =>
          /\ phase = "running"
          /\ \E r \in MyRequests : IsReplyTo(p, r) /\ p.body \in Service!Answers(r)
  <2>1. ASSUME NEW p \in replies, p.client = Me
        PROVE  \E r \in MyRequests : IsReplyTo(p, r) /\ p.body \in Service!Answers(r)
    <3>1. PICK r \in requests : IsReplyTo(p, r)
      BY DEF Bookkeeping, Solicited, ServerTypeOK
    <3>2. r.client = Me
      BY <2>1, <3>1 DEF IsReplyTo
    <3> QED
      BY <3>1, <3>2 DEF MyRequests, Outcomes, RightAnswers
  <2>2. \A p \in replies : phase = "running"
    BY DEF Outcomes, Registered, ServerTypeOK, Sole, OneInstall
  <2> QED
    BY <2>1, <2>2
<1>4. CASE Construct(Me)
  <2>1. client[Me] = "new" /\ client'[Me] = "exchanging" /\ sent[Me] = 0
    BY <1>4 DEF Construct, Become, Bookkeeping, Numbered
  <2>2. Service!Ask(sent[Me] + 1, Xchg, 0, TRUE)
    BY <1>4, SendAsks, Zenon DEF Construct
  <2>3. sent[Me] + 1 = 1
    BY <2>1
  <2>4. Service!Connect
    BY <2>1, <2>2, <2>3 DEF Service!Connect, Xchg
  <2> QED
    BY <2>4 DEF Service!Next
<1>5. CASE FinishConstruct(Me)
  <2>1. PICK p \in replies :
            /\ p.client = Me /\ p.body.kind = "key"
            /\ serverCS' = [serverCS EXCEPT ![Me] = p.body.key]
            /\ Resolve(Me, 1, p.body)
    BY <1>5 DEF FinishConstruct
  <2>2. PICK r \in MyRequests : p.body \in Service!Answers(r)
    BY <1>3, <2>1
  <2>3. p.body = [kind |-> "key", key |-> ServerKey]
    BY <2>1, <2>2 DEF Service!Answers, Service!Outcome, Service!Exception
  <2>4. Service!Connected
    <3>1. /\ client[Me] = "exchanging" /\ client'[Me] = "ready" /\ UNCHANGED requests
      BY <1>5 DEF FinishConstruct, Become
    <3>2. /\ serverCS'[Me] = ServerKey
          /\ future[Me]' = [future[Me] EXCEPT ![1] = [kind |-> "key", key |-> ServerKey]]
      BY <1>2, <2>1, <2>3 DEF Resolve
    <3> QED
      BY <1>1, <1>3, <2>1, <3>1, <3>2 DEF Service!Connected, MyRequests
  <2> QED
    BY <2>4 DEF Service!Next
<1>6. CASE ConstructTimeout(Me)
  <2>1. Service!ConnectFails
    BY <1>1, <1>2, <1>6
       DEF ConstructTimeout, Become, Resolve, Service!ConnectFails, MyRequests
  <2> QED
    BY <2>1 DEF Service!Next
<1>7. CASE NewLocalCipher(Me) \/ NewRemoteCipher(Me)
  <2>1. UNCHANGED <<serverCS, future, requests>> /\ client'[Me] = client[Me]
    BY <1>7 DEF NewLocalCipher, NewRemoteCipher, Become, Learnt, ServerKeyLearnt
  <2> QED
    BY <1>1, <2>1, HiddenStep DEF Hidden
<1>8. ASSUME NEW k \in Calls, MakeCall(Me, k) PROVE Service!Next
  <2>1. /\ client[Me] = "ready" /\ UNCHANGED <<client, serverCS>>
        /\ Send(Me, k.proc, k.len, k.typed)
    BY <1>8 DEF MakeCall
  <2>2. /\ sent[Me] + 1 \in 1..MaxReq
        /\ Service!Ask(sent[Me] + 1, k.proc, k.len, k.typed)
    BY <2>1, SendAsks
  <2>3. Service!Invoke(sent[Me] + 1, k)
    BY <2>1, <2>2 DEF Service!Invoke
  <2> QED
    BY <2>2, <2>3 DEF Service!Next
<1>9. ASSUME NEW i \in 1..MaxReq, Receive(Me, i) PROVE Service!Next
  <2>1. PICK p \in replies :
            /\ p.client = Me /\ p.seq = i
            /\ Resolve(Me, i, p.body) /\ UNCHANGED client
    BY <1>9 DEF Receive
  <2>2. PICK r \in MyRequests : IsReplyTo(p, r) /\ p.body \in Service!Answers(r)
    BY <1>3, <2>1
  <2>3. future[Me]' = [future[Me] EXCEPT ![i] = p.body]
    BY <2>1 DEF Resolve
  <2>4. /\ client[Me] = "ready" /\ future[Me][i].kind = "waiting"
        /\ UNCHANGED <<serverCS, requests>>
    BY <1>9 DEF Receive
  <2>5. r.seq = i /\ phase = "running"
    BY <1>3, <2>1, <2>2 DEF IsReplyTo
  <2>6. Service!Answered(r)
    BY <1>1, <2>1, <2>2, <2>3, <2>4, <2>5 DEF Service!Answered, MyRequests
  <2> QED
    BY <2>6 DEF Service!Next
<1>10. ASSUME NEW i \in 1..MaxReq, CallTimeout(Me, i) PROVE Service!Next
  <2>1. Service!TimedOut(i)
    BY <1>1, <1>10 DEF CallTimeout, Resolve, Service!TimedOut, MyRequests
  <2> QED
    BY <2>1 DEF Service!Next
<1>11. CASE ConstructThrows(Me)
  <2>1. PICK p \in replies :
            /\ p.client = Me /\ p.seq = 1
            /\ p.body.kind = "error" \/ p.body.kind = "key"
            /\ Resolve(Me, 1, p.body)
    BY <1>11 DEF ConstructThrows
  <2>2. PICK r \in MyRequests : IsReplyTo(p, r) /\ p.body \in Service!Answers(r)
    BY <1>3, <2>1
  <2>3. r.proc = Xchg /\ Xchg \in procs
    BY <2>1, <2>2 DEF MyRequests, IsReplyTo, Complete, Exchanges, Exchange, Outcomes,
                      Registered
  <2>4. p.body \in {[kind |-> "key", key |-> ServerKey], Service!Exception}
    BY <2>2, <2>3 DEF Service!Answers, Service!Outcome, Xchg
  <2>5. /\ client[Me] = "exchanging" /\ client'[Me] = "failed"
        /\ UNCHANGED <<serverCS, requests>>
    BY <1>11 DEF ConstructThrows, Become
  <2>6. future[Me]' = [future[Me] EXCEPT ![1] = p.body]
    BY <1>2, <2>1 DEF Resolve
  <2>7. Service!ConnectFails
    BY <1>1, <1>3, <2>1, <2>4, <2>5, <2>6 DEF Service!ConnectFails, MyRequests
  <2> QED
    BY <2>7 DEF Service!Next
<1> QED
  BY <1>4, <1>5, <1>6, <1>7, <1>8, <1>9, <1>10, <1>11 DEF ClientReceives, ClientMoves

\* The other clients are hidden from it.
LEMMA OthersHidden ==
    ASSUME MyService, Basic, NEW c \in Clients \ {Me}, ClientReceives(c) \/ ClientMoves(c),
           UNCHANGED serverVars
    PROVE  UNCHANGED Service!vars
<1> USE MeIs DEF Basic, TypeOK, ClientTypeOK
<1>1. UNCHANGED <<phase, procs>>
  BY DEF serverVars
<1>2. UNCHANGED <<client[Me], serverCS[Me], future[Me]>>
  BY DEF ClientReceives, ClientMoves, FinishConstruct, ConstructThrows, Receive, Construct,
         ConstructTimeout, NewLocalCipher, NewRemoteCipher, MakeCall, CallTimeout, Send, Become,
         Resolve
<1>3. requests \subseteq requests' /\ \A r \in requests' \ requests : r.client = c
  BY DEF ClientReceives, ClientMoves, FinishConstruct, ConstructThrows, Receive, Construct,
         ConstructTimeout, NewLocalCipher, NewRemoteCipher, MakeCall, CallTimeout, Send
<1>4. UNCHANGED MyRequests
  BY <1>3 DEF MyRequests
<1> QED
  BY <1>1, <1>2, <1>4 DEF Service!vars

\* A client with the only key, of a server with a key, is given KeyedService:
\* for any other clients, calls, threads and interleavings of them.
THEOREM KeyedServiceImplemented ==
    ASSUME MyService PROVE Spec => ImplementsKeyedService
<1> DEFINE Inv == Basic /\ Bookkeeping /\ Complete /\ Learnt /\ Sole /\ Outcomes
<1>1. Init => Service!Init
  BY MeIs
     DEF Init, ServerInit, ClientInit, Service!Init, MyRequests, Xchg
<1>2. Inv /\ Inv' /\ [Next]_vars => [Service!Next]_(Service!vars)
  <2> SUFFICES ASSUME Inv, Sole', [Next]_vars PROVE [Service!Next]_(Service!vars)
    OBVIOUS
  <2>1. CASE UNCHANGED vars
    BY <2>1, HiddenStep DEF vars, serverVars, clientVars, Hidden
  <2>2. CASE ServerNext /\ UNCHANGED clientVars
    BY <2>2, ServerImplements
  <2>3. ASSUME NEW c \in Clients, ClientReceives(c) \/ ClientMoves(c), UNCHANGED serverVars
        PROVE  [Service!Next]_(Service!vars)
    <3>1. CASE c = Me
      BY <2>3, <3>1, MineImplements
    <3>2. CASE c # Me
      BY <2>3, <3>2, OthersHidden
    <3> QED
      BY <3>1, <3>2
  <2> QED
    BY <2>1, <2>2, <2>3 DEF Next, ClientNext
<1>3. Spec => []Inv
  <2>1. Spec => []Sole
    BY SpecSole DEF MyService
  <2> QED
    BY <2>1, SpecBasic, SpecBookkeeping, SpecComplete, SpecLearnt, SpecOutcomes, PTL
<1> HIDE DEF Inv
<1> QED
  BY <1>1, <1>2, <1>3, PTL DEF Spec, ImplementsKeyedService, Service!Spec
==============================================================================
