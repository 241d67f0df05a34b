------------------------------ MODULE RPCServer ------------------------------
(***************************************************************************)
(* RPCServer<CryptosystemType>: the procedure table, the one _remoteCS     *)
(* slot every procedure shares, and the dispatch threads that run the      *)
(* procedures XCHANGE_KEYS, DOT and * concurrently and without a lock.     *)
(* An action is one access to the shared slot, or to the object it points  *)
(* to, together with the thread-local work around it.                      *)
(*                                                                         *)
(* A PublicKeyCSType object is named by the client whose key exchange      *)
(* allocated it (a client's constructor exchanges keys once).  The         *)
(* outcome of touching a deleted object is undefined: the process dies, or *)
(* the thread goes on with whatever it reads.                              *)
(***************************************************************************)
EXTENDS Network

CONSTANTS
    Workers,      \* the dispatch threads: _server.run(2)
    NULL

ASSUME ServerAssumption == NULL \notin Clients \cup Request

VARIABLES
    phase,        \* of the server process: "setup", "running" or "crashed"
    procs,        \* names in _procs
    remoteCS,     \* _remoteCS: the object pointed to, or NULL
    live,         \* objects allocated and not deleted
    pc,           \* pc[w]: where thread w is in dispatch()
    job,          \* job[w]: the request thread w runs, NULL when idle
    cs,           \* cs[w]: the pointer thread w last read from _remoteCS
    out,          \* out[w]: keys of the elements DOT has computed so far
    dispatched    \* requests handed to dispatch()

serverVars == <<phase, procs, remoteCS, live, pc, job, cs, out, dispatched, replies>>

PcValues == {"idle", "check", "delete", "assign", "answer",
             "unpack", "compute", "multiply"}

ServerTypeOK ==
    /\ phase \in {"setup", "running", "crashed"}
    /\ procs \subseteq {Xchg, Dot, Mult}
    /\ remoteCS \in Clients \cup {NULL}
    /\ live \subseteq Clients
    /\ pc \in [Workers -> PcValues]
    /\ job \in [Workers -> Request \cup {NULL}]
    /\ cs \in [Workers -> Clients \cup {NULL}]
    /\ out \in [Workers -> Seq(Keys \cup {Garbage})]
    /\ dispatched \subseteq requests

\* The constructor listens and registers the key exchange; a request that
\* arrives before run() waits.
ServerInit ==
    /\ phase = "setup"
    /\ procs = {Xchg}
    /\ remoteCS = NULL
    /\ live = {}
    /\ pc = [w \in Workers |-> "idle"]
    /\ job = [w \in Workers |-> NULL]
    /\ cs = [w \in Workers |-> NULL]
    /\ out = [w \in Workers |-> <<>>]
    /\ dispatched = {}
    /\ replies = {}

RegisterProc(p) ==
    /\ phase = "setup"
    /\ procs' = procs \cup {p}
    /\ UNCHANGED <<phase, remoteCS, live, pc, job, cs, out, dispatched, replies>>

Run ==
    /\ phase = "setup"
    /\ phase' = "running"
    /\ UNCHANGED <<procs, remoteCS, live, pc, job, cs, out, dispatched, replies>>

------------------------------------------------------------------------------
AnswerTo(r, body) ==
    replies' = replies \cup {[client |-> r.client, seq |-> r.seq, body |-> body]}

Error(code) == [kind |-> "error", code |-> code]

At(w, label) == phase = "running" /\ pc[w] = label

Goto(w, label) == pc' = [pc EXCEPT ![w] = label]

\* A handler ends: it answers its request and the thread is free again.
Finish(w, body) ==
    /\ AnswerTo(job[w], body)
    /\ Goto(w, "idle")
    /\ job' = [job EXCEPT ![w] = NULL]
    /\ cs' = [cs EXCEPT ![w] = NULL]
    /\ out' = [out EXCEPT ![w] = <<>>]

\* Mutant: an empty key is installed like any other.
FirstStep_anyKey(r) ==
    CASE r.proc = Xchg -> "check"
      [] r.proc = Dot  -> "unpack"
      [] OTHER         -> "multiply"

\* The first access run() makes, which an empty key skips.
FirstStep(r) ==
    CASE r.proc = Xchg -> IF r.typed /\ Keyed(r.client) THEN "check" ELSE "answer"
      [] r.proc = Dot  -> "unpack"
      [] OTHER         -> "multiply"

\* dispatch(): look the procedure up in _procs and run it, or answer that
\* there is none.
Dispatch(w, r) ==
    /\ At(w, "idle")
    /\ r \in requests \ dispatched
    /\ dispatched' = dispatched \cup {r}
    /\ \/ /\ r.proc \notin procs
          /\ AnswerTo(r, Error("NO_METHOD_ERROR"))
          /\ UNCHANGED <<pc, job>>
       \/ /\ r.proc \in procs
          /\ job' = [job EXCEPT ![w] = r]
          /\ Goto(w, FirstStep(r))
          /\ UNCHANGED replies
    /\ UNCHANGED <<phase, procs, remoteCS, live, cs, out>>

\* The third catch clause of dispatch(): wherever a handler allocates or
\* builds a cryptosystem, whose random_device may fail, an exception ends it
\* and its text is the answer.  What the handler did before stays done.
Fail(w) ==
    /\ \E label \in PcValues \ {"idle", "delete"} : At(w, label)
    /\ Finish(w, Error("EXCEPTION"))
    /\ UNCHANGED <<phase, procs, remoteCS, live, dispatched>>

------------------------------------------------------------------------------
\* ProcExchangePublicKeys::run

\* if(*remoteCS != NULL)
CheckSlot(w) ==
    /\ At(w, "check")
    /\ Goto(w, IF remoteCS # NULL THEN "delete" ELSE "assign")
    /\ cs' = [cs EXCEPT ![w] = remoteCS]
    /\ UNCHANGED <<phase, procs, remoteCS, live, job, out, dispatched, replies>>

\* Mutant: the slot is cleared after the delete.
DeleteOld_clearsSlot(w) ==
    /\ At(w, "delete")
    /\ live' = live \ {remoteCS}
    /\ remoteCS' = NULL
    /\ Goto(w, "assign")
    /\ UNCHANGED <<phase, procs, job, cs, out, dispatched, replies>>

\* Mutant: what follows the delete is skipped, and the key sent all the same.
DeleteOld_noNew(w) ==
    /\ At(w, "delete")
    /\ live' = live \ {remoteCS}
    /\ Goto(w, "answer")
    /\ UNCHANGED <<phase, procs, remoteCS, job, cs, out, dispatched, replies>>

\* delete *remoteCS -- the slot keeps its value.  The build may read it
\* again or use the pointer the test read: no lock orders the two.
DeleteOld(w) ==
    /\ At(w, "delete")
    /\ \E old \in {remoteCS, cs[w]} :
        \/ /\ live' = live \ {old}
           /\ Goto(w, "assign")
           /\ UNCHANGED phase
        \/ /\ old \notin live             \* deleted twice
           /\ phase' = "crashed"
           /\ UNCHANGED <<live, pc>>
    /\ UNCHANGED <<procs, remoteCS, job, cs, out, dispatched, replies>>

\* *remoteCS = new PublicKeyCSType(...), if it does not throw: see Fail.
AssignNew(w) ==
    /\ At(w, "assign")
    /\ remoteCS' = job[w].client
    /\ live' = live \cup {job[w].client}
    /\ Goto(w, "answer")
    /\ UNCHANGED <<phase, procs, job, cs, out, dispatched, replies>>

\* Mutant: only a client that sent a key is answered.
AnswerKey_keyedOnly(w) ==
    /\ At(w, "answer")
    /\ Keyed(job[w].client)
    /\ Finish(w, [kind |-> "key", key |-> ServerKey])
    /\ UNCHANGED <<phase, procs, remoteCS, live, dispatched>>

\* req.result(localPublicKey)
AnswerKey(w) ==
    /\ At(w, "answer")
    /\ Finish(w, [kind |-> "key", key |-> ServerKey])
    /\ UNCHANGED <<phase, procs, remoteCS, live, dispatched>>

------------------------------------------------------------------------------
\* ProcInnerProduct::run

\* CipherUnpackerTransform copies the pointer out of the slot, and every
\* cipher of the vector is bound to the copy.
Bind(w) == cs' = [cs EXCEPT ![w] = remoteCS]

\* Mutant: the conversion error is swallowed, as in the key exchange.
Unpack_silent(w) ==
    /\ At(w, "unpack")
    /\ \/ /\ ~job[w].typed
          /\ Goto(w, "idle")
          /\ job' = [job EXCEPT ![w] = NULL]
          /\ UNCHANGED cs
       \/ /\ job[w].typed
          /\ Bind(w)
          /\ Goto(w, "compute")
          /\ UNCHANGED job
    /\ UNCHANGED <<phase, procs, remoteCS, live, out, dispatched, replies>>

\* unpack<vector<RemoteCipher>>: the parameters are converted, then the
\* transform binds them.
Unpack(w) ==
    /\ At(w, "unpack")
    /\ \/ /\ ~job[w].typed
          /\ Finish(w, Error("ARGUMENT_ERROR"))
       \/ /\ job[w].typed
          /\ Bind(w)
          /\ Goto(w, "compute")
          /\ UNCHANGED <<job, out, replies>>
    /\ UNCHANGED <<phase, procs, remoteCS, live, dispatched>>

\* Mutant: the ciphers are bound to the server's own cryptosystem.
KeyRead_local(w) == {ServerKey}

\* The modulus a thread reads through its copy of the pointer.
KeyRead(w) == IF cs[w] \in live THEN {ClientKey[cs[w]]} ELSE Keys \cup {Garbage}

\* One v[i] += v[i], through the cryptosystem the cipher was bound to.
ComputeElement(w) ==
    /\ At(w, "compute")
    /\ cs[w] # NULL
    /\ Len(out[w]) < job[w].len
    /\ \/ /\ \E k \in KeyRead(w) : out' = [out EXCEPT ![w] = Append(@, k)]
          /\ UNCHANGED phase
       \/ /\ cs[w] \notin live             \* read after delete
          /\ phase' = "crashed"
          /\ UNCHANGED out
    /\ UNCHANGED <<procs, remoteCS, live, pc, job, cs, dispatched, replies>>

\* Mutant: waits for every element, which a NULL copy never computes.
AnswerVector_allElements(w) ==
    /\ At(w, "compute")
    /\ Len(out[w]) = job[w].len
    /\ Finish(w, [kind |-> "vector", keys |-> out[w]])
    /\ UNCHANGED <<phase, procs, remoteCS, live, dispatched>>

\* packResult(req, v); with a NULL copy nothing was unpacked and v is empty.
AnswerVector(w) ==
    /\ At(w, "compute")
    /\ cs[w] = NULL \/ Len(out[w]) = job[w].len
    /\ Finish(w, [kind |-> "vector", keys |-> out[w]])
    /\ UNCHANGED <<phase, procs, remoteCS, live, dispatched>>

\* ProcObliviousMult::run -- decrypts and encrypts with localCS alone.
Multiply(w) ==
    /\ At(w, "multiply")
    /\ Finish(w, IF job[w].typed THEN [kind |-> "product"]
                                 ELSE Error("ARGUMENT_ERROR"))
    /\ UNCHANGED <<phase, procs, remoteCS, live, dispatched>>

------------------------------------------------------------------------------
\* A dispatch thread goes on with the request it has, or takes one.
Proceed(w) ==
    \/ \E r \in requests : Dispatch(w, r)
    \/ CheckSlot(w) \/ DeleteOld(w) \/ AssignNew(w) \/ AnswerKey(w)
    \/ Unpack(w) \/ ComputeElement(w) \/ AnswerVector(w)
    \/ Multiply(w)

WorkerStep(w) == Proceed(w) \/ Fail(w)

ServerNext ==
    \/ \E p \in {Dot, Mult} : RegisterProc(p)
    \/ Run
    \/ \E w \in Workers : WorkerStep(w)
==============================================================================
