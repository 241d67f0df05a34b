-------------------------- MODULE SharedCryptosystem --------------------------
(***************************************************************************)
(* One PaillierCryptosystem object and the threads that encrypt and        *)
(* recrypt with it.  They share its generator boostRNG and its pool        *)
(* randomVals, a std::vector that recrypt() fills the first time it is     *)
(* called, and take no lock.  An action is one access to what they share.  *)
(*                                                                         *)
(* The program has a main thread, which uses the object alone until it     *)
(* starts the others.  The outcome of touching a freed buffer is           *)
(* undefined: the process dies, or goes on.                                *)
(***************************************************************************)
EXTENDS Naturals

CONSTANTS
    Threads, Main,
    Encrypting,   \* the threads that call enc() or subFrom()
    WarmFirst,    \* the main thread recrypts before it starts the others
    PoolSize,     \* RECRYPT_POOL_SIZE
    ChooseSize,   \* RECRYPT_CHOOSE_SIZE
    MaxCalls      \* bound: calls a thread makes

ASSUME SharedAssumption ==
    /\ Main \in Threads
    /\ Encrypting \subseteq Threads
    /\ WarmFirst \in BOOLEAN
    /\ PoolSize \in Nat /\ PoolSize > 0
    /\ ChooseSize \in Nat
    /\ MaxCalls \in Nat

VARIABLES
    phase,        \* "warming": only Main runs; then "running", or "crashed"
    vec,          \* randomVals: its buffer (0 for none), size and capacity
    buffers,      \* buffers ever allocated, numbered from 1
    live,         \* buffers not freed
    rng,          \* position of boostRNG in its stream of numbers
    seeds,        \* seeds[t]: the positions t's encryptions were seeded from
    pc,           \* pc[t]: the access thread t makes next
    i,            \* i[t]: the loop counter of t's recrypt()
    seen,         \* seen[t]: the fields of randomVals as t last read them
    pos,          \* pos[t]: the position of boostRNG t last read
    raced,        \* two threads have been in the generator at once
    calls         \* calls[t]: calls t has begun

vars == <<phase, vec, buffers, live, rng, seeds, pc, i, seen, pos, raced, calls>>

Vector == [buf : Nat, size : Nat, cap : Nat]

Empty == [buf |-> 0, size |-> 0, cap |-> 0]

PcValues == {"idle", "draw", "advance", "test", "generate", "push",
             "choose", "index", "fetch", "multiply"}

TypeOK ==
    /\ phase \in {"warming", "running", "crashed"}
    /\ vec \in Vector
    /\ buffers \in Nat
    /\ live \subseteq 1..buffers
    /\ rng \in Nat
    /\ seeds \in [Threads -> SUBSET Nat]
    /\ pc \in [Threads -> PcValues]
    /\ i \in [Threads -> Nat]
    /\ seen \in [Threads -> Vector]
    /\ pos \in [Threads -> Nat]
    /\ raced \in BOOLEAN
    /\ calls \in [Threads -> 0..MaxCalls]

Init ==
    /\ phase = "warming"
    /\ vec = Empty
    /\ buffers = 0
    /\ live = {}
    /\ rng = 0
    /\ seeds = [t \in Threads |-> {}]
    /\ pc = [t \in Threads |-> "idle"]
    /\ i = [t \in Threads |-> 0]
    /\ seen = [t \in Threads |-> Empty]
    /\ pos = [t \in Threads |-> 0]
    /\ raced = FALSE
    /\ calls = [t \in Threads |-> 0]

------------------------------------------------------------------------------
At(t, label) ==
    /\ phase = "running" \/ (phase = "warming" /\ t = Main)
    /\ pc[t] = label

Goto(t, label) == pc' = [pc EXCEPT ![t] = label]

Begin(t, label) ==
    /\ At(t, "idle")
    /\ calls[t] < MaxCalls
    /\ calls' = [calls EXCEPT ![t] = @ + 1]
    /\ Goto(t, label)

\* The main thread starts the others between two calls of its own.
StartThreads ==
    /\ At(Main, "idle")
    /\ phase = "warming"
    /\ WarmFirst => vec.size > 0
    /\ phase' = "running"
    /\ UNCHANGED <<vec, buffers, live, rng, seeds, pc, i, seen, pos, calls, raced>>

------------------------------------------------------------------------------
(* enc(), subFrom(): init_rand() takes a seed from boostRNG. *)

BeginEnc(t) ==
    /\ t \in Encrypting
    /\ Begin(t, "draw")
    /\ UNCHANGED <<phase, vec, buffers, live, rng, seeds, i, seen, pos, raced>>

\* The generator's position is read ...
Draw(t) ==
    /\ At(t, "draw")
    /\ pos' = [pos EXCEPT ![t] = rng]
    /\ raced' = (raced \/ \E u \in Threads \ {t} : pc[u] = "advance")
    /\ Goto(t, "advance")
    /\ UNCHANGED <<phase, vec, buffers, live, rng, seeds, i, seen, calls>>

\* Mutant: the generator passed to enc is a copy.
Advance_copy(t) ==
    /\ At(t, "advance")
    /\ seeds' = [seeds EXCEPT ![t] = @ \cup {pos[t]}]
    /\ Goto(t, "idle")
    /\ UNCHANGED <<phase, vec, buffers, live, rng, i, seen, pos, calls, raced>>

\* ... and moved past the numbers used.
Advance(t) ==
    /\ At(t, "advance")
    /\ rng' = pos[t] + 1
    /\ seeds' = [seeds EXCEPT ![t] = @ \cup {pos[t]}]
    /\ Goto(t, "idle")
    /\ UNCHANGED <<phase, vec, buffers, live, i, seen, pos, calls, raced>>

------------------------------------------------------------------------------
(* recrypt() *)

BeginRecrypt(t) ==
    /\ Begin(t, "test")
    /\ UNCHANGED <<phase, vec, buffers, live, rng, seeds, i, seen, pos, raced>>

\* Mutant: the test is off by one.
Test_orEqual(t) ==
    /\ At(t, "test")
    /\ Goto(t, IF vec.size <= PoolSize THEN "generate" ELSE "choose")
    /\ i' = [i EXCEPT ![t] = 0]
    /\ UNCHANGED <<phase, vec, buffers, live, rng, seeds, seen, pos, calls, raced>>

\* if(randomVals.size() < RECRYPT_POOL_SIZE)
Test(t) ==
    /\ At(t, "test")
    /\ Goto(t, IF vec.size < PoolSize THEN "generate" ELSE "choose")
    /\ i' = [i EXCEPT ![t] = 0]
    /\ UNCHANGED <<phase, vec, buffers, live, rng, seeds, seen, pos, calls, raced>>

\* The power is computed from gmpRandState, and push_back reads the vector.
Generate(t) ==
    /\ At(t, "generate")
    /\ seen' = [seen EXCEPT ![t] = vec]
    /\ Goto(t, "push")
    /\ UNCHANGED <<phase, vec, buffers, live, rng, seeds, i, pos, calls, raced>>

\* Mutant: the loop stops one element early.
NextPush_short(t) ==
    IF i[t] + 2 < PoolSize
    THEN Goto(t, "generate") /\ i' = [i EXCEPT ![t] = @ + 1]
    ELSE Goto(t, "choose") /\ i' = [i EXCEPT ![t] = 0]

\* for(int i = 0; i < RECRYPT_POOL_SIZE; i++), then the loop that chooses.
NextPush(t) ==
    IF i[t] + 1 < PoolSize
    THEN Goto(t, "generate") /\ i' = [i EXCEPT ![t] = @ + 1]
    ELSE Goto(t, "choose") /\ i' = [i EXCEPT ![t] = 0]

\* What was read may be out of date: the buffer touched is the one seen.
Touch(t) == seen[t].buf \in live

Crash(t) ==
    /\ phase' = "crashed"
    /\ UNCHANGED <<vec, buffers, live, rng, seeds, pc, i, seen, pos, calls, raced>>

\* push_back with room: construct the element, move the end.
PushInPlace(t) ==
    /\ At(t, "push")
    /\ seen[t].size < seen[t].cap
    /\ \/ /\ vec' = [vec EXCEPT !.size = seen[t].size + 1]
          /\ NextPush(t)
          /\ UNCHANGED <<phase, buffers, live, rng, seeds, seen, pos, calls, raced>>
       \/ ~Touch(t) /\ Crash(t)

\* push_back without: a buffer of twice the size, the elements moved over,
\* the old buffer freed.
PushGrowing(t) ==
    /\ At(t, "push")
    /\ seen[t].size >= seen[t].cap
    /\ \/ /\ buffers' = buffers + 1
          /\ live' = (live \ {seen[t].buf}) \cup {buffers + 1}
          /\ vec' = [buf |-> buffers + 1, size |-> seen[t].size + 1,
                     cap |-> IF seen[t].cap = 0 THEN 1 ELSE 2 * seen[t].cap]
          /\ NextPush(t)
          /\ UNCHANGED <<phase, rng, seeds, seen, pos, calls, raced>>
       \/ seen[t].buf # 0 /\ ~Touch(t) /\ Crash(t)

\* for(int i = 0; i < RECRYPT_CHOOSE_SIZE && i < randomVals.size(); i++): when
\* the loop ends, recrypt() returns.
Choose(t) ==
    /\ At(t, "choose")
    /\ Goto(t, IF i[t] < ChooseSize /\ i[t] < vec.size THEN "index" ELSE "idle")
    /\ UNCHANGED <<phase, vec, buffers, live, rng, seeds, i, seen, pos, calls, raced>>

\* rand() % randomVals.size(): some index below the size read here.
Index(t) ==
    /\ At(t, "index")
    /\ seen' = [seen EXCEPT ![t].size = vec.size]
    /\ Goto(t, "fetch")
    /\ UNCHANGED <<phase, vec, buffers, live, rng, seeds, i, pos, calls, raced>>

\* randomVals[randIdx]: the address of the element, in the buffer of now.
Fetch(t) ==
    /\ At(t, "fetch")
    /\ seen' = [seen EXCEPT ![t].buf = vec.buf]
    /\ Goto(t, "multiply")
    /\ UNCHANGED <<phase, vec, buffers, live, rng, seeds, i, pos, calls, raced>>

\* mpz_mul reads the element.
Multiply(t) ==
    /\ At(t, "multiply")
    /\ \/ /\ i' = [i EXCEPT ![t] = @ + 1]
          /\ Goto(t, "choose")
          /\ UNCHANGED <<phase, vec, buffers, live, rng, seeds, seen, pos, calls, raced>>
       \/ ~Touch(t) /\ Crash(t)

------------------------------------------------------------------------------
Step(t) ==
    \/ BeginEnc(t) \/ Draw(t) \/ Advance(t)
    \/ BeginRecrypt(t) \/ Test(t) \/ Generate(t)
    \/ PushInPlace(t) \/ PushGrowing(t)
    \/ Choose(t) \/ Index(t) \/ Fetch(t) \/ Multiply(t)

Next == StartThreads \/ \E t \in Threads : Step(t)

Spec == Init /\ [][Next]_vars

------------------------------------------------------------------------------
(* Properties. *)

\* No thread reads, writes or frees a buffer of the pool that another one has
\* freed while growing it, and none kills the process.
NoFreedBuffer ==
    /\ phase # "crashed"
    /\ \A t \in Threads :
          /\ pc[t] = "multiply" => Touch(t)
          /\ pc[t] = "push" => Touch(t) \/ seen[t].buf = 0

\* recrypt() chooses among all powers of a full pool, which is filled once
\* however many calls and threads find it: no push_back is lost or repeated,
\* and the index drawn is one of that pool.
WholePool ==
    \A t \in Threads :
        /\ pc[t] \in {"choose", "index", "fetch", "multiply"} => vec.size = PoolSize
        /\ pc[t] \in {"fetch", "multiply"} => seen[t].size = PoolSize

\* Each encryption gets random bytes of its own: no two, of one thread or of
\* several, are seeded from the same numbers of the generator.
SeedsDistinct ==
    /\ \A t \in Threads : \A s \in seeds[t] : s < rng
    /\ \A t \in Threads : pc[t] = "advance" => pos[t] \notin UNION {seeds[u] : u \in Threads}
    /\ \A t, u \in Threads : t # u => seeds[t] \cap seeds[u] = {}

\* A seed is used again only after two threads were in the generator at the
\* same time: encryptions on several threads that a caller keeps apart, by any
\* means and in any order, have seeds of their own.
DistinctUnlessRaced == ~raced => SeedsDistinct
==============================================================================
