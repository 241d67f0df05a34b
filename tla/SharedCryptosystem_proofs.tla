----------------------- MODULE SharedCryptosystem_proofs -----------------------
(***************************************************************************)
(* Theorems about SharedCryptosystem, for any number of threads and calls  *)
(* and any pool: filling the pool before other threads start makes         *)
(* recrypt() safe without a lock, and encryptions that do not overlap have *)
(* seeds of their own.                                                     *)
(***************************************************************************)
EXTENDS SharedCryptosystem, TLAPS

USE SharedAssumption DEF SharedAssumption

Filling(t) == pc[t] \in {"generate", "push"}

\* The buffer of the pool is never a freed one.
PoolLive ==
    /\ phase # "crashed"
    /\ vec.buf = 0 => vec.size = 0 /\ vec.cap = 0
    /\ vec.buf # 0 => vec.buf \in live

\* Only the main thread, alone, finds a pool that is not full.
WarmedAlone ==
    /\ phase = "warming" => \A t \in Threads : t # Main => pc[t] = "idle"
    /\ phase = "running" => vec.size = PoolSize
    /\ \A t \in Threads : Filling(t) =>
          phase = "warming" /\ i[t] < PoolSize /\ vec.size = i[t]
    /\ (\A t \in Threads : ~Filling(t)) => vec.size \in {0, PoolSize}

\* What a thread read of the pool is still so when it uses it.
SeenCurrent ==
    \A t \in Threads :
        /\ pc[t] = "push" => seen[t] = vec
        /\ pc[t] \in {"fetch", "multiply"} => seen[t].size = vec.size
        /\ pc[t] = "multiply" => seen[t].buf = vec.buf

PoolInv == PoolLive /\ WarmedAlone /\ WholePool /\ SeenCurrent

------------------------------------------------------------------------------
LEMMA InitType == Init => TypeOK
  <1>1. Init => raced \in BOOLEAN
    BY Zenon DEF Init
  <1> QED BY <1>1 DEF Init, TypeOK, Vector, Empty, PcValues

LEMMA TypeStep ==
    ASSUME TypeOK, [Next]_vars
    PROVE  TypeOK'
  <1> USE DEF TypeOK, PcValues
  <1>1. CASE UNCHANGED vars
    BY <1>1 DEF vars
  <1>2. CASE StartThreads
    BY <1>2 DEF StartThreads
  <1>3. ASSUME NEW t \in Threads, BeginEnc(t) \/ BeginRecrypt(t)
        PROVE  TypeOK'
    <2>1. /\ calls[t] < MaxCalls /\ calls' = [calls EXCEPT ![t] = @ + 1]
          /\ \E label \in PcValues : pc' = [pc EXCEPT ![t] = label]
          /\ UNCHANGED <<phase, vec, buffers, live, rng, seeds, i, seen, pos, raced>>
      BY <1>3 DEF BeginEnc, BeginRecrypt, Begin, Goto
    <2>2. calls' \in [Threads -> 0..MaxCalls]
      BY <2>1
    <2> QED BY <2>1, <2>2
  <1>4. ASSUME NEW t \in Threads,
               \/ Draw(t) \/ Advance(t) \/ Test(t) \/ Generate(t) \/ Choose(t)
               \/ Index(t) \/ Fetch(t) \/ Multiply(t) \/ PushInPlace(t)
        PROVE  TypeOK'
    <2>1. UNCHANGED <<buffers, live, calls>> /\ phase' \in {phase, "crashed"}
      BY <1>4 DEF Draw, Advance, Test, Generate, Choose, Index, Fetch,
         Multiply, PushInPlace, Crash
    <2>2. pc' \in [Threads -> PcValues] /\ i' \in [Threads -> Nat]
      BY <1>4 DEF Draw, Advance, Test, Generate, Choose, Index, Fetch,
         Multiply, PushInPlace,
         NextPush, Goto, Crash
    <2>3. vec' \in Vector /\ seen' \in [Threads -> Vector]
      BY <1>4 DEF Draw, Advance, Test, Generate, Choose, Index, Fetch,
         Multiply, PushInPlace, Crash, Vector
    <2>4. rng' \in Nat /\ pos' \in [Threads -> Nat] /\ seeds' \in [Threads -> SUBSET Nat]
      BY <1>4 DEF Draw, Advance, Test, Generate, Choose, Index, Fetch,
         Multiply, PushInPlace, Crash
    <2>5. raced' \in BOOLEAN
      <3>1. CASE Draw(t)
        BY <3>1, Zenon DEF Draw
      <3>2. CASE ~Draw(t)
        BY <1>4, <3>2 DEF Advance, Test, Generate, Choose, Index, Fetch, Multiply,
           PushInPlace, Crash
      <3> QED BY <3>1, <3>2
    <2> QED BY <2>1, <2>2, <2>3, <2>4, <2>5
  <1>5. ASSUME NEW t \in Threads, PushGrowing(t)
        PROVE  TypeOK'
    <2>1. CASE Crash(t)
      BY <2>1 DEF Crash
    <2>2. CASE /\ buffers' = buffers + 1
               /\ live' = (live \ {seen[t].buf}) \cup {buffers + 1}
               /\ vec' = [buf |-> buffers + 1, size |-> seen[t].size + 1,
                          cap |-> IF seen[t].cap = 0 THEN 1 ELSE 2 * seen[t].cap]
               /\ NextPush(t)
               /\ UNCHANGED <<phase, rng, seeds, seen, pos, calls, raced>>
      <3>1. vec' \in Vector
        BY <2>2 DEF Vector
      <3>2. 1..buffers \subseteq 1..(buffers + 1) /\ buffers + 1 \in 1..(buffers + 1)
        OBVIOUS
      <3>3. buffers' \in Nat /\ live' \subseteq 1..buffers'
        <4>1. live \subseteq 1..buffers /\ buffers \in Nat
          OBVIOUS
        <4>2. buffers' = buffers + 1 /\ live' \subseteq live \cup {buffers + 1}
          BY <2>2
        <4> HIDE DEF TypeOK
        <4>3. live' \subseteq 1..(buffers + 1)
          BY <3>2, <4>1, <4>2
        <4> QED BY <4>1, <4>2, <4>3
      <3>4. pc' \in [Threads -> PcValues] /\ i' \in [Threads -> Nat]
        BY <2>2 DEF NextPush, Goto
      <3> QED BY <2>2, <3>1, <3>3, <3>4
    <2> QED BY <1>5, <2>1, <2>2 DEF PushGrowing
  <1> QED BY <1>1, <1>2, <1>3, <1>4, <1>5 DEF Next, Step

\* Every variable has its type, warmed or not.
THEOREM SharedTypeCorrect == Spec => []TypeOK
  BY InitType, TypeStep, PTL DEF Spec

------------------------------------------------------------------------------
LEMMA InitPool == Init => PoolInv
  BY DEF Init, PoolInv, PoolLive, WarmedAlone, WholePool, SeenCurrent,
     Filling, Empty

\* A step of a thread needs that thread to be running: the main thread is
\* alone while the pool is warmed.
LEMMA Alone ==
    ASSUME PoolInv, NEW t \in Threads, NEW label, At(t, label)
    PROVE  /\ pc[t] = label
           /\ phase \in {"warming", "running"}
           /\ phase = "warming" => \A u \in Threads : u # t => pc[u] = "idle"
  BY DEF PoolInv, WarmedAlone, At

\* Inductive step for the actions of recrypt() that fill the pool.
LEMMA FillStep ==
    ASSUME TypeOK, TypeOK', PoolInv, NEW t \in Threads,
           Generate(t) \/ PushInPlace(t) \/ PushGrowing(t)
    PROVE  PoolInv'
  <1>1. PoolLive /\ WarmedAlone /\ WholePool /\ SeenCurrent
    BY DEF PoolInv
  <1>2. CASE Generate(t)
    <2>2. At(t, "generate") /\ pc' = [pc EXCEPT ![t] = "push"]
          /\ seen' = [seen EXCEPT ![t] = vec]
          /\ UNCHANGED <<phase, vec, live, i>>
      BY <1>2 DEF Generate, Goto
    <2>3. pc[t] = "generate"
      BY <2>2 DEF At
    <2>4. PoolLive'
      BY <1>1, <2>2 DEF PoolLive
    <2>5. WarmedAlone'
      BY <1>1, <2>2, <2>3 DEF WarmedAlone, Filling, TypeOK
    <2>6. WholePool' /\ SeenCurrent'
      BY <1>1, <2>2, <2>3 DEF WholePool, SeenCurrent, TypeOK
    <2> QED BY <2>4, <2>5, <2>6 DEF PoolInv
  <1>3. CASE PushInPlace(t) \/ PushGrowing(t)
    <2>1. pc[t] = "push" /\ phase = "warming" /\ t = Main /\ i[t] < PoolSize /\ vec.size = i[t]
          /\ seen[t] = vec /\ \A u \in Threads : u # t => pc[u] = "idle"
      BY <1>1, <1>3 DEF PushInPlace, PushGrowing, At, WarmedAlone, SeenCurrent, Filling
    <2>2. seen[t].buf = 0 \/ Touch(t)
      BY <1>1, <2>1 DEF PoolLive, Touch
    <2>3. seen[t].buf = 0 => seen[t].size = 0 /\ seen[t].cap = 0
      BY <1>1, <2>1 DEF PoolLive
    <2>4. /\ vec.size \in Nat /\ vec.cap \in Nat /\ vec.buf \in Nat
          /\ i[t] \in Nat /\ buffers \in Nat
      BY <1>1 DEF TypeOK, Vector
    <2>5. NextPush(t) /\ UNCHANGED <<phase, rng, seeds, seen, pos, calls>>
      BY <1>3, <2>2, <2>3, <2>4 DEF PushInPlace, PushGrowing
    <2>6. /\ vec' \in Vector
          /\ vec'.size = vec.size + 1
          /\ vec'.buf # 0 /\ vec'.buf \in live'
          /\ buffers' \in Nat /\ live' \subseteq 1..buffers'
      <3>1. CASE PushInPlace(t)
        <4>1. vec' = [vec EXCEPT !.size = seen[t].size + 1]
              /\ UNCHANGED <<buffers, live>> /\ seen[t].size < seen[t].cap
          BY <3>1, <2>2, <2>3, <2>4 DEF PushInPlace
        <4>2. vec.buf # 0 /\ vec.buf \in live
          BY <4>1, <2>1, <2>2, <2>3, <2>4 DEF Touch
        <4> QED BY <4>1, <4>2, <2>1, <1>1 DEF TypeOK, Vector
      <3>2. CASE PushGrowing(t)
        <4>1. /\ buffers' = buffers + 1
              /\ live' = (live \ {seen[t].buf}) \cup {buffers + 1}
              /\ vec' = [buf |-> buffers + 1, size |-> seen[t].size + 1,
                         cap |-> IF seen[t].cap = 0 THEN 1 ELSE 2 * seen[t].cap]
          BY <3>2, <2>2 DEF PushGrowing
        <4>2. live \subseteq 1..buffers
          BY <1>1 DEF TypeOK
        <4>3. vec' \in Vector /\ vec'.size = vec.size + 1 /\ vec'.buf = buffers + 1
          BY <4>1, <2>1, <2>4 DEF Vector
        <4>4. 1..buffers \subseteq 1..(buffers + 1) /\ buffers + 1 \in 1..(buffers + 1)
          BY <2>4
        <4>5. live' \subseteq 1..buffers'
          BY <4>1, <4>2, <4>4
        <4> QED BY <4>1, <4>3, <4>5, <2>4
      <3> QED BY <1>3, <3>1, <3>2
    <2>7. CASE i[t] + 1 < PoolSize
      <3>1. pc' = [pc EXCEPT ![t] = "generate"] /\ i' = [i EXCEPT ![t] = @ + 1]
        BY <2>5, <2>7 DEF NextPush, Goto
      <3>3. pc'[t] = "generate" /\ i'[t] = i[t] + 1
            /\ \A u \in Threads : u # t => pc'[u] = "idle"
        BY <1>1, <2>1, <3>1 DEF TypeOK
      <3>4. WarmedAlone'
        BY <2>1, <2>4, <2>5, <2>6, <2>7, <3>3 DEF WarmedAlone, Filling
      <3>5. WholePool' /\ SeenCurrent'
        BY <3>3 DEF WholePool, SeenCurrent
      <3>6. PoolLive'
        BY <1>1, <2>5, <2>6 DEF PoolLive
      <3> QED BY <3>4, <3>5, <3>6 DEF PoolInv
    <2>8. CASE ~(i[t] + 1 < PoolSize)
      <3>1. pc' = [pc EXCEPT ![t] = "choose"] /\ i' = [i EXCEPT ![t] = 0]
        BY <2>5, <2>8 DEF NextPush, Goto
      <3>3. pc'[t] = "choose" /\ vec'.size = PoolSize
            /\ \A u \in Threads : u # t => pc'[u] = "idle"
        BY <1>1, <2>1, <2>4, <2>6, <2>8, <3>1 DEF TypeOK
      <3>4. WarmedAlone'
        BY <2>1, <2>5, <3>3 DEF WarmedAlone, Filling
      <3>5. WholePool' /\ SeenCurrent'
        BY <3>3 DEF WholePool, SeenCurrent
      <3>6. PoolLive'
        BY <1>1, <2>5, <2>6 DEF PoolLive
      <3> QED BY <3>4, <3>5, <3>6 DEF PoolInv
    <2> QED BY <2>7, <2>8
  <1> QED BY <1>2, <1>3

\* The other steps leave the pool as it is: they change the place of one
\* thread, what it saw and how far its loop is.
LEMMA UseStep ==
    ASSUME TypeOK, TypeOK', PoolInv, NEW t \in Threads,
           \/ Test(t) \/ Choose(t) \/ Index(t) \/ Fetch(t) \/ Multiply(t)
           \/ BeginRecrypt(t)
    PROVE  PoolInv'
  <1>1. PoolLive /\ WarmedAlone /\ WholePool /\ SeenCurrent
    BY DEF PoolInv
  <1>2. CASE Test(t)
    <2>1. pc[t] = "test" /\ i' = [i EXCEPT ![t] = 0]
          /\ UNCHANGED <<phase, vec, buffers, live, rng, seeds, seen, pos, calls>>
      BY <1>2 DEF Test, At
    <2>2. phase = "warming" \/ phase = "running"
      BY <1>2 DEF Test, At
    <2>3. CASE vec.size < PoolSize
      <3>1. pc' = [pc EXCEPT ![t] = "generate"]
        BY <1>2, <2>3 DEF Test, Goto
      <3>2. phase = "warming"
        BY <1>1, <2>2, <2>3 DEF WarmedAlone
      <3>3. t = Main /\ \A u \in Threads : u # t => pc[u] = "idle"
        BY <1>1, <1>2, <3>2 DEF Test, At, WarmedAlone
      <3>4. vec.size = 0
        BY <1>1, <2>1, <2>3, <3>3 DEF WarmedAlone, Filling
      <3>6. pc'[t] = "generate" /\ i'[t] = 0
            /\ \A u \in Threads : u # t => pc'[u] = "idle"
        BY <1>1, <2>1, <3>1, <3>3 DEF TypeOK
      <3>7. WarmedAlone'
        BY <2>1, <3>2, <3>3, <3>4, <3>6 DEF WarmedAlone, Filling
      <3>8. PoolLive' /\ WholePool' /\ SeenCurrent'
        BY <1>1, <2>1, <3>6 DEF PoolLive, WholePool, SeenCurrent
      <3> QED BY <3>7, <3>8 DEF PoolInv
    <2>4. CASE ~(vec.size < PoolSize)
      <3>1. pc' = [pc EXCEPT ![t] = "choose"]
        BY <1>2, <2>4 DEF Test, Goto
      <3>3. vec.size \in Nat
        BY <1>1 DEF TypeOK, Vector
      <3>4. vec.size = PoolSize
        <4>1. CASE \A u \in Threads : ~Filling(u)
          BY <1>1, <2>4, <3>3, <4>1 DEF WarmedAlone
        <4>2. CASE \E u \in Threads : Filling(u)
          BY <1>1, <2>4, <3>3, <4>2 DEF WarmedAlone
        <4> QED BY <4>1, <4>2
      <3>5. WarmedAlone'
        BY <1>1, <1>2, <2>1, <3>1, <3>4 DEF WarmedAlone, Filling, TypeOK, Test, At
      <3>6. PoolLive' /\ WholePool' /\ SeenCurrent'
        BY <1>1, <2>1, <3>1, <3>4 DEF PoolLive, WholePool, SeenCurrent, TypeOK
      <3> QED BY <3>5, <3>6 DEF PoolInv
    <2> QED BY <2>3, <2>4
  <1>3. CASE Choose(t)
    <2>1. pc[t] = "choose" /\ At(t, "choose")
          /\ UNCHANGED <<phase, vec, live, i, seen>>
          /\ \E label \in {"index", "idle"} : pc' = [pc EXCEPT ![t] = label]
      BY <1>3 DEF Choose, At, Goto
    <2>3. vec.size = PoolSize
      BY <1>1, <2>1 DEF WholePool
    <2>4. WarmedAlone'
      BY <1>1, <2>1, <2>3 DEF WarmedAlone, Filling, TypeOK, At
    <2>5. PoolLive' /\ WholePool' /\ SeenCurrent'
      BY <1>1, <2>1, <2>3 DEF PoolLive, WholePool, SeenCurrent, TypeOK
    <2> QED BY <2>4, <2>5 DEF PoolInv
  <1>4. CASE Multiply(t)
    <2>1. pc[t] = "multiply" /\ At(t, "multiply")
      BY <1>4 DEF Multiply, At
    <2>2. vec.size = PoolSize /\ Touch(t)
      BY <1>1, <2>1 DEF WholePool, SeenCurrent, PoolLive, Touch
    <2>3. /\ i' = [i EXCEPT ![t] = @ + 1] /\ pc' = [pc EXCEPT ![t] = "choose"]
          /\ UNCHANGED <<phase, vec, buffers, live, rng, seeds, seen, pos, calls>>
      BY <1>4, <2>2 DEF Multiply, Goto
    <2>5. WarmedAlone'
      BY <1>1, <2>1, <2>2, <2>3 DEF WarmedAlone, Filling, TypeOK, At
    <2>6. PoolLive' /\ WholePool' /\ SeenCurrent'
      BY <1>1, <2>2, <2>3 DEF PoolLive, WholePool, SeenCurrent, TypeOK
    <2> QED BY <2>5, <2>6 DEF PoolInv
  <1>5. CASE BeginRecrypt(t)
    <2>1. pc[t] = "idle" /\ At(t, "idle") /\ pc' = [pc EXCEPT ![t] = "test"]
          /\ calls[t] < MaxCalls /\ calls' = [calls EXCEPT ![t] = @ + 1]
          /\ UNCHANGED <<phase, vec, buffers, live, rng, seeds, i, seen, pos>>
      BY <1>5 DEF BeginRecrypt, Begin, Goto, At
    <2>3. WarmedAlone'
      BY <1>1, <2>1 DEF WarmedAlone, Filling, TypeOK, At
    <2>4. PoolLive' /\ WholePool' /\ SeenCurrent'
      BY <1>1, <2>1 DEF PoolLive, WholePool, SeenCurrent, TypeOK
    <2> QED BY <2>3, <2>4 DEF PoolInv
  <1>6. CASE Index(t) \/ Fetch(t)
    <2>1. /\ pc[t] \in {"index", "fetch"} /\ phase \in {"warming", "running"}
          /\ phase = "warming" => t = Main
          /\ UNCHANGED <<phase, vec, live, i>>
          /\ \A u \in Threads : u # t => pc'[u] = pc[u] /\ seen'[u] = seen[u]
      BY <1>6 DEF Index, Fetch, At, Goto, TypeOK
    <2>2. vec.size = PoolSize
      BY <1>1, <2>1 DEF WholePool
    <2>3. /\ pc'[t] \in {"fetch", "multiply"} /\ seen'[t].size = PoolSize
          /\ pc'[t] = "multiply" => seen'[t].buf = vec.buf
      BY <1>1, <1>6, <2>2 DEF Index, Fetch, At, Goto, TypeOK, Vector, WholePool
    <2>4. WarmedAlone'
      BY <1>1, <2>1, <2>2, <2>3 DEF WarmedAlone, Filling
    <2>5. PoolLive' /\ WholePool' /\ SeenCurrent'
      BY <1>1, <2>1, <2>2, <2>3 DEF PoolLive, WholePool, SeenCurrent
    <2> QED BY <2>4, <2>5 DEF PoolInv
  <1> QED BY <1>2, <1>3, <1>4, <1>5, <1>6

LEMMA EncStep ==
    ASSUME TypeOK, TypeOK', PoolInv, NEW t \in Threads,
           BeginEnc(t) \/ Draw(t) \/ Advance(t)
    PROVE  PoolInv'
  <1>1. PoolLive /\ WarmedAlone /\ WholePool /\ SeenCurrent
    BY DEF PoolInv
  <1>2. /\ UNCHANGED <<phase, vec, live, i, seen>>
        /\ pc[t] \in {"idle", "draw", "advance"}
        /\ phase = "running" \/ (phase = "warming" /\ t = Main)
        /\ \E label \in {"idle", "draw", "advance"} : pc' = [pc EXCEPT ![t] = label]
    BY DEF BeginEnc, Begin, Draw, Advance, Goto, At
  <1>3. WarmedAlone'
    BY <1>1, <1>2 DEF WarmedAlone, Filling, TypeOK
  <1>4. PoolLive' /\ WholePool' /\ SeenCurrent'
    BY <1>1, <1>2 DEF PoolLive, WholePool, SeenCurrent, TypeOK
  <1> QED BY <1>3, <1>4 DEF PoolInv

LEMMA StartStep ==
    ASSUME TypeOK, PoolInv, WarmFirst, StartThreads
    PROVE  PoolInv'
  <1>1. PoolLive /\ WarmedAlone /\ WholePool /\ SeenCurrent
    BY DEF PoolInv
  <1>2. /\ pc[Main] = "idle" /\ phase = "warming" /\ vec.size > 0
        /\ phase' = "running"
        /\ UNCHANGED <<vec, live, pc, i, seen>>
    BY DEF StartThreads, At
  <1>3. vec.size = PoolSize /\ \A t \in Threads : ~Filling(t)
    BY <1>1, <1>2 DEF WarmedAlone, Filling
  <1>4. WarmedAlone'
    BY <1>2, <1>3 DEF WarmedAlone, Filling
  <1>5. PoolLive' /\ WholePool' /\ SeenCurrent'
    BY <1>1, <1>2 DEF PoolLive, WholePool, SeenCurrent
  <1> QED BY <1>4, <1>5 DEF PoolInv

LEMMA PoolStep ==
    ASSUME TypeOK, TypeOK', PoolInv, WarmFirst, [Next]_vars
    PROVE  PoolInv'
  <1>1. CASE UNCHANGED vars
    BY <1>1 DEF vars, PoolInv, PoolLive, WarmedAlone, WholePool, SeenCurrent, Filling
  <1>2. CASE StartThreads
    BY <1>2, StartStep
  <1>3. ASSUME NEW t \in Threads, Step(t)
        PROVE  PoolInv'
    BY <1>3, FillStep, UseStep, EncStep DEF Step
  <1> QED BY <1>1, <1>2, <1>3 DEF Next

LEMMA PoolSafe ==
    ASSUME PoolInv
    PROVE  NoFreedBuffer
  BY DEF PoolInv, PoolLive, WarmedAlone, WholePool, SeenCurrent, NoFreedBuffer, Touch, Filling

\* A pool filled before other threads start is never freed under a thread
\* that reads it, and kills nobody.
THEOREM WarmPoolNoFreedBuffer ==
    ASSUME WarmFirst
    PROVE  Spec => []NoFreedBuffer
  <1>1. Init => TypeOK /\ PoolInv
    BY InitType, InitPool
  <1>2. TypeOK /\ PoolInv /\ [Next]_vars => TypeOK' /\ PoolInv'
    BY TypeStep, PoolStep
  <1>3. PoolInv => NoFreedBuffer
    BY PoolSafe
  <1> QED BY <1>1, <1>2, <1>3, PTL DEF Spec

\* ... and every recryption chooses from all of it.
THEOREM WarmPoolWhole ==
    ASSUME WarmFirst
    PROVE  Spec => []WholePool
  <1>1. Init => TypeOK /\ PoolInv
    BY InitType, InitPool
  <1>2. TypeOK /\ PoolInv /\ [Next]_vars => TypeOK' /\ PoolInv'
    BY TypeStep, PoolStep
  <1>3. PoolInv => WholePool
    BY DEF PoolInv
  <1> QED BY <1>1, <1>2, <1>3, PTL DEF Spec

------------------------------------------------------------------------------
(* The generator. *)

\* While no two threads have been in the generator at once, one thread at most
\* is about to advance it, from where it stands, and every position used lies
\* before that.
GeneratorInv ==
    ~raced =>
        /\ \A t \in Threads : \A s \in seeds[t] : s < rng
        /\ \A t \in Threads : pc[t] = "advance" => pos[t] = rng
        /\ \A t, u \in Threads : pc[t] = "advance" /\ pc[u] = "advance" => t = u
        /\ \A t, u \in Threads : t # u => seeds[t] \cap seeds[u] = {}

LEMMA InitGenerator == Init => GeneratorInv
  BY DEF Init, GeneratorInv

LEMMA DrawStep ==
    ASSUME TypeOK, GeneratorInv, NEW t \in Threads, Draw(t)
    PROVE  GeneratorInv'
  <1>1. /\ pos' = [pos EXCEPT ![t] = rng] /\ pc' = [pc EXCEPT ![t] = "advance"]
        /\ raced' = (raced \/ \E u \in Threads \ {t} : pc[u] = "advance")
        /\ UNCHANGED <<rng, seeds>>
    BY DEF Draw, Goto
  <1>2. SUFFICES ASSUME ~raced' PROVE GeneratorInv'
    BY DEF GeneratorInv
  <1>3. ~raced /\ \A u \in Threads : u # t => pc[u] # "advance"
    BY <1>1, <1>2
  <1>4. pos'[t] = rng /\ \A u \in Threads : pc'[u] = "advance" => u = t
    BY <1>1, <1>3 DEF TypeOK
  <1> QED BY <1>1, <1>3, <1>4 DEF GeneratorInv

LEMMA AdvanceStep ==
    ASSUME TypeOK, GeneratorInv, NEW t \in Threads, Advance(t)
    PROVE  GeneratorInv'
  <1>1. /\ pc[t] = "advance" /\ rng' = pos[t] + 1
        /\ seeds' = [seeds EXCEPT ![t] = @ \cup {pos[t]}]
        /\ pc' = [pc EXCEPT ![t] = "idle"] /\ UNCHANGED <<pos, raced>>
    BY DEF Advance, At, Goto
  <1>2. SUFFICES ASSUME ~raced PROVE GeneratorInv'
    BY <1>1 DEF GeneratorInv
  <1>3. pos[t] = rng /\ rng \in Nat /\ rng' = rng + 1
    BY <1>1, <1>2 DEF GeneratorInv, TypeOK
  <1>4. \A u \in Threads : seeds[u] \subseteq Nat /\ \A s \in seeds[u] : s < rng
    BY <1>2 DEF GeneratorInv, TypeOK
  <1>5. /\ seeds'[t] = seeds[t] \cup {rng}
        /\ \A u \in Threads : u # t => seeds'[u] = seeds[u]
    BY <1>1, <1>3 DEF TypeOK
  <1>6. \A u \in Threads : \A s \in seeds'[u] : s < rng'
    BY <1>3, <1>4, <1>5
  <1>7. \A u \in Threads : rng \notin seeds[u]
    BY <1>3, <1>4
  <1>8. \A u, v \in Threads : u # v => seeds'[u] \cap seeds'[v] = {}
    BY <1>2, <1>5, <1>7 DEF GeneratorInv
  <1>9. \A u \in Threads : pc'[u] # "advance"
    BY <1>1, <1>2 DEF GeneratorInv, TypeOK
  <1> QED BY <1>6, <1>8, <1>9 DEF GeneratorInv

LEMMA GeneratorStep ==
    ASSUME TypeOK, GeneratorInv, [Next]_vars
    PROVE  GeneratorInv'
  <1>1. CASE UNCHANGED vars
    BY <1>1 DEF vars, GeneratorInv
  <1>2. CASE StartThreads
    BY <1>2 DEF StartThreads, GeneratorInv
  <1>3. ASSUME NEW t \in Threads,
               \/ BeginEnc(t)
               \/ BeginRecrypt(t) \/ Test(t) \/ Generate(t) \/ Choose(t) \/ Index(t) \/ Fetch(t)
               \/ Multiply(t) \/ PushInPlace(t) \/ PushGrowing(t)
        PROVE  GeneratorInv'
    <2>1. /\ UNCHANGED <<rng, seeds, pos, raced>>
          /\ pc' = pc \/ \E label \in PcValues \ {"advance"} : pc' = [pc EXCEPT ![t] = label]
      BY <1>3 DEF BeginEnc, BeginRecrypt, Begin, Test, Generate, Choose, Index, Fetch, Multiply,
         PushInPlace, PushGrowing, NextPush, Crash, Goto, PcValues
    <2> QED BY <2>1 DEF GeneratorInv, TypeOK
  <1> QED BY <1>1, <1>2, <1>3, DrawStep, AdvanceStep DEF Next, Step

LEMMA GeneratorSafe ==
    ASSUME TypeOK, GeneratorInv
    PROVE  DistinctUnlessRaced
  BY DEF GeneratorInv, TypeOK, DistinctUnlessRaced, SeedsDistinct

\* Whatever threads encrypt and however often, a seed is used twice only after
\* two of them were in the generator at once.
THEOREM SeedsDistinctUnlessRaced == Spec => []DistinctUnlessRaced
  <1>1. Init => TypeOK /\ GeneratorInv
    BY InitType, InitGenerator
  <1>2. TypeOK /\ GeneratorInv /\ [Next]_vars => TypeOK' /\ GeneratorInv'
    BY TypeStep, GeneratorStep
  <1>3. TypeOK /\ GeneratorInv => DistinctUnlessRaced
    BY GeneratorSafe
  <1> QED BY <1>1, <1>2, <1>3, PTL DEF Spec
==============================================================================
