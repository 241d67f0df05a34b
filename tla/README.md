# A TLA+ model of PPFramework

PPFramework is a header-only C++ library for computing on encrypted numbers: a
Paillier cryptosystem under C++ operators, and an RPC client and server that
exchange public keys and run procedures on ciphertexts. This directory models
it in TLA+, model-checks the models with TLC on small instances, and proves
what matters most with TLAPS for every instance.

## 1. The system

| Component (src/PPFramework) | State | Operations | What makes it correct |
|---|---|---|---|
| `RPCServer.hpp` | `_procs`, `_localCS`, one `_remoteCS` slot | constructor, `registerProc`, `run` (two threads), `dispatch` | every request is answered once, by a result or an error; the slot points to a live cryptosystem |
| `ProcExchangePublicKeys.hpp` | writes `*remoteCS` | `run`: test, delete, assign, answer | the slot dangles only inside the exchange (or for good, once the new object throws); both sides end with each other's keys |
| `ProcInnerProduct.hpp` | the request's vector | `run`: unpack, `v[i] += v[i]`, pack | the answer has the length sent, under the sender's key, computed with a live cryptosystem |
| `ProcObliviousMult.hpp` | none | `run`: decrypt, multiply, encrypt | answers, or an argument error |
| `Procedure.hpp`, `PackingUtils.hpp` | `localCS`, pointer to the slot | `unpack`, transforms, `packResult` | ciphers are bound to the right cryptosystem, and all of them are |
| `RPCClient.hpp` | `localCS`, `remoteCS`, futures | two constructors, `call`, getters, `newLocalCipher`, `newRemoteCipher` | no cryptosystem is dereferenced that was not set; calls come back |
| `LibPaillier/paillier.c` | keys | keygen, enc, dec, mul, exp, codecs, random sources | a generated key decrypts what it encrypts; generation ends; mul and exp are addition and multiplication below; codecs are round trips |
| `PaillierCryptosystem.hpp` | keys, random generators, recrypt pool, all shared by the threads that use the object | enc, dec, addTo, subFrom, plainMultiplyTo, recrypt | the ring modulo n, the sign of decoded values; a whole pool in a live buffer, a seed of its own for each encryption |
| `Cryptosystem*.hpp`, `AdditiveInterface.hpp`, `PrivateKeyInterface.hpp`, `PrivateKeyOverrides.hpp`, `Cipher.hpp` | the raw value of each cipher, and the cryptosystem it is bound to for life | construction, copies, `=`, `+=`, `-=`, `*=`, binary operators, conversions | both families of operators agree modulo n; a cipher holds its value under its own key |
| `Plain.hpp` | an exact integer | arithmetic, msgpack codec | round trips |
| `RLWECryptosystem.hpp`, `MultiplicativeInterface.hpp` | placeholder | | not applicable yet |
| `main.cpp`, `Protocol.hpp`, Xcode project | | example (commented out), empty header, build | |

Clients and server share nothing but messages. Inside the server the two
dispatch threads share the one `_remoteCS` slot and the object it points to,
and the one `_localCS`, whose generator and recrypt pool they advance and fill,
with no lock; that is where the hard behaviour is. Everything else that is hard
is listed, at its line, under `hazards` in `PROJECT.json`, with the properties
that watch it or the reason none does: the NULL pointers of half-made objects,
timeouts in the constructor, answers that come late, paths that may forget an
answer, the sign and subtraction arithmetic, uninitialised ciphers and ciphers
of two keys, the key generation and random-file loops, the codecs.

## 2. Modules

| Module | Models | How |
|---|---|---|
| `Network` | msgpack-rpc (external) | requests and replies as growing sets: any order, each request handed out once, a reply found by client and message number |
| `RPCServer` | server, dispatch threads, the three procedures, unpacking | `pc[w]`, `job[w]`, `cs[w]`, `out[w]` are a thread's place, request, copied pointer and result; `remoteCS` and `live` are the slot and the objects not deleted |
| `RPCClient` | client objects | `client[c]` is how far the object has come, `serverCS[c]` the key in its `remoteCS`, `future[c][i]` the future of its i-th call |
| `RPCSystem` | the two composed, their fairness and properties | either side moves, the other's variables unchanged |
| `KeyedService` | abstract: what the owner of a client with a key may rely on | no threads, messages or slot; a call has one `Outcome`, an exception, or times out |
| `KeyedClient` | `RPCSystem` as an implementation of `KeyedService` | the refinement mapping |
| `Arithmetic` | powers, digits and primes, as GMP has them (external) | `Power` and `Count` as recursive functions, which the provers can unfold (they know nothing of `^`) |
| `Paillier` | `paillier.c` | exact integers (mpz does not overflow); drawn numbers are arguments |
| `Keygen` | `paillier_keygen` and the reading of its seed | opening the device, reading bytes and drawing numbers, one a step; the key left is that of `Paillier` for the primes drawn |
| `PaillierCryptosystem` | programs over cipher variables of one key, one action per operator | `raw[v]` is the ciphertext, 0 if nothing was assigned |
| `ModularAlgebra` | abstract: variables over the ring modulo N | what `PaillierCryptosystem` implements |
| `SharedCryptosystem` | one cryptosystem object and the threads that encrypt and recrypt with it | one access to `boostRNG` or `randomVals` a step; `seen[t]` and `pos[t]` are what a thread read and will use |
| `CipherBinding` | ciphers bound to several cryptosystem objects, with and without a private key | a ciphertext names its key; `clear[v]` is what `v` would hold were it a clear number |
| `Codecs` | msgpack form of numbers, LibPaillier's arrays, strings and hexadecimal | a number goes out in a form and comes back, repeatedly |
| `MC_*` | instances for TLC | |
| `*_proofs` | theorems (section 4) | |

**Steps of the server.** An action is one access to shared memory together with
the thread-local work around it: `CheckSlot`, `DeleteOld` and `AssignNew` are
lines 35, 36 and 37 of the key exchange, `Unpack` is the copy of the pointer in
`CipherUnpackerTransform` (PackingUtils.hpp:165), `ComputeElement` one `+=`.
Undefined behaviour is a choice. `DeleteOld` deletes what the slot holds now or
what the test read, since an unsynchronised build may do either. Touching a
deleted object kills the process, or goes on: a second deletion without effect,
a read that yields any key or garbage (the allocator may have given the memory
to the next cryptosystem).

**Exceptions.** The three catch clauses of `dispatch()` are `Dispatch` for a name
that is not registered, `Unpack` and `Multiply` for arguments that do not convert,
and `Fail` for everything else a handler may throw: it allocates, and a new
cryptosystem seeds itself from `boost::random_device`. `Fail` can end a handler at
any of its steps but the delete, with the answer "EXCEPTION" and with whatever
the handler did so far. At `assign` that leaves `_remoteCS` pointing to the object
deleted before. A client's constructor ends without an object when the exchange is
answered with an exception, or when its own new cryptosystem throws
(`ConstructThrows`).

**Data left out.** A ciphertext in a message is reduced to the key it was
computed under, a vector to its length; `typed` says whether the arguments
convert. `ClientKey[c] = NoKey` is the constructor without a cryptosystem.
Objects are named by the client whose exchange made them, as a constructor
exchanges keys once.

**The service of one keyed client.** `KeyedClient` reads the abstract variables
off the detailed ones: the server is open when its phase is "running", the
client's requests are those among all requests that are its own, its futures are
its futures. Everything the threads, the slot and the other clients do stutters.
`Me` is the client with a key; `MyService` says that there is exactly one, and
that the server has a key.

**Programs over ciphers.** `PaillierCryptosystem` lets a program assign, copy,
recrypt and apply every operator in any order to any variables, itself included.
`assigned` marks the variables whose value comes from assigned ones only; `op`
is the operation applied last, which the abstract specification has too, so that
the refinement holds operator by operator and an addition cannot pass for a
subtraction. No step reads `op`: the instances leave it out of the `VIEW`, and
TLC still checks it on every step.
`Private` holds the variables bound to the class with the private key, and so
those for which `PrivateKeyOverrides` leaves the decrypting operators visible.
`aborted` is GMP's division by zero when a number without an inverse is raised
to a negative power.

**The shared object.** `push_back` reads buffer, size and capacity, then writes
in place or moves everything to a buffer of twice the size and frees the old
one. The loop that chooses reads the size for its test (`Choose`), again for the
index (`Index`), and the buffer for the element (`Fetch`), through which `Multiply`
reads. What a thread read may be out of date when it uses it. Touching a freed
buffer kills the process or goes on. `WarmFirst` is a program that recrypts once
before it starts its threads; `Encrypting` are the threads that call `enc` or
`subFrom`; `raced` remembers that one thread read the generator while another was
between reading and advancing it.

**Key generation.** `fopen` may give NULL, as it does in a process that has no file
descriptor left, and the `fread` of NULL does not return: `pc = "crashed"`. A read
gives some of the bytes asked for; one that gives none leaves the loop where it is.

**Several cryptosystem objects.** In `CipherBinding` encryption is ideal: a
ciphertext is a key and a number, whatever decrypts under another key is `Junk`.
A new cipher takes over the binding of the cipher it is copied from; an
assignment copies the raw value into the old binding. The ciphers of `Private`
objects add by decrypting, each operand with its own key, and so may be of two
keys; the others multiply ciphertexts, which is a sum under one key only. A cipher
nothing was assigned to absorbs what is added to it in the second class and
decrypts to some number in the first. Ciphers of the two classes have different
types and meet only as a `Plain`, which is `AssignPlain`.

**Codecs.** `Width` is the number of bits of a byte. Two bits make numbers of
one to four bytes out of 0 to 255.

## 3. Runs

| Run | Instance | Shows |
|---|---|---|
| `one_key` | c1 with a key, c2 without, 2 calls each, 2 threads, under `FairSpec`; `DOT` of length 2, `*`, ill-typed `DOT` and key exchange | `NoUseAfterDelete`, `DotUnderCallersKey`, `KeysAgree`, the refinement `ImplementsKeyedService`, and `ConstructReturns`, `CallsReturn` |
| `any_keys` | c1, c2 with different keys, 2 calls each, every kind of call | `TypeOK`, `AnsweredOnce`, `VectorsComplete`, `KeyedClientsNeverCrash`, `OnlyFailedExchangesDangle` |
| `programs` | n = 35, one variable of each class | `TypeOK`, `SmallValuesSigned`, and the refinement `ImplementsAlgebra` |
| `warm_pool` | three threads, 3 calls each, pool of 4, 2 chosen, two threads encrypt | `NoFreedBuffer`, `WholePool`, `DistinctUnlessRaced` |
| `keygen` | `modulusbits` 6, 7 and 8, under `FairSpec` | `TypeOK`, `KeyDecrypts`, `LengthSurvives`, `EvenEnds` |
| `codecs` | the numbers -20 to 255, bytes of two bits, arrays of 0 to 4 bytes | `PackedMagnitude`, `ArraysHoldLowBytes`, `StringsEndAtNul`, `HexIsExact` |
| `ciphers` | three ciphers; of the objects without a private key two of modulus 3 and one of 5, of those with one one of each | `TypeOK`, `AsClearValues` |

The other runs end in a violation, of one property each, that a document, a
comment or an assertion of the code states:

| Run | Instance | Violates |
|---|---|---|
| `two_keys_delete` | c1, c2 with different keys | `NoUseAfterDelete` |
| `two_keys_dot` | c1, c2 with different keys | `BoundToCallersKey` |
| `cold_pool` | as `warm_pool`, one thread encrypts, the pool is empty when the threads start | `NoFreedBuffer` |
| `two_encrypt` | as `warm_pool` | `SeedsDistinct` |
| `odd_size` | `modulusbits` 7, under `FairSpec` | `EveryLengthEnds` |

*What the violations show.*

- With two keyed clients the framework does not do what its README promises of a
  server and its clients: a key exchange deletes the cryptosystem a running `DOT`
  computes with (`two_keys_delete`), and a later `DOT` of the first client is bound
  to the second client's cryptosystem (`two_keys_dot`).
- Two threads whose first `recrypt()` overlap both fill the pool, the missing lock
  being a TODO in the code, and one uses the buffer the other freed (`cold_pool`).
- Two threads that encrypt with one object can take the same numbers of `boostRNG`
  for their seeds, and so the same blinding factor (`two_encrypt`). A thread that is
  late also moves the generator back, so that even the seeds of one thread recur.
- Primes of half an odd `modulusbits`, rounded down, have no product of that many
  bits: generation never ends, though paillier.h speaks of any length (`odd_size`).

*Where else code and comments disagree.* These disagreements need no interleaving,
or follow from a property above, and have no run of their own:

- An exchange that throws after its delete is answered with the exception, and the
  server goes on with a slot that dangles: the last case of
  `OnlyFailedExchangesDangle`. One thread is enough.
- `paillier_ciphertext_to_bytes` writes before an array that is too short, where the
  plaintext function, which paillier.h:198-200 compares it with, truncates. The
  theorem `ShortArraysOverrun` says for which arrays.
- The signed decryption makes more values negative than its comment says
  (PaillierCryptosystem.hpp:247): for n = 35, 8 to 16 as well, while 17 = n/2 stays.
  The theorem `PositivesMadeNegative` says it for every key.
- The assert meant to stop `newLocalCipher()` of a client without a key
  (RPCClient.hpp:321) tests a string literal and never fires; the next line
  dereferences NULL. `NewLocalCipher` has that step.
- The assignment between ciphers of two keys, whose check is commented out
  (CryptosystemBase.hpp:50-51), leaves a cipher with a ciphertext that is not of its
  key. `AsClearValues` claims nothing of such a cipher.

*What the passing properties say of the code's edges.*

- `OnlyFailedExchangesDangle`: that is the one way to a slot that dangles for good.
  Overlapping exchanges, which delete each other's objects and one object twice,
  always leave a live one, as the last of them to assign has made its own.
- `DistinctUnlessRaced`: any number of threads may encrypt, as long as something
  keeps them apart; no seed is used twice before the first overlap.
- `KeyDecrypts` is exact. A blinding factor harms if and only if it shares a
  factor with n (0 included), and `paillier_enc` does not look; a key of one
  prime twice, which the loop does not exclude (6 bits: 7 and 7), decrypts
  wrongly even for factors that share none.
- `AsClearValues` stops at assignments between two keys and at products of
  ciphertexts of two; sums with a private key may mix keys.
- `KeyedClientsNeverCrash` assumes a server with a key. Without one the client's
  `remoteCS` is NULL, and `newRemoteCipher()` dereferences it.

*Bounds.* Two workers are the `2` of `_server.run(2)`. Two keyed clients are the
smallest number whose exchanges collide. Three are the smallest with which an
object is deleted twice, by two exchanges that found the same one; that is left
to the theorem `SlotSafe`, whose property the step concerns. `MaxReq` counts the
key exchange too: 2 gives a constructor and a call, so that the calls of two
clients overlap and an answer may come after its timeout; two calls of one client
that overlap are left to `KeyedServiceImplemented` and `AnswersOnce`, which hold
for any number. Vectors
have 0 or 2 elements: none, or one between which and the next another thread can
step. n = 35 is 5 * 7, the smallest modulus `paillier_keygen` can produce from
different primes; the plain operands -1, 2, 17 and 40 are negative, small, n/2
and above n; the blinding factors 1 and 6 are closed under product, as a
recryption multiplies several. All ciphertexts of all 35 values under those
factors are reached. One variable of each class is enough to apply every
operator to itself, to a plain number and, where the classes allow, to the
other; a second private operand would be decrypted to one of the same 35 numbers
first. A pool of 4 makes the vector grow at its first, second and third element
and has room for its fourth, as any larger one does; 3 calls let a thread
recrypt and encrypt again. The key sizes 6 and 8 give three keys each: two
different primes in both orders (5 and 7, 11 and 13) and one prime twice, beside
products whose bit is not set; 7 is the odd size between them. Two objects of
one key and one of another are the least that tells a shared key from a shared
object; two with private keys let a decrypting sum mix keys; three ciphers let a
sum have operands and a destination of their own.
The plain numbers -1 and 7 exceed the moduli 3 and 5 on both sides.

*Deadlock checking is off* where the system may stop: the RPC instances when
every client has used its calls or the server process died, the threads of
`SharedCryptosystem` after their calls, key generation when it is done or crashed, the
cipher programs when GMP aborts.

*Symmetry* is used for the workers and the variables of `CipherBinding`, which the
properties only quantify over, in runs without liveness.

*Fairness.* `RPCSystem!FairSpec` (run `one_key`): `run()` is reached, as the
example server calls it after registering; each dispatch thread takes its next
step when it has one, as operating-system threads without locks do; a client
that waits takes an answer that is there. Nobody has to make calls, and
neither a timeout nor an exception is ever forced (`Proceed` is every step of a
thread but `Fail`): the two liveness properties say that the answers
themselves come. They are checked with one keyed client, where the server cannot
be killed.
`Keygen!FairSpec` (run `keygen`): the loop goes on and the random device gives
bytes in the end; random draws that never stop give, for each pair of
`FairPairs`, its first prime again and again and its second right after the
first. That is what a uniform draw does with probability one, and all the loop
needs: 5 and 7 for 6 bits, 11 and 13 for 8. `odd_size` has the same fairness for
5 and 7 and for 7 and 7, the pairs of three bits with the largest products.
`CallsReturn` and `ConstructReturns` count an exception as an answer.

## 4. Proofs

`RPCSystem_proofs` proves, for any sets of clients, keys, calls and threads and
from `NetworkAssumption` and `ServerAssumption` alone (sentinels are outside the
sets they complement; every client has a key or none):

- `TypeCorrect`. `TypeOK` is not inductive by itself: a thread's step types its
  answer only if its request is of the kind its place in the code implies.
  `Basic` adds that (`Handlers`) and that objects come from keyed clients
  (`LiveKeyed`).
- `SlotSafe`, that is `OnlyFailedExchangesDangle`: inductive over `Basic`, with no
  assumption on what a handler throws. The thread that deleted is the one at
  `assign`, from where it assigns, or answers with an exception, which stays among
  the replies; its request is a typed exchange of a keyed client (`Handlers`).
- `AnswersOnce`, through `Bookkeeping`: message numbers are not used twice
  (`Numbered`) and only dispatched requests have answers (`Solicited`).
- `CompleteVectors`, through `Complete`: every trace a keyed client's finished
  exchange leaves (an answer, a ready client, a later request) implies that the
  slot is not NULL (`SlotAssigned`), which no step undoes; so a thread that
  computes for such a client holds a cryptosystem, and its partial vector never
  exceeds the request (`PartOfVector`).
- `KeyedClientsSurvive`, through `Learnt`: a ready client holds the server's key.

Under `OneKeyedClient`, that one client at most has a key, it proves
`OneKeyNoUseAfterDelete`, `OneKeyDot` and `OneKeyAgreement`, through `Sole`: the
slot is written once (`OneInstall`: two threads in a keyed exchange would run
the same request, which `Bookkeeping` forbids), so no thread reaches the delete
and every copied pointer stays live (`GoodCopies`). `two_keys_delete` and
`two_keys_dot` show that the condition is needed.

Under `MyService` it proves the refinement, `KeyedServiceImplemented`:
`RPCSystem` implements `KeyedService`. The argument adds to the invariants above
that every answer to a request of `Me` is that request's `Outcome` or an
exception; each step of server or client is then a step of the service or a
stutter.

`SharedCryptosystem_proofs` proves, for any number of threads, calls and any
pool, `SharedTypeCorrect` without a condition; `WarmPoolNoFreedBuffer` and
`WarmPoolWhole` if the main thread recrypts before it starts the others (while
it is alone what it read is current and its loop counter is the size; once the
pool is whole nobody pushes again, which is inductive); and
`SeedsDistinctUnlessRaced`, that no seed recurs before two threads were in the
generator at once, whichever threads encrypt (until then a thread that read the
generator is the only one there, and what it read is the position until it
advances it). `cold_pool` and `two_encrypt` show that the conditions are needed.

`CipherBinding_proofs` proves `TypeCorrect` and `CiphersAsClearValues` for any
number of ciphers, objects and keys: `AsClearValues` becomes inductive as
`Binding`, which adds that a clear number is below the modulus of its cipher's
key.

`Arithmetic_proofs` is the number theory the next four modules rest on:
congruences and units, the laws of powers, Euclid's lemma, Fermat's little
theorem (`Fermat`), digits and bit lengths. The library states induction with an
operator as parameter, which the provers cannot instantiate; here it is stated
with a set, that of the numbers that have the property, and follows from the
least-number form of well-founded induction. A recursive function is one chosen
among those that satisfy its equation: each such lemma first shows one that does.

`Paillier_proofs` proves, from `KeyAssumption` alone (P and Q are primes that
`paillier_keygen` may leave for that length), that the cryptosystem is one:

- `DecInvertsEnc`: for two different primes and any r that has an inverse modulo
  n, what is decrypted is the number encrypted, modulo n. Fermat's theorem for P
  and for Q gives r^lambda = 1 modulo n, hence r^(n lambda) = 1 modulo n^2, and
  by the binomial (n + 1)^(m lambda) = 1 + m n lambda; the division by n and the
  multiplication with `pow_x_minus_one_inv` of `paillier_dec` undo the rest.
- `MulAdds` and `ExpMultiplies`: `paillier_mul` adds and `paillier_exp`
  multiplies below the encryption, modulo n, negative exponents included.
- `HarmlessIffUnit`: a blinding factor that shares a prime with n breaks the
  decryption of some number, so the condition above is exact.
- `OnePrimeTwiceFails`: a key of one prime twice decrypts some number wrongly
  even with a factor prime to n.

`PaillierCryptosystem_proofs` proves, from those and the assumptions that two
different primes, harmless factors and integer operands are used, for any key,
variables and operands: `TypeCorrect`; `SignsOfSmallValues`, and
`PositivesMadeNegative` for the values it does not reach; and
`AlgebraImplemented`, that every program over ciphers is one over the ring modulo
n. `IInv` adds to `TypeOK` that an assigned variable holds a ciphertext, that is
a number with an inverse; without it `Dec` is not known to add up.

`Keygen_proofs` proves, for any sizes: `TypeCorrect`; `LengthSurvivesAlways`;
`KeysDecrypt`, by the theorems of `Paillier_proofs` instantiated for the primes
drawn; and `OddNeverEnds`, for every odd size what `odd_size` shows for 7: two numbers of
`modulusbits / 2` bits, rounded down, cannot have a product of an odd
`modulusbits` bits. `Found` makes them inductive: what the loop has drawn so far is
prime and, at the end, has the bit set.

`Codecs_proofs` proves, for any width of a byte, any numbers and any lengths,
`PackedMagnitudeAlways`, `ArraysHoldLowBytesAlways`, `StringsEndAtNulAlways`,
`HexIsExactAlways`, and that `paillier_ciphertext_to_bytes` writes outside its
array exactly if it is too short for the number (`ShortArraysOverrun`). `IInv` says of each form what
bytes are out: the low digits of the number's magnitude. The lemma `ValueIs`
reads them back: the first k digits are the number modulo base^k.

Only model-checked is liveness, which is out of the prover's reach:
`ConstructReturns`, `CallsReturn` and `EvenEnds`. Every invariant of the passing runs and both refinements are
theorems, under the conditions named above.

## 5. What is abstracted or not modelled

- The transport is external and generous: unordered, lossless. A lost
  connection is seen by a client as the timeout it takes at any moment.
- The user's program makes key exchanges through the constructor only, as the
  library intends (a well-typed XCHANGE_KEYS through the public `call()` is left
  out, an ill-typed one is in), and calls `DOT` for local vectors and `*` for
  remote ciphers. The getters of single local ciphers and of vectors of remote
  ones bind their ciphers as these do, those of vectors of vectors make one
  cipher first; no procedure needs them.
- `ProcObliviousMult` does not compile as it stands (the pointer overloads of
  `unpackConditional` are commented out); it is modelled by what its `run()` says.
- Leaks (two first exchanges that both find the slot NULL among them), the
  freeing functions, destructors, logging, and `Procedure::run`'s default, which
  every procedure of the repository overrides.
- A random device that never gives bytes: the fairness of `EvenEnds` excludes it.
- Binary operators copy and assign: `CipherBinding` has them for sums, in
  `PaillierCryptosystem` they are sequences of the actions.
- `PaillierCryptosystem` draws no blinding factor that shares a divisor with n
  (`BlindsAssumption`) and has two different primes (`PrimesAssumption`); `Keygen`
  checks what happens otherwise.
- A power of the pool is computed from `gmpRandState` in one step of `Generate`;
  overlapping fills are explored for the vector only.
- `RLWECryptosystem` is a placeholder: its encryption stores the plain value, its
  multiplications are empty, and its private key class is abstract, so that no
  server or client can be made of it. `MultiplicativeInterface` is inherited by
  it alone and declares one operator, ambiguous there with the additive one.
- `main.cpp` generates a key and returns, its examples being commented out;
  `Protocol.hpp` is empty; the Xcode project is a build file.

## 6. Plan

Done: the RPC system, its abstract service and the refinement between them; the
Paillier side against the ring modulo n; key generation, codecs, the shared
object and the bindings of ciphers; all of them with proofs.

Left, in order of importance:

1. Two servers whose owners call each other: each process has one local
   cryptosystem that its server's threads and its client share, which composes
   `RPCSystem` with `SharedCryptosystem`.
2. The getters of vectors of vectors, with the procedures that would need them.
