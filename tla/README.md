# InsPIRe in TLA+

Models, model-checking runs and proofs for the private information retrieval
library in this repository (`crypto/pir`, `crypto/vpir` and what they are built
from). A client fetches one entry of a database from a server that does not
learn which. The protocols are fast because most of the work is done offline,
before any client exists - and that is also what makes them delicate: client and
server must agree on randomness they never exchange.

## 1. The system

### Components, their state and their operations

| Component | State | Operations |
|---|---|---|
| `PirParams` (`pir_params.*`) | constants: d, N, t, entry size, moduli, gadgets | derived geometry: rows N/t, chunks of d rows, padded columns |
| `PirClient` (`pir_client.*`) | secret key, place in the stream of a components, second-dimension key | `CreateRequest`, `CreateRequestForVector`, `CreatePackingKey`, `CreateSecondDimensionQuery`, `ProcessResponse` |
| `PreprocessingServer` | seed | `Preprocess`: hints, packing matrices and second-dimension samples of a database, all from the seed |
| `PirServer` (`pir_server.*`) | database matrix, packing matrix, preprocessed outputs, second-dimension samples | `Create`, `ProcessResponse`, `SaveToFile`, `LoadFromBuffer` |
| `pir_preprocessed_data.h`, `file_util` | files of a directory | save and load, as one file or as metadata and one file per shard |
| `VpirClient`, `VpirServer`, `VpirPreprocessingServer` | proof material C, Z, Z'; key of the last request | the same protocol with a proof of the first dimension's product |
| RLWE layer (`encryption`, `polynomial`, `lwes_to_rlwe`, `external_product`, `db_row_interpolation`, `hint_computation`, `matrix`, `modular_int`) | none | pure functions |
| Tools (`benchmarking/`) | files in /tmp | one lookup per iteration with a new client; the multi-database tool keeps server files |

### How they interact

* The **stream of a components** ties everything together. The preprocessing
  server expands the seed from its start each time `Preprocess` runs: first
  dimension, second dimension (if t > 1), packing key. A client expands the same
  seed with a PRNG object that it keeps, so every call goes on where the last one
  stopped. A request carries b halves only. No message names a seed, a position,
  a request or a database. A mismatch is not an error anywhere; the client just
  decrypts noise.
* Preprocessed data goes to the online server in memory, through a file, or
  through a directory. The files name neither database nor seed.
* Nothing in the library locks or orders anything; the callers do.

### What is hard here

Reusing a client object; calls that fail after they have moved the stream; the
order of the expansion on the two sides; databases replaced while requests are on
their way; responses handed to the wrong client; the last, cut chunk of a query
and the padded columns; monomials that wrap around with a sign; saves that stop
half-way; loads that overlap saves; proof material that is assigned member by
member. `PROJECT.json` lists these hazards at their
lines with the properties that answer them.

### What makes each component correct

* Client and server: an answer is what was asked for, or noise; never something
  else. It is what was asked for whenever the client object was fresh and the
  seeds agree. No a component is used twice. A lookup made the way the tools make
  it is answered.
* Persistence: what is loaded is what was saved, also from a buffer that held
  something else; a torn state is refused or repaired by the next save.
* VPIR: once a client has had Z, it accepts only what comes from the server of the fetch
  whose proof is in force, and never rejects that; after a proof that failed it accepts
  nothing; a failed call spoils nothing that a later one needs.
* Pure functions: each equals its definition on the range it is called with.

## 2. Modules

| Module | Models | State |
|---|---|---|
| `PirParams` | parameters and geometry | constants only |
| `PirProtocol` | clients and servers, from the outside and with every public call | `server`, `client`, `requests`, `responses`, `result` |
| `PirRetrieval` | the abstract promise: ask for an entry, be given that entry | `gen`, `asked`, `pending`, `answer` |
| `PirOneShot` | `PirProtocol` driven by its callers: one client object per lookup; implements `PirRetrieval` | as `PirProtocol` |
| `PreprocessedDir` | `SavePirPreprocessedDataToDirectory`, `LoadPirPreprocessedDataFromDirectory`, `PirServer::Create`, step by step | `dir`, `saver`, `loader`, `server`, and ghosts |
| `VpirSession` | `VpirClient` from call to call, with `VpirServer` and `VpirPreprocessingServer` | `server`, `client`, `requests`, `responses`, `result` |
| `ServerFile` | the file of a `PirServer`: `SaveToFile` cell by cell, `LoadFromBuffer` with its reader | constants only |
| `ServerStore` | the multi-database tool and programs that load and save servers, one after the other | `disk`, `job`, `jobs`, `owner` |
| `ModularArithmetic` | `ModularInt`: Barrett reductions and what is built on them | constants only |
| `Polynomials` | `Polynomial`: coefficients, gadget decompositions, automorphisms, the chunked product | constants only |
| `Rlwe` | encryption, decryption, modulus switching, gadget and RGSW ciphertexts, external product | constants only |
| `Packing` | LWE to RLWE packing and both of its online paths | constants only |
| `RowInterpolation` | interpolation of a database row | constants only |
| `Matrices` | condensed matrices, bit packing, the hint matrix | constants only |
| `PirAlgebra` | one lookup with its arithmetic, from raw database to retrieved entry | constants only |
| `VpirAlgebra` | one verified lookup with its arithmetic, over an inner `PirAlgebra` of its own | constants only |
| `Messages` | what polynomials, matrices, preprocessed data and RLWE parameters become in a message, and what is read back | constants only |
| `PirAlgorithms` | the cases on which the modules from `Polynomials` to `Messages` are compared with reference definitions | `case` |
| `BatchArithmetic` | the AVX2 formulas and the vector operations of `ModularInt` | constants only |
| `ModularBatches` | the cases on which `ModularArithmetic` is compared with the integers, and `BatchArithmetic` with `ModularArithmetic` | `case` |
| `PirProtocol_proofs` (with `PirOneShot`), `PreprocessedDir_proofs`, `VpirSession_proofs`, `ServerStore_proofs`, `ModularBatches_proofs`, `PirAlgorithms_proofs` | theorems | |
| `PirRing_proofs` | theorems about the external product, condensed matrices and row interpolation, on top of `PirAlgorithms_proofs` | |
| `Numbers` | lemmas on the natural numbers, for the proofs: induction, division, powers of two | |
| `MCPirProtocol`, `MCPirOneShot`, `MCPreprocessedDir`, `MCVpirSession`, `MCServerStore`, `MCPirAlgorithms`, `MCModularBatches` | instances for TLC | |

### PirProtocol

A position in the stream is a number of calls of `Rand64`, one per coefficient. A
ciphertext is the slice of the stream its a half came from together with its
payload; `Aligned` compares the slices of a request with those the server
expanded, and decryption yields the payload if they agree and if the right key is
used, `Garbage` otherwise. Payloads are not symbols: a request carries the
vector of weights and the monomial it encrypts, and `Evaluate` computes which
entries the matrix product and Horner's rule combine. So wrong geometry, a lost
sign or a forgotten chunk changes the answer.

`CreateRequest`, `CreateRequestForVector` and the calls that fail are separate
actions, since they differ in how far they move the stream: `RefuseIndex` and
`RefuseVector` do not, `RefuseCoefficient` moves it by the first dimension,
`InterruptRequest` by what was drawn when the PRNG failed. `requests` is never
emptied: a caller may keep a request and send it again, to this server or to its
successor. A response may be processed by any client, as nothing in it says whose
it is.

Abstracted: noise (decryption within its bound is taken to be right), secret
keys (a key is its client), the ring arithmetic behind the slices.

### PirOneShot

The loop of `pir_end_to_end_real_params_test.cc` and of the metrics tools:
`Lookup` is the only call that uses the PRNG of a new client object, and the
response goes back to that object. Its variables map to those of `PirRetrieval`:
the generation being served, the entry each caller asked for, the answers on
their way with what their owner will decrypt, and the last answer delivered.

### PreprocessedDir

A file is the sequence of its blocks, each tagged with the generation it was
written from. `SetFileContents` is `OpenFile` (which truncates), `WriteBlock` and
`CloseFile`; `GetFileContents` is `OpenRead` (which takes the size), `ReadBlock`
and `CloseRead`. A save may die after any step. `CloseFile` may come too early:
the stream is checked before it is flushed, so the end of a file may be lost
while the save returns OK. A file that ends early may fail to parse or may parse
into a message with fewer elements, and `CreateServer` then counts. A `Misshapen`
generation has another number of shards; it is refused, after the metadata has
been written. `settled` remembers the last save if it returned OK and none began
since; a load notes it when it begins and forgets it when a save begins.

### VpirSession

A matrix is named by what it was computed from: the call that drew C, the
generation and the seed of a server. `[Z Z'] u = C x` is then equality of names:
Z and Z' must come from the call that drew C, Z from the generation and Z' from
the packing matrices behind the response, and u must be the request that was
answered. (A random C lets a wrong x pass with probability 2^-kappa, taken to be
none.) `GetProofPreprocessMaterial(c, upTo)` is one action that says how far the
call got, since a client is used by one thread: `upTo` ranges over the places at
which members have been assigned and an error may still be returned. A client's
place in the stream decides, as in `PirProtocol`, what decrypts; here only the
fact matters that servers expand the stream from its start, so a request is
aligned if it begins at 0. Members that no other member is compared with
(`h_prime_matrix_`, the secret key) are left out, and so is the text of requests:
two requests are the same iff one client made them at one place of its stream.
`ServeRequest` stands for both forms of `ProcessResponse`, which add up the same
three products.

### ServerFile and ServerStore

`ServerFile` has no state: it is the function from servers to files and its
intended inverse. A cell is what one `write` writes. `Load` finds every part by the
counts in the cells before it, as the code does, so that a lost cell moves or
empties all that follows: a read beyond the end leaves the zero its destination
was initialised to, and the check at the end never fires for a buffer that ends
between two cells. The packing matrix alone has its words modelled, because a
condensed matrix is taken to entries for the file and put together again from it,
with row strides that must agree.

`ServerStore` runs one program at a time on a few paths. The tool (`StartTool`,
then `KeepFile` or `SaveFile` for each path, `Allocate`, and `Serve` for each
iteration) preprocesses a database named by the number of the run; `SaveStops`
leaves any part of a file, half a cell at its end included. `Serve` overlays the
buffer with what the file has. A second kind of program loads a server and saves
it. `owner`, a ghost, is the server of the last save to a path if it returned OK.

### The algorithms

`PirAlgebra` EXTENDS `Packing` (which extends `Rlwe` and `Polynomials`),
`RowInterpolation` and `Matrices`, and composes them into `Preprocess`,
`CreateServer`, `CreateRequest` and `CreateRequestForVector`, `ProcessRequest` and
`Retrieved`. A polynomial is a function from
`0 .. Degree - 1` to numbers of `CoeffBits` bits that wrap, and keeps what the code
keeps in it: a coefficient below q, above q after an operation that does not mask,
or a negative number in two's complement. Words, entries and lanes of a condensed
matrix are scaled down together; a uint8_t entry is an eighth of a word whatever a
word is. `PirProtocol` takes for granted that aligned ciphertexts decrypt to their
payload and that Horner's rule and the matrix product commute with encryption;
`PirAlgebra` is where that is computed.

`VpirAlgebra` extends it with the matrices
that `VpirSession` only has names for: C, Z, Z', their products, both forms of the
answer, and the packing finished by either side. The inner protocol that brings Z
to the client is not a function but the protocol: `Z(modulus)` is an instance of
`PirAlgebra` with the parameters that `VpirParams::Create` derives (an entry for each row of the
database, a shard for each block), its server is preprocessed from the outer database
under the same seed, and each row of C is encrypted by `CreateRequestForVector`,
answered and decrypted. The inner plaintext modulus is an argument, so that one run
has several of them.

`Messages` says what is written and what is read back. A reader that may refuse is
two definitions, what it requires and what it returns. Polynomials are cut into
bits; matrices are copied, and keep only the kind and counts that a reader needs;
the fields that VPIR data has and its message has not are visibly missing.
Parameters are the four numbers of `RlweParams`, 0 being the full width.

`BatchArithmetic` models a register lane by lane: the sums of narrow and of wide
types (an unsigned minimum, and a signed comparison), products by Barrett
reduction, products in doubles with each of their roundings (`ToDouble` rounds to
`FloatBits` bits, to even), high and low halves put together from half words. The vector
operations of `modular_int.cc` do as many whole registers as there are and go on
number by number. The narrow products, `BatchMulWithoutReductionUint64Avx2` and
the products by constants have no caller in the repository and are modelled as the
header has them.

Taken to be exact: the NTT product (over a product of primes that is large enough),
the floating-point FFT of the chunks it is given, and inside the interpolation the
integers modulo p, which `ModularBatches` checks on their own. What is random
in the code - a components, errors, keys - is an argument. Left out: the check
that refuses parameters whose chunks would exceed the precision of a double.

`PirAlgorithms` is a state machine in name only: a behaviour picks a case, and each
property compares what the code computes in the cases of one algorithm with a
definition that does not use the algorithm: the sum over all pairs of coefficients
for a product, the value at a power of X for an interpolated row, a decomposition
added up again, the phase `b + a s` for everything that is encrypted.

## 3. Runs

| Run | Instance | Shows |
|---|---|---|
| `pir_two_clients` | 2 clients, 2 seeds, 2 generations, N = 2, t = 2, d = 1 | interleavings, reuse, resending, mixed-up responses |
| `pir_vectors` | t = 1, N = 3 padded to 8 columns | refused vectors that moved the stream, vectors that are too long |
| `pir_one_shot` | 2 lookups, N = 12, t = 4 = 2d, 2 generations | every index, signs of the monomials, a cut chunk; the refinement `Retrieval` and the liveness property `Retrieved` |
| `preprocessed_dir` | 2 shards of 2 blocks, 3 generations (one misshapen), 2 seeds | what a settled save guarantees |
| `dir_torn` (violation) | 2 shards, 2 generations under one seed | an entry of two databases |
| `vpir_session` | 2 clients of one seed that finish the packing, 2 generations, 2 fetches, 3 a components | failing and repeated calls, replaced servers, mixed-up requests and responses |
| `vpir_reuse` (violation) | 1 client, 2 requests | proof material serves one request |
| `server_store` | 2 paths, 3 programs, t = 2, 2x4 packing matrix of condensed int32_t | saves that stop, kept files, one buffer for all |
| `server_resave` (violation) | 2 paths, 2 programs | saving a server that was loaded |
| `algorithms` | d = 8, q = 2^13, p = 5, N = 40 in 10 rows of t = 4, 2 shards, 16 verified entries over an inner q of 2^18 | every algorithm against its definition |
| `batches` | words of 10 bits, doubles of 9, registers of 4, vectors of up to 9; single numbers modulo all 128 accepted moduli, the rest modulo 11 | single numbers against the integers, vector operations against single numbers |
| `batch_wide` (violation) | the modulus 139 | products that are no residues |

Properties:

* `FreshAnswerRight` - a fresh object's request, answered under its seed by any
  server and processed by its owner, gives what was asked for. An object that has drawn
  from its stream is not fresh, even if the call failed; of such objects the next
  three speak.
* `OneServableRequest` - of two requests of one object at most one can ever be
  served: an object is good for one request, which neither header nor README say.
* `AComponentsUsedOnce` - no position of the stream serves two ciphertexts.
* `NoWrongAnswer` - an answer is noise or what its request asked for.
* `StreamInOrder` - the inductive invariant of the four (section 5).
* `Retrieval`, `Retrieved` - the promise to the callers, its safety and its
  liveness.
* `SettledAnswers` - a load after a save that returned OK, with none since,
  gives that save's generation whatever was left behind before. It says nothing of a
  load that a save overlaps; of those only `OneDatabase` speaks.
* `SettledLoads` - and it is refused only if a flush failed unnoticed.
* `OneDatabase` - violated. A save that stops between two shards under the seed of
  the save before leaves a directory that loads without an error and answers one
  entry from two databases.
* `AcceptedIsProved` - responses pass unchecked only until a fetch of the client
  gets hold of all of Z. From then on what is accepted comes from the server of the last
  fetch that did, and that fetch passed its check: one that fails earlier leaves the
  former proof in force, and after one that fails its check nothing is accepted until
  another succeeds. It rests on the order in which `GetProofPreprocessMaterial`
  assigns its members; were Z' assigned before the check, it would be violated.
* `HonestAccepted` - the converse: what that server computed for a request of the
  client's own is not rejected. Together they say which responses pass.
* `KeptKey`, `FirstRequestRight` - failed calls leave the key half of the last
  request in place, and the first request of a client is decrypted rightly.
* `TypeOK` (of both protocols) - classes, and who may keep a key half.
* `ReusableProof` - violated, see section 4.
* `SavedComesBack` - a save of a server made by `Create` that returned OK gives that
  server again, whatever was at the path before.
* `WholeFilesServe` - from files saved to their end the tool serves their servers,
  whatever shorter files left in the buffer.
* `OwnDatabase` - from files the tool saved itself it serves the database it
  compares answers with.
* `EverySaveComesBack` - violated, see section 4. `SameServer`, in these four, means
  that no request tells two servers apart.

* `DigitsRecompose` - exact and approximate digits add up to what they were taken
  from, the last borrow included.
* `ChunkedProductExact` - no pair of chunks that is left out, and no sign extension,
  changes a product.
* `AutomorphismsOfTheRing` - what packing presupposes of X -> X^k.
* `RowsEvaluateToEntries` - a row evaluates to entry `col` at the monomial that a
  client encrypts for column `col`, for t on both sides of d.
* `CondensedAgrees` - condensed matrices, alone and stacked, multiply as plain ones.
* `HintCarriesTheKey` - hint times key is database times a s, whatever the batches.
* `BudgetedNoiseDecrypts` - decryption under the largest error that rounding leaves
  room for, before and after the modulus switch; where q is too small to leave any room,
  nothing is promised. The instance leaves room for both.
* `ExternalProductMultiplies`, `PackingKeepsPhases` - within an error that is
  computed from the gadget.
* `PackingPathsAgree` - the ring path and the matrix path are one function, error
  terms and all.
* `PackMatrixSurvivesSaving` - the entries of the pack matrix fit the bits that
  `SaveToFile` grants them. Number by number this needs log q to be at least the width of the
  matrix's type, as in the instance; below that an entry survives modulo q only.
* `LookupReturnsEntry` - the whole of a lookup, with an error in every ciphertext.
* `VerifiedLookupReturnsEntry` - the whole of a verified one: Z, fetched row by row
  through the inner protocol, is consistent with the hint, both forms of the answer agree, the answer is accepted and decrypts to
  the entry, and an answer bent in one coefficient that C looks at is rejected.
* `WrappedProofRefused` - the client refuses the material exactly if an entry of C DB
  does not fit the inner plaintext modulus; what wrapped is never taken for Z.
* `StoredDataAnswersAlike` - a server made from a stored message answers bit for bit as
  the one it was stored from, although negative digits lose their upper bits; a message is
  readable under no other width.
* `StoredVpirDataIncomplete` - what is stored of a verified server, in one message or
  in shards, is enough to answer and never enough to create a server.
* `ParametersSurviveStorage` - accepted parameters come back, the moduli 0 and 1 included.

* `ModularIntExact` - one conditional subtraction suffices after every Barrett
  quotient, for operands up to the bounds the comments give, and exponentiation
  inverts modulo every prime.
* `LanesExact` - for all operands, the register formulas for sums, for products in
  doubles and for the narrow types give the residue that `ModularInt` gives.
* `WideProductsCongruent` - products by Barrett reduction in wide lanes are right modulo
  p and below 2p, and so are sums of them.
* `BatchesAgree` - at every place of a vector of every length, with AVX2 or without,
  stands what the operation on single numbers gives.
* `WideProductsExact` - violated, see section 4.

### Bounds and why they suffice

`MaxDraws` lets a client make at least two requests, or one and the calls around
it; the properties relate at most two requests, and a third adds no new relation.
`MaxInFlight` bounds the responses not yet processed: one is enough for all but
the swap of two responses, for which the vectors run has two. `FaultPoints` puts
the failing draw inside each part of a request. The geometry is chosen so that
every case occurs in some run: one row and several, t = 1, t = d, t = 2d, whole
and cut chunks, no padding and padding that leaves room for an extra chunk. Two
blocks make a file that is absent, empty, cut and whole. For `PirProtocol` and
`PirOneShot` safety the proofs lift all of these bounds but `MaxDraws` and
`MaxInFlight`, which are constants there and may be any number.
In `VpirSession` two fetches are what a stale member takes, and two requests what
a stale key half takes, one of which may be lost half-way (the run completes one request of each
client; `KeysKept` covers more); two clients are what a
mixed-up response takes. Two seeds, and a packing left to the server, would multiply
the states beyond what TLC finishes; the proofs cover them, and any bound.

In `ServerStore` two programs are what a stale file takes, the third repairs or
keeps it; two polynomials of the second dimension and two slices let every count
be cut before and after. Servers that were loaded with parts missing are not saved
again (`Whole`), as their cells have other sizes.

In `algorithms`, the coefficients that are taken to digits are exhausted. All else is sampled: three
seeds for inputs that a fixed formula spreads over the range, the same at every
run. d = 8 is the smallest degree at which bit reversal moves more than one pair
and the packing has several steps; rows of 1, 2, 4, 8 and 16 = 2d entries are
interpolated; ten rows are a whole chunk and a cut one; of the three
gadgets one leaves a bit of q uncovered (the pack gadget, as with the two digits of
19 bits in use), one has digits wider than half of q and one reaches beyond q. The largest numbers stay below
2^31, which is what limits q. The inner protocol has coefficients of 18 bits, so that an inner
plaintext modulus of 65, one more than Ell d (p - 1), leaves room for its noise; five smaller ones
are on both sides of what the three sampled C DB reach. Every modulus is tried with
every other in `ParametersSurviveStorage`. Decompositions, decryption and parameters are
proved for every size as well.

In `batches` single numbers are exhausted, moduli and lazy operands alike, and in lanes all pairs of residues of each modulus are tried. Doubles with fewer bits than
words make both ways of multiplying reachable, as 50 of 64 bits do in the code; the moduli are primes and
composites at both ends of the range of each. Nine numbers are two registers and one
number more.

`CHECK_DEADLOCK` is off for `ServerStore`, which stops when `MaxJobs` programs
have run, and for `PirAlgorithms` and `ModularBatches`, where a behaviour is one case; everything else
modelled here can always take another step.

### Fairness

`PirOneShot` alone has it: weak fairness of `Reinstall`, `Serve` and `Extract`.
The callers are straight-line code, each call returns, and the next one follows;
`Lookup` is not fair, as nobody has to make one. `Reinstall` is there because a
server has to be set up at all. No strong fairness is needed: once enabled,
`Serve` and `Extract` stay so until taken.

## 4. What was found

* `dir_torn`: see `OneDatabase` above. The directory functions have neither a
  test nor a caller in the repository; saving to a new directory, or a seed per
  save, would avoid it (under two seeds a torn entry decrypts to noise).
* The metadata file is overwritten before the number of shards is checked, so a
  save that is refused still damages what was there.
* `vpir_reuse`: README.md:27 promises that preprocessed proof material can be
  reused for many queries. The material lives in a `VpirClient`, and the second
  request of a client no longer lines up with the server's stream: its response
  verifies and decrypts to noise. Every test makes a client per query, and the
  benchmark looks at the record of its first iteration only.
* `server_resave`: `LoadFromBuffer` gives the condensed packing matrix its logical
  columns as physical ones. Answers are right, but a second `SaveToFile` reads
  beyond the words and returns OK.
* A file that is cut between two fields loads as a server with empty parts
  (`Load` in `ServerFile`; in `ServerStore` it is never in the way of a file that was
  saved to its end).
* The tool removes `db_file_path`, at which there is no file, and leaves the
  numbered ones; a later run with that path keeps them (`KeepFile`), with another
  database in them than the one it compares answers with.
* `batch_wide`: `BatchMulModAvx2<Uint64>`, behind `ModularInt::BatchMul` and
  `BatchFusedMulAdd` for moduli of more than 50 bits, subtracts p at most once and
  only from a number greater than p. For moduli just above a power of two the Barrett
  quotient is short by two, and for composite moduli the remainder may be p itself, so
  that what is stored is not below p. In the lanes of the run, 125 * 129 modulo 139 is left at 140
  where `Mul` gives 1. `modular_int_test.cc` compares with
  `Mul` at moduli that are not of this kind. `WideProductsCongruent` holds: later operations
  that reduce fully get the right residue.
* The comment above `BatchReduceWith63BitModulus64` says "Returns x mod p"; a word with
  a clear sign bit is returned as it is. Its one caller needs only congruence.
* `VerifiedLookupReturnsEntry` needs Ell d (p - 1) to be less than the plaintext
  modulus of the inner protocol. `VpirParams::Create` does not compare them, and its
  default for 32-bit coefficients, 8192, can be exceeded by a database of bytes
  from Ell d = 64 on, where a row of C may add up to 64 of them.
  `WrappedProofRefused`: the fetch of proof material then fails, it does not mislead.
* `StoredVpirDataIncomplete`: stored VPIR data can be loaded without an error
  and never served. The functions that store and load it have no caller in the repository.
* `DeserializeVpirParams` rebuilds the inner parameters and `local_finalize` from the
  defaults of `Create`, as the message has no fields for them: two parties whose parameters were
  given explicitly and sent as a message differ.
* `preprocessing_server.h:199` casts the plaintext modulus to the type of a database
  entry. `AlgebraAssumption` has a modulus that fits; `PirParams::Create` does not ask
  for it. The cast matters for t > 1 only, as a row of one entry is returned before the
  modulus is used.
* A comment at `VerticalConcatenate` in `matrix.h` promises an error for an empty
  vector of matrices; it returns an empty matrix. No caller passes one.
* `OneServableRequest` holds, and with it the undocumented rule that a client
  object must not be used for a second lookup.

## 5. What is proved

All theorems hold for every value of the constants under the named assumptions
`ParamsAssumption` (what `PirParams::Create` enforces), `ProtocolAssumption` (the
shape of what is tried) and `OneShotAssumption`.

* `Typing`: `Spec => []TypeOK`.
* `IndexSelects`: for every geometry and every index, the matrix product with the
  unit vector and Horner's rule at the monomial select exactly the entry of the
  index. The argument: quotient and remainder determine a row and a column;
  the monomials of two columns differ because (2d/t) col < 2d, and X^d = -1 makes
  exponent and sign determine each other.
* `Order`: `StreamInOrder` is inductive together with `TypeOK`. It is needed since
  `FreshAnswerRight` alone is not inductive: it speaks of the answer just given,
  and its truth was decided when the request was made (by where the client stood)
  and when it was served (by how the server had expanded its seed).
* `FreshAnswers`, `OneRequestPerClient`, `ComponentsUsedOnce`, `NoWrongAnswers`
  follow from `Order`; `OneRequestPerClient` because two requests of a client
  occupy stretches of the stream one after the other, while all servers expand
  the same stretch.
* `Disciplined`: one object per lookup keeps every response aligned and every
  query inside the server's size window.
* `Refinement`: `OneShotSafety => Retrieval`, each step of the protocol being a
  step or a stutter of `PirRetrieval`.

For `VpirSession`, under `VpirAssumption`:

* `Invariant`: `Inv` is inductive. Its parts: `TypeOK`; `Behind` (a request begins
  before its client's place in the stream); `KeptKey`; `Material` (Z' is never newer
  than C, and older unless the fetch that drew C passed its check, when C, Z and Z' are
  all from that fetch); `Verdict` (the last result is what the client as it is says of that
  response). `KeptKey` needs `Behind`, so that the newest request is also the
  furthest.
* `Typing`, `KeysKept`, `Proved`, `Honest`, `FirstRequests` follow from it. For
  `Proved`, a response that passes carries the call that drew C in Z', and that call has
  not assigned Z' unless it succeeded. For
  `FirstRequests`, verification ties the response to the server of the fetch and
  thereby to the packing outputs, and `KeptKey` the key half to the request at 0.

For `PreprocessedDir`, under `DirAssumption` (a seed for each generation, and marks
that are none of the values they stand beside), for any number of shards, blocks, saves and seeds:

* `Invariant`: `Inv` is inductive. Its parts: `SaveInOrder` (a save that runs has
  left every file behind it at its full length, unless an end went missing);
  `SettledOnDisk` (a save that has settled has left all of them); `LoadInOrder` (a
  load that began after that, with none begun since, has read what is still on
  the disk); `ServerInOrder` (so has the server made from it). They are needed since
  what a load returns was decided block by block, by what the disk held then.
* `Loads` and `Answers` (`SettledLoads`, `SettledAnswers`) follow.
* `SeedPerSave`: if no two generations share a seed, `OneDatabase` holds. The
  run `dir_torn` refutes it where they may; so it is the shared seed that mixes
  databases, not the torn directory.

For files of servers, under `FileAssumption` and, of a database, `Apart`: the
marks of the model (`Nothing`, `Zeros`, ...) are none of the values in a file.

* `RoundTrip`: `Load(Content(Fresh(db))) = Reloaded(db)`, for any number of
  shards, slices and digits. The argument goes along the file: the cells before a
  part have the length that the reader has counted when it gets there
  (concatenations of any number of pieces, by induction), and each part is read
  back from its place. For condensed matrices the words are put together from
  the entries they were taken to.
* `ResavedPlain`, `ResavedCondensed`: what becomes of a server that is loaded and
  saved again. With words of one entry it comes back for ever; with two, the second
  file never has the matrix of the first, whatever the sizes. The run
  `server_resave` has one instance of it.
* `Invariant` of `ServerStore`: `OwnedOnDisk` (a save that returned OK is on the
  disk as it was written) and `ToolInOrder` (the tool has the database of its number,
  what it saved is on the disk; once it reads, it saves no more, its buffer has the
  length of the first file, and its last answer came from the file it picked). `ComesBack`, `WholeFiles` and
  `Own` (`SavedComesBack`, `WholeFilesServe`, `OwnDatabase`) follow, by `RoundTrip`.
  `WholeFiles` needs that a file saved to its end leaves nothing of a former
  content of the buffer to be read.

For modular arithmetic, under `IntBitsAssumption`, `BatchAssumption` (a word has at
least the bits of a significand, four or more, and an even number of them) and
`BatchCasesAssumption`, for words, significands, registers and vectors of any size
and every modulus that `ModularIntParams::Create` accepts. `PowersAssumption` says
what a power of two is: the provers do not know it, TLC computes it.

* `Sums`, `ProductsOfResidues`: `Barrett` is the lemma behind both. A quotient by
  `D div m` in the place of `D / m` is short by less than two, so what is left is
  below 2m, fits a word and takes one subtraction; the wrapping of the product
  before the subtraction does no harm, as the difference is small.
* `SingleNumbers` (`ModularIntExact`) needs Fermat's theorem for the inverse:
  a product of residues is 0 modulo a prime only if one of them is; the powers of x
  come back to 1, first after d steps, say; a set that x maps into itself consists
  of orbits of d elements, so d divides m - 1. `ModExpOf` shows that square and
  multiply raises to the exponent: a loop invariant on its k-th step.
* `Lanes` (`LanesExact`): sums with a signed comparison or an unsigned minimum are
  those of single numbers; the narrow product by a reciprocal that is scaled to the
  length of p is too (`ShortBarrett`: short by less than two again, but only because
  p exceeds half a power of two). `Uint50Exact` is about the product in doubles: the three
  roundings, each of one part in 2^FloatBits (`ToDoubleClose`), together move the
  quotient by less than one to either side if p is below 2^(FloatBits - 3)
  (`RoundedQuotient`); all that comes after is exact because it fits the
  significand (`ToDoubleSmall`), and the two corrections are enough.
* `WideProducts` (`WideProductsCongruent`): products put together from half
  words are exact (`BatchMul64Exact`); of residues, what the one subtraction
  leaves is below 3p / 2, which is why sums of it stay below 2p. `WideProductsExact` is what
  cannot be proved: `batch_wide`.
* `Places` (`BatchesAgree`): `MaximumBatch` and the loop after it meet at the
  last whole register, whatever its size.

For the algorithms, under `PolynomialsAssumption` (the ring degree is a power of two, as
`encryption.cc` demands), `GadgetsAssumption` (a digit is narrower than its
coefficient, and there is one), `ProductsAssumption` (a chunk, 20 bits of 64 in the code,
is narrower by two bits at least, and an entry of the database fits a coefficient) and
`PowersAssumption`, for every ring degree, width
of a coefficient, ring modulus 2^k and plaintext modulus:

* `Recompositions` (`DigitsRecompose`): the number that is left after k signed steps,
  times base^k, and the k digits so far add up to the coefficient (`SignedStep`,
  `DigitSums`). A carry out of the last digit is a multiple of q for an
  exact gadget, and never happens within half of what is left out for an
  approximate one, which rounds first (`RoundedNear`, `DigitsClose`). `RunningSums`
  takes the sum over a set of digits, which is how the model adds, to one by one.
* `Parameters` (`ParametersSurviveStorage`): `CeilLog2` of a power of two is its
  exponent, and the special moduli 0 and 1 do not collide with one.
* `AnyErrorDecrypts` and, for the cases of the run, `Decryption`
  (`BudgetedNoiseDecrypts`). A ciphertext `Encrypts` m up to e if b + a s is the scaled
  message plus e modulo q, over the integers and not as it wraps: `Wraps` shows that
  every mask and every overflow of a coefficient moves a number by a multiple of q only.
  `DecodedBack` is the rounding: the scaled message is within 1/2 of m q / p, so an
  error of at most (q - p) / 2p stays on m's side of both borders, whatever unit the
  number is in. For the switched ciphertext `RescaledNear` bounds each rounding by half
  a unit, `KeyProductsNear` what d of them add up to against a ternary key, and
  `SwitchedError` the three together.
* `InnerProductIs` and, for the cases of the run, `ChunkedProducts`
  (`ChunkedProductExact`). Products are linear in either operand (`ConvolvedRight`,
  `ConvolvedLeft`: a combination of operands gives the combination of products, modulo a
  number that both sides may be off by). The low bits of a number grow by a chunk at its
  place (`LowChunk`), so the weighted products with the chunks run through the products
  with the low bits and end at the whole (`BuiltRight`, `BuiltLeft`); the last chunk of
  a signed operand brings them to the number it stands for (`SignedWhole`), which differs
  from the coefficient by a multiple of 2^CoeffBits, as every shifted pair and
  every pair left out does (`PairIs`).
* `HintIs`, `HintCarries`, `OneBlockHint` and, for the cases of the run, `Hints`
  (`HintCarriesTheKey`). The batches cut the blocks of a row into stretches, so their sums
  add up to the sum over all blocks, each of them exact by `InnerProductIs`. What is left
  is that the inverted component turns a negacyclic product into its transpose (`Adjoint`): the
  two sums, over the places of a block and over those of the key, change places, and the
  sign of a wrapped product is the same from either side.
* `AutomorphTimes`, `AutomorphTwice`, `MonomialProduct` and, for the cases of the run,
  `Automorphisms` (`AutomorphismsOfTheRing`). A coefficient is given a value at every
  whole place m (`Ext`): the one at m mod d, negated if m div d is odd. A negacyclic product
  is then one sum without cases (`ConvIs`), unchanged by a shift. An odd power
  permutes the places, as it shares no divisor with a power of two, and moves the
  place m to m k with the sign it has there; so renaming the places of one sum gives
  the other.
* `ExternalProductNear` and, for the cases of the run, `ExternalProducts`
  (`ExternalProductMultiplies`). Over the integers the product is commutative and
  associative (`ConvCommutes`, `ConvAssociates`), and every step of the code agrees with it modulo q
  (`Alike`). A row of the RGSW ciphertext has the phase `one` 2^shift times X^k, or that
  times the key, plus its error (`RgswRows`); the digits times the rows add up to
  the errors times the digits and to the recomposed half times X^k (`HalfPhase`), and the
  recomposed half is the half up to its rounding (`RoundedConv`). What is left beside the
  wanted polynomial is bounded by sizes alone (`DigitErrors`, `ConvBounded`), and a
  number within the bound modulo q is read as one (`NearNumbers`).
* `CondensedProducts` and, for the cases of the run, `CondensedMatrices`
  (`CondensedAgrees`), under `MatricesAssumption` (a word fits whole bytes and is as wide as
  the widest coefficient, as 64 bits are): for every type of entry, size of a word,
  number of lanes, shape and vector, the product of a condensed matrix is that of the
  matrix it was made from. An entry comes back from its word because the entries below
  it add up to less than one unit of its place and those above it to a multiple of its
  range (`SignedWithin` adds the sign). The product adds over lanes, blocks and places of a word
  and the plain one over columns: the three sums change places, and two of them at a time
  are one sum over pieces (`SumInPieces`). A word may wrap, but 2^CoeffBits divides 2^WordBits.
  Stacking keeps the rows of both parts because both have whole words in a row.
* `RowEvaluates` and, for the cases of the run, `RowInterpolations`
  (`RowsEvaluateToEntries`). A stage of `Interpolate` puts together the two halves of
  a Fourier transform: the sum over the even places and X^j times that over the odd ones,
  with the sign turned in the second half of a block, as X^(2d/2) = -1. So after k stages a
  block of 2^k places holds the transform of the entries that are 2^(L-k) apart, from the place
  that the reversed bits of the block give; that is the invariant of the
  stages, and after the last one there is one block, with all the entries. Evaluating is a sum of
  transforms of that one: the two sums change places, and the sum of the powers of
  a root of unity is zero unless every power is one. This is where t <= 2d
  is needed: otherwise X^(2d/t) is no root. What is left is t times the entry, and the extended
  Euclidean algorithm gives the inverse of t: its invariant is that every remainder is
  t times its coefficient modulo p, and the coefficients stay within p; t and p share
  no divisor, as p is odd.

Induction over data is done for sets: `NatInd` in `Numbers` takes a set of numbers
in the place of the predicate, as the provers cannot instantiate an operator. A
recursive function is shown to exist first, for its domain cut at n.

### Only model-checked

`Retrieved`: liveness is beyond the prover. Of `PirAlgorithms`: the three
properties of packing, `PackingKeepsPhases`, `PackingPathsAgree` and
`PackMatrixSurvivesSaving`, which collapse d ciphertexts by key switches under two
automorphisms, and compare that with its matrix form through transforms of whole polynomials; whole
lookups, plain and verified (`LookupReturnsEntry`, `VerifiedLookupReturnsEntry`,
`WrappedProofRefused`), which put all of these together and hold for parameters whose
noise fits; and `StoredDataAnswersAlike` and `StoredVpirDataIncomplete`, which compare whole
answers before and after storage. They are checked on the instance above.
`OneDatabase` (with a shared seed), `ReusableProof`, `EverySaveComesBack` and
`WideProductsExact` are violated.

## 6. What is not modelled, and the plan

In this order:

1. More theorems: the transforms of `EvaluateNtt` and `BuildPreprocessMatrix` as sums
   over roots of unity, and that packed entries survive saving.
2. `ModularInt`'s own messages (`Serialize`, `Deserialize` and their vector forms), which
   nothing under `crypto/` calls.
3. The sums and submatrices of `Matrix`, which no protocol uses.

Never modelled: noise growth and cryptographic hardness (not a matter of
states), timing members and metrics (no answer depends on them), sampling, flags, logging and the benchmark suite.
`PROJECT.json` gives the reason for each component.
