---------------------------- MODULE PirProtocol ----------------------------
(***************************************************************************)
(* Clients and servers of the PIR protocol, as seen through the stream of  *)
(* "a" components that ties them together.                                 *)
(*                                                                         *)
(* A request carries only the b halves of its ciphertexts.  The matching a *)
(* halves are never sent: the preprocessing server expands them from a     *)
(* seed, always from the START of the stream, and folds them into the data *)
(* it hands to the online server; a client expands them from the same seed *)
(* with a PRNG object it keeps, so each call continues where the previous  *)
(* call stopped.  Nothing in a request says which part of the stream it    *)
(* used, so a mismatch is not an error anywhere: the client just decrypts  *)
(* noise.  The model keeps the positions and the payloads of ciphertexts   *)
(* and abstracts the ring arithmetic: decryption yields the payload when   *)
(* the a halves of the two sides agree and Garbage otherwise.              *)
(***************************************************************************)
EXTENDS PirParams, FiniteSets

CONSTANTS
    Clients,        \* client processes; each owns at most one PirClient
    Seeds,          \* seeds of the "a" stream
    Generations,    \* successive contents of the database
    Indices,        \* the arguments of CreateRequest that are tried
    Vectors,        \* the arguments of CreateRequestForVector that are tried
    FaultPoints,    \* draws after which a PRNG error may surface
    MaxDraws,       \* bound: draws one client takes from its stream
    MaxInFlight,    \* bound: responses not yet processed
    None,           \* no object
    Garbage         \* what a decryption under mismatched randomness yields

Slices == [from : Nat, len : Nat]

Servers == [seed : Seeds, gen : Generations,
            first : Slices, second : Slices, pack : Slices]

\* cursor is the position of the client's PRNG in its stream; consumed is a
\* ghost that records whether the object has been used before.
ClientObjects == [seed : Seeds, cursor : 0 .. MaxDraws, consumed : BOOLEAN]

ASSUME ProtocolAssumption ==
    /\ Indices \subseteq Int
    /\ \A v \in Vectors : /\ IsFiniteSet(DOMAIN v)
                           /\ v \in [0 .. Cardinality(DOMAIN v) - 1 -> Nat]
    /\ FaultPoints \subseteq Nat
    /\ MaxDraws \in Nat
    /\ MaxInFlight \in Nat \ {0}
    /\ None \notin ClientObjects /\ None \notin Servers

VARIABLES
    server,     \* the online PirServer
    client,     \* the PirClient of each process
    requests,   \* every request ever returned to a caller; may be resent
    responses,  \* responses sent and not yet processed
    result      \* what the last call of a client or server returned

vars == <<server, client, requests, responses, result>>

Slice(from, len) == [from |-> from, len |-> len]

\* The results of a call that returns no answer.
Done == [status |-> "done"]

Refused == [status |-> "error"]

-----------------------------------------------------------------------------
(* The servers *)

\* The parts of the stream PreprocessingServer::Preprocess samples from a PRNG
\* it creates anew from the seed: first dimension, then second dimension if
\* there is one, then packing key.
PreprocessFirst == Slice(0, FirstLen)

\* Sampling the second dimension although there is none.
SlipPreprocessSecond == Slice(FirstLen, SecondLen)

PreprocessSecond == Slice(FirstLen, IF HasSecondDim THEN SecondLen ELSE 0)

\* Sampling the packing key before the second dimension.
SlipPreprocessPack == Slice(FirstLen, PackLen)

PreprocessPack ==
    Slice(PreprocessSecond.from + PreprocessSecond.len, PackLen)

\* A server that keeps its PRNG from one Preprocess to the next.
SlipInstallServer(seed, gen) ==
    LET start == IF server = None THEN 0 ELSE server.pack.from + server.pack.len
    IN  /\ server' = [seed |-> seed, gen |-> gen,
                      first |-> Slice(start + PreprocessFirst.from, FirstLen),
                      second |-> Slice(start + PreprocessSecond.from, PreprocessSecond.len),
                      pack |-> Slice(start + PreprocessPack.from, PackLen)]
        /\ result' = Done
        /\ UNCHANGED <<client, requests, responses>>

\* PreprocessingServer::Create and Preprocess, then PirServer::Create: an
\* online server for one generation of the database replaces the one there is.
InstallServer(seed, gen) ==
    /\ server' = [seed |-> seed, gen |-> gen, first |-> PreprocessFirst,
                  second |-> PreprocessSecond, pack |-> PreprocessPack]
    /\ result' = Done
    /\ UNCHANGED <<client, requests, responses>>

\* Do the a halves that a server expanded belong to the b halves of a request?
\* Chunks of a vector beyond the first FirstLen meet only zero columns.
Aligned(req, srv) ==
    /\ req.seed = srv.seed
    /\ req.first.from = srv.first.from
    /\ req.first.len >= srv.first.len
    /\ HasSecondDim => req.second = srv.second
    /\ req.pack = srv.pack

\* The entries that the matrix product and Horner's rule combine for a request.
ColumnsAt(mono) ==
    IF HasSecondDim
    THEN { col \in 0 .. InterpolationDegree - 1 : Monomial(col) = mono }
    ELSE {0}

\* The rows of a last chunk that is cut short forgotten.
SlipEvaluate(req) ==
    UNION { { <<r * InterpolationDegree + col, req.weights[r]>> :
                r \in { r \in 0 .. (InterpolatedRows \div Degree) * Degree - 1 :
                            r \in DOMAIN req.weights /\ req.weights[r] # 0 } } :
            col \in ColumnsAt(req.mono) }

Evaluate(req) == UNION { Combination(req.weights, col) : col \in ColumnsAt(req.mono) }

\* The bound on a query's size off by one.
SlipQuerySizeOK(req) == req.size >= InterpolatedRows /\ req.size < DbCols

QuerySizeOK(req) == req.size \in InterpolatedRows .. DbCols

\* PirServer::ProcessResponse.  The server keeps no state between requests, so
\* a request may be processed any number of times, by whichever server is on.
ServeRequest(req) ==
    /\ server # None
    /\ QuerySizeOK(req)
    /\ Cardinality(responses) < MaxInFlight
    /\ responses' = responses \cup
           { [req |-> req, gen |-> server.gen, aligned |-> Aligned(req, server),
              seed |-> server.seed, value |-> Evaluate(req),
              ciphertexts |-> EntrySizeMultiple] }
    /\ result' = Done
    /\ UNCHANGED <<server, client, requests>>

\* A first dimension query of the wrong size is refused.
RefuseRequest(req) ==
    /\ server # None
    /\ ~QuerySizeOK(req)
    /\ result' = Refused
    /\ UNCHANGED <<server, client, requests, responses>>

-----------------------------------------------------------------------------
(* The clients *)

\* PirClient::Create with an "a" PRNG freshly created from a seed.
CreateClient(c, seed) ==
    /\ client[c] = None
    /\ client' = [client EXCEPT ![c] =
           [seed |-> seed, cursor |-> 0, consumed |-> FALSE]]
    /\ result' = Done
    /\ UNCHANGED <<server, requests, responses>>

\* A PRNG that is created anew from the seed for every call.
SlipDraw(c, n) ==
    /\ n <= MaxDraws
    /\ client' = [client EXCEPT ![c].consumed = TRUE]

\* SampleAComponents moves the client's PRNG by n draws.
Draw(c, n) ==
    /\ client[c].cursor + n <= MaxDraws
    /\ client' = [client EXCEPT ![c].cursor = @ + n, ![c].consumed = TRUE]

\* The slices of a request whose first dimension takes n draws from cursor.
SecondSlice(from) == Slice(from, IF HasSecondDim THEN SecondLen ELSE 0)

RequestLen(n) == n + SecondSlice(n).len + PackLen

\* The two gadgets encrypted under the same samples.
SlipMakeRequest(c, n, weights, size, mono, want) ==
    LET cursor == client[c].cursor
    IN  [owner |-> c, seed |-> client[c].seed,
         first |-> Slice(cursor, n),
         second |-> SecondSlice(cursor + n),
         pack |-> Slice(cursor + n, PackLen),
         weights |-> weights, size |-> size, mono |-> mono,
         want |-> want, fresh |-> ~client[c].consumed]

\* The request a client builds from its cursor, for n first-dimension draws;
\* want and fresh are ghosts: what the caller asked for, and whether this is
\* the first use of the client's PRNG.
MakeRequest(c, n, weights, size, mono, want) ==
    LET cursor == client[c].cursor
        second == SecondSlice(cursor + n)
    IN  [owner |-> c, seed |-> client[c].seed,
         first |-> Slice(cursor, n),
         second |-> second,
         pack |-> Slice(second.from + second.len, PackLen),
         weights |-> weights, size |-> size, mono |-> mono,
         want |-> want, fresh |-> ~client[c].consumed]

\* A signed index checked from above only.
SlipCreateRequest(c, index) ==
    /\ client[c] # None
    /\ index < NumEntries
    /\ Draw(c, RequestLen(FirstLen))
    /\ requests' = requests \cup
           { MakeRequest(c, FirstLen, UnitVector(index), InterpolatedRows,
                         Monomial(ColOf(index)), {<<index, 1>>}) }
    /\ result' = Done
    /\ UNCHANGED <<server, responses>>

\* PirClient::CreateRequest for an index in bounds.
CreateRequest(c, index) ==
    /\ client[c] # None
    /\ index \in Entries
    /\ Draw(c, RequestLen(FirstLen))
    /\ requests' = requests \cup
           { MakeRequest(c, FirstLen, UnitVector(index), InterpolatedRows,
                         Monomial(ColOf(index)), {<<index, 1>>}) }
    /\ result' = Done
    /\ UNCHANGED <<server, responses>>

\* An index out of bounds is refused before anything is sampled.
RefuseIndex(c, index) ==
    /\ client[c] # None
    /\ index \notin Entries
    /\ result' = Refused
    /\ UNCHANGED <<server, client, requests, responses>>

VectorSize(v) == Cardinality(DOMAIN v)

VectorSizeOK(v) == VectorSize(v) > 0 /\ VectorSize(v) % Degree = 0

\* PirClient::CreateRequestForVector: only without a second dimension, and
\* only for vectors of whole chunks.
CreateRequestForVector(c, v) ==
    /\ client[c] # None
    /\ ~HasSecondDim
    /\ VectorSizeOK(v)
    /\ \A i \in DOMAIN v : v[i] < PlaintextModulus
    /\ Draw(c, RequestLen(VectorSize(v)))
    /\ requests' = requests \cup
           { MakeRequest(c, VectorSize(v), v, VectorSize(v), Monomial(0),
                         Combination(v, 0)) }
    /\ result' = Done
    /\ UNCHANGED <<server, responses>>

RefuseVector(c, v) ==
    /\ client[c] # None
    /\ HasSecondDim \/ ~VectorSizeOK(v)
    /\ result' = Refused
    /\ UNCHANGED <<server, client, requests, responses>>

\* A coefficient that does not fit the plaintext modulus is noticed only by
\* EncryptFromRlweSample, when the first dimension's samples have been drawn.
RefuseCoefficient(c, v) ==
    /\ client[c] # None
    /\ ~HasSecondDim
    /\ VectorSizeOK(v)
    /\ \E i \in DOMAIN v : v[i] >= PlaintextModulus
    /\ Draw(c, VectorSize(v))
    /\ result' = Refused
    /\ UNCHANGED <<server, requests, responses>>

\* PirClient::CreatePackingKey and CreateSecondDimensionQuery are public too,
\* and move the same PRNG.
CreatePackingKey(c) ==
    /\ client[c] # None
    /\ Draw(c, PackLen)
    /\ result' = Done
    /\ UNCHANGED <<server, requests, responses>>

CreateSecondDimensionQuery(c) ==
    /\ client[c] # None
    /\ Draw(c, SecondLen)
    /\ result' = Done
    /\ UNCHANGED <<server, requests, responses>>

\* A PRNG error surfaces in the middle of CreateRequest: the draws made so far
\* are not given back.
InterruptRequest(c, n) ==
    /\ client[c] # None
    /\ n <= RequestLen(FirstLen)
    /\ Draw(c, n)
    /\ result' = Refused
    /\ UNCHANGED <<server, requests, responses>>

\* DecryptAfterModulusSwitch under the secret key of client c.
Decrypt(c, resp) ==
    IF resp.req.owner = c /\ resp.aligned THEN resp.value ELSE Garbage

\* PirClient::ProcessResponse.  A response names neither its request nor its
\* client, so the caller may hand it to any client.
ProcessResponse(c, resp) ==
    /\ client[c] # None
    /\ resp.ciphertexts = EntrySizeMultiple
    /\ result' = [status |-> "answer", by |-> c, resp |-> resp,
                  got |-> Decrypt(c, resp)]
    /\ responses' = responses \ {resp}
    /\ UNCHANGED <<server, client, requests>>

-----------------------------------------------------------------------------
Init ==
    /\ server = None
    /\ client = [c \in Clients |-> None]
    /\ requests = {}
    /\ responses = {}
    /\ result = Done

ServerStep ==
    \/ \E seed \in Seeds, gen \in Generations : InstallServer(seed, gen)
    \/ \E req \in requests : ServeRequest(req) \/ RefuseRequest(req)

ClientStep(c) ==
    \/ \E seed \in Seeds : CreateClient(c, seed)
    \/ \E index \in Indices : CreateRequest(c, index) \/ RefuseIndex(c, index)
    \/ \E v \in Vectors :
           \/ CreateRequestForVector(c, v)
           \/ RefuseVector(c, v)
           \/ RefuseCoefficient(c, v)
    \/ CreatePackingKey(c)
    \/ CreateSecondDimensionQuery(c)
    \/ \E n \in FaultPoints : InterruptRequest(c, n)
    \/ \E resp \in responses : ProcessResponse(c, resp)

Next == ServerStep \/ \E c \in Clients : ClientStep(c)

Spec == Init /\ [][Next]_vars
-----------------------------------------------------------------------------
(* Properties *)

Answered == result.status = "answer"

IsRequest(r) ==
    /\ r = [owner |-> r.owner, seed |-> r.seed, first |-> r.first,
            second |-> r.second, pack |-> r.pack, weights |-> r.weights,
            size |-> r.size, mono |-> r.mono, want |-> r.want,
            fresh |-> r.fresh]
    /\ r.owner \in Clients /\ r.seed \in Seeds
    /\ {r.first, r.second, r.pack} \subseteq Slices
    /\ r.size \in Nat /\ r.weights \in [0 .. r.size - 1 -> Nat]
    /\ r.mono \in [neg : BOOLEAN, pos : Nat]
    /\ r.want \subseteq Nat \X Nat
    /\ r.fresh \in BOOLEAN

IsResponse(resp) ==
    /\ resp = [req |-> resp.req, gen |-> resp.gen, aligned |-> resp.aligned,
               seed |-> resp.seed, value |-> resp.value,
               ciphertexts |-> resp.ciphertexts]
    /\ resp.req \in requests
    /\ resp.gen \in Generations /\ resp.seed \in Seeds
    /\ resp.aligned \in BOOLEAN
    /\ resp.value \subseteq Nat \X Nat
    /\ resp.ciphertexts = EntrySizeMultiple

\* The shapes of the objects of pir_client.h, pir_server.h and pir_params.h.
TypeOK ==
    /\ server \in {None} \cup Servers
    /\ client \in [Clients -> {None} \cup ClientObjects]
    /\ \A r \in requests : IsRequest(r)
    /\ \A resp \in responses : IsResponse(resp)
    /\ Answered => /\ result = [status |-> "answer", by |-> result.by,
                                resp |-> result.resp, got |-> result.got]
                   /\ result.by \in Clients
                   /\ IsResponse(result.resp)

\* Any response to the first use of a client object, produced by a server
\* preprocessed under the client's seed, decrypts to exactly the entries asked
\* for - whatever other clients did, how often the request was sent, whether
\* the database was replaced in between, and whatever calls the client refused
\* before it drew anything (CreateRequest against PreprocessingServer::Preprocess).
\* An object that has drawn, in a call that failed too, is no longer fresh.
FreshAnswerRight ==
    Answered =>
        LET req == result.resp.req
        IN  /\ req.fresh
            /\ req.owner = result.by
            /\ req.seed = result.resp.seed
            /\ req.first.len = FirstLen
            => result.got = req.want

\* The other side of the coin: a client object is good for one request only.
\* Of two requests made by one PirClient, no server, whatever its seed, can
\* answer more than one (CreateRequest keeps the PRNG, Preprocess restarts it).
OneServableRequest ==
    \A r1, r2 \in requests :
        r1.owner = r2.owner /\ r1 # r2 =>
            \A seed \in Seeds :
                LET srv == [seed |-> seed, first |-> PreprocessFirst,
                            second |-> PreprocessSecond, pack |-> PreprocessPack]
                IN  ~(Aligned(r1, srv) /\ Aligned(r2, srv))

Positions(slice) == slice.from .. slice.from + slice.len - 1

Used(req) == Positions(req.first) \cup Positions(req.second) \cup Positions(req.pack)

\* No a component is ever used for two ciphertexts under one secret key: the
\* three parts of a request share no position of the stream, and neither do two
\* requests of one client.  Two b halves over one a half would give away the
\* difference of their messages, and gadget ciphertexts need independent ones.
AComponentsUsedOnce ==
    /\ \A r \in requests :
           /\ Positions(r.first) \cap Positions(r.second) = {}
           /\ Positions(r.first) \cap Positions(r.pack) = {}
           /\ Positions(r.second) \cap Positions(r.pack) = {}
    /\ \A r1, r2 \in requests :
           r1.owner = r2.owner /\ r1 # r2 => Used(r1) \cap Used(r2) = {}

\* An answer that decrypts is never an answer to something else: noise, or
\* exactly what its own request asked for.  In particular a request vector
\* longer than the first dimension, which the server accepts when the padded
\* matrix has room for it, never yields a wrong combination.
NoWrongAnswer ==
    Answered => result.got \in {Garbage, result.resp.req.want}

-----------------------------------------------------------------------------
(* The inductive invariant behind the four properties *)

End(req) == req.pack.from + req.pack.len

\* A request is laid out along the stream as Preprocess laid out its samples,
\* and the matrix product and Horner's rule undo the encoding of its query.
RequestLaidOut(req) ==
    /\ req.second = SecondSlice(req.first.from + req.first.len)
    /\ req.pack = Slice(req.second.from + req.second.len, PackLen)
    /\ req.fresh => req.first.from = 0
    /\ Evaluate(req) = req.want

\* A client's stream is ahead of all that its requests have used.
RequestDrawn(req) ==
    /\ client[req.owner] # None
    /\ End(req) <= client[req.owner].cursor

\* A response reports on its request as a server under its seed would see it.
ResponseHonest(resp) ==
    /\ resp.value = resp.req.want
    /\ resp.aligned =
           Aligned(resp.req, [seed |-> resp.seed, first |-> PreprocessFirst,
                              second |-> PreprocessSecond, pack |-> PreprocessPack])

\* The stream is handed out in order: every server expands it from the start,
\* an unused client stands at the start, requests of one client follow one
\* another, and responses and answers carry what their request asked for.
StreamInOrder ==
    /\ server # None => /\ server.first = PreprocessFirst
                        /\ server.second = PreprocessSecond
                        /\ server.pack = PreprocessPack
    /\ \A c \in Clients :
           client[c] # None /\ ~client[c].consumed => client[c].cursor = 0
    /\ \A req \in requests : RequestLaidOut(req) /\ RequestDrawn(req)
    /\ \A r1, r2 \in requests :
           r1.owner = r2.owner /\ r1 # r2 =>
               End(r1) <= r2.first.from \/ End(r2) <= r1.first.from
    /\ \A resp \in responses : ResponseHonest(resp)
    /\ Answered => /\ ResponseHonest(result.resp)
                   /\ result.got = Decrypt(result.by, result.resp)
=============================================================================
