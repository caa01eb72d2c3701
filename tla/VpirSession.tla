----------------------------- MODULE VpirSession -----------------------------
(***************************************************************************)
(* Verifiable PIR: what a VpirClient carries from call to call.            *)
(*                                                                         *)
(* GetProofPreprocessMaterial draws a random matrix C, fetches Z = C DB    *)
(* through PIR, checks it against the server's hint, and computes Z' = C P *)
(* from the packing matrices P that the server sends along.  A response x  *)
(* to a request u verifies if [Z Z'] u = C x, that is, if it was computed  *)
(* from u with the database behind Z and the packing matrices behind Z'.   *)
(* Decryption is a different matter: it depends on the place of the        *)
(* request in the a stream (see PirProtocol), on the packing outputs the   *)
(* client holds, and, when packing is finalized locally, on the half of    *)
(* the packing key that the client kept back.  All of these are members    *)
(* that calls assign one after the other, and calls may fail in between.   *)
(*                                                                         *)
(* Matrices are named by what they were computed from, and two products    *)
(* are equal iff they were computed from the same things; the error        *)
(* 2^-kappa of the check is taken to be none.                              *)
(***************************************************************************)
EXTENDS Integers, FiniteSets

CONSTANTS
    Clients,        \* each owns at most one VpirClient
    Seeds,          \* seeds of the a stream
    Generations,    \* successive contents of the database
    Indices,        \* the entries that are asked for
    FirstLen,       \* draws for the first dimension of a request
    PackLen,        \* draws for its packing key
    LocalFinalize,  \* whether the client finishes the packing
    FaultPoints,    \* draws after which a PRNG error may surface
    MaxDraws,       \* bound: draws one client takes from its stream
    MaxCalls,       \* bound: fetches of proof material by one client
    MaxResponses,   \* bound: responses that are kept
    None,           \* no object, no matrix
    Garbage         \* what a decryption under mismatched randomness yields

Servers == [seed : Seeds, gen : Generations]

Maybe(S) == S \cup {None}

ClientObjects ==
    [seed : Seeds, cursor : 0 .. MaxDraws, lastY : Maybe(0 .. MaxDraws),
     outputs : Maybe(Servers), c : Maybe(1 .. MaxCalls),
     z : Maybe([call : 1 .. MaxCalls, gen : Generations]),
     zPrime : Maybe([call : 1 .. MaxCalls, of : Servers]),
     calls : 0 .. MaxCalls, reached : 0 .. MaxCalls, proved : Maybe(Servers)]

Requests == [owner : Clients, seed : Seeds, from : 0 .. MaxDraws, index : Indices]

ASSUME VpirAssumption ==
    /\ FirstLen \in Nat \ {0} /\ PackLen \in Nat \ {0}
    /\ LocalFinalize \in BOOLEAN
    /\ FaultPoints \subseteq Nat
    /\ {MaxDraws, MaxCalls, MaxResponses} \subseteq Nat
    /\ None \notin Nat /\ None \notin Servers /\ None \notin ClientObjects
    /\ None \notin [call : 1 .. MaxCalls, of : Servers]

VARIABLES
    server,     \* what the online VpirServer was preprocessed from
    client,     \* the VpirClient of each process
    requests,   \* every request ever made; may be sent again
    responses,  \* the responses that were sent; may be processed again
    result      \* what the last call returned

vars == <<server, client, requests, responses, result>>

Done == [status |-> "done"]

Refused == [status |-> "refused"]

-----------------------------------------------------------------------------
(* The server *)

\* VpirPreprocessingServer::Preprocess and VpirServer::Create.
InstallServer(seed, gen) ==
    /\ server' = [seed |-> seed, gen |-> gen]
    /\ result' = Done
    /\ UNCHANGED <<client, requests, responses>>

\* A response although no server could be created.
SlipServeRequest(req) ==
    /\ Cardinality(responses) < MaxResponses
    /\ responses' = responses \cup {[req |-> req, srv |-> server]}
    /\ result' = Done
    /\ UNCHANGED <<server, client, requests>>

\* VpirServer::ProcessResponse, or ProcessResponseWithMatMul, which computes
\* the same.
ServeRequest(req) ==
    /\ server # None
    /\ Cardinality(responses) < MaxResponses
    /\ responses' = responses \cup {[req |-> req, srv |-> server]}
    /\ result' = Done
    /\ UNCHANGED <<server, client, requests>>

-----------------------------------------------------------------------------
(* Requests *)

\* VpirClient::Create.  outputs are the packing outputs, by their server; c, z
\* and zPrime the proof material, by the call that drew C; lastY the packing
\* key half kept back, by the place of its request.  Ghosts: how many fetches of
\* proof material there were, the last one that got hold of all of Z, and its
\* server if that Z passed the check.
CreateClient(c, seed) ==
    /\ client[c] = None
    /\ client' = [client EXCEPT ![c] =
           [seed |-> seed, cursor |-> 0, outputs |-> None, lastY |-> None,
            c |-> None, z |-> None, zPrime |-> None, calls |-> 0,
            reached |-> 0, proved |-> None]]
    /\ result' = Done
    /\ UNCHANGED <<server, requests, responses>>

\* SampleAComponents moves the client's PRNG.
Drawn(c, n) == client[c].cursor + n

CreateRequest(c, index) ==
    /\ client[c] # None
    /\ Drawn(c, FirstLen + PackLen) <= MaxDraws
    /\ requests' = requests \cup {[owner |-> c, seed |-> client[c].seed,
                                   from |-> client[c].cursor, index |-> index]}
    /\ client' = [client EXCEPT
           ![c].cursor = Drawn(c, FirstLen + PackLen),
           ![c].lastY = IF LocalFinalize THEN client[c].cursor ELSE @]
    /\ result' = Done
    /\ UNCHANGED <<server, responses>>

\* The packing key half assigned although the call fails.
SlipInterruptRequest(c, n) ==
    /\ client[c] # None
    /\ n <= FirstLen + PackLen /\ Drawn(c, n) <= MaxDraws
    /\ client' = [client EXCEPT
           ![c].cursor = Drawn(c, n),
           ![c].lastY = IF LocalFinalize THEN client[c].cursor ELSE @]
    /\ result' = Refused
    /\ UNCHANGED <<server, requests, responses>>

\* CreateRequest fails half-way: the draws are not given back, and the packing
\* key half of the request before is kept.
InterruptRequest(c, n) ==
    /\ client[c] # None
    /\ n <= FirstLen + PackLen /\ Drawn(c, n) <= MaxDraws
    /\ client' = [client EXCEPT ![c].cursor = Drawn(c, n)]
    /\ result' = Refused
    /\ UNCHANGED <<server, requests, responses>>

\* Public, and moves the stream.
CreatePackingKey(c) ==
    /\ client[c] # None
    /\ Drawn(c, PackLen) <= MaxDraws
    /\ client' = [client EXCEPT ![c].cursor = Drawn(c, PackLen)]
    /\ result' = Done
    /\ UNCHANGED <<server, requests, responses>>

-----------------------------------------------------------------------------
(* Proof material *)

\* The steps of GetProofPreprocessMaterial that assign members, in order.
Assignments == {"none", "outputs", "cz", "all"}

\* A call that gets as far as upTo.  Z and C are assigned together, after all of
\* Z has been decrypted; newZPrime says whether Z' is replaced.
Fetch(c, upTo, newZPrime) ==
    LET call == client[c].calls + 1
        newZ == upTo \in {"cz", "all"}
    IN  /\ client[c] # None /\ server # None /\ call <= MaxCalls
        /\ client' = [client EXCEPT
               ![c].calls = call,
               ![c].reached = IF newZ THEN call ELSE @,
               ![c].proved = IF upTo = "all" THEN server ELSE IF newZ THEN None ELSE @,
               ![c].outputs = IF upTo # "none" THEN server ELSE @,
               ![c].c = IF newZ THEN call ELSE @,
               ![c].z = IF newZ THEN [call |-> call, gen |-> server.gen] ELSE @,
               ![c].zPrime = IF newZPrime THEN [call |-> call, of |-> server] ELSE @]
        /\ result' = IF upTo = "all" THEN Done ELSE Refused
        /\ UNCHANGED <<server, requests, responses>>

\* Z' computed only once.
SlipGetProofPreprocessMaterial(c, upTo) ==
    Fetch(c, upTo, upTo = "all" /\ client[c].zPrime = None)

\* Z' computed and assigned before Z is checked.
SlipUncheckedProof(c, upTo) == Fetch(c, upTo, upTo \in {"cz", "all"})

\* The call returns an error before it has assigned anything, when a response
\* to the queries for Z does not decrypt, when Z A = C H does not hold (Z is
\* fetched modulo the plaintext modulus of the inner PIR) or CreateHPrimeMatrix
\* fails, or it succeeds.  What has been assigned by then stays; Z' is assigned
\* only when nothing can fail any more.
GetProofPreprocessMaterial(c, upTo) == Fetch(c, upTo, upTo = "all")

\* A client without proof material gets the packing outputs by themselves.
SetPreprocessedOutputs(c) ==
    /\ client[c] # None /\ server # None
    /\ client' = [client EXCEPT ![c].outputs = server]
    /\ result' = Done
    /\ UNCHANGED <<server, requests, responses>>

-----------------------------------------------------------------------------
(* Responses *)

\* VerifyResponse: nothing to verify without a C.
Verifies(k, resp, req) ==
    \/ k.c = None
    \/ /\ resp.req = req
       /\ k.z = [call |-> k.c, gen |-> resp.srv.gen]
       /\ k.zPrime = [call |-> k.c, of |-> resp.srv]

\* What DecryptResponse needs to have at all.
CanDecrypt(k) ==
    /\ k.outputs # None
    /\ LocalFinalize => k.lastY # None

\* The client does not look at the request again: it decrypts what it is given
\* with the members it has.
Decrypt(c, resp) ==
    LET k == client[c]
    IN  IF /\ resp.req.owner = c
           /\ resp.req.seed = resp.srv.seed /\ resp.req.from = 0
           /\ k.outputs = resp.srv
           /\ LocalFinalize => k.lastY = resp.req.from
        THEN [gen |-> resp.srv.gen, index |-> resp.req.index]
        ELSE Garbage

Accepts(c, resp, req) == Verifies(client[c], resp, req) /\ CanDecrypt(client[c])

\* ProcessResponse is given the request that the caller thinks it answers.
ProcessResponse(c, resp, req) ==
    /\ client[c] # None
    /\ \/ /\ Accepts(c, resp, req)
          /\ result' = [status |-> "accepted", by |-> c, resp |-> resp,
                        req |-> req, got |-> Decrypt(c, resp)]
       \/ /\ ~Accepts(c, resp, req)
          /\ result' = [status |-> "rejected", by |-> c, resp |-> resp, req |-> req]
    /\ UNCHANGED <<server, client, requests, responses>>

-----------------------------------------------------------------------------
Init ==
    /\ server = None
    /\ client = [c \in Clients |-> None]
    /\ requests = {}
    /\ responses = {}
    /\ result = Done

ServerStep ==
    \/ \E seed \in Seeds, gen \in Generations : InstallServer(seed, gen)
    \/ \E req \in requests : ServeRequest(req)

ClientStep(c) ==
    \/ \E seed \in Seeds : CreateClient(c, seed)
    \/ \E index \in Indices : CreateRequest(c, index)
    \/ \E n \in FaultPoints : InterruptRequest(c, n)
    \/ CreatePackingKey(c)
    \/ \E upTo \in Assignments : GetProofPreprocessMaterial(c, upTo)
    \/ SetPreprocessedOutputs(c)
    \/ \E resp \in responses, req \in requests : ProcessResponse(c, resp, req)

Next == ServerStep \/ \E c \in Clients : ClientStep(c)

Spec == Init /\ [][Next]_vars

-----------------------------------------------------------------------------
(* Properties *)

\* Every object keeps the shape of its class, and a half of a packing key is
\* kept back only by a client that finishes the packing.
TypeOK ==
    /\ server \in Maybe(Servers)
    /\ client \in [Clients -> Maybe(ClientObjects)]
    /\ requests \subseteq Requests
    /\ responses \subseteq [req : requests, srv : Servers]
    /\ \A c \in Clients : client[c] # None /\ ~LocalFinalize => client[c].lastY = None

\* Where the requests that a client has made begin.
Begun(c) == {req.from : req \in {r \in requests : r.owner = c}}

\* The half of the packing key in a client's hands is that of the last request
\* that it made, whatever calls have failed or moved the stream since.
KeptKey ==
    \A c \in Clients : client[c] # None /\ LocalFinalize =>
        \/ Begun(c) = {} /\ client[c].lastY = None
        \/ client[c].lastY \in Begun(c) /\ \A f \in Begun(c) : f <= client[c].lastY

Accepted == result.status = "accepted"

Rejected == result.status = "rejected"

\* The client that made the last call.
Caller == client[result.by]

Right == [gen |-> result.resp.srv.gen, index |-> result.req.index]

\* The last fetch that replaced C and Z passed the check, and the packing outputs in
\* use are its own.
Fetched(k) == k.proved # None /\ k.outputs = k.proved

\* The caller asks about its own request, made under the seed of the server
\* that answered, and has made none since.
Current ==
    /\ result.req.owner = result.by
    /\ result.req.seed = result.resp.srv.seed
    /\ \A req \in requests : req.owner = result.by => req.from <= result.req.from

\* What is accepted has been proved.  Responses pass unchecked only until a fetch of
\* that client gets hold of all of Z.  From then on an accepted response is from
\* the server of the last fetch that did, and that fetch has passed its check: a
\* fetch that fails earlier leaves the former proof in force, and after one that
\* fails its check nothing is accepted until another succeeds
\* (GetProofPreprocessMaterial and VerifyResponse).
AcceptedIsProved ==
    Accepted /\ Caller.reached # 0 =>
        Caller.proved # None /\ result.resp = [req |-> result.req, srv |-> Caller.proved]

\* And what has been proved is accepted: the client does not reject what that server
\* computed for a request of its own, be it the request at hand or one from long
\* ago, whatever calls have failed before that fetch, or short of Z since.
HonestAccepted ==
    Rejected /\ Caller.proved # None
             /\ result.resp.req = result.req /\ result.req.owner = result.by
             => result.resp.srv # Caller.proved

\* With material from a successful fetch, a client object's first request is
\* decrypted rightly as long as no other has been made: neither calls that
\* failed since nor material fetched again in between do any harm.
FirstRequestRight ==
    Accepted /\ Fetched(Caller) /\ Current /\ result.req.from = 0
        => result.got = Right

\* "Preprocessed material can be reused for multiple queries": with material
\* from a successful fetch, a current request that is accepted is decrypted
\* rightly, whether or not it is the first.
ReusableProof ==
    Accepted /\ Fetched(Caller) /\ Current => result.got = Right
=============================================================================
