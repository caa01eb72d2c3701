----------------------------- MODULE PirOneShot -----------------------------
(***************************************************************************)
(* PirProtocol as its callers drive it: one seed for the life of the       *)
(* server, one PirClient object per lookup, and a response goes back to    *)
(* the client that made the request.  This is the loop of                  *)
(* pir_end_to_end_real_params_test.cc and of the metrics tools.  Under it  *)
(* the protocol keeps the promise of PirRetrieval.                         *)
(***************************************************************************)
EXTENDS PirProtocol

CONSTANT SharedSeed

ASSUME OneShotAssumption ==
    /\ SharedSeed \in Seeds
    /\ None \notin Generations
    /\ \A e \in Entries : None # {<<e, 1>>}

\* The database may be preprocessed anew, always under the shared seed.
Reinstall == \E gen \in Generations : InstallServer(SharedSeed, gen)

\* The only call that uses the client's PRNG, whether it succeeds or not.
Lookup(c) ==
    /\ client[c] # None /\ ~client[c].consumed
    /\ \/ \E index \in Indices : CreateRequest(c, index) \/ RefuseIndex(c, index)
       \/ \E n \in FaultPoints : InterruptRequest(c, n)

\* A request is sent again only when its last response has been processed.
Serve(c) ==
    /\ \A resp \in responses : resp.req.owner # c
    /\ \E req \in requests :
           req.owner = c /\ (ServeRequest(req) \/ RefuseRequest(req))

Extract(c) ==
    \E resp \in responses : resp.req.owner = c /\ ProcessResponse(c, resp)

OneShotNext ==
    \/ Reinstall
    \/ \E c \in Clients :
           CreateClient(c, SharedSeed) \/ Lookup(c) \/ Serve(c) \/ Extract(c)

OneShotSafety == Init /\ [][OneShotNext]_vars

\* Each call returns and its caller goes on to the next: the tools and tests
\* are straight-line code around these calls.  No caller has to call Lookup.
OneShotSpec ==
    /\ OneShotSafety
    /\ WF_vars(Reinstall)
    /\ \A c \in Clients : WF_vars(Serve(c)) /\ WF_vars(Extract(c))
-----------------------------------------------------------------------------
(* The inductive invariant behind the refinement *)

\* Each client makes one request, first thing, for one entry; everything is
\* under the shared seed; no server has reason to refuse a request; each client
\* has at most one response to come, and it is aligned.
OneShotDiscipline ==
    /\ server # None => server.seed = SharedSeed
    /\ \A c \in Clients : client[c] # None => client[c].seed = SharedSeed
    /\ \A req \in requests :
           /\ client[req.owner].consumed
           /\ req.seed = SharedSeed
           /\ req.first = Slice(0, FirstLen)
           /\ QuerySizeOK(req)
           /\ \E e \in Entries : req.want = {<<e, 1>>}
    /\ \A r1, r2 \in requests : r1.owner = r2.owner => r1 = r2
    /\ \A resp \in responses : resp.aligned
    /\ \A r1, r2 \in responses : r1.req.owner = r2.req.owner => r1 = r2

-----------------------------------------------------------------------------
(* The refinement *)

RequestsOf(c) == { req \in requests : req.owner = c }

Seen(c) == (CHOOSE req \in RequestsOf(c) : TRUE).want

Abstract == INSTANCE PirRetrieval WITH
    Callers <- Clients,
    gen <- IF server = None THEN None ELSE server.gen,
    asked <- [c \in Clients |-> IF RequestsOf(c) = {} THEN None ELSE Seen(c)],
    pending <- { [caller |-> resp.req.owner, got |-> Decrypt(resp.req.owner, resp),
                  gen |-> resp.gen] : resp \in responses },
    answer <- IF Answered
              THEN [caller |-> result.by, got |-> result.got, gen |-> result.resp.gen]
              ELSE None

\* Driven this way, the protocol implements the abstract retrieval: every
\* answer is the single entry its caller asked for, decrypted by that caller,
\* from the generation that was being served when the request was processed.
Retrieval == Abstract!Spec

\* Every request that was created is in the end answered rightly, although the
\* database is replaced and other clients come and go meanwhile: ProcessResponse
\* of the server and of the client never refuse a request made by CreateRequest.
Retrieved ==
    \A c \in Clients :
        RequestsOf(c) # {} ~>
            Answered /\ result.by = c /\ result.got = result.resp.req.want
=============================================================================
