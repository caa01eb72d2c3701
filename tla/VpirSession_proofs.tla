-------------------------- MODULE VpirSession_proofs --------------------------
(***************************************************************************)
(* Proofs about VpirSession, for every value of the constants: any number  *)
(* of clients, seeds, generations, calls and responses.                    *)
(***************************************************************************)
EXTENDS VpirSession, TLAPS

\* A request is of the client that owns it, and lies behind its place in the
\* a stream.
Behind ==
    \A req \in requests :
        /\ client[req.owner] # None
        /\ req.seed = client[req.owner].seed
        /\ req.from < client[req.owner].cursor

\* Z' is never newer than C, and older unless the fetch that drew C passed its
\* check; then all of the proof material is from that fetch.
MaterialOf(k) ==
    /\ k.c = IF k.reached = 0 THEN None ELSE k.reached
    /\ k.reached <= k.calls
    /\ k.zPrime # None => k.zPrime.call <= k.reached
    /\ k.zPrime # None /\ k.proved = None => k.zPrime.call # k.reached
    /\ k.proved # None =>
           /\ k.reached # 0 /\ k.outputs # None
           /\ k.z = [call |-> k.c, gen |-> k.proved.gen]
           /\ k.zPrime = [call |-> k.c, of |-> k.proved]

Material == \A c \in Clients : client[c] # None => MaterialOf(client[c])

\* The last result, if it is about a response, is what the client as it is now
\* says of that response.
Verdict ==
    Accepted \/ Rejected =>
        /\ result.by \in Clients /\ Caller # None
        /\ result.resp \in responses /\ result.req \in requests
        /\ Accepted <=> Accepts(result.by, result.resp, result.req)
        /\ Accepted => result.got = Decrypt(result.by, result.resp)

Inv == TypeOK /\ Behind /\ KeptKey /\ Material /\ Verdict

-----------------------------------------------------------------------------
(* Steps that every action shares *)

\* Results of calls that process no response.
LEMMA VerdictOfCall ==
    ASSUME result' = Done \/ result' = Refused
    PROVE  Verdict'
  BY DEF Verdict, Accepted, Rejected, Done, Refused

\* A field of a client object that is there.
LEMMA ClientType ==
    ASSUME TypeOK, NEW c \in Clients, client[c] # None
    PROVE  client[c] \in ClientObjects
  BY DEF TypeOK, Maybe

\* Replacing one object, with the key half it keeps, by one that is no further
\* back in the stream and whose material is in order.
LEMMA ReplaceInv ==
    ASSUME Inv, NEW c \in Clients, client[c] # None,
           NEW k \in ClientObjects,
           client' = [client EXCEPT ![c] = k],
           k.seed = client[c].seed, client[c].cursor <= k.cursor,
           k.lastY = client[c].lastY, MaterialOf(k),
           result' = Done \/ result' = Refused,
           UNCHANGED <<server, requests, responses>>
    PROVE  Inv'
<1>1. /\ client \in [Clients -> Maybe(ClientObjects)]
      /\ client[c] \in ClientObjects /\ k # None
  BY ClientType, VpirAssumption DEF Inv, TypeOK
<1>2. /\ client'[c] = k
      /\ \A o \in Clients : o # c => client'[o] = client[o]
  BY <1>1
<1>3. TypeOK'
  BY <1>1, <1>2 DEF Inv, TypeOK, Maybe
<1>4. Behind'
  <2> SUFFICES ASSUME NEW req \in requests
               PROVE  /\ client'[req.owner] # None
                      /\ req.seed = client'[req.owner].seed
                      /\ req.from < client'[req.owner].cursor
    BY DEF Behind
  <2>1. req \in Requests /\ req.owner \in Clients /\ req.from \in Nat
    BY DEF Inv, TypeOK, Requests
  <2>2. client[c].cursor \in Nat /\ k.cursor \in Nat
    BY <1>1 DEF ClientObjects
  <2> QED BY <1>1, <1>2, <2>1, <2>2 DEF Inv, Behind
<1>5. KeptKey'
  <2>1. \A o \in Clients : Begun(o)' = Begun(o)
    BY DEF Begun
  <2> QED BY <1>1, <1>2, <2>1 DEF Inv, KeptKey
<1>6. Material'
  BY <1>1, <1>2 DEF Inv, Material, MaterialOf
<1> QED BY <1>3, <1>4, <1>5, <1>6, VerdictOfCall DEF Inv

-----------------------------------------------------------------------------
(* The actions *)

\* A request: the half it keeps back replaces the one before, which belongs to
\* a request that is further back.
LEMMA CreateRequestInv ==
    ASSUME Inv, NEW c \in Clients, NEW index \in Indices, CreateRequest(c, index)
    PROVE  Inv'
<1> DEFINE old == client[c]
           k == client'[c]
           new == [owner |-> c, seed |-> old.seed, from |-> old.cursor, index |-> index]
<1>1. /\ client \in [Clients -> Maybe(ClientObjects)]
      /\ old \in ClientObjects /\ old # None
  BY ClientType DEF Inv, TypeOK, CreateRequest
<1>2. /\ old.cursor \in 0 .. MaxDraws /\ old.seed \in Seeds
      /\ Drawn(c, FirstLen + PackLen) \in 0 .. MaxDraws
      /\ old.cursor < Drawn(c, FirstLen + PackLen)
  BY <1>1, VpirAssumption DEF ClientObjects, Drawn, CreateRequest
<1>3. /\ k = [old EXCEPT !.cursor = Drawn(c, FirstLen + PackLen),
                         !.lastY = IF LocalFinalize THEN old.cursor ELSE old.lastY]
      /\ client' = [client EXCEPT ![c] = k]
      /\ \A o \in Clients : o # c => client'[o] = client[o]
  BY <1>1 DEF CreateRequest
<1>4. /\ k \in ClientObjects /\ k # None
      /\ k.cursor = Drawn(c, FirstLen + PackLen) /\ k.seed = old.seed
      /\ k.lastY = IF LocalFinalize THEN old.cursor ELSE old.lastY
      /\ MaterialOf(k) <=> MaterialOf(old)
  <2>1. k \in ClientObjects
    BY <1>1, <1>2, <1>3 DEF ClientObjects, Maybe
  <2>2. k # None
    BY <2>1, VpirAssumption
  <2> QED BY <1>1, <1>3, <2>1, <2>2 DEF ClientObjects, MaterialOf
<1>5. /\ requests' = requests \cup {new} /\ new \in Requests
      /\ server' = server /\ responses' = responses /\ result' = Done
  BY <1>1, <1>2 DEF CreateRequest, Requests
<1> HIDE DEF k, new
<1>6. TypeOK'
  BY <1>1, <1>3, <1>4, <1>5 DEF Inv, TypeOK, Maybe
<1>7. Behind'
  <2> SUFFICES ASSUME NEW req \in requests'
               PROVE  /\ client'[req.owner] # None
                      /\ req.seed = client'[req.owner].seed
                      /\ req.from < client'[req.owner].cursor
    BY DEF Behind
  <2>1. CASE req = new
    BY <1>1, <1>2, <1>3, <1>4, <2>1 DEF new
  <2>2. CASE req \in requests
    <3>1. req.owner \in Clients /\ req.from \in Nat
      BY <2>2 DEF Inv, TypeOK, Requests
    <3> QED BY <1>2, <1>3, <1>4, <2>2, <3>1 DEF Inv, Behind
  <2> QED BY <1>5, <2>1, <2>2
<1>8. KeptKey'
  <2> SUFFICES ASSUME NEW o \in Clients, client'[o] # None, LocalFinalize
               PROVE  \/ Begun(o)' = {} /\ client'[o].lastY = None
                      \/ /\ client'[o].lastY \in Begun(o)'
                         /\ \A f \in Begun(o)' : f <= client'[o].lastY
    BY DEF KeptKey
  <2>1. CASE o # c
    <3>1. Begun(o)' = Begun(o)
      BY <1>5, <2>1 DEF Begun, new
    <3> QED BY <1>3, <2>1, <3>1 DEF Inv, KeptKey
  <2>2. CASE o = c
    <3>1. new \in requests' /\ new.owner = c /\ new.from = old.cursor
      BY <1>5 DEF new
    <3>2. old.cursor \in Begun(c)'
      BY <3>1 DEF Begun
    <3>3. \A f \in Begun(c)' : f <= old.cursor
      <4> SUFFICES ASSUME NEW req \in requests', req.owner = c
                   PROVE  req.from <= old.cursor
        BY DEF Begun
      <4>1. CASE req = new
        BY <1>2, <4>1, <3>1
      <4>2. CASE req \in requests
        <5>1. req.from \in Nat /\ req.from < old.cursor
          BY <4>2 DEF Inv, TypeOK, Requests, Behind
        <5> QED BY <5>1, <1>2
      <4> QED BY <1>5, <4>1, <4>2
    <3> QED BY <1>4, <2>2, <3>2, <3>3 DEF k
  <2> QED BY <2>1, <2>2
<1>9. Material'
  BY <1>1, <1>3, <1>4 DEF Inv, Material, MaterialOf
<1> QED BY <1>5, <1>6, <1>7, <1>8, <1>9, VerdictOfCall DEF Inv

\* A new object: it has neither a key half nor a request behind it.
LEMMA CreateClientInv ==
    ASSUME Inv, NEW c \in Clients, NEW seed \in Seeds, CreateClient(c, seed)
    PROVE  Inv'
<1> DEFINE k == [seed |-> seed, cursor |-> 0, outputs |-> None, lastY |-> None,
                 c |-> None, z |-> None, zPrime |-> None, calls |-> 0,
                 reached |-> 0, proved |-> None]
<1>1. /\ client \in [Clients -> Maybe(ClientObjects)]
      /\ client[c] = None
      /\ client' = [client EXCEPT ![c] = k]
      /\ UNCHANGED <<server, requests, responses>> /\ result' = Done
  BY DEF Inv, TypeOK, CreateClient
<1>2. k \in ClientObjects /\ k # None
  BY VpirAssumption DEF ClientObjects, Maybe
<1>3. /\ client'[c] = k
      /\ \A o \in Clients : o # c => client'[o] = client[o]
  BY <1>1
<1>4. k.lastY = None /\ MaterialOf(k)
  BY DEF MaterialOf
<1> HIDE DEF k
<1>5. \A req \in requests : req.owner \in Clients /\ req.owner # c
  BY <1>1 DEF Inv, TypeOK, Requests, Behind
<1>6. TypeOK'
  BY <1>1, <1>2, <1>3, <1>4 DEF Inv, TypeOK, Maybe
<1>7. Behind'
  BY <1>1, <1>3, <1>5 DEF Inv, Behind
<1>8. KeptKey'
  <2>1. \A o \in Clients : Begun(o)' = Begun(o)
    BY <1>1 DEF Begun
  <2>2. Begun(c) = {}
    BY <1>5 DEF Begun
  <2> QED BY <1>3, <1>4, <2>1, <2>2 DEF Inv, KeptKey
<1>9. Material'
  BY <1>1, <1>3, <1>4 DEF Inv, Material
<1> QED BY <1>1, <1>6, <1>7, <1>8, <1>9, VerdictOfCall DEF Inv

\* The calls that only move the stream.
LEMMA AdvanceInv ==
    ASSUME Inv, NEW c \in Clients, client[c] # None,
           NEW n \in Nat, Drawn(c, n) <= MaxDraws,
           client' = [client EXCEPT ![c].cursor = Drawn(c, n)],
           result' = Done \/ result' = Refused,
           UNCHANGED <<server, requests, responses>>
    PROVE  Inv'
<1> DEFINE k == [client[c] EXCEPT !.cursor = Drawn(c, n)]
<1>1. /\ client[c] \in ClientObjects
      /\ client' = [client EXCEPT ![c] = k]
  BY ClientType DEF Inv, TypeOK
<1>2. client[c].cursor <= Drawn(c, n) /\ Drawn(c, n) \in 0 .. MaxDraws
  BY <1>1, VpirAssumption DEF ClientObjects, Drawn
<1>3. k \in ClientObjects
  BY <1>1, <1>2 DEF ClientObjects
<1>4. /\ k.seed = client[c].seed /\ k.lastY = client[c].lastY
      /\ client[c].cursor <= k.cursor /\ MaterialOf(k)
  BY <1>1, <1>2 DEF ClientObjects, MaterialOf, Inv, Material
<1> HIDE DEF k
<1> QED BY <1>1, <1>3, <1>4, ReplaceInv

\* Proof material, however far the call gets.
LEMMA FetchInv ==
    ASSUME Inv, NEW c \in Clients, NEW upTo \in Assignments,
           GetProofPreprocessMaterial(c, upTo)
    PROVE  Inv'
<1> DEFINE old == client[c]
           k == client'[c]
           call == old.calls + 1
           newZ == upTo \in {"cz", "all"}
           ofServer == [call |-> call, of |-> server]
<1>1. /\ old \in ClientObjects /\ server \in Servers /\ old # None
      /\ client \in [Clients -> Maybe(ClientObjects)]
      /\ call \in 1 .. MaxCalls /\ old.calls \in Nat
  BY ClientType, VpirAssumption
     DEF Inv, TypeOK, Maybe, GetProofPreprocessMaterial, Fetch, ClientObjects
<1> DEFINE new == [old EXCEPT
               !.calls = call,
               !.reached = IF newZ THEN call ELSE @,
               !.proved = IF upTo = "all" THEN server ELSE IF newZ THEN None ELSE @,
               !.outputs = IF upTo # "none" THEN server ELSE @,
               !.c = IF newZ THEN call ELSE @,
               !.z = IF newZ THEN [call |-> call, gen |-> server.gen] ELSE @,
               !.zPrime = IF upTo = "all" THEN ofServer ELSE @]
<1>2. k = new
  BY <1>1 DEF GetProofPreprocessMaterial, Fetch
<1>3. client' = [client EXCEPT ![c] = k]
  <2>1. client' = [o \in Clients |-> client'[o]]
    BY <1>1 DEF GetProofPreprocessMaterial, Fetch
  <2>2. \A o \in Clients : o # c => client'[o] = client[o]
    BY <1>1 DEF GetProofPreprocessMaterial, Fetch
  <2> QED BY <1>1, <2>1, <2>2
<1>4. /\ UNCHANGED <<server, requests, responses>>
      /\ result' = Done \/ result' = Refused
  BY DEF GetProofPreprocessMaterial, Fetch
<1>5. /\ k.seed = old.seed /\ k.cursor = old.cursor /\ k.lastY = old.lastY
      /\ k.calls = call /\ k.reached = IF newZ THEN call ELSE old.reached
      /\ k.proved = IF upTo = "all" THEN server ELSE IF newZ THEN None ELSE old.proved
      /\ k.outputs = IF upTo # "none" THEN server ELSE old.outputs
      /\ k.c = IF newZ THEN call ELSE old.c
      /\ k.z = IF newZ THEN [call |-> call, gen |-> server.gen] ELSE old.z
      /\ k.zPrime = IF upTo = "all" THEN ofServer ELSE old.zPrime
  BY <1>1, <1>2 DEF ClientObjects
<1>6. k \in ClientObjects
  <2>1. /\ server.gen \in Generations
        /\ [call |-> call, gen |-> server.gen]
               \in [call : 1 .. MaxCalls, gen : Generations]
        /\ ofServer \in [call : 1 .. MaxCalls, of : Servers]
    BY <1>1 DEF Servers
  <2>2. /\ k.proved \in Maybe(Servers) /\ k.outputs \in Maybe(Servers)
        /\ k.c \in Maybe(1 .. MaxCalls)
        /\ k.z \in Maybe([call : 1 .. MaxCalls, gen : Generations])
        /\ k.zPrime \in Maybe([call : 1 .. MaxCalls, of : Servers])
        /\ k.calls \in 0 .. MaxCalls
    BY <1>1, <1>5, <2>1 DEF ClientObjects, Maybe
  <2>3. k.reached \in 0 .. MaxCalls
    BY <1>1, <1>5 DEF ClientObjects
  <2>4. k = [seed |-> k.seed, cursor |-> k.cursor, lastY |-> k.lastY,
             outputs |-> k.outputs, c |-> k.c, z |-> k.z, zPrime |-> k.zPrime,
             calls |-> k.calls, reached |-> k.reached, proved |-> k.proved]
    BY <1>1, <1>2 DEF ClientObjects
  <2> QED BY <1>1, <1>5, <2>2, <2>3, <2>4 DEF ClientObjects
<1>7. MaterialOf(k)
  <2>1. MaterialOf(old)
    BY <1>1 DEF Inv, Material
  <2>2. /\ server # None /\ call # None /\ ofServer # None
        /\ ofServer.call = call
    BY <1>1, VpirAssumption
  <2>3. /\ old.reached \in Nat /\ old.reached < call
        /\ old.zPrime # None => old.zPrime.call \in Nat /\ old.zPrime.call < call
    <3>1. old.reached \in 0 .. MaxCalls
      BY <1>1 DEF ClientObjects
    <3>2. old.zPrime \in Maybe([call : 1 .. MaxCalls, of : Servers])
      BY <1>1 DEF ClientObjects
    <3> QED BY <1>1, <2>1, <3>1, <3>2 DEF MaterialOf, Maybe
  <2>4. CASE upTo = "all"
    BY <1>1, <1>5, <2>2, <2>4 DEF MaterialOf
  <2>5. CASE upTo = "cz"
    BY <1>1, <1>5, <2>1, <2>2, <2>3, <2>5 DEF MaterialOf
  <2>6. CASE ~newZ
    <3>1. /\ k.reached = old.reached /\ k.c = old.c /\ k.z = old.z
          /\ k.zPrime = old.zPrime /\ k.proved = old.proved
      BY <1>5, <2>1, <2>6 DEF MaterialOf
    <3>2. k.outputs = server \/ k.outputs = old.outputs
      BY <1>5
    <3> QED BY <1>1, <1>5, <2>1, <2>2, <2>3, <3>1, <3>2 DEF MaterialOf
  <2> QED BY <2>4, <2>5, <2>6 DEF Assignments
<1>8. old.cursor <= k.cursor
  BY <1>1, <1>5 DEF ClientObjects
<1> HIDE DEF k
<1> QED BY <1>1, <1>3, <1>4, <1>5, <1>6, <1>7, <1>8, ReplaceInv

\* Packing outputs by themselves leave the proof material alone.
LEMMA SetOutputsInv ==
    ASSUME Inv, NEW c \in Clients, SetPreprocessedOutputs(c)
    PROVE  Inv'
<1> DEFINE k == [client[c] EXCEPT !.outputs = server]
<1>1. /\ client[c] \in ClientObjects /\ client[c] # None
      /\ server \in Servers /\ server # None
      /\ client' = [client EXCEPT ![c] = k]
      /\ UNCHANGED <<server, requests, responses>> /\ result' = Done
  BY ClientType DEF Inv, TypeOK, Maybe, SetPreprocessedOutputs
<1>2. k \in ClientObjects
  BY <1>1 DEF ClientObjects, Maybe
<1>3. /\ k.seed = client[c].seed /\ k.lastY = client[c].lastY
      /\ client[c].cursor <= k.cursor /\ MaterialOf(k)
  BY <1>1 DEF ClientObjects, MaterialOf, Inv, Material
<1> HIDE DEF k
<1> QED BY <1>1, <1>2, <1>3, ReplaceInv

\* The steps of the servers do not touch a client.
LEMMA ServerStepInv ==
    ASSUME Inv, ServerStep
    PROVE  Inv'
<1>1. /\ UNCHANGED <<client, requests>> /\ result' = Done
      /\ server' \in Maybe(Servers)
      /\ responses' \subseteq [req : requests, srv : Servers]
  <2>1. ASSUME NEW seed \in Seeds, NEW gen \in Generations, InstallServer(seed, gen)
        PROVE  <1>1!:
    BY <2>1 DEF Inv, TypeOK, InstallServer, Servers, Maybe
  <2>2. ASSUME NEW req \in requests, ServeRequest(req)
        PROVE  <1>1!:
    BY <2>2 DEF Inv, TypeOK, ServeRequest, Maybe
  <2> QED BY <2>1, <2>2 DEF ServerStep
<1>2. TypeOK'
  BY <1>1 DEF Inv, TypeOK
<1>3. Behind' /\ Material'
  BY <1>1 DEF Inv, Behind, Material, MaterialOf
<1>4. KeptKey'
  BY <1>1 DEF Inv, KeptKey, Begun
<1> QED BY <1>1, <1>2, <1>3, <1>4, VerdictOfCall DEF Inv

\* Processing a response changes nothing but the result.
LEMMA ProcessInv ==
    ASSUME Inv, NEW c \in Clients, NEW resp \in responses, NEW req \in requests,
           ProcessResponse(c, resp, req)
    PROVE  Inv'
<1>1. UNCHANGED <<server, client, requests, responses>> /\ client[c] # None
  BY DEF ProcessResponse
<1>2. TypeOK' /\ Behind' /\ Material'
  BY <1>1 DEF Inv, TypeOK, Behind, Material, MaterialOf
<1>3. KeptKey'
  BY <1>1 DEF Inv, KeptKey, Begun
<1>4. Verdict'
  <2>1. CASE Accepts(c, resp, req)
    <3>1. result' = [status |-> "accepted", by |-> c, resp |-> resp, req |-> req,
                     got |-> Decrypt(c, resp)]
      BY <2>1 DEF ProcessResponse
    <3>2. /\ result'.status = "accepted" /\ result'.by = c /\ result'.resp = resp
          /\ result'.req = req /\ result'.got = Decrypt(c, resp)
      BY <3>1
    <3>3. Accepts(c, resp, req)' /\ Decrypt(c, resp)' = Decrypt(c, resp)
      BY <1>1, <2>1 DEF Accepts, Decrypt
    <3> QED BY <1>1, <3>2, <3>3 DEF Verdict, Accepted, Rejected, Caller, Accepts, Decrypt
  <2>2. CASE ~Accepts(c, resp, req)
    <3>1. result' = [status |-> "rejected", by |-> c, resp |-> resp, req |-> req]
      BY <2>2 DEF ProcessResponse
    <3>2. /\ result'.status = "rejected" /\ result'.by = c /\ result'.resp = resp
          /\ result'.req = req
      BY <3>1
    <3> QED BY <1>1, <2>2, <3>2 DEF Verdict, Accepted, Rejected, Caller, Accepts
  <2> QED BY <2>1, <2>2
<1> QED BY <1>2, <1>3, <1>4 DEF Inv

-----------------------------------------------------------------------------
(* The theorems *)

\* Every call of a client preserves the invariant.
LEMMA ClientStepInv ==
    ASSUME Inv, NEW c \in Clients, ClientStep(c)
    PROVE  Inv'
<1>1. ASSUME NEW n \in FaultPoints, InterruptRequest(c, n) PROVE Inv'
  BY <1>1, AdvanceInv, VpirAssumption DEF InterruptRequest
<1>2. CASE CreatePackingKey(c)
  BY <1>2, AdvanceInv, VpirAssumption DEF CreatePackingKey
<1> QED
  BY <1>1, <1>2, CreateClientInv, CreateRequestInv, FetchInv, SetOutputsInv, ProcessInv
     DEF ClientStep

\* The invariant: what the objects hold fits together, however many calls have
\* failed half-way.
THEOREM Invariant == Spec => []Inv
<1>1. Init => Inv
  BY VpirAssumption
     DEF Init, Inv, TypeOK, Behind, KeptKey, Material, Verdict, Accepted, Rejected,
         Done, Maybe
<1>2. Inv /\ [Next]_vars => Inv'
  <2> SUFFICES ASSUME Inv, [Next]_vars PROVE Inv'
    OBVIOUS
  <2>1. CASE UNCHANGED vars
    BY <2>1 DEF vars, Inv, TypeOK, Behind, KeptKey, Begun, Material, MaterialOf,
       Verdict, Accepted, Rejected, Caller, Accepts, Decrypt
  <2> QED BY <2>1, ServerStepInv, ClientStepInv DEF Next
<1> QED BY <1>1, <1>2, PTL DEF Spec

\* Every object keeps the shape of its class.
THEOREM Typing == Spec => []TypeOK
<1>1. Inv => TypeOK
  BY DEF Inv
<1> QED BY <1>1, Invariant, PTL

\* The key half in hand is that of the last request made.
THEOREM KeysKept == Spec => []KeptKey
<1>1. Inv => KeptKey
  BY DEF Inv
<1> QED BY <1>1, Invariant, PTL

\* Whatever passes the check carries the names of the call that drew C, and that
\* call has not assigned Z' unless it succeeded.
THEOREM Proved == Spec => []AcceptedIsProved
<1>1. Inv => AcceptedIsProved
  <2> SUFFICES ASSUME Inv, Accepted, Caller.reached # 0
               PROVE  /\ Caller.proved # None
                      /\ result.resp = [req |-> result.req, srv |-> Caller.proved]
    BY DEF AcceptedIsProved
  <2>1. /\ result.by \in Clients /\ Caller # None /\ result.resp \in responses
        /\ Accepts(result.by, result.resp, result.req)
    BY DEF Inv, Verdict
  <2>2. MaterialOf(Caller)
    BY <2>1 DEF Inv, Material, Caller
  <2>6. Caller \in ClientObjects
    BY <2>1, ClientType DEF Inv, Caller
  <2>3. Caller.c # None /\ Caller.c = Caller.reached
    BY <2>2, <2>6, VpirAssumption DEF MaterialOf, ClientObjects
  <2>4. Caller.zPrime = [call |-> Caller.c, of |-> result.resp.srv]
        /\ result.resp.req = result.req
    BY <2>1, <2>3 DEF Accepts, Verifies, Caller
  <2>5. result.resp \in [req : requests, srv : Servers]
    BY <2>1 DEF Inv, TypeOK
  <2>7. Caller.zPrime # None
    BY <2>3, <2>4, <2>5, <2>6, VpirAssumption DEF ClientObjects, Maybe
  <2>8. Caller.proved # None /\ Caller.proved = result.resp.srv
    BY <2>2, <2>3, <2>4, <2>7 DEF MaterialOf
  <2> QED BY <2>4, <2>5, <2>8
<1> QED BY <1>1, Invariant, PTL

\* The owner of a request holds what it takes to decrypt: packing outputs from
\* its fetch, and a key half from that request or a later one.
THEOREM Honest == Spec => []HonestAccepted
<1>1. Inv => HonestAccepted
  <2> SUFFICES ASSUME Inv, Rejected, Caller.proved # None,
                      result.resp.req = result.req, result.req.owner = result.by,
                      result.resp.srv = Caller.proved
               PROVE  FALSE
    BY DEF HonestAccepted
  <2>1. /\ result.by \in Clients /\ Caller # None /\ result.req \in requests
        /\ ~Accepts(result.by, result.resp, result.req)
    BY DEF Inv, Verdict, Accepted, Rejected
  <2>2. MaterialOf(Caller)
    BY <2>1 DEF Inv, Material, Caller
  <2>3. Verifies(Caller, result.resp, result.req)
    BY <2>2 DEF Verifies, MaterialOf
  <2>4. result.req.from \in Begun(result.by) /\ Begun(result.by) \subseteq Nat
    BY <2>1 DEF Begun, Inv, TypeOK, Requests
  <2>5. LocalFinalize => Caller.lastY # None
    BY <2>1, <2>4, VpirAssumption DEF Inv, KeptKey, Caller
  <2> QED BY <2>1, <2>2, <2>3, <2>5 DEF Accepts, CanDecrypt, MaterialOf, Caller
<1> QED BY <1>1, Invariant, PTL

\* Verification ties the response to the server of the fetch, and the invariant
\* the key half to the first request.
THEOREM FirstRequests == Spec => []FirstRequestRight
<1>1. Inv => FirstRequestRight
  <2> SUFFICES ASSUME Inv, Accepted, Fetched(Caller), Current, result.req.from = 0
               PROVE  result.got = Right
    BY DEF FirstRequestRight
  <2>1. /\ result.by \in Clients /\ Caller # None /\ result.req \in requests
        /\ Accepts(result.by, result.resp, result.req)
        /\ result.got = Decrypt(result.by, result.resp)
    BY DEF Inv, Verdict
  <2>2. MaterialOf(Caller) /\ Caller.proved # None /\ Caller.outputs = Caller.proved
    BY <2>1 DEF Inv, Material, Caller, Fetched
  <2>3. Caller.c # None
    <3>1. Caller.reached \in Nat
      BY <2>1, ClientType DEF Inv, Caller, ClientObjects
    <3> QED BY <2>2, <3>1, VpirAssumption DEF MaterialOf
  <2>4. result.resp.req = result.req /\ Caller.outputs = result.resp.srv
    BY <2>1, <2>2, <2>3 DEF Accepts, Verifies, MaterialOf, Caller
  <2>5. /\ result.req.from \in Begun(result.by) /\ Begun(result.by) \subseteq Nat
        /\ \A f \in Begun(result.by) : f <= 0
    BY <2>1 DEF Begun, Inv, TypeOK, Requests, Current
  <2>6. LocalFinalize => Caller.lastY = 0
    BY <2>1, <2>5 DEF Inv, KeptKey, Caller
  <2> QED BY <2>1, <2>4, <2>6 DEF Decrypt, Current, Right, Caller
<1> QED BY <1>1, Invariant, PTL
=============================================================================
