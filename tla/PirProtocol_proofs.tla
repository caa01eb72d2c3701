------------------------- MODULE PirProtocol_proofs -------------------------
(***************************************************************************)
(* Proofs about PirProtocol, and that it implements PirRetrieval when it   *)
(* is driven as PirOneShot drives it, for every value of the constants.    *)
(***************************************************************************)
EXTENDS PirOneShot, FiniteSetTheorems, TLAPS

\* Whether a call delivered an answer is read off the results it may have.
USE DEF Answered, Done, Refused

-----------------------------------------------------------------------------
(* Arithmetic of the geometry *)

\* Division with remainder, in the form the provers can use.
LEMMA DivMod ==
    ASSUME NEW a \in Nat, NEW b \in Nat \ {0}
    PROVE  /\ a \div b \in Nat
           /\ a % b \in 0 .. b - 1
           /\ a = b * (a \div b) + (a % b)
  OBVIOUS

\* A product that exceeds another by less than one factor is equal to it.
LEMMA ProductGap ==
    ASSUME NEW b \in Nat \ {0}, NEW q1 \in Nat, NEW q2 \in Nat, q1 < q2
    PROVE  b * q1 + b <= b * q2
<1>1. PICK k \in Nat : q2 = q1 + 1 + k
  <2>1. q2 - q1 - 1 \in Nat /\ q2 = q1 + 1 + (q2 - q1 - 1)
    OBVIOUS
  <2> QED BY <2>1
<1>2. b * k \in Nat /\ b * q1 \in Nat
  OBVIOUS
<1>3. b * q2 = b * q1 + b + b * k
  BY <1>1
<1> QED BY <1>1, <1>2, <1>3

\* Quotient and remainder determine the number.
LEMMA DivModUnique ==
    ASSUME NEW a \in Nat, NEW b \in Nat \ {0}, NEW q \in Nat, NEW r \in 0 .. b - 1,
           a = b * q + r
    PROVE  a \div b = q /\ a % b = r
<1> DEFINE aq == a \div b
<1> DEFINE ar == a % b
<1>1. aq \in Nat /\ ar \in 0 .. b - 1 /\ a = b * aq + ar
  BY DivMod
<1> HIDE DEF aq, ar
<1>2. b * q \in Nat /\ b * aq \in Nat
  BY <1>1
<1>3. ~(q < aq)
  BY ProductGap, <1>1, <1>2
<1>4. ~(aq < q)
  BY ProductGap, <1>1, <1>2
<1>5. q = aq
  BY <1>1, <1>3, <1>4
<1>6. r = ar
  BY <1>1, <1>2, <1>5
<1> QED BY <1>5, <1>6 DEF aq, ar

\* Division rounded up stays a natural number.
LEMMA CeilDivNat ==
    ASSUME NEW a \in Nat, NEW b \in Nat \ {0}
    PROVE  CeilDiv(a, b) \in Nat
<1>1. a + b - 1 \in Nat
  OBVIOUS
<1> QED BY <1>1, DivMod DEF CeilDiv

\* The lengths of the parts of a request.
LEMMA CeilDivCovers ==
    ASSUME NEW a \in Nat, NEW b \in Nat \ {0}
    PROVE  CeilDiv(a, b) * b \in Nat /\ a <= CeilDiv(a, b) * b
<1>1. a + b - 1 \in Nat
  OBVIOUS
<1>2. PICK q \in Nat, r \in 0 .. b - 1 :
          a + b - 1 = q * b + r /\ q = (a + b - 1) \div b
  BY <1>1, DivMod
<1>3. q * b \in Nat
  BY <1>2
<1> QED BY <1>2, <1>3 DEF CeilDiv

\* The lengths of the parts of a request are numbers, and the gadgets not empty.
LEMMA Lengths ==
    /\ InterpolatedRows \in Nat
    /\ FirstLen \in Nat
    /\ SecondLen \in Nat \ {0}
    /\ PackLen \in Nat \ {0}
<1> USE ParamsAssumption
<1>1. InterpolatedRows \in Nat
  BY DivMod DEF InterpolatedRows
<1>2. NumFirstDimSamples \in Nat
  BY <1>1, CeilDivNat DEF NumFirstDimSamples
<1>3. FirstLen \in Nat
  BY <1>2 DEF FirstLen
<1>4. EvalDigits * Degree \in Nat \ {0} /\ PackDigits * Degree \in Nat \ {0}
  OBVIOUS
<1>5. SecondLen = 2 * (EvalDigits * Degree) /\ PackLen = 2 * (PackDigits * Degree)
  BY DEF SecondLen, PackLen
<1> QED BY <1>1, <1>3, <1>4, <1>5

-----------------------------------------------------------------------------
(* Type correctness *)

\* A slice of numbers is a slice.
LEMMA SliceType ==
    ASSUME NEW from \in Nat, NEW len \in Nat
    PROVE  /\ Slice(from, len) \in Slices
           /\ SecondSlice(from) \in Slices
           /\ SecondSlice(from).from = from
           /\ SecondSlice(from).len \in Nat
           /\ RequestLen(len) \in Nat \ {0}
  BY Lengths DEF Slice, Slices, SecondSlice, RequestLen

\* What InstallServer makes is a server.
LEMMA PreprocessType ==
    {PreprocessFirst, PreprocessSecond, PreprocessPack} \subseteq Slices
<1>1. PreprocessFirst \in Slices
  BY Lengths, SliceType DEF PreprocessFirst
<1>2. PreprocessSecond \in Slices
  BY Lengths, SliceType DEF PreprocessSecond
<1>3. PreprocessPack \in Slices
  <2>1. PreprocessSecond.from + PreprocessSecond.len \in Nat
    BY <1>2 DEF Slices
  <2> QED BY <2>1, Lengths, SliceType DEF PreprocessPack
<1> QED BY <1>1, <1>2, <1>3

\* Drawing from a client that exists leaves it a client object.
LEMMA DrawType ==
    ASSUME TypeOK, NEW c \in Clients, client[c] # None, NEW n \in Nat, Draw(c, n)
    PROVE  client' \in [Clients -> {None} \cup ClientObjects]
<1>1. client[c] \in ClientObjects /\ client \in [Clients -> {None} \cup ClientObjects]
  BY DEF TypeOK, ClientObjects
<1>2. client[c].cursor + n \in 0 .. MaxDraws
  BY <1>1, ProtocolAssumption DEF ClientObjects, Draw
<1>3. [client[c] EXCEPT !.cursor = @ + n, !.consumed = TRUE] \in ClientObjects
  BY <1>1, <1>2 DEF ClientObjects
<1>4. client' = [client EXCEPT ![c] = [client[c] EXCEPT !.cursor = @ + n, !.consumed = TRUE]]
  BY <1>1 DEF Draw, ClientObjects
<1> QED BY <1>1, <1>3, <1>4

\* A monomial has a sign and a position.
LEMMA MonomialType ==
    ASSUME NEW col \in 0 .. InterpolationDegree - 1
    PROVE  Monomial(col) \in [neg : BOOLEAN, pos : Nat]
<1> USE ParamsAssumption
<1>1. (2 * Degree) \div InterpolationDegree \in Nat
  BY DivMod
<1>2. ((2 * Degree) \div InterpolationDegree) * col \in Nat
  BY <1>1
<1> QED BY <1>2 DEF Monomial

\* A combination pairs entries with weights.
LEMMA CombinationType ==
    ASSUME NEW weights, NEW n \in Nat, weights \in [0 .. n - 1 -> Nat],
           NEW col \in 0 .. InterpolationDegree - 1
    PROVE  Combination(weights, col) \subseteq Nat \X Nat
<1> USE ParamsAssumption
<1>1. ASSUME NEW r \in 0 .. InterpolatedRows - 1, r \in DOMAIN weights
      PROVE  <<r * InterpolationDegree + col, weights[r]>> \in Nat \X Nat
  <2>1. r \in Nat /\ r * InterpolationDegree \in Nat
    BY Lengths
  <2> QED BY <1>1, <2>1
<1> QED BY <1>1 DEF Combination

\* So does what the server evaluates.
LEMMA EvaluateType ==
    ASSUME NEW req, NEW n \in Nat, req.weights \in [0 .. n - 1 -> Nat]
    PROVE  Evaluate(req) \subseteq Nat \X Nat
<1>1. ColumnsAt(req.mono) \subseteq 0 .. InterpolationDegree - 1
  BY ParamsAssumption DEF ColumnsAt
<1>2. \A col \in ColumnsAt(req.mono) : Combination(req.weights, col) \subseteq Nat \X Nat
  BY <1>1, CombinationType
<1> QED BY <1>2 DEF Evaluate

\* The entry an index names, as row and column of the interpolated database.
LEMMA RowColType ==
    ASSUME NEW index \in Entries
    PROVE  /\ index \in Nat
           /\ RowOf(index) \in 0 .. InterpolatedRows - 1
           /\ ColOf(index) \in 0 .. InterpolationDegree - 1
           /\ index = RowOf(index) * InterpolationDegree + ColOf(index)
<1> USE ParamsAssumption
<1>1. index \in Nat /\ index < NumEntries
  BY DEF Entries
<1>2. /\ RowOf(index) \in Nat /\ ColOf(index) \in 0 .. InterpolationDegree - 1
      /\ index = InterpolationDegree * RowOf(index) + ColOf(index)
  BY <1>1, DivMod DEF RowOf, ColOf
<1>3. /\ InterpolatedRows \in Nat
      /\ NumEntries = InterpolationDegree * InterpolatedRows
  <2>1. NumEntries = InterpolationDegree * (NumEntries \div InterpolationDegree)
                     + (NumEntries % InterpolationDegree)
    BY DivMod
  <2>2. InterpolationDegree * InterpolatedRows \in Nat
    BY Lengths
  <2> QED BY <2>1, <2>2, Lengths DEF InterpolatedRows
<1>4. RowOf(index) < InterpolatedRows
  <2>1. SUFFICES ASSUME InterpolatedRows <= RowOf(index) PROVE FALSE
    BY <1>2, <1>3
  <2>2. InterpolationDegree * InterpolatedRows <= InterpolationDegree * RowOf(index)
    <3>1. CASE InterpolatedRows = RowOf(index)
      BY <1>2, <3>1
    <3>2. CASE InterpolatedRows < RowOf(index)
      BY <1>2, <1>3, <3>2, ProductGap
    <3> QED BY <1>2, <1>3, <2>1, <3>1, <3>2
  <2>3. InterpolationDegree * RowOf(index) \in Nat
    BY <1>2
  <2> QED BY <1>1, <1>2, <1>3, <2>2, <2>3
<1>5. InterpolationDegree * RowOf(index) = RowOf(index) * InterpolationDegree
  BY <1>2
<1> QED BY <1>1, <1>2, <1>3, <1>4, <1>5

\* A unit vector has one weight per row.
LEMMA UnitVectorType ==
    ASSUME NEW index \in Entries
    PROVE  UnitVector(index) \in [0 .. InterpolatedRows - 1 -> Nat]
  BY DEF UnitVector

\* A request vector has as many weights as its size.
LEMMA VectorType ==
    ASSUME NEW v \in Vectors
    PROVE  VectorSize(v) \in Nat /\ v \in [0 .. VectorSize(v) - 1 -> Nat]
  BY ProtocolAssumption, FS_CardinalityType DEF VectorSize

\* MakeRequest makes a request.
LEMMA MakeRequestType ==
    ASSUME TypeOK, NEW c \in Clients, client[c] # None, NEW n \in Nat,
           NEW size \in Nat, NEW weights \in [0 .. size - 1 -> Nat],
           NEW mono \in [neg : BOOLEAN, pos : Nat],
           NEW want \in SUBSET (Nat \X Nat)
    PROVE  IsRequest(MakeRequest(c, n, weights, size, mono, want))
<1>1. client[c] \in ClientObjects
  BY DEF TypeOK, ClientObjects
<1>2. client[c].cursor \in Nat /\ client[c].seed \in Seeds /\ client[c].consumed \in BOOLEAN
  BY <1>1, ProtocolAssumption DEF ClientObjects
<1> DEFINE second == SecondSlice(client[c].cursor + n)
<1>3. /\ Slice(client[c].cursor, n) \in Slices
      /\ second \in Slices /\ second.from \in Nat /\ second.len \in Nat
  <2>1. client[c].cursor + n \in Nat
    BY <1>2
  <2> QED BY <1>2, <2>1, SliceType
<1> HIDE DEF second
<1>4. Slice(second.from + second.len, PackLen) \in Slices
  <2>1. second.from + second.len \in Nat
    BY <1>3
  <2> QED BY <2>1, Lengths, SliceType
<1> QED
  BY <1>2, <1>3, <1>4 DEF MakeRequest, IsRequest, second

\* More requests make no response less of a response.
LEMMA ResponseMonotone ==
    ASSUME NEW resp, IsResponse(resp), requests \subseteq requests'
    PROVE  IsResponse(resp)'
  BY DEF IsResponse

\* A step of a client that makes at most requests and delivers no answer.
LEMMA RequestStepType ==
    ASSUME TypeOK, client' \in [Clients -> {None} \cup ClientObjects],
           UNCHANGED <<server, responses>>, result' \in {Done, Refused},
           requests \subseteq requests',
           \A r \in requests' \ requests : IsRequest(r)
    PROVE  TypeOK'
<1>1. ~Answered'
  OBVIOUS
<1>2. \A r \in requests' : IsRequest(r)'
  BY DEF TypeOK, IsRequest
<1>3. \A resp \in responses' : IsResponse(resp)'
  BY ResponseMonotone DEF TypeOK
<1>4. server' \in {None} \cup Servers
  BY DEF TypeOK, Servers
<1> QED BY <1>1, <1>2, <1>3, <1>4 DEF TypeOK, ClientObjects, Servers

\* Installing, serving and refusing keep the types.
LEMMA ServerStepType ==
    ASSUME TypeOK, ServerStep
    PROVE  TypeOK'
<1>1. ASSUME NEW seed \in Seeds, NEW gen \in Generations, InstallServer(seed, gen)
      PROVE  TypeOK'
  <2>1. server' \in Servers
    BY <1>1, PreprocessType DEF InstallServer, Servers
  <2>2. ~Answered'
    BY <1>1 DEF InstallServer
  <2>3. UNCHANGED <<client, requests, responses>>
    BY <1>1 DEF InstallServer
  <2>4. \A resp \in responses' : IsResponse(resp)'
    BY <2>3, ResponseMonotone DEF TypeOK
  <2> QED BY <2>1, <2>2, <2>3, <2>4 DEF TypeOK, Servers, IsRequest
<1>2. ASSUME NEW req \in requests, ServeRequest(req)
      PROVE  TypeOK'
  <2>1. UNCHANGED <<server, client, requests>> /\ ~Answered'
    BY <1>2 DEF ServeRequest
  <2>2. server \in Servers
    BY <1>2 DEF ServeRequest, TypeOK, Servers
  <2>3. IsRequest(req) /\ Evaluate(req) \subseteq Nat \X Nat
    BY EvaluateType DEF TypeOK, IsRequest
  <2>4. Aligned(req, server) \in BOOLEAN
    BY DEF Aligned
  <2>5. ASSUME NEW resp \in responses' PROVE IsResponse(resp)'
    <3>1. CASE resp \in responses
      BY <2>1, <3>1, ResponseMonotone DEF TypeOK
    <3>2. CASE resp \notin responses
      <4>1. resp = [req |-> req, gen |-> server.gen,
                    aligned |-> Aligned(req, server), seed |-> server.seed,
                    value |-> Evaluate(req), ciphertexts |-> EntrySizeMultiple]
        BY <1>2, <3>2 DEF ServeRequest
      <4> QED BY <2>1, <2>2, <2>3, <2>4, <4>1 DEF IsResponse, Servers
    <3> QED BY <3>1, <3>2
  <2> QED BY <2>1, <2>5 DEF TypeOK, IsRequest
<1>3. ASSUME NEW req \in requests, RefuseRequest(req)
      PROVE  TypeOK'
  BY <1>3, RequestStepType DEF RefuseRequest, TypeOK, ClientObjects
<1> QED BY <1>1, <1>2, <1>3 DEF ServerStep

\* Every call of a client keeps the types.
LEMMA ClientStepType ==
    ASSUME TypeOK, NEW c \in Clients, ClientStep(c)
    PROVE  TypeOK'
<1> DEFINE Objects == [Clients -> {None} \cup ClientObjects]
<1>0. client \in Objects
  BY DEF TypeOK, ClientObjects
<1>1. ASSUME NEW seed \in Seeds, CreateClient(c, seed)
      PROVE  TypeOK'
  <2>1. [seed |-> seed, cursor |-> 0, consumed |-> FALSE] \in ClientObjects
    BY ProtocolAssumption DEF ClientObjects
  <2>2. client' \in Objects
    BY <1>0, <1>1, <2>1 DEF CreateClient
  <2> QED BY <1>1, <2>2, RequestStepType DEF CreateClient
<1>2. ASSUME NEW index \in Indices, CreateRequest(c, index)
      PROVE  TypeOK'
  <2>1. index \in Entries /\ client[c] # None
    BY <1>2 DEF CreateRequest
  <2>2. client' \in Objects
    BY <1>2, <2>1, DrawType, SliceType, Lengths DEF CreateRequest
  <2>3. /\ UnitVector(index) \in [0 .. InterpolatedRows - 1 -> Nat]
        /\ Monomial(ColOf(index)) \in [neg : BOOLEAN, pos : Nat]
        /\ {<<index, 1>>} \in SUBSET (Nat \X Nat)
    BY <2>1, UnitVectorType, RowColType, MonomialType
  <2>4. IsRequest(MakeRequest(c, FirstLen, UnitVector(index), InterpolatedRows,
                              Monomial(ColOf(index)), {<<index, 1>>}))
    BY <2>1, <2>3, Lengths, MakeRequestType
  <2> QED BY <1>2, <2>2, <2>4, RequestStepType DEF CreateRequest
<1>3. ASSUME NEW v \in Vectors, CreateRequestForVector(c, v)
      PROVE  TypeOK'
  <2>1. client[c] # None /\ 0 \in 0 .. InterpolationDegree - 1
    BY <1>3, ParamsAssumption DEF CreateRequestForVector
  <2>2. client' \in Objects
    BY <1>3, <2>1, DrawType, SliceType, VectorType DEF CreateRequestForVector
  <2>3. /\ Monomial(0) \in [neg : BOOLEAN, pos : Nat]
        /\ Combination(v, 0) \in SUBSET (Nat \X Nat)
    BY <2>1, VectorType, MonomialType, CombinationType
  <2>4. IsRequest(MakeRequest(c, VectorSize(v), v, VectorSize(v), Monomial(0),
                              Combination(v, 0)))
    BY <2>1, <2>3, VectorType, MakeRequestType
  <2> QED BY <1>3, <2>2, <2>4, RequestStepType DEF CreateRequestForVector
<1>4. ASSUME NEW v \in Vectors, RefuseCoefficient(c, v)
      PROVE  TypeOK'
  <2>1. client' \in Objects
    BY <1>4, DrawType, VectorType DEF RefuseCoefficient
  <2> QED BY <1>4, <2>1, RequestStepType DEF RefuseCoefficient
<1>5. CASE CreatePackingKey(c)
  <2>1. client' \in Objects
    BY <1>5, DrawType, Lengths DEF CreatePackingKey
  <2> QED BY <1>5, <2>1, RequestStepType DEF CreatePackingKey
<1>6. CASE CreateSecondDimensionQuery(c)
  <2>1. client' \in Objects
    BY <1>6, DrawType, Lengths DEF CreateSecondDimensionQuery
  <2> QED BY <1>6, <2>1, RequestStepType DEF CreateSecondDimensionQuery
<1>7. ASSUME NEW n \in FaultPoints, InterruptRequest(c, n)
      PROVE  TypeOK'
  <2>1. client' \in Objects
    BY <1>7, DrawType, ProtocolAssumption DEF InterruptRequest
  <2> QED BY <1>7, <2>1, RequestStepType DEF InterruptRequest
<1>8. ASSUME NEW resp \in responses, ProcessResponse(c, resp)
      PROVE  TypeOK'
  <2>1. UNCHANGED <<server, client, requests>> /\ responses' \subseteq responses
    BY <1>8 DEF ProcessResponse
  <2>2. result' = [status |-> "answer", by |-> c, resp |-> resp, got |-> Decrypt(c, resp)]
    BY <1>8 DEF ProcessResponse
  <2>3. \A r \in responses : IsResponse(r)'
    BY <2>1, ResponseMonotone DEF TypeOK
  <2> QED BY <2>1, <2>2, <2>3 DEF TypeOK, IsRequest
<1>9. ASSUME UNCHANGED <<server, client, requests, responses>>, result' = Refused
      PROVE  TypeOK'
  BY <1>9, <1>0, RequestStepType
<1>10. ASSUME NEW index \in Indices, RefuseIndex(c, index) PROVE TypeOK'
  BY <1>9, <1>10 DEF RefuseIndex
<1>11. ASSUME NEW v \in Vectors, RefuseVector(c, v) PROVE TypeOK'
  BY <1>9, <1>11 DEF RefuseVector
<1> QED
  BY <1>1, <1>2, <1>3, <1>4, <1>5, <1>6, <1>7, <1>8, <1>10, <1>11 DEF ClientStep

\* Every reachable state has the shapes of the code's types.
THEOREM Typing == Spec => []TypeOK
<1>1. Init => TypeOK
  BY DEF Init, TypeOK
<1>2. TypeOK /\ [Next]_vars => TypeOK'
  <2>1. CASE UNCHANGED vars
    BY <2>1 DEF vars, TypeOK, IsRequest, IsResponse
  <2> QED BY <2>1, ServerStepType, ClientStepType DEF Next
<1> QED BY <1>1, <1>2, PTL DEF Spec

-----------------------------------------------------------------------------
(* The encoding of an index, and its evaluation *)

\* Among the rows, only the one an index lives in has its quotient and
\* remainder: the chunk and the position in it identify the row.
LEMMA UnitVectorAt ==
    ASSUME NEW index \in Entries, NEW r \in 0 .. InterpolatedRows - 1
    PROVE  UnitVector(index)[r] = IF r = RowOf(index) THEN 1 ELSE 0
<1> DEFINE row == RowOf(index)
<1>1. row \in Nat /\ r \in Nat /\ Degree \in Nat \ {0}
  BY RowColType, Lengths, ParamsAssumption
<1>2. /\ r = Degree * (r \div Degree) + (r % Degree)
      /\ row = Degree * (row \div Degree) + (row % Degree)
  BY <1>1, DivMod
<1>3. r \div Degree = row \div Degree /\ r % Degree = row % Degree <=> r = row
  BY <1>2
<1> QED BY <1>3 DEF UnitVector

\* The rows that a unit vector selects, at the column of an index, hold exactly
\* the entry of that index.
LEMMA CombinationOfIndex ==
    ASSUME NEW index \in Entries
    PROVE  Combination(UnitVector(index), ColOf(index)) = {<<index, 1>>}
<1> DEFINE w == UnitVector(index)
<1> DEFINE rows == { r \in 0 .. InterpolatedRows - 1 : r \in DOMAIN w /\ w[r] # 0 }
<1>1. RowOf(index) \in 0 .. InterpolatedRows - 1
  BY RowColType
<1>2. DOMAIN w = 0 .. InterpolatedRows - 1
  BY DEF UnitVector
<1>3. rows = {RowOf(index)}
  <2>1. \A r \in 0 .. InterpolatedRows - 1 : w[r] # 0 <=> r = RowOf(index)
    BY UnitVectorAt
  <2> HIDE DEF w
  <2> QED BY <1>1, <1>2, <2>1
<1>4. w[RowOf(index)] = 1
  BY <1>1, UnitVectorAt
<1>5. RowOf(index) * InterpolationDegree + ColOf(index) = index
  BY RowColType
<1> QED BY <1>3, <1>4, <1>5 DEF Combination

\* Different columns have different monomials: the sign and the exponent of
\* X^((2d/t) col) modulo X^d + 1 determine col.
LEMMA MonomialInjective ==
    ASSUME NEW c1 \in 0 .. InterpolationDegree - 1,
           NEW c2 \in 0 .. InterpolationDegree - 1,
           Monomial(c1) = Monomial(c2)
    PROVE  c1 = c2
<1> USE ParamsAssumption
<1> DEFINE step == (2 * Degree) \div InterpolationDegree
<1>1. step \in Nat \ {0}
  <2>0. 2 * Degree \in Nat
    OBVIOUS
  <2>1. step \in Nat
    BY <2>0, DivMod
  <2>2. 2 * Degree = InterpolationDegree * step + ((2 * Degree) % InterpolationDegree)
    BY <2>0, DivMod
  <2>3. step # 0
    <3>1. SUFFICES ASSUME step = 0 PROVE FALSE
      OBVIOUS
    <3>2. InterpolationDegree * step = 0
      BY <3>1
    <3>3. 2 * Degree = 0
      BY <2>2, <3>2
    <3> QED BY <3>3
  <2> QED BY <2>1, <2>3
<1> HIDE DEF step
<1>2. c1 \in Nat /\ c2 \in Nat /\ step * c1 \in Nat /\ step * c2 \in Nat
  BY <1>1
<1>3. step * c1 = step * c2
  BY <1>2 DEF Monomial, step
<1> QED BY <1>1, <1>2, <1>3, ProductGap

\* The monomial of an index picks out its column and no other.
LEMMA ColumnsOfIndex ==
    ASSUME NEW index \in Entries
    PROVE  ColumnsAt(Monomial(ColOf(index))) = {ColOf(index)}
<1>1. ColOf(index) \in 0 .. InterpolationDegree - 1
  BY RowColType
<1>2. CASE HasSecondDim
  BY <1>1, <1>2, MonomialInjective DEF ColumnsAt
<1>3. CASE ~HasSecondDim
  <2>1. InterpolationDegree = 1
    BY <1>3, ParamsAssumption DEF HasSecondDim
  <2> QED BY <1>1, <1>3, <2>1 DEF ColumnsAt
<1> QED BY <1>2, <1>3

\* The query that CreateRequest encodes for an index selects that entry, once,
\* and no other.
THEOREM IndexSelects ==
    ASSUME NEW req, NEW index \in Entries,
           req.weights = UnitVector(index), req.mono = Monomial(ColOf(index))
    PROVE  Evaluate(req) = {<<index, 1>>}
  BY ColumnsOfIndex, CombinationOfIndex DEF Evaluate

\* Without a second dimension a vector is evaluated as it stands.
LEMMA VectorSelects ==
    ASSUME NEW req, ~HasSecondDim
    PROVE  Evaluate(req) = Combination(req.weights, 0)
  BY DEF Evaluate, ColumnsAt

-----------------------------------------------------------------------------
(* The stream stays in order *)

\* Drawing moves only the cursor of one client, forwards.
LEMMA DrawForwards ==
    ASSUME TypeOK, NEW c \in Clients, client[c] # None, NEW n \in Nat, Draw(c, n)
    PROVE  /\ client'[c] # None /\ client'[c].consumed
           /\ client'[c].cursor = client[c].cursor + n
           /\ client[c].cursor \in Nat
           /\ \A c1 \in Clients \ {c} : client'[c1] = client[c1]
<1>1. client[c] \in ClientObjects /\ client \in [Clients -> {None} \cup ClientObjects]
  BY DEF TypeOK, ClientObjects
<1> DEFINE new == [client[c] EXCEPT !.cursor = @ + n, !.consumed = TRUE]
<1>2. client' = [client EXCEPT ![c] = new]
  BY <1>1 DEF Draw, ClientObjects
<1>3. new.cursor = client[c].cursor + n /\ new.consumed
  BY <1>1 DEF ClientObjects
<1>4. new \in ClientObjects
  <2>1. client[c].cursor + n \in 0 .. MaxDraws
    BY <1>1, ProtocolAssumption DEF ClientObjects, Draw
  <2> QED BY <1>1, <2>1 DEF ClientObjects
<1> HIDE DEF new
<1>5. client'[c] = new /\ \A c1 \in Clients \ {c} : client'[c1] = client[c1]
  BY <1>1, <1>2
<1>6. new # None
  BY <1>4, ProtocolAssumption DEF ClientObjects
<1>7. client[c].cursor \in Nat
  BY <1>1, ProtocolAssumption DEF ClientObjects
<1> QED BY <1>3, <1>5, <1>6, <1>7

\* Where the parts of a request lie once its length n and its cursor are known.
LEMMA MadeRequest ==
    ASSUME TypeOK, NEW c \in Clients, client[c] # None, NEW n \in Nat,
           NEW weights, NEW size, NEW mono, NEW want, NEW r,
           r = MakeRequest(c, n, weights, size, mono, want)
    PROVE  /\ r.owner = c /\ r.first = Slice(client[c].cursor, n)
           /\ r.first.from = client[c].cursor /\ r.first.len = n
           /\ r.second = SecondSlice(r.first.from + r.first.len)
           /\ r.pack = Slice(r.second.from + r.second.len, PackLen)
           /\ End(r) = client[c].cursor + RequestLen(n)
           /\ r.weights = weights /\ r.mono = mono /\ r.want = want
           /\ r.fresh <=> ~client[c].consumed
<1>1. client[c].cursor \in Nat
  BY ProtocolAssumption DEF TypeOK, ClientObjects
<1> DEFINE cursor == client[c].cursor
           second == SecondSlice(cursor + n)
<1>2. /\ r.owner = c /\ r.first = Slice(cursor, n) /\ r.second = second
      /\ r.pack = Slice(second.from + second.len, PackLen)
      /\ r.weights = weights /\ r.mono = mono /\ r.want = want
      /\ r.fresh = ~client[c].consumed
  BY DEF MakeRequest
<1>3. r.first.from = cursor /\ r.first.len = n
  BY <1>2 DEF Slice
<1>4. /\ second.from = cursor + n
      /\ second.len = SecondSlice(n).len /\ second.len \in Nat
  BY <1>1, Lengths DEF SecondSlice, Slice
<1>5. End(r) = second.from + second.len + PackLen
  BY <1>2 DEF End, Slice
<1>6. End(r) = cursor + (n + SecondSlice(n).len + PackLen)
  BY <1>1, <1>4, <1>5, Lengths
<1> QED BY <1>2, <1>3, <1>6 DEF RequestLen

\* The end of a request is a position of the stream.
LEMMA EndNat ==
    ASSUME NEW r, IsRequest(r)
    PROVE  End(r) \in Nat /\ r.first.from \in Nat /\ r.first.len \in Nat
  BY DEF IsRequest, Slices, End

\* A step that draws from one client, makes no request and sends nothing.
LEMMA DrawKeepsOrder ==
    ASSUME TypeOK, StreamInOrder, NEW c \in Clients, client[c] # None,
           NEW n \in Nat, Draw(c, n),
           UNCHANGED <<server, responses, requests>>, result' \in {Done, Refused}
    PROVE  StreamInOrder'
<1>1. \A req \in requests : RequestDrawn(req)'
  <2> TAKE req \in requests
  <2>1. RequestDrawn(req) /\ IsRequest(req) /\ req.owner \in Clients
    BY DEF StreamInOrder, TypeOK, IsRequest
  <2> QED BY <2>1, DrawForwards, EndNat DEF RequestDrawn
<1>2. ~Answered'
  OBVIOUS
<1>3. \A c1 \in Clients :
          client'[c1] # None /\ ~client'[c1].consumed => client'[c1].cursor = 0
  BY DrawForwards DEF StreamInOrder
<1> QED BY <1>1, <1>2, <1>3 DEF StreamInOrder

\* A step that makes one request from a client's cursor, encoding what it wants.
LEMMA RequestKeepsOrder ==
    ASSUME TypeOK, StreamInOrder, NEW c \in Clients, client[c] # None,
           NEW n \in Nat, Draw(c, RequestLen(n)),
           NEW weights, NEW size, NEW mono, NEW want, NEW r,
           r = MakeRequest(c, n, weights, size, mono, want),
           Evaluate(r) = want,
           requests' = requests \cup {r},
           UNCHANGED <<server, responses>>, result' \in {Done, Refused}
    PROVE  StreamInOrder'
<1>1. RequestLen(n) \in Nat \ {0}
  BY SliceType
<1>2. /\ client'[c] # None /\ client'[c].consumed
      /\ client'[c].cursor = client[c].cursor + RequestLen(n)
      /\ client[c].cursor \in Nat
      /\ \A c1 \in Clients \ {c} : client'[c1] = client[c1]
  BY <1>1, DrawForwards
<1>3. /\ r.owner = c /\ r.first.from = client[c].cursor
      /\ End(r) = client'[c].cursor
      /\ r.fresh => r.first.from = 0
  <2>1. /\ r.owner = c /\ r.first.from = client[c].cursor
        /\ End(r) = client[c].cursor + RequestLen(n)
        /\ r.fresh <=> ~client[c].consumed
    BY MadeRequest
  <2>2. ~client[c].consumed => client[c].cursor = 0
    BY DEF StreamInOrder
  <2> QED BY <1>2, <2>1, <2>2
<1>4. RequestLaidOut(r)
  BY <1>3, MadeRequest DEF RequestLaidOut
<1>5. \A req \in requests : RequestDrawn(req)'
  <2> TAKE req \in requests
  <2>1. RequestDrawn(req) /\ IsRequest(req) /\ req.owner \in Clients
    BY DEF StreamInOrder, TypeOK, IsRequest
  <2> QED BY <1>1, <1>2, <2>1, EndNat DEF RequestDrawn
<1>6. RequestDrawn(r)'
  BY <1>1, <1>2, <1>3 DEF RequestDrawn, End
<1>7. \A req \in requests : req.owner = c => End(req) <= r.first.from
  BY <1>3 DEF StreamInOrder, RequestDrawn
<1>8. \A r1, r2 \in requests' :
          r1.owner = r2.owner /\ r1 # r2 =>
              End(r1) <= r2.first.from \/ End(r2) <= r1.first.from
  BY <1>3, <1>7 DEF StreamInOrder
<1>9. \A c1 \in Clients :
          client'[c1] # None /\ ~client'[c1].consumed => client'[c1].cursor = 0
  BY <1>2 DEF StreamInOrder
<1>10. ~Answered'
  OBVIOUS
<1> QED BY <1>4, <1>5, <1>6, <1>8, <1>9, <1>10 DEF StreamInOrder

\* The server under a seed, as Preprocess makes it, and one that is installed
\* agree on what they are aligned with.
LEMMA AlignedInstalled ==
    ASSUME StreamInOrder, server # None, NEW req
    PROVE  Aligned(req, server) =
               Aligned(req, [seed |-> server.seed, first |-> PreprocessFirst,
                             second |-> PreprocessSecond, pack |-> PreprocessPack])
  BY DEF Aligned, StreamInOrder

\* No server step moves a stream; a response reports what the server did.
LEMMA ServerKeepsOrder ==
    ASSUME TypeOK, StreamInOrder, ServerStep
    PROVE  StreamInOrder'
<1> USE DEF RequestDrawn
<1>1. ASSUME NEW seed \in Seeds, NEW gen \in Generations, InstallServer(seed, gen)
      PROVE  StreamInOrder'
  <2>1. /\ server'.first = PreprocessFirst /\ server'.second = PreprocessSecond
        /\ server'.pack = PreprocessPack
    BY <1>1 DEF InstallServer
  <2>2. UNCHANGED <<client, requests, responses>> /\ ~Answered'
    BY <1>1 DEF InstallServer
  <2> QED BY <2>1, <2>2 DEF StreamInOrder
<1>2. ASSUME NEW req \in requests, ServeRequest(req)
      PROVE  StreamInOrder'
  <2>1. UNCHANGED <<server, client, requests>> /\ ~Answered' /\ server # None
    BY <1>2 DEF ServeRequest
  <2>2. ASSUME NEW resp \in responses' PROVE ResponseHonest(resp)
    <3>1. CASE resp \in responses
      BY <3>1 DEF StreamInOrder
    <3>2. CASE resp \notin responses
      <4>1. resp = [req |-> req, gen |-> server.gen,
                    aligned |-> Aligned(req, server), seed |-> server.seed,
                    value |-> Evaluate(req), ciphertexts |-> EntrySizeMultiple]
        BY <1>2, <3>2 DEF ServeRequest
      <4>2. /\ resp.req = req /\ resp.seed = server.seed
            /\ resp.value = Evaluate(req) /\ resp.aligned = Aligned(req, server)
        BY <4>1
      <4>3. Evaluate(req) = req.want
        BY DEF StreamInOrder, RequestLaidOut
      <4> QED BY <2>1, <4>2, <4>3, AlignedInstalled DEF ResponseHonest
    <3> QED BY <3>1, <3>2
  <2> QED BY <2>1, <2>2 DEF StreamInOrder
<1>3. ASSUME NEW req \in requests, RefuseRequest(req)
      PROVE  StreamInOrder'
  <2>1. UNCHANGED <<server, client, requests, responses>> /\ ~Answered'
    BY <1>3 DEF RefuseRequest
  <2> QED BY <2>1 DEF StreamInOrder
<1> QED BY <1>1, <1>2, <1>3 DEF ServerStep

\* Every call of a client moves its stream forward only.
LEMMA ClientKeepsOrder ==
    ASSUME TypeOK, StreamInOrder, NEW c \in Clients, ClientStep(c)
    PROVE  StreamInOrder'
<1>1. ASSUME NEW seed \in Seeds, CreateClient(c, seed)
      PROVE  StreamInOrder'
  <2>1. /\ UNCHANGED <<server, requests, responses>> /\ ~Answered'
        /\ client[c] = None
    BY <1>1 DEF CreateClient
  <2>2. client'[c].cursor = 0 /\ \A c1 \in Clients \ {c} : client'[c1] = client[c1]
    BY <1>1 DEF CreateClient, TypeOK
  <2>3. \A req \in requests : RequestDrawn(req)'
    BY <2>1, <2>2 DEF StreamInOrder, RequestDrawn, TypeOK, IsRequest
  <2>4. \A c1 \in Clients :
            client'[c1] # None /\ ~client'[c1].consumed => client'[c1].cursor = 0
    BY <2>2 DEF StreamInOrder
  <2> QED BY <2>1, <2>3, <2>4 DEF StreamInOrder
<1>2. ASSUME NEW index \in Indices, CreateRequest(c, index)
      PROVE  StreamInOrder'
  <2> DEFINE r == MakeRequest(c, FirstLen, UnitVector(index), InterpolatedRows,
                              Monomial(ColOf(index)), {<<index, 1>>})
  <2>1. /\ client[c] # None /\ index \in Entries /\ Draw(c, RequestLen(FirstLen))
        /\ requests' = requests \cup {r} /\ result' = Done
        /\ UNCHANGED <<server, responses>>
    BY <1>2 DEF CreateRequest
  <2>2. r.weights = UnitVector(index) /\ r.mono = Monomial(ColOf(index))
    BY DEF MakeRequest
  <2> HIDE DEF r
  <2>3. Evaluate(r) = {<<index, 1>>}
    BY <2>1, <2>2, IndexSelects
  <2> QED BY <2>1, <2>3, Lengths, RequestKeepsOrder DEF r
<1>3. ASSUME NEW v \in Vectors, CreateRequestForVector(c, v)
      PROVE  StreamInOrder'
  <2> DEFINE r == MakeRequest(c, VectorSize(v), v, VectorSize(v), Monomial(0),
                              Combination(v, 0))
  <2>1. /\ client[c] # None /\ ~HasSecondDim /\ Draw(c, RequestLen(VectorSize(v)))
        /\ requests' = requests \cup {r} /\ result' = Done
        /\ UNCHANGED <<server, responses>>
    BY <1>3 DEF CreateRequestForVector
  <2>2. r.weights = v
    BY DEF MakeRequest
  <2> HIDE DEF r
  <2>3. Evaluate(r) = Combination(v, 0)
    BY <2>1, <2>2, VectorSelects
  <2> QED BY <2>1, <2>3, VectorType, RequestKeepsOrder DEF r
<1>4. ASSUME NEW v \in Vectors, RefuseCoefficient(c, v)
      PROVE  StreamInOrder'
  BY <1>4, VectorType, DrawKeepsOrder DEF RefuseCoefficient
<1>5. CASE CreatePackingKey(c)
  BY <1>5, Lengths, DrawKeepsOrder DEF CreatePackingKey
<1>6. CASE CreateSecondDimensionQuery(c)
  BY <1>6, Lengths, DrawKeepsOrder DEF CreateSecondDimensionQuery
<1>7. ASSUME NEW n \in FaultPoints, InterruptRequest(c, n)
      PROVE  StreamInOrder'
  BY <1>7, ProtocolAssumption, DrawKeepsOrder DEF InterruptRequest
<1>8. ASSUME NEW resp \in responses, ProcessResponse(c, resp)
      PROVE  StreamInOrder'
  <2>1. UNCHANGED <<server, client, requests>> /\ responses' \subseteq responses
    BY <1>8 DEF ProcessResponse
  <2>2. /\ result'.by = c /\ result'.resp = resp
        /\ result'.got = Decrypt(result'.by, result'.resp)
    BY <1>8 DEF ProcessResponse
  <2>3. ResponseHonest(result'.resp) /\ \A r \in responses' : ResponseHonest(r)
    BY <2>1, <2>2 DEF StreamInOrder
  <2> QED BY <2>1, <2>2, <2>3 DEF StreamInOrder, RequestDrawn
<1>9. ASSUME UNCHANGED <<server, client, requests, responses>>, result' = Refused
      PROVE  StreamInOrder'
  <2>1. ~Answered'
    BY <1>9
  <2> QED BY <1>9, <2>1 DEF StreamInOrder, RequestDrawn
<1>10. ASSUME NEW index \in Indices, RefuseIndex(c, index) PROVE StreamInOrder'
  BY <1>9, <1>10 DEF RefuseIndex
<1>11. ASSUME NEW v \in Vectors, RefuseVector(c, v) PROVE StreamInOrder'
  BY <1>9, <1>11 DEF RefuseVector
<1> QED
  BY <1>1, <1>2, <1>3, <1>4, <1>5, <1>6, <1>7, <1>8, <1>10, <1>11 DEF ClientStep

\* The invariant that the four properties rest on is inductive relative to
\* type correctness.
THEOREM Order == Spec => []StreamInOrder
<1>1. Init => StreamInOrder
  BY DEF Init, StreamInOrder
<1>2. TypeOK /\ StreamInOrder /\ [Next]_vars => StreamInOrder'
  <2>1. CASE UNCHANGED vars
    BY <2>1 DEF vars, StreamInOrder, RequestDrawn
  <2> QED BY <2>1, ServerKeepsOrder, ClientKeepsOrder DEF Next
<1> QED BY <1>1, <1>2, Typing, PTL DEF Spec

-----------------------------------------------------------------------------
(* What follows from the order *)

\* A request that starts its client's stream and covers the first dimension is
\* aligned with every server under its seed.
LEMMA FreshAligned ==
    ASSUME NEW req, RequestLaidOut(req), req.first = Slice(0, FirstLen)
    PROVE  Aligned(req, [seed |-> req.seed, first |-> PreprocessFirst,
                         second |-> PreprocessSecond, pack |-> PreprocessPack])
<1>1. req.first.from = 0 /\ req.first.len = FirstLen /\ 0 + FirstLen = FirstLen
  BY Lengths DEF Slice
<1>2. req.second = PreprocessSecond
  BY <1>1 DEF RequestLaidOut, SecondSlice, PreprocessSecond
<1>3. req.pack = PreprocessPack
  BY <1>2 DEF RequestLaidOut, PreprocessPack
<1>4. PreprocessFirst.from = 0 /\ PreprocessFirst.len = FirstLen
  BY DEF PreprocessFirst, Slice
<1> QED BY <1>1, <1>2, <1>3, <1>4, Lengths DEF Aligned

\* In order, a request from the start of a stream meets what Preprocess expanded.
LEMMA OrderImpliesFresh == TypeOK /\ StreamInOrder => FreshAnswerRight
<1> SUFFICES ASSUME TypeOK, StreamInOrder, Answered,
                    result.resp.req.fresh, result.resp.req.owner = result.by,
                    result.resp.req.seed = result.resp.seed,
                    result.resp.req.first.len = FirstLen
             PROVE  result.got = result.resp.req.want
  BY DEF FreshAnswerRight
<1> DEFINE req == result.resp.req
<1>1. req \in requests /\ IsRequest(req)
  BY DEF TypeOK, IsResponse
<1>2. RequestLaidOut(req)
  BY <1>1 DEF StreamInOrder
<1>3. req.first = Slice(0, FirstLen)
  BY <1>1, <1>2 DEF RequestLaidOut, IsRequest, Slices, Slice
<1>4. result.resp.aligned /\ result.resp.value = req.want
  BY <1>2, <1>3, FreshAligned DEF StreamInOrder, ResponseHonest
<1> QED BY <1>4 DEF StreamInOrder, Decrypt

\* In order, an aligned response carries what its request asked for.
LEMMA OrderImpliesNoWrongAnswer == StreamInOrder => NoWrongAnswer
  BY DEF StreamInOrder, NoWrongAnswer, ResponseHonest, Decrypt

\* The parts of a request follow one another, and the request is not empty.
LEMMA PartsInOrder ==
    ASSUME NEW req, IsRequest(req), RequestLaidOut(req)
    PROVE  /\ req.first.from \in Nat /\ req.first.len \in Nat
           /\ req.second.from = req.first.from + req.first.len
           /\ req.second.len \in Nat
           /\ req.pack.from = req.second.from + req.second.len
           /\ End(req) = req.pack.from + req.pack.len
           /\ req.pack.len \in Nat
           /\ req.first.from < End(req)
<1>1. /\ req.first.from \in Nat /\ req.first.len \in Nat
      /\ req.second.len \in Nat /\ req.pack.len \in Nat
  BY DEF IsRequest, Slices
<1>2. /\ req.second.from = req.first.from + req.first.len
      /\ req.pack.from = req.second.from + req.second.len
      /\ req.pack.len = PackLen
  BY DEF RequestLaidOut, SecondSlice, Slice
<1>3. End(req) = req.pack.from + req.pack.len
  BY DEF End
<1> QED BY <1>1, <1>2, <1>3, Lengths

\* In order, only one request can begin where Preprocess began.
LEMMA OrderImpliesOneServable == TypeOK /\ StreamInOrder => OneServableRequest
<1> SUFFICES ASSUME TypeOK, StreamInOrder, NEW r1 \in requests, NEW r2 \in requests,
                    r1.owner = r2.owner, r1 # r2,
                    r1.first.from = 0, r2.first.from = 0
             PROVE  FALSE
  BY DEF OneServableRequest, Aligned, PreprocessFirst, Slice
<1>1. 0 < End(r1) /\ 0 < End(r2) /\ End(r1) \in Nat /\ End(r2) \in Nat
  BY PartsInOrder, EndNat DEF TypeOK, StreamInOrder
<1>2. End(r1) <= 0 \/ End(r2) <= 0
  BY DEF StreamInOrder
<1> QED BY <1>1, <1>2

\* All that a request uses lies between its start and its end.
LEMMA UsedBetween ==
    ASSUME NEW req, IsRequest(req), RequestLaidOut(req)
    PROVE  \A i \in Used(req) : i \in Int /\ req.first.from <= i /\ i < End(req)
<1> USE PartsInOrder DEF Used, Positions
<1>1. \A i \in Positions(req.first) : i \in Int /\ req.first.from <= i /\ i < End(req)
  BY Lengths DEF RequestLaidOut, Slice
<1>2. \A i \in Positions(req.second) : i \in Int /\ req.first.from <= i /\ i < End(req)
  BY Lengths DEF RequestLaidOut, Slice
<1>3. \A i \in Positions(req.pack) : i \in Int /\ req.first.from <= i /\ i < End(req)
  OBVIOUS
<1> QED BY <1>1, <1>2, <1>3

\* In order, the requests of a client use disjoint stretches of its stream.
LEMMA OrderImpliesUsedOnce == TypeOK /\ StreamInOrder => AComponentsUsedOnce
<1> SUFFICES ASSUME TypeOK, StreamInOrder PROVE AComponentsUsedOnce
  OBVIOUS
<1>1. \A r \in requests : IsRequest(r) /\ RequestLaidOut(r)
  BY DEF TypeOK, StreamInOrder
<1>2. ASSUME NEW r \in requests
      PROVE  /\ Positions(r.first) \cap Positions(r.second) = {}
             /\ Positions(r.first) \cap Positions(r.pack) = {}
             /\ Positions(r.second) \cap Positions(r.pack) = {}
  BY <1>1, <1>2, PartsInOrder DEF Positions
<1>3. ASSUME NEW r1 \in requests, NEW r2 \in requests, r1.owner = r2.owner, r1 # r2
      PROVE  Used(r1) \cap Used(r2) = {}
  <2>1. End(r1) <= r2.first.from \/ End(r2) <= r1.first.from
    BY <1>3 DEF StreamInOrder
  <2>2. /\ \A i \in Used(r1) : i \in Int /\ r1.first.from <= i /\ i < End(r1)
        /\ \A i \in Used(r2) : i \in Int /\ r2.first.from <= i /\ i < End(r2)
    BY <1>1, UsedBetween
  <2>3. /\ End(r1) \in Nat /\ End(r2) \in Nat
        /\ r1.first.from \in Nat /\ r2.first.from \in Nat
    BY <1>1, EndNat
  <2> QED BY <2>1, <2>2, <2>3
<1> QED BY <1>2, <1>3 DEF AComponentsUsedOnce

\* The first answer to a client object is right, whatever the parameters, the
\* number of clients, servers, seeds and generations, and the calls refused.
THEOREM FreshAnswers == Spec => []FreshAnswerRight
  BY Typing, Order, OrderImpliesFresh, PTL

\* A client object makes at most one request that a server can answer.
THEOREM OneRequestPerClient == Spec => []OneServableRequest
  BY Typing, Order, OrderImpliesOneServable, PTL

\* No a component is used for two ciphertexts of one client.
THEOREM ComponentsUsedOnce == Spec => []AComponentsUsedOnce
  BY Typing, Order, OrderImpliesUsedOnce, PTL

\* An answer is noise or exactly what its request asked for.
THEOREM NoWrongAnswers == Spec => []NoWrongAnswer
  BY Order, OrderImpliesNoWrongAnswer, PTL

-----------------------------------------------------------------------------
(* Driven as PirOneShot drives it *)

\* The discipline only removes steps.
LEMMA OneShotStep == OneShotNext => Next
<1>1. Reinstall => ServerStep
  BY OneShotAssumption DEF Reinstall, ServerStep
<1>2. ASSUME NEW c \in Clients
      PROVE  /\ CreateClient(c, SharedSeed) => ClientStep(c)
             /\ Lookup(c) => ClientStep(c)
             /\ Serve(c) => ServerStep
             /\ Extract(c) => ClientStep(c)
  <2>1. CreateClient(c, SharedSeed) => ClientStep(c)
    BY OneShotAssumption DEF ClientStep
  <2>2. Lookup(c) => ClientStep(c)
    BY DEF Lookup, ClientStep
  <2>3. Serve(c) => ServerStep
    BY Zenon DEF Serve, ServerStep
  <2>4. Extract(c) => ClientStep(c)
    BY DEF Extract, ClientStep
  <2> QED BY <2>1, <2>2, <2>3, <2>4
<1> QED BY <1>1, <1>2 DEF OneShotNext, Next

\* The discipline is a special case of the protocol, so its invariants carry over.
LEMMA OneShotOrder == OneShotSafety => [](TypeOK /\ StreamInOrder)
<1>1. [OneShotNext]_vars => [Next]_vars
  BY OneShotStep
<1>2. OneShotSafety => Spec
  BY <1>1, PTL DEF OneShotSafety, Spec
<1> QED BY <1>2, Typing, Order, PTL
-----------------------------------------------------------------------------
(* The discipline is kept *)

\* A new server under the shared seed changes no client and no request.
LEMMA ReinstallKeeps ==
    ASSUME TypeOK, OneShotDiscipline, Reinstall
    PROVE  OneShotDiscipline'
<1>1. server'.seed = SharedSeed /\ UNCHANGED <<client, requests, responses>>
  BY DEF Reinstall, InstallServer
<1> QED BY <1>1 DEF OneShotDiscipline

\* A new client starts under the shared seed, unused, with no request.
LEMMA CreateClientKeeps ==
    ASSUME TypeOK, OneShotDiscipline, StreamInOrder, NEW c \in Clients,
           CreateClient(c, SharedSeed)
    PROVE  OneShotDiscipline'
<1>1. /\ UNCHANGED <<server, requests, responses>>
      /\ client'[c].seed = SharedSeed
      /\ \A c1 \in Clients \ {c} : client'[c1] = client[c1]
  BY DEF CreateClient, TypeOK
<1>2. \A req \in requests : req.owner \in Clients \ {c}
  BY DEF StreamInOrder, RequestDrawn, CreateClient, TypeOK, IsRequest
<1> QED BY <1>1, <1>2 DEF OneShotDiscipline

\* What using the PRNG of a client leaves alone.
LEMMA DrawKeeps ==
    ASSUME TypeOK, NEW c \in Clients, client[c] # None, NEW n \in Nat, Draw(c, n)
    PROVE  /\ client'[c].seed = client[c].seed /\ client'[c].consumed
           /\ client'[c] # None
           /\ \A c1 \in Clients \ {c} : client'[c1] = client[c1]
<1>1. client[c] \in ClientObjects /\ client \in [Clients -> {None} \cup ClientObjects]
  BY DEF TypeOK
<1>2. client'[c].seed = client[c].seed
  BY <1>1 DEF Draw, ClientObjects
<1> QED BY <1>2, DrawForwards

\* An unpadded query fits whatever padding the online matrix has.
LEMMA RowsInWindow == InterpolatedRows \in InterpolatedRows .. DbCols
<1>1. InterpolatedRows \in Nat
  BY Lengths
<1> QED BY <1>1, CeilDivCovers, ParamsAssumption DEF DbCols

\* The one call that uses the stream, made at its start, keeps the discipline
\* whether it returns a request, refuses the index or fails half-way.
LEMMA LookupKeeps ==
    ASSUME TypeOK, OneShotDiscipline, StreamInOrder, NEW c \in Clients, Lookup(c)
    PROVE  OneShotDiscipline'
<1>1. client[c] # None /\ ~client[c].consumed
  BY DEF Lookup
<1>2. \A req \in requests : req.owner \in Clients \ {c}
  BY <1>1 DEF OneShotDiscipline, TypeOK, IsRequest
<1>3. ASSUME NEW index \in Indices, CreateRequest(c, index)
      PROVE  OneShotDiscipline'
  <2> DEFINE r == MakeRequest(c, FirstLen, UnitVector(index), InterpolatedRows,
                              Monomial(ColOf(index)), {<<index, 1>>})
  <2>1. /\ UNCHANGED <<server, responses>> /\ requests' = requests \cup {r}
        /\ index \in Entries /\ Draw(c, RequestLen(FirstLen))
    BY <1>3 DEF CreateRequest
  <2>2. /\ client'[c].seed = client[c].seed /\ client'[c].consumed
        /\ client'[c] # None
        /\ \A c1 \in Clients \ {c} : client'[c1] = client[c1]
    BY <1>1, <2>1, Lengths, SliceType, DrawKeeps
  <2>3. client[c].cursor = 0 /\ client[c].seed = SharedSeed
    BY <1>1 DEF StreamInOrder, OneShotDiscipline
  <2>4. /\ r.owner = c /\ r.seed = SharedSeed /\ r.want = {<<index, 1>>}
        /\ r.first = Slice(0, FirstLen) /\ r.size = InterpolatedRows
    BY <2>3 DEF MakeRequest
  <2> HIDE DEF r
  <2>7. QuerySizeOK(r)
    BY <2>4, RowsInWindow DEF QuerySizeOK
  <2>5. \A r1, r2 \in requests' : r1.owner = r2.owner => r1 = r2
    BY <1>2, <2>1, <2>4 DEF OneShotDiscipline
  <2>6. \A req \in requests' :
            /\ client'[req.owner].consumed
            /\ req.seed = SharedSeed
            /\ req.first = Slice(0, FirstLen)
            /\ QuerySizeOK(req)
            /\ \E e \in Entries : req.want = {<<e, 1>>}
    BY <1>2, <2>1, <2>2, <2>4, <2>7 DEF OneShotDiscipline
  <2> QED BY <2>1, <2>2, <2>3, <2>5, <2>6 DEF OneShotDiscipline
<1>4. ASSUME NEW index \in Indices, RefuseIndex(c, index)
      PROVE  OneShotDiscipline'
  BY <1>4 DEF RefuseIndex, OneShotDiscipline
<1>5. ASSUME NEW n \in FaultPoints, InterruptRequest(c, n)
      PROVE  OneShotDiscipline'
  <2>1. UNCHANGED <<server, requests, responses>> /\ Draw(c, n) /\ n \in Nat
    BY <1>5, ProtocolAssumption DEF InterruptRequest
  <2>2. /\ client'[c].seed = client[c].seed /\ client'[c].consumed
        /\ \A c1 \in Clients \ {c} : client'[c1] = client[c1]
    BY <1>1, <2>1, DrawKeeps
  <2> QED BY <1>1, <1>2, <2>1, <2>2 DEF OneShotDiscipline
<1> QED BY <1>3, <1>4, <1>5 DEF Lookup

\* The response that Serve(c) sends: to the only request of c, aligned, and
\* carrying the entry asked for.
LEMMA Served ==
    ASSUME TypeOK, OneShotDiscipline, StreamInOrder, NEW c \in Clients, Serve(c)
    PROVE  \E req \in requests : \E resp :
               /\ req.owner = c /\ resp.req = req /\ resp.aligned
               /\ resp.value = req.want /\ resp.gen = server.gen
               /\ responses' = responses \cup {resp}
               /\ server # None /\ result' = Done
               /\ UNCHANGED <<server, client, requests>>
<1>1. PICK req \in requests : req.owner = c /\ ServeRequest(req)
  BY DEF Serve, RefuseRequest, OneShotDiscipline
<1> DEFINE resp == [req |-> req, gen |-> server.gen, aligned |-> Aligned(req, server),
                    seed |-> server.seed, value |-> Evaluate(req),
                    ciphertexts |-> EntrySizeMultiple]
<1>2. /\ responses' = responses \cup {resp} /\ server # None /\ result' = Done
      /\ UNCHANGED <<server, client, requests>>
  BY <1>1 DEF ServeRequest
<1>3. /\ RequestLaidOut(req) /\ req.first = Slice(0, FirstLen)
      /\ req.seed = SharedSeed /\ server.seed = SharedSeed
  BY <1>2 DEF StreamInOrder, OneShotDiscipline
<1>4. Aligned(req, server)
  BY <1>2, <1>3, FreshAligned, AlignedInstalled
<1>5. Evaluate(req) = req.want
  BY <1>3 DEF RequestLaidOut
<1>6. /\ resp.req = req /\ resp.aligned /\ resp.value = req.want
      /\ resp.gen = server.gen
  BY <1>4, <1>5
<1> HIDE DEF resp
<1> QED BY <1>1, <1>2, <1>6

\* A response is sent only when its owner has none to come.
LEMMA ServeKeeps ==
    ASSUME TypeOK, OneShotDiscipline, StreamInOrder, NEW c \in Clients, Serve(c)
    PROVE  OneShotDiscipline'
<1>0. PICK req \in requests : \E resp :
          /\ req.owner = c /\ resp.req = req /\ resp.aligned
          /\ resp.value = req.want /\ resp.gen = server.gen
          /\ responses' = responses \cup {resp}
          /\ server # None /\ result' = Done
          /\ UNCHANGED <<server, client, requests>>
  BY Served
<1>1. PICK resp :
          /\ req.owner = c /\ resp.req = req /\ resp.aligned
          /\ responses' = responses \cup {resp}
          /\ UNCHANGED <<server, client, requests>>
  BY <1>0
<1>2. \A r \in responses : r.req.owner # c
  BY DEF Serve
<1>3. \A r1, r2 \in responses' : r1.req.owner = r2.req.owner => r1 = r2
  BY <1>1, <1>2 DEF OneShotDiscipline
<1> QED BY <1>1, <1>3 DEF OneShotDiscipline

\* Taking a response away leaves the others as they were.
LEMMA ExtractKeeps ==
    ASSUME TypeOK, OneShotDiscipline, NEW c \in Clients, Extract(c)
    PROVE  OneShotDiscipline'
<1>1. UNCHANGED <<server, client, requests>> /\ responses' \subseteq responses
  BY DEF Extract, ProcessResponse
<1> QED BY <1>1 DEF OneShotDiscipline

\* One lookup per client object, whatever is refused and reinstalled meanwhile.
THEOREM Disciplined == OneShotSafety => []OneShotDiscipline
<1>1. Init => OneShotDiscipline
  BY DEF Init, OneShotDiscipline
<1>2. TypeOK /\ StreamInOrder /\ OneShotDiscipline /\ [OneShotNext]_vars
      => OneShotDiscipline'
  <2>1. CASE UNCHANGED vars
    BY <2>1 DEF vars, OneShotDiscipline
  <2> QED
    BY <2>1, ReinstallKeeps, CreateClientKeeps, LookupKeeps, ServeKeeps, ExtractKeeps
    DEF OneShotNext
<1> QED BY <1>1, <1>2, OneShotOrder, PTL DEF OneShotSafety

-----------------------------------------------------------------------------
(* The refinement, step by step *)

\* The mapping of PirOneShot, each part under a name.
AbsGen == IF server = None THEN None ELSE server.gen

AbsAsked == [c \in Clients |-> IF RequestsOf(c) = {} THEN None ELSE Seen(c)]

AbsPending ==
    { [caller |-> resp.req.owner, got |-> Decrypt(resp.req.owner, resp),
       gen |-> resp.gen] : resp \in responses }

AbsAnswer ==
    IF Answered
    THEN [caller |-> result.by, got |-> result.got, gen |-> result.resp.gen]
    ELSE None

\* The client of a request asked what the request wants.
LEMMA AskedIs ==
    ASSUME TypeOK, OneShotDiscipline, NEW req \in requests
    PROVE  AbsAsked[req.owner] = req.want /\ req.owner \in Clients
<1>1. req.owner \in Clients
  BY DEF TypeOK, IsRequest
<1>2. RequestsOf(req.owner) = {req}
  BY DEF RequestsOf, OneShotDiscipline
<1> QED BY <1>1, <1>2 DEF AbsAsked, Seen

\* Preprocessing a generation is the abstract Install.
LEMMA AbsReinstall ==
    ASSUME TypeOK, Reinstall
    PROVE  \E g \in Generations : Abstract!Install(g)
<1>1. PICK g \in Generations : InstallServer(SharedSeed, g)
  BY DEF Reinstall
<1>2. /\ server'.gen = g /\ server' # None
      /\ UNCHANGED <<client, requests, responses>> /\ ~Answered'
  <2>1. server' \in Servers
    BY <1>1, PreprocessType, OneShotAssumption DEF InstallServer, Servers
  <2> QED BY <1>1, <2>1, ProtocolAssumption DEF InstallServer
<1>3. /\ AbsGen' = g /\ AbsAnswer' = None
      /\ UNCHANGED <<AbsAsked, AbsPending>>
  BY <1>2 DEF AbsGen, AbsAsked, AbsPending, AbsAnswer, RequestsOf, Seen
<1> QED BY <1>3 DEF Abstract!Install, AbsGen, AbsAsked, AbsPending, AbsAnswer

\* A step that makes no request, answers nothing and leaves the server alone.
LEMMA AbsQuiet ==
    ASSUME UNCHANGED <<server, requests, responses>>, result' \in {Done, Refused}
    PROVE  Abstract!Quiet
<1>1. /\ AbsAnswer' = None
      /\ UNCHANGED <<AbsGen, AbsAsked, AbsPending>>
  BY DEF AbsGen, AbsAsked, AbsPending, AbsAnswer, RequestsOf, Seen
<1> QED BY <1>1 DEF Abstract!Quiet, AbsGen, AbsAsked, AbsPending, AbsAnswer

\* Creating a request is the abstract Ask; a refused or failed call is quiet.
LEMMA AbsLookup ==
    ASSUME TypeOK, OneShotDiscipline, OneShotDiscipline', TypeOK',
           NEW c \in Clients, Lookup(c)
    PROVE  Abstract!Next
<1>1. ASSUME NEW index \in Indices, CreateRequest(c, index)
      PROVE  Abstract!Ask(c, index) /\ index \in Entries
  <2> DEFINE r == MakeRequest(c, FirstLen, UnitVector(index), InterpolatedRows,
                              Monomial(ColOf(index)), {<<index, 1>>})
  <2>1. /\ UNCHANGED <<server, responses>> /\ requests' = requests \cup {r}
        /\ index \in Entries /\ result' = Done
    BY <1>1 DEF CreateRequest
  <2>2. r.owner = c /\ r.want = {<<index, 1>>}
    BY DEF MakeRequest
  <2> HIDE DEF r
  <2>3. \A req \in requests : req.owner # c
    BY DEF Lookup, OneShotDiscipline
  <2>4. RequestsOf(c) = {} /\ RequestsOf(c)' = {r}
    BY <2>1, <2>2, <2>3 DEF RequestsOf
  <2>5. \A c1 \in Clients \ {c} : RequestsOf(c1)' = RequestsOf(c1)
    BY <2>1, <2>2 DEF RequestsOf
  <2>6. AbsAsked[c] = None
    BY <2>4 DEF AbsAsked
  <2>7. AbsAsked' = [AbsAsked EXCEPT ![c] = {<<index, 1>>}]
    <3>1. Seen(c)' = {<<index, 1>>}
      BY <2>2, <2>4 DEF Seen
    <3>2. AbsAsked'[c] = {<<index, 1>>}
      BY <2>4, <3>1 DEF AbsAsked
    <3>3. \A c1 \in Clients \ {c} : AbsAsked'[c1] = AbsAsked[c1]
      <4> TAKE c1 \in Clients \ {c}
      <4>1. RequestsOf(c1)' = RequestsOf(c1) /\ Seen(c1)' = Seen(c1)
        BY <2>5 DEF Seen
      <4> QED BY <4>1 DEF AbsAsked
    <3> QED BY <3>2, <3>3 DEF AbsAsked
  <2>8. AbsAnswer' = None /\ UNCHANGED <<AbsGen, AbsPending>>
    BY <2>1 DEF AbsAnswer, AbsGen, AbsPending
  <2> QED BY <2>1, <2>6, <2>7, <2>8
          DEF Abstract!Ask, Abstract!Only, AbsGen, AbsAsked, AbsPending, AbsAnswer
<1>2. ASSUME NEW index \in Indices, RefuseIndex(c, index) PROVE Abstract!Quiet
  BY <1>2, AbsQuiet DEF RefuseIndex
<1>3. ASSUME NEW n \in FaultPoints, InterruptRequest(c, n) PROVE Abstract!Quiet
  BY <1>3, AbsQuiet DEF InterruptRequest
<1> QED BY <1>1, <1>2, <1>3 DEF Lookup, Abstract!Next

\* PirServer::ProcessResponse is the abstract Look.
LEMMA AbsServe ==
    ASSUME TypeOK, OneShotDiscipline, StreamInOrder, NEW c \in Clients, Serve(c)
    PROVE  Abstract!Look(c)
<1>0. PICK req \in requests : \E resp :
          /\ req.owner = c /\ resp.req = req /\ resp.aligned
          /\ resp.value = req.want /\ resp.gen = server.gen
          /\ responses' = responses \cup {resp}
          /\ server # None /\ result' = Done
          /\ UNCHANGED <<server, client, requests>>
  BY Served
<1>1. PICK resp :
          /\ req.owner = c /\ resp.req = req /\ resp.aligned
          /\ resp.value = req.want /\ resp.gen = server.gen
          /\ responses' = responses \cup {resp}
          /\ server # None /\ result' = Done
          /\ UNCHANGED <<server, client, requests>>
  BY <1>0
<1>2. AbsAsked[c] = req.want /\ req.want # None
  BY <1>1, AskedIs, OneShotAssumption DEF OneShotDiscipline
<1>3. AbsGen = server.gen /\ AbsGen # None
  BY <1>1, OneShotAssumption DEF AbsGen, TypeOK, Servers
<1>4. Decrypt(c, resp) = req.want
  BY <1>1 DEF Decrypt
<1>5. AbsPending' = AbsPending \cup
          {[caller |-> c, got |-> AbsAsked[c], gen |-> AbsGen]}
  BY <1>1, <1>2, <1>3, <1>4 DEF AbsPending
<1>6. AbsAnswer' = None /\ UNCHANGED <<AbsGen, AbsAsked>>
  BY <1>1 DEF AbsAnswer, AbsGen, AbsAsked, RequestsOf, Seen
<1> QED BY <1>2, <1>3, <1>5, <1>6
        DEF Abstract!Look, AbsGen, AbsAsked, AbsPending, AbsAnswer

\* PirClient::ProcessResponse is the abstract Deliver.
LEMMA AbsExtract ==
    ASSUME TypeOK, OneShotDiscipline, NEW c \in Clients, Extract(c)
    PROVE  Abstract!Next
<1>1. PICK resp \in responses : resp.req.owner = c /\ ProcessResponse(c, resp)
  BY DEF Extract
<1> DEFINE a == [caller |-> c, got |-> Decrypt(c, resp), gen |-> resp.gen]
<1>2. /\ result' = [status |-> "answer", by |-> c, resp |-> resp, got |-> Decrypt(c, resp)]
      /\ responses' = responses \ {resp}
      /\ UNCHANGED <<server, client, requests>>
  BY <1>1 DEF ProcessResponse
<1>3. a \in AbsPending
  BY <1>1 DEF AbsPending
<1>4. \A r \in responses \ {resp} : r.req.owner # c
  BY <1>1 DEF OneShotDiscipline
<1>5. AbsPending' = AbsPending \ {a}
  BY <1>1, <1>2, <1>4 DEF AbsPending
<1>6. UNCHANGED <<AbsGen, AbsAsked>>
  BY <1>2 DEF AbsGen, AbsAsked, RequestsOf, Seen
<1>7. AbsAnswer' = a
  BY <1>2 DEF AbsAnswer
<1> HIDE DEF a
<1>8. Abstract!Deliver(a)
  BY <1>5, <1>6, <1>7 DEF Abstract!Deliver, AbsGen, AbsAsked, AbsPending, AbsAnswer
<1> QED BY <1>3, <1>8 DEF Abstract!Next, AbsPending

\* Driven one client object per lookup, the protocol implements the abstract
\* retrieval: what the stream of a components, the geometry and the ciphertexts
\* do together is to look up the entry asked for.
THEOREM Refinement == OneShotSafety => Retrieval
<1>1. Init => Abstract!Init
  BY DEF Init, Abstract!Init, RequestsOf
<1>2. TypeOK /\ StreamInOrder /\ OneShotDiscipline /\ TypeOK' /\ OneShotDiscipline'
      /\ [OneShotNext]_vars => [Abstract!Next]_(Abstract!vars)
  <2> SUFFICES ASSUME TypeOK, StreamInOrder, OneShotDiscipline,
                      TypeOK', OneShotDiscipline', [OneShotNext]_vars
               PROVE  [Abstract!Next]_(Abstract!vars)
    OBVIOUS
  <2>1. CASE Reinstall
    BY <2>1, AbsReinstall DEF Abstract!Next
  <2>2. ASSUME NEW c \in Clients, CreateClient(c, SharedSeed)
        PROVE  Abstract!Next
    BY <2>2, AbsQuiet DEF CreateClient, Abstract!Next
  <2>3. ASSUME NEW c \in Clients, Serve(c)
        PROVE  Abstract!Next
    BY <2>3, AbsServe DEF Abstract!Next
  <2>4. CASE UNCHANGED vars
    BY <2>4 DEF vars, Abstract!vars, RequestsOf, Seen
  <2> QED BY <2>1, <2>2, <2>3, <2>4, AbsLookup, AbsExtract DEF OneShotNext
<1> QED
  BY <1>1, <1>2, OneShotOrder, Disciplined, PTL
  DEF OneShotSafety, Retrieval, Abstract!Spec
=============================================================================
