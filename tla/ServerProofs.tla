---------------------------- MODULE ServerProofs ----------------------------
(* Theorems about Server, for any sets of connections and requests.        *)
EXTENDS Server, TLAPS

(***************************************************************************)
(* The inductive invariant.  An object belongs to one request from the     *)
(* pool and back, and what is in it and in the response follows from how   *)
(* far its request has got.                                                *)
(***************************************************************************)
Failing == {"fails", "failsbad"}

(* Whose data the reply holds then; a method that panics may fill none.    *)
MadeOf(r) == {r} \cup IF what[r] = "panics" THEN {Nobody} ELSE {}

(* Objects in the pool are clean; the argument and the reply of a request  *)
(* hold nothing but its own data.                                          *)
ContentInv ==
  /\ \A o \in pool : content[o] = Nobody
  /\ \A r \in Requests :
       /\ stage[r] \in {"call", "running", "putarg"} => content[argv[r]] = r
       /\ stage[r] = "running" => content[replyv[r]] = Nobody
       /\ stage[r] \in {"putarg", "encode"} => content[replyv[r]] \in MadeOf(r)
       /\ stage[r] = "write" => content[replyv[r]] = data[r]

(* What has happened to a request fits its stage.                          *)
StageInv ==
  \A r \in Requests :
    /\ ran[r] => stage[r] \in {"putarg", "encode", "putgarg", "reply", "write",
                              "send", "done"}
    /\ stage[r] \in {"putarg", "encode"} => ran[r]
    /\ response[r] # "none" => stage[r] = "done"

(* A response about to be sent, or to be converted by the gateway, is the  *)
(* right one already.                                                      *)
Succeeded(r) == ran[r] /\ what[r] \notin Failing /\ data[r] \in RepliesTo(r)

ResInv ==
  \A r \in Requests :
    /\ stage[r] \in {"putgarg", "reply", "write"} =>
         Http(r) /\ res[r] = "normal" /\ Succeeded(r)
    /\ stage[r] = "send" =>
         /\ res[r] = "normal" => Succeeded(r)
         /\ res[r] = "error" /\ ran[r] =>
              \/ what[r] \in {"badreply", "failsbad", "panics"}
              \/ Http(r) /\ oneway[r]

RequestInv ==
  /\ OneOwner /\ ContentInv /\ StageInv /\ ResInv
  /\ ResponseIsOwn /\ ResponseTellsTruth

IInv == TypeOK /\ ServedIsTracked /\ RequestInv

-----------------------------------------------------------------------------
(***************************************************************************)
(* Types.  The goroutines of connections and those of requests change      *)
(* different variables.                                                    *)
(***************************************************************************)
connVars    == <<listener, actionConnMap, registered, connection>>
requestVars == <<request, stage, pooling, outcome>>

(* The steps that concern connections, and those that concern requests.    *)
ConnStep ==
  \/ Register \/ Close \/ StartGateway \/ ServeListener
  \/ \E c \in Conns : Dial(c) \/ PeerClose(c) \/ ReadFails(c) \/ ServeConn(c)

RequestStep(r) == PeerSend(r) \/ HttpSend(r) \/ ReadRequest(r) \/ Process(r)

LEMMA NextSteps == Next <=> ConnStep \/ \E r \in Requests : RequestStep(r)
BY DEF Next, ConnStep, RequestStep

LEMMA ConnStepFrame == ConnStep => UNCHANGED requestVars
BY DEF ConnStep, Register, Close, StartGateway, ServeListener, SetListener,
       AcceptFails, Track, Accept, Dial, PeerClose, ReadFails, ServeConn,
       ReadEnds, Untrack, CloseConn, requestVars, request, pooling, objects,
       outcome

LEMMA RequestStepFrame ==
  ASSUME NEW r \in Requests, RequestStep(r)
  PROVE  UNCHANGED connVars
BY DEF RequestStep, PeerSend, HttpSend, ReadRequest, Process, Handle, Start,
       Lookup, Decode, CallMethod, MethodReturns, PutArg, Encode, EncodeFailed,
       HandleGatewayRequest, Route, Convert, PutGatewayArg, ConvertReply,
       WriteBody, SendResponse, connVars, listener, connection

LEMMA ConnTypeNext ==
  ASSUME ConnTypeOK, ConnStep
  PROVE  ConnTypeOK'
<1>1. CASE Register \/ Close \/ StartGateway
  <2>1. CASE Register \/ StartGateway
    BY <2>1 DEF ConnTypeOK, Register, StartGateway, listener, connection
  <2>2. CASE Close
    <3>1. lnOpen' \in BOOLEAN /\ actionConnMap' = {}
      BY <2>2 DEF ConnTypeOK, Close
    <3>2. link' \in [Conns -> {"none", "queued", "open", "gone", "closed"}]
      BY <2>2 DEF ConnTypeOK, Close
    <3> QED BY <2>2, <3>1, <3>2 DEF ConnTypeOK, Close
  <2> QED BY <1>1, <2>1, <2>2
<1>2. CASE ServeListener
  BY <1>2 DEF ConnTypeOK, ServeListener, SetListener, AcceptFails, Track,
              Accept, connection
<1>3. ASSUME NEW c \in Conns,
             Dial(c) \/ PeerClose(c) \/ ReadFails(c) \/ ServeConn(c)
      PROVE  ConnTypeOK'
  BY <1>3 DEF ConnTypeOK, Dial, PeerClose, ServeConn, ReadEnds, ReadFails,
              Untrack, CloseConn, listener
<1> QED BY <1>1, <1>2, <1>3 DEF ConnStep

LEMMA RequestTypeNext ==
  ASSUME RequestTypeOK, NEW r \in Requests, RequestStep(r)
  PROVE  RequestTypeOK'
<1>1. CASE PeerSend(r) \/ HttpSend(r)
  BY <1>1, ContentsAssumption
  DEF RequestTypeOK, LocalsOK, Http, PeerSend, HttpSend, Ask, Stages, pooling,
      objects, outcome
<1>2. CASE ReadRequest(r)
  BY <1>2 DEF RequestTypeOK, LocalsOK, Http, ReadRequest, Stages, request,
              pooling, objects, outcome
<1>3. CASE Start(r) \/ Lookup(r) \/ Route(r)
  BY <1>3, NamesAssumption
  DEF RequestTypeOK, LocalsOK, Http, Start, Lookup, Route, Respond, Goto,
      Stages, request, pooling, objects
<1>4. CASE Decode(r)
  BY <1>4 DEF RequestTypeOK, LocalsOK, Http, Decode, Get, Respond, Goto,
              Stages, request
<1>5. CASE CallMethod(r)
  BY <1>5 DEF RequestTypeOK, LocalsOK, Http, CallMethod, Get, Goto, Stages,
              request, outcome
<1>6. CASE MethodReturns(r)
  BY <1>6 DEF RequestTypeOK, LocalsOK, Http, MethodReturns, Goto, Stages,
              request
<1>7. CASE PutArg(r) \/ PutGatewayArg(r)
  BY <1>7 DEF RequestTypeOK, LocalsOK, Http, PutArg, PutGatewayArg, Put, Goto,
              Stages, request, outcome
<1>8. CASE Encode(r) \/ EncodeFailed(r) \/ WriteBody(r)
  BY <1>8 DEF RequestTypeOK, LocalsOK, Http, Encode, EncodeFailed, WriteBody,
              Put, Respond, Goto, Stages, request
<1>9. CASE Convert(r)
  BY <1>9 DEF RequestTypeOK, LocalsOK, Http, Convert, Get, Respond, Goto,
              Stages, request
<1>10. CASE ConvertReply(r)
  BY <1>10 DEF RequestTypeOK, LocalsOK, Http, ConvertReply, Get, Put, Respond,
               Goto, Stages, request
<1>11. CASE SendResponse(r)
  BY <1>11 DEF RequestTypeOK, LocalsOK, Http, SendResponse, Goto, Stages,
               request, pooling, objects
<1> QED BY <1>1, <1>2, <1>3, <1>4, <1>5, <1>6, <1>7, <1>8, <1>9, <1>10, <1>11
        DEF RequestStep, Process, Handle, HandleGatewayRequest

-----------------------------------------------------------------------------
(***************************************************************************)
(* Connections.                                                            *)
(***************************************************************************)
LEMMA ServedNext ==
  ASSUME ConnTypeOK, ServedIsTracked, ConnStep
  PROVE  ServedIsTracked'
<1>1. CASE Register \/ StartGateway
  BY <1>1 DEF ServedIsTracked, Register, StartGateway, connection
<1>2. CASE Close
  BY <1>2 DEF ConnTypeOK, ServedIsTracked, Close
<1>3. CASE ServeListener
  BY <1>3 DEF ConnTypeOK, ServedIsTracked, ServeListener, SetListener,
              AcceptFails, Track, Accept, connection
<1>4. ASSUME NEW c \in Conns,
             Dial(c) \/ PeerClose(c) \/ ReadFails(c) \/ ServeConn(c)
      PROVE  ServedIsTracked'
  BY <1>4 DEF ConnTypeOK, ServedIsTracked, Dial, PeerClose, ServeConn,
              ReadEnds, ReadFails, Untrack, CloseConn
<1> QED BY <1>1, <1>2, <1>3, <1>4 DEF ConnStep

-----------------------------------------------------------------------------
(***************************************************************************)
(* Requests.                                                               *)
(***************************************************************************)
(* An object from the pool is nobody's and clean.                          *)
LEMMA PooledIsFree ==
  ASSUME RequestTypeOK, OneOwner, ContentInv, NEW o \in pool
  PROVE  /\ o \in Objects /\ o # NoObject
         /\ content[o] = Nobody
         /\ \A q \in Requests : garg[q] # o /\ argv[q] # o /\ replyv[q] # o
BY NamesAssumption DEF RequestTypeOK, OneOwner, Held, ContentInv

(* OneOwner without sets.                                                  *)
Owner(r) ==
  /\ garg[r] # NoObject =>
       /\ garg[r] \notin pool
       /\ \A q \in Requests \ {r} :
            garg[r] # garg[q] /\ garg[r] # argv[q] /\ garg[r] # replyv[q]
  /\ argv[r] # NoObject =>
       /\ argv[r] \notin pool
       /\ argv[r] # garg[r] /\ argv[r] # replyv[r]
       /\ \A q \in Requests \ {r} : argv[r] # argv[q] /\ argv[r] # replyv[q]
  /\ replyv[r] # NoObject =>
       /\ replyv[r] \notin pool
       /\ replyv[r] # garg[r]
       /\ \A q \in Requests \ {r} : replyv[r] # replyv[q]

LEMMA OwnerFromOneOwner ==
  ASSUME OneOwner, NEW r \in Requests
  PROVE  Owner(r)
BY DEF OneOwner, Held, Owner

LEMMA OneOwnerFromOwner ==
  ASSUME \A r \in Requests : Owner(r)'
  PROVE  OneOwner'
<1> SUFFICES ASSUME NEW r \in Requests
             PROVE  /\ Held(r)' \cap pool' = {}
                    /\ argv'[r] # NoObject =>
                         argv'[r] \notin {garg'[r], replyv'[r]}
                    /\ replyv'[r] # NoObject => replyv'[r] # garg'[r]
                    /\ \A q \in Requests \ {r} :
                         Held(r)' \cap Held(q)' = {}
  BY DEF OneOwner
<1>1. \A q \in Requests : Owner(q)'
  OBVIOUS
<1>2. \A q \in Requests \ {r} : \A o \in Held(r)' : o \notin Held(q)'
  BY <1>1 DEF Owner, Held
<1> QED BY <1>1, <1>2 DEF Owner, Held

(* A step takes an object of the pool, or puts one of its own back, and    *)
(* leaves alone what the invariant says of the other requests.             *)
LEMMA OneOwnerNext ==
  ASSUME RequestTypeOK, OneOwner, ContentInv, NEW r \in Requests,
         RequestStep(r)
  PROVE  OneOwner'
<1> SUFFICES ASSUME NEW q \in Requests PROVE Owner(q)'
  BY OneOwnerFromOwner
<1>0. \A x \in Requests : Owner(x)
  BY OwnerFromOneOwner
<1>1. CASE UNCHANGED <<garg, argv, replyv, pool>>
  BY <1>0, <1>1 DEF Owner
<1>2. CASE Decode(r) \/ CallMethod(r) \/ Convert(r)
  <2>1. PICK o \in pool :
          /\ pool' = pool \ {o}
          /\ \/ UNCHANGED <<garg, argv, replyv>>
             \/ garg' = [garg EXCEPT ![r] = o] /\ UNCHANGED <<argv, replyv>>
             \/ argv' = [argv EXCEPT ![r] = o] /\ UNCHANGED <<garg, replyv>>
             \/ replyv' = [replyv EXCEPT ![r] = o] /\ UNCHANGED <<garg, argv>>
    BY <1>2 DEF Decode, CallMethod, Convert, Get
  <2> QED BY <1>0, <2>1, PooledIsFree DEF RequestTypeOK, Owner
<1>3. CASE ConvertReply(r)
  <2>1. PICK o \in pool :
          \/ pool' = pool /\ UNCHANGED <<garg, argv, replyv>>
          \/ /\ pool' = pool \ {o}
             /\ replyv' = [replyv EXCEPT ![r] = o] /\ UNCHANGED <<garg, argv>>
    BY <1>3 DEF ConvertReply, Get, Put
  <2> QED BY <1>0, <2>1, PooledIsFree DEF RequestTypeOK, Owner
<1>4. CASE PutArg(r)
  BY <1>0, <1>4, NamesAssumption
  DEF PutArg, Put, RequestTypeOK, LocalsOK, Owner
<1>5. CASE PutGatewayArg(r)
  BY <1>0, <1>5, NamesAssumption
  DEF PutGatewayArg, Put, RequestTypeOK, LocalsOK, Owner
<1>6. CASE Encode(r) \/ EncodeFailed(r) \/ WriteBody(r)
  BY <1>0, <1>6, NamesAssumption
  DEF Encode, EncodeFailed, WriteBody, Put, RequestTypeOK, LocalsOK, Owner
<1> QED BY <1>1, <1>2, <1>3, <1>4, <1>5, <1>6
        DEF RequestStep, PeerSend, HttpSend, ReadRequest, Process, Handle,
            Start, Lookup, MethodReturns, HandleGatewayRequest, Route,
            SendResponse, pooling, objects

LEMMA ContentNext ==
  ASSUME RequestTypeOK, OneOwner, ContentInv, NEW r \in Requests,
         RequestStep(r)
  PROVE  ContentInv'
<1>0. \A x \in Requests : Owner(x)
  BY OwnerFromOneOwner
<1>1. CASE PeerSend(r) \/ HttpSend(r) \/ ReadRequest(r) \/ Start(r)
             \/ Lookup(r) \/ Route(r) \/ SendResponse(r)
  BY <1>1
  DEF PeerSend, HttpSend, Ask, ReadRequest, Start, Lookup, Route,
      SendResponse, Respond, Goto, RequestTypeOK, ContentInv, MadeOf, pooling,
      objects, request, outcome
<1>2. CASE Decode(r)
  <2>1. PICK o \in pool :
          /\ pool' = pool \ {o}
          /\ \/ /\ stage' = [stage EXCEPT ![r] = "send"]
                /\ UNCHANGED <<argv, content>>
             \/ /\ stage' = [stage EXCEPT ![r] = "call"]
                /\ argv' = [argv EXCEPT ![r] = o]
                /\ content' = [content EXCEPT ![o] = r]
          /\ UNCHANGED <<what, replyv, data>>
    BY <1>2 DEF Decode, Get, Respond, Goto, request
  <2> QED BY <2>1, PooledIsFree DEF RequestTypeOK, LocalsOK, ContentInv, MadeOf
<1>3. CASE CallMethod(r)
  <2>1. PICK o \in pool :
          /\ pool' = pool \ {o}
          /\ replyv' = [replyv EXCEPT ![r] = o]
          /\ stage[r] = "call"
          /\ stage' = [stage EXCEPT ![r] = "running"]
          /\ UNCHANGED <<what, argv, content, data>>
    BY <1>3 DEF CallMethod, Get, Goto, request, outcome
  <2> QED BY <2>1, PooledIsFree DEF RequestTypeOK, LocalsOK, ContentInv, MadeOf
<1>4. CASE MethodReturns(r)
  BY <1>0, <1>4, NamesAssumption
  DEF MethodReturns, Goto, request, RequestTypeOK, LocalsOK, Owner, ContentInv,
      MadeOf
<1>5. CASE PutArg(r)
  BY <1>0, <1>5, NamesAssumption
  DEF PutArg, Put, Goto, request, outcome, RequestTypeOK, LocalsOK, Owner,
      ContentInv, MadeOf
<1>6. CASE PutGatewayArg(r)
  BY <1>0, <1>6, NamesAssumption
  DEF PutGatewayArg, Put, Goto, request, outcome, RequestTypeOK, LocalsOK,
      Owner, ContentInv, MadeOf
<1>7. CASE Encode(r) \/ EncodeFailed(r) \/ WriteBody(r)
  BY <1>0, <1>7, NamesAssumption
  DEF Encode, EncodeFailed, WriteBody, Put, Respond, Goto, request,
      RequestTypeOK, LocalsOK, Owner, ContentInv, MadeOf
<1>8. CASE Convert(r)
  <2>1. PICK o \in pool :
          /\ pool' = pool \ {o}
          /\ content' = content \/ content' = [content EXCEPT ![o] = r]
          /\ \E step \in {"send", "done", "lookup"} :
               stage' = [stage EXCEPT ![r] = step]
          /\ UNCHANGED <<what, argv, replyv, data>>
    BY <1>8 DEF Convert, Get, Respond, Goto, request
  <2> QED BY <2>1, PooledIsFree DEF RequestTypeOK, LocalsOK, ContentInv, MadeOf
<1>9. CASE ConvertReply(r)
  <2>1. PICK o \in pool :
          /\ \/ /\ stage' = [stage EXCEPT ![r] = "send"]
                /\ content' = [content EXCEPT ![o] = Nobody]
                /\ pool' = pool /\ replyv' = replyv
             \/ /\ stage' = [stage EXCEPT ![r] = "write"]
                /\ pool' = pool \ {o}
                /\ content' = [content EXCEPT ![o] = data[r]]
                /\ replyv' = [replyv EXCEPT ![r] = o]
          /\ UNCHANGED <<what, argv, data>>
    BY <1>9 DEF ConvertReply, Get, Put, Respond, Goto, request
  <2> QED BY <2>1, PooledIsFree DEF RequestTypeOK, LocalsOK, ContentInv, MadeOf
<1> QED BY <1>1, <1>2, <1>3, <1>4, <1>5, <1>6, <1>7, <1>8, <1>9
        DEF RequestStep, Process, Handle, HandleGatewayRequest

LEMMA StageNext ==
  ASSUME RequestTypeOK, StageInv, NEW r \in Requests, RequestStep(r)
  PROVE  StageInv'
<1>1. CASE PeerSend(r) \/ HttpSend(r) \/ ReadRequest(r)
  BY <1>1 DEF PeerSend, HttpSend, Ask, ReadRequest, RequestTypeOK, StageInv,
              outcome
<1>2. CASE Start(r) \/ Lookup(r) \/ Decode(r) \/ CallMethod(r) \/ Route(r)
             \/ Convert(r)
  BY <1>2 DEF Start, Lookup, Decode, CallMethod, Route, Convert, Respond, Goto,
              RequestTypeOK, StageInv, outcome
<1>3. CASE MethodReturns(r)
  BY <1>3 DEF MethodReturns, Goto, RequestTypeOK, StageInv
<1>4. CASE PutArg(r) \/ Encode(r) \/ EncodeFailed(r)
  BY <1>4 DEF PutArg, Encode, EncodeFailed, Respond, Goto, RequestTypeOK,
              StageInv, outcome
<1>5. CASE PutGatewayArg(r) \/ ConvertReply(r) \/ WriteBody(r)
  BY <1>5 DEF PutGatewayArg, ConvertReply, WriteBody, Respond, Goto,
              RequestTypeOK, StageInv, outcome
<1>6. CASE SendResponse(r)
  BY <1>6 DEF SendResponse, Goto, RequestTypeOK, StageInv
<1> QED BY <1>1, <1>2, <1>3, <1>4, <1>5, <1>6
        DEF RequestStep, Process, Handle, HandleGatewayRequest

LEMMA ResNext ==
  ASSUME RequestTypeOK, ContentInv, StageInv, ResInv,
         NEW r \in Requests, RequestStep(r)
  PROVE  ResInv'
<1>1. CASE PeerSend(r) \/ HttpSend(r) \/ ReadRequest(r) \/ CallMethod(r)
             \/ PutArg(r)
  BY <1>1 DEF PeerSend, HttpSend, Ask, ReadRequest, CallMethod, PutArg, Goto,
              request, outcome, RequestTypeOK, ResInv, Succeeded, RepliesTo,
              Http
<1>2. CASE Start(r) \/ Lookup(r) \/ Decode(r) \/ Route(r) \/ Convert(r)
  BY <1>2 DEF Start, Lookup, Decode, Route, Convert, Respond, Goto, request,
              RequestTypeOK, StageInv, ResInv, Succeeded, RepliesTo, Http
<1>3. CASE MethodReturns(r) \/ SendResponse(r)
  BY <1>3 DEF MethodReturns, SendResponse, Goto, request, RequestTypeOK,
              ResInv, Succeeded, RepliesTo, Http
<1>4. CASE Encode(r)
  BY <1>4 DEF Encode, MayNotEncode, Respond, Goto, request, RequestTypeOK,
              ContentInv, StageInv, ResInv, Succeeded, RepliesTo, MadeOf,
              Failing, Http
<1>5. CASE EncodeFailed(r)
  BY <1>5 DEF EncodeFailed, Respond, Goto, request, RequestTypeOK, ResInv,
              Succeeded, RepliesTo, Http
<1>6. CASE PutGatewayArg(r) \/ ConvertReply(r)
  BY <1>6 DEF PutGatewayArg, ConvertReply, Respond, Goto, request, outcome,
              RequestTypeOK, ResInv, Succeeded, RepliesTo, Http
<1>7. CASE WriteBody(r)
  BY <1>7 DEF WriteBody, MayNotEncode, Respond, Goto, request, RequestTypeOK,
              ContentInv, ResInv, Succeeded, RepliesTo, Http
<1> QED BY <1>1, <1>2, <1>3, <1>4, <1>5, <1>6, <1>7
        DEF RequestStep, Process, Handle, HandleGatewayRequest

(* Responses change only by being sent.                                    *)
LEMMA ResponseNext ==
  ASSUME RequestTypeOK, StageInv, ResInv, ResponseIsOwn, ResponseTellsTruth,
         NEW r \in Requests, RequestStep(r)
  PROVE  ResponseIsOwn' /\ ResponseTellsTruth'
<1>1. CASE SendResponse(r)
  <2>1. ResponseIsOwn'
    BY <1>1 DEF SendResponse, request, RequestTypeOK, ResInv, Succeeded,
                RepliesTo, ResponseIsOwn
  <2>2. ResponseTellsTruth'
    BY <1>1 DEF SendResponse, Wanted, request, RequestTypeOK, ResInv,
                Succeeded, Failing, Http, ResponseTellsTruth
  <2> QED BY <2>1, <2>2
<1>2. ASSUME response' = response, stage[r] # "done",
             \A q \in Requests \ {r} :
               /\ conn'[q] = conn[q]
               /\ what'[q] = what[q] /\ oneway'[q] = oneway[q]
               /\ ran'[q] = ran[q] /\ data'[q] = data[q]
      PROVE  ResponseIsOwn' /\ ResponseTellsTruth'
  <2>1. response[r] = "none"
    BY <1>2 DEF StageInv
  <2> QED BY <1>2, <2>1 DEF ResponseIsOwn, ResponseTellsTruth, RepliesTo, Http
<1>3. CASE PeerSend(r) \/ HttpSend(r) \/ ReadRequest(r)
  BY <1>2, <1>3 DEF PeerSend, HttpSend, Ask, ReadRequest, request, outcome,
                    RequestTypeOK
<1>4. CASE Start(r) \/ Lookup(r) \/ Decode(r) \/ CallMethod(r) \/ PutArg(r)
             \/ EncodeFailed(r)
  BY <1>2, <1>4 DEF Start, Lookup, Decode, CallMethod, PutArg, EncodeFailed,
                    request, outcome
<1>5. CASE MethodReturns(r) \/ Encode(r) \/ WriteBody(r)
  BY <1>2, <1>5 DEF MethodReturns, Encode, WriteBody, request, RequestTypeOK
<1>6. CASE Route(r) \/ Convert(r) \/ PutGatewayArg(r) \/ ConvertReply(r)
  BY <1>2, <1>6 DEF Route, Convert, PutGatewayArg, ConvertReply, request,
                    outcome
<1> QED BY <1>1, <1>3, <1>4, <1>5, <1>6
        DEF RequestStep, Process, Handle, HandleGatewayRequest

-----------------------------------------------------------------------------
(***************************************************************************)
(* The invariant, and what follows from it.                                *)
(***************************************************************************)
LEMMA InitInv == Init => IInv
<1> SUFFICES ASSUME Init PROVE IInv
  OBVIOUS
<1>1. TypeOK
  BY NamesAssumption DEF Init, TypeOK, ConnTypeOK, RequestTypeOK, LocalsOK,
                         Contents, Stages
<1>2. ServedIsTracked
  BY DEF Init, ServedIsTracked
<1>3. OneOwner
  BY DEF Init, OneOwner, Held
<1>4. ContentInv /\ StageInv /\ ResInv
  BY DEF Init, ContentInv, StageInv, ResInv
<1>5. ResponseIsOwn /\ ResponseTellsTruth
  BY DEF Init, ResponseIsOwn, ResponseTellsTruth
<1> QED BY <1>1, <1>2, <1>3, <1>4, <1>5 DEF IInv, RequestInv

LEMMA NextInv == IInv /\ [Next]_vars => IInv'
<1> SUFFICES ASSUME IInv, [Next]_vars
             PROVE  ConnTypeOK' /\ ServedIsTracked' /\ RequestTypeOK'
                    /\ RequestInv'
  BY DEF IInv, TypeOK
<1>1. ConnTypeOK /\ RequestTypeOK /\ ServedIsTracked /\ RequestInv
  BY DEF IInv, TypeOK
<1>2. ASSUME UNCHANGED connVars
      PROVE  ConnTypeOK' /\ ServedIsTracked'
  BY <1>1, <1>2 DEF connVars, listener, connection, ConnTypeOK,
                    ServedIsTracked
<1>3. ASSUME UNCHANGED requestVars
      PROVE  RequestTypeOK' /\ RequestInv'
  <2>1. RequestTypeOK'
    BY <1>1, <1>3 DEF requestVars, request, pooling, objects, outcome,
                      RequestTypeOK, LocalsOK, Http
  <2>2. OneOwner' /\ ContentInv'
    BY <1>1, <1>3 DEF requestVars, request, pooling, objects, outcome,
                      RequestInv, OneOwner, Held, ContentInv, MadeOf
  <2>3. StageInv' /\ ResInv'
    BY <1>1, <1>3 DEF requestVars, request, outcome, RequestInv, StageInv,
                      ResInv, Succeeded, RepliesTo, Http
  <2>4. ResponseIsOwn' /\ ResponseTellsTruth'
    BY <1>1, <1>3 DEF requestVars, request, outcome, RequestInv,
                      ResponseIsOwn, ResponseTellsTruth, RepliesTo, Http
  <2> QED BY <2>1, <2>2, <2>3, <2>4 DEF RequestInv
<1>4. CASE ConnStep
  BY <1>1, <1>3, <1>4, ConnStepFrame, ConnTypeNext, ServedNext
<1>5. ASSUME NEW r \in Requests, RequestStep(r)
      PROVE  ConnTypeOK' /\ ServedIsTracked' /\ RequestTypeOK' /\ RequestInv'
  BY <1>1, <1>2, <1>5, RequestStepFrame, RequestTypeNext, OneOwnerNext,
     ContentNext, StageNext, ResNext, ResponseNext DEF RequestInv
<1>6. CASE UNCHANGED vars
  BY <1>2, <1>3, <1>6 DEF vars, connVars, requestVars, pooling, outcome
<1> QED BY <1>4, <1>5, <1>6, NextSteps

LEMMA Inductive == Spec => []IInv
BY InitInv, NextInv, PTL DEF Spec

(* The values of the state (server.go:54); methods get an argument and a   *)
(* reply to fill.                                                          *)
THEOREM TypeCorrect == Spec => []TypeOK
<1>1. IInv => TypeOK
  BY DEF IInv
<1> QED BY <1>1, Inductive, PTL

(* Close finds every connection that is served in actionConnMap, except    *)
(* those closed already (server.go:271, 496, 515).                         *)
THEOREM AllServedTracked == Spec => []ServedIsTracked
<1>1. IInv => ServedIsTracked
  BY DEF IInv
<1> QED BY <1>1, Inductive, PTL

(* No pooled object is used by two requests, whatever the number of        *)
(* requests and objects (server.go:429, 443, 453, 459, 472).               *)
THEOREM OwnersDistinct == Spec => []OneOwner
<1>1. IInv => OneOwner
  BY DEF IInv, RequestInv
<1> QED BY <1>1, Inductive, PTL

(* A response is made of the data of its own request (server.go:471).      *)
THEOREM OwnResponse == Spec => []ResponseIsOwn
<1>1. IInv => ResponseIsOwn
  BY DEF IInv, RequestInv
<1> QED BY <1>1, Inductive, PTL

(* The status of a response tells what became of the method, and only who  *)
(* wants a response gets one (server.go:392, 418, 538).                    *)
THEOREM TrueResponse == Spec => []ResponseTellsTruth
<1>1. IInv => ResponseTellsTruth
  BY DEF IInv, RequestInv
<1> QED BY <1>1, Inductive, PTL
=============================================================================
