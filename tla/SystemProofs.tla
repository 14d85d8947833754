---------------------------- MODULE SystemProofs ----------------------------
(***************************************************************************)
(* The client of System is a Client, for any set of calls, as its server   *)
(* is a Server, and what is proved of either holds of the two together.    *)
(***************************************************************************)
EXTENDS System, ClientProofs

SP == INSTANCE ServerProofs
        WITH Conns <- {TheConn}, Requests <- Calls, conn <- via

-----------------------------------------------------------------------------
(***************************************************************************)
(* The server.  Every step of the system is one of its steps, or none.     *)
(***************************************************************************)
LEMMA ServerStutters == UNCHANGED serverVars => UNCHANGED S!vars
BY DEF serverVars, S!vars, S!listener, S!connection, S!request, S!objects

LEMMA ServerMoves ==
  ASSUME [SystemNext]_systemVars
  PROVE  [S!Next]_(S!vars)
<1>1. CASE UNCHANGED serverVars
  BY <1>1, ServerStutters
<1>2. CASE Connect \/ Break \/ PeerGone
  BY <1>1, <1>2 DEF Connect, Break, PeerGone, S!Next
<1>3. ASSUME NEW c \in Calls,
             Begin(c) \/ SenderRuns(c) \/ ClientStep(ContextDone(c))
      PROVE  [S!Next]_(S!vars)
  <2>1. S!PeerSend(c) \/ UNCHANGED serverVars
    BY <1>3 DEF Begin, SenderRuns, ClientStep, Send
  <2> QED BY <1>1, <2>1 DEF S!Next
<1>4. ASSUME NEW c \in Calls,
             ServerStep(S!ReadRequest(c)) \/ Processes(c)
      PROVE  [S!Next]_(S!vars)
  <2>1. S!ReadRequest(c) \/ S!Process(c)
    BY <1>4 DEF Processes, ServerStep, Answer, S!Process
  <2> QED BY <2>1 DEF S!Next
<1>5. CASE ClientStep(InputStep) \/ ClientStep(Close)
             \/ \E c \in SyncCalls : ClientStep(CallerStep(c))
  BY <1>1, <1>5 DEF ClientStep
<1>6. CASE \/ ServerStep(S!Register) \/ ServerStep(S!Close)
           \/ ServerStep(S!ServeListener)
           \/ ServerStep(S!ReadFails(TheConn))
           \/ ServerStep(S!ServeConn(TheConn))
  BY <1>6 DEF ServerStep, S!Next
<1> QED
  BY <1>1, <1>2, <1>3, <1>4, <1>5, <1>6 DEF SystemNext, systemVars

(* The server of the system is a Server whose peer is the client.          *)
LEMMA ServerSpec == SystemSpec => S!Spec
<1>1. SystemInit => S!Init
  BY DEF SystemInit
<1>2. [SystemNext]_systemVars => [S!Next]_(S!vars)
  BY ServerMoves
<1> QED BY <1>1, <1>2, PTL DEF SystemSpec, S!Spec

-----------------------------------------------------------------------------
(***************************************************************************)
(* The link between the two: the server works on a request only while its  *)
(* frame is unanswered, and an answer comes from its response.             *)
(***************************************************************************)
LinkInv ==
  /\ frame \in [Calls -> {"none", "request"} \cup Replies]
  /\ \A c \in Calls :
       /\ stage[c] \notin {"none", "done"} =>
            frame[c] = "request" /\ what[c] # "heartbeat"
       /\ frame[c] = "normal" => response[c] = "normal"
       /\ frame[c] # "bare"
       /\ res[c] # "pong"

LEMMA LinkInit == SystemInit => LinkInv
BY DEF SystemInit, Init, S!Init, LinkInv

(* What the client does alone.                                             *)
LEMMA LinkKept ==
  ASSUME LinkInv, UNCHANGED <<stage, what, res, response>>,
         \/ UNCHANGED frame
         \/ \E c \in Calls : frame' = [frame EXCEPT ![c] = "request"]
  PROVE  LinkInv'
BY DEF LinkInv

(* The frame of c is answered by the response to it.                       *)
LEMMA LinkAnswer ==
  ASSUME LinkInv, SP!IInv, NEW c \in Calls, Answer(c)
  PROVE  LinkInv'
<1>1. PICK a \in Replies :
        /\ frame' = [frame EXCEPT ![c] = a]
        /\ a = "normal" => response'[c] # "none" /\ res[c] # "error"
        /\ a # "bare"
  BY DEF Answer, Replies, Answers
<1>2. /\ stage' = [stage EXCEPT ![c] = "done"] /\ UNCHANGED <<what, res>>
      /\ \/ response' = [response EXCEPT ![c] = res[c]]
         \/ response' = response
  BY DEF Answer, S!SendResponse, S!Goto, S!request
<1>3. response[c] = "none" /\ stage[c] = "send"
  BY DEF Answer, S!SendResponse, SP!IInv, SP!RequestInv, SP!StageInv
<1>4. /\ stage \in [Calls -> S!Stages]
      /\ response \in [Calls -> {"none", "pong", "normal", "error"}]
      /\ res[c] \in {"none", "pong", "normal", "error"}
  BY DEF SP!IInv, SP!TypeOK, SP!RequestTypeOK, SP!Stages, S!Stages
<1> QED BY <1>1, <1>2, <1>3, <1>4 DEF LinkInv

(* A step of the goroutine that works on c.                                *)
LEMMA LinkHandle ==
  ASSUME LinkInv, SP!IInv, NEW c \in Calls, ServerStep(S!Handle(c))
  PROVE  LinkInv'
<1>1. UNCHANGED <<frame, what, response>>
  BY DEF ServerStep, vars, frameVars, S!Handle, S!Start, S!Lookup, S!Decode,
         S!CallMethod, S!MethodReturns, S!PutArg, S!Encode, S!EncodeFailed,
         S!HandleGatewayRequest, S!Route, S!Convert, S!PutGatewayArg,
         S!ConvertReply, S!WriteBody, S!request, S!outcome
<1>2. stage[c] \notin {"none", "done"} /\ \E s : S!Goto(c, s)
  BY DEF ServerStep, S!Handle, S!Start, S!Lookup, S!Decode, S!CallMethod,
         S!MethodReturns, S!PutArg, S!Encode, S!EncodeFailed,
         S!HandleGatewayRequest, S!Route, S!Convert, S!PutGatewayArg,
         S!ConvertReply, S!WriteBody, S!Respond
<1>3. \/ UNCHANGED res
      \/ \E x \in {"normal", "error"} : res' = [res EXCEPT ![c] = x]
  <2>1. what[c] # "heartbeat"
    BY <1>2 DEF LinkInv
  <2> QED
    BY <2>1 DEF ServerStep, S!Handle, S!Start, S!Lookup, S!Decode,
         S!CallMethod, S!MethodReturns, S!PutArg, S!Encode, S!EncodeFailed,
         S!HandleGatewayRequest, S!Route, S!Convert, S!PutGatewayArg,
         S!ConvertReply, S!WriteBody, S!Respond, S!outcome
<1>4. \A q \in Calls \ {c} : stage'[q] = stage[q]
  BY <1>2 DEF S!Goto, SP!IInv, SP!TypeOK, SP!RequestTypeOK
<1>5. \A q \in Calls : res'[q] # "pong"
  BY <1>3 DEF LinkInv, SP!IInv, SP!TypeOK, SP!RequestTypeOK
<1> QED BY <1>1, <1>2, <1>4, <1>5 DEF LinkInv

(* The client sends c.                                                     *)
LEMMA LinkSend ==
  ASSUME LinkInv, SP!IInv, NEW c \in Calls, Send(c)
  PROVE  LinkInv'
<1>1. CASE UNCHANGED serverVars
  <2>1. frame' = [frame EXCEPT ![c] = "request"] \/ frame' = frame
    BY DEF Send, SendWrite, LinkInv
  <2> QED BY <1>1, <2>1, LinkKept DEF serverVars
<1>2. CASE conn = "open" /\ S!PeerSend(c) /\ what'[c] # "heartbeat"
  <2>1. frame' = [frame EXCEPT ![c] = "request"]
    BY <1>2 DEF Send, SendWrite
  <2>2. \A q \in Calls \ {c} : stage'[q] = stage[q] /\ what'[q] = what[q]
    BY <1>2 DEF S!PeerSend, S!Ask, SP!IInv, SP!TypeOK, SP!RequestTypeOK
  <2>3. UNCHANGED <<res, response>>
    BY <1>2 DEF S!PeerSend, S!outcome
  <2> QED BY <1>2, <2>1, <2>2, <2>3 DEF LinkInv
<1> QED BY <1>1, <1>2 DEF Send

LEMMA LinkNext ==
  ASSUME LinkInv, SP!IInv, [SystemNext]_systemVars
  PROVE  LinkInv'
<1>1. ASSUME UNCHANGED <<frame, stage, what, res, response>>
      PROVE  LinkInv'
  BY <1>1, LinkKept
<1>2. CASE UNCHANGED systemVars
  BY <1>1, <1>2 DEF systemVars, vars, frameVars, serverVars
<1>3. CASE Connect \/ Break \/ PeerGone
  BY <1>1, <1>3 DEF Connect, Break, PeerGone, ConnBreak, vars, frameVars,
                    serverVars, S!Dial, S!PeerClose, S!request, S!outcome
<1>4. ASSUME NEW c \in Calls, Begin(c) \/ ClientStep(ContextDone(c))
      PROVE  LinkInv'
  BY <1>1, <1>4 DEF Begin, ClientStep, Invoke, ContextDone, frameVars,
                    serverVars
<1>5. ASSUME NEW c \in Calls, SenderRuns(c)
      PROVE  LinkInv'
  BY <1>1, <1>5, LinkSend
  DEF SenderRuns, ClientStep, SendLocally, SendRefused, SendNoCodec,
      SendRegister, SendStoreSeq, SendFail, SendFailed, frameVars, serverVars
<1>6. ASSUME NEW c \in Calls, ServerStep(S!ReadRequest(c))
      PROVE  LinkInv'
  <2>1. stage[c] = "wire" /\ stage' = [stage EXCEPT ![c] = "start"]
        /\ UNCHANGED <<frame, what, res, response>>
    BY <1>6 DEF ServerStep, S!ReadRequest, S!request, S!outcome, vars,
                frameVars
  <2>2. \A q \in Calls \ {c} : stage'[q] = stage[q]
    BY <2>1 DEF SP!IInv, SP!TypeOK, SP!RequestTypeOK
  <2> QED BY <2>1, <2>2 DEF LinkInv
<1>7. ASSUME NEW c \in Calls, Processes(c)
      PROVE  LinkInv'
  BY <1>7, LinkHandle, LinkAnswer DEF Processes
<1>8. CASE ClientStep(InputStep) \/ ClientStep(Close)
             \/ \E c \in SyncCalls : ClientStep(CallerStep(c))
  BY <1>1, <1>8
  DEF ClientStep, InputStep, InputRead, InputDeliver, InputError,
      InputShutdown, Close, CallerStep, CallReceive, CallReturn, CallCancel,
      CallCancelled, frameVars, serverVars
<1>9. CASE \/ ServerStep(S!Register) \/ ServerStep(S!Close)
           \/ ServerStep(S!ServeListener)
           \/ ServerStep(S!ReadFails(TheConn))
           \/ ServerStep(S!ServeConn(TheConn))
  BY <1>1, <1>9
  DEF ServerStep, S!Register, S!Close, S!ServeListener, S!SetListener,
      S!AcceptFails, S!Track, S!Accept, S!ReadFails, S!ServeConn, S!ReadEnds,
      S!Untrack, S!CloseConn, S!request, S!outcome, vars, frameVars
<1> QED
  BY <1>2, <1>3, <1>4, <1>5, <1>6, <1>7, <1>8, <1>9 DEF SystemNext

-----------------------------------------------------------------------------
(***************************************************************************)
(* The theorems about Server are about another instance of it: that of     *)
(* ServerProofs.  The two are the same, definition by definition.          *)
(***************************************************************************)
LEMMA SameNext == [S!Next]_(S!vars) => [SP!Next]_(SP!vars)
BY DEF S!Start, SP!Start, S!Lookup, SP!Lookup, S!Decode, SP!Decode,
       S!CallMethod, SP!CallMethod, S!MethodReturns, SP!MethodReturns,
       S!PutArg, SP!PutArg, S!Encode, SP!Encode, S!MayNotEncode,
       SP!MayNotEncode, S!EncodeFailed, SP!EncodeFailed,
       S!HandleGatewayRequest, SP!HandleGatewayRequest,
       S!Route, SP!Route, S!Convert, SP!Convert, S!PutGatewayArg,
       SP!PutGatewayArg, S!ConvertReply, SP!ConvertReply, S!WriteBody,
       SP!WriteBody, S!SendResponse, SP!SendResponse, S!Wanted, SP!Wanted,
       S!Process, SP!Process, S!Handle, SP!Handle, S!Respond, SP!Respond,
       S!Goto, SP!Goto, S!Http, SP!Http, S!Get, SP!Get, S!Put, SP!Put,
       S!Register, SP!Register, S!Close, SP!Close, S!StartGateway,
       SP!StartGateway, S!ServeListener, SP!ServeListener, S!SetListener,
       SP!SetListener, S!AcceptFails, SP!AcceptFails, S!Track, SP!Track,
       S!Accept, SP!Accept, S!Dial, SP!Dial, S!PeerClose, SP!PeerClose,
       S!ReadFails, SP!ReadFails, S!ServeConn, SP!ServeConn, S!ReadEnds,
       SP!ReadEnds, S!Untrack, SP!Untrack, S!CloseConn, SP!CloseConn,
       S!PeerSend, SP!PeerSend, S!HttpSend, SP!HttpSend, S!Ask, SP!Ask,
       S!ReadRequest, SP!ReadRequest, S!isShutdown, SP!isShutdown, S!vars,
       SP!vars, S!listener, SP!listener, S!connection, SP!connection,
       S!request, SP!request, S!objects, SP!objects, S!pooling, SP!pooling,
       S!outcome, SP!outcome, S!Next, SP!Next

(* What is proved of Server alone holds of the server in the system.       *)
LEMMA ServerInv == SystemSpec => []SP!IInv
<1>1. Whats \subseteq SP!Contents
      /\ NoConn \notin {TheConn} /\ Nobody \notin Calls
      /\ NoObject \notin Objects
  BY PartsAssumption DEF SP!Contents, S!Contents
<1>2. SP!Spec => []SP!IInv
  BY <1>1, SP!Inductive
<1>3. S!Init => SP!Init
  BY DEF S!Init, SP!Init
<1>4. S!Spec => SP!Spec
  BY <1>3, SameNext, PTL DEF S!Spec, SP!Spec
<1> QED BY <1>2, <1>4, ServerSpec, PTL

LEMMA Linked == SystemSpec => []LinkInv
BY LinkInit, LinkNext, ServerInv, PTL DEF SystemSpec

-----------------------------------------------------------------------------
(***************************************************************************)
(* The client.  A response of the server is what Client calls Serve: the   *)
(* peer answers a request that is on the connection and has no answer.     *)
(***************************************************************************)
LEMMA AnswerServes ==
  ASSUME LinkInv, NEW c \in Calls, Answer(c)
  PROVE  Serve(c)
<1>1. stage[c] = "send"
  BY DEF Answer, S!SendResponse
<1>2. frame[c] = "request"
  BY <1>1 DEF LinkInv
<1>3. PICK a \in Replies : /\ frame' = [frame EXCEPT ![c] = a]
                           /\ conn # "open" => a = "silent"
  BY DEF Answer, Replies, Answers
<1> QED BY <1>2, <1>3 DEF Answer, Serve

LEMMA ClientMoves ==
  ASSUME LinkInv, [SystemNext]_systemVars
  PROVE  [Next]_vars
<1>1. CASE UNCHANGED vars
  BY <1>1
<1>2. CASE Connect \/ PeerGone \/ \E c \in Calls : ServerStep(S!ReadRequest(c))
  BY <1>2 DEF Connect, PeerGone, ServerStep
<1>3. CASE Break
  BY <1>3 DEF Break, Next, Environment
<1>4. ASSUME NEW c \in Calls, Begin(c) \/ ClientStep(ContextDone(c))
      PROVE  [Next]_vars
  BY <1>4 DEF Begin, ClientStep, Next, Environment
<1>5. ASSUME NEW c \in Calls, SenderRuns(c)
      PROVE  [Next]_vars
  BY <1>5 DEF SenderRuns, ClientStep, SendLocally, Send, SenderStep, Next
<1>6. ASSUME NEW c \in Calls, Processes(c)
      PROVE  [Next]_vars
  BY <1>6, AnswerServes DEF Processes, ServerStep, Next, Environment
<1>7. CASE ClientStep(InputStep) \/ ClientStep(Close)
             \/ \E c \in SyncCalls : ClientStep(CallerStep(c))
  BY <1>7 DEF ClientStep, Next, Environment
<1>8. CASE \/ ServerStep(S!Register) \/ ServerStep(S!Close)
           \/ ServerStep(S!ServeListener)
           \/ ServerStep(S!ReadFails(TheConn))
           \/ ServerStep(S!ServeConn(TheConn))
  BY <1>8 DEF ServerStep
<1> QED
  BY <1>1, <1>2, <1>3, <1>4, <1>5, <1>6, <1>7, <1>8 DEF SystemNext, systemVars

(* The client of the system is a Client whose peer is the server: a server *)
(* answers a request at most once, and only a request (client.go:358).     *)
THEOREM RefinesClient == SystemSpec => ImplementsClient
<1>1. SystemInit => Init
  BY DEF SystemInit
<1>2. LinkInv /\ [SystemNext]_systemVars => [Next]_vars
  BY ClientMoves
<1> QED BY <1>1, <1>2, Linked, PTL DEF SystemSpec, ImplementsClient, Spec

(* What a Call that returns nil tells of the server: its method has run    *)
(* without an error, once and on its own argument (client.go:261,          *)
(* server.go:392).  It follows from what each part promises and the link.  *)
THEOREM NilIsDone == SystemSpec => []NilMeansDone
<1>1. LinkInv /\ SP!IInv /\ OwnReply => NilMeansDone
  <2> SUFFICES ASSUME LinkInv, SP!IInv, OwnReply,
                      NEW c \in SyncCalls, result[c] = "nil"
               PROVE  /\ ran[c] /\ what[c] \notin {"fails", "failsbad"}
                      /\ data[c] \in S!RepliesTo(c)
    BY DEF NilMeansDone
  <2>1. c \in Calls /\ response[c] = "normal"
    BY DEF OwnReply, Blameless, LinkInv, Calls
  <2> QED
    BY <2>1 DEF SP!IInv, SP!RequestInv, SP!ResponseIsOwn,
                SP!ResponseTellsTruth, SP!RepliesTo, S!RepliesTo
<1>2. SystemSpec => []OwnReply
  BY RefinesClient, NoMixUp DEF ImplementsClient
<1> QED BY <1>1, <1>2, Linked, ServerInv, PTL
=============================================================================
