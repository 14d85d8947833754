------------------------------- MODULE Server -------------------------------
(***************************************************************************)
(* The RPC server (server/server.go, service.go, pool.go) and its HTTP     *)
(* gateway (gateway.go, converter.go).  One goroutine accepts connections, *)
(* one per connection reads requests, and one per request runs the service *)
(* method with pooled objects for its arguments and its reply and writes   *)
(* the response; Close may come at any time.  The gateway turns an HTTP    *)
(* request into one for handleRequest and the response into HTTP.          *)
(*                                                                         *)
(* One action is one access to what goroutines share (the connection map   *)
(* and the listener under Server.mu, serviceMap, the pools, a connection)  *)
(* with the local code around it.  The peers are the environment.          *)
(***************************************************************************)
EXTENDS Naturals, FiniteSets

CONSTANTS
  Conns,      (* connections peers may open                                *)
  Requests,   (* requests they may send                                    *)
  Whats,      (* what is in a request, a subset of Contents                *)
  Objects,    (* objects of the pools, a bound on those that are made       *)
  NoConn, NoObject, Nobody

(* A heartbeat (GET /health); an HTTP path of one segment; a request for a *)
(* method that is not there; one with an unknown serialization type; one   *)
(* whose payload cannot be decoded; and one whose method returns nil,      *)
(* returns nil and a reply that cannot be encoded, returns an error,       *)
(* returns an error and such a reply, or panics.                           *)
Contents == {"heartbeat", "nopath", "nomethod", "nocodec", "undecodable",
             "ok", "badreply", "fails", "failsbad", "panics"}

ASSUME ContentsAssumption == Whats \subseteq Contents
ASSUME NamesAssumption ==
  NoConn \notin Conns /\ Nobody \notin Requests /\ NoObject \notin Objects

VARIABLES
  (* the goroutine of Serve: before svr.ln is set, accepting, holding an   *)
  (* accepted connection, returned                                         *)
  lnOpen, accepter, held,
  gateway,    (* Server.gatewayHTTPServer: none (not yet set), up, closed  *)
  (* Server: actionConnMap, and whether the service is in serviceMap       *)
  actionConnMap, registered,
  (* connections: none, queued (not yet accepted), open, gone (closed by   *)
  (* the peer), closed; their goroutine serveConn: none, read, untrack,    *)
  (* close, ended                                                          *)
  link, serving,
  (* requests: connection (none of Conns if they come by HTTP), what is in *)
  (* them and whether they are oneway; the goroutine processOneRequest or  *)
  (* handleGatewayRequest, and its locals: garg is the argument object of  *)
  (* the gateway itself                                                    *)
  conn, what, oneway, stage, garg, argv, replyv, res,
  (* objects: those in the pool, or not yet made; whose data is in them    *)
  pool, content,
  data,       (* whose reply is in the payload of res, or in the HTTP body *)
  (* history: whether the method ran, and the response the peer was sent   *)
  ran, response

listener   == <<lnOpen, accepter, held, gateway>>
connection == <<link, serving>>
request    == <<conn, what, oneway>>
objects    == <<pool, content>>
vars == <<listener, actionConnMap, registered, connection, request, stage,
          garg, argv, replyv, res, data, objects, ran, response>>
pooling == <<garg, argv, replyv, objects>>
outcome == <<res, data, ran, response>>

Stages == {"none", "wire", "start", "lookup", "decode", "call", "running",
           "putarg", "encode", "send", "done",
           "gateway", "convert", "putgarg", "reply", "write"}

(***************************************************************************)
(* The pool.  Arguments and replies may be of one type: there is one pool. *)
(* An object it makes is as good as one that was put back, and reset.      *)
(***************************************************************************)
Get(o) == o \in pool /\ pool' = pool \ {o}

Put(o) ==
  /\ pool' = pool \cup {o}
  /\ content' = [content EXCEPT ![o] = Nobody]

-----------------------------------------------------------------------------
(***************************************************************************)
(* Faulty variants of definitions below, none of them part of Spec.        *)
(***************************************************************************)
(* Close that forgets the connections and does not close them.             *)
CloseForgets ==
  /\ lnOpen' = (lnOpen /\ accepter = "start")
  /\ gateway' = IF gateway = "up" THEN "closed" ELSE gateway
  /\ actionConnMap' = {}
  /\ UNCHANGED <<accepter, held, registered, connection, request, stage,
                 pooling, outcome>>

(* The reply goes back to the pool with the argument, before it is encoded.*)
PutArgAndReply(r) ==
  /\ stage[r] = "putarg"
  /\ pool' = pool \cup {argv[r], replyv[r]}
  /\ content' = [content EXCEPT ![argv[r]] = Nobody]
  /\ argv' = [argv EXCEPT ![r] = NoObject]
  /\ stage' = [stage EXCEPT ![r] = "encode"]
  /\ UNCHANGED <<listener, actionConnMap, registered, connection, request,
                 garg, replyv, outcome>>

(* The lost error of a failed method does not even stop the response.      *)
EncodeFailedAsNormal(r) ==
  /\ stage[r] = "encode"
  /\ what[r] \in {"fails", "failsbad"}
  /\ Put(replyv[r])
  /\ replyv' = [replyv EXCEPT ![r] = NoObject]
  /\ res' = [res EXCEPT ![r] = "normal"]
  /\ data' = [data EXCEPT ![r] = content[replyv[r]]]
  /\ stage' = [stage EXCEPT ![r] = "send"]
  /\ UNCHANGED <<listener, actionConnMap, registered, connection, request,
                 garg, argv, ran, response>>

(* No object is taken for the reply of an oneway request.                  *)
CallMethodNoReply(r) ==
  /\ stage[r] = "call"
  /\ IF oneway[r] THEN UNCHANGED <<pool, replyv>>
     ELSE \E o \in Objects :
            /\ Get(o)
            /\ replyv' = [replyv EXCEPT ![r] = o]
  /\ stage' = [stage EXCEPT ![r] = "running"]
  /\ UNCHANGED <<listener, actionConnMap, registered, connection, request,
                 garg, argv, content, outcome>>

(* serveConn waits for doneChan, shutting down or not.                     *)
UntrackAtClose(c) ==
  /\ serving[c] = "untrack"
  /\ ~lnOpen
  /\ actionConnMap' = actionConnMap \ {c}
  /\ serving' = [serving EXCEPT ![c] = "close"]
  /\ UNCHANGED <<listener, registered, link, request, stage, pooling,
                 outcome>>

-----------------------------------------------------------------------------
Init ==
  /\ lnOpen = TRUE /\ accepter = "start" /\ held = NoConn
  /\ gateway = "none"
  /\ actionConnMap = {}
  /\ registered \in BOOLEAN
  /\ link = [c \in Conns |-> "none"]
  /\ serving = [c \in Conns |-> "none"]
  /\ conn = [r \in Requests |-> NoConn]
  /\ what = [r \in Requests |-> "ok"]
  /\ oneway = [r \in Requests |-> FALSE]
  /\ stage = [r \in Requests |-> "none"]
  /\ garg = [r \in Requests |-> NoObject]
  /\ argv = [r \in Requests |-> NoObject]
  /\ replyv = [r \in Requests |-> NoObject]
  /\ res = [r \in Requests |-> "none"]
  /\ pool = Objects
  /\ content = [o \in Objects |-> Nobody]
  /\ ran = [r \in Requests |-> FALSE]
  /\ response = [r \in Requests |-> "none"]
  /\ data = [r \in Requests |-> Nobody]

(***************************************************************************)
(* The peers.                                                              *)
(***************************************************************************)
Dial(c) ==
  /\ lnOpen
  /\ link[c] = "none"
  /\ link' = [link EXCEPT ![c] = "queued"]
  /\ UNCHANGED <<listener, actionConnMap, registered, serving, request, stage,
                 pooling, outcome>>

(* A request with these contents.                                          *)
Ask(r, w, b) ==
  /\ stage[r] = "none"
  /\ what' = [what EXCEPT ![r] = w]
  /\ oneway' = [oneway EXCEPT ![r] = b]

PeerSend(r) ==
  /\ \E w \in Whats \ {"nopath"}, b \in BOOLEAN : Ask(r, w, b)
  /\ \E c \in Conns :
       /\ link[c] \in {"queued", "open"}
       /\ conn' = [conn EXCEPT ![r] = c]
  /\ stage' = [stage EXCEPT ![r] = "wire"]
  /\ UNCHANGED <<listener, actionConnMap, registered, connection, pooling,
                 outcome>>

(* The gateway has connections of its own, and does not look at the rest   *)
(* of a GET /health or of a path it cannot take apart.                     *)
HttpSend(r) ==
  /\ gateway = "up" /\ lnOpen
  /\ \E w \in Whats, b \in BOOLEAN :
       (w \in {"heartbeat", "nopath"} => ~b) /\ Ask(r, w, b)
  /\ stage' = [stage EXCEPT ![r] = "gateway"]
  /\ UNCHANGED <<listener, actionConnMap, registered, connection, conn,
                 pooling, outcome>>

PeerClose(c) ==
  /\ link[c] = "open"
  /\ link' = [link EXCEPT ![c] = "gone"]
  /\ UNCHANGED <<listener, actionConnMap, registered, serving, request, stage,
                 pooling, outcome>>

(***************************************************************************)
(* Register, Close and the goroutine of serveListener.                     *)
(***************************************************************************)
Register ==
  /\ registered' = TRUE
  /\ UNCHANGED <<listener, actionConnMap, connection, request, stage, pooling,
                 outcome>>

(* Close finds no listener to close before serveListener has set svr.ln,   *)
(* and no gateway before startHTTP1APIGateway has made it.                 *)
Close ==
  /\ lnOpen' = (lnOpen /\ accepter = "start")
  /\ gateway' = IF gateway = "up" THEN "closed" ELSE gateway
  /\ link' = [c \in Conns |->
                IF c \in actionConnMap THEN "closed" ELSE link[c]]
  /\ actionConnMap' = {}
  /\ UNCHANGED <<accepter, held, registered, serving, request, stage, pooling,
                 outcome>>

StartGateway ==
  /\ gateway = "none"
  /\ gateway' = "up"
  /\ UNCHANGED <<lnOpen, accepter, held, actionConnMap, registered, connection,
                 request, stage, pooling, outcome>>

SetListener ==
  /\ accepter = "start"
  /\ accepter' = "accept"
  /\ UNCHANGED <<lnOpen, held, gateway, actionConnMap, registered, connection,
                 request, stage, pooling, outcome>>

(* A connection that is queued may still be accepted when the listener is  *)
(* closed.                                                                 *)
Accept(c) ==
  /\ accepter = "accept"
  /\ link[c] = "queued"
  /\ link' = [link EXCEPT ![c] = "open"]
  /\ held' = c
  /\ accepter' = "hold"
  /\ UNCHANGED <<lnOpen, gateway, actionConnMap, registered, serving, request,
                 stage, pooling, outcome>>

(* The listener is closed, or the network has another reason.              *)
AcceptFails ==
  /\ accepter = "accept"
  /\ accepter' = "returned"
  /\ UNCHANGED <<lnOpen, held, gateway, actionConnMap, registered, connection,
                 request, stage, pooling, outcome>>

(* The connection enters actionConnMap and serveConn starts.               *)
Track ==
  /\ accepter = "hold"
  /\ actionConnMap' = actionConnMap \cup {held}
  /\ serving' = [serving EXCEPT ![held] = "read"]
  /\ held' = NoConn
  /\ accepter' = "accept"
  /\ UNCHANGED <<lnOpen, gateway, registered, link, request, stage, pooling,
                 outcome>>

(***************************************************************************)
(* serveConn                                                               *)
(***************************************************************************)
(* inShutdown is read in five places and set in none.                      *)
isShutdown == FALSE

(* Requests the reader has buffered are read whatever becomes of the       *)
(* connection.                                                             *)
ReadRequest(r) ==
  /\ stage[r] = "wire"
  /\ serving[conn[r]] = "read"
  /\ ~isShutdown
  /\ stage' = [stage EXCEPT ![r] = "start"]
  /\ UNCHANGED <<listener, actionConnMap, registered, connection, request,
                 pooling, outcome>>

(* A frame that is not a request, or the read timeout.                     *)
ReadFails(c) ==
  /\ serving[c] = "read"
  /\ serving' = [serving EXCEPT ![c] = "untrack"]
  /\ UNCHANGED <<listener, actionConnMap, registered, link, request, stage,
                 pooling, outcome>>

(* The connection is closed.                                               *)
ReadEnds(c) == link[c] \in {"gone", "closed"} /\ ReadFails(c)

(* closeConn                                                               *)
Untrack(c) ==
  /\ serving[c] = "untrack"
  /\ actionConnMap' = actionConnMap \ {c}
  /\ serving' = [serving EXCEPT ![c] = "close"]
  /\ UNCHANGED <<listener, registered, link, request, stage, pooling,
                 outcome>>

CloseConn(c) ==
  /\ serving[c] = "close"
  /\ link' = [link EXCEPT ![c] = "closed"]
  /\ serving' = [serving EXCEPT ![c] = "ended"]
  /\ UNCHANGED <<listener, actionConnMap, registered, request, stage, pooling,
                 outcome>>

(***************************************************************************)
(* processOneRequest, handleRequest                                        *)
(***************************************************************************)
Http(r) == conn[r] = NoConn

Goto(r, step) == stage' = [stage EXCEPT ![r] = step]

(* The response gets the status s and is to be sent, but the gateway has   *)
(* to convert a reply first.                                               *)
Respond(r, s) ==
  /\ res' = [res EXCEPT ![r] = s]
  /\ Goto(r, IF Http(r) /\ s = "normal" THEN "putgarg" ELSE "send")

Start(r) ==
  /\ stage[r] = "start"
  /\ IF what[r] = "heartbeat" THEN Respond(r, "pong")
     ELSE Goto(r, "lookup") /\ UNCHANGED res
  /\ UNCHANGED <<listener, actionConnMap, registered, connection, request,
                 pooling, data, ran, response>>

(* getService, and the method.                                             *)
Lookup(r) ==
  /\ stage[r] = "lookup"
  /\ IF ~registered \/ what[r] = "nomethod" THEN Respond(r, "error")
     ELSE Goto(r, "decode") /\ UNCHANGED res
  /\ UNCHANGED <<listener, actionConnMap, registered, connection, request,
                 pooling, data, ran, response>>

(* The argument is taken from the pool and decoded into, if it can be and  *)
(* there is a codec: the object is not given back otherwise.               *)
Decode(r) ==
  /\ stage[r] = "decode"
  /\ \E o \in Objects :
       /\ Get(o)
       /\ IF what[r] \in {"nocodec", "undecodable"}
          THEN Respond(r, "error") /\ UNCHANGED <<argv, content>>
          ELSE /\ argv' = [argv EXCEPT ![r] = o]
               /\ content' = [content EXCEPT ![o] = r]
               /\ Goto(r, "call") /\ UNCHANGED res
  /\ UNCHANGED <<listener, actionConnMap, registered, connection, request,
                 garg, replyv, data, ran, response>>

CallMethod(r) ==
  /\ stage[r] = "call"
  /\ \E o \in Objects :
       /\ Get(o)
       /\ replyv' = [replyv EXCEPT ![r] = o]
  /\ Goto(r, "running")
  /\ UNCHANGED <<listener, actionConnMap, registered, connection, request,
                 garg, argv, content, outcome>>

(* The reply is computed from the argument; a method that panics may have  *)
(* written into it before.  service.call recovers and returns no error.    *)
MethodReturns(r) ==
  /\ stage[r] = "running"
  /\ ran' = [ran EXCEPT ![r] = TRUE]
  /\ \/ content' = [content EXCEPT ![replyv[r]] = content[argv[r]]]
     \/ what[r] = "panics" /\ UNCHANGED content
  /\ Goto(r, "putarg")
  /\ UNCHANGED <<listener, actionConnMap, registered, connection, request,
                 garg, argv, replyv, pool, res, data, response>>

PutArg(r) ==
  /\ stage[r] = "putarg"
  /\ Put(argv[r])
  /\ argv' = [argv EXCEPT ![r] = NoObject]
  /\ Goto(r, "encode")
  /\ UNCHANGED <<listener, actionConnMap, registered, connection, request,
                 garg, replyv, outcome>>

(* A reply that cannot be encoded; what a panic has left may be one.       *)
MayNotEncode(r) == what[r] \in {"badreply", "panics"} /\ ~oneway[r]

(* The reply is encoded and put back; an oneway request's is only put back.*)
(* What the codec can encode may yet be more than JSON can.                *)
Encode(r) ==
  /\ stage[r] = "encode"
  /\ what[r] \notin {"fails", "failsbad"}
  /\ Put(replyv[r])
  /\ replyv' = [replyv EXCEPT ![r] = NoObject]
  /\ \/ /\ MayNotEncode(r)
        /\ Respond(r, "error") /\ UNCHANGED data
     \/ /\ what[r] = "badreply" => oneway[r] \/ Http(r)
        /\ Respond(r, "normal")
        /\ data' = [data EXCEPT ![r] =
                      IF oneway[r] THEN Nobody ELSE content[replyv[r]]]
  /\ UNCHANGED <<listener, actionConnMap, registered, connection, request,
                 garg, argv, ran, response>>

(* The error of the method is overwritten by that of Encode.  If that is   *)
(* nil, handleError calls a method of nil, and processOneRequest recovers. *)
EncodeFailed(r) ==
  /\ stage[r] = "encode"
  /\ what[r] \in {"fails", "failsbad"}
  /\ Put(replyv[r])
  /\ replyv' = [replyv EXCEPT ![r] = NoObject]
  /\ IF what[r] = "failsbad" THEN Respond(r, "error")
     ELSE Goto(r, "done") /\ UNCHANGED res
  /\ UNCHANGED <<listener, actionConnMap, registered, connection, request,
                 garg, argv, data, ran, response>>

(***************************************************************************)
(* handleGatewayRequest                                                    *)
(***************************************************************************)
(* What panics is recovered by net/http, which closes the connection.      *)
Route(r) ==
  /\ stage[r] = "gateway"
  /\ \/ what[r] = "heartbeat" /\ Respond(r, "pong")
     \/ what[r] = "nopath" /\ Goto(r, "done") /\ UNCHANGED res
     \/ /\ what[r] \notin {"heartbeat", "nopath"}
        /\ IF ~registered \/ what[r] = "nomethod" THEN Respond(r, "error")
           ELSE Goto(r, "convert") /\ UNCHANGED res
  /\ UNCHANGED <<listener, actionConnMap, registered, connection, request,
                 pooling, data, ran, response>>

(* The body is decoded into an argument to encode the payload; the object  *)
(* is given back only if all goes well up to the end of handleRequest.     *)
Convert(r) ==
  /\ stage[r] = "convert"
  /\ \E o \in Objects :
       /\ Get(o)
       /\ \/ what[r] = "undecodable" /\ Respond(r, "error")
             /\ UNCHANGED <<garg, content>>
          \/ what[r] = "nocodec" /\ Goto(r, "done")
             /\ UNCHANGED <<garg, content, res>>
          \/ /\ what[r] \notin {"undecodable", "nocodec"}
             /\ garg' = [garg EXCEPT ![r] = o]
             /\ content' = [content EXCEPT ![o] = r]
             /\ Goto(r, "lookup") /\ UNCHANGED res
  /\ UNCHANGED <<listener, actionConnMap, registered, connection, request,
                 argv, replyv, data, ran, response>>

PutGatewayArg(r) ==
  /\ stage[r] = "putgarg"
  /\ Put(garg[r])
  /\ garg' = [garg EXCEPT ![r] = NoObject]
  /\ Goto(r, "reply")
  /\ UNCHANGED <<listener, actionConnMap, registered, connection, request,
                 argv, replyv, outcome>>

(* An oneway request has no payload, which may be no reply at all.         *)
ConvertReply(r) ==
  /\ stage[r] = "reply"
  /\ \E o \in Objects :
       \/ /\ oneway[r]
          /\ o \in pool /\ Put(o) /\ Respond(r, "error")
          /\ UNCHANGED replyv
       \/ /\ Get(o)
          /\ content' = [content EXCEPT ![o] = data[r]]
          /\ replyv' = [replyv EXCEPT ![r] = o]
          /\ Goto(r, "write") /\ UNCHANGED res
  /\ UNCHANGED <<listener, actionConnMap, registered, connection, request,
                 garg, argv, data, ran, response>>

(* The body is made before the reply is put back.                          *)
WriteBody(r) ==
  /\ stage[r] = "write"
  /\ Put(replyv[r])
  /\ replyv' = [replyv EXCEPT ![r] = NoObject]
  /\ \/ MayNotEncode(r) /\ Respond(r, "error") /\ UNCHANGED data
     \/ /\ what[r] = "badreply" => oneway[r]
        /\ data' = [data EXCEPT ![r] = content[replyv[r]]]
        /\ Goto(r, "send") /\ UNCHANGED res
  /\ UNCHANGED <<listener, actionConnMap, registered, connection, request,
                 garg, argv, ran, response>>

(* sendResponse, whose error nobody looks at, and the writes of gateway.go.*)
(* A heartbeat is answered whether it is oneway or not.                    *)
Wanted(r) ==
  IF Http(r) THEN gateway = "up"
  ELSE (oneway[r] => what[r] = "heartbeat") /\ link[conn[r]] = "open"

SendResponse(r) ==
  /\ stage[r] = "send"
  /\ response' = IF Wanted(r) THEN [response EXCEPT ![r] = res[r]]
                 ELSE response
  /\ Goto(r, "done")
  /\ UNCHANGED <<listener, actionConnMap, registered, connection, request,
                 pooling, res, data, ran>>

HandleGatewayRequest(r) ==
  Route(r) \/ Convert(r) \/ PutGatewayArg(r) \/ ConvertReply(r) \/ WriteBody(r)

Handle(r) ==
  \/ Start(r) \/ Lookup(r) \/ Decode(r) \/ CallMethod(r) \/ MethodReturns(r)
  \/ PutArg(r) \/ Encode(r) \/ EncodeFailed(r) \/ HandleGatewayRequest(r)

Process(r) == Handle(r) \/ SendResponse(r)

ServeListener ==
  SetListener \/ AcceptFails \/ Track \/ \E c \in Conns : Accept(c)

ServeConn(c) == ReadEnds(c) \/ Untrack(c) \/ CloseConn(c)

Next ==
  \/ Register \/ Close \/ StartGateway \/ ServeListener
  \/ \E c \in Conns : Dial(c) \/ PeerClose(c) \/ ReadFails(c) \/ ServeConn(c)
  \/ \E r \in Requests :
       PeerSend(r) \/ HttpSend(r) \/ ReadRequest(r) \/ Process(r)

Spec == Init /\ [][Next]_vars

(* Goroutines run, and methods return.                                     *)
Fairness ==
  /\ \A c \in Conns : WF_vars(ServeConn(c))
  /\ \A r \in Requests : WF_vars(Process(r))

FairSpec == Spec /\ Fairness

-----------------------------------------------------------------------------
(***************************************************************************)
(* Properties.                                                             *)
(***************************************************************************)
(* The values of the state; methods get an argument and a reply to fill    *)
(* whatever kind of request is made (446), and the gateway has an argument *)
(* to give back whenever it gives one back (gateway.go:180).               *)
ConnTypeOK ==
  /\ lnOpen \in BOOLEAN /\ registered \in BOOLEAN
  /\ gateway \in {"none", "up", "closed"}
  /\ accepter \in {"start", "accept", "hold", "returned"}
  /\ held \in Conns \cup {NoConn} /\ (accepter = "hold" => held \in Conns)
  /\ actionConnMap \subseteq Conns
  /\ link \in [Conns -> {"none", "queued", "open", "gone", "closed"}]
  /\ serving \in [Conns -> {"none", "read", "untrack", "close", "ended"}]

LocalsOK(r) ==
  /\ stage[r] \in {"wire", "start"} => conn[r] \in Conns
  /\ stage[r] \in {"call", "running", "putarg"} => argv[r] \in Objects
  /\ stage[r] \in {"running", "putarg", "encode", "write"} =>
       replyv[r] \in Objects
  /\ \/ stage[r] = "putgarg"
     \/ /\ Http(r)
        /\ stage[r] \in {"lookup", "decode", "call", "running", "putarg",
                         "encode"}
     => garg[r] \in Objects

RequestTypeOK ==
  /\ conn \in [Requests -> Conns \cup {NoConn}]
  /\ what \in [Requests -> Contents]
  /\ oneway \in [Requests -> BOOLEAN]
  /\ stage \in [Requests -> Stages]
  /\ garg \in [Requests -> Objects \cup {NoObject}]
  /\ argv \in [Requests -> Objects \cup {NoObject}]
  /\ replyv \in [Requests -> Objects \cup {NoObject}]
  /\ \A r \in Requests : LocalsOK(r)
  /\ res \in [Requests -> {"none", "pong", "normal", "error"}]
  /\ pool \subseteq Objects
  /\ content \in [Objects -> Requests \cup {Nobody}]
  /\ data \in [Requests -> Requests \cup {Nobody}]
  /\ ran \in [Requests -> BOOLEAN]
  /\ response \in [Requests -> {"none", "pong", "normal", "error"}]

TypeOK == ConnTypeOK /\ RequestTypeOK

(* A connection that is being served is in actionConnMap, where Close will *)
(* find it, unless it is closed; one that is not served any more is not    *)
(* (server.go:271, 496, 515).                                              *)
ServedIsTracked ==
  \A c \in Conns :
    /\ serving[c] = "read" => c \in actionConnMap \/ link[c] = "closed"
    /\ c \in actionConnMap => serving[c] \in {"read", "untrack"}

(* The objects in use belong to one request each and are not in the pool   *)
(* (server.go:429, 443, 453, 459, 472, gateway.go:137, 180, 183, 203).     *)
Held(r) == {garg[r], argv[r], replyv[r]} \ {NoObject}

OneOwner ==
  \A r \in Requests :
    /\ Held(r) \cap pool = {}
    /\ argv[r] # NoObject => argv[r] \notin {garg[r], replyv[r]}
    /\ replyv[r] # NoObject => replyv[r] # garg[r]
    /\ \A q \in Requests \ {r} : Held(r) \cap Held(q) = {}

(* A response carries the reply to its own request, never another one's    *)
(* data out of a pooled object: what the method has written, or nothing if *)
(* it panicked before it did, and nothing if an oneway request is answered *)
(* by HTTP (server.go:471, service.go:27, gateway.go:192).                 *)
RepliesTo(r) ==
  IF oneway[r] THEN {Nobody}
  ELSE {r} \cup IF what[r] = "panics" THEN {Nobody} ELSE {}

ResponseIsOwn ==
  \A r \in Requests : response[r] = "normal" => data[r] \in RepliesTo(r)

(* A response with status Normal means that the method ran and returned no *)
(* error, one with status Error that it did not run or its reply could not *)
(* be encoded (or the gateway had none to decode); an oneway request has   *)
(* no response, except by HTTP or if it is a heartbeat (376, 392, 418,     *)
(* 538, gateway.go:173, 184).                                              *)
ResponseTellsTruth ==
  \A r \in Requests :
    /\ response[r] = "normal" =>
         ran[r] /\ what[r] \notin {"fails", "failsbad"}
    /\ response[r] = "error" /\ ran[r] =>
         \/ what[r] \in {"badreply", "failsbad", "panics"}
         \/ Http(r) /\ oneway[r]
    /\ response[r] # "none" /\ oneway[r] =>
         Http(r) \/ what[r] = "heartbeat"

(***************************************************************************)
(* What a comment says and the code does not do.                           *)
(***************************************************************************)
(* server.go:536: handleError adds the error to the response: a request    *)
(* whose method fails is answered, or its connection is no more.           *)
Answered(r) ==
  IF Http(r) THEN stage[r] = "done"
  ELSE response[r] # "none" \/ \E c \in Conns : c = conn[r] /\ link[c] # "open"

FailureAnswered ==
  \A r \in Requests :
    stage[r] = "start" /\ ~oneway[r] /\ what[r] = "fails" ~> Answered(r)
=============================================================================
