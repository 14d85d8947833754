------------------------------- MODULE System -------------------------------
(***************************************************************************)
(* A Client and a Server on the two ends of one TCP connection.  Client    *)
(* has a peer that answers as it likes, Server has peers that send as they *)
(* like: here the requests the client writes are those the server reads,   *)
(* and the responses the server sends are the answers input reads.  Each   *)
(* end learns that the other is gone when the network tells.  The server   *)
(* has no gateway (DisableHTTPGateway), the client no heartbeat            *)
(* (Option.Heartbeat) and no calls but those of Call.                      *)
(***************************************************************************)
EXTENDS Client

CONSTANTS Whats, Objects, TheConn, NoConn, NoObject, Nobody

ASSUME CallsOnly == Heartbeats = {} /\ AsyncCalls = {}

VARIABLES
  lnOpen, accepter, held, gateway, actionConnMap, registered, link, serving,
  via,        (* the variable conn of Server                               *)
  what, oneway, stage, garg, argv, replyv, res, pool, content, data, ran,
  response

S == INSTANCE Server WITH Conns <- {TheConn}, Requests <- Calls, conn <- via

ASSUME PartsAssumption ==
  /\ Whats \subseteq S!Contents
  /\ NoConn # TheConn /\ Nobody \notin Calls /\ NoObject \notin Objects

serverVars ==
  <<lnOpen, accepter, held, gateway, actionConnMap, registered, link, serving,
    via, what, oneway, stage, garg, argv, replyv, res, pool, content, data,
    ran, response>>

systemVars == <<vars, serverVars>>

-----------------------------------------------------------------------------
(***************************************************************************)
(* A faulty variant of a step below: what a network must not do.           *)
(***************************************************************************)
(* An answer that comes out of a connection that is broken or closed.      *)
AnswerAlways(c) ==
  /\ S!SendResponse(c)
  /\ frame' = [frame EXCEPT ![c] = IF res[c] = "error" THEN "error"
                                   ELSE "normal"]
  /\ UNCHANGED <<clientVars, callVars, inputVars, doneVars, hbVars, reply,
                 taken, result, received>>

-----------------------------------------------------------------------------
SystemInit == Init /\ S!Init

(* Connect: the calls start when the server, or its backlog, has the       *)
(* connection.                                                             *)
Connect == S!Dial(TheConn) /\ UNCHANGED vars

Begin(c) ==
  /\ link[TheConn] # "none"
  /\ Invoke(c)
  /\ UNCHANGED serverVars

(* What the goroutines of the client do among themselves.                  *)
SendLocally(c) ==
  \/ SendRefused(c) \/ SendNoCodec(c) \/ SendRegister(c) \/ SendStoreSeq(c)
  \/ SendFail(c) \/ SendFailed(c)

ClientStep(A) == A /\ UNCHANGED serverVars

(* A frame that is written reaches the server, unless this end has not yet *)
(* heard that the other one is gone.                                       *)
Send(c) ==
  /\ SendWrite(c)
  /\ IF conn = "open" /\ link[TheConn] \in {"queued", "open"}
     THEN S!PeerSend(c) /\ ~oneway'[c] /\ what'[c] # "heartbeat"
     ELSE UNCHANGED serverVars

(* The response that is written is the answer the client reads, if neither *)
(* end is gone.  The payload may not fit the reply of the caller.          *)
Answer(c) ==
  /\ S!SendResponse(c)
  /\ \E answer \in IF conn # "open" \/ response'[c] = "none" THEN {"silent"}
                  ELSE IF res[c] = "error" THEN {"error"}
                  ELSE {"normal", "undecodable"} :
       frame' = [frame EXCEPT ![c] = answer]
  /\ UNCHANGED <<clientVars, callVars, inputVars, doneVars, hbVars, reply,
                 taken, result, received>>

ServerStep(A) == A /\ UNCHANGED vars

(* The network: either end learns that the connection is gone.  One that   *)
(* was not accepted goes with the listener; but Serve returns on any error *)
(* of Accept, and may leave the listener open with nobody to accept.       *)
Stranded == link[TheConn] = "queued" /\ accepter = "returned"

ServerGone ==
  \/ link[TheConn] \in {"gone", "closed"}
  \/ Stranded /\ ~lnOpen

Break == ConnBreak /\ UNCHANGED serverVars

PeerGone == S!PeerClose(TheConn) /\ UNCHANGED vars

-----------------------------------------------------------------------------
SenderRuns(c) == ClientStep(SendLocally(c)) \/ Send(c)

Processes(c) == ServerStep(S!Handle(c)) \/ Answer(c)

SystemNext ==
  \/ Connect
  \/ \E c \in Calls :
       \/ Begin(c) \/ SenderRuns(c) \/ ClientStep(ContextDone(c))
       \/ ServerStep(S!ReadRequest(c)) \/ Processes(c)
  \/ \E c \in SyncCalls : ClientStep(CallerStep(c))
  \/ ClientStep(InputStep) \/ ClientStep(Close)
  \/ ServerStep(S!Register) \/ ServerStep(S!Close)
  \/ ServerStep(S!ServeListener)
  \/ ServerStep(S!ReadFails(TheConn)) \/ ServerStep(S!ServeConn(TheConn))
  \/ Break \/ PeerGone

SystemSpec == SystemInit /\ [][SystemNext]_systemVars

(***************************************************************************)
(* Fairness of the goroutines of both ends, as in their modules; the       *)
(* server accepts and reads, and the network tells either end that the     *)
(* other is gone.                                                          *)
(***************************************************************************)
SystemFairness ==
  /\ Fairness
  /\ \A c \in Calls : WF_serverVars(S!ReadRequest(c) \/ S!Process(c))
  /\ WF_serverVars(S!ServeListener)
  /\ WF_serverVars(S!ServeConn(TheConn))
  /\ WF_vars(ServerGone /\ ConnBreak)
  /\ WF_serverVars(conn # "open" /\ S!PeerClose(TheConn))

FairSystem == SystemSpec /\ SystemFairness

-----------------------------------------------------------------------------
(***************************************************************************)
(* Properties.                                                             *)
(***************************************************************************)
(* A Call that returns nil has run its method, on this server, without an  *)
(* error, and has been given the reply to its own argument, or what there  *)
(* was of it when the method panicked (client.go:261, server.go:392,       *)
(* service.go:25).                                                         *)
NilMeansDone ==
  \A c \in SyncCalls :
    result[c] = "nil" =>
      /\ ran[c] /\ what[c] \notin {"fails", "failsbad"}
      /\ data[c] \in S!RepliesTo(c)

(* Every Call returns: with an answer, or because the connection is gone,  *)
(* and whoever closes either end; except that nobody answers a request     *)
(* whose method fails, nor anything once Accept has failed (client.go:261, *)
(* 358, server.go:260, 288, 364, 502).                                     *)
CallReturns ==
  \A c \in SyncCalls :
    caller[c] = "wait" ~>
      caller[c] = "returned" \/ what[c] = "fails" \/ Stranded

(* When the client has closed or lost its connection, the goroutine that   *)
(* serves it ends and the server keeps nothing of it (server.go:288, 494). *)
ServerLetsGo ==
  <>[](conn # "open" => /\ serving[TheConn] \in {"none", "ended"}
                        /\ TheConn \notin actionConnMap)

(* What Client assumes of its peer is what the server does: what is shown  *)
(* of Client alone holds of the client here (client.go:358).               *)
ImplementsClient == Spec
=============================================================================
