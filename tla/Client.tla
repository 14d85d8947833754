------------------------------- MODULE Client -------------------------------
(***************************************************************************)
(* The connection of package client (client/client.go).  A Client owns one *)
(* network connection; any number of goroutines start calls on it.  Each   *)
(* call runs three goroutines that share the maps and flags of the Client: *)
(*                                                                         *)
(*   - the caller, in Call (waits for the answer or for its context) or in *)
(*     Go (returns at once; the application later reads a Done channel);   *)
(*   - the sender, the goroutine Go starts, in send;                       *)
(*   - input, one per connection, which reads the responses.               *)
(*                                                                         *)
(* A heartbeat goroutine calls periodically, and anybody may call Close.   *)
(* One action is one critical section of Client.mutex, or the code of one  *)
(* goroutine between two such sections.  Behaviours start when Connect has *)
(* returned nil.                                                           *)
(***************************************************************************)
EXTENDS Naturals, Sequences, FiniteSets, SequencesExt

CONSTANTS
  SyncCalls,      (* calls made through Call: own Done channel, capacity 1 *)
  AsyncCalls,     (* calls made through Go with one shared Done channel    *)
  Heartbeats,     (* the calls of SyncCalls made by the heartbeat goroutine*)
  Cancellable,    (* calls of SyncCalls whose context can be cancelled     *)
  Unencodable,    (* calls whose Args the codec refuses to encode          *)
  SerializeTypes, (* the values Option.SerializeType may have              *)
  DoneCap,        (* capacity of the Done channel the AsyncCalls share     *)
  MaxSeq,         (* bound on Client.seq                                   *)
  NoCall          (* the nil *Call                                         *)

Calls == SyncCalls \cup AsyncCalls
Seqs  == 0 .. (MaxSeq - 1)

ASSUME CallsAssumption ==
  /\ IsFiniteSet(Calls)
  /\ SyncCalls \cap AsyncCalls = {}
  /\ Heartbeats \subseteq Cancellable
  /\ Cancellable \subseteq SyncCalls
  /\ Unencodable \subseteq Calls
  /\ NoCall \notin Calls

ASSUME BoundsAssumption ==
  /\ MaxSeq \in Nat \ {0}
  /\ DoneCap \in Nat \ {0}

(* Serialization types that share.Codecs has a codec for.                  *)
Codecs == {"json", "protobuf"}

(* What the peer makes of a request: an answer input can decode, one whose *)
(* payload the codec refuses, one with status Error and metadata (or with  *)
(* a status or serialization type input does not know), one with status    *)
(* Error and no metadata, or no answer.                                    *)
Answers == {"normal", "undecodable", "error", "bare"}
Replies == Answers \cup {"silent"}

(* Answers for which input leaves Call.Error alone: a failure that comes   *)
(* without metadata is one of them.                                        *)
Blameless == {"normal", "bare"}

(* Call.Error.  "lost" is the error input stopped on, "service" any        *)
(* ServiceError, "send" a failed encoding or write, "ctx" a ctx.Err().     *)
Errors == {"nil", "shutdown", "codec", "send", "ctx", "service", "lost"}

VARIABLES
  (* the fields of Client                                                  *)
  option,       (* its option.SerializeType                                *)
  seq, pending, closing, shutdown,
  conn,         (* the TCP connection: open, broken by peer or deadline,   *)
                (* or closed by this side                                  *)
  (* the goroutines of each call                                           *)
  caller, sender,
  mySeq,        (* local variable seq of send, the Seq of the frame        *)
  cell,         (* the uint64 behind share.SeqKey that Call and send share *)
  victim,       (* local variable call of Call after its context is done   *)
  ctxDone,      (* the calls whose context is done                         *)
  (* the input goroutine and its local variables call and msg              *)
  input, hand, msg,
  (* the fields of each Call, and the Done channels                        *)
  err, reply, ready, doneChan,
  (* the heartbeat goroutine                                               *)
  hbCall, hbStopped,
  (* the frame of each call on the connection: its request, then the       *)
  (* peer's answer; the answers input has read                             *)
  frame, taken,
  (* history: how often done() ran, what Call returned, what the           *)
  (* application received from the shared channel                          *)
  completions, result, received

clientVars == <<option, seq, pending, closing, shutdown, conn>>
callVars   == <<caller, sender, mySeq, cell, victim, ctxDone>>
inputVars  == <<input, hand, msg>>
frameVars  == <<frame, taken>>
doneVars   == <<err, ready, doneChan, completions>>
hbVars     == <<hbCall, hbStopped>>
vars == <<clientVars, callVars, inputVars, doneVars, hbVars,
          reply, frameVars, result, received>>

-----------------------------------------------------------------------------
(* A heartbeat is encoded as JSON whatever the client is configured for.   *)
SerializeTypeOf(c) == IF c \in Heartbeats THEN "json" ELSE option

(* The pending calls.                                                      *)
Pending == {pending[s] : s \in Seqs} \ {NoCall}

(* delete(c.pending, s)                                                    *)
Without(s) == [pending EXCEPT ![s] = NoCall]

(***************************************************************************)
(* Call.done() for every call of S, in any order, after Error is set to e. *)
(* The send is non-blocking: what does not fit in the channel is dropped.  *)
(***************************************************************************)
Complete(S, e) ==
  /\ err' = [c \in Calls |-> IF c \in S THEN e ELSE err[c]]
  /\ completions' =
       [c \in Calls |-> completions[c] + IF c \in S THEN 1 ELSE 0]
  /\ ready' = ready \cup (S \cap SyncCalls)
  /\ \E order \in SetToSeqs(S \cap AsyncCalls) :
       LET queue == doneChan \o order
       IN  doneChan' = IF Len(queue) <= DoneCap
                       THEN queue ELSE SubSeq(queue, 1, DoneCap)

-----------------------------------------------------------------------------
(***************************************************************************)
(* Faulty variants of steps of this module: plausible mistakes that the    *)
(* properties at the end of the module must notice.                        *)
(***************************************************************************)

(* The guard of send forgets the flag closing.                             *)
SendRegisterIgnoresClosing(c) ==
  /\ sender[c] = "lock"
  /\ ~shutdown
  /\ SerializeTypeOf(c) \in Codecs
  /\ seq < MaxSeq
  /\ pending' = [pending EXCEPT ![seq] = c]
  /\ mySeq' = [mySeq EXCEPT ![c] = seq]
  /\ seq' = seq + 1
  /\ sender' = [sender EXCEPT ![c] = "store"]
  /\ UNCHANGED <<option, closing, shutdown, conn, caller, cell, victim,
                 ctxDone, inputVars, doneVars, hbVars, reply, frameVars,
                 result, received>>

(* The number is used again: c.seq++ is missing.                           *)
SendRegisterReusesSeq(c) ==
  /\ sender[c] = "lock"
  /\ ~shutdown /\ ~closing
  /\ SerializeTypeOf(c) \in Codecs
  /\ pending' = [pending EXCEPT ![seq] = c]
  /\ mySeq' = [mySeq EXCEPT ![c] = seq]
  /\ sender' = [sender EXCEPT ![c] = "store"]
  /\ UNCHANGED <<option, seq, closing, shutdown, conn, caller, cell, victim,
                 ctxDone, inputVars, doneVars, hbVars, reply, frameVars,
                 result, received>>

(* The cancelled caller returns without completing the call it took.       *)
CallCancelledSilently(c) ==
  /\ caller[c] = "cancel"
  /\ victim' = [victim EXCEPT ![c] = NoCall]
  /\ result' = [result EXCEPT ![c] = "ctx"]
  /\ caller' = [caller EXCEPT ![c] = "returned"]
  /\ UNCHANGED <<clientVars, sender, mySeq, cell, ctxDone, inputVars, hbVars,
                 doneVars, reply, frameVars, received>>

(* input looks the call up and leaves it in pending.                       *)
InputReadKeeps(c) ==
  /\ input = "read"
  /\ frame[c] \in Answers /\ c \notin taken
  /\ taken' = taken \cup {c}
  /\ IF pending[mySeq[c]] = NoCall
     THEN UNCHANGED inputVars
     ELSE input' = "deliver" /\ hand' = pending[mySeq[c]] /\ msg' = c
  /\ UNCHANGED <<clientVars, callVars, doneVars, hbVars, reply, frame, result,
                 received>>

(* input does not test for an answer nobody waits for.                     *)
InputReadUnchecked(c) ==
  /\ input = "read"
  /\ frame[c] \in Answers /\ c \notin taken
  /\ taken' = taken \cup {c}
  /\ pending' = Without(mySeq[c])
  /\ input' = "deliver" /\ hand' = pending[mySeq[c]] /\ msg' = c
  /\ UNCHANGED <<option, seq, closing, shutdown, conn, callVars, doneVars,
                 hbVars, reply, frame, result, received>>

(* input stops without completing the pending calls.                       *)
InputShutdownSilently ==
  /\ input = "exit"
  /\ conn' = "closed"
  /\ shutdown' = TRUE
  /\ input' = "over"
  /\ UNCHANGED <<option, seq, pending, closing, callVars, hand, msg,
                 doneVars, hbVars, reply, frameVars, result, received>>

(* input does not record that the payload could not be decoded.            *)
InputDeliverForgives ==
  /\ input = "deliver"
  /\ Complete({hand}, IF frame[msg] = "error" THEN "service" ELSE err[hand])
  /\ reply' = [reply EXCEPT ![hand] = msg]
  /\ input' = IF frame[msg] = "undecodable" THEN "exit" ELSE "read"
  /\ hand' = NoCall /\ msg' = NoCall
  /\ UNCHANGED <<clientVars, callVars, hbVars, frameVars, result, received>>

(* Close leaves the calls it completes in pending.                         *)
CloseBodyKeeps ==
  /\ Complete(Pending, "shutdown")
  /\ IF closing \/ shutdown
     THEN UNCHANGED <<closing, conn>>
     ELSE closing' = TRUE /\ conn' = "closed"
  /\ UNCHANGED <<option, seq, pending, shutdown>>

(* A failed heartbeat is only logged.                                      *)
HeartbeatJudgeLogs(h) ==
  /\ hbCall = h
  /\ caller[h] = "returned"
  /\ hbCall' = NoCall
  /\ UNCHANGED <<clientVars, callVars, inputVars, doneVars, hbStopped, reply,
                 frameVars, result, received>>

-----------------------------------------------------------------------------
Init ==
  /\ option \in SerializeTypes
  /\ seq = 0
  /\ pending = [s \in Seqs |-> NoCall]
  /\ closing = FALSE
  /\ shutdown = FALSE
  /\ conn = "open"
  /\ caller = [c \in Calls |-> "idle"]
  /\ sender = [c \in Calls |-> "idle"]
  /\ mySeq = [c \in Calls |-> 0]
  /\ cell = [c \in Calls |-> 0]
  /\ victim = [c \in Calls |-> NoCall]
  /\ ctxDone = {}
  /\ input = "read"
  /\ hand = NoCall
  /\ msg = NoCall
  /\ err = [c \in Calls |-> "nil"]
  /\ reply = [c \in Calls |-> NoCall]
  /\ ready = {}
  /\ doneChan = <<>>
  /\ hbCall = NoCall
  /\ hbStopped = (Heartbeats = {})
  /\ frame = [c \in Calls |-> "none"]
  /\ taken = {}
  /\ completions = [c \in Calls |-> 0]
  /\ result = [c \in Calls |-> "none"]
  /\ received = {}

-----------------------------------------------------------------------------
(* The caller.                                                             *)

(* Go: a fresh Call, and the goroutine that sends it.  Call then waits.    *)
Start(c) ==
  /\ caller[c] = "idle"
  /\ caller' = [caller EXCEPT ![c] =
                  IF c \in SyncCalls THEN "wait" ELSE "returned"]
  /\ sender' = [sender EXCEPT ![c] = "lock"]

Invoke(c) ==
  /\ c \notin Heartbeats
  /\ Start(c)
  /\ UNCHANGED <<clientVars, mySeq, cell, victim, ctxDone, inputVars,
                 doneVars, hbVars, reply, frameVars, result, received>>

(* The context of a call in progress is cancelled or times out; the one of *)
(* a heartbeat may also do so between Call's return and ctx.Err().         *)
ContextDone(c) ==
  /\ c \in Cancellable \ ctxDone
  /\ caller[c] \in {"wait", "got"} \/ hbCall = c
  /\ ctxDone' = ctxDone \cup {c}
  /\ UNCHANGED <<clientVars, caller, sender, mySeq, cell, victim, inputVars,
                 doneVars, hbVars, reply, frameVars, result, received>>

(* select: the Done channel holds the call.                                *)
CallReceive(c) ==
  /\ caller[c] = "wait"
  /\ c \in ready
  /\ ready' = ready \ {c}
  /\ caller' = [caller EXCEPT ![c] = "got"]
  /\ UNCHANGED <<clientVars, sender, mySeq, cell, victim, ctxDone, inputVars,
                 err, doneChan, completions, hbVars, reply, frameVars, result,
                 received>>

(* err = call.Error, which another goroutine may have written meanwhile.   *)
CallReturn(c) ==
  /\ caller[c] = "got"
  /\ result' = [result EXCEPT ![c] = err[c]]
  /\ caller' = [caller EXCEPT ![c] = "returned"]
  /\ UNCHANGED <<clientVars, sender, mySeq, cell, victim, ctxDone, inputVars,
                 doneVars, hbVars, reply, frameVars, received>>

(* select: the context is done.  The entry *seq is taken from pending,     *)
(* whatever the cell holds by now.                                         *)
CallCancel(c) ==
  /\ caller[c] = "wait"
  /\ c \in ctxDone
  /\ victim' = [victim EXCEPT ![c] = pending[cell[c]]]
  /\ pending' = Without(cell[c])
  /\ caller' = [caller EXCEPT ![c] = "cancel"]
  /\ UNCHANGED <<option, seq, closing, shutdown, conn, sender, mySeq, cell,
                 ctxDone, inputVars, doneVars, hbVars, reply, frameVars,
                 result, received>>

(* The call that was taken is completed with ctx.Err(), Call returns it.   *)
CallCancelled(c) ==
  /\ caller[c] = "cancel"
  /\ Complete({victim[c]} \ {NoCall}, "ctx")
  /\ victim' = [victim EXCEPT ![c] = NoCall]
  /\ result' = [result EXCEPT ![c] = "ctx"]
  /\ caller' = [caller EXCEPT ![c] = "returned"]
  /\ UNCHANGED <<clientVars, sender, mySeq, cell, ctxDone, inputVars, hbVars,
                 reply, frameVars, received>>

(* The application reads the channel it gave to Go.                        *)
Receive ==
  /\ doneChan # <<>>
  /\ received' = received \cup {Head(doneChan)}
  /\ doneChan' = Tail(doneChan)
  /\ UNCHANGED <<clientVars, callVars, inputVars, err, ready, completions,
                 hbVars, reply, frameVars, result>>

-----------------------------------------------------------------------------
(* The sender.                                                             *)
(* Under the mutex: the client is shut down or closing.                    *)
SendRefused(c) ==
  /\ sender[c] = "lock"
  /\ shutdown \/ closing
  /\ Complete({c}, "shutdown")
  /\ sender' = [sender EXCEPT ![c] = "over"]
  /\ UNCHANGED <<clientVars, caller, mySeq, cell, victim, ctxDone, inputVars,
                 hbVars, reply, frameVars, result, received>>

(* Under the mutex: no codec for the serialization type.                   *)
SendNoCodec(c) ==
  /\ sender[c] = "lock"
  /\ ~shutdown /\ ~closing
  /\ SerializeTypeOf(c) \notin Codecs
  /\ Complete({c}, "codec")
  /\ sender' = [sender EXCEPT ![c] = "over"]
  /\ UNCHANGED <<clientVars, caller, mySeq, cell, victim, ctxDone, inputVars,
                 hbVars, reply, frameVars, result, received>>

(* Under the mutex: the call gets the next number and becomes pending.     *)
SendRegister(c) ==
  /\ sender[c] = "lock"
  /\ ~shutdown /\ ~closing
  /\ SerializeTypeOf(c) \in Codecs
  /\ seq < MaxSeq
  /\ pending' = [pending EXCEPT ![seq] = c]
  /\ mySeq' = [mySeq EXCEPT ![c] = seq]
  /\ seq' = seq + 1
  /\ sender' = [sender EXCEPT ![c] = "store"]
  /\ UNCHANGED <<option, closing, shutdown, conn, caller, cell, victim,
                 ctxDone, inputVars, doneVars, hbVars, reply, frameVars,
                 result, received>>

(* After the mutex is released: *cseq = seq, if the context has a cell.    *)
SendStoreSeq(c) ==
  /\ sender[c] = "store"
  /\ cell' = IF c \in SyncCalls THEN [cell EXCEPT ![c] = mySeq[c]] ELSE cell
  /\ sender' = [sender EXCEPT ![c] = "write"]
  /\ UNCHANGED <<clientVars, caller, mySeq, victim, ctxDone, inputVars,
                 doneVars, hbVars, reply, frameVars, result, received>>

(* The frame is written; on a broken connection it may be buffered and     *)
(* lost without an error.                                                  *)
SendWrite(c) ==
  /\ sender[c] = "write"
  /\ c \notin Unencodable
  /\ conn # "closed"
  /\ frame' = [frame EXCEPT ![c] = IF conn = "open" THEN "request" ELSE @]
  /\ sender' = [sender EXCEPT ![c] = "over"]
  /\ UNCHANGED <<clientVars, caller, mySeq, cell, victim, ctxDone, inputVars,
                 doneVars, hbVars, reply, taken, result, received>>

(* Encode or Write failed: under the mutex the entry is deleted ...        *)
SendFail(c) ==
  /\ sender[c] = "write"
  /\ c \in Unencodable \/ conn # "open"
  /\ pending' = Without(mySeq[c])
  /\ sender' = [sender EXCEPT ![c] = "fail"]
  /\ UNCHANGED <<option, seq, closing, shutdown, conn, caller, mySeq, cell,
                 victim, ctxDone, inputVars, doneVars, hbVars, reply,
                 frameVars, result, received>>

(* ... and outside of it the call is completed, pending or not.            *)
SendFailed(c) ==
  /\ sender[c] = "fail"
  /\ Complete({c}, "send")
  /\ sender' = [sender EXCEPT ![c] = "over"]
  /\ UNCHANGED <<clientVars, caller, mySeq, cell, victim, ctxDone, inputVars,
                 hbVars, reply, frameVars, result, received>>

-----------------------------------------------------------------------------
(* The input goroutine.                                                    *)

(* A response is decoded (the reader may have buffered it before the       *)
(* connection was lost) and under the mutex its call leaves pending; an    *)
(* answer nobody waits for is dropped.                                     *)
InputRead(c) ==
  /\ input = "read"
  /\ frame[c] \in Answers /\ c \notin taken
  /\ taken' = taken \cup {c}
  /\ pending' = Without(mySeq[c])
  /\ IF pending[mySeq[c]] = NoCall
     THEN UNCHANGED inputVars
     ELSE input' = "deliver" /\ hand' = pending[mySeq[c]] /\ msg' = c
  /\ UNCHANGED <<option, seq, closing, shutdown, conn, callVars, doneVars,
                 hbVars, reply, frame, result, received>>

(* The call in hand is given the outcome and completed; its Error is set   *)
(* for a failure only if the answer has metadata.  A payload the codec     *)
(* refuses also ends the loop: the error is left in variable err.          *)
InputDeliver ==
  /\ input = "deliver"
  /\ Complete({hand},
              IF frame[msg] \in Blameless THEN err[hand] ELSE "service")
  /\ reply' = [reply EXCEPT ![hand] = msg]
  /\ input' = IF frame[msg] = "undecodable" THEN "exit" ELSE "read"
  /\ hand' = NoCall /\ msg' = NoCall
  /\ UNCHANGED <<clientVars, callVars, hbVars, frameVars, result, received>>

(* Decode fails: the connection is broken or closed.                       *)
InputError ==
  /\ input = "read"
  /\ conn # "open"
  /\ input' = "exit"
  /\ UNCHANGED <<clientVars, callVars, hand, msg, doneVars, hbVars, reply,
                 frameVars, result, received>>

(* Under the mutex, after the loop: the client is shut down and the        *)
(* pending calls are completed; they stay in the map.                      *)
InputShutdown ==
  /\ input = "exit"
  /\ conn' = "closed"
  /\ shutdown' = TRUE
  /\ Complete(Pending, "lost")
  /\ input' = "over"
  /\ UNCHANGED <<option, seq, pending, closing, callVars, hand, msg, hbVars,
                 reply, frameVars, result, received>>

-----------------------------------------------------------------------------
(* Close: under the mutex every pending call is completed and deleted,     *)
(* also when the client was closing or shut down before.                   *)
CloseBody ==
  /\ Complete(Pending, "shutdown")
  /\ pending' = [s \in Seqs |-> NoCall]
  /\ IF closing \/ shutdown
     THEN UNCHANGED <<closing, conn>>
     ELSE closing' = TRUE /\ conn' = "closed"
  /\ UNCHANGED <<option, seq, shutdown>>

Close ==
  /\ CloseBody
  /\ UNCHANGED <<callVars, inputVars, hbVars, reply, frameVars, result,
                 received>>

-----------------------------------------------------------------------------
(* The heartbeat goroutine.                                                *)
HeartbeatStop ==
  /\ hbCall = NoCall /\ ~hbStopped
  /\ shutdown \/ closing
  /\ hbStopped' = TRUE
  /\ UNCHANGED <<clientVars, callVars, inputVars, doneVars, hbCall, reply,
                 frameVars, result, received>>

(* A tick: one heartbeat call at a time, with a deadline.                  *)
HeartbeatTick(h) ==
  /\ hbCall = NoCall /\ ~hbStopped
  /\ ~shutdown /\ ~closing
  /\ Start(h)
  /\ hbCall' = h
  /\ UNCHANGED <<clientVars, mySeq, cell, victim, ctxDone, inputVars,
                 doneVars, hbStopped, reply, frameVars, result, received>>

(* The call is over: an error, or a deadline that passed, closes the       *)
(* client; the ticker goes on.                                             *)
HeartbeatJudge(h) ==
  /\ hbCall = h
  /\ caller[h] = "returned"
  /\ IF result[h] # "nil" \/ h \in ctxDone
     THEN CloseBody
     ELSE UNCHANGED <<clientVars, doneVars>>
  /\ hbCall' = NoCall
  /\ UNCHANGED <<callVars, inputVars, hbStopped, reply, frameVars, result,
                 received>>

-----------------------------------------------------------------------------
(* The connection and the peer (server/server.go): it runs a request it    *)
(* has received and may answer it once, in any order.  The answer does not *)
(* arrive when the connection is gone.                                     *)
Serve(c) ==
  /\ frame[c] = "request"
  /\ \E answer \in IF conn = "open" THEN Replies ELSE {"silent"} :
       frame' = [frame EXCEPT ![c] = answer]
  /\ UNCHANGED <<clientVars, callVars, inputVars, doneVars, hbVars, reply,
                 taken, result, received>>

(* The peer closes or resets the connection, or the idle deadline passes.  *)
ConnBreak ==
  /\ conn = "open"
  /\ conn' = "broken"
  /\ UNCHANGED <<option, seq, pending, closing, shutdown, callVars,
                 inputVars, doneVars, hbVars, reply, frameVars, result,
                 received>>

-----------------------------------------------------------------------------
CallerStep(c) ==
  CallReceive(c) \/ CallReturn(c) \/ CallCancel(c) \/ CallCancelled(c)

SenderStep(c) ==
  \/ SendRefused(c) \/ SendNoCodec(c) \/ SendRegister(c) \/ SendStoreSeq(c)
  \/ SendWrite(c) \/ SendFail(c) \/ SendFailed(c)

InputStep ==
  \/ \E c \in Calls : InputRead(c)
  \/ InputDeliver
  \/ InputError
  \/ InputShutdown

HeartbeatStep ==
  \/ HeartbeatStop
  \/ \E h \in Heartbeats : HeartbeatTick(h) \/ HeartbeatJudge(h)

Environment ==
  \/ \E c \in Calls : Invoke(c) \/ ContextDone(c) \/ Serve(c)
  \/ Receive
  \/ Close
  \/ ConnBreak

Next ==
  \/ \E c \in SyncCalls : CallerStep(c)
  \/ \E c \in Calls : SenderStep(c)
  \/ InputStep
  \/ HeartbeatStep
  \/ Environment

Spec == Init /\ [][Next]_vars

(***************************************************************************)
(* Fairness: the Go scheduler runs every goroutine that can run, and a     *)
(* mutex of package sync is handed to every waiter; heartbeat contexts     *)
(* have a deadline.  The application, the peer and the network owe nothing.*)
(***************************************************************************)
Fairness ==
  /\ \A c \in SyncCalls : WF_vars(CallerStep(c))
  /\ \A c \in Calls : WF_vars(SenderStep(c))
  /\ WF_vars(InputStep)
  /\ WF_vars(HeartbeatStep)
  /\ \A h \in Heartbeats : WF_vars(ContextDone(h))

FairSpec == Spec /\ Fairness

-----------------------------------------------------------------------------
(***************************************************************************)
(* Type correctness; the input goroutine has a call in hand exactly while  *)
(* it delivers, so that it never dereferences a nil *Call.                 *)
(***************************************************************************)
ClientTypeOK ==
  /\ option \in SerializeTypes
  /\ seq \in 0 .. MaxSeq
  /\ pending \in [Seqs -> Calls \cup {NoCall}]
  /\ closing \in BOOLEAN /\ shutdown \in BOOLEAN
  /\ conn \in {"open", "broken", "closed"}
  /\ hbCall \in Heartbeats \cup {NoCall} /\ hbStopped \in BOOLEAN

CallTypeOK ==
  /\ caller \in [Calls -> {"idle", "wait", "got", "cancel", "returned"}]
  /\ sender \in [Calls -> {"idle", "lock", "store", "write", "fail", "over"}]
  /\ mySeq \in [Calls -> Seqs] /\ cell \in [Calls -> Seqs]
  /\ victim \in [Calls -> Calls \cup {NoCall}]
  /\ ctxDone \subseteq Cancellable

InputTypeOK ==
  /\ input \in {"read", "deliver", "exit", "over"}
  /\ IF input = "deliver" THEN hand \in Calls /\ msg \in Calls
                          ELSE hand = NoCall /\ msg = NoCall

FrameTypeOK ==
  /\ frame \in [Calls -> {"none", "request"} \cup Replies]
  /\ taken \subseteq Calls

DoneTypeOK ==
  /\ err \in [Calls -> Errors]
  /\ reply \in [Calls -> Calls \cup {NoCall}]
  /\ ready \subseteq SyncCalls
  /\ doneChan \in Seq(AsyncCalls) /\ Len(doneChan) <= DoneCap
  /\ completions \in [Calls -> Nat]

ResultTypeOK ==
  /\ result \in [Calls -> Errors \cup {"none"}]
  /\ received \subseteq AsyncCalls

TypeOK ==
  /\ ClientTypeOK /\ CallTypeOK /\ InputTypeOK
  /\ FrameTypeOK /\ DoneTypeOK /\ ResultTypeOK

(***************************************************************************)
(* A call that send has taken charge of is never lost: until done() has    *)
(* run for it, some goroutine or the map pending still holds it -- also    *)
(* when a cancelled caller, Close, a failed send and the end of input race *)
(* for it.                                                                 *)
(***************************************************************************)
NoLostCall ==
  \A c \in Calls :
    \/ sender[c] \in {"idle", "lock", "fail"}
    \/ completions[c] > 0
    \/ c \in Pending
    \/ c = hand
    \/ \E d \in SyncCalls : victim[d] = c

(***************************************************************************)
(* Once Close has run nothing is pending, and once input has ended every   *)
(* entry left in pending was completed: no later call slips in between the *)
(* flags and the map.                                                      *)
(***************************************************************************)
ClosedMeansDrained ==
  /\ closing => Pending = {}
  /\ shutdown => \A c \in Pending : completions[c] > 0

(***************************************************************************)
(* An answer reaches the call whose request it answers and no other, and   *)
(* Call returns nil only for a call that was itself answered, normally or  *)
(* by a failure that came without metadata (client.go:148): the numbers of *)
(* the frames keep concurrent calls apart, whoever is cancelled.           *)
(***************************************************************************)
OwnReply ==
  \A c \in Calls :
    /\ reply[c] \in {NoCall, c}
    /\ result[c] = "nil" => reply[c] = c /\ frame[c] \in Blameless

(***************************************************************************)
(* done() runs once for an answered call, and at most three times for any: *)
(* at the end of input, in Close and after a failed write.                 *)
(***************************************************************************)
CompletionBound ==
  \A c \in Calls : completions[c] <= (IF reply[c] = c THEN 1 ELSE 3)

(***************************************************************************)
(* An answered call keeps its outcome: neither Close, the end of input,    *)
(* a cancelled context nor a failed send overwrites Call.Error or          *)
(* Call.Reply afterwards.                                                  *)
(***************************************************************************)
AnswerIsFinal ==
  [][\A c \in Calls : reply[c] # NoCall => /\ err'[c] = err[c]
                                           /\ reply'[c] = reply[c]]_vars

(***************************************************************************)
(* Call.Reply belongs to the application again once Call has returned,     *)
(* unless the caller's own context was done: input does not write to it    *)
(* after Close or the end of the connection made Call return.              *)
(***************************************************************************)
NoLateReply ==
  [][\A c \in SyncCalls :
       caller[c] = "returned" /\ c \notin ctxDone => reply'[c] = reply[c]]_vars

(***************************************************************************)
(* The shared Done channel reports every completed call when it has room   *)
(* for the three completions a call can get.                               *)
(***************************************************************************)
NotifiedIfAmpleRoom ==
  DoneCap >= 3 * Cardinality(AsyncCalls) =>
    \A c \in AsyncCalls :
      completions[c] > 0 => c \in received \/ c \in ToSet(doneChan)

(***************************************************************************)
(* A waiting Call returns once the connection is gone, also without a      *)
(* deadline of its own and however far its sender is (client.go:203, 336,  *)
(* 371), once its context is done, or if no codec can encode it.           *)
(***************************************************************************)
CallEnds ==
  \A c \in SyncCalls :
    (caller[c] = "wait" /\ \/ conn # "open"
                           \/ c \in ctxDone
                           \/ SerializeTypeOf(c) \notin Codecs)
      ~> (caller[c] = "returned")

(***************************************************************************)
(* The heartbeat finds out a peer that does not answer: every heartbeat    *)
(* call ends, with success or with the client closed.                      *)
(***************************************************************************)
HeartbeatDetects ==
  \A h \in Heartbeats :
    hbCall = h ~>
      (hbCall = NoCall /\ (result[h] = "nil" \/ closing \/ shutdown))

-----------------------------------------------------------------------------
(* The state of CallPromise that the state of the client stands for.       *)
PhaseOf(c) ==
  CASE caller[c] = "idle"     -> "idle"
    [] caller[c] = "returned" -> "ended"
    [] OTHER                  -> "open"

AnswerOf(c) ==
  CASE frame[c] \in {"none", "request"}       -> "none"
    [] frame[c] = "normal"                    -> "good"
    [] frame[c] = "bare"                      -> "bare"
    [] frame[c] \in {"undecodable", "error"}  -> "bad"
    [] OTHER                                  -> "silent"

OutcomeOf(c) ==
  CASE result[c] = "none"    -> "none"
    [] result[c] = "nil"     -> "success"
    [] result[c] = "service" -> "service"
    [] OTHER                 -> "failure"

Promise == INSTANCE CallPromise
             WITH Calls   <- SyncCalls,
                  phase   <- [c \in SyncCalls |-> PhaseOf(c)],
                  answer  <- [c \in SyncCalls |-> AnswerOf(c)],
                  outcome <- [c \in SyncCalls |-> OutcomeOf(c)]

(* Every behaviour of the client keeps the promise of CallPromise: no race *)
(* of cancellation, Close and the loss of the connection makes a call      *)
(* succeed that was not answered, or blames the service of one that the    *)
(* service did not fail (client.go:137, 148, 261).                         *)
KeepsPromise == Promise!Spec

-----------------------------------------------------------------------------
(***************************************************************************)
(* What a comment claims and the code does not do (see README.md).         *)
(***************************************************************************)

(* A call gets a context error only if its own context is done: Call       *)
(* removes "its" entry by the number it cached (client.go:254).            *)
CtxErrorIsOwn == \A c \in Calls : err[c] = "ctx" => c \in ctxDone
=============================================================================
