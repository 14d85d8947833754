----------------------------- MODULE Broadcast ------------------------------
(***************************************************************************)
(* One call of xClient.Broadcast (client/xclient.go, error/multi_error.go).*)
(* It gets a client for every server, calls all of them concurrently, one  *)
(* goroutine each, and merges their results: the goroutines report success *)
(* on the channel done, then handle their error or copy their reply.  How  *)
(* getCachedClient and removeClient work is the module XClient.            *)
(***************************************************************************)
EXTENDS Naturals, Sequences, FiniteSets, SequencesExt

CONSTANTS
  Servers,    (* the addresses in xClient.servers                          *)
  NoServer,   (* whose reply an untouched reply is                         *)
  Timeout     (* the error of the timer                                    *)

ASSUME ServersAssumption ==
  IsFiniteSet(Servers) /\ NoServer \notin Servers /\ Timeout \notin Servers

(* The error of wrapCall: none, one of the method or the context, one of   *)
(* the connection.                                                         *)
Outcomes == {"nil", "answered", "broken"}

VARIABLES
  pc,         (* Broadcast: idle, loop, merge, returned                    *)
  clientMap,  (* the servers a client was had for                          *)
  lc,         (* results still expected                                    *)
  timer,      (* the timer: off, on, or on with its tick in timeout.C      *)
  result,     (* what Broadcast returns: none yet, nil, an error           *)
  worker,     (* the goroutines: none, call, report, handle, append, ended *)
  outcome,    (* err of each goroutine                                     *)
  done,       (* the channel of results                                    *)
  multiErr,   (* whose errors are in the MultiError                        *)
  reply,      (* the server whose reply has been copied to the caller's    *)
  removed     (* the servers whose client was removed from the cache       *)

vars == <<pc, clientMap, lc, timer, result, worker, outcome, done, multiErr,
          reply, removed>>
main    == <<pc, clientMap, lc, timer, result>>
workers == <<worker, outcome, removed>>

-----------------------------------------------------------------------------
(***************************************************************************)
(* Faulty variants of definitions below, none of them part of Spec.        *)
(***************************************************************************)
(* A channel of one place, whatever the number of servers.                 *)
RoomForOne == Len(done) < 1

(* Broadcast leaves the loop one result early.                             *)
EnoughEarly(success) == lc <= 2 \/ ~success

(* The reply is copied only while Broadcast is waiting.                    *)
HandleInTime(a) ==
  /\ worker[a] = "handle"
  /\ worker' = [worker EXCEPT ![a] =
                  IF outcome[a] = "nil" THEN "ended" ELSE "append"]
  /\ removed' = IF outcome[a] = "broken" THEN removed \cup {a} ELSE removed
  /\ reply' = IF outcome[a] = "nil" /\ reply = NoServer /\ pc = "loop"
              THEN a ELSE reply
  /\ UNCHANGED <<main, outcome, done, multiErr>>

(* lc is decremented for every result and once more for a failure, ...     *)
CollectTwice ==
  /\ pc = "loop"
  /\ done # <<>>
  /\ lc' = IF Head(done) THEN lc - 1 ELSE lc - 2
  /\ pc' = IF lc = 1 \/ ~Head(done) THEN "merge" ELSE "loop"
  /\ done' = Tail(done)
  /\ UNCHANGED <<clientMap, timer, result, workers, multiErr, reply>>

(* ... or only for a success.                                              *)
CollectSuccess ==
  /\ pc = "loop"
  /\ done # <<>>
  /\ lc' = IF Head(done) THEN lc - 1 ELSE lc
  /\ pc' = IF lc = 1 \/ ~Head(done) THEN "merge" ELSE "loop"
  /\ done' = Tail(done)
  /\ UNCHANGED <<clientMap, timer, result, workers, multiErr, reply>>

-----------------------------------------------------------------------------
Init ==
  /\ pc = "idle"
  /\ clientMap = {}
  /\ lc = 0
  /\ timer = "off"
  /\ result = "none"
  /\ worker = [a \in Servers |-> "none"]
  /\ outcome = [a \in Servers |-> "nil"]
  /\ done = <<>>
  /\ multiErr = {}
  /\ reply = NoServer
  /\ removed = {}

(* The client is shut down, or has no server to call.                      *)
Refuse ==
  /\ pc = "idle"
  /\ pc' = "returned"
  /\ result' = "error"
  /\ UNCHANGED <<clientMap, lc, timer, workers, done, multiErr, reply>>

(* A server whose client cannot be had is left out.  All others are called.*)
Begin ==
  /\ pc = "idle"
  /\ pc' = "loop"
  /\ \E S \in (SUBSET Servers) \ {{}} :
       /\ clientMap' = S
       /\ lc' = Cardinality(S)
       /\ worker' = [a \in Servers |-> IF a \in S THEN "call" ELSE "none"]
  /\ timer' = "on"
  /\ UNCHANGED <<result, outcome, done, multiErr, reply, removed>>

(***************************************************************************)
(* The goroutine of a server.                                              *)
(***************************************************************************)
CallEnds(a) ==
  /\ worker[a] = "call"
  /\ worker' = [worker EXCEPT ![a] = "report"]
  /\ \E o \in Outcomes : outcome' = [outcome EXCEPT ![a] = o]
  /\ UNCHANGED <<main, done, multiErr, reply, removed>>

(* The channel is made with a place for every goroutine.                   *)
Room == Len(done) < Cardinality(clientMap)

Report(a) ==
  /\ worker[a] = "report"
  /\ Room
  /\ worker' = [worker EXCEPT ![a] = "handle"]
  /\ done' = Append(done, outcome[a] = "nil")
  /\ UNCHANGED <<main, outcome, multiErr, reply, removed>>

(* A client that is of no more use is removed; the first reply is copied.  *)
Handle(a) ==
  /\ worker[a] = "handle"
  /\ worker' = [worker EXCEPT ![a] =
                  IF outcome[a] = "nil" THEN "ended" ELSE "append"]
  /\ removed' = IF outcome[a] = "broken" THEN removed \cup {a} ELSE removed
  /\ reply' = IF outcome[a] = "nil" /\ reply = NoServer THEN a ELSE reply
  /\ UNCHANGED <<main, outcome, done, multiErr>>

(* MultiError.Append                                                       *)
AppendError(a) ==
  /\ worker[a] = "append"
  /\ worker' = [worker EXCEPT ![a] = "ended"]
  /\ multiErr' = multiErr \cup {a}
  /\ UNCHANGED <<main, outcome, done, reply, removed>>

(***************************************************************************)
(* Broadcast waits.                                                        *)
(***************************************************************************)
(* All have reported, or one has failed (lc before it is decremented).     *)
Enough(success) == lc = 1 \/ ~success

Collect ==
  /\ pc = "loop"
  /\ done # <<>>
  /\ lc' = lc - 1
  /\ pc' = IF Enough(Head(done)) THEN "merge" ELSE "loop"
  /\ done' = Tail(done)
  /\ UNCHANGED <<clientMap, timer, result, workers, multiErr, reply>>

(* BroadcastTimeout has passed.                                            *)
Tick ==
  /\ timer = "on"
  /\ timer' = "ticked"
  /\ UNCHANGED <<pc, clientMap, lc, result, workers, done, multiErr, reply>>

TimedOut ==
  /\ pc = "loop"
  /\ timer = "ticked"
  /\ multiErr' = multiErr \cup {Timeout}
  /\ pc' = "merge"
  /\ UNCHANGED <<clientMap, lc, timer, result, workers, done, reply>>

(* Stop, and MultiError.ErrorOrNil, which does not take the mutex.         *)
Merge ==
  /\ pc = "merge"
  /\ pc' = "returned"
  /\ timer' = "off"
  /\ result' = IF multiErr = {} THEN "nil" ELSE "error"
  /\ UNCHANGED <<clientMap, lc, workers, done, multiErr, reply>>

Worker(a) == CallEnds(a) \/ Report(a) \/ Handle(a) \/ AppendError(a)
Main == Collect \/ TimedOut \/ Merge

Next == Refuse \/ Begin \/ Main \/ Tick \/ \E a \in Servers : Worker(a)

Spec == Init /\ [][Next]_vars

(* Goroutines run and time passes; a call need not end.                    *)
Fairness ==
  /\ WF_vars(Main) /\ WF_vars(Tick)
  /\ \A a \in Servers : WF_vars(Report(a) \/ Handle(a) \/ AppendError(a))

FairSpec == Spec /\ Fairness

-----------------------------------------------------------------------------
(***************************************************************************)
(* Properties.                                                             *)
(***************************************************************************)
(* The values of the state; the count of expected results never falls      *)
(* below zero (xclient.go:240).                                            *)
TypeOK ==
  /\ pc \in {"idle", "loop", "merge", "returned"}
  /\ clientMap \subseteq Servers
  /\ lc \in 0 .. Cardinality(Servers)
  /\ timer \in {"off", "on", "ticked"}
  /\ result \in {"none", "nil", "error"}
  /\ worker \in [Servers -> {"none", "call", "report", "handle", "append",
                             "ended"}]
  /\ outcome \in [Servers -> Outcomes]
  /\ done \in Seq(BOOLEAN)
  /\ multiErr \subseteq Servers \cup {Timeout}
  /\ reply \in Servers \cup {NoServer}
  /\ removed \subseteq Servers

(* lc counts the results not yet received, also after Broadcast has left   *)
(* the loop: reports wait in the channel, and it always has room           *)
(* (xclient.go:211, 240).                                                  *)
Expected ==
  pc # "idle" =>
    lc = Len(done)
         + Cardinality({a \in clientMap : worker[a] \in {"call", "report"}})

(* A nil result means at least that every called server has reported       *)
(* success, or that the failure of one is known but not yet merged:        *)
(* Broadcast does not return nil over the head of a call that still runs   *)
(* (242).  An error means that a call failed, the time was up or there was *)
(* none to call (246, 252).                                                *)
ResultHasCause ==
  /\ result = "nil" =>
       \/ \A a \in clientMap :
            worker[a] \notin {"call", "report"} /\ outcome[a] = "nil"
       \/ \E a \in clientMap : worker[a] # "call" /\ outcome[a] # "nil"
  /\ result = "error" =>
       \/ clientMap = {}
       \/ Timeout \in multiErr
       \/ \E a \in clientMap : worker[a] = "ended" /\ outcome[a] # "nil"

(* Success is reported before the reply is copied (219, 226), so nil may   *)
(* come before the reply: but unless a server has failed, a goroutine has  *)
(* copied its reply or is about to, though nobody waits for it any more.   *)
NilBringsReply ==
  result = "nil" =>
    \/ reply # NoServer
    \/ \E a \in clientMap : worker[a] = "handle" /\ outcome[a] = "nil"
    \/ \E a \in clientMap : outcome[a] # "nil"

(* Broadcast returns, and so does every goroutine whose call has ended,    *)
(* also when Broadcast has returned before (211, 219, 235).                *)
AllEnd ==
  /\ pc = "loop" ~> pc = "returned"
  /\ \A a \in Servers : worker[a] = "report" ~> worker[a] = "ended"
=============================================================================
