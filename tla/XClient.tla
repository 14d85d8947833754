------------------------------ MODULE XClient -------------------------------
(***************************************************************************)
(* The pooled client of package client (client/xclient.go, selector.go).   *)
(* An xClient keeps the list of servers discovery reports, one cached      *)
(* connection (RPCClient) per server, and starts connections on demand     *)
(* through a singleflight group.  Any number of goroutines run Call or Go; *)
(* watch replaces the list and anybody may call Close.                     *)
(*                                                                         *)
(* One action is one critical section of xClient.mu, one access to shared  *)
(* state outside of it, or one call into a connection.  A connection is    *)
(* abstracted to what xClient asks of it (IsClosing, IsShutdown, Call,     *)
(* Close); the module Client is its detail.                                *)
(***************************************************************************)
EXTENDS Naturals, Sequences, FiniteSets

CONSTANTS
  Keys,       (* addresses of servers                                      *)
  NoKey,      (* the empty address "", what Select returns without servers *)
  Procs,      (* goroutines, each of which makes one call                  *)
  NoProc,
  Ops,        (* what the goroutines may do, a subset of {"Call", "Go"}    *)
  Lists,      (* the server lists discovery may report                     *)
  FailModes,  (* the fail modes an xClient may be made with                *)
  Retries,    (* Option.Retries                                            *)
  MaxConns    (* bound on the connections ever made                        *)

Addresses == Keys \cup {NoKey}
Conns     == 1 .. MaxConns
NoConn    == 0            (* the nil RPCClient                             *)
MaybeConn == Conns \cup {NoConn}

ASSUME KeysAssumption == NoKey \notin Keys
ASSUME ProcsAssumption == NoProc \notin Procs /\ IsFiniteSet(Procs)
ASSUME OpsAssumption == Ops \subseteq {"Call", "Go"}
ASSUME ListsAssumption == Lists \subseteq SUBSET Keys
ASSUME ModeAssumption ==
  /\ FailModes \subseteq {"FailOver", "FailFast", "FailTry", "FailBackup"}
  /\ Retries \in Nat
  /\ MaxConns \in Nat

(* What RPCClient.Call returns: nil, a ServiceError, the error of the      *)
(* context, or any other error, which uncoverError takes for a connection  *)
(* that is of no more use.                                                 *)
Outcomes == {"nil", "service", "ctx", "broken"}
Errors   == Outcomes \cup {"shutdown", "noserver", "connect", "unsupported"}

VARIABLES
  (* xClient; servers is also the list of the selector                     *)
  failMode, servers, cache, isShutdown,
  flight,     (* the singleflight group: the goroutine that runs generate  *)
              (* for an address                                            *)
  (* the connections: the server of each, and unused, open, lost (input    *)
  (* has stopped), closed (Close has been called)                          *)
  connOf, connState,
  (* the goroutines: program counter and the locals of Call                *)
  pc, op, key, client, err,
  left,       (* iterations of the retry loop that are left                *)
  lead,       (* whose generate the goroutine waits for                    *)
  attempts    (* history: the calls it made on connections                 *)

xclient == <<failMode, servers, cache, isShutdown>>
conns   == <<connOf, connState>>
vars == <<failMode, servers, cache, isShutdown, flight, connOf, connState, pc,
          op, key, client, err, left, lead, attempts>>

Steps == {"idle", "select", "check", "lookup", "join", "wait", "generate",
          "store", "forget", "got", "call", "remove", "close", "done"}

(***************************************************************************)
(* Small operators.                                                        *)
(***************************************************************************)
Open(c) == c \in Conns /\ connState[c] = "open"

Unused == {c \in Conns : connState[c] = "unused"}
Fresh  == CHOOSE c \in Unused : \A d \in Unused : c <= d

-----------------------------------------------------------------------------
(***************************************************************************)
(* Faulty variants of operators below, none of them part of Spec: bugs the *)
(* properties are there to find.                                           *)
(***************************************************************************)
(* uncoverError that retries what the method has refused, ...              *)
UncoverService(e) == e # "ctx"

(* ... and that blames the connection when a context has ended.            *)
UncoverContext(e) == e # "service"

(* Do under a name that is the same for all servers.                       *)
JoinAnyKey(p) ==
  LET leaders == {flight[k] : k \in Addresses} \ {NoProc} IN
  /\ pc[p] = "join"
  /\ IF leaders = {}
     THEN /\ flight' = [flight EXCEPT ![key[p]] = p]
          /\ pc' = [pc EXCEPT ![p] = "generate"]
          /\ UNCHANGED lead
     ELSE /\ \E q \in leaders : lead' = [lead EXCEPT ![p] = q]
          /\ pc' = [pc EXCEPT ![p] = "wait"]
          /\ UNCHANGED flight
  /\ UNCHANGED <<xclient, conns, op, key, client, err, left, attempts>>

(* One iteration too many.                                                 *)
GotForRetryLate(p) ==
  /\ op[p] = "Call"
  /\ failMode \in {"FailTry", "FailOver"}
  /\ left' = [left EXCEPT ![p] = left[p] - 1]
  /\ pc' = [pc EXCEPT ![p] = IF left[p] < 0 THEN "done"
                             ELSE IF client[p] = NoConn THEN "remove"
                             ELSE "call"]

(* Nothing counts the iterations: retries-- is missing.                    *)
GotForRetryAgain(p) ==
  /\ op[p] = "Call"
  /\ failMode \in {"FailTry", "FailOver"}
  /\ UNCHANGED left
  /\ pc' = [pc EXCEPT ![p] = IF left[p] = 0 THEN "done"
                             ELSE IF client[p] = NoConn THEN "remove"
                             ELSE "call"]

(* removeClient without the comparison.                                    *)
RemoveAny(p) ==
  /\ pc[p] = "remove"
  /\ cache' = [cache EXCEPT ![key[p]] = NoConn]
  /\ pc' = [pc EXCEPT ![p] = "close"]
  /\ UNCHANGED <<failMode, servers, isShutdown, flight, conns, op, key,
                 client, err, left, lead, attempts>>

-----------------------------------------------------------------------------
(* uncoverError: the error says nothing of the method or the context, so   *)
(* the client is replaced and the call made again.                         *)
Uncover(e) == e \notin {"service", "ctx"}

(* What a call on c may end with.  An open connection may fail during the  *)
(* call, or refuse it (the codec) without being lost.                      *)
OutcomesOn(c) == IF Open(c) THEN Outcomes ELSE {"ctx", "broken"}

(* The goroutine p goes on at the step.                                    *)
Goto(p, step) == pc' = [pc EXCEPT ![p] = step]

(* The call ends with e.                                                   *)
Return(p, e) == Goto(p, "done") /\ err' = [err EXCEPT ![p] = e]

-----------------------------------------------------------------------------
Init ==
  /\ failMode \in FailModes
  /\ servers \in Lists
  /\ cache = [k \in Addresses |-> NoConn]
  /\ isShutdown = FALSE
  /\ flight = [k \in Addresses |-> NoProc]
  /\ connOf = [c \in Conns |-> NoKey]
  /\ connState = [c \in Conns |-> "unused"]
  /\ pc = [p \in Procs |-> "idle"]
  /\ op = [p \in Procs |-> "Call"]
  /\ key = [p \in Procs |-> NoKey]
  /\ client = [p \in Procs |-> NoConn]
  /\ err = [p \in Procs |-> "nil"]
  /\ left = [p \in Procs |-> Retries + 1]
  /\ lead = [p \in Procs |-> NoProc]
  /\ attempts = [p \in Procs |-> <<>>]

(* Call and Go: the first test of isShutdown, without the mutex.           *)
Begin(p) ==
  /\ pc[p] = "idle"
  /\ \E o \in Ops : op' = [op EXCEPT ![p] = o]
  /\ IF isShutdown THEN Return(p, "shutdown")
     ELSE Goto(p, "select") /\ UNCHANGED err
  /\ UNCHANGED <<xclient, flight, conns, key, client, left, lead, attempts>>

(***************************************************************************)
(* selectClient and getCachedClient.                                       *)
(***************************************************************************)
(* randomSelector.Select: any server of its list, "" without servers.      *)
SelectFrom(list) == IF list = {} THEN {NoKey} ELSE list

Select(p) ==
  /\ pc[p] = "select"
  /\ \E k \in SelectFrom(servers) :
       /\ key' = [key EXCEPT ![p] = k]
       /\ IF k = NoKey
          THEN /\ client' = [client EXCEPT ![p] = NoConn]
               /\ err' = [err EXCEPT ![p] = "noserver"]
               /\ Goto(p, "got")
          ELSE Goto(p, "check") /\ UNCHANGED <<client, err>>
  /\ UNCHANGED <<xclient, flight, conns, op, left, lead, attempts>>

(* isShutdown is read before the mutex is taken.                           *)
Check(p) ==
  /\ pc[p] = "check"
  /\ IF isShutdown
     THEN /\ client' = [client EXCEPT ![p] = NoConn]
          /\ err' = [err EXCEPT ![p] = "shutdown"]
          /\ Goto(p, "got")
     ELSE Goto(p, "lookup") /\ UNCHANGED <<client, err>>
  /\ UNCHANGED <<xclient, flight, conns, op, key, left, lead, attempts>>

(* A cached client that works is taken; one that does not is removed.      *)
Lookup(p) ==
  /\ pc[p] = "lookup"
  /\ IF Open(cache[key[p]])
     THEN /\ client' = [client EXCEPT ![p] = cache[key[p]]]
          /\ err' = [err EXCEPT ![p] = "nil"]
          /\ Goto(p, "got")
          /\ UNCHANGED cache
     ELSE /\ cache' = [cache EXCEPT ![key[p]] = NoConn]
          /\ Goto(p, "join")
          /\ UNCHANGED <<client, err>>
  /\ UNCHANGED <<failMode, servers, isShutdown, flight, conns, op, key, left,
                 lead, attempts>>

(* singleflight.Group.Do: run the function, or wait for who runs it.       *)
Join(p) ==
  /\ pc[p] = "join"
  /\ IF flight[key[p]] = NoProc
     THEN /\ flight' = [flight EXCEPT ![key[p]] = p]
          /\ Goto(p, "generate")
          /\ UNCHANGED lead
     ELSE /\ lead' = [lead EXCEPT ![p] = flight[key[p]]]
          /\ Goto(p, "wait")
          /\ UNCHANGED flight
  /\ UNCHANGED <<xclient, conns, op, key, client, err, left, attempts>>

(* p and those who wait for it get the same client, or the same error, and *)
(* the flight ends (unless Forget has ended it already).                   *)
Landed(p) == {p} \cup {q \in Procs : pc[q] = "wait" /\ lead[q] = p}

Land(p, c, e) ==
  /\ client' = [q \in Procs |-> IF q \in Landed(p) THEN c ELSE client[q]]
  /\ err' = [q \in Procs |-> IF q \in Landed(p) THEN e ELSE err[q]]
  /\ pc' = [q \in Procs |-> IF q \in Landed(p) THEN "store" ELSE pc[q]]
  /\ lead' = [q \in Procs |-> IF q \in Landed(p) THEN NoProc ELSE lead[q]]
  /\ flight' = [k \in Addresses |->
                  IF k = key[p] /\ flight[k] = p THEN NoProc ELSE flight[k]]

(* generateClient: Connect succeeds or fails; there is no server at "".    *)
Generate(p) ==
  /\ pc[p] = "generate"
  /\ \/ Land(p, NoConn, "connect") /\ UNCHANGED conns
     \/ /\ key[p] # NoKey
        /\ Unused # {}
        /\ connOf' = [connOf EXCEPT ![Fresh] = key[p]]
        /\ connState' = [connState EXCEPT ![Fresh] = "open"]
        /\ Land(p, Fresh, "nil")
  /\ UNCHANGED <<xclient, op, key, left, attempts>>

(* The client is cached; an error only ends the flight.                    *)
Store(p) ==
  /\ pc[p] = "store"
  /\ IF err[p] = "nil"
     THEN /\ cache' = [cache EXCEPT ![key[p]] = client[p]]
          /\ Goto(p, "forget")
          /\ UNCHANGED flight
     ELSE /\ flight' = [flight EXCEPT ![key[p]] = NoProc]
          /\ Goto(p, "got")
          /\ UNCHANGED cache
  /\ UNCHANGED <<failMode, servers, isShutdown, conns, op, key, client, err,
                 left, lead, attempts>>

(* singleflight.Group.Forget: whose ever flight it is, it joins nobody more*)
Forget(p) ==
  /\ pc[p] = "forget"
  /\ flight' = [flight EXCEPT ![key[p]] = NoProc]
  /\ Goto(p, "got")
  /\ UNCHANGED <<xclient, conns, op, key, client, err, left, lead, attempts>>

(***************************************************************************)
(* Call and Go once selectClient or getCachedClient has returned.          *)
(***************************************************************************)
Retrying == failMode \in {"FailTry", "FailOver"}

(* Go starts the call on the client, whatever the mode.                    *)
GotForGo(p) ==
  /\ op[p] = "Go"
  /\ Goto(p, "done")
  /\ UNCHANGED left

(* FailFast returns the error or makes its only call; FailBackup is        *)
(* refused.                                                                *)
GotForOnce(p) ==
  /\ op[p] = "Call"
  /\ ~Retrying
  /\ Goto(p, IF failMode = "FailFast" /\ err[p] = "nil"
             THEN "call" ELSE "done")
  /\ UNCHANGED left

(* The head of the retry loops of FailTry and FailOver.  Without a client  *)
(* removeClient follows, which then changes nothing.                       *)
GotForRetry(p) ==
  /\ op[p] = "Call"
  /\ Retrying
  /\ IF left[p] = 0
     THEN Goto(p, "done") /\ UNCHANGED left
     ELSE /\ left' = [left EXCEPT ![p] = left[p] - 1]
          /\ Goto(p, IF client[p] = NoConn THEN "remove" ELSE "call")

Got(p) ==
  /\ pc[p] = "got"
  /\ GotForGo(p) \/ GotForOnce(p) \/ GotForRetry(p)
  /\ err' = IF op[p] = "Call" /\ failMode = "FailBackup"
            THEN [err EXCEPT ![p] = "unsupported"] ELSE err
  /\ UNCHANGED <<xclient, flight, conns, op, key, client, lead, attempts>>

(* wrapCall, and what Call does with its error.                            *)
Attempt(p) ==
  /\ pc[p] = "call"
  /\ \E o \in OutcomesOn(client[p]) :
       /\ attempts' = [attempts EXCEPT ![p] =
                         Append(@, [conn |-> client[p], outcome |-> o])]
       /\ err' = [err EXCEPT ![p] = o]
       /\ Goto(p, IF o # "nil" /\ Uncover(o) THEN "remove" ELSE "done")
  /\ UNCHANGED <<xclient, flight, conns, op, key, client, left, lead>>

(* removeClient: out of the cache, unless another has taken its place.     *)
Remove(p) ==
  /\ pc[p] = "remove"
  /\ cache' = IF cache[key[p]] = client[p]
              THEN [cache EXCEPT ![key[p]] = NoConn] ELSE cache
  /\ Goto(p, "close")
  /\ UNCHANGED <<failMode, servers, isShutdown, flight, conns, op, key,
                 client, err, left, lead, attempts>>

(* removeClient closes the client, outside of the mutex; FailTry goes on   *)
(* with the same address, FailOver selects again.                          *)
AfterRemove == CASE failMode = "FailTry"  -> "check"
                 [] failMode = "FailOver" -> "select"
                 [] OTHER                 -> "done"

CloseClient(p) ==
  /\ pc[p] = "close"
  /\ connState' = IF Open(client[p])
                  THEN [connState EXCEPT ![client[p]] = "closed"]
                  ELSE connState
  /\ Goto(p, AfterRemove)
  /\ UNCHANGED <<xclient, flight, connOf, op, key, client, err, left, lead,
                 attempts>>

(***************************************************************************)
(* The others.                                                             *)
(***************************************************************************)
(* xClient.Close                                                           *)
Close ==
  /\ isShutdown' = TRUE
  /\ connState' = [c \in Conns |->
                     IF Open(c) /\ \E k \in Addresses : cache[k] = c
                     THEN "closed" ELSE connState[c]]
  /\ cache' = [k \in Addresses |-> NoConn]
  /\ UNCHANGED <<failMode, servers, flight, connOf, pc, op, key, client, err,
                 left, lead, attempts>>

(* watch: discovery reports a new list.                                    *)
Watch ==
  /\ \E l \in Lists : servers' = l
  /\ UNCHANGED <<failMode, cache, isShutdown, flight, conns, pc, op, key,
                 client, err, left, lead, attempts>>

(* Client.input stops: the connection is lost.                             *)
Lose(c) ==
  /\ Open(c)
  /\ connState' = [connState EXCEPT ![c] = "lost"]
  /\ UNCHANGED <<xclient, flight, connOf, pc, op, key, client, err, left,
                 lead, attempts>>

Step(p) ==
  \/ Select(p) \/ Check(p) \/ Lookup(p) \/ Join(p) \/ Generate(p)
  \/ Store(p) \/ Forget(p) \/ Got(p) \/ Attempt(p) \/ Remove(p)
  \/ CloseClient(p)

Next ==
  \/ \E p \in Procs : Begin(p) \/ Step(p)
  \/ Close \/ Watch
  \/ \E c \in Conns : Lose(c)

Spec == Init /\ [][Next]_vars

(* p waits for an answer on a connection that is open: a server that does  *)
(* not answer keeps a call without a deadline there for ever.              *)
Unanswered(p) == pc[p] = "call" /\ Open(client[p])

(* A goroutine that can run runs.  Connect has a timeout, and a call on a  *)
(* connection that is gone ends (CallEnds of Client); nothing is said of a *)
(* call the server may still answer.                                       *)
Fairness == \A p \in Procs : WF_vars(Step(p) /\ ~Unanswered(p))

FairSpec == Spec /\ Fairness

-----------------------------------------------------------------------------
(***************************************************************************)
(* Properties.                                                             *)
(***************************************************************************)
(* The values of the state; the retry loops never go below their count     *)
(* (xclient.go:127, 150).                                                  *)
TypeOK ==
  /\ failMode \in FailModes
  /\ servers \subseteq Keys
  /\ cache \in [Addresses -> MaybeConn]
  /\ isShutdown \in BOOLEAN
  /\ flight \in [Addresses -> Procs \cup {NoProc}]
  /\ connOf \in [Conns -> Addresses]
  /\ connState \in [Conns -> {"unused", "open", "lost", "closed"}]
  /\ pc \in [Procs -> Steps]
  /\ op \in [Procs -> {"Call", "Go"}]
  /\ key \in [Procs -> Addresses]
  /\ client \in [Procs -> MaybeConn]
  /\ err \in [Procs -> Errors]
  /\ left \in [Procs -> 0 .. (Retries + 1)]
  /\ lead \in [Procs -> Procs \cup {NoProc}]
  /\ \A p \in Procs : attempts[p] \in Seq([conn : Conns, outcome : Outcomes])

(* Nobody waits for a client that nobody generates (xclient.go:292).       *)
NoStrandedWaiter ==
  \A p \in Procs : pc[p] = "wait" =>
    /\ lead[p] \in Procs
    /\ pc[lead[p]] = "generate"
    /\ key[lead[p]] = key[p]

(* A connection is cached under, and used for, the server it leads to,     *)
(* although generated clients are shared between goroutines and the server *)
(* list changes meanwhile (xclient.go:305, 131).                           *)
RightServer ==
  /\ \A k \in Addresses : cache[k] # NoConn => connOf[cache[k]] = k
  /\ \A p \in Procs : pc[p] \in {"call", "remove"} /\ client[p] # NoConn
                        => connOf[client[p]] = key[p]

(* Connections on which a call has ended with an error of the connection.  *)
FailedConns ==
  {c \in Conns : \E p \in Procs : \E i \in DOMAIN attempts[p] :
                   attempts[p][i] = [conn |-> c, outcome |-> "broken"]}

(* A connection other goroutines may be using is closed only by Close or   *)
(* after a call on that very connection has failed, not because a context  *)
(* has ended or the method has failed (xclient.go:136, 345).               *)
ClosedForReason ==
  \A c \in Conns : connState[c] = "closed" => isShutdown \/ c \in FailedConns

(* A connection that works leaves the cache only for a reason of the same  *)
(* kind: a late removeClient does not remove the replacement (338).        *)
EvictedForReason ==
  [][\A k \in Addresses :
       Open(cache[k]) /\ cache'[k] = NoConn
         => isShutdown' \/ cache[k] \in FailedConns']_vars

(* A call that a server has answered, or whose context has ended, is not   *)
(* made again (xclient.go:135), and there are at most Retries + 1 of them. *)
NoRetryAfterAnswer(p) ==
  /\ \A i \in DOMAIN attempts[p] :
       i < Len(attempts[p]) => attempts[p][i].outcome = "broken"
  /\ Len(attempts[p]) <= Retries + 1

(* The last thing a connection said to p.                                  *)
LastOutcome(p) ==
  IF attempts[p] = <<>> THEN "none" ELSE attempts[p][Len(attempts[p])].outcome

(* The answer of the last attempt, or the end of its context, is the       *)
(* result, and there is no other ServiceError or context's error (137); in *)
(* mode FailFast there is no other nil either (173).                       *)
ResultOfLast(p) ==
  /\ err[p] \in {"service", "ctx"} => LastOutcome(p) = err[p]
  /\ LastOutcome(p) \in {"nil", "service", "ctx"} => err[p] = LastOutcome(p)
  /\ failMode = "FailFast" /\ err[p] = "nil" => LastOutcome(p) = "nil"

(* An answer ends the retries, and is the result (xclient.go:135).         *)
AnswerIsResult ==
  \A p \in Procs :
    /\ NoRetryAfterAnswer(p)
    /\ pc[p] = "done" /\ op[p] = "Call" => ResultOfLast(p)

(* A call returns unless one of its attempts waits for an answer for ever: *)
(* the retry loops end, also when connections fail as fast as they are     *)
(* made, and nobody waits for ever for a client that another goroutine     *)
(* generates, not even one whose own call is never answered                *)
(* (xclient.go:127, 150, 292).                                             *)
CallReturns ==
  \A p \in Procs :
    []<>~Unanswered(p) => (pc[p] # "idle" ~> pc[p] = "done")

(***************************************************************************)
(* What a test says and the code does not do.                              *)
(***************************************************************************)
(* client_test.go:67: a call that returns nil, here in mode FailTry, has   *)
(* filled the reply, that is, has been answered.                           *)
NilMeansServed ==
  \A p \in Procs : pc[p] = "done" /\ op[p] = "Call" /\ err[p] = "nil"
                     => LastOutcome(p) = "nil"
=============================================================================
