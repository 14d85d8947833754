--------------------------- MODULE XClientProofs ----------------------------
(* Theorems about XClient, for any servers, goroutines, operations, lists, *)
(* fail modes, number of retries and bound on the connections.             *)
EXTENDS XClient, WellFoundedInduction, TLAPS

(***************************************************************************)
(* The inductive invariant.                                                *)
(***************************************************************************)
Attempts == [conn : Conns, outcome : Outcomes]

StateOK == TypeOK /\ attempts \in [Procs -> Seq(Attempts)]

(* A flight is that of a goroutine at work for the same address, and so is *)
(* the generate that somebody waits for.                                   *)
FlightInv ==
  /\ \A k \in Addresses : flight[k] # NoProc =>
       flight[k] \in Procs /\ pc[flight[k]] = "generate" /\ key[flight[k]] = k
  /\ NoStrandedWaiter

(* A connection that leads to an address and has been made.                *)
LeadsTo(c, k) == connOf[c] = k /\ connState[c] # "unused"

Holding == {"store", "forget", "got", "call", "remove", "close"}

ConnInv ==
  /\ \A k \in Addresses : cache[k] # NoConn => LeadsTo(cache[k], k)
  /\ \A p \in Procs :
       pc[p] \in Holding /\ client[p] # NoConn => LeadsTo(client[p], key[p])

(* A goroutine has a client or an error, calls only a client, and removes  *)
(* only one that has failed.                                               *)
ClientInv ==
  \A p \in Procs :
    /\ pc[p] \in {"store", "forget", "got"} =>
         (err[p] = "nil" <=> client[p] # NoConn)
    /\ pc[p] \in {"forget", "call"} => client[p] # NoConn
    /\ pc[p] \in {"remove", "close"} =>
         err[p] # "nil" /\ (client[p] = NoConn \/ client[p] \in FailedConns)

(* The iterations of the retry loops pay for the attempts.                 *)
CountInv ==
  \A p \in Procs :
    /\ Retrying => Len(attempts[p]) + left[p]
                     + (IF pc[p] = "call" THEN 1 ELSE 0) <= Retries + 1
    /\ ~Retrying =>
         /\ Len(attempts[p]) <= 1
         /\ pc[p] \notin {"remove", "close", "done"} => attempts[p] = <<>>

(* As long as a call goes on its attempts have all failed.                 *)
AnswerInv ==
  \A p \in Procs :
    /\ \A i \in DOMAIN attempts[p] :
         i < Len(attempts[p]) \/ pc[p] # "done"
           => attempts[p][i].outcome = "broken"
    /\ err[p] \in {"service", "ctx"} => pc[p] = "done"
    /\ pc[p] = "done" /\ op[p] = "Call" => ResultOfLast(p)

IInv == /\ StateOK /\ FlightInv /\ ConnInv /\ ClientInv /\ CountInv
        /\ AnswerInv /\ ClosedForReason
-----------------------------------------------------------------------------
(* The least unused connection is one.                                     *)
Below == {ss \in Nat \X Nat : ss[1] < ss[2]}

LEMMA FreshIsUnused == Unused # {} => Fresh \in Unused
<1>0. IsWellFoundedOn(Below, Nat)
  BY NatLessThanWellFounded DEF Below, OpToRel
<1> SUFFICES ASSUME Unused # {} PROVE Fresh \in Unused
  OBVIOUS
<1>1. MaxConns \in Nat /\ Unused \subseteq Nat
  BY ModeAssumption DEF Unused, Conns
<1>2. \E c \in Unused : \A d \in Unused : <<d, c>> \notin Below
  BY <1>0, <1>1, WFMin
<1>3. ASSUME NEW c \in Nat, NEW d \in Nat, <<d, c>> \notin Below
      PROVE  c <= d
  <2>1. <<d, c>> \in Nat \X Nat
    OBVIOUS
  <2>2. ~(d < c)
    BY <1>3, <2>1, Zenon DEF Below
  <2> QED BY <2>2
<1>4. \E c \in Unused : \A d \in Unused : c <= d
  BY <1>1, <1>2, <1>3
<1> QED BY <1>4 DEF Fresh

LEMMA Constants ==
  /\ NoProc \notin Procs /\ NoKey \notin Keys
  /\ MaxConns \in Nat /\ Retries \in Nat
  /\ NoConn \notin Conns /\ Conns \subseteq Nat /\ Keys \subseteq Addresses
  /\ NoKey \in Addresses /\ Conns \subseteq MaybeConn /\ NoConn \in MaybeConn
BY KeysAssumption, ProcsAssumption, ModeAssumption
DEF NoConn, Conns, MaybeConn, Addresses

(* A step of one goroutine, and what no other goroutine's step changes.    *)
ProcStep(p) == Begin(p) \/ Step(p)
LEMMA OthersKeep ==
  ASSUME StateOK, NEW p \in Procs, ProcStep(p), NEW q \in Procs, q # p
  PROVE  /\ UNCHANGED <<op[q], key[q], left[q], attempts[q]>>
         /\ \/ UNCHANGED <<pc[q], client[q], err[q], lead[q]>>
            \/ Generate(p) /\ q \in Landed(p)
<1> USE DEF StateOK, TypeOK
<1>1. CASE Begin(p)
  BY <1>1 DEF Begin, Goto, Return
<1>2. CASE Select(p)
  BY <1>2 DEF Select, Goto
<1>3. CASE Check(p)
  BY <1>3 DEF Check, Goto
<1>4. CASE Lookup(p)
  BY <1>4 DEF Lookup, Goto
<1>5. CASE Join(p)
  BY <1>5 DEF Join, Goto
<1>6. CASE Generate(p)
  BY <1>6 DEF Generate, Land
<1>7. CASE Store(p)
  BY <1>7 DEF Store, Goto
<1>8. CASE Forget(p)
  BY <1>8 DEF Forget, Goto
<1>9. CASE Got(p)
  BY <1>9 DEF Got, GotForGo, GotForOnce, GotForRetry, Goto
<1>10. CASE Attempt(p)
  BY <1>10 DEF Attempt, Goto
<1>11. CASE Remove(p)
  BY <1>11 DEF Remove, Goto
<1>12. CASE CloseClient(p)
  BY <1>12 DEF CloseClient, Goto
<1> QED
  BY <1>1, <1>2, <1>3, <1>4, <1>5, <1>6, <1>7, <1>8, <1>9, <1>10, <1>11,
     <1>12
  DEF ProcStep, Step
(***************************************************************************)
(* The types.                                                              *)
(***************************************************************************)
LEMMA CacheType ==
  ASSUME StateOK, [Next]_vars
  PROVE  /\ failMode' = failMode
         /\ servers' \subseteq Keys
         /\ cache' \in [Addresses -> MaybeConn]
         /\ isShutdown' \in BOOLEAN
         /\ flight' \in [Addresses -> Procs \cup {NoProc}]
         /\ connOf' \in [Conns -> Addresses]
         /\ connState' \in [Conns -> {"unused", "open", "lost", "closed"}]
<1> USE DEF StateOK, TypeOK
<1>1. ASSUME NEW p \in Procs, Generate(p)
      PROVE  /\ connOf' \in [Conns -> Addresses]
             /\ connState' \in [Conns -> {"unused", "open", "lost", "closed"}]
             /\ flight' \in [Addresses -> Procs \cup {NoProc}]
  <2>1. flight' \in [Addresses -> Procs \cup {NoProc}]
    BY <1>1 DEF Generate, Land
  <2>2. CASE UNCHANGED conns
    BY <2>1, <2>2 DEF conns
  <2>3. CASE Unused # {} /\ connOf' = [connOf EXCEPT ![Fresh] = key[p]]
             /\ connState' = [connState EXCEPT ![Fresh] = "open"]
    <3>1. Fresh \in Conns /\ key[p] \in Addresses
      BY <2>3, FreshIsUnused DEF Unused
    <3> QED BY <2>1, <2>3, <3>1
  <2> QED BY <1>1, <2>2, <2>3 DEF Generate
<1>2. ASSUME NEW p \in Procs, ProcStep(p)
      PROVE  /\ failMode' = failMode /\ servers' = servers
             /\ isShutdown' = isShutdown
             /\ cache' \in [Addresses -> MaybeConn]
  <2>1. CASE Lookup(p) \/ Remove(p)
    <3>1. \/ cache' = cache
          \/ cache' = [cache EXCEPT ![key[p]] = NoConn]
      BY <2>1 DEF Lookup, Remove
    <3>2. cache' \in [Addresses -> MaybeConn]
      BY <3>1, Constants
    <3>3. UNCHANGED <<failMode, servers, isShutdown>>
      BY <2>1 DEF Lookup, Remove
    <3> QED BY <3>2, <3>3
  <2>2. CASE Store(p)
    BY <2>2 DEF Store
  <2>3. CASE UNCHANGED xclient
    BY <2>3 DEF xclient
  <2> QED
    BY <1>2, <2>1, <2>2, <2>3
    DEF ProcStep, Step, Begin, Select, Check, Join, Generate, Forget, Got,
        Attempt, CloseClient
<1>3. ASSUME NEW p \in Procs, ProcStep(p), ~Generate(p)
      PROVE  /\ connOf' = connOf
             /\ connState' \in [Conns -> {"unused", "open", "lost", "closed"}]
             /\ flight' \in [Addresses -> Procs \cup {NoProc}]
  <2>1. CASE Join(p) \/ Store(p) \/ Forget(p)
    BY <2>1 DEF Join, Store, Forget, conns
  <2>2. CASE CloseClient(p)
    BY <2>2 DEF CloseClient
  <2>3. CASE UNCHANGED <<flight, conns>>
    BY <2>3 DEF conns
  <2> QED
    BY <1>3, <2>1, <2>2, <2>3
    DEF ProcStep, Step, Begin, Select, Check, Lookup, Got, Attempt, Remove
<1>4. CASE Close
  BY <1>4, Constants DEF Close
<1>5. CASE Watch
  BY <1>5, ListsAssumption DEF Watch, conns
<1>6. ASSUME NEW c \in Conns, Lose(c)
      PROVE  /\ UNCHANGED <<xclient, flight, connOf>>
             /\ connState' \in [Conns -> {"unused", "open", "lost", "closed"}]
  BY <1>6 DEF Lose
<1>7. CASE UNCHANGED vars
  BY <1>7 DEF vars
<1> QED
  BY <1>1, <1>2, <1>3, <1>4, <1>5, <1>6, <1>7 DEF Next, ProcStep, xclient

LEMMA StepType ==
  ASSUME StateOK, NEW p \in Procs, ProcStep(p)
  PROVE  pc' \in [Procs -> Steps]
<1>0. pc \in [Procs -> Steps]
  BY DEF StateOK, TypeOK
<1>1. ASSUME NEW step \in Steps, Goto(p, step)
      PROVE  pc' \in [Procs -> Steps]
  BY <1>0, <1>1 DEF Goto
<1>2. \/ \E step \in {"select", "check", "lookup", "join", "wait", "generate",
                      "forget", "got", "call", "remove", "close", "done"} :
           Goto(p, step)
      \/ Generate(p)
  <2>1. CASE \/ Begin(p) \/ Select(p) \/ Check(p) \/ Lookup(p) \/ Join(p)
             \/ Generate(p)
    BY <2>1 DEF Begin, Return, Select, Check, Lookup, Join
  <2>2. CASE \/ Store(p) \/ Forget(p) \/ Got(p) \/ Remove(p)
    BY <2>2 DEF Store, Forget, Got, GotForGo, GotForOnce, GotForRetry, Remove
  <2>3. CASE Attempt(p) \/ CloseClient(p)
    BY <2>3 DEF Attempt, CloseClient, AfterRemove
  <2> QED BY <2>1, <2>2, <2>3 DEF ProcStep, Step
<1>3. CASE Generate(p)
  BY <1>0, <1>3 DEF Generate, Land, Steps
<1> QED BY <1>1, <1>2, <1>3 DEF Steps

(* What a step makes of the locals of its goroutine.                       *)
LEMMA LocalType ==
  ASSUME StateOK, ClientInv, CountInv, NEW p \in Procs, ProcStep(p)
  PROVE  /\ op' \in [Procs -> {"Call", "Go"}]
         /\ key' \in [Procs -> Addresses]
         /\ client' \in [Procs -> MaybeConn]
         /\ err' \in [Procs -> Errors]
         /\ left' \in [Procs -> 0 .. (Retries + 1)]
         /\ lead' \in [Procs -> Procs \cup {NoProc}]
         /\ attempts' \in [Procs -> Seq(Attempts)]
<1> DEFINE Goal == /\ op' \in [Procs -> {"Call", "Go"}]
                   /\ key' \in [Procs -> Addresses]
                   /\ client' \in [Procs -> MaybeConn]
                   /\ err' \in [Procs -> Errors]
                   /\ left' \in [Procs -> 0 .. (Retries + 1)]
                   /\ lead' \in [Procs -> Procs \cup {NoProc}]
                   /\ attempts' \in [Procs -> Seq(Attempts)]
<1> USE Constants DEF StateOK, TypeOK, Errors, Outcomes
<1>1. CASE Begin(p)
  <2>1. op' \in [Procs -> {"Call", "Go"}]
    BY <1>1, OpsAssumption DEF Begin
  <2>2. err' \in [Procs -> Errors]
    BY <1>1 DEF Begin, Return
  <2> QED BY <1>1, <2>1, <2>2 DEF Begin
<1>2. CASE Select(p)
  <2>1. SelectFrom(servers) \subseteq Addresses
    BY DEF SelectFrom
  <2>2. key' \in [Procs -> Addresses]
    BY <1>2, <2>1 DEF Select
  <2>3. \/ UNCHANGED <<client, err>>
        \/ /\ client' = [client EXCEPT ![p] = NoConn]
           /\ err' = [err EXCEPT ![p] = "noserver"]
    BY <1>2 DEF Select
  <2>4. CASE UNCHANGED <<client, err>>
    BY <1>2, <2>2, <2>4 DEF Select
  <2>5. CASE /\ client' = [client EXCEPT ![p] = NoConn]
             /\ err' = [err EXCEPT ![p] = "noserver"]
    BY <1>2, <2>2, <2>5 DEF Select
  <2> QED BY <2>3, <2>4, <2>5
<1>3. CASE Check(p)
  <2>1. \/ UNCHANGED <<client, err>>
        \/ /\ client' = [client EXCEPT ![p] = NoConn]
           /\ err' = [err EXCEPT ![p] = "shutdown"]
    BY <1>3 DEF Check
  <2>2. CASE UNCHANGED <<client, err>>
    BY <1>3, <2>2 DEF Check
  <2>3. CASE /\ client' = [client EXCEPT ![p] = NoConn]
             /\ err' = [err EXCEPT ![p] = "shutdown"]
    BY <1>3, <2>3 DEF Check
  <2> QED BY <2>1, <2>2, <2>3
<1>4. CASE Lookup(p)
  <2>1. cache[key[p]] \in MaybeConn
    OBVIOUS
  <2> QED BY <1>4, <2>1 DEF Lookup
<1>5. CASE Join(p)
  <2>1. flight[key[p]] \in Procs \cup {NoProc}
    OBVIOUS
  <2> QED BY <1>5, <2>1 DEF Join
<1>6. CASE Generate(p)
  <2>1. ASSUME NEW c \in MaybeConn, NEW e \in Errors, Land(p, c, e)
        PROVE  Goal
    <3>2. client' \in [Procs -> MaybeConn] /\ err' \in [Procs -> Errors]
      BY <2>1 DEF Land
    <3>3. lead' \in [Procs -> Procs \cup {NoProc}]
      BY <2>1 DEF Land
    <3> QED BY <1>6, <3>2, <3>3 DEF Generate
  <2> QED BY <1>6, <2>1, FreshIsUnused DEF Generate, Unused
<1>7. CASE Store(p)
  BY <1>7 DEF Store
<1>8. CASE Forget(p)
  BY <1>8 DEF Forget
<1>9. CASE Got(p)
  <2>2. left[p] \in 0 .. (Retries + 1)
    OBVIOUS
  <2>3. left[p] # 0 => left[p] - 1 \in 0 .. (Retries + 1)
    BY <2>2
  <2>4. \/ left' = left
        \/ left[p] # 0 /\ left' = [left EXCEPT ![p] = left[p] - 1]
    BY <1>9 DEF Got, GotForGo, GotForOnce, GotForRetry
  <2>5. left' \in [Procs -> 0 .. (Retries + 1)]
    BY <2>3, <2>4
  <2> QED BY <1>9, <2>5 DEF Got
<1>10. CASE Attempt(p)
  <2>1. PICK o \in Outcomes :
          attempts' = [attempts EXCEPT ![p] =
                         Append(@, [conn |-> client[p], outcome |-> o])]
    BY <1>10 DEF Attempt, OutcomesOn
  <2>2. client[p] \in Conns
    BY <1>10 DEF Attempt, ClientInv, MaybeConn
  <2>3. [conn |-> client[p], outcome |-> o] \in Attempts
    BY <2>2 DEF Attempts
  <2>4. Append(attempts[p], [conn |-> client[p], outcome |-> o])
          \in Seq(Attempts)
    BY <2>3
  <2>5. attempts' \in [Procs -> Seq(Attempts)]
    BY <2>1, <2>4
  <2> QED BY <1>10, <2>5 DEF Attempt, OutcomesOn
<1>11. CASE Remove(p)
  BY <1>11 DEF Remove
<1>12. CASE CloseClient(p)
  BY <1>12 DEF CloseClient, AfterRemove
<1> QED
  BY <1>1, <1>2, <1>3, <1>4, <1>5, <1>6, <1>7, <1>8, <1>9, <1>10, <1>11,
     <1>12
  DEF ProcStep, Step
LEMMA TypeNext ==
  ASSUME StateOK, ClientInv, CountInv, [Next]_vars
  PROVE  StateOK'
<1>1. CASE \E p \in Procs : ProcStep(p)
  <2>1. PICK p \in Procs : ProcStep(p)
    BY <1>1
  <2>2. attempts' \in [Procs -> Seq([conn : Conns, outcome : Outcomes])]
    BY <2>1, LocalType DEF Attempts
  <2> QED BY <2>1, <2>2, CacheType, StepType, LocalType DEF StateOK, TypeOK
<1>2. CASE Close \/ Watch \/ (\E c \in Conns : Lose(c)) \/ UNCHANGED vars
  <2>1. UNCHANGED <<pc, op, key, client, err, left, lead, attempts>>
    BY <1>2 DEF Close, Watch, Lose, vars
  <2> QED BY <2>1, CacheType DEF StateOK, TypeOK
<1> QED BY <1>1, <1>2 DEF Next, ProcStep

(***************************************************************************)
(* The flights.                                                            *)
(***************************************************************************)
(* A step that is not one of generate changes no goroutine in generate.    *)
LEMMA FlightNext ==
  ASSUME StateOK, FlightInv, [Next]_vars
  PROVE  FlightInv'
<1> USE Constants DEF StateOK, TypeOK
<1>1. ASSUME NEW p \in Procs, Join(p)
      PROVE  FlightInv'
  <2>1. CASE /\ flight[key[p]] = NoProc
             /\ flight' = [flight EXCEPT ![key[p]] = p]
             /\ pc' = [pc EXCEPT ![p] = "generate"]
             /\ lead' = lead /\ key' = key
    BY <1>1, <2>1 DEF Join, FlightInv, NoStrandedWaiter
  <2>2. CASE /\ flight[key[p]] # NoProc
             /\ lead' = [lead EXCEPT ![p] = flight[key[p]]]
             /\ pc' = [pc EXCEPT ![p] = "wait"]
             /\ flight' = flight /\ key' = key
    <3>1. flight[key[p]] \in Procs /\ pc[flight[key[p]]] = "generate"
          /\ key[flight[key[p]]] = key[p] /\ pc[p] = "join"
      BY <1>1, <2>2 DEF Join, FlightInv
    <3>2. \A q \in Procs : pc[q] = "generate" => pc'[q] = "generate"
      BY <2>2, <3>1
    <3>3. \A q \in Procs : pc'[q] = "wait" => q = p \/ pc[q] = "wait"
      BY <2>2
    <3> QED BY <2>2, <3>1, <3>2, <3>3 DEF FlightInv, NoStrandedWaiter
  <2> QED BY <1>1, <2>1, <2>2 DEF Join, Goto
<1>2. ASSUME NEW p \in Procs, Generate(p)
      PROVE  FlightInv'
  <2>1. /\ pc' = [q \in Procs |-> IF q \in Landed(p) THEN "store" ELSE pc[q]]
        /\ lead' = [q \in Procs |->
                      IF q \in Landed(p) THEN NoProc ELSE lead[q]]
        /\ flight' = [k \in Addresses |->
                        IF k = key[p] /\ flight[k] = p THEN NoProc
                        ELSE flight[k]]
        /\ key' = key /\ pc[p] = "generate"
    BY <1>2 DEF Generate, Land
  <2>2. ASSUME NEW q \in Procs, pc'[q] = "wait"
        PROVE  /\ lead'[q] \in Procs /\ pc'[lead'[q]] = "generate"
               /\ key'[lead'[q]] = key'[q]
    <3>1. q \notin Landed(p) /\ pc[q] = "wait" /\ lead'[q] = lead[q]
      BY <2>1, <2>2
    <3>2. lead[q] \in Procs /\ lead[q] # p /\ pc[lead[q]] = "generate"
          /\ key[lead[q]] = key[q]
      BY <3>1 DEF Landed, FlightInv, NoStrandedWaiter
    <3> QED BY <2>1, <3>1, <3>2 DEF Landed
  <2>3. ASSUME NEW k \in Addresses, flight'[k] # NoProc
        PROVE  /\ flight'[k] \in Procs /\ pc'[flight'[k]] = "generate"
               /\ key'[flight'[k]] = k
    <3>1. flight'[k] = flight[k] /\ flight[k] \in Procs
          /\ pc[flight[k]] = "generate" /\ key[flight[k]] = k
      BY <2>1, <2>3 DEF FlightInv
    <3>2. flight[k] # p
      BY <2>1, <2>3, <3>1
    <3> QED BY <2>1, <3>1, <3>2 DEF Landed
  <2> QED BY <2>2, <2>3 DEF FlightInv, NoStrandedWaiter
<1>3. ASSUME NEW p \in Procs, UNCHANGED lead,
             \A k \in Addresses : flight'[k] \in {flight[k], NoProc},
             pc[p] \notin {"generate", "wait"}, pc'[p] # "wait",
             \A q \in Procs \ {p} : UNCHANGED <<pc[q], key[q]>>
      PROVE  FlightInv'
  <2>1. \A q \in Procs : pc[q] = "generate" =>
          q # p /\ pc'[q] = "generate" /\ key'[q] = key[q]
    BY <1>3
  <2>2. \A q \in Procs : pc'[q] = "wait" =>
          q # p /\ pc[q] = "wait" /\ key'[q] = key[q]
    BY <1>3
  <2>4. \A k \in Addresses : flight'[k] # NoProc =>
          /\ flight'[k] \in Procs /\ pc'[flight'[k]] = "generate"
          /\ key'[flight'[k]] = k
    BY <1>3, <2>1 DEF FlightInv
  <2>5. \A q \in Procs : pc'[q] = "wait" =>
          /\ lead'[q] \in Procs /\ pc'[lead'[q]] = "generate"
          /\ key'[lead'[q]] = key'[q]
    BY <1>3, <2>1, <2>2 DEF FlightInv, NoStrandedWaiter
  <2> QED BY <2>4, <2>5 DEF FlightInv, NoStrandedWaiter
<1>4. ASSUME NEW p \in Procs,
             \/ Begin(p) \/ Select(p) \/ Check(p) \/ Lookup(p) \/ Store(p)
             \/ Forget(p) \/ Got(p) \/ Attempt(p) \/ Remove(p)
             \/ CloseClient(p)
      PROVE  FlightInv'
  <2>0. pc[p] # "generate"
    BY <1>4 DEF Begin, Select, Check, Lookup, Store, Forget, Got, Attempt,
                Remove, CloseClient
  <2>1. \A q \in Procs \ {p} : UNCHANGED <<pc[q], key[q]>>
    <3>1. ProcStep(p) /\ ~Generate(p)
      BY <1>4, <2>0 DEF ProcStep, Step, Generate
    <3> HIDE DEF StateOK, TypeOK
    <3> QED BY <3>1, OthersKeep
  <2>2. UNCHANGED lead /\ pc[p] \notin {"generate", "wait"}
        /\ \/ UNCHANGED flight
           \/ flight' = [flight EXCEPT ![key[p]] = NoProc]
    BY <1>4 DEF Begin, Select, Check, Lookup, Store, Forget, Got, Attempt,
                Remove, CloseClient
  <2>3. pc'[p] # "wait"
    <3>1. CASE Begin(p) \/ Select(p) \/ Check(p) \/ Lookup(p)
      BY <3>1 DEF Begin, Return, Select, Check, Lookup, Goto
    <3>2. CASE Store(p) \/ Forget(p) \/ Attempt(p) \/ Remove(p)
      BY <3>2 DEF Store, Forget, Attempt, Remove, Goto
    <3>3. CASE Got(p)
      BY <3>3 DEF Got, GotForGo, GotForOnce, GotForRetry, Goto
    <3>4. CASE CloseClient(p)
      BY <3>4 DEF CloseClient, AfterRemove, Goto
    <3> QED BY <1>4, <3>1, <3>2, <3>3, <3>4
  <2> QED BY <1>3, <2>1, <2>2, <2>3
<1>5. CASE Close \/ Watch \/ (\E c \in Conns : Lose(c)) \/ UNCHANGED vars
  BY <1>5 DEF Close, Watch, Lose, vars, FlightInv, NoStrandedWaiter
<1> QED BY <1>1, <1>2, <1>4, <1>5 DEF Next, Step
(***************************************************************************)
(* The connections.                                                        *)
(***************************************************************************)
(* A connection once made leads to where it leads.                         *)
LEMMA LeadsStay ==
  ASSUME StateOK, [Next]_vars, NEW c \in Conns, NEW k \in Addresses,
         LeadsTo(c, k)
  PROVE  LeadsTo(c, k)'
<1> USE DEF LeadsTo, StateOK, TypeOK
<1>1. ASSUME NEW p \in Procs, Generate(p)
      PROVE  LeadsTo(c, k)'
  <2>1. CASE /\ Unused # {}
             /\ connOf' = [connOf EXCEPT ![Fresh] = key[p]]
             /\ connState' = [connState EXCEPT ![Fresh] = "open"]
    <3>1. c # Fresh
      BY <2>1, FreshIsUnused DEF Unused
    <3> QED BY <2>1, <3>1
  <2>2. CASE UNCHANGED conns
    BY <2>2 DEF conns
  <2> QED BY <1>1, <2>1, <2>2 DEF Generate
<1>2. ASSUME NEW p \in Procs, CloseClient(p)
      PROVE  LeadsTo(c, k)'
  BY <1>2 DEF CloseClient
<1>3. CASE Close
  BY <1>3 DEF Close
<1>4. ASSUME NEW d \in Conns, Lose(d)
      PROVE  LeadsTo(c, k)'
  BY <1>4 DEF Lose
<1>5. CASE UNCHANGED conns
  BY <1>5 DEF conns
<1> QED
  BY <1>1, <1>2, <1>3, <1>4, <1>5
  DEF Next, vars, conns, Watch, Step, Begin, Select, Check, Lookup, Join,
      Store, Forget, Got, Attempt, Remove

(* What is cached anew is a client that has just been generated.           *)
LEMMA CacheChange ==
  ASSUME StateOK, [Next]_vars, NEW k \in Addresses
  PROVE  \/ cache'[k] \in {cache[k], NoConn}
         \/ \E p \in Procs : /\ pc[p] = "store" /\ k = key[p]
                            /\ cache'[k] = client[p]
<1> USE DEF StateOK, TypeOK
<1>1. ASSUME NEW p \in Procs, Lookup(p) \/ Remove(p)
      PROVE  cache'[k] \in {cache[k], NoConn}
  BY <1>1 DEF Lookup, Remove
<1>2. ASSUME NEW p \in Procs, Store(p)
      PROVE  \/ cache'[k] = cache[k]
             \/ /\ pc[p] = "store" /\ k = key[p]
                /\ cache'[k] = client[p]
  BY <1>2 DEF Store
<1>3. CASE Close
  BY <1>3 DEF Close
<1>4. CASE cache' = cache
  BY <1>4
<1> QED
  BY <1>1, <1>2, <1>3, <1>4
  DEF Next, vars, xclient, Watch, Lose, Step, Begin, Select, Check, Join,
      Generate, Forget, Got, Attempt, CloseClient

(* Those who wait get a client of the address they asked for.              *)
LEMMA LandedHold ==
  ASSUME StateOK, FlightInv, NEW p \in Procs, Generate(p),
         NEW q \in Landed(p), client'[q] # NoConn
  PROVE  LeadsTo(client[q], key[q])'
<1> USE DEF StateOK, TypeOK
<1>1. q \in Procs /\ key[q] = key[p] /\ key' = key
  BY DEF Landed, FlightInv, NoStrandedWaiter, Generate
<1>2. /\ Unused # {} /\ client'[q] = Fresh
      /\ connOf' = [connOf EXCEPT ![Fresh] = key[p]]
      /\ connState' = [connState EXCEPT ![Fresh] = "open"]
  BY <1>1 DEF Generate, Land
<1>3. Fresh \in Conns
  BY <1>2, FreshIsUnused DEF Unused
<1> QED BY <1>1, <1>2, <1>3 DEF LeadsTo

(* A goroutine's own step: it keeps what it holds, or takes what is cached.*)
LEMMA OwnHold ==
  ASSUME StateOK, NEW p \in Procs, ProcStep(p), ~Generate(p),
         pc'[p] \in Holding, client'[p] # NoConn
  PROVE  /\ key'[p] = key[p]
         /\ \/ pc[p] \in Holding /\ client'[p] = client[p]
            \/ client'[p] = cache[key[p]] /\ client'[p] \in Conns
<1> USE DEF StateOK, TypeOK, Holding, Goto
<1>1. CASE Begin(p) \/ Join(p) \/ CloseClient(p)
  BY <1>1 DEF Begin, Return, Join, CloseClient, AfterRemove
<1>2. CASE Select(p) \/ Check(p)
  BY <1>2 DEF Select, Check
<1>3. CASE Lookup(p)
  BY <1>3 DEF Lookup, Open
<1>4. CASE \/ Store(p) \/ Forget(p) \/ Got(p) \/ Attempt(p) \/ Remove(p)
  BY <1>4 DEF Store, Forget, Got, Attempt, Remove
<1> QED BY <1>1, <1>2, <1>3, <1>4 DEF ProcStep, Step

LEMMA ConnNext ==
  ASSUME StateOK, StateOK', FlightInv, ConnInv, [Next]_vars
  PROVE  ConnInv'
<1> USE DEF StateOK, TypeOK, MaybeConn
<1>1. ASSUME NEW k \in Addresses, cache'[k] # NoConn
      PROVE  LeadsTo(cache[k], k)'
  <2>0. cache'[k] \in Conns
    BY <1>1
  <2>1. LeadsTo(cache'[k], k)
    <3>1. CASE cache'[k] = cache[k]
      BY <1>1, <3>1 DEF ConnInv
    <3>2. CASE \E p \in Procs : /\ pc[p] = "store" /\ k = key[p]
                              /\ cache'[k] = client[p]
      BY <1>1, <3>2 DEF ConnInv, Holding
    <3> QED BY <1>1, <3>1, <3>2, CacheChange
  <2>2. PICK c \in Conns : c = cache'[k] /\ LeadsTo(c, k)
    BY <2>0, <2>1
  <2>3. LeadsTo(c, k)'
    BY <2>2, LeadsStay
  <2> QED BY <2>2, <2>3 DEF LeadsTo
<1>2. ASSUME NEW q \in Procs, pc'[q] \in Holding, client'[q] # NoConn
      PROVE  LeadsTo(client[q], key[q])'
  <2>1. CASE \E p \in Procs : Generate(p) /\ q \in Landed(p)
    BY <1>2, <2>1, LandedHold
  <2>2. CASE client'[q] \in Conns /\ LeadsTo(client'[q], key'[q])
    <3>1. PICK c \in Conns, k \in Addresses :
            c = client'[q] /\ k = key'[q] /\ LeadsTo(c, k)
      BY <2>2
    <3>2. LeadsTo(c, k)'
      BY <3>1, LeadsStay
    <3> QED BY <3>1, <3>2 DEF LeadsTo
  <2>3. CASE pc[q] \in Holding /\ UNCHANGED <<client[q], key[q]>>
    BY <1>2, <2>2, <2>3 DEF ConnInv
  <2>4. ASSUME NEW p \in Procs, ProcStep(p), q # p
        PROVE  LeadsTo(client[q], key[q])'
    BY <1>2, <2>1, <2>3, <2>4, OthersKeep
  <2>5. ASSUME ProcStep(q)
        PROVE  LeadsTo(client[q], key[q])'
    <3>1. CASE Generate(q)
      BY <2>1, <3>1 DEF Landed
    <3>2. CASE ~Generate(q)
      BY <1>2, <2>2, <2>3, <2>5, <3>2, OwnHold DEF ConnInv
    <3> QED BY <3>1, <3>2
  <2>6. CASE Close \/ Watch \/ (\E c \in Conns : Lose(c)) \/ UNCHANGED vars
    BY <1>2, <2>3, <2>6 DEF Close, Watch, Lose, vars
  <2> QED BY <2>4, <2>5, <2>6 DEF Next, ProcStep
<1> QED BY <1>1, <1>2 DEF ConnInv
(***************************************************************************)
(* The clients that are removed have failed.                               *)
(***************************************************************************)
(* The calls a goroutine has made are never taken back.                    *)
LEMMA AttemptsStay ==
  ASSUME StateOK, [Next]_vars, NEW p \in Procs
  PROVE  \/ ~Attempt(p) /\ attempts'[p] = attempts[p]
         \/ /\ Attempt(p)
            /\ \E o \in Outcomes :
                 /\ attempts'[p] = Append(attempts[p],
                                     [conn |-> client[p], outcome |-> o])
                 /\ err' = [err EXCEPT ![p] = o]
                 /\ pc' = [pc EXCEPT ![p] = IF o = "broken" THEN "remove"
                                            ELSE "done"]
<1> USE DEF StateOK, TypeOK
<1>1. CASE Attempt(p)
  <2>1. PICK o \in Outcomes :
          /\ attempts' = [attempts EXCEPT ![p] =
                            Append(@, [conn |-> client[p], outcome |-> o])]
          /\ err' = [err EXCEPT ![p] = o]
          /\ Goto(p, IF o # "nil" /\ Uncover(o) THEN "remove" ELSE "done")
    BY <1>1 DEF Attempt, OutcomesOn, Outcomes
  <2>2. (o # "nil" /\ Uncover(o)) <=> o = "broken"
    BY DEF Uncover, Outcomes
  <2>3. pc' = [pc EXCEPT ![p] = IF o = "broken" THEN "remove" ELSE "done"]
    BY <2>1, <2>2 DEF Goto
  <2>4. attempts'[p] = Append(attempts[p],
                              [conn |-> client[p], outcome |-> o])
    BY <2>1
  <2> QED BY <1>1, <2>1, <2>3, <2>4
<1>2. ASSUME NEW q \in Procs, Attempt(q), q # p
      PROVE  attempts'[p] = attempts[p]
  BY <1>2 DEF Attempt
<1>3. CASE ~Attempt(p)
  <2>1. UNCHANGED attempts \/ \E q \in Procs : q # p /\ Attempt(q)
    BY <1>3
    DEF Next, vars, Close, Watch, Lose, Step, Begin, Select, Check, Lookup,
        Join, Generate, Store, Forget, Got, Remove, CloseClient
  <2> QED BY <1>2, <1>3, <2>1
<1> QED BY <1>1, <1>3

LEMMA FailedStay ==
  ASSUME StateOK, [Next]_vars
  PROVE  FailedConns \subseteq FailedConns'
<1> SUFFICES ASSUME NEW c \in Conns, NEW p \in Procs,
                    NEW i \in DOMAIN attempts[p],
                    attempts[p][i] = [conn |-> c, outcome |-> "broken"]
             PROVE  /\ i \in DOMAIN attempts'[p]
                    /\ attempts'[p][i] = attempts[p][i]
  BY DEF FailedConns
<1>1. attempts[p] \in Seq(Attempts)
  BY DEF StateOK
<1>2. ASSUME NEW o \in Outcomes,
             attempts'[p] = Append(attempts[p],
                                   [conn |-> client[p], outcome |-> o])
      PROVE  /\ i \in DOMAIN attempts'[p]
             /\ attempts'[p][i] = attempts[p][i]
  BY <1>1, <1>2
<1> QED BY <1>2, AttemptsStay

(* The connection of an attempt that breaks has failed.                    *)
LEMMA BrokenFails ==
  ASSUME StateOK, ClientInv, [Next]_vars, NEW p \in Procs, Attempt(p),
         pc'[p] = "remove"
  PROVE  client[p] \in FailedConns' /\ err'[p] # "nil"
<1>1. client[p] \in Conns /\ attempts[p] \in Seq(Attempts)
  BY DEF StateOK, TypeOK, MaybeConn, ClientInv, Attempt
<1>2. /\ attempts'[p] = Append(attempts[p],
                               [conn |-> client[p], outcome |-> "broken"])
      /\ err'[p] = "broken"
  BY DEF Attempt, OutcomesOn, Uncover, Outcomes, Goto, StateOK, TypeOK
<1>3. /\ Len(attempts[p]) + 1 \in DOMAIN attempts'[p]
      /\ attempts'[p][Len(attempts[p]) + 1]
           = [conn |-> client[p], outcome |-> "broken"]
  BY <1>1, <1>2
<1> QED BY <1>1, <1>2, <1>3 DEF FailedConns

LEMMA ClientNext ==
  ASSUME StateOK, FlightInv, ClientInv, [Next]_vars
  PROVE  ClientInv'
<1> USE DEF StateOK, TypeOK, MaybeConn
<1> DEFINE Keeps(q) == UNCHANGED <<pc[q], client[q], err[q]>>
           I(q) == /\ pc[q] \in {"store", "forget", "got"} =>
                        (err[q] = "nil" <=> client[q] # NoConn)
                   /\ pc[q] \in {"forget", "call"} => client[q] # NoConn
                   /\ pc[q] \in {"remove", "close"} =>
                        /\ err[q] # "nil"
                        /\ client[q] = NoConn \/ client[q] \in FailedConns
<1>0. \A q \in Procs : I(q)
  BY DEF ClientInv
<1> SUFFICES ASSUME NEW q \in Procs
             PROVE  I(q)'
  BY DEF ClientInv
<1>1. CASE Keeps(q)
  BY <1>0, <1>1, FailedStay
<1>2. ASSUME NEW p \in Procs, Generate(p), q \in Landed(p)
      PROVE  I(q)'
  <2>1. Unused # {} => Fresh # NoConn
    BY Constants, FreshIsUnused DEF Unused
  <2>2. /\ pc'[q] = "store"
        /\ (err'[q] = "nil" <=> client'[q] # NoConn)
    BY <1>2, <2>1 DEF Generate, Land
  <2> QED BY <2>2
<1>3. CASE Begin(q) \/ Select(q) \/ Check(q) \/ Join(q) \/ CloseClient(q)
  BY <1>3 DEF Begin, Return, Select, Check, Join, CloseClient, AfterRemove,
              Goto
<1>4. CASE Lookup(q)
  BY <1>4, Constants DEF Lookup, Open, Goto
<1>5. CASE Store(q) \/ Forget(q)
  BY <1>0, <1>5 DEF Store, Forget, Goto
<1>6. CASE Got(q)
  <2>1. pc'[q] \in {"call", "remove", "done"} /\ client' = client
    BY <1>6 DEF Got, GotForGo, GotForOnce, GotForRetry, Goto
  <2>2. CASE pc'[q] = "call"
    <3>1. client[q] # NoConn
      BY <1>0, <1>6, <2>2 DEF Got, GotForGo, GotForOnce, GotForRetry, Goto
    <3> QED BY <2>1, <2>2, <3>1
  <2>3. CASE pc'[q] = "remove"
    <3>1. client[q] = NoConn /\ err' = err
      BY <1>6, <2>3 DEF Got, GotForGo, GotForOnce, GotForRetry, Goto,
                        Retrying
    <3> QED BY <1>0, <1>6, <2>1, <2>3, <3>1 DEF Got
  <2> QED BY <2>1, <2>2, <2>3
<1>7. CASE Attempt(q)
  <2>1. pc'[q] \in {"remove", "done"} /\ client' = client
    BY <1>7 DEF Attempt, Goto
  <2> QED BY <1>7, <2>1, BrokenFails
<1>8. CASE Remove(q)
  BY <1>0, <1>8, FailedStay DEF Remove, Goto
<1>9. ASSUME NEW p \in Procs, ProcStep(p), p # q
      PROVE  I(q)'
  <2>1. Keeps(q) \/ (Generate(p) /\ q \in Landed(p))
    <3> HIDE DEF StateOK, TypeOK, I
    <3> QED BY <1>9, OthersKeep
  <2> HIDE DEF I, Keeps
  <2> QED BY <1>1, <1>2, <2>1
<1>10. CASE Close \/ Watch \/ (\E c \in Conns : Lose(c)) \/ UNCHANGED vars
  BY <1>1, <1>10 DEF Close, Watch, Lose, vars
<1> QED
  BY <1>2, <1>3, <1>4, <1>5, <1>6, <1>7, <1>8, <1>9, <1>10
  DEF Next, ProcStep, Step, Landed
(***************************************************************************)
(* The attempts are counted, and answers end them.                         *)
(***************************************************************************)
LEMMA CountNext ==
  ASSUME StateOK, CountInv, [Next]_vars
  PROVE  CountInv'
<1> USE DEF StateOK, TypeOK
<1> DEFINE I(q) == /\ Retrying =>
                        Len(attempts[q]) + left[q]
                          + (IF pc[q] = "call" THEN 1 ELSE 0) <= Retries + 1
                   /\ ~Retrying =>
                        /\ Len(attempts[q]) <= 1
                        /\ pc[q] \notin {"remove", "close", "done"} =>
                             attempts[q] = <<>>
           Going == {"idle", "select", "check", "lookup", "join", "wait",
                     "generate", "store", "forget", "got"}
<1>0. /\ \A q \in Procs : I(q)
      /\ failMode' = failMode /\ (Retrying' <=> Retrying)
  BY CacheType DEF CountInv, Retrying
<1> SUFFICES ASSUME NEW q \in Procs
             PROVE  I(q)'
  BY DEF CountInv
<1>1. Len(attempts[q]) \in Nat /\ left[q] \in Nat /\ Retries \in Nat
  BY Constants
<1>2. CASE UNCHANGED <<pc[q], left[q], attempts[q]>>
  BY <1>0, <1>2
<1>3. CASE /\ UNCHANGED <<left[q], attempts[q]>>
           /\ pc[q] \in Going /\ pc'[q] # "call"
  BY <1>0, <1>3
<1>4. ASSUME NEW p \in Procs, ProcStep(p), p # q
      PROVE  I(q)'
  <2>1. CASE Generate(p) /\ q \in Landed(p)
    BY <1>3, <1>4, <2>1, OthersKeep DEF Generate, Land, Landed
  <2> QED BY <1>2, <1>4, <2>1, OthersKeep
<1>5. CASE \/ Begin(q) \/ Select(q) \/ Check(q) \/ Lookup(q) \/ Join(q)
           \/ Generate(q) \/ Store(q) \/ Forget(q)
  <2>1. UNCHANGED <<left, attempts>> /\ pc[q] \in Going
    BY <1>5 DEF Begin, Select, Check, Lookup, Join, Generate, Store, Forget
  <2>2. pc'[q] # "call"
    BY <1>5 DEF Begin, Return, Select, Check, Lookup, Join, Generate, Land,
                Landed, Store, Forget, Goto
  <2> QED BY <1>3, <2>1, <2>2
<1>6. CASE Got(q)
  <2>1. attempts' = attempts /\ pc[q] = "got"
    BY <1>6 DEF Got
  <2>2. CASE Retrying
    <3>1. \/ left'[q] = left[q] /\ pc'[q] # "call"
          \/ left'[q] = left[q] - 1
      BY <1>6, <2>2 DEF Got, GotForGo, GotForOnce, GotForRetry, Goto
    <3>2. Len(attempts[q]) + left[q] <= Retries + 1
      <4>1. Len(attempts[q]) + left[q] + 0 <= Retries + 1
        BY <1>0, <2>1, <2>2
      <4> QED BY <1>1, <4>1
    <3>3. CASE left'[q] = left[q] /\ pc'[q] # "call"
      BY <1>0, <1>1, <2>1, <2>2, <3>2, <3>3
    <3>4. CASE left'[q] = left[q] - 1
      <4>1. Len(attempts[q]) + left'[q] + 1 <= Retries + 1
            /\ Len(attempts[q]) + left'[q] + 0 <= Retries + 1
        BY <1>1, <3>2, <3>4
      <4> QED BY <1>0, <2>1, <2>2, <4>1
    <3> QED BY <3>1, <3>3, <3>4
  <2>3. CASE ~Retrying
    BY <1>0, <2>1, <2>3
  <2> QED BY <2>2, <2>3
<1>7. CASE Attempt(q)
  <2>1. Len(attempts'[q]) = Len(attempts[q]) + 1 /\ left' = left
        /\ pc[q] = "call" /\ pc'[q] \in {"remove", "done"}
    BY <1>7 DEF Attempt, Goto
  <2>2. attempts[q] = <<>> => Len(attempts[q]) = 0
    OBVIOUS
  <2>3. CASE Retrying
    <3>1. Len(attempts[q]) + left[q] + 1 <= Retries + 1
      BY <1>0, <2>1, <2>3
    <3>2. Len(attempts'[q]) + left'[q] + 0 <= Retries + 1
      BY <1>1, <2>1, <3>1
    <3> QED BY <1>0, <2>1, <2>3, <3>2
  <2>4. CASE ~Retrying
    <3>1. attempts[q] = <<>>
      BY <1>0, <2>1, <2>4
    <3>2. Len(attempts'[q]) <= 1
      BY <2>1, <2>2, <3>1
    <3> QED BY <1>0, <2>1, <2>4, <3>2
  <2> QED BY <2>3, <2>4
<1>8. CASE Remove(q) \/ CloseClient(q)
  <2>1. UNCHANGED <<left, attempts>> /\ pc[q] \in {"remove", "close"}
    BY <1>8 DEF Remove, CloseClient
  <2>2. pc'[q] # "call" /\ (~Retrying => pc'[q] \in {"close", "done"})
    BY <1>8 DEF Remove, CloseClient, AfterRemove, Goto, Retrying
  <2> QED BY <1>0, <2>1, <2>2
<1>9. CASE Close \/ Watch \/ (\E c \in Conns : Lose(c)) \/ UNCHANGED vars
  BY <1>2, <1>9 DEF Close, Watch, Lose, vars
<1> QED BY <1>4, <1>5, <1>6, <1>7, <1>8, <1>9 DEF Next, ProcStep, Step
(* The last thing a connection said, when all it has said is an error of   *)
(* the connection.                                                         *)
LEMMA LastBroken ==
  ASSUME StateOK, NEW p \in Procs,
         \A i \in DOMAIN attempts[p] : attempts[p][i].outcome = "broken"
  PROVE  LastOutcome(p) \in {"none", "broken"}
<1>1. attempts[p] \in Seq(Attempts)
  BY DEF StateOK
<1>2. attempts[p] # <<>> => Len(attempts[p]) \in DOMAIN attempts[p]
  BY <1>1
<1> QED BY <1>2 DEF LastOutcome

LEMMA AnswerNext ==
  ASSUME StateOK, FlightInv, ClientInv, AnswerInv, [Next]_vars
  PROVE  AnswerInv'
<1> USE DEF StateOK, TypeOK
<1> DEFINE Broken(q) == \A i \in DOMAIN attempts[q] :
                          attempts[q][i].outcome = "broken"
           I(q) == /\ \A i \in DOMAIN attempts[q] :
                        i < Len(attempts[q]) \/ pc[q] # "done"
                          => attempts[q][i].outcome = "broken"
                   /\ err[q] \in {"service", "ctx"} => pc[q] = "done"
                   /\ pc[q] = "done" /\ op[q] = "Call" => ResultOfLast(q)
<1>0. \A q \in Procs : I(q)
  BY DEF AnswerInv
<1> SUFFICES ASSUME NEW q \in Procs
             PROVE  I(q)'
  BY DEF AnswerInv
<1>m. failMode' = failMode
  BY CacheType
<1>1. CASE UNCHANGED <<pc[q], op[q], err[q], attempts[q]>>
  <2>1. ResultOfLast(q) => ResultOfLast(q)'
    BY <1>1, <1>m DEF ResultOfLast, LastOutcome
  <2> QED BY <1>0, <1>1, <2>1
<1>2. CASE /\ pc[q] # "done" /\ attempts'[q] = attempts[q]
           /\ err'[q] \notin {"service", "ctx"}
           /\ pc'[q] = "done" /\ op'[q] = "Call" /\ failMode = "FailFast"
                => err'[q] # "nil"
  <2>1. Broken(q)
    BY <1>0, <1>2
  <2>2. LastOutcome(q) \in {"none", "broken"}
    BY <2>1, LastBroken
  <2>3. LastOutcome(q)' = LastOutcome(q)
    BY <1>2 DEF LastOutcome
  <2>4. pc'[q] = "done" /\ op'[q] = "Call" => ResultOfLast(q)'
    BY <1>2, <1>m, <2>2, <2>3 DEF ResultOfLast
  <2> QED BY <1>2, <2>1, <2>4
<1>3. CASE Attempt(q)
  <2>1. PICK o \in Outcomes :
          /\ attempts'[q] = Append(attempts[q],
                                   [conn |-> client[q], outcome |-> o])
          /\ err' = [err EXCEPT ![q] = o]
          /\ pc' = [pc EXCEPT ![q] = IF o = "broken" THEN "remove"
                                     ELSE "done"]
    BY <1>3, AttemptsStay
    DEF Attempt, OutcomesOn, Uncover, Outcomes, Goto
  <2>2. Broken(q) /\ attempts[q] \in Seq(Attempts)
    BY <1>0, <1>3 DEF Attempt
  <2>3. /\ \A i \in DOMAIN attempts[q] : attempts'[q][i] = attempts[q][i]
        /\ Len(attempts'[q]) = Len(attempts[q]) + 1
        /\ DOMAIN attempts'[q] = (DOMAIN attempts[q]) \cup {Len(attempts'[q])}
        /\ attempts'[q][Len(attempts'[q])].outcome = o
        /\ attempts'[q] # <<>>
    <3> DEFINE a == [conn |-> client[q], outcome |-> o]
    <3>1. client[q] \in Conns
      BY <1>3 DEF ClientInv, Attempt, MaybeConn
    <3>2. a \in Attempts /\ a.outcome = o
      BY <3>1 DEF Attempts
    <3> HIDE DEF a
    <3>3. attempts'[q] = Append(attempts[q], a)
      BY <2>1 DEF a
    <3>4. /\ Len(attempts'[q]) = Len(attempts[q]) + 1
          /\ Len(attempts[q]) \in Nat
          /\ DOMAIN attempts[q] = 1 .. Len(attempts[q])
          /\ DOMAIN attempts'[q] = 1 .. Len(attempts[q]) + 1
      BY <2>2, <3>2, <3>3
    <3>5. attempts'[q][Len(attempts[q]) + 1] = a
      BY <2>2, <3>2, <3>3
    <3>6. \A i \in DOMAIN attempts[q] : attempts'[q][i] = attempts[q][i]
      BY <2>2, <3>2, <3>3
    <3>7. attempts'[q] # <<>>
      BY <3>4
    <3> QED BY <3>2, <3>4, <3>5, <3>6, <3>7
  <2>4. \A i \in DOMAIN attempts'[q] :
          i < Len(attempts'[q]) \/ pc'[q] # "done"
            => attempts'[q][i].outcome = "broken"
    BY <2>1, <2>2, <2>3
  <2>5. LastOutcome(q)' = o /\ err'[q] = o
    BY <2>1, <2>3 DEF LastOutcome
  <2>6. pc'[q] = IF o = "broken" THEN "remove" ELSE "done"
    BY <2>1
  <2>7. o # "broken" => ResultOfLast(q)'
    BY <2>5 DEF ResultOfLast, Outcomes
  <2>8. err'[q] \in {"service", "ctx"} => pc'[q] = "done"
    BY <2>5, <2>6
  <2>9. pc'[q] = "done" => o # "broken"
    BY <2>6
  <2> QED BY <2>4, <2>7, <2>8, <2>9
<1>4. ASSUME NEW p \in Procs, ProcStep(p), p # q
      PROVE  I(q)'
  <2>1. CASE Generate(p) /\ q \in Landed(p)
    <3>1. pc[q] = "wait" /\ err'[q] \in {"nil", "connect"}
          /\ pc'[q] = "store"
      BY <1>4, <2>1 DEF Generate, Land, Landed
    <3> QED BY <1>2, <1>4, <3>1, OthersKeep
  <2> QED BY <1>1, <1>4, <2>1, OthersKeep
<1>5. CASE Begin(q) \/ Select(q) \/ Check(q) \/ Lookup(q) \/ Generate(q)
  <2>1. /\ pc[q] # "done" /\ attempts' = attempts
        /\ err'[q] \in {err[q], "nil", "shutdown", "noserver", "connect"}
    BY <1>5 DEF Begin, Return, Select, Check, Lookup, Generate, Land, Landed
  <2>2. pc'[q] = "done" => err'[q] = "shutdown"
    BY <1>5 DEF Begin, Return, Select, Check, Lookup, Generate, Land, Landed,
                Goto
  <2> QED BY <1>0, <1>2, <2>1, <2>2
<1>6. CASE Join(q) \/ Store(q) \/ Forget(q) \/ Remove(q)
  <2>1. /\ pc[q] # "done" /\ pc'[q] # "done"
        /\ UNCHANGED <<err, attempts>>
    BY <1>6 DEF Join, Store, Forget, Remove, Goto
  <2> QED BY <1>0, <1>2, <2>1
<1>7. CASE Got(q)
  <2>1. /\ pc[q] = "got" /\ UNCHANGED <<attempts, op>>
        /\ err'[q] \in {err[q], "unsupported"}
        /\ failMode # "FailBackup" => err' = err
    BY <1>7 DEF Got
  <2>2. pc'[q] = "done" /\ op[q] = "Call" /\ failMode = "FailFast"
          => err[q] # "nil"
    BY <1>7 DEF Got, GotForGo, GotForOnce, GotForRetry, Goto, Retrying
  <2> QED BY <1>0, <1>2, <2>1, <2>2
<1>8. CASE CloseClient(q)
  <2>1. pc[q] = "close" /\ UNCHANGED <<err, attempts>>
    BY <1>8 DEF CloseClient
  <2>2. err[q] # "nil"
    BY <2>1 DEF ClientInv
  <2> QED BY <1>0, <1>2, <2>1, <2>2
<1>9. CASE Close \/ Watch \/ (\E c \in Conns : Lose(c)) \/ UNCHANGED vars
  BY <1>1, <1>9 DEF Close, Watch, Lose, vars
<1> QED
  BY <1>3, <1>4, <1>5, <1>6, <1>7, <1>8, <1>9 DEF Next, ProcStep, Step
(***************************************************************************)
(* What is closed, and what leaves the cache.                              *)
(***************************************************************************)
LEMMA ClosedNext ==
  ASSUME StateOK, ClientInv, ClosedForReason, [Next]_vars
  PROVE  ClosedForReason'
<1> USE DEF StateOK, TypeOK
<1> SUFFICES ASSUME NEW c \in Conns, connState'[c] = "closed"
             PROVE  isShutdown' \/ c \in FailedConns'
  BY DEF ClosedForReason
<1>1. CASE connState[c] = "closed"
  <2>1. isShutdown => isShutdown'
    BY DEF Next, vars, xclient, Close, Watch, Lose, Step, Begin, Select,
           Check, Lookup, Join, Generate, Store, Forget, Got, Attempt,
           Remove, CloseClient
  <2> QED BY <1>1, <2>1, FailedStay DEF ClosedForReason
<1>2. CASE connState[c] # "closed"
  <2>1. ASSUME NEW p \in Procs, CloseClient(p)
        PROVE  c \in FailedConns
    <3>1. c = client[p] /\ pc[p] = "close"
      BY <1>2, <2>1 DEF CloseClient
    <3> QED BY <3>1, Constants DEF ClientInv
  <2>2. ASSUME NEW p \in Procs, Generate(p)
        PROVE  FALSE
    BY <1>2, <2>2 DEF Generate, conns
  <2>3. ASSUME NEW d \in Conns, Lose(d)
        PROVE  FALSE
    BY <1>2, <2>3 DEF Lose
  <2>4. CASE Close
    BY <2>4 DEF Close
  <2>5. connState' # connState
    BY <1>2
  <2> QED
    BY <2>1, <2>2, <2>3, <2>4, <2>5, FailedStay
    DEF Next, vars, conns, Watch, Step, Begin, Select, Check, Lookup, Join,
        Store, Forget, Got, Attempt, Remove
<1> QED BY <1>1, <1>2

LEMMA EvictedNext ==
  ASSUME StateOK, ClientInv, [Next]_vars, NEW k \in Addresses,
         Open(cache[k]), cache'[k] = NoConn
  PROVE  isShutdown' \/ cache[k] \in FailedConns'
<1> USE DEF StateOK, TypeOK
<1>0. cache[k] # NoConn /\ cache' # cache
  BY Constants DEF Open
<1>1. ASSUME NEW p \in Procs, Lookup(p)
      PROVE  FALSE
  BY <1>0, <1>1 DEF Lookup
<1>2. ASSUME NEW p \in Procs, Store(p)
      PROVE  FALSE
  BY <1>0, <1>2 DEF Store, ClientInv
<1>3. ASSUME NEW p \in Procs, Remove(p)
      PROVE  cache[k] \in FailedConns
  <2>1. k = key[p] /\ cache[k] = client[p] /\ pc[p] = "remove"
    BY <1>0, <1>3 DEF Remove
  <2> QED BY <1>0, <2>1 DEF ClientInv
<1>4. CASE Close
  BY <1>4 DEF Close
<1> QED
  BY <1>0, <1>1, <1>2, <1>3, <1>4, FailedStay
  DEF Next, vars, xclient, Watch, Lose, Step, Begin, Select, Check, Join,
      Generate, Forget, Got, Attempt, CloseClient

-----------------------------------------------------------------------------
LEMMA InitInv == Init => IInv
<1> SUFFICES ASSUME Init PROVE IInv
  OBVIOUS
<1>1. \A p \in Procs : attempts[p] = <<>> /\ pc[p] = "idle" /\ err[p] = "nil"
  BY DEF Init
<1>2. StateOK
  <2>1. attempts \in [Procs -> Seq(Attempts)]
    BY DEF Init
  <2>2. \A p \in Procs :
          attempts[p] \in Seq([conn : Conns, outcome : Outcomes])
    BY <2>1 DEF Attempts
  <2>3. left \in [Procs -> 0 .. (Retries + 1)]
    BY Constants DEF Init
  <2> QED
    BY <2>1, <2>2, <2>3, Constants, ListsAssumption
    DEF Init, StateOK, TypeOK, Steps, Errors, Outcomes
<1>3. FlightInv /\ ConnInv /\ ClosedForReason
  BY <1>1 DEF Init, FlightInv, NoStrandedWaiter, ConnInv, Holding,
              ClosedForReason
<1>4. ClientInv /\ AnswerInv
  BY <1>1 DEF ClientInv, AnswerInv
<1>5. CountInv
  <2>1. \A p \in Procs : Len(attempts[p]) = 0 /\ left[p] = Retries + 1
    BY <1>1 DEF Init
  <2> QED BY <1>1, <2>1, Constants DEF CountInv
<1> QED BY <1>2, <1>3, <1>4, <1>5 DEF IInv

LEMMA NextInv == IInv /\ [Next]_vars => IInv'
BY TypeNext, FlightNext, ConnNext, ClientNext, CountNext, AnswerNext,
   ClosedNext
DEF IInv

LEMMA Inductive == Spec => []IInv
BY InitInv, NextInv, PTL DEF Spec

(* The values of the state; the retry loops never go below their count     *)
(* (xclient.go:127, 150).                                                  *)
THEOREM TypeCorrect == Spec => []TypeOK
<1>1. IInv => TypeOK
  BY DEF IInv, StateOK
<1> QED BY <1>1, Inductive, PTL

(* Who waits in singleflight waits for a goroutine that generates a client *)
(* of the same server (xclient.go:292).                                    *)
THEOREM NobodyStranded == Spec => []NoStrandedWaiter
<1>1. IInv => NoStrandedWaiter
  BY DEF IInv, FlightInv
<1> QED BY <1>1, Inductive, PTL

(* However many goroutines share clients and whatever lists discovery      *)
(* reports, a call goes to the server it has selected (xclient.go:305).    *)
THEOREM CallsRightServer == Spec => []RightServer
<1>1. IInv => RightServer
  BY DEF IInv, ConnInv, Holding, LeadsTo, RightServer
<1> QED BY <1>1, Inductive, PTL

(* Only Close and a failed call close a connection (xclient.go:136, 345).  *)
THEOREM ClosesForReason == Spec => []ClosedForReason
<1>1. IInv => ClosedForReason
  BY DEF IInv
<1> QED BY <1>1, Inductive, PTL

(* A late removeClient leaves the replacement alone (xclient.go:338).      *)
THEOREM EvictsForReason == Spec => EvictedForReason
<1>1. IInv /\ [Next]_vars
        => [\A k \in Addresses :
              Open(cache[k]) /\ cache'[k] = NoConn
                => isShutdown' \/ cache[k] \in FailedConns']_vars
  BY EvictedNext DEF IInv
<1> QED BY <1>1, Inductive, PTL DEF Spec, EvictedForReason

(* An answer ends the retries and is the result, and there are never more  *)
(* than Retries + 1 attempts (xclient.go:135, 156).                        *)
THEOREM AnswersOnce == Spec => []AnswerIsResult
<1>1. IInv => AnswerIsResult
  <2> SUFFICES ASSUME IInv, NEW p \in Procs
               PROVE  /\ NoRetryAfterAnswer(p)
                      /\ pc[p] = "done" /\ op[p] = "Call" => ResultOfLast(p)
    BY DEF AnswerIsResult
  <2>1. Len(attempts[p]) \in Nat /\ left[p] \in Nat /\ Retries \in Nat
    BY Constants DEF IInv, StateOK, TypeOK
  <2>2. Len(attempts[p]) <= Retries + 1
    BY <2>1 DEF IInv, CountInv
  <2> QED BY <2>2 DEF IInv, AnswerInv, NoRetryAfterAnswer
<1> QED BY <1>1, Inductive, PTL
=============================================================================
