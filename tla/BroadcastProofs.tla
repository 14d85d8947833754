--------------------------- MODULE BroadcastProofs --------------------------
(* Theorems about Broadcast, for any finite set of servers.                *)
EXTENDS Broadcast, FiniteSetTheorems, TLAPS

(***************************************************************************)
(* The inductive invariant.  Expected keeps lc in its range; what is in    *)
(* the channel and in the MultiError was put there by a goroutine whose    *)
(* call has ended so.                                                      *)
(***************************************************************************)
(* The goroutines that have not reported.                                  *)
Unreported == {a \in clientMap : worker[a] \in {"call", "report"}}

StartInv ==
  /\ pc = "idle" =>
       clientMap = {} /\ lc = 0 /\ done = <<>> /\ multiErr = {}
  /\ \A a \in Servers : worker[a] # "none" => pc # "idle" /\ a \in clientMap

(* A goroutine that has reported a failure, and one that has added its     *)
(* error.                                                                  *)
FailureInv ==
  /\ \A i \in DOMAIN done : ~done[i] =>
       \E a \in clientMap : worker[a] # "call" /\ outcome[a] # "nil"
  /\ \A a \in Servers : worker[a] = "append" => outcome[a] # "nil"
  /\ \A a \in multiErr \ {Timeout} :
       a \in clientMap /\ worker[a] = "ended" /\ outcome[a] # "nil"

(* All called servers have reported success, or one is known to have       *)
(* failed.                                                                 *)
Decided ==
  \/ \A a \in clientMap :
       worker[a] \notin {"call", "report"} /\ outcome[a] = "nil"
  \/ \E a \in clientMap : worker[a] # "call" /\ outcome[a] # "nil"

(* Broadcast leaves its loop when that is so or the time is up.            *)
MergeInv ==
  /\ pc = "merge" => Decided \/ Timeout \in multiErr
  /\ result # "none" => pc = "returned"

(* A goroutine that has succeeded does not end before there is a reply, be *)
(* it its own or that of another one; and there is a goroutine at all.     *)
CopyInv ==
  /\ \A a \in clientMap :
       /\ worker[a] # "none"
       /\ worker[a] = "ended" /\ outcome[a] = "nil" => reply # NoServer
  /\ pc \in {"loop", "merge"} \/ result = "nil" => clientMap # {}

(* No more results are expected than servers were called.                  *)
RoomInv == lc <= Cardinality(clientMap)

IInv == TypeOK /\ Expected /\ RoomInv /\ StartInv /\ FailureInv /\ MergeInv
        /\ ResultHasCause /\ CopyInv

(* A goroutine that is to report finds a place in the channel.             *)
AlwaysRoom == \A a \in Servers : worker[a] = "report" => Room

-----------------------------------------------------------------------------
LEMMA UnreportedFinite ==
  ASSUME TypeOK
  PROVE  /\ IsFiniteSet(clientMap) /\ IsFiniteSet(Unreported)
         /\ Cardinality(Unreported) \in Nat
         /\ Cardinality(Unreported) <= Cardinality(clientMap)
         /\ Cardinality(clientMap) <= Cardinality(Servers)
         /\ Cardinality(clientMap) \in Nat /\ Cardinality(Servers) \in Nat
<1>1. clientMap \in SUBSET Servers /\ Unreported \in SUBSET clientMap
  BY DEF TypeOK, Unreported
<1> QED BY <1>1, ServersAssumption, FS_Subset, FS_CardinalityType

(* The values of the state, but for lc.                                    *)
LocalTypeOK ==
  /\ pc \in {"idle", "loop", "merge", "returned"}
  /\ clientMap \subseteq Servers
  /\ timer \in {"off", "on", "ticked"}
  /\ result \in {"none", "nil", "error"}
  /\ worker \in [Servers -> {"none", "call", "report", "handle", "append",
                             "ended"}]
  /\ outcome \in [Servers -> Outcomes]
  /\ done \in Seq(BOOLEAN)
  /\ multiErr \subseteq Servers \cup {Timeout}
  /\ reply \in Servers \cup {NoServer}
  /\ removed \subseteq Servers

LEMMA LocalTypeNext ==
  ASSUME TypeOK, [Next]_vars
  PROVE  LocalTypeOK'
<1>1. CASE Begin
  <2>1. PICK S \in (SUBSET Servers) \ {{}} :
          /\ clientMap' = S
          /\ worker' = [a \in Servers |-> IF a \in S THEN "call" ELSE "none"]
    BY <1>1 DEF Begin
  <2>2. worker' \in [Servers -> {"none", "call", "report", "handle",
                                "append", "ended"}]
    BY <2>1
  <2> QED BY <1>1, <2>1, <2>2 DEF TypeOK, LocalTypeOK, Begin
<1>2. CASE Collect
  <2>1. done' \in Seq(BOOLEAN)
    BY <1>2 DEF Collect, TypeOK
  <2>2. pc' \in {"loop", "merge"}
    BY <1>2 DEF Collect
  <2> QED BY <1>2, <2>1, <2>2 DEF TypeOK, LocalTypeOK, Collect, workers
<1>5. CASE Refuse \/ TimedOut \/ Merge \/ Tick
  BY <1>5 DEF TypeOK, LocalTypeOK, Refuse, TimedOut, Merge, Tick, workers
<1>3. ASSUME NEW a \in Servers, Worker(a)
      PROVE  LocalTypeOK'
  <2>1. CASE CallEnds(a) \/ Handle(a) \/ AppendError(a)
    BY <2>1 DEF TypeOK, LocalTypeOK, CallEnds, Handle, AppendError, Outcomes,
                main
  <2>2. CASE Report(a)
    <3>1. (outcome[a] = "nil") \in BOOLEAN
      OBVIOUS
    <3>2. done' \in Seq(BOOLEAN)
      BY <2>2, <3>1 DEF Report, TypeOK
    <3> QED BY <2>2, <3>2 DEF TypeOK, LocalTypeOK, Report, main
  <2> QED BY <1>3, <2>1, <2>2 DEF Worker
<1>4. CASE UNCHANGED vars
  BY <1>4 DEF TypeOK, LocalTypeOK, vars
<1> QED BY <1>1, <1>2, <1>3, <1>4, <1>5 DEF Next, Main

(* lc is what is in the channel and what is still to come.                 *)
LEMMA ExpectedNext ==
  ASSUME TypeOK, Expected, StartInv, [Next]_vars
  PROVE  Expected' /\ lc' \in 0 .. Cardinality(Servers)
<1>0. /\ IsFiniteSet(Unreported) /\ Cardinality(Unreported) \in Nat
      /\ Len(done) \in Nat /\ lc \in 0 .. Cardinality(Servers)
      /\ Cardinality(Servers) \in Nat
      /\ pc # "idle" => lc = Len(done) + Cardinality(Unreported)
  BY UnreportedFinite DEF TypeOK, Expected, Unreported
<1> SUFFICES /\ pc' # "idle" =>
                  lc' = Len(done') + Cardinality(Unreported')
             /\ lc' \in 0 .. Cardinality(Servers)
  BY DEF Expected, Unreported
<1>1. CASE UNCHANGED <<lc, done, clientMap, worker>>
             /\ (pc' = "idle" <=> pc = "idle")
  BY <1>0, <1>1 DEF Unreported
<1>2. CASE Refuse
  <2>1. lc = 0 /\ Len(done) = 0 /\ Unreported = {}
    BY <1>2 DEF Refuse, StartInv, Unreported
  <2>2. Unreported' = {} /\ lc' = 0 /\ done' = done
    BY <1>2, <2>1 DEF Refuse, Unreported, workers
  <2> QED BY <1>0, <2>1, <2>2, FS_EmptySet
<1>3. CASE Begin
  <2>1. PICK T \in SUBSET Servers :
          /\ clientMap' = T /\ lc' = Cardinality(T)
          /\ worker' = [a \in Servers |-> IF a \in T THEN "call" ELSE "none"]
          /\ done' = done /\ pc = "idle"
    BY <1>3 DEF Begin
  <2>2. Unreported' = T
    BY <2>1 DEF Unreported
  <2>3. Cardinality(T) \in 0 .. Cardinality(Servers)
    BY <1>0, ServersAssumption, FS_Subset, FS_CardinalityType
  <2> QED BY <1>0, <2>1, <2>2, <2>3 DEF StartInv
<1>4. CASE Collect
  <2>1. Len(done') = Len(done) - 1 /\ Len(done) > 0 /\ lc' = lc - 1
    BY <1>0, <1>4 DEF Collect, TypeOK
  <2>2. Unreported' = Unreported /\ pc # "idle"
    BY <1>4 DEF Collect, Unreported, workers
  <2> QED BY <1>0, <2>1, <2>2
<1>5. ASSUME NEW a \in Servers, Worker(a)
      PROVE  /\ pc' # "idle" =>
                  lc' = Len(done') + Cardinality(Unreported')
             /\ lc' \in 0 .. Cardinality(Servers)
  <2>1. UNCHANGED <<pc, clientMap, lc>>
    BY <1>5 DEF Worker, CallEnds, Report, Handle, AppendError, main
  <2>2. CASE Report(a)
    <3>1. a \in Unreported /\ pc # "idle"
      BY <2>2 DEF Report, Unreported, StartInv
    <3>2. Unreported' = Unreported \ {a}
      BY <2>1, <2>2 DEF Report, Unreported, TypeOK
    <3>3. Cardinality(Unreported') = Cardinality(Unreported) - 1
      BY <1>0, <3>1, <3>2, FS_RemoveElement
    <3>4. Len(done') = Len(done) + 1
      BY <2>2 DEF Report, TypeOK
    <3> QED BY <1>0, <2>1, <3>1, <3>3, <3>4
  <2>3. CASE CallEnds(a) \/ Handle(a) \/ AppendError(a)
    <3>1. Unreported' = Unreported /\ done' = done
      BY <2>1, <2>3 DEF CallEnds, Handle, AppendError, Unreported, TypeOK
    <3> QED BY <1>0, <2>1, <3>1
  <2> QED BY <1>5, <2>2, <2>3 DEF Worker
<1> QED
  BY <1>1, <1>2, <1>3, <1>4, <1>5
  DEF Next, vars, Main, TimedOut, Merge, Tick, workers

LEMMA RoomNext ==
  ASSUME TypeOK, Expected, RoomInv, [Next]_vars
  PROVE  RoomInv'
<1>1. lc \in Nat /\ Cardinality(clientMap) \in Nat
  BY UnreportedFinite DEF TypeOK
<1>2. CASE Begin
  <2>1. lc' \in Nat
    BY TypeOK, <1>2, ServersAssumption, FS_Subset, FS_CardinalityType
    DEF Begin
  <2> QED BY <1>2, <2>1 DEF Begin, RoomInv
<1>3. CASE Collect
  BY <1>1, <1>3 DEF Collect, RoomInv
<1>4. CASE UNCHANGED <<lc, clientMap>>
  BY <1>4 DEF RoomInv
<1> QED
  BY <1>2, <1>3, <1>4
  DEF Next, vars, Refuse, Main, TimedOut, Merge, Tick, Worker, CallEnds,
      Report, Handle, AppendError, main

LEMMA StartNext ==
  ASSUME TypeOK, StartInv, [Next]_vars
  PROVE  StartInv'
<1>1. CASE Refuse \/ Begin \/ Main \/ Tick
  BY <1>1 DEF StartInv, Refuse, Begin, Main, Collect, TimedOut, Merge, Tick,
              workers
<1>2. ASSUME NEW a \in Servers, Worker(a)
      PROVE  StartInv'
  <2>1. worker[a] # "none" /\ UNCHANGED <<pc, clientMap, lc>>
    BY <1>2 DEF Worker, CallEnds, Report, Handle, AppendError, main
  <2>2. \A b \in Servers \ {a} : worker'[b] = worker[b]
    BY <1>2 DEF Worker, CallEnds, Report, Handle, AppendError, TypeOK
  <2> QED BY <2>1, <2>2 DEF StartInv
<1>3. CASE UNCHANGED vars
  BY <1>3 DEF StartInv, vars
<1> QED BY <1>1, <1>2, <1>3 DEF Next

(* A call that has ended keeps its outcome, and an ended goroutine stays   *)
(* ended.                                                                  *)
LEMMA OutcomeStays ==
  ASSUME TypeOK, StartInv, [Next]_vars, NEW a \in clientMap
  PROVE  /\ a \in Servers /\ a \in clientMap'
         /\ worker[a] # "call" =>
              worker'[a] # "call" /\ outcome'[a] = outcome[a]
         /\ worker[a] \notin {"call", "report"} =>
              worker'[a] \notin {"call", "report"}
         /\ worker[a] = "ended" => worker'[a] = "ended"
<1>0. a \in Servers /\ pc # "idle"
  BY DEF TypeOK, StartInv
<1>1. CASE Main \/ Tick \/ UNCHANGED vars
  BY <1>0, <1>1 DEF Main, Collect, TimedOut, Merge, Tick, vars, workers
<1>2. ASSUME NEW b \in Servers, Worker(b)
      PROVE  /\ a \in clientMap'
             /\ worker[a] # "call" =>
                  worker'[a] # "call" /\ outcome'[a] = outcome[a]
             /\ worker[a] \notin {"call", "report"} =>
                  worker'[a] \notin {"call", "report"}
             /\ worker[a] = "ended" => worker'[a] = "ended"
  BY <1>0, <1>2
  DEF Worker, CallEnds, Report, Handle, AppendError, main, TypeOK
<1> QED BY <1>0, <1>1, <1>2 DEF Next, Refuse, Begin

LEMMA FailureNext ==
  ASSUME TypeOK, StartInv, FailureInv, [Next]_vars
  PROVE  FailureInv'
<1>1. ASSUME NEW i \in DOMAIN done', ~done'[i]
      PROVE  \E a \in clientMap' : worker'[a] # "call" /\ outcome'[a] # "nil"
  <2>1. CASE \E j \in DOMAIN done : done'[i] = done[j]
    BY <1>1, <2>1, OutcomeStays DEF FailureInv
  <2>2. CASE \E a \in Servers : Report(a)
    <3>1. PICK a \in Servers : Report(a)
      BY <2>2
    <3>2. CASE i \in DOMAIN done
      BY <2>1, <3>1, <3>2 DEF Report, TypeOK
    <3>3. CASE i = Len(done) + 1
      <4>1. done'[i] = (outcome[a] = "nil")
        BY <3>1, <3>3 DEF Report, TypeOK
      <4>2. a \in clientMap /\ worker[a] # "call"
        BY <3>1 DEF Report, StartInv
      <4> QED BY <1>1, <4>1, <4>2, OutcomeStays
    <3> QED BY <1>1, <3>1, <3>2, <3>3 DEF Report, TypeOK
  <2>3. CASE Collect
    <3>1. i + 1 \in DOMAIN done /\ done'[i] = done[i + 1]
      BY <1>1, <2>3 DEF Collect, TypeOK
    <3> QED BY <2>1, <3>1
  <2>4. CASE done' = done
    BY <1>1, <2>1, <2>4
  <2> QED
    BY <2>2, <2>3, <2>4
    DEF Next, vars, Refuse, Begin, Main, TimedOut, Merge, Tick, Worker,
        CallEnds, Handle, AppendError
<1>2. ASSUME NEW a \in Servers, worker'[a] = "append"
      PROVE  outcome'[a] # "nil"
  BY <1>2
  DEF FailureInv, TypeOK, Next, vars, workers, Refuse, Begin, Main, Collect,
      TimedOut, Merge, Tick, Worker, CallEnds, Report, Handle, AppendError
<1>3. ASSUME NEW a \in multiErr' \ {Timeout}
      PROVE  a \in clientMap' /\ worker'[a] = "ended" /\ outcome'[a] # "nil"
  <2>1. CASE a \in multiErr
    BY <1>3, <2>1, OutcomeStays DEF FailureInv
  <2>2. CASE a \notin multiErr
    <3>1. a \in Servers /\ AppendError(a)
      BY <1>3, <2>2
      DEF Next, vars, Refuse, Begin, Main, Collect, TimedOut, Merge, Tick,
          Worker, CallEnds, Report, Handle, AppendError
    <3> QED
      BY <3>1, OutcomeStays DEF AppendError, FailureInv, StartInv, TypeOK
  <2> QED BY <2>1, <2>2
<1> QED BY <1>1, <1>2, <1>3 DEF FailureInv

LEMMA DecidedStays ==
  ASSUME TypeOK, StartInv, [Next]_vars, pc # "idle", Decided
  PROVE  Decided'
<1>1. clientMap' = clientMap
  BY DEF Next, vars, Refuse, Begin, Main, Collect, TimedOut, Merge, Tick,
         Worker, CallEnds, Report, Handle, AppendError, main
<1> QED BY <1>1, OutcomeStays DEF Decided

(* The last result decides, and so does one that is a failure.             *)
LEMMA EnoughDecides ==
  ASSUME TypeOK, Expected, FailureInv, Collect, Enough(Head(done))
  PROVE  Decided
<1>1. CASE ~Head(done)
  <2>1. Len(done) \in Nat /\ Len(done) # 0 /\ done[1] = Head(done)
    BY DEF Collect, TypeOK
  <2>2. 1 \in DOMAIN done
    BY <2>1 DEF TypeOK
  <2>3. ~done[1]
    BY <1>1, <2>1
  <2> QED BY <2>2, <2>3 DEF FailureInv, Decided
<1>2. CASE lc = 1
  <2>1. /\ Len(done) \in Nat /\ Len(done) > 0
        /\ lc = Len(done) + Cardinality(Unreported)
    BY DEF Collect, Expected, TypeOK, Unreported
  <2>2. Unreported = {}
    BY <1>2, <2>1, UnreportedFinite, FS_EmptySet
  <2> QED BY <2>2 DEF Unreported, Decided
<1> QED BY <1>1, <1>2 DEF Enough

LEMMA MergeNext ==
  ASSUME TypeOK, Expected, StartInv, FailureInv, MergeInv, [Next]_vars
  PROVE  MergeInv'
<1>1. CASE Collect
  BY <1>1, EnoughDecides, DecidedStays DEF Collect, MergeInv
<1>2. CASE Refuse \/ Begin \/ TimedOut \/ Merge
  BY <1>2 DEF Refuse, Begin, TimedOut, Merge, MergeInv
<1>3. CASE Tick \/ (\E a \in Servers : Worker(a)) \/ UNCHANGED vars
  <2>1. UNCHANGED <<pc, result>> /\ multiErr \subseteq multiErr'
    BY <1>3 DEF Tick, Worker, CallEnds, Report, Handle, AppendError, main,
                vars
  <2> QED BY <2>1, DecidedStays DEF MergeInv
<1> QED BY <1>1, <1>2, <1>3 DEF Next, Main

LEMMA CauseNext ==
  ASSUME TypeOK, StartInv, FailureInv, MergeInv, ResultHasCause, [Next]_vars
  PROVE  ResultHasCause'
<1>1. CASE Refuse
  BY <1>1 DEF Refuse, StartInv, ResultHasCause
<1>2. CASE Merge
  <2>1. UNCHANGED <<clientMap, workers, multiErr>>
        /\ pc = "merge" /\ result' = IF multiErr = {} THEN "nil" ELSE "error"
    BY <1>2 DEF Merge
  <2>2. CASE multiErr = {}
    BY <2>1, <2>2 DEF MergeInv, Decided, ResultHasCause, workers
  <2>3. CASE multiErr # {}
    BY <2>1, <2>3 DEF FailureInv, ResultHasCause, workers
  <2> QED BY <2>2, <2>3
<1>3. CASE result' = result /\ result # "none"
  <2>1. pc # "idle" /\ clientMap' = clientMap
    BY <1>3
    DEF MergeInv, Next, vars, Refuse, Begin, Main, Collect, TimedOut, Merge,
        Tick, Worker, CallEnds, Report, Handle, AppendError, main
  <2>2. multiErr \subseteq multiErr'
    BY DEF Next, vars, Refuse, Begin, Main, Collect, TimedOut, Merge,
           Tick, Worker, CallEnds, Report, Handle, AppendError
  <2>3. result = "nil" => Decided
    BY DEF ResultHasCause, Decided
  <2>4. result = "nil" => Decided'
    BY <2>1, <2>3, DecidedStays
  <2>5. result = "error" =>
          \/ clientMap = {} \/ Timeout \in multiErr
          \/ \E a \in clientMap : worker[a] = "ended" /\ outcome[a] # "nil"
    BY DEF ResultHasCause
  <2> QED
    BY <1>3, <2>1, <2>2, <2>4, <2>5, OutcomeStays DEF ResultHasCause, Decided
<1>4. CASE result' = "none"
  BY <1>4 DEF ResultHasCause
<1> QED
  BY <1>1, <1>2, <1>3, <1>4
  DEF Next, vars, Begin, Main, Collect, TimedOut, Tick, Worker, CallEnds,
      Report, Handle, AppendError, main

LEMMA CopyNext ==
  ASSUME TypeOK, StartInv, FailureInv, CopyInv, [Next]_vars
  PROVE  CopyInv'
<1>1. CASE Refuse
  BY <1>1 DEF Refuse, StartInv, CopyInv
<1>2. CASE Begin
  <2>1. PICK S \in (SUBSET Servers) \ {{}} :
          /\ clientMap' = S
          /\ worker' = [a \in Servers |-> IF a \in S THEN "call" ELSE "none"]
    BY <1>2 DEF Begin
  <2>2. \A a \in S : worker'[a] = "call"
    BY <2>1
  <2> QED BY <2>1, <2>2 DEF CopyInv
<1>3. CASE Main \/ Tick \/ UNCHANGED vars
  BY <1>3 DEF CopyInv, Main, Collect, TimedOut, Merge, Tick, vars, workers
<1>4. ASSUME NEW a \in Servers, Worker(a)
      PROVE  CopyInv'
  <2>1. UNCHANGED <<pc, clientMap, result>>
    BY <1>4 DEF Worker, CallEnds, Report, Handle, AppendError, main
  <2>2. \A b \in clientMap \ {a} :
          worker'[b] = worker[b] /\ outcome'[b] = outcome[b]
    BY <1>4 DEF Worker, CallEnds, Report, Handle, AppendError, TypeOK
  <2>3. reply # NoServer => reply' # NoServer
    BY <1>4 DEF Worker, CallEnds, Report, Handle, AppendError
  <2>4. /\ worker'[a] # "none"
        /\ worker'[a] = "ended" /\ outcome'[a] = "nil" => reply' # NoServer
    <3>1. CASE CallEnds(a) \/ Report(a)
      BY <3>1 DEF CallEnds, Report, TypeOK
    <3>2. CASE Handle(a)
      BY <3>2, ServersAssumption DEF Handle, TypeOK
    <3>3. CASE AppendError(a)
      BY <3>3 DEF AppendError, FailureInv, TypeOK
    <3> QED BY <1>4, <3>1, <3>2, <3>3 DEF Worker
  <2> QED BY <2>1, <2>2, <2>3, <2>4 DEF CopyInv
<1> QED BY <1>1, <1>2, <1>3, <1>4 DEF Next

-----------------------------------------------------------------------------
LEMMA InitInv == Init => IInv
<1> SUFFICES ASSUME Init PROVE IInv
  OBVIOUS
<1>1. Cardinality(Servers) \in Nat
  BY ServersAssumption, FS_CardinalityType
<1>2. TypeOK
  BY <1>1 DEF Init, TypeOK, Outcomes
<1> QED
  BY <1>1, <1>2, FS_EmptySet
  DEF Init, IInv, Expected, RoomInv, StartInv, FailureInv, MergeInv,
      ResultHasCause, CopyInv

LEMMA NextInv == IInv /\ [Next]_vars => IInv'
<1> SUFFICES ASSUME IInv, [Next]_vars PROVE IInv'
  OBVIOUS
<1>1. TypeOK' /\ Expected'
  BY LocalTypeNext, ExpectedNext DEF IInv, LocalTypeOK, TypeOK
<1> QED
  BY <1>1, RoomNext, StartNext, FailureNext, MergeNext, CauseNext,
     CopyNext DEF IInv

LEMMA Inductive == Spec => []IInv
BY InitInv, NextInv, PTL DEF Spec

(* The values of the state; lc never falls below zero (xclient.go:240).    *)
THEOREM TypeCorrect == Spec => []TypeOK
<1>1. IInv => TypeOK
  BY DEF IInv
<1> QED BY <1>1, Inductive, PTL

(* lc is what is in the channel and what is still to come, also after      *)
(* Broadcast has left the loop (xclient.go:211, 240).                      *)
THEOREM NoReportLost == Spec => []Expected
<1>1. IInv => Expected
  BY DEF IInv
<1> QED BY <1>1, Inductive, PTL

(* So every goroutine finds room for its report and none waits for ever on *)
(* a channel that nobody reads any more (xclient.go:211).                  *)
THEOREM ReportsNeverWait == Spec => []AlwaysRoom
<1>1. IInv => AlwaysRoom
  <2> SUFFICES ASSUME IInv, NEW a \in Servers, worker[a] = "report"
               PROVE  Len(done) < Cardinality(clientMap)
    BY DEF AlwaysRoom, Room
  <2>1. a \in Unreported /\ pc # "idle"
    BY DEF IInv, StartInv, Unreported
  <2>2. /\ IsFiniteSet(Unreported) /\ Cardinality(Unreported) \in Nat
        /\ Cardinality(clientMap) \in Nat
    BY UnreportedFinite DEF IInv
  <2>3. Cardinality(Unreported) # 0
    BY <2>1, <2>2, FS_EmptySet
  <2>4. lc = Len(done) + Cardinality(Unreported) /\ Len(done) \in Nat
        /\ lc <= Cardinality(clientMap)
    BY <2>1 DEF IInv, TypeOK, Expected, RoomInv, Unreported
  <2> QED BY <2>2, <2>3, <2>4
<1> QED BY <1>1, Inductive, PTL

(* nil is not returned over the head of a running call, unless a failure   *)
(* is known; an error has a cause (xclient.go:242, 246, 252).              *)
THEOREM ResultCaused == Spec => []ResultHasCause
<1>1. IInv => ResultHasCause
  BY DEF IInv
<1> QED BY <1>1, Inductive, PTL

(* nil brings a reply, or one is on its way, unless a server has failed,   *)
(* whatever the order of reports, copies and merge (xclient.go:219, 226).  *)
THEOREM NilHasReply == Spec => []NilBringsReply
<1>1. IInv => NilBringsReply
  <2> SUFFICES ASSUME IInv, result = "nil", reply = NoServer,
                      \A a \in clientMap : outcome[a] = "nil"
               PROVE  \E a \in clientMap :
                        worker[a] = "handle" /\ outcome[a] = "nil"
    BY DEF NilBringsReply
  <2>1. PICK a \in clientMap : TRUE
    BY DEF IInv, CopyInv
  <2>2. worker[a] \notin {"none", "call", "report", "ended"}
    BY DEF IInv, CopyInv, ResultHasCause
  <2>3. worker[a] # "append"
    BY DEF IInv, FailureInv, TypeOK
  <2>4. worker[a] = "handle"
    BY <2>2, <2>3 DEF IInv, TypeOK
  <2> QED BY <2>4
<1> QED BY <1>1, Inductive, PTL
=============================================================================
