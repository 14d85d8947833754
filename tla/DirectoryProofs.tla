--------------------------- MODULE DirectoryProofs --------------------------
(* Theorems about Directory, for any sets of servers, services and agents. *)
EXTENDS Directory, TLAPS

DP == INSTANCE DiscoveryProofs WITH Hosts <- Servers, listed <- Listed

(***************************************************************************)
(* The inductive invariant of the registry.  A call of Register under way  *)
(* has its service in serviceMap, and what is in serviceMap is listed      *)
(* where no plugin is yet to be tried or has failed: also after Serve has  *)
(* returned, as UnRegister removes nothing.                                *)
(***************************************************************************)
CallInv ==
  \A s \in Servers :
    /\ \A e \in todo[s] : e[1] \in calls[s]
    /\ calls[s] \subseteq serviceMap[s]
    /\ phase[s] = "down" => serviceMap[s] = {}

ListedInv ==
  \A s \in Servers, a \in plugins : \A n \in serviceMap[s] :
    \/ ID(n, s) \in catalog[a]
    \/ <<n, a>> \in todo[s] \cup errs[s] \cup reaped[s]

RInv == RegistryTypeOK /\ CallInv /\ ListedInv

-----------------------------------------------------------------------------
(* Different services have different IDs, and what UnRegister removes is   *)
(* no ID at all.                                                           *)
LEMMA IDs ==
  /\ \A n, m \in Services, s, t \in Servers :
       ID(n, s) = ID(m, t) => n = m /\ s = t
  /\ \A n \in Services, s \in Servers, m \in Services \cup {NoName} :
       ID(n, s) # m
BY RegistryAssumption DEF ID

LEMMA RegistryTypeNext ==
  ASSUME RegistryTypeOK, RegistryNext
  PROVE  RegistryTypeOK'
<1>1. ASSUME NEW s \in Servers, NEW n \in Services, Register(s, n)
      PROVE  RegistryTypeOK'
  <2>1. trials' \in [Servers -> Nat]
    BY <1>1 DEF RegistryTypeOK, Register, Again
  <2>2. {n} \X plugins \subseteq Services \X Agents
    BY DEF RegistryTypeOK
  <2>3. /\ todo' \in [Servers -> SUBSET (Services \X Agents)]
        /\ errs' \in [Servers -> SUBSET (Services \X Agents)]
    <3>1. todo' = [todo EXCEPT ![s] = @ \cup ({n} \X plugins)]
          /\ errs' = [errs EXCEPT ![s] = @ \ Entries(n)]
      BY <1>1 DEF Register
    <3> QED BY <2>2, <3>1 DEF RegistryTypeOK
  <2>4. /\ serviceMap' \in [Servers -> SUBSET Services]
        /\ calls' \in [Servers -> SUBSET Services]
    BY <1>1 DEF RegistryTypeOK, Register
  <2>5. UNCHANGED <<plugins, phase, leaving, serviceName, catalog, reaped>>
    BY <1>1 DEF Register
  <2> QED BY <2>1, <2>3, <2>4, <2>5 DEF RegistryTypeOK
<1>2. ASSUME NEW s \in Servers, NEW n \in Services, NEW a \in Agents,
             RegisterAt(s, n, a)
      PROVE  RegistryTypeOK'
  <2>1. catalog' \in [Agents -> SUBSET (Services \X Servers)]
    <3>1. ID(n, s) \in Services \X Servers
      BY DEF ID
    <3>2. \/ catalog' = [catalog EXCEPT ![a] = @ \cup {ID(n, s)}]
          \/ catalog' = catalog
      BY <1>2 DEF RegisterAt, List
    <3> QED BY <3>1, <3>2 DEF RegistryTypeOK
  <2>2. serviceName' \in [Servers -> [Agents -> Services \cup {NoName}]]
    BY <1>2 DEF RegistryTypeOK, RegisterAt
  <2>3. errs' \in [Servers -> SUBSET (Services \X Agents)]
    <3>1. \/ errs' = [errs EXCEPT ![s] = @ \cup {<<n, a>>}]
          \/ errs' = errs
      BY <1>2 DEF RegisterAt
    <3> QED BY <3>1 DEF RegistryTypeOK
  <2>4. /\ todo' \in [Servers -> SUBSET (Services \X Agents)]
        /\ reaped' \in [Servers -> SUBSET (Services \X Agents)]
    <3>1. todo' = [todo EXCEPT ![s] = @ \ {<<n, a>>}]
      BY <1>2 DEF RegisterAt
    <3>2. \/ reaped' = [reaped EXCEPT ![s] = @ \ {<<n, a>>}]
          \/ reaped' = reaped
      BY <1>2 DEF RegisterAt
    <3> QED BY <3>1, <3>2 DEF RegistryTypeOK
  <2>5. UNCHANGED <<plugins, phase, trials, serviceMap, calls, leaving>>
    BY <1>2 DEF RegisterAt
  <2> QED BY <2>1, <2>2, <2>3, <2>4, <2>5 DEF RegistryTypeOK
<1>3. ASSUME NEW s \in Servers,
             \/ \E n \in Services : RegisterReturns(s, n)
             \/ Serve(s) \/ Restart(s)
      PROVE  RegistryTypeOK'
  <2>1. ASSUME NEW n \in Services, RegisterReturns(s, n)
        PROVE  RegistryTypeOK'
    BY <2>1 DEF RegistryTypeOK, RegisterReturns
  <2>2. CASE Serve(s)
    BY <2>2 DEF RegistryTypeOK, Serve, call
  <2>3. CASE Restart(s)
    <3>1. trials' \in [Servers -> Nat]
      BY <2>3 DEF RegistryTypeOK, Restart, Again
    <3>2. phase' \in [Servers -> {"init", "serving", "leaving", "down"}]
      BY <2>3 DEF RegistryTypeOK, Restart
    <3>3. UNCHANGED <<plugins, serviceMap, calls, todo, errs, leaving,
                      serviceName, catalog, reaped>>
      BY <2>3 DEF Restart, call
    <3> QED BY <3>1, <3>2, <3>3 DEF RegistryTypeOK
  <2> QED BY <1>3, <2>1, <2>2, <2>3
<1>4. ASSUME NEW s \in Servers, ServeReturns(s)
      PROVE  RegistryTypeOK'
  BY <1>4 DEF RegistryTypeOK, ServeReturns, call
<1>5. ASSUME NEW s \in Servers, NEW n \in Services, NEW a \in Agents,
             UnRegister(s, n, a)
      PROVE  RegistryTypeOK'
  <2>1. catalog' \in [Agents -> SUBSET (Services \X Servers)]
    <3>1. \/ catalog' = [catalog EXCEPT ![a] = @ \ {serviceName[s][a]}]
          \/ catalog' = catalog
      BY <1>5 DEF UnRegister, Unlist
    <3>2. catalog \in [Agents -> SUBSET (Services \X Servers)]
      BY DEF RegistryTypeOK
    <3> QED BY <3>1, <3>2
  <2>2. leaving' \in [Servers -> SUBSET (Services \X Agents)]
    <3>1. leaving' = [leaving EXCEPT ![s] = @ \ {<<n, a>>}]
      BY <1>5 DEF UnRegister
    <3> QED BY <3>1 DEF RegistryTypeOK
  <2>3. UNCHANGED <<plugins, phase, trials, serviceMap, calls, todo, errs,
                    serviceName, reaped>>
    BY <1>5 DEF UnRegister, call
  <2> QED BY <2>1, <2>2, <2>3 DEF RegistryTypeOK
<1>6. ASSUME NEW s \in Servers, Crash(s)
      PROVE  RegistryTypeOK'
  BY <1>6 DEF RegistryTypeOK, Crash
<1>7. ASSUME NEW a \in Agents, NEW n \in Services, NEW s \in Servers,
             Reap(a, n, s)
      PROVE  RegistryTypeOK'
  <2>1. \/ reaped' = [reaped EXCEPT ![s] = @ \cup {<<n, a>>}]
        \/ reaped' = reaped
    BY <1>7 DEF Reap
  <2>2. reaped' \in [Servers -> SUBSET (Services \X Agents)]
    BY <2>1 DEF RegistryTypeOK
  <2>3. catalog' = [catalog EXCEPT ![a] = @ \ {ID(n, s)}]
        /\ UNCHANGED <<plugins, process>>
    BY <1>7 DEF Reap, Unlist
  <2> QED BY <2>2, <2>3 DEF RegistryTypeOK, process, call
<1> QED BY <1>1, <1>2, <1>3, <1>4, <1>5, <1>6, <1>7 DEF RegistryNext

LEMMA CallNext ==
  ASSUME RegistryTypeOK, CallInv, RegistryNext
  PROVE  CallInv'
<1>1. ASSUME NEW s \in Servers, NEW n \in Services, Register(s, n)
      PROVE  CallInv'
  <2>1. \A e \in {n} \X plugins : e[1] = n
    OBVIOUS
  <2> QED BY <1>1, <2>1 DEF RegistryTypeOK, CallInv, Register
<1>2. ASSUME NEW s \in Servers, NEW n \in Services, NEW a \in Agents,
             RegisterAt(s, n, a)
      PROVE  CallInv'
  BY <1>2 DEF RegistryTypeOK, CallInv, RegisterAt
<1>3. ASSUME NEW s \in Servers, NEW n \in Services, RegisterReturns(s, n)
      PROVE  CallInv'
  <2>1. \A e \in todo[s] : e[1] # n
    <3> SUFFICES ASSUME NEW e \in todo[s], e[1] = n PROVE FALSE
      OBVIOUS
    <3>1. e \in Services \X Agents
      BY DEF RegistryTypeOK
    <3>2. e \in Entries(n)
      BY <3>1 DEF Entries
    <3> QED BY <1>3, <3>2 DEF RegisterReturns
  <2> QED BY <1>3, <2>1 DEF RegistryTypeOK, CallInv, RegisterReturns
<1>4. ASSUME NEW s \in Servers,
             Serve(s) \/ ServeReturns(s) \/ Crash(s) \/ Restart(s)
      PROVE  CallInv'
  <2>1. CASE Serve(s) \/ ServeReturns(s)
    BY <2>1 DEF RegistryTypeOK, CallInv, Serve, ServeReturns, call
  <2>2. CASE Crash(s)
    BY <2>2 DEF RegistryTypeOK, CallInv, Crash
  <2>3. CASE Restart(s)
    BY <2>3 DEF RegistryTypeOK, CallInv, Restart, call
  <2> QED BY <1>4, <2>1, <2>2, <2>3
<1>5. ASSUME NEW s \in Servers, NEW n \in Services, NEW a \in Agents,
             UnRegister(s, n, a) \/ Reap(a, n, s)
      PROVE  CallInv'
  BY <1>5 DEF CallInv, UnRegister, Reap, process, call
<1> QED BY <1>1, <1>2, <1>3, <1>4, <1>5 DEF RegistryNext

LEMMA ListedNext ==
  ASSUME RegistryTypeOK, CallInv, ListedInv, RegistryNext
  PROVE  ListedInv'
<1>0. plugins' = plugins /\ plugins \subseteq Agents
  <2>1. plugins' = plugins
    <3>1. ASSUME NEW s \in Servers
          PROVE  /\ Serve(s) => UNCHANGED plugins
                 /\ ServeReturns(s) => UNCHANGED plugins
                 /\ Crash(s) => UNCHANGED plugins
                 /\ Restart(s) => UNCHANGED plugins
      BY DEF Serve, ServeReturns, Crash, Restart
    <3>2. ASSUME NEW s \in Servers, NEW n \in Services
          PROVE  /\ Register(s, n) => UNCHANGED plugins
                 /\ RegisterReturns(s, n) => UNCHANGED plugins
      BY DEF Register, RegisterReturns
    <3>3. ASSUME NEW s \in Servers, NEW n \in Services, NEW a \in Agents
          PROVE  /\ RegisterAt(s, n, a) => UNCHANGED plugins
                 /\ UnRegister(s, n, a) => UNCHANGED plugins
                 /\ Reap(a, n, s) => UNCHANGED plugins
      BY DEF RegisterAt, UnRegister, Reap
    <3> QED BY <3>1, <3>2, <3>3, Zenon DEF RegistryNext
  <2> QED BY <2>1 DEF RegistryTypeOK
<1>1. ASSUME NEW s \in Servers, NEW n \in Services, Register(s, n)
      PROVE  ListedInv'
  <2>1. /\ todo[s] \subseteq todo'[s]
        /\ \A a \in plugins : <<n, a>> \in todo'[s]
        /\ \A m \in Services \ {n}, a \in plugins :
             <<m, a>> \in errs[s] => <<m, a>> \in errs'[s]
        /\ serviceMap'[s] = serviceMap[s] \cup {n}
        /\ UNCHANGED <<catalog, reaped>>
    BY <1>1 DEF RegistryTypeOK, Register, Entries
  <2>2. \A q \in Servers \ {s} : /\ todo'[q] = todo[q] /\ errs'[q] = errs[q]
                                 /\ serviceMap'[q] = serviceMap[q]
    BY <1>1 DEF RegistryTypeOK, Register
  <2>3. \A q \in Servers : serviceMap[q] \subseteq Services
    BY DEF RegistryTypeOK
  <2> QED BY <1>0, <2>1, <2>2, <2>3 DEF ListedInv
<1>2. ASSUME NEW s \in Servers, NEW n \in Services, NEW a \in Agents,
             RegisterAt(s, n, a)
      PROVE  ListedInv'
  <2>1. \A b \in Agents : catalog[b] \subseteq catalog'[b]
    <3>1. \/ catalog' = [catalog EXCEPT ![a] = @ \cup {ID(n, s)}]
          \/ catalog' = catalog
      BY <1>2 DEF RegisterAt, List
    <3> QED BY <3>1 DEF RegistryTypeOK
  <2>2. <<n, a>> \in errs'[s] \/ ID(n, s) \in catalog'[a]
    <3>1. \/ catalog' = [catalog EXCEPT ![a] = @ \cup {ID(n, s)}]
          \/ errs' = [errs EXCEPT ![s] = @ \cup {<<n, a>>}]
      BY <1>2 DEF RegisterAt, List
    <3> QED BY <3>1 DEF RegistryTypeOK
  <2>3. /\ errs[s] \subseteq errs'[s] /\ todo'[s] = todo[s] \ {<<n, a>>}
        /\ reaped[s] \ {<<n, a>>} \subseteq reaped'[s]
        /\ \A q \in Servers \ {s} : /\ errs'[q] = errs[q]
                                     /\ todo'[q] = todo[q]
                                     /\ reaped'[q] = reaped[q]
    BY <1>2 DEF RegistryTypeOK, RegisterAt
  <2>4. serviceMap' = serviceMap
    BY <1>2 DEF RegisterAt
  <2>5. ASSUME NEW t \in Servers, NEW b \in plugins, NEW m \in serviceMap[t]
        PROVE  \/ ID(m, t) \in catalog'[b]
               \/ <<m, b>> \in todo'[t] \cup errs'[t] \cup reaped'[t]
    <3>1. CASE t = s /\ m = n /\ b = a
      BY <2>2, <3>1
    <3>2. CASE t # s \/ <<m, b>> # <<n, a>>
      BY <1>0, <2>1, <2>3, <3>2 DEF ListedInv
    <3> QED BY <3>1, <3>2
  <2> QED BY <1>0, <2>4, <2>5 DEF ListedInv
<1>3. ASSUME NEW s \in Servers,
             \/ \E n \in Services : RegisterReturns(s, n)
             \/ Serve(s) \/ ServeReturns(s) \/ Restart(s)
      PROVE  ListedInv'
  BY <1>3 DEF ListedInv, RegisterReturns, Serve, ServeReturns, Restart, call
<1>4. ASSUME NEW s \in Servers, Crash(s)
      PROVE  ListedInv'
  BY <1>0, <1>4 DEF RegistryTypeOK, ListedInv, Crash
<1>5. ASSUME NEW s \in Servers, NEW n \in Services, NEW a \in Agents,
             UnRegister(s, n, a)
      PROVE  ListedInv'
  <2>1. serviceName[s][a] \in Services \cup {NoName}
    BY DEF RegistryTypeOK
  <2>2. \/ catalog' = [catalog EXCEPT ![a] = @ \ {serviceName[s][a]}]
        \/ catalog' = catalog
    BY <1>5 DEF UnRegister, Unlist
  <2>3. \A b \in Agents, t \in Servers, m \in Services :
          ID(m, t) \in catalog[b] => ID(m, t) \in catalog'[b]
    <3>1. \A t \in Servers, m \in Services : ID(m, t) # serviceName[s][a]
      BY <2>1, IDs
    <3> QED BY <2>2, <3>1 DEF RegistryTypeOK
  <2>4. \A t \in Servers : serviceMap[t] \subseteq Services
    BY DEF RegistryTypeOK
  <2> QED BY <1>0, <1>5, <2>3, <2>4 DEF ListedInv, UnRegister, call
<1>6. ASSUME NEW a \in Agents, NEW n \in Services, NEW s \in Servers,
             Reap(a, n, s)
      PROVE  ListedInv'
  <2>1. \A b \in Agents, t \in Servers, m \in Services :
          ID(m, t) \in catalog[b] =>
            ID(m, t) \in catalog'[b] \/ (b = a /\ t = s /\ m = n)
    BY <1>6, IDs DEF RegistryTypeOK, Reap, Unlist
  <2>2. /\ \A t \in Servers : reaped[t] \subseteq reaped'[t]
        /\ n \in serviceMap[s] => <<n, a>> \in reaped'[s]
    BY <1>6 DEF RegistryTypeOK, Reap
  <2>3. \A t \in Servers : serviceMap[t] \subseteq Services
    BY DEF RegistryTypeOK
  <2>4. UNCHANGED <<serviceMap, todo, errs>>
    BY <1>6 DEF Reap, process, call
  <2> QED BY <1>0, <2>1, <2>2, <2>3, <2>4 DEF ListedInv
<1> QED BY <1>1, <1>2, <1>3, <1>4, <1>5, <1>6 DEF RegistryNext

-----------------------------------------------------------------------------
LEMMA RegistryInitInv == Init => RInv
BY RegistryAssumption
DEF Init, RegistryInit, RInv, RegistryTypeOK, CallInv, ListedInv

LEMMA RegistryNextInv == RInv /\ [Next]_vars => RInv'
<1> SUFFICES ASSUME RInv, [Next]_vars PROVE RInv'
  OBVIOUS
<1>1. CASE RegistryNext
  BY <1>1, RegistryTypeNext, CallNext, ListedNext DEF RInv
<1>2. CASE UNCHANGED registry
  BY <1>2 DEF RInv, RegistryTypeOK, CallInv, ListedInv, registry, process,
              call
<1> QED BY <1>1, <1>2 DEF Next, vars

LEMMA RegistryInductive == Spec => []RInv
BY RegistryInitInv, RegistryNextInv, PTL DEF Spec

(* A service that Register returns for is in serviceMap, and listed by     *)
(* every agent whose plugin did not fail, whatever the number of plugins   *)
(* and of calls, and however other servers come and go (server.go:107,     *)
(* plugin.go:73).                                                          *)
THEOREM RegisterIsTrue == Spec => []RegisterTellsTruth
<1>1. RInv => RegisterTellsTruth
  <2> SUFFICES ASSUME RInv, NEW s \in Servers, NEW n \in calls[s],
                      todo[s] \cap Entries(n) = {}
               PROVE  /\ n \in serviceMap[s]
                      /\ \A a \in plugins :
                           \/ ID(n, s) \in catalog[a]
                           \/ <<n, a>> \in errs[s] \cup reaped[s]
    BY DEF RegisterTellsTruth
  <2>1. n \in serviceMap[s] /\ plugins \subseteq Agents
    BY DEF RInv, CallInv, RegistryTypeOK
  <2>2. \A a \in plugins : <<n, a>> \notin todo[s]
    BY <2>1 DEF Entries
  <2> QED BY <2>1, <2>2 DEF RInv, ListedInv
<1> QED BY <1>1, RegistryInductive, PTL

(* Up to the end of Serve a service stays listed where its last            *)
(* registration has not failed and no agent has removed it, whatever else  *)
(* is registered meanwhile (server.go:107, consul.go:77).                  *)
THEOREM NeverDropped == Spec => []StaysListed
<1>1. RInv => StaysListed
  BY DEF RInv, ListedInv, StaysListed
<1> QED BY <1>1, RegistryInductive, PTL

-----------------------------------------------------------------------------
(***************************************************************************)
(* The watchers of the list.  A step of the registry changes nothing of    *)
(* theirs but that there is news; the rest is proved in DiscoveryProofs.   *)
(***************************************************************************)
LEMMA SameCounts ==
  /\ \A S : D!Cardinality(S) = DP!Cardinality(S)
  /\ \A S : IsFiniteSet(S) => DP!IsFiniteSet(S)
<1>1. \A S : D!IsFiniteSet(S) = DP!IsFiniteSet(S)
  BY DEF D!IsFiniteSet, DP!IsFiniteSet
<1>2. \A S : D!Cardinality(S) = DP!Cardinality(S)
  BY DEF D!Cardinality, DP!Cardinality, D!IsFiniteSet, DP!IsFiniteSet
<1>3. \A S : IsFiniteSet(S) => DP!IsFiniteSet(S)
  BY DEF IsFiniteSet, DP!IsFiniteSet
<1> QED BY <1>1, <1>2, <1>3

LEMMA SameParts ==
  /\ D!DiscoveryInit => DP!DiscoveryInit
  /\ D!DiscoveryNext => DP!DiscoveryNext
  /\ DP!DiscoveryTypeOK => D!DiscoveryTypeOK
  /\ DP!SettledIsNewest => D!SettledIsNewest
<1>1. D!DiscoveryInit => DP!DiscoveryInit
  BY SameCounts DEF D!DiscoveryInit, DP!DiscoveryInit
<1>2. D!DiscoveryNext => DP!DiscoveryNext
  <2>1. \A w : D!NewSender(w) = DP!NewSender(w)
    BY SameCounts DEF D!NewSender, DP!NewSender
  <2>2. D!Handler => DP!Handler
    <3>1. D!Notify => DP!Notify
      BY <2>1 DEF D!Notify, DP!Notify, D!setup, DP!setup
    <3> QED
      BY <3>1 DEF D!Handler, DP!Handler, D!SetPairs, DP!SetPairs, D!setup,
                  DP!setup
  <2>3. \A w \in Watchers :
          /\ D!GetService(w) => DP!GetService(w)
          /\ D!WatchService(w) => DP!WatchService(w)
          /\ D!Watch(w) => DP!Watch(w)
    BY DEF D!GetService, DP!GetService, D!WatchService, DP!WatchService,
           D!Watch, DP!Watch, D!setup, DP!setup
  <2>4. \A g : D!Send(g) => DP!Send(g)
    BY DEF D!Send, DP!Send, D!SenderReads, DP!SenderReads, D!SenderSends,
           DP!SenderSends, D!SenderDrops, DP!SenderDrops, D!setup, DP!setup
  <2>5. D!NewConsulDiscovery => DP!NewConsulDiscovery
    BY DEF D!NewConsulDiscovery, DP!NewConsulDiscovery
  <2> QED
    BY <2>2, <2>3, <2>4, <2>5 DEF D!DiscoveryNext, DP!DiscoveryNext
<1>3. DP!DiscoveryTypeOK => D!DiscoveryTypeOK
  BY DEF D!DiscoveryTypeOK, DP!DiscoveryTypeOK, D!Lists, DP!Lists
<1>4. DP!SettledIsNewest => D!SettledIsNewest
  BY DEF D!SettledIsNewest, DP!SettledIsNewest, D!Settled, DP!Settled
<1> QED BY <1>1, <1>2, <1>3, <1>4

LEMMA WatcherConstants == DP!Constants
BY DirectoryAssumption, SameCounts DEF DP!Constants

LEMMA WatchInit == Init => DP!DInv
BY SameParts, WatcherConstants, DP!InitDInv DEF Init

LEMMA WatchNext ==
  ASSUME RInv, DP!DInv, [Next]_vars
  PROVE  DP!DInv'
<1>1. Listed \subseteq Servers
  BY DEF Listed
<1>2. CASE D!DiscoveryNext
  BY <1>1, <1>2, SameParts, WatcherConstants, DP!NextDInv
<1>3. CASE RegistryNext /\ news' = (news \/ Listed' # Listed)
             /\ UNCHANGED watching
  <2>1. news' \in BOOLEAN
    BY <1>3 DEF DP!DInv, DP!DiscoveryTypeOK
  <2> QED BY <1>3, <2>1, DP!ListedDInv DEF watching
<1>4. CASE UNCHANGED vars
  <2>1. news' \in BOOLEAN
    BY <1>4 DEF DP!DInv, DP!DiscoveryTypeOK, vars
  <2> QED BY <1>4, <2>1, DP!ListedDInv DEF vars, watching
<1> QED BY <1>2, <1>3, <1>4 DEF Next

LEMMA WatchInductive == Spec => []DP!DInv
<1>1. RInv /\ DP!DInv /\ [Next]_vars => DP!DInv'
  BY WatchNext
<1> QED BY <1>1, WatchInit, RegistryInductive, PTL DEF Spec

(* Every state is of its type: no channel holds more than it has room for  *)
(* (consul_discovery.go:63), and only the pairs read while they are        *)
(* written are no list (consul_discovery.go:142).                          *)
THEOREM TypeCorrect == Spec => []TypeOK
<1>1. RInv /\ DP!DInv => TypeOK
  BY SameParts DEF RInv, DP!DInv, TypeOK
<1> QED BY <1>1, RegistryInductive, WatchInductive, PTL

(* A settled watcher has the newest list unless its history says why not,  *)
(* however many watchers, servers and changes there are                    *)
(* (consul_discovery.go:142, xclient.go:78).                               *)
THEOREM WatchersAreCurrent == Spec => []SettledIsNewest
<1>1. DP!DInv => SettledIsNewest
  BY SameParts, DP!SettledHasNewest DEF SettledIsNewest
<1> QED BY <1>1, WatchInductive, PTL
=============================================================================
