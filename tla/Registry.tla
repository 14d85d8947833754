------------------------------ MODULE Registry ------------------------------
(***************************************************************************)
(* Servers and the registries their plugins write (server/plugin.go, the   *)
(* registration of server/server.go, server_plugin/consul.go).  A server   *)
(* process registers services in serviceMap and then, plugin by plugin, at *)
(* the consul agent of each; when Serve returns it unregisters them.  A    *)
(* process may crash and be started again.  The consul agents are the      *)
(* environment: they lose answers and remove what does not answer /health. *)
(***************************************************************************)
EXTENDS Naturals, FiniteSets

CONSTANTS
  Servers,
  Services,   (* those whose type has a method to export: others are       *)
              (* refused before anything changes                           *)
  Agents,     (* consul agents                                             *)
  MaxTrials,  (* bound: the plugins of a server, its restarts and repeated *)
              (* registrations together                                    *)
  NoName

(* The ID a service is registered under, "name-host:port".                 *)
ID(n, s) == <<n, s>>

(* No service has the ID of a service for its name.                        *)
ASSUME RegistryAssumption ==
  /\ NoName \notin Services
  /\ \A n \in Services, s \in Servers : ID(n, s) \notin Services \cup {NoName}
  /\ MaxTrials \in Nat

VARIABLES
  plugins,     (* the agents a server has a ConsulPlugin for, in Plugins   *)
  (* the process: init (Serve has not been called), serving, leaving       *)
  (* (UnregisterAll), down; how often it has been started or has           *)
  (* registered a service again                                            *)
  phase, trials,
  serviceMap,
  (* the calls of Register under way, by their names; the plugins each has *)
  (* yet to try, and those that failed in the last call for a name (errs); *)
  (* what is left for UnregisterAll                                        *)
  calls, todo, errs, leaving,
  serviceName, (* ConsulPlugin.ServiceName of each plugin                  *)
  catalog,     (* consul: the IDs registered at each agent                 *)
  reaped       (* history: what an agent has removed since it was made     *)

call     == <<calls, todo, errs>>
process  == <<phase, trials, serviceMap, call, leaving, serviceName>>
registry == <<plugins, process, catalog, reaped>>

List(a, id) == catalog' = [catalog EXCEPT ![a] = @ \cup {id}]

Unlist(a, id) == catalog' = [catalog EXCEPT ![a] = @ \ {id}]

(* What a service may have at each agent.                                  *)
Entries(n) == {n} \X Agents

-----------------------------------------------------------------------------
(***************************************************************************)
(* Faulty variants of definitions below, none of them part of Spec.        *)
(***************************************************************************)
(* DoRegister stops at the first plugin that fails.                        *)
RegisterAtFirstError(s, n, a) ==
  /\ <<n, a>> \in todo[s]
  /\ serviceName' = [serviceName EXCEPT ![s][a] = n]
  /\ \/ /\ List(a, ID(n, s))
        /\ todo' = [todo EXCEPT ![s] = @ \ {<<n, a>>}]
        /\ reaped' = [reaped EXCEPT ![s] = @ \ {<<n, a>>}]
        /\ UNCHANGED errs
     \/ /\ todo' = [todo EXCEPT ![s] = @ \ Entries(n)]
        /\ errs' = [errs EXCEPT ![s] = @ \cup {<<n, a>>}]
        /\ UNCHANGED <<catalog, reaped>>
  /\ UNCHANGED <<plugins, phase, trials, serviceMap, calls, leaving>>

(* Register undoes what the other plugins did when one of them fails.      *)
RegisterOrUndo(s, n) ==
  /\ n \in calls[s]
  /\ todo[s] \cap Entries(n) = {}
  /\ calls' = [calls EXCEPT ![s] = @ \ {n}]
  /\ catalog' = IF errs[s] \cap Entries(n) = {} THEN catalog
                ELSE [a \in Agents |-> catalog[a] \ {ID(n, s)}]
  /\ UNCHANGED <<plugins, phase, trials, serviceMap, todo, errs, leaving,
                 serviceName, reaped>>

-----------------------------------------------------------------------------
RegistryInit ==
  /\ plugins \in (SUBSET Agents) \ {{}}
  /\ phase = [s \in Servers |-> "init"]
  /\ trials = [s \in Servers |-> 1]
  /\ serviceMap = [s \in Servers |-> {}]
  /\ calls = [s \in Servers |-> {}]
  /\ todo = [s \in Servers |-> {}]
  /\ leaving = [s \in Servers |-> {}]
  /\ serviceName = [s \in Servers |-> [a \in Agents |-> NoName]]
  /\ catalog = [a \in Agents |-> {}]
  /\ errs = [s \in Servers |-> {}]
  /\ reaped = [s \in Servers |-> {}]

(* Bound.                                                                  *)
Again(s) ==
  /\ trials[s] + Cardinality(plugins) <= MaxTrials
  /\ trials' = [trials EXCEPT ![s] = @ + 1]

(* Register or RegisterName: register, under serviceMapLock, which         *)
(* UnregisterAll holds.  Calls overlap, but no two for one name.           *)
Register(s, n) ==
  /\ phase[s] \in {"init", "serving"}
  /\ n \notin calls[s]
  /\ IF n \in serviceMap[s] THEN Again(s) ELSE UNCHANGED trials
  /\ serviceMap' = [serviceMap EXCEPT ![s] = @ \cup {n}]
  /\ calls' = [calls EXCEPT ![s] = @ \cup {n}]
  /\ todo' = [todo EXCEPT ![s] = @ \cup ({n} \X plugins)]
  /\ errs' = [errs EXCEPT ![s] = @ \ Entries(n)]
  /\ UNCHANGED <<plugins, phase, leaving, serviceName, catalog, reaped>>

(* One turn of the loop of DoRegister, with ConsulPlugin.Register: it may  *)
(* fail before anything is sent, at the agent, or when the answer is lost. *)
RegisterAt(s, n, a) ==
  /\ <<n, a>> \in todo[s]
  /\ serviceName' = [serviceName EXCEPT ![s][a] = n]
  /\ \/ /\ List(a, ID(n, s))
        /\ reaped' = [reaped EXCEPT ![s] = @ \ {<<n, a>>}]
        /\ \/ UNCHANGED errs
           \/ errs' = [errs EXCEPT ![s] = @ \cup {<<n, a>>}]
     \/ /\ errs' = [errs EXCEPT ![s] = @ \cup {<<n, a>>}]
        /\ UNCHANGED <<catalog, reaped>>
  /\ todo' = [todo EXCEPT ![s] = @ \ {<<n, a>>}]
  /\ UNCHANGED <<plugins, phase, trials, serviceMap, calls, leaving>>

(* Register returns a MultiError of the errs, or nil if there are none.    *)
RegisterReturns(s, n) ==
  /\ n \in calls[s]
  /\ todo[s] \cap Entries(n) = {}
  /\ calls' = [calls EXCEPT ![s] = @ \ {n}]
  /\ UNCHANGED <<plugins, phase, trials, serviceMap, todo, errs, leaving,
                 serviceName, catalog, reaped>>

Serve(s) ==
  /\ phase[s] = "init"
  /\ phase' = [phase EXCEPT ![s] = "serving"]
  /\ UNCHANGED <<plugins, trials, serviceMap, call, leaving, serviceName,
                 catalog, reaped>>

(* The listener is closed: the deferred UnregisterAll begins.              *)
ServeReturns(s) ==
  /\ phase[s] = "serving"
  /\ phase' = [phase EXCEPT ![s] = "leaving"]
  /\ leaving' = [leaving EXCEPT ![s] = serviceMap[s] \X plugins]
  /\ UNCHANGED <<plugins, trials, serviceMap, call, serviceName, catalog,
                 reaped>>

(* One turn of the loops of UnregisterAll and DoUnRegister: the plugin     *)
(* deregisters the ID that is its ServiceName, whatever name it is given;  *)
(* it may fail.                                                            *)
UnRegister(s, n, a) ==
  /\ phase[s] = "leaving"
  /\ <<n, a>> \in leaving[s]
  /\ \/ Unlist(a, serviceName[s][a])
     \/ UNCHANGED catalog
  /\ leaving' = [leaving EXCEPT ![s] = @ \ {<<n, a>>}]
  /\ UNCHANGED <<plugins, phase, trials, serviceMap, call, serviceName,
                 reaped>>

(***************************************************************************)
(* Processes end, and are started again; consul removes a service that     *)
(* does not answer at /health for too long.                                *)
(***************************************************************************)
(* The process ends, orderly or not.                                      *)
Crash(s) ==
  /\ phase[s] # "down"
  /\ phase' = [phase EXCEPT ![s] = "down"]
  /\ serviceMap' = [serviceMap EXCEPT ![s] = {}]
  /\ calls' = [calls EXCEPT ![s] = {}]
  /\ todo' = [todo EXCEPT ![s] = {}]
  /\ leaving' = [leaving EXCEPT ![s] = {}]
  /\ serviceName' = [serviceName EXCEPT ![s] = [a \in Agents |-> NoName]]
  /\ errs' = [errs EXCEPT ![s] = {}]
  /\ reaped' = [reaped EXCEPT ![s] = {}]
  /\ UNCHANGED <<plugins, trials, catalog>>

Restart(s) ==
  /\ phase[s] = "down"
  /\ Again(s)
  /\ phase' = [phase EXCEPT ![s] = "init"]
  /\ UNCHANGED <<plugins, serviceMap, call, leaving, serviceName, catalog,
                 reaped>>

Reap(a, n, s) ==
  /\ ID(n, s) \in catalog[a]
  /\ phase[s] # "serving"
  /\ Unlist(a, ID(n, s))
  /\ reaped' = IF n \notin serviceMap[s] THEN reaped
               ELSE [reaped EXCEPT ![s] = @ \cup {<<n, a>>}]
  /\ UNCHANGED <<plugins, process>>

RegistryNext ==
  \/ \E s \in Servers :
       \/ \E n \in Services : Register(s, n) \/ RegisterReturns(s, n)
       \/ \E n \in Services, a \in Agents :
            RegisterAt(s, n, a) \/ UnRegister(s, n, a)
       \/ Serve(s) \/ ServeReturns(s)
       \/ Crash(s) \/ Restart(s)
  \/ \E a \in Agents, n \in Services, s \in Servers : Reap(a, n, s)

RegistrySpec == RegistryInit /\ [][RegistryNext]_registry

(* Consul checks the health of what it lists.                              *)
Reaping ==
  \A a \in Agents, n \in Services, s \in Servers : WF_registry(Reap(a, n, s))

-----------------------------------------------------------------------------
(***************************************************************************)
(* Properties.                                                             *)
(***************************************************************************)
RegistryTypeOK ==
  /\ phase \in [Servers -> {"init", "serving", "leaving", "down"}]
  /\ trials \in [Servers -> Nat]
  /\ plugins \subseteq Agents
  /\ serviceMap \in [Servers -> SUBSET Services]
  /\ calls \in [Servers -> SUBSET Services]
  /\ todo \in [Servers -> SUBSET (Services \X Agents)]
  /\ errs \in [Servers -> SUBSET (Services \X Agents)]
  /\ leaving \in [Servers -> SUBSET (Services \X Agents)]
  /\ serviceName \in [Servers -> [Agents -> Services \cup {NoName}]]
  /\ catalog \in [Agents -> SUBSET (Services \X Servers)]
  /\ reaped \in [Servers -> SUBSET (Services \X Agents)]

(* When Register returns, the service is in serviceMap, and every agent    *)
(* lists it whose plugin has not failed, unless it has removed it itself:  *)
(* all of them if Register returns nil (server.go:107, plugin.go:73).      *)
RegisterTellsTruth ==
  \A s \in Servers : \A n \in calls[s] :
    todo[s] \cap Entries(n) = {} =>
      /\ n \in serviceMap[s]
      /\ \A a \in plugins :
           ID(n, s) \in catalog[a] \/ <<n, a>> \in errs[s] \cup reaped[s]

(* A service stays listed until Serve returns, whatever other calls of     *)
(* Register, for it or for other services, do and whenever they come,      *)
(* except where the last call failed or while the agent has removed it for *)
(* not answering before Serve (server.go:107, consul.go:77).               *)
StaysListed ==
  \A s \in Servers, a \in Agents : \A n \in serviceMap[s] :
    phase[s] \in {"init", "serving"} /\ a \in plugins =>
      \/ ID(n, s) \in catalog[a]
      \/ <<n, a>> \in todo[s] \cup errs[s] \cup reaped[s]
=============================================================================
