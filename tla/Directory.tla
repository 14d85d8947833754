------------------------------ MODULE Directory -----------------------------
(***************************************************************************)
(* Registry and Discovery joined at consul: the discovery of one service   *)
(* polls one of the agents at which servers register.                      *)
(***************************************************************************)
EXTENDS Registry, Sequences

CONSTANTS
  Watchers, Kinds, ChanCap, Torn,
  Service, (* the ServiceName of the discovery                             *)
  Agent    (* its ConsulAddr                                               *)


VARIABLES
  kind, started, pairs, news, notifying, chans, ch, senders, stage, servers,
  trouble

(* findServiceAddress and the entries given to Handler.                    *)
Listed == {s \in Servers : ID(Service, s) \in catalog[Agent]}

D == INSTANCE Discovery WITH
       Hosts <- Servers, listed <- Listed

ASSUME DirectoryAssumption ==
  /\ Service \in Services /\ Agent \in Agents
  /\ Kinds \subseteq D!AllKinds /\ ChanCap \in Nat \ {0}
  /\ IsFiniteSet(Watchers) /\ \A S \in SUBSET Servers : S # Torn

watching  == <<kind, started, pairs, notifying, chans, ch, senders, stage,
               servers, trouble>>
vars == <<registry, news, watching>>

Init == RegistryInit /\ D!DiscoveryInit

Next ==
  \/ RegistryNext /\ news' = (news \/ Listed' # Listed) /\ UNCHANGED watching
  \/ D!DiscoveryNext /\ UNCHANGED registry

Spec == Init /\ [][Next]_vars

FairSpec == Spec /\ Reaping /\ D!Delivery

-----------------------------------------------------------------------------
(***************************************************************************)
(* Properties.                                                             *)
(***************************************************************************)
TypeOK == RegistryTypeOK /\ D!DiscoveryTypeOK

(* A settled watcher has the newest list, see Discovery                    *)
(* (consul_discovery.go:142, xclient.go:78).                               *)
SettledIsNewest == D!SettledIsNewest

(* When processes no longer start and end, nor register services, a        *)
(* watcher that has not missed anything ends up with the servers that are  *)
(* listed, and of those whose process does not serve with none: consul has *)
(* removed them (consul.go:84, consul_discovery.go:121).                   *)
Converges ==
  \A w \in Watchers :
    <>[](kind = "consul" /\ w \in chans /\ trouble[w] = {} =>
           /\ servers[w] = Listed
           /\ \A s \in servers[w] : phase[s] = "serving")
=============================================================================
