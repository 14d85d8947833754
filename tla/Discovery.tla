------------------------------ MODULE Discovery -----------------------------
(***************************************************************************)
(* A service discovery (client/discovery.go and its implementations) and   *)
(* the xClients that watch it: GetService, then WatchService, then a       *)
(* goroutine that takes the lists from the watcher's channel.  The consul  *)
(* discovery polls an agent; for each change and watcher a goroutine of    *)
(* its own sends the list, which it reads without pairsMu.                 *)
(***************************************************************************)
EXTENDS Naturals, Sequences, FiniteSets

CONSTANTS
  Hosts,    (* servers an agent may list                                   *)
  Watchers, (* xClients                                                    *)
  Kinds,    (* implementations of ServiceDiscovery: a subset of AllKinds   *)
  ChanCap,  (* capacity of a watcher's channel (10 in the code)            *)
  Torn      (* what is read of pairs while it is written: the address of   *)
            (* one list with the length of another                         *)

AllKinds == {"consul", "multi", "peer"}

VARIABLES
  listed,        (* consul: the servers it lists, which others change      *)
  kind, started, (* which discovery, and whether it has been made          *)
  pairs,
  news,          (* consul has something to tell the watch                 *)
  notifying,     (* Handler has set pairs and not yet started senders      *)
  chans,         (* watchers whose channel is in chans                     *)
  ch,            (* their channels                                         *)
  senders,       (* goroutines that send a list                            *)
  stage, servers,(* of an xClient: how far it is, and its list             *)
  trouble        (* history: why a watcher may have missed the newest list *)

discovery == <<kind, started, pairs, news, notifying, chans, ch, senders,
               stage, servers, trouble>>
setup     == <<kind, started>>

(* A goroutine that will send to w, with a number no other one has.        *)
NewSender(w) ==
  [to |-> w, step |-> "read", list |-> {},
   no |-> CHOOSE i \in 0 .. Cardinality(senders) :
            \A g \in senders : g.to = w => g.no # i]

-----------------------------------------------------------------------------
(***************************************************************************)
(* Faulty variants of definitions below, none of them part of Spec.        *)
(***************************************************************************)
(* Handler starts the senders of this change only if none is under way.    *)
NotifyIfIdle ==
  /\ notifying
  /\ notifying' = FALSE
  /\ senders' = IF senders # {} THEN senders ELSE {NewSender(w) : w \in chans}
  /\ trouble' = [w \in Watchers |->
       IF w \notin chans THEN trouble[w] ELSE trouble[w] \ {"missed"}]
  /\ UNCHANGED <<setup, pairs, news, chans, ch, stage, servers>>

(* An empty list is taken for a failure of consul.                         *)
SetPairsUnlessEmpty ==
  /\ kind = "consul" /\ started
  /\ ~notifying
  /\ news
  /\ news' = FALSE
  /\ pairs' = IF listed = {} THEN pairs ELSE listed
  /\ notifying' = (listed # {})
  /\ UNCHANGED <<setup, chans, ch, senders, stage, servers, trouble>>

(* A Peer2PeerDiscovery that keeps the watchers it has no channel for.     *)
WatchServiceOfPeer(w) ==
  /\ stage[w] = "fetched"
  /\ stage' = [stage EXCEPT ![w] = IF kind = "peer" THEN "static"
                                   ELSE "watching"]
  /\ chans' = chans \cup {w}
  /\ UNCHANGED <<setup, pairs, news, notifying, ch, senders, servers, trouble>>

-----------------------------------------------------------------------------
(* The static discoveries are made with their list.                        *)
DiscoveryInit ==
  /\ kind \in Kinds
  /\ started = (kind # "consul")
  /\ pairs \in SUBSET Hosts
  /\ kind = "consul" => pairs = {}
  /\ kind = "peer" => Cardinality(pairs) = 1
  /\ news = TRUE
  /\ notifying = FALSE
  /\ chans = {}
  /\ ch = [w \in Watchers |-> <<>>]
  /\ senders = {}
  /\ stage = [w \in Watchers |-> "none"]
  /\ servers = [w \in Watchers |-> {}]
  /\ trouble = [w \in Watchers |-> {}]

(* NewConsulDiscovery, when findServiceAddress succeeds.                   *)
NewConsulDiscovery ==
  /\ ~started
  /\ started' = TRUE
  /\ pairs' = listed
  /\ UNCHANGED <<kind, news, notifying, chans, ch, senders, stage, servers,
                 trouble>>

(***************************************************************************)
(* An xClient: NewXClient in two steps, and watch.                         *)
(***************************************************************************)
GetService(w) ==
  /\ started
  /\ stage[w] = "none"
  /\ servers' = [servers EXCEPT ![w] = pairs]
  /\ stage' = [stage EXCEPT ![w] = "fetched"]
  /\ UNCHANGED <<setup, pairs, news, notifying, chans, ch, senders,
                 trouble>>

(* The channel of a Peer2PeerDiscovery is nil: there is nothing to watch.  *)
WatchService(w) ==
  /\ stage[w] = "fetched"
  /\ stage' = [stage EXCEPT ![w] = IF kind = "peer" THEN "static"
                                   ELSE "watching"]
  /\ chans' = IF kind = "peer" THEN chans ELSE chans \cup {w}
  /\ trouble' = IF servers[w] = pairs \/ notifying THEN trouble
                ELSE [trouble EXCEPT ![w] = @ \cup {"missed"}]
  /\ UNCHANGED <<setup, pairs, news, notifying, ch, senders, servers>>

Watch(w) ==
  /\ stage[w] = "watching"
  /\ ch[w] # <<>>
  /\ servers' = [servers EXCEPT ![w] = Head(ch[w])]
  /\ ch' = [ch EXCEPT ![w] = Tail(@)]
  /\ UNCHANGED <<setup, pairs, news, notifying, chans, senders, stage,
                 trouble>>

(***************************************************************************)
(* The consul discovery: Handler, and the goroutines it starts.            *)
(***************************************************************************)
(* The watch calls Handler once at first and then after changes.  Senders  *)
(* that are reading pairs meanwhile read some of the old and some of the   *)
(* new value.                                                              *)
SetPairs ==
  /\ kind = "consul" /\ started
  /\ ~notifying
  /\ news
  /\ news' = FALSE
  /\ pairs' = listed
  /\ \E gs \in SUBSET {g \in senders : g.step = "read"} :
       senders' = (senders \ gs) \cup
                  {[g EXCEPT !.step = "send", !.list = Torn] : g \in gs}
  /\ notifying' = TRUE
  /\ UNCHANGED <<setup, chans, ch, stage, servers, trouble>>

Notify ==
  /\ notifying
  /\ notifying' = FALSE
  /\ senders' = senders \cup {NewSender(w) : w \in chans}
  /\ trouble' = [w \in Watchers |->
       IF w \notin chans THEN trouble[w]
       ELSE (trouble[w] \ {"missed"})
              \cup {t \in {"raced"} : \E g \in senders : g.to = w}]
  /\ UNCHANGED <<setup, pairs, news, chans, ch, stage, servers>>

SenderReads(g) ==
  /\ g \in senders /\ g.step = "read"
  /\ senders' = (senders \ {g})
                  \cup {[g EXCEPT !.step = "send", !.list = pairs]}
  /\ UNCHANGED <<setup, pairs, news, notifying, chans, ch, stage, servers,
                 trouble>>

SenderSends(g) ==
  /\ g \in senders /\ g.step = "send"
  /\ Len(ch[g.to]) < ChanCap
  /\ ch' = [ch EXCEPT ![g.to] = Append(@, g.list)]
  /\ senders' = senders \ {g}
  /\ UNCHANGED <<setup, pairs, news, notifying, chans, stage, servers,
                 trouble>>

(* The channel has been full for a minute.                                 *)
SenderDrops(g) ==
  /\ g \in senders /\ g.step = "send"
  /\ Len(ch[g.to]) = ChanCap
  /\ senders' = senders \ {g}
  /\ trouble' = [trouble EXCEPT ![g.to] = @ \cup {"raced"}]
  /\ UNCHANGED <<setup, pairs, news, notifying, chans, ch, stage, servers>>

Handler == SetPairs \/ Notify

Send(g) == SenderReads(g) \/ SenderSends(g) \/ SenderDrops(g)

DiscoveryNext ==
  \/ NewConsulDiscovery \/ Handler
  \/ \E w \in Watchers :
       GetService(w) \/ WatchService(w) \/ Watch(w)
  \/ \E g \in senders : Send(g)

(* Goroutines run, and consul answers the watch.                           *)
Delivery ==
  /\ WF_discovery(Handler)
  /\ WF_discovery(\E g \in senders : Send(g))
  /\ \A w \in Watchers : WF_discovery(Watch(w))

-----------------------------------------------------------------------------
(***************************************************************************)
(* Properties.                                                             *)
(***************************************************************************)
Lists == (SUBSET Hosts) \cup {Torn}

DiscoveryTypeOK ==
  /\ kind \in Kinds /\ started \in BOOLEAN /\ notifying \in BOOLEAN
  /\ pairs \in Lists \ {Torn}
  /\ news \in BOOLEAN
  /\ chans \subseteq {w \in Watchers : stage[w] = "watching"}
  /\ ch \in [Watchers -> Seq(Lists)]
  /\ \A w \in Watchers : Len(ch[w]) <= ChanCap
  /\ senders \subseteq [to : Watchers, no : Nat, list : Lists,
                        step : {"read", "send"}]
  /\ stage \in [Watchers -> {"none", "fetched", "watching", "static"}]
  /\ servers \in [Watchers -> Lists]
  /\ trouble \in [Watchers -> SUBSET {"missed", "raced"}]

(* A watcher the discovery still knows and that has nothing to receive.    *)
Settled(w) ==
  /\ IF kind = "peer" THEN stage[w] = "static" ELSE w \in chans
  /\ ch[w] = <<>> /\ ~notifying
  /\ \A g \in senders : g.to # w

(* A settled watcher has the newest list unless, since it watches, two of  *)
(* its senders overlapped or one gave up, or unless a change has come      *)
(* between its GetService and its WatchService and none since              *)
(* (consul_discovery.go:142, xclient.go:78).                               *)
SettledIsNewest ==
  \A w \in Watchers :
    Settled(w) /\ trouble[w] = {} => servers[w] = pairs
=============================================================================
