--------------------------- MODULE DiscoveryProofs --------------------------
(* Lemmas about Discovery, for any servers and watchers: what Directory's  *)
(* theorems say of its watchers rests on them.                             *)
EXTENDS Discovery, FiniteSetTheorems, TLAPS

(* What Directory assumes of the constants.                                *)
Constants ==
  IsFiniteSet(Watchers) /\ Torn \notin SUBSET Hosts /\ ChanCap \in Nat

(***************************************************************************)
(* The inductive invariant.                                                *)
(***************************************************************************)
NoSender(w) == \A g \in senders : g.to # w

(* Before NewConsulDiscovery nobody watches, and only the consul discovery *)
(* ever has anything to send.                                              *)
KindInv ==
  /\ ~started => ~notifying /\ \A w \in Watchers : stage[w] = "none"
  /\ kind # "consul" =>
       /\ started /\ ~notifying /\ senders = {}
       /\ \A w \in Watchers :
            ch[w] = <<>> /\ (stage[w] # "none" => servers[w] = pairs)

(* Only a watcher that is known is sent anything.                          *)
KnownInv ==
  \A w \in Watchers \ chans :
    NoSender(w) /\ ch[w] = <<>> /\ trouble[w] \subseteq {"missed"}

(* What a watcher will have received when all that is on the way to it has *)
(* arrived is the newest list.                                             *)
WillHave(w) ==
  \/ \E g \in senders :
       /\ g.to = w /\ \A h \in senders : h.to = w => h = g
       /\ g.step = "read" \/ g.list = pairs
  \/ /\ NoSender(w)
     /\ IF ch[w] = <<>> THEN servers[w] = pairs
        ELSE ch[w][Len(ch[w])] = pairs

ArrivalInv ==
  \A w \in chans : trouble[w] = {} /\ ~notifying => WillHave(w)

DInv == /\ DiscoveryTypeOK /\ IsFiniteSet(senders)
        /\ KindInv /\ KnownInv /\ ArrivalInv

-----------------------------------------------------------------------------
(* There is a number for a new sender: as many numbers are tried as there  *)
(* are senders, and one more.                                              *)
LEMMA NewNumber ==
  ASSUME DiscoveryTypeOK, IsFiniteSet(senders), NEW w \in Watchers
  PROVE  NewSender(w) \in [to : Watchers, no : Nat, list : Lists,
                           step : {"read", "send"}]
<1> DEFINE n == Cardinality(senders)
           Taken == {g.no : g \in senders}
<1>1. n \in Nat
  BY FS_CardinalityType
<1>2. IsFiniteSet(Taken) /\ Cardinality(Taken) <= n
  <2> DEFINE f == [g \in senders |-> g.no]
  <2>1. f \in Surjection(senders, Taken)
    BY DEF Surjection
  <2> QED BY <2>1, FS_Surjection
<1>3. IsFiniteSet(0 .. n) /\ Cardinality(0 .. n) = n + 1
  BY <1>1, FS_Interval
<1>4. Cardinality(Taken) \in Nat
  BY <1>2, FS_CardinalityType
<1>5. ~(0 .. n \subseteq Taken)
  <2> HIDE DEF n, Taken
  <2> SUFFICES ASSUME 0 .. n \in SUBSET Taken PROVE FALSE
    OBVIOUS
  <2>1. Cardinality(0 .. n) <= Cardinality(Taken)
    BY <1>2, FS_Subset
  <2> QED BY <1>1, <1>2, <1>3, <1>4, <2>1
<1>6. \E i \in 0 .. n : \A g \in senders : g.to = w => g.no # i
  BY <1>5
<1> DEFINE i == CHOOSE i \in 0 .. n : \A g \in senders : g.to = w => g.no # i
<1>7. i \in Nat
  BY <1>1, <1>6
<1>8. NewSender(w) = [to |-> w, step |-> "read", list |-> {}, no |-> i]
  BY DEF NewSender
<1> HIDE DEF i
<1> QED BY <1>7, <1>8 DEF Lists

LEMMA InitDInv == ASSUME Constants, DiscoveryInit PROVE DInv
<1>1. pairs \in Lists \ {Torn} /\ {} \in Lists
  BY DEF DiscoveryInit, Constants, Lists
<1>2. DiscoveryTypeOK
  <2>1. ch \in [Watchers -> Seq(Lists)]
        /\ \A w \in Watchers : Len(ch[w]) <= ChanCap
    BY DEF DiscoveryInit, Constants
  <2>2. /\ stage \in [Watchers -> {"none", "fetched", "watching", "static"}]
        /\ servers \in [Watchers -> Lists]
        /\ trouble \in [Watchers -> SUBSET {"missed", "raced"}]
    BY <1>1 DEF DiscoveryInit
  <2> QED BY <1>1, <2>1, <2>2 DEF DiscoveryInit, DiscoveryTypeOK
<1> QED
  BY <1>2, FS_EmptySet
  DEF DiscoveryInit, DInv, KindInv, KnownInv, ArrivalInv, NoSender

(* The servers consul lists change.                                        *)
LEMMA ListedDInv ==
  ASSUME DInv, news' \in BOOLEAN,
         UNCHANGED <<kind, started, pairs, notifying, chans, ch, senders,
                     stage, servers, trouble>>
  PROVE  DInv'
BY DEF DInv, DiscoveryTypeOK, KindInv, KnownInv, ArrivalInv, WillHave,
       NoSender
(***************************************************************************)
(* One lemma for each action.                                              *)
(***************************************************************************)
LEMMA NewConsulDiscoveryDInv ==
  ASSUME Constants, DInv, listed \subseteq Hosts, NewConsulDiscovery
  PROVE  DInv'
<1> USE DEF NewConsulDiscovery, DInv, DiscoveryTypeOK
<1>1. DiscoveryTypeOK'
  BY DEF Lists, Constants
<1>2. chans = {} /\ kind = "consul"
  BY DEF KindInv
<1>3. KindInv' /\ KnownInv' /\ ArrivalInv'
  BY <1>2 DEF KindInv, KnownInv, ArrivalInv, NoSender
<1> QED BY <1>1, <1>3

LEMMA GetServiceDInv ==
  ASSUME Constants, DInv, NEW w \in Watchers, GetService(w)
  PROVE  DInv'
<1> USE DEF GetService, DInv, DiscoveryTypeOK
<1>1. w \notin chans
  OBVIOUS
<1>2. DiscoveryTypeOK'
  <2>1. servers' \in [Watchers -> Lists]
    OBVIOUS
  <2>2. chans' \subseteq {v \in Watchers : stage'[v] = "watching"}
        /\ stage' \in [Watchers -> {"none", "fetched", "watching", "static"}]
    OBVIOUS
  <2> QED BY <2>1, <2>2 DEF setup
<1>3. KindInv'
  <2>1. \A v \in Watchers : v # w => UNCHANGED <<servers[v], stage[v]>>
    OBVIOUS
  <2>2. servers'[w] = pairs /\ started
    OBVIOUS
  <2>3. UNCHANGED <<kind, started, pairs, notifying, ch, senders>>
    BY DEF setup
  <2> QED BY <2>1, <2>2, <2>3 DEF KindInv
<1>4. KnownInv'
  BY DEF KnownInv, NoSender
<1>5. ArrivalInv'
  BY <1>1 DEF ArrivalInv, WillHave, NoSender
<1> QED BY <1>2, <1>3, <1>4, <1>5

LEMMA WatchServiceDInv ==
  ASSUME Constants, DInv, NEW w \in Watchers, WatchService(w)
  PROVE  DInv'
<1> USE DEF WatchService, setup, DInv, DiscoveryTypeOK
<1>1. w \notin chans
  OBVIOUS
<1>2. trouble' \in [Watchers -> SUBSET {"missed", "raced"}]
  OBVIOUS
<1>3. chans' \subseteq {v \in Watchers : stage'[v] = "watching"}
      /\ stage' \in [Watchers -> {"none", "fetched", "watching", "static"}]
  OBVIOUS
<1>4. DiscoveryTypeOK'
  BY <1>2, <1>3
<1>5. KindInv'
  BY DEF KindInv
<1>6. KnownInv'
  <2>1. \A v \in Watchers : trouble'[v] \subseteq trouble[v] \cup {"missed"}
    OBVIOUS
  <2>2. UNCHANGED <<senders, ch>> /\ chans \subseteq chans'
    OBVIOUS
  <2> QED BY <2>1, <2>2 DEF KnownInv, NoSender
<1>7. ArrivalInv'
  <2> SUFFICES ASSUME NEW v \in chans', trouble'[v] = {}, ~notifying
               PROVE  WillHave(v)'
    BY DEF ArrivalInv
  <2>1. CASE v \in chans
    <3>1. trouble[v] = {} /\ v # w
      BY <1>1, <2>1
    <3> QED BY <2>1, <3>1 DEF ArrivalInv, WillHave, NoSender
  <2>2. CASE v \notin chans
    <3>1. v = w /\ servers[w] = pairs
      BY <2>2
    <3> QED BY <1>1, <2>2, <3>1 DEF KnownInv, WillHave, NoSender
  <2> QED BY <2>1, <2>2
<1> QED BY <1>4, <1>5, <1>6, <1>7

LEMMA WatchDInv ==
  ASSUME Constants, DInv, NEW w \in Watchers, Watch(w)
  PROVE  DInv'
<1> USE DEF Watch, setup, DInv, DiscoveryTypeOK
<1>1. /\ ch[w] \in Seq(Lists) /\ ch[w] # <<>>
      /\ Head(ch[w]) \in Lists /\ Tail(ch[w]) \in Seq(Lists)
      /\ Len(Tail(ch[w])) = Len(ch[w]) - 1 /\ Len(ch[w]) \in Nat
  OBVIOUS
<1>2. DiscoveryTypeOK'
  <2>1. \A v \in Watchers : Len(ch'[v]) <= ChanCap
    BY <1>1 DEF Constants
  <2>2. ch' \in [Watchers -> Seq(Lists)] /\ servers' \in [Watchers -> Lists]
    BY <1>1
  <2> QED BY <2>1, <2>2
<1>3. kind = "consul" /\ w \in chans
  BY <1>1 DEF KindInv, KnownInv
<1>4. KindInv'
  BY <1>3 DEF KindInv
<1>5. KnownInv'
  BY <1>3 DEF KnownInv, NoSender
<1>6. ArrivalInv'
  <2> SUFFICES ASSUME NEW v \in chans, trouble[v] = {}, ~notifying
               PROVE  WillHave(v)'
    BY DEF ArrivalInv
  <2>1. WillHave(v) /\ v \in Watchers
    BY DEF ArrivalInv
  <2>2. CASE v # w
    BY <2>1, <2>2 DEF WillHave, NoSender
  <2>3. CASE v = w /\ NoSender(w) /\ ch[w][Len(ch[w])] = pairs
    <3>1. servers'[w] = ch[w][1] /\ ch'[w] = Tail(ch[w])
      BY <1>1
    <3>2. CASE Tail(ch[w]) = <<>>
      <4>1. Len(ch[w]) - 1 = 0
        BY <1>1, <3>2
      <4> QED BY <2>3, <3>1, <3>2, <4>1 DEF WillHave, NoSender
    <3>3. CASE Tail(ch[w]) # <<>>
      <4>1. Tail(ch[w])[Len(Tail(ch[w]))] = ch[w][Len(ch[w])]
        BY <1>1, <3>3
      <4> QED BY <2>3, <3>1, <3>3, <4>1 DEF WillHave, NoSender
    <3> QED BY <3>2, <3>3
  <2>4. CASE v = w /\ ~NoSender(w)
    BY <2>1, <2>4 DEF WillHave, NoSender
  <2> QED BY <1>1, <2>1, <2>2, <2>3, <2>4 DEF WillHave
<1> QED BY <1>2, <1>4, <1>5, <1>6
(* Some senders of a set change and the others stay.                       *)
LEMMA SetPairsDInv ==
  ASSUME Constants, DInv, listed \subseteq Hosts, SetPairs
  PROVE  DInv'
<1> USE DEF DInv, DiscoveryTypeOK
<1>1. PICK gs \in SUBSET {g \in senders : g.step = "read"} :
        senders' = (senders \ gs) \cup
                   {[g EXCEPT !.step = "send", !.list = Torn] : g \in gs}
  BY DEF SetPairs
<1> DEFINE tornOf == [g \in gs |-> [g EXCEPT !.step = "send", !.list = Torn]]
           torn == {[g EXCEPT !.step = "send", !.list = Torn] : g \in gs}
<1>2. IsFiniteSet(torn)
  <2>1. tornOf \in Surjection(gs, torn)
    BY DEF Surjection
  <2>2. IsFiniteSet(gs)
    BY FS_Subset
  <2> QED BY <2>1, <2>2, FS_Surjection
<1>3. IsFiniteSet(senders')
  <2>1. IsFiniteSet(senders \ gs)
    BY FS_Subset
  <2> HIDE DEF torn
  <2>2. IsFiniteSet((senders \ gs) \cup torn)
    BY <1>2, <2>1, FS_Union
  <2> QED BY <1>1, <2>2 DEF torn
<1>4. \A h \in torn :
        /\ h \in [to : Watchers, no : Nat, list : Lists,
                 step : {"read", "send"}]
        /\ \E g \in senders : g.to = h.to
  <2>1. ASSUME NEW g \in gs
        PROVE  LET h == [g EXCEPT !.step = "send", !.list = Torn] IN
               /\ h \in [to : Watchers, no : Nat, list : Lists,
                        step : {"read", "send"}]
               /\ h.to = g.to
    <3>1. g \in [to : Watchers, no : Nat, list : Lists,
                step : {"read", "send"}]
      OBVIOUS
    <3>2. Torn \in Lists
      BY DEF Lists
    <3> QED BY <3>1, <3>2
  <2>2. TAKE h \in torn
  <2>3. PICK g \in gs : h = [g EXCEPT !.step = "send", !.list = Torn]
    OBVIOUS
  <2>4. g \in senders
    OBVIOUS
  <2> HIDE DEF torn, DInv, DiscoveryTypeOK
  <2> QED BY <2>1, <2>3, <2>4
<1>5. DiscoveryTypeOK'
  <2>1. senders' \subseteq [to : Watchers, no : Nat, list : Lists,
                           step : {"read", "send"}]
    BY <1>1, <1>4
  <2>2. pairs' \in Lists \ {Torn}
    BY DEF SetPairs, Lists, Constants
  <2> QED BY <2>1, <2>2 DEF SetPairs, setup
<1>6. KindInv'
  BY DEF SetPairs, setup, KindInv
<1>7. KnownInv'
  <2>1. \A h \in senders' : \E g \in senders : g.to = h.to
    BY <1>1, <1>4
  <2>2. UNCHANGED <<chans, ch, trouble>>
    BY DEF SetPairs
  <2> QED BY <2>1, <2>2 DEF KnownInv, NoSender
<1>8. ArrivalInv'
  BY DEF SetPairs, ArrivalInv
<1> QED BY <1>3, <1>5, <1>6, <1>7, <1>8

LEMMA NotifyDInv ==
  ASSUME Constants, DInv, Notify
  PROVE  DInv'
<1> USE DEF DInv, DiscoveryTypeOK
<1> DEFINE new == {NewSender(w) : w \in chans}
<1>1. senders' = senders \cup new /\ chans \subseteq Watchers /\ chans' = chans
  BY DEF Notify, setup
<1>2. \A g \in new : \E w \in chans : g = NewSender(w)
  OBVIOUS
<1>3. \A w \in Watchers : NewSender(w).to = w /\ NewSender(w).step = "read"
  BY DEF NewSender
<1>4. IsFiniteSet(senders')
  <2> DEFINE f == [w \in chans |-> NewSender(w)]
  <2>1. f \in Surjection(chans, new)
    BY DEF Surjection
  <2>2. IsFiniteSet(chans)
    BY <1>1, FS_Subset DEF Constants
  <2>3. IsFiniteSet(new)
    BY <2>1, <2>2, FS_Surjection
  <2> HIDE DEF new
  <2> QED BY <1>1, <2>3, FS_Union
<1>5. DiscoveryTypeOK'
  <2>1. senders' \subseteq [to : Watchers, no : Nat, list : Lists,
                           step : {"read", "send"}]
    BY <1>1, NewNumber
  <2>2. trouble' \in [Watchers -> SUBSET {"missed", "raced"}]
    BY DEF Notify
  <2> QED BY <2>1, <2>2 DEF Notify, setup
<1>6. KindInv'
  BY DEF Notify, setup, KindInv
<1>7. KnownInv'
  <2> SUFFICES ASSUME NEW w \in Watchers \ chans
               PROVE  /\ NoSender(w)' /\ ch'[w] = <<>>
                      /\ trouble'[w] \subseteq {"missed"}
    BY <1>1 DEF KnownInv
  <2>1. NoSender(w)'
    BY <1>1, <1>2, <1>3 DEF KnownInv, NoSender
  <2> QED BY <2>1 DEF Notify, KnownInv
<1>8. ArrivalInv'
  <2> SUFFICES ASSUME NEW w \in chans, trouble'[w] = {}
               PROVE  WillHave(w)'
    BY <1>1 DEF ArrivalInv
  <2>1. NoSender(w)
    <3>1. {t \in {"raced"} : \E g \in senders : g.to = w} = {}
      BY <1>1 DEF Notify
    <3> QED BY <3>1 DEF NoSender
  <2>2. NewSender(w) \in senders'
    BY <1>1
  <2>3. \A h \in senders' : h.to = w => h = NewSender(w)
    BY <1>1, <1>2, <1>3, <2>1 DEF NoSender
  <2> QED BY <1>1, <1>3, <2>2, <2>3 DEF WillHave
<1> QED BY <1>4, <1>5, <1>6, <1>7, <1>8
(* A sender is of the consul discovery, and its watcher is known.          *)
LEMMA SenderKnown ==
  ASSUME DInv, NEW g \in senders
  PROVE  /\ g \in [to : Watchers, no : Nat, list : Lists,
                   step : {"read", "send"}]
         /\ g.to \in chans /\ chans \subseteq Watchers
         /\ kind = "consul" /\ started
<1>1. g \in [to : Watchers, no : Nat, list : Lists, step : {"read", "send"}]
      /\ chans \subseteq Watchers
  BY DEF DInv, DiscoveryTypeOK
<1>2. g.to \in chans
  BY <1>1 DEF DInv, KnownInv, NoSender
<1> QED BY <1>1, <1>2 DEF DInv, KindInv, DiscoveryTypeOK

LEMMA SenderReadsDInv ==
  ASSUME Constants, DInv, NEW g \in senders, SenderReads(g)
  PROVE  DInv'
<1> DEFINE r == [g EXCEPT !.step = "send", !.list = pairs]
<1>1. /\ senders' = (senders \ {g}) \cup {r}
      /\ UNCHANGED <<kind, started, pairs, news, notifying, chans, ch, stage,
                     servers, trouble>>
  BY DEF SenderReads, setup
<1>2. /\ r \in [to : Watchers, no : Nat, list : Lists,
                step : {"read", "send"}]
      /\ r.to = g.to /\ r.step = "send" /\ r.list = pairs
  BY SenderKnown DEF DInv, DiscoveryTypeOK
<1> HIDE DEF r
<1>3. IsFiniteSet(senders')
  BY <1>1, FS_RemoveElement, FS_AddElement DEF DInv
<1>4. DiscoveryTypeOK'
  BY <1>1, <1>2 DEF DInv, DiscoveryTypeOK
<1>5. KindInv'
  BY <1>1, SenderKnown DEF DInv, KindInv
<1>6. KnownInv'
  BY <1>1, <1>2 DEF DInv, KnownInv, NoSender
<1>7. ArrivalInv'
  <2> SUFFICES ASSUME NEW w \in chans, trouble[w] = {}, ~notifying
               PROVE  WillHave(w)'
    BY <1>1 DEF ArrivalInv
  <2>1. WillHave(w)
    BY DEF DInv, ArrivalInv
  <2>2. CASE g.to = w
    <3>1. \A h \in senders : h.to = w => h = g
      BY <2>1, <2>2 DEF WillHave, NoSender
    <3>2. \A h \in senders' : h.to = w => h = r
      BY <1>1, <3>1
    <3>3. r \in senders' /\ r.to = w /\ r.list = pairs'
      BY <1>1, <1>2, <2>2
    <3> QED BY <3>2, <3>3 DEF WillHave
  <2>3. CASE g.to # w
    <3>1. \A h : h.to = w => (h \in senders' <=> h \in senders)
      BY <1>1, <1>2, <2>3
    <3> QED BY <1>1, <2>1, <3>1 DEF WillHave, NoSender
  <2> QED BY <2>2, <2>3
<1> QED BY <1>3, <1>4, <1>5, <1>6, <1>7 DEF DInv

LEMMA SenderSendsDInv ==
  ASSUME Constants, DInv, NEW g \in senders, SenderSends(g)
  PROVE  DInv'
<1> DEFINE w == g.to
<1>1. /\ senders' = senders \ {g} /\ g.step = "send"
      /\ ch' = [ch EXCEPT ![w] = Append(@, g.list)]
      /\ Len(ch[w]) < ChanCap
      /\ UNCHANGED <<kind, started, pairs, news, notifying, chans, stage,
                     servers, trouble>>
  BY DEF SenderSends, setup
<1>2. /\ w \in chans /\ chans \subseteq Watchers /\ w \in Watchers
      /\ g.list \in Lists /\ ch \in [Watchers -> Seq(Lists)]
      /\ ch[w] \in Seq(Lists)
  BY SenderKnown DEF DInv, DiscoveryTypeOK
<1>3. IsFiniteSet(senders')
  BY <1>1, FS_RemoveElement DEF DInv
<1>4. /\ ch'[w] \in Seq(Lists) /\ ch'[w] # <<>>
      /\ Len(ch'[w]) \in Nat /\ Len(ch'[w]) <= ChanCap
      /\ ch'[w][Len(ch'[w])] = g.list
      /\ \A v \in Watchers : v # w => ch'[v] = ch[v]
  <2>1. ch'[w] = Append(ch[w], g.list)
    BY <1>1, <1>2
  <2>2. Len(ch'[w]) = Len(ch[w]) + 1 /\ Len(ch[w]) \in Nat
    BY <1>2, <2>1
  <2>3. ch'[w] \in Seq(Lists) /\ ch'[w][Len(ch[w]) + 1] = g.list
    BY <1>2, <2>1
  <2>4. \A v \in Watchers : v # w => ch'[v] = ch[v]
    BY <1>1, <1>2
  <2>5. ch'[w] # <<>>
    BY <2>2
  <2>6. Len(ch'[w]) <= ChanCap
    BY <1>1, <2>2 DEF Constants
  <2> HIDE DEF w
  <2> QED BY <2>2, <2>3, <2>4, <2>5, <2>6
<1> HIDE DEF w
<1>5. DiscoveryTypeOK'
  <2>1. ch' \in [Watchers -> Seq(Lists)]
    BY <1>1, <1>2, <1>4
  <2>2. \A v \in Watchers : Len(ch'[v]) <= ChanCap
    BY <1>4 DEF DInv, DiscoveryTypeOK
  <2> QED BY <1>1, <2>1, <2>2 DEF DInv, DiscoveryTypeOK
<1>6. KindInv'
  BY <1>1, SenderKnown DEF DInv, KindInv
<1>7. KnownInv'
  BY <1>1, <1>2, <1>4 DEF DInv, KnownInv, NoSender
<1>8. ArrivalInv'
  <2> SUFFICES ASSUME NEW v \in chans, trouble[v] = {}, ~notifying
               PROVE  WillHave(v)'
    BY <1>1 DEF ArrivalInv
  <2>1. WillHave(v) /\ v \in Watchers
    BY <1>2 DEF DInv, ArrivalInv
  <2>2. CASE v = w
    <3>1. g.list = pairs /\ \A h \in senders : h.to = w => h = g
      BY <1>1, <2>1, <2>2 DEF WillHave, NoSender, w
    <3> QED BY <1>1, <1>4, <2>2, <3>1 DEF WillHave, NoSender
  <2>3. CASE v # w
    <3>1. \A h : h.to = v => (h \in senders' <=> h \in senders)
      BY <1>1, <2>3 DEF w
    <3>2. ch'[v] = ch[v]
      BY <1>4, <2>1, <2>3
    <3> QED BY <1>1, <2>1, <3>1, <3>2 DEF WillHave, NoSender
  <2> QED BY <2>2, <2>3
<1> QED BY <1>3, <1>5, <1>6, <1>7, <1>8 DEF DInv

LEMMA SenderDropsDInv ==
  ASSUME Constants, DInv, NEW g \in senders, SenderDrops(g)
  PROVE  DInv'
<1>1. /\ senders' = senders \ {g}
      /\ trouble' = [trouble EXCEPT ![g.to] = @ \cup {"raced"}]
      /\ UNCHANGED <<kind, started, pairs, news, notifying, chans, ch, stage,
                     servers>>
  BY DEF SenderDrops, setup
<1>2. /\ g.to \in chans /\ chans \subseteq Watchers
      /\ trouble \in [Watchers -> SUBSET {"missed", "raced"}]
  BY SenderKnown DEF DInv, DiscoveryTypeOK
<1>3. IsFiniteSet(senders')
  BY <1>1, FS_RemoveElement DEF DInv
<1>4. DiscoveryTypeOK'
  <2>1. trouble' \in [Watchers -> SUBSET {"missed", "raced"}]
    BY <1>1, <1>2
  <2> QED BY <1>1, <2>1 DEF DInv, DiscoveryTypeOK
<1>5. KindInv'
  BY <1>1, SenderKnown DEF DInv, KindInv
<1>6. KnownInv'
  BY <1>1, <1>2 DEF DInv, KnownInv, NoSender
<1>7. ArrivalInv'
  <2> SUFFICES ASSUME NEW v \in chans, trouble'[v] = {}, ~notifying
               PROVE  WillHave(v)'
    BY <1>1 DEF ArrivalInv
  <2>1. v # g.to /\ trouble[v] = {}
    BY <1>1, <1>2
  <2>2. WillHave(v)
    BY <2>1 DEF DInv, ArrivalInv
  <2>3. \A h : h.to = v => (h \in senders' <=> h \in senders)
    BY <1>1, <2>1
  <2> QED BY <1>1, <2>2, <2>3 DEF WillHave, NoSender
<1> QED BY <1>3, <1>4, <1>5, <1>6, <1>7 DEF DInv

-----------------------------------------------------------------------------
LEMMA NextDInv ==
  ASSUME Constants, DInv, listed \subseteq Hosts, DiscoveryNext
  PROVE  DInv'
BY NewConsulDiscoveryDInv, SetPairsDInv, NotifyDInv, GetServiceDInv,
   WatchServiceDInv, WatchDInv, SenderReadsDInv, SenderSendsDInv,
   SenderDropsDInv
DEF DiscoveryNext, Handler, Send

(* Nothing is on the way to a settled watcher, so it has what it will have.*)
LEMMA SettledHasNewest == DInv => SettledIsNewest
<1> SUFFICES ASSUME DInv, NEW w \in Watchers, Settled(w), trouble[w] = {}
             PROVE  servers[w] = pairs
  BY DEF SettledIsNewest
<1>1. CASE kind # "consul"
  BY <1>1 DEF DInv, DiscoveryTypeOK, KindInv, Settled
<1>2. CASE kind = "consul"
  <2>1. WillHave(w)
    BY <1>2 DEF DInv, ArrivalInv, Settled
  <2> QED BY <2>1 DEF WillHave, Settled
<1> QED BY <1>1, <1>2
=============================================================================
