---------------------------- MODULE ClientProofs ----------------------------
(* Theorems about Client, for any set of calls and any channel capacity.   *)
EXTENDS Client, FiniteSetTheorems, TLAPS

(***************************************************************************)
(* The inductive invariant.  A call is held by at most one of: the map     *)
(* pending (under its own number), the input goroutine, a cancelled caller.*)
(***************************************************************************)
InMap(c) == pending[mySeq[c]] = c

Numbered(c) ==
  sender[c] \in {"store", "write", "fail"} \/ InMap(c) \/ frame[c] # "none"

(* An entry of pending is stored under the number of its call.             *)
MapInv ==
  \A s \in Seqs : pending[s] # NoCall =>
    /\ mySeq[pending[s]] = s
    /\ sender[pending[s]] \in {"store", "write", "over"}

(* Calls on the wire or in the map have numbers of their own.              *)
SeqInv ==
  /\ \A c \in Calls : Numbered(c) => mySeq[c] < seq
  /\ \A c, d \in Calls :
       Numbered(c) /\ Numbered(d) /\ mySeq[c] = mySeq[d] => c = d

(* What has happened to a call fits the progress of its sender.            *)
SenderInv ==
  \A c \in Calls :
    /\ caller[c] = "idle" => sender[c] = "idle"
    /\ frame[c] # "none" => sender[c] = "over"
    /\ sender[c] \in {"idle", "lock"} => completions[c] = 0

(* The call in the hand of input is answered, incomplete, held by no other.*)
HandInv ==
  input = "deliver" =>
    /\ hand = msg /\ frame[hand] \in Answers
    /\ ~InMap(hand) /\ completions[hand] = 0 /\ reply[hand] = NoCall

(* A call taken by a cancelled caller is held by that caller only.         *)
VictimInv ==
  /\ \A d \in Calls : victim[d] # NoCall =>
       /\ d \in SyncCalls /\ caller[d] = "cancel"
       /\ sender[victim[d]] \notin {"idle", "lock"}
       /\ ~InMap(victim[d]) /\ victim[d] # hand /\ reply[victim[d]] = NoCall
  /\ \A d, e \in Calls : victim[d] # NoCall /\ victim[d] = victim[e] => d = e

(* The flags and the map.                                                  *)
FlagInv ==
  /\ shutdown <=> input = "over"
  /\ closing => \A c \in Calls : ~InMap(c)
  /\ \A c \in Calls : InMap(c) =>
       IF shutdown THEN completions[c] > 0 ELSE completions[c] = 0

(* An answered call is settled: nobody holds it.                           *)
AnsweredInv ==
  \A c \in Calls : reply[c] # NoCall =>
    /\ reply[c] = c /\ frame[c] \in Answers
    /\ ~InMap(c) /\ completions[c] = 1

(* Call.Error and the result of Call tell what the peer answered.          *)
OutcomeInv ==
  \A c \in Calls :
    /\ completions[c] > 0 /\ err[c] = "nil" =>
         reply[c] = c /\ frame[c] \in Blameless
    /\ err[c] = "service" => frame[c] \in {"undecodable", "error"}
    /\ result[c] = "nil" => reply[c] = c /\ frame[c] \in Blameless

(* Call returns for a reason.                                              *)
CallerInv ==
  \A c \in SyncCalls :
    /\ caller[c] = "cancel" => c \in ctxDone
    /\ c \in ready \/ caller[c] = "got" => completions[c] > 0
    /\ caller[c] = "returned" => completions[c] > 0 \/ c \in ctxDone

(* A call in charge of a goroutine or of the map is incomplete or held.    *)
Held(c) == InMap(c) \/ hand = c \/ \E d \in SyncCalls : victim[d] = c

HeldInv ==
  \A c \in Calls :
    sender[c] \in {"idle", "lock", "fail"} \/ completions[c] > 0 \/ Held(c)

(* The completions a call may still get.                                   *)
Flag(b) == IF b THEN 1 ELSE 0

CountInv ==
  \A c \in Calls : completions[c] + Flag(sender[c] # "over")
                     + Flag(Held(c)) + Flag(input # "over") <= 3

IInv ==
  /\ TypeOK /\ MapInv /\ SeqInv /\ SenderInv /\ HandInv /\ VictimInv
  /\ FlagInv /\ AnsweredInv /\ OutcomeInv /\ CallerInv /\ CountInv
  /\ HeldInv

-----------------------------------------------------------------------------
(* A sequence of the calls of S has them as elements.                      *)
LEMMA OrderType ==
  ASSUME NEW S \in SUBSET AsyncCalls, NEW order \in SetToSeqs(S)
  PROVE  order \in Seq(AsyncCalls)
<1>1. IsFiniteSet(S)
  BY CallsAssumption, FS_Subset, FS_CardinalityType DEF Calls
<1>2. Cardinality(S) \in Nat
  BY <1>1, FS_CardinalityType
<1>3. order \in [1 .. Cardinality(S) -> S]
  BY DEF SetToSeqs
<1> QED BY <1>2, <1>3

(* What done() does to the calls of S, short of the order in the channel.  *)
Completed(S, e) ==
  /\ err' = [c \in Calls |-> IF c \in S THEN e ELSE err[c]]
  /\ completions' =
       [c \in Calls |-> completions[c] + IF c \in S THEN 1 ELSE 0]
  /\ ready' = ready \cup (S \cap SyncCalls)
  /\ err' \in [Calls -> Errors] /\ completions' \in [Calls -> Nat]
  /\ ready' \subseteq SyncCalls
  /\ doneChan' \in Seq(AsyncCalls) /\ Len(doneChan') <= DoneCap

LEMMA CompleteEffect ==
  TypeOK => \A S \in SUBSET Calls : \A e \in Errors :
              Complete(S, e) => Completed(S, e)
<1> SUFFICES ASSUME TypeOK, NEW S \in SUBSET Calls, NEW e \in Errors,
                    Complete(S, e)
             PROVE  Completed(S, e)
  OBVIOUS
<1>1. PICK order \in SetToSeqs(S \cap AsyncCalls) :
        doneChan' = IF Len(doneChan \o order) <= DoneCap
                    THEN doneChan \o order
                    ELSE SubSeq(doneChan \o order, 1, DoneCap)
  BY DEF Complete
<1>2. doneChan \o order \in Seq(AsyncCalls)
  <2>1. S \cap AsyncCalls \in SUBSET AsyncCalls
    OBVIOUS
  <2>2. order \in Seq(AsyncCalls)
    BY <1>1, <2>1, OrderType
  <2>3. doneChan \in Seq(AsyncCalls)
    BY DEF TypeOK, DoneTypeOK
  <2> QED BY <2>2, <2>3
<1>3. Len(doneChan \o order) \in Nat /\ DoneCap \in Nat
  BY <1>2, BoundsAssumption
<1>4. doneChan' \in Seq(AsyncCalls) /\ Len(doneChan') <= DoneCap
  BY <1>1, <1>2, <1>3
<1>5. err' \in [Calls -> Errors] /\ completions' \in [Calls -> Nat]
  BY DEF Complete, TypeOK, DoneTypeOK
<1>6. ready' \subseteq SyncCalls
  BY DEF Complete, TypeOK, DoneTypeOK
<1> QED
  BY <1>4, <1>5, <1>6 DEF Complete, Completed

-----------------------------------------------------------------------------
(* A call that is not yet in pending is held by nobody.                    *)
LEMMA Unsent ==
  ASSUME IInv, NEW c \in Calls, sender[c] \in {"idle", "lock"}
  PROVE  /\ ~InMap(c) /\ hand # c /\ (\A d \in Calls : victim[d] # c)
         /\ frame[c] = "none" /\ completions[c] = 0 /\ reply[c] = NoCall
<1>1. frame[c] = "none" /\ completions[c] = 0
  BY DEF IInv, SenderInv
<1>2. ~InMap(c)
  BY CallsAssumption DEF IInv, TypeOK, CallTypeOK, MapInv, InMap
<1>3. hand # c
  BY <1>1, CallsAssumption
  DEF IInv, TypeOK, InputTypeOK, HandInv, Answers
<1>4. \A d \in Calls : victim[d] # c
  BY CallsAssumption DEF IInv, VictimInv
<1>5. reply[c] = NoCall
  BY <1>1 DEF IInv, AnsweredInv, Answers
<1> QED BY <1>1, <1>2, <1>3, <1>4, <1>5

(* An entry of pending is the only hold on its call, which is unanswered.  *)
LEMMA Entry ==
  ASSUME IInv, NEW s \in Seqs, pending[s] # NoCall
  PROVE  /\ pending[s] \in Calls /\ mySeq[pending[s]] = s
         /\ InMap(pending[s]) /\ Numbered(pending[s])
         /\ hand # pending[s] /\ (\A d \in Calls : victim[d] # pending[s])
         /\ sender[pending[s]] \in {"store", "write", "over"}
         /\ reply[pending[s]] = NoCall
<1>1. pending[s] \in Calls
  BY DEF IInv, TypeOK, ClientTypeOK
<1>2. /\ mySeq[pending[s]] = s
      /\ sender[pending[s]] \in {"store", "write", "over"}
  BY DEF IInv, MapInv
<1>3. InMap(pending[s]) /\ Numbered(pending[s])
  BY <1>2 DEF InMap, Numbered
<1>4. hand # pending[s]
  BY <1>1, <1>3, CallsAssumption DEF IInv, TypeOK, InputTypeOK, HandInv
<1>5. \A d \in Calls : victim[d] # pending[s]
  BY <1>1, <1>3 DEF IInv, VictimInv
<1>6. reply[pending[s]] = NoCall
  BY <1>1, <1>3 DEF IInv, AnsweredInv
<1> QED BY <1>1, <1>2, <1>3, <1>4, <1>5, <1>6

(* The same, seen from a call.                                             *)
LEMMA Mapped ==
  ASSUME IInv, NEW c \in Calls, InMap(c)
  PROVE  /\ mySeq[c] \in Seqs /\ pending[mySeq[c]] = c
         /\ hand # c /\ (\A d \in Calls : victim[d] # c)
         /\ sender[c] \in {"store", "write", "over"} /\ reply[c] = NoCall
<1>1. mySeq[c] \in Seqs
  BY DEF IInv, TypeOK, CallTypeOK
<1>2. pending[mySeq[c]] = c /\ c # NoCall
  BY CallsAssumption DEF InMap
<1> QED BY <1>1, <1>2, Entry

(* The calls of pending are those that InMap names.                        *)
LEMMA PendingMapped ==
  IInv => /\ Pending \in SUBSET Calls
          /\ \A x \in Calls : x \in Pending <=> InMap(x)
<1> SUFFICES ASSUME IInv
             PROVE  /\ Pending \in SUBSET Calls
                    /\ \A x \in Calls : x \in Pending <=> InMap(x)
  OBVIOUS
<1>1. Pending \in SUBSET Calls
  BY DEF IInv, TypeOK, ClientTypeOK, Pending
<1>2. ASSUME NEW x \in Calls, x \in Pending
      PROVE  InMap(x)
  BY <1>2, Entry DEF Pending
<1>3. ASSUME NEW x \in Calls, InMap(x)
      PROVE  x \in Pending
  BY <1>3, Mapped, CallsAssumption DEF Pending
<1> QED BY <1>1, <1>2, <1>3

(* A call starts, made by the application or by the heartbeat goroutine.   *)
LEMMA StartStep ==
  ASSUME IInv, NEW c \in Calls, Start(c),
         UNCHANGED <<clientVars, mySeq, cell, victim, ctxDone, inputVars,
                     doneVars, reply, frameVars, result, received>>,
         hbCall' \in Heartbeats \cup {NoCall}, hbStopped' \in BOOLEAN
  PROVE  IInv'
<1>1. sender[c] = "idle" /\ (c \in SyncCalls => caller[c] = "idle")
  BY CallsAssumption DEF IInv, SenderInv, Start, doneVars, frameVars,
    Calls, Answers
<1>2. TypeOK'
  BY <1>1, CallsAssumption, BoundsAssumption DEF IInv, TypeOK, ClientTypeOK,
    CallTypeOK, InputTypeOK, FrameTypeOK, DoneTypeOK, ResultTypeOK, Invoke,
    Start, clientVars, inputVars, doneVars, frameVars, hbVars, Seqs, Calls,
    Errors, Answers, Replies
<1>3. MapInv'
  BY <1>1, CallsAssumption DEF IInv, TypeOK, ClientTypeOK, CallTypeOK, MapInv,
    Start, clientVars, Calls
<1>4. SeqInv'
  BY <1>1, CallsAssumption DEF IInv, TypeOK, ClientTypeOK, CallTypeOK,
    FrameTypeOK, SeqInv, SenderInv, InMap, Numbered, Start,
    clientVars, frameVars, Calls, Answers
<1>5. SenderInv'
  BY <1>1, CallsAssumption DEF IInv, TypeOK, CallTypeOK, DoneTypeOK,
    SenderInv, Start, doneVars, frameVars, Calls, Answers
<1>6. VictimInv'
  BY <1>1, CallsAssumption DEF IInv, TypeOK, CallTypeOK, InputTypeOK,
    DoneTypeOK, VictimInv, InMap, Start, clientVars, inputVars, Calls
<1>7. CallerInv'
  BY <1>1, CallsAssumption DEF IInv, TypeOK, CallTypeOK, DoneTypeOK,
    CallerInv, Start, doneVars, Calls
<1>8. \A x \in Calls : Held(x)' <=> Held(x)
  BY DEF Held, InMap, clientVars, inputVars
<1>9. CountInv'
  BY <1>1, <1>8, CallsAssumption DEF IInv, TypeOK, CallTypeOK, DoneTypeOK,
    CountInv, Flag, Start, inputVars, doneVars, Calls
<1>10. HeldInv'
  BY <1>1, <1>8, CallsAssumption DEF IInv, TypeOK, CallTypeOK, DoneTypeOK,
    HeldInv, Start, doneVars, Calls
<1>11. HandInv' /\ FlagInv' /\ AnsweredInv' /\ OutcomeInv'
  BY DEF IInv, HandInv, FlagInv, AnsweredInv, OutcomeInv, InMap, Invoke,
    Start, clientVars, inputVars, doneVars, frameVars
<1> QED
  BY <1>2, <1>3, <1>4, <1>5, <1>6, <1>7, <1>9, <1>10, <1>11 DEF IInv

LEMMA ContextDoneStep ==
  ASSUME IInv, NEW c \in Calls, ContextDone(c)
  PROVE  IInv'
<1>1. TypeOK'
  BY CallsAssumption, BoundsAssumption DEF IInv, TypeOK, ClientTypeOK,
    CallTypeOK, InputTypeOK, FrameTypeOK, DoneTypeOK, ResultTypeOK,
    ContextDone, clientVars, inputVars, doneVars, frameVars, hbVars, Seqs,
    Calls, Errors, Answers, Replies
<1>2. CallerInv'
  BY CallsAssumption DEF IInv, TypeOK, CallTypeOK, DoneTypeOK, CallerInv,
    ContextDone, doneVars, Calls
<1>3. MapInv' /\ SeqInv' /\ SenderInv' /\ HandInv' /\ VictimInv' /\ FlagInv' /\
    AnsweredInv' /\ OutcomeInv' /\ CountInv' /\ HeldInv'
  BY DEF IInv, MapInv, SeqInv, SenderInv, HandInv, VictimInv, FlagInv,
    AnsweredInv, OutcomeInv, CountInv, HeldInv, InMap, Numbered, Held,
    ContextDone, clientVars, inputVars, doneVars, frameVars
<1> QED
  BY <1>1, <1>2, <1>3 DEF IInv

LEMMA CallReceiveStep ==
  ASSUME IInv, NEW c \in SyncCalls, CallReceive(c)
  PROVE  IInv'
<1>1. TypeOK'
  BY CallsAssumption, BoundsAssumption DEF IInv, TypeOK, ClientTypeOK,
    CallTypeOK, InputTypeOK, FrameTypeOK, DoneTypeOK, ResultTypeOK,
    CallReceive, clientVars, inputVars, frameVars, hbVars, Seqs, Calls,
    Errors, Answers, Replies
<1>2. SenderInv'
  BY CallsAssumption DEF IInv, TypeOK, CallTypeOK, DoneTypeOK, SenderInv,
    CallReceive, frameVars, Calls, Answers
<1>3. VictimInv'
  BY CallsAssumption DEF IInv, TypeOK, CallTypeOK, InputTypeOK, DoneTypeOK,
    VictimInv, InMap, CallReceive, clientVars, inputVars, Calls
<1>4. CallerInv'
  BY CallsAssumption DEF IInv, TypeOK, CallTypeOK, DoneTypeOK, CallerInv,
    CallReceive, Calls
<1>5. MapInv' /\ SeqInv' /\ HandInv' /\ FlagInv' /\ AnsweredInv'
    /\ OutcomeInv' /\ CountInv' /\ HeldInv'
  BY DEF IInv, MapInv, SeqInv, HandInv, FlagInv, AnsweredInv, OutcomeInv,
    CountInv, HeldInv, InMap, Numbered, Held, CallReceive, clientVars,
    inputVars, frameVars
<1> QED
  BY <1>1, <1>2, <1>3, <1>4, <1>5 DEF IInv

LEMMA CallReturnStep ==
  ASSUME IInv, NEW c \in SyncCalls, CallReturn(c)
  PROVE  IInv'
<1>1. TypeOK'
  BY CallsAssumption, BoundsAssumption DEF IInv, TypeOK, ClientTypeOK,
    CallTypeOK, InputTypeOK, FrameTypeOK, DoneTypeOK, ResultTypeOK,
    CallReturn, clientVars, inputVars, doneVars, frameVars, hbVars, Seqs,
    Calls, Errors, Answers, Replies
<1>2. SenderInv'
  BY CallsAssumption DEF IInv, TypeOK, CallTypeOK, DoneTypeOK, SenderInv,
    CallReturn, doneVars, frameVars, Calls, Answers
<1>3. VictimInv'
  BY CallsAssumption DEF IInv, TypeOK, CallTypeOK, InputTypeOK, DoneTypeOK,
    VictimInv, InMap, CallReturn, clientVars, inputVars, Calls
<1>4. OutcomeInv'
  BY CallsAssumption DEF IInv, TypeOK, DoneTypeOK, ResultTypeOK, CallerInv,
    OutcomeInv, CallReturn, doneVars, frameVars, Calls, Answers
<1>5. CallerInv'
  BY CallsAssumption DEF IInv, TypeOK, CallTypeOK, DoneTypeOK, CallerInv,
    CallReturn, doneVars, Calls
<1>6. MapInv' /\ SeqInv' /\ HandInv' /\ FlagInv' /\ AnsweredInv'
    /\ CountInv' /\ HeldInv'
  BY DEF IInv, MapInv, SeqInv, HandInv, FlagInv, AnsweredInv, CountInv,
    HeldInv, InMap, Numbered, Held, CallReturn, clientVars, inputVars,
    doneVars, frameVars
<1> QED
  BY <1>1, <1>2, <1>3, <1>4, <1>5, <1>6 DEF IInv

LEMMA CallCancelStep ==
  ASSUME IInv, NEW c \in SyncCalls, CallCancel(c)
  PROVE  IInv'
<1>1. victim[c] = NoCall
  BY CallsAssumption DEF IInv, VictimInv, CallCancel, Without, inputVars,
    Calls
<1>2. /\ cell[c] \in Seqs /\ victim' = [victim EXCEPT ![c] = pending[cell[c]]]
      /\ pending' = [pending EXCEPT ![cell[c]] = NoCall]
  BY <1>1, CallsAssumption DEF IInv, TypeOK, CallTypeOK, Without, CallCancel,
    Without, Calls
<1>3. pending[cell[c]] # NoCall =>
        LET v == pending[cell[c]]
        IN  /\ v \in Calls /\ mySeq[v] = cell[c] /\ InMap(v) /\ hand # v
            /\ (\A d \in Calls : victim[d] # v) /\ reply[v] = NoCall
            /\ sender[v] \in {"store", "write", "over"}
  BY <1>1, <1>2, Entry, CallsAssumption DEF IInv, CallCancel, Without, Calls
<1>4. \A x \in Calls : InMap(x)' <=> (InMap(x) /\ x # pending[cell[c]])
  BY <1>1, <1>2, <1>3, CallsAssumption DEF IInv, TypeOK, ClientTypeOK,
    CallTypeOK, InMap, CallCancel, Without, hbVars, Calls
<1>5. \A x \in Calls : Held(x)' <=> Held(x)
  BY <1>1, <1>2, <1>3, <1>4, CallsAssumption DEF IInv, TypeOK, CallTypeOK,
    Held, InMap, CallCancel, Without, inputVars, Calls
<1>6. TypeOK'
  <2>1. ClientTypeOK'
    BY <1>2 DEF IInv, TypeOK, ClientTypeOK, CallCancel, hbVars
  <2>2. CallTypeOK'
    BY <1>2 DEF IInv, TypeOK, ClientTypeOK, CallTypeOK, CallCancel
  <2>3. InputTypeOK' /\ FrameTypeOK' /\ DoneTypeOK' /\ ResultTypeOK'
    BY DEF IInv, TypeOK, InputTypeOK,
       FrameTypeOK, DoneTypeOK, ResultTypeOK, CallCancel, inputVars,
       frameVars, doneVars
  <2> QED
    BY <2>1, <2>2, <2>3 DEF TypeOK
<1>7. MapInv'
  BY <1>1, <1>2, <1>3, CallsAssumption DEF IInv, TypeOK, ClientTypeOK,
    CallTypeOK, MapInv, CallCancel, Without, Calls
<1>8. SeqInv'
  BY <1>1, <1>2, <1>3, <1>4, CallsAssumption DEF IInv, TypeOK, ClientTypeOK,
    CallTypeOK, FrameTypeOK, SeqInv, SenderInv, Numbered, CallCancel, Without,
    frameVars, Calls, Answers
<1>9. SenderInv'
  BY <1>1, <1>2, <1>3, CallsAssumption DEF IInv, TypeOK, CallTypeOK,
    DoneTypeOK, SenderInv, CallCancel, Without, doneVars, frameVars, Calls,
    Answers
<1>10. HandInv'
  BY <1>1, <1>2, <1>3, <1>4, CallsAssumption DEF IInv, TypeOK, InputTypeOK,
    DoneTypeOK, HandInv, CallCancel, Without, inputVars, doneVars, frameVars,
    Calls, Answers
<1>11. VictimInv'
  <2>1. \A d \in Calls : victim'[d] # NoCall =>
          \/ d = c /\ victim'[d] = pending[cell[c]]
          \/ d # c /\ victim'[d] = victim[d] /\ caller'[d] = caller[d]
    BY <1>2 DEF IInv, TypeOK, CallTypeOK, CallCancel
  <2>2. caller'[c] = "cancel"
    BY DEF IInv, TypeOK, CallTypeOK, CallCancel, Calls
  <2>3. \A d \in Calls : victim'[d] # NoCall =>
          /\ d \in SyncCalls /\ caller'[d] = "cancel"
          /\ sender[victim'[d]] \notin {"idle", "lock"}
          /\ pending'[mySeq[victim'[d]]] # victim'[d]
          /\ victim'[d] # hand /\ reply[victim'[d]] = NoCall
    <3> SUFFICES ASSUME NEW d \in Calls, victim'[d] # NoCall
                 PROVE  /\ d \in SyncCalls /\ caller'[d] = "cancel"
                        /\ sender[victim'[d]] \notin {"idle", "lock"}
                        /\ pending'[mySeq[victim'[d]]] # victim'[d]
                        /\ victim'[d] # hand /\ reply[victim'[d]] = NoCall
      OBVIOUS
    <3>1. CASE d = c
      BY <1>3, <1>4, <2>1, <2>2, <3>1 DEF InMap, CallCancel
    <3>2. CASE d # c
      BY <1>4, <2>1, <3>2
      DEF IInv, TypeOK, CallTypeOK, VictimInv, InMap, CallCancel
    <3> QED BY <3>1, <3>2
  <2>4. ASSUME NEW d \in Calls, NEW e \in Calls, victim'[d] # NoCall,
               victim'[d] = victim'[e]
        PROVE  d = e
    BY <1>3, <2>1, <2>4 DEF IInv, VictimInv
  <2> QED
    BY <2>3, <2>4 DEF VictimInv, InMap, CallCancel, inputVars, doneVars
<1>12. FlagInv'
  BY <1>1, <1>2, <1>3, <1>4, CallsAssumption DEF IInv, TypeOK, DoneTypeOK,
    InputTypeOK, FlagInv, CallCancel, Without, inputVars, doneVars, Calls
<1>13. AnsweredInv'
  BY <1>1, <1>2, <1>3, <1>4, CallsAssumption DEF IInv, TypeOK, DoneTypeOK,
    AnsweredInv, CallCancel, Without, doneVars, frameVars, Calls, Answers
<1>14. CallerInv'
  BY <1>1, <1>2, <1>3, CallsAssumption DEF IInv, TypeOK, CallTypeOK,
    DoneTypeOK, CallerInv, CallCancel, Without, doneVars, Calls
<1>15. CountInv'
  BY <1>5, CallsAssumption DEF IInv, TypeOK, CallTypeOK, DoneTypeOK, CountInv,
    Flag, CallCancel, Without, inputVars, doneVars, Calls
<1>16. HeldInv'
  BY <1>5, CallsAssumption DEF IInv, TypeOK, CallTypeOK, DoneTypeOK, HeldInv,
    CallCancel, Without, doneVars, Calls
<1>17. OutcomeInv'
  BY DEF IInv, OutcomeInv, CallCancel, Without, doneVars, frameVars
<1> QED
  BY <1>6, <1>7, <1>8, <1>9, <1>10, <1>11, <1>12, <1>13, <1>14, <1>15, <1>16,
    <1>17 DEF IInv

LEMMA CallCancelledStep ==
  ASSUME IInv, NEW c \in SyncCalls, CallCancelled(c)
  PROVE  IInv'
<1>1. Completed({victim[c]} \ {NoCall}, "ctx")
  <2>1. {victim[c]} \ {NoCall} \in SUBSET Calls
    BY DEF IInv, TypeOK, InputTypeOK, CallTypeOK, Calls, CallCancelled
  <2>2. ("ctx") \in Errors
    BY DEF Errors
  <2> QED
    BY <2>1, <2>2, CompleteEffect DEF IInv, CallCancelled
<1>2. \A x \in Calls : x = victim[c] =>
        /\ ~InMap(x) /\ x # hand /\ reply[x] = NoCall /\ Held(x)
        /\ sender[x] \notin {"idle", "lock"}
  BY CallsAssumption DEF IInv, TypeOK, VictimInv, Held, CallCancelled,
    inputVars, Calls
<1>3. \A x \in Calls : InMap(x)' <=> InMap(x)
  BY <1>2, CallsAssumption DEF IInv, InMap, CallCancelled, clientVars, Calls
<1>4. \A x \in Calls : Held(x)' <=> (Held(x) /\ x # victim[c])
  BY <1>2, <1>3, CallsAssumption DEF IInv, TypeOK, CallTypeOK, Held,
    VictimInv, CallCancelled, clientVars, inputVars, Calls
<1>5. \A x \in Calls : completions'[x] = completions[x] + Flag(x = victim[c])
  BY <1>1, <1>2, CallsAssumption DEF IInv, TypeOK, DoneTypeOK, Flag,
    Completed, CallCancelled, Calls
<1>6. TypeOK'
  BY <1>1, <1>2, CallsAssumption, BoundsAssumption DEF IInv, TypeOK,
    ClientTypeOK, CallTypeOK, InputTypeOK, FrameTypeOK, DoneTypeOK,
    ResultTypeOK, Completed, CallCancelled, clientVars, inputVars, frameVars,
    hbVars, Seqs, Calls, Errors, Answers, Replies
<1>7. SenderInv'
  BY <1>1, <1>2, CallsAssumption DEF IInv, TypeOK, CallTypeOK, DoneTypeOK,
    SenderInv, Completed, CallCancelled, frameVars, Calls, Answers
<1>8. HandInv'
  BY <1>1, <1>2, <1>3, CallsAssumption DEF IInv, TypeOK, InputTypeOK,
    DoneTypeOK, HandInv, Completed, CallCancelled, clientVars, inputVars,
    frameVars, Calls, Answers
<1>9. VictimInv'
  BY <1>2, <1>3, CallsAssumption DEF IInv, TypeOK, CallTypeOK, InputTypeOK,
    DoneTypeOK, VictimInv, CallCancelled, clientVars, inputVars, Calls
<1>10. FlagInv'
  BY <1>1, <1>2, <1>3, CallsAssumption DEF IInv, TypeOK, DoneTypeOK,
    InputTypeOK, FlagInv, Completed, CallCancelled, clientVars, inputVars,
    Calls
<1>11. AnsweredInv'
  BY <1>1, <1>2, <1>3, CallsAssumption DEF IInv, TypeOK, DoneTypeOK,
    AnsweredInv, Completed, CallCancelled, clientVars, frameVars, Calls,
    Answers
<1>12. OutcomeInv'
  BY <1>1, <1>2, CallsAssumption DEF IInv, TypeOK, DoneTypeOK, OutcomeInv,
    Completed, CallCancelled, frameVars, Calls, Answers
<1>13. CallerInv'
  BY <1>1, <1>2, CallsAssumption DEF IInv, TypeOK, CallTypeOK, DoneTypeOK,
    CallerInv, Completed, CallCancelled, Calls
<1>14. CountInv'
  <2> SUFFICES ASSUME NEW x \in Calls
               PROVE  completions'[x] + Flag(sender'[x] # "over")
                      + Flag(Held(x)') + Flag(input' # "over") <= 3
    BY DEF CountInv
  <2>1. /\ completions[x] + Flag(sender[x] # "over")
           + Flag(Held(x)) + Flag(input # "over") <= 3
        /\ completions[x] \in Nat
    BY DEF IInv, CountInv, TypeOK, DoneTypeOK
  <2>2. CASE x = victim[c]
    BY <2>1, <2>2, <1>4, <1>5, <1>2 DEF Flag, CallCancelled, inputVars
  <2>3. CASE ~(x = victim[c])
    BY <2>1, <2>3, <1>4, <1>5, <1>2 DEF Flag, CallCancelled, inputVars
  <2> QED
    BY <2>2, <2>3
<1>15. HeldInv'
  <2> SUFFICES ASSUME NEW x \in Calls,
                      sender'[x] \notin {"idle", "lock", "fail"}, ~Held(x)'
               PROVE  completions'[x] > 0
    BY DEF HeldInv
  <2>1. completions[x] > 0 \/ Held(x)
    BY DEF IInv, HeldInv, CallCancelled
  <2>2. completions[x] \in Nat
    BY DEF IInv, TypeOK, DoneTypeOK
  <2>3. CASE x = victim[c]
    BY <2>1, <2>2, <2>3, <1>4, <1>5, <1>2 DEF Flag
  <2>4. CASE ~(x = victim[c])
    BY <2>1, <2>2, <2>4, <1>4, <1>5, <1>2 DEF Flag
  <2> QED
    BY <2>3, <2>4
<1>16. MapInv' /\ SeqInv'
  BY DEF IInv, MapInv, SeqInv, InMap, Numbered, CallCancelled, clientVars,
    frameVars
<1> QED
  BY <1>6, <1>7, <1>8, <1>9, <1>10, <1>11, <1>12, <1>13, <1>14, <1>15, <1>16
    DEF IInv

LEMMA SendRefusedStep ==
  ASSUME IInv, NEW c \in Calls, SendRefused(c)
  PROVE  IInv'
<1>1. Completed({c}, "shutdown")
  <2>1. {c} \in SUBSET Calls /\ "shutdown" \in Errors
    BY DEF Errors
  <2> QED
    BY <2>1, CompleteEffect DEF IInv, SendRefused
<1>2. \A x \in Calls : Held(x)' <=> Held(x)
  BY DEF IInv, Held, InMap, SendRefused, clientVars, inputVars, Calls
<1>3. ~InMap(c) /\ hand # c /\ (\A d \in Calls : victim[d] # c)
      /\ frame[c] = "none" /\ completions[c] = 0 /\ reply[c] = NoCall
      /\ ~Held(c)
  BY Unsent, CallsAssumption DEF IInv, Held, SendRefused, inputVars, Calls
<1>4. TypeOK'
  BY <1>1, <1>3, CallsAssumption, BoundsAssumption DEF IInv, TypeOK,
    ClientTypeOK, CallTypeOK, InputTypeOK, FrameTypeOK, DoneTypeOK,
    ResultTypeOK, Completed, SendRefused, clientVars, inputVars, frameVars,
    hbVars, Seqs, Calls, Errors, Answers, Replies
<1>5. MapInv'
  BY <1>3, CallsAssumption DEF IInv, TypeOK, ClientTypeOK, CallTypeOK, MapInv,
    SendRefused, clientVars, Calls
<1>6. SeqInv'
  BY <1>3, CallsAssumption DEF IInv, TypeOK, ClientTypeOK, CallTypeOK,
    FrameTypeOK, SeqInv, SenderInv, InMap, Numbered, SendRefused, clientVars,
    frameVars, Calls, Answers
<1>7. SenderInv'
  BY <1>1, <1>3, CallsAssumption DEF IInv, TypeOK, CallTypeOK, DoneTypeOK,
    SenderInv, Completed, SendRefused, frameVars, Calls, Answers
<1>8. HandInv'
  BY <1>1, <1>3, CallsAssumption DEF IInv, TypeOK, InputTypeOK, DoneTypeOK,
    HandInv, InMap, Completed, SendRefused, clientVars, inputVars, frameVars,
    Calls, Answers
<1>9. VictimInv'
  BY <1>3, CallsAssumption DEF IInv, TypeOK, CallTypeOK, InputTypeOK,
    DoneTypeOK, VictimInv, InMap, SendRefused, clientVars, inputVars, Calls
<1>10. FlagInv'
  BY <1>1, <1>3, CallsAssumption DEF IInv, TypeOK, DoneTypeOK, InputTypeOK,
    FlagInv, InMap, Completed, SendRefused, clientVars, inputVars, Calls
<1>11. AnsweredInv'
  BY <1>1, <1>3, CallsAssumption DEF IInv, TypeOK, DoneTypeOK, AnsweredInv,
    InMap, Completed, SendRefused, clientVars, frameVars, Calls, Answers
<1>12. OutcomeInv'
  BY <1>1, <1>3, CallsAssumption DEF IInv, TypeOK, DoneTypeOK, OutcomeInv,
    Completed, SendRefused, frameVars, Calls, Answers
<1>13. CallerInv'
  BY <1>1, <1>3, CallsAssumption DEF IInv, TypeOK, CallTypeOK, DoneTypeOK,
    CallerInv, Completed, SendRefused, Calls
<1>14. CountInv'
  BY <1>1, <1>2, <1>3, CallsAssumption DEF IInv, TypeOK, CallTypeOK,
    DoneTypeOK, CountInv, Flag, Completed, SendRefused, inputVars, Calls
<1>15. HeldInv'
  BY <1>1, <1>2, <1>3, CallsAssumption DEF IInv, TypeOK, CallTypeOK,
    DoneTypeOK, HeldInv, Completed, SendRefused, Calls
<1> QED
  BY <1>4, <1>5, <1>6, <1>7, <1>8, <1>9, <1>10, <1>11, <1>12, <1>13, <1>14,
    <1>15 DEF IInv

LEMMA SendNoCodecStep ==
  ASSUME IInv, NEW c \in Calls, SendNoCodec(c)
  PROVE  IInv'
<1>1. Completed({c}, "codec")
  <2>1. {c} \in SUBSET Calls /\ "codec" \in Errors
    BY DEF Errors
  <2> QED
    BY <2>1, CompleteEffect DEF IInv, SendNoCodec
<1>2. \A x \in Calls : Held(x)' <=> Held(x)
  BY DEF IInv, Held, InMap, SendNoCodec, clientVars, inputVars, Calls
<1>3. ~InMap(c) /\ hand # c /\ (\A d \in Calls : victim[d] # c)
      /\ frame[c] = "none" /\ completions[c] = 0 /\ reply[c] = NoCall
      /\ ~Held(c)
  BY Unsent, CallsAssumption DEF IInv, Held, SendNoCodec, inputVars, Calls
<1>4. TypeOK'
  BY <1>1, <1>3, CallsAssumption, BoundsAssumption DEF IInv, TypeOK,
    ClientTypeOK, CallTypeOK, InputTypeOK, FrameTypeOK, DoneTypeOK,
    ResultTypeOK, Completed, SendNoCodec, clientVars, inputVars, frameVars,
    hbVars, Seqs, Calls, Errors, Answers, Replies
<1>5. MapInv'
  BY <1>3, CallsAssumption DEF IInv, TypeOK, ClientTypeOK, CallTypeOK, MapInv,
    SendNoCodec, clientVars, Calls
<1>6. SeqInv'
  BY <1>3, CallsAssumption DEF IInv, TypeOK, ClientTypeOK, CallTypeOK,
    FrameTypeOK, SeqInv, SenderInv, InMap, Numbered, SendNoCodec, clientVars,
    frameVars, Calls, Answers
<1>7. SenderInv'
  BY <1>1, <1>3, CallsAssumption DEF IInv, TypeOK, CallTypeOK, DoneTypeOK,
    SenderInv, Completed, SendNoCodec, frameVars, Calls, Answers
<1>8. HandInv'
  BY <1>1, <1>3, CallsAssumption DEF IInv, TypeOK, InputTypeOK, DoneTypeOK,
    HandInv, InMap, Completed, SendNoCodec, clientVars, inputVars, frameVars,
    Calls, Answers
<1>9. VictimInv'
  BY <1>3, CallsAssumption DEF IInv, TypeOK, CallTypeOK, InputTypeOK,
    DoneTypeOK, VictimInv, InMap, SendNoCodec, clientVars, inputVars, Calls
<1>10. FlagInv'
  BY <1>1, <1>3, CallsAssumption DEF IInv, TypeOK, DoneTypeOK, InputTypeOK,
    FlagInv, InMap, Completed, SendNoCodec, clientVars, inputVars, Calls
<1>11. AnsweredInv'
  BY <1>1, <1>3, CallsAssumption DEF IInv, TypeOK, DoneTypeOK, AnsweredInv,
    InMap, Completed, SendNoCodec, clientVars, frameVars, Calls, Answers
<1>12. OutcomeInv'
  BY <1>1, <1>3, CallsAssumption DEF IInv, TypeOK, DoneTypeOK, OutcomeInv,
    Completed, SendNoCodec, frameVars, Calls, Answers
<1>13. CallerInv'
  BY <1>1, <1>3, CallsAssumption DEF IInv, TypeOK, CallTypeOK, DoneTypeOK,
    CallerInv, Completed, SendNoCodec, Calls
<1>14. CountInv'
  BY <1>1, <1>2, <1>3, CallsAssumption DEF IInv, TypeOK, CallTypeOK,
    DoneTypeOK, CountInv, Flag, Completed, SendNoCodec, inputVars, Calls
<1>15. HeldInv'
  BY <1>1, <1>2, <1>3, CallsAssumption DEF IInv, TypeOK, CallTypeOK,
    DoneTypeOK, HeldInv, Completed, SendNoCodec, Calls
<1> QED
  BY <1>4, <1>5, <1>6, <1>7, <1>8, <1>9, <1>10, <1>11, <1>12, <1>13, <1>14,
    <1>15 DEF IInv

LEMMA SendRegisterStep ==
  ASSUME IInv, NEW c \in Calls, SendRegister(c)
  PROVE  IInv'
<1>1. seq \in Seqs /\ seq \in Nat /\ MaxSeq \in Nat
  BY CallsAssumption, BoundsAssumption DEF IInv, TypeOK, ClientTypeOK, Seqs,
    SendRegister, hbVars, Calls
<1>2. pending[seq] = NoCall
  BY <1>1, Entry, CallsAssumption DEF IInv, SeqInv, SendRegister, Calls
<1>3. ~InMap(c) /\ hand # c /\ (\A d \in Calls : victim[d] # c)
      /\ frame[c] = "none" /\ completions[c] = 0 /\ reply[c] = NoCall
      /\ ~Held(c)
  BY <1>1, <1>2, Unsent, CallsAssumption DEF IInv, Held, SendRegister,
    inputVars, Calls
<1>4. \A x \in Calls : InMap(x)' <=> (InMap(x) \/ x = c)
  BY <1>1, <1>2, <1>3, CallsAssumption DEF IInv, TypeOK, ClientTypeOK,
    CallTypeOK, InMap, SendRegister, hbVars, Calls
<1>5. \A x \in Calls : Held(x)' <=> (Held(x) \/ x = c)
  BY <1>1, <1>2, <1>3, <1>4, CallsAssumption DEF IInv, Held, SendRegister,
    inputVars, Calls
<1>6. TypeOK'
  <2>1. ClientTypeOK'
    BY <1>1, BoundsAssumption
    DEF IInv, TypeOK, ClientTypeOK, Seqs, SendRegister, hbVars
  <2>2. CallTypeOK'
    BY <1>1 DEF IInv, TypeOK, CallTypeOK, SendRegister
  <2>3. InputTypeOK' /\ FrameTypeOK' /\ DoneTypeOK' /\ ResultTypeOK'
    BY DEF IInv, TypeOK, InputTypeOK,
       FrameTypeOK, DoneTypeOK, ResultTypeOK, SendRegister, inputVars,
       frameVars, doneVars
  <2> QED
    BY <2>1, <2>2, <2>3 DEF TypeOK
<1>7. MapInv'
  BY <1>1, <1>2, <1>3, CallsAssumption DEF IInv, TypeOK, ClientTypeOK,
    CallTypeOK, MapInv, SendRegister, Calls
<1>8. SeqInv'
  <2>1. \A x \in Calls : Numbered(x)' <=> (Numbered(x) \/ x = c)
    BY <1>4 DEF IInv, TypeOK, CallTypeOK, Numbered, SendRegister, frameVars
  <2>2. \A x \in Calls : x # c => mySeq'[x] = mySeq[x]
    BY DEF IInv, TypeOK, CallTypeOK, SendRegister
  <2>3. mySeq'[c] = seq /\ seq' = seq + 1
    BY DEF IInv, TypeOK, CallTypeOK, SendRegister
  <2>4. \A x \in Calls : mySeq[x] \in Nat
    BY DEF IInv, TypeOK, CallTypeOK, Seqs
  <2>5. \A x \in Calls : Numbered(x)' => mySeq'[x] < seq'
    BY <1>1, <2>1, <2>2, <2>3, <2>4 DEF IInv, SeqInv
  <2>6. ASSUME NEW x \in Calls, NEW y \in Calls, Numbered(x)', Numbered(y)',
               mySeq'[x] = mySeq'[y]
        PROVE  x = y
    BY <1>1, <2>1, <2>2, <2>3, <2>4, <2>6 DEF IInv, SeqInv
  <2> QED
    BY <2>5, <2>6 DEF SeqInv
<1>9. SenderInv'
  BY <1>1, <1>2, <1>3, CallsAssumption DEF IInv, TypeOK, CallTypeOK,
    DoneTypeOK, SenderInv, SendRegister, doneVars, frameVars, Calls, Answers
<1>10. HandInv'
  BY <1>1, <1>2, <1>3, <1>4, CallsAssumption DEF IInv, TypeOK, InputTypeOK,
    DoneTypeOK, HandInv, SendRegister, inputVars, doneVars, frameVars, Calls,
    Answers
<1>11. VictimInv'
  BY <1>1, <1>2, <1>3, <1>4, CallsAssumption DEF IInv, TypeOK, CallTypeOK,
    InputTypeOK, DoneTypeOK, VictimInv, SendRegister, inputVars, Calls
<1>12. FlagInv'
  BY <1>1, <1>2, <1>3, <1>4, CallsAssumption DEF IInv, TypeOK, DoneTypeOK,
    InputTypeOK, FlagInv, SendRegister, inputVars, doneVars, Calls
<1>13. AnsweredInv'
  BY <1>1, <1>2, <1>3, <1>4, CallsAssumption DEF IInv, TypeOK, DoneTypeOK,
    AnsweredInv, SendRegister, doneVars, frameVars, Calls, Answers
<1>14. CountInv'
  <2> SUFFICES ASSUME NEW x \in Calls
               PROVE  completions'[x] + Flag(sender'[x] # "over")
                      + Flag(Held(x)') + Flag(input' # "over") <= 3
    BY DEF CountInv
  <2>1. /\ completions[x] + Flag(sender[x] # "over")
           + Flag(Held(x)) + Flag(input # "over") <= 3
        /\ completions[x] \in Nat
    BY DEF IInv, CountInv, TypeOK, DoneTypeOK
  <2>2. CASE x = c
    BY <2>1, <2>2, <1>5, <1>3 DEF IInv, TypeOK, CallTypeOK, Flag,
      SendRegister, doneVars, inputVars
  <2>3. CASE ~(x = c)
    BY <2>1, <2>3, <1>5, <1>3 DEF IInv, TypeOK, CallTypeOK, Flag,
      SendRegister, doneVars, inputVars
  <2> QED
    BY <2>2, <2>3
<1>15. HeldInv'
  BY <1>1, <1>3, <1>5, CallsAssumption DEF IInv, TypeOK, CallTypeOK,
    DoneTypeOK, HeldInv, SendRegister, doneVars, Calls
<1>16. OutcomeInv' /\ CallerInv'
  BY DEF IInv, OutcomeInv, CallerInv, SendRegister, doneVars, frameVars
<1> QED
  BY <1>6, <1>7, <1>8, <1>9, <1>10, <1>11, <1>12, <1>13, <1>14, <1>15, <1>16
    DEF IInv

LEMMA SendStoreSeqStep ==
  ASSUME IInv, NEW c \in Calls, SendStoreSeq(c)
  PROVE  IInv'
<1>1. TypeOK'
  BY CallsAssumption, BoundsAssumption DEF IInv, TypeOK, ClientTypeOK,
    CallTypeOK, InputTypeOK, FrameTypeOK, DoneTypeOK, ResultTypeOK,
    SendStoreSeq, clientVars, inputVars, doneVars, frameVars, hbVars, Seqs,
    Calls, Errors, Answers, Replies
<1>2. MapInv'
  BY CallsAssumption DEF IInv, TypeOK, ClientTypeOK, CallTypeOK, MapInv,
    SendStoreSeq, clientVars, Calls
<1>3. SeqInv'
  BY CallsAssumption DEF IInv, TypeOK, ClientTypeOK, CallTypeOK, FrameTypeOK,
    SeqInv, SenderInv, InMap, Numbered, SendStoreSeq, clientVars, frameVars,
    Calls, Answers
<1>4. SenderInv'
  BY CallsAssumption DEF IInv, TypeOK, CallTypeOK, DoneTypeOK, SenderInv,
    SendStoreSeq, doneVars, frameVars, Calls, Answers
<1>5. VictimInv'
  BY CallsAssumption DEF IInv, TypeOK, CallTypeOK, InputTypeOK, DoneTypeOK,
    VictimInv, InMap, SendStoreSeq, clientVars, inputVars, Calls
<1>6. \A x \in Calls : Held(x)' <=> Held(x)
  BY DEF Held, InMap, SendStoreSeq, clientVars, inputVars
<1>7. CountInv'
  BY <1>6, CallsAssumption DEF IInv, TypeOK, CallTypeOK, DoneTypeOK, CountInv,
    Flag, SendStoreSeq, inputVars, doneVars, Calls
<1>8. HeldInv'
  BY <1>6, CallsAssumption DEF IInv, TypeOK, CallTypeOK, DoneTypeOK, HeldInv,
    SendStoreSeq, doneVars, Calls
<1>9. HandInv' /\ FlagInv' /\ AnsweredInv' /\ OutcomeInv' /\ CallerInv'
  BY DEF IInv, HandInv, FlagInv, AnsweredInv, OutcomeInv, CallerInv, InMap,
    SendStoreSeq, clientVars, inputVars, doneVars, frameVars
<1> QED
  BY <1>1, <1>2, <1>3, <1>4, <1>5, <1>7, <1>8, <1>9 DEF IInv

LEMMA SendWriteStep ==
  ASSUME IInv, NEW c \in Calls, SendWrite(c)
  PROVE  IInv'
<1>1. frame[c] = "none"
  BY CallsAssumption DEF IInv, SenderInv, SendWrite, doneVars, Calls, Answers
<1>2. TypeOK'
  BY <1>1, CallsAssumption, BoundsAssumption DEF IInv, TypeOK, ClientTypeOK,
    CallTypeOK, InputTypeOK, FrameTypeOK, DoneTypeOK, ResultTypeOK, SendWrite,
    clientVars, inputVars, doneVars, hbVars, Seqs, Calls, Errors, Answers,
    Replies
<1>3. MapInv'
  BY <1>1, CallsAssumption DEF IInv, TypeOK, ClientTypeOK, CallTypeOK, MapInv,
    SendWrite, clientVars, Calls
<1>4. SeqInv'
  BY <1>1, CallsAssumption DEF IInv, TypeOK, ClientTypeOK, CallTypeOK,
    FrameTypeOK, SeqInv, SenderInv, InMap, Numbered, SendWrite, clientVars,
    Calls, Answers
<1>5. SenderInv'
  BY <1>1, CallsAssumption DEF IInv, TypeOK, CallTypeOK, DoneTypeOK,
    SenderInv, SendWrite, doneVars, Calls, Answers
<1>6. HandInv'
  BY <1>1, CallsAssumption DEF IInv, TypeOK, FrameTypeOK, HandInv, InMap,
    SendWrite, clientVars, inputVars, doneVars, Calls, Answers
<1>7. VictimInv'
  BY <1>1, CallsAssumption DEF IInv, TypeOK, CallTypeOK, InputTypeOK,
    DoneTypeOK, VictimInv, InMap, SendWrite, clientVars, inputVars, Calls
<1>8. AnsweredInv'
  BY <1>1, CallsAssumption DEF IInv, TypeOK, FrameTypeOK, AnsweredInv, InMap,
    SendWrite, clientVars, doneVars, Calls, Answers
<1>9. OutcomeInv'
  BY <1>1, CallsAssumption DEF IInv, TypeOK, FrameTypeOK, OutcomeInv,
    SendWrite, doneVars, Calls, Answers, Blameless
<1>10. \A x \in Calls : Held(x)' <=> Held(x)
  BY DEF Held, InMap, SendWrite, clientVars, inputVars
<1>11. CountInv'
  BY <1>1, <1>10, CallsAssumption DEF IInv, TypeOK, CallTypeOK, DoneTypeOK,
    CountInv, Flag, SendWrite, inputVars, doneVars, Calls
<1>12. HeldInv'
  BY <1>1, <1>10, CallsAssumption DEF IInv, TypeOK, CallTypeOK, DoneTypeOK,
    HeldInv, SendWrite, doneVars, Calls
<1>13. FlagInv' /\ CallerInv'
  BY DEF IInv, FlagInv, CallerInv, InMap, SendWrite, clientVars, inputVars,
    doneVars
<1> QED
  BY <1>2, <1>3, <1>4, <1>5, <1>6, <1>7, <1>8, <1>9, <1>11, <1>12, <1>13 DEF
    IInv

LEMMA SendFailStep ==
  ASSUME IInv, NEW c \in Calls, SendFail(c)
  PROVE  IInv'
<1>1. mySeq[c] \in Seqs /\ pending' = [pending EXCEPT ![mySeq[c]] = NoCall]
  BY CallsAssumption DEF IInv, TypeOK, CallTypeOK, Without, SendFail, Without,
    Calls
<1>2. Numbered(c) /\ frame[c] = "none"
  BY <1>1, CallsAssumption DEF IInv, Numbered, SenderInv, SendFail, Without,
    doneVars, frameVars, Calls, Answers
<1>3. pending[mySeq[c]] \in {c, NoCall}
  BY <1>1, <1>2, Entry, CallsAssumption DEF IInv, SeqInv, SendFail, Without,
    Calls
<1>4. \A x \in Calls : InMap(x)' <=> (InMap(x) /\ x # c)
  BY <1>1, <1>2, <1>3, CallsAssumption DEF IInv, TypeOK, ClientTypeOK,
    CallTypeOK, InMap, SendFail, Without, hbVars, Calls
<1>5. /\ \A x \in Calls : x # c => Held(x)' <=> Held(x)
      /\ Held(c)' => Held(c)
  BY <1>1, <1>2, <1>3, <1>4, CallsAssumption DEF IInv, Held, SendFail,
    Without, inputVars, Calls
<1>6. TypeOK'
  <2>1. pending' \in [Seqs -> Calls \cup {NoCall}]
    BY <1>1 DEF IInv, TypeOK, ClientTypeOK
  <2>2. sender' \in [Calls -> {"idle", "lock", "store", "write", "fail",
                              "over"}]
    BY DEF IInv, TypeOK, CallTypeOK, SendFail
  <2>3. UNCHANGED <<option, seq, closing, shutdown, conn, caller, mySeq, cell,
                    victim, ctxDone, inputVars, doneVars, hbVars, reply,
                    frameVars, result, received>>
    BY DEF SendFail
  <2> QED
    BY <2>1, <2>2, <2>3 DEF IInv, TypeOK, ClientTypeOK, CallTypeOK,
      InputTypeOK, FrameTypeOK, DoneTypeOK, ResultTypeOK, inputVars, doneVars,
      frameVars, hbVars
<1>7. MapInv'
  BY <1>1, <1>2, <1>3, CallsAssumption DEF IInv, TypeOK, ClientTypeOK,
    CallTypeOK, MapInv, SendFail, Without, Calls
<1>8. SeqInv'
  BY <1>1, <1>2, <1>3, <1>4, CallsAssumption DEF IInv, TypeOK, ClientTypeOK,
    CallTypeOK, FrameTypeOK, SeqInv, SenderInv, Numbered, SendFail, Without,
    frameVars, Calls, Answers
<1>9. SenderInv'
  BY <1>1, <1>2, <1>3, CallsAssumption DEF IInv, TypeOK, CallTypeOK,
    DoneTypeOK, SenderInv, SendFail, Without, doneVars, frameVars, Calls,
    Answers
<1>10. HandInv'
  BY <1>1, <1>2, <1>3, <1>4, CallsAssumption DEF IInv, TypeOK, InputTypeOK,
    DoneTypeOK, HandInv, SendFail, Without, inputVars, doneVars, frameVars,
    Calls, Answers
<1>11. VictimInv'
  BY <1>1, <1>2, <1>3, <1>4, CallsAssumption DEF IInv, TypeOK, CallTypeOK,
    VictimInv, SendFail, Without, inputVars, Calls
<1>12. FlagInv'
  BY <1>1, <1>2, <1>3, <1>4, CallsAssumption DEF IInv, TypeOK, DoneTypeOK,
    InputTypeOK, FlagInv, SendFail, Without, inputVars, doneVars, Calls
<1>13. AnsweredInv'
  BY <1>1, <1>2, <1>3, <1>4, CallsAssumption DEF IInv, TypeOK, DoneTypeOK,
    AnsweredInv, SendFail, Without, doneVars, frameVars, Calls, Answers
<1>14. CountInv'
  BY <1>2, <1>5, CallsAssumption DEF IInv, TypeOK, CallTypeOK, DoneTypeOK,
    CountInv, Flag, SendFail, Without, inputVars, doneVars, Calls
<1>15. HeldInv'
  BY <1>2, <1>5, CallsAssumption DEF IInv, TypeOK, CallTypeOK, DoneTypeOK,
    HeldInv, SendFail, Without, doneVars, Calls
<1>16. OutcomeInv' /\ CallerInv'
  BY DEF IInv, OutcomeInv, CallerInv, SendFail, Without, doneVars, frameVars
<1> QED
  BY <1>6, <1>7, <1>8, <1>9, <1>10, <1>11, <1>12, <1>13, <1>14, <1>15, <1>16
    DEF IInv

LEMMA SendFailedStep ==
  ASSUME IInv, NEW c \in Calls, SendFailed(c)
  PROVE  IInv'
<1>1. Completed({c}, "send")
  <2>1. {c} \in SUBSET Calls /\ "send" \in Errors
    BY DEF Errors
  <2> QED
    BY <2>1, CompleteEffect DEF IInv, SendFailed
<1>2. \A x \in Calls : Held(x)' <=> Held(x)
  BY DEF IInv, Held, InMap, SendFailed, clientVars, inputVars, Calls
<1>3. frame[c] = "none" /\ reply[c] = NoCall
  BY <1>2, CallsAssumption DEF IInv, SenderInv, AnsweredInv, SendFailed,
    frameVars, Calls, Answers
<1>4. ~InMap(c) /\ c # hand
  BY <1>3, Mapped, CallsAssumption DEF IInv, HandInv, TypeOK, InputTypeOK,
    SendFailed, inputVars, frameVars, Calls, Answers
<1>5. TypeOK'
  BY <1>1, <1>3, <1>4, CallsAssumption, BoundsAssumption DEF IInv, TypeOK,
    ClientTypeOK, CallTypeOK, InputTypeOK, FrameTypeOK, DoneTypeOK,
    ResultTypeOK, Completed, SendFailed, clientVars, inputVars, frameVars,
    hbVars, Seqs, Calls, Errors, Answers, Replies
<1>6. MapInv'
  BY <1>3, <1>4, CallsAssumption DEF IInv, TypeOK, ClientTypeOK, CallTypeOK,
    MapInv, SendFailed, clientVars, Calls
<1>7. SeqInv'
  BY <1>3, <1>4, CallsAssumption DEF IInv, TypeOK, ClientTypeOK, CallTypeOK,
    FrameTypeOK, SeqInv, SenderInv, InMap, Numbered, SendFailed, clientVars,
    frameVars, Calls, Answers
<1>8. SenderInv'
  BY <1>1, <1>3, <1>4, CallsAssumption DEF IInv, TypeOK, CallTypeOK,
    DoneTypeOK, SenderInv, Completed, SendFailed, frameVars, Calls, Answers
<1>9. HandInv'
  BY <1>1, <1>3, <1>4, CallsAssumption DEF IInv, TypeOK, InputTypeOK,
    DoneTypeOK, HandInv, InMap, Completed, SendFailed, clientVars, inputVars,
    frameVars, Calls, Answers
<1>10. VictimInv'
  BY <1>3, <1>4, CallsAssumption DEF IInv, TypeOK, CallTypeOK, InputTypeOK,
    DoneTypeOK, VictimInv, InMap, SendFailed, clientVars, inputVars, Calls
<1>11. FlagInv'
  BY <1>1, <1>3, <1>4, CallsAssumption DEF IInv, TypeOK, DoneTypeOK,
    InputTypeOK, FlagInv, InMap, Completed, SendFailed, clientVars, inputVars,
    Calls
<1>12. AnsweredInv'
  BY <1>1, <1>3, <1>4, CallsAssumption DEF IInv, TypeOK, DoneTypeOK,
    AnsweredInv, InMap, Completed, SendFailed, clientVars, frameVars, Calls,
    Answers
<1>13. OutcomeInv'
  BY <1>1, <1>3, <1>4, CallsAssumption DEF IInv, TypeOK, DoneTypeOK,
    OutcomeInv, Completed, SendFailed, frameVars, Calls, Answers
<1>14. CallerInv'
  BY <1>1, <1>3, <1>4, CallsAssumption DEF IInv, TypeOK, CallTypeOK,
    DoneTypeOK, CallerInv, Completed, SendFailed, Calls
<1>15. CountInv'
  BY <1>1, <1>2, <1>3, <1>4, CallsAssumption DEF IInv, TypeOK, CallTypeOK,
    DoneTypeOK, CountInv, Flag, Completed, SendFailed, inputVars, Calls
<1>16. HeldInv'
  BY <1>1, <1>2, <1>3, <1>4, CallsAssumption DEF IInv, TypeOK, CallTypeOK,
    DoneTypeOK, HeldInv, Completed, SendFailed, Calls
<1> QED
  BY <1>5, <1>6, <1>7, <1>8, <1>9, <1>10, <1>11, <1>12, <1>13, <1>14, <1>15,
    <1>16 DEF IInv

LEMMA InputReadStep ==
  ASSUME IInv, NEW c \in Calls, InputRead(c)
  PROVE  IInv'
<1>1. mySeq[c] \in Seqs /\ pending' = [pending EXCEPT ![mySeq[c]] = NoCall]
  BY CallsAssumption DEF IInv, TypeOK, CallTypeOK, Without, InputRead,
    Without, callVars, Calls
<1>2. hand = NoCall /\ msg = NoCall /\ Numbered(c)
  BY <1>1, CallsAssumption DEF IInv, TypeOK, InputTypeOK, Numbered, InputRead,
    Without, callVars, inputVars, Calls, Answers
<1>3. pending[mySeq[c]] \in {c, NoCall}
  BY <1>1, <1>2, Entry, CallsAssumption DEF IInv, SeqInv, InputRead, Without,
    callVars, Calls
<1>4. InMap(c) => /\ \A d \in Calls : victim[d] # c
                  /\ reply[c] = NoCall /\ completions[c] = 0
  BY <1>1, <1>2, <1>3, Mapped, CallsAssumption DEF IInv, FlagInv, InputRead,
    Without, inputVars, doneVars, Calls
<1>5. \A x \in Calls : InMap(x)' <=> (InMap(x) /\ x # c)
  BY <1>1, <1>2, <1>3, <1>4, CallsAssumption DEF IInv, TypeOK, ClientTypeOK,
    CallTypeOK, InMap, InputRead, Without, callVars, hbVars, Calls
<1>6. \A x \in Calls : Held(x)' <=> Held(x)
  BY <1>1, <1>2, <1>3, <1>4, <1>5, CallsAssumption DEF IInv, Held, InMap,
    InputRead, Without, callVars, inputVars, Calls
<1>7. TypeOK'
  BY <1>1, <1>2, <1>3, CallsAssumption, BoundsAssumption DEF IInv, TypeOK,
    ClientTypeOK, CallTypeOK, InputTypeOK, FrameTypeOK, DoneTypeOK,
    ResultTypeOK, InputRead, Without, callVars, inputVars, doneVars, hbVars,
    Seqs, Calls, Errors, Answers, Replies
<1>8. MapInv'
  BY <1>1, <1>2, <1>3, <1>4, CallsAssumption DEF IInv, TypeOK, ClientTypeOK,
    CallTypeOK, MapInv, InputRead, Without, callVars, Calls
<1>9. SeqInv'
  BY <1>1, <1>2, <1>3, <1>4, <1>5, CallsAssumption DEF IInv, TypeOK,
    ClientTypeOK, CallTypeOK, FrameTypeOK, SeqInv, SenderInv, Numbered,
    InputRead, Without, callVars, Calls, Answers
<1>10. HandInv'
  <2>1. CASE pending[mySeq[c]] = NoCall
    BY <1>2, <2>1 DEF InputRead, inputVars, HandInv
  <2>2. CASE pending[mySeq[c]] = c
    <3>1. InMap(c) /\ ~InMap(c)'
      BY <1>5, <2>2 DEF InMap
    <3>2. hand' = c /\ msg' = c /\ frame[c] \in Answers
      BY <2>2, CallsAssumption DEF InputRead, Calls
    <3> QED
      BY <1>4, <3>1, <3>2 DEF InputRead, HandInv, doneVars
  <2> QED
    BY <1>3, <2>1, <2>2
<1>11. VictimInv'
  <2>1. \A d \in Calls : victim[d] # NoCall =>
          pending'[mySeq[victim[d]]] # victim[d]
    BY <1>5 DEF IInv, TypeOK, CallTypeOK, VictimInv, InMap, InputRead, callVars
  <2>2. \A d \in Calls : victim[d] # NoCall => victim[d] # hand'
    <3>1. CASE pending[mySeq[c]] = NoCall
      BY <3>1 DEF IInv, VictimInv, InputRead, inputVars
    <3>2. CASE pending[mySeq[c]] = c
      BY <1>4, <3>2, CallsAssumption DEF InputRead, InMap, Calls
    <3> QED
      BY <1>3, <3>1, <3>2
  <2> QED
    BY <2>1, <2>2 DEF IInv, VictimInv, InMap, InputRead, callVars
<1>12. FlagInv'
  BY <1>1, <1>2, <1>3, <1>4, <1>5, CallsAssumption DEF IInv, TypeOK,
    DoneTypeOK, InputTypeOK, FlagInv, InputRead, Without, callVars, inputVars,
    doneVars, Calls
<1>13. AnsweredInv'
  BY <1>1, <1>2, <1>3, <1>4, <1>5, CallsAssumption DEF IInv, TypeOK,
    DoneTypeOK, AnsweredInv, InputRead, Without, callVars, doneVars, Calls,
    Answers
<1>14. CountInv'
  BY <1>2, <1>4, <1>6, CallsAssumption DEF IInv, TypeOK, CallTypeOK,
    DoneTypeOK, CountInv, Flag, InputRead, Without, callVars, inputVars,
    doneVars, Calls
<1>15. HeldInv'
  BY <1>2, <1>4, <1>6, CallsAssumption DEF IInv, TypeOK, CallTypeOK,
    DoneTypeOK, HeldInv, InputRead, Without, callVars, doneVars, Calls
<1>16. SenderInv' /\ OutcomeInv' /\ CallerInv'
  BY DEF IInv, SenderInv, OutcomeInv, CallerInv, InputRead, Without, callVars,
    doneVars
<1> QED
  BY <1>7, <1>8, <1>9, <1>10, <1>11, <1>12, <1>13, <1>14, <1>15, <1>16 DEF
    IInv

LEMMA InputDeliverStep ==
  ASSUME IInv, InputDeliver
  PROVE  IInv'
<1>1. Completed({hand},
                IF frame[msg] \in Blameless THEN err[hand] ELSE "service")
  <2>1. {hand} \in SUBSET Calls
    BY DEF IInv, TypeOK, InputTypeOK, CallTypeOK, Calls, InputDeliver
  <2>2. (IF frame[msg] \in Blameless THEN err[hand] ELSE "service") \in Errors
    BY DEF Errors, IInv, TypeOK, DoneTypeOK, InputTypeOK, InputDeliver
  <2> QED
    BY <2>1, <2>2, CompleteEffect DEF IInv, InputDeliver
<1>2. /\ hand \in Calls /\ hand = msg /\ ~InMap(hand) /\ completions[hand] = 0
      /\ frame[hand] \in Answers /\ sender[hand] = "over" /\ hand' = NoCall
      /\ (\A d \in Calls : victim[d] # hand)
      /\ reply' = [reply EXCEPT ![hand] = hand]
  BY CallsAssumption DEF IInv, TypeOK, InputTypeOK, HandInv, VictimInv,
    SenderInv, InputDeliver, callVars, frameVars, Calls, Answers
<1>3. \A x \in Calls : InMap(x)' <=> InMap(x)
  BY <1>2, CallsAssumption DEF IInv, InMap, InputDeliver, clientVars,
    callVars, Calls
<1>4. \A x \in Calls : Held(x)' <=> (Held(x) /\ x # hand)
  BY <1>2, <1>3, CallsAssumption DEF IInv, Held, InputDeliver, clientVars,
    callVars, Calls
<1>5. Held(hand)
  BY CallsAssumption DEF IInv, Held, InputDeliver, callVars, Calls
<1>6. \A x \in Calls : completions'[x] = completions[x] + Flag(x = hand)
  BY <1>1, <1>2, CallsAssumption DEF IInv, TypeOK, DoneTypeOK, Flag,
    Completed, InputDeliver, Calls
<1>7. TypeOK'
  <2>1. InputTypeOK'
    BY DEF InputDeliver, InputTypeOK
  <2>2. DoneTypeOK'
    BY <1>1, <1>2 DEF IInv, TypeOK, DoneTypeOK, Completed
  <2>3. ClientTypeOK' /\ CallTypeOK' /\ FrameTypeOK' /\ ResultTypeOK'
    BY DEF IInv, TypeOK, ClientTypeOK,
       CallTypeOK, FrameTypeOK, ResultTypeOK, InputDeliver, clientVars,
       callVars, frameVars, hbVars
  <2> QED
    BY <2>1, <2>2, <2>3 DEF TypeOK
<1>8. SenderInv'
  BY <1>1, <1>2, CallsAssumption DEF IInv, TypeOK, CallTypeOK, DoneTypeOK,
    SenderInv, Completed, InputDeliver, callVars, frameVars, Calls, Answers
<1>9. HandInv'
  BY <1>1, <1>2, <1>3, CallsAssumption DEF IInv, TypeOK, InputTypeOK,
    DoneTypeOK, HandInv, Completed, InputDeliver, clientVars, callVars,
    frameVars, Calls, Answers
<1>10. VictimInv'
  BY <1>2, <1>3, CallsAssumption DEF IInv, TypeOK, CallTypeOK, InputTypeOK,
    DoneTypeOK, VictimInv, InputDeliver, clientVars, callVars, Calls
<1>11. FlagInv'
  BY <1>1, <1>2, <1>3, CallsAssumption DEF IInv, TypeOK, DoneTypeOK,
    InputTypeOK, FlagInv, Completed, InputDeliver, clientVars, callVars, Calls
<1>12. AnsweredInv'
  BY <1>1, <1>2, <1>3, CallsAssumption DEF IInv, TypeOK, DoneTypeOK,
    AnsweredInv, Completed, InputDeliver, clientVars, callVars, frameVars,
    Calls, Answers
<1>13. OutcomeInv'
  BY <1>1, <1>2, CallsAssumption DEF IInv, TypeOK, DoneTypeOK, OutcomeInv,
    Completed, InputDeliver, frameVars, Calls, Answers, Blameless
<1>14. CallerInv'
  BY <1>1, <1>2, CallsAssumption DEF IInv, TypeOK, CallTypeOK, DoneTypeOK,
    CallerInv, Completed, InputDeliver, callVars, Calls
<1>15. CountInv'
  <2> SUFFICES ASSUME NEW x \in Calls
               PROVE  completions'[x] + Flag(sender'[x] # "over")
                      + Flag(Held(x)') + Flag(input' # "over") <= 3
    BY DEF CountInv
  <2>1. /\ completions[x] + Flag(sender[x] # "over")
           + Flag(Held(x)) + Flag(input # "over") <= 3
        /\ completions[x] \in Nat
    BY DEF IInv, CountInv, TypeOK, DoneTypeOK
  <2>2. CASE x = hand
    BY <2>1, <2>2, <1>4, <1>6, <1>2, <1>5 DEF Flag, InputDeliver, callVars
  <2>3. CASE ~(x = hand)
    BY <2>1, <2>3, <1>4, <1>6, <1>2, <1>5 DEF Flag, InputDeliver, callVars
  <2> QED
    BY <2>2, <2>3
<1>16. HeldInv'
  <2> SUFFICES ASSUME NEW x \in Calls,
                      sender'[x] \notin {"idle", "lock", "fail"}, ~Held(x)'
               PROVE  completions'[x] > 0
    BY DEF HeldInv
  <2>1. completions[x] > 0 \/ Held(x)
    BY DEF IInv, HeldInv, InputDeliver, callVars
  <2>2. completions[x] \in Nat
    BY DEF IInv, TypeOK, DoneTypeOK
  <2>3. CASE x = hand
    BY <2>1, <2>2, <2>3, <1>4, <1>6, <1>2, <1>5 DEF Flag
  <2>4. CASE ~(x = hand)
    BY <2>1, <2>2, <2>4, <1>4, <1>6, <1>2, <1>5 DEF Flag
  <2> QED
    BY <2>3, <2>4
<1>17. MapInv' /\ SeqInv'
  BY DEF IInv, MapInv, SeqInv, InMap, Numbered, InputDeliver, clientVars,
    callVars, frameVars
<1> QED
  BY <1>7, <1>8, <1>9, <1>10, <1>11, <1>12, <1>13, <1>14, <1>15, <1>16, <1>17
    DEF IInv

LEMMA InputErrorStep ==
  ASSUME IInv, InputError
  PROVE  IInv'
<1>1. TypeOK'
  BY CallsAssumption, BoundsAssumption DEF IInv, TypeOK, ClientTypeOK,
    CallTypeOK, InputTypeOK, FrameTypeOK, DoneTypeOK, ResultTypeOK,
    InputError, clientVars, callVars, doneVars, frameVars, hbVars, Seqs,
    Calls, Errors, Answers, Replies
<1>2. HandInv'
  BY CallsAssumption DEF IInv, TypeOK, InputTypeOK, DoneTypeOK, HandInv,
    InMap, InputError, clientVars, callVars, doneVars, frameVars, Calls,
    Answers
<1>3. FlagInv'
  BY CallsAssumption DEF IInv, TypeOK, DoneTypeOK, InputTypeOK, FlagInv,
    InMap, InputError, clientVars, callVars, doneVars, Calls
<1>4. \A x \in Calls : Held(x)' <=> Held(x)
  BY DEF Held, InMap, InputError, clientVars, callVars
<1>5. CountInv'
  BY <1>4, CallsAssumption DEF IInv, TypeOK, CallTypeOK, DoneTypeOK, CountInv,
    Flag, InputError, callVars, doneVars, Calls
<1>6. MapInv' /\ SeqInv' /\ SenderInv' /\ VictimInv' /\ AnsweredInv'
    /\ OutcomeInv' /\ CallerInv' /\ HeldInv'
  BY DEF IInv, MapInv, SeqInv, SenderInv, VictimInv, AnsweredInv, OutcomeInv,
    CallerInv, HeldInv, InMap, Numbered, Held, InputError, clientVars,
    callVars, doneVars, frameVars
<1> QED
  BY <1>1, <1>2, <1>3, <1>5, <1>6 DEF IInv

LEMMA InputShutdownStep ==
  ASSUME IInv, InputShutdown
  PROVE  IInv'
<1>1. Completed(Pending, "lost")
  <2>1. Pending \in SUBSET Calls
    BY PendingMapped
  <2>2. ("lost") \in Errors
    BY DEF Errors
  <2> QED
    BY <2>1, <2>2, CompleteEffect DEF IInv, InputShutdown
<1>2. \A x \in Calls : x \in Pending <=> InMap(x)
  BY PendingMapped, CallsAssumption DEF IInv, InputShutdown, Calls
<1>3. \A x \in Calls : InMap(x) => /\ reply[x] = NoCall /\ hand # x
                                    /\ sender[x] \notin {"idle", "lock"}
  BY <1>2, Mapped, CallsAssumption DEF IInv, InputShutdown, Calls
<1>4. \A x \in Calls : Held(x)' <=> Held(x)
  BY <1>2, <1>3 DEF IInv, Held, InMap, InputShutdown, callVars, Calls
<1>5. \A x \in Calls : completions'[x] = completions[x] + Flag(InMap(x))
  BY <1>1, <1>2, CallsAssumption DEF IInv, TypeOK, DoneTypeOK, Flag,
    Completed, InputShutdown, Calls
<1>6. TypeOK'
  BY <1>1, <1>2, CallsAssumption, BoundsAssumption DEF IInv, TypeOK,
    ClientTypeOK, CallTypeOK, InputTypeOK, FrameTypeOK, DoneTypeOK,
    ResultTypeOK, Completed, InputShutdown, callVars, frameVars, hbVars, Seqs,
    Calls, Errors, Answers, Replies
<1>7. SenderInv'
  BY <1>1, <1>2, <1>3, CallsAssumption DEF IInv, TypeOK, CallTypeOK,
    DoneTypeOK, SenderInv, Completed, InputShutdown, callVars, frameVars,
    Calls, Answers
<1>8. HandInv'
  BY <1>1, <1>2, <1>3, CallsAssumption DEF IInv, TypeOK, InputTypeOK,
    DoneTypeOK, HandInv, InMap, Completed, InputShutdown, callVars, frameVars,
    Calls, Answers
<1>9. FlagInv'
  BY <1>1, <1>2, <1>3, CallsAssumption DEF IInv, TypeOK, DoneTypeOK,
    InputTypeOK, FlagInv, InMap, Completed, InputShutdown, callVars, Calls
<1>10. AnsweredInv'
  BY <1>1, <1>2, <1>3, CallsAssumption DEF IInv, TypeOK, DoneTypeOK,
    AnsweredInv, InMap, Completed, InputShutdown, callVars, frameVars, Calls,
    Answers
<1>11. OutcomeInv'
  BY <1>1, <1>2, <1>3, CallsAssumption DEF IInv, TypeOK, DoneTypeOK,
    OutcomeInv, Completed, InputShutdown, frameVars, Calls, Answers
<1>12. CallerInv'
  BY <1>1, <1>2, <1>3, CallsAssumption DEF IInv, TypeOK, CallTypeOK,
    DoneTypeOK, CallerInv, Completed, InputShutdown, callVars, Calls
<1>13. CountInv'
  BY <1>2, <1>3, <1>4, <1>5, CallsAssumption DEF IInv, TypeOK, CallTypeOK,
    DoneTypeOK, CountInv, Flag, InputShutdown, callVars, Calls
<1>14. HeldInv'
  <2> SUFFICES ASSUME NEW x \in Calls,
                      sender'[x] \notin {"idle", "lock", "fail"}, ~Held(x)'
               PROVE  completions'[x] > 0
    BY DEF HeldInv
  <2>1. completions[x] > 0 \/ Held(x)
    BY DEF IInv, HeldInv, InputShutdown, callVars
  <2>2. completions[x] \in Nat
    BY DEF IInv, TypeOK, DoneTypeOK
  <2>3. CASE InMap(x)
    BY <2>1, <2>2, <2>3, <1>4, <1>5 DEF Flag
  <2>4. CASE ~(InMap(x))
    BY <2>1, <2>2, <2>4, <1>4, <1>5 DEF Flag
  <2> QED
    BY <2>3, <2>4
<1>15. MapInv' /\ SeqInv' /\ VictimInv'
  BY DEF IInv, MapInv, SeqInv, VictimInv, InMap, Numbered, InputShutdown,
    callVars, frameVars
<1> QED
  BY <1>6, <1>7, <1>8, <1>9, <1>10, <1>11, <1>12, <1>13, <1>14, <1>15 DEF IInv

(* Close, called by the application or by the heartbeat goroutine.         *)
LEMMA CloseBodyStep ==
  ASSUME IInv, CloseBody,
         UNCHANGED <<callVars, inputVars, reply, frameVars, result, received>>,
         hbCall' \in Heartbeats \cup {NoCall}, hbStopped' \in BOOLEAN
  PROVE  IInv'
<1>1. Completed(Pending, "shutdown")
  <2>1. Pending \in SUBSET Calls
    BY PendingMapped
  <2>2. ("shutdown") \in Errors
    BY DEF Errors
  <2> QED
    BY <2>1, <2>2, CompleteEffect DEF IInv, CloseBody
<1>2. \A x \in Calls : x \in Pending <=> InMap(x)
  BY PendingMapped, CallsAssumption DEF IInv, CloseBody, Calls
<1>3. \A x \in Calls : InMap(x) =>
        /\ reply[x] = NoCall /\ hand # x /\ (\A d \in Calls : victim[d] # x)
        /\ sender[x] \notin {"idle", "lock"}
  BY <1>2, Mapped, CallsAssumption DEF IInv, CloseBody, Calls
<1>4. \A x \in Calls : InMap(x) => Held(x)
  BY <1>3, CallsAssumption DEF IInv, Held, CloseBody, callVars, inputVars,
    Calls
<1>5. \A x \in Calls : ~InMap(x)'
  BY <1>2, <1>3, <1>4, CallsAssumption DEF IInv, TypeOK, CallTypeOK, InMap,
    CloseBody, callVars, Calls
<1>6. \A x \in Calls : Held(x)' <=> (Held(x) /\ ~InMap(x))
  BY <1>2, <1>3, <1>4, <1>5, CallsAssumption DEF IInv, Held, CloseBody,
    callVars, inputVars, Calls
<1>7. \A x \in Calls : completions'[x] = completions[x] + Flag(InMap(x))
  BY <1>1, <1>2, CallsAssumption DEF IInv, TypeOK, DoneTypeOK, Flag,
    Completed, CloseBody, Calls
<1>8. TypeOK'
  BY <1>1, <1>2, CallsAssumption, BoundsAssumption DEF IInv, TypeOK,
    ClientTypeOK, CallTypeOK, InputTypeOK, FrameTypeOK, DoneTypeOK,
    ResultTypeOK, Completed, CloseBody, callVars, inputVars, frameVars, Seqs,
    Calls, Errors, Answers, Replies
<1>9. MapInv'
  BY <1>2, <1>3, CallsAssumption DEF IInv, TypeOK, ClientTypeOK, CallTypeOK,
    MapInv, CloseBody, callVars, Calls
<1>10. SeqInv'
  BY <1>2, <1>3, <1>5, CallsAssumption DEF IInv, TypeOK, ClientTypeOK,
    CallTypeOK, FrameTypeOK, SeqInv, SenderInv, Numbered, CloseBody, callVars,
    frameVars, Calls, Answers
<1>11. SenderInv'
  BY <1>1, <1>2, <1>3, CallsAssumption DEF IInv, TypeOK, CallTypeOK,
    DoneTypeOK, SenderInv, Completed, CloseBody, callVars, frameVars, Calls,
    Answers
<1>12. HandInv'
  BY <1>1, <1>2, <1>3, <1>5, CallsAssumption DEF IInv, TypeOK, InputTypeOK,
    DoneTypeOK, HandInv, Completed, CloseBody, callVars, inputVars, frameVars,
    Calls, Answers
<1>13. VictimInv'
  BY <1>2, <1>3, <1>5, CallsAssumption DEF IInv, TypeOK, CallTypeOK,
    InputTypeOK, DoneTypeOK, VictimInv, CloseBody, callVars, inputVars, Calls
<1>14. FlagInv'
  BY <1>1, <1>2, <1>3, <1>5, CallsAssumption DEF IInv, TypeOK, DoneTypeOK,
    InputTypeOK, FlagInv, Completed, CloseBody, callVars, inputVars, Calls
<1>15. AnsweredInv'
  BY <1>1, <1>2, <1>3, <1>5, CallsAssumption DEF IInv, TypeOK, DoneTypeOK,
    AnsweredInv, Completed, CloseBody, callVars, frameVars, Calls, Answers
<1>16. OutcomeInv'
  BY <1>1, <1>2, <1>3, CallsAssumption DEF IInv, TypeOK, DoneTypeOK,
    OutcomeInv, Completed, CloseBody, frameVars, Calls, Answers
<1>17. CallerInv'
  BY <1>1, <1>2, <1>3, CallsAssumption DEF IInv, TypeOK, CallTypeOK,
    DoneTypeOK, CallerInv, Completed, CloseBody, callVars, Calls
<1>18. CountInv'
  <2> SUFFICES ASSUME NEW x \in Calls
               PROVE  completions'[x] + Flag(sender'[x] # "over")
                      + Flag(Held(x)') + Flag(input' # "over") <= 3
    BY DEF CountInv
  <2>1. /\ completions[x] + Flag(sender[x] # "over")
           + Flag(Held(x)) + Flag(input # "over") <= 3
        /\ completions[x] \in Nat
    BY DEF IInv, CountInv, TypeOK, DoneTypeOK
  <2>2. CASE InMap(x)
    BY <2>1, <2>2, <1>6, <1>7, <1>4 DEF Flag, callVars, inputVars
  <2>3. CASE ~(InMap(x))
    BY <2>1, <2>3, <1>6, <1>7, <1>4 DEF Flag, callVars, inputVars
  <2> QED
    BY <2>2, <2>3
<1>19. HeldInv'
  <2> SUFFICES ASSUME NEW x \in Calls,
                      sender'[x] \notin {"idle", "lock", "fail"}, ~Held(x)'
               PROVE  completions'[x] > 0
    BY DEF HeldInv
  <2>1. completions[x] > 0 \/ Held(x)
    BY DEF IInv, HeldInv, callVars
  <2>2. completions[x] \in Nat
    BY DEF IInv, TypeOK, DoneTypeOK
  <2>3. CASE InMap(x)
    BY <2>1, <2>2, <2>3, <1>6, <1>7, <1>4 DEF Flag
  <2>4. CASE ~(InMap(x))
    BY <2>1, <2>2, <2>4, <1>6, <1>7, <1>4 DEF Flag
  <2> QED
    BY <2>3, <2>4
<1> QED
  BY <1>8, <1>9, <1>10, <1>11, <1>12, <1>13, <1>14, <1>15, <1>16, <1>17,
    <1>18, <1>19 DEF IInv

LEMMA ServeStep ==
  ASSUME IInv, NEW c \in Calls, Serve(c)
  PROVE  IInv'
<1>1. frame' \in [Calls -> {"none", "request"} \cup Replies]
  BY CallsAssumption DEF IInv, TypeOK, FrameTypeOK, Replies, Serve, Calls,
    Answers
<1>2. TypeOK'
  BY <1>1, CallsAssumption, BoundsAssumption DEF IInv, TypeOK, ClientTypeOK,
    CallTypeOK, InputTypeOK, FrameTypeOK, DoneTypeOK, ResultTypeOK, Serve,
    clientVars, callVars, inputVars, doneVars, hbVars, Seqs, Calls, Errors,
    Answers, Replies
<1>3. SeqInv'
  BY <1>1, CallsAssumption DEF IInv, TypeOK, ClientTypeOK, CallTypeOK,
    FrameTypeOK, SeqInv, SenderInv, InMap, Numbered, Serve, clientVars,
    callVars, Calls, Answers
<1>4. SenderInv'
  BY <1>1, CallsAssumption DEF IInv, TypeOK, CallTypeOK, DoneTypeOK,
    SenderInv, Serve, callVars, doneVars, Calls, Answers
<1>5. HandInv'
  BY <1>1, CallsAssumption DEF IInv, TypeOK, FrameTypeOK, HandInv, InMap,
    Serve, clientVars, callVars, inputVars, doneVars, Calls, Answers
<1>6. AnsweredInv'
  BY <1>1, CallsAssumption DEF IInv, TypeOK, DoneTypeOK, AnsweredInv, InMap,
    Serve, clientVars, callVars, doneVars, Calls, Answers
<1>7. OutcomeInv'
  BY <1>1, CallsAssumption DEF IInv, TypeOK, DoneTypeOK, OutcomeInv, Serve,
    doneVars, Calls, Answers, Blameless
<1>8. MapInv' /\ VictimInv' /\ FlagInv' /\ CallerInv' /\ CountInv' /\ HeldInv'
  BY DEF IInv, MapInv, VictimInv, FlagInv, CallerInv, CountInv, HeldInv,
    InMap, Held, Serve, clientVars, callVars, inputVars, doneVars
<1> QED
  BY <1>2, <1>3, <1>4, <1>5, <1>6, <1>7, <1>8 DEF IInv

(* The flags, channels and deadlines the invariant does not depend on.     *)
LEMMA OtherStep ==
  ASSUME IInv, TypeOK',
         UNCHANGED <<option, seq, pending, closing, shutdown, callVars,
                     inputVars, err, ready, completions, reply, frameVars,
                     result>>
  PROVE  IInv'
<1>1. MapInv' /\ SenderInv' /\ OutcomeInv' /\ CallerInv'
  BY DEF IInv, MapInv, SenderInv, OutcomeInv, CallerInv, callVars, frameVars
<1>2. \A x \in Calls : (InMap(x)' <=> InMap(x)) /\ (Held(x)' <=> Held(x))
  BY DEF InMap, Held, callVars, inputVars
<1>3. SeqInv' /\ HandInv' /\ VictimInv' /\ FlagInv' /\ AnsweredInv'
  BY DEF IInv, SeqInv, HandInv, VictimInv, FlagInv, AnsweredInv, Numbered,
         InMap, callVars, inputVars, frameVars
<1>4. CountInv' /\ HeldInv'
  BY <1>2 DEF IInv, CountInv, HeldInv, Flag, callVars, inputVars
<1> QED
  BY <1>1, <1>3, <1>4 DEF IInv

LEMMA ReceiveStep ==
  ASSUME IInv, Receive
  PROVE  IInv'
<1>1. DoneTypeOK' /\ ResultTypeOK'
  <2>1. /\ doneChan \in Seq(AsyncCalls) /\ doneChan # <<>>
        /\ Len(doneChan) <= DoneCap /\ DoneCap \in Nat
    BY BoundsAssumption DEF IInv, TypeOK, DoneTypeOK, Receive
  <2>2. /\ Head(doneChan) \in AsyncCalls /\ Tail(doneChan) \in Seq(AsyncCalls)
        /\ Len(Tail(doneChan)) <= DoneCap
    BY <2>1
  <2> QED
    BY <2>2 DEF IInv, TypeOK, DoneTypeOK, ResultTypeOK, Receive
<1>2. ClientTypeOK' /\ CallTypeOK' /\ InputTypeOK' /\ FrameTypeOK'
  BY DEF IInv, TypeOK, ClientTypeOK, CallTypeOK, InputTypeOK, FrameTypeOK,
         Receive, clientVars, callVars, inputVars, frameVars, hbVars
<1> QED
  BY <1>1, <1>2, OtherStep DEF TypeOK, Receive, clientVars

LEMMA HeartbeatJudgeStep ==
  ASSUME IInv, NEW h \in Heartbeats, HeartbeatJudge(h)
  PROVE  IInv'
<1>1. hbCall' \in Heartbeats \cup {NoCall} /\ hbStopped' \in BOOLEAN
  BY DEF IInv, TypeOK, ClientTypeOK, HeartbeatJudge
<1>2. CASE CloseBody
  BY <1>1, <1>2, CloseBodyStep DEF HeartbeatJudge
<1>3. CASE UNCHANGED <<clientVars, doneVars>>
  <2>1. TypeOK'
    BY <1>1, <1>3
    DEF IInv, TypeOK, ClientTypeOK, CallTypeOK, InputTypeOK, FrameTypeOK,
        DoneTypeOK, ResultTypeOK, HeartbeatJudge, clientVars, callVars,
        inputVars, frameVars, doneVars
  <2> QED
    BY <1>3, <2>1, OtherStep DEF HeartbeatJudge, clientVars, doneVars
<1> QED
  BY <1>2, <1>3 DEF HeartbeatJudge

-----------------------------------------------------------------------------
(* The invariant holds initially and every step preserves it.              *)
LEMMA InitInv == Init => IInv
<1> SUFFICES ASSUME Init PROVE IInv
  OBVIOUS
<1>1. 0 \in Seqs /\ 0 \in 0 .. MaxSeq
  BY BoundsAssumption DEF Seqs
<1>2. TypeOK
  <2>1. ClientTypeOK /\ CallTypeOK
    BY <1>1 DEF Init, ClientTypeOK, CallTypeOK
  <2>2. InputTypeOK /\ FrameTypeOK /\ ResultTypeOK
    BY DEF Init, InputTypeOK, FrameTypeOK, ResultTypeOK
  <2>3. <<>> \in Seq(AsyncCalls) /\ Len(<<>>) <= DoneCap
    BY BoundsAssumption
  <2>4. DoneTypeOK
    BY <2>3 DEF Init, DoneTypeOK, Errors
  <2> QED
    BY <2>1, <2>2, <2>4 DEF TypeOK
<1>3. \A c \in Calls : ~InMap(c) /\ ~Held(c)
  BY <1>1, CallsAssumption DEF Init, InMap, Held, Calls
<1>4. MapInv /\ SeqInv /\ SenderInv /\ HandInv /\ VictimInv
  BY <1>3 DEF Init, MapInv, SeqInv, SenderInv, HandInv, VictimInv, Numbered
<1>5. FlagInv /\ AnsweredInv /\ OutcomeInv /\ CallerInv /\ HeldInv
  BY <1>3 DEF Init, FlagInv, AnsweredInv, OutcomeInv, CallerInv, HeldInv, Calls
<1>6. CountInv
  BY <1>3 DEF Init, CountInv, Flag
<1> QED
  BY <1>2, <1>4, <1>5, <1>6 DEF IInv

LEMMA NextInv == IInv /\ [Next]_vars => IInv'
<1> SUFFICES ASSUME IInv, [Next]_vars PROVE IInv'
  OBVIOUS
<1>1. CASE UNCHANGED vars
  <2>1. TypeOK'
    BY <1>1
    DEF IInv, TypeOK, ClientTypeOK, CallTypeOK, InputTypeOK, FrameTypeOK,
        DoneTypeOK, ResultTypeOK, vars, clientVars, callVars, inputVars,
        frameVars, doneVars, hbVars
  <2> QED
    BY <1>1, <2>1, OtherStep DEF vars, clientVars, doneVars
<1>2. ASSUME NEW c \in SyncCalls, CallerStep(c) PROVE IInv'
  BY <1>2, CallReceiveStep, CallReturnStep, CallCancelStep, CallCancelledStep
  DEF CallerStep
<1>3. ASSUME NEW c \in Calls, SenderStep(c) PROVE IInv'
  BY <1>3, SendRefusedStep, SendNoCodecStep, SendRegisterStep,
     SendStoreSeqStep, SendWriteStep, SendFailStep, SendFailedStep
  DEF SenderStep
<1>4. CASE InputStep
  BY <1>4, InputReadStep, InputDeliverStep, InputErrorStep, InputShutdownStep
  DEF InputStep
<1>5. CASE HeartbeatStep
  <2>1. CASE HeartbeatStop
    <3>1. TypeOK'
      BY <2>1
      DEF IInv, TypeOK, ClientTypeOK, CallTypeOK, InputTypeOK, FrameTypeOK,
          DoneTypeOK, ResultTypeOK, HeartbeatStop, clientVars, callVars,
          inputVars, frameVars, doneVars
    <3> QED
      BY <2>1, <3>1, OtherStep DEF HeartbeatStop, clientVars, doneVars
  <2>2. ASSUME NEW h \in Heartbeats, HeartbeatTick(h) PROVE IInv'
    <3>1. h \in Calls
      BY CallsAssumption DEF Calls
    <3>2. hbCall' \in Heartbeats \cup {NoCall} /\ hbStopped' \in BOOLEAN
      BY <2>2 DEF IInv, TypeOK, ClientTypeOK, HeartbeatTick
    <3> QED
      BY <2>2, <3>1, <3>2, StartStep DEF HeartbeatTick
  <2> QED
    BY <1>5, <2>1, <2>2, HeartbeatJudgeStep DEF HeartbeatStep
<1>6. CASE Environment
  <2>1. ASSUME NEW c \in Calls, Invoke(c) PROVE IInv'
    <3>1. hbCall' \in Heartbeats \cup {NoCall} /\ hbStopped' \in BOOLEAN
      BY <2>1 DEF IInv, TypeOK, ClientTypeOK, Invoke, hbVars
    <3> QED
      BY <2>1, <3>1, StartStep DEF Invoke
  <2>2. CASE Close
    <3>1. hbCall' \in Heartbeats \cup {NoCall} /\ hbStopped' \in BOOLEAN
      BY <2>2 DEF IInv, TypeOK, ClientTypeOK, Close, hbVars
    <3> QED
      BY <2>2, <3>1, CloseBodyStep DEF Close
  <2>3. CASE ConnBreak
    <3>1. TypeOK'
      BY <2>3
      DEF IInv, TypeOK, ClientTypeOK, CallTypeOK, InputTypeOK, FrameTypeOK,
          DoneTypeOK, ResultTypeOK, ConnBreak, callVars, inputVars, frameVars,
          doneVars, hbVars
    <3> QED
      BY <2>3, <3>1, OtherStep DEF ConnBreak, doneVars
  <2> QED
    BY <1>6, <2>1, <2>2, <2>3, ContextDoneStep, ServeStep, ReceiveStep
    DEF Environment
<1> QED
  BY <1>1, <1>2, <1>3, <1>4, <1>5, <1>6 DEF Next

(* Every reachable state of a client satisfies the inductive invariant.     *)
THEOREM Inductive == Spec => []IInv
<1> QED
  BY InitInv, NextInv, PTL DEF Spec

-----------------------------------------------------------------------------
(* The client's fields and every goroutine's locals keep their types, and  *)
(* input never completes a nil *Call.                                      *)
THEOREM TypeCorrect == Spec => []TypeOK
<1>1. IInv => TypeOK
  BY DEF IInv
<1> QED
  BY <1>1, Inductive, PTL

(* No race of Close, cancellation, a failed send and the end of input      *)
(* makes a call vanish before done() has run for it.                       *)
THEOREM NothingLost == Spec => []NoLostCall
<1>1. IInv => NoLostCall
  <2> SUFFICES ASSUME IInv, NEW c \in Calls,
                      sender[c] \notin {"idle", "lock", "fail"},
                      ~(completions[c] > 0), Held(c)
               PROVE  \/ c \in Pending \/ c = hand
                      \/ \E d \in SyncCalls : victim[d] = c
    BY DEF IInv, NoLostCall, HeldInv
  <2> QED
    BY PendingMapped DEF Held
<1> QED
  BY <1>1, Inductive, PTL

(* After Close nothing is pending; after the end of input what is left in  *)
(* pending has been completed.                                             *)
THEOREM Drained == Spec => []ClosedMeansDrained
<1>1. IInv => ClosedMeansDrained
  BY PendingMapped DEF IInv, FlagInv, ClosedMeansDrained
<1> QED
  BY <1>1, Inductive, PTL

(* A call gets the answer to its own request, and success only from it.    *)
THEOREM NoMixUp == Spec => []OwnReply
<1>1. IInv => OwnReply
  BY DEF IInv, AnsweredInv, OutcomeInv, OwnReply
<1> QED
  BY <1>1, Inductive, PTL

(* done() runs once for an answered call and at most three times for any.  *)
THEOREM FewCompletions == Spec => []CompletionBound
<1>1. IInv => CompletionBound
  <2> SUFFICES ASSUME IInv, NEW c \in Calls
               PROVE  completions[c] <= (IF reply[c] = c THEN 1 ELSE 3)
    BY DEF CompletionBound
  <2>1. completions[c] \in Nat
    BY DEF IInv, TypeOK, DoneTypeOK
  <2>2. reply[c] = c => completions[c] = 1
    BY CallsAssumption DEF IInv, AnsweredInv
  <2>3. completions[c] <= 3
    BY <2>1 DEF IInv, CountInv, Flag
  <2> QED
    BY <2>1, <2>2, <2>3
<1> QED
  BY <1>1, Inductive, PTL

-----------------------------------------------------------------------------
(* Call.Error is only written where done() runs, Call.Reply by input.      *)
LEMMA Writes ==
  ASSUME [Next]_vars, NEW c \in Calls, completions[c] \in Nat,
         reply \in [Calls -> Calls \cup {NoCall}]
  PROVE  /\ err'[c] = err[c] \/ completions'[c] = completions[c] + 1
         /\ reply'[c] = reply[c] \/ (input = "deliver" /\ c = hand)
<1>1. ASSUME NEW S, NEW e, Complete(S, e)
      PROVE  err'[c] = err[c] \/ completions'[c] = completions[c] + 1
  BY <1>1 DEF Complete
<1>2. CASE UNCHANGED vars
  BY <1>2 DEF vars, doneVars
<1>3. ASSUME NEW d \in SyncCalls, CallerStep(d)
      PROVE  /\ err'[c] = err[c] \/ completions'[c] = completions[c] + 1
             /\ reply' = reply
  BY <1>3 DEF CallerStep, CallReceive, CallReturn, CallCancel, CallCancelled,
              Complete, doneVars
<1>4. ASSUME NEW d \in Calls, SenderStep(d)
      PROVE  /\ err'[c] = err[c] \/ completions'[c] = completions[c] + 1
             /\ reply' = reply
  BY <1>4 DEF SenderStep, SendRefused, SendNoCodec, SendRegister,
              SendStoreSeq, SendWrite, SendFail, SendFailed, Complete, doneVars
<1>5. CASE InputStep
  <2>1. CASE InputDeliver
    BY <2>1 DEF InputDeliver, Complete
  <2>2. CASE InputShutdown
    BY <2>2 DEF InputShutdown, Complete
  <2>3. CASE InputError \/ \E d \in Calls : InputRead(d)
    BY <2>3 DEF InputError, InputRead, doneVars
  <2> QED
    BY <1>5, <2>1, <2>2, <2>3 DEF InputStep
<1>6. CASE HeartbeatStep
  BY <1>6 DEF HeartbeatStep, HeartbeatStop, HeartbeatTick, HeartbeatJudge,
              CloseBody, Complete, doneVars
<1>7. CASE Environment
  BY <1>7 DEF Environment, Invoke, ContextDone, Serve, Receive, Close,
              ConnBreak, CloseBody, Complete, doneVars
<1> QED
  BY <1>2, <1>3, <1>4, <1>5, <1>6, <1>7 DEF Next

(* What an answered call was given is never overwritten.                   *)
THEOREM AnswersStay == Spec => AnswerIsFinal
<1> DEFINE Kept == \A c \in Calls : reply[c] # NoCall =>
                     /\ err'[c] = err[c]
                     /\ reply'[c] = reply[c]
<1>1. IInv /\ IInv' /\ [Next]_vars => Kept
  <2> SUFFICES ASSUME IInv, IInv', [Next]_vars, NEW c \in Calls,
                      reply[c] # NoCall
               PROVE  err'[c] = err[c] /\ reply'[c] = reply[c]
    OBVIOUS
  <2>1. completions[c] = 1 /\ completions[c] \in Nat
    BY DEF IInv, AnsweredInv
  <2>2. reply \in [Calls -> Calls \cup {NoCall}]
    BY DEF IInv, TypeOK, DoneTypeOK
  <2>3. reply'[c] = reply[c]
    BY <2>1, <2>2, Writes DEF IInv, HandInv
  <2>4. completions'[c] = 1
    BY <2>3 DEF IInv, AnsweredInv
  <2> QED
    BY <2>1, <2>2, <2>3, <2>4, Writes
<1> QED
  BY <1>1, Inductive, PTL DEF Spec, AnswerIsFinal

(* Call.Reply is not written after Call has returned, unless the context   *)
(* of this very call was done.                                             *)
THEOREM RepliesInTime == Spec => NoLateReply
<1> DEFINE InTime == \A c \in SyncCalls :
                       caller[c] = "returned" /\ c \notin ctxDone =>
                         reply'[c] = reply[c]
<1>1. IInv /\ [Next]_vars => InTime
  <2> SUFFICES ASSUME IInv, [Next]_vars, NEW c \in SyncCalls,
                      caller[c] = "returned", c \notin ctxDone
               PROVE  reply'[c] = reply[c]
    OBVIOUS
  <2>1. c \in Calls /\ completions[c] \in Nat /\ completions[c] > 0
    BY DEF IInv, TypeOK, DoneTypeOK, CallerInv, Calls
  <2>2. reply \in [Calls -> Calls \cup {NoCall}]
    BY DEF IInv, TypeOK, DoneTypeOK
  <2> QED
    BY <2>1, <2>2, Writes DEF IInv, HandInv
<1> QED
  BY <1>1, Inductive, PTL DEF Spec, NoLateReply

-----------------------------------------------------------------------------
(* Under the refinement mapping the client starts where CallPromise does.  *)
LEMMA PromiseInit == Init => Promise!Init
  BY CallsAssumption
  DEF Init, Promise!Init, PhaseOf, AnswerOf, OutcomeOf, Calls

(* A step that leaves caller, frame and result alone, or changes them      *)
(* without changing what they stand for, stutters.                         *)
LEMMA PromiseStutter ==
  ASSUME \A c \in SyncCalls : /\ PhaseOf(c)' = PhaseOf(c)
                              /\ AnswerOf(c)' = AnswerOf(c)
                              /\ OutcomeOf(c)' = OutcomeOf(c)
  PROVE  UNCHANGED Promise!vars
  BY DEF Promise!vars

LEMMA PromiseBegin ==
  ASSUME IInv, NEW c \in Calls, Start(c), UNCHANGED <<frame, result>>
  PROVE  [Promise!Next]_(Promise!vars)
<1>1. \A x \in Calls : caller'[x] = IF x # c THEN caller[x]
                                   ELSE IF c \in SyncCalls THEN "wait"
                                                           ELSE "returned"
  BY DEF IInv, TypeOK, CallTypeOK, Start
<1>2. caller[c] = "idle"
  BY DEF Start
<1>3. \A x \in Calls :
        AnswerOf(x)' = AnswerOf(x) /\ OutcomeOf(x)' = OutcomeOf(x)
  BY DEF AnswerOf, OutcomeOf
<1>4. CASE c \in SyncCalls
  <2>1. \A x \in SyncCalls :
          PhaseOf(x)' = IF x = c THEN "open" ELSE PhaseOf(x)
    BY <1>1, <1>4 DEF PhaseOf, Calls
  <2>2. PhaseOf(c) = "idle"
    BY <1>2 DEF PhaseOf
  <2>3. Promise!Begin(c)
    BY <1>3, <1>4, <2>1, <2>2 DEF Promise!Begin, Calls
  <2> QED
    BY <1>4, <2>3 DEF Promise!Next
<1>5. CASE c \notin SyncCalls
  BY <1>1, <1>3, <1>5, PromiseStutter DEF PhaseOf, Calls
<1> QED
  BY <1>4, <1>5

(* Call returns r, which fits what the peer has answered.                  *)
LEMMA PromiseEnd ==
  ASSUME IInv, NEW c \in SyncCalls, NEW r \in Errors,
         caller[c] \in {"got", "cancel"},
         caller' = [caller EXCEPT ![c] = "returned"],
         result' = [result EXCEPT ![c] = r], frame' = frame,
         r = "nil" => frame[c] \in Blameless,
         r = "service" => frame[c] \in {"undecodable", "error"}
  PROVE  Promise!Next
<1>1. \A x \in SyncCalls :
        PhaseOf(x)' = IF x = c THEN "ended" ELSE PhaseOf(x)
  BY DEF IInv, TypeOK, CallTypeOK, PhaseOf, Calls
<1>2. \A x \in SyncCalls : AnswerOf(x)' = AnswerOf(x)
  BY DEF AnswerOf
<1>3. PhaseOf(c) = "open"
  BY DEF PhaseOf
<1> DEFINE o == IF r = "nil" THEN "success"
                ELSE IF r = "service" THEN "service" ELSE "failure"
<1>4. \A x \in SyncCalls :
        OutcomeOf(x)' = IF x = c THEN o ELSE OutcomeOf(x)
  BY DEF IInv, TypeOK, ResultTypeOK, OutcomeOf, Calls, Errors
<1>5. /\ o \in {"success", "service", "failure"}
      /\ o = "success" => AnswerOf(c) \in {"good", "bare"}
      /\ o = "service" => AnswerOf(c) = "bad"
  BY DEF AnswerOf, Blameless
<1> HIDE DEF o
<1>6. Promise!End(c)
  BY <1>1, <1>2, <1>3, <1>4, <1>5 DEF Promise!End
<1> QED
  BY <1>6 DEF Promise!Next

(* The frame of a call is served; the call was made before.                *)
LEMMA PromiseRespond ==
  ASSUME IInv, NEW c \in Calls, Serve(c)
  PROVE  [Promise!Next]_(Promise!vars)
<1>1. PICK a \in Replies : frame' = [frame EXCEPT ![c] = a]
  BY DEF Serve, Replies, Answers
<1>2. caller' = caller /\ result' = result /\ frame[c] = "request"
  BY DEF Serve, callVars
<1>3. \A x \in Calls : PhaseOf(x)' = PhaseOf(x) /\ OutcomeOf(x)' = OutcomeOf(x)
  BY <1>2 DEF PhaseOf, OutcomeOf
<1> DEFINE r == CASE a = "normal" -> "good"
                  [] a = "bare" -> "bare"
                  [] a \in {"undecodable", "error"} -> "bad"
                  [] OTHER -> "silent"
<1>4. \A x \in Calls : AnswerOf(x)' = IF x = c THEN r ELSE AnswerOf(x)
  BY <1>1, <1>2
  DEF IInv, TypeOK, FrameTypeOK, AnswerOf, Replies, Answers
<1>5. CASE c \in SyncCalls
  <2>1. PhaseOf(c) # "idle"
    BY <1>2 DEF IInv, SenderInv, PhaseOf
  <2>2. AnswerOf(c) = "none" /\ r \in {"good", "bad", "bare", "silent"}
    BY <1>2 DEF AnswerOf
  <2> HIDE DEF r
  <2>3. Promise!Respond(c)
    BY <1>3, <1>4, <1>5, <2>1, <2>2 DEF Promise!Respond, Calls
  <2> QED
    BY <1>5, <2>3 DEF Promise!Next
<1>6. CASE c \notin SyncCalls
  <2> HIDE DEF r
  <2> QED
    BY <1>3, <1>4, <1>6, PromiseStutter DEF Calls
<1> QED
  BY <1>5, <1>6

LEMMA PromiseStep ==
  ASSUME IInv, [Next]_vars
  PROVE  [Promise!Next]_(Promise!vars)
<1>1. ASSUME UNCHANGED <<caller, frame, result>>
      PROVE  UNCHANGED Promise!vars
  BY <1>1, PromiseStutter DEF PhaseOf, AnswerOf, OutcomeOf
<1>2. CASE UNCHANGED vars
  BY <1>1, <1>2 DEF vars, callVars, frameVars
<1>3. ASSUME NEW c \in SyncCalls, CallerStep(c)
      PROVE  [Promise!Next]_(Promise!vars)
  <2>1. CASE CallReceive(c) \/ CallCancel(c)
    <3>1. frame' = frame /\ result' = result
      BY <2>1 DEF CallReceive, CallCancel, frameVars
    <3>2. \A x \in SyncCalls : PhaseOf(x)' = PhaseOf(x)
      BY <2>1 DEF IInv, TypeOK, CallTypeOK, PhaseOf, CallReceive, CallCancel,
                  Calls
    <3> QED
      BY <3>1, <3>2, PromiseStutter DEF AnswerOf, OutcomeOf
  <2>2. CASE CallReturn(c)
    <3>1. /\ err[c] \in Errors
          /\ err[c] = "nil" => frame[c] \in Blameless
          /\ err[c] = "service" => frame[c] \in {"undecodable", "error"}
      BY <2>2 DEF IInv, TypeOK, DoneTypeOK, OutcomeInv, CallerInv, CallReturn,
                  Calls
    <3> QED
      BY <2>2, <3>1, PromiseEnd DEF CallReturn, frameVars
  <2>3. CASE CallCancelled(c)
    BY <2>3, PromiseEnd DEF CallCancelled, frameVars, Errors
  <2> QED
    BY <1>3, <2>1, <2>2, <2>3 DEF CallerStep
<1>4. ASSUME NEW c \in Calls, SenderStep(c)
      PROVE  [Promise!Next]_(Promise!vars)
  <2>1. CASE SendWrite(c)
    <3>1. frame[c] = "none" /\ caller' = caller /\ result' = result
      BY <2>1 DEF IInv, SenderInv, SendWrite
    <3>2. \A x \in Calls : AnswerOf(x)' = AnswerOf(x)
      BY <2>1, <3>1 DEF IInv, TypeOK, FrameTypeOK, AnswerOf, SendWrite
    <3> QED
      BY <3>1, <3>2, PromiseStutter DEF PhaseOf, OutcomeOf, Calls
  <2>2. CASE ~SendWrite(c)
    BY <1>1, <1>4, <2>2
    DEF SenderStep, SendRefused, SendNoCodec, SendRegister, SendStoreSeq,
        SendFail, SendFailed, frameVars
  <2> QED
    BY <2>1, <2>2
<1>5. CASE InputStep
  BY <1>1, <1>5 DEF InputStep, InputRead, InputDeliver, InputError,
                    InputShutdown, callVars, frameVars
<1>6. CASE HeartbeatStep
  <2>1. ASSUME NEW h \in Heartbeats, HeartbeatTick(h)
        PROVE  [Promise!Next]_(Promise!vars)
    BY <2>1, PromiseBegin, CallsAssumption DEF HeartbeatTick, frameVars, Calls
  <2>2. ASSUME HeartbeatStop \/ \E h \in Heartbeats : HeartbeatJudge(h)
        PROVE  [Promise!Next]_(Promise!vars)
    BY <1>1, <2>2 DEF HeartbeatStop, HeartbeatJudge, callVars, frameVars
  <2> QED
    BY <1>6, <2>1, <2>2 DEF HeartbeatStep
<1>7. CASE Environment
  <2>1. ASSUME NEW c \in Calls, Invoke(c)
        PROVE  [Promise!Next]_(Promise!vars)
    BY <2>1, PromiseBegin DEF Invoke, frameVars
  <2>2. CASE (\E c \in Calls : ContextDone(c)) \/ Receive \/ Close \/ ConnBreak
    BY <1>1, <2>2 DEF ContextDone, Receive, Close, ConnBreak, callVars,
                      frameVars
  <2> QED
    BY <1>7, <2>1, <2>2, PromiseRespond DEF Environment
<1> QED
  BY <1>2, <1>3, <1>4, <1>5, <1>6, <1>7 DEF Next

(* The client implements the abstract call: whatever the interleaving, a   *)
(* call succeeds only if the peer served it, and is served at most once.   *)
THEOREM Implements == Spec => KeepsPromise
<1>1. Init => Promise!Init
  BY PromiseInit
<1>2. IInv /\ [Next]_vars => [Promise!Next]_(Promise!vars)
  BY PromiseStep
<1> QED
  BY <1>1, <1>2, Inductive, PTL DEF Spec, KeepsPromise, Promise!Spec

-----------------------------------------------------------------------------
(***************************************************************************)
(* The shared Done channel.  A call is in it at most as often as it has    *)
(* been completed, so that there is room for three completions of each     *)
(* call: done() never finds the channel full.                              *)
(***************************************************************************)
At(q, c) == {i \in 1 .. Len(q) : q[i] = c}

RoomInv ==
  /\ NotifiedIfAmpleRoom
  /\ \A c \in AsyncCalls : Cardinality(At(doneChan, c)) <= completions[c]

(* The positions of a call are finitely many.                              *)
LEMMA AtFinite ==
  ASSUME NEW q \in Seq(AsyncCalls), NEW c
  PROVE  IsFiniteSet(At(q, c)) /\ Cardinality(At(q, c)) \in Nat
<1>1. Len(q) \in Nat
  OBVIOUS
<1>2. IsFiniteSet(1 .. Len(q))
  BY <1>1, FS_Interval
<1>3. At(q, c) \in SUBSET (1 .. Len(q))
  BY DEF At
<1> QED
  BY <1>2, <1>3, FS_Subset, FS_CardinalityType

(* A sequence with each call at most three times has at most three times   *)
(* as many elements as there are calls: each is told by its call and by    *)
(* how many elements up to it have that call.                              *)
LEMMA Enough ==
  ASSUME NEW q \in Seq(AsyncCalls),
         \A c \in AsyncCalls : Cardinality(At(q, c)) <= 3
  PROVE  Len(q) <= 3 * Cardinality(AsyncCalls)
<1> DEFINE Upto(i) == {j \in 1 .. i : q[j] = q[i]}
           f == [i \in 1 .. Len(q) |-> <<q[i], Cardinality(Upto(i))>>]
<1>1. Len(q) \in Nat /\ \A i \in 1 .. Len(q) : q[i] \in AsyncCalls
  OBVIOUS
<1>2. \A i \in 1 .. Len(q) :
        /\ Upto(i) \in SUBSET At(q, q[i])
        /\ IsFiniteSet(Upto(i)) /\ Cardinality(Upto(i)) \in 1 .. 3
  <2> TAKE i \in 1 .. Len(q)
  <2>1. IsFiniteSet(At(q, q[i])) /\ Cardinality(At(q, q[i])) \in Nat
    BY AtFinite
  <2>2. Upto(i) \in SUBSET At(q, q[i])
    BY <1>1 DEF At
  <2>3. IsFiniteSet(Upto(i)) /\ Cardinality(Upto(i)) <= 3
        /\ Cardinality(Upto(i)) \in Nat
    <3>1. Cardinality(At(q, q[i])) <= 3
      BY <1>1
    <3> HIDE DEF Upto
    <3>2. /\ IsFiniteSet(Upto(i))
          /\ Cardinality(Upto(i)) <= Cardinality(At(q, q[i]))
          /\ Cardinality(Upto(i)) \in Nat
      BY <2>1, <2>2, FS_Subset, FS_CardinalityType
    <3> QED BY <2>1, <3>1, <3>2
  <2>4. i \in Upto(i)
    BY <1>1
  <2>5. Cardinality(Upto(i)) # 0
    <3> HIDE DEF Upto
    <3> QED BY <2>3, <2>4, FS_EmptySet
  <2> QED BY <2>2, <2>3, <2>5
<1>3. ASSUME NEW i \in 1 .. Len(q), NEW j \in 1 .. Len(q), i < j,
             q[i] = q[j]
      PROVE  Cardinality(Upto(i)) < Cardinality(Upto(j))
  <2>1. Upto(i) \in SUBSET Upto(j) /\ j \in Upto(j) /\ j \notin Upto(i)
    BY <1>1, <1>3
  <2>2. /\ IsFiniteSet(Upto(j)) /\ Cardinality(Upto(i)) \in Nat
        /\ Cardinality(Upto(j)) \in Nat
    <3> HIDE DEF Upto
    <3> QED BY <1>2
  <2> HIDE DEF Upto
  <2>3. /\ Cardinality(Upto(i)) <= Cardinality(Upto(j))
        /\ Cardinality(Upto(j)) = Cardinality(Upto(i)) => Upto(j) = Upto(i)
    BY <2>1, <2>2, FS_Subset
  <2> QED BY <2>1, <2>2, <2>3
<1>4. f \in Injection(1 .. Len(q), AsyncCalls \X (1 .. 3))
  <2>1. f \in [1 .. Len(q) -> AsyncCalls \X (1 .. 3)]
    BY <1>1, <1>2
  <2>2. \A i, j \in 1 .. Len(q) : f[i] = f[j] => i = j
    <3> SUFFICES ASSUME NEW i \in 1 .. Len(q), NEW j \in 1 .. Len(q),
                        f[i] = f[j], i # j
                 PROVE  FALSE
      OBVIOUS
    <3>1. q[i] = q[j] /\ Cardinality(Upto(i)) = Cardinality(Upto(j))
      <4> HIDE DEF Upto
      <4> QED OBVIOUS
    <3>2. Cardinality(Upto(i)) \in Nat /\ Cardinality(Upto(j)) \in Nat
      <4> HIDE DEF Upto
      <4> QED BY <1>2
    <3>3. i < j \/ j < i
      BY <1>1
    <3> HIDE DEF Upto, f
    <3> QED BY <1>3, <3>1, <3>2, <3>3
  <2> HIDE DEF f
  <2> QED BY <2>1, <2>2 DEF Injection, IsInjective
<1>5. IsFiniteSet(AsyncCalls) /\ Cardinality(AsyncCalls) \in Nat
  <2>1. AsyncCalls \in SUBSET Calls
    BY DEF Calls
  <2> QED BY <2>1, CallsAssumption, FS_Subset, FS_CardinalityType
<1>6. IsFiniteSet(1 .. 3) /\ Cardinality(1 .. 3) = 3
  <2>1. 1 \in Int /\ 3 \in Int
    OBVIOUS
  <2>2. /\ IsFiniteSet(1 .. 3)
        /\ Cardinality(1 .. 3) = IF 1 > 3 THEN 0 ELSE 3 - 1 + 1
    BY <2>1, FS_Interval
  <2> QED BY <2>2
<1>7. /\ IsFiniteSet(AsyncCalls \X (1 .. 3))
      /\ Cardinality(AsyncCalls \X (1 .. 3)) = Cardinality(AsyncCalls) * 3
  BY <1>5, <1>6, FS_Product
<1> HIDE DEF f
<1>8. Cardinality(1 .. Len(q)) <= Cardinality(AsyncCalls \X (1 .. 3))
  BY <1>4, <1>7, FS_Injection
<1>9. Cardinality(1 .. Len(q)) = Len(q)
  <2>1. 1 \in Int /\ Len(q) \in Int
    BY <1>1
  <2>2. Cardinality(1 .. Len(q)) = IF 1 > Len(q) THEN 0 ELSE Len(q) - 1 + 1
    BY <2>1, FS_Interval
  <2> QED BY <1>1, <2>2
<1> QED BY <1>5, <1>7, <1>8, <1>9

-----------------------------------------------------------------------------
(* What a completion adds to the channel if there is room for it.          *)
LEMMA CompletedRoom ==
  ASSUME IInv, IInv', RoomInv, NEW S, NEW e, Complete(S, e),
         UNCHANGED received
  PROVE  RoomInv'
<1> DEFINE A == S \cap AsyncCalls
<1>1. PICK order \in SetToSeqs(A) :
        doneChan' = IF Len(doneChan \o order) <= DoneCap
                    THEN doneChan \o order
                    ELSE SubSeq(doneChan \o order, 1, DoneCap)
  BY DEF Complete
<1> DEFINE queue == doneChan \o order
<1>2. /\ order \in Seq(AsyncCalls) /\ doneChan \in Seq(AsyncCalls)
      /\ queue \in Seq(AsyncCalls) /\ DoneCap \in Nat
  <2>1. order \in Seq(AsyncCalls)
    <3>1. A \in SUBSET AsyncCalls
      OBVIOUS
    <3> HIDE DEF A
    <3> QED BY <3>1, OrderType
  <2>2. doneChan \in Seq(AsyncCalls)
    BY DEF IInv, TypeOK, DoneTypeOK
  <2> QED BY <2>1, <2>2, BoundsAssumption
<1>3. /\ \A i, j \in 1 .. Len(order) : i # j => order[i] # order[j]
      /\ \A i \in 1 .. Len(order) : order[i] \in A
      /\ \A c \in A : \E i \in 1 .. Len(order) : order[i] = c
  <2>1. IsFiniteSet(A)
    <3>1. A \in SUBSET Calls
      BY DEF Calls
    <3> HIDE DEF A
    <3> QED BY <3>1, CallsAssumption, FS_Subset
  <2> DEFINE n == Cardinality(A)
  <2>2. n \in Nat
    <3> HIDE DEF A
    <3> QED BY <2>1, FS_CardinalityType
  <2> HIDE DEF A
  <2>3. /\ order \in [1 .. n -> A]
        /\ \A i, j \in 1 .. n : i # j => order[i] # order[j]
    BY DEF SetToSeqs
  <2>4. Len(order) = n
    BY <2>2, <2>3
  <2>5. order \in Injection(1 .. n, A)
    BY <2>3 DEF Injection, IsInjective
  <2>6. Cardinality(1 .. n) = n
    <3> HIDE DEF n
    <3>1. 1 \in Int /\ n \in Int
      BY <2>2
    <3>2. Cardinality(1 .. n) = IF 1 > n THEN 0 ELSE n - 1 + 1
      BY <3>1, FS_Interval
    <3> QED BY <2>2, <3>2
  <2>7. order \in Surjection(1 .. n, A)
    BY <2>1, <2>5, <2>6, FS_Injection
  <2>8. \A c \in A : \E i \in 1 .. n : order[i] = c
    BY <2>7 DEF Surjection
  <2> QED BY <2>3, <2>4, <2>8
<1>4. ASSUME NEW c \in AsyncCalls
      PROVE  /\ Cardinality(At(queue, c)) <= completions'[c]
             /\ completions[c] \in Nat
             /\ completions'[c] = completions[c] + IF c \in A THEN 1 ELSE 0
             /\ completions'[c] <= 3
  <2>1. /\ completions[c] \in Nat
        /\ completions'[c] = completions[c] + IF c \in A THEN 1 ELSE 0
    BY DEF IInv, TypeOK, DoneTypeOK, Complete, Calls
  <2>2. completions'[c] <= 3
    <3>1. completions'[c] \in Nat
      BY <2>1
    <3> QED BY <3>1 DEF IInv, CountInv, Flag, Calls
  <2>3. /\ IsFiniteSet(At(doneChan, c)) /\ IsFiniteSet(At(queue, c))
        /\ Cardinality(At(doneChan, c)) \in Nat
    BY <1>2, AtFinite
  <2>4. Cardinality(At(doneChan, c)) <= completions[c]
    BY DEF RoomInv
  <2>5. CASE c \notin A
    <3>1. At(queue, c) \in SUBSET At(doneChan, c)
      BY <1>2, <1>3, <2>5 DEF At
    <3> HIDE DEF queue, A
    <3>2. Cardinality(At(queue, c)) <= Cardinality(At(doneChan, c))
          /\ Cardinality(At(queue, c)) \in Nat
      BY <2>3, <3>1, FS_Subset, FS_CardinalityType
    <3> QED BY <2>1, <2>2, <2>3, <2>4, <2>5, <3>2
  <2>6. CASE c \in A
    <3>1. PICK i \in 1 .. Len(order) : order[i] = c
      BY <1>3, <2>6
    <3>2. At(queue, c) \in SUBSET (At(doneChan, c) \cup {Len(doneChan) + i})
      <4> HIDE DEF A
      <4>1. ASSUME NEW j \in 1 .. Len(queue), queue[j] = c,
                   ~(j <= Len(doneChan))
            PROVE  j = Len(doneChan) + i
        <5>1. j - Len(doneChan) \in 1 .. Len(order)
              /\ order[j - Len(doneChan)] = c
          BY <1>2, <4>1
        <5>2. j - Len(doneChan) = i
          BY <1>3, <3>1, <5>1
        <5> QED BY <1>2, <3>1, <5>2
      <4>2. \A j \in 1 .. Len(queue) :
              queue[j] = c /\ j <= Len(doneChan) =>
                j \in 1 .. Len(doneChan) /\ doneChan[j] = c
        BY <1>2
      <4> QED BY <4>1, <4>2 DEF At
    <3> HIDE DEF queue, A
    <3>3. /\ IsFiniteSet(At(doneChan, c) \cup {Len(doneChan) + i})
          /\ Cardinality(At(doneChan, c) \cup {Len(doneChan) + i})
                <= Cardinality(At(doneChan, c)) + 1
      <4> DEFINE x == Len(doneChan) + i
                 P == At(doneChan, c)
      <4> HIDE DEF x, P
      <4>1. /\ IsFiniteSet(P \cup {x})
            /\ Cardinality(P \cup {x}) =
                 IF x \in P THEN Cardinality(P) ELSE Cardinality(P) + 1
        BY <2>3, FS_AddElement DEF P
      <4>2. Cardinality(P \cup {x}) <= Cardinality(P) + 1
        BY <2>3, <4>1 DEF P
      <4> QED BY <4>1, <4>2 DEF P, x
    <3>4. /\ Cardinality(At(queue, c)) <=
                Cardinality(At(doneChan, c) \cup {Len(doneChan) + i})
          /\ Cardinality(At(doneChan, c) \cup {Len(doneChan) + i}) \in Nat
          /\ Cardinality(At(queue, c)) \in Nat
      BY <2>3, <3>2, <3>3, FS_Subset, FS_CardinalityType
    <3> QED BY <2>1, <2>2, <2>3, <2>4, <2>6, <3>3, <3>4
  <2> QED BY <2>5, <2>6
<1>5. Len(queue) \in Nat /\ doneChan' \in Seq(AsyncCalls)
  BY <1>1, <1>2
<1>6. \A c \in AsyncCalls : Cardinality(At(doneChan', c)) <= completions'[c]
  <2> TAKE c \in AsyncCalls
  <2>1. At(doneChan', c) \in SUBSET At(queue, c)
    BY <1>1, <1>2, <1>5 DEF At
  <2>2. /\ IsFiniteSet(At(queue, c)) /\ Cardinality(At(queue, c)) \in Nat
        /\ Cardinality(At(doneChan', c)) \in Nat
    BY <1>2, <1>5, AtFinite
  <2>3. completions'[c] \in Nat
    BY <1>4
  <2> HIDE DEF queue
  <2>4. Cardinality(At(doneChan', c)) <= Cardinality(At(queue, c))
    BY <2>1, <2>2, FS_Subset
  <2> QED BY <1>4, <2>2, <2>3, <2>4
<1>7. NotifiedIfAmpleRoom'
  <2> SUFFICES ASSUME DoneCap >= 3 * Cardinality(AsyncCalls),
                      NEW c \in AsyncCalls, completions'[c] > 0,
                      c \notin received
               PROVE  c \in ToSet(doneChan')
    BY DEF NotifiedIfAmpleRoom
  <2>1. Len(queue) <= 3 * Cardinality(AsyncCalls)
    <3>1. \A d \in AsyncCalls : Cardinality(At(queue, d)) <= 3
      <4> TAKE d \in AsyncCalls
      <4>1. Cardinality(At(queue, d)) \in Nat
        BY <1>2, AtFinite
      <4> HIDE DEF queue
      <4> QED BY <1>4, <4>1
    <3> HIDE DEF queue
    <3> QED BY <1>2, <3>1, Enough
  <2>2. Cardinality(AsyncCalls) \in Nat
    <3>1. AsyncCalls \in SUBSET Calls
      BY DEF Calls
    <3> QED BY <3>1, CallsAssumption, FS_Subset, FS_CardinalityType
  <2>3. doneChan' = queue
    BY <1>1, <1>2, <1>5, <2>1, <2>2
  <2>4. CASE c \in A
    <3>1. PICK i \in 1 .. Len(order) : order[i] = c
      BY <1>3, <2>4
    <3>2. Len(doneChan) + i \in DOMAIN queue /\ queue[Len(doneChan) + i] = c
      BY <1>2, <3>1
    <3> QED BY <2>3, <3>2 DEF ToSet
  <2>5. CASE c \notin A
    <3>1. completions[c] > 0
      BY <1>4, <2>5
    <3>2. c \in ToSet(doneChan)
      BY <3>1 DEF RoomInv, NotifiedIfAmpleRoom
    <3>3. PICK i \in DOMAIN doneChan : doneChan[i] = c
      BY <3>2 DEF ToSet
    <3>4. i \in DOMAIN queue /\ queue[i] = c
      BY <1>2, <3>3
    <3> QED BY <2>3, <3>4 DEF ToSet
  <2> QED BY <2>4, <2>5
<1> QED BY <1>6, <1>7 DEF RoomInv

(* The application takes the first call out of the channel.                *)
LEMMA ReceiveRoom ==
  ASSUME IInv, RoomInv, Receive
  PROVE  RoomInv'
<1>1. /\ doneChan \in Seq(AsyncCalls) /\ doneChan # <<>>
      /\ doneChan' = Tail(doneChan)
      /\ received' = received \cup {Head(doneChan)}
      /\ UNCHANGED completions
  BY DEF Receive, IInv, TypeOK, DoneTypeOK
<1>2. /\ Len(doneChan') \in Nat /\ Len(doneChan') = Len(doneChan) - 1
      /\ doneChan' \in Seq(AsyncCalls)
      /\ \A i \in 1 .. Len(doneChan') : doneChan'[i] = doneChan[i + 1]
  BY <1>1
<1>3. ASSUME NEW c \in AsyncCalls
      PROVE  Cardinality(At(doneChan', c)) <= completions'[c]
  <2> DEFINE f == [i \in At(doneChan', c) |-> i + 1]
  <2>1. f \in Injection(At(doneChan', c), At(doneChan, c))
    BY <1>1, <1>2 DEF At, Injection, IsInjective
  <2>2. /\ IsFiniteSet(At(doneChan, c)) /\ Cardinality(At(doneChan, c)) \in Nat
        /\ Cardinality(At(doneChan', c)) \in Nat
    BY <1>1, <1>2, AtFinite
  <2> HIDE DEF f
  <2>3. Cardinality(At(doneChan', c)) <= Cardinality(At(doneChan, c))
    BY <2>1, <2>2, FS_Injection
  <2>4. completions[c] \in Nat /\ completions'[c] = completions[c]
    BY <1>1 DEF IInv, TypeOK, DoneTypeOK, Calls
  <2> QED BY <2>2, <2>3, <2>4 DEF RoomInv
<1>4. NotifiedIfAmpleRoom'
  <2> SUFFICES ASSUME DoneCap >= 3 * Cardinality(AsyncCalls),
                      NEW c \in AsyncCalls, completions[c] > 0,
                      c \notin received'
               PROVE  c \in ToSet(doneChan')
    BY <1>1 DEF NotifiedIfAmpleRoom
  <2>1. c \in ToSet(doneChan) /\ c # Head(doneChan)
    BY <1>1 DEF RoomInv, NotifiedIfAmpleRoom
  <2>2. PICK i \in 1 .. Len(doneChan) : doneChan[i] = c
    BY <1>1, <2>1 DEF ToSet
  <2>3. i # 1
    BY <1>1, <2>1, <2>2
  <2>4. i - 1 \in DOMAIN doneChan' /\ doneChan'[i - 1] = c
    BY <1>1, <1>2, <2>2, <2>3
  <2> QED BY <2>4 DEF ToSet
<1> QED BY <1>3, <1>4 DEF RoomInv

(* Every step completes some calls, receives one, or does neither.         *)
LEMMA DoneMoves ==
  ASSUME [Next]_vars
  PROVE  \/ UNCHANGED <<doneChan, completions, received>>
         \/ Receive
         \/ UNCHANGED received /\ \E S, e : Complete(S, e)
<1> DEFINE Still == UNCHANGED <<doneChan, completions, received>>
           Done == UNCHANGED received /\ \E S, e : Complete(S, e)
<1> SUFFICES Still \/ Receive \/ Done
  OBVIOUS
<1>1. ASSUME NEW c \in SyncCalls, CallerStep(c) PROVE Still \/ Done
  <2>1. CASE CallCancelled(c)
    BY <2>1 DEF CallCancelled
  <2> HIDE DEF Done
  <2> QED
    BY <1>1, <2>1 DEF CallerStep, CallReceive, CallReturn, CallCancel, doneVars
<1>2. ASSUME NEW c \in Calls, SenderStep(c) PROVE Still \/ Done
  <2>1. CASE SendRefused(c) \/ SendNoCodec(c) \/ SendFailed(c)
    BY <2>1 DEF SendRefused, SendNoCodec, SendFailed
  <2> HIDE DEF Done
  <2> QED
    BY <1>2, <2>1 DEF SenderStep, SendRegister, SendStoreSeq, SendWrite,
                      SendFail, doneVars
<1>3. CASE InputStep
  <2>1. CASE InputDeliver \/ InputShutdown
    BY <2>1 DEF InputDeliver, InputShutdown
  <2> HIDE DEF Done
  <2> QED
    BY <1>3, <2>1 DEF InputStep, InputRead, InputError, doneVars
<1>4. CASE HeartbeatStep
  <2>1. ASSUME NEW h \in Heartbeats, HeartbeatJudge(h) PROVE Still \/ Done
    <3>1. UNCHANGED received /\ (CloseBody \/ UNCHANGED doneVars)
      BY <2>1 DEF HeartbeatJudge
    <3>2. CASE CloseBody
      BY <3>1, <3>2 DEF CloseBody
    <3>3. CASE UNCHANGED doneVars
      BY <3>1, <3>3 DEF doneVars
    <3> QED BY <3>1, <3>2, <3>3
  <2>2. CASE HeartbeatStop
    BY <2>2 DEF HeartbeatStop, doneVars
  <2>3. ASSUME NEW h \in Heartbeats, HeartbeatTick(h) PROVE Still
    BY <2>3 DEF HeartbeatTick, doneVars
  <2> HIDE DEF Done, Still
  <2> QED BY <1>4, <2>1, <2>2, <2>3 DEF HeartbeatStep
<1>5. CASE Environment
  <2>1. CASE Close
    BY <2>1 DEF Close, CloseBody
  <2> HIDE DEF Done
  <2> QED
    BY <1>5, <2>1 DEF Environment, Invoke, ContextDone, Serve, ConnBreak,
                      doneVars
<1>6. CASE UNCHANGED vars
  BY <1>6 DEF vars, doneVars
<1> QED
  BY <1>1, <1>2, <1>3, <1>4, <1>5, <1>6 DEF Next

(* Whoever gives Go a channel with room for three completions of each call *)
(* is told of every call: done() drops none (client.go:199).               *)
THEOREM Notifies == Spec => []NotifiedIfAmpleRoom
<1>1. Init => RoomInv
  <2> SUFFICES ASSUME Init PROVE RoomInv
    OBVIOUS
  <2>1. \A c \in AsyncCalls : At(doneChan, c) = {} /\ completions[c] = 0
    BY DEF Init, At, Calls
  <2> QED BY <2>1, FS_EmptySet DEF RoomInv, NotifiedIfAmpleRoom
<1>2. IInv /\ IInv' /\ RoomInv /\ [Next]_vars => RoomInv'
  <2> SUFFICES ASSUME IInv, IInv', RoomInv, [Next]_vars PROVE RoomInv'
    OBVIOUS
  <2>1. CASE UNCHANGED <<doneChan, completions, received>>
    BY <2>1 DEF RoomInv, NotifiedIfAmpleRoom
  <2> QED BY <2>1, DoneMoves, ReceiveRoom, CompletedRoom
<1>3. RoomInv => NotifiedIfAmpleRoom
  BY DEF RoomInv
<1> QED
  BY <1>1, <1>2, <1>3, Inductive, PTL DEF Spec
=============================================================================
