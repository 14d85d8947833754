----------------------------- MODULE CallPromise ----------------------------
(***************************************************************************)
(* What Client.Call promises its callers, whatever the connection does: a  *)
(* call is made once and ends once; the peer answers it at most once, only *)
(* after it was made (possibly after it ended); and Call returns nil only  *)
(* if the peer had answered that very call by then, normally or with a     *)
(* failure it gave no reason for, a ServiceError only if it had answered   *)
(* with a failure and its reason.                                          *)
(***************************************************************************)
CONSTANT Calls

VARIABLES
  phase,    (* idle, open or ended                                         *)
  answer,   (* what the peer made of the call: none, good, bad (a failure  *)
            (* with its reason), bare (one without) or silent              *)
  outcome   (* what Call returned: none, success, service or failure       *)

vars == <<phase, answer, outcome>>

Init ==
  /\ phase = [c \in Calls |-> "idle"]
  /\ answer = [c \in Calls |-> "none"]
  /\ outcome = [c \in Calls |-> "none"]

(* The application calls.                                                  *)
Begin(c) ==
  /\ phase[c] = "idle"
  /\ phase' = [phase EXCEPT ![c] = "open"]
  /\ UNCHANGED <<answer, outcome>>

(* The peer has run the method, once, also when nobody waits any more.     *)
Respond(c) ==
  /\ phase[c] # "idle"
  /\ answer[c] = "none"
  /\ \E r \in {"good", "bad", "bare", "silent"} :
       answer' = [answer EXCEPT ![c] = r]
  /\ UNCHANGED <<phase, outcome>>

(* Call returns.                                                           *)
End(c) ==
  /\ phase[c] = "open"
  /\ phase' = [phase EXCEPT ![c] = "ended"]
  /\ \E o \in {"success", "service", "failure"} :
       /\ o = "success" => answer[c] \in {"good", "bare"}
       /\ o = "service" => answer[c] = "bad"
       /\ outcome' = [outcome EXCEPT ![c] = o]
  /\ UNCHANGED answer

Next == \E c \in Calls : Begin(c) \/ Respond(c) \/ End(c)

Spec == Init /\ [][Next]_vars
=============================================================================
