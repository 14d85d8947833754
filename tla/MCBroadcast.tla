---------------------------- MODULE MCBroadcast -----------------------------
(* Instances of Broadcast for TLC.                                         *)
EXTENDS Broadcast, TLC

CONSTANTS s, t, u

=============================================================================
