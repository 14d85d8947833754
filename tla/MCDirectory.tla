----------------------------- MODULE MCDirectory ----------------------------
(* Instances of Directory for TLC.                                         *)
EXTENDS Directory

CONSTANTS s, t, n, m, a, b, w, v
=============================================================================
