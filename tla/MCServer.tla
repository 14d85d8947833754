------------------------------ MODULE MCServer ------------------------------
(* Instances of Server for TLC.                                            *)
EXTENDS Server, TLC

CONSTANTS c, d, r, q, o1, o2, o3

(* Requests, and objects, are interchangeable: used by safety runs only.   *)
Symmetry == Permutations(Requests) \cup Permutations(Objects)
=============================================================================
