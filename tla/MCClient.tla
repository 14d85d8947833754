------------------------------ MODULE MCClient ------------------------------
(* Instances of Client for TLC.                                            *)
EXTENDS Client, TLC

(* The calls of the instances.                                            *)
CONSTANTS a, b, g, h, k, l

(* Calls of one kind are interchangeable: used by safety runs only.        *)
SyncSymmetry == Permutations({a, b})
=============================================================================
