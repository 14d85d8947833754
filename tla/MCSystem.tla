------------------------------ MODULE MCSystem ------------------------------
(* Instances of System for TLC.                                            *)
EXTENDS System

CONSTANTS a, o1, o2
=============================================================================
