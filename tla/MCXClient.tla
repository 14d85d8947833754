----------------------------- MODULE MCXClient ------------------------------
(* Instances of XClient for TLC.                                           *)
EXTENDS XClient, TLC

CONSTANTS s, t, p, q

(* The lists discovery reports: any, or always all servers.                *)
AnyList   == SUBSET Keys
AllOfThem == {Keys}

(* Goroutines and servers are interchangeable: used by safety runs only.   *)
Symmetry == Permutations(Procs) \cup Permutations(Keys)
=============================================================================
