---------------------------- MODULE MCRunHistory ----------------------------
(* RunHistory on small instances. *)
EXTENDS RunHistory, TLC

(* Requests, runs and clusters are only compared: any permutation of one   *)
(* of them maps behaviours to behaviours.                                  *)
Symmetry == Permutations(Requests) \union Permutations(Runs)
                \union Permutations(Clusters)
=============================================================================
