---------------------------- MODULE MCRunControl ----------------------------
(* RunControl on small instances. *)
EXTENDS RunControl, TLC

(* Requests, runs, keys and clusters are only compared: any permutation of *)
(* one of them maps behaviours to behaviours.                              *)
Symmetry == Permutations(Requests) \union Permutations(Runs)
                \union Permutations(Clusters)
=============================================================================
