--------------------------- MODULE MCEgressLedger ---------------------------
(* EgressLedger on small instances: two regions, one with two artefacts. *)
EXTENDS EgressHistory, TLC

CONSTANTS eu, uk, a1, a2, a3
MCRegions  == {eu, uk}
MCRefs     == {a1, a2, a3}
MCRegionOf == [ref \in MCRefs |-> IF ref = a3 THEN uk ELSE eu]
Symmetry   == Permutations(Runs) \union Permutations({a1, a2})
=============================================================================
