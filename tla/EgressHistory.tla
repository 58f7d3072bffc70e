--------------------------- MODULE EgressHistory ---------------------------
(***************************************************************************)
(* EgressLedger with a memory of the regions in which assemblies have      *)
(* overlapped.  The memory constrains nothing.                             *)
(***************************************************************************)
EXTENDS EgressLedger

VARIABLE shared   \* the regions two assemblies have been sequencing at once

(* An assembly sequences a region from the first id it draws there.        *)
Sequencing(r, g) == Running(r) /\ nextId[r][g] # 0
Sharing ==
    {g \in Regions : \E q, r \in Runs : q # r /\ Sequencing(q, g) /\ Sequencing(r, g)}

HInit == Init /\ shared = {}
HNext == Next /\ shared' = shared \union Sharing'
HSpec == HInit /\ [][HNext]_<<vars, shared>>

-----------------------------------------------------------------------------
(* Properties.                                                             *)

(* Invariant I6: the chain of a region is unbroken, whatever assemblies    *)
(* die between two writes and wherever later ones pick it up, until two    *)
(* assemblies have been sequencing the region at the same time.            *)
ChainUnbrokenUnlessShared == \A g \in Regions \ shared : Unbroken(g)

(* ledger-{region}-{n}: the n-th entry of a region has number n, so an     *)
(* entry id names one entry, with the same caveat.                         *)
EntryIdsCount == \A g \in Regions \ shared : Numbered(g)
=============================================================================
