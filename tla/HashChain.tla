------------------------------ MODULE HashChain ------------------------------
(***************************************************************************)
(* A hash-chained, append-only log per region, with several writers.  A    *)
(* writer joins the log of a region at its end, and from then on links     *)
(* each of its entries to the one it appended last.                        *)
(*                                                                         *)
(* With one writer at a time the log is the chain invariant I6 asks for;   *)
(* writers that have joined together make it fork.                         *)
(***************************************************************************)
EXTENDS Naturals, Sequences

CONSTANTS Regions, Writers, Hashes, Genesis, Unread
VARIABLES
    chain,  \* region -> sequence of [hash, prev]
    tip     \* writer -> region -> the hash its next entry names, or Unread

Tip(s) == IF s = <<>> THEN Genesis ELSE s[Len(s)].hash

Init ==
    /\ chain = [g \in Regions |-> <<>>]
    /\ tip = [w \in Writers |-> [g \in Regions |-> Unread]]

Join(w, g) ==
    /\ tip[w][g] = Unread
    /\ tip' = [tip EXCEPT ![w][g] = Tip(chain[g])]
    /\ UNCHANGED chain

Extend(w, g, h) ==
    /\ tip[w][g] # Unread
    /\ chain' = [chain EXCEPT ![g] = Append(@, [hash |-> h, prev |-> tip[w][g]])]
    /\ tip' = [tip EXCEPT ![w][g] = h]

Next == \E w \in Writers, g \in Regions : Join(w, g) \/ \E h \in Hashes : Extend(w, g, h)

Spec == Init /\ [][Next]_<<chain, tip>>
=============================================================================
