---------------------------- MODULE RunLifecycle ----------------------------
(***************************************************************************)
(* What a run promises the people who ratify it, without threads, locks,   *)
(* manifests or crashes: its evidence only accumulates.  A run is opened,  *)
(* its TRIAGE checkpoint is sealed, humans declare the decisions complete, *)
(* candidates are synthesised; it never skips a step and never goes back.  *)
(* RunControl implements this (RunControl!Lifecycle).                      *)
(***************************************************************************)
CONSTANT Runs
VARIABLE phase

Phases == {"absent", "opened", "sealed", "ratified", "synthesised"}

Init == phase = [n \in Runs |-> "absent"]

Advance(n, from, to) ==
    /\ phase[n] = from
    /\ phase' = [phase EXCEPT ![n] = to]

Open(n)       == Advance(n, "absent", "opened")
Seal(n)       == Advance(n, "opened", "sealed")
Ratify(n)     == Advance(n, "sealed", "ratified")
Synthesise(n) == Advance(n, "ratified", "synthesised")

Next == \E n \in Runs : Open(n) \/ Seal(n) \/ Ratify(n) \/ Synthesise(n)

Spec == Init /\ [][Next]_phase
=============================================================================
