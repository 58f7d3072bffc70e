---------------------------- MODULE SynthesisLoop ----------------------------
(***************************************************************************)
(* What resume_after_checkpoint needs of the synthesis loop, and what      *)
(* RunControl's Synthesise, SynthesisFails and SynthesisEnds assume: every *)
(* cluster is decided once, with or without a candidate, until all are or  *)
(* the loop is broken off.  AgentInvoke implements this                    *)
(* (AgentInvoke!Synthesis).                                                *)
(***************************************************************************)
CONSTANT Items
VARIABLES mode,  \* "off", "on", "done" or "broken"
          todo,  \* clusters not decided yet
          made   \* clusters that have a candidate

vars == <<mode, todo, made>>

Init == mode = "off" /\ todo = {} /\ made = {}

Start == /\ mode # "on"
         /\ mode' = "on" /\ todo' = Items /\ made' = {}

Decide(i) == /\ mode = "on" /\ i \in todo
             /\ todo' = todo \ {i}
             /\ made' \in {made, made \union {i}}
             /\ UNCHANGED mode

Break == mode = "on" /\ todo # {} /\ mode' = "broken" /\ UNCHANGED <<todo, made>>

End == mode = "on" /\ todo = {} /\ mode' = "done" /\ UNCHANGED <<todo, made>>

Next == Start \/ Break \/ End \/ \E i \in Items : Decide(i)

Spec == Init /\ [][Next]_vars
=============================================================================
