------------------------------ MODULE Selection ------------------------------
(***************************************************************************)
(* A list comprehension with a condition.  It is what SelectSeq selects,   *)
(* written as a recursive function: the provers know the type of SelectSeq *)
(* and nothing of what it selects.                                         *)
(***************************************************************************)
EXTENDS Naturals, Sequences
LOCAL INSTANCE Functions

\* [x for x in s if x in T]
Only(s, T) ==
    LET kept[i \in 0..Len(s)] ==
            IF i = 0 THEN <<>>
            ELSE IF s[i] \in T THEN Append(kept[i - 1], s[i]) ELSE kept[i - 1]
    IN  kept[Len(s)]

\* [x for x in s if Test(x)]
Where(s, Test(_)) == Only(s, {x \in Range(s) : Test(x)})
=============================================================================
