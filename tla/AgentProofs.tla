----------------------------- MODULE AgentProofs -----------------------------
(***************************************************************************)
(* Theorems about what the agents do and what becomes of it: AgentInvoke,   *)
(* for any number of work items, sessions and provider retries, and any     *)
(* budget; and MappingRun, for any region contracts, specifications, types  *)
(* of canonical paths, patterns, templates and length of the suite.        *)
(***************************************************************************)
EXTENDS AgentInvoke, MappingRun, SelectionProofs
LOCAL INSTANCE SequencesExt
LOCAL INSTANCE FiniteSetsExt

(* An item in hand is no longer on the list; between items none is.        *)
Placed ==
    /\ phase \in InItem => cur \in Items /\ cur \notin todo
    /\ phase \in {"off", "next", "done"} => cur = NoItem
    /\ phase = "done" => todo = {}

(* What is on the list, or in hand, is undecided.                          *)
Open ==
    /\ \A i \in todo : calls[i] = 0 /\ outcome[i] = "open"
    /\ phase \in InItem => outcome[cur] = "open"

(* Each answer charged to the item in hand used up a retry, but the first. *)
Counted ==
    /\ phase \in InItem =>
          calls[cur] = (2 - schemaLeft) + (1 - semanticLeft)
                       + (IF phase = "judge" THEN 1 ELSE 0)
    /\ FourAnswersPerItem

(* A call is out only while there is budget left. *)
Guarded == phase = "ask" => spent < Cap /\ spent < Ceiling

IInv == TypeOK /\ Placed /\ Open /\ Counted /\ Guarded /\ OvershootIsOneAnswer

(* The prompt is estimated at no less than a token. *)
LEMMA BudgetLeft ==
    ASSUME TypeOK, NEW e \in 1 .. MaxEstimate, WithinBudget(e)
    PROVE  spent < Cap /\ spent < Ceiling
BY AgentInvokeAssumption DEF TypeOK, WithinBudget

LEMMA Initial == Init => IInv
BY AgentInvokeAssumption
   DEF Init, IInv, TypeOK, Placed, Open, Counted, FourAnswersPerItem, Guarded,
       OvershootIsOneAnswer, Ended, InItem, Verdicts

(* The four ways in which an action of invoke ends. *)
LEMMA RaiseKeeps ==
    ASSUME IInv, NEW how \in {"budget", "provider", "error"}, Raise(how)
    PROVE  IInv'
BY AgentInvokeAssumption
   DEF IInv, TypeOK, Placed, Open, Counted, FourAnswersPerItem, Guarded,
       OvershootIsOneAnswer, Ended, InItem, Verdicts, Raise, loop, ladder, money

LEMMA DecideKeeps ==
    ASSUME IInv, phase = "judge", NEW r \in {"ok", "failed", "rejected"}, Decide(r)
    PROVE  IInv'
<1> USE DEF InItem
<1>1. TypeOK'
    BY DEF IInv, TypeOK, Placed, Decide, ladder, money, Verdicts
<1>2. Placed' /\ Guarded'
    BY DEF IInv, Placed, Guarded, Decide
<1>3. Open'
    BY DEF IInv, TypeOK, Placed, Open, Decide, money
<1>4. Counted' /\ OvershootIsOneAnswer'
    BY DEF IInv, Counted, FourAnswersPerItem, OvershootIsOneAnswer, Decide, money
<1> QED BY <1>1, <1>2, <1>3, <1>4 DEF IInv

LEMMA RetryKeeps ==
    ASSUME IInv, phase = "judge", Retry, UNCHANGED attempt,
           \/ schemaLeft > 0 /\ schemaLeft' = schemaLeft - 1 /\ UNCHANGED semanticLeft
           \/ semanticLeft > 0 /\ semanticLeft' = semanticLeft - 1 /\ UNCHANGED schemaLeft
    PROVE  IInv'
<1> USE DEF InItem
<1>1. TypeOK'
    BY DEF IInv, TypeOK, Retry, loop, money, Ended, Verdicts
<1>2. Placed' /\ Open' /\ Guarded'
    BY DEF IInv, Placed, Open, Guarded, Retry, loop, money
<1>3. Counted'
    <2>1. cur' = cur /\ calls' = calls /\ phase' = "check"
        BY DEF Retry, loop, money
    <2>2. (2 - schemaLeft') + (1 - semanticLeft') = (2 - schemaLeft) + (1 - semanticLeft) + 1
        BY DEF IInv, TypeOK
    <2>3. calls[cur] = (2 - schemaLeft) + (1 - semanticLeft) + 1
        BY DEF IInv, Counted
    <2>4. FourAnswersPerItem'
        BY <2>1 DEF IInv, Counted, FourAnswersPerItem
    <2> QED BY <2>1, <2>2, <2>3, <2>4, <1>1 DEF Counted, TypeOK
<1>4. OvershootIsOneAnswer'
    BY DEF IInv, OvershootIsOneAnswer, Retry, money
<1> QED BY <1>1, <1>2, <1>3, <1>4 DEF IInv

LEMMA AnswerKeeps ==
    ASSUME IInv, ProviderAnswers
    PROVE  IInv'
<1> USE DEF InItem
<1>1. cur \in Items /\ cur' = cur /\ calls' = [calls EXCEPT ![cur] = @ + 1]
    BY DEF IInv, Placed, ProviderAnswers, loop
<1>2. TypeOK'
    BY <1>1, AgentInvokeAssumption DEF IInv, TypeOK, ProviderAnswers, loop, ladder
<1>3. Placed' /\ Guarded'
    BY DEF IInv, Placed, Guarded, ProviderAnswers, loop
<1>4. Open'
    BY <1>1 DEF IInv, TypeOK, Placed, Open, ProviderAnswers, loop
<1>5. Counted'
    <2>1. calls[cur] = (2 - schemaLeft) + (1 - semanticLeft)
        BY DEF IInv, TypeOK, Counted, ProviderAnswers
    <2>2. calls'[cur] = (2 - schemaLeft) + (1 - semanticLeft) + 1
        BY <1>1, <2>1 DEF IInv, TypeOK
    <2>3. calls'[cur] <= 4
        BY <2>2 DEF IInv, TypeOK
    <2>4. FourAnswersPerItem'
        BY <1>1, <2>3 DEF IInv, TypeOK, Counted, FourAnswersPerItem
    <2> QED BY <1>1, <2>2, <2>4 DEF Counted, ProviderAnswers, ladder
<1>6. OvershootIsOneAnswer'
    BY AgentInvokeAssumption DEF IInv, TypeOK, Guarded, OvershootIsOneAnswer, ProviderAnswers
<1> QED BY <1>2, <1>3, <1>4, <1>5, <1>6 DEF IInv

LEMMA Inductive ==
    ASSUME IInv, [Next]_vars
    PROVE  IInv'
<1> USE DEF InItem
<1>1. CASE StartSession
    BY <1>1, AgentInvokeAssumption
       DEF IInv, TypeOK, Placed, Open, Counted, FourAnswersPerItem, Guarded,
           OvershootIsOneAnswer, StartSession, ladder, Ended
<1>2. CASE EndSession
    BY <1>2 DEF IInv, TypeOK, Placed, Open, Counted, FourAnswersPerItem, Guarded,
                OvershootIsOneAnswer, EndSession, loop, ladder, money, Ended
<1>3. CASE TakeItem
    <2>1. PICK i \in todo : cur' = i /\ todo' = todo \ {i}
        BY <1>3 DEF TakeItem
    <2>2. TypeOK' /\ Placed' /\ Guarded'
        BY <1>3, <2>1 DEF IInv, TypeOK, Placed, Guarded, TakeItem, money, Ended
    <2>3. Open'
        BY <1>3, <2>1 DEF IInv, Open, TakeItem, money
    <2>4. Counted'
        BY <1>3, <2>1 DEF IInv, TypeOK, Open, Counted, FourAnswersPerItem, TakeItem, money
    <2>5. OvershootIsOneAnswer'
        BY <1>3 DEF IInv, OvershootIsOneAnswer, TakeItem, money
    <2> QED BY <2>2, <2>3, <2>4, <2>5 DEF IInv
<1>4. CASE CheckBudget
    <2>1. PICK e \in 1 .. MaxEstimate :
              IF WithinBudget(e)
              THEN /\ phase' = "ask"
                   /\ UNCHANGED <<loop, ladder, attempt, verdict, outcome, money>>
              ELSE Raise("budget")
        BY <1>4 DEF CheckBudget
    <2>2. CASE WithinBudget(e)
        <3>1. spent < Cap /\ spent < Ceiling
            BY <2>2, BudgetLeft DEF IInv
        <3> QED BY <1>4, <2>1, <2>2, <3>1
                DEF CheckBudget, IInv, TypeOK, Placed, Open, Counted, FourAnswersPerItem,
                    Guarded, OvershootIsOneAnswer, loop, ladder, money
    <2>3. CASE ~WithinBudget(e)
        BY <2>1, <2>3, RaiseKeeps
    <2> QED BY <2>2, <2>3
<1>5. CASE ProviderRefuses
    <2>1. CASE attempt < ProviderRetries
        BY <1>5, <2>1, AgentInvokeAssumption
           DEF ProviderRefuses, IInv, TypeOK, Placed, Open, Counted, FourAnswersPerItem,
               Guarded, OvershootIsOneAnswer, loop, ladder, money
    <2> QED BY <1>5, <2>1, RaiseKeeps DEF ProviderRefuses
<1>6. CASE ProviderBreaks
    BY <1>6, RaiseKeeps DEF ProviderBreaks
<1>7. CASE ProviderAnswers
    BY <1>7, AnswerKeeps
<1>8. CASE JudgeNotJson
    BY <1>8, RaiseKeeps DEF JudgeNotJson
<1>9. CASE JudgeSchema
    BY <1>9, RetryKeeps, DecideKeeps DEF JudgeSchema, Retry
<1>10. CASE JudgeSemantic
    BY <1>10, RetryKeeps, DecideKeeps DEF JudgeSemantic, Retry
<1>11. CASE JudgeGuardrail
    BY <1>11, DecideKeeps DEF JudgeGuardrail
<1>12. CASE JudgeGood
    BY <1>12, DecideKeeps DEF JudgeGood
<1>13. CASE UNCHANGED vars
    BY <1>13 DEF IInv, TypeOK, Placed, Open, Counted, FourAnswersPerItem, Guarded,
                 OvershootIsOneAnswer, vars, loop, ladder, money
<1> QED
    BY <1>1, <1>2, <1>3, <1>4, <1>5, <1>6, <1>7, <1>8, <1>9, <1>10, <1>11, <1>12, <1>13
       DEF Next, Invoke

(* Every reachable state satisfies the inductive invariant: the answers of *)
(* the item in hand are counted by the retries it has used, and a call is  *)
(* out only with budget left.                                              *)
THEOREM Invariance == Spec => []IInv
<1>1. Init => IInv
    BY Initial
<1>2. IInv /\ [Next]_vars => IInv'
    BY Inductive
<1> QED BY <1>1, <1>2, PTL DEF Spec

(* The types of a session's state.                                         *)
THEOREM TypeCorrect == Spec => []TypeOK
<1>1. IInv => TypeOK
    BY DEF IInv
<1> QED BY <1>1, Invariance, PTL

(* Whatever mixture of failures the ladder of Agent.invoke sees, one work  *)
(* item never costs more than four answers.                                *)
THEOREM AtMostFourAnswers == Spec => []FourAnswersPerItem
<1>1. IInv => FourAnswersPerItem
    BY DEF IInv, Counted
<1> QED BY <1>1, Invariance, PTL

(* Budget.check before and Budget.record after a call let a session spend  *)
(* less than one answer above the stage's cap and above the ceiling.       *)
THEOREM BoundedOvershoot == Spec => []OvershootIsOneAnswer
<1>1. IInv => OvershootIsOneAnswer
    BY DEF IInv
<1> QED BY <1>1, Invariance, PTL

(* No step of a session asks about a decided item again or changes what    *)
(* was decided.                                                            *)
THEOREM Finality == Spec => DecidedIsFinal
<1> DEFINE A == \A i \in Items :
                    outcome[i] # "open" /\ sessions' = sessions
                        => outcome'[i] = outcome[i] /\ calls'[i] = calls[i]
<1>1. ASSUME IInv, Next PROVE A
    <2> SUFFICES ASSUME NEW i \in Items, outcome[i] # "open", sessions' = sessions
                 PROVE  outcome'[i] = outcome[i] /\ calls'[i] = calls[i]
        OBVIOUS
    <2>1. phase \in InItem => i # cur
        BY <1>1 DEF IInv, Open
    <2>2. ASSUME phase \in InItem, NEW r, Decide(r)
          PROVE  outcome'[i] = outcome[i] /\ calls'[i] = calls[i]
        BY <1>1, <2>1, <2>2 DEF IInv, TypeOK, Decide, money
    <2>3. ASSUME NEW how, Raise(how)
          PROVE  outcome'[i] = outcome[i] /\ calls'[i] = calls[i]
        BY <2>3 DEF Raise, money
    <2>4. ASSUME Retry
          PROVE  outcome'[i] = outcome[i] /\ calls'[i] = calls[i]
        BY <2>4 DEF Retry, money
    <2>5. CASE StartSession
        BY <1>1, <2>5 DEF StartSession, IInv, TypeOK
    <2>6. CASE TakeItem \/ EndSession
        BY <2>6 DEF TakeItem, EndSession, money
    <2>7. CASE CheckBudget
        BY <2>3, <2>7 DEF CheckBudget, money
    <2>8. CASE ProviderRefuses \/ ProviderBreaks
        BY <2>3, <2>8 DEF ProviderRefuses, ProviderBreaks, money
    <2>9. CASE ProviderAnswers
        BY <1>1, <2>1, <2>9 DEF ProviderAnswers, IInv, TypeOK, InItem
    <2>10. CASE JudgeNotJson \/ JudgeSchema \/ JudgeSemantic \/ JudgeGuardrail \/ JudgeGood
        BY <2>2, <2>3, <2>4, <2>10
           DEF JudgeNotJson, JudgeSchema, JudgeSemantic, JudgeGuardrail, JudgeGood, InItem
    <2> QED BY <1>1, <2>5, <2>6, <2>7, <2>8, <2>9, <2>10 DEF Next, Invoke
<1>2. ASSUME UNCHANGED vars PROVE A
    BY <1>2 DEF vars, money
<1>3. IInv /\ [Next]_vars => [A]_vars
    BY <1>1, <1>2
<1> QED BY <1>3, Invariance, PTL DEF Spec, DecidedIsFinal

-----------------------------------------------------------------------------
(* The session, seen as the loop of SynthesisLoop. *)

LEMMA RaiseBreaks ==
    ASSUME IInv, phase \in InItem, NEW how \in {"budget", "provider", "error"}, Raise(how)
    PROVE  Synthesis!Break
BY AgentInvokeAssumption
   DEF IInv, Placed, Raise, loop, money, InItem, Ended, Synthesis!Break

LEMMA DecideDecides ==
    ASSUME IInv, phase = "judge", NEW r \in {"ok", "failed", "rejected"}, Decide(r)
    PROVE  Synthesis!Decide(cur)
<1> DEFINE made == {i \in Items : outcome[i] = "ok"}
<1>1. cur \in Items /\ cur \notin todo /\ cur # NoItem
    BY AgentInvokeAssumption DEF IInv, Placed, InItem
<1>2. todo' \union ({cur'} \ {NoItem}) = (todo \union ({cur} \ {NoItem})) \ {cur}
    BY <1>1 DEF Decide
<1>3. outcome' = [outcome EXCEPT ![cur] = r] /\ outcome \in [Items -> {"open", "ok", "failed", "rejected"}]
    BY DEF Decide, IInv, TypeOK
<1>4. outcome[cur] = "open"
    BY DEF IInv, Open, InItem
<1>5. made' \in {made, made \union {cur}}
    <2>1. CASE r = "ok"
        <3>1. made' = made \union {cur}
            BY <1>1, <1>3, <2>1
        <3> QED BY <3>1
    <2>2. CASE r # "ok"
        <3>1. made' = made
            BY <1>1, <1>3, <1>4, <2>2
        <3> QED BY <3>1
    <2> QED BY <2>1, <2>2
<1>6. phase' = "next"
    BY DEF Decide
<1> QED BY <1>1, <1>2, <1>5, <1>6 DEF Synthesis!Decide, Ended

LEMMA SynthesisStep ==
    ASSUME IInv, [Next]_vars
    PROVE  [Synthesis!Next]_Synthesis!vars
<1> USE DEF InItem
<1>1. CASE StartSession
    <2>1. Synthesis!Start
        BY <1>1 DEF StartSession, Ended, Synthesis!Start
    <2> QED BY <2>1 DEF Synthesis!Next
<1>2. CASE EndSession
    <2>1. Synthesis!End
        BY <1>2 DEF EndSession, loop, money, IInv, Placed, Ended, Synthesis!End
    <2> QED BY <2>1 DEF Synthesis!Next
<1>3. CASE TakeItem
    <2>1. PICK i \in todo : cur' = i /\ todo' = todo \ {i}
        BY <1>3 DEF TakeItem
    <2>2. i # NoItem /\ cur = NoItem
        BY <1>3, <2>1, AgentInvokeAssumption DEF TakeItem, IInv, TypeOK, Placed
    <2>3. todo' \union ({cur'} \ {NoItem}) = todo \union ({cur} \ {NoItem})
        BY <2>1, <2>2
    <2> QED BY <1>3, <2>3 DEF TakeItem, Ended, Synthesis!vars
<1>4. CASE CheckBudget
    BY <1>4, RaiseBreaks DEF CheckBudget, loop, Ended, Synthesis!vars, Synthesis!Next
<1>5. CASE ProviderRefuses
    BY <1>5, RaiseBreaks DEF ProviderRefuses, loop, Ended, Synthesis!vars, Synthesis!Next
<1>6. CASE ProviderBreaks
    BY <1>6, RaiseBreaks DEF ProviderBreaks, Synthesis!Next
<1>7. CASE ProviderAnswers
    BY <1>7 DEF ProviderAnswers, loop, Ended, Synthesis!vars
<1>8. CASE JudgeNotJson
    BY <1>8, RaiseBreaks DEF JudgeNotJson, Synthesis!Next
<1>9. ASSUME phase = "judge", Retry
      PROVE  UNCHANGED Synthesis!vars
    BY <1>9 DEF Retry, loop, Ended, Synthesis!vars
<1>10. ASSUME phase = "judge", NEW r \in {"ok", "failed", "rejected"}, Decide(r)
       PROVE  Synthesis!Next
    <2>1. Synthesis!Decide(cur)
        BY <1>10, DecideDecides
    <2>2. cur \in Items
        BY <1>10 DEF IInv, Placed
    <2> QED BY <2>1, <2>2 DEF Synthesis!Next, Synthesis!Decide
<1>11. CASE JudgeSchema \/ JudgeSemantic \/ JudgeGuardrail \/ JudgeGood
    BY <1>9, <1>10, <1>11 DEF JudgeSchema, JudgeSemantic, JudgeGuardrail, JudgeGood
<1>12. CASE UNCHANGED vars
    BY <1>12 DEF vars, loop, Synthesis!vars
<1> QED
    BY <1>1, <1>2, <1>3, <1>4, <1>5, <1>6, <1>7, <1>8, <1>11, <1>12 DEF Next, Invoke

(* Ladder, budget and provider leave the session the loop that             *)
(* resume_after_checkpoint relies on: every step decides a cluster, breaks *)
(* the loop off or ends it, or shows nothing of itself.                    *)
THEOREM Refinement == Spec => ImplementsSynthesisLoop
<1>1. Init => Synthesis!Init
    BY DEF Init, Synthesis!Init
<1>2. IInv /\ [Next]_vars => [Synthesis!Next]_Synthesis!vars
    BY SynthesisStep
<1> QED BY <1>1, <1>2, Invariance, PTL DEF Spec, ImplementsSynthesisLoop, Synthesis!Spec

-----------------------------------------------------------------------------
(***************************************************************************)
(* MappingRun.  A chain and a plan are recursive functions over positions:  *)
(* first what they are step by step, then what the steps keep, and last     *)
(* that what the compiler and the suite have found of every step holds of   *)
(* the plan when it is applied.                                            *)
(***************************************************************************)
(* What a value is after each of the calls of a chain.                     *)
ChainUpto(at, dir, chain, v, n) ==
    at = [k \in 0..n |-> IF k = 0 THEN v ELSE ApplyCall(dir, CallAt(dir, chain, k), at[k - 1])]
Applied(at, dir, chain, v) ==
    /\ at[0] = v /\ at[Len(chain)] = Through(dir, chain, v)
    /\ \A k \in 1..Len(chain) : at[k] = ApplyCall(dir, CallAt(dir, chain, k), at[k - 1])

(* The function Through computes with exists, by induction on its length.  *)
LEMMA ChainDefined ==
    ASSUME NEW dir, NEW chain, NEW v, NEW n \in Nat
    PROVE  \E at : ChainUpto(at, dir, chain, v, n)
<1> DEFINE Good == {k \in 0..n : \E at : ChainUpto(at, dir, chain, v, k)}
           After(at, k) == ApplyCall(dir, CallAt(dir, chain, k), at[k - 1])
           Value(at, k) == IF k = 0 THEN v ELSE After(at, k)
<1>1. 0 \in Good
  <2> DEFINE g == [k \in 0..0 |-> v]
  <2>1. ChainUpto(g, dir, chain, v, 0)
    BY DEF ChainUpto
  <2> HIDE DEF g
  <2> QED
    BY <2>1
<1>2. ASSUME NEW k \in 1..n, k - 1 \in Good PROVE k \in Good
  <2>1. PICK f : ChainUpto(f, dir, chain, v, k - 1)
    BY <1>2
  <2> DEFINE g == [j \in 0..k |-> IF j = k THEN After(f, k) ELSE f[j]]
  <2>2. \A j \in 0..(k - 1) : g[j] = f[j] /\ f[j] = Value(f, j)
    <3> HIDE DEF After
    <3> QED
      BY <2>1 DEF ChainUpto, After
  <2>3. \A j \in 0..k : g[j] = Value(g, j)
    <3>1. ASSUME NEW j \in 0..k PROVE Value(f, j) = Value(g, j)
      <4>1. CASE j = 0
        BY <4>1
      <4>2. CASE j # 0
        <5>1. g[j - 1] = f[j - 1]
          BY <2>2, <4>2
        <5> HIDE DEF g
        <5> QED
          BY <5>1
      <4> QED
        BY <4>1, <4>2
    <3>2. ASSUME NEW j \in 0..k PROVE g[j] = Value(f, j)
      <4>1. CASE j = k
        BY <4>1
      <4>2. CASE j \in 0..(k - 1)
        <5> HIDE DEF g, Value
        <5> QED
          BY <2>2, <4>2
      <4> QED
        BY <4>1, <4>2
    <3> HIDE DEF g, Value
    <3> QED
      BY <3>1, <3>2
  <2>4. ChainUpto(g, dir, chain, v, k)
    <3>1. g = [j \in 0..k |-> g[j]]
      OBVIOUS
    <3> HIDE DEF g
    <3>2. g = [j \in 0..k |-> Value(g, j)]
      <4> HIDE DEF Value
      <4> QED
        BY <2>3, <3>1
    <3> QED
      BY <3>2 DEF ChainUpto
  <2> HIDE DEF g
  <2> QED
    BY <2>4
<1>3. 0..n \subseteq Good
  <2> HIDE DEF Good
  <2> QED
    BY <1>1, <1>2, Induction
<1> QED
  BY <1>3

(* Through is the last of the values a chain passes through.               *)
LEMMA ThroughSteps ==
    ASSUME NEW dir, NEW chain, NEW v, Len(chain) \in Nat
    PROVE  \E at : Applied(at, dir, chain, v)
<1> DEFINE at[k \in 0..Len(chain)] ==
              IF k = 0 THEN v ELSE ApplyCall(dir, CallAt(dir, chain, k), at[k - 1])
<1>1. ChainUpto(at, dir, chain, v, Len(chain))
  <2>1. \E f : ChainUpto(f, dir, chain, v, Len(chain))
    BY ChainDefined
  <2> QED
    BY <2>1 DEF ChainUpto
<1>2. Through(dir, chain, v) = at[Len(chain)]
  BY DEF Through
<1> HIDE DEF at
<1>3. Applied(at, dir, chain, v)
  BY <1>1, <1>2 DEF ChainUpto, Applied
<1> QED
  BY <1>3

(* What the compiler takes a value to be after each of the calls.          *)
TypesUpto(at, chain, source, n) ==
    at = [k \in 0..n |-> IF k = 0 THEN source ELSE TypeAfter(chain[k], at[k - 1])]
Inferred(at, chain, source) ==
    /\ at[0] = source /\ at[Len(chain)] = InferOutputType(chain, source)
    /\ \A k \in 1..Len(chain) : at[k] = TypeAfter(chain[k], at[k - 1])

(* The function InferOutputType computes with exists.                      *)
LEMMA TypesDefined ==
    ASSUME NEW chain, NEW source, NEW n \in Nat
    PROVE  \E at : TypesUpto(at, chain, source, n)
<1> DEFINE Good == {k \in 0..n : \E at : TypesUpto(at, chain, source, k)}
           After(at, k) == TypeAfter(chain[k], at[k - 1])
           Value(at, k) == IF k = 0 THEN source ELSE After(at, k)
<1>1. 0 \in Good
  <2> DEFINE g == [k \in 0..0 |-> source]
  <2>1. TypesUpto(g, chain, source, 0)
    BY DEF TypesUpto
  <2> HIDE DEF g
  <2> QED
    BY <2>1
<1>2. ASSUME NEW k \in 1..n, k - 1 \in Good PROVE k \in Good
  <2>1. PICK f : TypesUpto(f, chain, source, k - 1)
    BY <1>2
  <2> DEFINE g == [j \in 0..k |-> IF j = k THEN After(f, k) ELSE f[j]]
  <2>2. \A j \in 0..(k - 1) : g[j] = f[j] /\ f[j] = Value(f, j)
    <3> HIDE DEF After
    <3> QED
      BY <2>1 DEF TypesUpto, After
  <2>3. \A j \in 0..k : g[j] = Value(g, j)
    <3>1. ASSUME NEW j \in 0..k PROVE Value(f, j) = Value(g, j)
      <4>1. CASE j = 0
        BY <4>1
      <4>2. CASE j # 0
        <5>1. g[j - 1] = f[j - 1]
          BY <2>2, <4>2
        <5> HIDE DEF g
        <5> QED
          BY <5>1
      <4> QED
        BY <4>1, <4>2
    <3>2. ASSUME NEW j \in 0..k PROVE g[j] = Value(f, j)
      <4>1. CASE j = k
        BY <4>1
      <4>2. CASE j \in 0..(k - 1)
        <5> HIDE DEF g, Value
        <5> QED
          BY <2>2, <4>2
      <4> QED
        BY <4>1, <4>2
    <3> HIDE DEF g, Value
    <3> QED
      BY <3>1, <3>2
  <2>4. TypesUpto(g, chain, source, k)
    <3>1. g = [j \in 0..k |-> g[j]]
      OBVIOUS
    <3> HIDE DEF g
    <3>2. g = [j \in 0..k |-> Value(g, j)]
      <4> HIDE DEF Value
      <4> QED
        BY <2>3, <3>1
    <3> QED
      BY <3>2 DEF TypesUpto
  <2> HIDE DEF g
  <2> QED
    BY <2>4
<1>3. 0..n \subseteq Good
  <2> HIDE DEF Good
  <2> QED
    BY <1>1, <1>2, Induction
<1> QED
  BY <1>3

(* InferOutputType is the last of the types it takes the value to have.    *)
LEMMA InferSteps ==
    ASSUME NEW chain, NEW source, Len(chain) \in Nat
    PROVE  \E at : Inferred(at, chain, source)
<1> DEFINE at[k \in 0..Len(chain)] ==
              IF k = 0 THEN source ELSE TypeAfter(chain[k], at[k - 1])
<1>1. TypesUpto(at, chain, source, Len(chain))
  <2>1. \E f : TypesUpto(f, chain, source, Len(chain))
    BY TypesDefined
  <2> QED
    BY <2>1 DEF TypesUpto
<1>2. InferOutputType(chain, source) = at[Len(chain)]
  BY DEF InferOutputType
<1> HIDE DEF at
<1>3. Inferred(at, chain, source)
  BY <1>1, <1>2 DEF TypesUpto, Inferred
<1> QED
  BY <1>3

(* What a walk carries after each of the steps.                            *)
StepTaken(dir, p, in, i, walk) ==
    IF walk.stopped # "" \/ ~Taken(dir, p[i]) THEN walk
    ELSE Settle(walk, i, p[i], Target(dir, p[i]), Produced(dir, p[i], in))
WalkUpto(walk, dir, p, in, n) ==
    walk = [i \in 0..n |-> IF i = 0 THEN Nothing ELSE StepTaken(dir, p, in, i, walk[i - 1])]
Walked(walk, dir, p, in) ==
    /\ walk[0] = Nothing /\ walk[Len(p)] = Walk(dir, p, in)
    /\ \A i \in 1..Len(p) : walk[i] = StepTaken(dir, p, in, i, walk[i - 1])

(* The function Walk computes with exists.                                 *)
LEMMA WalkDefined ==
    ASSUME NEW dir, NEW p, NEW in, NEW n \in Nat
    PROVE  \E walk : WalkUpto(walk, dir, p, in, n)
<1> DEFINE Good == {k \in 0..n : \E walk : WalkUpto(walk, dir, p, in, k)}
           After(at, k) == StepTaken(dir, p, in, k, at[k - 1])
           Value(at, k) == IF k = 0 THEN Nothing ELSE After(at, k)
<1>1. 0 \in Good
  <2> DEFINE g == [k \in 0..0 |-> Nothing]
  <2>1. WalkUpto(g, dir, p, in, 0)
    BY DEF WalkUpto
  <2> HIDE DEF g
  <2> QED
    BY <2>1
<1>2. ASSUME NEW k \in 1..n, k - 1 \in Good PROVE k \in Good
  <2>1. PICK f : WalkUpto(f, dir, p, in, k - 1)
    BY <1>2
  <2> DEFINE g == [j \in 0..k |-> IF j = k THEN After(f, k) ELSE f[j]]
  <2>2. \A j \in 0..(k - 1) : g[j] = f[j] /\ f[j] = Value(f, j)
    <3> HIDE DEF After
    <3> QED
      BY <2>1 DEF WalkUpto, After
  <2>3. \A j \in 0..k : g[j] = Value(g, j)
    <3>1. ASSUME NEW j \in 0..k PROVE Value(f, j) = Value(g, j)
      <4>1. CASE j = 0
        BY <4>1
      <4>2. CASE j # 0
        <5>1. g[j - 1] = f[j - 1]
          BY <2>2, <4>2
        <5> HIDE DEF g
        <5> QED
          BY <5>1
      <4> QED
        BY <4>1, <4>2
    <3>2. ASSUME NEW j \in 0..k PROVE g[j] = Value(f, j)
      <4>1. CASE j = k
        BY <4>1
      <4>2. CASE j \in 0..(k - 1)
        <5> HIDE DEF g, Value
        <5> QED
          BY <2>2, <4>2
      <4> QED
        BY <4>1, <4>2
    <3> HIDE DEF g, Value
    <3> QED
      BY <3>1, <3>2
  <2>4. WalkUpto(g, dir, p, in, k)
    <3>1. g = [j \in 0..k |-> g[j]]
      OBVIOUS
    <3> HIDE DEF g
    <3>2. g = [j \in 0..k |-> Value(g, j)]
      <4> HIDE DEF Value
      <4> QED
        BY <2>3, <3>1
    <3> QED
      BY <3>2 DEF WalkUpto
  <2> HIDE DEF g
  <2> QED
    BY <2>4
<1>3. 0..n \subseteq Good
  <2> HIDE DEF Good
  <2> QED
    BY <1>1, <1>2, Induction
<1> QED
  BY <1>3

(* Walk is what is carried after the last step.                            *)
LEMMA WalkSteps ==
    ASSUME NEW dir, NEW p, NEW in, Len(p) \in Nat
    PROVE  \E walk : Walked(walk, dir, p, in)
<1> DEFINE walk[i \in 0..Len(p)] ==
              IF i = 0 THEN Nothing
              ELSE IF walk[i - 1].stopped # "" \/ ~Taken(dir, p[i]) THEN walk[i - 1]
              ELSE Settle(walk[i - 1], i, p[i], Target(dir, p[i]), Produced(dir, p[i], in))
<1>1. WalkUpto(walk, dir, p, in, Len(p))
  <2>1. \E f : WalkUpto(f, dir, p, in, Len(p))
    BY WalkDefined
  <2> QED
    BY <2>1 DEF WalkUpto, StepTaken
<1>2. Walk(dir, p, in) = walk[Len(p)]
  BY DEF Walk
<1> HIDE DEF walk
<1>3. Walked(walk, dir, p, in)
  BY <1>1, <1>2 DEF WalkUpto, Walked
<1> QED
  BY <1>3

-----------------------------------------------------------------------------
(* The values a chain is applied to and produces.                          *)
IsData(v) == DOMAIN v \in {{"string"}, {"number"}, {"day"}, {"day", "hour", "zone"},
                           {"amount", "currency"}, {"value", "scheme", "issuer"},
                           {"parts"}, {"list"}}
IsValue(v) == v \in {Null, Fail, Crash} \/ IsData(v)

(* A value is of the type the compiler took it to be of, if it knew one.   *)
Fits(v, type) ==
    \/ type = "" \/ v \in {Fail, Crash}
    \/ IsData(v) /\ DOMAIN v # {"list"} /\ type \in KindOf(v)

IsCall(call) ==
    /\ call.name \in DOMAIN TRANSFORMS
    /\ call.name = "constant" /\ "const" \in DOMAIN call.args =>
          DOMAIN call.args["const"] \in {{"string"}, {"number"}}

(* Nothing and the two failures are three things, and no data.             *)
LEMMA Distinct3 ==
    /\ Null # Fail /\ Null # Crash /\ Fail # Crash
    /\ ~IsData(Null) /\ ~IsData(Fail) /\ ~IsData(Crash)
    /\ \A f \in {"string", "number", "day", "hour", "amount", "value", "parts", "list"} : ~Is(Null, f)
<1>1. DOMAIN Null = {"null"} /\ DOMAIN Fail = {"error"} /\ DOMAIN Crash = {"crash"}
  BY DEF Null, Fail, Crash
<1>2. Null # Fail /\ Null # Crash /\ Fail # Crash
  BY <1>1
<1>3. ~IsData(Null) /\ ~IsData(Fail) /\ ~IsData(Crash)
  BY <1>1 DEF IsData
<1>4. \A f \in {"string", "number", "day", "hour", "amount", "value", "parts", "list"} : ~Is(Null, f)
  BY <1>1 DEF Is
<1> QED
  BY <1>2, <1>3, <1>4

(* What the functions of the library make, and what it is taken for.       *)
Made(w, kinds) == IsData(w) /\ DOMAIN w # {"list"} /\ KindOf(w) = kinds
LEMMA MadeBy ==
    /\ \A x : Made(Str(x), {"string"})
    /\ \A d : Made([day |-> d], {"date", "dateTime"})
    /\ \A d, h, z : Made([day |-> d, hour |-> h, zone |-> z], {"dateTime"})
    /\ \A x, c : Made([amount |-> x, currency |-> c], {"MonetaryAmount", "object"})
    /\ \A x, s, z : Made([value |-> x, scheme |-> s, issuer |-> z], {"Identifier", "object"})
    /\ \A x : Made([parts |-> x], {"object"})
    /\ \A x : Made([number |-> x], {"integer", "decimal", "boolean"})
<1>1. \A x : Made(Str(x), {"string"})
  BY DEF Made, IsData, Str, KindOf, Is
<1>2. \A d : Made([day |-> d], {"date", "dateTime"})
  BY DEF Made, IsData, KindOf, Is
<1>3. \A d, h, z : Made([day |-> d, hour |-> h, zone |-> z], {"dateTime"})
  BY DEF Made, IsData, KindOf, Is
<1>4. \A x, c : Made([amount |-> x, currency |-> c], {"MonetaryAmount", "object"})
  BY DEF Made, IsData, KindOf, Is
<1>5. \A x, s, z : Made([value |-> x, scheme |-> s, issuer |-> z], {"Identifier", "object"})
  BY DEF Made, IsData, KindOf, Is
<1>6. \A x : Made([parts |-> x], {"object"})
  BY DEF Made, IsData, KindOf, Is
<1>7. \A x : Made([number |-> x], {"integer", "decimal", "boolean"})
  BY DEF Made, IsData, KindOf, Is
<1> QED
  BY <1>1, <1>2, <1>3, <1>4, <1>5, <1>6, <1>7

(* What is made is of the type that is taken for it.                       *)
LEMMA MadeFits ==
    ASSUME NEW w, NEW kinds, w = Fail \/ Made(w, kinds), NEW type, type \in kinds
    PROVE  IsValue(w) /\ Fits(w, type) /\ w # Null
BY Distinct3 DEF Made, IsValue, Fits

(* A call keeps data data, and produces the type the compiler takes it to  *)
(* produce; what fails keeps failing.                                      *)
LEMMA ForwardStep ==
    ASSUME NEW call, IsCall(call), NEW v, IsValue(v), NEW type, Fits(v, type),
           NEW w, w = ForwardOf(call, v)
    PROVE  /\ IsValue(w) /\ Fits(w, TypeAfter(call, type))
           /\ v # Null => w # Null
<1> DEFINE n == call.name
           a == call.args
<1>1. CASE v \in {Fail, Crash} \/ ~(TRANSFORMS[n].requires \subseteq DOMAIN a)
  <2>1. w \in {Fail, Crash}
    BY <1>1 DEF ForwardOf
  <2> QED
    BY <2>1, Distinct3 DEF IsValue, Fits
<1>2. CASE v \notin {Fail, Crash} /\ TRANSFORMS[n].requires \subseteq DOMAIN a
  <2>1. n \in {"identity", "parseDate", "formatDate", "instantAtStartOfDay", "valueMap",
               "toMonetaryAmount", "toIdentifier", "decompose", "compose", "concat",
               "coalesce", "constant", "scale", "normaliseCase"}
    BY DEF IsCall, TRANSFORMS
  <2>2. CASE n = "identity"
    <3>1. w = v /\ TypeAfter(call, type) = type
      BY <1>2, <2>2 DEF ForwardOf, TypeAfter, StaticOutputType
    <3> QED
      BY <3>1
  <2>3. CASE n = "parseDate"
    <3>1. w = ParseDate(v, a.fmt, Arg(call, "zone", ""))
      BY <1>2, <2>3 DEF ForwardOf
    <3>2. \/ w = Fail
          \/ \E d : w = [day |-> d]
          \/ "zone" \in DOMAIN a /\ \E d, h, z : w = [day |-> d, hour |-> h, zone |-> z]
      BY <3>1 DEF ParseDate, Arg
    <3>3. TypeAfter(call, type) = IF "zone" \in DOMAIN a THEN "dateTime" ELSE "date"
      BY <2>3 DEF TypeAfter
    <3>4. CASE "zone" \notin DOMAIN a
      <4>1. w = Fail \/ Made(w, {"date", "dateTime"})
        BY <3>2, <3>4, MadeBy
      <4> QED
        BY <3>3, <3>4, <4>1, MadeFits
    <3>5. CASE "zone" \in DOMAIN a
      <4>1. w = Fail \/ Made(w, {"date", "dateTime"}) \/ Made(w, {"dateTime"})
        BY <3>2, <3>5, MadeBy
      <4> QED
        BY <3>3, <3>5, <4>1, MadeFits
    <3> QED
      BY <3>4, <3>5
  <2>4. CASE n \in {"formatDate", "valueMap", "compose", "concat", "normaliseCase"}
    <3>1. w = Fail \/ (\E x : w = Str(x)) \/ (w = v /\ Is(v, "string"))
      <4>1. CASE n = "formatDate"
        BY <1>2, <4>1 DEF ForwardOf, FormatDate
      <4>2. CASE n = "valueMap"
        BY <1>2, <4>2 DEF ForwardOf, Lookup
      <4>3. CASE n = "compose"
        BY <1>2, <4>3 DEF ForwardOf, Compose
      <4>4. CASE n = "concat"
        BY <1>2, <4>4 DEF ForwardOf, Concat
      <4>5. CASE n = "normaliseCase"
        BY <1>2, <4>5 DEF ForwardOf, NormaliseCase
      <4> QED
        BY <2>4, <4>1, <4>2, <4>3, <4>4, <4>5
    <3>2. TypeAfter(call, type) = "string"
      <4>1. \A m \in {"formatDate", "valueMap", "compose", "concat", "normaliseCase"} :
               m # "parseDate" /\ m \in DOMAIN StaticOutputType /\ StaticOutputType[m] = "string"
        <5>1. /\ {"formatDate", "valueMap", "compose", "concat", "normaliseCase"} \subseteq DOMAIN StaticOutputType
              /\ StaticOutputType.formatDate = "string" /\ StaticOutputType.valueMap = "string"
              /\ StaticOutputType.compose = "string" /\ StaticOutputType.concat = "string"
              /\ StaticOutputType.normaliseCase = "string"
          BY DEF StaticOutputType
        <5> QED
          BY <5>1
      <4> QED
        BY <2>4, <4>1 DEF TypeAfter
    <3>3. CASE w = v /\ Is(v, "string")
      <4>1. IsData(v) /\ DOMAIN v = {"string"}
        <5>1. IsData(v)
          BY <1>2, <3>3, Distinct3 DEF IsValue
        <5> QED
          BY <3>3, <5>1 DEF Is, IsData
      <4>2. KindOf(v) = {"string"}
        BY <4>1 DEF KindOf, Is
      <4>3. Made(w, {"string"})
        BY <3>3, <4>1, <4>2 DEF Made
      <4> QED
        BY <3>2, <4>3, MadeFits
    <3> QED
      BY <3>1, <3>2, <3>3, MadeBy, MadeFits, Distinct3 DEF IsValue, Fits
  <2>5. CASE n = "instantAtStartOfDay"
    <3>1. w = Fail \/ \E d, h, z : w = [day |-> d, hour |-> h, zone |-> z]
      BY <1>2, <2>5 DEF ForwardOf, InstantAtStartOfDay
    <3>2. TypeAfter(call, type) = "dateTime"
      BY <2>5 DEF TypeAfter, StaticOutputType
    <3>3. w = Fail \/ Made(w, {"dateTime"})
      BY <3>1, MadeBy
    <3> QED
      BY <3>2, <3>3, MadeFits
  <2>6. CASE n = "toMonetaryAmount"
    <3>1. w = Fail \/ \E x, c : w = [amount |-> x, currency |-> c]
      BY <1>2, <2>6 DEF ForwardOf, ToMonetaryAmount
    <3>2. TypeAfter(call, type) = "MonetaryAmount"
      BY <2>6 DEF TypeAfter, StaticOutputType
    <3>3. w = Fail \/ Made(w, {"MonetaryAmount", "object"})
      BY <3>1, MadeBy
    <3> QED
      BY <3>2, <3>3, MadeFits
  <2>7. CASE n = "toIdentifier"
    <3>1. w = Fail \/ \E x, c, z : w = [value |-> x, scheme |-> c, issuer |-> z]
      BY <1>2, <2>7 DEF ForwardOf, ToIdentifier
    <3>2. TypeAfter(call, type) = "Identifier"
      BY <2>7 DEF TypeAfter, StaticOutputType
    <3>3. w = Fail \/ Made(w, {"Identifier", "object"})
      BY <3>1, MadeBy
    <3> QED
      BY <3>2, <3>3, MadeFits
  <2>8. CASE n = "decompose"
    <3>1. w = Fail \/ \E x : w = [parts |-> x]
      BY <1>2, <2>8 DEF ForwardOf, Decompose
    <3>2. TypeAfter(call, type) = "object"
      BY <2>8 DEF TypeAfter, StaticOutputType
    <3>3. w = Fail \/ Made(w, {"object"})
      BY <3>1, MadeBy
    <3> QED
      BY <3>2, <3>3, MadeFits
  <2>9. CASE n = "scale"
    <3>1. w = Fail \/ \E x : w = [number |-> x]
      BY <1>2, <2>9 DEF ForwardOf, Scale
    <3>2. TypeAfter(call, type) = "decimal"
      BY <2>9 DEF TypeAfter, StaticOutputType
    <3>3. w = Fail \/ Made(w, {"integer", "decimal", "boolean"})
      BY <3>1, MadeBy
    <3> QED
      BY <3>2, <3>3, MadeFits
  <2>10. CASE n = "coalesce"
    <3>1. w = Coalesce(v) /\ TypeAfter(call, type) = type
      BY <1>2, <2>10 DEF ForwardOf, TypeAfter, StaticOutputType
    <3>2. w = Fail \/ (type = "" /\ \E x : w = Str(x))
      <4>1. CASE ~Is(v, "list")
        BY <3>1, <4>1 DEF Coalesce
      <4>2. CASE Is(v, "list")
        <5>1. type = ""
          BY <1>2, <4>2 DEF Fits, IsData, Is
        <5> QED
          BY <3>1, <5>1 DEF Coalesce
      <4> QED
        BY <4>1, <4>2
    <3>3. CASE w = Fail
      BY <3>3, Distinct3 DEF IsValue, Fits
    <3>4. CASE \E x : w = Str(x)
      <4>1. Made(w, {"string"})
        BY <3>4, MadeBy
      <4> QED
        BY <3>1, <3>2, <4>1, Distinct3 DEF Made, IsValue, Fits
    <3> QED
      BY <3>2, <3>3, <3>4
  <2>11. CASE n = "constant"
    <3>1. w = a.const /\ TypeAfter(call, type) = ""
      BY <1>2, <2>11 DEF ForwardOf, TypeAfter, StaticOutputType
    <3>2. "const" \in DOMAIN a
      BY <1>2, <2>11 DEF TRANSFORMS, T
    <3>3. IsData(w)
      BY <2>11, <3>1, <3>2 DEF IsCall, IsData
    <3> QED
      BY <3>1, <3>3, Distinct3 DEF IsValue, Fits
  <2> QED
    BY <2>1, <2>2, <2>3, <2>4, <2>5, <2>6, <2>7, <2>8, <2>9, <2>10, <2>11
<1> QED
  BY <1>1, <1>2

(* Back from nothing comes nothing.                                        *)
LEMMA ReverseOfNothing ==
    ASSUME NEW call, NEW v \in {Null, Fail, Crash}
    PROVE  ReverseOf(call, v) \in {Null, Fail, Crash}
<1> DEFINE n == call.name
           a == call.args
           w == ReverseOf(call, v)
<1>1. CASE v = Null /\ (TRANSFORMS[n].requires \subseteq DOMAIN a \/ n \in {"identity", "normaliseCase"})
  <2>1. v \notin {Fail, Crash} /\ \A f \in {"string", "number", "day", "hour", "amount", "value", "parts", "list"} : ~Is(v, f)
    BY <1>1, Distinct3
  <2>2. CASE n \in {"identity", "normaliseCase"}
    BY <1>1, <2>1, <2>2 DEF ReverseOf
  <2>3. CASE n = "parseDate"
    BY <1>1, <2>1, <2>3 DEF ReverseOf, FormatDate
  <2>4. CASE n = "formatDate"
    BY <1>1, <2>1, <2>4 DEF ReverseOf, ParseDate
  <2>5. CASE n = "instantAtStartOfDay"
    BY <1>1, <2>1, <2>5 DEF ReverseOf, ToLocalDate
  <2>6. CASE n = "valueMap"
    BY <1>1, <2>1, <2>6 DEF ReverseOf, Lookup
  <2>7. CASE n = "toMonetaryAmount"
    BY <1>1, <2>1, <2>7 DEF ReverseOf, AmountOf
  <2>8. CASE n = "toIdentifier"
    BY <1>1, <2>1, <2>8 DEF ReverseOf, ValueOf
  <2>9. CASE n = "decompose"
    BY <1>1, <2>1, <2>9 DEF ReverseOf, Compose
  <2>10. CASE n = "compose"
    BY <1>1, <2>1, <2>10 DEF ReverseOf, Decompose
  <2>11. CASE n = "concat"
    BY <1>1, <2>1, <2>11 DEF ReverseOf, Split
  <2>12. CASE n = "scale"
    BY <1>1, <2>1, <2>12 DEF ReverseOf, Unscale
  <2>13. CASE n \notin {"identity", "normaliseCase", "parseDate", "formatDate", "instantAtStartOfDay",
                       "valueMap", "toMonetaryAmount", "toIdentifier", "decompose", "compose",
                       "concat", "scale"}
    BY <1>1, <2>1, <2>13 DEF ReverseOf
  <2> QED
    BY <2>2, <2>3, <2>4, <2>5, <2>6, <2>7, <2>8, <2>9, <2>10, <2>11, <2>12, <2>13
<1>2. CASE v \in {Fail, Crash} \/ ~(TRANSFORMS[n].requires \subseteq DOMAIN a)
  <2>1. CASE v \in {Fail, Crash} \/ n \in {"identity", "normaliseCase"}
    BY <2>1 DEF ReverseOf
  <2>2. CASE ~(v \in {Fail, Crash} \/ n \in {"identity", "normaliseCase"})
    BY <1>2, <2>2 DEF ReverseOf
  <2> QED
    BY <2>1, <2>2
<1> QED
  BY <1>1, <1>2

IsChain(chain) == Len(chain) \in Nat /\ \A k \in 1..Len(chain) : IsCall(chain[k])

(* A chain keeps data data, and makes the type that was inferred for it.   *)
LEMMA ForwardThrough ==
    ASSUME NEW chain, IsChain(chain), NEW v, IsValue(v),
           NEW w, w = Through("forward", chain, v)
    PROVE  /\ IsValue(w) /\ Fits(w, InferOutputType(chain, ""))
           /\ v # Null => w # Null
<1> DEFINE n == Len(chain)
           none == ""
<1>0. Fits(v, none)
  BY DEF Fits
<1> HIDE DEF none
<1>1. PICK at : Applied(at, "forward", chain, v)
  BY ThroughSteps DEF IsChain
<1>2. PICK ty : Inferred(ty, chain, none)
  BY InferSteps DEF IsChain
<1> DEFINE Right(x, type) == IsValue(x) /\ Fits(x, type) /\ (v # Null => x # Null)
           Good == {k \in 0..n : Right(at[k], ty[k])}
<1>3. n \in Nat
  BY DEF IsChain
<1>4. 0 \in Good
  <2>1. at[0] = v /\ ty[0] = none /\ 0 \in 0..n
    BY <1>1, <1>2, <1>3 DEF Applied, Inferred
  <2>2. Right(v, none)
    BY <1>0
  <2> HIDE DEF Right, n
  <2> QED
    BY <2>1, <2>2
<1>5. ASSUME NEW k \in 1..n, k - 1 \in Good PROVE k \in Good
  <2>1. Right(at[k - 1], ty[k - 1]) /\ IsCall(chain[k]) /\ k \in 0..n
    BY <1>5 DEF IsChain
  <2>2. at[k] = ForwardOf(chain[k], at[k - 1]) /\ ty[k] = TypeAfter(chain[k], ty[k - 1])
    BY <1>1, <1>2 DEF Applied, Inferred, ApplyCall, CallAt
  <2>3. Right(at[k], ty[k])
    BY <2>1, <2>2, ForwardStep
  <2> HIDE DEF Right
  <2> QED
    BY <2>1, <2>3
<1>6. n \in Good
  <2>1. 0..n \subseteq Good
    <3> HIDE DEF Good, n
    <3> QED
      BY <1>3, <1>4, <1>5, Induction
  <2> HIDE DEF Good
  <2> QED
    BY <1>3, <2>1
<1> QED
  BY <1>1, <1>2, <1>6 DEF Applied, Inferred, none

(* A chain makes nothing of nothing on its way back.                       *)
LEMMA NothingThrough ==
    ASSUME NEW chain, Len(chain) \in Nat
    PROVE  Through("reverse", chain, Null) \in {Null, Fail, Crash}
<1> DEFINE n == Len(chain)
<1>1. PICK at : Applied(at, "reverse", chain, Null)
  BY ThroughSteps
<1> DEFINE Good == {k \in 0..n : at[k] \in {Null, Fail, Crash}}
<1> n \in Nat
  OBVIOUS
<1>2. 0 \in Good
  BY <1>1 DEF Applied
<1>3. ASSUME NEW k \in 1..n, k - 1 \in Good PROVE k \in Good
  <2>1. at[k] = ReverseOf(CallAt("reverse", chain, k), at[k - 1])
    BY <1>1 DEF Applied, ApplyCall
  <2>2. at[k] \in {Null, Fail, Crash}
    BY <1>3, <2>1, ReverseOfNothing
  <2> QED
    BY <2>2
<1>4. n \in Good
  <2>1. 0..n \subseteq Good
    <3> HIDE DEF Good, n
    <3> QED
      BY <1>2, <1>3, Induction
  <2> HIDE DEF Good
  <2> QED
    BY <2>1
<1> QED
  BY <1>4, <1>1 DEF Applied

(* A type that a chain fixes does not depend on what it is applied to.     *)
SameTypes(other, chain) ==
    /\ Len(other) = Len(chain)
    /\ \A k \in 1..Len(chain) : \A type : TypeAfter(other[k], type) = TypeAfter(chain[k], type)

LEMMA FixedType ==
    ASSUME NEW chain, NEW other, Len(chain) \in Nat, SameTypes(other, chain),
           NEW source, NEW none, InferOutputType(chain, none) # none
    PROVE  InferOutputType(other, source) = InferOutputType(chain, none)
<1> DEFINE n == Len(chain)
<1>1. PICK ty : Inferred(ty, chain, none)
  BY InferSteps
<1>2. PICK ot : Inferred(ot, other, source)
  BY InferSteps DEF SameTypes
<1> DEFINE Agree(k) == ty[k] # none => ot[k] = ty[k]
           Good == {k \in 0..n : Agree(k)}
<1> n \in Nat
  OBVIOUS
<1>3. 0 \in Good
  <2>1. ty[0] = none /\ 0 \in 0..n
    BY <1>1 DEF Inferred
  <2> QED
    BY <2>1
<1>4. ASSUME NEW k \in 1..n, k - 1 \in Good PROVE k \in Good
  <2>1. ty[k] = TypeAfter(chain[k], ty[k - 1]) /\ ot[k] = TypeAfter(chain[k], ot[k - 1])
    BY <1>1, <1>2 DEF Inferred, SameTypes
  <2>2. Agree(k - 1)
    BY <1>4
  <2>3. Agree(k) /\ k \in 0..n
    BY <2>1, <2>2 DEF TypeAfter, SameTypes
  <2> HIDE DEF Agree, n
  <2> QED
    BY <2>3
<1>5. n \in Good
  <2>1. 0..n \subseteq Good
    <3> HIDE DEF Good, n
    <3> QED
      BY <1>3, <1>4, Induction
  <2> HIDE DEF Good
  <2> QED
    BY <2>1
<1> QED
  BY <1>1, <1>2, <1>5 DEF Inferred, SameTypes

-----------------------------------------------------------------------------
(* What one step of a plan p does to a walk: it stops it, escalates, or    *)
(* leaves something at its target.                                         *)
Policies == {"reject", "escalate", "default", "skip"}
Halts(dir, step, in) ==
    /\ Taken(dir, step)
    /\ \/ Produced(dir, step, in) = Crash
       \/ Produced(dir, step, in) = Fail /\ step.onFailure = "reject"
Escalates(dir, step, in) ==
    Taken(dir, step) /\ Produced(dir, step, in) = Fail /\ step.onFailure = "escalate"
Leaves(dir, step, in, x) ==
    /\ Taken(dir, step) /\ Target(dir, step) # ""
    /\ \/ Produced(dir, step, in) \notin {Fail, Crash} /\ x = Produced(dir, step, in)
       \/ Produced(dir, step, in) = Fail /\ step.onFailure = "default" /\ x = Null
LeavesSome(dir, step, in) ==
    /\ Taken(dir, step) /\ Target(dir, step) # ""
    /\ \/ Produced(dir, step, in) \notin {Fail, Crash}
       \/ Produced(dir, step, in) = Fail /\ step.onFailure = "default"

WalkedTo(w, dir, p, in, k) ==
    /\ w = [out |-> w.out, escalated |-> w.escalated, stopped |-> w.stopped]
    /\ (w.stopped = "") <=> \A i \in 1..k : ~Halts(dir, p[i], in)
    /\ \A q \in DOMAIN w.out :
          \E i \in 1..k : Target(dir, p[i]) = q /\ Leaves(dir, p[i], in, w.out[q])
    /\ w.stopped = "" =>
          \A i \in 1..k : LeavesSome(dir, p[i], in) => Target(dir, p[i]) \in DOMAIN w.out
    /\ \A i \in w.escalated : i \in 1..k /\ Escalates(dir, p[i], in)
    /\ w.stopped = "" => \A i \in 1..k : Escalates(dir, p[i], in) => i \in w.escalated

(* The fields of what a walk carries.                                      *)
LEMMA WalkFields ==
    ASSUME NEW w, NEW o, NEW e, NEW s, w = [out |-> o, escalated |-> e, stopped |-> s]
    PROVE  /\ w.out = o /\ w.escalated = e /\ w.stopped = s
           /\ w = [out |-> w.out, escalated |-> w.escalated, stopped |-> w.stopped]
OBVIOUS

WrittenAt(new, out, path, v) ==
    /\ DOMAIN new = DOMAIN out \union {path} /\ new[path] = v
    /\ \A q \in DOMAIN out \ {path} : new[q] = out[q]
LEMMA WriteIs ==
    ASSUME NEW out, NEW path, path # "", NEW v
    PROVE  WrittenAt(WritePath(out, path, v), out, path, v)
BY DEF WritePath, WrittenAt

(* One step more.                                                          *)
LEMMA OneMore ==
    ASSUME NEW k \in Nat \ {0}
    PROVE  1..k = 1..(k - 1) \union {k} /\ k \notin 1..(k - 1)
OBVIOUS

(* The step that is not taken, or not reached.                             *)
LEMMA StepPassed ==
    ASSUME NEW dir, NEW p, NEW in, NEW k \in Nat \ {0}, NEW w,
           WalkedTo(w, dir, p, in, k - 1), w.stopped # "" \/ ~Taken(dir, p[k])
    PROVE  WalkedTo(w, dir, p, in, k)
<1>1. 1..k = 1..(k - 1) \union {k}
  BY OneMore
<1>2. ~Taken(dir, p[k]) =>
        ~Halts(dir, p[k], in) /\ ~Escalates(dir, p[k], in) /\ ~LeavesSome(dir, p[k], in)
  BY DEF Halts, Escalates, LeavesSome
<1> QED
  BY <1>1, <1>2 DEF WalkedTo

(* The step that stops the walk.                                           *)
LEMMA StepStops ==
    ASSUME NEW dir, NEW p, NEW in, NEW k \in Nat \ {0}, NEW w, NEW new, NEW why,
           WalkedTo(w, dir, p, in, k - 1), Halts(dir, p[k], in), why # "",
           new = [out |-> w.out, escalated |-> w.escalated, stopped |-> why]
    PROVE  WalkedTo(new, dir, p, in, k)
<1>1. 1..k = 1..(k - 1) \union {k}
  BY OneMore
<1>2. new.out = w.out /\ new.escalated = w.escalated /\ new.stopped # ""
      /\ new = [out |-> new.out, escalated |-> new.escalated, stopped |-> new.stopped]
  BY WalkFields
<1>3. \A q \in DOMAIN new.out :
         \E i \in 1..k : Target(dir, p[i]) = q /\ Leaves(dir, p[i], in, new.out[q])
  BY <1>1, <1>2 DEF WalkedTo
<1>4. \A i \in new.escalated : i \in 1..k /\ Escalates(dir, p[i], in)
  BY <1>1, <1>2 DEF WalkedTo
<1> QED
  BY <1>1, <1>2, <1>3, <1>4 DEF WalkedTo

(* The step that is escalated.                                             *)
LEMMA StepEscalated ==
    ASSUME NEW dir, NEW p, NEW in, NEW k \in Nat \ {0}, NEW w, NEW new, w.stopped = "",
           WalkedTo(w, dir, p, in, k - 1), Escalates(dir, p[k], in),
           new = [out |-> w.out, escalated |-> w.escalated \union {k}, stopped |-> ""]
    PROVE  WalkedTo(new, dir, p, in, k)
<1>1. 1..k = 1..(k - 1) \union {k}
  BY OneMore
<1>2. new.out = w.out /\ new.escalated = w.escalated \union {k} /\ new.stopped = ""
      /\ new = [out |-> new.out, escalated |-> new.escalated, stopped |-> new.stopped]
  BY WalkFields
<1>3. ~Halts(dir, p[k], in) /\ ~LeavesSome(dir, p[k], in)
  BY Distinct3 DEF Escalates, Halts, LeavesSome
<1>4. \A q \in DOMAIN new.out :
         \E i \in 1..k : Target(dir, p[i]) = q /\ Leaves(dir, p[i], in, new.out[q])
  BY <1>1, <1>2 DEF WalkedTo
<1>5. \A i \in 1..k : LeavesSome(dir, p[i], in) => Target(dir, p[i]) \in DOMAIN new.out
  BY <1>1, <1>2, <1>3 DEF WalkedTo
<1>6. \A i \in 1..k : ~Halts(dir, p[i], in)
  BY <1>1, <1>3 DEF WalkedTo
<1>7. /\ \A i \in new.escalated : i \in 1..k /\ Escalates(dir, p[i], in)
      /\ \A i \in 1..k : Escalates(dir, p[i], in) => i \in new.escalated
  BY <1>1, <1>2 DEF WalkedTo
<1> QED
  BY <1>2, <1>4, <1>5, <1>6, <1>7 DEF WalkedTo

(* The step that leaves x at its target.                                   *)
LEMMA StepLeaves ==
    ASSUME NEW dir, NEW p, NEW in, NEW k \in Nat \ {0}, NEW w, NEW new, w.stopped = "",
           NEW x, NEW target, target = Target(dir, p[k]), target # "",
           WalkedTo(w, dir, p, in, k - 1), Leaves(dir, p[k], in, x),
           ~Halts(dir, p[k], in), ~Escalates(dir, p[k], in),
           new = [out |-> WritePath(w.out, target, x), escalated |-> w.escalated, stopped |-> ""]
    PROVE  WalkedTo(new, dir, p, in, k)
<1>1. 1..k = 1..(k - 1) \union {k}
  BY OneMore
<1>2. new.out = WritePath(w.out, target, x) /\ new.escalated = w.escalated /\ new.stopped = ""
      /\ new = [out |-> new.out, escalated |-> new.escalated, stopped |-> new.stopped]
  BY WalkFields
<1>3. /\ DOMAIN new.out = DOMAIN w.out \union {target} /\ new.out[target] = x
      /\ \A q \in DOMAIN w.out \ {target} : new.out[q] = w.out[q]
  <2>1. WrittenAt(new.out, w.out, target, x)
    BY <1>2, WriteIs
  <2> QED
    BY <2>1 DEF WrittenAt
<1>4. \A q \in DOMAIN new.out :
         \E i \in 1..k : Target(dir, p[i]) = q /\ Leaves(dir, p[i], in, new.out[q])
  BY <1>1, <1>3 DEF WalkedTo
<1>5. \A i \in 1..k : LeavesSome(dir, p[i], in) => Target(dir, p[i]) \in DOMAIN new.out
  BY <1>1, <1>3 DEF WalkedTo
<1>6. \A i \in 1..k : ~Halts(dir, p[i], in)
  BY <1>1 DEF WalkedTo
<1>7. /\ \A i \in new.escalated : i \in 1..k /\ Escalates(dir, p[i], in)
      /\ \A i \in 1..k : Escalates(dir, p[i], in) => i \in new.escalated
  BY <1>1, <1>2 DEF WalkedTo
<1> QED
  BY <1>2, <1>4, <1>5, <1>6, <1>7 DEF WalkedTo

(* The step that is taken.                                                 *)
LEMMA StepWalked ==
    ASSUME NEW dir, NEW p, NEW in, NEW k \in Nat \ {0}, NEW w, NEW new,
           WalkedTo(w, dir, p, in, k - 1), w.stopped = "", Taken(dir, p[k]),
           p[k].onFailure \in Policies,
           new = Settle(w, k, p[k], Target(dir, p[k]), Produced(dir, p[k], in))
    PROVE  WalkedTo(new, dir, p, in, k)
<1> DEFINE v == Produced(dir, p[k], in)
           target == Target(dir, p[k])
           policy == p[k].onFailure
           x == IF v = Fail THEN Null ELSE v
<1>1. w = [out |-> w.out, escalated |-> w.escalated, stopped |-> ""]
  BY DEF WalkedTo
<1>2. CASE Halts(dir, p[k], in)
  <2>1. \/ new = [out |-> w.out, escalated |-> w.escalated, stopped |-> "crashed"]
        \/ new = [out |-> w.out, escalated |-> w.escalated, stopped |-> "rejected"]
    BY <1>1, <1>2, Distinct3 DEF Settle, Handle, Halts
  <2> QED
    BY <1>2, <2>1, StepStops
<1>3. CASE Escalates(dir, p[k], in)
  <2>1. new = [out |-> w.out, escalated |-> w.escalated \union {k}, stopped |-> ""]
    BY <1>1, <1>3, Distinct3 DEF Settle, Handle, Escalates
  <2> QED
    BY <1>3, <2>1, StepEscalated
<1>4. CASE ~Halts(dir, p[k], in) /\ ~Escalates(dir, p[k], in)
  <2>1. \/ v = Fail /\ policy = "skip" /\ new = w
        \/ /\ (v = Fail /\ policy = "default") \/ v \notin {Fail, Crash}
           /\ new = [out |-> WritePath(w.out, target, x), escalated |-> w.escalated, stopped |-> ""]
    BY <1>1, <1>4, Distinct3 DEF Settle, Handle, Halts, Escalates, Policies
  <2>2. CASE ~LeavesSome(dir, p[k], in)
    <3>1. new = w
      <4>1. CASE v = Fail /\ policy = "skip" /\ new = w
        BY <4>1
      <4>2. CASE /\ (v = Fail /\ policy = "default") \/ v \notin {Fail, Crash}
                 /\ new = [out |-> WritePath(w.out, target, x), escalated |-> w.escalated, stopped |-> ""]
        <5>1. target = ""
          BY <2>2, <4>2 DEF LeavesSome
        <5>2. WritePath(w.out, target, x) = w.out
          BY <5>1 DEF WritePath
        <5> QED
          BY <1>1, <4>2, <5>2
      <4> QED
        BY <2>1, <4>1, <4>2
    <3>2. WalkedTo(w, dir, p, in, k)
      <4>1. 1..k = 1..(k - 1) \union {k}
        BY OneMore
      <4> QED
        BY <1>4, <2>2, <4>1 DEF WalkedTo
    <3> QED
      BY <3>1, <3>2
  <2>3. CASE LeavesSome(dir, p[k], in)
    <3>1. /\ target # "" /\ Leaves(dir, p[k], in, x)
          /\ new = [out |-> WritePath(w.out, target, x), escalated |-> w.escalated, stopped |-> ""]
      BY Distinct3, <2>1, <2>3 DEF LeavesSome, Leaves
    <3> HIDE DEF x, target
    <3> QED
      BY <1>4, <3>1, StepLeaves DEF target
  <2> QED
    BY <2>2, <2>3
<1> QED
  BY <1>2, <1>3, <1>4

(* A walk over a whole plan.                                               *)
LEMMA WalkIs ==
    ASSUME NEW dir, NEW p, NEW in, Len(p) \in Nat,
           \A i \in 1..Len(p) : p[i].onFailure \in Policies
    PROVE  WalkedTo(Walk(dir, p, in), dir, p, in, Len(p))
<1> DEFINE n == Len(p)
<1>1. PICK walk : Walked(walk, dir, p, in)
  BY WalkSteps
<1> DEFINE Good == {k \in 0..n : WalkedTo(walk[k], dir, p, in, k)}
<1>2. 0 \in Good
  <2>1. WalkedTo(Nothing, dir, p, in, 0)
    BY DEF WalkedTo, Nothing, Empty
  <2>2. walk[0] = Nothing /\ 0 \in 0..n
    BY <1>1 DEF Walked
  <2> QED
    BY <2>1, <2>2
<1>3. ASSUME NEW k \in 1..n, k - 1 \in Good PROVE k \in Good
  <2>1. PICK w : w = walk[k - 1]
    OBVIOUS
  <2>2. PICK new : new = walk[k]
    OBVIOUS
  <2>3. WalkedTo(w, dir, p, in, k - 1) /\ p[k].onFailure \in Policies /\ k \in Nat \ {0} /\ k \in 0..n
    BY <1>3, <2>1
  <2>4. new = StepTaken(dir, p, in, k, w)
    BY <1>1, <2>1, <2>2 DEF Walked
  <2>5. WalkedTo(new, dir, p, in, k)
    BY <2>3, <2>4, StepPassed, StepWalked DEF StepTaken
  <2> QED
    BY <2>2, <2>3, <2>5
<1>4. n \in Good
  <2>1. 0..n \subseteq Good
    <3> HIDE DEF Good, n
    <3> QED
      BY <1>2, <1>3, Induction DEF n
  <2> HIDE DEF Good
  <2> QED
    BY <2>1
<1>5. walk[n] = Walk(dir, p, in)
  BY <1>1 DEF Walked
<1> QED
  BY <1>4, <1>5

-----------------------------------------------------------------------------
(* What a step that shares its target with no other leaves there.          *)
IsPlan(p) == Len(p) \in Nat /\ \A i \in 1..Len(p) : p[i].onFailure \in Policies
TakenAlone(dir, p, i) ==
    /\ i \in 1..Len(p) /\ Taken(dir, p[i])
    /\ \A j \in 1..Len(p) : Taken(dir, p[j]) /\ Target(dir, p[j]) = Target(dir, p[i]) => j = i
Outcome(target, v) == IF target = "" \/ v \in {Fail, Crash} THEN Null ELSE v

Unstopped(w) == w.stopped = ""

(* What a step leaves that shares its target with no other step taken.     *)
LEMMA StepAlone ==
    ASSUME NEW dir, NEW p, NEW in, NEW w, w = Walk(dir, p, in), Unstopped(w),
           IsPlan(p), NEW i, TakenAlone(dir, p, i)
    PROVE  ReadPath(w.out, Target(dir, p[i])) = Outcome(Target(dir, p[i]), Produced(dir, p[i], in))
<1> DEFINE q == Target(dir, p[i])
           v == Produced(dir, p[i], in)
<1>1. WalkedTo(w, dir, p, in, Len(p))
  BY WalkIs DEF IsPlan
<1>2. ~Halts(dir, p[i], in)
  BY <1>1 DEF WalkedTo, TakenAlone, Unstopped
<1>3. v # Crash
  BY <1>2 DEF Halts, TakenAlone
<1>4. ASSUME q \in DOMAIN w.out PROVE Leaves(dir, p[i], in, w.out[q])
  <2>1. PICK j \in 1..Len(p) : Target(dir, p[j]) = q /\ Leaves(dir, p[j], in, w.out[q])
    BY <1>1, <1>4 DEF WalkedTo
  <2>2. j = i
    BY <2>1 DEF Leaves, TakenAlone
  <2> QED
    BY <2>1, <2>2
<1>5. q # "" /\ v \notin {Fail, Crash} => q \in DOMAIN w.out
  BY <1>1 DEF WalkedTo, LeavesSome, TakenAlone, Unstopped
<1>6. CASE q \in DOMAIN w.out
  <2>1. q # "" /\ (v # Fail => w.out[q] = v) /\ (v = Fail => w.out[q] = Null)
    BY <1>3, <1>4, <1>6, Distinct3 DEF Leaves
  <2> QED
    BY <1>3, <1>6, <2>1 DEF ReadPath, Outcome
<1>7. CASE q \notin DOMAIN w.out
  BY <1>3, <1>5, <1>7 DEF ReadPath, Outcome
<1> QED
  BY <1>6, <1>7

(* The keyword arguments of a call come from the arguments it was written  *)
(* with.                                                                   *)
LEMMA ArgumentFrom ==
    ASSUME NEW c, c.args \in Seq(Range(c.args)), NEW k \in DOMAIN ParseCall(c).args
    PROVE  \E a \in Range(c.args) : ParseCall(c).args[k] = Literal(a.value)
<1> DEFINE S == {j \in DOMAIN c.args : Keyword(c.args[j]) = k}
<1>1. Len(c.args) \in Nat /\ DOMAIN c.args = 1..Len(c.args)
  OBVIOUS
<1>2. \E a \in Range(c.args) : Keyword(a) = k
  BY DEF ParseCall
<1>3. S \in SUBSET (1..Len(c.args)) /\ S # {}
  BY <1>1, <1>2 DEF Range
<1>4. Max(S) \in S
  <2> HIDE DEF S
  <2> QED
    BY <1>1, <1>3, LastPosition
<1>5. ParseCall(c).args[k] = Literal(c.args[Max(S)].value)
  BY DEF ParseCall
<1> QED
  BY <1>4, <1>5 DEF Range

(* A call that is parsed keeps its name, and its literals are data.        *)
LEMMA CallParsed ==
    ASSUME NEW c, c.args \in Seq(Range(c.args)), c.name \in DOMAIN TRANSFORMS,
           c.name = "constant" => \A a \in Range(c.args) : DOMAIN Literal(a.value) \in {{"string"}, {"number"}}
    PROVE  IsCall(ParseCall(c)) /\ ParseCall(c).name = c.name
<1>1. ParseCall(c).name = c.name
  BY DEF ParseCall
<1>2. ASSUME c.name = "constant", "const" \in DOMAIN ParseCall(c).args
      PROVE  DOMAIN ParseCall(c).args["const"] \in {{"string"}, {"number"}}
  BY <1>2, ArgumentFrom
<1> QED
  BY <1>1, <1>2 DEF IsCall

(* A sequence is a function over the positions up to its length.           *)
LEMMA SequenceIs ==
    ASSUME NEW s, s \in Seq(Range(s))
    PROVE  Len(s) \in Nat /\ DOMAIN s = 1..Len(s)
OBVIOUS

(* The chain of an entry with known names is a sequence of calls.          *)
LEMMA ChainParsed ==
    ASSUME NEW e, IsEntry(e), KnownNames(e)
    PROVE  /\ Len(Chain(e)) \in Nat /\ DOMAIN Chain(e) = 1..Len(Chain(e))
           /\ \A k \in 1..Len(Chain(e)) : IsCall(Chain(e)[k])
<1> DEFINE line == e.transform
<1>1. Len(line) \in Nat /\ DOMAIN line = 1..Len(line)
  <2>1. line \in Seq(Range(line))
    BY DEF IsEntry
  <2> QED
    BY <2>1, SequenceIs
<1>2. Chain(e) = [i \in 1..Len(line) |-> ParseCall(line[i])]
  BY <1>1 DEF Chain, ParseTransform
<1>3. Len(Chain(e)) = Len(line)
  BY <1>1, <1>2
<1>4. ASSUME NEW k \in 1..Len(line) PROVE IsCall(Chain(e)[k])
  <2>1. line[k] \in Range(line)
    BY <1>1 DEF Range
  <2>2. IsCall(ParseCall(line[k]))
    BY <2>1, CallParsed DEF IsEntry, KnownNames
  <2> QED
    BY <1>2, <2>2
<1> QED
  BY <1>1, <1>2, <1>3, <1>4

Resolves(other, s, chain) ==
    /\ other = ResolveValueMaps(s, chain) /\ Len(other) = Len(chain)
    /\ \A k \in 1..Len(chain) : other[k].name = chain[k].name /\ other[k].args = chain[k].args

(* Resolving its value maps changes neither name nor arguments of a call,  *)
(* nor the type it is taken to produce.                                    *)
LEMMA ChainResolved ==
    ASSUME NEW s, NEW chain, Len(chain) \in Nat, DOMAIN chain = 1..Len(chain),
           \A k \in 1..Len(chain) : IsCall(chain[k]),
           NEW other, other = ResolveValueMaps(s, chain)
    PROVE  IsChain(other) /\ Resolves(other, s, chain) /\ SameTypes(chain, other)
<1> DEFINE Map(k) == s.valueMaps[chain[k].args["map"]]
           Resolved(k) == [name |-> chain[k].name, args |-> chain[k].args, resolved |-> Map(k).pairs,
                           passthrough |-> Map(k).unmapped = "passthrough"]
<1>1. other = [k \in 1..Len(chain) |-> IF chain[k].name # "valueMap" THEN chain[k] ELSE Resolved(k)]
  BY DEF ResolveValueMaps
<1>2. Len(other) = Len(chain)
  BY <1>1
<1>3. ASSUME NEW k \in 1..Len(chain)
      PROVE  other[k].name = chain[k].name /\ other[k].args = chain[k].args
  <2>1. Resolved(k).name = chain[k].name /\ Resolved(k).args = chain[k].args
    OBVIOUS
  <2> HIDE DEF Resolved
  <2> QED
    BY <1>1, <2>1
<1>4. \A k \in 1..Len(chain) : \A type : TypeAfter(other[k], type) = TypeAfter(chain[k], type)
  BY <1>3 DEF TypeAfter
<1>5. IsChain(other)
  BY <1>2, <1>3 DEF IsChain, IsCall
<1> QED
  BY <1>2, <1>3, <1>4, <1>5 DEF Resolves, SameTypes

-----------------------------------------------------------------------------
(* What is known of a specification on its way.                            *)
Paths == {r.path : r \in ir}
CaseOf(n) == SynthesiseInstance(SameSeed(n))

(* The plan is that of a specification without errors.                     *)
Compiled ==
    /\ plan = BuildPlan(spec) /\ Disposition /\ ~Unknown
    /\ CompileErrors(spec, ir, canonicalTypes) = {}

(* The case went there and back; what it lost undeclared is on record.     *)
CasePassed(n) ==
    LET fwd == ForwardPlan(plan, CaseOf(n))
        rev == ReversePlan(plan, fwd.out)
    IN  /\ fwd.stopped = "" /\ rev.stopped = ""
        /\ n \notin undeclared => \A l \in Losses(plan, CaseOf(n), rev.out) : l.declared

(* An escalation is that of the walk of its run.                           *)
InstanceOf(run) == IF run = N THEN instance ELSE CaseOf(run)
EscalatedBy(x) ==
    LET fwd == ForwardPlan(plan, InstanceOf(x[1]))
    IN  /\ x[1] \in 0..N /\ (x[1] = N => stage = "applied")
        /\ \/ x[2] = "forward" /\ x[3] \in fwd.escalated
           \/ x[2] = "reverse" /\ fwd.stopped = "" /\ x[3] \in ReversePlan(plan, fwd.out).escalated

InConstants == ir \in Irs /\ spec \in Specs
PlanInv ==
    /\ stage = "compiling" => Disposition
    /\ stage \in {"testing", "passed", "applied"} => Compiled
    /\ escalations # {} => Compiled
SuiteInv ==
    /\ stage \in {"proposed", "compiling"} => seed = 0 /\ escalations = {}
    /\ seed \in 0..N /\ \A n \in 0..(seed - 1) : CasePassed(n)
    /\ stage \in {"passed", "applied"} => seed = N /\ undeclared = {}
EscalationInv == \A x \in escalations : EscalatedBy(x)
ApplyInv ==
    stage = "applied" =>
        /\ \E seeds \in [Paths -> Seeds] : instance = SynthesiseInstance(seeds)
        /\ forward = ForwardPlan(plan, instance)
        /\ back = IF forward.stopped = "" THEN ReversePlan(plan, forward.out) ELSE Nothing
        /\ Escalated(N, "forward", forward) \subseteq escalations

(* The inductive invariant.  None of the properties is inductive: each is   *)
(* about an instance and follows from what the compiler and the suite have *)
(* found, which the invariant carries along.                               *)
MappingInv == InConstants /\ PlanInv /\ SuiteInv /\ EscalationInv /\ ApplyInv

(* What a step takes over from its entry.                                  *)
LEMMA StepFields ==
    ASSUME NEW s, NEW e, IsEntry(e), NEW step, step = StepOf(s, e)
    PROVE  /\ step.disposed <=> Disposed(e)
           /\ step.region = e.region /\ step.weight = e.weight
           /\ step.onFailure \in Policies
           /\ ~Disposed(e) => /\ step.canonical = e.canonical /\ step.onFailure = OnFailure(e)
                              /\ step.chain = ResolveValueMaps(s, Chain(e))
<1>1. CASE Disposed(e)
  BY <1>1 DEF StepOf, Policies
<1>2. CASE ~Disposed(e)
  <2>1. OnFailure(e) \in Policies
    BY DEF IsEntry, OnFailure, Policies
  <2> QED
    BY <1>2, <2>1 DEF StepOf
<1> QED
  BY <1>1, <1>2

(* A step without a way back declares that it has none.                    *)
LEMMA StepLoss ==
    ASSUME NEW s, NEW e, NEW step, step = StepOf(s, e), ~Disposed(e), ~step.reversible
    PROVE  step.loss # ""
BY DEF StepOf

(* A compiled plan has one step for each entry, in their order.            *)
LEMMA PlanSteps ==
    ASSUME Compiled, InConstants
    PROVE  /\ Len(plan) \in Nat /\ Steps = 1..Len(plan)
           /\ \A i \in Steps : /\ plan[i].onFailure \in Policies
                               /\ spec.mappings[i] \in Range(spec.mappings) /\ IsEntry(spec.mappings[i])
                               /\ plan[i] = StepOf(spec, spec.mappings[i])
<1> DEFINE entries == spec.mappings
<1>1. IsSpecification(spec)
  BY MappingAssumption DEF InConstants
<1>2. Len(entries) \in Nat /\ DOMAIN entries = 1..Len(entries)
  <2>1. entries \in Seq(Range(entries))
    BY <1>1 DEF IsSpecification
  <2> QED
    BY <2>1, SequenceIs
<1>3. plan = [i \in 1..Len(entries) |-> StepOf(spec, entries[i])]
  BY <1>2 DEF Compiled, BuildPlan
<1>4. Len(plan) = Len(entries) /\ Steps = 1..Len(plan)
  BY <1>2, <1>3 DEF Steps
<1>5. ASSUME NEW i \in Steps
      PROVE  /\ entries[i] \in Range(entries) /\ IsEntry(entries[i])
             /\ plan[i] = StepOf(spec, entries[i]) /\ plan[i].onFailure \in Policies
  <2>1. entries[i] \in Range(entries)
    BY <1>2, <1>4 DEF Range
  <2>2. PICK step : step = plan[i]
    OBVIOUS
  <2>3. IsEntry(entries[i]) /\ step = StepOf(spec, entries[i])
    BY <1>1, <1>3, <1>4, <2>1, <2>2 DEF IsSpecification
  <2>4. step.onFailure \in Policies
    BY <2>3, StepFields
  <2> QED
    BY <2>1, <2>2, <2>3, <2>4
<1> QED
  BY <1>2, <1>4, <1>5

(* An entry that is not disposed of and compiled has known names and no    *)
(* error of its own: the compiler looked at it.                            *)
LEMMA EntryCompiled ==
    ASSUME Compiled, InConstants, NEW i \in Steps, ~plan[i].disposed,
           NEW e, e = spec.mappings[i]
    PROVE  /\ ~Disposed(e) /\ KnownNames(e) /\ IsEntry(e)
           /\ EntryErrors(spec, ir, canonicalTypes, e) = {}
<1>1. e \in Range(spec.mappings) /\ IsEntry(e) /\ plan[i] = StepOf(spec, e)
  BY PlanSteps
<1>2. ~Disposed(e)
  <2>1. PICK step : step = plan[i]
    OBVIOUS
  <2>2. step = StepOf(spec, e) /\ ~step.disposed
    BY <1>1, <2>1
  <2>3. step.disposed <=> Disposed(e)
    BY <1>1, <2>2, StepFields
  <2> QED
    BY <2>2, <2>3
<1>3. Parses(e.transform)
  BY <1>1, <1>2 DEF Compiled, CompileErrors
<1>4. KnownNames(e)
  BY <1>1, <1>2, <1>3 DEF Compiled, Unknown
<1>5. EntryErrors(spec, ir, canonicalTypes, e) = {}
  BY <1>1, <1>2, <1>3 DEF Compiled, CompileErrors
<1> QED
  BY <1>1, <1>2, <1>4, <1>5

(* What T2, T3 and T4 have found of an entry without errors.               *)
LEMMA NoErrors ==
    ASSUME NEW s, NEW r, NEW t, NEW e, EntryErrors(s, r, t, e) = {}
    PROVE  /\ ~WeightRule(e)
           /\ e.canonical \in DOMAIN t =>
                TypeCompatible(InferOutputType(Chain(e), SourceType(r, e.region)), t[e.canonical])
           /\ \A c \in Range(Chain(e)) : c.name = "valueMap" => MapErrors(s, r, e, c) = {}
BY DEF EntryErrors

(* A value map without errors exists; if it has no policy for other values *)
(* it lists every declared one.                                            *)
LEMMA MapDecides ==
    ASSUME NEW s, NEW r, NEW e, NEW c, MapErrors(s, r, e, c) = {}
    PROVE  /\ "map" \in DOMAIN c.args /\ c.args["map"] \in DOMAIN s.valueMaps
           /\ s.valueMaps[c.args["map"]].unmapped = "" =>
                DeclaredValues(r, e.region) \subseteq Column(s.valueMaps[c.args["map"]], 1)
BY DEF MapErrors, Arg, Unmapped

(* What a step of a compiled plan takes over from its entry.               *)
LEMMA StepCompiled ==
    ASSUME Compiled, InConstants, NEW i \in Steps, ~plan[i].disposed,
           NEW e, e = spec.mappings[i]
    PROVE  /\ plan[i].canonical = e.canonical /\ plan[i].region = e.region
           /\ plan[i].weight = e.weight /\ plan[i].onFailure = OnFailure(e)
           /\ plan[i].chain = ResolveValueMaps(spec, Chain(e))
<1>1. IsEntry(e) /\ plan[i] = StepOf(spec, e)
  BY PlanSteps
<1>2. ~Disposed(e)
  BY EntryCompiled
<1>3. PICK step : step = plan[i]
  OBVIOUS
<1>4. step = StepOf(spec, e)
  BY <1>1, <1>3
<1>5. /\ step.region = e.region /\ step.weight = e.weight
      /\ step.canonical = e.canonical /\ step.onFailure = OnFailure(e)
      /\ step.chain = ResolveValueMaps(spec, Chain(e))
  BY <1>1, <1>2, <1>4, StepFields
<1> QED
  BY <1>3, <1>5

(* A step of a compiled plan without a way back declares its loss.         *)
LEMMA LossCompiled ==
    ASSUME Compiled, InConstants, NEW i \in Steps, ~plan[i].disposed, ~plan[i].reversible
    PROVE  plan[i].loss # ""
<1>1. PICK e : e = spec.mappings[i]
  OBVIOUS
<1>2. plan[i] = StepOf(spec, e) /\ ~Disposed(e)
  BY <1>1, PlanSteps, EntryCompiled
<1> QED
  BY <1>2, StepLoss

(* The chain of a step is that of its entry with the value maps resolved.  *)
LEMMA ChainCompiled ==
    ASSUME Compiled, InConstants, NEW i \in Steps, ~plan[i].disposed,
           NEW e, e = spec.mappings[i]
    PROVE  /\ IsChain(plan[i].chain) /\ Resolves(plan[i].chain, spec, Chain(e))
           /\ SameTypes(Chain(e), plan[i].chain)
           /\ DOMAIN Chain(e) = 1..Len(plan[i].chain)
<1>1. IsEntry(e) /\ KnownNames(e)
  BY EntryCompiled
<1>2. PICK chain : chain = Chain(e)
  OBVIOUS
<1>3. PICK other : other = plan[i].chain
  OBVIOUS
<1>4. other = ResolveValueMaps(spec, chain)
  BY <1>2, <1>3, StepCompiled
<1>5. /\ Len(chain) \in Nat /\ DOMAIN chain = 1..Len(chain)
      /\ \A k \in 1..Len(chain) : IsCall(chain[k])
  BY <1>1, <1>2, ChainParsed
<1>6. IsChain(other) /\ Resolves(other, spec, chain) /\ SameTypes(chain, other)
  BY <1>4, <1>5, ChainResolved
<1>7. DOMAIN chain = 1..Len(other)
  BY <1>5, <1>6 DEF SameTypes
<1> QED
  BY <1>2, <1>3, <1>6, <1>7

(* A type that is fixed is the type the compiler checked.                  *)
LEMMA FixedCompiled ==
    ASSUME Compiled, InConstants, NEW i \in Steps, ~plan[i].disposed,
           NEW e, e = spec.mappings[i], NEW none, NEW source,
           InferOutputType(plan[i].chain, none) # none
    PROVE  InferOutputType(Chain(e), source) = InferOutputType(plan[i].chain, none)
<1>1. Len(plan[i].chain) \in Nat /\ SameTypes(Chain(e), plan[i].chain)
  BY ChainCompiled DEF IsChain
<1> QED
  BY <1>1, FixedType

(* A synthesised value is data.                                            *)
LEMMA SynthesisedData ==
    ASSUME NEW r, NEW n
    PROVE  IsData(SynthValue(r, n)) /\ SynthValue(r, n) # Null
<1>1. (\E x : SynthValue(r, n) = Str(x)) \/ (\E x : SynthValue(r, n) = [number |-> x])
  BY DEF SynthValue
<1>2. IsData(SynthValue(r, n))
  BY <1>1, MadeBy DEF Made
<1> QED
  BY <1>2, Distinct3

(* An instance that is synthesised holds, for each attribute of the        *)
(* contract, the value of its seed.                                        *)
LEMMA Synthesised ==
    ASSUME InConstants, NEW seeds, NEW in, in = SynthesiseInstance(seeds)
    PROVE  /\ DOMAIN in = Paths
           /\ \A r \in ir : in[r.path] = SynthValue(r, seeds[r.path])
           /\ \A r \in ir : RecordAt(ir, r.path) = {r}
<1>1. IsContract(ir)
  BY MappingAssumption DEF InConstants
<1>2. ASSUME NEW r \in ir PROVE in[r.path] = SynthValue(r, seeds[r.path])
  <2>1. (CHOOSE s \in ir : s.path = r.path) = r
    BY <1>1 DEF IsContract
  <2> QED
    BY <2>1 DEF SynthesiseInstance
<1>3. DOMAIN in = Paths
  BY DEF SynthesiseInstance, Paths
<1>4. \A r \in ir : RecordAt(ir, r.path) = {r}
  BY <1>1 DEF IsContract, RecordAt
<1> QED
  BY <1>2, <1>3, <1>4

(* Every attribute has a path, and a sequence of declared values.          *)
LEMMA PathsNamed ==
    ASSUME InConstants
    PROVE  \A r \in ir : r.path # "" /\ r.enum \in Seq(Range(r.enum))
BY MappingAssumption DEF InConstants, IsContract

(* What is read from them is data, or nothing.                             *)
LEMMA InstanceRead ==
    ASSUME InConstants, NEW seeds, NEW in, in = SynthesiseInstance(seeds), NEW q
    PROVE  /\ IsValue(ReadPath(in, q)) /\ ReadPath(in, q) \notin {Fail, Crash}
           /\ q \in DOMAIN in => ReadPath(in, q) # Null /\ q # ""
<1>1. CASE q \in DOMAIN in
  <2>1. PICK r \in ir : q = r.path
    BY <1>1, Synthesised DEF Paths
  <2>2. in[q] = SynthValue(r, seeds[q])
    BY <2>1, Synthesised
  <2>3. IsData(in[q]) /\ in[q] # Null
    BY <2>2, SynthesisedData
  <2>4. q # ""
    BY <2>1, PathsNamed
  <2> QED
    BY <1>1, <2>3, <2>4, Distinct3 DEF ReadPath, IsValue
<1>2. CASE q \notin DOMAIN in
  BY <1>2, Distinct3 DEF ReadPath, IsValue
<1> QED
  BY <1>1, <1>2

(* What a step makes of an instance of the region.                         *)
LEMMA ProducedForward ==
    ASSUME Compiled, InConstants, NEW i \in Steps, ~plan[i].disposed,
           NEW seeds, NEW in, in = SynthesiseInstance(seeds),
           NEW v, v = Produced("forward", plan[i], in)
    PROVE  /\ IsValue(v) /\ Fits(v, InferOutputType(plan[i].chain, ""))
           /\ plan[i].region \in DOMAIN in => v # Null
<1>1. PICK x : x = ReadPath(in, plan[i].region)
  OBVIOUS
<1>2. PICK chain : chain = plan[i].chain
  OBVIOUS
<1>3. IsValue(x) /\ (plan[i].region \in DOMAIN in => x # Null)
  BY <1>1, InstanceRead
<1>4. v = Through("forward", chain, x)
  BY <1>1, <1>2 DEF Produced, Source
<1>5. IsChain(chain)
  BY <1>2, ChainCompiled
<1>6. IsValue(v) /\ Fits(v, InferOutputType(chain, "")) /\ (x # Null => v # Null)
  BY <1>3, <1>4, <1>5, ForwardThrough
<1> QED
  BY <1>2, <1>3, <1>6

(* What walks over a plan leave.                                           *)
LEMMA WalkOfPlan ==
    ASSUME Compiled, InConstants, NEW dir, NEW in
    PROVE  WalkedTo(Walk(dir, plan, in), dir, plan, in, Len(plan))
BY PlanSteps, WalkIs

(* A value of a type is of every type that one widens to.                  *)
LEMMA KindsWiden ==
    ASSUME NEW v, NEW type, type \in KindOf(v), NEW expected, <<type, expected>> \in WideningPairs
    PROVE  expected \in KindOf(v)
BY DEF KindOf, WideningPairs

(* T3 compared the type a chain fixes with the canonical one.              *)
LEMMA TypeCompiled ==
    ASSUME Compiled, InConstants, NEW i \in Steps, ~plan[i].disposed,
           NEW c \in DOMAIN canonicalTypes, plan[i].canonical = c,
           NEW none, NEW type, type = InferOutputType(plan[i].chain, none), type # none
    PROVE  TypeCompatible(type, canonicalTypes[c])
<1>1. PICK e : e = spec.mappings[i]
  OBVIOUS
<1>2. PICK source : source = SourceType(ir, e.region)
  OBVIOUS
<1>3. e.canonical = c
  BY <1>1, StepCompiled
<1>4. EntryErrors(spec, ir, canonicalTypes, e) = {}
  BY <1>1, EntryCompiled
<1>5. TypeCompatible(InferOutputType(Chain(e), source), canonicalTypes[c])
  BY <1>2, <1>3, <1>4, NoErrors
<1>6. InferOutputType(Chain(e), source) = type
  BY <1>1, FixedCompiled
<1> QED
  BY <1>5, <1>6

(* What lies at a canonical path is what a step that targets it produced,  *)
(* or null; the type the step fixes is the one T3 saw.                     *)
LEMMA TypesHold ==
    ASSUME MappingInv
    PROVE  TypeInferenceSound
<1> SUFFICES ASSUME stage = "applied", NEW c \in DOMAIN canonicalTypes \cap DOMAIN forward.out,
                    \A i \in Writers(c) : InferOutputType(plan[i].chain, "") # "",
                    forward.out[c] # Null
             PROVE  canonicalTypes[c] \in KindOf(forward.out[c])
  BY DEF TypeInferenceSound
<1>1. Compiled /\ InConstants /\ Steps = 1..Len(plan)
  BY PlanSteps DEF MappingInv, PlanInv
<1>2. PICK seeds : instance = SynthesiseInstance(seeds)
  BY DEF MappingInv, ApplyInv
<1>3. forward = Walk("forward", plan, instance)
  BY DEF MappingInv, ApplyInv, ForwardPlan
<1>4. PICK i \in Steps : Target("forward", plan[i]) = c /\ Leaves("forward", plan[i], instance, forward.out[c])
  BY <1>1, <1>3, WalkOfPlan DEF WalkedTo
<1>5. PICK v : v = forward.out[c]
  OBVIOUS
<1>6. ~plan[i].disposed /\ plan[i].canonical = c
  BY <1>4 DEF Leaves, Taken, Target
<1>7. v = Produced("forward", plan[i], instance) /\ v \notin {Null, Fail, Crash}
  BY <1>4, <1>5 DEF Leaves
<1> DEFINE type == InferOutputType(plan[i].chain, "")
<1>8. type # ""
  BY <1>6 DEF Writers
<1>9. type \in KindOf(v)
  <2>1. Fits(v, type)
    BY <1>1, <1>2, <1>6, <1>7, ProducedForward
  <2> QED
    BY <1>7, <1>8, <2>1 DEF Fits
<1>10. type = canonicalTypes[c] \/ <<type, canonicalTypes[c]>> \in WideningPairs
  <2>1. PICK none : none = ""
    OBVIOUS
  <2>2. TypeCompatible(type, canonicalTypes[c])
    BY <1>1, <1>6, <1>8, <2>1, TypeCompiled
  <2> QED
    BY <1>8, <2>2 DEF TypeCompatible
<1> QED
  BY <1>5, <1>9, <1>10, KindsWiden

(* What a step alone at its paths leaves there.                            *)
LEMMA ForwardOutcome ==
    ASSUME Compiled, InConstants, NEW i \in Steps, ~plan[i].disposed, Writers(plan[i].canonical) = {i},
           NEW in, NEW w, w = Walk("forward", plan, in), Unstopped(w)
    PROVE  ReadPath(w.out, plan[i].canonical) = Outcome(plan[i].canonical, Produced("forward", plan[i], in))
<1>1. IsPlan(plan) /\ Steps = 1..Len(plan)
  BY PlanSteps DEF IsPlan
<1>2. TakenAlone("forward", plan, i) /\ Target("forward", plan[i]) = plan[i].canonical
  BY <1>1 DEF Taken, Target, Writers, TakenAlone
<1> QED
  BY <1>1, <1>2, StepAlone

(* The same on the way back.                                               *)
LEMMA ReverseOutcome ==
    ASSUME Compiled, InConstants, NEW i \in Steps, ~plan[i].disposed, Alone(i), plan[i].reversible,
           NEW in, NEW w, w = Walk("reverse", plan, in), Unstopped(w)
    PROVE  ReadPath(w.out, plan[i].region) = Outcome(plan[i].region, Produced("reverse", plan[i], in))
<1>1. IsPlan(plan) /\ Steps = 1..Len(plan)
  BY PlanSteps DEF IsPlan
<1>2. TakenAlone("reverse", plan, i) /\ Target("reverse", plan[i]) = plan[i].region
  BY <1>1 DEF Taken, Target, Alone, TakenAlone
<1> QED
  BY <1>1, <1>2, StepAlone

(* The case of the suite in which nothing is lost undeclared.              *)
LEMMA CaseWalks ==
    ASSUME MappingInv, stage \in {"passed", "applied"}, NEW n \in 0..(N - 1),
           NEW fwd, fwd = Walk("forward", plan, CaseOf(n)), NEW rev, rev = Walk("reverse", plan, fwd.out)
    PROVE  /\ Unstopped(fwd) /\ Unstopped(rev)
           /\ \A l \in Losses(plan, CaseOf(n), rev.out) : l.declared
<1>1. CasePassed(n) /\ n \notin undeclared
  BY DEF MappingInv, SuiteInv
<1> QED
  BY <1>1 DEF CasePassed, ForwardPlan, ReversePlan, Unstopped

(* What is not declared lost has come back.                                *)
LEMMA Returned ==
    ASSUME NEW p, NEW in, NEW out, NEW i \in DOMAIN p, ~p[i].disposed, p[i].region # "", p[i].loss = "",
           \A l \in Losses(p, in, out) : l.declared
    PROVE  ReadPath(in, p[i].region) = ReadPath(out, p[i].region)
<1> SUFFICES ASSUME ReadPath(in, p[i].region) # ReadPath(out, p[i].region) PROVE FALSE
  OBVIOUS
<1> DEFINE l == [path |-> p[i].region, weight |-> p[i].weight, declared |-> p[i].loss # ""]
<1>1. l \in Losses(p, in, out)
  BY DEF Losses
<1>2. ~l.declared
  OBVIOUS
<1> QED
  BY <1>1, <1>2

(* A suite has a first case.                                               *)
LEMMA FirstCase == N \in Nat \ {0} /\ 0 \in 0..(N - 1)
<1>1. N \in Nat \ {0}
  BY MappingAssumption
<1> QED
  BY <1>1

(* An attribute that is transformed to no path is one whose loss is        *)
(* declared: it does not come back.                                        *)
LEMMA NothingKept ==
    ASSUME MappingInv, stage = "applied", NEW i \in Steps, ~plan[i].disposed, Alone(i),
           plan[i].canonical = "", plan[i].region \in Paths
    PROVE  plan[i].loss # ""
<1> SUFFICES ASSUME plan[i].loss = "" PROVE FALSE
  OBVIOUS
<1>1. Compiled /\ InConstants /\ 0 \in 0..(N - 1)
  <2>1. Compiled /\ InConstants
    BY DEF MappingInv, PlanInv
  <2>2. 0 \in 0..(N - 1)
    BY FirstCase
  <2> QED
    BY <2>1, <2>2
<1>2. plan[i].reversible
  BY <1>1, LossCompiled
<1>3. PICK in : in = CaseOf(0)
  OBVIOUS
<1>4. PICK fwd : fwd = Walk("forward", plan, in)
  OBVIOUS
<1>5. PICK rev : rev = Walk("reverse", plan, fwd.out)
  OBVIOUS
<1>6. /\ Unstopped(fwd) /\ Unstopped(rev)
      /\ \A l \in Losses(plan, in, rev.out) : l.declared
  BY <1>1, <1>3, <1>4, <1>5, CaseWalks
<1>7. ReadPath(in, plan[i].region) # Null /\ plan[i].region # ""
  <2>1. in = SynthesiseInstance(SameSeed(0)) /\ DOMAIN in = Paths
    BY <1>1, <1>3, Synthesised DEF CaseOf
  <2> QED
    BY <1>1, <2>1, InstanceRead
<1>8. ReadPath(fwd.out, plan[i].canonical) = Null
  <2>1. ReadPath(fwd.out, plan[i].canonical) =
          Outcome(plan[i].canonical, Produced("forward", plan[i], in))
    BY <1>1, <1>4, <1>6, ForwardOutcome DEF Alone
  <2> QED
    BY <2>1 DEF Outcome
<1>9. Produced("reverse", plan[i], fwd.out) \in {Null, Fail, Crash}
  <2>1. Len(plan[i].chain) \in Nat
    BY <1>1, ChainCompiled DEF IsChain
  <2>2. Produced("reverse", plan[i], fwd.out) = Through("reverse", plan[i].chain, Null)
    BY <1>8 DEF Produced, Source
  <2> QED
    BY <2>1, <2>2, NothingThrough
<1>10. ReadPath(rev.out, plan[i].region) = Null
  <2>1. ReadPath(rev.out, plan[i].region) =
          Outcome(plan[i].region, Produced("reverse", plan[i], fwd.out))
    BY <1>1, <1>2, <1>5, <1>6, ReverseOutcome
  <2> QED
    BY <1>9, <2>1 DEF Outcome
<1>11. ReadPath(in, plan[i].region) = ReadPath(rev.out, plan[i].region)
  BY <1>6, <1>7, Returned DEF Steps
<1> QED
  BY <1>7, <1>10, <1>11

(* Of a failing step T2 has excluded the silent policies; one that does    *)
(* not fail has something to write, and if it writes nowhere the first     *)
(* case of the suite has already lost it.                                  *)
LEMMA LossesHeard ==
    ASSUME MappingInv
    PROVE  NoSilentLoss
<1> SUFFICES ASSUME stage = "applied", forward.stopped = "", NEW i \in Steps, ~plan[i].disposed,
                    plan[i].weight >= CRITICAL_WEIGHT, plan[i].region \in DOMAIN instance, Alone(i)
             PROVE  \/ <<N, "forward", i>> \in escalations
                    \/ ReadPath(forward.out, plan[i].canonical) # Null
                    \/ plan[i].canonical = "" /\ plan[i].loss # ""
  BY DEF NoSilentLoss
<1>1. Compiled /\ InConstants /\ Steps = 1..Len(plan)
  BY PlanSteps DEF MappingInv, PlanInv
<1>2. PICK seeds : instance = SynthesiseInstance(seeds)
  BY DEF MappingInv, ApplyInv
<1>3. forward = Walk("forward", plan, instance) /\ Escalated(N, "forward", forward) \subseteq escalations
  BY DEF MappingInv, ApplyInv, ForwardPlan
<1>4. PICK v : v = Produced("forward", plan[i], instance)
  OBVIOUS
<1>5. v # Null
  BY <1>1, <1>2, <1>4, ProducedForward
<1>6. WalkedTo(forward, "forward", plan, instance, Len(plan)) /\ Taken("forward", plan[i])
  BY <1>1, <1>3, WalkOfPlan DEF Taken
<1>7. ~Halts("forward", plan[i], instance)
  BY <1>1, <1>6 DEF WalkedTo
<1>8. CASE v = Fail
  <2>1. plan[i].onFailure \in Policies /\ plan[i].onFailure \notin SilentFailures
    <3>1. PICK e : e = spec.mappings[i]
      OBVIOUS
    <3>2. EntryErrors(spec, ir, canonicalTypes, e) = {}
      BY <1>1, <3>1, EntryCompiled
    <3>3. ~WeightRule(e)
      BY <3>2, NoErrors
    <3>4. plan[i].weight = e.weight /\ plan[i].onFailure = OnFailure(e)
      BY <1>1, <3>1, StepCompiled
    <3> QED
      BY <1>1, <3>3, <3>4, PlanSteps DEF WeightRule
  <2>2. plan[i].onFailure = "escalate"
    BY <1>4, <1>6, <1>7, <1>8, <2>1 DEF Halts, Policies, SilentFailures
  <2>3. Escalates("forward", plan[i], instance)
    BY <1>4, <1>6, <1>8, <2>2 DEF Escalates
  <2>4. i \in forward.escalated
    BY <1>1, <1>6, <2>3 DEF WalkedTo
  <2> QED
    BY <1>3, <2>4 DEF Escalated
<1>9. CASE v # Fail /\ plan[i].canonical # ""
  <2>1. v # Crash
    BY <1>4, <1>6, <1>7 DEF Halts
  <2>2. ReadPath(forward.out, plan[i].canonical) = Outcome(plan[i].canonical, v)
    <3>1. Unstopped(forward) /\ Writers(plan[i].canonical) = {i}
      BY DEF Unstopped, Alone
    <3> QED
      BY <1>1, <1>3, <1>4, <3>1, ForwardOutcome
  <2> QED
    BY <1>5, <1>9, <2>1, <2>2 DEF Outcome
<1>10. CASE plan[i].canonical = ""
  <2>1. plan[i].region \in Paths
    BY <1>1, <1>2, Synthesised
  <2> QED
    BY <1>10, <2>1, NothingKept
<1> QED
  BY <1>8, <1>9, <1>10

(* A value map decides on what it lists.                                   *)
Listed(pairs, i, w) == \E k \in DOMAIN pairs : pairs[k][i] = w
Found(pairs, i, v) == \E k \in DOMAIN pairs : v = Str(pairs[k][i])
(* A value that is listed is looked up to one of its counterparts.         *)
LEMMA LookupHits ==
    ASSUME NEW pairs, pairs \in Seq(Range(pairs)), NEW from, NEW to, NEW w, NEW passthrough,
           Listed(pairs, from, w)
    PROVE  Found(pairs, to, Lookup(pairs, from, to, Str(w), passthrough))
<1> DEFINE hits == {k \in DOMAIN pairs : pairs[k][from] = w}
<1>1. Len(pairs) \in Nat /\ DOMAIN pairs = 1..Len(pairs)
  BY SequenceIs
<1>2. hits \in SUBSET (1..Len(pairs)) /\ hits # {}
  BY <1>1 DEF Listed
<1>3. Max(hits) \in hits
  <2> HIDE DEF hits
  <2> QED
    BY <1>1, <1>2, LastPosition
<1>4. Is(Str(w), "string") /\ Str(w).string = w
  BY DEF Str, Is
<1>5. {k \in DOMAIN pairs : Is(Str(w), "string") /\ pairs[k][from] = Str(w).string} = hits
  BY <1>4
<1>6. Lookup(pairs, from, to, Str(w), passthrough) = Str(pairs[Max(hits)][to])
  <2> HIDE DEF hits
  <2> QED
    BY <1>2, <1>5 DEF Lookup
<1>7. Max(hits) \in DOMAIN pairs
  BY <1>3
<1> HIDE DEF hits
<1> QED
  BY <1>6, <1>7 DEF Found

(* A chain of one call is that call.                                       *)
LEMMA ThroughOne ==
    ASSUME NEW dir, NEW chain, Len(chain) = 1, NEW v
    PROVE  Through(dir, chain, v) = ApplyCall(dir, chain[1], v)
<1>1. PICK at : Applied(at, dir, chain, v)
  BY ThroughSteps
<1>2. CallAt(dir, chain, 1) = chain[1]
  BY DEF CallAt
<1>3. at[1] = ApplyCall(dir, CallAt(dir, chain, 1), at[0]) /\ at[0] = v /\ at[1] = Through(dir, chain, v)
  BY <1>1 DEF Applied
<1> QED
  BY <1>2, <1>3

(* A resolved call of a value map, forward and back.                       *)
LEMMA MapApplied ==
    ASSUME NEW dir \in {"forward", "reverse"}, NEW call, call.name = "valueMap", "map" \in DOMAIN call.args,
           NEW v, v \notin {Fail, Crash}
    PROVE  ApplyCall(dir, call, v) =
             IF dir = "forward" THEN Lookup(call.resolved, 1, 2, v, call.passthrough)
             ELSE Lookup(call.resolved, 2, 1, v, call.passthrough)
<1>1. TRANSFORMS["valueMap"].requires \subseteq DOMAIN call.args
  BY DEF TRANSFORMS, T
<1> QED
  BY <1>1 DEF ApplyCall, ForwardOf, ReverseOf

(* A resolved call holds the pairs of its map.                             *)
LEMMA ResolvedCall ==
    ASSUME NEW s, NEW chain, DOMAIN chain = 1..1, chain[1].name = "valueMap", NEW other, other = ResolveValueMaps(s, chain)
    PROVE  other[1].resolved = s.valueMaps[chain[1].args["map"]].pairs
<1> DEFINE map == s.valueMaps[chain[1].args["map"]]
           call == [name |-> chain[1].name, args |-> chain[1].args, resolved |-> map.pairs,
                    passthrough |-> map.unmapped = "passthrough"]
<1>1. other[1] = call
  BY DEF ResolveValueMaps
<1>2. call.resolved = map.pairs
  OBVIOUS
<1> QED
  BY <1>1, <1>2

(* A text is none of the failures.                                         *)
LEMMA StrIs ==
    ASSUME NEW x
    PROVE  Str(x) \notin {Null, Fail, Crash}
<1>1. IsData(Str(x))
  BY MadeBy DEF Made
<1> QED
  BY <1>1, Distinct3

(* The step of a value map on its own that has no policy for other values. *)
MapAlone(i) ==
    /\ ~plan[i].disposed /\ Len(plan[i].chain) = 1 /\ plan[i].chain[1].name = "valueMap"
    /\ spec.valueMaps[plan[i].chain[1].args["map"]].unmapped = ""
Pairs(i) == spec.valueMaps[plan[i].chain[1].args["map"]].pairs

(* A step of one value map looks values up in pairs that list all the      *)
(* declared ones.                                                          *)
LEMMA MapStep ==
    ASSUME Compiled, InConstants, NEW i \in Steps, MapAlone(i)
    PROVE  /\ Pairs(i) \in Seq(Range(Pairs(i)))
           /\ \A w \in DeclaredValues(ir, plan[i].region) : Listed(Pairs(i), 1, w)
           /\ \A dir \in {"forward", "reverse"} : \A v : v \notin {Fail, Crash} =>
                \E passthrough : Through(dir, plan[i].chain, v) =
                  IF dir = "forward" THEN Lookup(Pairs(i), 1, 2, v, passthrough)
                  ELSE Lookup(Pairs(i), 2, 1, v, passthrough)
<1> DEFINE chain == plan[i].chain
<1>1. PICK e : e = spec.mappings[i]
  OBVIOUS
<1>2. PICK call : call = chain[1]
  OBVIOUS
<1>3. /\ Resolves(chain, spec, Chain(e)) /\ DOMAIN Chain(e) = 1..Len(chain)
      /\ Len(chain) = 1 /\ call.name = "valueMap"
  BY <1>1, <1>2, ChainCompiled DEF MapAlone
<1>4. /\ Chain(e)[1].name = "valueMap" /\ Chain(e)[1].args = call.args
      /\ Chain(e)[1] \in Range(Chain(e))
  BY <1>2, <1>3 DEF Resolves, Range
<1>5. EntryErrors(spec, ir, canonicalTypes, e) = {} /\ plan[i].region = e.region
  BY <1>1, EntryCompiled, StepCompiled DEF MapAlone
<1>6. MapErrors(spec, ir, e, Chain(e)[1]) = {}
  BY <1>4, <1>5, NoErrors
<1>7. /\ "map" \in DOMAIN call.args /\ call.args["map"] \in DOMAIN spec.valueMaps
      /\ DeclaredValues(ir, e.region) \subseteq Column(spec.valueMaps[call.args["map"]], 1)
  BY <1>2, <1>4, <1>6, MapDecides DEF MapAlone
<1>8. Pairs(i) = spec.valueMaps[call.args["map"]].pairs
  BY <1>2 DEF Pairs
<1>9. call.resolved = Pairs(i)
  BY <1>2, <1>3, <1>4, <1>8, ResolvedCall DEF Resolves
<1>10. Pairs(i) \in Seq(Range(Pairs(i)))
  <2>1. IsSpecification(spec)
    BY MappingAssumption DEF InConstants
  <2> QED
    BY <1>7, <1>8, <2>1 DEF IsSpecification
<1>11. \A w \in DeclaredValues(ir, plan[i].region) : Listed(Pairs(i), 1, w)
  BY <1>5, <1>7, <1>8 DEF Column, Listed
<1>12. ASSUME NEW dir \in {"forward", "reverse"}, NEW v, v \notin {Fail, Crash}
       PROVE  \E passthrough : Through(dir, chain, v) =
                IF dir = "forward" THEN Lookup(Pairs(i), 1, 2, v, passthrough)
                ELSE Lookup(Pairs(i), 2, 1, v, passthrough)
  <2>1. Through(dir, chain, v) = ApplyCall(dir, call, v)
    BY <1>2, <1>3, ThroughOne
  <2>2. ApplyCall(dir, call, v) =
          IF dir = "forward" THEN Lookup(Pairs(i), 1, 2, v, call.passthrough)
          ELSE Lookup(Pairs(i), 2, 1, v, call.passthrough)
    BY <1>3, <1>7, <1>9, <1>12, MapApplied
  <2> QED
    BY <2>1, <2>2
<1> QED
  BY <1>10, <1>11, <1>12

(* What the contract lists, an instance of it holds.                       *)
LEMMA Within ==
    ASSUME NEW n \in Nat, NEW m \in Nat \ {0}
    PROVE  (n % m) + 1 \in 1..m
OBVIOUS

(* The value of an enumerated attribute is one of those declared.          *)
LEMMA EnumeratedValue ==
    ASSUME InConstants, NEW r \in ir, r.enum # <<>>, NEW n \in Nat
    PROVE  \E w \in Range(r.enum) : SynthValue(r, n) = Str(w)
<1>1. Len(r.enum) \in Nat /\ DOMAIN r.enum = 1..Len(r.enum)
  BY PathsNamed, SequenceIs
<1>2. Len(r.enum) # 0
  <2>1. r.enum \in Seq(Range(r.enum))
    BY PathsNamed
  <2> QED
    BY <2>1
<1>3. (n % Len(r.enum)) + 1 \in DOMAIN r.enum
  BY <1>1, <1>2, Within
<1>4. SynthValue(r, n) = Str(r.enum[(n % Len(r.enum)) + 1])
  BY DEF SynthValue
<1> QED
  BY <1>3, <1>4 DEF Range

(* Where values are declared, one of them is read.                         *)
LEMMA DeclaredRead ==
    ASSUME InConstants, NEW seeds \in [Paths -> Nat], NEW in, in = SynthesiseInstance(seeds),
           NEW q, DeclaredValues(ir, q) # {}
    PROVE  \E w \in DeclaredValues(ir, q) : ReadPath(in, q) = Str(w)
<1>1. PICK r \in ir : r.path = q /\ Range(r.enum) # {}
  BY DEF DeclaredValues, RecordAt
<1>2. r.enum # <<>>
  BY <1>1 DEF Range
<1>3. seeds[q] \in Nat /\ q \in Paths
  BY <1>1 DEF Paths
<1>4. PICK w \in Range(r.enum) : SynthValue(r, seeds[q]) = Str(w)
  BY <1>2, <1>3, EnumeratedValue
<1>5. q \in DOMAIN in /\ in[q] = SynthValue(r, seeds[q])
  BY <1>1, <1>3, Synthesised
<1>6. w \in DeclaredValues(ir, q)
  BY <1>1, <1>4 DEF DeclaredValues, RecordAt
<1> QED
  BY <1>4, <1>5, <1>6 DEF ReadPath

(* The map finds what it reads on the way there...                         *)
LEMMA MapForward ==
    ASSUME Compiled, InConstants, NEW i \in Steps, MapAlone(i),
           NEW seeds \in [Paths -> Nat], NEW in, in = SynthesiseInstance(seeds),
           DeclaredValues(ir, plan[i].region) # {}
    PROVE  Found(Pairs(i), 2, Produced("forward", plan[i], in))
<1>1. PICK w \in DeclaredValues(ir, plan[i].region) : ReadPath(in, plan[i].region) = Str(w)
  BY DeclaredRead
<1>2. Listed(Pairs(i), 1, w)
  BY <1>1, MapStep
<1>3. Str(w) \notin {Fail, Crash}
  BY StrIs
<1>4. PICK passthrough : Through("forward", plan[i].chain, Str(w)) = Lookup(Pairs(i), 1, 2, Str(w), passthrough)
  BY <1>3, MapStep
<1>5. Pairs(i) \in Seq(Range(Pairs(i)))
  BY MapStep
<1>6. Found(Pairs(i), 2, Lookup(Pairs(i), 1, 2, Str(w), passthrough))
  BY <1>2, <1>5, LookupHits
<1>7. Produced("forward", plan[i], in) = Through("forward", plan[i].chain, Str(w))
  BY <1>1 DEF Produced, Source
<1> QED
  BY <1>4, <1>6, <1>7

(* ... and finds on the way back what it wrote.                            *)
LEMMA MapReverse ==
    ASSUME Compiled, InConstants, NEW i \in Steps, MapAlone(i), NEW out,
           Found(Pairs(i), 2, ReadPath(out, plan[i].canonical))
    PROVE  \E w : Produced("reverse", plan[i], out) = Str(w)
<1>1. PICK w : ReadPath(out, plan[i].canonical) = Str(w) /\ Listed(Pairs(i), 2, w)
  BY DEF Found, Listed
<1>2. Str(w) \notin {Fail, Crash}
  BY StrIs
<1>3. PICK passthrough : Through("reverse", plan[i].chain, Str(w)) = Lookup(Pairs(i), 2, 1, Str(w), passthrough)
  BY <1>2, MapStep
<1>4. Pairs(i) \in Seq(Range(Pairs(i)))
  BY MapStep
<1>5. Found(Pairs(i), 1, Lookup(Pairs(i), 2, 1, Str(w), passthrough))
  BY <1>1, <1>4, LookupHits
<1>6. Produced("reverse", plan[i], out) = Through("reverse", plan[i].chain, Str(w))
  BY <1>1 DEF Produced, Source
<1> QED
  BY <1>3, <1>5, <1>6 DEF Found

(* Every run is one on a synthesised instance, the last one included.      *)
LEMMA RunSynthesised ==
    ASSUME MappingInv, NEW run \in 0..N, run = N => stage = "applied"
    PROVE  \E seeds \in [Paths -> Nat] : InstanceOf(run) = SynthesiseInstance(seeds)
<1>1. CASE run = N
  <2>1. PICK seeds \in [Paths -> Seeds] : instance = SynthesiseInstance(seeds)
    BY <1>1 DEF MappingInv, ApplyInv
  <2>2. seeds \in [Paths -> Nat]
    BY MappingAssumption
  <2> QED
    BY <1>1, <2>1, <2>2 DEF InstanceOf
<1>2. CASE run # N
  <2>1. SameSeed(run) \in [Paths -> Nat]
    BY FirstCase DEF SameSeed, Paths
  <2> QED
    BY <1>2, <2>1 DEF InstanceOf, CaseOf
<1> QED
  BY <1>1, <1>2

(* An escalation means a step that failed on a synthesised instance; a map *)
(* that T4 let through fails on none.                                      *)
LEMMA MapsDecide ==
    ASSUME MappingInv
    PROVE  CompiledMapsDecide
<1> SUFFICES ASSUME NEW x \in escalations, Len(plan[x[3]].chain) = 1, plan[x[3]].chain[1].name = "valueMap",
                    spec.valueMaps[plan[x[3]].chain[1].args["map"]].unmapped = "",
                    DeclaredValues(ir, plan[x[3]].region) # {}, Alone(x[3]),
                    x[2] = "forward" \/ plan[x[3]].canonical # ""
             PROVE  FALSE
  BY DEF CompiledMapsDecide
<1>1. Compiled /\ InConstants /\ Steps = 1..Len(plan)
  BY PlanSteps DEF MappingInv, PlanInv
<1>2. EscalatedBy(x)
  BY DEF MappingInv, EscalationInv
<1>3. PICK in : in = InstanceOf(x[1])
  OBVIOUS
<1>4. PICK fwd : fwd = Walk("forward", plan, in)
  OBVIOUS
<1>5. PICK i : i = x[3]
  OBVIOUS
<1>6. /\ x[1] \in 0..N /\ (x[1] = N => stage = "applied")
      /\ \/ x[2] = "forward" /\ i \in fwd.escalated
         \/ x[2] = "reverse" /\ Unstopped(fwd) /\ i \in Walk("reverse", plan, fwd.out).escalated
  BY <1>2, <1>3, <1>4, <1>5 DEF EscalatedBy, ForwardPlan, ReversePlan, Unstopped
<1>7. PICK seeds \in [Paths -> Nat] : in = SynthesiseInstance(seeds)
  BY <1>3, <1>6, RunSynthesised
<1>8. /\ i \in Steps /\ (x[2] = "forward" => Escalates("forward", plan[i], in))
      /\ x[2] = "reverse" => Escalates("reverse", plan[i], fwd.out)
  BY <1>1, <1>4, <1>6, WalkOfPlan DEF WalkedTo
<1>9. MapAlone(i)
  <2>1. ~plan[i].disposed
    BY <1>6, <1>8 DEF Escalates, Taken
  <2> QED
    BY <1>5, <2>1 DEF MapAlone
<1>10. Found(Pairs(i), 2, Produced("forward", plan[i], in))
  BY <1>1, <1>5, <1>7, <1>8, <1>9, MapForward
<1>11. Produced("forward", plan[i], in) \notin {Fail, Crash}
  BY <1>10, StrIs DEF Found
<1>12. CASE x[2] = "forward"
  BY <1>8, <1>11, <1>12 DEF Escalates
<1>13. CASE x[2] = "reverse"
  <2>1. ReadPath(fwd.out, plan[i].canonical) = Outcome(plan[i].canonical, Produced("forward", plan[i], in))
    <3>1. Unstopped(fwd) /\ Writers(plan[i].canonical) = {i} /\ ~plan[i].disposed
      BY <1>5, <1>6, <1>9, <1>13 DEF Alone, MapAlone
    <3> QED
      BY <1>1, <1>4, <1>8, <3>1, ForwardOutcome
  <2>2. ReadPath(fwd.out, plan[i].canonical) = Produced("forward", plan[i], in)
    BY <1>5, <1>11, <1>13, <2>1 DEF Outcome
  <2>3. PICK w : Produced("reverse", plan[i], fwd.out) = Str(w)
    BY <1>1, <1>8, <1>9, <1>10, <2>2, MapReverse
  <2> QED
    BY <1>8, <1>13, <2>3, StrIs DEF Escalates
<1> QED
  BY <1>6, <1>12, <1>13

(* The remainder of a remainder.                                           *)
LEMMA Wrapped ==
    ASSUME NEW n \in Nat, NEW m \in Nat \ {0}
    PROVE  n % m \in 0..(m - 1) /\ (n % m) % m = n % m
<1>1. n % m \in 0..(m - 1)
  OBVIOUS
<1>2. \A k \in 0..(m - 1) : k % m = k
  OBVIOUS
<1> QED
  BY <1>1, <1>2

(* A position in a shorter sequence is one in a longer.                    *)
LEMMA Shorter ==
    ASSUME NEW n, NEW m \in Nat, NEW k \in Nat, m <= k, n \in 0..(m - 1)
    PROVE  n \in 0..(k - 1)
OBVIOUS

(* Each value of the instance is that of some case of the suite.           *)
LEMMA ValueSeen ==
    ASSUME InConstants, SuiteSaw, \A r \in ir : Len(r.enum) <= N, NEW seeds \in [Paths -> Nat],
           instance = SynthesiseInstance(seeds), NEW r \in ir
    PROVE  \E n \in 0..(N - 1) : instance[r.path] = SynthValue(r, n)
<1>1. CASE r.enum = <<>>
  BY <1>1 DEF SuiteSaw
<1>2. CASE r.enum # <<>>
  <2>1. r.enum \in Seq(Range(r.enum))
    BY PathsNamed
  <2>2. PICK m : m = Len(r.enum)
    OBVIOUS
  <2>3. m \in Nat \ {0} /\ m <= N /\ N \in Nat
    <3>1. m \in Nat \ {0}
      BY <1>2, <2>1, <2>2
    <3> QED
      BY <2>2, <3>1, FirstCase
  <2>4. PICK s \in Nat : s = seeds[r.path] /\ instance[r.path] = SynthValue(r, s)
    BY Synthesised DEF Paths
  <2>5. s % m \in 0..(m - 1) /\ (s % m) % m = s % m
    BY <2>3, Wrapped
  <2>6. SynthValue(r, s) = SynthValue(r, s % m)
    BY <1>2, <2>2, <2>5 DEF SynthValue
  <2>7. s % m \in 0..(N - 1)
    BY <2>3, <2>5, Shorter
  <2> QED
    BY <2>4, <2>6, <2>7
<1> QED
  BY <1>1, <1>2

(* Whatever a step reads of the instance it has read in some case.         *)
LEMMA ReadSeen ==
    ASSUME InConstants, SuiteSaw, \A r \in ir : Len(r.enum) <= N, NEW seeds \in [Paths -> Nat],
           instance = SynthesiseInstance(seeds), NEW q
    PROVE  \E n \in 0..(N - 1) : ReadPath(CaseOf(n), q) = ReadPath(instance, q)
<1>1. ASSUME NEW n \in 0..(N - 1)
      PROVE  DOMAIN CaseOf(n) = Paths /\ \A r \in ir : CaseOf(n)[r.path] = SynthValue(r, n)
  <2>1. \A r \in ir : SameSeed(n)[r.path] = n
    BY DEF SameSeed
  <2> QED
    BY <2>1, Synthesised DEF CaseOf
<1>2. DOMAIN instance = Paths
  BY Synthesised
<1>3. CASE q \in Paths
  <2>1. PICK r \in ir : q = r.path
    BY <1>3 DEF Paths
  <2>2. PICK n \in 0..(N - 1) : instance[q] = SynthValue(r, n)
    BY <2>1, ValueSeen
  <2> QED
    BY <1>1, <1>2, <1>3, <2>1, <2>2 DEF ReadPath
<1>4. CASE q \notin Paths
  BY <1>1, <1>2, <1>4, FirstCase DEF ReadPath
<1> QED
  BY <1>3, <1>4

(* What a step does with a value it does with it in every instance.        *)
LEMMA SameForward ==
    ASSUME NEW step, NEW in, NEW other, ReadPath(in, step.region) = ReadPath(other, step.region)
    PROVE  /\ Produced("forward", step, in) = Produced("forward", step, other)
           /\ Halts("forward", step, in) <=> Halts("forward", step, other)
BY DEF Produced, Source, Halts

(* On the way back, with what it reads there.                              *)
LEMMA SameReverse ==
    ASSUME NEW step, NEW in, NEW other, ReadPath(in, step.canonical) = ReadPath(other, step.canonical)
    PROVE  /\ Produced("reverse", step, in) = Produced("reverse", step, other)
           /\ Halts("reverse", step, in) <=> Halts("reverse", step, other)
BY DEF Produced, Source, Halts

(* A walk none of whose steps halts is not stopped.                        *)
LEMMA StoppedBy ==
    ASSUME Compiled, InConstants, NEW dir, NEW in, NEW w, w = Walk(dir, plan, in)
    PROVE  Unstopped(w) <=> \A i \in Steps : ~Halts(dir, plan[i], in)
<1>1. WalkedTo(w, dir, plan, in, Len(plan)) /\ Steps = 1..Len(plan)
  BY WalkOfPlan, PlanSteps
<1> QED
  BY <1>1 DEF WalkedTo, Unstopped

Lost(p, in, out, i) ==
    /\ ~p[i].disposed /\ p[i].region # "" /\ p[i].loss = ""
    /\ ReadPath(in, p[i].region) # ReadPath(out, p[i].region)
AllDeclared(p, in, out) == \A l \in Losses(p, in, out) : l.declared
(* If no step loses anything without declaring it, all losses are          *)
(* declared.                                                               *)
LEMMA NoneLost ==
    ASSUME NEW p, NEW in, NEW out, \A i \in DOMAIN p : ~Lost(p, in, out, i)
    PROVE  AllDeclared(p, in, out)
<1> SUFFICES ASSUME NEW l \in Losses(p, in, out) PROVE l.declared
  BY DEF AllDeclared
<1>1. PICK i \in DOMAIN p :
        /\ ~p[i].disposed /\ p[i].region # ""
        /\ ReadPath(in, p[i].region) # ReadPath(out, p[i].region)
        /\ l = [path |-> p[i].region, weight |-> p[i].weight, declared |-> p[i].loss # ""]
  BY DEF Losses
<1>2. p[i].loss # ""
  BY <1>1 DEF Lost
<1> QED
  BY <1>1, <1>2

(* A step alone at its paths does to the instance what it did in the case  *)
(* of the suite that gave its attribute the same value: the cases of       *)
(* different attributes need not be the same.                              *)
LEMMA PlansReverse ==
    ASSUME MappingInv
    PROVE  PassedPlansReverse
<1> SUFFICES ASSUME stage = "applied", SuiteSaw, \A i \in Steps : plan[i].disposed \/ Alone(i),
                    \A r \in ir : Len(r.enum) <= N
             PROVE  /\ forward.stopped = "" /\ back.stopped = ""
                    /\ \A l \in Losses(plan, instance, back.out) : l.declared
  BY DEF PassedPlansReverse
<1>1. Compiled /\ InConstants
  BY DEF MappingInv, PlanInv
<1>2. PICK seeds \in [Paths -> Nat] : instance = SynthesiseInstance(seeds)
  BY FirstCase, RunSynthesised DEF InstanceOf
<1>3. forward = Walk("forward", plan, instance)
  BY DEF MappingInv, ApplyInv, ForwardPlan
<1> DEFINE Case(n) == CaseOf(n)
           There(n) == Walk("forward", plan, CaseOf(n))
           Back(n) == Walk("reverse", plan, There(n).out)
           Meets(i, n) == ReadPath(CaseOf(n), plan[i].region) = ReadPath(instance, plan[i].region)
<1>4. \A i \in Steps : \E n \in 0..(N - 1) : Meets(i, n)
  BY <1>1, <1>2, ReadSeen
<1>5. \A n \in 0..(N - 1) : /\ Unstopped(There(n)) /\ Unstopped(Back(n))
                            /\ \A l \in Losses(plan, CaseOf(n), Back(n).out) : l.declared
  BY CaseWalks
<1>6. Unstopped(forward)
  <2>1. ASSUME NEW i \in Steps PROVE ~Halts("forward", plan[i], instance)
    <3>1. PICK n \in 0..(N - 1) : Meets(i, n)
      BY <1>4
    <3>2. ~Halts("forward", plan[i], CaseOf(n))
      BY <1>1, <1>5, StoppedBy
    <3> QED
      BY <3>1, <3>2, SameForward
  <2> QED
    BY <1>1, <1>3, <2>1, StoppedBy
<1>7. back = Walk("reverse", plan, forward.out)
  BY <1>6 DEF MappingInv, ApplyInv, ReversePlan, Unstopped
<1>8. ASSUME NEW i \in Steps, ~plan[i].disposed, NEW n \in 0..(N - 1), Meets(i, n)
      PROVE  ReadPath(forward.out, plan[i].canonical) = ReadPath(There(n).out, plan[i].canonical)
  <2>1. Writers(plan[i].canonical) = {i}
    BY <1>8 DEF Alone
  <2>2. ReadPath(forward.out, plan[i].canonical) = Outcome(plan[i].canonical, Produced("forward", plan[i], instance))
    BY <1>1, <1>3, <1>6, <1>8, <2>1, ForwardOutcome
  <2>3. ReadPath(There(n).out, plan[i].canonical) = Outcome(plan[i].canonical, Produced("forward", plan[i], CaseOf(n)))
    BY <1>1, <1>5, <1>8, <2>1, ForwardOutcome
  <2>4. Produced("forward", plan[i], instance) = Produced("forward", plan[i], CaseOf(n))
    BY <1>8, SameForward
  <2> QED
    BY <2>2, <2>3, <2>4
<1>9. Unstopped(back)
  <2>1. ASSUME NEW i \in Steps PROVE ~Halts("reverse", plan[i], forward.out)
    <3>1. CASE plan[i].disposed
      BY <3>1 DEF Halts, Taken
    <3>2. CASE ~plan[i].disposed
      <4>1. PICK n \in 0..(N - 1) : Meets(i, n)
        BY <1>4
      <4>2. ~Halts("reverse", plan[i], There(n).out)
        BY <1>1, <1>5, StoppedBy
      <4> QED
        BY <1>8, <3>2, <4>1, <4>2, SameReverse
    <3> QED
      BY <3>1, <3>2
  <2> QED
    BY <1>1, <1>7, <2>1, StoppedBy
<1>10. AllDeclared(plan, instance, back.out)
  <2> SUFFICES ASSUME NEW i \in DOMAIN plan, Lost(plan, instance, back.out, i) PROVE FALSE
    BY NoneLost
  <2>1. /\ ~plan[i].disposed /\ plan[i].region # "" /\ plan[i].loss = ""
        /\ ReadPath(instance, plan[i].region) # ReadPath(back.out, plan[i].region)
    BY DEF Lost
  <2>2. i \in Steps /\ plan[i].reversible /\ Alone(i)
    BY <1>1, <2>1, LossCompiled DEF Steps
  <2>3. PICK n \in 0..(N - 1) : Meets(i, n)
    BY <1>4, <2>2
  <2>4. ReadPath(CaseOf(n), plan[i].region) = ReadPath(Back(n).out, plan[i].region)
    BY <1>5, <2>1, Returned
  <2>5. ReadPath(back.out, plan[i].region) = Outcome(plan[i].region, Produced("reverse", plan[i], forward.out))
    BY <1>1, <1>7, <1>9, <2>1, <2>2, ReverseOutcome
  <2>6. ReadPath(Back(n).out, plan[i].region) = Outcome(plan[i].region, Produced("reverse", plan[i], There(n).out))
    BY <1>1, <1>5, <2>1, <2>2, ReverseOutcome
  <2>7. Produced("reverse", plan[i], forward.out) = Produced("reverse", plan[i], There(n).out)
    BY <1>8, <2>1, <2>2, <2>3, SameReverse
  <2> QED
    BY <2>1, <2>3, <2>4, <2>5, <2>6, <2>7
<1> QED
  BY <1>6, <1>9, <1>10 DEF Unstopped, AllDeclared

(* The invariant holds of a proposal.                                      *)
LEMMA MappingStarts == MappingInit => MappingInv
<1> SUFFICES ASSUME MappingInit PROVE MappingInv
  OBVIOUS
<1>1. stage = "proposed" /\ escalations = {} /\ seed = 0
  BY DEF MappingInit
<1>2. InConstants
  BY DEF MappingInit, InConstants
<1>3. PlanInv /\ EscalationInv /\ ApplyInv
  BY <1>1 DEF PlanInv, EscalationInv, ApplyInv
<1>4. SuiteInv
  <2>1. 0 \in 0..N /\ 0..(0 - 1) = {}
    BY FirstCase
  <2> QED
    BY <1>1, <2>1 DEF SuiteInv
<1> QED
  BY <1>2, <1>3, <1>4 DEF MappingInv

(* What does not change with the constants of a run and its plan.          *)
Framed == UNCHANGED <<ir, spec, canonicalTypes, plan>>
(* What was known of the specification, its plan and its cases stays so.   *)
LEMMA FrameKept ==
    ASSUME UNCHANGED <<ir, spec, canonicalTypes>>
    PROVE  /\ InConstants => InConstants'
           /\ Disposition => Disposition'
           /\ plan' = plan /\ Compiled => Compiled'
           /\ \A n : CaseOf(n)' = CaseOf(n)
           /\ Paths' = Paths
           /\ \A seeds : SynthesiseInstance(seeds)' = SynthesiseInstance(seeds)
<1>1. InConstants => InConstants'
  BY DEF InConstants
<1>2. Disposition => Disposition'
  BY DEF Disposition
<1>3. plan' = plan /\ Compiled => Compiled'
  BY DEF Compiled, Disposition, Unknown
<1>4. \A n : CaseOf(n)' = CaseOf(n)
  BY DEF CaseOf, SynthesiseInstance, SameSeed
<1>5. Paths' = Paths
  BY DEF Paths
<1>6. \A seeds : SynthesiseInstance(seeds)' = SynthesiseInstance(seeds)
  BY DEF SynthesiseInstance
<1> QED
  BY <1>1, <1>2, <1>3, <1>4, <1>5, <1>6

(* A case that passed has passed.                                          *)
LEMMA CasesKept ==
    ASSUME Framed, undeclared \subseteq undeclared', NEW n, CasePassed(n)
    PROVE  CasePassed(n)'
<1>1. CaseOf(n)' = CaseOf(n)
  BY FrameKept DEF Framed
<1> QED
  BY <1>1 DEF CasePassed, Framed

(* An escalation stays explained: before it is applied to an instance of   *)
(* the region, a plan has only run on cases of the suite.                  *)
LEMMA EscalationsKept ==
    ASSUME Framed, EscalationInv, stage # "applied", NEW x \in escalations
    PROVE  EscalatedBy(x)'
<1>1. EscalatedBy(x) /\ x[1] # N
  BY DEF EscalationInv, EscalatedBy
<1>2. InstanceOf(x[1])' = InstanceOf(x[1])
  BY <1>1, FrameKept DEF InstanceOf, Framed
<1> QED
  BY <1>1, <1>2 DEF EscalatedBy, Framed

(* A step that only moves on keeps what is known of the plan and of the    *)
(* suite.                                                                  *)
LEMMA MovesOn ==
    ASSUME MappingInv, Framed, UNCHANGED <<seed, undeclared, escalations, instance, forward, back>>,
           stage # "applied", stage' # "applied",
           stage' = "compiling" => Disposition,
           stage' \in {"testing", "passed"} => Compiled,
           stage' \in {"proposed", "compiling"} => seed = 0 /\ escalations = {},
           stage' = "passed" => seed = N /\ undeclared = {}
    PROVE  MappingInv'
<1>1. /\ InConstants' /\ (Disposition => Disposition') /\ (Compiled => Compiled')
  BY FrameKept DEF MappingInv, Framed
<1>2. PlanInv'
  BY <1>1 DEF MappingInv, PlanInv
<1>3. SuiteInv'
  <2>1. \A n \in 0..(seed - 1) : CasePassed(n)'
    BY CasesKept DEF MappingInv, SuiteInv
  <2> QED
    BY <2>1 DEF MappingInv, SuiteInv
<1>4. EscalationInv'
  <2>1. \A x \in escalations : EscalatedBy(x)'
    BY EscalationsKept DEF MappingInv
  <2> QED
    BY <2>1 DEF EscalationInv
<1>5. ApplyInv'
  BY DEF ApplyInv
<1> QED
  BY <1>1, <1>2, <1>3, <1>4, <1>5 DEF MappingInv

(* The invariant is kept by every action.  A proposal is checked for its   *)
(* dispositions.                                                           *)
LEMMA ProposalKeeps ==
    ASSUME MappingInv, Generate \/ Author
    PROVE  MappingInv'
<1>1. /\ Framed /\ UNCHANGED <<seed, undeclared, escalations, instance, forward, back>>
      /\ stage = "proposed" /\ stage' \in {"compiling", "refused"}
      /\ stage' = "compiling" => Disposition
  BY DEF Generate, Author, Unchanged, Later, Framed
<1>2. seed = 0 /\ escalations = {}
  BY <1>1 DEF MappingInv, SuiteInv
<1> QED
  BY <1>1, <1>2, MovesOn

(* A plan is compiled before anything has run.                             *)
LEMMA CompilationKeeps ==
    ASSUME MappingInv, CompileSpec
    PROVE  MappingInv'
<1>1. /\ UNCHANGED <<ir, spec, canonicalTypes, seed, undeclared, escalations, instance, forward, back>>
      /\ stage = "compiling" /\ stage' \in {"crashed", "rejected", "testing"}
      /\ stage' # "testing" => plan' = plan
      /\ stage' = "testing" => /\ ~Unknown /\ CompileErrors(spec, ir, canonicalTypes) = {}
                               /\ plan' = BuildPlan(spec)
  BY DEF CompileSpec, Unchanged, Later
<1>2. seed = 0 /\ escalations = {} /\ Disposition
  BY <1>1 DEF MappingInv, SuiteInv, PlanInv
<1>3. CASE stage' # "testing"
  <2>1. Framed
    BY <1>1, <1>3 DEF Framed
  <2> QED
    BY <1>1, <1>3, <2>1, MovesOn
<1>4. CASE stage' = "testing"
  <2>1. InConstants'
    BY <1>1 DEF MappingInv, InConstants
  <2>2. Compiled'
    BY <1>1, <1>2, <1>4 DEF Compiled, Disposition, Unknown
  <2>3. PlanInv'
    BY <1>4, <2>2 DEF PlanInv
  <2>4. SuiteInv'
    <3>1. seed' = 0
      BY <1>1, <1>2
    <3>2. 0 \in 0..N /\ 0..(0 - 1) = {}
      BY FirstCase
    <3> QED
      BY <1>4, <3>1, <3>2 DEF SuiteInv
  <2>5. EscalationInv'
    BY <1>1, <1>2 DEF EscalationInv
  <2>6. ApplyInv'
    BY <1>4 DEF ApplyInv
  <2> QED
    BY <2>1, <2>3, <2>4, <2>5, <2>6 DEF MappingInv
<1> QED
  BY <1>3, <1>4

(* The suite is judged when all of its cases have run.                     *)
LEMMA JudgementKeeps ==
    ASSUME MappingInv, JudgeSuite
    PROVE  MappingInv'
<1>1. /\ Framed /\ UNCHANGED <<seed, undeclared, escalations, instance, forward, back>>
      /\ stage = "testing" /\ seed = N /\ stage' \in {"failed", "passed"}
      /\ stage' = "passed" => undeclared = {}
  BY DEF JudgeSuite, Unchanged, Later, Framed
<1>2. Compiled
  BY <1>1 DEF MappingInv, PlanInv
<1> QED
  BY <1>1, <1>2, MovesOn

(* The case after the last.                                                *)
LEMMA NextCase ==
    ASSUME NEW s \in 0..N, s < N
    PROVE  s # N /\ s + 1 \in 0..N /\ 0..((s + 1) - 1) = 0..(s - 1) \union {s}
<1>1. N \in Nat
  BY FirstCase
<1> QED
  BY <1>1

(* A case that is run has passed, or stops the suite.                      *)
LEMMA SuiteKeeps ==
    ASSUME MappingInv, RunCase
    PROVE  MappingInv'
<1>1. PICK in : in = CaseOf(seed)
  OBVIOUS
<1>2. PICK fwd : fwd = ForwardPlan(plan, in)
  OBVIOUS
<1>3. PICK rev : rev = ReversePlan(plan, fwd.out)
  OBVIOUS
<1> DEFINE Escalating == {<<seed, "forward", i>> : i \in fwd.escalated}
           Returning == {<<seed, "reverse", i>> : i \in rev.escalated}
<1>4. /\ stage = "testing" /\ seed < N /\ Framed /\ UNCHANGED <<instance, forward, back>>
      /\ escalations \subseteq escalations'
      /\ escalations' \subseteq escalations \union Escalating \union Returning
      /\ fwd.stopped # "" => escalations' \subseteq escalations \union Escalating
      /\ \/ stage' \in {"failed", "crashed"} /\ UNCHANGED <<seed, undeclared>>
         \/ /\ stage' = stage /\ fwd.stopped = "" /\ rev.stopped = ""
            /\ seed' = seed + 1
            /\ undeclared' = IF \E l \in Losses(plan, in, rev.out) : ~l.declared
                             THEN undeclared \union {seed} ELSE undeclared
  BY <1>1, <1>2, <1>3 DEF RunCase, CaseOf, Escalated, StoppedAs, Unchanged, Framed
<1>5. /\ InConstants' /\ Compiled' /\ \A n : CaseOf(n)' = CaseOf(n)
  BY <1>4, FrameKept DEF MappingInv, PlanInv, Framed
<1>6. seed \in 0..N /\ seed # N /\ seed + 1 \in 0..N /\ undeclared \subseteq undeclared'
  <2>1. seed \in 0..N
    BY DEF MappingInv, SuiteInv
  <2>2. seed < N
    BY <1>4
  <2>3. seed # N /\ seed + 1 \in 0..N
    BY <2>1, <2>2, NextCase
  <2> QED
    BY <1>4, <2>1, <2>3
<1>7. PlanInv'
  BY <1>4, <1>5 DEF PlanInv
<1>8. \A n \in 0..(seed - 1) : CasePassed(n)'
  BY <1>4, <1>6, CasesKept DEF MappingInv, SuiteInv
<1>9. SuiteInv'
  <2>1. CASE stage' \in {"failed", "crashed"} /\ UNCHANGED <<seed, undeclared>>
    BY <1>6, <1>8, <2>1 DEF SuiteInv
  <2>2. CASE seed' = seed + 1 /\ stage' = stage
    <3>1. /\ fwd.stopped = "" /\ rev.stopped = ""
          /\ seed \notin undeclared' => \A l \in Losses(plan, in, rev.out) : l.declared
      BY <1>4, <1>6, <2>2
    <3>2. \A n : n = seed => CasePassed(n)'
      BY <1>1, <1>2, <1>3, <1>4, <1>5, <3>1 DEF CasePassed, Framed
    <3>3. 0..(seed' - 1) = 0..(seed - 1) \union {seed}
      <4>1. seed \in 0..N /\ seed < N
        BY <1>4, <1>6
      <4> QED
        BY <2>2, <4>1, NextCase
    <3>4. \A n \in 0..(seed' - 1) : CasePassed(n)'
      BY <1>8, <3>2, <3>3
    <3>5. seed' \in 0..N
      BY <1>6, <2>2
    <3>6. stage' \notin {"proposed", "compiling", "passed", "applied"}
      BY <1>4, <2>2
    <3> QED
      BY <3>4, <3>5, <3>6 DEF SuiteInv
  <2> QED
    BY <1>4, <2>1, <2>2
<1>10. EscalationInv'
  <2>1. \A x \in escalations : EscalatedBy(x)'
    BY <1>4, EscalationsKept DEF MappingInv
  <2>2. \A n : n = seed => n \in 0..N /\ n # N /\ InstanceOf(n)' = in
    BY <1>1, <1>5, <1>6 DEF InstanceOf
  <2>3. \A x : x \in Escalating => EscalatedBy(x)'
    <3> SUFFICES ASSUME NEW i \in fwd.escalated, NEW n, n = seed, NEW x, x = <<n, "forward", i>>
                 PROVE  EscalatedBy(x)'
      OBVIOUS
    <3>1. x[1] = n /\ x[2] = "forward" /\ x[3] = i
      OBVIOUS
    <3>2. ForwardPlan(plan, InstanceOf(x[1]))' = fwd
      BY <1>2, <1>4, <2>2, <3>1 DEF Framed
    <3> QED
      BY <2>2, <3>1, <3>2 DEF EscalatedBy
  <2>4. fwd.stopped = "" => \A x : x \in Returning => EscalatedBy(x)'
    <3> SUFFICES ASSUME fwd.stopped = "", NEW i \in rev.escalated, NEW n, n = seed, NEW x, x = <<n, "reverse", i>>
                 PROVE  EscalatedBy(x)'
      OBVIOUS
    <3>1. x[1] = n /\ x[2] = "reverse" /\ x[3] = i
      OBVIOUS
    <3>2. ForwardPlan(plan, InstanceOf(x[1]))' = fwd
      BY <1>2, <1>4, <2>2, <3>1 DEF Framed
    <3>3. ReversePlan(plan, fwd.out)' = rev
      BY <1>3, <1>4 DEF Framed
    <3> QED
      BY <2>2, <3>1, <3>2, <3>3 DEF EscalatedBy
  <2>5. CASE fwd.stopped = ""
    BY <1>4, <2>1, <2>3, <2>4, <2>5 DEF EscalationInv
  <2>6. CASE fwd.stopped # ""
    BY <1>4, <2>1, <2>3, <2>6 DEF EscalationInv
  <2> QED
    BY <2>5, <2>6
<1>11. ApplyInv'
  BY <1>4 DEF ApplyInv
<1> QED
  BY <1>5, <1>7, <1>9, <1>10, <1>11 DEF MappingInv

(* An instance the plan is applied to is synthesised from seeds of its     *)
(* own.                                                                    *)
LEMMA UseKeeps ==
    ASSUME MappingInv, Apply
    PROVE  MappingInv'
<1>1. stage = "passed" /\ stage' = "applied" /\ Framed /\ UNCHANGED <<seed, undeclared>>
  BY DEF Apply, Unchanged, Framed
<1>2. PICK seeds \in [Paths -> Seeds] :
        LET in  == SynthesiseInstance(seeds)
            fwd == ForwardPlan(plan, in)
            rev == IF fwd.stopped = "" THEN ReversePlan(plan, fwd.out) ELSE Nothing
        IN  /\ instance' = in /\ forward' = fwd /\ back' = rev
            /\ escalations' = escalations \union Escalated(N, "forward", fwd)
                                          \union Escalated(N, "reverse", rev)
  BY DEF Apply, Paths
<1>3. PICK in : in = SynthesiseInstance(seeds)
  OBVIOUS
<1>4. PICK fwd : fwd = ForwardPlan(plan, in)
  OBVIOUS
<1>5. PICK rev : rev = IF fwd.stopped = "" THEN ReversePlan(plan, fwd.out) ELSE Nothing
  OBVIOUS
<1>6. /\ instance' = in /\ forward' = fwd /\ back' = rev
      /\ escalations' = escalations \union Escalated(N, "forward", fwd)
                                    \union Escalated(N, "reverse", rev)
  BY <1>2, <1>3, <1>4, <1>5
<1>7. /\ InConstants' /\ Compiled' /\ \A n : CaseOf(n)' = CaseOf(n)
  BY <1>1, FrameKept DEF MappingInv, PlanInv, Framed
<1>8. PlanInv'
  BY <1>1, <1>7 DEF PlanInv
<1>9. SuiteInv'
  <2>1. \A n \in 0..(seed - 1) : CasePassed(n)'
    BY <1>1, CasesKept DEF MappingInv, SuiteInv
  <2>2. seed = N /\ undeclared = {} /\ seed \in 0..N
    BY <1>1 DEF MappingInv, SuiteInv
  <2>3. seed' = seed /\ undeclared' = undeclared /\ stage' = "applied"
    BY <1>1
  <2> QED
    BY <2>1, <2>2, <2>3 DEF SuiteInv
<1>10. EscalationInv'
  <2>1. \A x \in escalations : EscalatedBy(x)'
    BY <1>1, EscalationsKept DEF MappingInv
  <2>2. \A n : n = N => n \in 0..N /\ InstanceOf(n)' = in
    BY <1>6, FirstCase DEF InstanceOf
  <2>3. \A x : x \in Escalated(N, "forward", fwd) => EscalatedBy(x)'
    <3> SUFFICES ASSUME NEW i \in fwd.escalated, NEW n, n = N, NEW x, x = <<n, "forward", i>>
                 PROVE  EscalatedBy(x)'
      BY DEF Escalated
    <3>1. x[1] = n /\ x[2] = "forward" /\ x[3] = i
      OBVIOUS
    <3>2. ForwardPlan(plan, InstanceOf(x[1]))' = fwd
      BY <1>1, <1>4, <2>2, <3>1 DEF Framed
    <3> QED
      BY <1>1, <2>2, <3>1, <3>2 DEF EscalatedBy
  <2>4. \A x : x \in Escalated(N, "reverse", rev) => EscalatedBy(x)'
    <3> SUFFICES ASSUME NEW i \in rev.escalated, NEW n, n = N, NEW x, x = <<n, "reverse", i>>
                 PROVE  EscalatedBy(x)'
      BY DEF Escalated
    <3>1. x[1] = n /\ x[2] = "reverse" /\ x[3] = i
      OBVIOUS
    <3>2. fwd.stopped = ""
      BY <1>5 DEF Nothing
    <3>3. ForwardPlan(plan, InstanceOf(x[1]))' = fwd
      BY <1>1, <1>4, <2>2, <3>1 DEF Framed
    <3>4. ReversePlan(plan, fwd.out)' = rev
      BY <1>1, <1>5, <3>2 DEF Framed
    <3> QED
      BY <1>1, <2>2, <3>1, <3>2, <3>3, <3>4 DEF EscalatedBy
  <2> QED
    BY <1>6, <2>1, <2>3, <2>4 DEF EscalationInv
<1>11. ApplyInv'
  <2>1. seeds \in [Paths -> Seeds]' /\ instance' = SynthesiseInstance(seeds)'
    BY <1>1, <1>3, <1>6, FrameKept DEF Framed
  <2>2. forward' = ForwardPlan(plan, instance)'
    BY <1>1, <1>4, <1>6 DEF Framed
  <2>3. back' = (IF forward.stopped = "" THEN ReversePlan(plan, forward.out) ELSE Nothing)'
    BY <1>1, <1>5, <1>6 DEF Framed
  <2>4. (Escalated(N, "forward", forward) \subseteq escalations)'
    BY <1>6
  <2> QED
    BY <2>1, <2>2, <2>3, <2>4 DEF ApplyInv
<1> QED
  BY <1>7, <1>8, <1>9, <1>10, <1>11 DEF MappingInv

(* Nothing changes.                                                        *)
LEMMA StutterKeeps ==
    ASSUME MappingInv, UNCHANGED mappingVars
    PROVE  MappingInv'
<1>1. Framed /\ UNCHANGED <<stage, seed, undeclared, escalations, instance, forward, back>>
  BY DEF mappingVars, Framed
<1>2. InConstants' /\ (Compiled => Compiled') /\ (Disposition => Disposition')
      /\ (\A n : CaseOf(n)' = CaseOf(n)) /\ Paths' = Paths
      /\ \A seeds : SynthesiseInstance(seeds)' = SynthesiseInstance(seeds)
  BY <1>1, FrameKept DEF MappingInv, Framed
<1>3. PlanInv'
  BY <1>1, <1>2 DEF MappingInv, PlanInv
<1>4. SuiteInv'
  <2>1. \A n \in 0..(seed - 1) : CasePassed(n)'
    BY <1>1, CasesKept DEF MappingInv, SuiteInv
  <2> QED
    BY <1>1, <2>1 DEF MappingInv, SuiteInv
<1>5. EscalationInv'
  <2>1. \A n : InstanceOf(n)' = InstanceOf(n)
    BY <1>1, <1>2 DEF InstanceOf
  <2>2. \A x : EscalatedBy(x) => EscalatedBy(x)'
    BY <1>1, <2>1 DEF EscalatedBy, Framed
  <2> QED
    BY <1>1, <2>2 DEF MappingInv, EscalationInv
<1>6. ApplyInv'
  BY <1>1, <1>2 DEF MappingInv, ApplyInv, Framed
<1> QED
  BY <1>2, <1>3, <1>4, <1>5, <1>6 DEF MappingInv

(* Every step keeps the invariant.                                         *)
LEMMA MappingSteps == MappingInv /\ [MappingNext]_mappingVars => MappingInv'
<1> SUFFICES ASSUME MappingInv, [MappingNext]_mappingVars PROVE MappingInv'
  OBVIOUS
<1>1. CASE Generate \/ Author
  BY <1>1, ProposalKeeps
<1>2. CASE CompileSpec
  BY <1>2, CompilationKeeps
<1>3. CASE RunCase
  BY <1>3, SuiteKeeps
<1>4. CASE JudgeSuite
  BY <1>4, JudgementKeeps
<1>5. CASE Apply
  BY <1>5, UseKeeps
<1>6. CASE Done
  BY <1>6, StutterKeeps DEF Done
<1>7. CASE UNCHANGED mappingVars
  BY <1>7, StutterKeeps
<1> QED
  BY <1>1, <1>2, <1>3, <1>4, <1>5, <1>6, <1>7 DEF MappingNext

(* MappingInv is an invariant: a plan that is tested or used is the one    *)
(* that compiled without errors, the cases of the suite that have run came *)
(* back with nothing undeclared lost, every escalation is that of a step   *)
(* on a synthesised instance, and what was applied is what the plan makes  *)
(* of one.                                                                 *)
THEOREM MappingInvariant == MappingSpec => []MappingInv
BY MappingStarts, MappingSteps, PTL DEF MappingSpec

(* For any contract, specification and suite: a weight-5 attribute that a  *)
(* used plan takes from an instance is written, escalated, or its loss is  *)
(* declared.                                                               *)
THEOREM CriticalLossesHeard == MappingSpec => []NoSilentLoss
BY MappingInvariant, LossesHeard, PTL

(* For any contract, specification and types of canonical paths: what a    *)
(* used plan writes to a path of known type is null or of that type, when  *)
(* every chain that writes there fixes its own output type.                *)
THEOREM InferredTypesProduced == MappingSpec => []TypeInferenceSound
BY MappingInvariant, TypesHold, PTL

(* For any contract and specification: a value map without a policy for    *)
(* other values that compiled never meets one, neither in the suite nor in *)
(* use.                                                                    *)
THEOREM CheckedMapsDecide == MappingSpec => []CompiledMapsDecide
BY MappingInvariant, MapsDecide, PTL

(* For any contract, specification and length of the suite: a plan that    *)
(* passed and gives every attribute its own paths brings back every        *)
(* instance made of values its suite has met, each in some case, although  *)
(* in the suite all the seeds are the same.                                *)
THEOREM ProvedPlansReverse == MappingSpec => []PassedPlansReverse
BY MappingInvariant, PlansReverse, PTL
=============================================================================
