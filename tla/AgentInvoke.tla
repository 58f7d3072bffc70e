----------------------------- MODULE AgentInvoke -----------------------------
(***************************************************************************)
(* Agent.invoke over the work items of a session, with the model gateway   *)
(* and the run's budget behind it.                                         *)
(*                                                                         *)
(* A session is one resume_after_checkpoint: it builds a Budget from the   *)
(* run's manifest and hands every cluster to the Canonical Synthesiser.    *)
(* For one item the invocation renders, asks the gateway, and climbs the   *)
(* validation ladder: two schema retries, one semantic retry, none for a   *)
(* guardrail.  The gateway checks the budget before a call, repeats a call *)
(* the provider refuses, and charges what an answer used.                  *)
(*                                                                         *)
(* An answer is its size and the first rung of the ladder it fails.  The   *)
(* Synthesiser is the only agent of a session that calls the model, so     *)
(* stage S6 has all of the spend, and cost is a fixed price per token      *)
(* (_PLACEHOLDER_COST_PER_1K_TOKENS): the budget is one number, and the    *)
(* ceiling is stated in tokens.  A restart in a session is ProviderBreaks. *)
(***************************************************************************)
EXTENDS Naturals

CONSTANTS
    Items,            \* the work items of a session: the clusters
    NoItem,
    Cap,              \* int(total_tokens * per_stage["S6"])
    Ceiling,          \* cost_ceiling
    MaxEstimate,      \* the longest prompt, as _estimate_tokens sees it
    MaxAnswer,        \* the most tokens one answer is charged
    ProviderRetries,  \* max_provider_retries
    MaxSessions       \* bound on the submissions that start a session

ASSUME AgentInvokeAssumption ==
    /\ NoItem \notin Items
    /\ Cap \in Nat /\ Ceiling \in Nat
    /\ MaxEstimate \in Nat /\ MaxAnswer \in Nat
    /\ ProviderRetries \in Nat /\ MaxSessions \in Nat

VARIABLES
    sessions,      \* how many sessions were started
    phase,         \* where the session is, "off" before the first one
    todo, cur,     \* items not taken up yet; the one being invoked
    schemaLeft, semanticLeft,
    attempt,       \* provider retries of the current call
    verdict,       \* what is wrong with the current answer, or "good"
    outcome,       \* item -> "open", "ok", "failed", "rejected"
    calls,         \* item -> answers charged for it in this session
    spent,         \* Budget._spent_by_stage["S6"], and spent_cost
    billed         \* what the provider charged the run for, over all sessions

loop    == <<sessions, todo, cur>>
ladder  == <<schemaLeft, semanticLeft>>
money   == <<calls, spent, billed>>
vars    == <<loop, phase, ladder, attempt, verdict, outcome, money>>

Verdicts == {"good", "notJson", "schema", "semantic", "guardrail"}
Ended    == {"off", "done", "budget", "provider", "error"}
InItem   == {"check", "ask", "judge"}

-----------------------------------------------------------------------------
Init ==
    /\ sessions = 0
    /\ phase = "off"
    /\ todo = {} /\ cur = NoItem
    /\ schemaLeft = 0 /\ semanticLeft = 0
    /\ attempt = 0
    /\ verdict = "good"
    /\ outcome = [i \in Items |-> "open"]
    /\ calls = [i \in Items |-> 0]
    /\ spent = 0
    /\ billed = 0

(* resume_after_checkpoint: a budget from the manifest, and all clusters.  *)
StartSession ==
    /\ phase \in Ended /\ sessions < MaxSessions
    /\ sessions' = sessions + 1
    /\ phase' = "next"
    /\ todo' = Items /\ cur' = NoItem
    /\ outcome' = [i \in Items |-> "open"]
    /\ calls' = [i \in Items |-> 0]
    /\ spent' = 0
    /\ UNCHANGED <<ladder, attempt, verdict, billed>>

EndSession ==
    /\ phase = "next" /\ todo = {}
    /\ phase' = "done"
    /\ UNCHANGED <<loop, ladder, attempt, verdict, outcome, money>>

(* invoke is called for the next cluster: two schema retries, one semantic.*)
TakeItem ==
    /\ phase = "next"
    /\ \E i \in todo : cur' = i /\ todo' = todo \ {i}
    /\ schemaLeft' = 2 /\ semanticLeft' = 1
    /\ phase' = "check"
    /\ UNCHANGED <<sessions, attempt, verdict, outcome, money>>

(* An exception that nothing around the loop turns into a cluster without  *)
(* a candidate: the session is over.                                       *)
Raise(how) ==
    /\ phase' = how
    /\ attempt' = 0
    /\ verdict' = "good"
    /\ UNCHANGED <<loop, ladder, outcome, money>>

(* Mutant: the loop is left where it should go on with the next cluster.   *)
MutDecide(result) ==
    /\ outcome' = [outcome EXCEPT ![cur] = result]
    /\ cur' = NoItem
    /\ phase' = "done"
    /\ verdict' = "good"
    /\ UNCHANGED <<sessions, todo, ladder, attempt, money>>

(* The item is decided and the loop goes on.                               *)
Decide(result) ==
    /\ outcome' = [outcome EXCEPT ![cur] = result]
    /\ cur' = NoItem
    /\ phase' = "next"
    /\ verdict' = "good"
    /\ UNCHANGED <<sessions, todo, ladder, attempt, money>>

(* The prompt is rendered again with a correction note.                    *)
Retry ==
    /\ phase' = "check"
    /\ verdict' = "good"
    /\ UNCHANGED <<loop, attempt, outcome, money>>

(* Mutant: a run that has spent its ceiling exactly is let through.        *)
MutWithinBudget(estimate) == spent + estimate <= Cap /\ spent <= Ceiling

(* Budget.check: the spend with the estimate against the stage's cap, and  *)
(* the spend so far, without the call to come, against the run's ceiling.  *)
WithinBudget(estimate) ==
    /\ spent + estimate <= Cap
    /\ spent < Ceiling

(* render, then ModelGateway.call up to the provider.                      *)
CheckBudget ==
    /\ phase = "check"
    /\ \E estimate \in 1 .. MaxEstimate :
          IF WithinBudget(estimate)
          THEN /\ phase' = "ask"
               /\ UNCHANGED <<loop, ladder, attempt, verdict, outcome, money>>
          ELSE Raise("budget")

(* Mutant: the attempts start over instead of ending.                      *)
MutProviderRefuses ==
    /\ phase = "ask"
    /\ attempt' = IF attempt < ProviderRetries THEN attempt + 1 ELSE 0
    /\ UNCHANGED <<loop, phase, ladder, verdict, outcome, money>>

(* _call_with_retry: a ModelProviderError is waited out and repeated.      *)
ProviderRefuses ==
    /\ phase = "ask"
    /\ IF attempt < ProviderRetries
       THEN /\ attempt' = attempt + 1
            /\ UNCHANGED <<loop, phase, ladder, verdict, outcome, money>>
       ELSE Raise("provider")

(* A rejected key, a lost connection: not a ModelProviderError, not retried.*)
ProviderBreaks == phase = "ask" /\ Raise("error")

(* The answer is charged whatever it is worth; then it is judged.          *)
ProviderAnswers ==
    /\ phase = "ask"
    /\ \E tokens \in 1 .. MaxAnswer, v \in Verdicts :
          /\ verdict' = v
          /\ spent' = spent + tokens
          /\ billed' = billed + tokens
    /\ calls' = [calls EXCEPT ![cur] = @ + 1]
    /\ attempt' = 0
    /\ phase' = "judge"
    /\ UNCHANGED <<loop, ladder, outcome>>

(* json.loads fails inside the gateway: the SchemaValidationFailed it      *)
(* raises is not in the try of invoke.                                     *)
JudgeNotJson == phase = "judge" /\ verdict = "notJson" /\ Raise("error")

JudgeSchema ==
    /\ phase = "judge" /\ verdict = "schema"
    /\ IF schemaLeft > 0
       THEN schemaLeft' = schemaLeft - 1 /\ UNCHANGED semanticLeft /\ Retry
       ELSE Decide("failed")

(* Mutant: a semantic retry starts with fresh schema retries.              *)
MutJudgeSemantic ==
    /\ phase = "judge" /\ verdict = "semantic"
    /\ IF semanticLeft > 0
       THEN semanticLeft' = semanticLeft - 1 /\ schemaLeft' = 2 /\ Retry
       ELSE Decide("failed")

JudgeSemantic ==
    /\ phase = "judge" /\ verdict = "semantic"
    /\ IF semanticLeft > 0
       THEN semanticLeft' = semanticLeft - 1 /\ UNCHANGED schemaLeft /\ Retry
       ELSE Decide("failed")

(* Mutant: the rejected cluster goes back into the session.                *)
MutJudgeGuardrail ==
    /\ phase = "judge" /\ verdict = "guardrail"
    /\ outcome' = [outcome EXCEPT ![cur] = "rejected"]
    /\ todo' = todo \union {cur} /\ cur' = NoItem
    /\ phase' = "next"
    /\ verdict' = "good"
    /\ UNCHANGED <<sessions, ladder, attempt, money>>

(* Zero retries; resume_after_checkpoint catches it and goes on.           *)
JudgeGuardrail == phase = "judge" /\ verdict = "guardrail" /\ Decide("rejected")

(* The top of the ladder: ctx.tools.write, and the output is returned.     *)
JudgeGood == phase = "judge" /\ verdict = "good" /\ Decide("ok")

-----------------------------------------------------------------------------
Invoke ==
    \/ TakeItem \/ CheckBudget \/ ProviderRefuses \/ ProviderBreaks \/ ProviderAnswers
    \/ JudgeNotJson \/ JudgeSchema \/ JudgeSemantic \/ JudgeGuardrail \/ JudgeGood
    \/ EndSession

Next == StartSession \/ Invoke

(* The thread that serves the submission runs until the session is over.   *)
Spec == Init /\ [][Next]_vars
FairSpec == Spec /\ WF_vars(Invoke)

-----------------------------------------------------------------------------
(* Properties.                                                             *)

(* The type invariant. *)
TypeOK ==
    /\ sessions \in Nat
    /\ phase \in Ended \union InItem \union {"next"}
    /\ todo \in SUBSET Items /\ cur \in Items \union {NoItem}
    /\ schemaLeft \in 0 .. 2 /\ semanticLeft \in 0 .. 1
    /\ attempt \in 0 .. ProviderRetries
    /\ verdict \in Verdicts
    /\ outcome \in [Items -> {"open", "ok", "failed", "rejected"}]
    /\ calls \in [Items -> Nat]
    /\ spent \in Nat /\ billed \in Nat

(* The retry table: whatever mixture of schema and semantic failures comes *)
(* back, one work item never costs more than four answers (one, two schema *)
(* retries, one semantic retry).                                           *)
FourAnswersPerItem == \A i \in Items : calls[i] <= 4

(* "A run cannot exceed its ceiling" (Budget), as far as the code keeps it:*)
(* within a session the spend ends up less than one answer above the cap   *)
(* of the stage and above the ceiling, although the check comes before the *)
(* call, with an estimate that may be short, and the charge after it.      *)
OvershootIsOneAnswer ==
    spent > 0 => spent < Cap + MaxAnswer /\ spent < Ceiling + MaxAnswer

(* "Retrying a guardrail breach trains nothing and wastes budget" (invoke),*)
(* and a work item that failed is terminal: a decided item is never asked  *)
(* about again and its decision stands until the session is over.          *)
DecidedIsFinal ==
    [][\A i \in Items :
          outcome[i] # "open" /\ sessions' = sessions
              => outcome'[i] = outcome[i] /\ calls'[i] = calls[i]]_vars

(* Provider retries, schema retries and semantic retries nest; together    *)
(* they still end: every session is over at some time.                     *)
SessionsEnd == phase \notin Ended ~> phase \in Ended

(* The loop as its caller sees it. *)
Synthesis == INSTANCE SynthesisLoop WITH
    mode <- IF phase \in {"off", "done"} THEN phase
            ELSE IF phase \in Ended THEN "broken" ELSE "on",
    todo <- todo \union ({cur} \ {NoItem}),
    made <- {i \in Items : outcome[i] = "ok"}

(* The ladder, the budget and the provider leave the loop as RunControl    *)
(* models it: each cluster decided once, with or without a candidate.      *)
ImplementsSynthesisLoop == Synthesis!Spec

(* "A run cannot exceed its ceiling": what the provider charged the run    *)
(* for, over all its submissions, stays within the cost ceiling.           *)
RunWithinCeiling == billed <= Ceiling
=============================================================================
