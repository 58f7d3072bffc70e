---------------------------- MODULE MappingRun -----------------------------
(***************************************************************************)
(* One mapping specification from its proposal to its use: written by the   *)
(* Mapping Generator or by hand, compiled into a plan, proved by a suite of *)
(* round trips on synthesised instances, then applied to an instance the    *)
(* region's contract allows.                                               *)
(*                                                                         *)
(* An attribute record is [path, type, enum]; the suite gives every         *)
(* attribute of one case the SAME seed, a region gives each its own.       *)
(***************************************************************************)
EXTENDS MappingLang
LOCAL INSTANCE SequencesExt

CONSTANTS
    Irs,         \* region contracts: sets of attribute records
    Specs,       \* specifications as proposed
    CanonicalTypes,  \* what is known of the canonical types: path -> type
    N,           \* cases of a suite (24 in the code)
    Seeds        \* seeds of the values a region may hold

\* What the region's contract and the schema of a specification let in: every
\* attribute has a path, and its own; a value that is read from a line is a
\* text, a number or a truth value.
IsContract(i) ==
    /\ \A r \in i : r.path # "" /\ r.enum \in Seq(Range(r.enum))
    /\ \A r, s \in i : r.path = s.path => r = s
IsEntry(e) ==
    /\ e.onFailure \in {"", "reject", "escalate", "default", "skip"}
    /\ e.transform \in Seq(Range(e.transform))
    /\ \A c \in Range(e.transform) :
          /\ c.args \in Seq(Range(c.args))
          /\ c.name = "constant" =>
                \A a \in Range(c.args) : DOMAIN Literal(a.value) \in {{"string"}, {"number"}}
IsSpecification(s) ==
    /\ s.mappings \in Seq(Range(s.mappings)) /\ \A e \in Range(s.mappings) : IsEntry(e)
    /\ \A m \in DOMAIN s.valueMaps :
          s.valueMaps[m].pairs \in Seq(Range(s.valueMaps[m].pairs))

ASSUME MappingAssumption ==
    /\ N \in Nat \ {0} /\ Seeds \subseteq Nat
    /\ \A i \in Irs : IsContract(i)
    /\ \A s \in Specs : IsSpecification(s)

VARIABLES
    stage,       \* where the specification stands
    ir, spec, canonicalTypes,
    plan,        \* the compiled steps
    seed,        \* cases run
    undeclared,  \* the seeds whose case lost something nobody declared
    escalations, \* plan.escalations, never emptied: <<run, direction, step>>
    instance,    \* the instance applied, and what came of it
    forward, back

mappingVars == <<stage, ir, spec, canonicalTypes, plan, seed, undeclared, escalations,
          instance, forward, back>>

MappingInit ==
    /\ stage = "proposed"
    /\ ir \in Irs /\ spec \in Specs /\ canonicalTypes \in CanonicalTypes
    /\ plan = <<>> /\ seed = 0 /\ undeclared = {} /\ escalations = {}
    /\ instance = Empty /\ forward = Nothing /\ back = Nothing

-----------------------------------------------------------------------------
(* The guardrails of the Mapping Generator, and invariant I5 of a contract.  *)

Totality == \A r \in ir : \E e \in Range(spec.mappings) : e.region = r.path
Proposed(e) == e.transform # <<>>
KnownNames(e) == \A c \in Range(e.transform) : c.name \in DOMAIN TRANSFORMS
ClosedVocabulary ==
    \A e \in Range(spec.mappings) : Proposed(e) => Parses(e.transform) /\ KnownNames(e)
NoSilentCritical ==
    \A e \in Range(spec.mappings) : e.weight >= CRITICAL_WEIGHT => e.onFailure \notin SilentFailures
LossesNoted ==
    \A e \in Range(spec.mappings) : Proposed(e) /\ Parses(e.transform) =>
        \/ e.note # ""
        \/ \A c \in Range(e.transform) : c.name \in DOMAIN TRANSFORMS => ~TRANSFORMS[c.name].lossy
EvidenceCited == \A e \in Range(spec.mappings) : e.evidence # {}
Guardrails == Totality /\ ClosedVocabulary /\ NoSilentCritical /\ LossesNoted /\ EvidenceCited
Disposition == \A e \in Range(spec.mappings) : Proposed(e) # Disposed(e)

Unchanged(names) == UNCHANGED <<ir, spec, canonicalTypes>> /\ UNCHANGED names
Later == <<plan, seed, undeclared, escalations, instance, forward, back>>

\* The generator hands over what its guardrails and the contract let through,
\* a person what the contract lets through.
Generate ==
    /\ stage = "proposed"
    /\ stage' = IF Guardrails /\ Disposition THEN "compiling" ELSE "refused"
    /\ Unchanged(Later)
Author ==
    /\ stage = "proposed" /\ Disposition /\ EvidenceCited
    /\ stage' = "compiling"
    /\ Unchanged(Later)

-----------------------------------------------------------------------------
\* A name outside the library is a KeyError, met where a check or the plan
\* looks it up: the reverse check of a bidirectional specification looks it up
\* even when there are errors, the plan only when there are none.
Unknown ==
    \E e \in Range(spec.mappings) : ~Disposed(e) /\ Parses(e.transform) /\ ~KnownNames(e)
CompileSpec ==
    /\ stage = "compiling"
    /\ IF Unknown
       THEN \* The errors that need no name are found all the same.
            /\ stage' = IF spec.direction = "bidirectional" THEN "crashed"
                        ELSE IF CompileErrors(spec, ir, canonicalTypes) # {} THEN "rejected"
                        ELSE "crashed"
            /\ Unchanged(Later)
       ELSE IF CompileErrors(spec, ir, canonicalTypes) # {}
       THEN stage' = "rejected" /\ Unchanged(Later)
       ELSE /\ stage' = "testing" /\ plan' = BuildPlan(spec)
            /\ Unchanged(<<seed, undeclared, escalations, instance, forward, back>>)

-----------------------------------------------------------------------------
(* The round trips.                                                        *)

SynthValue(r, n) ==
    CASE r.enum # <<>>        -> Str(r.enum[(n % Len(r.enum)) + 1])
      [] r.enum = <<>> /\ r.type = "date"     -> Str(TextOf(n, 0, "day"))
      [] r.enum = <<>> /\ r.type = "dateTime" -> Str(TextOf(n, n % 24, "time"))
      [] r.enum = <<>> /\ r.type \in {"integer", "decimal"} -> [number |-> n + 1]
      [] r.enum = <<>> /\ r.type = "boolean"  -> [number |-> (n + 1) % 2]
      [] OTHER                -> Str(<<r.path \o ToString(n)>>)

\* The instance in which each attribute takes the value of its seed.
SynthesiseInstance(seeds) ==
    [p \in {r.path : r \in ir} |->
        LET r == CHOOSE r \in ir : r.path = p IN SynthValue(r, seeds[p])]
\* Every case is synthesised from the same seed.
MutSameSeed(n) == [p \in {r.path : r \in ir} |-> 0]
SameSeed(n) == [p \in {r.path : r \in ir} |-> n]

Escalated(run, direction, walk) == {<<run, direction, i>> : i \in walk.escalated}
StoppedAs(walk) == IF walk.stopped = "rejected" THEN "failed" ELSE "crashed"

\* A rejection or a missing argument leaves the generator of cases at once.
RunCase ==
    /\ stage = "testing" /\ seed < N
    /\ LET in  == SynthesiseInstance(SameSeed(seed))
           fwd == ForwardPlan(plan, in)
           rev == ReversePlan(plan, fwd.out)
           esc == escalations \union Escalated(seed, "forward", fwd)
       IN  IF fwd.stopped # ""
           THEN /\ stage' = StoppedAs(fwd) /\ escalations' = esc
                /\ Unchanged(<<plan, seed, undeclared, instance, forward, back>>)
           ELSE IF rev.stopped # ""
           THEN /\ stage' = StoppedAs(rev)
                /\ escalations' = esc \union Escalated(seed, "reverse", rev)
                /\ Unchanged(<<plan, seed, undeclared, instance, forward, back>>)
           ELSE /\ seed' = seed + 1
                /\ escalations' = esc \union Escalated(seed, "reverse", rev)
                /\ undeclared' = IF \E l \in Losses(plan, in, rev.out) : ~l.declared
                                 THEN undeclared \union {seed} ELSE undeclared
                /\ Unchanged(<<stage, plan, instance, forward, back>>)

\* RoundTripFailure, or the cases that are summarised with the plan's losses.
JudgeSuite ==
    /\ stage = "testing" /\ seed = N
    /\ stage' = IF undeclared # {} THEN "failed" ELSE "passed"
    /\ Unchanged(Later)

\* The plan used there and back on an instance of the region.  A plan that
\* stops on the way there does not come back.
Apply ==
    /\ stage = "passed"
    /\ \E seeds \in [{r.path : r \in ir} -> Seeds] :
        LET in  == SynthesiseInstance(seeds)
            fwd == ForwardPlan(plan, in)
            rev == IF fwd.stopped = "" THEN ReversePlan(plan, fwd.out) ELSE Nothing
        IN  /\ instance' = in /\ forward' = fwd /\ back' = rev
            /\ escalations' = escalations \union Escalated(N, "forward", fwd)
                                          \union Escalated(N, "reverse", rev)
    /\ stage' = "applied"
    /\ Unchanged(<<plan, seed, undeclared>>)

Done == stage \in {"refused", "rejected", "failed", "crashed", "applied"} /\ UNCHANGED mappingVars

MappingNext == Generate \/ Author \/ CompileSpec \/ RunCase \/ JudgeSuite \/ Apply \/ Done

\* Every step is a call in one thread that returns.
MappingSpec == MappingInit /\ [][MappingNext]_mappingVars

-----------------------------------------------------------------------------
(* Properties.                                                             *)

Steps == DOMAIN plan
Writers(c) == {i \in Steps : ~plan[i].disposed /\ plan[i].canonical = c}
Alone(i) == /\ Writers(plan[i].canonical) = {i}
            /\ \A j \in Steps \ {i} : plan[j].disposed \/ plan[j].region # plan[i].region

\* What a weight-5 attribute says is never dropped without a trace: a plan
\* that compiled writes it, escalates it, or stops (T2 of compile_spec and
\* the dispatch of Plan._handle agree).  An entry that transforms the
\* attribute to no path at all, which C10 allows, only passes its suite when
\* the plan declares the loss.
NoSilentLoss ==
    stage = "applied" /\ forward.stopped = "" =>
        \A i \in Steps :
            /\ ~plan[i].disposed /\ plan[i].weight >= CRITICAL_WEIGHT
            /\ plan[i].region \in DOMAIN instance /\ Alone(i)
            => \/ <<N, "forward", i>> \in escalations
               \/ ReadPath(forward.out, plan[i].canonical) # Null
               \/ plan[i].canonical = "" /\ plan[i].loss # ""

\* Of an attribute without enumeration the suite has met the instance's value.
SuiteSaw ==
    \A r \in ir : r.enum = <<>> => \E n \in 0..(N - 1) : instance[r.path] = SynthValue(r, n)

\* The suite is enough for attributes that do not meet: a passed plan that
\* gives every attribute its own paths brings back every combination of
\* enumerated values (no enumeration longer than the suite) and of other values
\* the suite has met, although the suite saw only instances in which all the
\* seeds are the same.  Of a value it never met, such as a text that a pattern
\* does not match, a passed suite says nothing.
PassedPlansReverse ==
    /\ stage = "applied" /\ SuiteSaw
    /\ \A i \in Steps : plan[i].disposed \/ Alone(i)
    /\ \A r \in ir : Len(r.enum) <= N
    => /\ forward.stopped = "" /\ back.stopped = ""
       /\ \A l \in Losses(plan, instance, back.out) : l.declared

KindOf(v) ==
    CASE Is(v, "amount") -> {"MonetaryAmount", "object"}
      [] Is(v, "value")  -> {"Identifier", "object"}
      [] Is(v, "parts")  -> {"object"}
      [] Is(v, "number") -> {"integer", "decimal", "boolean"}
      [] Is(v, "string") -> {"string"}
      [] Is(v, "list")   -> {"array"}
      [] Is(v, "day")    -> IF Is(v, "hour") THEN {"dateTime"} ELSE {"date", "dateTime"}
      [] OTHER           -> {}

\* The types the compiler infers are the types the interpreter produces: what
\* lies at a canonical path of known type is null or of that type, when every
\* chain that writes there fixes its own output type (T3 of compile_spec).
TypeInferenceSound ==
    stage = "applied" =>
        \A c \in DOMAIN canonicalTypes \cap DOMAIN forward.out :
            (\A i \in Writers(c) : InferOutputType(plan[i].chain, "") # "")
                => \/ forward.out[c] = Null
                   \/ canonicalTypes[c] \in KindOf(forward.out[c])

\* A value map without a policy for other values that got past T4 never meets
\* one: on the values the contract declares it decides, there and, from
\* where it wrote to, back.
CompiledMapsDecide ==
    \A x \in escalations :
        LET step == plan[x[3]]
        IN  ~ /\ Len(step.chain) = 1 /\ step.chain[1].name = "valueMap"
              /\ spec.valueMaps[step.chain[1].args["map"]].unmapped = ""
              /\ DeclaredValues(ir, step.region) # {} /\ Alone(x[3])
              /\ x[2] = "forward" \/ step.canonical # ""

\* ASSERTION of the round-trip suite: "no attribute with weight >= 5 is lost
\* region -> canonical -> region".
NoCriticalLoss ==
    stage = "applied" =>
        \A l \in Losses(plan, instance, back.out) : l.weight >= CRITICAL_WEIGHT => l.declared
=============================================================================
