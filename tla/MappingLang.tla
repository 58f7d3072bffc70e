---------------------------- MODULE MappingLang ----------------------------
(***************************************************************************)
(* The mapping language: its transforms (10.3), its parser (10.2), its     *)
(* compiler (10.4) and its interpreter (10.6), as pure functions.          *)
(*                                                                         *)
(* A value is a record whose fields are its Python type: [string], a text  *)
(* as a sequence of words; [number], booleans included, since True = 1; a  *)
(* [day] and an instant [day, hour, zone]; [amount, currency]; [value,      *)
(* scheme, issuer]; [parts] for an object taken apart; [list].  A date as   *)
(* text is one word, a date with a time two.  Arithmetic is exact: that a   *)
(* scale by 0.01 and back may move a float by its last bit is left out.    *)
(* A path is a name, and no path is the beginning of another.              *)
(***************************************************************************)
EXTENDS Integers, Sequences, FiniteSets, TLC
LOCAL INSTANCE SequencesExt
LOCAL INSTANCE FiniteSetsExt

CONSTANTS
    Days,       \* days there is a text for
    CaseMode,   \* mode -> (word -> word), where it changes the word
    Numerals,   \* the texts float() reads, with the number it reads
    Offset,     \* zone -> hours ahead of UTC
    Patterns,   \* pattern -> (text -> parts) for the texts it matches
    Templates   \* template -> (fields -> text) for the objects that have its fields

Null == [null |-> TRUE]
Fail == [error |-> TRUE]    \* TransformError
Crash == [crash |-> TRUE]    \* TypeError: an argument the function needs is missing

Is(v, field) == field \in DOMAIN v
DayWord(d) == "D" \o ToString(d)
HourWord(h) == "T" \o ToString(h)
TextOf(d, h, fmt) == IF fmt = "day" THEN <<DayWord(d)>> ELSE <<DayWord(d), HourWord(h)>>

-----------------------------------------------------------------------------
(* The closed library.  A lossy transform or one without reverse shows in   *)
(* what a plan declares.                                                   *)

T(requires, reversible, lossy) ==
    [requires |-> requires, reversible |-> reversible, lossy |-> lossy]
TRANSFORMS ==
    [identity            |-> T({}, TRUE, FALSE),
     parseDate           |-> T({"fmt"}, TRUE, TRUE),
     formatDate          |-> T({"fmt"}, TRUE, FALSE),
     instantAtStartOfDay |-> T({"zone"}, TRUE, TRUE),
     valueMap            |-> T({"map"}, TRUE, FALSE),
     toMonetaryAmount    |-> T({"currency"}, TRUE, FALSE),
     toIdentifier        |-> T({"scheme", "issuer"}, TRUE, FALSE),
     decompose           |-> T({"pattern"}, TRUE, FALSE),
     compose             |-> T({"template"}, TRUE, FALSE),
     concat              |-> T({"separator"}, TRUE, FALSE),
     coalesce            |-> T({}, FALSE, FALSE),
     constant            |-> T({"const"}, FALSE, FALSE),
     scale               |-> T({"factor"}, TRUE, FALSE),
     normaliseCase       |-> T({"mode"}, TRUE, TRUE)]

Str(w) == [string |-> w]
Arg(call, name, default) == IF name \in DOMAIN call.args THEN call.args[name] ELSE default

ParseDate(v, fmt, zone) ==
    LET hours == IF fmt = "day" THEN {0} ELSE 0..23
        read  == {dh \in Days \X hours : Is(v, "string") /\ v.string = TextOf(dh[1], dh[2], fmt)}
    IN  IF read = {} THEN Fail
        ELSE LET dh == CHOOSE dh \in read : TRUE
             IN  IF zone = "" THEN [day |-> dh[1]]
                 ELSE [day |-> dh[1], hour |-> dh[2], zone |-> zone]
FormatDate(v, fmt) ==
    IF Is(v, "day") THEN Str(TextOf(v.day, IF Is(v, "hour") THEN v.hour ELSE 0, fmt)) ELSE Fail
InstantAtStartOfDay(v, zone) ==
    IF Is(v, "day") /\ ~Is(v, "hour") THEN [day |-> v.day, hour |-> 0, zone |-> zone] ELSE Fail
\* The date in the zone of the call, whatever zone the instant was written in.
ToLocalDate(v, zone) ==
    IF Is(v, "hour")
    THEN [day |-> v.day + (v.hour + Offset[zone] - Offset[v.zone]) \div 24] ELSE Fail

\* Pairs in the order of the mapping: of two with one key the later counts.
Lookup(pairs, from, to, v, passthrough) ==
    LET hits == {i \in DOMAIN pairs : Is(v, "string") /\ pairs[i][from] = v.string}
    IN  IF hits # {} THEN Str(pairs[Max(hits)][to])
        ELSE IF Is(v, "string") /\ passthrough THEN v ELSE Fail

ToMonetaryAmount(v, currency) ==
    IF Is(v, "number") THEN [amount |-> v.number, currency |-> currency]
    ELSE IF Is(v, "string") /\ v.string \in DOMAIN Numerals
         THEN [amount |-> Numerals[v.string], currency |-> currency] ELSE Fail
AmountOf(v) == IF Is(v, "amount") THEN [number |-> v.amount] ELSE Fail
ToIdentifier(v, scheme, issuer) ==
    IF Is(v, "string") THEN [value |-> v.string, scheme |-> scheme, issuer |-> issuer] ELSE Fail
ValueOf(v) == IF Is(v, "value") THEN Str(v.value) ELSE Fail

Decompose(v, pattern) ==
    IF pattern # "" /\ Is(v, "string") /\ v.string \in DOMAIN Patterns[pattern]
    THEN [parts |-> Patterns[pattern][v.string]] ELSE Fail
\* An amount and an identifier are dicts too.
Fields(v) == IF Is(v, "parts") THEN v.parts ELSE v
Compose(v, template) ==
    IF /\ template # "" /\ (Is(v, "parts") \/ Is(v, "amount") \/ Is(v, "value"))
       /\ Fields(v) \in DOMAIN Templates[template]
    THEN Str(Templates[template][Fields(v)]) ELSE Fail

Concat(v, separator) ==
    IF Is(v, "list") THEN Str(FoldLeft(LAMBDA acc, w : IF acc = <<>> THEN w ELSE acc \o <<separator>> \o w,
                                       <<>>, v.list)) ELSE Fail
SplitWords(w, separator) ==
    LET ends   == {0, Len(w) + 1} \union {i \in DOMAIN w : w[i] = separator}
        starts == SetToSortSeq(ends \ {Len(w) + 1}, <)
        End(i) == Min({e \in ends : e > i})
    IN  [k \in DOMAIN starts |-> SubSeq(w, starts[k] + 1, End(starts[k]) - 1)]
Split(v, separator) == IF Is(v, "string") THEN [list |-> SplitWords(v.string, separator)] ELSE Fail
Coalesce(v) ==
    IF ~Is(v, "list") THEN Fail
    ELSE IF v.list = <<>> THEN Fail ELSE Str(Head(v.list))

Scale(v, factor) == IF Is(v, "number") THEN [number |-> v.number * factor] ELSE Fail
Unscale(v, factor) ==
    IF Is(v, "number") /\ factor # 0 THEN [number |-> v.number \div factor] ELSE Fail
NormaliseCase(v, mode) ==
    IF Is(v, "string") /\ mode \in DOMAIN CaseMode
    THEN Str([i \in DOMAIN v.string |->
                IF v.string[i] \in DOMAIN CaseMode[mode] THEN CaseMode[mode][v.string[i]]
                ELSE v.string[i]])
    ELSE Fail

\* Every function gets the arguments its call was written with, both ways; a
\* failure passes through.
ForwardOf(call, v) ==
    LET n == call.name   a == call.args
    IN  IF v \in {Fail, Crash} THEN v
        ELSE IF ~(TRANSFORMS[n].requires \subseteq DOMAIN a) THEN Crash
        ELSE CASE n = "identity"            -> v
               [] n = "parseDate"           -> ParseDate(v, a.fmt, Arg(call, "zone", ""))
               [] n = "formatDate"          -> FormatDate(v, a.fmt)
               [] n = "instantAtStartOfDay" -> InstantAtStartOfDay(v, a.zone)
               [] n = "valueMap"            -> Lookup(call.resolved, 1, 2, v, call.passthrough)
               [] n = "toMonetaryAmount"    -> ToMonetaryAmount(v, a.currency)
               [] n = "toIdentifier"        -> ToIdentifier(v, a.scheme, a.issuer)
               [] n = "decompose"           -> Decompose(v, a.pattern)
               [] n = "compose"             -> Compose(v, a.template)
               [] n = "concat"              -> Concat(v, a.separator)
               [] n = "coalesce"            -> Coalesce(v)
               [] n = "constant"            -> a.const
               [] n = "scale"               -> Scale(v, a.factor)
               [] n = "normaliseCase"       -> NormaliseCase(v, a.mode)
ReverseOf(call, v) ==
    LET n == call.name   a == call.args
    IN  IF v \in {Fail, Crash} \/ n \in {"identity", "normaliseCase"} THEN v
        ELSE IF ~(TRANSFORMS[n].requires \subseteq DOMAIN a) THEN Crash
        ELSE CASE n = "parseDate"           -> FormatDate(v, a.fmt)
               [] n = "formatDate"          -> ParseDate(v, a.fmt, "")
               [] n = "instantAtStartOfDay" -> ToLocalDate(v, a.zone)
               [] n = "valueMap"            -> Lookup(call.resolved, 2, 1, v, call.passthrough)
               [] n = "toMonetaryAmount"    -> AmountOf(v)
               [] n = "toIdentifier"        -> ValueOf(v)
               [] n = "decompose"           -> Compose(v, Arg(call, "template", ""))
               [] n = "compose"             -> Decompose(v, Arg(call, "pattern", ""))
               [] n = "concat"              -> Split(v, a.separator)
               [] n = "scale"               -> Unscale(v, a.factor)
               [] OTHER                     -> Fail   \* coalesce, constant

\* A chain is applied from its first call to its last, or back.
ApplyCall(dir, call, v) == IF dir = "forward" THEN ForwardOf(call, v) ELSE ReverseOf(call, v)
CallAt(dir, chain, k) == IF dir = "forward" THEN chain[k] ELSE chain[Len(chain) + 1 - k]
Through(dir, chain, v) ==
    LET at[k \in 0..Len(chain)] ==
            IF k = 0 THEN v ELSE ApplyCall(dir, CallAt(dir, chain, k), at[k - 1])
    IN  at[Len(chain)]

-----------------------------------------------------------------------------
(* The parser.  A transform line is its calls as written: a name and, for   *)
(* each argument, a keyword ("" for none) and a literal, [constant] when    *)
(* the literal is wrapped.                                                 *)

MAX_CHAIN_LENGTH == 3
Literal(v) == IF "constant" \in DOMAIN v THEN v.constant ELSE v.literal
WellFormed(call) ==
    \A i \in DOMAIN call.args : call.args[i].key = "" =>
        /\ call.name = "constant"
        /\ \A j \in 1..(i - 1) : call.args[j].key # ""
Keyword(arg) == IF arg.key = "" THEN "const" ELSE arg.key
ParseCall(call) ==
    [name |-> call.name,
     args |-> [k \in {Keyword(a) : a \in Range(call.args)} |->
                 Literal(call.args[Max({i \in DOMAIN call.args : Keyword(call.args[i]) = k})].value)]]
Parses(line) == Len(line) <= MAX_CHAIN_LENGTH /\ \A i \in DOMAIN line : WellFormed(line[i])
ParseTransform(line) == [i \in DOMAIN line |-> ParseCall(line[i])]

-----------------------------------------------------------------------------
(* The compiler.  An entry is [region, canonical, transform, disposition,   *)
(* weight, onFailure, note, evidence], with "" where it has none.           *)

CRITICAL_WEIGHT == 5
SilentFailures == {"skip", "default"}
OnFailure(e) == IF e.onFailure = "" THEN "escalate" ELSE e.onFailure
Disposed(e) == e.disposition # ""
Chain(e) == ParseTransform(e.transform)

StaticOutputType ==
    [formatDate |-> "string", instantAtStartOfDay |-> "dateTime", valueMap |-> "string",
     toMonetaryAmount |-> "MonetaryAmount", toIdentifier |-> "Identifier",
     decompose |-> "object", compose |-> "string", concat |-> "string",
     scale |-> "decimal", normaliseCase |-> "string", constant |-> ""]
WideningPairs == {<<"date", "dateTime">>, <<"integer", "decimal">>, <<"decimal", "integer">>,
                  <<"MonetaryAmount", "object">>, <<"Identifier", "object">>}
\* "" is a type nobody knows.
TypeAfter(call, type) ==
    IF call.name = "parseDate" THEN IF "zone" \in DOMAIN call.args THEN "dateTime" ELSE "date"
    ELSE IF call.name \in DOMAIN StaticOutputType THEN StaticOutputType[call.name]
    ELSE type   \* identity, coalesce
InferOutputType(chain, source) ==
    LET at[k \in 0..Len(chain)] == IF k = 0 THEN source ELSE TypeAfter(chain[k], at[k - 1])
    IN  at[Len(chain)]
\* The check of types lets every object pass for a MonetaryAmount.
MutTypeCompatible(produced, expected) ==
    produced \in {"", expected} \/ <<produced, expected>> \in WideningPairs
    \/ expected = "MonetaryAmount"
TypeCompatible(produced, expected) ==
    produced \in {"", expected} \/ <<produced, expected>> \in WideningPairs

RecordAt(ir, path) == {r \in ir : r.path = path}
SourceType(ir, path) ==
    IF RecordAt(ir, path) = {} THEN "" ELSE (CHOOSE r \in RecordAt(ir, path) : TRUE).type
DeclaredValues(ir, path) == UNION {Range(r.enum) : r \in RecordAt(ir, path)}
Column(map, i) == {map.pairs[k][i] : k \in DOMAIN map.pairs}

\* T2 forgets that a default is as silent as a skip.
MutWeightRule(e) == e.weight >= CRITICAL_WEIGHT /\ OnFailure(e) = "skip"
WeightRule(e) == e.weight >= CRITICAL_WEIGHT /\ OnFailure(e) \in SilentFailures
\* T4 looks for the declared values among the targets of the map.
MutUnmapped(ir, e, map) == DeclaredValues(ir, e.region) \ Column(map, 2)
Unmapped(ir, e, map) == DeclaredValues(ir, e.region) \ Column(map, 1)
Injective(map) == Cardinality(Column(map, 1)) = Cardinality(Column(map, 2))

MapErrors(spec, ir, e, call) ==
    LET id == Arg(call, "map", "")
    IN  IF id = "" \/ id \notin DOMAIN spec.valueMaps THEN {"T4-unknown"}
        ELSE LET map == spec.valueMaps[id]
             IN  {x \in {"T4-unmapped"} : Unmapped(ir, e, map) # {} /\ map.unmapped = ""}
                 \union {x \in {"T4-injective"} : spec.direction = "bidirectional" /\ ~Injective(map)}
EntryErrors(spec, ir, canonicalTypes, e) ==
    LET chain == Chain(e)
    IN  {x \in {"T2"} : WeightRule(e)}
        \union {x \in {"T3"} : /\ e.canonical \in DOMAIN canonicalTypes
                               /\ ~TypeCompatible(InferOutputType(chain, SourceType(ir, e.region)),
                                                  canonicalTypes[e.canonical])}
        \union UNION {MapErrors(spec, ir, e, c) : c \in {c \in Range(chain) : c.name = "valueMap"}}
        \union {x \in {"D1"} : /\ spec.direction = "bidirectional"
                               /\ \E c \in Range(chain) : ~TRANSFORMS[c.name].reversible}
CompileErrors(spec, ir, canonicalTypes) ==
    LET Mapped == {e \in Range(spec.mappings) : ~Disposed(e)}
    IN  {x \in {"T1"} : \E r \in ir : \A e \in Range(spec.mappings) : e.region # r.path}
        \union {x \in {"PARSE"} : \E e \in Mapped : ~Parses(e.transform)}
        \union UNION {EntryErrors(spec, ir, canonicalTypes, e) : e \in {e \in Mapped : Parses(e.transform)}}

ResolveValueMaps(spec, chain) ==
    [i \in DOMAIN chain |->
        IF chain[i].name # "valueMap" THEN chain[i]
        ELSE LET map == spec.valueMaps[chain[i].args["map"]]
             IN  [name |-> chain[i].name, args |-> chain[i].args, resolved |-> map.pairs,
                  passthrough |-> map.unmapped = "passthrough"]]
StepOf(spec, e) ==
    LET chain == IF Disposed(e) THEN <<>> ELSE ResolveValueMaps(spec, Chain(e))
        reversible == \A c \in Range(chain) : TRANSFORMS[c.name].reversible
        lossy == \E c \in Range(chain) : TRANSFORMS[c.name].lossy
    IN  IF Disposed(e)
        THEN [canonical |-> "", region |-> e.region, chain |-> chain, disposed |-> TRUE,
              onFailure |-> "escalate", weight |-> e.weight, reversible |-> FALSE,
              loss |-> "", note |-> e.note]
        ELSE [canonical |-> e.canonical, region |-> e.region, chain |-> chain, disposed |-> FALSE,
              onFailure |-> OnFailure(e), weight |-> e.weight, reversible |-> reversible,
              loss |-> IF ~reversible THEN "undefined-reverse"
                       ELSE IF lossy /\ e.note # "" THEN "precision" ELSE "",
              note |-> e.note]
BuildPlan(spec) == [i \in DOMAIN spec.mappings |-> StepOf(spec, spec.mappings[i])]

-----------------------------------------------------------------------------
(* The interpreter: a walk over the steps that carries what it has written, *)
(* the steps it escalated, and whether it was stopped.                     *)

Empty == [p \in {} |-> Null]
ReadPath(instance, path) == IF path \in DOMAIN instance THEN instance[path] ELSE Null
WritePath(out, path, v) ==
    IF path = "" THEN out
    ELSE [p \in DOMAIN out \union {path} |-> IF p = path THEN v ELSE out[p]]

Nothing == [out |-> Empty, escalated |-> {}, stopped |-> ""]
Handle(walk, i, step, target) ==
    CASE step.onFailure = "reject"   -> [walk EXCEPT !.stopped = "rejected"]
      [] step.onFailure = "escalate" -> [walk EXCEPT !.escalated = @ \union {i}]
      [] step.onFailure = "default"  -> [walk EXCEPT !.out = WritePath(@, target, Null)]
      [] step.onFailure = "skip"     -> walk
Settle(walk, i, step, target, v) ==
    IF v = Crash THEN [walk EXCEPT !.stopped = "crashed"]
    ELSE IF v = Fail THEN Handle(walk, i, step, target)
    ELSE [walk EXCEPT !.out = WritePath(@, target, v)]

\* A direction reads one path of a step and writes the other.
Source(dir, step) == IF dir = "forward" THEN step.region ELSE step.canonical
Target(dir, step) == IF dir = "forward" THEN step.canonical ELSE step.region
Taken(dir, step) == ~step.disposed /\ (dir = "reverse" => step.reversible)
Produced(dir, step, in) == Through(dir, step.chain, ReadPath(in, Source(dir, step)))

Walk(dir, plan, in) ==
    LET walk[i \in 0..Len(plan)] ==
            IF i = 0 THEN Nothing
            ELSE IF walk[i - 1].stopped # "" \/ ~Taken(dir, plan[i]) THEN walk[i - 1]
            ELSE Settle(walk[i - 1], i, plan[i], Target(dir, plan[i]), Produced(dir, plan[i], in))
    IN  walk[Len(plan)]
ForwardPlan(plan, instance) == Walk("forward", plan, instance)
ReversePlan(plan, canonical) == Walk("reverse", plan, canonical)

\* What a region instance and its return from the canonical side differ in.
Losses(plan, instance, back) ==
    {[path |-> plan[i].region, weight |-> plan[i].weight, declared |-> plan[i].loss # ""] :
        i \in {i \in DOMAIN plan : /\ ~plan[i].disposed /\ plan[i].region # ""
                                   /\ ReadPath(instance, plan[i].region) # ReadPath(back, plan[i].region)}}
=============================================================================
