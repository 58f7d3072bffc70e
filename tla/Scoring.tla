------------------------------ MODULE Scoring ------------------------------
(***************************************************************************)
(* The pure functions stage S4 is made of: profiling (9.1), blocking keys  *)
(* (9.2), similarity (9.3) and the conflict taxonomy (9.5).                *)
(*                                                                         *)
(* An attribute record keeps what these functions tell apart.  A localName *)
(* is the sequence of its lower-case words (what the splitter returns), a  *)
(* parentPath the sequence of its segments, <<>> when there is none; an    *)
(* enumeration is the set of its upper-case values, and a constraint its   *)
(* kind, the key it bounds and the value.  Scores are integers: Unit       *)
(* stands for 1.0 of a feature and Full for 1.0 of the weighted sum, so    *)
(* every comparison with a threshold is exact.                             *)
(***************************************************************************)
EXTENDS Integers, Sequences, FiniteSets, Selection
LOCAL INSTANCE SequencesExt
LOCAL INSTANCE FiniteSetsExt

CONSTANTS
    Lemma,       \* word -> word, lemmatise where it changes a word
    Prefix,      \* word -> its first three letters
    Noise        \* cosine of two texts that differ, in Unit: a hash has no meaning

Unit == 60
Full == 2 * 100 * Unit

\* config/platform.yaml and ClusteringConfig: weights in hundredths.
Weight == [lexical |-> 27, embedding |-> 5, type |-> 20, constraints |-> 27,
           context |-> 21]
LinkThreshold == (Full * 72) \div 100
ReviewBandLow == (Full * 55) \div 100
TypeCompatibilityTable == {
    [pair |-> {"string"}, score |-> 60], [pair |-> {"date", "dateTime"}, score |-> 51],
    [pair |-> {"string", "date"}, score |-> 33],
    [pair |-> {"decimal", "integer"}, score |-> 42],
    [pair |-> {"string", "boolean"}, score |-> 18],
    [pair |-> {"object", "string"}, score |-> 6]}
Abbreviations ==
    [dt |-> "date", dttm |-> "dateTime", amt |-> "amount", nbr |-> "number",
     cd |-> "code", ind |-> "indicator", desc |-> "description",
     ref |-> "reference", no |-> "number", qty |-> "quantity",
     sinistre |-> "claim", police |-> "policy"]

TemporalTokens == {"date", "time", "timestamp", "at", "when", "occurred", "datetime"}
MonetaryTokens == {"amount", "reserve", "premium", "price", "cost", "fee",
                   "value", "sum", "total"}
Structural == {"object", "array"}
TypeFamily(t) ==
    CASE t = "string"                                     -> "text"
      [] t \in {"integer", "decimal"}                     -> "numeric"
      [] t = "boolean"                                    -> "flag"
      [] t \in {"date", "dateTime", "time", "duration"}   -> "temporal"
      [] t \in {"binary", "unknown"}                      -> "opaque"
      [] t \in Structural \union {"reference"}            -> "structural"

-----------------------------------------------------------------------------
(* Profiling: tokens, head noun and siblings of a record in its artefact.  *)
(* Its findings are transient: nothing in the pipeline reads them.          *)

Apply(f, w) == IF w \in DOMAIN f THEN f[w] ELSE w
CanonicalTokens(name, abbreviations, lemma) ==
    [i \in DOMAIN name |-> Apply(lemma, Apply(abbreviations, name[i]))]

HeadNoun(tokens, prefer) ==
    LET preferred == {i \in DOMAIN tokens : tokens[i] \in prefer}
    IN  IF tokens = <<>> THEN ""
        ELSE tokens[IF preferred = {} THEN Len(tokens) ELSE Max(preferred)]

\* The orchestrator groups the records of one artefact by parentPath.
Siblings(r, records) ==
    {s.name : s \in {s \in records : /\ s.artefact = r.artefact
                                     /\ s.path = r.path /\ s.id # r.id}}

\* The last two fields are what build_blocks derives from the record before it
\* groups: the head noun of the expanded name, and the coarse type key.
TypeNounTokens == Range(Abbreviations) \union TemporalTokens \union MonetaryTokens
BlockingHead(r) ==
    HeadNoun(CanonicalTokens(r.name, Abbreviations, Lemma), TypeNounTokens)
Profile(r, records) ==
    LET plain == [w \in {} |-> w]
        toks  == CanonicalTokens(r.name, plain, plain)
    IN  [record |-> r, tokens |-> toks, head |-> HeadNoun(toks, {}),
         byHead |-> BlockingHead(r),
         byType |-> <<TypeFamily(r.type), Apply(Prefix, BlockingHead(r))>>,
         family |-> TypeFamily(r.type), siblings |-> Siblings(r, records)]

-----------------------------------------------------------------------------
(* Blocking: sequences of attributes worth comparing pair by pair.         *)

\* The positions at which s has something for the first time.
Firsts(s) ==
    Where([i \in DOMAIN s |-> i], LAMBDA i : \A j \in 1..(i - 1) : s[j] # s[i])

\* A function Key from attributes to keys: the groups of a dictionary of lists,
\* in the order its keys were inserted, but for those of one attribute.
Group(Key, attrs, key) == Where(attrs, LAMBDA a : Key[a] = key)
GroupsBy(Key, attrs) ==
    LET keys   == [i \in DOMAIN attrs |-> Key[attrs[i]]]
        starts == Firsts(keys)
        groups == [i \in DOMAIN starts |-> Group(Key, attrs, keys[starts[i]])]
    IN  Where(groups, LAMBDA g : Len(g) > 1)

\* The block that just fits is cut to one less.
MutDedupeBlocks(blocks, max) ==
    [i \in DOMAIN blocks |-> IF Len(blocks[i]) < max THEN blocks[i]
                             ELSE SubSeq(SortSeq(blocks[i], <), 1, max - 1)]
\* Repeated member sets are dropped, and an oversized block is cut to the max
\* attributes whose ids sort first.
DedupeBlocks(blocks, max) ==
    LET Capped(b) == IF Len(b) <= max THEN b ELSE SubSeq(SortSeq(b, <), 1, max)
        kept      == Firsts([i \in DOMAIN blocks |-> Range(blocks[i])])
    IN  [i \in DOMAIN kept |-> Capped(blocks[kept[i]])]

-----------------------------------------------------------------------------
(* Similarity: five features and their weighted sum.                       *)

Jaccard(A, B) ==
    IF A \union B = {} THEN 0
    ELSE (Unit * Cardinality(A \intersect B)) \div Cardinality(A \union B)

PathSimilarity(p, q) ==
    IF p = <<>> \/ q = <<>> THEN 0 ELSE Jaccard(Range(p), Range(q))

TypeCompatibility(s, t) ==
    IF s = t THEN Unit
    ELSE LET rows == {e \in TypeCompatibilityTable : e.pair = {s, t}}
         IN  IF rows = {} THEN 0 ELSE (CHOOSE e \in rows : TRUE).score

EmbeddingSimilarity(a, b) == IF a.record.name = b.record.name THEN Unit ELSE Noise

Bounds(cs, key) == {c.value : c \in {c \in cs : c.key = key}}
Unbounded == {}

\* The ratio of two intervals, {} for a side without a bound; -1 stands for
\* None: one of them has no bound at all.
IntervalOverlap(alo, ahi, blo, bhi) ==
    LET low  == alo \union blo
        high == ahi \union bhi
        openLow   == alo = Unbounded /\ blo = Unbounded
        openHigh  == ahi = Unbounded /\ bhi = Unbounded
        width == Max(high) - Min(low)
        both  == Min(high) - Max(low)
    IN  IF alo \union ahi = {} \/ blo \union bhi = {} THEN -1
        ELSE IF openLow \/ openHigh THEN Unit
        ELSE IF Unbounded \in {alo, ahi, blo, bhi} THEN 0
        ELSE IF width = 0 THEN Unit
        ELSE (Unit * Max({0, both})) \div width

KindSimilarity(A, B, kind) ==
    LET a == {c \in A : c.kind = kind}
        b == {c \in B : c.kind = kind}
    IN  CASE kind = "range"  -> IntervalOverlap(Bounds(a, "minimum"), Bounds(a, "maximum"),
                                                Bounds(b, "minimum"), Bounds(b, "maximum"))
          [] kind = "length" -> IntervalOverlap(Bounds(a, "minLength"), Bounds(a, "maxLength"),
                                                Bounds(b, "minLength"), Bounds(b, "maxLength"))
          [] OTHER -> IF a = b THEN Unit ELSE 0

SumOf(f) == FoldFunction(+, 0, f)

PatternRangeSimilarity(A, B) ==
    LET shared == {c.kind : c \in A} \intersect {c.kind : c \in B}
        scored == {k \in shared : KindSimilarity(A, B, k) # -1}
    IN  IF A = {} /\ B = {} THEN Unit \div 2
        ELSE IF A = {} \/ B = {} THEN (3 * Unit) \div 10
        ELSE IF scored = {} THEN 0
        ELSE SumOf([k \in scored |-> KindSimilarity(A, B, k)])
                 \div Cardinality(scored)

ConstraintOverlap(r, s) ==
    IF r.enum # {} /\ s.enum # {} THEN Jaccard(r.enum, s.enum)
    ELSE PatternRangeSimilarity(r.constraints, s.constraints)

Similarity(a, b) ==
    2 * (  Weight.lexical     * Jaccard(Range(a.tokens), Range(b.tokens))
         + Weight.embedding   * EmbeddingSimilarity(a, b)
         + Weight.type        * TypeCompatibility(a.record.type, b.record.type)
         + Weight.constraints * ConstraintOverlap(a.record, b.record))
    + Weight.context * (  PathSimilarity(a.record.path, b.record.path)
                        + Jaccard(a.siblings, b.siblings))

-----------------------------------------------------------------------------
(* The conflict taxonomy: homonym signals of a group of records, and the   *)
(* class of a group that raises none.                                      *)

PairsIn(R) == {p \in R \X R : p[1].id < p[2].id}

TypeIncompatible(R) ==
    \E p \in PairsIn(R) : 100 * TypeCompatibility(p[1].type, p[2].type) < 35 * Unit

\* Intersection over union of all enumerations at once, 1 below two of them.
EnumValues(R)  == {r.enum : r \in {r \in R : r.enum # {}}}
EnumShared(R)  == {v \in UNION EnumValues(R) : \A E \in EnumValues(R) : v \in E}
AllHaveEnums(R) == \A r \in R : r.enum # {}
EnumOverlap(R) ==
    IF Cardinality({r \in R : r.enum # {}}) < 2 THEN Unit
    ELSE (Unit * Cardinality(EnumShared(R))) \div Cardinality(UNION EnumValues(R))
DisjointEnumerations(R) == AllHaveEnums(R) /\ EnumOverlap(R) = 0

\* The regions are collected and never compared: one region is enough.
HasMandatory(R) == \E r \in R : r.level = "mandatory"
HasAbsentInSiblingRegion(R) ==
    LET mandatory == {r.region : r \in {r \in R : r.level = "mandatory"}}
        others    == {r.region : r \in {r \in R : r.level # "mandatory"}}
    IN  mandatory # {} /\ others # {}
ObligationInversion(R) == HasMandatory(R) /\ HasAbsentInSiblingRegion(R)

DivergentParentContext(R) ==
    \E p \in PairsIn(R) :
        /\ p[1].path # <<>> /\ p[2].path # <<>>
        /\ 10 * (Unit - PathSimilarity(p[1].path, p[2].path)) > 8 * Unit

\* documentation-contradiction is a stub that never fires.
AnySignalFires(R) == \/ TypeIncompatible(R)
                     \/ DisjointEnumerations(R)
                     \/ ObligationInversion(R)
                     \/ DivergentParentContext(R)

\* A structural member whose head noun a scalar member shares.
GranularityConflict(P) ==
    \E p, q \in P : /\ p.record.type \in Structural
                    /\ q.record.type \notin Structural
                    /\ p.head = q.head

\* The first class that applies, strongest consequence first.
ClassifyConflict(P) ==
    LET R == {p.record : p \in P}
    IN  IF Cardinality(R) < 2 THEN "none"
        ELSE IF Cardinality({r.level : r \in R}) > 1 THEN "obligation"
        ELSE IF GranularityConflict(P) THEN "granularity"
        ELSE IF \E p \in PairsIn(R) : TypeCompatibility(p[1].type, p[2].type) < Unit
             THEN "type"
        ELSE IF AllHaveEnums(R) /\ EnumOverlap(R) > 0 /\ EnumOverlap(R) < Unit
             THEN "enumeration"
        ELSE "none"
=============================================================================
