----------------------------- MODULE IntakeProofs -----------------------------
(***************************************************************************)
(* Proofs about the intake: what the egress policy decides, for every set  *)
(* of labels and licence; what the replace-all leaves of a text; and, for  *)
(* every history of the sources, every answer of the Scout and any number  *)
(* of assemblies, that what is admitted is fit to leave and is of one      *)
(* commit.                                                                 *)
(***************************************************************************)
EXTENDS Intake, SelectionProofs, FiniteSetTheorems
LOCAL INSTANCE SequencesExt
SQT == INSTANCE SequenceTheorems

-----------------------------------------------------------------------------
(* The policy.  The ladder and the rules of policy.yaml are two            *)
(* descriptions of one decision, kept in two files: the gate takes the     *)
(* verdict of the one when the other admits, so they must agree on what is *)
(* blocked.                                                                *)
LEMMA RulesAre ==
    /\ DOMAIN Rules = 1..4
    /\ Rules[1] = Rule("allow-structural", {"STRUCTURAL"}, {}, Dispositions, "allow")
    /\ Rules[2] = Rule("allow-documentary-masked",
                       {"STRUCTURAL", "DOCUMENTARY", "IDENTIFYING", "SAMPLE_VALUE"},
                       {}, Dispositions, "allow")
    /\ Rules[3] = Rule("block-personal", Labels, {"PERSONAL_DATA", "SENSITIVE_DOMAIN"},
                       Dispositions, "block")
    /\ Rules[4] = Rule("block-unlicensed", Labels, {}, {"prohibited", "unknown"}, "block")
<1> HIDE DEF Rule
<1> QED
  BY DEF Rules

(* Nothing is blocked but by the two rules that block, and nothing is      *)
(* allowed but by the second of the two that allow.                        *)
LEMMA Blocking ==
    ASSUME NEW labels \in SUBSET Labels, NEW licence \in Dispositions
    PROVE  Matching(labels, licence, "block") # {}
              <=> labels \intersect BlockLabels # {} \/ licence # "permitted"
<1>1. \A i \in DOMAIN Rules : Rules[i].verdict = "block" <=> i \in {3, 4}
  BY RulesAre DEF Rule
<1>2. ConditionMatches(Rules[3], labels, licence) <=> labels \intersect BlockLabels # {}
  BY RulesAre DEF Rule, ConditionMatches, BlockLabels
<1>3. ConditionMatches(Rules[4], labels, licence) <=> licence # "permitted"
  BY RulesAre DEF Rule, ConditionMatches, Dispositions
<1>4. 3 \in DOMAIN Rules /\ 4 \in DOMAIN Rules
  BY RulesAre
<1>5. Matching(labels, licence, "block") =
         {i \in {3, 4} : ConditionMatches(Rules[i], labels, licence)}
  BY <1>1, <1>4 DEF Matching
<1> QED
  BY <1>2, <1>3, <1>5

LEMMA Allowing ==
    ASSUME NEW labels \in SUBSET Labels, NEW licence \in Dispositions,
           labels \intersect BlockLabels = {}
    PROVE  Matching(labels, licence, "allow") # {}
<1>1. labels \subseteq {"STRUCTURAL", "DOCUMENTARY", "IDENTIFYING", "SAMPLE_VALUE"}
  BY DEF Labels, BlockLabels
<1>2. ConditionMatches(Rules[2], labels, licence) /\ Rules[2].verdict = "allow"
  BY <1>1, RulesAre DEF Rule, ConditionMatches
<1>3. 2 \in DOMAIN Rules
  BY RulesAre
<1> QED
  BY <1>2, <1>3 DEF Matching

LEMMA OutcomeAdmits ==
    ASSUME NEW outcome, NEW b, NEW id, outcome = [admitted |-> b, rule |-> id]
    PROVE  outcome.admitted = b
OBVIOUS

(* An artefact is admitted exactly when the ladder does not block it and   *)
(* its licence permits: no rule after the first contradicts the ladder,    *)
(* and the default never decides (evaluate_policy, _ladder_verdict).       *)
THEOREM PolicyFollowsLadder ==
    ASSUME NEW labels \in SUBSET Labels, NEW licence \in Dispositions
    PROVE  EvaluatePolicy(labels, licence, FALSE).admitted
              <=> LadderVerdict(labels) # "block" /\ licence = "permitted"
<1> DEFINE blocks == Matching(labels, licence, "block")
           allows == Matching(labels, licence, "allow")
<1>1. EvaluatePolicy(labels, licence, FALSE).admitted <=> blocks = {} /\ allows # {}
  <2>1. CASE blocks # {}
    <3>1. EvaluatePolicy(labels, licence, FALSE) =
            [admitted |-> FALSE, rule |-> Rules[First(blocks)].id]
      BY <2>1 DEF EvaluatePolicy
    <3>2. EvaluatePolicy(labels, licence, FALSE).admitted = FALSE
      BY <3>1, OutcomeAdmits, Zenon
    <3> QED
      BY <2>1, <3>2
  <2>2. CASE blocks = {} /\ allows # {}
    <3>1. EvaluatePolicy(labels, licence, FALSE) =
            [admitted |-> TRUE, rule |-> Rules[First(allows)].id]
      BY <2>2 DEF EvaluatePolicy
    <3>2. EvaluatePolicy(labels, licence, FALSE).admitted = TRUE
      BY <3>1, OutcomeAdmits, Zenon
    <3> QED
      BY <2>2, <3>2
  <2>3. CASE blocks = {} /\ allows = {}
    <3>1. EvaluatePolicy(labels, licence, FALSE) = [admitted |-> FALSE, rule |-> "<default>"]
      BY <2>3 DEF EvaluatePolicy
    <3>2. EvaluatePolicy(labels, licence, FALSE).admitted = FALSE
      BY <3>1, OutcomeAdmits, Zenon
    <3> QED
      BY <2>3, <3>2
  <2> QED
    BY <2>1, <2>2, <2>3
<1>2. LadderVerdict(labels) = "block" <=> labels \intersect BlockLabels # {}
  BY DEF LadderVerdict
<1> QED
  BY <1>1, <1>2, Blocking, Allowing

(* The rules decide every artefact, so a valid approval of the DPO changes *)
(* nothing: the override is never reached (evaluate_policy).               *)
THEOREM OverrideNeverDecides ==
    ASSUME NEW labels \in SUBSET Labels, NEW licence \in Dispositions
    PROVE  EvaluatePolicy(labels, licence, TRUE) = EvaluatePolicy(labels, licence, FALSE)
<1>1. \/ Matching(labels, licence, "block") # {}
      \/ Matching(labels, licence, "allow") # {}
  BY Blocking, Allowing
<1> QED
  BY <1>1 DEF EvaluatePolicy

-----------------------------------------------------------------------------
(* The replace-all.  A text it has worked on holds phrases and tokens.     *)
Values == [value : SUBSET Phrases, label : MaskLabels]
Words  == Spellings \union {Token(v, l) : v \in SUBSET Phrases, l \in MaskLabels}

LEMMA ReplaceType ==
    ASSUME NEW text \in SUBSET Words, NEW v \in Values
    PROVE  Replace(text, v) \in SUBSET Words
<1>1. Token(v.value, v.label) \in Words
  BY DEF Words, Values
<1> HIDE DEF Words
<1> QED
  BY <1>1 DEF Replace

(* One replacement brings no phrase in, and takes its own value out.       *)
LEMMA ReplaceRemoves ==
    ASSUME NEW text, NEW v \in Values
    PROVE  /\ \A value \in SUBSET Phrases : value \subseteq Replace(text, v) => value \subseteq text
           /\ v.value # {} => ~(v.value \subseteq Replace(text, v))
<1>1. v.value \in SUBSET Phrases /\ Token(v.value, v.label) \notin Phrases
  BY TokenAssumption DEF Values
<1> DEFINE token == Token(v.value, v.label)
<1> HIDE DEF token
<1>2. CASE v.value \subseteq text
  <2>1. Replace(text, v) = (text \ v.value) \union {token}
    BY <1>2 DEF Replace, token
  <2>2. token \notin Phrases
    BY <1>1 DEF token
  <2> QED
    BY <1>1, <1>2, <2>1, <2>2
<1>3. CASE ~(v.value \subseteq text)
  BY <1>3 DEF Replace
<1> QED
  BY <1>2, <1>3

(* The replacements one after the other.                                   *)
IsMasking(f, text, order) ==
    f = [i \in 0..Len(order) |->
            IF i = 0 THEN text ELSE Replace(f[i - 1], order[i])]

LEMMA MaskingDefined ==
    ASSUME NEW text \in SUBSET Words, NEW order \in Seq(Values)
    PROVE  \E f : IsMasking(f, text, order)
<1> DEFINE n == Len(order)
           V == SUBSET Words
           Step(i) == [t \in V |-> Replace(t, order[i])]
           step == [i \in 1..n |-> Step(i)]
           At(f, i) == IF i = 0 THEN text ELSE Replace(f[i - 1], order[i])
<1>1. n \in Nat /\ \A i \in 1..n : order[i] \in Values
  OBVIOUS
<1>2. step \in [1..n -> [V -> V]]
  <2>1. ASSUME NEW i \in 1..n PROVE Step(i) \in [V -> V]
    BY <1>1, ReplaceType
  <2> HIDE DEF Step, V, n
  <2> QED
    BY <2>1
<1>3. PICK f : Recurses(f, n, V, text, step)
  <2>1. text \in V
    OBVIOUS
  <2> HIDE DEF step, V, n
  <2> QED
    BY <1>1, <1>2, <2>1, RecursionDefined
<1> HIDE DEF n
<1>4. ASSUME NEW i \in 0..n PROVE f[i] = At(f, i)
  <2>1. CASE i = 0
    BY <1>3, <2>1 DEF Recurses
  <2>2. CASE i \in 1..n
    <3>1. f[i - 1] \in V
      BY <1>1, <1>3, <2>2 DEF Recurses
    <3>2. f[i] = step[i][f[i - 1]]
      BY <1>3, <2>2 DEF Recurses
    <3> HIDE DEF V
    <3> QED
      BY <1>1, <3>2, <2>2, <3>1
  <2> QED
    BY <1>1, <2>1, <2>2
<1>5. f = [i \in 0..n |-> At(f, i)]
  <2> HIDE DEF At, V
  <2> QED
    BY <1>3, <1>4 DEF Recurses
<1> QED
  BY <1>5 DEF IsMasking, n

LEMMA MaskingIs ==
    ASSUME NEW text \in SUBSET Words, NEW order \in Seq(Values)
    PROVE  \E f : IsMasking(f, text, order) /\ Masked(text, order) = f[Len(order)]
<1> DEFINE after[i \in 0..Len(order)] ==
               IF i = 0 THEN text ELSE Replace(after[i - 1], order[i])
<1>1. IsMasking(after, text, order)
  <2>1. \E f : IsMasking(f, text, order)
    <3> HIDE DEF after
    <3> QED
      BY MaskingDefined
  <2> QED
    BY <2>1 DEF IsMasking
<1>2. Masked(text, order) = after[Len(order)]
  BY DEF Masked
<1> HIDE DEF after
<1> QED
  BY <1>1, <1>2

(* No value that is replaced is left in the end: what one replacement took *)
(* out no later one brings back.                                           *)
LEMMA MaskedHoldsNone ==
    ASSUME NEW text \in SUBSET Words, NEW order \in Seq(Values),
           NEW k \in DOMAIN order, order[k].value # {}
    PROVE  ~(order[k].value \subseteq Masked(text, order))
<1> DEFINE n == Len(order)
           v == order[k].value
<1>1. PICK f : IsMasking(f, text, order) /\ Masked(text, order) = f[n]
  BY MaskingIs
<1>2. n \in Nat /\ k \in 1..n /\ \A i \in 1..n : order[i] \in Values
  OBVIOUS
<1>3. v \in SUBSET Phrases
  BY <1>2 DEF Values
<1>4. ASSUME NEW i \in 1..n PROVE f[i] = Replace(f[i - 1], order[i])
  <2> DEFINE At(j) == IF j = 0 THEN text ELSE Replace(f[j - 1], order[j])
  <2>1. f = [j \in 0..n |-> At(j)]
    BY <1>1 DEF IsMasking
  <2>2. i \in 0..n /\ i # 0
    BY <1>2
  <2>3. At(i) = Replace(f[i - 1], order[i])
    BY <2>2
  <2> HIDE DEF At, n
  <2> QED
    BY <2>1, <2>2, <2>3
<1>5. ~(v \subseteq f[k])
  BY <1>2, <1>4, ReplaceRemoves
<1>6. ASSUME NEW i \in 1..n, ~(v \subseteq f[i - 1]) PROVE ~(v \subseteq f[i])
  <2>1. order[i] \in Values
    BY <1>2
  <2> HIDE DEF v, n
  <2> QED
    BY <1>3, <1>4, <1>6, <2>1, ReplaceRemoves
<1> HIDE DEF n, v
<1> DEFINE Good == {j \in 0..(n - k) : ~(v \subseteq f[k + j])}
<1>7. 0 \in Good
  BY <1>2, <1>5
<1>8. ASSUME NEW j \in 1..(n - k), j - 1 \in Good PROVE j \in Good
  <2>1. k + j \in 1..n /\ (k + j) - 1 = k + (j - 1) /\ j \in 0..(n - k)
    BY <1>2
  <2>2. ~(v \subseteq f[k + (j - 1)])
    BY <1>8
  <2>3. ~(v \subseteq f[(k + j) - 1])
    BY <2>1, <2>2, Zenon
  <2>4. ~(v \subseteq f[k + j])
    BY <1>6, <2>1, <2>3, Zenon
  <2> QED
    BY <2>1, <2>4
<1>9. n - k \in Nat
  BY <1>2
<1>10. 0..(n - k) \subseteq Good
  <2> HIDE DEF Good
  <2> QED
    BY <1>7, <1>8, <1>9, Induction
<1>11. ~(v \subseteq f[n])
  <2>1. n - k \in Good /\ k + (n - k) = n
    BY <1>2, <1>9, <1>10
  <2> QED
    BY <2>1
<1> QED
  BY <1>1, <1>11 DEF n, v
-----------------------------------------------------------------------------
(* What the detectors flag in a document.                                  *)
LEMMA ReadType ==
    ASSUME NEW text \in SUBSET Spellings
    PROVE  Read(text) \in SUBSET Phrases
BY GateAssumption DEF Read, Spellings

LEMMA ParsedType ==
    ASSUME NEW doc, Document(doc)
    PROVE  ParseStructure(doc).example \in SUBSET SUBSET Phrases
<1>1. doc.texts \in [Places -> SUBSET SUBSET Spellings]
  BY DEF Document
<1>2. \A p \in Places : Bucket(doc, p) \in SUBSET SUBSET Phrases
  BY <1>1, ReadType DEF Bucket
<1>3. CASE doc.broken \/ doc.media = "text"
  BY <1>3 DEF ParseStructure
<1>4. CASE ~(doc.broken \/ doc.media = "text")
  <2>1. ParseStructure(doc) = [structural |-> Bucket(doc, "grammar"),
                               example    |-> Bucket(doc, "example"),
                               prose      |-> Bucket(doc, "prose")]
    BY <1>4 DEF ParseStructure
  <2> QED
    BY <1>2, <2>1 DEF Places
<1> QED
  BY <1>3, <1>4

LEMMA SpanType ==
    ASSUME NEW doc, Document(doc), NEW s \in Spans(doc)
    PROVE  /\ s.label \in Labels
           /\ s.label \in MaskLabels <=> s.rung \in {"L1", "L2", "L3"}
           /\ s.label \in MaskLabels => s.value \in SUBSET Phrases
<1> DEFINE found == ParseStructure(doc)
           free   == UNION (found.prose \union found.example)
<1>1. found.example \in SUBSET SUBSET Phrases
  BY ParsedType
<1> HIDE DEF found, free
<1>2. \/ \E t \in found.structural : s = Span("L0", "STRUCTURAL", t)
      \/ \E t \in found.example : s = Span("L3", "SAMPLE_VALUE", t)
      \/ \E w \in Pattern : s = Span("L1", "IDENTIFYING", {w})
      \/ \E w \in TitleCase : s = Span("L2", "IDENTIFYING", {w})
      \/ \E w \in Lexicon : s = Span("L4", "SENSITIVE_DOMAIN", {w})
  BY DEF Spans, found, free
<1>3. CASE \E t \in found.structural : s = Span("L0", "STRUCTURAL", t)
  BY <1>3 DEF Span, Labels, MaskLabels
<1>4. CASE \E t \in found.example : s = Span("L3", "SAMPLE_VALUE", t)
  BY <1>1, <1>4 DEF Span, Labels, MaskLabels
<1>5. CASE \E w \in Pattern : s = Span("L1", "IDENTIFYING", {w})
  BY GateAssumption, <1>5 DEF Span, Labels, MaskLabels
<1>6. CASE \E w \in TitleCase : s = Span("L2", "IDENTIFYING", {w})
  BY GateAssumption, <1>6 DEF Span, Labels, MaskLabels
<1>7. CASE \E w \in Lexicon : s = Span("L4", "SENSITIVE_DOMAIN", {w})
  BY <1>7 DEF Span, Labels, MaskLabels
<1> QED
  BY <1>2, <1>3, <1>4, <1>5, <1>6, <1>7

LEMMA LabelsType ==
    ASSUME NEW doc, Document(doc)
    PROVE  LabelsOf(doc) \in SUBSET Labels
<1>1. {s.label : s \in Spans(doc)} \subseteq Labels
  BY SpanType
<1> QED
  BY <1>1 DEF LabelsOf, Labels

LEMMA MaskValuesType ==
    ASSUME NEW doc, Document(doc)
    PROVE  MaskValues(doc) \in SUBSET Values /\ IsFiniteSet(MaskValues(doc))
<1> DEFINE masks == {"IDENTIFYING", "SAMPLE_VALUE"}
           pairs == (SUBSET Phrases) \X masks
           both  == [x \in pairs |-> [value |-> x[1], label |-> x[2]]]
<1>1. IsFiniteSet(Values)
  <2>1. IsFiniteSet(SUBSET Phrases)
    BY GateAssumption, FS_SUBSET
  <2>2. IsFiniteSet(masks)
    <3>1. masks = {"IDENTIFYING"} \union {"SAMPLE_VALUE"}
      OBVIOUS
    <3>2. IsFiniteSet({"IDENTIFYING"})
      BY FS_Singleton
    <3> QED
      BY <3>1, <3>2, FS_AddElement
  <2>3. IsFiniteSet(pairs)
    <3> HIDE DEF masks
    <3> QED
      BY <2>1, <2>2, FS_Product
  <2>4. both \in [pairs -> Values]
    BY DEF Values, MaskLabels
  <2>5. ASSUME NEW v \in Values PROVE \E x \in pairs : both[x] = v
    <3>1. <<v.value, v.label>> \in pairs
      BY DEF Values, MaskLabels
    <3>2. both[<<v.value, v.label>>] = [value |-> v.value, label |-> v.label]
      BY <3>1
    <3>3. v = [value |-> v.value, label |-> v.label]
      BY DEF Values
    <3> QED
      BY <3>1, <3>2, <3>3
  <2> HIDE DEF pairs, both
  <2>6. PICK seq \in Seq(pairs) : \A x \in pairs : \E i \in 1..Len(seq) : seq[i] = x
    BY <2>3 DEF IsFiniteSet
  <2> DEFINE list == [i \in 1..Len(seq) |-> both[seq[i]]]
  <2>7. list \in Seq(Values) /\ Len(list) = Len(seq)
    BY <2>4
  <2>8. \A v \in Values : \E i \in 1..Len(list) : list[i] = v
    <3> SUFFICES ASSUME NEW v \in Values PROVE \E i \in 1..Len(list) : list[i] = v
      OBVIOUS
    <3>1. PICK x \in pairs : both[x] = v
      BY <2>5
    <3>2. PICK i \in 1..Len(seq) : seq[i] = x
      BY <2>6, <3>1
    <3>3. list[i] = v
      BY <3>1, <3>2
    <3> HIDE DEF list
    <3> QED
      BY <2>7, <3>2, <3>3
  <2> HIDE DEF list
  <2> QED
    BY <2>7, <2>8 DEF IsFiniteSet
<1>2. MaskValues(doc) \in SUBSET Values
  <2> SUFFICES ASSUME NEW s \in Spans(doc), s.rung \in {"L1", "L2", "L3"}
               PROVE  [value |-> s.value, label |-> s.label] \in Values
    BY DEF MaskValues
  <2> QED
    BY SpanType DEF Values
<1> QED
  BY <1>1, <1>2, FS_Subset

(* Whatever order the values come in, each of them comes.                  *)
LEMMA OrdersCover ==
    ASSUME NEW doc, Document(doc), NEW order \in LongestFirst(doc)
    PROVE  /\ order \in Seq(Values)
           /\ \A v \in MaskValues(doc) : \E i \in DOMAIN order : order[i] = v
           /\ \A i \in DOMAIN order : order[i] \in MaskValues(doc)
<1> DEFINE M == MaskValues(doc)
           n == Cardinality(M)
<1>1. M \in SUBSET Values /\ IsFiniteSet(M) /\ n \in Nat
  BY MaskValuesType, FS_CardinalityType
<1> HIDE DEF M
<1>2. order \in [1..n -> M] /\ \A i, j \in 1..n : i # j => order[i] # order[j]
  BY DEF LongestFirst, SetToSeqs, M
<1> HIDE DEF n
<1>3. IsFiniteSet(1..n) /\ Cardinality(1..n) = n
  BY <1>1, FS_Interval
<1>4. \A S, T : IsFiniteSet(S) /\ IsFiniteSet(T) /\ Cardinality(T) < Cardinality(S)
         => \A f \in [S -> T] : \E x, y \in S : x # y /\ f[x] = f[y]
  BY FS_PigeonHole
<1>5. ASSUME NEW v \in M, \A i \in 1..n : order[i] # v PROVE FALSE
  <2> DEFINE N == M \ {v}
  <2>1. IsFiniteSet(N) /\ Cardinality(N) = n - 1
    BY <1>1, FS_RemoveElement DEF n
  <2>2. order \in [1..n -> N]
    BY <1>2, <1>5
  <2> HIDE DEF N
  <2>3. Cardinality(N) < Cardinality(1..n)
    BY <1>1, <1>3, <2>1
  <2> QED
    BY <1>2, <1>3, <1>4, <2>1, <2>2, <2>3
<1>6. order \in Seq(Values)
  BY <1>1, <1>2
<1> QED
  BY <1>2, <1>5, <1>6 DEF M

-----------------------------------------------------------------------------
(* The redacted document.                                                  *)
LEMMA RedactTexts ==
    ASSUME NEW doc, Document(doc), NEW order, NEW p \in Places
    PROVE  Redact(doc, order).texts[p] = {Masked(t, order) : t \in doc.texts[p]}
<1> DEFINE texts == [q \in Places |-> {Masked(t, order) : t \in doc.texts[q]}]
<1>1. Redact(doc, order).texts = texts
  <2> HIDE DEF texts
  <2> QED
    BY DEF Redact, Document, texts
<1> QED
  BY <1>1

LEMMA RedactedHoldsNone ==
    ASSUME NEW doc, Document(doc), NEW order \in LongestFirst(doc),
           NEW s \in Spans(doc), s.label \in MaskLabels
    PROVE  ~Holds(Redact(doc, order), s.value)
<1> SUFFICES ASSUME NEW p \in Places, NEW t \in doc.texts[p], s.value # {},
                    s.value \subseteq Masked(t, order)
             PROVE  FALSE
  BY RedactTexts DEF Holds
<1>1. [value |-> s.value, label |-> s.label] \in MaskValues(doc)
  BY SpanType DEF MaskValues
<1>2. PICK k \in DOMAIN order : order[k] = [value |-> s.value, label |-> s.label]
  BY <1>1, OrdersCover
<1>3. t \in SUBSET Words
  BY DEF Document, Words
<1>4. order[k].value = s.value
  BY <1>2
<1>5. order \in Seq(Values)
  BY OrdersCover
<1> QED
  BY <1>3, <1>4, <1>5, MaskedHoldsNone

(* A document without a label that masks is returned as it came.           *)
LEMMA AllowedIsUntouched ==
    ASSUME NEW doc, Document(doc), NEW order \in LongestFirst(doc),
           LadderVerdict(LabelsOf(doc)) = "allow"
    PROVE  Redact(doc, order) = doc
<1>1. LabelsOf(doc) \intersect MaskLabels = {}
  BY DEF LadderVerdict
<1>2. MaskValues(doc) = {}
  <2> SUFFICES ASSUME NEW s \in Spans(doc), s.rung \in {"L1", "L2", "L3"} PROVE FALSE
    BY DEF MaskValues
  <2>1. s.label \in LabelsOf(doc)
    BY DEF LabelsOf
  <2> QED
    BY <1>1, <2>1, SpanType
<1>3. order = <<>>
  BY <1>2, OrdersCover
<1>4. ASSUME NEW t \in SUBSET Words PROVE Masked(t, order) = t
  <2> DEFINE At(f, i) == IF i = 0 THEN t ELSE Replace(f[i - 1], order[i])
  <2>1. PICK f : IsMasking(f, t, order) /\ Masked(t, order) = f[Len(order)]
    BY OrdersCover, MaskingIs
  <2>2. f = [i \in 0..Len(order) |-> At(f, i)] /\ Len(order) = 0
    BY <1>3, <2>1 DEF IsMasking
  <2>3. At(f, 0) = t
    OBVIOUS
  <2> HIDE DEF At
  <2> QED
    BY <2>1, <2>2, <2>3
<1> DEFINE texts == [p \in Places |-> {Masked(t, order) : t \in doc.texts[p]}]
<1>5. texts = doc.texts
  <2>1. doc.texts \in [Places -> SUBSET SUBSET Spellings]
    BY DEF Document
  <2>2. ASSUME NEW p \in Places PROVE {Masked(t, order) : t \in doc.texts[p]} = doc.texts[p]
    <3>1. \A t \in doc.texts[p] : Masked(t, order) = t
      BY <1>4, <2>1 DEF Words
    <3> QED
      BY <3>1
  <2> QED
    BY <2>1, <2>2
<1> HIDE DEF texts
<1>6. Redact(doc, order) = [doc EXCEPT !.texts = doc.texts, !.broken = doc.broken]
  <2>1. ~\E i \in DOMAIN order : order[i].value = {}
    BY <1>3
  <2> QED
    <3> DEFINE b == doc.broken \/ (\E i \in DOMAIN order : order[i].value = {})
                  \/ (doc.media = "xml" /\ texts # doc.texts)
    <3>1. Redact(doc, order) = [doc EXCEPT !.texts = texts, !.broken = b]
      BY DEF Redact, texts
    <3>2. doc.broken \in BOOLEAN /\ (b <=> doc.broken)
      BY <1>5, <2>1 DEF Document
    <3>3. b = doc.broken
      BY <3>2
    <3> HIDE DEF b
    <3> QED
      BY <1>5, <3>1, <3>3
<1> QED
  BY <1>6 DEF Document

-----------------------------------------------------------------------------
(* The inductive invariant.  The sources stand at a version there is, and  *)
(* so does the commit once it is resolved; what is listed, kept or         *)
(* uncertain is a path or a page; nothing is admitted before the gate, so  *)
(* that resolving a commit moves no artefact's ground; and an artefact is  *)
(* what the gate made of its source, with the verdict of the ladder.       *)
Refs ==
    [uri : ToSet(Paths), system : {"git"}, media : Media]
    \union [uri : ToSet(Pages), system : {"confluence"}, media : {"text"}]

Standing ==
    /\ repo \in Histories /\ head \in DOMAIN repo
    /\ wiki \in Editions /\ edition \in DOMAIN wiki
    /\ pc # "resolve" => sha \in DOMAIN repo

Queues == refs \in Seq(Refs) /\ keep \in Seq(Refs) /\ uncertain \in Seq(Refs)

NoneBeforeGate == pc \in {"resolve", "list", "filter", "scout"} => artefacts = <<>>

GatedFrom(a, doc) ==
    /\ Document(doc)
    /\ EvaluatePolicy(LabelsOf(doc), Licence[a.system], FALSE).admitted
    /\ a.verdict = LadderVerdict(LabelsOf(doc))
    /\ \E order \in LongestFirst(doc) : a.content = Redact(doc, order)

Gated(a) ==
    /\ a.system \in {"git", "confluence"}
    /\ a.system = "git" => a.version = sha
    /\ GatedFrom(a, Source(a))

Artefacts ==
    /\ artefacts \in Seq(ToSet(artefacts))
    /\ \A i \in DOMAIN artefacts : Gated(artefacts[i])

IInv == Standing /\ Queues /\ NoneBeforeGate /\ Artefacts

(* Every path of a commit and every page of an edition is a document.      *)
LEMMA SourcesAreDocuments ==
    ASSUME Standing
    PROVE  /\ \A v \in DOMAIN repo : \A p \in DOMAIN repo[v] : Document(repo[v][p])
           /\ \A p \in ToSet(Pages) : Document(wiki[edition][p])
<1>1. \A v \in DOMAIN repo : repo[v] \in ToSet(repo)
  BY DEF ToSet
<1>2. wiki[edition] \in ToSet(wiki)
  BY DEF Standing, ToSet
<1>3. DOMAIN wiki[edition] = ToSet(Pages)
  BY <1>2, IntakeAssumption DEF Standing
<1> QED
  BY <1>1, <1>2, <1>3, IntakeAssumption DEF Standing

LEMMA HistoriesAreSequences ==
    ASSUME NEW h \in Histories \union Editions
    PROVE  Len(h) \in Nat /\ DOMAIN h = 1..Len(h) /\ 1 \in DOMAIN h
<1>1. h \in Seq(ToSet(h)) /\ h # <<>>
  BY IntakeAssumption
<1> QED
  BY <1>1

(* What is selected from a queue is a queue.                               *)
LEMMA SelectedRefs ==
    ASSUME NEW s \in Seq(Refs), NEW T
    PROVE  Only(s, T) \in Seq(Refs)
<1> HIDE DEF Refs
<1> QED
  BY OnlySelects

LEMMA AppendIs ==
    ASSUME NEW S, NEW s \in Seq(S), NEW e
    PROVE  /\ Append(s, e) \in Seq(S \union {e})
           /\ DOMAIN Append(s, e) = DOMAIN s \union {Len(s) + 1}
           /\ Append(s, e)[Len(s) + 1] = e
           /\ \A i \in DOMAIN s : Append(s, e)[i] = s[i]
OBVIOUS

LEMMA AppendToSet ==
    ASSUME NEW s, s \in Seq(ToSet(s)), NEW e
    PROVE  LET t == Append(s, e)
           IN  /\ t \in Seq(ToSet(t))
               /\ \A i \in DOMAIN t : t[i] = e \/ \E j \in DOMAIN s : t[i] = s[j]
<1> DEFINE t == Append(s, e)
<1>1. /\ t \in Seq(ToSet(s) \union {e}) /\ DOMAIN t = DOMAIN s \union {Len(s) + 1}
      /\ t[Len(s) + 1] = e /\ \A i \in DOMAIN s : t[i] = s[i]
  <2> DEFINE S == ToSet(s)
  <2> HIDE DEF S
  <2> QED
    BY AppendIs DEF S
<1> HIDE DEF t
<1>2. ToSet(t) = ToSet(s) \union {e}
  BY <1>1 DEF ToSet
<1> QED
  BY <1>1, <1>2 DEF t

-----------------------------------------------------------------------------
LEMMA InitIInv == Init => IInv
<1> SUFFICES ASSUME Init PROVE IInv
  OBVIOUS
<1>1. 1 \in DOMAIN repo /\ 1 \in DOMAIN wiki
  BY HistoriesAreSequences DEF Init
<1>2. <<>> \in Seq(Refs) /\ <<>> \in Seq(ToSet(<<>>)) /\ DOMAIN <<>> = {}
  OBVIOUS
<1> QED
  BY <1>1, <1>2 DEF Init, IInv, Standing, Queues, NoneBeforeGate, Artefacts

(* While the sources' histories and the commit stay, so do the artefacts'  *)
(* grounds.                                                                *)
LEMMA ArtefactsStay ==
    ASSUME Artefacts, UNCHANGED <<artefacts, repo, wiki, sha>>
    PROVE  Artefacts'
BY DEF Artefacts, Gated, GatedFrom, Source

LEMMA NoArtefacts ==
    ASSUME artefacts' = <<>>
    PROVE  Artefacts'
BY DEF Artefacts

LEMMA ListSourcesIInv == IInv /\ ListSources => IInv'
<1> SUFFICES ASSUME IInv, ListSources PROVE IInv'
  OBVIOUS
<1> DEFINE Listing(tracked) ==
               [i \in DOMAIN tracked |-> GitRef(tracked[i])]
               \o [i \in DOMAIN Pages |-> PageRef(Pages[i])]
<1>1. PICK here : /\ \A p \in here : p \in DOMAIN repo[head]
                  /\ refs' = Listing(Only(Paths, here))
  <2> HIDE DEF Listing
  <2>1. refs' = Listing(Where(Paths, LAMBDA p : p \in DOMAIN repo[head]))
    BY DEF ListSources, Listing
  <2> QED
    BY <2>1 DEF Where
<1> DEFINE tracked == Only(Paths, here)
           files   == [i \in DOMAIN tracked |-> GitRef(tracked[i])]
           pages   == [i \in DOMAIN Pages |-> PageRef(Pages[i])]
<1>2. /\ tracked \in Seq(ToSet(Paths))
      /\ \A i \in DOMAIN tracked : tracked[i] \in here
  BY IntakeAssumption, OnlySelects DEF Selects
<1>3. ASSUME NEW i \in DOMAIN tracked PROVE files[i] \in Refs
  <2>1. tracked[i] \in ToSet(Paths) /\ tracked[i] \in DOMAIN repo[head]
    <3> HIDE DEF tracked
    <3> QED
      BY <1>1, <1>2
  <2>2. repo[head][tracked[i]].media \in Media
    BY <2>1, SourcesAreDocuments DEF IInv, Standing, Document
  <2> HIDE DEF tracked
  <2> QED
    BY <2>1, <2>2 DEF GitRef, Refs
<1>4. ASSUME NEW i \in DOMAIN Pages PROVE pages[i] \in Refs
  BY DEF PageRef, Refs, ToSet
<1>5. files \in Seq(Refs) /\ pages \in Seq(Refs)
  <2> HIDE DEF tracked, Refs
  <2>1. tracked \in Seq(ToSet(Paths)) /\ Pages \in Seq(ToSet(Pages))
    BY <1>2, IntakeAssumption
  <2>2. \A i \in DOMAIN tracked : GitRef(tracked[i]) \in Refs
    BY <1>3
  <2>3. \A i \in DOMAIN Pages : PageRef(Pages[i]) \in Refs
    BY <1>4
  <2> QED
    BY <2>1, <2>2, <2>3
<1>6. Queues'
  <2>1. keep' = keep /\ uncertain' = uncertain
    BY DEF ListSources
  <2>2. refs' = files \o pages
    BY <1>1
  <2> HIDE DEF files, pages, Refs
  <2>3. refs' \in Seq(Refs)
    BY <1>5, <2>2
  <2> QED
    BY <2>1, <2>3 DEF Queues, IInv
<1>7. Standing' /\ NoneBeforeGate' /\ Artefacts'
  BY ArtefactsStay DEF ListSources, IInv, Standing, NoneBeforeGate, given
<1> QED
  BY <1>6, <1>7 DEF IInv

LEMMA FilterIInv == IInv /\ Filter => IInv'
<1> SUFFICES ASSUME IInv, Filter PROVE IInv'
  OBVIOUS
<1>1. keep' \in Seq(Refs) /\ uncertain' \in Seq(Refs) /\ refs' = refs
  <2> HIDE DEF Refs
  <2> QED
    BY SelectedRefs DEF Filter, Where, IInv, Queues
<1>2. Standing' /\ NoneBeforeGate' /\ Artefacts'
  BY ArtefactsStay DEF Filter, IInv, Standing, NoneBeforeGate, given
<1> QED
  BY <1>1, <1>2 DEF IInv, Queues

LEMMA ScoutIInv == IInv /\ (KeepUncertain \/ Scout) => IInv'
<1> SUFFICES ASSUME IInv, KeepUncertain \/ Scout PROVE IInv'
  OBVIOUS
<1>1. keep' \in Seq(Refs)
  <2> HIDE DEF Refs
  <2>1. keep \in Seq(Refs) /\ uncertain \in Seq(Refs)
    BY DEF IInv, Queues
  <2>2. CASE KeepUncertain
    BY <2>1, <2>2 DEF KeepUncertain
  <2>3. CASE Scout
    <3>1. PICK T : keep' = keep \o Only(uncertain, T)
      BY <2>3 DEF Scout, Where
    <3>2. Only(uncertain, T) \in Seq(Refs)
      BY <2>1, SelectedRefs
    <3> QED
      BY <2>1, <3>1, <3>2
  <2> QED
    BY <2>2, <2>3
<1>2. /\ uncertain' = <<>> /\ pc = "scout" /\ pc' = "gate"
      /\ UNCHANGED <<given, head, edition, sha, refs, artefacts>>
  BY DEF KeepUncertain, Scout
<1>3. Queues'
  BY <1>1, <1>2 DEF IInv, Queues
<1>4. Standing' /\ NoneBeforeGate' /\ Artefacts'
  BY <1>2, ArtefactsStay DEF IInv, Standing, NoneBeforeGate, given
<1> QED
  BY <1>3, <1>4 DEF IInv

(* An artefact is what Classify made of what Fetch brought.                *)
LEMMA GateNextIInv == IInv /\ GateNext => IInv'
<1> SUFFICES ASSUME IInv, GateNext PROVE IInv'
  OBVIOUS
<1> DEFINE ref == keep[1]
           doc == Fetch(ref).content
<1>1. /\ pc = "gate" /\ keep # <<>> /\ keep' = Tail(keep) /\ Fetchable(ref)
      /\ UNCHANGED <<given, head, edition, pc, sha, refs, uncertain>>
  BY DEF GateNext
<1>2. ref \in Refs /\ keep' \in Seq(Refs)
  <2> HIDE DEF Refs
  <2> QED
    BY <1>1 DEF IInv, Queues
<1>3. Document(doc) /\ ref.system \in {"git", "confluence"}
  <2>1. CASE ref.system = "git"
    <3>1. sha \in DOMAIN repo /\ ref.uri \in DOMAIN repo[sha]
      BY <1>1, <2>1 DEF IInv, Standing, Fetchable
    <3>2. doc = repo[sha][ref.uri]
      BY <2>1 DEF Fetch
    <3> HIDE DEF doc, ref
    <3> QED
      BY <2>1, <3>1, <3>2, SourcesAreDocuments DEF IInv
  <2>2. CASE ref.system # "git"
    <3>1. ref.uri \in ToSet(Pages) /\ ref.system = "confluence"
      BY <1>2, <2>2 DEF Refs
    <3>2. doc = wiki[edition][ref.uri]
      BY <2>2 DEF Fetch
    <3> HIDE DEF doc, ref
    <3> QED
      BY <3>1, <3>2, SourcesAreDocuments DEF IInv
  <2> QED
    BY <2>1, <2>2
<1>4. Artefacts'
  <2>1. CASE artefacts' = artefacts
    BY <1>1, <2>1, ArtefactsStay DEF IInv, given
  <2>2. CASE artefacts' # artefacts
    <3>1. PICK order \in LongestFirst(doc) :
             LET result == Classify(doc, Licence[ref.system], order) IN
             /\ result.admitted
             /\ artefacts' = Append(artefacts,
                    [uri |-> ref.uri, system |-> ref.system, version |-> Fetch(ref).version,
                     content |-> result.content, verdict |-> result.verdict])
      BY <2>2 DEF GateNext
    <3> DEFINE result == Classify(doc, Licence[ref.system], order)
               a == [uri |-> ref.uri, system |-> ref.system, version |-> Fetch(ref).version,
                     content |-> result.content, verdict |-> result.verdict]
    <3>2. /\ EvaluatePolicy(LabelsOf(doc), Licence[ref.system], FALSE).admitted
          /\ result.content = Redact(doc, order)
          /\ result.verdict = LadderVerdict(LabelsOf(doc))
      BY <3>1 DEF Classify
    <3>3. /\ a.system = ref.system /\ a.content = Redact(doc, order)
          /\ a.verdict = LadderVerdict(LabelsOf(doc))
          /\ a.version = Fetch(ref).version /\ a.uri = ref.uri
      BY <3>2
    <3>4. artefacts' = Append(artefacts, a)
      BY <3>1
    <3> HIDE DEF a, result
    <3>5. Source(a) = doc /\ (a.system = "git" => a.version = sha)
      BY <3>3 DEF Source, Fetch
    <3>6. Gated(a)
      <4>1. GatedFrom(a, doc)
        <5> HIDE DEF doc, ref
        <5> QED
          BY <1>3, <3>2, <3>3, Zenon DEF GatedFrom
      <4> QED
        BY <1>3, <3>3, <3>5, <4>1 DEF Gated
    <3>7. ASSUME NEW b, Gated(b) PROVE Gated(b)'
      BY <1>1, <3>7 DEF Gated, GatedFrom, Source, given
    <3>8. /\ artefacts \in Seq(ToSet(artefacts))
          /\ \A i \in DOMAIN artefacts : Gated(artefacts[i])
      BY DEF IInv, Artefacts
    <3>9. /\ artefacts' \in Seq(ToSet(artefacts'))
          /\ \A i \in DOMAIN artefacts' : artefacts'[i] = a
                \/ \E j \in DOMAIN artefacts : artefacts'[i] = artefacts[j]
      BY <3>4, <3>8, AppendToSet
    <3>10. \A i \in DOMAIN artefacts' : Gated(artefacts'[i])
      BY <3>6, <3>8, <3>9
    <3> QED
      BY <3>7, <3>9, <3>10 DEF Artefacts
  <2> QED
    BY <2>1, <2>2
<1>5. Standing' /\ NoneBeforeGate' /\ Queues'
  BY <1>1, <1>2 DEF IInv, Standing, NoneBeforeGate, Queues, given
<1> QED
  BY <1>4, <1>5 DEF IInv

LEMMA NextIInv == IInv /\ [Next]_vars => IInv'
<1> SUFFICES ASSUME IInv, [Next]_vars PROVE IInv'
  OBVIOUS
<1> USE DEF IInv
<1>1. CASE Commit \/ EditPages
  <2>1. Standing'
    BY <1>1, HistoriesAreSequences DEF Commit, EditPages, Standing, given, work
  <2> QED
    BY <1>1, <2>1, ArtefactsStay
       DEF Commit, EditPages, Queues, NoneBeforeGate, given, work
<1>2. CASE ResolveHead
  <2>1. artefacts' = <<>>
    BY <1>2 DEF ResolveHead, NoneBeforeGate
  <2> QED
    BY <1>2, <2>1, NoArtefacts DEF ResolveHead, Standing, Queues, NoneBeforeGate, given
<1>3. CASE ListSources
  BY <1>3, ListSourcesIInv
<1>4. CASE Filter
  BY <1>4, FilterIInv
<1>5. CASE KeepUncertain \/ Scout
  BY <1>5, ScoutIInv
<1>6. CASE GateNext
  BY <1>6, GateNextIInv
<1>7. CASE ScoutFails \/ FetchFails \/ GateFails \/ ParseFails \/ Seal \/ ParseNext \/ WriteAttributes
  <2>1. /\ UNCHANGED <<given, head, edition, sha, refs, keep, uncertain, artefacts>>
        /\ pc \in {"scout", "gate", "parse"}
        /\ pc' \in {"dead", "parse", "done"}
    BY <1>7 DEF ScoutFails, FetchFails, GateFails, ParseFails, Seal, ParseNext, WriteAttributes, work
  <2> QED
    BY <2>1, ArtefactsStay DEF Standing, Queues, NoneBeforeGate, given
<1>8. CASE NextAssembly
  BY <1>8, NoArtefacts DEF NextAssembly, Standing, Queues, NoneBeforeGate, given
<1>9. CASE UNCHANGED vars
  BY <1>9, ArtefactsStay DEF vars, Standing, Queues, NoneBeforeGate, given, work
<1> QED
  BY <1>1, <1>2, <1>3, <1>4, <1>5, <1>6, <1>7, <1>8, <1>9 DEF Next

THEOREM Gating == Spec => []IInv
<1> QED
  BY InitIInv, NextIInv, PTL DEF Spec

-----------------------------------------------------------------------------
(* Whatever is committed while an assembly runs, its git artefacts hold    *)
(* the texts of the commit it resolved, as the gate masks them             *)
(* (GitConnector.discover, GitConnector.fetch).                            *)
THEOREM ArtefactsAreOfOneCommit == Spec => []OneSnapshot
<1>1. IInv => OneSnapshot
  BY DEF IInv, Artefacts, Gated, GatedFrom, OneSnapshot
<1> QED
  BY <1>1, Gating, PTL

(* What crosses the gate has a permitted licence and no sensitive term;    *)
(* no pattern, name or example that was flagged is left in its bytes in    *)
(* the spelling the detectors saw, and what passed without a mask is as it *)
(* was (classify_and_redact, evaluate_policy, redact).                     *)
THEOREM AdmittedLeaveFit == Spec => []AdmittedIsFit
<1>1. ASSUME IInv, NEW i \in DOMAIN artefacts
      PROVE  LET a == artefacts[i]
                 spans == Spans(Source(a))
             IN /\ Licence[a.system] = "permitted"
                /\ a.verdict # "block"
                /\ \A s \in spans :
                      /\ s.label \notin BlockLabels
                      /\ s.label \in MaskLabels => ~Holds(a.content, s.value)
                /\ a.verdict = "allow" => a.content = Source(a)
  <2> DEFINE a == artefacts[i]
             doc == Source(a)
             labels == LabelsOf(doc)
  <2>1. Gated(a) /\ GatedFrom(a, doc)
    BY <1>1 DEF IInv, Artefacts, Gated
  <2> HIDE DEF a, doc
  <2>2. labels \in SUBSET Labels /\ Licence[a.system] \in Dispositions
    BY <2>1, LabelsType, IntakeAssumption DEF Gated, GatedFrom
  <2>3. LadderVerdict(labels) # "block" /\ Licence[a.system] = "permitted"
    BY <2>1, <2>2, PolicyFollowsLadder DEF GatedFrom
  <2>4. labels \intersect BlockLabels = {}
    BY <2>3 DEF LadderVerdict
  <2>5. PICK order \in LongestFirst(doc) : a.content = Redact(doc, order)
    BY <2>1 DEF GatedFrom
  <2>6. ASSUME NEW s \in Spans(doc)
        PROVE  /\ s.label \notin BlockLabels
               /\ s.label \in MaskLabels => ~Holds(a.content, s.value)
    <3>1. s.label \in labels
      BY DEF LabelsOf
    <3> QED
      BY <2>1, <2>4, <2>5, <3>1, RedactedHoldsNone DEF GatedFrom
  <2>7. a.verdict = LadderVerdict(labels) /\ Document(doc)
    BY <2>1 DEF GatedFrom
  <2>8. a.verdict = "allow" => a.content = doc
    BY <2>5, <2>7, AllowedIsUntouched
  <2> QED
    BY <2>3, <2>6, <2>7, <2>8 DEF a, doc
<1>2. IInv => AdmittedIsFit
  BY <1>1 DEF AdmittedIsFit
<1> QED
  BY <1>2, Gating, PTL
=============================================================================
