-------------------------------- MODULE Gate --------------------------------
(***************************************************************************)
(* The egress gate of one artefact: where each text sits in the document   *)
(* (gate/structure.py), what the detectors flag in it (gate/detectors.py), *)
(* the ladder verdict and the policy decision (gate/gate.py,               *)
(* gate/policy.py with policy.yaml), and the replace-all that masks the    *)
(* flagged values (gate/tokenisation.py).                                  *)
(*                                                                         *)
(* A text is the set of phrases it holds, so one text contains another     *)
(* when it is a superset of it.  A phrase is flagged for its class: a      *)
(* pattern (L1), a run of title-case words (L2) or a lexicon term (L4).    *)
(* The bytes may spell a phrase in another way than the reader of the      *)
(* format gives it: folded over two lines, escaped, as an XML entity.  The *)
(* detectors see what the reader gives, the replace-all sees the bytes.    *)
(*                                                                         *)
(* A document is its media class, whether it is broken (not parseable),    *)
(* whether it has comments or an encoding other than UTF-8, the texts at   *)
(* each kind of place, in the spelling of the bytes, and what the reader   *)
(* makes of its grammar.  A token stands for the label and the value it    *)
(* was computed from; the key is fixed.                                    *)
(***************************************************************************)
EXTENDS Naturals, Sequences, FiniteSets
LOCAL INSTANCE SequencesExt

CONSTANTS
    Phrases,    \* the phrases of the texts
    Pattern,    \* those an L1 pattern matches
    TitleCase,  \* those the L2 heuristic matches
    Lexicon,    \* those of the L4 lexicon
    Respelt     \* other spellings, each with the phrase a reader reads

ASSUME GateAssumption ==
    /\ IsFiniteSet(Phrases)
    /\ Pattern \union TitleCase \union Lexicon \subseteq Phrases
    /\ \A w \in DOMAIN Respelt : Respelt[w] \in Phrases /\ w \notin Phrases

Media  == {"json", "xml", "avro", "text"}
Places == {"grammar", "example", "prose", "other"}
Spellings == Phrases \union DOMAIN Respelt

\* A text as the reader of the format gives it.
Read(text) == {IF w \in DOMAIN Respelt THEN Respelt[w] ELSE w : w \in text}

\* What the parsers read.  trees has it for the words of the grammar that are still
\* to be read: a token in the place of one makes another name or type of it.
Tree(doc) == doc.trees[Phrases \intersect UNION doc.texts["grammar"]]

-----------------------------------------------------------------------------
(* parse_structure: the texts in each bucket.  An Avro doc string and an   *)
(* XML default value are at no place the walk knows; the body of a broken  *)
(* document, or of one with no structural walk, is prose as a whole, in    *)
(* the spelling of the bytes.                                              *)
Walked(media) ==
    CASE media = "json" -> {"grammar", "example", "prose"}
      [] media = "avro" -> {"grammar", "example"}
      [] media = "xml"  -> {"grammar", "prose"}
      [] media = "text" -> {}

Bucket(doc, place) ==
    IF place \in Walked(doc.media) THEN {Read(t) : t \in doc.texts[place]} ELSE {}

ParseStructure(doc) ==
    IF doc.broken \/ doc.media = "text"
    THEN [structural |-> {}, example |-> {},
          prose |-> {UNION UNION {doc.texts[p] : p \in Places}}]
    ELSE [structural |-> Bucket(doc, "grammar"),
          example    |-> Bucket(doc, "example"),
          prose      |-> Bucket(doc, "prose")]

(* The detectors.  L1, L2 and L4 read the prose and the examples, never    *)
(* the grammar; L3 flags every example whole.                              *)
Span(rung, label, value) == [rung |-> rung, label |-> label, value |-> value]

Spans(doc) ==
    LET parsed == ParseStructure(doc)
        free   == UNION (parsed.prose \union parsed.example)
    IN {Span("L0", "STRUCTURAL", t)          : t \in parsed.structural}
       \union {Span("L3", "SAMPLE_VALUE", t) : t \in parsed.example}
       \union {Span("L1", "IDENTIFYING", {w})      : w \in free \intersect Pattern}
       \union {Span("L2", "IDENTIFYING", {w})      : w \in free \intersect TitleCase}
       \union {Span("L4", "SENSITIVE_DOMAIN", {w}) : w \in free \intersect Lexicon}

(* DOCUMENTARY goes to every document with prose, and to one that has no   *)
(* label at all.                                                           *)
LabelsOf(doc) ==
    LET found == {s.label : s \in Spans(doc)} IN
    found \union (IF ParseStructure(doc).prose # {} \/ found = {}
                  THEN {"DOCUMENTARY"} ELSE {})

-----------------------------------------------------------------------------
Labels == {"STRUCTURAL", "DOCUMENTARY", "IDENTIFYING", "SAMPLE_VALUE",
           "PERSONAL_DATA", "SENSITIVE_DOMAIN"}
Dispositions == {"permitted", "prohibited", "unknown"}
BlockLabels  == {"PERSONAL_DATA", "SENSITIVE_DOMAIN"}
MaskLabels   == {"IDENTIFYING", "SAMPLE_VALUE"}

(* _ladder_verdict: block over mask over allow.                            *)
LadderVerdict(labels) ==
    CASE labels \intersect BlockLabels # {} -> "block"
      [] labels \intersect BlockLabels = {} /\ labels \intersect MaskLabels # {} -> "mask"
      [] OTHER -> "allow"

(* policy.yaml, in its order.  A condition that a rule leaves out is the   *)
(* weakest one: every label within, nothing to meet, any licence.          *)
Rule(id, within, meets, licences, verdict) ==
    [id |-> id, within |-> within, meets |-> meets, licences |-> licences,
     verdict |-> verdict]

Rules == <<
    Rule("allow-structural", {"STRUCTURAL"}, {}, Dispositions, "allow"),
    Rule("allow-documentary-masked",
         {"STRUCTURAL", "DOCUMENTARY", "IDENTIFYING", "SAMPLE_VALUE"},
         {}, Dispositions, "allow"),
    Rule("block-personal", Labels, {"PERSONAL_DATA", "SENSITIVE_DOMAIN"},
         Dispositions, "block"),
    Rule("block-unlicensed", Labels, {}, {"prohibited", "unknown"}, "block") >>

(* _condition_matches.  all_masked is a constant TRUE in the caller.       *)
ConditionMatches(rule, labels, licence) ==
    /\ labels \subseteq rule.within
    /\ rule.meets # {} => labels \intersect rule.meets # {}
    /\ licence \in rule.licences

Matching(labels, licence, verdict) ==
    {i \in DOMAIN Rules : /\ ConditionMatches(Rules[i], labels, licence)
                          /\ Rules[i].verdict = verdict}
First(indices) == CHOOSE i \in indices : \A j \in indices : i <= j

(* Mutant: the first rule that matches decides.                            *)
MutEvaluatePolicy(labels, licence, approved) ==
    LET blocks == Matching(labels, licence, "block")
        allows == Matching(labels, licence, "allow")
    IN IF blocks \union allows = {} THEN [admitted |-> FALSE, rule |-> "<default>"]
       ELSE [admitted |-> First(blocks \union allows) \in allows,
             rule |-> Rules[First(blocks \union allows)].id]

(* evaluate_policy: any matching block beats any matching allow; then a    *)
(* valid DPO approval, when the override is enabled; then the default.     *)
EvaluatePolicy(labels, licence, approved) ==
    LET blocks == Matching(labels, licence, "block")
        allows == Matching(labels, licence, "allow")
    IN IF blocks # {} THEN [admitted |-> FALSE, rule |-> Rules[First(blocks)].id]
       ELSE IF allows # {} THEN [admitted |-> TRUE, rule |-> Rules[First(allows)].id]
       ELSE IF approved THEN [admitted |-> TRUE, rule |-> "dpo-approved-exception"]
       ELSE [admitted |-> FALSE, rule |-> "<default>"]

-----------------------------------------------------------------------------
(* redact: the flagged values with their labels, longest first, each       *)
(* replaced wherever the bytes spell it as the reader gave it, the names   *)
(* and types of the grammar included, and nowhere else.  Values of one     *)
(* length come in the order the set of strings is iterated, which the hash *)
(* seed of the process decides.  The empty value occurs everywhere.        *)
Token(value, label) == [token |-> label, of |-> value]

(* Tokens are opaque: what a short value shares with the letters of a      *)
(* token is no occurrence of it.                                           *)
ASSUME TokenAssumption ==
    \A value \in SUBSET Phrases : \A label \in MaskLabels : Token(value, label) \notin Phrases

MaskValues(doc) ==
    {[value |-> s.value, label |-> s.label] :
        s \in {t \in Spans(doc) : t.rung \in {"L1", "L2", "L3"}}}

LongestFirst(doc) ==
    {order \in SetToSeqs(MaskValues(doc)) :
        \A i, j \in DOMAIN order :
            i < j => Cardinality(order[i].value) >= Cardinality(order[j].value)}

Replace(text, v) ==
    IF v.value \subseteq text
    THEN (text \ v.value) \union {Token(v.value, v.label)} ELSE text

Masked(text, order) ==
    LET after[i \in 0..Len(order)] ==
            IF i = 0 THEN text ELSE Replace(after[i - 1], order[i])
    IN  after[Len(order)]

(* A token is an unclosed tag in XML; between all the characters it leaves *)
(* no document at all.                                                     *)
Redact(doc, order) ==
    LET texts == [p \in Places |-> {Masked(t, order) : t \in doc.texts[p]}]
        hit   == texts # doc.texts
        empty == \E i \in DOMAIN order : order[i].value = {}
    IN [doc EXCEPT !.texts = texts,
                   !.broken = @ \/ empty \/ (doc.media = "xml" /\ hit)]

(* What the gate does not survive: a comment in XML it can parse, whose    *)
(* name the walk asks for, and a value to mask in bytes that are not UTF-8 *)
(* once the policy admits them.                                            *)
Raises(doc, licence) ==
    \/ doc.media = "xml" /\ ~doc.broken /\ "comment" \in doc.has
    \/ /\ "encoding" \in doc.has /\ MaskValues(doc) # {}
       /\ EvaluatePolicy(LabelsOf(doc), licence, FALSE).admitted

(* classify_and_redact without the ledger: the outcome for a document      *)
(* under one order of the masked values.                                   *)
Classify(doc, licence, order) ==
    LET labels  == LabelsOf(doc)
        outcome == EvaluatePolicy(labels, licence, FALSE)
    IN [admitted |-> outcome.admitted,
        content  |-> IF outcome.admitted THEN Redact(doc, order) ELSE doc,
        verdict  |-> IF outcome.admitted THEN LadderVerdict(labels) ELSE "block",
        reason   |-> CASE outcome.admitted -> "none"
                       [] ~outcome.admitted /\ outcome.rule = "block-unlicensed"
                            -> "licence-blocked"
                       [] OTHER -> "policy-blocked"]
=============================================================================
