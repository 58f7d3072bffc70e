------------------------------ MODULE Chunking ------------------------------
(***************************************************************************)
(* Chunking (substrate/chunking.py): an admitted artefact to the drafts of *)
(* its chunks.  A chunk is known by its text: the hash is of the text with *)
(* the spacing collapsed, and no spacing is left here.  The evref of a     *)
(* draft names its artefact; its locator is left out.                      *)
(*                                                                         *)
(* A document is what is left once YAML, XML, JSON or HTML is read: the    *)
(* schemas of an OpenAPI document with the references each makes, the      *)
(* named types of an XSD with their bases and what they contain, the       *)
(* operations of a WSDL, the named types of an Avro schema in the order of *)
(* the walk, and a page: what leads it and what is under each heading.     *)
(***************************************************************************)
EXTENDS Selection, FiniteSets
LOCAL INSTANCE SequencesExt

CONSTANTS
    MaxTokens,   \* _CONFLUENCE_MAX_TOKENS: 900
    Overlap      \* _CONFLUENCE_OVERLAP_RATIO in hundredths: 15

ASSUME ChunkingAssumption ==
    /\ MaxTokens \in Nat \ {0}
    /\ Overlap \in 0..99

NoBase == "no base"

Mapped(Op(_), seq) == [i \in DOMAIN seq |-> Op(seq[i])]

-----------------------------------------------------------------------------
(* chunk_openapi: one chunk per schema, what it refers to inlined once: a  *)
(* schema that was inlined keeps its own references as they are.           *)
InlineRefsDepth1(schema, schemas) ==
    [ref \in schema.refs |->
        {[body |-> schemas[i].body, refs |-> schemas[i].refs] :
            i \in {j \in DOMAIN schemas : schemas[j].name = ref}}]

ChunkOpenApi(doc) ==
    LET text(s) == [kind |-> "openapi", name |-> s.name, body |-> s.body,
                    inlined |-> InlineRefsDepth1(s, doc.schemas)]
    IN Mapped(text, doc.schemas)

(* The children of a type, or of the extension in it, are a list of nodes: *)
(* the tag of each, the label it is shown by, and its own children.  The   *)
(* members are read from the first xs:sequence there is, or else from the  *)
(* children themselves, so what is in an xs:all, in a second sequence or   *)
(* in one inside the first is not read.                                    *)
IsSequence(child)  == child.tag = "sequence"
IsMember(child)    == child.tag \in {"element", "choice"}
IsAttribute(child) == child.tag = "attribute"

Container(content) ==
    LET sequences == Where(content, IsSequence)
    IN  IF sequences = <<>> THEN content ELSE sequences[1].inner

(* _collect_direct_members.                                                *)
DirectMembers(content) ==
    Mapped(LAMBDA child : child.label,
           Where(Container(content), IsMember) \o Where(content, IsAttribute))

(* _collect_members: the members of the bases, the furthest first, and     *)
(* then a type's own.  doc.types maps the name of a type to the base it    *)
(* extends and its content; no type is its own ancestor.                   *)
CollectMembers(types) ==
    LET members[t \in DOMAIN types] ==
            IF types[t].base \in DOMAIN types
            THEN members[types[t].base] \o DirectMembers(types[t].content)
            ELSE DirectMembers(types[t].content)
    IN members

(* chunk_xsd: one chunk per named type, and one per top-level element with *)
(* a type of its own.                                                      *)
ChunkXsd(doc) ==
    LET text(node) ==
            [kind |-> "xsd", name |-> node.name,
             members |-> (IF node.base \in DOMAIN doc.types
                          THEN CollectMembers(doc.types)[node.base] ELSE <<>>)
                         \o DirectMembers(node.content)]
    IN Mapped(text, doc.nodes)

(* chunk_wsdl: one chunk per operation; its schema is not chunked again.   *)
ChunkWsdl(doc) ==
    LET text(o) == [kind |-> "wsdl", name |-> o.name, messages |-> o.messages]
    IN Mapped(text, doc.operations)

(* _walk_avro_named_types: one chunk per record, enum or fixed.            *)
ChunkAvro(doc) ==
    LET text(t) == [kind |-> "avro", name |-> t.name, body |-> t.body]
    IN Mapped(text, doc.named)

-----------------------------------------------------------------------------
(* _split_by_token_budget: windows of at most MaxTokens words, each        *)
(* starting Step words after the one before, until one ends with the body. *)
Step == LET step == (MaxTokens * (100 - Overlap)) \div 100
        IN IF step = 0 THEN 1 ELSE step

Ceil(a, b) == (a + b - 1) \div b

(* Mutant: no window is opened for a rest shorter than a step.             *)
MutWindows(words) ==
    IF words <= MaxTokens THEN (IF words = 0 THEN 0 ELSE 1)
    ELSE 1 + (words - MaxTokens) \div Step

Windows(words) ==
    IF words <= MaxTokens THEN (IF words = 0 THEN 0 ELSE 1)
    ELSE 1 + Ceil(words - MaxTokens, Step)

SplitByTokenBudget(words) ==
    [i \in 1..Windows(words) |->
        LET start == (i - 1) * Step
            last  == start + MaxTokens
        IN <<start + 1, IF last < words THEN last ELSE words>>]

(* _split_on_headings: what comes before the first heading is dropped.     *)
SplitOnHeadings(doc) == IF doc.headed = <<>> THEN <<doc.lead>> ELSE doc.headed

(* chunk_confluence: the windows of every section, under its heading; a    *)
(* section without words has none.                                         *)
ChunkConfluence(doc) ==
    LET pieces(s) ==
            [i \in 1..Windows(s.words) |->
                [kind |-> "confluence", heading |-> s.heading, source |-> s.source,
                 span |-> SplitByTokenBudget(s.words)[i]]]
    IN FlattenSeq(Mapped(pieces, SplitOnHeadings(doc)))

(* chunk: by kind; an artefact of another kind has no chunks.              *)
Drafts(artefact) ==
    CASE artefact.kind = "openapi"    -> ChunkOpenApi(artefact.doc)
      [] artefact.kind = "xsd"        -> ChunkXsd(artefact.doc)
      [] artefact.kind = "wsdl"       -> ChunkWsdl(artefact.doc)
      [] artefact.kind = "avro"       -> ChunkAvro(artefact.doc)
      [] artefact.kind = "confluence" -> ChunkConfluence(artefact.doc)
      [] OTHER                        -> <<>>

-----------------------------------------------------------------------------
(* What is read is a document: its lists are lists, a page has a number of *)
(* words in each part, and no type is its own ancestor, which an XML       *)
(* schema forbids.                                                         *)
IsList(seq) == seq \in Seq(Range(seq))

IsPage(doc) ==
    /\ IsList(doc.headed)
    /\ \A i \in DOMAIN doc.headed : doc.headed[i].words \in Nat
    /\ doc.lead.words \in Nat

IsContent(content) ==
    IsList(content) /\ \A i \in DOMAIN content : IsList(content[i].inner)

IsTypeHierarchy(types) ==
    /\ IsFiniteSet(DOMAIN types)
    /\ \A t \in DOMAIN types : IsContent(types[t].content)
    /\ \E depth \in [DOMAIN types -> 0..Cardinality(DOMAIN types)] :
          \A t \in DOMAIN types :
             types[t].base \in DOMAIN types => depth[types[t].base] < depth[t]

IsXmlSchema(doc) ==
    /\ IsTypeHierarchy(doc.types)
    /\ \A i \in DOMAIN doc.nodes : IsContent(doc.nodes[i].content)

IsDocument(artefact) ==
    /\ artefact.kind = "confluence" => IsPage(artefact.doc)
    /\ artefact.kind = "xsd" => IsXmlSchema(artefact.doc)
=============================================================================
