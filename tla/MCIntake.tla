------------------------------ MODULE MCIntake ------------------------------
(* Intake of three paths and one wiki page. The publishers: one contract is  *)
(* rendered in every format, and the texts put in a document make every    *)
(* label and every outcome of the gate occur.                               *)
EXTENDS IntakeParsing
LOCAL INSTANCE SequencesExt
CONSTANTS word, plain, code, name, harm, folded, masked

\* A name folded over two lines.
MCRespelt == [w \in {folded} |-> name]

Kinds == [string   |-> <<"string", 0>>,  date    |-> <<"date", 0>>,
          dateTime |-> <<"dateTime", 0>>, binary  |-> <<"binary", 0>>,
          int32    |-> <<"integer", 32>>, int64   |-> <<"integer", 64>>,
          decimal  |-> <<"decimal", 0>>,  boolean |-> <<"boolean", 0>>]
OpenApiName == [string |-> <<"string", None>>, date |-> <<"string", "date">>,
    dateTime |-> <<"string", "date-time">>, binary |-> <<"string", "byte">>,
    int32 |-> <<"integer", "int32">>, int64 |-> <<"integer", None>>,
    decimal |-> <<"number", "double">>, boolean |-> <<"boolean", None>>]
XsdName == [string |-> "token", date |-> "date", dateTime |-> "dateTime",
    binary |-> "base64Binary", int32 |-> "int", int64 |-> "long",
    decimal |-> "decimal", boolean |-> "boolean"]
AvroName == [string |-> <<"string", None>>, date |-> <<"int", "date">>,
    dateTime |-> <<"long", "timestamp-millis">>, binary |-> <<"bytes", None>>,
    int32 |-> <<"int", None>>, int64 |-> <<"long", None>>,
    decimal |-> <<"bytes", "decimal">>, boolean |-> <<"boolean", None>>]

Scalar(n, kind, level, many) ==
    [name |-> n, kind |-> kind, type |-> Kinds[kind], level |-> level,
     many |-> many, fields |-> {}]
Object(n, level, many, fields) ==
    [name |-> n, kind |-> None, type |-> <<"object", 0>>, level |-> level,
     many |-> many, fields |-> fields]
Levels == {"mandatory", "optional"}
Contracts ==
    {[name |-> "Claim", fields |-> {Scalar("loss", k, l, m)}] :
        k \in DOMAIN Kinds, l \in Levels, m \in BOOLEAN}
    \union {[name |-> "Claim", fields |->
              {Scalar("id", "string", "mandatory", FALSE),
               Object("party", l, m, {Scalar("name", "string", k, FALSE)})}] :
        l \in Levels, k \in Levels, m \in BOOLEAN}

-----------------------------------------------------------------------------
RECURSIVE ToNode(_), ToElement(_), ToType(_)
Names(fields) == {f.name : f \in fields}
Each(Op(_), fields) == [i \in 1..Cardinality(fields) |-> Op(SetToSeq(fields)[i])]
ObjectNode(fields) ==
    LET prop(f) == [name |-> f.name, node |-> ToNode(f)] IN
    [form |-> "object", props |-> Each(prop, fields),
     required |-> Names({f \in fields : f.level = "mandatory"})]
ToNode(f) ==
    LET one == IF f.fields = {}
               THEN [form |-> "scalar", type |-> OpenApiName[f.kind][1],
                     format |-> OpenApiName[f.kind][2]]
               ELSE ObjectNode(f.fields)
    IN IF f.many THEN [form |-> "array", items |-> one] ELSE one
ToOpenApi(c) ==
    [format |-> "openapi",
     schemas |-> << [name |-> c.name, node |-> ObjectNode(c.fields)] >>,
     params  |-> <<>>]

Complex(base, content) == [base |-> base, content |-> content]
Element(n, type, inline, min, max) ==
    [name |-> n, type |-> type, inline |-> inline, min |-> min, max |-> max,
     nillable |-> FALSE, group |-> None]
Elements(fields) ==
    LET child(f) == [tag |-> "element", element |-> ToElement(f)] IN
    << [tag |-> "group", content |-> Each(child, fields)] >>
Attributes(fields) ==
    LET child(f) == [tag |-> "attribute", name |-> f.name, type |-> XsdName[f.kind],
                     use |-> IF f.level = "mandatory" THEN "required" ELSE "optional"]
    IN Each(child, fields)
ToElement(f) ==
    Element(f.name, IF f.fields = {} THEN XsdName[f.kind] ELSE None,
            IF f.fields = {} THEN <<>> ELSE <<Complex(None, Elements(f.fields))>>,
            IF f.level = "optional" THEN 0 ELSE 1, IF f.many THEN 9 ELSE 1)
ToXsd(c, style) ==
    LET flat   == {f \in c.fields : f.fields = {} /\ ~f.many}
        rest   == c.fields \ flat
        branch(f) == ToElement(f)
        Types(base, own) == [t \in {"ClaimType", "BaseType"} |->
            IF t = "BaseType" THEN Complex(None, base)
            ELSE Complex(IF style = "base" THEN "BaseType" ELSE None, own)]
        types  == CASE style = "elements"   -> Types(<<>>, Elements(c.fields))
                    [] style = "attributes" -> Types(<<>>, Elements(rest) \o Attributes(flat))
                    [] style = "base"       -> Types(Attributes(flat), Elements(rest))
                    [] style = "choice"     -> Types(<<>>,
                         << [tag |-> "choice", id |-> None, branches |-> Each(branch, c.fields)] >>)
    IN [format |-> "xsd", types |-> types,
        elements |-> <<Element(c.name, "ClaimType", <<>>, 1, 1)>>]
ToWsdl(c) == [format |-> "wsdl", schemas |-> <<ToXsd(c, "elements")>>]
ToType(f) ==
    LET field(g) == [name |-> g.name, type |-> ToType(g)]
        one == IF f.fields = {}
               THEN [form |-> "plain", type |-> AvroName[f.kind][1],
                     logical |-> AvroName[f.kind][2]]
               ELSE [form |-> "record", fields |-> Each(field, f.fields)]
    IN IF f.many THEN [form |-> "array", items |-> one] ELSE one
ToAvro(c) ==
    LET field(f) == [name |-> f.name, type |-> ToType(f)] IN
    [format |-> "avro", name |-> c.name, fields |-> Each(field, c.fields)]

(* In a choice the level of a branch is conditional, whatever its contract. *)
AsChoice(c) == [c EXCEPT !.fields = {[f EXCEPT !.level = "conditional"] : f \in @}]

-----------------------------------------------------------------------------
Doc(media, trees, contract, examples, prose, other) ==
    [media |-> media, broken |-> FALSE, has |-> {}, trees |-> trees, contract |-> contract,
     texts |-> [grammar |-> {{word}}, example |-> examples, prose |-> prose,
                other |-> other]]
Whole(tree) == [legible \in {{word}} |-> tree]
Quiet(media, tree, contract) == Doc(media, Whole(tree), contract, {}, {{plain}}, {})

TreeDocs ==
    {Quiet("json", ToOpenApi(c), c) : c \in Contracts}
    \union {Quiet("avro", ToAvro(c), c) : c \in Contracts}
    \union {Quiet("xml", ToWsdl(c), c) : c \in Contracts}
    \union {Quiet("xml", ToXsd(c, s), c) : c \in Contracts,
                s \in {"elements", "attributes", "base"}}
    \union {Quiet("xml", ToXsd(AsChoice(c), "choice"), AsChoice(c)) : c \in Contracts}

Small == [name |-> "Claim", fields |-> {Scalar("loss", "date", "mandatory", FALSE)}]
SmallTree(media) == CASE media = "json" -> ToOpenApi(Small) [] media = "avro" -> ToAvro(Small)
                 [] media = "xml" -> ToXsd(Small, "elements") [] media = "text" -> None
\* The grammar without its word: the type of the one field is another.
Struck(media) ==
    CASE media = "json" -> [SmallTree(media) EXCEPT !.schemas[1].node.props[1].node.format = masked]
      [] media = "avro" -> [SmallTree(media) EXCEPT !.fields[1].type.logical = masked]
      [] OTHER -> SmallTree(media)
Trees(media) == [legible \in {{}, {word}} |->
                    IF word \in legible THEN SmallTree(media) ELSE Struck(media)]
Examples == {{}, {{code}}, {{plain, name}, {name}}, {{}}, {{harm, plain}}, {{word}}}
Proses   == {{}, {{plain, name}}, {{code}, {harm}}, {{plain, folded}}}
GateDocs ==
    {Doc(m, Trees(m), Small, e, p, o) : m \in Media, e \in Examples, p \in Proses,
        o \in {{}, {{plain, name, code}}}}
\* With a comment, or in UTF-16.
OddDocs ==
    {[Doc(m, Trees(m), Small, e, {}, {}) EXCEPT !.has = h] : m \in {"xml", "json"},
        e \in {{}, {{code}}}, h \in {{"comment"}, {"encoding"}}}

Other    == Quiet("json", ToOpenApi(Small), Small)
Page(t)  == [p \in {"page"} |-> Doc("text", Whole(None), Small, {}, {t}, {})]

MCPaths     == <<"a", "b", "c">>
MCPages     == <<"page">>
MCHistories ==
    {<< [p \in {"a"} |-> d] >> : d \in TreeDocs}
    \union {<< [p \in {"b", "c"} |-> Other] >>}
    \union {<< [p \in {"a"} |-> d] >> : d \in OddDocs}
    \union {<< [p \in {"a", "b"} |-> IF p = "a" THEN d ELSE Other],
               [p \in {"a"} |-> Quiet(d.media, SmallTree(d.media), Small)] >> : d \in GateDocs}
    \union {<< [p \in {"a"} |-> d],
               [p \in {"a", "b"} |-> IF p = "a" THEN d ELSE Other] >> : d \in GateDocs}
MCEditions  == {<<Page({plain})>>, <<Page({plain, code}), Page({harm})>>}
MCRepeats   == {<< [p \in {"a"} |-> d] >> : d \in GateDocs}
MCOneEdition == {<<Page({plain})>>}
MCOnTopic   == {"a", "b", "page"}
MCLicence   == [git |-> "permitted", confluence |-> "unknown"]
MCPermitted == [git |-> "permitted", confluence |-> "permitted"]
=============================================================================
