------------------------------ MODULE Parsing ------------------------------
(***************************************************************************)
(* The parsers: a published contract, as OpenAPI, XSD, WSDL or Avro, to    *)
(* the flat attribute records of the IR.                                   *)
(*                                                                         *)
(* A contract is an abstract tree, what is left of a document once YAML,   *)
(* XML or JSON is read.  OpenAPI nodes are references, objects, arrays and *)
(* scalars; XSD elements have a simple type, a named complex type or an    *)
(* inline one, and a container's children are groups, choices, elements    *)
(* and attributes; an Avro field is plain, a record or an array.  A path   *)
(* is a sequence of names.  Descriptions, enumerations, constraints and    *)
(* locators travel with a record and decide nothing here; they are left    *)
(* out, as are the identities every record has of its artefact and run.    *)
(***************************************************************************)
EXTENDS Naturals, Sequences, FiniteSets
LOCAL INSTANCE SequencesExt
LOCAL INSTANCE TLC

None == "none"

-----------------------------------------------------------------------------
(* Type normalisation.  Nothing falls back to string.                      *)
T(type)      == [type |-> type, bits |-> 0, offset |-> FALSE]
Width(bits)  == [T("integer") EXCEPT !.bits = bits]
Zoned(fixed) == [T("dateTime") EXCEPT !.offset = fixed]

OpenApiTable ==
       <<"string", None>>        :> T("string")
    @@ <<"string", "date">>      :> T("date")
    @@ <<"string", "date-time">> :> Zoned(TRUE)
    @@ <<"string", "byte">>      :> T("binary")
    @@ <<"integer", None>>       :> Width(64)
    @@ <<"integer", "int32">>    :> Width(32)
    @@ <<"integer", "int64">>    :> Width(64)
    @@ <<"number", None>>        :> T("decimal")
    @@ <<"number", "double">>    :> T("decimal")
    @@ <<"number", "float">>     :> T("decimal")
    @@ <<"boolean", None>>       :> T("boolean")
    @@ <<"object", None>>        :> T("object")
    @@ <<"array", None>>         :> T("array")

FromOpenApi(type, format) ==
    CASE <<type, format>> \in DOMAIN OpenApiTable -> OpenApiTable[<<type, format>>]
      [] <<type, format>> \notin DOMAIN OpenApiTable /\ <<type, None>> \in DOMAIN OpenApiTable
           -> OpenApiTable[<<type, None>>]
      [] OTHER -> T("unknown")

XsdTable ==
    "string" :> T("string") @@ "token" :> T("string") @@ "int" :> Width(32)
    @@ "long" :> Width(64) @@ "integer" :> Width(64) @@ "decimal" :> T("decimal")
    @@ "boolean" :> T("boolean") @@ "date" :> T("date") @@ "dateTime" :> Zoned(FALSE)
    @@ "base64Binary" :> T("binary") @@ "IDREF" :> T("reference")
    @@ "anyType" :> T("unknown") @@ "time" :> T("time") @@ "duration" :> T("duration")

FromXsd(type) == IF type \in DOMAIN XsdTable THEN XsdTable[type] ELSE T("unknown")

AvroTable ==
    "string" :> T("string") @@ "int" :> Width(32) @@ "long" :> Width(64)
    @@ "boolean" :> T("boolean") @@ "bytes" :> T("binary")
    @@ "record" :> T("object") @@ "array" :> T("array")
AvroLogicalTable ==
    "decimal" :> T("decimal") @@ "date" :> T("date")
    @@ "timestamp-millis" :> Zoned(FALSE) @@ "timestamp-micros" :> Zoned(FALSE)

FromAvro(type, logical) ==
    CASE logical \in DOMAIN AvroLogicalTable -> AvroLogicalTable[logical]
      [] logical \notin DOMAIN AvroLogicalTable /\ type \in DOMAIN AvroTable -> AvroTable[type]
      [] OTHER -> T("unknown")

(* build_record, with the cardinality as its two ends and the typeDetail   *)
(* flags that are set.                                                     *)
Level(required) == IF required THEN "mandatory" ELSE "optional"

Rec(path, parent, t, required) ==
    [path |-> path, parent |-> parent, type |-> t.type, bits |-> t.bits,
     offset |-> t.offset, required |-> required, many |-> FALSE,
     level |-> Level(required), choice |-> <<>>, inherited |-> None,
     head |-> FALSE, substitutes |-> None, explicitNull |-> FALSE]

Gather(Op(_), seq) == FlattenSeq([i \in DOMAIN seq |-> Op(seq[i])])

-----------------------------------------------------------------------------
(* parse_openapi.  Only the record emitted last is looked at when an array *)
(* is re-tagged, so an array of inline objects keeps a single cardinality. *)
RECURSIVE Walk(_, _, _, _, _)
Walk(node, path, parent, required, emitSelf) ==
    LET self(t) == IF emitSelf THEN <<Rec(path, parent, t, required)>> ELSE <<>> IN
    CASE node.form = "ref"    -> self(T("reference"))
      [] node.form = "object" ->
           LET property(p) == Walk(p.node, Append(path, p.name), path,
                                   p.name \in node.required, TRUE)
           IN self(T("object")) \o Gather(property, node.props)
      [] node.form = "array"  ->
           LET inner == Walk(node.items, path, parent, required, TRUE)
               n     == Len(inner)
           IN IF n > 0 /\ inner[n].path = path
              THEN [inner EXCEPT ![n].many = TRUE] ELSE inner
      [] node.form = "scalar" -> self(FromOpenApi(node.type, node.format))

ParseOpenApi(doc) ==
    LET schema(s) == Walk(s.node, <<s.name>>, <<>>, TRUE, FALSE)
        param(p)  == Walk(p.node, <<p.operation, p.name>>, <<>>, p.required, TRUE)
    IN Gather(schema, doc.schemas) \o Gather(param, doc.params)

-----------------------------------------------------------------------------
(* parse_xsd.  "how" is what the surroundings say of an element: its       *)
(* choice group, the base it is inherited from, its substitution roles.    *)
Plain == [choice |-> <<>>, inherited |-> None, head |-> FALSE, substitutes |-> None]

RECURSIVE WalkElement(_, _, _, _, _), WalkContainer(_, _, _, _)

WalkAttribute(attribute, path, base) ==
    <<[Rec(Append(path, attribute.name), path, FromXsd(attribute.type),
           attribute.use = "required") EXCEPT !.inherited = base]>>

(* Mutant: an extension's own members only.                                *)
MutWalkComplexType(complex, path, types) ==
    WalkContainer(complex.content, path, None, types)

(* _walk_complex_type: the base's own container, marked, and then the      *)
(* extension's.  The container of a base that is itself an extension holds *)
(* only its complexContent, which no branch of _walk_container reads.      *)
WalkComplexType(complex, path, types) ==
    LET inherited == IF complex.base \in DOMAIN types /\ types[complex.base].base = None
                     THEN WalkContainer(types[complex.base].content, path, complex.base, types)
                     ELSE <<>>
    IN inherited \o WalkContainer(complex.content, path, None, types)

WalkContainer(content, path, base, types) ==
    LET branch(group, el) ==
            WalkElement(el, Append(path, el.name), path, [Plain EXCEPT !.choice = group], types)
        child(c) ==
            CASE c.tag = "group"     -> WalkContainer(c.content, path, base, types)
              [] c.tag = "choice"    ->
                   LET group      == IF c.id = None THEN Append(path, "choice") ELSE <<c.id>>
                       inGroup(e) == branch(group, e)
                   IN Gather(inGroup, c.branches)
              [] c.tag = "element"   ->
                   WalkElement(c.element, Append(path, c.element.name), path,
                               [Plain EXCEPT !.inherited = base], types)
              [] c.tag = "attribute" -> WalkAttribute(c, path, base)
    IN Gather(child, content)

WalkElement(el, path, parent, how, types) ==
    LET required == el.min # 0
        named    == el.type \in DOMAIN types
        isObject == el.inline # <<>> \/ named
        t        == IF isObject THEN T("object") ELSE FromXsd(el.type)
        self     == [Rec(path, parent, t, required) EXCEPT
                        !.many = el.max \notin {0, 1},
                        !.level = IF how.choice # <<>> THEN "conditional" ELSE @,
                        !.choice = how.choice, !.inherited = how.inherited,
                        !.head = how.head, !.substitutes = how.substitutes,
                        !.explicitNull = el.nillable]
    IN <<self>> \o
       CASE el.inline # <<>>             -> WalkComplexType(el.inline[1], path, types)
         [] el.inline = <<>> /\ named    -> WalkComplexType(types[el.type], path, types)
         [] OTHER                        -> <<>>

(* _parse_xsd_tree: every top-level element is a root.                     *)
ParseXsd(doc) ==
    LET root(el) ==
            WalkElement(el, <<el.name>>, <<>>,
                [Plain EXCEPT
                    !.head = \E i \in DOMAIN doc.elements : doc.elements[i].group = el.name,
                    !.substitutes = el.group],
                doc.types)
    IN Gather(root, doc.elements)

(* parse_wsdl: the schemas under wsdl:types.                               *)
ParseWsdl(doc) == Gather(ParseXsd, doc.schemas)

-----------------------------------------------------------------------------
(* parse_avro.  Everything is mandatory; an array re-tags the record       *)
(* emitted first, which is its own.                                        *)
RECURSIVE WalkField(_, _, _)
WalkField(type, path, parent) ==
    CASE type.form = "record" ->
           LET field(f) == WalkField(f.type, Append(path, f.name), path)
           IN <<Rec(path, parent, T("object"), TRUE)>> \o Gather(field, type.fields)
      [] type.form = "array"  ->
           LET inner == WalkField(type.items, path, parent)
           IN IF inner = <<>> THEN inner
              ELSE [inner EXCEPT ![1].many = TRUE, ![1].required = FALSE]
      [] type.form = "plain"  -> <<Rec(path, parent, FromAvro(type.type, type.logical), TRUE)>>

ParseAvro(doc) ==
    LET field(f) == WalkField(f.type, <<doc.name, f.name>>, <<doc.name>>)
    IN Gather(field, doc.fields)

-----------------------------------------------------------------------------
(* router.parse: by media type, and XML by its root.  A media type with no *)
(* parser, and a document the reader rejects, raise.                       *)
Parsable(doc) == doc.media \in {"json", "xml", "avro"} /\ ~doc.broken

Parse(doc) ==
    CASE doc.media = "json" -> ParseOpenApi(doc.tree)
      [] doc.media = "avro" -> ParseAvro(doc.tree)
      [] doc.media = "xml" /\ doc.tree.format = "wsdl" -> ParseWsdl(doc.tree)
      [] doc.media = "xml" /\ doc.tree.format = "xsd"  -> ParseXsd(doc.tree)
=============================================================================
