---------------------------- MODULE IntakeParsing ----------------------------
(***************************************************************************)
(* The intake with the parsers it calls: Readable is Parsable and Records  *)
(* is ParseDocument, which reads what the masking left of the grammar.     *)
(***************************************************************************)
EXTENDS Intake, Parsing

ParseDocument(doc) == Parse([media |-> doc.media, tree |-> Tree(doc)])

(* RecordsDescribeContract.  A contract published as OpenAPI, as XSD (its  *)
(* scalars as elements or as attributes, inherited from a base or not, or  *)
(* as the branches of a choice), as WSDL or as Avro gives one record per   *)
(* field, of the field's normalised type whatever the format.  Levels      *)
(* agree with the contract, save that Avro has no optional field; so does  *)
(* repetition, save for OpenAPI arrays of inline objects, which the parser *)
(* leaves single.  The branches of a choice are conditional and share its  *)
(* group, and only they have one.  This is so of a document in whose       *)
(* grammar nothing was masked.                                             *)
RECURSIVE FieldsOf(_, _)
FieldsOf(fields, path) ==
    UNION {{[path |-> Append(path, f.name), field |-> f]}
           \union FieldsOf(f.fields, Append(path, f.name)) : f \in fields}

Describes(recs, contract, doc) ==
    LET expected == FieldsOf(contract.fields, <<contract.name>>)
        found    == {i \in DOMAIN recs : Len(recs[i].path) > 1}
        hasGroup(i) == recs[i].choice # <<>>
    IN /\ Cardinality(found) = Cardinality(expected)
       /\ \A e \in expected : \E i \in found :
             /\ recs[i].path = e.path
             /\ <<recs[i].type, recs[i].bits>> = e.field.type
             /\ doc.media # "avro" => recs[i].level = e.field.level
             /\ ~(doc.media = "json" /\ e.field.fields # {}) => recs[i].many = e.field.many
       /\ \A i \in found : hasGroup(i) <=> recs[i].level = "conditional"
       /\ \A i, j \in found : hasGroup(i) /\ hasGroup(j) /\ recs[i].parent = recs[j].parent
                              => recs[i].choice = recs[j].choice

GrammarIsWhole(a) == a.content.texts["grammar"] = Source(a).texts["grammar"]

RecordsDescribeContract ==
    \A i \in DOMAIN parsed :
        LET a == artefacts[i]
        IN  GrammarIsWhole(a) => Describes(parsed[i], a.content.contract, a.content)

(* MaskingSparesGrammar.  That a flagged literal "also happens to appear   *)
(* verbatim somewhere it shouldn't be redacted" is "a theoretical (and     *)
(* here, irrelevant) risk": masking changes no record.                     *)
(* Violated: an example "date" takes the format of every date field with   *)
(* it, and they are recorded as strings.                                   *)
MaskingSparesGrammar ==
    \A i \in DOMAIN parsed :
        LET doc == artefacts[i].content IN Describes(parsed[i], doc.contract, doc)
=============================================================================
