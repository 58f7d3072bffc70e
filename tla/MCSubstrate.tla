---------------------------- MODULE MCSubstrate ----------------------------
(* Two runs over corpora that share artefacts, versions and texts.         *)
EXTENDS Substrate
LOCAL INSTANCE SequencesExt
LOCAL INSTANCE FiniteSetsExt
CONSTANTS r1, r2

Artefact(id, region, tier, kind, attributes, doc) ==
    [id |-> id, region |-> region, tier |-> tier, kind |-> kind,
     attributes |-> attributes, doc |-> doc, broken |-> FALSE]

Schema(name, body, refs) == [name |-> name, body |-> body, refs |-> refs]
OpenApi(claim) ==
    [schemas |-> <<Schema("Claim", claim, {"Party"}), Schema("Party", "p1", {"Claim", "Gone"})>>]

Child(tag, label, inner) == [tag |-> tag, label |-> label, inner |-> inner]
Element(label) == Child("element", label, <<>>)
Attribute(label) == Child("attribute", label, <<>>)
Sequence(inner) == Child("sequence", "", inner)

(* With a sequence, with two and one inside the first, without any, and    *)
(* with a group that is no sequence.                                       *)
Content ==
    [Base   |-> <<Attribute("id"), Sequence(<<Element("number")>>)>>,
     Middle |-> <<Sequence(<<Element("date"), Child("choice", "policy, risk", <<Element("policy"), Element("risk")>>),
                             Sequence(<<Element("inner")>>)>>),
                  Sequence(<<Element("second")>>)>>,
     Claim  |-> <<Element("loss"), Attribute("cause")>>,
     Party  |-> <<Child("all", "", <<Element("name")>>), Attribute("role")>>]
Type(base, name) == [base |-> base, content |-> Content[name]]
Node(base, name) == [name |-> name, base |-> base, content |-> Content[name]]
Xsd == [types |-> [Base |-> Type(NoBase, "Base"), Middle |-> Type("Base", "Middle"),
                   Claim |-> Type("Middle", "Claim")],
        nodes |-> <<Node("Middle", "Claim"), Node(NoBase, "Base"), Node(NoBase, "Party")>>]

Section(heading, source, words) == [heading |-> heading, source |-> source, words |-> words]
Page(before, lengths) ==
    [lead |-> Section("", 0, before),
     headed |-> [i \in DOMAIN lengths |-> Section("h", i, lengths[i])]]

contract == Artefact("a", "eu", 1, "openapi", {"a/loss", "a/party"}, OpenApi("c1"))
edited   == Artefact("a", "eu", 1, "openapi", {"a/loss", "a/date"}, OpenApi("c2"))
copied   == Artefact("b", "uk", 2, "openapi", {"b/loss"}, OpenApi("c1"))
schema   == Artefact("x", "uk", 1, "xsd", {"x/loss"}, Xsd)
page     == Artefact("w", "eu", 4, "confluence", {}, Page(3, <<5>>))
service  == Artefact("s", "eu", 2, "wsdl", {"s/loss"},
                [operations |-> <<[name |-> "Submit", messages |-> <<"in", "out">>]>>])
event    == Artefact("e", "eu", 2, "avro", {"e/loss"},
                [named |-> <<[name |-> "Claim", body |-> "r1"]>>])
notes    == Artefact("n", "eu", 5, "other", {}, 0)
torn     == [Artefact("t", "eu", 1, "openapi", {}, OpenApi("c1")) EXCEPT !.broken = TRUE]

Pair(one, two) == [r \in Runs |-> IF r = r1 THEN one ELSE two]

MCCorpora ==
    {Pair(<<contract, page>>, two) :
        two \in {<<contract, page>>, <<page, contract>>, <<edited, copied>>,
                 <<copied, contract>>, <<page, torn>>}}
    \union {Pair(<<schema, service>>, <<event, schema>>)}
    \union {Pair(<<event, notes, Artefact("w", "eu", 4, "confluence", {}, Page(0, <<n, m>>))>>, <<>>) :
        n \in 0..9, m \in {1, 6}}
    \union {Pair(<<Artefact("w", "eu", 4, "confluence", {}, Page(n, <<>>))>>, <<>>) : n \in 0..6}

MCQueries ==
    {[region |-> "any", kinds |-> {}, tierMax |-> 6, topK |-> 3],
     [region |-> "eu", kinds |-> {"openapi", "xsd"}, tierMax |-> 1, topK |-> 9]}

(* An order of hashes and scores that have nothing to do with each other,  *)
(* with ties in both rankings.                                             *)
MCHashRank(text) ==
    IF text.kind = "confluence" THEN 40 + 20 * text.source + text.span[1]
    ELSE (CASE text.name = "Claim" -> 10 [] text.name = "Party" -> 9 [] OTHER -> 8)
         + (CASE text.kind = "openapi" -> (IF \/ text.body = "c2"
                                                \/ \E ref \in DOMAIN text.inlined : \E u \in text.inlined[ref] : u.body = "c2"
                                             THEN 0 ELSE 10)
              [] text.kind = "xsd" -> 20 [] text.kind = "wsdl" -> 70 [] OTHER -> 30)
MCLexical(q, text) == IF text.kind = "confluence" THEN text.span[1] % 2
                      ELSE IF text.name = "Claim" THEN q.tierMax ELSE 0
MCSemantic(q, text) == IF text.kind = "confluence" THEN text.span[2] % 3
                       ELSE IF text.name = "Party" THEN 2 ELSE 1
=============================================================================
