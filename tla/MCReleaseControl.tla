-------------------------- MODULE MCReleaseControl --------------------------
(* Two clusters at a time.  The answers of the model are chosen so that the  *)
(* gates can pass, each of them can fail alone, a name is legal in an        *)
(* extension and not in the core, and two candidates can share an id, or an  *)
(* entity and an attribute.                                                  *)
EXTENDS ReleaseControl

Member(region, level, tier) == [region |-> region, level |-> level, tier |-> tier, inferred |-> tier > 1]
Cluster(id, members) == [id |-> id, members |-> members, evidence |-> {"evref"}]
Everywhere(level) == {Member(r, level, 1) : r \in {"us", "uk", "eu"}}

MCClusterStores == {
    <<>>,
    <<Cluster("k1", Everywhere("mandatory")), Cluster("k2", {Member("uk", "optional", 2)})>>,
    <<Cluster("k1", {Member("us", "conditional", 1), Member("eu", "optional", 1)}),
      Cluster("k2", Everywhere("mandatory"))>>,
    <<Cluster("k1", Everywhere("optional")), Cluster("k2", {Member("eu", "mandatory", 3)})>>}

MCLimits == {NoLimit, -1, 0, 1, 2}

Output(id, ref, entity, name, type, weight, status, sme) ==
    [id |-> id, refs |-> {ref}, entity |-> entity, name |-> name, dataType |-> type,
     weight |-> weight, status |-> status, sme |-> sme]
Plain  == [text |-> "lossDate", marks |-> {}]
Marked == [text |-> "lossStatus", marks |-> {"region"}]
Flag   == [text |-> "isOpen", marks |-> {"is"}]

MCOutputs == UNION {{
    Output("a", k, "Claim", Plain,  "date",    5, "approved", "jo"),
    Output("b", k, "Claim", Plain,  "date",    1, "approved", "jo"),
    Output("a", k, "Claim", Marked, "string",  5, "pending",  "jo"),
    Output("b", k, "Party", Marked, "string",  3, "approved", ""),
    Output("c", k, "Party", Flag,   "boolean", 3, "approved", "jo")} : k \in {"k1", "k2"}}
=============================================================================
