------------------------------ MODULE Coverage ------------------------------
(***************************************************************************)
(* The pure functions between a synthesised candidate and a release:       *)
(* placement (9.7), naming (9.9), the checks that accept a candidate,      *)
(* coverage and the gap register (9.8), and what a workshop pack is made   *)
(* of (11.1).                                                              *)
(*                                                                         *)
(* A cluster is [id, members, evidence], a member [region, level, tier,    *)
(* inferred].  The text of a name is what check_name asks of it: the set   *)
(* of marks it bears.  A score is a fraction over whole numbers, because   *)
(* every resolution weight is a multiple of one half.                      *)
(***************************************************************************)
EXTENDS Integers, Sequences, FiniteSets, Selection
LOCAL INSTANCE SequencesExt
LOCAL INSTANCE FiniteSetsExt

Regions == <<"us", "uk", "eu">>
Alphabetical == <<"eu", "uk", "us">>
ALL_REGIONS == Range(Regions)
Levels == <<"optional", "conditional", "mandatory">>
Strength(level) == CHOOSE i \in DOMAIN Levels : Levels[i] = level
WeightFromObligation(level) == <<1, 3, 5>>[Strength(level)]

MemberRegions(cluster) == {m.region : m \in cluster.members}
Obligations(cluster)   == {Strength(m.level) : m \in cluster.members}
StrongestObligation(cluster) == Levels[Max(Obligations(cluster))]
WeakestObligation(cluster)   == Levels[Min(Obligations(cluster))]

-----------------------------------------------------------------------------
(* Placement.  ctx answers what people know of a cluster; nobody in the    *)
(* program overrides the four answers that default to "no".                *)

DefaultContext == [regulatory |-> FALSE, absenceIsGap |-> FALSE,
                   intendsToClose |-> FALSE, workshopApproved |-> FALSE]
MaxEvidenceTier(cluster) == Max({m.tier : m \in cluster.members})
SoleRegion(cluster) ==
    Only(Alphabetical, MemberRegions(cluster))[1]

PlacementRule(cluster, ctx) ==
    LET spread == Cardinality(MemberRegions(cluster))
    IN  CASE ctx.regulatory -> 4
          [] ~ctx.regulatory /\ MaxEvidenceTier(cluster) = 3 /\ ~ctx.workshopApproved -> 5
          [] OTHER -> <<3, 2, 1>>[spread]
Place(cluster, ctx) ==
    LET rule == PlacementRule(cluster, ctx)
        core == \/ rule = 1
                \/ rule = 2 /\ ctx.absenceIsGap
                \/ rule = 3 /\ ctx.intendsToClose
    \* Rule 2 names both regions present; the contract has room for the first.
    IN  IF core THEN "core" ELSE SoleRegion(cluster)

-----------------------------------------------------------------------------
(* Naming.  A name is [text, marks]: "case" when it breaks the case rule,  *)
(* "abbreviation" when one of its words is one to expand, "region" when us, *)
(* uk or eu is a substring, "is" when it starts with is or has.  What it   *)
(* denotes is never computed for a candidate, and an offset always is      *)
(* required, so three of the checks never fire there.                      *)

CheckName(name, dataType, isCore, denotes, offsetRequired, typeName) ==
    (name.marks \intersect {"case", "abbreviation"})
    \union {v \in {"region-marker"} : isCore /\ "region" \in name.marks}
    \union {v \in {"boolean"}    : dataType = "boolean" /\ "is" \notin name.marks}
    \union {v \in {"money"}      : v \in denotes /\ typeName # "MonetaryAmount"}
    \union {v \in {"identifier"} : v \in denotes /\ typeName # "Identifier"}
    \union {v \in {"datetime"}   : dataType = "dateTime" /\ ~offsetRequired}

\* What validate_semantics and the guardrails make of a model's answer for a
\* cluster.  placement, its rule, the obligation and vendorOnly are the code's;
\* candidateId, weight and ratification stay the model's.
Corrected(cluster, output) ==
    [id |-> output.id, cluster |-> cluster.id, entity |-> output.entity,
     name |-> output.name, dataType |-> output.dataType, weight |-> output.weight,
     status |-> output.status, sme |-> output.sme,
     placement |-> Place(cluster, DefaultContext),
     rule |-> PlacementRule(cluster, DefaultContext),
     level |-> WeakestObligation(cluster),
     vendorOnly |-> MaxEvidenceTier(cluster) = 3]
\* I3: a reference that is not the cluster in hand does not resolve; G1: none
\* at all; G2: the name.
Rejections(cluster, output) ==
    LET candidate == Corrected(cluster, output)
    IN  {<<"I3", ref>> : ref \in output.refs \ {cluster.id}}
        \union {v \in {<<"G1", "">>} : output.refs = {}}
        \union {<<"G2", v>> : v \in CheckName(candidate.name, candidate.dataType,
                    candidate.placement = "core", {}, TRUE, candidate.dataType)}

-----------------------------------------------------------------------------
(* The universe: one concept for every cluster, with or without candidate. *)

CandidateFor(id, candidates) == {i \in DOMAIN candidates : candidates[i].cluster = id}
ConceptOf(cluster, candidates) ==
    LET found == CandidateFor(cluster.id, candidates)
        inferred == \A m \in cluster.members : m.inferred
    IN  IF found = {}
        THEN [id |-> cluster.id, weight |-> WeightFromObligation(StrongestObligation(cluster)),
              evidence |-> cluster.evidence, sme |-> "", resolution |-> "gap",
              regions |-> MemberRegions(cluster), inferred |-> inferred]
        ELSE LET c == candidates[Max(found)]     \* the last one written wins
             IN  [id |-> c.id, weight |-> c.weight, evidence |-> cluster.evidence,
                  sme |-> IF c.status = "approved" THEN c.sme ELSE "",
                  resolution |-> IF c.placement = "core" THEN "core" ELSE "extension",
                  regions |-> MemberRegions(cluster), inferred |-> inferred]
BuildUniverse(clusters, candidates) ==
    [i \in DOMAIN clusters |-> ConceptOf(clusters[i], candidates)]

-----------------------------------------------------------------------------
(* Coverage.  Resolution is counted in halves.                             *)

DomainTarget == 90
RegionFloor  == 8500
ResolutionScore == [core |-> 2, extension |-> 1, gap |-> 0]
Unevidenced(c) == c.evidence = {} \/ c.sme = ""
OwnResolution(c) == IF Unevidenced(c) THEN 0 ELSE ResolutionScore[c.resolution]
MutMandatoryUnresolved(c) == c.weight = 5 /\ OwnResolution(c) = 0
MandatoryUnresolved(c) == c.weight = 5 /\ OwnResolution(c) < 2

\* resolved_r is a dictionary by concept id: of two concepts with one id, the
\* later one's resolution stands for both.
ResolvedR(universe) ==
    [id \in {c.id : c \in Range(universe)} |->
        OwnResolution(universe[Max({i \in DOMAIN universe : universe[i].id = id})])]

Total(f) == FoldFunction(+, 0, f)
SumSeq(Value(_), s) == Total([i \in DOMAIN s |-> Value(s[i])])
\* The denominator without what nobody signed.
MutWeightSum(universe) == SumSeq(LAMBDA c : IF Unevidenced(c) THEN 0 ELSE c.weight, universe)
WeightSum(universe) == SumSeq(LAMBDA c : c.weight, universe)
Score(universe) ==
    LET r == ResolvedR(universe)
    IN  [num |-> SumSeq(LAMBDA c : c.weight * r[c.id], universe),
         den |-> 2 * WeightSum(universe)]
\* round(score, 4), in ten-thousandths; 0 for an empty universe.
Rounded(s) == IF s.den = 0 THEN 0 ELSE (20000 * s.num + s.den) \div (2 * s.den)
AtLeast(s, hundredths) == s.den > 0 /\ 100 * s.num >= hundredths * s.den

InRegion(universe, region) == Where(universe, LAMBDA c : region \in c.regions)
Report(universe) ==
    LET score == Score(universe)
        perRegion == [r \in ALL_REGIONS |-> Rounded(Score(InRegion(universe, r)))]
    IN  [score |-> Rounded(score), denominator |-> Len(universe),
         weightSum |-> WeightSum(universe), perRegion |-> perRegion,
         gate1 |-> \A c \in Range(universe) : ~MandatoryUnresolved(c),
         gate2 |-> /\ AtLeast(score, DomainTarget)
                   /\ \A r \in ALL_REGIONS : perRegion[r] >= RegionFloor,
         gate3 |-> \A c \in Range(universe) : ~Unevidenced(c),
         inferred |-> Len(Where(universe, LAMBDA c : c.inferred))]
MutGatesPass(report) == report.gate1 /\ report.gate2
GatesPass(report) == report.gate1 /\ report.gate2 /\ report.gate3

\* No caller passes exclusions, so no entry has the reason "excluded".
GapEntry(c, reason, regions) ==
    [concept |-> c.id, weight |-> c.weight, reason |-> reason, regions |-> regions]
Entries(s, reason) == [i \in DOMAIN s |-> GapEntry(s[i], reason, s[i].regions)]
Unresolved(universe) == Where(universe, MandatoryUnresolved)
UnevidencedOnly(universe) ==
    LET listed == {u.id : u \in Range(Unresolved(universe))}
    IN  Where(universe, LAMBDA c : Unevidenced(c) /\ c.id \notin listed)
BelowFloor(universe, report, region) ==
    LET here == Where(InRegion(universe, region), LAMBDA c : c.resolution # "core")
    IN  IF report.perRegion[region] >= RegionFloor THEN <<>>
        ELSE [i \in DOMAIN here |-> GapEntry(here[i], "below-region-floor", {region})]
GapRegister(universe, report) ==
    Entries(Unresolved(universe), "unresolved")
    \o Entries(UnevidencedOnly(universe), "unevidenced")
    \o FlattenSeq([i \in DOMAIN Regions |-> BelowFloor(universe, report, Regions[i])])

-----------------------------------------------------------------------------
(* The workshop pack: files by path, and the references inside them.       *)

CommonSchemas == [Party |-> {"Identifier"}, PostalAddress |-> {}, MonetaryAmount |-> {},
                  ContactPoint |-> {}, DocumentRef |-> {}, Identifier |-> {}]
EntityPath(e)       == <<"entity", e>>
ExtensionPath(r, e) == <<"extension", r, e>>
CommonPath(n)       == <<"common", n>>

\* Core attributes are inlined; the rest of an entity is a reference per region.
\* Of two candidates with one attribute the later is the property, and either
\* makes it required.
SchemaOf(group) ==
    [properties |-> [a \in {c.name.text : c \in Range(group)} |->
                        group[Max({i \in DOMAIN group : group[i].name.text = a})].id],
     required   |-> {c.name.text : c \in {c \in Range(group) : c.level = "mandatory"}}]
EntitySchemas(candidates) ==
    [e \in {c.entity : c \in Range(candidates)} |->
        LET mine == Where(candidates, LAMBDA c : c.entity = e)
            core == Where(mine, LAMBDA c : c.placement = "core")
        IN  [body |-> SchemaOf(core),
             refs |-> {ExtensionPath(c.placement, e) :
                          c \in {c \in Range(mine) : c.placement # "core"}}]]
ExtensionGroups(extensions) ==
    [re \in {<<c.placement, c.entity>> : c \in Range(extensions)} |->
        SchemaOf(Where(extensions, LAMBDA c : <<c.placement, c.entity>> = re))]
\* Vendor-only attributes are not emitted, and still referred to.
MutExtensionSchemas(candidates) ==
    ExtensionGroups(Where(candidates, LAMBDA c : c.placement # "core" /\ ~c.vendorOnly))
ExtensionSchemas(candidates) ==
    ExtensionGroups(Where(candidates, LAMBDA c : c.placement # "core"))
OpenapiProjection(paths) == paths

\* An attribute is realised by the entity's file whatever its placement.
LogicalModel(candidates) ==
    {[id |-> c.id, entity |-> c.entity, attribute |-> c.name.text,
      realisedBy |-> [path |-> EntityPath(c.entity), attribute |-> c.name.text],
      ratifiedBy |-> IF c.status = "approved" THEN c.sme ELSE ""] : c \in Range(candidates)}

\* degraded_alignment: without a licence every cluster is left to people.
Alignments(clusters) == [i \in DOMAIN clusters |-> [cluster |-> clusters[i].id,
                                                    verdict |-> "unassessed"]]

\* No mapping specification reaches a pack made by the API.
Pack(clusters, candidates, report, gaps) ==
    LET entities   == EntitySchemas(candidates)
        extensions == ExtensionSchemas(candidates)
        entityPaths == {EntityPath(e) : e \in DOMAIN entities}
        model == LogicalModel(candidates)
        Elements(path, properties) ==
            {[path |-> path, attribute |-> a, candidate |-> properties[a]] : a \in DOMAIN properties}
    IN  [files |-> {CommonPath(n) : n \in DOMAIN CommonSchemas} \union entityPaths
                   \union {ExtensionPath(re[1], re[2]) : re \in DOMAIN extensions}
                   \union {<<"openapi">>, <<"logical-model">>, <<"coverage-report">>,
                           <<"gap-register">>, <<"acord-alignment">>, <<"release-manifest">>},
         refs  |-> (UNION {entities[e].refs : e \in DOMAIN entities})
                   \union OpenapiProjection(entityPaths)
                   \union {CommonPath(n) : n \in UNION Range(CommonSchemas)},
         elements |-> (UNION {Elements(EntityPath(e), entities[e].body.properties) : e \in DOMAIN entities})
                      \union UNION {Elements(ExtensionPath(re[1], re[2]), extensions[re].properties) :
                                       re \in DOMAIN extensions},
         model |-> model, acord |-> Alignments(clusters), report |-> report, gaps |-> gaps]
=============================================================================
