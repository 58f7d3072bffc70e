---------------------------- MODULE ReleaseProofs ----------------------------
(***************************************************************************)
(* Proofs about releases, for any clusters, any answers of the model and   *)
(* any number of sessions and requests: a release stands on candidates     *)
(* that people signed, one for every cluster, although the candidates may  *)
(* be replaced between the request's reading them and its writing.         *)
(*                                                                         *)
(* The gates read concepts; a concept with a signature and no missing      *)
(* evidence has a candidate behind it, the last one of its cluster.        *)
(***************************************************************************)
EXTENDS ReleaseControl, SelectionProofs
LOCAL INSTANCE SequencesExt
LOCAL INSTANCE FiniteSetsExt
SQT == INSTANCE SequenceTheorems

-----------------------------------------------------------------------------
(* Behind a concept that is evidenced and, where its weight is 5, resolved *)
(* in the core, there is a candidate of the cluster that people signed.    *)
LEMMA ConceptIsSigned ==
    ASSUME NEW S, NEW cs \in Seq(S), NEW k,
           ~Unevidenced(ConceptOf(k, cs)), ~MandatoryUnresolved(ConceptOf(k, cs))
    PROVE  \E c \in CandidatesOf(k, cs) : Signed(c) /\ (c.weight = 5 => c.placement = "core")
<1> DEFINE found == CandidateFor(k.id, cs)
           c     == cs[Max(found)]
           inferred == \A m \in k.members : m.inferred
           concept  == ConceptOf(k, cs)
<1>1. found # {}
  <2> SUFFICES ASSUME found = {} PROVE FALSE
    OBVIOUS
  <2>1. concept.sme = ""
    BY DEF ConceptOf
  <2> QED
    BY <2>1 DEF Unevidenced
<1>2. Max(found) \in found
  <2>1. Len(cs) \in Nat /\ found \in SUBSET (1..Len(cs))
    BY DEF CandidateFor
  <2> HIDE DEF found
  <2> QED
    BY <1>1, <2>1, LastPosition
<1>3. c \in CandidatesOf(k, cs)
  BY <1>2 DEF CandidateFor, CandidatesOf, Range
<1>4. concept = [id |-> c.id, weight |-> c.weight, evidence |-> k.evidence,
                 sme |-> IF c.status = "approved" THEN c.sme ELSE "",
                 resolution |-> IF c.placement = "core" THEN "core" ELSE "extension",
                 regions |-> MemberRegions(k), inferred |-> inferred]
  BY <1>1 DEF ConceptOf
<1> HIDE DEF c, found, concept, inferred
<1>5. /\ concept.weight = c.weight
      /\ concept.sme = (IF c.status = "approved" THEN c.sme ELSE "")
      /\ concept.resolution = (IF c.placement = "core" THEN "core" ELSE "extension")
  BY <1>4
<1>6. ~Unevidenced(concept) /\ ~MandatoryUnresolved(concept)
  BY DEF concept
<1>7. Signed(c)
  BY <1>5, <1>6 DEF Unevidenced, Signed
<1>8. c.weight = 5 => c.placement = "core"
  <2>1. ResolutionScore["extension"] = 1
    BY DEF ResolutionScore
  <2>2. ~Unevidenced(concept) => OwnResolution(concept) = ResolutionScore[concept.resolution]
    BY DEF OwnResolution
  <2>3. ASSUME c.placement # "core" PROVE OwnResolution(concept) = 1
    BY <1>5, <1>6, <2>1, <2>2, <2>3
  <2>4. OwnResolution(concept) = 1 => OwnResolution(concept) < 2
    OBVIOUS
  <2>5. concept.weight = 5 => ~(OwnResolution(concept) < 2)
    BY <1>6 DEF MandatoryUnresolved
  <2> QED
    BY <1>5, <2>3, <2>4, <2>5
<1> QED
  BY <1>3, <1>7, <1>8

(* When the gates pass, the candidates they were computed from are whole.  *)
LEMMA GatesMeanSigned ==
    ASSUME NEW S, candidates \in Seq(S), GatesPass(Report(LiveUniverse))
    PROVE  SignedWhole(candidates)
<1> DEFINE universe == BuildUniverse(clusters, candidates)
<1>1. Report(universe).gate1 /\ Report(universe).gate3
  BY DEF GatesPass, LiveUniverse
<1>2. /\ Report(universe).gate1 = \A c \in Range(universe) : ~MandatoryUnresolved(c)
      /\ Report(universe).gate3 = \A c \in Range(universe) : ~Unevidenced(c)
  BY DEF Report
<1>3. \A c \in Range(universe) : ~MandatoryUnresolved(c) /\ ~Unevidenced(c)
  BY <1>1, <1>2
<1>4. ASSUME NEW k \in Range(clusters)
      PROVE  ConceptOf(k, candidates) \in Range(universe)
  BY DEF Range, BuildUniverse
<1> HIDE DEF universe
<1> QED
  BY <1>3, <1>4, ConceptIsSigned DEF SignedWhole

(* A region's score is nothing when no concept lies in it, so that gates   *)
(* that pass have seen a cluster in every region.                          *)
Covered == \A r \in ALL_REGIONS : \E k \in Range(clusters) : r \in MemberRegions(k)

LEMMA EmptyTotal == \A f : DOMAIN f = {} => Total(f) = 0
<1> SUFFICES ASSUME NEW f, DOMAIN f = {} PROVE Total(f) = 0
  OBVIOUS
<1> DEFINE S == DOMAIN f
           Rest(g, s) == LET x == CHOOSE x \in s : TRUE IN f[x] + g[s \ {x}]
           iter[s \in SUBSET S] == IF s = {} THEN 0 ELSE Rest(iter, s)
<1>1. Total(f) = iter[S]
  BY DEF Total, FoldFunction, FoldFunctionOnSet, MapThenFoldSet
<1> HIDE DEF Rest
<1>2. \E g : g = [s \in SUBSET S |-> IF s = {} THEN 0 ELSE Rest(g, s)]
  <2> DEFINE g == [s \in SUBSET S |-> 0]
  <2>1. g = [s \in SUBSET S |-> IF s = {} THEN 0 ELSE Rest(g, s)]
    OBVIOUS
  <2> HIDE DEF g
  <2> QED
    BY <2>1
<1>3. iter = [s \in SUBSET S |-> IF s = {} THEN 0 ELSE Rest(iter, s)]
  BY <1>2
<1> HIDE DEF iter
<1> QED
  BY <1>1, <1>3

LEMMA EmptyScore == Rounded(Score(<<>>)) = 0
<1>1. Score(<<>>).den = 2 * Total([i \in DOMAIN <<>> |-> <<>>[i].weight])
  BY DEF Score, WeightSum, SumSeq
<1>2. Total([i \in DOMAIN <<>> |-> <<>>[i].weight]) = 0
  <2> DEFINE f == [i \in DOMAIN <<>> |-> <<>>[i].weight]
  <2>1. DOMAIN f = {}
    OBVIOUS
  <2> HIDE DEF f
  <2>2. Total(f) = 0
    BY <2>1, EmptyTotal
  <2> QED
    BY <2>2 DEF f
<1> QED
  BY <1>1, <1>2 DEF Rounded

LEMMA GatesMeanCovered ==
    ASSUME clusters \in Seq(Range(clusters)), GatesPass(Report(LiveUniverse))
    PROVE  Covered
<1> DEFINE universe == BuildUniverse(clusters, candidates)
<1>1. \A r \in ALL_REGIONS : Report(universe).perRegion[r] >= RegionFloor
  BY DEF GatesPass, LiveUniverse, Report
<1>2. \A r \in ALL_REGIONS :
         Report(universe).perRegion[r] = Rounded(Score(InRegion(universe, r)))
  BY DEF Report
<1>3. universe \in Seq(Range(universe))
  BY DEF BuildUniverse, Range
<1>4. \A i \in DOMAIN clusters : universe[i].regions = MemberRegions(clusters[i])
  <2>1. \A k : ConceptOf(k, candidates).regions = MemberRegions(k)
    BY DEF ConceptOf
  <2> QED
    BY <2>1 DEF BuildUniverse
<1>5. DOMAIN universe = DOMAIN clusters
  BY DEF BuildUniverse
<1> HIDE DEF universe
<1>6. SUFFICES ASSUME NEW r \in ALL_REGIONS,
                      \A k \in Range(clusters) : r \notin MemberRegions(k)
               PROVE  FALSE
  BY DEF Covered
<1> DEFINE T == {c \in Range(universe) : r \in c.regions}
           here == Only(universe, T)
<1>7. InRegion(universe, r) = here
  BY DEF InRegion, Where
<1>8. T = {}
  BY <1>4, <1>5, <1>6 DEF Range
<1>9. here = <<>>
  <2>1. here \in Seq(Range(universe)) /\ Range(here) = {}
    BY <1>3, <1>8, OnlySelects, OnlyRange
  <2> HIDE DEF here, T
  <2>2. DOMAIN here = {}
    BY <2>1 DEF Range
  <2>3. Len(here) = 0
    BY <2>1, <2>2
  <2> QED
    BY <2>1, <2>3
<1>10. Rounded(Score(InRegion(universe, r))) = 0
  BY <1>7, <1>9, EmptyScore
<1> QED
  BY <1>1, <1>2, <1>6, <1>10 DEF RegionFloor

-----------------------------------------------------------------------------
(* The gap register is a list, whatever the universe, and a page of it is  *)
(* a stretch of it that starts where the last one ended.                   *)
Register(basis) ==
    LET universe == BuildUniverse(clusters, basis)
    IN  GapRegister(universe, Report(universe))

OneRegion == {{r} : r \in ALL_REGIONS}
FloorEntry(U) == {GapEntry(c, "below-region-floor", span) : c \in U, span \in OneRegion}
Entry(U) == {GapEntry(c, reason, c.regions) : c \in U, reason \in {"unresolved", "unevidenced"}}
            \union FloorEntry(U)

LEMMA EntriesAreAList ==
    ASSUME NEW U, NEW s \in Seq(U), NEW reason \in {"unresolved", "unevidenced"}
    PROVE  Entries(s, reason) \in Seq(Entry(U))
<1>1. \A i \in 1..Len(s) : GapEntry(s[i], reason, s[i].regions) \in Entry(U)
  <2> SUFFICES ASSUME NEW i \in 1..Len(s)
               PROVE  GapEntry(s[i], reason, s[i].regions) \in Entry(U)
    OBVIOUS
  <2>1. s[i] \in U
    OBVIOUS
  <2> QED
    BY <2>1 DEF Entry
<1> QED
  BY <1>1 DEF Entries

LEMMA FloorIsAList ==
    ASSUME NEW U, NEW u \in Seq(U), NEW report, NEW r \in ALL_REGIONS
    PROVE  BelowFloor(u, report, r) \in Seq(FloorEntry(U))
<1> DEFINE here == Where(InRegion(u, r), LAMBDA c : c.resolution # "core")
           listed == [i \in DOMAIN here |-> GapEntry(here[i], "below-region-floor", {r})]
<1>1. here \in Seq(U)
  <2>1. InRegion(u, r) \in Seq(U)
    BY OnlySelects DEF InRegion, Where
  <2> HIDE DEF InRegion
  <2> QED
    BY <2>1, OnlySelects DEF Where
<1>2. BelowFloor(u, report, r) = <<>> \/ BelowFloor(u, report, r) = listed
  BY DEF BelowFloor
<1> HIDE DEF here
<1>3. ASSUME NEW i \in 1..Len(here)
      PROVE  GapEntry(here[i], "below-region-floor", {r}) \in FloorEntry(U)
  <2>1. here[i] \in U
    BY <1>1
  <2>2. {r} \in OneRegion
    BY DEF OneRegion
  <2> QED
    BY <2>1, <2>2 DEF FloorEntry
<1>4. DOMAIN here = 1..Len(here) /\ Len(here) \in Nat
  BY <1>1
<1>5. listed \in [1..Len(here) -> FloorEntry(U)]
  BY <1>3, <1>4
<1> HIDE DEF listed
<1>6. listed \in Seq(FloorEntry(U)) /\ <<>> \in Seq(FloorEntry(U))
  BY <1>4, <1>5
<1> QED
  BY <1>2, <1>6, Zenon

Floors(u, report) == [i \in DOMAIN Regions |-> BelowFloor(u, report, Regions[i])]

LEMMA PartsAreLists ==
    ASSUME NEW U, NEW u \in Seq(U), NEW report
    PROVE  /\ Unresolved(u) \in Seq(U) /\ UnevidencedOnly(u) \in Seq(U)
           /\ Entries(Unresolved(u), "unresolved") \in Seq(Entry(U))
           /\ Entries(UnevidencedOnly(u), "unevidenced") \in Seq(Entry(U))
           /\ Floors(u, report) \in Seq(Seq(FloorEntry(U)))
           /\ FlattenSeq(Floors(u, report)) \in Seq(FloorEntry(U))
<1>1. Unresolved(u) \in Seq(U) /\ UnevidencedOnly(u) \in Seq(U)
  BY OnlySelects DEF Where, Unresolved, UnevidencedOnly
<1>2. /\ Entries(Unresolved(u), "unresolved") \in Seq(Entry(U))
      /\ Entries(UnevidencedOnly(u), "unevidenced") \in Seq(Entry(U))
  BY <1>1, EntriesAreAList
<1>3. Floors(u, report) \in Seq(Seq(FloorEntry(U)))
  <2>1. \A i \in 1..3 : Regions[i] \in ALL_REGIONS
    BY DEF Regions, ALL_REGIONS, Range
  <2>2. DOMAIN Regions = 1..3
    BY DEF Regions
  <2> QED
    BY FloorIsAList, <2>1, <2>2 DEF Floors
<1> QED
  BY <1>1, <1>2, <1>3, FlattenSeqType

LEMMA RegisterIsAList ==
    ASSUME clusters \in Seq(Range(clusters)), NEW basis
    PROVE  \E E : Register(basis) \in Seq(E)
<1> DEFINE universe == BuildUniverse(clusters, basis)
           report == Report(universe)
           U == Range(universe)
<1>1. Register(basis) = Entries(Unresolved(universe), "unresolved")
                        \o Entries(UnevidencedOnly(universe), "unevidenced")
                        \o FlattenSeq(Floors(universe, report))
  BY DEF Register, GapRegister, Floors
<1>2. universe \in Seq(U)
  BY DEF BuildUniverse, Range
<1> HIDE DEF universe, report, U
<1>3. FlattenSeq(Floors(universe, report)) \in Seq(Entry(U))
  <2>1. FlattenSeq(Floors(universe, report)) \in Seq(FloorEntry(U))
    BY <1>2, PartsAreLists
  <2>2. FloorEntry(U) \subseteq Entry(U)
    BY DEF Entry
  <2> QED
    BY <2>1, <2>2
<1> QED
  BY <1>1, <1>2, <1>3, PartsAreLists

LEMMA LeastOfTwo ==
    ASSUME NEW a \in Int, NEW b \in Int
    PROVE  Min({a, b}) = IF a <= b THEN a ELSE b
BY DEF Min

LEMMA StopIsWithin ==
    ASSUME NEW E, NEW gaps \in Seq(E), NEW start \in 0..Len(gaps), NEW limit \in Limits
    PROVE  Stop(gaps, start, limit) \in Int /\ Stop(gaps, start, limit) <= Len(gaps)
<1>1. CASE limit = NoLimit
  BY <1>1 DEF Stop
<1>2. CASE limit # NoLimit
  <2> DEFINE stop == start + limit
             bound == IF stop < 0 THEN stop + Len(gaps) ELSE stop
  <2>1. bound \in Int /\ Len(gaps) \in Int
    BY <1>2, ReleaseAssumption
  <2>2. Stop(gaps, start, limit) = Min({bound, Len(gaps)})
    BY <1>2 DEF Stop
  <2> HIDE DEF bound
  <2> QED
    BY <2>1, <2>2, LeastOfTwo
<1> QED
  BY <1>1, <1>2

LEMMA PageContinues ==
    ASSUME NEW E, NEW gaps \in Seq(E), NEW start \in 0..Len(gaps), NEW limit \in Limits
    PROVE  LET next == PageOf(gaps, start, limit)
           IN  /\ next.page \in Seq(E) /\ next.cursor \in 0..Len(gaps)
               /\ SubSeq(gaps, 1, start) \o next.page = SubSeq(gaps, 1, next.cursor)
               /\ next.over => next.cursor = Len(gaps)
<1> DEFINE next == PageOf(gaps, start, limit)
           stop == Stop(gaps, start, limit)
           end == IF stop < start THEN start ELSE stop
<1>1. stop \in Int /\ stop <= Len(gaps)
  BY StopIsWithin
<1>2. /\ next.page = SubSeq(gaps, start + 1, stop)
      /\ next.cursor = start + Len(next.page)
      /\ next.over <=> start + Len(next.page) >= Len(gaps)
  BY DEF PageOf, Page
<1> HIDE DEF stop, next
<1>3. end \in start..Len(gaps)
  BY <1>1
<1>4. SubSeq(gaps, start + 1, stop) = SubSeq(gaps, start + 1, end)
  <2>1. CASE stop < start
    <3>1. SubSeq(gaps, start + 1, stop) = <<>> /\ SubSeq(gaps, start + 1, start) = <<>>
      BY <1>1, <2>1
    <3>2. end = start
      BY <2>1
    <3> QED
      BY <3>1, <3>2
  <2>2. CASE ~(stop < start)
    BY <2>2
  <2> QED
    BY <2>1, <2>2
<1> HIDE DEF end
<1>5. Len(next.page) = end - start
  <2>1. Len(SubSeq(gaps, start + 1, end)) = end - start
    BY <1>3
  <2> QED
    BY <1>2, <1>4, <2>1
<1> DEFINE length == Len(next.page)
<1>6. next.cursor = end /\ start + length = end
  <2>1. length = end - start /\ start \in Int /\ end \in Int
    BY <1>3, <1>5
  <2>2. next.cursor = start + length
    BY <1>2
  <2> HIDE DEF length
  <2> QED
    BY <2>1, <2>2
<1>7. SubSeq(gaps, 1, start) \o SubSeq(gaps, start + 1, end) = SubSeq(gaps, 1, end)
  BY <1>3, SQT!ConcatAdjacentSubSeq
<1>8. next.over => next.cursor = Len(gaps)
  <2>1. next.over <=> start + length >= Len(gaps)
    BY <1>2
  <2> HIDE DEF length
  <2>2. next.over => end >= Len(gaps)
    BY <1>6, <2>1
  <2> QED
    BY <1>3, <1>6, <2>2
<1>9. next.page \in Seq(E)
  <2>1. SubSeq(gaps, start + 1, end) \in Seq(E)
    BY <1>3
  <2> QED
    BY <1>2, <1>4, <2>1
<1> QED
  <2>1. SubSeq(gaps, 1, start) \o next.page = SubSeq(gaps, 1, next.cursor)
    BY <1>2, <1>4, <1>6, <1>7
  <2>2. next.cursor \in 0..Len(gaps)
    BY <1>3, <1>6
  <2> QED
    BY <1>8, <1>9, <2>1, <2>2 DEF next

-----------------------------------------------------------------------------
Accepted == {Corrected(k, output) : k \in Range(clusters), output \in Outputs}

RInv ==
    /\ clusters \in Seq(Range(clusters))
    /\ candidates \in Seq(Accepted) /\ session.acc \in Seq(Accepted)
    /\ client = "registry" /\ request # None => SignedWhole(request.basis) /\ Covered
    /\ ReleaseWasRatified

THEOREM InitRInv == Init => RInv
<1> SUFFICES ASSUME Init PROVE RInv
  OBVIOUS
<1>1. clusters \in Seq(Range(clusters))
  BY ReleaseAssumption DEF Init, Range
<1>2. candidates = <<>> /\ session.acc = <<>> /\ request = None /\ DOMAIN releases = {}
  BY DEF Init
<1> QED
  BY <1>1, <1>2 DEF RInv, ReleaseWasRatified, Covered

(* The clusters are never touched, and what is read off them stays.        *)
LEMMA ClustersStay ==
    ASSUME UNCHANGED clusters
    PROVE  /\ Accepted' = Accepted
           /\ \A basis : SignedWhole(basis)' <=> SignedWhole(basis)
           /\ Covered' <=> Covered
BY DEF Accepted, SignedWhole, Covered

LEMMA SessionKeeps ==
    ASSUME RInv,
           \/ BeginSynthesis \/ (\E output \in Outputs : Synthesise(output))
           \/ Decline \/ AbortSynthesis \/ WriteCandidates
    PROVE  RInv'
<1>1. UNCHANGED <<client, clusters, request, releases>>
  BY DEF BeginSynthesis, Synthesise, Decline, Advance, AbortSynthesis, WriteCandidates, registry
<1>2. candidates' \in Seq(Accepted) /\ session'.acc \in Seq(Accepted)
  <2>1. CASE BeginSynthesis \/ AbortSynthesis
    <3>1. candidates' = candidates /\ session'.acc = <<>>
      BY <2>1 DEF BeginSynthesis, AbortSynthesis
    <3> QED
      BY <3>1 DEF RInv
  <2>2. CASE Decline
    <3>1. candidates' = candidates /\ session'.acc = session.acc
      BY <2>2 DEF Decline, Advance
    <3> QED
      BY <3>1 DEF RInv
  <2>3. CASE WriteCandidates
    <3>1. candidates' = session.acc /\ session'.acc = <<>>
      BY <2>3 DEF WriteCandidates
    <3> QED
      BY <3>1 DEF RInv
  <2>4. ASSUME NEW output \in Outputs, Synthesise(output)
        PROVE  candidates' \in Seq(Accepted) /\ session'.acc \in Seq(Accepted)
    <3>1. clusters[session.at] \in Range(clusters)
      BY <2>4 DEF RInv, Synthesise, Range
    <3>2. Corrected(clusters[session.at], output) \in Accepted
      BY <3>1 DEF Accepted
    <3>3. /\ candidates' = candidates
          /\ session'.acc = Append(session.acc, Corrected(clusters[session.at], output))
      BY <2>4 DEF Synthesise, Advance
    <3> QED
      BY <3>2, <3>3 DEF RInv
  <2> QED
    BY <2>1, <2>2, <2>3, <2>4
<1>3. clusters' \in Seq(Range(clusters'))
  BY <1>1 DEF RInv
<1> QED
  BY <1>1, <1>2, <1>3, ClustersStay DEF RInv, ReleaseWasRatified, Covered

LEMMA GateReleaseKeeps ==
    ASSUME RInv, NEW semver \in Semvers, GateRelease(semver)
    PROVE  RInv'
<1>1. UNCHANGED <<client, clusters, candidates, session, releases>>
  BY DEF GateRelease, registry
<1>2. request' # None => SignedWhole(request'.basis) /\ Covered
  <2>1. CASE Clustered /\ GatesPass(Report(LiveUniverse))
    <3>1. SignedWhole(candidates) /\ Covered
      BY <2>1, GatesMeanSigned, GatesMeanCovered DEF RInv
    <3>2. request'.basis = candidates
      BY <2>1 DEF GateRelease
    <3> QED
      BY <3>1, <3>2
  <2>2. CASE ~(Clustered /\ GatesPass(Report(LiveUniverse)))
    BY <2>2 DEF GateRelease
  <2> QED
    BY <2>1, <2>2
<1>3. clusters' \in Seq(Range(clusters'))
  BY <1>1 DEF RInv
<1> QED
  BY <1>1, <1>2, <1>3, ClustersStay DEF RInv, ReleaseWasRatified, Covered

LEMMA WriteReleaseKeeps ==
    ASSUME RInv, WriteRelease
    PROVE  RInv'
<1>1. UNCHANGED <<client, clusters, candidates, session>> /\ request' = None
  BY DEF WriteRelease
<1>2. client = "registry" /\ request # None
  BY DEF WriteRelease, Idle
<1> DEFINE manifest == [report |-> request.report, artefacts |-> <<>>, signedAt |-> asked,
                        basis |-> request.basis]
<1>3. releases' = [s \in DOMAIN releases \union {request.semver} |->
                      IF s = request.semver THEN manifest ELSE releases[s]]
  BY DEF WriteRelease
<1>4. manifest.basis = request.basis
  OBVIOUS
<1> HIDE DEF manifest
<1>5. \A semver \in DOMAIN releases' : SignedWhole(releases'[semver].basis) /\ Covered
  BY <1>2, <1>3, <1>4 DEF RInv, ReleaseWasRatified, Covered
<1>6. clusters' \in Seq(Range(clusters'))
  BY <1>1 DEF RInv
<1> QED
  BY <1>1, <1>5, <1>6, ClustersStay DEF RInv, ReleaseWasRatified, Covered

(* The workshop and the pages have requests of their own.                  *)
LEMMA OthersKeep ==
    ASSUME RInv, client' = client,
           UNCHANGED <<clusters, candidates, session, releases>>,
           request' = request \/ client # "registry"
    PROVE  RInv'
<1>1. clusters' \in Seq(Range(clusters'))
  BY DEF RInv
<1> QED
  BY <1>1, ClustersStay DEF RInv, ReleaseWasRatified, Covered

THEOREM NextRInv == RInv /\ [Next]_vars => RInv'
<1> SUFFICES ASSUME RInv, [Next]_vars PROVE RInv'
  OBVIOUS
<1>1. CASE \/ BeginSynthesis \/ (\E output \in Outputs : Synthesise(output))
           \/ Decline \/ AbortSynthesis \/ WriteCandidates
  BY <1>1, SessionKeeps
<1>2. ASSUME NEW semver \in Semvers, GateRelease(semver) PROVE RInv'
  BY <1>2, GateReleaseKeeps
<1>3. CASE WriteRelease
  BY <1>3, WriteReleaseKeeps
<1>4. CASE OpenWorkshop \/ AssemblePack
  <2>1. /\ UNCHANGED <<client, clusters, candidates, session, releases>>
        /\ client # "registry"
    BY <1>4 DEF OpenWorkshop, AssemblePack, registry
  <2> QED
    BY <2>1, OthersKeep
<1>5. CASE \/ GetPack
           \/ (\E shown \in {view[i] : i \in DOMAIN view} : SubmitDecision(shown))
           \/ (\E limit \in Limits : GetGaps(limit))
  <2>1. UNCHANGED <<client, clusters, candidates, session, releases, request>>
    BY <1>5 DEF GetPack, SubmitDecision, GetGaps, registry
  <2> QED
    BY <2>1, OthersKeep
<1>6. CASE UNCHANGED vars
  <2>1. UNCHANGED <<client, clusters, candidates, session, releases, request>>
    BY <1>6 DEF vars, registry
  <2> QED
    BY <2>1, OthersKeep
<1> QED
  BY <1>1, <1>2, <1>3, <1>4, <1>5, <1>6 DEF Next, Quiescent

(* Every release in the registry stands on candidates that people signed,  *)
(* one for every cluster, in the core where its weight is 5, and on        *)
(* clusters of every region, whatever is synthesised between the gates and *)
(* the write (create_release).                                             *)
THEOREM ReleasesAreRatified == Spec => []ReleaseWasRatified
<1>1. RInv => ReleaseWasRatified
  BY DEF RInv
<1> QED
  BY <1>1, InitRInv, NextRInv, PTL DEF Spec

-----------------------------------------------------------------------------
(* The pages.  What a client has collected while the candidates stayed is  *)
(* the register up to its cursor.                                          *)
PagesInv ==
    pages # None /\ pages.quiet =>
        LET gaps == Register(pages.basis)
        IN  /\ pages.cursor \in 0..Len(gaps)
            /\ pages.got = SubSeq(gaps, 1, pages.cursor)
            /\ pages.over => pages.cursor = Len(gaps)

LEMMA GetGapsKeeps ==
    ASSUME RInv, PagesInv, NEW limit \in Limits, GetGaps(limit)
    PROVE  PagesInv'
<1> DEFINE first == pages = None
           start == IF first THEN 0 ELSE pages.cursor
           gaps  == Register(candidates)
           next  == PageOf(gaps, start, limit)
<1>1. pages' = [limit |-> limit, cursor |-> next.cursor, over |-> next.over,
                got   |-> IF first THEN next.page ELSE pages.got \o next.page,
                quiet |-> first \/ (pages.quiet /\ pages.basis = candidates),
                basis |-> candidates]
  BY DEF GetGaps, CurrentGaps, LiveUniverse, Register
<1>2. UNCHANGED <<clusters, candidates>>
  BY DEF GetGaps
<1>3. \A basis : Register(basis)' = Register(basis)
  BY <1>2 DEF Register
<1> HIDE DEF next
<1>4. /\ pages'.cursor = next.cursor /\ pages'.over = next.over /\ pages'.basis = candidates
      /\ pages'.got = (IF first THEN next.page ELSE pages.got \o next.page)
      /\ pages'.quiet = (first \/ (pages.quiet /\ pages.basis = candidates))
  BY <1>1
<1>5. SUFFICES ASSUME first \/ (pages.quiet /\ pages.basis = candidates)
               PROVE  /\ next.cursor \in 0..Len(gaps)
                      /\ pages'.got = SubSeq(gaps, 1, next.cursor)
                      /\ next.over => next.cursor = Len(gaps)
  <2>1. Register(pages.basis)' = Register(pages'.basis)
    BY <1>3 DEF Register
  <2> HIDE DEF first
  <2> QED
    BY <1>2, <1>3, <1>4 DEF PagesInv
<1>6. PICK E : gaps \in Seq(E)
  BY RegisterIsAList DEF RInv
<1>7. /\ start \in 0..Len(gaps)
      /\ IF first THEN SubSeq(gaps, 1, start) = <<>> ELSE SubSeq(gaps, 1, start) = pages.got
  BY <1>5, <1>6 DEF PagesInv
<1>8. /\ next.page \in Seq(E) /\ next.cursor \in 0..Len(gaps)
      /\ SubSeq(gaps, 1, start) \o next.page = SubSeq(gaps, 1, next.cursor)
      /\ next.over => next.cursor = Len(gaps)
  <2> HIDE DEF gaps, start
  <2> QED
    BY <1>6, <1>7, PageContinues DEF next
<1>9. first => SubSeq(gaps, 1, start) \o next.page = next.page
  BY <1>7, <1>8
<1> HIDE DEF gaps, start, first
<1> QED
  BY <1>4, <1>7, <1>8, <1>9

THEOREM NextPagesInv == RInv /\ PagesInv /\ [Next]_vars => PagesInv'
<1> SUFFICES ASSUME RInv, PagesInv, [Next]_vars PROVE PagesInv'
  OBVIOUS
<1>1. ASSUME NEW limit \in Limits, GetGaps(limit) PROVE PagesInv'
  BY <1>1, GetGapsKeeps
<1>2. ASSUME UNCHANGED <<clusters, pages>> PROVE PagesInv'
  BY <1>2 DEF PagesInv, Register
<1>3. CASE \/ BeginSynthesis \/ (\E output \in Outputs : Synthesise(output))
           \/ Decline \/ AbortSynthesis \/ WriteCandidates
  BY <1>2, <1>3 DEF BeginSynthesis, Synthesise, Decline, Advance, AbortSynthesis, WriteCandidates
<1>4. CASE (\E semver \in Semvers : GateRelease(semver)) \/ WriteRelease
  BY <1>2, <1>4 DEF GateRelease, WriteRelease
<1>5. CASE \/ OpenWorkshop \/ AssemblePack \/ GetPack
           \/ (\E shown \in {view[i] : i \in DOMAIN view} : SubmitDecision(shown))
  BY <1>2, <1>5 DEF OpenWorkshop, AssemblePack, GetPack, SubmitDecision
<1>6. CASE UNCHANGED vars
  BY <1>2, <1>6 DEF vars
<1> QED
  BY <1>1, <1>3, <1>4, <1>5, <1>6 DEF Next, Quiescent

(* A client that pages through the gap register while no synthesis is      *)
(* written has it whole when the cursor ends, for every page size          *)
(* (get_gaps).                                                             *)
THEOREM QuietPagesHaveEveryGap == Spec => []QuietPagesAreComplete
<1>1. Init => PagesInv
  BY DEF Init, PagesInv
<1>2. RInv /\ PagesInv => QuietPagesAreComplete
  <2> SUFFICES ASSUME RInv, PagesInv, pages # None, pages.over, pages.quiet
               PROVE  pages.got = Register(pages.basis)
    BY DEF QuietPagesAreComplete, Register
  <2>1. PICK E : Register(pages.basis) \in Seq(E)
    BY RegisterIsAList DEF RInv
  <2>2. pages.got = SubSeq(Register(pages.basis), 1, Len(Register(pages.basis)))
    BY DEF PagesInv
  <2> HIDE DEF Register
  <2> QED
    BY <2>1, <2>2, SQT!SubSeqFull
<1> QED
  BY <1>1, <1>2, InitRInv, NextRInv, NextPagesInv, PTL DEF Spec

-----------------------------------------------------------------------------
(* The pack.  A candidate of a group is a property of the group's schema,  *)
(* unless a later one of the group has its attribute.                      *)
LEMMA GroupHolds ==
    ASSUME NEW S, NEW s \in Seq(S), NEW T, NEW W,
           NEW i \in DOMAIN s, s[i] \in T, s[i] \in W
    PROVE  LET properties == SchemaOf(Only(Only(s, T), W)).properties
               a == s[i].name.text
           IN  /\ a \in DOMAIN properties
               /\ \/ properties[a] = s[i].id
                  \/ \E j \in DOMAIN s : /\ j > i /\ s[j] \in T /\ s[j] \in W
                                          /\ s[j].name.text = a
<1> DEFINE G == Only(Only(s, T), W)
           a == s[i].name.text
           here == {y \in DOMAIN G : G[y].name.text = a}
           last == Max(here)
           properties == SchemaOf(G).properties
<1>1. PICK x \in DOMAIN G :
         /\ G[x] = s[i]
         /\ \A y \in DOMAIN G : y > x =>
               \E j \in DOMAIN s : j > i /\ s[j] \in T /\ s[j] \in W /\ G[y] = s[j]
  BY OnlyOrderedTwice
<1>2. G \in Seq(S)
  <2>1. Only(s, T) \in Seq(S)
    BY OnlySelects
  <2> QED
    BY <2>1, OnlySelects
<1> HIDE DEF G
<1>3. a \in {c.name.text : c \in Range(G)}
  BY <1>1 DEF Range
<1>4. a \in DOMAIN properties /\ properties[a] = G[last].id
  BY <1>3 DEF SchemaOf
<1>5. last \in here /\ last >= x
  <2>1. x \in here /\ here \in SUBSET (1..Len(G)) /\ Len(G) \in Nat
    BY <1>1, <1>2
  <2> HIDE DEF here
  <2>2. Max(here) \in here /\ \A y \in here : y <= Max(here)
    BY <2>1, LastPosition
  <2> QED
    BY <2>1, <2>2
<1>6. CASE last = x
  BY <1>1, <1>4, <1>6 DEF G
<1>7. CASE last # x
  <2>1. last > x /\ last \in DOMAIN G /\ G[last].name.text = a
    BY <1>2, <1>5, <1>7
  <2>2. \E j \in DOMAIN s : j > i /\ s[j] \in T /\ s[j] \in W /\ G[last] = s[j]
    BY <1>1, <2>1
  <2> HIDE DEF last
  <2> QED
    BY <1>4, <2>1, <2>2 DEF G
<1> QED
  BY <1>6, <1>7

LEMMA EveryCandidateIsEmitted ==
    ASSUME NEW S, NEW cs \in Seq(S), NEW i \in DOMAIN cs, NEW report, NEW gaps
    PROVE  \/ \E e \in Pack(clusters, cs, report, gaps).elements :
                 e.candidate = cs[i].id /\ e.attribute = cs[i].name.text
           \/ \E j \in DOMAIN cs :
                 /\ j > i /\ cs[j].entity = cs[i].entity /\ cs[j].placement = cs[i].placement
                 /\ cs[j].name.text = cs[i].name.text
<1> DEFINE c == cs[i]
           a == c.name.text
           entities == EntitySchemas(cs)
           extensions == ExtensionSchemas(cs)
           Elements(path, properties) ==
               {[path |-> path, attribute |-> b, candidate |-> properties[b]] :
                   b \in DOMAIN properties}
           elements == Pack(clusters, cs, report, gaps).elements
           Rivalled == \E j \in DOMAIN cs :
                 /\ j > i /\ cs[j].entity = c.entity /\ cs[j].placement = c.placement
                 /\ cs[j].name.text = a
<1>1. elements = (UNION {Elements(EntityPath(e), entities[e].body.properties) : e \in DOMAIN entities})
                 \union UNION {Elements(ExtensionPath(re[1], re[2]), extensions[re].properties) :
                                  re \in DOMAIN extensions}
  BY DEF Pack
<1>2. c \in Range(cs)
  BY DEF Range
<1> HIDE DEF elements, entities, extensions
<1>3. ASSUME NEW path, NEW properties, Elements(path, properties) \subseteq elements,
             a \in DOMAIN properties, properties[a] = c.id
      PROVE  \E e \in elements : e.candidate = c.id /\ e.attribute = a
  <2> DEFINE e == [path |-> path, attribute |-> a, candidate |-> properties[a]]
  <2>1. e \in elements /\ e.candidate = c.id /\ e.attribute = a
    BY <1>3
  <2> QED
    BY <2>1
<1>4. CASE c.placement = "core"
  <2> DEFINE T == {d \in Range(cs) : d.entity = c.entity}
             W == {d \in Range(Only(cs, T)) : d.placement = "core"}
             properties == SchemaOf(Only(Only(cs, T), W)).properties
  <2>1. c.entity \in DOMAIN entities /\ entities[c.entity].body.properties = properties
    BY <1>2 DEF entities, EntitySchemas, Where
  <2>2. c \in T /\ c \in W
    BY <1>2, <1>4, OnlyRange
  <2>3. /\ a \in DOMAIN properties
        /\ \/ properties[a] = c.id
           \/ \E j \in DOMAIN cs : j > i /\ cs[j] \in T /\ cs[j] \in W /\ cs[j].name.text = a
    <3> HIDE DEF T, W
    <3> QED
      BY <2>2, GroupHolds
  <2>4. Elements(EntityPath(c.entity), properties) \subseteq elements
    <3> HIDE DEF properties, Elements
    <3> QED
      BY <1>1, <2>1
  <2>5. (\E j \in DOMAIN cs : j > i /\ cs[j] \in T /\ cs[j] \in W /\ cs[j].name.text = a)
        => Rivalled
    BY <1>4
  <2> HIDE DEF properties, T, W, Elements, Rivalled
  <2> QED
    BY <1>3, <2>3, <2>4, <2>5 DEF Rivalled, elements
<1>5. CASE c.placement # "core"
  <2> DEFINE T == {d \in Range(cs) : d.placement # "core"}
             re == <<c.placement, c.entity>>
             W == {d \in Range(Only(cs, T)) : <<d.placement, d.entity>> = re}
             properties == SchemaOf(Only(Only(cs, T), W)).properties
  <2>1. c \in Range(Only(cs, T))
    BY <1>2, <1>5, OnlyRange
  <2>2. re \in DOMAIN extensions /\ extensions[re].properties = properties
    BY <2>1 DEF extensions, ExtensionSchemas, ExtensionGroups, Where
  <2>3. c \in T /\ c \in W
    BY <1>2, <1>5, <2>1
  <2>4. /\ a \in DOMAIN properties
        /\ \/ properties[a] = c.id
           \/ \E j \in DOMAIN cs : j > i /\ cs[j] \in T /\ cs[j] \in W /\ cs[j].name.text = a
    <3> HIDE DEF T, W
    <3> QED
      BY <2>3, GroupHolds
  <2>5. Elements(ExtensionPath(re[1], re[2]), properties) \subseteq elements
    <3> HIDE DEF properties, re, Elements
    <3> QED
      BY <1>1, <2>2
  <2>6. (\E j \in DOMAIN cs : j > i /\ cs[j] \in T /\ cs[j] \in W /\ cs[j].name.text = a)
        => Rivalled
    OBVIOUS
  <2> HIDE DEF properties, T, W, Elements, Rivalled
  <2> QED
    BY <1>3, <2>4, <2>5, <2>6 DEF Rivalled, elements
<1> QED
  BY <1>4, <1>5

(* Where a reference leads there is a file, though files and references    *)
(* are made by different emitters.                                         *)
LEMMA EveryReferenceLeads ==
    ASSUME NEW S, NEW cs \in Seq(S), NEW report, NEW gaps
    PROVE  LET p == Pack(clusters, cs, report, gaps)
           IN  /\ p.refs \subseteq p.files
               /\ \A m \in p.model : m.realisedBy.path \in p.files
<1> DEFINE p == Pack(clusters, cs, report, gaps)
           entities == EntitySchemas(cs)
           extensions == ExtensionSchemas(cs)
           entityPaths == {EntityPath(e) : e \in DOMAIN entities}
           extensionPaths == {ExtensionPath(re[1], re[2]) : re \in DOMAIN extensions}
           commonPaths == {CommonPath(n) : n \in DOMAIN CommonSchemas}
<1>1. commonPaths \subseteq p.files /\ entityPaths \subseteq p.files /\ extensionPaths \subseteq p.files
  BY DEF Pack
<1>2. p.refs = (UNION {entities[e].refs : e \in DOMAIN entities}) \union entityPaths
               \union {CommonPath(n) : n \in UNION Range(CommonSchemas)}
  BY DEF Pack, OpenapiProjection
<1>3. p.model = LogicalModel(cs)
  BY DEF Pack
<1>4. DOMAIN entities = {c.entity : c \in Range(cs)}
  BY DEF EntitySchemas
<1>5. UNION Range(CommonSchemas) \subseteq DOMAIN CommonSchemas
  BY DEF CommonSchemas, Range
<1>6. ASSUME NEW e \in DOMAIN entities PROVE entities[e].refs \subseteq extensionPaths
  <2> DEFINE mine == Where(cs, LAMBDA c : c.entity = e)
  <2>1. entities[e].refs = {ExtensionPath(c.placement, e) :
                               c \in {c \in Range(mine) : c.placement # "core"}}
    BY DEF EntitySchemas
  <2>2. ASSUME NEW c \in Range(mine), c.placement # "core"
        PROVE  ExtensionPath(c.placement, e) \in extensionPaths
    <3>1. c \in Range(cs) /\ c.entity = e
      BY OnlyRange DEF Where
    <3>2. c \in Range(Where(cs, LAMBDA d : d.placement # "core"))
      BY <2>2, <3>1, OnlyRange DEF Where
    <3> DEFINE re == <<c.placement, e>>
    <3>3. re \in DOMAIN extensions
      BY <3>1, <3>2 DEF ExtensionSchemas, ExtensionGroups
    <3>4. re[1] = c.placement /\ re[2] = e
      OBVIOUS
    <3> HIDE DEF re, extensions
    <3> QED
      BY <3>3, <3>4
  <2> HIDE DEF mine, entities, extensionPaths
  <2> QED
    BY <2>1, <2>2
<1>7. ASSUME NEW m \in LogicalModel(cs) PROVE m.realisedBy.path \in entityPaths
  <2>1. PICK c \in Range(cs) :
           m = [id |-> c.id, entity |-> c.entity, attribute |-> c.name.text,
                realisedBy |-> [path |-> EntityPath(c.entity), attribute |-> c.name.text],
                ratifiedBy |-> IF c.status = "approved" THEN c.sme ELSE ""]
    BY DEF LogicalModel
  <2> HIDE DEF entities
  <2> QED
    BY <1>4, <2>1
<1> HIDE DEF p, entities, entityPaths, extensionPaths, commonPaths
<1>8. {CommonPath(n) : n \in UNION Range(CommonSchemas)} \subseteq commonPaths
  BY <1>5 DEF commonPaths
<1>9. p.refs \subseteq p.files
  BY <1>1, <1>2, <1>6, <1>8
<1> QED
  BY <1>1, <1>3, <1>7, <1>9 DEF p

LEMMA AssemblePackKeeps ==
    ASSUME RInv, AssemblePack
    PROVE  PackIsWhole'
<1> DEFINE p == Pack(clusters, candidates, request.report, request.gaps)
<1>1. pack' = [contents |-> p, emitted |-> candidates]
  BY DEF AssemblePack
<1> HIDE DEF p
<1>2. pack'.contents = p /\ pack'.emitted = candidates
  BY <1>1
<1>3. candidates \in Seq(Accepted)
  BY DEF RInv
<1>4. p.refs \subseteq p.files /\ \A m \in p.model : m.realisedBy.path \in p.files
  BY <1>3, EveryReferenceLeads DEF p
<1>5. ASSUME NEW i \in DOMAIN candidates
      PROVE  \/ \E e \in p.elements :
                   e.candidate = candidates[i].id /\ e.attribute = candidates[i].name.text
             \/ \E j \in DOMAIN candidates :
                   /\ j > i /\ candidates[j].entity = candidates[i].entity
                   /\ candidates[j].placement = candidates[i].placement
                   /\ candidates[j].name.text = candidates[i].name.text
  BY <1>3, EveryCandidateIsEmitted DEF p
<1> QED
  BY <1>2, <1>4, <1>5 DEF PackIsWhole

THEOREM NextPack == RInv /\ PackIsWhole /\ [Next]_vars => PackIsWhole'
<1> SUFFICES ASSUME RInv, PackIsWhole, [Next]_vars PROVE PackIsWhole'
  OBVIOUS
<1>1. CASE AssemblePack
  BY <1>1, AssemblePackKeeps
<1>2. ASSUME UNCHANGED pack PROVE PackIsWhole'
  BY <1>2 DEF PackIsWhole
<1>3. CASE \/ BeginSynthesis \/ (\E output \in Outputs : Synthesise(output))
           \/ Decline \/ AbortSynthesis \/ WriteCandidates
  BY <1>2, <1>3 DEF BeginSynthesis, Synthesise, Decline, Advance, AbortSynthesis,
                    WriteCandidates, workshop
<1>4. CASE (\E semver \in Semvers : GateRelease(semver)) \/ WriteRelease
           \/ (\E limit \in Limits : GetGaps(limit))
  BY <1>2, <1>4 DEF GateRelease, WriteRelease, GetGaps, workshop
<1>5. CASE \/ OpenWorkshop \/ GetPack
           \/ (\E shown \in {view[i] : i \in DOMAIN view} : SubmitDecision(shown))
  BY <1>2, <1>5 DEF OpenWorkshop, GetPack, SubmitDecision, workshop
<1>6. CASE UNCHANGED vars
  BY <1>2, <1>6 DEF vars, workshop
<1> QED
  BY <1>1, <1>3, <1>4, <1>5, <1>6 DEF Next, Quiescent

(* Every reference of a workshop pack leads to a file of it and every      *)
(* candidate is in some schema, or gave way to a later one of its entity,  *)
(* placement and attribute, although the candidates are read twice while   *)
(* it is made (assemble_pack).                                             *)
THEOREM PacksAreWhole == Spec => []PackIsWhole
<1>1. Init => PackIsWhole
  BY DEF Init, PackIsWhole
<1> QED
  BY <1>1, InitRInv, NextRInv, NextPack, PTL DEF Spec

-----------------------------------------------------------------------------
(* The score.  Cluster by cluster, what the report adds up is what people  *)
(* signed: a cluster has at most one candidate, so that it is the one the  *)
(* universe is made of, and a concept's id is its own, so that no other    *)
(* concept's resolution stands for it.                                     *)
OneEach(cs) == \A i, j \in DOMAIN cs : cs[i].cluster = cs[j].cluster => i = j

ScoreInv ==
    /\ clusters \in ClusterStores
    /\ session.at \in Nat /\ OneEach(candidates) /\ OneEach(session.acc)
    /\ \A i \in DOMAIN session.acc : \E p \in DOMAIN clusters :
          p < session.at /\ session.acc[i].cluster = clusters[p].id

LEMMA SynthesiseOneEach ==
    ASSUME RInv, ScoreInv, NEW output \in Outputs, Synthesise(output)
    PROVE  ScoreInv'
<1> DEFINE at == session.at
           c == Corrected(clusters[at], output)
           acc == session.acc
<1>1. /\ at \in 1..Len(clusters) /\ session' = [at |-> at + 1, acc |-> Append(acc, c)]
      /\ UNCHANGED <<clusters, candidates>>
  BY DEF Synthesise, Advance
<1>2. c.cluster = clusters[at].id
  BY DEF Corrected
<1>3. acc \in Seq(Accepted) /\ DOMAIN clusters = 1..Len(clusters)
  BY DEF RInv
<1>4. c \in Accepted
  BY <1>1, <1>3 DEF Accepted, Range
<1>5. \A i \in DOMAIN acc : acc[i].cluster # c.cluster
  <2>1. \A p \in DOMAIN clusters : p < at => clusters[p].id # clusters[at].id
    BY <1>1, <1>3, ContractAssumption DEF ScoreInv
  <2> QED
    BY <1>2, <2>1 DEF ScoreInv
<1> HIDE DEF c
<1> DEFINE new == Append(acc, c)
<1>6. /\ DOMAIN new = 1..(Len(acc) + 1) /\ Len(acc) \in Nat /\ DOMAIN acc = 1..Len(acc)
      /\ new[Len(acc) + 1] = c /\ \A i \in DOMAIN acc : new[i] = acc[i]
  BY <1>3, <1>4
<1> HIDE DEF new
<1>7. OneEach(new)
  BY <1>5, <1>6 DEF OneEach, ScoreInv
<1>8. \A i \in DOMAIN new : \E p \in DOMAIN clusters :
         p < at + 1 /\ new[i].cluster = clusters[p].id
  <2> SUFFICES ASSUME NEW i \in DOMAIN new
               PROVE  \E p \in DOMAIN clusters : p < at + 1 /\ new[i].cluster = clusters[p].id
    OBVIOUS
  <2>1. CASE i \in DOMAIN acc
    <3>1. PICK p \in DOMAIN clusters : p < at /\ acc[i].cluster = clusters[p].id
      BY <2>1 DEF ScoreInv
    <3> QED
      BY <1>1, <1>3, <1>6, <2>1, <3>1
  <2>2. CASE i = Len(acc) + 1
    <3>1. at \in DOMAIN clusters /\ at < at + 1
      BY <1>1, <1>3
    <3> QED
      BY <1>2, <1>6, <2>2, <3>1
  <2> QED
    BY <1>6, <2>1, <2>2
<1>9. session'.at = at + 1 /\ session'.acc = new
  BY <1>1 DEF new
<1>10. OneEach(candidates)' /\ OneEach(session.acc)'
  BY <1>1, <1>7, <1>9 DEF ScoreInv, OneEach
<1>11. clusters' \in ClusterStores /\ session'.at \in Nat
  BY <1>1, <1>9 DEF ScoreInv
<1>12. \A i \in DOMAIN session'.acc : \E p \in DOMAIN clusters' :
          p < session'.at /\ session'.acc[i].cluster = clusters'[p].id
  <2> HIDE DEF at, acc
  <2> QED
    BY <1>1, <1>8, <1>9
<1> QED
  BY <1>10, <1>11, <1>12 DEF ScoreInv

THEOREM NextScoreInv == RInv /\ ScoreInv /\ [Next]_vars => ScoreInv'
<1> SUFFICES ASSUME RInv, ScoreInv, [Next]_vars PROVE ScoreInv'
  OBVIOUS
<1>1. ASSUME NEW output \in Outputs, Synthesise(output) PROVE ScoreInv'
  BY <1>1, SynthesiseOneEach
<1>2. CASE BeginSynthesis \/ AbortSynthesis
  <2>1. session'.at \in Nat /\ session'.acc = <<>> /\ UNCHANGED <<clusters, candidates>>
    BY <1>2 DEF BeginSynthesis, AbortSynthesis
  <2> QED
    BY <2>1 DEF ScoreInv, OneEach
<1>3. CASE Decline
  <2>1. /\ session.at \in 1..Len(clusters) /\ session' = [at |-> session.at + 1, acc |-> session.acc]
        /\ UNCHANGED <<clusters, candidates>>
    BY <1>3 DEF Decline, Advance
  <2>2. session'.at = session.at + 1 /\ session'.acc = session.acc
    BY <2>1
  <2>3. \A p \in DOMAIN clusters : p < session.at => p < session.at + 1
    BY DEF RInv, ScoreInv
  <2> QED
    BY <2>1, <2>2, <2>3 DEF ScoreInv, OneEach
<1>4. CASE WriteCandidates
  <2>1. /\ candidates' = session.acc /\ session'.at = 0 /\ session'.acc = <<>>
        /\ UNCHANGED clusters
    BY <1>4 DEF WriteCandidates
  <2> QED
    BY <2>1 DEF ScoreInv, OneEach
<1>5. ASSUME UNCHANGED <<clusters, candidates, session>> PROVE ScoreInv'
  BY <1>5 DEF ScoreInv, OneEach
<1>6. CASE (\E semver \in Semvers : GateRelease(semver)) \/ WriteRelease
           \/ (\E limit \in Limits : GetGaps(limit))
  BY <1>5, <1>6 DEF GateRelease, WriteRelease, GetGaps
<1>7. CASE \/ OpenWorkshop \/ AssemblePack \/ GetPack
           \/ (\E shown \in {view[i] : i \in DOMAIN view} : SubmitDecision(shown))
  BY <1>5, <1>7 DEF OpenWorkshop, AssemblePack, GetPack, SubmitDecision
<1>8. CASE UNCHANGED vars
  BY <1>5, <1>8 DEF vars
<1> QED
  BY <1>1, <1>2, <1>3, <1>4, <1>6, <1>7, <1>8 DEF Next, Quiescent

(* What a concept says of its cluster's one candidate, or of its lack.     *)
LEMMA ConceptOfOne ==
    ASSUME RInv, ScoreInv, NEW i \in DOMAIN clusters
    PROVE  LET k == clusters[i]
               concept == ConceptOf(k, candidates)
           IN  \/ /\ CandidatesOf(k, candidates) = {}
                  /\ concept.id = k.id /\ concept.sme = ""
                  /\ concept.weight = WeightFromObligation(StrongestObligation(k))
               \/ \E m \in DOMAIN candidates :
                     LET c == candidates[m]
                     IN  /\ CandidatesOf(k, candidates) = {c}
                         /\ c.cluster = k.id /\ concept.id = c.id
                         /\ concept.weight = c.weight /\ concept.evidence = k.evidence
                         /\ concept.sme = (IF c.status = "approved" THEN c.sme ELSE "")
                         /\ concept.resolution = (IF c.placement = "core" THEN "core" ELSE "extension")
<1> DEFINE k == clusters[i]
           found == CandidateFor(k.id, candidates)
           m == Max(found)
           c == candidates[m]
           concept == ConceptOf(k, candidates)
<1>1. CASE found = {}
  <2>1. CandidatesOf(k, candidates) = {}
    BY <1>1 DEF CandidateFor, CandidatesOf, Range
  <2>2. /\ concept.id = k.id /\ concept.sme = ""
        /\ concept.weight = WeightFromObligation(StrongestObligation(k))
    BY <1>1 DEF ConceptOf
  <2> QED
    BY <2>1, <2>2
<1>2. CASE found # {}
  <2>1. m \in found
    <3>1. found \in SUBSET (1..Len(candidates)) /\ Len(candidates) \in Nat
      BY DEF CandidateFor, RInv
    <3> HIDE DEF found
    <3> QED
      BY <1>2, <3>1, LastPosition
  <2>2. m \in DOMAIN candidates /\ c.cluster = k.id
    BY <2>1 DEF CandidateFor
  <2>3. CandidatesOf(k, candidates) = {c}
    <3> HIDE DEF m
    <3> QED
      BY <2>2 DEF CandidatesOf, Range, ScoreInv, OneEach
  <2>4. /\ concept.id = c.id /\ concept.weight = c.weight /\ concept.evidence = k.evidence
        /\ concept.sme = (IF c.status = "approved" THEN c.sme ELSE "")
        /\ concept.resolution = (IF c.placement = "core" THEN "core" ELSE "extension")
    BY <1>2 DEF ConceptOf
  <2> HIDE DEF m, k, concept
  <2> QED
    BY <2>2, <2>3, <2>4 DEF k, concept
<1> QED
  BY <1>1, <1>2

LEMMA AcceptedIsContracted ==
    ASSUME NEW c \in Accepted
    PROVE  c.weight \in {1, 3, 5}
BY ContractAssumption DEF Accepted, Corrected

LEMMA ConceptIdsDiffer ==
    ASSUME RInv, ScoreInv, IdsDiffer(candidates),
           NEW i \in DOMAIN clusters, NEW j \in DOMAIN clusters,
           ConceptOf(clusters[i], candidates).id = ConceptOf(clusters[j], candidates).id
    PROVE  i = j
<1>1. clusters[i].id = clusters[j].id => i = j
  BY ContractAssumption DEF ScoreInv
<1>2. ASSUME NEW m \in DOMAIN candidates, NEW p \in DOMAIN clusters
      PROVE  candidates[m].id # clusters[p].id
  <2>1. candidates[m] \in Accepted
    BY DEF RInv
  <2>2. PICK output \in Outputs : candidates[m].id = output.id
    BY <2>1 DEF Accepted, Corrected
  <2> QED
    BY <2>2, ContractAssumption DEF ScoreInv, Range
<1> DEFINE Gap(p) == ConceptOf(clusters[p], candidates).id = clusters[p].id
           Held(p) == \E m \in DOMAIN candidates :
                         /\ candidates[m].cluster = clusters[p].id
                         /\ ConceptOf(clusters[p], candidates).id = candidates[m].id
<1>3. \A p \in DOMAIN clusters : Gap(p) \/ Held(p)
  BY ConceptOfOne
<1>4. CASE Gap(i) /\ Gap(j)
  BY <1>1, <1>4
<1>5. CASE (Gap(i) /\ Held(j)) \/ (Held(i) /\ Gap(j))
  BY <1>2, <1>5
<1>6. CASE Held(i) /\ Held(j)
  BY <1>1, <1>6 DEF IdsDiffer
<1> QED
  BY <1>3, <1>4, <1>5, <1>6

LEMMA SumOfFew ==
    /\ SumSet({}) = 0
    /\ \A w \in Int : SumSet({w}) = w /\ Max({w}) = w
<1> DEFINE Rest(g, s) == LET x == CHOOSE x \in s : TRUE IN x + g[s \ {x}]
           Folds(g, S) == g = [s \in SUBSET S |-> IF s = {} THEN 0 ELSE Rest(g, s)]
           iter(S) == CHOOSE g : Folds(g, S)
<1>1. \A S : SumSet(S) = iter(S)[S]
  BY DEF SumSet, FoldSet, MapThenFoldSet
<1>2. SumSet({}) = 0
  <2> DEFINE g == [s \in SUBSET {} |-> 0]
  <2>1. Folds(g, {})
    <3> HIDE DEF Rest
    <3> QED
      OBVIOUS
  <2> HIDE DEF g, Folds
  <2>2. Folds(iter({}), {})
    BY <2>1
  <2> HIDE DEF iter, Rest
  <2>3. iter({})[{}] = 0
    BY <2>2 DEF Folds
  <2> QED
    BY <1>1, <2>3
<1>3. ASSUME NEW w \in Int PROVE SumSet({w}) = w
  <2> DEFINE g == [s \in SUBSET {w} |-> IF s = {} THEN 0 ELSE w]
             S == {w}
  <2>1. Folds(g, S)
    <3>1. ASSUME NEW s \in SUBSET S, s # {} PROVE Rest(g, s) = w
      <4>1. s = {w} /\ (CHOOSE x \in s : TRUE) = w /\ s \ {w} = {}
        BY <3>1
      <4>2. g[{}] = 0
        OBVIOUS
      <4> HIDE DEF g
      <4> QED
        BY <4>1, <4>2
    <3> HIDE DEF Rest
    <3> QED
      BY <3>1
  <2> HIDE DEF g, Folds, S
  <2>2. Folds(iter(S), S)
    BY <2>1
  <2>3. iter(S)[S] = w
    <3>1. iter(S)[{}] = 0 /\ iter(S)[S] = Rest(iter(S), S)
      <4> HIDE DEF iter, Rest
      <4>1. S # {} /\ {} \in SUBSET S /\ S \in SUBSET S
        BY DEF S
      <4> QED
        BY <2>2, <4>1 DEF Folds
    <3>2. (CHOOSE x \in S : TRUE) = w /\ S \ {w} = {}
      BY DEF S
    <3> HIDE DEF iter
    <3>3. Rest(iter(S), S) = w + iter(S)[{}]
      BY <3>2
    <3> QED
      BY <3>1, <3>3
  <2> QED
    BY <1>1, <2>3 DEF S
<1>4. \A w \in Int : Max({w}) = w
  BY DEF Max
<1> QED
  BY <1>2, <1>3, <1>4

LEMMA WeightOfGap ==
    ASSUME ScoreInv, NEW i \in DOMAIN clusters
    PROVE  WeightFromObligation(StrongestObligation(clusters[i])) \in {1, 3, 5}
<1> DEFINE k == clusters[i]
           O == Obligations(k)
<1>1. k \in Range(clusters) /\ k.members # {} /\ \A m \in k.members : m.level \in Range(Levels)
  BY ContractAssumption DEF ScoreInv, Range
<1>2. \A level \in Range(Levels) : Strength(level) \in 1..3 /\ Levels[Strength(level)] = level
  BY DEF Strength, Levels, Range
<1>3. O \in SUBSET (1..3) /\ O # {}
  BY <1>1, <1>2 DEF Obligations
<1>4. Max(O) \in 1..3
  <2> HIDE DEF O
  <2> QED
    BY <1>3, LastPosition
<1>5. StrongestObligation(k) \in Range(Levels)
  BY <1>4 DEF StrongestObligation, Levels, Range
<1> QED
  BY <1>2, <1>5 DEF WeightFromObligation

LEMMA ConceptEarns ==
    ASSUME RInv, ScoreInv, NEW i \in DOMAIN clusters
    PROVE  LET k == clusters[i]
               concept == ConceptOf(k, candidates)
           IN  /\ concept.weight = WeightIn(k, candidates)
               /\ concept.weight * OwnResolution(concept) = Earned(k, candidates)
<1> DEFINE k == clusters[i]
           concept == ConceptOf(k, candidates)
           signed == {d \in CandidatesOf(k, candidates) : Signed(d)}
           Worth(d) == d.weight * (IF d.placement = "core" THEN 2 ELSE 1)
<1>1. Earned(k, candidates) = SumSet({Worth(d) : d \in signed})
  BY DEF Earned
<1> HIDE DEF k, concept, signed
<1>2. CASE /\ CandidatesOf(k, candidates) = {} /\ concept.sme = ""
           /\ concept.weight = WeightFromObligation(StrongestObligation(k))
  <2>1. concept.weight = WeightIn(k, candidates)
    BY <1>2 DEF WeightIn
  <2>2. concept.weight \in Int
    <3>1. WeightFromObligation(StrongestObligation(k)) \in {1, 3, 5}
      BY WeightOfGap DEF k
    <3>2. concept.weight \in {1, 3, 5}
      BY <1>2, <3>1, Zenon
    <3> QED
      BY <3>2
  <2>3. OwnResolution(concept) = 0
    BY <1>2 DEF OwnResolution, Unevidenced
  <2>4. Earned(k, candidates) = 0
    <3>1. {Worth(d) : d \in signed} = {}
      BY <1>2 DEF signed
    <3> QED
      BY <1>1, <3>1, SumOfFew
  <2>5. concept.weight * OwnResolution(concept) = 0
    BY <2>2, <2>3
  <2> QED
    BY <2>1, <2>4, <2>5 DEF k, concept
<1>3. ASSUME NEW c \in Accepted,
             CandidatesOf(k, candidates) = {c}, concept.weight = c.weight,
             concept.evidence = k.evidence,
             concept.sme = (IF c.status = "approved" THEN c.sme ELSE ""),
             concept.resolution = (IF c.placement = "core" THEN "core" ELSE "extension")
      PROVE  /\ concept.weight = WeightIn(k, candidates)
             /\ concept.weight * OwnResolution(concept) = Earned(k, candidates)
  <2>1. c.weight \in Int
    BY AcceptedIsContracted
  <2>2. WeightIn(k, candidates) = Max({c.weight})
    BY <1>3 DEF WeightIn
  <2>3. concept.evidence # {}
    <3>1. k \in Range(clusters)
      BY DEF Range, k
    <3>2. k.evidence # {}
      BY <3>1, ContractAssumption DEF ScoreInv
    <3> QED
      BY <1>3, <3>2
  <2>4. ResolutionScore["core"] = 2 /\ ResolutionScore["extension"] = 1
    BY DEF ResolutionScore
  <2>5. CASE Signed(c)
    <3>1. OwnResolution(concept) = (IF c.placement = "core" THEN 2 ELSE 1)
      BY <1>3, <2>3, <2>4, <2>5 DEF OwnResolution, Unevidenced, Signed
    <3>2. {Worth(d) : d \in signed} = {Worth(c)}
      BY <1>3, <2>5 DEF signed
    <3>3. Worth(c) \in Int
      BY <2>1
    <3>4. Earned(k, candidates) = Worth(c)
      <4> HIDE DEF Worth
      <4> QED
        BY <1>1, <3>2, <3>3, SumOfFew
    <3> QED
      BY <1>3, <2>1, <2>2, <3>1, <3>4, SumOfFew
  <2>6. CASE ~Signed(c)
    <3>1. OwnResolution(concept) = 0
      BY <1>3, <2>6 DEF OwnResolution, Unevidenced, Signed
    <3>2. {Worth(d) : d \in signed} = {}
      BY <1>3, <2>6 DEF signed
    <3>3. Earned(k, candidates) = 0
      BY <1>1, <3>2, SumOfFew
    <3>4. concept.weight = WeightIn(k, candidates)
      BY <1>3, <2>1, <2>2, SumOfFew
    <3>5. concept.weight \in Int
      BY <1>3, <2>1, Zenon
    <3>6. concept.weight * OwnResolution(concept) = 0
      BY <3>1, <3>5
    <3> QED
      BY <3>3, <3>4, <3>6
  <2> QED
    BY <2>5, <2>6
<1>4. \A m \in DOMAIN candidates : candidates[m] \in Accepted
  BY DEF RInv
<1> QED
  BY <1>2, <1>3, <1>4, ConceptOfOne DEF k, concept

(* The published score is what signed candidates earn, over the weight of  *)
(* every cluster there is (coverage, build_universe, _classify).           *)
LEMMA ScoreFollows == RInv /\ ScoreInv => ScoreIsEarned
<1> SUFFICES ASSUME RInv, ScoreInv, Clustered, IdsDiffer(candidates)
             PROVE  LET report == Report(LiveUniverse)
                        earned == SumSeq(LAMBDA k : Earned(k, candidates), clusters)
                        weight == SumSeq(LAMBDA k : WeightIn(k, candidates), clusters)
                    IN  /\ report.weightSum = weight
                        /\ report.score = Rounded([num |-> earned, den |-> 2 * weight])
  BY DEF ScoreIsEarned
<1> DEFINE D == DOMAIN clusters
           u == LiveUniverse
           earned == [i \in D |-> Earned(clusters[i], candidates)]
           weight == [i \in D |-> WeightIn(clusters[i], candidates)]
           r == ResolvedR(u)
           got == [i \in DOMAIN u |-> u[i].weight * r[u[i].id]]
           over == [i \in DOMAIN u |-> u[i].weight]
<1>1. DOMAIN u = D /\ \A i \in D : u[i] = ConceptOf(clusters[i], candidates)
  BY DEF LiveUniverse, BuildUniverse
<1>2. ASSUME NEW i \in D PROVE r[u[i].id] = OwnResolution(u[i])
  <2> DEFINE same == {j \in DOMAIN u : u[j].id = u[i].id}
  <2>1. same = {i}
    BY <1>1, ConceptIdsDiffer
  <2>2. i \in Int
    BY DEF RInv
  <2>3. u[i].id \in {c.id : c \in Range(u)}
    BY <1>1 DEF Range
  <2>4. r[u[i].id] = OwnResolution(u[Max(same)])
    BY <2>3 DEF ResolvedR
  <2> HIDE DEF same
  <2> QED
    BY <2>1, <2>2, <2>4, SumOfFew
<1> HIDE DEF u
<1>3. got = earned
  <2> HIDE DEF r
  <2>1. \A i \in D : u[i].weight * r[u[i].id] = Earned(clusters[i], candidates)
    BY <1>1, <1>2, ConceptEarns
  <2> HIDE DEF D
  <2> QED
    BY <1>1, <2>1
<1>4. over = weight
  <2>1. \A i \in D : u[i].weight = WeightIn(clusters[i], candidates)
    BY <1>1, ConceptEarns
  <2> HIDE DEF D
  <2> QED
    BY <1>1, <2>1
<1>5. /\ Score(u) = [num |-> Total(got), den |-> 2 * Total(over)]
      /\ Report(u).weightSum = Total(over) /\ Report(u).score = Rounded(Score(u))
  BY DEF Score, WeightSum, SumSeq, Report
<1>6. /\ SumSeq(LAMBDA k : Earned(k, candidates), clusters) = Total(earned)
      /\ SumSeq(LAMBDA k : WeightIn(k, candidates), clusters) = Total(weight)
  BY DEF SumSeq
<1> HIDE DEF got, over, earned, weight
<1> QED
  BY <1>3, <1>4, <1>5, <1>6 DEF u

THEOREM ScoresAreEarned == Spec => []ScoreIsEarned
<1>1. Init => ScoreInv
  BY DEF Init, ScoreInv, OneEach
<1> QED
  BY <1>1, InitRInv, NextRInv, NextScoreInv, ScoreFollows, PTL DEF Spec
-----------------------------------------------------------------------------
(* The gap register and the gates.  A cluster that is short is short as a  *)
(* concept, and a concept is in the register once because its id is its    *)
(* own and because what is unresolved is not listed again as unevidenced.  *)
LEMMA ShortConcept ==
    ASSUME RInv, ScoreInv, NEW i \in DOMAIN clusters
    PROVE  LET k == clusters[i]
               concept == ConceptOf(k, candidates)
           IN  /\ concept.id = NameOf(k, candidates)
               /\ Short(k, candidates) <=> Unevidenced(concept) \/ MandatoryUnresolved(concept)
               /\ ~InCore(k, candidates) => concept.resolution # "core"
<1> DEFINE k == clusters[i]
           concept == ConceptOf(k, candidates)
<1>1. k.evidence # {}
  BY ContractAssumption DEF ScoreInv, Range
<1>2. CASE CandidatesOf(k, candidates) = {} /\ concept.id = k.id /\ concept.sme = ""
           /\ concept.resolution = "gap"
  <2> HIDE DEF k, concept
  <2>1. Short(k, candidates) /\ Unevidenced(concept)
    BY <1>2 DEF Short, Unevidenced
  <2>2. concept.id = NameOf(k, candidates) /\ concept.resolution # "core"
    BY <1>2 DEF NameOf
  <2> QED
    BY <2>1, <2>2 DEF k, concept
<1>3. ASSUME NEW c,
             CandidatesOf(k, candidates) = {c}, concept.id = c.id, concept.weight = c.weight,
             concept.evidence = k.evidence,
             concept.sme = (IF c.status = "approved" THEN c.sme ELSE ""),
             concept.resolution = (IF c.placement = "core" THEN "core" ELSE "extension")
      PROVE  /\ concept.id = NameOf(k, candidates)
             /\ Short(k, candidates) <=> Unevidenced(concept) \/ MandatoryUnresolved(concept)
             /\ ~InCore(k, candidates) => concept.resolution # "core"
  <2> HIDE DEF k, concept
  <2>1. concept.id = NameOf(k, candidates)
    BY <1>3 DEF NameOf
  <2>2. Short(k, candidates) <=> ~Signed(c) \/ (c.weight = 5 /\ c.placement # "core")
    BY <1>3 DEF Short
  <2>3. Unevidenced(concept) <=> ~Signed(c)
    BY <1>1, <1>3 DEF Unevidenced, Signed
  <2>4. ~Unevidenced(concept) =>
            OwnResolution(concept) = (IF c.placement = "core" THEN 2 ELSE 1)
    <3>1. ResolutionScore["core"] = 2 /\ ResolutionScore["extension"] = 1
      BY DEF ResolutionScore
    <3> QED
      BY <1>3, <3>1 DEF OwnResolution
  <2>5. ~Unevidenced(concept) =>
            (MandatoryUnresolved(concept) <=> c.weight = 5 /\ c.placement # "core")
    <3>1. ~Unevidenced(concept) => (OwnResolution(concept) < 2 <=> c.placement # "core")
      BY <2>4
    <3> QED
      BY <1>3, <3>1 DEF MandatoryUnresolved
  <2>6. ~InCore(k, candidates) => concept.resolution # "core"
    BY <1>3 DEF InCore
  <2> QED
    BY <2>1, <2>2, <2>3, <2>5, <2>6
<1>4. CandidatesOf(k, candidates) = {} => concept.resolution = "gap"
  BY DEF ConceptOf, CandidatesOf, CandidateFor, Range
<1> QED
  BY <1>2, <1>3, <1>4, ConceptOfOne

Positions(G, id) == {x \in DOMAIN G : G[x].concept = id}

LEMMA ListedOnce ==
    ASSUME NEW S, NEW u \in Seq(S), NEW T, NEW i \in DOMAIN u, NEW reason,
           \A j \in DOMAIN u : u[j].id = u[i].id => j = i
    PROVE  LET of == Positions(Entries(Only(u, T), reason), u[i].id)
           IN  /\ u[i] \in T => \E x : of = {x}
               /\ u[i] \notin T => of = {}
<1> DEFINE H == Only(u, T)
           G == Entries(H, reason)
<1>1. PICK p : Selects(p, H, u, T)
  BY OnlySelects
<1>2. H \in Seq(S)
  BY OnlySelects
<1>3. DOMAIN G = DOMAIN H /\ \A x \in DOMAIN H : G[x].concept = H[x].id
  BY DEF Entries, GapEntry
<1> HIDE DEF G, H
<1>4. ASSUME NEW x \in DOMAIN H, H[x].id = u[i].id PROVE p[x] = i /\ u[i] \in T
  BY <1>1, <1>4 DEF Selects
<1>5. ASSUME NEW x \in DOMAIN H, NEW y \in DOMAIN H, p[x] = p[y] PROVE x = y
  <2>1. x \in Int /\ y \in Int /\ p[x] \in Int /\ p[y] \in Int
    BY <1>1, <1>2 DEF Selects
  <2>2. (x < y => p[x] < p[y]) /\ (y < x => p[y] < p[x])
    BY <1>1 DEF Selects
  <2> QED
    BY <1>5, <2>1, <2>2
<1>6. CASE u[i] \in T
  <2>1. PICK x \in DOMAIN H : p[x] = i
    BY <1>1, <1>6 DEF Selects
  <2>2. H[x].id = u[i].id
    BY <1>1, <2>1 DEF Selects
  <2>3. {y \in DOMAIN G : G[y].concept = u[i].id} = {x}
    BY <1>3, <1>4, <1>5, <2>1, <2>2
  <2> QED
    BY <1>6, <2>3 DEF G, H, Positions
<1>7. CASE u[i] \notin T
  <2>1. {y \in DOMAIN G : G[y].concept = u[i].id} = {}
    BY <1>3, <1>4, <1>7
  <2> QED
    BY <1>7, <2>1 DEF G, H, Positions
<1> QED
  BY <1>6, <1>7

(* Where the entries of a concept are that the first two parts hold.       *)
LEMMA ListedWhere ==
    ASSUME NEW E, NEW A \in Seq(E), NEW B \in Seq(E), NEW C \in Seq(E), NEW id,
           \A x \in DOMAIN A : A[x].reason = "unresolved",
           \A x \in DOMAIN B : B[x].reason = "unevidenced",
           \A x \in DOMAIN C : C[x].reason = "below-region-floor"
    PROVE  LET P == Positions(A, id)
               Q == Positions(B, id)
               all == Listed(A \o B \o C, id, {"unresolved", "unevidenced"})
           IN  /\ Q = {} => all = P
               /\ \A x \in Q : P = {} /\ Q = {x} => all = {Len(A) + x}
<1> DEFINE G == A \o B \o C
           P == {x \in DOMAIN A : A[x].concept = id}
           Q == {x \in DOMAIN B : B[x].concept = id}
           all == Listed(G, id, {"unresolved", "unevidenced"})
           a == Len(A)
           b == Len(B)
<1>1. a \in Nat /\ b \in Nat /\ DOMAIN A = 1..a /\ DOMAIN B = 1..b
  OBVIOUS
<1>2. /\ \A x \in DOMAIN A : x \in DOMAIN G /\ G[x] = A[x]
      /\ \A x \in DOMAIN B : a + x \in DOMAIN G /\ G[a + x] = B[x]
      /\ \A x \in DOMAIN G : x > a + b => x - a - b \in DOMAIN C /\ G[x] = C[x - a - b]
      /\ \A x \in DOMAIN G : x \in Int /\ x >= 1
  OBVIOUS
<1> HIDE DEF G, a, b
<1>3. ASSUME NEW x \in all
      PROVE  x \in P \/ \E y \in Q : x = a + y
  <2>1. x \in DOMAIN G /\ x \in Int /\ x >= 1 /\ G[x].concept = id
        /\ G[x].reason # "below-region-floor"
    BY <1>2 DEF Listed
  <2>2. CASE x <= a
    <3>1. x \in DOMAIN A
      BY <1>1, <2>1, <2>2
    <3> QED
      BY <1>2, <2>1, <3>1
  <2>3. CASE x > a /\ x <= a + b
    <3> DEFINE y == x - a
    <3>1. y \in DOMAIN B /\ x = a + y
      BY <1>1, <2>1, <2>3
    <3> HIDE DEF y
    <3> QED
      BY <1>2, <2>1, <3>1
  <2>4. CASE x > a + b
    BY <1>2, <2>1, <2>4
  <2> QED
    BY <1>1, <2>1, <2>2, <2>3, <2>4
<1>4. \A x \in P : x \in all
  BY <1>2 DEF Listed
<1>5. \A y \in Q : a + y \in all
  BY <1>2 DEF Listed
<1> HIDE DEF P, Q, all
<1>6. Q = {} => all = P
  BY <1>3, <1>4
<1>7. ASSUME NEW x \in Q, P = {}, Q = {x} PROVE all = {a + x}
  BY <1>3, <1>5, <1>7
<1> QED
  BY <1>6, <1>7 DEF P, Q, all, G, a, Positions
LEMMA CardinalityOfFew ==
    /\ Cardinality({}) = 0
    /\ \A w : Cardinality({w}) = 1
<1> DEFINE Rest(g, s) == 1 + g[s \ {CHOOSE x : x \in s}]
           Counts(g, S) == g = [s \in SUBSET S |-> IF s = {} THEN 0 ELSE Rest(g, s)]
           count(S) == CHOOSE g : Counts(g, S)
<1>1. \A S : Cardinality(S) = count(S)[S]
  BY DEF Cardinality
<1>2. Cardinality({}) = 0
  <2> DEFINE g == [s \in SUBSET {} |-> 0]
  <2>1. Counts(g, {})
    <3> HIDE DEF Rest
    <3> QED
      OBVIOUS
  <2> HIDE DEF g, Counts
  <2>2. Counts(count({}), {})
    BY <2>1
  <2> HIDE DEF count, Rest
  <2>3. count({})[{}] = 0
    BY <2>2 DEF Counts
  <2> QED
    BY <1>1, <2>3
<1>3. ASSUME NEW w PROVE Cardinality({w}) = 1
  <2> DEFINE g == [s \in SUBSET {w} |-> IF s = {} THEN 0 ELSE 1]
             S == {w}
  <2>1. Counts(g, S)
    <3>1. ASSUME NEW s \in SUBSET S, s # {} PROVE Rest(g, s) = 1
      <4>1. s = {w} /\ (CHOOSE x : x \in s) = w /\ s \ {w} = {}
        BY <3>1
      <4>2. g[{}] = 0
        OBVIOUS
      <4> HIDE DEF g
      <4> QED
        BY <4>1, <4>2
    <3> HIDE DEF Rest
    <3> QED
      BY <3>1
  <2> HIDE DEF g, Counts, S
  <2>2. Counts(count(S), S)
    BY <2>1
  <2>3. count(S)[S] = 1
    <3>1. count(S)[{}] = 0 /\ count(S)[S] = Rest(count(S), S)
      <4> HIDE DEF count, Rest
      <4>1. S # {} /\ {} \in SUBSET S /\ S \in SUBSET S
        BY DEF S
      <4> QED
        BY <2>2, <4>1 DEF Counts
    <3>2. (CHOOSE x : x \in S) = w /\ S \ {w} = {}
      BY DEF S
    <3> HIDE DEF count
    <3>3. Rest(count(S), S) = 1 + count(S)[{}]
      BY <3>2
    <3> QED
      BY <3>1, <3>3
  <2> QED
    BY <1>1, <2>3 DEF S
<1> QED
  BY <1>2, <1>3

(* A cluster is listed as a reason the gates fail, once, if it is one.     *)
LEMMA ShortIsListedOnce ==
    ASSUME RInv, ScoreInv, IdsDiffer(candidates), NEW i \in DOMAIN clusters
    PROVE  Cardinality(Listed(CurrentGaps, NameOf(clusters[i], candidates),
                              {"unresolved", "unevidenced"})) =
               IF Short(clusters[i], candidates) THEN 1 ELSE 0
<1> DEFINE u == LiveUniverse
           report == Report(u)
           U == Range(u)
           A == Entries(Unresolved(u), "unresolved")
           B == Entries(UnevidencedOnly(u), "unevidenced")
           C == FlattenSeq(Floors(u, report))
           T == {c \in U : MandatoryUnresolved(c)}
           V == {c \in U : Unevidenced(c) /\ c.id \notin {v.id : v \in Range(Unresolved(u))}}
           id == u[i].id
           P == Positions(A, id)
           Q == Positions(B, id)
           all == Listed(CurrentGaps, id, {"unresolved", "unevidenced"})
<1>1. DOMAIN u = DOMAIN clusters /\ \A j \in DOMAIN clusters : u[j] = ConceptOf(clusters[j], candidates)
  BY DEF LiveUniverse, BuildUniverse
<1>2. u \in Seq(U) /\ i \in DOMAIN u /\ u[i] \in U
  BY DEF LiveUniverse, BuildUniverse, Range, RInv
<1>3. \A j \in DOMAIN u : u[j].id = id => j = i
  BY <1>1, ConceptIdsDiffer
<1>4. CurrentGaps = A \o B \o C
  BY DEF CurrentGaps, GapRegister, Floors
<1> HIDE DEF u, report, U
<1>5. Unresolved(u) = Only(u, T) /\ UnevidencedOnly(u) = Only(u, V)
  BY DEF Unresolved, UnevidencedOnly, Where, U
<1>6. Range(Unresolved(u)) = T
  BY <1>2, <1>5, OnlyRange DEF U
<1>7. /\ u[i] \in T <=> MandatoryUnresolved(u[i])
      /\ u[i] \in V <=> Unevidenced(u[i]) /\ ~MandatoryUnresolved(u[i])
  <2>1. u[i] \in T <=> MandatoryUnresolved(u[i])
    BY <1>2
  <2>2. id \in {v.id : v \in T} <=> MandatoryUnresolved(u[i])
    <3>1. ASSUME NEW v \in T, v.id = id PROVE MandatoryUnresolved(u[i])
      <4>1. PICK j \in DOMAIN u : v = u[j]
        BY DEF U, Range
      <4> QED
        BY <1>3, <3>1, <4>1
    <3> QED
      BY <2>1, <3>1
  <2> HIDE DEF T, id
  <2>3. u[i] \in V <=> Unevidenced(u[i]) /\ id \notin {v.id : v \in T}
    BY <1>2, <1>6 DEF id
  <2> QED
    BY <2>1, <2>2, <2>3
<1>8. /\ u[i] \in T => \E x : P = {x}
      /\ u[i] \notin T => P = {}
      /\ u[i] \in V => \E x : Q = {x}
      /\ u[i] \notin V => Q = {}
  <2>1. A = Entries(Only(u, T), "unresolved") /\ B = Entries(Only(u, V), "unevidenced")
    BY <1>5
  <2> HIDE DEF T, V, A, B
  <2>2. \A W, reason : LET of == Positions(Entries(Only(u, W), reason), id)
                       IN  /\ u[i] \in W => \E x : of = {x}
                           /\ u[i] \notin W => of = {}
    BY <1>2, <1>3, ListedOnce
  <2> HIDE DEF id
  <2> QED
    BY <2>1, <2>2
<1>9. /\ Q = {} => all = P
      /\ \A x \in Q : P = {} /\ Q = {x} => all = {Len(A) + x}
  <2>1. A \in Seq(Entry(U)) /\ B \in Seq(Entry(U)) /\ C \in Seq(FloorEntry(U))
    BY <1>2, PartsAreLists
  <2>2. C \in Seq(Entry(U))
    <3>1. FloorEntry(U) \subseteq Entry(U)
      BY DEF Entry
    <3> HIDE DEF C
    <3> QED
      BY <2>1, <3>1
  <2>3. /\ \A x \in DOMAIN A : A[x].reason = "unresolved"
        /\ \A x \in DOMAIN B : B[x].reason = "unevidenced"
    BY DEF Entries, GapEntry
  <2>4. \A x \in DOMAIN C : C[x].reason = "below-region-floor"
    <3>1. \A e \in FloorEntry(U) : e.reason = "below-region-floor"
      BY DEF FloorEntry, GapEntry
    <3> HIDE DEF C
    <3> QED
      BY <2>1, <3>1
  <2> HIDE DEF A, B, C, id
  <2> DEFINE listed == Listed(A \o B \o C, id, {"unresolved", "unevidenced"})
  <2>5. /\ Positions(B, id) = {} => listed = Positions(A, id)
        /\ \A x \in Positions(B, id) :
              Positions(A, id) = {} /\ Positions(B, id) = {x} => listed = {Len(A) + x}
    BY <2>1, <2>2, <2>3, <2>4, ListedWhere
  <2>6. all = listed
    BY <1>4
  <2> HIDE DEF all, listed
  <2> QED
    BY <2>5, <2>6
<1>10. /\ id = NameOf(clusters[i], candidates)
       /\ Short(clusters[i], candidates) <=> u[i] \in T \/ u[i] \in V
  <2> HIDE DEF T, V
  <2> QED
    BY <1>1, <1>7, ShortConcept
<1> HIDE DEF A, B, P, Q, T, V, all
<1>11. CASE u[i] \in T
  <2>1. PICK x : P = {x}
    BY <1>8, <1>11
  <2>2. all = {x}
    BY <1>7, <1>8, <1>9, <1>11, <2>1
  <2> QED
    BY <1>10, <1>11, <2>2, CardinalityOfFew DEF all
<1>12. CASE u[i] \in V /\ u[i] \notin T
  <2>1. PICK x : Q = {x}
    BY <1>8, <1>12
  <2>2. all = {Len(A) + x}
    BY <1>8, <1>9, <1>12, <2>1
  <2> QED
    BY <1>10, <1>12, <2>2, CardinalityOfFew DEF all
<1>13. CASE u[i] \notin V /\ u[i] \notin T
  <2>1. all = {}
    BY <1>8, <1>9, <1>13
  <2> QED
    BY <1>10, <1>13, <2>1, CardinalityOfFew DEF all
<1> QED
  BY <1>11, <1>12, <1>13

(* What is not in the core is listed for each of its regions below the     *)
(* floor.                                                                  *)
LEMMA FloorIsListed ==
    ASSUME RInv, ScoreInv, NEW i \in DOMAIN clusters, NEW r \in ALL_REGIONS,
           r \in MemberRegions(clusters[i]), ~InCore(clusters[i], candidates),
           ~(Report(LiveUniverse).perRegion[r] >= RegionFloor)
    PROVE  \E x \in Listed(CurrentGaps, NameOf(clusters[i], candidates), {"below-region-floor"}) :
              CurrentGaps[x].regions = {r}
<1> DEFINE u == LiveUniverse
           report == Report(u)
           U == Range(u)
           A == Entries(Unresolved(u), "unresolved")
           B == Entries(UnevidencedOnly(u), "unevidenced")
           F == Floors(u, report)
           T == {c \in U : r \in c.regions}
           near == InRegion(u, r)
           V == {c \in Range(near) : c.resolution # "core"}
           here == Only(near, V)
           e == GapEntry(u[i], "below-region-floor", {r})
<1>1. u[i] = ConceptOf(clusters[i], candidates) /\ i \in DOMAIN u
  BY DEF LiveUniverse, BuildUniverse
<1>2. u \in Seq(U) /\ u[i] \in U
  BY DEF LiveUniverse, BuildUniverse, Range, RInv
<1>3. CurrentGaps = A \o B \o FlattenSeq(F)
  BY DEF CurrentGaps, GapRegister, Floors
<1>4. u[i].regions = MemberRegions(clusters[i])
  <2>1. \A k : ConceptOf(k, candidates).regions = MemberRegions(k)
    BY DEF ConceptOf
  <2> HIDE DEF u
  <2> QED
    BY <1>1, <2>1
<1>5. /\ u[i].id = NameOf(clusters[i], candidates)
      /\ u[i].resolution # "core"
  BY <1>1, ShortConcept
<1>6. ~(report.perRegion[r] >= RegionFloor)
  OBVIOUS
<1> HIDE DEF u, report, U
<1>7. near = Only(u, T)
  BY DEF InRegion, Where, U
<1>8. near \in Seq(U) /\ u[i] \in Range(near)
  <2>1. near \in Seq(U) /\ Range(near) = U \intersect T
    BY <1>2, <1>7, OnlySelects, OnlyRange DEF U
  <2> QED
    BY <1>2, <1>4, <2>1
<1> HIDE DEF near
<1>9. here \in Seq(U) /\ u[i] \in Range(here)
  <2>1. here \in Seq(U) /\ Range(here) = Range(near) \intersect V
    BY <1>8, OnlySelects, OnlyRange
  <2> QED
    BY <1>5, <1>8, <2>1
<1>10. BelowFloor(u, report, r) = [x \in DOMAIN here |-> GapEntry(here[x], "below-region-floor", {r})]
  BY <1>6 DEF BelowFloor, Where, near
<1>11. PICK n \in DOMAIN Regions : Regions[n] = r
  BY DEF ALL_REGIONS, Range
<1>12. n \in DOMAIN F /\ F[n] = BelowFloor(u, report, r)
  BY <1>11 DEF Floors
<1>13. PICK x \in DOMAIN here : here[x] = u[i]
  BY <1>9 DEF Range
<1>14. x \in DOMAIN F[n] /\ F[n][x] = e
  <2> HIDE DEF here
  <2> QED
    BY <1>10, <1>12, <1>13
<1>15. /\ F \in Seq(Seq(FloorEntry(U)))
       /\ A \in Seq(Entry(U)) /\ B \in Seq(Entry(U)) /\ FlattenSeq(F) \in Seq(FloorEntry(U))
       /\ FloorEntry(U) \subseteq Entry(U)
  <2>1. FloorEntry(U) \subseteq Entry(U)
    BY DEF Entry
  <2> QED
    BY <1>2, <2>1, PartsAreLists
<1> HIDE DEF A, B, F, e
<1>16. HasElement(FlattenSeq(F), e)
  BY <1>12, <1>14, <1>15, FlattenHolds
<1>17. HasElement(CurrentGaps, e)
  <2>1. A \o B \in Seq(Entry(U)) /\ FlattenSeq(F) \in Seq(Entry(U))
    BY <1>15
  <2> QED
    BY <1>3, <1>16, <2>1, JoinHolds
<1>18. e.concept = u[i].id /\ e.reason = "below-region-floor" /\ e.regions = {r}
  BY DEF e, GapEntry
<1> QED
  BY <1>5, <1>17, <1>18 DEF HasElement, Listed

LEMMA GapsFollow == RInv /\ ScoreInv => GapsExplainGates
<1> SUFFICES ASSUME RInv, ScoreInv, Clustered, IdsDiffer(candidates)
             PROVE  GapsExplainGates
  BY DEF GapsExplainGates
<1> DEFINE u == LiveUniverse
           report == Report(u)
<1>1. CurrentGaps = GapRegister(u, report)
  BY DEF CurrentGaps
<1>2. \A k \in Range(clusters) : \E i \in DOMAIN clusters : k = clusters[i]
  BY DEF Range
<1>3. report.gate1 /\ report.gate3 <=> ~\E k \in Range(clusters) : Short(k, candidates)
  <2>1. /\ report.gate1 <=> \A c \in Range(u) : ~MandatoryUnresolved(c)
        /\ report.gate3 <=> \A c \in Range(u) : ~Unevidenced(c)
    BY DEF Report
  <2>2. DOMAIN u = DOMAIN clusters /\ \A i \in DOMAIN u : u[i] = ConceptOf(clusters[i], candidates)
    BY DEF LiveUniverse, BuildUniverse
  <2> HIDE DEF u, report
  <2>3. report.gate1 /\ report.gate3 <=>
            \A i \in DOMAIN clusters : ~Short(clusters[i], candidates)
    BY <2>1, <2>2, ShortConcept DEF Range
  <2> QED
    BY <1>2, <2>3 DEF Range
<1> HIDE DEF u, report
<1>4. \A k \in Range(clusters) :
          Cardinality(Listed(CurrentGaps, NameOf(k, candidates), {"unresolved", "unevidenced"})) =
              IF Short(k, candidates) THEN 1 ELSE 0
  BY <1>2, ShortIsListedOnce
<1>5. \A k \in Range(clusters), r \in ALL_REGIONS :
          r \in MemberRegions(k) /\ ~InCore(k, candidates) /\ ~(report.perRegion[r] >= RegionFloor)
          => \E i \in Listed(CurrentGaps, NameOf(k, candidates), {"below-region-floor"}) :
                CurrentGaps[i].regions = {r}
  BY <1>2, FloorIsListed DEF u, report
<1> QED
  BY <1>1, <1>3, <1>4, <1>5 DEF GapsExplainGates, u, report

(* The gap register accounts for the gates, for any clusters, answers and  *)
(* sessions: once for what makes gate 1 or 3 fail, not at all for what     *)
(* does not, and for all that is outside the core in a region below the    *)
(* floor (gap_register, coverage).                                         *)
THEOREM GapsAccountForGates == Spec => []GapsExplainGates
<1>1. Init => ScoreInv
  BY DEF Init, ScoreInv, OneEach
<1> QED
  BY <1>1, InitRInv, NextRInv, NextScoreInv, GapsFollow, PTL DEF Spec
=============================================================================
