--------------------------- MODULE ReleaseControl ---------------------------
(***************************************************************************)
(* What happens to a run once its clusters are written: a synthesis session *)
(* replaces the candidates (resume_after_checkpoint), and the registry, the *)
(* workshop and the gap pages read them without a lock while it runs.       *)
(*                                                                         *)
(* A request reads the candidate file, computes, and writes to a store of   *)
(* its own, so it is two steps with anything of the session between them.   *)
(* The stores of the clients are disjoint and none of them writes what      *)
(* another reads: a behaviour with several is an interleaving of behaviours *)
(* with one, and client says which.                                         *)
(***************************************************************************)
EXTENDS Coverage
LOCAL INSTANCE SequencesExt
LOCAL INSTANCE FiniteSetsExt

CONSTANTS
    ClusterStores,  \* what S4 may have written, sequences of clusters
    Outputs,        \* what the model may answer for a cluster
    Semvers,
    Limits,         \* page sizes a client asks for, unchecked: any integer, or
    NoLimit,        \* none given
    MaxSessions,    \* syntheses of the run
    MaxReleases     \* release requests

ASSUME ReleaseAssumption ==
    /\ \A s \in ClusterStores : s \in Seq(Range(s))
    /\ Limits \subseteq Int \cup {NoLimit} /\ NoLimit \notin Int
    /\ MaxSessions \in Nat /\ MaxReleases \in Nat

\* What the contracts say of a cluster and of an answer: the id of a cluster is a
\* digest of its members (clustering.py:49), the id of a candidate is of another
\* form, and neither evidence nor members are empty.
ASSUME ContractAssumption ==
    /\ \A s \in ClusterStores : \A i, j \in DOMAIN s : s[i].id = s[j].id => i = j
    /\ \A s \in ClusterStores : \A k \in Range(s) :
          /\ k.evidence # {} /\ k.members # {}
          /\ \A m \in k.members : m.level \in Range(Levels)
          /\ \A o \in Outputs : o.id # k.id
    /\ \A o \in Outputs : o.weight \in {1, 3, 5}

None == [none |-> TRUE]

VARIABLES
    client,      \* the client of the run in this behaviour
    clusters,    \* S4/clusters.jsonl
    candidates,  \* S6/candidates.jsonl, <<>> when there is none
    session,     \* [at, acc]: the cluster synthesised next, 0 for none
    sessions,    \* sessions started
    request,     \* the request in hand: what it has read so far, or None
    asked,       \* requests made
    releases,    \* semver -> the manifest in the registry
    pack,        \* the workshop pack on disk, or None
    decisions,   \* what people decided in the workshop, append-only
    view,        \* what get_pack last showed
    pages        \* the gap pages a client has collected

registry == <<releases>>
workshop == <<pack, decisions, view>>
vars == <<client, clusters, candidates, session, sessions, request, asked,
          registry, workshop, pages>>

LiveUniverse == BuildUniverse(clusters, candidates)
Clustered    == clusters # <<>>

Init ==
    /\ client \in {"registry", "workshop", "pages"}
    /\ clusters \in ClusterStores
    /\ candidates = <<>> /\ session = [at |-> 0, acc |-> <<>>] /\ sessions = 0
    /\ request = None /\ asked = 0 /\ releases = <<>>
    /\ pack = None /\ decisions = <<>> /\ view = <<>>
    /\ pages = None

-----------------------------------------------------------------------------
(* The synthesis session: one cluster after the other, all written at the   *)
(* end.  One session at a time: the decisions handler holds the run's lock. *)

BeginSynthesis ==
    /\ Clustered /\ session.at = 0 /\ sessions < MaxSessions
    /\ session' = [at |-> 1, acc |-> <<>>]
    /\ sessions' = sessions + 1
    /\ UNCHANGED <<client, clusters, candidates, request, asked, registry, workshop, pages>>

Advance(acc) ==
    /\ session.at \in 1..Len(clusters)
    /\ session' = [at |-> session.at + 1, acc |-> acc]
    /\ UNCHANGED <<client, clusters, candidates, sessions, request, asked, registry, workshop, pages>>

\* An answer that no check rejects is a candidate.  A rejected one is a gap: so is
\* a cluster whose work item failed.
Synthesise(output) ==
    /\ session.at \in 1..Len(clusters)
    /\ Rejections(clusters[session.at], output) = {}
    /\ Advance(Append(session.acc, Corrected(clusters[session.at], output)))
Decline == Advance(session.acc)

\* Budget, provider or tool refusal: what the session has is lost.
AbortSynthesis ==
    /\ session.at \in 1..Len(clusters)
    /\ session' = [at |-> 0, acc |-> <<>>]
    /\ UNCHANGED <<client, clusters, candidates, sessions, request, asked, registry, workshop, pages>>

WriteCandidates ==
    /\ session.at = Len(clusters) + 1 /\ Clustered
    /\ candidates' = session.acc
    /\ session' = [at |-> 0, acc |-> <<>>]
    /\ UNCHANGED <<client, clusters, sessions, request, asked, registry, workshop, pages>>

-----------------------------------------------------------------------------
(* POST /v1/registry/{domain}/releases                                     *)

Idle == request = None

GateRelease(semver) ==
    /\ client = "registry" /\ Idle /\ asked < MaxReleases
    /\ asked' = asked + 1
    /\ LET report == Report(LiveUniverse)
       IN  request' = IF Clustered /\ GatesPass(report)
                      THEN [semver |-> semver, report |-> report, basis |-> candidates]
                      ELSE None                  \* gates-not-satisfied
    /\ UNCHANGED <<client, clusters, candidates, session, sessions, registry, workshop, pages>>

\* A second release with a semver replaces the first.  Its artefact list is empty;
\* basis is not in the manifest, it is the candidates the gates were read from.
WriteRelease ==
    /\ client = "registry" /\ ~Idle
    /\ LET manifest == [report |-> request.report, artefacts |-> <<>>, signedAt |-> asked,
                        basis |-> request.basis]
       IN  releases' = [s \in DOMAIN releases \union {request.semver} |->
                           IF s = request.semver THEN manifest ELSE releases[s]]
    /\ request' = None
    /\ UNCHANGED <<client, clusters, candidates, session, sessions, asked, workshop, pages>>

\* GET list and diff, as functions of the registry: releases by signing time, and
\* paths by what became of them.
ListReleases == SetToSortSeq(DOMAIN releases, LAMBDA s, t : releases[s].signedAt < releases[t].signedAt)
DiffReleases(from, to) ==
    LET old == releases[from].artefacts
        new == releases[to].artefacts
        changed == {p \in DOMAIN old \intersect DOMAIN new : old[p] # new[p]}
        removed == DOMAIN old \ DOMAIN new
    IN  [added |-> DOMAIN new \ DOMAIN old, changed |-> changed, removed |-> removed,
         breaking |-> \E p \in changed \union removed : p[1] # "extension"]

-----------------------------------------------------------------------------
(* POST /v1/workshops, then its pack and its decisions                      *)

OpenWorkshop ==
    /\ client = "workshop" /\ Idle /\ pack = None /\ Clustered
    /\ LET report == Report(LiveUniverse)
       IN  request' = [report |-> report, gaps |-> GapRegister(LiveUniverse, report)]
    /\ UNCHANGED <<client, clusters, candidates, session, sessions, asked, registry, workshop, pages>>

\* The candidates are read again for the schemas; emitted is not in the pack, it
\* is what they were then.
AssemblePack ==
    /\ client = "workshop" /\ ~Idle
    /\ pack' = [contents |-> Pack(clusters, candidates, request.report, request.gaps),
                emitted  |-> candidates]
    /\ request' = None
    /\ UNCHANGED <<client, clusters, candidates, session, sessions, asked, registry,
                   decisions, view, pages>>

\* get_pack shows the candidates of the moment, not those of the pack.
GetPack ==
    /\ client = "workshop" /\ pack # None /\ view = <<>>
    /\ view' = [i \in DOMAIN candidates |-> <<candidates[i].id, candidates[i].weight>>]
    /\ UNCHANGED <<client, clusters, candidates, session, sessions, request, asked, registry,
                   pack, decisions, pages>>

\* Appended to decisions.jsonl, whatever it names; nothing reads it back.
SubmitDecision(shown) ==
    /\ client = "workshop" /\ pack # None /\ decisions = <<>>
    /\ decisions' = Append(decisions, [candidate |-> shown[1], outcome |-> "approve"])
    /\ UNCHANGED <<client, clusters, candidates, session, sessions, request, asked, registry,
                   pack, view, pages>>

\* The manifest as a table: the rows of the docx and of the xlsx.
ExportRows == IF pack = None THEN {} ELSE pack.contents.files

-----------------------------------------------------------------------------
(* GET /v1/runs/{id}/gaps: the register is computed afresh for every page,  *)
(* and the cursor is a position in it.                                      *)

CurrentGaps == GapRegister(LiveUniverse, Report(LiveUniverse))
\* Where the slice ends: a negative bound counts from the end of the register.
Stop(gaps, start, limit) ==
    IF limit = NoLimit THEN Len(gaps)
    ELSE LET stop == start + limit
         IN  Min({IF stop < 0 THEN stop + Len(gaps) ELSE stop, Len(gaps)})
Page(gaps, start, limit, last) ==
    LET page == SubSeq(gaps, start + 1, Stop(gaps, start, limit))
    IN  [page |-> page, cursor |-> start + Len(page), over |-> start + Len(page) >= last]
\* No cursor when one entry is left.
MutPageOf(gaps, start, limit) == Page(gaps, start, limit, Len(gaps) - 1)
PageOf(gaps, start, limit) == Page(gaps, start, limit, Len(gaps))
GetGaps(limit) ==
    /\ client = "pages" /\ Clustered
    /\ pages = None \/ (pages # None /\ ~pages.over /\ pages.limit = limit)
    /\ LET first == pages = None
           start == IF first THEN 0 ELSE pages.cursor
           next  == PageOf(CurrentGaps, start, limit)
       IN  pages' = [limit |-> limit, cursor |-> next.cursor, over |-> next.over,
                     got   |-> IF first THEN next.page ELSE pages.got \o next.page,
                     quiet |-> first \/ (pages.quiet /\ pages.basis = candidates),
                     basis |-> candidates]
    /\ UNCHANGED <<client, clusters, candidates, session, sessions, request, asked, registry, workshop>>

-----------------------------------------------------------------------------
\* No session is left to start, or there is nothing to synthesise.
Quiescent == session.at = 0 /\ (sessions = MaxSessions \/ ~Clustered) /\ UNCHANGED vars

Next == BeginSynthesis
        \/ (\E output \in Outputs : Synthesise(output))
        \/ Decline \/ AbortSynthesis \/ WriteCandidates
        \/ (\E semver \in Semvers : GateRelease(semver)) \/ WriteRelease
        \/ OpenWorkshop \/ AssemblePack \/ GetPack
        \/ (\E shown \in {view[i] : i \in DOMAIN view} : SubmitDecision(shown))
        \/ (\E limit \in Limits : GetGaps(limit))
        \/ Quiescent
Spec == Init /\ [][Next]_vars

-----------------------------------------------------------------------------
CandidatesOf(k, cs) == {c \in Range(cs) : c.cluster = k.id}
IdsDiffer(cs) == \A i, j \in DOMAIN cs : cs[i].id = cs[j].id => i = j
Signed(c)     == c.status = "approved" /\ c.sme # ""
WeightIn(k, cs) == IF CandidatesOf(k, cs) = {} THEN WeightFromObligation(StrongestObligation(k))
                   ELSE Max({c.weight : c \in CandidatesOf(k, cs)})
\* Twice what a cluster earns: nothing without a signature, half outside the core.
Earned(k, cs) == SumSet({c.weight * (IF c.placement = "core" THEN 2 ELSE 1) :
                            c \in {c \in CandidatesOf(k, cs) : Signed(c)}})

\* The published score is what signed candidates earn over the weight of every
\* cluster there is: a cluster nobody synthesised, or whose candidate nobody
\* signed, stays in the denominator.  Needs candidates with ids of their own
\* (coverage, build_universe, _classify).
ScoreIsEarned ==
    Clustered /\ IdsDiffer(candidates) =>
        LET report == Report(LiveUniverse)
            earned == SumSeq(LAMBDA k : Earned(k, candidates), clusters)
            weight == SumSeq(LAMBDA k : WeightIn(k, candidates), clusters)
        IN  /\ report.weightSum = weight
            /\ report.score = Rounded([num |-> earned, den |-> 2 * weight])

\* A cluster is short of a release when nobody signed its candidate, or when its
\* candidate weighs 5 and is not in the core.
Short(k, cs)  == \/ ~\E c \in CandidatesOf(k, cs) : Signed(c)
                 \/ \E c \in CandidatesOf(k, cs) : c.weight = 5 /\ c.placement # "core"
InCore(k, cs) == \E c \in CandidatesOf(k, cs) : c.placement = "core"
NameOf(k, cs) == IF CandidatesOf(k, cs) = {} THEN k.id
                 ELSE (CHOOSE c \in CandidatesOf(k, cs) : TRUE).id
Listed(gaps, id, reasons) ==
    {i \in DOMAIN gaps : gaps[i].concept = id /\ gaps[i].reason \in reasons}

\* The gap register accounts for the gates: a cluster is listed as unresolved or
\* unevidenced exactly once if it is one of the reasons gate 1 or gate 3 fails and
\* not at all otherwise, and a region below the floor lists all that is not core
\* there (gap_register against coverage).
GapsExplainGates ==
    Clustered /\ IdsDiffer(candidates) =>
        LET report == Report(LiveUniverse)
            gaps   == GapRegister(LiveUniverse, report)
            Name(k) == NameOf(k, candidates)
        IN  /\ \A k \in Range(clusters) :
                  Cardinality(Listed(gaps, Name(k), {"unresolved", "unevidenced"})) =
                      IF Short(k, candidates) THEN 1 ELSE 0
            /\ report.gate1 /\ report.gate3 <=> ~\E k \in Range(clusters) : Short(k, candidates)
            /\ \A k \in Range(clusters), r \in ALL_REGIONS :
                  /\ r \in MemberRegions(k) /\ ~InCore(k, candidates)
                  /\ ~(report.perRegion[r] >= RegionFloor)
                  => \E i \in Listed(gaps, Name(k), {"below-region-floor"}) : gaps[i].regions = {r}

\* For every cluster a candidate that a person signed, in the core where its
\* weight is 5.
SignedWhole(basis) ==
    \A k \in Range(clusters) : \E c \in CandidatesOf(k, basis) :
        Signed(c) /\ (c.weight = 5 => c.placement = "core")

\* Whatever happened to the candidates between the gates and the write, a release
\* stands on candidates that were all there and all signed: one for every cluster,
\* in the core where the weight is 5, and covering every region.  Only the last of
\* two releases of one semver is there to be asked (create_release).
ReleaseWasRatified ==
    \A semver \in DOMAIN releases :
        /\ SignedWhole(releases[semver].basis)
        /\ \A r \in ALL_REGIONS : \E k \in Range(clusters) : r \in MemberRegions(k)

\* A client that pages through the register while no synthesis is written has every
\* entry once and in order when it is told that it has them all, whatever page size it
\* asked for: with none or below it is never told (get_gaps).
QuietPagesAreComplete ==
    pages # None /\ pages.over /\ pages.quiet =>
        LET universe == BuildUniverse(clusters, pages.basis)
        IN  pages.got = GapRegister(universe, Report(universe))

\* Every reference in a pack leads to a file of the pack, though the pack reads the
\* candidates a second time; and every candidate is a property of some schema,
\* unless another one took its place (assemble_pack).
PackIsWhole ==
    pack # None =>
        LET contents == pack.contents
        IN  /\ contents.refs \subseteq contents.files
            /\ \A m \in contents.model : m.realisedBy.path \in contents.files
            /\ \A i \in DOMAIN pack.emitted :
                  LET c == pack.emitted[i]
                      Rival(d) == /\ d.entity = c.entity /\ d.placement = c.placement
                                  /\ d.name.text = c.name.text
                  IN  \/ \E e \in contents.elements : e.candidate = c.id /\ e.attribute = c.name.text
                      \/ \E j \in DOMAIN pack.emitted : j > i /\ Rival(pack.emitted[j])

\* "ratifying_sme is populated only when a human has actually approved the
\* candidate" (coverage.py:87).
OnlyPeopleApprove ==
    \A c \in Range(LiveUniverse) :
        c.sme # "" => \E i \in DOMAIN decisions : /\ decisions[i].candidate = c.id
                                                 /\ decisions[i].outcome = "approve"
=============================================================================
