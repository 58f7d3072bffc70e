------------------------------ MODULE Linkage ------------------------------
(***************************************************************************)
(* Stage S4 of create_run: the attributes the parsers wrote are blocked,   *)
(* compared pair by pair, linked, cut where a homonym signal fires, and    *)
(* sealed with the pairs nobody decided (orchestrator.create_run calling   *)
(* run_clustering and write_triage_export).                                *)
(*                                                                         *)
(* An attributeId is a number, so that sorting by id is sorting numbers;   *)
(* attrs is the order the artefacts were parsed in.  run_clustering is a   *)
(* loop over pairs and a recursion over groups: Compare takes one pair,    *)
(* and the recursion of min_cut_until is the set of groups still to be     *)
(* looked at, taken in any order: no group reads another's members.  api   *)
(* is None here, as the orchestrator passes it, so there is no block by    *)
(* embedding.                                                              *)
(***************************************************************************)
EXTENDS Scoring, TLC

LOCAL INSTANCE SequencesExt
LOCAL INSTANCE FiniteSetsExt

CONSTANTS
    Attr,          \* attributeIds
    Shapes,        \* what a parser may write about an attribute, but its id
    Orders,        \* orders the corpus may be parsed in
    BlockMaxSizes  \* values of ClusteringConfig.block_max_size

ASSUME LinkageAssumption ==
    /\ Attr \subseteq Nat /\ IsFiniteSet(Attr)
    /\ BlockMaxSizes \subseteq Nat \ {0}
    /\ \A order \in Orders :   \* every attribute once
          /\ order \in Seq(Attr) /\ Range(order) = Attr
          /\ \A i, j \in DOMAIN order : order[i] = order[j] => i = j

VARIABLES
    blockMax,   \* block_max_size, fixed for the run
    stage,      \* "parsed", "profiled", "compare", "split", "export"
    record,     \* attributeId -> its C5 record
    attrs,      \* attributeIds in the order they were parsed
    profiled,   \* attributeId -> its profile
    blocks,     \* the blocks still to be compared, as sequences of ids
    at,         \* the pair of positions compared next in the first of them
    seen,       \* seen_pairs
    edges,      \* <<[pair, score], ...>>: the linked pairs, as inserted
    review,     \* <<[pair, score], ...>>: the pairs in the review band
    work,       \* groups still to be looked at: [ids, edges, homonym]
    clusters,   \* the clusters built
    triage      \* the entries of the triage export

input == <<blockMax, record, attrs>>
vars == <<stage, input, profiled, blocks, at, seen, edges, review, work, clusters, triage>>

Records     == {record[a] : a \in Attr}
Linked      == UNION {edges[i].pair : i \in DOMAIN edges}

-----------------------------------------------------------------------------
(* Graph utilities.                                                        *)

PairsOfEdges(E)  == {E[i].pair : i \in DOMAIN E}
Inside(ids, E)   == {p \in PairsOfEdges(E) : p \subseteq ids}
Closed(T, pairs) == \A p \in pairs : p \intersect T # {} => p \subseteq T

\* The walk stops after the neighbours of a.
MutComponent(a, ids, E) == {a} \union UNION {p \in Inside(ids, E) : a \in p}
\* What a breadth-first walk from a collects: the least set of ids that holds
\* a and that no edge inside ids leaves.
Component(a, ids, E) ==
    {b \in ids : \A T \in SUBSET ids : a \in T /\ Closed(T, Inside(ids, E)) => b \in T}
Components(ids, E) == {Component(a, ids, E) : a \in ids}

-----------------------------------------------------------------------------
(* Building a cluster.                                                     *)

RecordsOf(ids) == {record[a] : a \in ids}
Score(pair) == LET found == {i \in DOMAIN edges : edges[i].pair = pair}
               IN  IF found = {} THEN {} ELSE {edges[CHOOSE i \in found : TRUE].score}
ScoresIn(ids) == UNION {Score(pair) : pair \in {p \in PairsOfEdges(edges) : p \subseteq ids}}

\* The least edge of the group; a cluster of one is certain.
Confidence(ids) == IF Cardinality(ids) < 2 THEN Full
                   ELSE IF ScoresIn(ids) = {} THEN 0 ELSE Min(ScoresIn(ids))

\* Mean score of a to its neighbours in the group, in sixtieths.
MeanSimilarity(a, ids) ==
    LET near == {b \in ids \ {a} : Score({a, b}) # {}}
    IN  IF near = {} THEN 0
        ELSE (60 * MapThenSumSet(LAMBDA b : Min(Score({a, b})), near)) \div Cardinality(near)

\* Strongest evidence first, then the most central, then the lowest id.
PickCore(ids) ==
    LET Key(a) == <<record[a].tier, -MeanSimilarity(a, ids), a>>
        Before(k, l) == \/ k[1] < l[1]
                        \/ k[1] = l[1] /\ k[2] < l[2]
                        \/ k[1] = l[1] /\ k[2] = l[2] /\ k[3] < l[3]
    IN  CHOOSE a \in ids : \A b \in ids \ {a} : Before(Key(a), Key(b))

BuildCluster(ids, homonym) ==
    LET core == PickCore(ids)
        PairScore(a) == IF a = core THEN Full
                        ELSE IF Score({a, core}) = {} THEN Confidence(ids)
                        ELSE Min(Score({a, core}))
    IN  [members    |-> ids,      \* clusterId is the hash of this set
         core       |-> core,
         pairScore  |-> [a \in ids |-> PairScore(a)],
         confidence |-> Confidence(ids),
         regions    |-> {record[a].region : a \in ids},
         evidence   |-> UNION {record[a].evidence : a \in ids},
         conflict   |-> IF homonym THEN "homonym"
                        ELSE ClassifyConflict({profiled[a] : a \in ids})]

-----------------------------------------------------------------------------
Init ==
    /\ stage = "parsed"
    /\ \E shape \in [Attr -> Shapes] :
          record = [a \in Attr |-> [id |-> a] @@ shape[a]]
    /\ attrs \in Orders /\ blockMax \in BlockMaxSizes
    /\ profiled = <<>> /\ blocks = <<>> /\ at = <<1, 2>> /\ seen = {} /\ edges = <<>> /\ review = <<>>
    /\ work = {} /\ clusters = {} /\ triage = <<>>

\* Stage S3, after the parsers: every record with what its artefact says of it.
ProfileRecords ==
    /\ stage = "parsed"
    /\ stage' = "profiled"
    /\ profiled' = [a \in Attr |-> Profile(record[a], Records)]
    /\ UNCHANGED <<input, blocks, at, seen, edges, review, work, clusters, triage>>

\* A block that was cut to one attribute has no pairs.
BuildBlocks ==
    /\ stage = "profiled"
    /\ stage' = "compare"
    /\ LET byHead == GroupsBy([a \in Attr |-> profiled[a].byHead], attrs)
           byType == GroupsBy([a \in Attr |-> profiled[a].byType], attrs)
       IN  blocks' = Where(DedupeBlocks(byHead \o byType, blockMax), LAMBDA b : Len(b) > 1)
    /\ UNCHANGED <<input, profiled, at, seen, edges, review, work, clusters, triage>>

\* One turn of the loop over combinations(block.members, 2).
Compare ==
    /\ stage = "compare" /\ blocks # <<>>
    /\ LET block == Head(blocks)
           n     == Len(block)
           pair  == {block[at[1]], block[at[2]]}
           score == Similarity(profiled[block[at[1]]], profiled[block[at[2]]])
           entry == [pair |-> pair, score |-> score]
           new   == pair \notin seen
           over  == at = <<n - 1, n>>
       IN  /\ seen' = seen \union {pair}
           /\ edges' = IF new /\ score >= LinkThreshold THEN Append(edges, entry) ELSE edges
           /\ review' = IF new /\ score < LinkThreshold /\ score >= ReviewBandLow
                        THEN Append(review, entry) ELSE review
           /\ blocks' = IF over THEN Tail(blocks) ELSE blocks
           /\ at' = IF over THEN <<1, 2>>
                    ELSE IF at[2] < n THEN <<at[1], at[2] + 1>>
                    ELSE <<at[1] + 1, at[1] + 2>>
    /\ UNCHANGED <<stage, input, profiled, work, clusters, triage>>

\* Every component of the linked attributes becomes a group to be cut.
Link ==
    /\ stage = "compare" /\ blocks = <<>>
    /\ stage' = "split"
    /\ work' = {[ids |-> C, edges |-> edges, homonym |-> AnySignalFires(RecordsOf(C))] :
                  C \in Components(Linked, edges)}
    /\ UNCHANGED <<input, profiled, blocks, at, seen, edges, review, clusters, triage>>

\* No signal fires in the group (none can in a group of one): it is a cluster.
Keep(group) ==
    /\ stage = "split"
    /\ ~AnySignalFires(RecordsOf(group.ids))
    /\ clusters' = clusters \union {BuildCluster(group.ids, group.homonym)}
    /\ work' = work \ {group}
    /\ UNCHANGED <<stage, input, profiled, blocks, at, seen, edges, review, triage>>

\* The strongest edge goes.
MutWithoutWeakest(group) ==
    LET internal  == SelectSeq(group.edges, LAMBDA e : e.pair \subseteq group.ids)
        strongest == CHOOSE i \in DOMAIN internal :
                        \A j \in DOMAIN internal : internal[j].score <= internal[i].score
    IN  IF internal = <<>> THEN <<>> ELSE RemoveAt(internal, strongest)
\* The edges inside a group but for the weakest, the first one inserted on a tie.
WithoutWeakest(group) ==
    LET internal == SelectSeq(group.edges, LAMBDA e : e.pair \subseteq group.ids)
        weakest  == CHOOSE i \in DOMAIN internal :
                       \A j \in DOMAIN internal :
                          \/ internal[i].score < internal[j].score
                          \/ internal[i].score = internal[j].score /\ i <= j
    IN  IF internal = <<>> THEN <<>> ELSE RemoveAt(internal, weakest)

\* min_cut_until: the weakest edge goes and the components that are left are
\* looked at again.  Without an edge left, every member is a group of its own.
Cut(group) ==
    /\ stage = "split"
    /\ AnySignalFires(RecordsOf(group.ids))
    /\ LET left  == WithoutWeakest(group)
           parts == {[ids |-> C, edges |-> left, homonym |-> group.homonym] :
                       C \in Components(group.ids, left)}
       IN  work' = (work \ {group}) \union parts
    /\ UNCHANGED <<stage, input, profiled, blocks, at, seen, edges, review, clusters, triage>>

\* write_clusters, write_triage_export
Export ==
    /\ stage = "split" /\ work = {}
    /\ stage' = "export"
    /\ triage' = triage \o [i \in DOMAIN review |-> review[i].pair]
    /\ UNCHANGED <<input, profiled, blocks, at, seen, edges, review, work, clusters>>

Done == stage = "export" /\ UNCHANGED vars

Next == ProfileRecords \/ BuildBlocks \/ Compare \/ Link
        \/ (\E group \in work : Keep(group) \/ Cut(group))
        \/ Export \/ Done
Spec == Init /\ [][Next]_vars

-----------------------------------------------------------------------------
GroupsLeft  == {g.ids : g \in work}
GroupsBuilt == {c.members : c \in clusters}

\* An attribute is in one cluster and no more, and exactly the linked ones are:
\* cutting loses no attribute and copies none (run_clustering, min_cut_until).
GroupsPartitionLinked ==
    stage \in {"split", "export"} =>
        /\ UNION (GroupsLeft \union GroupsBuilt) = Linked
        /\ \A c, d \in clusters : c # d => c.members \intersect d.members = {}
        /\ \A g, h \in work : g # h => g.ids \intersect h.ids = {}
        /\ \A g \in work, c \in clusters : g.ids \intersect c.members = {}

\* No attribute is cut off where it was held more firmly than the cluster it is
\* cut from: an accepted pair that a cluster's border crosses is no stronger than
\* the pairs inside that hold the cluster together, and no border crosses a pair
\* where no homonym signal fired (min_cut_until, over all the edges it removes).
HeldTogether(ids, score) ==
    \A T \in SUBSET ids \ {{}, ids} :
        \E i \in DOMAIN edges :
            /\ edges[i].pair \subseteq ids /\ edges[i].score >= score
            /\ edges[i].pair \intersect T # {} /\ ~edges[i].pair \subseteq T
CutsAreWeakest ==
    \A c \in clusters : \A i \in DOMAIN edges :
        edges[i].pair \intersect c.members # {} /\ ~edges[i].pair \subseteq c.members
            => c.conflict = "homonym" /\ HeldTogether(c.members, edges[i].score)

\* Two attributes with the same blocking head, in a block that was not cut to
\* size, are decided: over the threshold they are in one cluster unless both come
\* from a group that was split, in the band they are in the triage export.
Comparable(a, b) ==
    LET head == profiled[a].byHead
    IN  /\ profiled[b].byHead = head
        /\ Cardinality({c \in Attr : profiled[c].byHead = head}) <= blockMax
Together(a, b) == \E g \in GroupsBuilt : {a, b} \subseteq g
Homonym(a) == \E c \in clusters : a \in c.members /\ c.conflict = "homonym"
ComparablePairsAreDecided ==
    stage = "export" =>
        \A a, b \in Attr : a # b /\ Comparable(a, b) =>
            LET score == Similarity(profiled[a], profiled[b])
            IN  /\ score >= LinkThreshold => Together(a, b) \/ (Homonym(a) /\ Homonym(b))
                /\ score < LinkThreshold /\ score >= ReviewBandLow =>
                      Cardinality({i \in DOMAIN triage : triage[i] = {a, b}}) = 1

\* "Never both a cluster and a review pair for the same evidence": a pair that
\* people are asked about is not already in one cluster (test_clustering.py:129).
NeverClusterAndReviewPair ==
    stage = "export" =>
        \A i \in DOMAIN triage : ~\E g \in GroupsBuilt : triage[i] \subseteq g
=============================================================================
