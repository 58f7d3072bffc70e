----------------------------- MODULE Substrate -----------------------------
(***************************************************************************)
(* The knowledge substrate: the ingestion of a run's admitted artefacts    *)
(* (substrate/ingest.py), the tables it fills (substrate/schema.sql), and  *)
(* what search and lineage read back (substrate/api.py, search.py,         *)
(* graph.py).                                                              *)
(*                                                                         *)
(* An ingestion is one transaction followed by one file per region in the  *)
(* run store.  Several ingestions run at a time, at the database's default *)
(* isolation: each statement sees what is committed and its own writes,    *)
(* and a statement on a row that another open transaction wrote waits for  *)
(* that transaction to end.  An ingestion can die at any step and is then  *)
(* called again.  A table is a set of rows.                                *)
(***************************************************************************)
EXTENDS Chunking, Integers
LOCAL INSTANCE SequencesExt
LOCAL INSTANCE FiniteSetsExt
LOCAL INSTANCE TLC

CONSTANTS
    Runs,
    Corpora,        \* the corpora the runs may have: [Runs -> sequences of artefacts]
    Queries,        \* the queries: filters and how many answers are wanted
    HashRank(_),    \* the place of a text's hash among the hashes
    Lexical(_, _),  \* the BM25 score of a text for a query; 0 when no word matches
    Semantic(_, _), \* the cosine similarity of a text and a query
    MaxAttempts     \* bound on how often an ingestion is called for a run

TextsOf(artefact) == {Drafts(artefact)[i] : i \in DOMAIN Drafts(artefact)}

ASSUME SubstrateAssumption ==
    /\ MaxAttempts \in Nat
    /\ \A c \in Corpora : \A r \in Runs :
          /\ c[r] \in Seq({c[r][i] : i \in DOMAIN c[r]})
          /\ \A i \in DOMAIN c[r] :
                /\ IsDocument(c[r][i])
                /\ Drafts(c[r][i]) \in Seq(TextsOf(c[r][i]))

VARIABLES
    corpus,      \* the admitted artefacts of every run, in manifest order
    chunks, embeddings, nodes, edges,   \* the tables, as committed
    mine,        \* what the open transaction of a run has written
    records,     \* the attributes in a run's own store
    pc, at,      \* the stage of a run's ingestion, and the artefact it is at
    drafts,      \* the chunks of that artefact it has not looked at
    absent,      \* whether it has found the first of them missing
    answers,     \* what the queries of a run return when its ingestion first commits
    attempts

tables == <<chunks, embeddings, nodes, edges>>
local  == <<at, drafts, absent>>
vars   == <<corpus, tables, mine, records, pc, local, answers, attempts>>

Nothing == [chunks |-> {}, embeddings |-> {}, nodes |-> {}, edges |-> {}]

Init ==
    /\ corpus \in Corpora
    /\ chunks = {} /\ embeddings = {} /\ nodes = {} /\ edges = {}
    /\ mine = [r \in Runs |-> Nothing]
    /\ records = [r \in Runs |-> {}]
    /\ pc = [r \in Runs |-> "idle"]
    /\ at = [r \in Runs |-> 0]
    /\ drafts = [r \in Runs |-> <<>>]
    /\ absent = [r \in Runs |-> FALSE]
    /\ answers = <<>>
    /\ attempts = [r \in Runs |-> 0]

-----------------------------------------------------------------------------
(* search: the run's own rows under the filters, ranked by words and by    *)
(* similarity, the two rankings fused, the first of them returned.         *)
OwnRows(r) == {c \in chunks : c.run = r}

Selected(rows, q) ==
    {c \in rows : /\ c.tier <= q.tierMax
                  /\ q.region \in {"any", c.region}
                  /\ q.kinds # {} => c.kind \in q.kinds}

(* Scores, as a numerator and a denominator, highest first; then by hash.  *)
RankByScore(scores) ==
    LET Higher(s, t)   == scores[s][1] * scores[t][2] > scores[t][1] * scores[s][2]
        before(s, t)   == Higher(s, t) \/ (~Higher(t, s) /\ HashRank(s) < HashRank(t))
        listed(t, seq) == Append(seq, t)
    IN SortSeq(FoldSet(listed, <<>>, DOMAIN scores), before)

Place(ranking, text) == CHOOSE i \in DOMAIN ranking : ranking[i] = text

(* reciprocal_rank_fuse: the sum of 1 / (60 + place) over the rankings.    *)
Fused(byWords, bySense, text) ==
    LET j == 60 + Place(bySense, text) IN
    IF text \in Range(byWords)
    THEN LET i == 60 + Place(byWords, text) IN <<i + j, i * j>>
    ELSE <<1, j>>

Answer(rows, q) ==
    LET texts   == {c.text : c \in Selected(rows, q)}
        matched == {t \in texts : Lexical(q, t) > 0}
        byWords == RankByScore([t \in matched |-> <<Lexical(q, t), 1>>])
        bySense == RankByScore([t \in texts |-> <<Semantic(q, t), 1>>])
        ordered == RankByScore([t \in texts |-> Fused(byWords, bySense, t)])
        first   == SubSeq(ordered, 1, IF Len(ordered) < q.topK THEN Len(ordered) ELSE q.topK)
    IN [i \in DOMAIN first |-> CHOOSE c \in rows : c.text = first[i]]

Search(r, q) == Answer(OwnRows(r), q)

(* lineage: what is within MaxDepth hops, along edges in either direction. *)
MaxDepth == 6

Onward(ids) ==
    ids \union {n \in nodes : \E m \in ids : {<<m, n>>, <<n, m>>} \intersect edges # {}}

Near(seed) ==
    LET within[hops \in 0..MaxDepth] ==
            IF hops = 0 THEN {seed} \intersect nodes ELSE Onward(within[hops - 1])
    IN  within[MaxDepth]

Lineage(seed) ==
    [nodes |-> Near(seed), edges |-> {e \in edges : {e[1], e[2]} \subseteq Near(seed)}]

-----------------------------------------------------------------------------
Begin(r) ==
    /\ pc[r] \in {"idle", "failed"} /\ attempts[r] < MaxAttempts
    /\ attempts' = [attempts EXCEPT ![r] = @ + 1]
    /\ pc' = [pc EXCEPT ![r] = "ingesting"]
    /\ at' = [at EXCEPT ![r] = 0]
    /\ UNCHANGED <<corpus, tables, mine, records, drafts, absent, answers>>

Current(r) == corpus[r][at[r] + 1]

AtArtefact(r) == pc[r] = "ingesting" /\ drafts[r] = <<>> /\ at[r] < Len(corpus[r])

(* An attribute's id holds its artefact's, so whoever writes its rows has  *)
(* written the row of the artefact first.                                  *)
NodeHeld(r, id) == \E q \in Runs \ {r} : id \in mine[q].nodes
TextHeld(r, text) == \E q \in Runs \ {r} : \E c \in mine[q].chunks : c.text = text

(* The node of the artefact; for every attribute its parser finds a node,  *)
(* an edge and an embedding.  What has no parser yields no attributes.     *)
WriteArtefact(r) ==
    /\ AtArtefact(r)
    /\ LET a == Current(r) IN
       /\ ~a.broken
       /\ ~NodeHeld(r, a.id)
       /\ mine' = [mine EXCEPT ![r] = [@ EXCEPT
            !.nodes = mine[r].nodes \union {a.id} \union a.attributes,
            !.edges = mine[r].edges \union {<<x, a.id>> : x \in a.attributes},
            !.embeddings = mine[r].embeddings
                           \union {[attribute |-> x, run |-> r] : x \in a.attributes}]]
       /\ drafts' = [drafts EXCEPT ![r] = Drafts(a)]
    /\ at' = [at EXCEPT ![r] = @ + 1]
    /\ UNCHANGED <<corpus, tables, records, pc, absent, answers, attempts>>

Present(r, text) == \E c \in chunks \union mine[r].chunks : c.text = text

Skip(r) ==
    /\ drafts' = [drafts EXCEPT ![r] = Tail(@)]
    /\ absent' = [absent EXCEPT ![r] = FALSE]

(* SELECT 1 FROM chunks: a chunk that is there is skipped.                 *)
LookUpChunk(r) ==
    /\ pc[r] = "ingesting" /\ drafts[r] # <<>> /\ ~absent[r]
    /\ IF Present(r, drafts[r][1])
       THEN Skip(r)
       ELSE /\ absent' = [absent EXCEPT ![r] = TRUE]
            /\ UNCHANGED drafts
    /\ UNCHANGED <<corpus, tables, mine, records, pc, at, answers, attempts>>

Row(r, a, text) ==
    [text |-> text, run |-> r, artefact |-> a.id, region |-> a.region,
     tier |-> a.tier, kind |-> a.kind]

(* Mutant: a chunk that is there is taken over, as an embedding is.        *)
MutStored(r, row) ==
    {c \in mine[r].chunks : c.text # row.text} \union {row}

(* INSERT ... ON CONFLICT (chunk_hash) DO NOTHING.                         *)
Stored(r, row) ==
    IF Present(r, row.text) THEN mine[r].chunks ELSE mine[r].chunks \union {row}

InsertChunk(r) ==
    /\ pc[r] = "ingesting" /\ absent[r]
    /\ ~TextHeld(r, drafts[r][1])
    /\ mine' = [mine EXCEPT ![r] = [@ EXCEPT
         !.chunks = Stored(r, Row(r, corpus[r][at[r]], drafts[r][1]))]]
    /\ Skip(r)
    /\ UNCHANGED <<corpus, tables, records, pc, at, answers, attempts>>

(* The transaction ends.  The rows it wrote replace those of their key.    *)
Commit(r) ==
    /\ pc[r] = "ingesting" /\ drafts[r] = <<>> /\ at[r] = Len(corpus[r])
    /\ chunks' = {c \in chunks : \A m \in mine[r].chunks : m.text # c.text}
                 \union mine[r].chunks
    /\ embeddings' = {e \in embeddings :
                        \A m \in mine[r].embeddings : m.attribute # e.attribute}
                     \union mine[r].embeddings
    /\ nodes' = nodes \union mine[r].nodes
    /\ edges' = edges \union mine[r].edges
    /\ mine' = [mine EXCEPT ![r] = Nothing]
    /\ pc' = [pc EXCEPT ![r] = "committed"]
    /\ answers' = [p \in DOMAIN answers \union {r} |->
                     IF p \in DOMAIN answers THEN answers[p]
                     ELSE [q \in Queries |-> Answer(OwnRows(p)', q)]]
    /\ UNCHANGED <<corpus, records, local, attempts>>

-----------------------------------------------------------------------------
(* The records go to the run store after the transaction, a region at a    *)
(* time.                                                                   *)
Shard(r, region) ==
    UNION {corpus[r][i].attributes :
             i \in {j \in DOMAIN corpus[r] : corpus[r][j].region = region}}
RegionsOf(r) == {corpus[r][i].region : i \in DOMAIN corpus[r]}

(* Mutant: the records are written inside the transaction.                 *)
MutMayWriteRecords(r) == pc[r] \in {"ingesting", "committed"} /\ at[r] = Len(corpus[r])

MayWriteRecords(r) == pc[r] = "committed"

WriteAttributes(r) ==
    /\ MayWriteRecords(r)
    /\ \E region \in RegionsOf(r) :
          /\ ~(Shard(r, region) \subseteq records[r])
          /\ records' = [records EXCEPT ![r] = @ \union Shard(r, region)]
    /\ UNCHANGED <<corpus, tables, mine, pc, local, answers, attempts>>

Finish(r) ==
    /\ pc[r] = "committed"
    /\ \A region \in RegionsOf(r) : Shard(r, region) \subseteq records[r]
    /\ pc' = [pc EXCEPT ![r] = "done"]
    /\ UNCHANGED <<corpus, tables, mine, records, local, answers, attempts>>

-----------------------------------------------------------------------------
(* What ends an ingestion early; the connection rolls back.                *)
RollBack(r) ==
    /\ mine' = [mine EXCEPT ![r] = Nothing]
    /\ pc' = [pc EXCEPT ![r] = "failed"]
    /\ drafts' = [drafts EXCEPT ![r] = <<>>]
    /\ absent' = [absent EXCEPT ![r] = FALSE]
    /\ UNCHANGED <<corpus, tables, records, at, answers, attempts>>

(* An artefact that is not in the evidence store, or that does not parse.  *)
ArtefactFails(r) == AtArtefact(r) /\ Current(r).broken /\ RollBack(r)

Crash(r) == pc[r] \in {"ingesting", "committed"} /\ RollBack(r)

(* Transactions that wait for each other: the database ends one of them.   *)
WaitsFor(r, q) ==
    /\ q # r
    /\ \/ AtArtefact(r) /\ Current(r).id \in mine[q].nodes
       \/ absent[r] /\ \E c \in mine[q].chunks : c.text = drafts[r][1]

DeadlockDetected(r) ==
    /\ \E ring \in SUBSET Runs :
          r \in ring /\ \A p \in ring : \E q \in ring : WaitsFor(p, q)
    /\ RollBack(r)

Next ==
    \E r \in Runs :
        \/ Begin(r) \/ WriteArtefact(r) \/ LookUpChunk(r) \/ InsertChunk(r)
        \/ Commit(r) \/ WriteAttributes(r) \/ Finish(r)
        \/ ArtefactFails(r) \/ Crash(r) \/ DeadlockDetected(r)

Spec == Init /\ [][Next]_vars

-----------------------------------------------------------------------------
(* What a run retrieves, in its order, is settled once its ingestion has   *)
(* committed: no later ingestion, crash or repeated call of any run adds,  *)
(* removes, takes over or reorders an answer.                              *)
SearchIsSettled ==
    \A r \in DOMAIN answers : \A q \in Queries : Search(r, q) = answers[r][q]

(* A run that has records has everything derived from them: an embedding   *)
(* of each, and a lineage that leads to its artefact and on to the other   *)
(* attributes of that artefact, whenever an ingestion dies.                *)
RecordsAreIndexed ==
    \A r \in Runs : \A i \in DOMAIN corpus[r] :
        LET a == corpus[r][i] IN
        \A x \in a.attributes \intersect records[r] :
            /\ \E e \in embeddings : e.attribute = x
            /\ {a.id} \union a.attributes \subseteq Lineage(x).nodes
            /\ <<x, a.id>> \in Lineage(x).edges

(* The bases a type inherits from, directly or not: every set of types     *)
(* that has its base, and with a type the base of that, has them.          *)
HasBase(types, set, base) == base \in DOMAIN types => base \in set

Bases(types, base) ==
    {b \in DOMAIN types :
        \A set \in SUBSET DOMAIN types :
            (/\ HasBase(types, set, base)
             /\ \A t \in set : HasBase(types, set, types[t].base))
            => b \in set}

IndexedTexts(kind) == {c.text : c \in {d \in chunks : d.kind = kind}}

SectionIsIndexed(section) ==
    \A w \in 1..section.words : \E t \in IndexedTexts("confluence") :
        /\ t.heading = section.heading /\ t.source = section.source
        /\ w \in t.span[1]..t.span[2]
        /\ t.span[2] - t.span[1] < MaxTokens

PageIsIndexed(doc) ==
    /\ \A i \in DOMAIN doc.headed : SectionIsIndexed(doc.headed[i])
    /\ doc.headed = <<>> => SectionIsIndexed(doc.lead)

(* The attributes of a type, and the elements and choices of its first     *)
(* sequence, or of the type itself when it has none.                       *)
LabelsOf(seq, tags) == {child.label : child \in {c \in Range(seq) : c.tag \in tags}}

FirstSequence(content) ==
    {i \in DOMAIN content :
        content[i].tag = "sequence" /\ \A j \in 1..(i - 1) : content[j].tag # "sequence"}

Taken(content) ==
    LabelsOf(content, {"attribute"}) \union
    (IF FirstSequence(content) = {} THEN LabelsOf(content, {"element", "choice"})
     ELSE UNION {LabelsOf(content[i].inner, {"element", "choice"}) : i \in FirstSequence(content)})

TypesAreIndexed(doc) ==
    \A i \in DOMAIN doc.nodes : \E t \in IndexedTexts("xsd") :
        /\ t.name = doc.nodes[i].name
        /\ Range(t.members) = Taken(doc.nodes[i].content) \union
              UNION {Taken(doc.types[b].content) : b \in Bases(doc.types, doc.nodes[i].base)}

SchemasAreIndexed(schemas) ==
    \A i, j \in DOMAIN schemas : schemas[j].name \in schemas[i].refs =>
        \E t \in IndexedTexts("openapi") :
            /\ t.name = schemas[i].name /\ t.body = schemas[i].body
            /\ \E u \in t.inlined[schemas[j].name] : u.body = schemas[j].body

(* Once a run's ingestion has committed, what the chunkers take of its     *)
(* corpus is in the index, whichever run or artefact a chunk is kept for:  *)
(* every word under a heading, and of a page without headings, in windows  *)
(* of the size an embedding takes; every type with the members taken of it *)
(* and of all it extends; every schema with what it refers to directly.    *)
(* The text before a page's first heading is not, nor the members of an    *)
(* xs:all, of a nested sequence or of a restriction.                       *)
CorpusIsSearchable ==
    \A r \in DOMAIN answers : \A i \in DOMAIN corpus[r] :
        LET a == corpus[r][i] IN
        /\ a.kind = "confluence" => PageIsIndexed(a.doc)
        /\ a.kind = "xsd"        => TypesAreIndexed(a.doc)
        /\ a.kind = "openapi"    => SchemasAreIndexed(a.doc.schemas)

(* api.py on search: "so that a replayed run retrieves the same context in *)
(* the same order".  A chunk stays with the run that ingested it first, so *)
(* this does not hold of two runs over one corpus.                         *)
ReplayFindsItsCorpus ==
    \A r, p \in DOMAIN answers : \A q \in Queries :
        corpus[r] = corpus[p] =>
            Len(Search(r, q)) = Len(Search(p, q))
=============================================================================
