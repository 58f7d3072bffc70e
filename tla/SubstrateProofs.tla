-------------------------- MODULE SubstrateProofs --------------------------
(***************************************************************************)
(* Proofs about the substrate, for any number of runs, any corpora and any *)
(* ways of ranking: what a run retrieves is settled once its ingestion has *)
(* committed, all of its corpus is in the index by then, and what it has   *)
(* records of is indexed.                                                  *)
(*                                                                         *)
(* A row of the chunk table is never taken over, because a transaction     *)
(* writes only texts that nobody has committed and nobody else is writing. *)
(* A run whose ingestion has committed writes none at all, because every   *)
(* text of its corpus is in the table by then: it has looked up each of    *)
(* them, and skipped or inserted it.                                       *)
(*                                                                         *)
(* A run's records are indexed, because they are written after the commit  *)
(* of everything derived from them, and nothing committed is ever taken    *)
(* out: an embedding is only replaced by another of the same attribute.    *)
(*                                                                         *)
(* What of a document its chunks hold is shown of the chunkers: windows    *)
(* leave no word between them (WindowsCover), the direct members are those *)
(* of the first sequence (DirectMembersAre), and the members of a type are *)
(* those of all its bases too (MembersAreInherited).  A row has the kind   *)
(* of its text (KInv), so that a search by kind finds it.                  *)
(***************************************************************************)
EXTENDS Substrate, SelectionProofs
LOCAL INSTANCE SequencesExt

Stages == {"idle", "ingesting", "committed", "done", "failed"}

(* What an ingestion holds: its place, the chunks it is at, its writes.    *)
Shape ==
    /\ corpus \in Corpora
    /\ pc \in [Runs -> Stages]
    /\ at \in [Runs -> Nat]
    /\ absent \in [Runs -> BOOLEAN]
    /\ DOMAIN drafts = Runs
    /\ DOMAIN mine = Runs
    /\ \A r \in Runs : "chunks" \in DOMAIN mine[r]
    /\ DOMAIN answers \subseteq Runs

Reading(r) ==
    /\ at[r] <= Len(corpus[r])
    /\ drafts[r] # <<>> =>
          /\ pc[r] = "ingesting"
          /\ at[r] \in DOMAIN corpus[r]
          /\ drafts[r] \in Seq(TextsOf(corpus[r][at[r]]))
    /\ absent[r] => drafts[r] # <<>>

(* Every text of the artefacts it has come to is in the table or in its    *)
(* own writes, or is still to be looked up.                                *)
ReadSoFar(r) ==
    pc[r] = "ingesting" =>
        \A i \in 1..at[r] : \A t \in TextsOf(corpus[r][i]) :
            Present(r, t) \/ (i = at[r] /\ \E j \in DOMAIN drafts[r] : drafts[r][j] = t)

(* Its writes are its own, and are of texts that nobody else has.          *)
Apart(r) ==
    \A m \in mine[r].chunks :
        /\ m.run = r
        /\ \A c \in chunks : c.text # m.text
        /\ \A q \in Runs \ {r} : \A n \in mine[q].chunks : n.text # m.text

(* Of a run whose ingestion has committed.                                 *)
Whole(r) ==
    r \in DOMAIN answers =>
        /\ mine[r].chunks = {}
        /\ \A i \in DOMAIN corpus[r] : \A t \in TextsOf(corpus[r][i]) :
              \E c \in chunks : c.text = t

SInv ==
    /\ Shape
    /\ \A r \in Runs : Reading(r) /\ ReadSoFar(r) /\ Apart(r) /\ Whole(r)
    /\ SearchIsSettled

-----------------------------------------------------------------------------
(* The rest of a sequence: its elements are those of the sequence but for  *)
(* the first.                                                              *)
LEMMA TailElements ==
    ASSUME NEW S, NEW s \in Seq(S), s # <<>>
    PROVE  /\ Tail(s) \in Seq(S)
           /\ s[1] \in S
           /\ \A j \in DOMAIN s : s[j] = s[1] \/ \E k \in DOMAIN Tail(s) : Tail(s)[k] = s[j]
<1>1. Len(s) \in Nat /\ Len(s) > 0 /\ DOMAIN s = 1..Len(s)
  OBVIOUS
<1>2. Tail(s) \in Seq(S) /\ Len(Tail(s)) = Len(s) - 1
  OBVIOUS
<1>3. \A k \in 1..(Len(s) - 1) : Tail(s)[k] = s[k + 1]
  OBVIOUS
<1>4. ASSUME NEW j \in DOMAIN s, s[j] # s[1]
      PROVE  \E k \in DOMAIN Tail(s) : Tail(s)[k] = s[j]
  <2>1. j - 1 \in 1..(Len(s) - 1)
    BY <1>1, <1>4
  <2>2. Tail(s)[j - 1] = s[j]
    BY <1>3, <2>1, <1>1
  <2> QED
    BY <2>1, <2>2, <1>2
<1> QED
  BY <1>1, <1>2, <1>4

(* The corpus of a run is a sequence of artefacts, and the chunks of each  *)
(* of them are a sequence of texts.                                        *)
LEMMA CorpusSequences ==
    ASSUME Shape, NEW r \in Runs
    PROVE  /\ Len(corpus[r]) \in Nat /\ DOMAIN corpus[r] = 1..Len(corpus[r])
           /\ \A i \in DOMAIN corpus[r] :
                 Drafts(corpus[r][i]) \in Seq(TextsOf(corpus[r][i]))
<1>1. corpus[r] \in Seq({corpus[r][i] : i \in DOMAIN corpus[r]})
  BY SubstrateAssumption DEF Shape
<1>2. \A i \in DOMAIN corpus[r] : Drafts(corpus[r][i]) \in Seq(TextsOf(corpus[r][i]))
  BY SubstrateAssumption DEF Shape
<1> QED
  BY <1>1, <1>2

THEOREM InitSInv == Init => SInv
<1> SUFFICES ASSUME Init PROVE SInv
  OBVIOUS
<1> USE DEF Init, Nothing
<1>1. Shape
  <2>1. DOMAIN answers = {}
    OBVIOUS
  <2>2. \A r \in Runs : "chunks" \in DOMAIN mine[r]
    OBVIOUS
  <2>3. DOMAIN mine = Runs /\ DOMAIN drafts = Runs
    OBVIOUS
  <2>4. pc \in [Runs -> Stages] /\ at \in [Runs -> Nat]
    BY DEF Stages
  <2>7. absent \in [Runs -> BOOLEAN]
    BY Zenon
  <2>6. corpus \in Corpora
    OBVIOUS
  <2> HIDE DEF Init, Nothing
  <2> QED
    BY <2>1, <2>2, <2>3, <2>4, <2>6, <2>7 DEF Shape
<1>2. ASSUME NEW r \in Runs PROVE Reading(r) /\ ReadSoFar(r) /\ Apart(r) /\ Whole(r)
  BY SubstrateAssumption DEF Reading, ReadSoFar, Apart, Whole
<1>3. SearchIsSettled
  BY DEF SearchIsSettled
<1> QED
  BY <1>1, <1>2, <1>3 DEF SInv

-----------------------------------------------------------------------------
(* A step that leaves the chunk table and the answers alone settles        *)
(* nothing anew.                                                           *)
LEMMA SameTable ==
    ASSUME SearchIsSettled, UNCHANGED <<chunks, answers>>
    PROVE  SearchIsSettled'
BY DEF SearchIsSettled, Search, OwnRows

(* What is at a run's place when nothing it depends on has changed.        *)
LEMMA SameRun ==
    ASSUME NEW p \in Runs, Reading(p), ReadSoFar(p),
           UNCHANGED <<corpus, chunks>>,
           pc'[p] = pc[p], at'[p] = at[p], drafts'[p] = drafts[p],
           absent'[p] = absent[p], mine'[p].chunks = mine[p].chunks
    PROVE  Reading(p)' /\ ReadSoFar(p)'
BY DEF Reading, ReadSoFar, Present

LEMMA SameWrites ==
    ASSUME SInv, UNCHANGED <<corpus, chunks, answers>>,
           \A p \in Runs : mine'[p].chunks = mine[p].chunks
    PROVE  \A p \in Runs : Apart(p)' /\ Whole(p)'
BY DEF SInv, Apart, Whole

LEMMA BeginKeeps ==
    ASSUME SInv, NEW r \in Runs, Begin(r)
    PROVE  SInv'
<1> USE DEF Begin, tables
<1>1. Shape'
  <2>1. pc' \in [Runs -> Stages] /\ at' \in [Runs -> Nat]
    BY DEF SInv, Shape, Stages
  <2> QED
    BY <2>1 DEF SInv, Shape
<1>2. \A p \in Runs : Apart(p)' /\ Whole(p)'
  BY SameWrites
<1>3. ASSUME NEW p \in Runs PROVE Reading(p)' /\ ReadSoFar(p)'
  <2>1. CASE p = r
    <3>1. at'[r] = 0 /\ drafts'[r] = <<>> /\ ~absent'[r]
      BY <2>1 DEF SInv, Shape, Reading
    <3>2. Len(corpus[r]) \in Nat
      BY SubstrateAssumption DEF SInv, Shape
    <3> QED
      BY <2>1, <3>1, <3>2 DEF Reading, ReadSoFar
  <2>2. CASE p # r
    <3>1. pc'[p] = pc[p] /\ at'[p] = at[p]
      BY <2>2 DEF SInv, Shape
    <3> QED
      BY <3>1, SameRun DEF SInv
  <2> QED
    BY <2>1, <2>2
<1>4. SearchIsSettled'
  BY SameTable DEF SInv
<1> QED
  BY <1>1, <1>2, <1>3, <1>4 DEF SInv

LEMMA WriteArtefactKeeps ==
    ASSUME SInv, NEW r \in Runs, WriteArtefact(r)
    PROVE  SInv'
<1> DEFINE a == Current(r)
<1>1. /\ mine' = [mine EXCEPT ![r] = [@ EXCEPT
            !.nodes = mine[r].nodes \union {a.id} \union a.attributes,
            !.edges = mine[r].edges \union {<<x, a.id>> : x \in a.attributes},
            !.embeddings = mine[r].embeddings
                           \union {[attribute |-> x, run |-> r] : x \in a.attributes}]]
      /\ drafts' = [drafts EXCEPT ![r] = Drafts(a)]
      /\ at' = [at EXCEPT ![r] = @ + 1]
      /\ UNCHANGED <<corpus, tables, records, pc, absent, answers, attempts>>
  BY DEF WriteArtefact
<1>2. at[r] + 1 \in DOMAIN corpus[r] /\ Len(corpus[r]) \in Nat /\ pc[r] = "ingesting"
      /\ drafts[r] = <<>>
  <2>1. at[r] \in Nat /\ at[r] < Len(corpus[r])
    BY DEF WriteArtefact, AtArtefact, SInv, Shape
  <2> QED
    BY <2>1, CorpusSequences DEF WriteArtefact, AtArtefact, SInv
<1>3. Drafts(a) \in Seq(TextsOf(a))
  BY <1>2, CorpusSequences DEF Current, SInv
<1>9. /\ mine'[r].chunks = mine[r].chunks
      /\ "chunks" \in DOMAIN mine'[r]
      /\ \A p \in Runs \ {r} : mine'[p] = mine[p]
      /\ DOMAIN mine' = Runs
  <2>1. DOMAIN mine = Runs /\ "chunks" \in DOMAIN mine[r]
    BY DEF SInv, Shape
  <2>2. mine' = [mine EXCEPT ![r] = mine'[r]]
    BY <1>1, <2>1
  <2>3. ASSUME NEW N, NEW E, NEW M,
               mine' = [mine EXCEPT ![r] = [@ EXCEPT !.nodes = N, !.edges = E,
                                                     !.embeddings = M]]
        PROVE  mine'[r].chunks = mine[r].chunks /\ "chunks" \in DOMAIN mine'[r]
    BY <2>1, <2>3
  <2>4. mine'[r].chunks = mine[r].chunks /\ "chunks" \in DOMAIN mine'[r]
    <3> HIDE DEF a
    <3> QED
      BY <1>1, <2>3
  <2> QED
    BY <2>1, <2>2, <2>4
<1>4. \A p \in Runs : mine'[p].chunks = mine[p].chunks
  BY <1>9
<1>5. Shape'
  <2>1. \A p \in Runs : "chunks" \in DOMAIN mine'[p]
    BY <1>9 DEF SInv, Shape
  <2>2. DOMAIN mine' = Runs /\ DOMAIN drafts' = Runs /\ at' \in [Runs -> Nat]
    BY <1>1, <1>9 DEF SInv, Shape
  <2>3. UNCHANGED <<corpus, pc, absent, answers>>
    BY <1>1
  <2> HIDE DEF a
  <2> QED
    BY <2>1, <2>2, <2>3 DEF SInv, Shape
<1>6. \A p \in Runs : Apart(p)' /\ Whole(p)'
  BY <1>1, <1>4, SameWrites DEF tables
<1>7. ASSUME NEW p \in Runs PROVE Reading(p)' /\ ReadSoFar(p)'
  <2>1. CASE p = r
    <3>1. at'[r] = at[r] + 1 /\ drafts'[r] = Drafts(a) /\ pc'[r] = "ingesting"
          /\ corpus' = corpus /\ chunks' = chunks /\ ~absent'[r] /\ at[r] \in Nat
      BY <1>1, <1>2 DEF SInv, Shape, tables, Reading
    <3>2. Reading(r)'
      BY <1>2, <1>3, <3>1, SubstrateAssumption DEF Reading, Current, SInv, Shape
    <3>3. ASSUME NEW i \in 1..at'[r], NEW t \in TextsOf(corpus[r][i])
          PROVE  \/ Present(r, t)'
                 \/ i = at'[r] /\ \E j \in DOMAIN drafts'[r] : drafts'[r][j] = t
      <4>1. CASE i = at[r] + 1
        BY <3>1, <4>1 DEF TextsOf, Current
      <4>2. CASE i \in 1..at[r]
        <5>1. Present(r, t)
          BY <1>2, <4>2 DEF SInv, ReadSoFar
        <5> QED
          BY <5>1, <3>1, <1>4 DEF Present
      <4> QED
        BY <3>1, <4>1, <4>2
    <3> QED
      BY <2>1, <3>1, <3>2, <3>3 DEF ReadSoFar
  <2>2. CASE p # r
    <3>1. pc'[p] = pc[p] /\ at'[p] = at[p] /\ drafts'[p] = drafts[p] /\ absent'[p] = absent[p]
      BY <1>1, <2>2 DEF SInv, Shape
    <3> QED
      BY <1>1, <1>4, <3>1, SameRun DEF SInv, tables
  <2> QED
    BY <2>1, <2>2
<1>8. SearchIsSettled'
  BY <1>1, SameTable DEF SInv, tables
<1> QED
  BY <1>5, <1>6, <1>7, <1>8 DEF SInv

LEMMA LookUpChunkKeeps ==
    ASSUME SInv, NEW r \in Runs, LookUpChunk(r)
    PROVE  SInv'
<1>1. /\ drafts[r] # <<>> /\ pc[r] = "ingesting"
      /\ UNCHANGED <<corpus, chunks, mine, pc, at, answers>>
  BY DEF LookUpChunk, tables
<1>2. /\ drafts[r] \in Seq(TextsOf(corpus[r][at[r]])) /\ at[r] \in DOMAIN corpus[r]
      /\ DOMAIN drafts = Runs
  BY <1>1 DEF SInv, Reading, Shape
<1>3. Shape'
  BY <1>1 DEF SInv, Shape, LookUpChunk, Skip
<1>4. \A p \in Runs : Apart(p)' /\ Whole(p)'
  BY <1>1, SameWrites
<1>5. ASSUME NEW p \in Runs, p # r PROVE Reading(p)' /\ ReadSoFar(p)'
  <2>1. drafts'[p] = drafts[p] /\ absent'[p] = absent[p]
    BY <1>5 DEF LookUpChunk, Skip, SInv, Shape
  <2> QED
    BY <1>1, <2>1, SameRun DEF SInv
<1>6. Reading(r)' /\ ReadSoFar(r)'
  <2>1. CASE Present(r, drafts[r][1])
    <3>1. drafts'[r] = Tail(drafts[r]) /\ absent'[r] = FALSE
      BY <1>2, <2>1 DEF LookUpChunk, Skip, SInv, Shape
    <3>2. drafts'[r] \in Seq(TextsOf(corpus[r][at[r]]))
      BY <1>1, <1>2, <3>1, TailElements
    <3>3. Reading(r)'
      BY <1>1, <1>2, <3>1, <3>2 DEF SInv, Reading
    <3>4. \A t : Present(r, t)' <=> Present(r, t)
      BY <1>1 DEF Present
    <3>5. \A j \in DOMAIN drafts[r] :
             \/ drafts[r][j] = drafts[r][1]
             \/ \E k \in DOMAIN drafts'[r] : drafts'[r][k] = drafts[r][j]
      BY <1>1, <1>2, <3>1, TailElements
    <3> QED
      BY <1>1, <2>1, <3>3, <3>4, <3>5 DEF SInv, ReadSoFar
  <2>2. CASE ~Present(r, drafts[r][1])
    <3>1. drafts' = drafts
      BY <2>2 DEF LookUpChunk
    <3>2. Reading(r)'
      BY <1>1, <3>1 DEF SInv, Reading
    <3>3. \A t : Present(r, t)' <=> Present(r, t)
      BY <1>1 DEF Present
    <3>4. ReadSoFar(r)'
      BY <1>1, <3>1, <3>3 DEF SInv, ReadSoFar
    <3> QED
      BY <3>2, <3>4
  <2> QED
    BY <2>1, <2>2
<1>7. SearchIsSettled'
  BY <1>1, SameTable DEF SInv
<1> QED
  BY <1>3, <1>4, <1>5, <1>6, <1>7 DEF SInv

LEMMA InsertChunkKeeps ==
    ASSUME SInv, NEW r \in Runs, InsertChunk(r)
    PROVE  SInv'
<1>0. PICK text : text = drafts[r][1]
  OBVIOUS
<1> DEFINE row == Row(r, corpus[r][at[r]], text)
<1>1. /\ absent[r] /\ drafts[r] # <<>> /\ pc[r] = "ingesting"
      /\ UNCHANGED <<corpus, chunks, pc, at, answers>>
  BY DEF InsertChunk, tables, SInv, Reading
<1>2. /\ drafts[r] \in Seq(TextsOf(corpus[r][at[r]])) /\ at[r] \in DOMAIN corpus[r]
      /\ DOMAIN drafts = Runs /\ DOMAIN mine = Runs /\ "chunks" \in DOMAIN mine[r]
  BY <1>1 DEF SInv, Reading, Shape
<1>3. /\ DOMAIN mine' = Runs
      /\ \A p \in Runs \ {r} : mine'[p] = mine[p]
      /\ mine'[r] = [mine[r] EXCEPT !.chunks = Stored(r, row)]
  BY <1>0, <1>2 DEF InsertChunk
<1>4. mine'[r].chunks = Stored(r, row) /\ "chunks" \in DOMAIN mine'[r]
  <2> HIDE DEF row
  <2> QED
    BY <1>2, <1>3
<1>5. row.text = text /\ row.run = r
  BY DEF Row
<1>6. /\ mine[r].chunks \subseteq mine'[r].chunks
      /\ mine'[r].chunks \subseteq mine[r].chunks \union {row}
      /\ Present(r, text) => mine'[r].chunks = mine[r].chunks
      /\ Present(r, text)'
  <2> HIDE DEF row
  <2> QED
    BY <1>4, <1>5, <1>1 DEF Stored, Present
<1> HIDE DEF row
<1>7. Shape'
  BY <1>1, <1>2, <1>3, <1>4 DEF SInv, Shape, InsertChunk, Skip
<1>8. ASSUME NEW p \in Runs PROVE Reading(p)' /\ ReadSoFar(p)'
  <2>1. CASE p # r
    <3>1. drafts'[p] = drafts[p] /\ absent'[p] = absent[p] /\ mine'[p] = mine[p]
      BY <1>3, <2>1 DEF InsertChunk, Skip, SInv, Shape
    <3> QED
      BY <1>1, <3>1, SameRun DEF SInv
  <2>2. CASE p = r
    <3>1. drafts'[r] = Tail(drafts[r]) /\ absent'[r] = FALSE
      BY <1>2 DEF InsertChunk, Skip, SInv, Shape
    <3>2. drafts'[r] \in Seq(TextsOf(corpus[r][at[r]]))
      BY <1>1, <1>2, <3>1, TailElements
    <3>3. Reading(r)'
      BY <1>1, <1>2, <3>1, <3>2 DEF SInv, Reading
    <3>4. \A t : Present(r, t) => Present(r, t)'
      BY <1>1, <1>6 DEF Present
    <3>5. \A j \in DOMAIN drafts[r] :
             \/ drafts[r][j] = drafts[r][1]
             \/ \E k \in DOMAIN drafts'[r] : drafts'[r][k] = drafts[r][j]
      BY <1>1, <1>2, <3>1, TailElements
    <3>6. ReadSoFar(r)'
      <4>1. ReadSoFar(r)
        BY DEF SInv
      <4> HIDE DEF row
      <4> QED
        BY <1>0, <1>1, <1>6, <3>4, <3>5, <4>1 DEF ReadSoFar
    <3> QED
      BY <2>2, <3>3, <3>6
  <2> QED
    BY <2>1, <2>2
<1>9. ASSUME NEW p \in Runs PROVE Apart(p)'
  <2>1. CASE Present(r, text)
    <3>1. \A q \in Runs : mine'[q].chunks = mine[q].chunks
      BY <1>3, <1>6, <2>1
    <3> QED
      BY <1>1, <3>1 DEF SInv, Apart
  <2>2. CASE ~Present(r, text)
    <3>1. \A c \in chunks \union mine[r].chunks : c.text # text
      BY <2>2 DEF Present
    <3>2. \A q \in Runs \ {r} : \A n \in mine[q].chunks : n.text # text
      BY <1>0 DEF InsertChunk, TextHeld
    <3>5. \A q \in Runs : \A n \in mine'[q].chunks :
             n \in mine[q].chunks \/ (q = r /\ n = row)
      BY <1>3, <1>6
    <3>6. \A q \in Runs : Apart(q)
      BY DEF SInv
    <3>3. ASSUME NEW m \in mine'[p].chunks
          PROVE  m.run = p /\ \A c \in chunks' : c.text # m.text
      <4>1. CASE m \in mine[p].chunks
        BY <1>1, <3>6, <4>1 DEF Apart
      <4>2. CASE p = r /\ m = row
        BY <1>1, <1>5, <3>1, <4>2
      <4> QED
        BY <3>3, <3>5, <4>1, <4>2
    <3>4. ASSUME NEW m \in mine'[p].chunks, NEW q \in Runs \ {p}, NEW n \in mine'[q].chunks
          PROVE  n.text # m.text
      <4>1. CASE m \in mine[p].chunks /\ n \in mine[q].chunks
        BY <3>6, <4>1 DEF Apart
      <4>2. CASE p = r /\ m = row
        <5>1. n \in mine[q].chunks /\ q \in Runs \ {r}
          BY <3>4, <3>5, <4>2
        <5> QED
          BY <1>5, <3>2, <4>2, <5>1
      <4>3. CASE q = r /\ n = row
        <5>1. m \in mine[p].chunks /\ p \in Runs \ {r}
          BY <3>4, <3>5, <4>3
        <5> QED
          BY <1>5, <3>2, <4>3, <5>1
      <4> QED
        BY <3>4, <3>5, <4>1, <4>2, <4>3
    <3> QED
      BY <3>3, <3>4 DEF Apart
  <2> QED
    BY <2>1, <2>2
<1>10. ASSUME NEW p \in Runs, p \in DOMAIN answers PROVE mine'[p].chunks = mine[p].chunks
  <2>1. CASE p = r
    <3>1. text \in TextsOf(corpus[r][at[r]])
      BY <1>0, <1>1, <1>2, TailElements
    <3>2. Present(r, text)
      BY <1>2, <1>10, <2>1, <3>1 DEF SInv, Whole, Present
    <3> QED
      BY <1>6, <2>1, <3>2
  <2> QED
    BY <1>3, <2>1
<1>11. ASSUME NEW p \in Runs PROVE Whole(p)'
  BY <1>1, <1>10 DEF SInv, Whole
<1>12. SearchIsSettled'
  BY <1>1, SameTable DEF SInv
<1> QED
  BY <1>7, <1>8, <1>9, <1>11, <1>12 DEF SInv

-----------------------------------------------------------------------------
LEMMA CommitKeeps ==
    ASSUME SInv, NEW r \in Runs, Commit(r)
    PROVE  SInv'
<1>1. /\ pc[r] = "ingesting" /\ drafts[r] = <<>> /\ at[r] = Len(corpus[r])
      /\ chunks' = {c \in chunks : \A m \in mine[r].chunks : m.text # c.text}
                      \union mine[r].chunks
      /\ mine' = [mine EXCEPT ![r] = Nothing]
      /\ pc' = [pc EXCEPT ![r] = "committed"]
      /\ UNCHANGED <<corpus, at, drafts, absent>>
  BY DEF Commit, local
<1>2. /\ DOMAIN answers' = DOMAIN answers \union {r}
      /\ \A p \in DOMAIN answers : answers'[p] = answers[p]
      /\ r \notin DOMAIN answers =>
            answers'[r] = [q \in Queries |-> Answer(OwnRows(r)', q)]
  BY DEF Commit
<1>3. chunks' = chunks \union mine[r].chunks
  BY <1>1 DEF SInv, Apart
<1>4. /\ DOMAIN mine' = Runs /\ mine'[r].chunks = {} /\ "chunks" \in DOMAIN mine'[r]
      /\ \A p \in Runs \ {r} : mine'[p] = mine[p]
  <2>1. "chunks" \in DOMAIN Nothing /\ Nothing.chunks = {}
    BY DEF Nothing
  <2> QED
    BY <1>1, <2>1 DEF SInv, Shape
<1>5. pc'[r] = "committed" /\ \A p \in Runs \ {r} : pc'[p] = pc[p]
  BY <1>1 DEF SInv, Shape
<1>6. Shape'
  <2>1. pc' \in [Runs -> Stages]
    BY <1>1 DEF SInv, Shape, Stages
  <2>2. DOMAIN answers' \subseteq Runs
    BY <1>2 DEF SInv, Shape
  <2> QED
    BY <1>1, <1>4, <2>1, <2>2 DEF SInv, Shape
<1>7. ASSUME NEW p \in Runs PROVE Reading(p)' /\ ReadSoFar(p)'
  <2>1. Reading(p)'
    BY <1>1, <1>5 DEF SInv, Reading
  <2>2. ReadSoFar(p)'
    <3>1. CASE p = r
      BY <1>5, <3>1 DEF ReadSoFar
    <3>2. CASE p # r
      <4>1. \A t : Present(p, t) => Present(p, t)'
        BY <1>3, <1>4, <3>2 DEF Present
      <4> QED
        BY <1>1, <1>5, <3>2, <4>1 DEF SInv, ReadSoFar
    <3> QED
      BY <3>1, <3>2
  <2> QED
    BY <2>1, <2>2
<1>8. ASSUME NEW p \in Runs PROVE Apart(p)'
  <2>1. CASE p = r
    BY <1>4, <2>1 DEF Apart
  <2>2. CASE p # r
    BY <1>3, <1>4, <2>2 DEF SInv, Apart
  <2> QED
    BY <2>1, <2>2
<1>9. ASSUME NEW p \in Runs, p \in DOMAIN answers' PROVE Whole(p)'
  <2>1. CASE p # r
    <3>1. p \in DOMAIN answers /\ Whole(p) /\ mine'[p] = mine[p]
      BY <1>2, <1>4, <1>9, <2>1 DEF SInv
    <3>2. \A c \in chunks : c \in chunks'
      BY <1>3
    <3> QED
      BY <1>1, <3>1, <3>2 DEF Whole
  <2>2. CASE p = r
    <3>1. DOMAIN corpus[r] = 1..at[r]
      BY <1>1, CorpusSequences DEF SInv
    <3>2. DOMAIN drafts[r] = {}
      BY <1>1
    <3>3. ASSUME NEW i \in DOMAIN corpus[r], NEW t \in TextsOf(corpus[r][i])
          PROVE  \E c \in chunks' : c.text = t
      <4>1. Present(r, t)
        BY <1>1, <3>1, <3>2 DEF SInv, ReadSoFar
      <4> QED
        BY <1>3, <4>1 DEF Present
    <3> QED
      BY <1>1, <1>4, <2>2, <3>3 DEF Whole
  <2> QED
    BY <2>1, <2>2
<1>10. SearchIsSettled'
  <2>1. ASSUME NEW p \in DOMAIN answers PROVE OwnRows(p)' = OwnRows(p)
    <3>1. p \in Runs
      BY DEF SInv, Shape
    <3>2. CASE p = r
      BY <1>3, <2>1, <3>1, <3>2 DEF SInv, Whole, OwnRows
    <3>3. CASE p # r
      BY <1>3, <3>3 DEF SInv, Apart, OwnRows
    <3> QED
      BY <3>2, <3>3
  <2>2. ASSUME NEW p \in DOMAIN answers', NEW q \in Queries
        PROVE  Answer(OwnRows(p)', q) = answers'[p][q]
    <3>1. CASE p \in DOMAIN answers
      BY <1>2, <2>1, <3>1 DEF SInv, SearchIsSettled, Search
    <3>2. CASE p \notin DOMAIN answers
      BY <1>2, <3>2
    <3> QED
      BY <3>1, <3>2
  <2> QED
    BY <2>2 DEF SearchIsSettled, Search
<1> QED
  BY <1>6, <1>7, <1>8, <1>9, <1>10 DEF SInv, Whole

LEMMA RollBackKeeps ==
    ASSUME SInv, NEW r \in Runs, RollBack(r)
    PROVE  SInv'
<1>1. /\ mine' = [mine EXCEPT ![r] = Nothing]
      /\ pc' = [pc EXCEPT ![r] = "failed"]
      /\ drafts' = [drafts EXCEPT ![r] = <<>>]
      /\ absent' = [absent EXCEPT ![r] = FALSE]
      /\ UNCHANGED <<corpus, chunks, at, answers>>
  BY DEF RollBack, tables
<1>2. /\ DOMAIN mine' = Runs /\ mine'[r].chunks = {} /\ "chunks" \in DOMAIN mine'[r]
      /\ \A p \in Runs \ {r} : mine'[p] = mine[p]
  <2>1. "chunks" \in DOMAIN Nothing /\ Nothing.chunks = {}
    BY DEF Nothing
  <2> QED
    BY <1>1, <2>1 DEF SInv, Shape
<1>3. Shape'
  <2>1. pc' \in [Runs -> Stages] /\ absent' \in [Runs -> BOOLEAN] /\ DOMAIN drafts' = Runs
    BY <1>1 DEF SInv, Shape, Stages
  <2> QED
    BY <1>1, <1>2, <2>1 DEF SInv, Shape
<1>4. ASSUME NEW p \in Runs PROVE Reading(p)' /\ ReadSoFar(p)'
  <2>1. CASE p = r
    <3>1. pc'[r] = "failed" /\ drafts'[r] = <<>> /\ absent'[r] = FALSE
      BY <1>1 DEF SInv, Shape
    <3> QED
      BY <1>1, <2>1, <3>1 DEF SInv, Reading, ReadSoFar
  <2>2. CASE p # r
    <3>1. /\ pc'[p] = pc[p] /\ drafts'[p] = drafts[p]
          /\ absent'[p] = absent[p] /\ mine'[p] = mine[p]
      BY <1>1, <1>2, <2>2 DEF SInv, Shape
    <3> QED
      BY <1>1, <3>1, SameRun DEF SInv
  <2> QED
    BY <2>1, <2>2
<1>5. ASSUME NEW p \in Runs PROVE Apart(p)' /\ Whole(p)'
  <2>1. mine'[p].chunks = {} \/ mine'[p] = mine[p]
    BY <1>2
  <2>2. \A q \in Runs : mine'[q].chunks \subseteq mine[q].chunks
    BY <1>2
  <2>3. Apart(p)'
    BY <1>1, <2>1, <2>2 DEF SInv, Apart
  <2>4. Whole(p)'
    BY <1>1, <2>1 DEF SInv, Whole
  <2> QED
    BY <2>3, <2>4
<1>6. SearchIsSettled'
  BY <1>1, SameTable DEF SInv
<1> QED
  BY <1>3, <1>4, <1>5, <1>6 DEF SInv

(* The records, and the end of an ingestion, change no table.              *)
LEMMA RecordsKeep ==
    ASSUME SInv, NEW r \in Runs, WriteAttributes(r) \/ Finish(r)
    PROVE  SInv'
<1>1. UNCHANGED <<corpus, chunks, mine, at, drafts, absent, answers>>
  BY DEF WriteAttributes, Finish, tables, local
<1>2. \/ pc' = pc
      \/ pc[r] = "committed" /\ pc' = [pc EXCEPT ![r] = "done"]
  BY DEF WriteAttributes, Finish
<1>3. Shape'
  BY <1>1, <1>2 DEF SInv, Shape, Stages
<1>4. ASSUME NEW p \in Runs PROVE Reading(p)' /\ ReadSoFar(p)'
  <2>1. (pc'[p] = "ingesting") <=> (pc[p] = "ingesting")
    BY <1>2 DEF SInv, Shape
  <2> QED
    BY <1>1, <2>1 DEF SInv, Reading, ReadSoFar, Present
<1>5. \A p \in Runs : Apart(p)' /\ Whole(p)'
  BY <1>1, SameWrites
<1>6. SearchIsSettled'
  BY <1>1, SameTable DEF SInv
<1> QED
  BY <1>3, <1>4, <1>5, <1>6 DEF SInv

-----------------------------------------------------------------------------
THEOREM NextSInv == SInv /\ [Next]_vars => SInv'
<1> SUFFICES ASSUME SInv, [Next]_vars PROVE SInv'
  OBVIOUS
<1>1. CASE UNCHANGED vars
  <2>1. UNCHANGED <<corpus, chunks, mine, pc, at, drafts, absent, answers>>
    BY <1>1 DEF vars, tables, local
  <2>2. SearchIsSettled'
    BY <2>1, SameTable DEF SInv
  <2>3. Shape'
    BY <2>1 DEF SInv, Shape
  <2>4. \A p \in Runs : Apart(p)' /\ Whole(p)'
    BY <2>1, SameWrites
  <2>5. \A p \in Runs : Reading(p)' /\ ReadSoFar(p)'
    BY <2>1, SameRun DEF SInv
  <2> QED
    BY <2>2, <2>3, <2>4, <2>5 DEF SInv
<1>2. ASSUME NEW r \in Runs, Begin(r) PROVE SInv'
  BY <1>2, BeginKeeps
<1>3. ASSUME NEW r \in Runs, WriteArtefact(r) PROVE SInv'
  BY <1>3, WriteArtefactKeeps
<1>4. ASSUME NEW r \in Runs, LookUpChunk(r) PROVE SInv'
  BY <1>4, LookUpChunkKeeps
<1>5. ASSUME NEW r \in Runs, InsertChunk(r) PROVE SInv'
  BY <1>5, InsertChunkKeeps
<1>6. ASSUME NEW r \in Runs, Commit(r) PROVE SInv'
  BY <1>6, CommitKeeps
<1>7. ASSUME NEW r \in Runs, WriteAttributes(r) \/ Finish(r) PROVE SInv'
  BY <1>7, RecordsKeep
<1>8. ASSUME NEW r \in Runs, ArtefactFails(r) \/ Crash(r) \/ DeadlockDetected(r)
      PROVE  SInv'
  BY <1>8, RollBackKeeps DEF ArtefactFails, Crash, DeadlockDetected
<1> QED
  BY <1>1, <1>2, <1>3, <1>4, <1>5, <1>6, <1>7, <1>8 DEF Next

(* What a run retrieves is settled once its ingestion has committed,       *)
(* whatever ingestions of other runs, crashes, detected deadlocks and      *)
(* repeated calls follow (substrate/ingest.py, search.py).                 *)
THEOREM SubstrateSettled == Spec => []SearchIsSettled
<1>1. SInv => SearchIsSettled
  BY DEF SInv
<1> QED
  BY <1>1, InitSInv, NextSInv, PTL DEF Spec
-----------------------------------------------------------------------------
(* Lineage, one hop after the other.                                       *)
IsWalk(f, seed) ==
    f = [hops \in 0..MaxDepth |->
            IF hops = 0 THEN {seed} \intersect nodes ELSE Onward(f[hops - 1])]

LEMMA WalkDefined ==
    ASSUME NEW seed
    PROVE  \E f : IsWalk(f, seed)
<1> DEFINE V == SUBSET nodes
           base == {seed} \intersect nodes
           step == [hops \in 1..MaxDepth |-> [ids \in V |-> Onward(ids)]]
           At(f, hops) == IF hops = 0 THEN base ELSE Onward(f[hops - 1])
<1>1. MaxDepth \in Nat /\ base \in V
  BY DEF MaxDepth
<1>2. step \in [1..MaxDepth -> [V -> V]]
  <2>1. \A ids \in V : Onward(ids) \in V
    BY DEF Onward
  <2> HIDE DEF V
  <2> QED
    BY <2>1
<1>3. PICK f : Recurses(f, MaxDepth, V, base, step)
  <2> HIDE DEF step, V, base
  <2> QED
    BY <1>1, <1>2, RecursionDefined
<1>4. ASSUME NEW hops \in 0..MaxDepth PROVE f[hops] = At(f, hops)
  <2>1. CASE hops = 0
    BY <1>3, <2>1 DEF Recurses
  <2>2. CASE hops \in 1..MaxDepth
    <3>1. hops - 1 \in 0..MaxDepth /\ hops # 0
      BY <1>1, <2>2
    <3>2. f[hops - 1] \in V
      <4> HIDE DEF V, base, step
      <4> QED
        BY <1>3, <3>1 DEF Recurses
    <3>3. f[hops] = step[hops][f[hops - 1]]
      <4> HIDE DEF V, base, step
      <4> QED
        BY <1>3, <2>2 DEF Recurses
    <3> HIDE DEF V, base
    <3> QED
      BY <2>2, <3>1, <3>2, <3>3
  <2> QED
    BY <1>1, <2>1, <2>2
<1>5. f = [hops \in 0..MaxDepth |-> At(f, hops)]
  <2> HIDE DEF At, V
  <2> QED
    BY <1>3, <1>4 DEF Recurses
<1> QED
  BY <1>5 DEF IsWalk

LEMMA NearIs ==
    ASSUME NEW seed
    PROVE  \E f : /\ Near(seed) = f[6]
                  /\ f[0] = {seed} \intersect nodes
                  /\ \A hops \in 1..6 : f[hops] = Onward(f[hops - 1])
<1> DEFINE within[hops \in 0..MaxDepth] ==
               IF hops = 0 THEN {seed} \intersect nodes ELSE Onward(within[hops - 1])
           At(f, hops) == IF hops = 0 THEN {seed} \intersect nodes ELSE Onward(f[hops - 1])
<1>1. IsWalk(within, seed)
  <2>1. \E f : IsWalk(f, seed)
    <3> HIDE DEF within
    <3> QED
      BY WalkDefined
  <2> QED
    BY <2>1 DEF IsWalk
<1>2. Near(seed) = within[6]
  BY DEF Near, MaxDepth
<1> HIDE DEF within
<1>3. within = [hops \in 0..6 |-> At(within, hops)]
  BY <1>1 DEF IsWalk, MaxDepth
<1>4. /\ At(within, 0) = {seed} \intersect nodes
      /\ \A hops \in 1..6 : At(within, hops) = Onward(within[hops - 1])
  OBVIOUS
<1> HIDE DEF At
<1>5. 0 \in 0..6 /\ 1..6 \subseteq 0..6
  OBVIOUS
<1>6. within[0] = At(within, 0) /\ \A hops \in 1..6 : within[hops] = At(within, hops)
  BY <1>3, <1>5, Zenon
<1> QED
  BY <1>2, <1>4, <1>6

(* An artefact's attributes are two hops from each other, over its node.   *)
LEMMA NearHolds ==
    ASSUME NEW a, NEW x \in a.attributes,
           {a.id} \union a.attributes \subseteq nodes,
           \A y \in a.attributes : <<y, a.id>> \in edges
    PROVE  {a.id} \union a.attributes \subseteq Near(x)
<1>1. PICK f : /\ Near(x) = f[6]
               /\ f[0] = {x} \intersect nodes
               /\ \A hops \in 1..6 : f[hops] = Onward(f[hops - 1])
  BY NearIs
<1>2. /\ f[1] = Onward(f[0]) /\ f[2] = Onward(f[1]) /\ f[3] = Onward(f[2])
      /\ f[4] = Onward(f[3]) /\ f[5] = Onward(f[4]) /\ f[6] = Onward(f[5])
  BY <1>1
<1>3. \A ids : ids \subseteq Onward(ids)
  BY DEF Onward
<1>4. x \in f[0]
  BY <1>1
<1>5. a.id \in f[1]
  BY <1>2, <1>4 DEF Onward
<1>6. a.attributes \subseteq f[2]
  BY <1>2, <1>5 DEF Onward
<1>7. f[1] \subseteq f[2]
  BY <1>2, <1>3
<1>8. f[2] \subseteq f[6]
  BY <1>2, <1>3
<1> QED
  BY <1>1, <1>5, <1>6, <1>7, <1>8

-----------------------------------------------------------------------------
(* What is derived from an artefact's attributes.                          *)
Indexed(a, ns, es, ems) ==
    /\ {a.id} \union a.attributes \subseteq ns
    /\ \A x \in a.attributes : <<x, a.id>> \in es /\ \E e \in ems : e.attribute = x

IndexedSoFar(r) ==
    pc[r] = "ingesting" =>
        \A i \in 1..at[r] :
            Indexed(corpus[r][i], nodes \union mine[r].nodes, edges \union mine[r].edges,
                    embeddings \union mine[r].embeddings)

AllIndexed(r) ==
    r \in DOMAIN answers =>
        \A i \in DOMAIN corpus[r] : Indexed(corpus[r][i], nodes, edges, embeddings)

(* Records are of a run whose ingestion has committed.                     *)
RecordsAfter(r) == pc[r] = "committed" \/ records[r] # {} => r \in DOMAIN answers

XInv ==
    /\ \A r \in Runs : DOMAIN mine[r] = {"chunks", "embeddings", "nodes", "edges"}
    /\ DOMAIN records = Runs
    /\ \A r \in Runs : IndexedSoFar(r) /\ AllIndexed(r) /\ RecordsAfter(r)

LEMMA InitXInv == Init => XInv
<1> SUFFICES ASSUME Init PROVE XInv
  OBVIOUS
<1>1. \A r \in Runs : DOMAIN mine[r] = {"chunks", "embeddings", "nodes", "edges"}
  BY DEF Init, Nothing
<1>2. DOMAIN records = Runs /\ DOMAIN answers = {}
      /\ \A r \in Runs : pc[r] = "idle" /\ records[r] = {}
  BY DEF Init
<1> QED
  BY <1>1, <1>2 DEF XInv, IndexedSoFar, AllIndexed, RecordsAfter

(* What is in a larger index stays in it.                                  *)
LEMMA IndexedMore ==
    ASSUME NEW a, NEW ns, NEW es, NEW ems, NEW ns2, NEW es2, NEW ems2,
           Indexed(a, ns, es, ems), ns \subseteq ns2, es \subseteq es2,
           \A e \in ems : \E f \in ems2 : f.attribute = e.attribute
    PROVE  Indexed(a, ns2, es2, ems2)
BY DEF Indexed

LEMMA SameIndex ==
    ASSUME NEW p \in Runs, IndexedSoFar(p), AllIndexed(p),
           UNCHANGED <<corpus, nodes, edges, embeddings, answers>>,
           pc'[p] = "ingesting" => pc[p] = "ingesting" /\ at'[p] = at[p],
           pc'[p] = "ingesting" => /\ mine'[p].nodes = mine[p].nodes
                                   /\ mine'[p].edges = mine[p].edges
                                   /\ mine'[p].embeddings = mine[p].embeddings
    PROVE  IndexedSoFar(p)' /\ AllIndexed(p)'
BY DEF IndexedSoFar, AllIndexed

LEMMA WriteArtefactIndexes ==
    ASSUME SInv, XInv, NEW r \in Runs, WriteArtefact(r)
    PROVE  XInv'
<1> DEFINE a == Current(r)
           N == mine[r].nodes \union {a.id} \union a.attributes
           E == mine[r].edges \union {<<x, a.id>> : x \in a.attributes}
           M == mine[r].embeddings \union {[attribute |-> x, run |-> r] : x \in a.attributes}
<1>1. /\ pc[r] = "ingesting" /\ at[r] \in Nat
      /\ at' = [at EXCEPT ![r] = @ + 1]
      /\ UNCHANGED <<corpus, nodes, edges, embeddings, records, pc, answers>>
      /\ DOMAIN mine = Runs /\ DOMAIN at = Runs
  BY DEF WriteArtefact, AtArtefact, SInv, Shape, tables
<1>2. mine' = [mine EXCEPT ![r] = [@ EXCEPT !.nodes = N, !.edges = E, !.embeddings = M]]
  BY DEF WriteArtefact
<1>3. /\ mine'[r] = [mine[r] EXCEPT !.nodes = N, !.edges = E, !.embeddings = M]
      /\ \A p \in Runs \ {r} : mine'[p] = mine[p]
  <2> HIDE DEF N, E, M
  <2> QED
    BY <1>1, <1>2
<1>4. /\ mine'[r].nodes = N /\ mine'[r].edges = E /\ mine'[r].embeddings = M
      /\ DOMAIN mine'[r] = {"chunks", "embeddings", "nodes", "edges"}
  <2> HIDE DEF N, E, M
  <2> QED
    BY <1>3 DEF XInv
<1>5. Indexed(a, nodes \union N, edges \union E, embeddings \union M)
  <2>1. \A x \in a.attributes : \E e \in M : e.attribute = x
    <3> SUFFICES ASSUME NEW x \in a.attributes PROVE \E e \in M : e.attribute = x
      OBVIOUS
    <3>1. [attribute |-> x, run |-> r] \in M
      <4> HIDE DEF a
      <4> QED
        OBVIOUS
    <3>2. [attribute |-> x, run |-> r].attribute = x
      OBVIOUS
    <3> HIDE DEF M, a
    <3> QED
      BY <3>1, <3>2
  <2>2. \A x \in a.attributes : <<x, a.id>> \in E
    OBVIOUS
  <2>3. {a.id} \union a.attributes \subseteq N
    OBVIOUS
  <2> HIDE DEF N, E, M, a
  <2> QED
    BY <2>1, <2>2, <2>3 DEF Indexed
<1>6. IndexedSoFar(r)'
  <2> SUFFICES ASSUME NEW i \in 1..at'[r]
               PROVE  Indexed(corpus[r][i], nodes \union N, edges \union E, embeddings \union M)
    <3> HIDE DEF N, E, M
    <3> QED
      BY <1>1, <1>4 DEF IndexedSoFar
  <2>1. at'[r] = at[r] + 1
    BY <1>1
  <2>2. CASE i = at[r] + 1
    <3>1. corpus[r][i] = a
      BY <2>2 DEF Current
    <3> QED
      BY <1>5, <3>1
  <2>3. CASE i \in 1..at[r]
    <3>1. Indexed(corpus[r][i], nodes \union mine[r].nodes, edges \union mine[r].edges,
                  embeddings \union mine[r].embeddings)
      BY <1>1, <2>3 DEF XInv, IndexedSoFar
    <3>2. mine[r].nodes \subseteq N /\ mine[r].edges \subseteq E /\ mine[r].embeddings \subseteq M
      OBVIOUS
    <3> HIDE DEF N, E, M
    <3>3. /\ nodes \union mine[r].nodes \subseteq nodes \union N
          /\ edges \union mine[r].edges \subseteq edges \union E
          /\ \A e \in embeddings \union mine[r].embeddings :
                \E f \in embeddings \union M : f.attribute = e.attribute
      BY <3>2
    <3> QED
      BY <3>1, <3>3, IndexedMore
  <2> QED
    BY <1>1, <2>1, <2>2, <2>3
<1>7. ASSUME NEW p \in Runs, p # r PROVE IndexedSoFar(p)'
  <2>1. at'[p] = at[p] /\ mine'[p] = mine[p]
    BY <1>1, <1>3, <1>7
  <2> QED
    BY <1>1, <2>1 DEF XInv, IndexedSoFar
<1>8. \A p \in Runs : AllIndexed(p)' /\ RecordsAfter(p)'
  BY <1>1 DEF XInv, AllIndexed, RecordsAfter
<1> QED
  BY <1>1, <1>3, <1>4, <1>6, <1>7, <1>8 DEF XInv

LEMMA InsertChunkIndexes ==
    ASSUME SInv, XInv, NEW r \in Runs, InsertChunk(r)
    PROVE  XInv'
<1> DEFINE C == Stored(r, Row(r, corpus[r][at[r]], drafts[r][1]))
<1>1. /\ UNCHANGED <<corpus, nodes, edges, embeddings, records, pc, at, answers>>
      /\ DOMAIN mine = Runs
  BY DEF InsertChunk, SInv, Shape, tables
<1>2. mine' = [mine EXCEPT ![r] = [@ EXCEPT !.chunks = C]]
  BY DEF InsertChunk
<1> HIDE DEF C
<1>3. /\ mine'[r] = [mine[r] EXCEPT !.chunks = C]
      /\ \A p \in Runs \ {r} : mine'[p] = mine[p]
  BY <1>1, <1>2
<1>4. \A p \in Runs : /\ DOMAIN mine'[p] = {"chunks", "embeddings", "nodes", "edges"}
                      /\ mine'[p].nodes = mine[p].nodes /\ mine'[p].edges = mine[p].edges
                      /\ mine'[p].embeddings = mine[p].embeddings
  BY <1>3 DEF XInv
<1>5. \A p \in Runs : IndexedSoFar(p)' /\ AllIndexed(p)'
  BY <1>1, <1>4, SameIndex DEF XInv
<1>6. \A p \in Runs : RecordsAfter(p)'
  BY <1>1 DEF XInv, RecordsAfter
<1> QED
  BY <1>1, <1>4, <1>5, <1>6 DEF XInv

(* The tables after a commit hold what the tables and the transaction      *)
(* held: an embedding is replaced by one of the same attribute only.       *)
LEMMA CommitIndexes ==
    ASSUME SInv, XInv, NEW r \in Runs, Commit(r)
    PROVE  XInv'
<1>1. /\ pc[r] = "ingesting" /\ at[r] = Len(corpus[r])
      /\ embeddings' = {e \in embeddings :
                           \A m \in mine[r].embeddings : m.attribute # e.attribute}
                        \union mine[r].embeddings
      /\ nodes' = nodes \union mine[r].nodes
      /\ edges' = edges \union mine[r].edges
      /\ mine' = [mine EXCEPT ![r] = Nothing]
      /\ pc' = [pc EXCEPT ![r] = "committed"]
      /\ DOMAIN answers' = DOMAIN answers \union {r}
      /\ UNCHANGED <<corpus, records, at>>
  BY DEF Commit, local
<1>2. /\ \A e \in embeddings \union mine[r].embeddings :
            \E f \in embeddings' : f.attribute = e.attribute
      /\ nodes \union mine[r].nodes \subseteq nodes'
      /\ edges \union mine[r].edges \subseteq edges'
  BY <1>1
<1>3. /\ DOMAIN mine'[r] = {"chunks", "embeddings", "nodes", "edges"}
      /\ \A p \in Runs \ {r} : mine'[p] = mine[p]
      /\ pc'[r] = "committed" /\ \A p \in Runs \ {r} : pc'[p] = pc[p]
  BY <1>1 DEF SInv, Shape, Nothing
<1>4. ASSUME NEW a, Indexed(a, nodes, edges, embeddings)
      PROVE  Indexed(a, nodes', edges', embeddings')
  <2>1. nodes \subseteq nodes' /\ edges \subseteq edges'
        /\ \A e \in embeddings : \E f \in embeddings' : f.attribute = e.attribute
    BY <1>2
  <2> QED
    BY <1>4, <2>1, IndexedMore
<1>5. ASSUME NEW p \in Runs PROVE IndexedSoFar(p)'
  <2>1. CASE p = r
    BY <1>3, <2>1 DEF IndexedSoFar
  <2>2. CASE p # r
    <3> SUFFICES ASSUME pc[p] = "ingesting", NEW i \in 1..at[p]
                 PROVE  Indexed(corpus[p][i], nodes' \union mine[p].nodes,
                                edges' \union mine[p].edges,
                                embeddings' \union mine[p].embeddings)
      BY <1>1, <1>3, <2>2 DEF IndexedSoFar
    <3>1. Indexed(corpus[p][i], nodes \union mine[p].nodes, edges \union mine[p].edges,
                  embeddings \union mine[p].embeddings)
      BY DEF XInv, IndexedSoFar
    <3>2. /\ nodes \union mine[p].nodes \subseteq nodes' \union mine[p].nodes
          /\ edges \union mine[p].edges \subseteq edges' \union mine[p].edges
          /\ \A e \in embeddings \union mine[p].embeddings :
                \E f \in embeddings' \union mine[p].embeddings : f.attribute = e.attribute
      BY <1>2
    <3> QED
      BY <3>1, <3>2, IndexedMore
  <2> QED
    BY <2>1, <2>2
<1>6. ASSUME NEW p \in Runs, p \in DOMAIN answers', NEW i \in DOMAIN corpus[p]
      PROVE  Indexed(corpus[p][i], nodes', edges', embeddings')
  <2>1. CASE p \in DOMAIN answers
    BY <1>4, <2>1 DEF XInv, AllIndexed
  <2>2. CASE p = r
    <3>1. i \in 1..at[r]
      BY <1>1, <1>6, <2>2, CorpusSequences DEF SInv
    <3>2. Indexed(corpus[r][i], nodes \union mine[r].nodes, edges \union mine[r].edges,
                  embeddings \union mine[r].embeddings)
      BY <1>1, <3>1 DEF XInv, IndexedSoFar
    <3> QED
      BY <1>2, <2>2, <3>2, IndexedMore
  <2> QED
    BY <1>1, <1>6, <2>1, <2>2
<1>7. \A p \in Runs : AllIndexed(p)'
  BY <1>1, <1>6 DEF AllIndexed
<1>8. \A p \in Runs : RecordsAfter(p)'
  BY <1>1, <1>3 DEF XInv, RecordsAfter
<1>9. \A p \in Runs : DOMAIN mine'[p] = {"chunks", "embeddings", "nodes", "edges"}
  BY <1>3 DEF XInv
<1> QED
  BY <1>1, <1>5, <1>7, <1>8, <1>9 DEF XInv

LEMMA RollBackIndexes ==
    ASSUME SInv, XInv, NEW r \in Runs, RollBack(r)
    PROVE  XInv'
<1>1. /\ mine' = [mine EXCEPT ![r] = Nothing]
      /\ pc' = [pc EXCEPT ![r] = "failed"]
      /\ UNCHANGED <<corpus, nodes, edges, embeddings, records, at, answers>>
  BY DEF RollBack, tables
<1>2. /\ DOMAIN mine'[r] = {"chunks", "embeddings", "nodes", "edges"}
      /\ \A p \in Runs \ {r} : mine'[p] = mine[p]
      /\ pc'[r] = "failed" /\ \A p \in Runs \ {r} : pc'[p] = pc[p]
  BY <1>1 DEF SInv, Shape, Nothing
<1>3. ASSUME NEW p \in Runs PROVE IndexedSoFar(p)' /\ AllIndexed(p)' /\ RecordsAfter(p)'
  <2>1. CASE p = r
    BY <1>1, <1>2, <2>1, SameIndex DEF XInv, RecordsAfter
  <2>2. CASE p # r
    BY <1>1, <1>2, <2>2, SameIndex DEF XInv, RecordsAfter
  <2> QED
    BY <2>1, <2>2
<1> QED
  BY <1>1, <1>2, <1>3 DEF XInv

LEMMA OthersIndex ==
    ASSUME SInv, XInv, NEW r \in Runs,
           Begin(r) \/ LookUpChunk(r) \/ WriteAttributes(r) \/ Finish(r)
    PROVE  XInv'
<1>1. UNCHANGED <<corpus, nodes, edges, embeddings, mine, answers>>
  BY DEF Begin, LookUpChunk, WriteAttributes, Finish, tables
<1>2. ASSUME NEW p \in Runs PROVE IndexedSoFar(p)' /\ AllIndexed(p)'
  <2>1. CASE Begin(r) /\ p = r
    <3>1. at'[r] = 0
      BY <2>1 DEF Begin, SInv, Shape
    <3>2. IndexedSoFar(p)'
      BY <2>1, <3>1 DEF IndexedSoFar
    <3>3. AllIndexed(p)'
      BY <1>1 DEF XInv, AllIndexed
    <3> QED
      BY <3>2, <3>3
  <2>2. CASE ~(Begin(r) /\ p = r)
    <3>1. pc'[p] = "ingesting" => pc[p] = "ingesting" /\ at'[p] = at[p]
      BY <2>2 DEF Begin, LookUpChunk, WriteAttributes, Finish, SInv, Shape, local
    <3> QED
      BY <1>1, <3>1, SameIndex DEF XInv
  <2> QED
    BY <2>1, <2>2
<1>3. DOMAIN records' = Runs
  BY DEF Begin, LookUpChunk, WriteAttributes, Finish, XInv
<1>4. ASSUME NEW p \in Runs PROVE RecordsAfter(p)'
  <2>1. pc'[p] = "committed" => pc[p] = "committed"
    BY DEF Begin, LookUpChunk, WriteAttributes, Finish, SInv, Shape
  <2>2. records'[p] = records[p] \/ pc[p] = "committed"
    BY DEF Begin, LookUpChunk, WriteAttributes, Finish, MayWriteRecords, XInv
  <2> QED
    BY <1>1, <2>1, <2>2 DEF XInv, RecordsAfter
<1> QED
  BY <1>1, <1>2, <1>3, <1>4 DEF XInv

LEMMA NextXInv == SInv /\ XInv /\ [Next]_vars => XInv'
<1> SUFFICES ASSUME SInv, XInv, [Next]_vars PROVE XInv'
  OBVIOUS
<1>1. CASE UNCHANGED vars
  BY <1>1 DEF vars, tables, local, XInv, IndexedSoFar, AllIndexed, RecordsAfter
<1>2. ASSUME NEW r \in Runs, WriteArtefact(r) PROVE XInv'
  BY <1>2, WriteArtefactIndexes
<1>3. ASSUME NEW r \in Runs, InsertChunk(r) PROVE XInv'
  BY <1>3, InsertChunkIndexes
<1>4. ASSUME NEW r \in Runs, Commit(r) PROVE XInv'
  BY <1>4, CommitIndexes
<1>5. ASSUME NEW r \in Runs, ArtefactFails(r) \/ Crash(r) \/ DeadlockDetected(r)
      PROVE  XInv'
  BY <1>5, RollBackIndexes DEF ArtefactFails, Crash, DeadlockDetected
<1>6. ASSUME NEW r \in Runs,
             Begin(r) \/ LookUpChunk(r) \/ WriteAttributes(r) \/ Finish(r)
      PROVE  XInv'
  BY <1>6, OthersIndex
<1> QED
  BY <1>1, <1>2, <1>3, <1>4, <1>5, <1>6 DEF Next

(* A run that has records has everything derived from them, whenever an    *)
(* ingestion dies: a record is written after the commit, and what has been *)
(* committed is never taken out of the index (substrate/ingest.py,         *)
(* graph.py).                                                              *)
THEOREM RecordsIndexed == Spec => []RecordsAreIndexed
<1>1. ASSUME SInv, XInv, NEW r \in Runs, NEW i \in DOMAIN corpus[r],
             NEW x \in corpus[r][i].attributes \intersect records[r]
      PROVE  LET a == corpus[r][i] IN
             /\ \E e \in embeddings : e.attribute = x
             /\ {a.id} \union a.attributes \subseteq Lineage(x).nodes
             /\ <<x, a.id>> \in Lineage(x).edges
  <2> DEFINE a == corpus[r][i]
  <2>1. Indexed(a, nodes, edges, embeddings) /\ x \in a.attributes
    BY <1>1 DEF XInv, AllIndexed, RecordsAfter
  <2> HIDE DEF a
  <2>2. \E e \in embeddings : e.attribute = x
    BY <2>1 DEF Indexed
  <2>3. {a.id} \union a.attributes \subseteq Near(x)
    BY <2>1, NearHolds DEF Indexed
  <2>4. Lineage(x).nodes = Near(x)
    BY DEF Lineage
  <2>5. <<x, a.id>> \in Lineage(x).edges
    <3>1. <<x, a.id>> \in edges /\ x \in Near(x) /\ a.id \in Near(x)
      BY <2>1, <2>3 DEF Indexed
    <3> QED
      BY <3>1 DEF Lineage
  <2> QED
    BY <2>2, <2>3, <2>4, <2>5 DEF a
<1>2. SInv /\ XInv => RecordsAreIndexed
  BY <1>1 DEF RecordsAreIndexed
<1> QED
  BY <1>2, InitSInv, NextSInv, InitXInv, NextXInv, PTL DEF Spec

-----------------------------------------------------------------------------
(* Pages, cut into windows.                                                *)
(* What is left after a division.                                          *)
LEMMA Division ==
    ASSUME NEW a \in Nat, NEW b \in Nat, b > 0
    PROVE  /\ a \div b \in Nat
           /\ b * (a \div b) <= a
           /\ a < b * (a \div b) + b
OBVIOUS

(* A step is at most a window, so that no word is between two windows.     *)
LEMMA StepSize == Step \in Nat /\ 1 <= Step /\ Step <= MaxTokens
<1> DEFINE n == MaxTokens * (100 - Overlap)
<1>1. MaxTokens \in Nat /\ MaxTokens >= 1 /\ 100 - Overlap \in 1..100
  BY ChunkingAssumption
<1>2. n \in Nat /\ n <= 100 * MaxTokens
  BY <1>1
<1>3. Step = IF n \div 100 = 0 THEN 1 ELSE n \div 100
  BY DEF Step
<1> HIDE DEF n
<1>4. n \div 100 \in Nat /\ 100 * (n \div 100) <= n
  BY <1>2, Division
<1> QED
  BY <1>1, <1>2, <1>3, <1>4

(* The last window of a body ends with it, or goes beyond.                 *)
LEMMA WindowsReach ==
    ASSUME NEW words \in Nat, words > 0
    PROVE  /\ Windows(words) \in Nat /\ Windows(words) >= 1
           /\ (Windows(words) - 1) * Step + MaxTokens >= words
<1>1. MaxTokens \in Nat /\ Step \in Nat /\ Step >= 1
  BY StepSize, ChunkingAssumption
<1>2. CASE words <= MaxTokens
  BY <1>1, <1>2 DEF Windows
<1>3. CASE words > MaxTokens
  <2> DEFINE a == words - MaxTokens
             c == (a + Step - 1) \div Step
  <2>1. a \in Nat /\ a + Step - 1 \in Nat
    BY <1>1, <1>3
  <2>2. Windows(words) = 1 + c
    BY <1>3, <1>1 DEF Windows, Ceil
  <2> HIDE DEF a
  <2>3. c \in Nat /\ a + Step - 1 < Step * c + Step
    BY <1>1, <2>1, Division
  <2> HIDE DEF c
  <2>4. Step * c \in Nat /\ Step * c = c * Step /\ Step * c >= a
    BY <1>1, <2>1, <2>3
  <2>5. (1 + c) - 1 = c
    BY <2>3
  <2> QED
    BY <1>1, <2>2, <2>3, <2>4, <2>5 DEF a
<1> QED
  BY <1>1, <1>2, <1>3

(* Every word of a body is in a window.                                    *)
LEMMA WindowsCover ==
    ASSUME NEW words \in Nat, NEW w \in 1..words
    PROVE  \E k \in 1..Windows(words) :
              /\ w \in SplitByTokenBudget(words)[k][1]..SplitByTokenBudget(words)[k][2]
              /\ SplitByTokenBudget(words)[k][2] - SplitByTokenBudget(words)[k][1] < MaxTokens
<1> DEFINE n == Windows(words)
           q == (w - 1) \div Step
           k == IF q + 1 <= n THEN q + 1 ELSE n
           start == (k - 1) * Step
<1>1. MaxTokens \in Nat /\ Step \in Nat /\ Step >= 1 /\ Step <= MaxTokens
  BY StepSize, ChunkingAssumption
<1>2. n \in Nat /\ n >= 1 /\ (n - 1) * Step + MaxTokens >= words
  BY WindowsReach
<1>3. q \in Nat /\ Step * q <= w - 1 /\ w - 1 < Step * q + Step
  BY <1>1, Division
<1> HIDE DEF n, q
<1>4. k \in 1..n /\ k - 1 \in Nat /\ start \in Nat
  BY <1>1, <1>2, <1>3
<1>5. SplitByTokenBudget(words)[k] = <<start + 1, IF start + MaxTokens < words THEN start + MaxTokens ELSE words>>
  BY <1>4 DEF SplitByTokenBudget, n
<1>6. start < w /\ w <= start + MaxTokens
  <2>1. CASE q + 1 <= n
    <3>1. start = Step * q
      BY <1>1, <1>3, <2>1
    <3> QED
      BY <1>1, <1>3, <1>4, <3>1
  <2>2. CASE q + 1 > n
    <3>1. k = n
      BY <1>2, <1>3, <2>2
    <3>2. n - 1 <= q /\ n - 1 \in Nat
      BY <1>2, <1>3, <2>2
    <3>3. (n - 1) * Step <= Step * q
      BY <1>1, <1>3, <3>2
    <3> QED
      BY <1>1, <1>2, <1>3, <1>4, <3>1, <3>3
  <2> QED
    BY <1>2, <1>3, <2>1, <2>2
<1> HIDE DEF start, k
<1> QED
  BY <1>1, <1>4, <1>5, <1>6 DEF n

(* A text of every window of every section.                                *)
Pieces(s) ==
    [i \in 1..Windows(s.words) |->
        [kind |-> "confluence", heading |-> s.heading, source |-> s.source,
         span |-> SplitByTokenBudget(s.words)[i]]]

LEMMA PagesAreCut ==
    ASSUME NEW doc, IsPage(doc), NEW sections, sections = SplitOnHeadings(doc)
    PROVE  /\ \A t \in Range(ChunkConfluence(doc)) : t.kind = "confluence"
           /\ \A i \in DOMAIN sections : \A k \in 1..Windows(sections[i].words) :
                 HasElement(ChunkConfluence(doc), Pieces(sections[i])[k])
<1> DEFINE ss == [i \in DOMAIN sections |-> Pieces(sections[i])]
           V == UNION {{Pieces(sections[i])[k] : k \in 1..Windows(sections[i].words)} :
                          i \in DOMAIN sections}
<1>1. ChunkConfluence(doc) = FlattenSeq(ss)
  BY DEF ChunkConfluence, Mapped, Pieces
<1>2. /\ DOMAIN sections = 1..Len(sections) /\ Len(sections) \in Nat
      /\ \A i \in DOMAIN sections : sections[i].words \in Nat
  <2>1. CASE doc.headed = <<>>
    <3>1. sections = <<doc.lead>>
      BY <2>1 DEF SplitOnHeadings
    <3>2. DOMAIN sections = 1..1 /\ Len(sections) = 1 /\ sections[1] = doc.lead
      BY <3>1
    <3> QED
      BY <3>2 DEF IsPage
  <2>2. CASE doc.headed # <<>>
    BY <2>2 DEF IsPage, IsList, SplitOnHeadings
  <2> QED
    BY <2>1, <2>2
<1>3. \A i \in DOMAIN sections : Windows(sections[i].words) \in Nat
  <2>1. Windows(0) = 0
    BY ChunkingAssumption DEF Windows
  <2>2. \A words \in Nat : Windows(words) \in Nat
    BY <2>1, WindowsReach
  <2> QED
    BY <1>2, <2>2
<1>4. ASSUME NEW i \in DOMAIN sections PROVE ss[i] \in Seq(V)
  <2>1. \A k \in 1..Windows(sections[i].words) : Pieces(sections[i])[k] \in V
    BY <1>3
  <2> HIDE DEF V
  <2>2. Pieces(sections[i]) \in [1..Windows(sections[i].words) -> V]
    BY <2>1 DEF Pieces
  <2> QED
    BY <1>3, <2>2
<1>5. ss \in Seq(Seq(V))
  <2>1. ss \in [1..Len(sections) -> Seq(V)]
    BY <1>2, <1>4
  <2> HIDE DEF ss, V
  <2> QED
    BY <1>2, <2>1
<1>6. \A t \in V : t.kind = "confluence"
  BY DEF Pieces
<1> HIDE DEF V
<1>7. FlattenSeq(ss) \in Seq(V)
  BY <1>5, FlattenSeqType
<1>8. ASSUME NEW i \in DOMAIN sections, NEW k \in 1..Windows(sections[i].words)
      PROVE  HasElement(FlattenSeq(ss), Pieces(sections[i])[k])
  <2>1. i \in DOMAIN ss /\ ss[i] = Pieces(sections[i]) /\ k \in DOMAIN ss[i]
    BY DEF Pieces
  <2> HIDE DEF ss
  <2> QED
    BY <1>5, <2>1, FlattenHolds
<1> HIDE DEF ss
<1> QED
  BY <1>1, <1>6, <1>7, <1>8 DEF Range

-----------------------------------------------------------------------------
(* What an XML schema's types inherit.  A base that is no type of the      *)
(* schema has no members to inherit.                                       *)
LEMMA BasesOfNone ==
    ASSUME NEW types, NEW base, base \notin DOMAIN types
    PROVE  Bases(types, base) = {}
<1>1. {} \in SUBSET DOMAIN types /\ HasBase(types, {}, base)
  BY DEF HasBase
<1> QED
  BY <1>1 DEF Bases

(* The bases of a type have the base, and with a type the base of that.    *)
LEMMA BasesClosed ==
    ASSUME NEW types, NEW base
    PROVE  /\ HasBase(types, Bases(types, base), base)
           /\ \A t \in Bases(types, base) : HasBase(types, Bases(types, base), types[t].base)
<1>1. HasBase(types, Bases(types, base), base)
  BY DEF Bases, HasBase
<1>2. ASSUME NEW t \in Bases(types, base), types[t].base \in DOMAIN types
      PROVE  types[t].base \in Bases(types, base)
  <2>1. ASSUME NEW set \in SUBSET DOMAIN types, HasBase(types, set, base),
               \A u \in set : HasBase(types, set, types[u].base)
        PROVE  types[t].base \in set
    <3>1. t \in set
      BY <2>1 DEF Bases
    <3> QED
      BY <1>2, <2>1, <3>1 DEF HasBase
  <2> QED
    BY <1>2, <2>1 DEF Bases
<1> QED
  BY <1>1, <1>2 DEF HasBase

(* They are the base and the bases of the base.                            *)
LEMMA BasesOfSome ==
    ASSUME NEW types, NEW base \in DOMAIN types
    PROVE  Bases(types, base) = {base} \union Bases(types, types[base].base)
<1> DEFINE up == types[base].base
           B == {base} \union Bases(types, up)
<1>1. B \in SUBSET DOMAIN types
  BY DEF Bases
<1>2. HasBase(types, B, base) /\ \A t \in B : HasBase(types, B, types[t].base)
  BY BasesClosed DEF HasBase
<1>3. Bases(types, base) \subseteq B
  <2> HIDE DEF B
  <2> QED
    BY <1>1, <1>2 DEF Bases
<1>4. base \in Bases(types, base)
  BY BasesClosed DEF HasBase
<1>5. HasBase(types, Bases(types, base), up)
  BY <1>4, BasesClosed
<1>6. Bases(types, base) \in SUBSET DOMAIN types
  BY DEF Bases
<1> HIDE DEF up
<1>7. Bases(types, up) \subseteq Bases(types, base)
  <2> DEFINE A == Bases(types, base)
  <2>1. A \in SUBSET DOMAIN types /\ HasBase(types, A, up)
         /\ \A t \in A : HasBase(types, A, types[t].base)
    BY <1>5, <1>6, BasesClosed
  <2> HIDE DEF A
  <2>2. Bases(types, up) \subseteq A
    BY <2>1 DEF Bases
  <2> QED
    BY <2>2 DEF A
<1> QED
  BY <1>3, <1>4, <1>7 DEF up

(* What a type has with the inherited, from what its bases have.           *)
WithInherited(types, f, t) ==
    IF types[t].base \in DOMAIN types
    THEN f[types[t].base] \o DirectMembers(types[t].content)
    ELSE DirectMembers(types[t].content)

CollectsBelow(f, types, depth, n) ==
    f = [t \in {s \in DOMAIN types : depth[s] <= n} |-> WithInherited(types, f, t)]

Deeper(types, depth) ==
    \A t \in DOMAIN types : types[t].base \in DOMAIN types => depth[types[t].base] < depth[t]

(* The members are collected from the types of depth 0 down.               *)
LEMMA CollectingDefined ==
    ASSUME NEW types, NEW n \in Nat, NEW depth \in [DOMAIN types -> 0..n], Deeper(types, depth)
    PROVE  \E f : CollectsBelow(f, types, depth, n)
<1> DEFINE Good == {k \in 0..n : \E f : CollectsBelow(f, types, depth, k)}
           Upto(k) == {t \in DOMAIN types : depth[t] <= k}
<1>1. 0 \in Good
  <2> DEFINE g == [t \in Upto(0) |-> DirectMembers(types[t].content)]
  <2>1. ASSUME NEW t \in Upto(0) PROVE types[t].base \notin DOMAIN types
    BY DEF Deeper
  <2>2. CollectsBelow(g, types, depth, 0)
    BY <2>1 DEF CollectsBelow, WithInherited
  <2> HIDE DEF g
  <2> QED
    BY <2>2
<1>2. ASSUME NEW k \in 1..n, k - 1 \in Good PROVE k \in Good
  <2>1. PICK f : CollectsBelow(f, types, depth, k - 1)
    BY <1>2
  <2> DEFINE g == [t \in Upto(k) |-> WithInherited(types, f, t)]
  <2>2. ASSUME NEW t \in Upto(k - 1) PROVE t \in Upto(k) /\ g[t] = f[t]
    <3>1. t \in Upto(k)
      OBVIOUS
    <3>2. f[t] = WithInherited(types, f, t)
      BY <2>1 DEF CollectsBelow
    <3> HIDE DEF Upto
    <3> QED
      BY <3>1, <3>2
  <2>3. ASSUME NEW t \in Upto(k) PROVE WithInherited(types, f, t) = WithInherited(types, g, t)
    <3>1. CASE types[t].base \in DOMAIN types
      <4>1. types[t].base \in Upto(k - 1)
        BY <3>1 DEF Deeper
      <4>2. g[types[t].base] = f[types[t].base]
        BY <2>2, <4>1
      <4> HIDE DEF g
      <4> QED
        BY <4>2 DEF WithInherited
    <3>2. CASE types[t].base \notin DOMAIN types
      BY <3>2 DEF WithInherited
    <3> QED
      BY <3>1, <3>2
  <2>4. CollectsBelow(g, types, depth, k)
    <3>1. g = [t \in Upto(k) |-> WithInherited(types, f, t)]
      OBVIOUS
    <3> HIDE DEF g
    <3>2. g = [t \in Upto(k) |-> WithInherited(types, g, t)]
      BY <2>3, <3>1
    <3> QED
      BY <3>2 DEF CollectsBelow
  <2> HIDE DEF g
  <2> QED
    BY <2>4
<1>3. 0..n \subseteq Good
  <2> HIDE DEF Good
  <2> QED
    BY <1>1, <1>2, Induction
<1> QED
  BY <1>3

IsCollected(types, f) ==
    f = [t \in DOMAIN types |->
            IF types[t].base \in DOMAIN types
            THEN f[types[t].base] \o DirectMembers(types[t].content)
            ELSE DirectMembers(types[t].content)]

(* _collect_members, a type after its bases.                               *)
LEMMA CollectMembersIs ==
    ASSUME NEW types, NEW n \in Nat, NEW depth \in [DOMAIN types -> 0..n], Deeper(types, depth)
    PROVE  \A t \in DOMAIN types :
              CollectMembers(types)[t] = WithInherited(types, CollectMembers(types), t)
<1> DEFINE members[t \in DOMAIN types] ==
                IF types[t].base \in DOMAIN types
                THEN members[types[t].base] \o DirectMembers(types[t].content)
                ELSE DirectMembers(types[t].content)
<1>1. IsCollected(types, members)
  <2>1. \E f : IsCollected(types, f)
    <3> HIDE DEF members
    <3>1. PICK f : CollectsBelow(f, types, depth, n)
      BY CollectingDefined
    <3>2. DOMAIN types = {t \in DOMAIN types : depth[t] <= n}
      OBVIOUS
    <3> QED
      BY <3>1, <3>2 DEF CollectsBelow, IsCollected, WithInherited
  <2> QED
    BY <2>1 DEF IsCollected
<1>2. CollectMembers(types) = members
  BY DEF CollectMembers
<1> HIDE DEF members
<1>3. members = [t \in DOMAIN types |-> WithInherited(types, members, t)]
  BY <1>1 DEF IsCollected, WithInherited
<1>4. ASSUME NEW t \in DOMAIN types PROVE members[t] = WithInherited(types, members, t)
  BY <1>3, <1>4
<1> QED
  BY <1>2, <1>4

(* What two lists have, the one after the other has.                       *)
LEMMA JoinedRange ==
    ASSUME NEW v, NEW w, IsList(v), IsList(w)
    PROVE  IsList(v \o w) /\ Range(v \o w) = Range(v) \union Range(w)
<1> DEFINE S == Range(v) \union Range(w)
           u == v \o w
<1>1. v \in Seq(S) /\ w \in Seq(S)
  BY DEF IsList
<1> HIDE DEF S
<1>2. /\ u \in Seq(S) /\ Len(u) = Len(v) + Len(w) /\ DOMAIN u = 1..Len(u)
      /\ DOMAIN v = 1..Len(v) /\ DOMAIN w = 1..Len(w) /\ Len(v) \in Nat /\ Len(w) \in Nat
  BY <1>1
<1>3. \A x \in DOMAIN v : x \in DOMAIN u /\ u[x] = v[x]
  BY <1>1, <1>2
<1>4. \A x \in DOMAIN w : Len(v) + x \in DOMAIN u /\ u[Len(v) + x] = w[x]
  BY <1>1, <1>2
<1>5. Range(v) \subseteq Range(u) /\ Range(w) \subseteq Range(u)
  <2> HIDE DEF u
  <2> QED
    BY <1>3, <1>4 DEF Range
<1>6. Range(u) \subseteq S
  BY <1>2 DEF Range
<1>7. Range(u) = S
  BY <1>5, <1>6 DEF S
<1> QED
  BY <1>2, <1>7 DEF IsList, S

(* The first of what satisfies a test, in its place.                       *)
LEMMA FirstSequenceIs ==
    ASSUME NEW content, IsList(content)
    PROVE  LET sequences == Where(content, IsSequence)
           IN  \/ sequences = <<>> /\ FirstSequence(content) = {}
               \/ sequences # <<>> /\ \E i \in FirstSequence(content) :
                     FirstSequence(content) = {i} /\ sequences[1] = content[i]
<1> DEFINE T == {x \in Range(content) : IsSequence(x)}
           G == Only(content, T)
<1>1. Where(content, IsSequence) = G
  BY DEF Where
<1>2. content \in Seq(Range(content)) /\ DOMAIN content = 1..Len(content) /\ Len(content) \in Nat
  BY DEF IsList
<1>3. G \in Seq(Range(content)) /\ \E q : Selects(q, G, content, T)
  BY <1>2, OnlySelects
<1>4. PICK p : Selects(p, G, content, T)
  BY <1>3
<1>5. \A i \in DOMAIN content : content[i] \in T <=> content[i].tag = "sequence"
  BY DEF Range, IsSequence
<1> HIDE DEF G, T
<1>6. CASE G = <<>>
  <2>1. \A i \in DOMAIN content : content[i] \notin T
    BY <1>4, <1>6 DEF Selects
  <2> QED
    BY <1>1, <1>5, <1>6, <2>1 DEF FirstSequence
<1>7. CASE G # <<>>
  <2>1. 1 \in DOMAIN G /\ DOMAIN G \subseteq Nat /\ \A j \in DOMAIN G : 1 <= j
    BY <1>3, <1>7
  <2>2. p[1] \in DOMAIN content /\ G[1] = content[p[1]] /\ content[p[1]] \in T
    BY <1>4, <2>1 DEF Selects
  <2>3. ASSUME NEW k \in DOMAIN content, content[k] \in T PROVE p[1] <= k
    <3>1. PICK j \in DOMAIN G : p[j] = k
      BY <1>4, <2>3 DEF Selects
    <3>2. j = 1 \/ 1 < j
      BY <2>1
    <3>3. 1 < j => p[1] < p[j]
      BY <1>4, <2>1 DEF Selects
    <3> QED
      BY <1>2, <2>2, <3>1, <3>2, <3>3
  <2>4. \A j \in 1..(p[1] - 1) : j \in DOMAIN content /\ content[j].tag # "sequence"
    BY <1>2, <1>5, <2>2, <2>3
  <2>5. p[1] \in FirstSequence(content)
    BY <1>5, <2>2, <2>4 DEF FirstSequence
  <2>6. ASSUME NEW k \in FirstSequence(content) PROVE k = p[1]
    <3>1. k \in DOMAIN content /\ content[k] \in T /\ p[1] <= k
      BY <1>5, <2>3 DEF FirstSequence
    <3>2. ~(p[1] < k)
      BY <1>2, <1>5, <2>2, <3>1 DEF FirstSequence
    <3> QED
      BY <1>2, <2>2, <3>1, <3>2
  <2> QED
    BY <1>1, <1>7, <2>2, <2>5, <2>6
<1> QED
  BY <1>6, <1>7

(* What _collect_direct_members lists are the members a type is to have.   *)
LEMMA DirectMembersAre ==
    ASSUME NEW content, IsContent(content)
    PROVE  IsList(DirectMembers(content)) /\ Range(DirectMembers(content)) = Taken(content)
<1> DEFINE held == Where(Container(content), IsMember)
           flat == Where(content, IsAttribute)
           all == held \o flat
<1>1. IsList(content)
  BY DEF IsContent
<1>2. IsList(Container(content))
  BY <1>1, FirstSequenceIs DEF IsContent, Container, FirstSequence
<1>3. ASSUME NEW s, IsList(s)
      PROVE  /\ IsList(Where(s, IsMember)) /\ IsList(Where(s, IsAttribute))
             /\ Range(Where(s, IsMember)) = {x \in Range(s) : IsMember(x)}
             /\ Range(Where(s, IsAttribute)) = {x \in Range(s) : IsAttribute(x)}
  <2>1. s \in Seq(Range(s))
    BY <1>3 DEF IsList
  <2>2. ASSUME NEW T \in SUBSET Range(s) PROVE IsList(Only(s, T)) /\ Range(Only(s, T)) = T
    <3>1. Only(s, T) \in Seq(Range(s)) /\ Range(Only(s, T)) = T
      <4>1. Only(s, T) \in Seq(Range(s))
        BY <2>1, OnlySelects
      <4>2. Range(Only(s, T)) = Range(s) \intersect T
        BY <2>1, OnlyRange
      <4> QED
        BY <2>2, <4>1, <4>2
    <3> DEFINE G == Only(s, T)
    <3> HIDE DEF G
    <3>2. G \in Seq(Range(s)) => G \in Seq(Range(G))
      BY DEF Range
    <3> QED
      BY <3>1, <3>2 DEF IsList, G
  <2> QED
    BY <2>2 DEF Where
<1>4. /\ IsList(all)
      /\ Range(all) = {x \in Range(Container(content)) : IsMember(x)}
                       \union {x \in Range(content) : IsAttribute(x)}
  <2>1. IsList(held) /\ IsList(flat)
    BY <1>1, <1>2, <1>3
  <2>2. IsList(all) /\ Range(all) = Range(held) \union Range(flat)
    <3> HIDE DEF held, flat
    <3> QED
      BY <2>1, JoinedRange
  <2> QED
    BY <1>1, <1>2, <1>3, <2>2
<1>5. DirectMembers(content) = [i \in DOMAIN all |-> all[i].label]
  BY DEF DirectMembers, Mapped
<1> HIDE DEF all
<1>6. /\ IsList(DirectMembers(content))
      /\ Range(DirectMembers(content)) = {x.label : x \in Range(all)}
  <2>1. DOMAIN all = 1..Len(all) /\ Len(all) \in Nat
    BY <1>4 DEF IsList
  <2> DEFINE D == [i \in DOMAIN all |-> all[i].label]
  <2>2. Range(D) = {x.label : x \in Range(all)}
    BY DEF Range
  <2>3. D \in [1..Len(all) -> Range(D)]
    BY <2>1 DEF Range
  <2> HIDE DEF D
  <2>4. D \in Seq(Range(D))
    BY <2>1, <2>3
  <2> QED
    BY <1>5, <2>2, <2>4 DEF IsList, D
<1>7. {x.label : x \in {x \in Range(content) : IsAttribute(x)}} = LabelsOf(content, {"attribute"})
  BY DEF LabelsOf, IsAttribute
<1>8. \A s : {x.label : x \in {x \in Range(s) : IsMember(x)}} = LabelsOf(s, {"element", "choice"})
  BY DEF LabelsOf, IsMember
<1>9. Taken(content) = LabelsOf(content, {"attribute"})
                       \union LabelsOf(Container(content), {"element", "choice"})
  <2>1. CASE Where(content, IsSequence) = <<>>
    <3>1. FirstSequence(content) = {}
      BY <1>1, <2>1, FirstSequenceIs
    <3> QED
      BY <2>1, <3>1 DEF Container, Taken
  <2>2. CASE Where(content, IsSequence) # <<>>
    <3>1. PICK i \in FirstSequence(content) :
            FirstSequence(content) = {i} /\ Where(content, IsSequence)[1] = content[i]
      BY <1>1, <2>2, FirstSequenceIs
    <3>2. Container(content) = content[i].inner
      BY <2>2, <3>1 DEF Container
    <3> QED
      BY <3>1, <3>2 DEF Taken
  <2> QED
    BY <2>1, <2>2
<1> QED
  BY <1>4, <1>6, <1>7, <1>8, <1>9

Inherited(types, base) == UNION {Taken(types[b].content) : b \in Bases(types, base)}

(* _collect_members has the members of a type and of all it inherits from. *)
LEMMA MembersAreInherited ==
    ASSUME NEW types, IsTypeHierarchy(types), NEW t \in DOMAIN types
    PROVE  /\ IsList(CollectMembers(types)[t])
           /\ Range(CollectMembers(types)[t]) = Inherited(types, t)
<1> DEFINE n == Cardinality(DOMAIN types)
           all == CollectMembers(types)
           Right(s) == IsList(all[s]) /\ Range(all[s]) = Inherited(types, s)
<1>1. n \in Nat
  <2>1. FST!IsFiniteSet(DOMAIN types)
    BY DEF IsTypeHierarchy, IsFiniteSet, FST!IsFiniteSet
  <2>2. FST!Cardinality(DOMAIN types) \in Nat
    BY <2>1, FST!FS_CardinalityType
  <2>3. Cardinality(DOMAIN types) = FST!Cardinality(DOMAIN types)
    BY DEF Cardinality, FST!Cardinality
  <2> QED
    BY <2>2, <2>3
<1>2. PICK depth \in [DOMAIN types -> 0..n] : Deeper(types, depth)
  BY DEF IsTypeHierarchy, Deeper
<1> HIDE DEF n
<1>3. \A s \in DOMAIN types : all[s] = WithInherited(types, all, s)
  BY <1>1, <1>2, CollectMembersIs
<1> HIDE DEF all
<1>4. ASSUME NEW s \in DOMAIN types
      PROVE  /\ IsList(DirectMembers(types[s].content))
             /\ Range(DirectMembers(types[s].content)) = Taken(types[s].content)
  BY DirectMembersAre DEF IsTypeHierarchy
<1> DEFINE Good == {k \in 0..n : \A s \in DOMAIN types : depth[s] <= k => Right(s)}
<1>5. ASSUME NEW s \in DOMAIN types, types[s].base \in DOMAIN types => Right(types[s].base)
      PROVE  Right(s)
  <2>1. Inherited(types, s) = Taken(types[s].content) \union Inherited(types, types[s].base)
    BY BasesOfSome DEF Inherited
  <2>2. CASE types[s].base \in DOMAIN types
    <3>1. all[s] = all[types[s].base] \o DirectMembers(types[s].content)
      BY <1>3, <2>2 DEF WithInherited
    <3> QED
      BY <1>4, <1>5, <2>1, <2>2, <3>1, JoinedRange
  <2>3. CASE types[s].base \notin DOMAIN types
    <3>1. all[s] = DirectMembers(types[s].content)
      BY <1>3, <2>3 DEF WithInherited
    <3>2. Inherited(types, types[s].base) = {}
      BY <2>3, BasesOfNone DEF Inherited
    <3> QED
      BY <1>4, <2>1, <3>1, <3>2
  <2> QED
    BY <2>2, <2>3
<1> HIDE DEF Right
<1>6. 0 \in Good
  <2>1. ASSUME NEW s \in DOMAIN types, depth[s] <= 0 PROVE Right(s)
    BY <1>2, <1>5, <2>1 DEF Deeper
  <2> QED
    BY <1>1, <2>1
<1>7. ASSUME NEW k \in 1..n, k - 1 \in Good PROVE k \in Good
  <2>1. ASSUME NEW s \in DOMAIN types, depth[s] <= k PROVE Right(s)
    <3>1. types[s].base \in DOMAIN types => depth[types[s].base] <= k - 1
      BY <1>2, <2>1 DEF Deeper
    <3> QED
      BY <1>5, <1>7, <3>1
  <2> QED
    BY <2>1
<1>8. 0..n \subseteq Good
  <2> HIDE DEF Good
  <2> QED
    BY <1>1, <1>6, <1>7, Induction
<1>9. depth[t] \in 0..n
  BY <1>2
<1>10. Right(t)
  BY <1>8, <1>9
<1> QED
  BY <1>10 DEF Right, all

-----------------------------------------------------------------------------
(* What the chunks of an artefact are.                                     *)
LEMMA TextKinds ==
    ASSUME NEW a, IsDocument(a), NEW t \in TextsOf(a)
    PROVE  t.kind = a.kind
<1> DEFINE K == {"openapi", "xsd", "wsdl", "avro", "confluence"}
<1>1. PICK i \in DOMAIN Drafts(a) : t = Drafts(a)[i]
  BY DEF TextsOf
<1>2. CASE a.kind = "openapi"
  BY <1>1, <1>2 DEF Drafts, ChunkOpenApi, Mapped
<1>3. CASE a.kind = "xsd"
  BY <1>1, <1>3 DEF Drafts, ChunkXsd, Mapped
<1>4. CASE a.kind = "wsdl"
  BY <1>1, <1>4 DEF Drafts, ChunkWsdl, Mapped
<1>5. CASE a.kind = "avro"
  BY <1>1, <1>5 DEF Drafts, ChunkAvro, Mapped
<1>6. CASE a.kind = "confluence"
  <2>1. Drafts(a) = ChunkConfluence(a.doc)
    BY <1>6 DEF Drafts
  <2>2. t \in Range(ChunkConfluence(a.doc))
    BY <1>1, <2>1 DEF Range
  <2> QED
    BY <1>6, <2>2, PagesAreCut DEF IsDocument
<1>7. CASE a.kind \notin K
  <2>1. Drafts(a) = <<>>
    BY <1>7 DEF Drafts
  <2> QED
    BY <1>1, <2>1
<1> QED
  BY <1>2, <1>3, <1>4, <1>5, <1>6, <1>7

(* chunk_confluence: every word is in a window of its section.             *)
LEMMA PageTexts ==
    ASSUME NEW a, IsDocument(a), a.kind = "confluence",
           NEW i \in DOMAIN SplitOnHeadings(a.doc), NEW w \in 1..SplitOnHeadings(a.doc)[i].words
    PROVE  \E t \in TextsOf(a) :
              /\ t.heading = SplitOnHeadings(a.doc)[i].heading /\ t.source = SplitOnHeadings(a.doc)[i].source
              /\ w \in t.span[1]..t.span[2]
              /\ t.span[2] - t.span[1] < MaxTokens
<1> DEFINE s == SplitOnHeadings(a.doc)[i]
<1>1. IsPage(a.doc) /\ Drafts(a) = ChunkConfluence(a.doc) /\ s.words \in Nat
  BY DEF IsDocument, IsPage, Drafts, SplitOnHeadings
<1>2. PICK k \in 1..Windows(s.words) :
         /\ w \in SplitByTokenBudget(s.words)[k][1]..SplitByTokenBudget(s.words)[k][2]
         /\ SplitByTokenBudget(s.words)[k][2] - SplitByTokenBudget(s.words)[k][1] < MaxTokens
  BY <1>1, WindowsCover
<1>3. HasElement(Drafts(a), Pieces(s)[k])
  BY <1>1, <1>2, PagesAreCut
<1>4. Pieces(s)[k] \in TextsOf(a)
  BY <1>3 DEF HasElement, TextsOf
<1>5. /\ Pieces(s)[k].heading = s.heading /\ Pieces(s)[k].source = s.source
      /\ Pieces(s)[k].span = SplitByTokenBudget(s.words)[k]
  BY <1>2 DEF Pieces
<1> QED
  BY <1>2, <1>4, <1>5

(* chunk_xsd: every type is there, with what it inherits.                  *)
LEMMA TypeTexts ==
    ASSUME NEW a, IsDocument(a), a.kind = "xsd", NEW i \in DOMAIN a.doc.nodes
    PROVE  \E t \in TextsOf(a) :
              /\ t.name = a.doc.nodes[i].name
              /\ Range(t.members) =
                    Taken(a.doc.nodes[i].content) \union Inherited(a.doc.types, a.doc.nodes[i].base)
<1> DEFINE node == a.doc.nodes[i]
           types == a.doc.types
           above == IF node.base \in DOMAIN types THEN CollectMembers(types)[node.base] ELSE <<>>
           own == DirectMembers(node.content)
           text == [kind |-> "xsd", name |-> node.name, members |-> above \o own]
<1>1. Drafts(a) = ChunkXsd(a.doc)
  BY DEF Drafts
<1>2. i \in DOMAIN ChunkXsd(a.doc) /\ ChunkXsd(a.doc)[i] = text
  BY DEF ChunkXsd, Mapped
<1>3. text \in TextsOf(a)
  BY <1>1, <1>2 DEF TextsOf
<1>4. IsTypeHierarchy(types) /\ IsList(own) /\ Range(own) = Taken(node.content)
  BY DirectMembersAre DEF IsDocument, IsXmlSchema
<1>5. IsList(above) /\ Range(above) = Inherited(types, node.base)
  <2>1. CASE node.base \in DOMAIN types
    BY <1>4, <2>1, MembersAreInherited
  <2>2. CASE node.base \notin DOMAIN types
    <3>1. above = <<>>
      BY <2>2
    <3>2. Inherited(types, node.base) = {}
      BY <2>2, BasesOfNone DEF Inherited
    <3>3. Range(<<>>) = {} /\ IsList(<<>>)
      BY DEF Range, IsList
    <3> QED
      BY <3>1, <3>2, <3>3
  <2> QED
    BY <2>1, <2>2
<1> HIDE DEF above
<1>6. Range(above \o own) = Range(above) \union Range(own)
  BY <1>4, <1>5, JoinedRange
<1>7. text.name = node.name /\ text.members = above \o own
  OBVIOUS
<1> HIDE DEF text
<1> QED
  BY <1>3, <1>4, <1>5, <1>6, <1>7

(* chunk_openapi: every schema is there, with what it refers to.           *)
LEMMA SchemaTexts ==
    ASSUME NEW a, a.kind = "openapi",
           NEW i \in DOMAIN a.doc.schemas, NEW j \in DOMAIN a.doc.schemas,
           a.doc.schemas[j].name \in a.doc.schemas[i].refs
    PROVE  \E t \in TextsOf(a) :
              /\ t.name = a.doc.schemas[i].name /\ t.body = a.doc.schemas[i].body
              /\ \E u \in t.inlined[a.doc.schemas[j].name] : u.body = a.doc.schemas[j].body
<1> DEFINE all == a.doc.schemas
           text == [kind |-> "openapi", name |-> all[i].name, body |-> all[i].body,
                    inlined |-> InlineRefsDepth1(all[i], all)]
<1>1. Drafts(a) = ChunkOpenApi(a.doc)
  BY DEF Drafts
<1>2. i \in DOMAIN ChunkOpenApi(a.doc) /\ ChunkOpenApi(a.doc)[i] = text
  BY DEF ChunkOpenApi, Mapped
<1>3. text \in TextsOf(a)
  BY <1>1, <1>2 DEF TextsOf
<1>4. [body |-> all[j].body, refs |-> all[j].refs] \in InlineRefsDepth1(all[i], all)[all[j].name]
  BY DEF InlineRefsDepth1
<1>5. \E u \in text.inlined[all[j].name] : u.body = all[j].body
  BY <1>4
<1> QED
  BY <1>3, <1>5

-----------------------------------------------------------------------------
(* A row is of the kind that its text is of.                               *)
OfTheirKind(rows) == \A c \in rows : c.kind = c.text.kind

KInv == OfTheirKind(chunks) /\ \A r \in Runs : OfTheirKind(mine[r].chunks)

LEMMA InitKInv == Init => KInv
BY DEF Init, KInv, OfTheirKind, Nothing

(* Where rows come from: the writes of a run, or the chunk it is at.       *)
LEMMA InsertChunkKinds ==
    ASSUME SInv, KInv, NEW r \in Runs, InsertChunk(r)
    PROVE  KInv'
<1> DEFINE a == corpus[r][at[r]]
           row == Row(r, a, drafts[r][1])
<1>1. /\ drafts[r] \in Seq(TextsOf(a)) /\ drafts[r] # <<>> /\ at[r] \in DOMAIN corpus[r]
      /\ DOMAIN mine = Runs /\ "chunks" \in DOMAIN mine[r] /\ corpus \in Corpora
      /\ chunks' = chunks
  BY DEF InsertChunk, SInv, Reading, Shape, tables
<1>2. drafts[r][1] \in TextsOf(a) /\ IsDocument(a)
  BY <1>1, TailElements, SubstrateAssumption
<1>3. row.kind = row.text.kind
  <2>1. row.kind = a.kind /\ row.text = drafts[r][1]
    BY DEF Row
  <2> HIDE DEF row, a
  <2> QED
    BY <1>2, <2>1, TextKinds
<1> HIDE DEF row, a
<1>4. /\ \A p \in Runs \ {r} : mine'[p] = mine[p]
      /\ mine'[r] = [mine[r] EXCEPT !.chunks = Stored(r, row)]
  BY <1>1 DEF InsertChunk, row, a
<1>5. mine'[r].chunks = Stored(r, row)
  BY <1>1, <1>4
<1>6. mine'[r].chunks \subseteq mine[r].chunks \union {row}
  BY <1>5 DEF Stored
<1>7. OfTheirKind(mine'[r].chunks)
  BY <1>3, <1>6 DEF KInv, OfTheirKind
<1> QED
  BY <1>1, <1>4, <1>7 DEF KInv

LEMMA WriteArtefactKinds ==
    ASSUME SInv, KInv, NEW r \in Runs, WriteArtefact(r)
    PROVE  KInv'
<1>1. DOMAIN mine = Runs /\ "chunks" \in DOMAIN mine[r] /\ chunks' = chunks
  BY DEF WriteArtefact, SInv, Shape, tables
<1>2. \E N, E, M : mine' = [mine EXCEPT ![r] =
                              [mine[r] EXCEPT !.nodes = N, !.edges = E, !.embeddings = M]]
  BY DEF WriteArtefact
<1>3. \A p \in Runs : mine'[p].chunks = mine[p].chunks
  BY <1>1, <1>2
<1> QED
  BY <1>1, <1>3 DEF KInv

LEMMA NextKInv == SInv /\ KInv /\ [Next]_vars => KInv'
<1> SUFFICES ASSUME SInv, KInv, [Next]_vars PROVE KInv'
  OBVIOUS
<1>1. DOMAIN mine = Runs /\ OfTheirKind(Nothing.chunks)
  BY DEF SInv, Shape, OfTheirKind, Nothing
<1>2. CASE UNCHANGED vars
  BY <1>2 DEF vars, tables, KInv
<1>3. ASSUME NEW r \in Runs, WriteArtefact(r) PROVE KInv'
  BY <1>3, WriteArtefactKinds
<1>4. ASSUME NEW r \in Runs, InsertChunk(r) PROVE KInv'
  BY <1>4, InsertChunkKinds
<1>5. ASSUME NEW r \in Runs, Commit(r) PROVE KInv'
  <2>1. /\ chunks' \subseteq chunks \union mine[r].chunks
        /\ mine' = [mine EXCEPT ![r] = Nothing]
    BY <1>5 DEF Commit
  <2>2. OfTheirKind(chunks')
    BY <2>1 DEF KInv, OfTheirKind
  <2>3. \A p \in Runs : mine'[p] = Nothing \/ mine'[p] = mine[p]
    BY <1>1, <2>1
  <2> QED
    BY <1>1, <2>2, <2>3 DEF KInv
<1>6. ASSUME NEW r \in Runs, ArtefactFails(r) \/ Crash(r) \/ DeadlockDetected(r)
      PROVE  KInv'
  <2>1. chunks' = chunks /\ mine' = [mine EXCEPT ![r] = Nothing]
    BY <1>6 DEF ArtefactFails, Crash, DeadlockDetected, RollBack, tables
  <2>2. \A p \in Runs : mine'[p] = Nothing \/ mine'[p] = mine[p]
    BY <1>1, <2>1
  <2> QED
    BY <1>1, <2>1, <2>2 DEF KInv
<1>7. ASSUME NEW r \in Runs,
             Begin(r) \/ LookUpChunk(r) \/ WriteAttributes(r) \/ Finish(r)
      PROVE  KInv'
  <2>1. UNCHANGED <<chunks, mine>>
    BY <1>7 DEF Begin, LookUpChunk, WriteAttributes, Finish, tables
  <2> QED
    BY <2>1 DEF KInv
<1> QED
  BY <1>2, <1>3, <1>4, <1>5, <1>6, <1>7 DEF Next

(* Once a run's ingestion has committed, what the chunkers take of its     *)
(* corpus is in the index: every word under a heading, and of a page       *)
(* without headings, in windows of the size an embedding takes; every type *)
(* with the members taken of it and of all it extends; every schema with   *)
(* what it refers to directly (substrate/chunking.py, ingest.py).          *)
THEOREM CorpusSearchable == Spec => []CorpusIsSearchable
<1>1. ASSUME SInv, KInv, NEW r \in DOMAIN answers, NEW i \in DOMAIN corpus[r]
      PROVE  LET a == corpus[r][i] IN
             /\ a.kind = "confluence" => PageIsIndexed(a.doc)
             /\ a.kind = "xsd"        => TypesAreIndexed(a.doc)
             /\ a.kind = "openapi"    => SchemasAreIndexed(a.doc.schemas)
  <2> DEFINE a == corpus[r][i]
  <2>1. r \in Runs /\ IsDocument(a)
    BY <1>1, SubstrateAssumption DEF SInv, Shape
  <2>2. \A t \in TextsOf(a) : \E c \in chunks : c.text = t
    BY <1>1, <2>1 DEF SInv, Whole
  <2> HIDE DEF a
  <2>3. \A t \in TextsOf(a) : t \in IndexedTexts(a.kind)
    <3>1. ASSUME NEW t \in TextsOf(a) PROVE \E c \in chunks : c.text = t /\ c.kind = a.kind
      BY <1>1, <2>1, <2>2, TextKinds DEF KInv, OfTheirKind
    <3> QED
      BY <3>1 DEF IndexedTexts
  <2>4. a.kind = "confluence" => PageIsIndexed(a.doc)
    <3>1. a.kind = "confluence" => \A j \in DOMAIN SplitOnHeadings(a.doc) :
                                     SectionIsIndexed(SplitOnHeadings(a.doc)[j])
      BY <2>1, <2>3, PageTexts DEF SectionIsIndexed
    <3>2. a.doc.headed = <<>> => 1 \in DOMAIN SplitOnHeadings(a.doc)
                                 /\ SplitOnHeadings(a.doc)[1] = a.doc.lead
      BY DEF SplitOnHeadings
    <3>3. a.doc.headed # <<>> => SplitOnHeadings(a.doc) = a.doc.headed
      BY DEF SplitOnHeadings
    <3> QED
      BY <3>1, <3>2, <3>3 DEF PageIsIndexed
  <2>5. a.kind = "xsd" => TypesAreIndexed(a.doc)
    BY <2>1, <2>3, TypeTexts DEF TypesAreIndexed, Inherited
  <2>6. a.kind = "openapi" => SchemasAreIndexed(a.doc.schemas)
    BY <2>3, SchemaTexts DEF SchemasAreIndexed
  <2> QED
    BY <2>4, <2>5, <2>6 DEF a
<1>2. SInv /\ KInv => CorpusIsSearchable
  BY <1>1 DEF CorpusIsSearchable
<1> QED
  BY <1>2, InitSInv, NextSInv, InitKInv, NextKInv, PTL DEF Spec
=============================================================================
