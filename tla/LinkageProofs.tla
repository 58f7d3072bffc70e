---------------------------- MODULE LinkageProofs ----------------------------
(***************************************************************************)
(* Proofs about stage S4, for any attributes, any scores, any homonym      *)
(* signals and any size of blocks: cutting loses no attribute and copies   *)
(* none, and of the pairs that can be compared each is decided once.       *)
(*                                                                         *)
(* A component is the least set that no edge leaves.  What is outside such *)
(* a set is itself a set that no edge leaves, so a walk back from what a   *)
(* walk reached finds where it began: components are classes.              *)
(*                                                                         *)
(* A pair of attributes with one blocking head is in a block (GroupsFound, *)
(* DedupeKeeps), ahead of the loop until it is seen (Awaited), then linked *)
(* or put to people once (Seen), and a linked pair stays in one group      *)
(* until a cut takes it apart, which only splits what raised a signal      *)
(* (Ties, Homonyms).                                                       *)
(***************************************************************************)
EXTENDS Linkage, SelectionProofs
LOCAL INSTANCE SequencesExt

(* What a walk reaches from an attribute it reached, it reaches.           *)
LEMMA ComponentAgain ==
    ASSUME NEW ids, NEW E, NEW a \in ids, NEW b \in Component(a, ids, E),
           NEW c \in Component(b, ids, E)
    PROVE  c \in Component(a, ids, E)
BY DEF Component

LEMMA ComponentBack ==
    ASSUME NEW ids, NEW E, NEW a \in ids, NEW b \in Component(a, ids, E)
    PROVE  a \in Component(b, ids, E)
<1> DEFINE pairs == Inside(ids, E)
<1>1. SUFFICES ASSUME NEW T \in SUBSET ids, b \in T, Closed(T, pairs), a \notin T
               PROVE  FALSE
  BY DEF Component
<1>2. \A p \in pairs : p \subseteq ids
  BY DEF Inside
<1>3. Closed(ids \ T, pairs)
  BY <1>1, <1>2 DEF Closed
<1>4. b \in ids \ T
  BY <1>1, <1>3 DEF Component
<1> QED
  BY <1>1, <1>4

(* The components of a group are a partition of it.                        *)
LEMMA ComponentsPartition ==
    ASSUME NEW ids, NEW E
    PROVE  /\ UNION Components(ids, E) = ids
           /\ \A C, D \in Components(ids, E) : C # D => C \intersect D = {}
<1>1. \A a \in ids : a \in Component(a, ids, E) /\ Component(a, ids, E) \subseteq ids
  BY DEF Component
<1>2. ASSUME NEW a \in ids, NEW b \in ids, NEW c \in Component(a, ids, E),
             c \in Component(b, ids, E)
      PROVE  Component(a, ids, E) \subseteq Component(b, ids, E)
  <2>1. a \in Component(c, ids, E)
    BY ComponentBack
  <2>2. c \in ids
    BY <1>1
  <2>3. a \in Component(b, ids, E)
    BY <1>2, <2>1, <2>2, ComponentAgain
  <2> QED
    BY <2>3, ComponentAgain
<1>3. \A C, D \in Components(ids, E) : C # D => C \intersect D = {}
  BY <1>2 DEF Components
<1> QED
  BY <1>1, <1>3 DEF Components

-----------------------------------------------------------------------------
(* Nothing is built before there are groups to build it from.              *)
LInv ==
    /\ stage \notin {"split", "export"} => clusters = {}
    /\ GroupsPartitionLinked

LEMMA ClusterMembers ==
    ASSUME NEW ids, NEW homonym
    PROVE  BuildCluster(ids, homonym).members = ids
BY DEF BuildCluster

THEOREM InitLInv == Init => LInv
BY DEF Init, LInv, GroupsPartitionLinked

LEMMA LinkKeeps ==
    ASSUME LInv, Link
    PROVE  LInv'
<1>1. clusters = {} /\ UNCHANGED <<clusters, edges, record>> /\ stage' = "split"
  BY DEF LInv, Link, input
<1>2. GroupsLeft' = Components(Linked, edges)
  <2> DEFINE Bunch(C) ==
        [ids |-> C, edges |-> edges, homonym |-> AnySignalFires(RecordsOf(C))]
  <2>1. work' = {Bunch(C) : C \in Components(Linked, edges)}
    BY DEF Link
  <2>2. \A C : Bunch(C).ids = C
    OBVIOUS
  <2> HIDE DEF Bunch
  <2> QED
    BY <2>1, <2>2 DEF GroupsLeft
<1>3. \A g, h \in work' : g # h => g.ids \intersect h.ids = {}
  BY ComponentsPartition DEF Link
<1>4. UNION (GroupsLeft' \union GroupsBuilt') = Linked'
  <2>1. Linked' = Linked /\ GroupsBuilt' = {}
    BY <1>1 DEF Linked, GroupsBuilt
  <2> QED
    BY <1>2, <2>1, ComponentsPartition
<1> QED
  BY <1>1, <1>3, <1>4 DEF LInv, GroupsPartitionLinked

LEMMA KeepKeeps ==
    ASSUME LInv, NEW group \in work, Keep(group)
    PROVE  LInv'
<1> DEFINE new == BuildCluster(group.ids, group.homonym)
<1>1. /\ stage = "split" /\ stage' = "split"
      /\ UNCHANGED <<edges, record>>
      /\ clusters' = clusters \union {new} /\ work' = work \ {group}
      /\ ~AnySignalFires(RecordsOf(group.ids))
  BY DEF Keep, input
<1>2. new.members = group.ids
  BY ClusterMembers
<1> HIDE DEF new
<1>3. UNION (GroupsLeft' \union GroupsBuilt') = Linked'
  <2>1. GroupsLeft' \union GroupsBuilt' = GroupsLeft \union GroupsBuilt
    BY <1>1, <1>2 DEF GroupsLeft, GroupsBuilt
  <2>2. Linked' = Linked
    BY <1>1 DEF Linked
  <2> QED
    BY <1>1, <2>1, <2>2 DEF LInv, GroupsPartitionLinked
<1>4. \A c, d \in clusters' : c # d => c.members \intersect d.members = {}
  <2>1. \A c \in clusters : c.members \intersect new.members = {}
    BY <1>1, <1>2 DEF LInv, GroupsPartitionLinked
  <2> QED
    BY <1>1, <2>1 DEF LInv, GroupsPartitionLinked
<1>5. \A g \in work' : /\ \A h \in work' : g # h => g.ids \intersect h.ids = {}
                       /\ \A c \in clusters' : g.ids \intersect c.members = {}
  BY <1>1, <1>2 DEF LInv, GroupsPartitionLinked
<1> QED
  BY <1>1, <1>3, <1>4, <1>5 DEF LInv, GroupsPartitionLinked

LEMMA CutKeeps ==
    ASSUME LInv, NEW group \in work, Cut(group)
    PROVE  LInv'
<1>1. /\ stage = "split" /\ stage' = "split" /\ UNCHANGED <<edges, record, clusters>>
  BY DEF Cut, input
<1> DEFINE left  == WithoutWeakest(group)
           parts == Components(group.ids, left)
<1>2. work' = (work \ {group})
              \union {[ids |-> C, edges |-> left, homonym |-> group.homonym] : C \in parts}
  BY DEF Cut
<1> HIDE DEF left
<1>3. /\ UNION parts = group.ids
      /\ \A C, D \in parts : C # D => C \intersect D = {}
  BY ComponentsPartition
<1>4. \A g \in work' : \/ g \in work /\ g # group
                       \/ g.ids \in parts
                          /\ g = [ids |-> g.ids, edges |-> left, homonym |-> group.homonym]
  BY <1>2
<1>5. GroupsLeft' = {g.ids : g \in work \ {group}} \union parts
  <2>1. \A C \in parts :
          \E g \in work' : g.ids = C
    <3>1. \A C \in parts :
             [ids |-> C, edges |-> left, homonym |-> group.homonym] \in work'
      BY <1>2
    <3> HIDE DEF parts
    <3> QED
      BY <3>1
  <2> HIDE DEF parts
  <2>2. \A C \in parts : C \in GroupsLeft'
    BY <2>1 DEF GroupsLeft
  <2>3. \A g \in work \ {group} : g \in work'
    BY <1>2
  <2>4. \A C : C \in GroupsLeft' => C \in {g.ids : g \in work \ {group}} \union parts
    BY <1>4 DEF GroupsLeft
  <2>5. \A g \in work \ {group} : g.ids \in GroupsLeft'
    BY <2>3 DEF GroupsLeft
  <2> QED
    BY <2>2, <2>4, <2>5
<1> HIDE DEF parts
<1>6. UNION (GroupsLeft' \union GroupsBuilt') = Linked'
  <2>1. UNION GroupsLeft' = UNION GroupsLeft
    BY <1>3, <1>5 DEF GroupsLeft
  <2>2. Linked' = Linked /\ GroupsBuilt' = GroupsBuilt
    BY <1>1 DEF Linked, GroupsBuilt
  <2>3. UNION (GroupsLeft \union GroupsBuilt) = Linked
    BY <1>1 DEF LInv, GroupsPartitionLinked
  <2> QED
    BY <2>1, <2>2, <2>3
<1>7. \A C \in parts : C \subseteq group.ids
  BY <1>3
<1>8. \A g \in work' : \A c \in clusters' : g.ids \intersect c.members = {}
  BY <1>1, <1>4, <1>7 DEF LInv, GroupsPartitionLinked
<1>9. ASSUME NEW g \in work', NEW h \in work', g # h
      PROVE  g.ids \intersect h.ids = {}
  <2>1. \A k \in work : k # group => k.ids \intersect group.ids = {}
    BY <1>1 DEF LInv, GroupsPartitionLinked
  <2>2. CASE g \in work /\ g # group /\ h \in work /\ h # group
    BY <1>1, <1>9, <2>2 DEF LInv, GroupsPartitionLinked
  <2>3. CASE g \in work /\ g # group /\ h.ids \in parts
    BY <1>7, <2>1, <2>3
  <2>4. CASE h \in work /\ h # group /\ g.ids \in parts
    BY <1>7, <2>1, <2>4
  <2>5. CASE /\ g.ids \in parts
             /\ g = [ids |-> g.ids, edges |-> left, homonym |-> group.homonym]
             /\ h.ids \in parts
             /\ h = [ids |-> h.ids, edges |-> left, homonym |-> group.homonym]
    <3>1. g.ids # h.ids
      BY <1>9, <2>5
    <3> QED
      BY <1>3, <2>5, <3>1
  <2> QED
    BY <1>4, <2>2, <2>3, <2>4, <2>5
<1> QED
  BY <1>1, <1>6, <1>8, <1>9 DEF LInv, GroupsPartitionLinked

THEOREM NextLInv == LInv /\ [Next]_vars => LInv'
<1> SUFFICES ASSUME LInv, [Next]_vars PROVE LInv'
  OBVIOUS
<1>1. CASE ProfileRecords \/ BuildBlocks \/ Compare
  <2>1. stage \notin {"split", "export"} /\ stage' \notin {"split", "export"}
        /\ clusters' = clusters
    BY <1>1 DEF ProfileRecords, BuildBlocks, Compare
  <2> QED
    BY <2>1 DEF LInv, GroupsPartitionLinked
<1>2. CASE Link
  BY <1>2, LinkKeeps
<1>3. ASSUME NEW group \in work, Keep(group) \/ Cut(group) PROVE LInv'
  BY <1>3, KeepKeeps, CutKeeps
<1>4. CASE Export \/ UNCHANGED vars
  <2>1. /\ UNCHANGED <<edges, record, clusters, work>>
        /\ stage' \in {"split", "export"} <=> stage \in {"split", "export"}
    BY <1>4 DEF Export, vars, input
  <2> QED
    BY <2>1 DEF LInv, GroupsPartitionLinked, RecordsOf,
                GroupsLeft, GroupsBuilt, Linked
<1> QED
  BY <1>1, <1>2, <1>3, <1>4 DEF Next, Done

(* Every linked attribute is in one group or cluster and in no other,      *)
(* however often the recursion cuts (min_cut_until).                       *)
THEOREM LinkedStayTogether == Spec => []GroupsPartitionLinked
<1>1. LInv => GroupsPartitionLinked
  BY DEF LInv
<1> QED
  BY <1>1, InitLInv, NextLInv, PTL DEF Spec

-----------------------------------------------------------------------------
(* Blocking.  The score of a pair does not depend on which of the two is   *)
(* taken first.                                                            *)
LEMMA KindSymmetric ==
    \A A, B, kind : KindSimilarity(A, B, kind) = KindSimilarity(B, A, kind)
<1>1. ASSUME NEW al, NEW ah, NEW bl, NEW bh
      PROVE  IntervalOverlap(al, ah, bl, bh) = IntervalOverlap(bl, bh, al, ah)
  <2>1. al \union bl = bl \union al /\ ah \union bh = bh \union ah
    OBVIOUS
  <2>2. {al, ah, bl, bh} = {bl, bh, al, ah}
    OBVIOUS
  <2> QED
    BY <2>1, <2>2 DEF IntervalOverlap
<1> QED
  BY <1>1 DEF KindSimilarity

LEMMA PatternSymmetric ==
    ASSUME NEW A, NEW B
    PROVE  PatternRangeSimilarity(A, B) = PatternRangeSimilarity(B, A)
<1> DEFINE shared(X, Y) == {c.kind : c \in X} \intersect {c.kind : c \in Y}
           scored(X, Y) == {k \in shared(X, Y) : KindSimilarity(X, Y, k) # -1}
           kinds(X, Y)  == [k \in scored(X, Y) |-> KindSimilarity(X, Y, k)]
<1>1. scored(A, B) = scored(B, A)
  BY KindSymmetric
<1>2. kinds(A, B) = kinds(B, A)
  <2> HIDE DEF scored
  <2> QED
    BY <1>1, KindSymmetric
<1> HIDE DEF scored, kinds
<1>3. \A X, Y : PatternRangeSimilarity(X, Y) =
         IF X = {} /\ Y = {} THEN Unit \div 2
         ELSE IF X = {} \/ Y = {} THEN (3 * Unit) \div 10
         ELSE IF scored(X, Y) = {} THEN 0
         ELSE SumOf(kinds(X, Y)) \div Cardinality(scored(X, Y))
  BY DEF PatternRangeSimilarity, scored, kinds
<1> QED
  BY <1>1, <1>2, <1>3

LEMMA SimilaritySymmetric ==
    ASSUME NEW p, NEW q
    PROVE  Similarity(p, q) = Similarity(q, p)
<1>1. \A A, B : Jaccard(A, B) = Jaccard(B, A)
  <2> SUFFICES ASSUME NEW A, NEW B PROVE Jaccard(A, B) = Jaccard(B, A)
    OBVIOUS
  <2>1. A \union B = B \union A /\ A \intersect B = B \intersect A
    OBVIOUS
  <2> QED
    BY <2>1 DEF Jaccard
<1>2. PathSimilarity(p.record.path, q.record.path) = PathSimilarity(q.record.path, p.record.path)
  BY <1>1 DEF PathSimilarity
<1>3. \A s, t : TypeCompatibility(s, t) = TypeCompatibility(t, s)
  <2> DEFINE rows(pair) == {e \in TypeCompatibilityTable : e.pair = pair}
             listed(pair) == IF rows(pair) = {} THEN 0 ELSE (CHOOSE e \in rows(pair) : TRUE).score
  <2>1. \A s, t : TypeCompatibility(s, t) = IF s = t THEN Unit ELSE listed({s, t})
    BY DEF TypeCompatibility
  <2>2. \A s, t : {s, t} = {t, s}
    OBVIOUS
  <2> HIDE DEF listed
  <2> QED
    BY <2>1, <2>2
<1>4. EmbeddingSimilarity(p, q) = EmbeddingSimilarity(q, p)
  BY DEF EmbeddingSimilarity
<1>5. ConstraintOverlap(p.record, q.record) = ConstraintOverlap(q.record, p.record)
  BY <1>1, PatternSymmetric DEF ConstraintOverlap
<1> QED
  BY <1>1, <1>2, <1>3, <1>4, <1>5 DEF Similarity

(* Whatever occurs in a sequence is at one of its first positions.         *)
LEMMA FirstsArePositions ==
    ASSUME NEW S, NEW s \in Seq(S)
    PROVE  /\ Firsts(s) \in Seq(DOMAIN s)
           /\ \A i \in DOMAIN s : \E x \in DOMAIN Firsts(s) :
                 s[Firsts(s)[x]] = s[i] /\ Firsts(s)[x] <= i
<1> DEFINE all == [i \in DOMAIN s |-> i]
           T   == {i \in Range(all) : \A j \in 1..(i - 1) : s[j] # s[i]}
<1>1. all \in Seq(DOMAIN s) /\ Range(all) = DOMAIN s
  <2>1. DOMAIN s = 1..Len(s) /\ Len(s) \in Nat
    OBVIOUS
  <2>2. all \in Seq(DOMAIN s)
    BY <2>1
  <2>3. DOMAIN all = DOMAIN s /\ \A i \in DOMAIN s : all[i] = i
    OBVIOUS
  <2> HIDE DEF all
  <2>4. Range(all) = DOMAIN s
    BY <2>3 DEF Range
  <2> QED
    BY <2>2, <2>4
<1>2. Firsts(s) = Only(all, T)
  BY DEF Firsts, Where
<1>3. Only(all, T) \in Seq(DOMAIN s) /\ Range(Only(all, T)) = T
  <2>1. T \subseteq Range(all)
    OBVIOUS
  <2> HIDE DEF all, T
  <2>2. Only(all, T) \in Seq(DOMAIN s)
    BY <1>1, OnlySelects
  <2>3. Range(Only(all, T)) = Range(all) \intersect T
    BY <1>1, OnlyRange
  <2> QED
    BY <2>1, <2>2, <2>3
<1>4. ASSUME NEW i \in DOMAIN s
      PROVE  \E x \in DOMAIN Firsts(s) : s[Firsts(s)[x]] = s[i] /\ Firsts(s)[x] <= i
  <2>1. PICK j \in DOMAIN s : /\ j <= i /\ s[j] = s[i]
                              /\ \A k \in 1..(j - 1) : s[k] # s[j]
    BY FirstPosition
  <2>2. j \in T
    BY <1>1, <2>1
  <2> HIDE DEF all, T
  <2>3. PICK x \in DOMAIN Only(all, T) : Only(all, T)[x] = j
    BY <1>3, <2>2 DEF Range
  <2> QED
    BY <1>2, <2>1, <2>3
<1> QED
  BY <1>2, <1>3, <1>4

(* A block as the groups make it, in which every attribute is once.        *)
GoodBlock(b) == b \in Seq(Attr) /\ Distinct(b)

LEMMA GroupIs ==
    ASSUME NEW order \in Orders, NEW Key, NEW key
    PROVE  /\ GoodBlock(Group(Key, order, key))
           /\ Range(Group(Key, order, key)) = {a \in Attr : Key[a] = key}
<1> DEFINE T == {a \in Range(order) : Key[a] = key}
<1>1. order \in Seq(Attr) /\ Range(order) = Attr /\ Distinct(order)
  BY LinkageAssumption DEF Distinct
<1>2. Group(Key, order, key) = Only(order, T)
  BY DEF Group, Where
<1>3. Range(order) \intersect T = {a \in Attr : Key[a] = key}
  BY <1>1
<1> HIDE DEF T
<1> QED
  BY <1>1, <1>2, <1>3, OnlySelects, OnlyRange, OnlyDistinct DEF GoodBlock

(* The attributes of a key that is not alone in having it are a block.     *)
LEMMA GroupsFound ==
    ASSUME NEW order \in Orders, NEW Key
    PROVE  /\ GroupsBy(Key, order) \in Seq(Seq(Attr))
           /\ \A i \in DOMAIN GroupsBy(Key, order) : GoodBlock(GroupsBy(Key, order)[i])
           /\ \A a, b \in Attr : a # b /\ Key[a] = Key[b] =>
                 \E i \in DOMAIN GroupsBy(Key, order) :
                    Range(GroupsBy(Key, order)[i]) = {c \in Attr : Key[c] = Key[a]}
<1> DEFINE keys   == [i \in DOMAIN order |-> Key[order[i]]]
           starts == Firsts(keys)
           groups == [i \in DOMAIN starts |-> Group(Key, order, keys[starts[i]])]
           T      == {g \in Range(groups) : Len(g) > 1}
           found  == GroupsBy(Key, order)
<1>1. order \in Seq(Attr) /\ Range(order) = Attr
  BY LinkageAssumption
<1>2. keys \in Seq(Range(keys)) /\ DOMAIN keys = DOMAIN order
  BY <1>1 DEF Range
<1>3. found = Only(groups, T)
  BY DEF GroupsBy, Where
<1> HIDE DEF keys
<1>4. starts \in Seq(DOMAIN order)
  BY <1>2, FirstsArePositions
<1> HIDE DEF starts
<1>5. groups \in Seq(Seq(Attr)) /\ \A i \in DOMAIN groups : GoodBlock(groups[i])
  <2>1. \A i \in DOMAIN starts : GoodBlock(Group(Key, order, keys[starts[i]]))
    BY GroupIs
  <2>2. DOMAIN groups = 1..Len(starts) /\ Len(starts) \in Nat
    BY <1>4
  <2> QED
    BY <2>1, <2>2 DEF GoodBlock
<1>6. found \in Seq(Seq(Attr)) /\ Range(found) = Range(groups) \intersect T
  <2> HIDE DEF groups, T, found
  <2> QED
    BY <1>3, <1>5, OnlySelects, OnlyRange
<1>7. \A i \in DOMAIN found : GoodBlock(found[i])
  <2>1. \A i \in DOMAIN found : found[i] \in Range(groups)
    <3> HIDE DEF found, groups, T
    <3> QED
      BY <1>6 DEF Range
  <2> HIDE DEF found, groups
  <2> QED
    BY <1>5, <2>1 DEF Range
<1>8. ASSUME NEW a \in Attr, NEW b \in Attr, a # b, Key[a] = Key[b]
      PROVE  \E i \in DOMAIN found : Range(found[i]) = {c \in Attr : Key[c] = Key[a]}
  <2> DEFINE g == Group(Key, order, Key[a])
  <2>1. PICK i \in DOMAIN order : order[i] = a
    BY <1>1 DEF Range
  <2>2. keys[i] = Key[a] /\ i \in DOMAIN keys
    BY <1>2, <2>1 DEF keys
  <2>3. PICK x \in DOMAIN starts : keys[starts[x]] = Key[a]
    BY <1>2, <2>2, FirstsArePositions DEF starts
  <2>4. x \in DOMAIN groups /\ groups[x] = g
    BY <2>3
  <2>5. GoodBlock(g) /\ Range(g) = {c \in Attr : Key[c] = Key[a]}
    BY GroupIs
  <2> HIDE DEF g, groups, found
  <2>6. g \in Range(groups)
    BY <2>4 DEF Range
  <2>7. Len(g) > 1
    <3>1. PICK m \in DOMAIN g, n \in DOMAIN g : g[m] = a /\ g[n] = b
      BY <1>8, <2>5 DEF Range
    <3>2. m # n /\ g \in Seq(Attr)
      BY <1>8, <2>5, <3>1 DEF GoodBlock
    <3> QED
      BY <3>1, <3>2
  <2>8. g \in Range(found)
    BY <1>6, <2>6, <2>7
  <2> QED
    BY <2>5, <2>8 DEF Range
<1> HIDE DEF found
<1> QED
  BY <1>6, <1>7, <1>8 DEF found

LEMMA FunctionIsList ==
    ASSUME NEW n \in Nat, NEW V, NEW f \in [1..n -> V]
    PROVE  f \in Seq(V)
OBVIOUS

(* A block that fits is kept, or one with the same members is that came    *)
(* before it and fits as well.                                             *)
LEMMA DedupeKeeps ==
    ASSUME NEW good \in Seq(Seq(Attr)), NEW rest \in Seq(Seq(Attr)),
           \A i \in DOMAIN good : GoodBlock(good[i]),
           NEW max, NEW D, D = DedupeBlocks(good \o rest, max)
    PROVE  /\ D \in Seq(Range(D))
           /\ \A i \in DOMAIN good : Len(good[i]) <= max =>
                 \E x \in DOMAIN D : GoodBlock(D[x]) /\ Range(D[x]) = Range(good[i])
<1> DEFINE all    == good \o rest
           ranges == [j \in DOMAIN all |-> Range(all[j])]
           kept   == Firsts(ranges)
           Capped(b) == IF Len(b) <= max THEN b ELSE SubSeq(SortSeq(b, <), 1, max)
<1>1. all \in Seq(Seq(Attr)) /\ DOMAIN all = 1..Len(all) /\ Len(all) \in Nat
      /\ \A j \in DOMAIN good : j \in DOMAIN all /\ all[j] = good[j]
  OBVIOUS
<1>2. D = [x \in DOMAIN kept |-> Capped(all[kept[x]])]
  BY DEF DedupeBlocks
<1>3. DOMAIN good = 1..Len(good) /\ Len(good) \in Nat
  OBVIOUS
<1> HIDE DEF all, Capped
<1>4. ranges \in Seq(Range(ranges)) /\ DOMAIN ranges = DOMAIN all
      /\ \A j \in DOMAIN all : ranges[j] = Range(all[j])
  <2> DEFINE r(j) == Range(all[j])
  <2>1. ranges = [j \in 1..Len(all) |-> r(j)]
    BY <1>1
  <2>2. \A j \in DOMAIN all : ranges[j] = Range(all[j])
    OBVIOUS
  <2> HIDE DEF r, ranges
  <2>3. DOMAIN ranges = 1..Len(all) /\ ranges \in [1..Len(all) -> Range(ranges)]
    BY <2>1 DEF Range
  <2>4. ranges \in Seq(Range(ranges))
    <3>1. Len(all) \in Nat
      BY <1>1
    <3> QED
      BY <2>3, <3>1, FunctionIsList
  <2>5. DOMAIN ranges = DOMAIN all
    BY <1>1, <2>3
  <2> QED
    BY <2>2, <2>4, <2>5
<1> HIDE DEF ranges
<1>5. /\ kept \in Seq(DOMAIN all)
      /\ \A i \in DOMAIN all : \E x \in DOMAIN kept :
            ranges[kept[x]] = ranges[i] /\ kept[x] <= i
  BY <1>4, FirstsArePositions
<1> HIDE DEF kept
<1>6. DOMAIN kept = 1..Len(kept) /\ Len(kept) \in Nat
  BY <1>5
<1>7. D \in Seq(Range(D))
  BY <1>2, <1>6 DEF Range
<1>8. ASSUME NEW i \in DOMAIN good, Len(good[i]) <= max
      PROVE  \E x \in DOMAIN D : GoodBlock(D[x]) /\ Range(D[x]) = Range(good[i])
  <2>1. PICK x \in DOMAIN kept : ranges[kept[x]] = ranges[i] /\ kept[x] <= i
    BY <1>1, <1>5
  <2> DEFINE b == all[kept[x]]
  <2>2. kept[x] \in DOMAIN all
    BY <1>5
  <2>3. kept[x] \in DOMAIN good
    BY <1>1, <1>3, <2>1, <2>2
  <2>4. b = good[kept[x]] /\ Range(b) = Range(good[i])
    BY <1>1, <1>4, <2>1, <2>2, <2>3
  <2>5. GoodBlock(b) /\ GoodBlock(good[i])
    BY <2>3, <2>4
  <2> HIDE DEF b
  <2>6. Len(b) = Len(good[i])
    BY <2>4, <2>5, DistinctLength DEF GoodBlock
  <2>7. Capped(b) = b
    BY <1>8, <2>6 DEF Capped
  <2>8. x \in DOMAIN D /\ D[x] = b
    BY <1>2, <2>7 DEF b
  <2> QED
    BY <2>4, <2>5, <2>8
<1> QED
  BY <1>7, <1>8

LEMMA CountIsLength ==
    ASSUME NEW b, GoodBlock(b)
    PROVE  Cardinality(Range(b)) = Len(b)
<1>1. \A S : Cardinality(S) = FST!Cardinality(S)
  BY DEF Cardinality, FST!Cardinality
<1> QED
  BY <1>1, DistinctLength DEF GoodBlock

-----------------------------------------------------------------------------
(* Comparing.  A pair of positions of a block that is still to be taken,   *)
(* the loop over its pairs being at from.                                  *)
AheadIn(b, from, p) ==
    /\ GoodBlock(b)
    /\ \E i, j \in DOMAIN b :
          /\ i < j /\ {b[i], b[j]} = p
          /\ from[1] < i \/ (from[1] = i /\ from[2] <= j)
From(k) == IF k = 1 THEN at ELSE <<1, 2>>
Ahead(p) == \E k \in DOMAIN blocks : AheadIn(blocks[k], From(k), p)

(* What is linked and what is put to people of the pairs that were seen.   *)
LinkedPair(p) == \E i \in DOMAIN edges : edges[i].pair = p
OnceIn(list, p) == \E i \in DOMAIN list : \A j \in DOMAIN list : list[j].pair = p <=> j = i
Decided(a, b) ==
    LET score == Similarity(profiled[a], profiled[b])
    IN  /\ score >= LinkThreshold => LinkedPair({a, b})
        /\ score < LinkThreshold /\ score >= ReviewBandLow => OnceIn(review, {a, b})

(* Of the loop over the pairs ... *)
Loop ==
    /\ attrs \in Orders /\ blockMax \in BlockMaxSizes
    /\ blocks \in Seq(Range(blocks)) /\ edges \in Seq(Range(edges))
    /\ review \in Seq(Range(review))
    /\ at[1] \in Nat /\ at[2] \in Nat
    /\ stage \in {"parsed", "profiled"} => at = <<1, 2>> /\ seen = {} /\ review = <<>>
    /\ stage \in {"split", "export"} => blocks = <<>>
Seen ==
    /\ \A i \in DOMAIN review : review[i].pair \in seen
    /\ \A a, b \in Attr : a # b /\ {a, b} \in seen => Decided(a, b)
Awaited ==
    stage \notin {"parsed", "profiled"} =>
        \A a, b \in Attr : a # b /\ Comparable(a, b) => {a, b} \in seen \/ Ahead({a, b})

LEMMA BuildBlocksAwaits ==
    ASSUME Loop, BuildBlocks
    PROVE  Loop' /\ Awaited'
<1> DEFINE head   == [a \in Attr |-> profiled[a].byHead]
           type   == [a \in Attr |-> profiled[a].byType]
           byHead == GroupsBy(head, attrs)
           byType == GroupsBy(type, attrs)
           D      == DedupeBlocks(byHead \o byType, blockMax)
           T      == {b \in Range(D) : Len(b) > 1}
<1>1. attrs \in Orders /\ blockMax \in Nat
  BY LinkageAssumption DEF Loop
<1>2. blocks' = Only(D, T) /\ stage = "profiled" /\ stage' = "compare"
      /\ UNCHANGED <<input, profiled, at, seen, edges, review>>
  BY DEF BuildBlocks, Where
<1>3. /\ byHead \in Seq(Seq(Attr)) /\ byType \in Seq(Seq(Attr))
      /\ \A i \in DOMAIN byHead : GoodBlock(byHead[i])
      /\ \A a, b \in Attr : a # b /\ head[a] = head[b] =>
            \E i \in DOMAIN byHead : Range(byHead[i]) = {c \in Attr : head[c] = head[a]}
  <2> HIDE DEF head, type
  <2> QED
    BY <1>1, GroupsFound
<1>4. \A a \in Attr : head[a] = profiled[a].byHead
  OBVIOUS
<1> HIDE DEF head, type, byHead, byType
<1>5. /\ D \in Seq(Range(D))
      /\ \A i \in DOMAIN byHead : Len(byHead[i]) <= blockMax =>
            \E x \in DOMAIN D : GoodBlock(D[x]) /\ Range(D[x]) = Range(byHead[i])
  <2>1. D = DedupeBlocks(byHead \o byType, blockMax)
    OBVIOUS
  <2> HIDE DEF D
  <2> QED
    BY <1>3, <2>1, DedupeKeeps
<1> HIDE DEF D
<1>6. Only(D, T) \in Seq(Range(D)) /\ Range(Only(D, T)) = T
  <2>1. T \subseteq Range(D)
    OBVIOUS
  <2> HIDE DEF T
  <2>2. Only(D, T) \in Seq(Range(D))
    BY <1>5, OnlySelects
  <2>3. Range(Only(D, T)) = Range(D) \intersect T
    BY <1>5, OnlyRange
  <2> QED
    BY <2>1, <2>2, <2>3
<1>7. blocks' \in Seq(Range(blocks'))
  <2> HIDE DEF T
  <2> QED
    BY <1>2, <1>6 DEF Range
<1>8. Loop'
  BY <1>2, <1>7 DEF Loop, input
<1>9. ASSUME NEW a \in Attr, NEW b \in Attr, a # b, Comparable(a, b)'
      PROVE  Ahead({a, b})'
  <2>1. /\ head[a] = head[b]
        /\ Cardinality({c \in Attr : head[c] = head[a]}) <= blockMax
    <3>1. {c \in Attr : head[c] = head[a]} = {c \in Attr : profiled[c].byHead = profiled[a].byHead}
      BY <1>4
    <3> QED
      BY <1>2, <1>4, <1>9, <3>1 DEF Comparable, input
  <2>2. PICK i \in DOMAIN byHead : Range(byHead[i]) = {c \in Attr : head[c] = head[a]}
    BY <1>3, <1>9, <2>1
  <2>3. Len(byHead[i]) <= blockMax
    BY <1>3, <2>1, <2>2, CountIsLength
  <2>4. PICK x \in DOMAIN D : GoodBlock(D[x]) /\ Range(D[x]) = Range(byHead[i])
    BY <1>5, <2>3
  <2> DEFINE B == D[x]
  <2>5. B \in Range(D)
    BY DEF Range
  <2> HIDE DEF B
  <2>6. GoodBlock(B) /\ a \in Range(B) /\ b \in Range(B)
    BY <2>1, <2>2, <2>4 DEF B
  <2>7. PICK m \in DOMAIN B, n \in DOMAIN B : B[m] = a /\ B[n] = b
    BY <2>6 DEF Range
  <2>8. m # n /\ DOMAIN B = 1..Len(B) /\ Len(B) \in Nat
    BY <1>9, <2>6, <2>7 DEF GoodBlock
  <2>9. Len(B) > 1
    BY <2>8
  <2>10. AheadIn(B, <<1, 2>>, {a, b})
    <3>1. PICK k \in DOMAIN B, j \in DOMAIN B : k < j /\ {B[k], B[j]} = {a, b}
      <4>1. {B[m], B[n]} = {a, b} /\ {B[n], B[m]} = {a, b}
        BY <2>7
      <4>2. m < n \/ n < m
        BY <2>8
      <4> QED
        BY <4>1, <4>2
    <3>2. 1 < k \/ (1 = k /\ 2 <= j)
      BY <2>8, <3>1
    <3> QED
      BY <2>6, <3>1, <3>2 DEF AheadIn
  <2>11. PICK k \in DOMAIN blocks' : blocks'[k] = B
    <3>1. B \in T
      BY <2>5, <2>9
    <3> HIDE DEF T
    <3> QED
      BY <1>2, <1>6, <3>1 DEF Range
  <2>12. From(k)' = <<1, 2>>
    BY <1>2 DEF From, Loop
  <2> QED
    BY <2>10, <2>11, <2>12 DEF Ahead
<1> QED
  BY <1>8, <1>9 DEF Awaited

LEMMA OwnList ==
    ASSUME NEW S, NEW s \in Seq(S)
    PROVE  s \in Seq(Range(s))
<1>1. DOMAIN s = 1..Len(s) /\ Len(s) \in Nat
  OBVIOUS
<1>2. s = [i \in 1..Len(s) |-> s[i]]
  OBVIOUS
<1>3. \A i \in 1..Len(s) : s[i] \in Range(s)
  BY <1>1 DEF Range
<1>4. s \in [1..Len(s) -> Range(s)]
  BY <1>2, <1>3
<1> QED
  BY <1>1, <1>4, FunctionIsList

Appended(t, s, e) ==
    /\ t \in Seq(Range(t))
    /\ DOMAIN t = DOMAIN s \union {Len(s) + 1} /\ Len(s) + 1 \notin DOMAIN s
    /\ t[Len(s) + 1] = e
    /\ \A i \in DOMAIN s : t[i] = s[i]

LEMMA AppendIsList ==
    ASSUME NEW s, s \in Seq(Range(s)), NEW e
    PROVE  Appended(Append(s, e), s, e)
<1> DEFINE t == Append(s, e)
<1>1. /\ DOMAIN t = DOMAIN s \union {Len(s) + 1} /\ Len(s) + 1 \notin DOMAIN s
      /\ t[Len(s) + 1] = e
      /\ \A i \in DOMAIN s : t[i] = s[i]
  OBVIOUS
<1>2. t \in Seq(Range(s) \union {e})
  OBVIOUS
<1> QED
  BY <1>1, <1>2, OwnList DEF Appended

LEMMA TailIsList ==
    ASSUME NEW s, s \in Seq(Range(s)), s # <<>>, NEW t, t = Tail(s)
    PROVE  /\ t \in Seq(Range(t))
           /\ \A k \in DOMAIN s : k # 1 => k - 1 \in DOMAIN t /\ t[k - 1] = s[k]
<1>1. \A k \in DOMAIN s : k # 1 => k - 1 \in DOMAIN t /\ t[k - 1] = s[k]
  OBVIOUS
<1>2. t \in Seq(Range(s))
  OBVIOUS
<1> QED
  BY <1>1, <1>2, OwnList

(* A turn of the loop goes from one pair of positions to the next.         *)
LEMMA TurnAwaits ==
    ASSUME NEW b, NEW p, NEW from, from[1] \in Nat, from[2] \in Nat, AheadIn(b, from, p)
    PROVE  \/ p = {b[from[1]], b[from[2]]}
           \/ /\ from # <<Len(b) - 1, Len(b)>>
              /\ AheadIn(b, IF from[2] < Len(b) THEN <<from[1], from[2] + 1>>
                            ELSE <<from[1] + 1, from[1] + 2>>, p)
<1>1. GoodBlock(b) /\ DOMAIN b = 1..Len(b) /\ Len(b) \in Nat
  BY DEF AheadIn, GoodBlock
<1>2. PICK i \in DOMAIN b, j \in DOMAIN b :
         i < j /\ {b[i], b[j]} = p /\ (from[1] < i \/ (from[1] = i /\ from[2] <= j))
  BY DEF AheadIn
<1>3. CASE from[1] = i /\ from[2] = j
  BY <1>2, <1>3
<1>4. CASE ~(from[1] = i /\ from[2] = j)
  <2>1. from # <<Len(b) - 1, Len(b)>>
    BY <1>1, <1>2, <1>4
  <2> DEFINE m == from[1]
             n == from[2]
             after == IF n < Len(b) THEN <<m, n + 1>> ELSE <<m + 1, m + 2>>
  <2>2. after[1] < i \/ (after[1] = i /\ after[2] <= j)
    <3>1. CASE n < Len(b)
      BY <1>1, <1>2, <1>4, <3>1
    <3>2. CASE ~(n < Len(b))
      <4>1. m < i
        BY <1>1, <1>2, <1>4, <3>2
      <4>2. after = <<m + 1, m + 2>>
        BY <3>2
      <4> QED
        BY <1>1, <1>2, <4>1, <4>2
    <3> QED
      BY <3>1, <3>2
  <2>3. AheadIn(b, after, p)
    <3> HIDE DEF after
    <3> QED
      BY <1>1, <1>2, <2>2 DEF AheadIn
  <2> QED
    BY <2>1, <2>3
<1> QED
  BY <1>3, <1>4

LEMMA CompareKeeps ==
    ASSUME Loop, Seen, Awaited, Compare
    PROVE  Loop' /\ Seen' /\ Awaited'
<1> DEFINE block == Head(blocks)
           n     == Len(block)
           x     == block[at[1]]
           y     == block[at[2]]
           pair  == {x, y}
           score == Similarity(profiled[x], profiled[y])
           entry == [pair |-> pair, score |-> score]
           new   == pair \notin seen
           link  == new /\ score >= LinkThreshold
           ask   == new /\ score < LinkThreshold /\ score >= ReviewBandLow
           over  == at = <<n - 1, n>>
           after == IF at[2] < n THEN <<at[1], at[2] + 1>> ELSE <<at[1] + 1, at[1] + 2>>
<1>1. /\ stage = "compare" /\ stage' = "compare" /\ blocks # <<>>
      /\ UNCHANGED <<input, profiled>>
      /\ seen' = seen \union {pair}
      /\ edges' = IF link THEN Append(edges, entry) ELSE edges
      /\ review' = IF ask THEN Append(review, entry) ELSE review
      /\ blocks' = IF over THEN Tail(blocks) ELSE blocks
      /\ at' = IF over THEN <<1, 2>> ELSE after
  BY DEF Compare
<1>2. entry.pair = pair
  OBVIOUS
<1>3. block = blocks[1]
  BY <1>1 DEF Loop
<1>4. at[1] \in Nat /\ at[2] \in Nat /\ after[1] \in Nat /\ after[2] \in Nat
  BY DEF Loop
<1> HIDE DEF entry, link, ask, over, after, block
<1>5. /\ edges' \in Seq(Range(edges'))
      /\ \A p : LinkedPair(p) => LinkedPair(p)'
      /\ \A p : link /\ p = pair => LinkedPair(p)'
  <2>1. CASE link
    <3>1. /\ edges' \in Seq(Range(edges'))
          /\ DOMAIN edges' = DOMAIN edges \union {Len(edges) + 1}
          /\ edges'[Len(edges) + 1] = entry
          /\ \A i \in DOMAIN edges : edges'[i] = edges[i]
      <4>1. edges \in Seq(Range(edges)) /\ edges' = Append(edges, entry)
        BY <1>1, <2>1 DEF Loop
      <4>2. Appended(edges', edges, entry)
        BY <4>1, AppendIsList
      <4> QED
        BY <4>2 DEF Appended
    <3>2. ASSUME NEW p, LinkedPair(p) PROVE LinkedPair(p)'
      BY <3>1, <3>2 DEF LinkedPair
    <3>3. ASSUME NEW p, p = pair PROVE LinkedPair(p)'
      BY <1>2, <3>1, <3>3 DEF LinkedPair
    <3> QED
      BY <3>1, <3>2, <3>3
  <2>2. CASE ~link
    BY <1>1, <2>2 DEF LinkedPair, Loop
  <2> QED
    BY <2>1, <2>2
<1>6. /\ review' \in Seq(Range(review'))
      /\ \A i \in DOMAIN review' : review'[i].pair \in seen'
      /\ \A p : p \in seen /\ OnceIn(review, p) => OnceIn(review, p)'
      /\ \A p : ask /\ p = pair => OnceIn(review, p)'
  <2>1. CASE ask
    <3> DEFINE l == Len(review) + 1
    <3>1. /\ review' \in Seq(Range(review'))
          /\ DOMAIN review' = DOMAIN review \union {l} /\ l \notin DOMAIN review
          /\ review'[l] = entry
          /\ \A i \in DOMAIN review : review'[i] = review[i]
      <4>1. review \in Seq(Range(review)) /\ review' = Append(review, entry)
        BY <1>1, <2>1 DEF Loop
      <4>2. Appended(review', review, entry)
        BY <4>1, AppendIsList
      <4> QED
        BY <4>2 DEF Appended
    <3>2. pair \notin seen
      BY <2>1 DEF ask
    <3>3. \A i \in DOMAIN review : review[i].pair \in seen
      BY DEF Seen
    <3> HIDE DEF l
    <3>4. \A i \in DOMAIN review' : review'[i].pair \in seen'
      BY <1>1, <1>2, <3>1, <3>3
    <3>5. ASSUME NEW p \in seen, OnceIn(review, p) PROVE OnceIn(review, p)'
      <4>1. PICK i \in DOMAIN review : \A j \in DOMAIN review : review[j].pair = p <=> j = i
        BY <3>5 DEF OnceIn
      <4>2. i \in DOMAIN review' /\ \A j \in DOMAIN review' : review'[j].pair = p <=> j = i
        BY <1>2, <3>1, <3>2, <4>1
      <4> QED
        BY <4>2 DEF OnceIn
    <3>6. ASSUME NEW p, p = pair PROVE OnceIn(review, p)'
      <4>1. l \in DOMAIN review' /\ \A j \in DOMAIN review' : review'[j].pair = p <=> j = l
        BY <1>2, <3>1, <3>2, <3>3, <3>6
      <4> QED
        BY <4>1 DEF OnceIn
    <3> QED
      BY <3>1, <3>4, <3>5, <3>6
  <2>2. CASE ~ask
    BY <1>1, <2>2 DEF OnceIn, Loop, Seen
  <2> QED
    BY <2>1, <2>2
<1>7. blocks' \in Seq(Range(blocks')) /\ at'[1] \in Nat /\ at'[2] \in Nat
  <2>1. Tail(blocks) \in Seq(Range(Tail(blocks)))
    BY <1>1, TailIsList DEF Loop
  <2>2. CASE over
    BY <1>1, <2>1, <2>2
  <2>3. CASE ~over
    BY <1>1, <1>4, <2>3 DEF Loop
  <2> QED
    BY <2>2, <2>3
<1>8. Loop'
  BY <1>1, <1>5, <1>6, <1>7 DEF Loop, input
<1>9. ASSUME NEW a \in Attr, NEW b \in Attr, a # b, {a, b} \in seen' PROVE Decided(a, b)'
  <2>1. CASE {a, b} \in seen
    <3>1. Decided(a, b)
      BY <1>9, <2>1 DEF Seen
    <3> QED
      BY <1>1, <1>5, <1>6, <2>1, <3>1 DEF Decided
  <2>2. CASE {a, b} \notin seen
    <3>1. {a, b} = pair /\ new
      BY <1>1, <1>9, <2>2
    <3>2. score = Similarity(profiled[a], profiled[b])
      <4>1. (x = a /\ y = b) \/ (x = b /\ y = a)
        BY <1>9, <3>1
      <4> QED
        BY <4>1, SimilaritySymmetric
    <3> DEFINE s == Similarity(profiled[a], profiled[b])
    <3>3. s = score /\ s = Similarity(profiled'[a], profiled'[b])
      BY <1>1, <3>2
    <3> HIDE DEF score, s
    <3>4. s >= LinkThreshold => LinkedPair({a, b})'
      BY <1>5, <3>1, <3>3 DEF link
    <3>5. s < LinkThreshold /\ s >= ReviewBandLow => OnceIn(review, {a, b})'
      BY <1>6, <3>1, <3>3 DEF ask
    <3> QED
      BY <3>3, <3>4, <3>5 DEF Decided
  <2> QED
    BY <2>1, <2>2
<1>10. Seen'
  BY <1>6, <1>9 DEF Seen
<1>11. ASSUME NEW a \in Attr, NEW b \in Attr, a # b, Comparable(a, b)'
       PROVE  {a, b} \in seen' \/ Ahead({a, b})'
  <2> DEFINE p == {a, b}
  <2>1. Comparable(a, b)
    BY <1>1, <1>11 DEF Comparable, input
  <2>2. CASE p \in seen
    BY <1>1, <2>2
  <2>3. CASE p \notin seen
    <3>1. PICK k \in DOMAIN blocks : AheadIn(blocks[k], From(k), p)
      BY <1>1, <1>11, <2>1, <2>3 DEF Awaited, Ahead
    <3> HIDE DEF p
    <3>2. CASE k = 1
      <4>1. AheadIn(block, at, p)
        BY <1>3, <3>1, <3>2 DEF From
      <4>2. p = pair \/ (~over /\ AheadIn(block, after, p))
        BY <1>4, <4>1, TurnAwaits DEF over, after
      <4>3. CASE p = pair
        BY <1>1, <4>3 DEF p
      <4>4. CASE ~over /\ AheadIn(block, after, p)
        <5>1. blocks' = blocks /\ at' = after
          BY <1>1, <4>4
        <5>2. AheadIn(blocks'[k], From(k)', p)
          BY <1>3, <3>2, <4>4, <5>1 DEF From
        <5> QED
          BY <3>1, <5>1, <5>2 DEF Ahead, p
      <4> QED
        BY <4>2, <4>3, <4>4
    <3>3. CASE k # 1
      <4>1. AheadIn(blocks[k], <<1, 2>>, p)
        BY <3>1, <3>3 DEF From
      <4>2. CASE over
        <5>1. k - 1 \in DOMAIN blocks' /\ blocks'[k - 1] = blocks[k] /\ at' = <<1, 2>>
          BY <1>1, <3>1, <3>3, <4>2, TailIsList DEF Loop
        <5>2. From(k - 1)' = <<1, 2>>
          BY <5>1 DEF From
        <5> QED
          BY <4>1, <5>1, <5>2 DEF Ahead, p
      <4>3. CASE ~over
        <5>1. blocks' = blocks /\ From(k)' = <<1, 2>>
          BY <1>1, <3>3, <4>3 DEF From
        <5> QED
          BY <3>1, <4>1, <5>1 DEF Ahead, p
      <4> QED
        BY <4>2, <4>3
    <3> QED
      BY <3>2, <3>3
  <2> QED
    BY <2>2, <2>3
<1> QED
  BY <1>8, <1>10, <1>11 DEF Awaited

-----------------------------------------------------------------------------
(* Splitting.  A linked pair is in one group or cluster, or whatever holds *)
(* either of the two comes from a group that was split.                    *)
Tied(p) ==
    \/ \E g \in work : p \subseteq g.ids
    \/ \E c \in clusters : p \subseteq c.members
    \/ /\ \A g \in work : g.ids \intersect p # {} => g.homonym
       /\ \A c \in clusters : c.members \intersect p # {} => c.conflict = "homonym"
Ties == \A a, b \in Attr : LinkedPair({a, b}) => Tied({a, b})

(* A group in which a signal fires comes from one in which a signal fired. *)
Homonyms == \A g \in work : AnySignalFires(RecordsOf(g.ids)) => g.homonym

Splitting ==
    /\ stage \in {"split", "export"} => Homonyms /\ Ties
    /\ stage = "export" => work = {} /\ triage = [i \in DOMAIN review |-> review[i].pair]
    /\ stage # "export" => triage = <<>>

LEMMA LinkTies ==
    ASSUME Link
    PROVE  Homonyms' /\ Ties'
<1> DEFINE fires(C) == AnySignalFires(RecordsOf(C))
           of(C) == [ids |-> C, edges |-> edges, homonym |-> fires(C)]
<1>1. work' = {of(C) : C \in Components(Linked, edges)} /\ UNCHANGED <<edges, record>>
  BY DEF Link, input
<1>2. \A C : fires(C) \in BOOLEAN
  BY DEF AnySignalFires, TypeIncompatible, DisjointEnumerations, ObligationInversion,
         DivergentParentContext, AllHaveEnums, HasMandatory, HasAbsentInSiblingRegion
<1>3. \A C : fires(C)' <=> fires(C)
  BY <1>1 DEF RecordsOf
<1> HIDE DEF fires
<1>4. \A C : of(C).ids = C /\ (of(C).homonym <=> fires(C))
  BY <1>2
<1>5. Homonyms'
  <2> SUFFICES ASSUME NEW g \in work', AnySignalFires(RecordsOf(g.ids))' PROVE g.homonym
    BY DEF Homonyms
  <2> HIDE DEF of
  <2>1. PICK C \in Components(Linked, edges) : g = of(C)
    BY <1>1
  <2>2. fires(C)'
    BY <1>4, <2>1 DEF fires
  <2> QED
    BY <1>3, <1>4, <2>1, <2>2
<1>6. ASSUME NEW a \in Attr, NEW b \in Attr, LinkedPair({a, b})
      PROVE  \E g \in work' : {a, b} \subseteq g.ids
  <2> DEFINE C == Component(a, Linked, edges)
  <2>1. PICK i \in DOMAIN edges : edges[i].pair = {a, b}
    BY <1>6 DEF LinkedPair
  <2>2. {a, b} \subseteq Linked
    BY <2>1 DEF Linked
  <2>3. {a, b} \in Inside(Linked, edges)
    BY <2>1, <2>2 DEF Inside, PairsOfEdges
  <2>4. {a, b} \subseteq C
    BY <2>2, <2>3 DEF Component, Closed
  <2>5. C \in Components(Linked, edges)
    BY <2>2 DEF Components
  <2> HIDE DEF C, of
  <2> QED
    BY <1>1, <1>4, <2>4, <2>5
<1>7. Ties'
  BY <1>1, <1>6 DEF Ties, Tied, LinkedPair
<1> QED
  BY <1>5, <1>7

LEMMA KeepTies ==
    ASSUME Homonyms, Ties, NEW group \in work, Keep(group)
    PROVE  Homonyms' /\ Ties'
<1> DEFINE new == BuildCluster(group.ids, group.homonym)
<1>1. /\ UNCHANGED <<edges, record>>
      /\ clusters' = clusters \union {new} /\ work' = work \ {group}
  BY DEF Keep, input
<1>2. new.members = group.ids /\ (group.homonym => new.conflict = "homonym")
  BY DEF BuildCluster
<1> HIDE DEF new
<1>3. Homonyms'
  BY <1>1 DEF Homonyms, RecordsOf
<1>4. ASSUME NEW p, Tied(p) PROVE Tied(p)'
  <2>1. CASE \E g \in work : p \subseteq g.ids
    BY <1>1, <1>2, <2>1 DEF Tied
  <2>2. CASE \E c \in clusters : p \subseteq c.members
    BY <1>1, <2>2 DEF Tied
  <2>3. CASE /\ \A g \in work : g.ids \intersect p # {} => g.homonym
             /\ \A c \in clusters : c.members \intersect p # {} => c.conflict = "homonym"
    BY <1>1, <1>2, <2>3 DEF Tied
  <2> QED
    BY <1>4, <2>1, <2>2, <2>3 DEF Tied
<1>5. Ties'
  BY <1>1, <1>4 DEF Ties, LinkedPair
<1> QED
  BY <1>3, <1>5

LEMMA CutTies ==
    ASSUME LInv, Homonyms, Ties, NEW group \in work, Cut(group)
    PROVE  Homonyms' /\ Ties'
<1> DEFINE left  == WithoutWeakest(group)
           parts == Components(group.ids, left)
           part(C) == [ids |-> C, edges |-> left, homonym |-> group.homonym]
<1>1. /\ stage = "split" /\ UNCHANGED <<edges, record, clusters>>
      /\ work' = (work \ {group}) \union {part(C) : C \in parts}
      /\ AnySignalFires(RecordsOf(group.ids))
  BY DEF Cut, input
<1>2. group.homonym
  BY <1>1 DEF Homonyms
<1>3. \A C \in parts : C \subseteq group.ids
  BY ComponentsPartition
<1>4. \A C : part(C).ids = C /\ part(C).homonym
  BY <1>2
<1> HIDE DEF part, parts
<1>5. \A g \in work' : \/ g \in work /\ g # group
                       \/ g.ids \subseteq group.ids /\ g.homonym
  BY <1>1, <1>3, <1>4
<1>6. /\ \A g \in work : g # group => g.ids \intersect group.ids = {}
      /\ \A c \in clusters : c.members \intersect group.ids = {}
  BY <1>1 DEF LInv, GroupsPartitionLinked
<1>7. Homonyms'
  BY <1>1, <1>5 DEF Homonyms, RecordsOf
<1>8. ASSUME NEW p, Tied(p) PROVE Tied(p)'
  <2>1. CASE p \subseteq group.ids
    <3>1. \A g \in work' : g.ids \intersect p # {} => g.homonym
      BY <1>5, <1>6, <2>1
    <3>2. \A c \in clusters' : c.members \intersect p = {}
      BY <1>1, <1>6, <2>1
    <3> QED
      BY <3>1, <3>2 DEF Tied
  <2>2. CASE \E g \in work : g # group /\ p \subseteq g.ids
    BY <1>1, <2>2 DEF Tied
  <2>3. CASE \E c \in clusters : p \subseteq c.members
    BY <1>1, <2>3 DEF Tied
  <2>4. CASE /\ \A g \in work : g.ids \intersect p # {} => g.homonym
             /\ \A c \in clusters : c.members \intersect p # {} => c.conflict = "homonym"
    BY <1>1, <1>5, <2>4 DEF Tied
  <2> QED
    BY <1>8, <2>1, <2>2, <2>3, <2>4 DEF Tied
<1>9. Ties'
  BY <1>1, <1>8 DEF Ties, LinkedPair
<1> QED
  BY <1>7, <1>9

-----------------------------------------------------------------------------
(* What has been decided, what is still to be, and what became of it.      *)
PInv == Loop /\ Seen /\ Awaited /\ Splitting

LEMMA InitPInv == Init => PInv
<1> SUFFICES ASSUME Init PROVE PInv
  OBVIOUS
<1>1. <<>> \in Seq(Range(<<>>)) /\ DOMAIN <<>> = {}
  OBVIOUS
<1> QED
  BY <1>1 DEF Init, PInv, Loop, Seen, Awaited, Splitting

LEMMA SeenStays ==
    ASSUME Seen, UNCHANGED <<profiled, seen, edges, review>>
    PROVE  Seen'
<1>1. ASSUME NEW a, NEW b, Decided(a, b) PROVE Decided(a, b)'
  <2>1. \A p : LinkedPair(p) => LinkedPair(p)'
    BY DEF LinkedPair
  <2>2. \A p : OnceIn(review, p) => OnceIn(review, p)'
    OBVIOUS
  <2>3. Similarity(profiled[a], profiled[b]) = Similarity(profiled'[a], profiled'[b])
    OBVIOUS
  <2> QED
    BY <1>1, <2>1, <2>2, <2>3 DEF Decided
<1> QED
  BY <1>1 DEF Seen

(* When the loop over the pairs is not at work, what it did stays.         *)
LEMMA LoopStays ==
    ASSUME Loop, Seen, Awaited, UNCHANGED <<input, profiled, blocks, at, seen, edges, review>>,
           stage \notin {"parsed", "profiled"}, stage' \notin {"parsed", "profiled"},
           stage' \in {"split", "export"} => blocks = <<>>
    PROVE  Loop' /\ Seen' /\ Awaited'
<1>1. Loop'
  BY DEF Loop, input
<1>2. Seen'
  BY SeenStays
<1>3. Awaited'
  BY DEF Awaited, Comparable, Ahead, From, input
<1> QED
  BY <1>1, <1>2, <1>3

THEOREM NextPInv == LInv /\ PInv /\ [Next]_vars => PInv'
<1> SUFFICES ASSUME LInv, PInv, [Next]_vars PROVE PInv'
  OBVIOUS
<1>1. CASE ProfileRecords
  <2>1. /\ stage = "parsed" /\ stage' = "profiled" /\ UNCHANGED triage
        /\ UNCHANGED <<input, blocks, at, seen, edges, review>>
    BY <1>1 DEF ProfileRecords
  <2>2. seen = {} /\ review = <<>> /\ DOMAIN review = {}
    BY <2>1 DEF PInv, Loop
  <2> QED
    BY <2>1, <2>2 DEF PInv, Loop, Seen, Awaited, Splitting, input
<1>2. CASE BuildBlocks
  <2>1. Loop' /\ Awaited'
    BY <1>2, BuildBlocksAwaits DEF PInv
  <2>2. /\ stage = "profiled" /\ stage' = "compare"
        /\ UNCHANGED <<input, profiled, seen, edges, review, triage>>
    BY <1>2 DEF BuildBlocks
  <2>3. Seen'
    BY <2>2, SeenStays DEF PInv
  <2> QED
    BY <2>1, <2>2, <2>3 DEF PInv, Splitting
<1>3. CASE Compare
  <2>1. Loop' /\ Seen' /\ Awaited'
    BY <1>3, CompareKeeps DEF PInv
  <2>2. stage = "compare" /\ stage' = "compare" /\ UNCHANGED triage
    BY <1>3 DEF Compare
  <2> QED
    BY <2>1, <2>2 DEF PInv, Splitting
<1>4. CASE Link
  <2>1. /\ stage = "compare" /\ stage' = "split" /\ blocks = <<>> /\ UNCHANGED triage
        /\ UNCHANGED <<input, profiled, blocks, at, seen, edges, review>>
    BY <1>4 DEF Link
  <2>2. Loop' /\ Seen' /\ Awaited'
    BY <2>1, LoopStays DEF PInv
  <2> QED
    BY <1>4, <2>1, <2>2, LinkTies DEF PInv, Splitting
<1>5. ASSUME NEW group \in work, Keep(group) \/ Cut(group) PROVE PInv'
  <2>1. /\ stage = "split" /\ stage' = "split" /\ UNCHANGED triage
        /\ UNCHANGED <<input, profiled, blocks, at, seen, edges, review>>
    BY <1>5 DEF Keep, Cut
  <2>2. Loop' /\ Seen' /\ Awaited'
    BY <2>1, LoopStays DEF PInv, Loop
  <2>3. Homonyms /\ Ties
    BY <2>1 DEF PInv, Splitting
  <2>4. Homonyms' /\ Ties'
    BY <1>5, <2>3, KeepTies, CutTies
  <2> QED
    BY <2>1, <2>2, <2>4 DEF PInv, Splitting
<1>6. CASE Export
  <2>1. /\ stage = "split" /\ stage' = "export" /\ work = {}
        /\ UNCHANGED <<input, profiled, blocks, at, seen, edges, review, work, clusters>>
        /\ triage' = triage \o [i \in DOMAIN review |-> review[i].pair]
    BY <1>6 DEF Export
  <2>2. Loop' /\ Seen' /\ Awaited'
    BY <2>1, LoopStays DEF PInv, Loop
  <2>3. Homonyms' /\ Ties'
    BY <2>1 DEF PInv, Splitting, Homonyms, Ties, Tied, LinkedPair, RecordsOf, input
  <2>4. triage' = [i \in DOMAIN review |-> review[i].pair]
    <3> DEFINE f == [i \in DOMAIN review |-> review[i].pair]
    <3>1. DOMAIN review = 1..Len(review) /\ Len(review) \in Nat
      BY DEF PInv, Loop
    <3>2. f \in Seq({f[i] : i \in DOMAIN review})
      BY <3>1
    <3>3. triage = <<>>
      BY <2>1 DEF PInv, Splitting
    <3> HIDE DEF f
    <3>4. triage' = <<>> \o f
      BY <2>1, <3>3 DEF f
    <3>5. triage' = f
      BY <3>2, <3>4
    <3> QED
      BY <3>5 DEF f
  <2> QED
    BY <2>1, <2>2, <2>3, <2>4 DEF PInv, Splitting
<1>7. CASE UNCHANGED vars
  <2>1. Loop'
    BY <1>7 DEF PInv, Loop, vars, input
  <2>2. Seen'
    BY <1>7, SeenStays DEF PInv, vars
  <2>3. Awaited'
    BY <1>7 DEF PInv, Awaited, Comparable, Ahead, From, vars, input
  <2>4. Splitting'
    BY <1>7 DEF PInv, Splitting, Homonyms, Ties, Tied, LinkedPair, RecordsOf, vars, input
  <2> QED
    BY <2>1, <2>2, <2>3, <2>4 DEF PInv
<1> QED
  BY <1>1, <1>2, <1>3, <1>4, <1>5, <1>6, <1>7 DEF Next, Done

LEMMA PairsFollow == LInv /\ PInv => ComparablePairsAreDecided
<1> SUFFICES ASSUME LInv, PInv, stage = "export", NEW a \in Attr, NEW b \in Attr,
                    a # b, Comparable(a, b)
             PROVE  LET score == Similarity(profiled[a], profiled[b])
                    IN  /\ score >= LinkThreshold =>
                              Together(a, b) \/ (Homonym(a) /\ Homonym(b))
                        /\ score < LinkThreshold /\ score >= ReviewBandLow =>
                              Cardinality({i \in DOMAIN triage : triage[i] = {a, b}}) = 1
  BY DEF ComparablePairsAreDecided
<1> DEFINE p == {a, b}
<1>1. p \in seen
  <2>1. blocks = <<>> /\ DOMAIN blocks = {}
    BY DEF PInv, Loop
  <2> QED
    BY <2>1 DEF PInv, Awaited, Ahead
<1>2. Decided(a, b)
  BY <1>1 DEF PInv, Seen
<1>3. work = {} /\ triage = [i \in DOMAIN review |-> review[i].pair] /\ Ties
  BY DEF PInv, Splitting
<1>4. ASSUME LinkedPair(p) PROVE Together(a, b) \/ (Homonym(a) /\ Homonym(b))
  <2>1. Tied(p)
    BY <1>3, <1>4 DEF Ties
  <2>2. CASE \E c \in clusters : p \subseteq c.members
    BY <2>2 DEF Together, GroupsBuilt
  <2>3. CASE \A c \in clusters : c.members \intersect p # {} => c.conflict = "homonym"
    <3>1. p \subseteq Linked
      BY <1>4 DEF LinkedPair, Linked
    <3>2. Linked = UNION GroupsBuilt
      BY <1>3 DEF LInv, GroupsPartitionLinked, GroupsLeft
    <3>3. (\E c \in clusters : a \in c.members) /\ (\E c \in clusters : b \in c.members)
      BY <3>1, <3>2 DEF GroupsBuilt
    <3> QED
      BY <2>3, <3>3 DEF Homonym
  <2> QED
    BY <1>3, <2>1, <2>2, <2>3 DEF Tied
<1>5. ASSUME OnceIn(review, p)
      PROVE  Cardinality({i \in DOMAIN triage : triage[i] = p}) = 1
  <2>1. PICK i \in DOMAIN review : \A j \in DOMAIN review : review[j].pair = p <=> j = i
    BY <1>5 DEF OnceIn
  <2>2. {j \in DOMAIN triage : triage[j] = p} = {i}
    BY <1>3, <2>1
  <2>3. \A S : Cardinality(S) = FST!Cardinality(S)
    BY DEF Cardinality, FST!Cardinality
  <2> QED
    BY <2>2, <2>3, FST!FS_Singleton
<1> QED
  BY <1>2, <1>4, <1>5 DEF Decided

(* Two attributes that share a blocking head, in a block that is not cut   *)
(* to size, are compared and decided once: over the threshold they end in  *)
(* one cluster unless a split took both apart, in the band they are put to *)
(* people once (run_clustering, build_blocks, dedupe_blocks).              *)
THEOREM PairsAreDecided == Spec => []ComparablePairsAreDecided
<1>1. Init => LInv /\ PInv
  BY InitLInv, InitPInv
<1>2. LInv /\ PInv /\ [Next]_vars => (LInv /\ PInv)'
  BY NextLInv, NextPInv
<1> QED
  BY <1>1, <1>2, PairsFollow, PTL DEF Spec
=============================================================================
