-------------------------- MODULE SelectionProofs --------------------------
(***************************************************************************)
(* Facts about positions, recursive functions over them, and what Only     *)
(* keeps of a sequence.  The induction theorems of the library take the    *)
(* property as an operator; here it is the set of the numbers that have    *)
(* the property, which the provers can instantiate.                        *)
(***************************************************************************)
EXTENDS Selection, Integers, TLAPS
LOCAL INSTANCE FiniteSetsExt
LOCAL INSTANCE SequencesExt
FST == INSTANCE FiniteSetTheorems

(* A set of positions of a sequence has a last one.                        *)
LEMMA LastPosition ==
    ASSUME NEW n \in Nat, NEW S \in SUBSET (1..n), S # {}
    PROVE  Max(S) \in S /\ \A i \in S : i <= Max(S)
<1> DEFINE T == {i..n : i \in S}
           R == FST!StrictSubsetOrdering(Nat)
           U == FST!FiniteSubsetsOf(Nat)
<1>1. T \subseteq U /\ T # {}
  <2>1. \A i \in S : i..n \in U
    BY FST!FS_Interval DEF FST!FiniteSubsetsOf
  <2> HIDE DEF U
  <2> QED
    BY <2>1
<1>2. FST!IsWellFoundedOn(R, U)
  BY FST!FS_StrictSubsetOrderingWellFounded
<1>3. \A A, B \in SUBSET Nat : A \subseteq B /\ A # B => <<A, B>> \in R
  BY DEF FST!StrictSubsetOrdering
<1> HIDE DEF R, U
<1>4. T \subseteq SUBSET Nat
  OBVIOUS
<1>5. PICK m \in T : \A y \in T : ~(<<y, m>> \in R)
  <2> HIDE DEF T
  <2> QED
    BY <1>1, <1>2, FST!WFMin
<1>6. PICK i \in S : m = i..n
  OBVIOUS
<1>7. ASSUME NEW j \in S, ~(i >= j) PROVE FALSE
  <2>1. j..n \subseteq i..n /\ i \in i..n /\ i \notin j..n
    BY <1>7
  <2>2. j..n \in T
    OBVIOUS
  <2> QED
    BY <1>3, <1>4, <1>5, <1>6, <2>1, <2>2
<1> QED
  BY <1>7 DEF Max

(* Induction over the natural numbers up to n, for a set of them.          *)
LEMMA Induction ==
    ASSUME NEW n \in Nat, NEW S,
           0 \in S, \A i \in 1..n : i - 1 \in S => i \in S
    PROVE  0..n \subseteq S
<1> DEFINE Bad == {j \in 1..n : n + 1 - j \notin S}
<1>1. SUFFICES ASSUME NEW k \in 0..n, k \notin S PROVE FALSE
  OBVIOUS
<1>2. n + 1 - k \in Bad
  BY <1>1
<1>3. Max(Bad) \in Bad /\ \A j \in Bad : j <= Max(Bad)
  <2>1. Bad \in SUBSET (1..n) /\ Bad # {}
    BY <1>2
  <2> HIDE DEF Bad
  <2> QED
    BY <2>1, LastPosition
<1> DEFINE m == n + 1 - Max(Bad)
<1>4. m \in 1..n /\ m \notin S /\ \A j \in Bad : j <= Max(Bad)
  BY <1>3
<1>5. m - 1 \in S
  <2>1. CASE m = 1
    BY <2>1
  <2>2. CASE m # 1
    <3>1. Max(Bad) + 1 \notin Bad /\ Max(Bad) \in 1..n
      BY <1>3
    <3>2. Max(Bad) + 1 \in 1..n
      BY <1>4, <2>2, <3>1
    <3> QED
      BY <3>1, <3>2
  <2> QED
    BY <2>1, <2>2
<1> QED
  BY <1>4, <1>5

(* A function defined by recursion on the positions of a sequence exists.  *)
Recurses(f, n, V, base, step) ==
    /\ f \in [0..n -> V]
    /\ f[0] = base
    /\ \A i \in 1..n : f[i] = step[i][f[i - 1]]

LEMMA RecursionDefined ==
    ASSUME NEW n \in Nat, NEW V, NEW base \in V, NEW step \in [1..n -> [V -> V]]
    PROVE  \E f : Recurses(f, n, V, base, step)
<1> DEFINE Good == {k \in 0..n : \E f : Recurses(f, k, V, base, step)}
<1>1. 0 \in Good
  <2> DEFINE g == [i \in 0..0 |-> base]
  <2>1. Recurses(g, 0, V, base, step)
    BY DEF Recurses
  <2> HIDE DEF g
  <2> QED
    BY <2>1
<1>2. ASSUME NEW k \in 1..n, k - 1 \in Good PROVE k \in Good
  <2>1. PICK f : Recurses(f, k - 1, V, base, step)
    BY <1>2
  <2> DEFINE g == [i \in 0..k |-> IF i = k THEN step[k][f[k - 1]] ELSE f[i]]
  <2>2. step[k][f[k - 1]] \in V
    BY <2>1 DEF Recurses
  <2>3. Recurses(g, k, V, base, step)
    BY <2>1, <2>2 DEF Recurses
  <2>4. k \in 0..n
    OBVIOUS
  <2> HIDE DEF g
  <2> QED
    BY <2>3, <2>4
<1>3. 0..n \subseteq Good
  <2> HIDE DEF Good
  <2> QED
    BY <1>1, <1>2, Induction
<1> QED
  BY <1>3

-----------------------------------------------------------------------------
(* What is kept of s are its elements at certain positions: those whose     *)
(* element is in T, in their order.                                         *)
Selects(p, G, s, T) ==
    /\ p \in [DOMAIN G -> DOMAIN s]
    /\ \A i, j \in DOMAIN G : i < j => p[i] < p[j]
    /\ \A j \in DOMAIN G : G[j] = s[p[j]] /\ G[j] \in T
    /\ \A i \in DOMAIN s : s[i] \in T => \E j \in DOMAIN G : p[j] = i

IsKept(f, n, s, T) ==
    f = [i \in 0..n |-> IF i = 0 THEN <<>>
            ELSE IF s[i] \in T THEN Append(f[i - 1], s[i]) ELSE f[i - 1]]

LEMMA KeptDefined ==
    ASSUME NEW S, NEW n \in Nat, NEW s \in [1..n -> S], NEW T
    PROVE  \E f : f \in [0..n -> Seq(S)] /\ IsKept(f, n, s, T)
<1> DEFINE V == Seq(S)
           base == <<>>
           Step(i) == [v \in V |-> IF s[i] \in T THEN Append(v, s[i]) ELSE v]
           step == [i \in 1..n |-> Step(i)]
           Next(f, i) == IF i = 0 THEN base
                         ELSE IF s[i] \in T THEN Append(f[i - 1], s[i]) ELSE f[i - 1]
<1>1. ASSUME NEW i \in 1..n PROVE Step(i) \in [V -> V]
  BY s[i] \in S
<1>2. step \in [1..n -> [V -> V]]
  <2> HIDE DEF Step, V
  <2> QED
    BY <1>1
<1>3. PICK f : Recurses(f, n, V, base, step)
  <2>1. base \in V
    OBVIOUS
  <2> HIDE DEF step, V, base
  <2> QED
    BY <1>2, <2>1, RecursionDefined
<1>4. ASSUME NEW i \in 0..n PROVE f[i] = Next(f, i)
  <2>1. CASE i = 0
    BY <1>3, <2>1 DEF Recurses
  <2>2. CASE i \in 1..n
    <3>1. f[i - 1] \in V
      BY <1>3, <2>2 DEF Recurses
    <3>2. f[i] = step[i][f[i - 1]]
      BY <1>3, <2>2 DEF Recurses
    <3> HIDE DEF V, base
    <3> QED
      BY <3>2, <2>2, <3>1
  <2> QED
    BY <2>1, <2>2
<1>5. f \in [0..n -> V] /\ f = [i \in 0..n |-> Next(f, i)]
  <2> HIDE DEF Next, V
  <2> QED
    BY <1>3, <1>4 DEF Recurses
<1> QED
  BY <1>5 DEF IsKept

LEMMA KeptSteps ==
    ASSUME NEW n \in Nat, NEW s, NEW T, NEW f, IsKept(f, n, s, T)
    PROVE  /\ f[0] = <<>>
           /\ \A i \in 1..n : f[i] = IF s[i] \in T THEN Append(f[i - 1], s[i]) ELSE f[i - 1]
<1> DEFINE Step(i) == IF s[i] \in T THEN Append(f[i - 1], s[i]) ELSE f[i - 1]
           Next(i) == IF i = 0 THEN <<>> ELSE Step(i)
<1>1. f = [i \in 0..n |-> Next(i)]
  BY DEF IsKept
<1>2. Next(0) = <<>> /\ \A i \in 1..n : Next(i) = Step(i)
  <2> HIDE DEF Step
  <2> QED
    OBVIOUS
<1> HIDE DEF Next
<1>3. f[0] = Next(0) /\ \A i \in 1..n : f[i] = Next(i)
  <2>1. \A i \in 0..n : f[i] = Next(i)
    BY <1>1
  <2>2. 0 \in 0..n /\ 1..n \subseteq 0..n
    OBVIOUS
  <2> QED
    BY <2>1, <2>2
<1> QED
  BY <1>2, <1>3

LEMMA OnlySelects ==
    ASSUME NEW S, NEW s \in Seq(S), NEW T
    PROVE  Only(s, T) \in Seq(S) /\ \E p : Selects(p, Only(s, T), s, T)
<1> DEFINE n == Len(s)
           kept[i \in 0..n] ==
               IF i = 0 THEN <<>>
               ELSE IF s[i] \in T THEN Append(kept[i - 1], s[i]) ELSE kept[i - 1]
<1>1. n \in Nat /\ s \in [1..n -> S] /\ Only(s, T) = kept[n]
  BY DEF Only
<1>2. IsKept(kept, n, s, T)
  <2> HIDE DEF n
  <2>1. \E f : IsKept(f, n, s, T)
    <3> HIDE DEF kept
    <3> QED
      BY <1>1, KeptDefined
  <2> QED
    BY <2>1 DEF IsKept
<1> HIDE DEF n, kept
<1> DEFINE Sel(k) == /\ kept[k] \in Seq(S)
                     /\ \E p : /\ p \in [DOMAIN kept[k] -> 1..k]
                               /\ \A i, j \in DOMAIN kept[k] : i < j => p[i] < p[j]
                               /\ \A j \in DOMAIN kept[k] : kept[k][j] = s[p[j]] /\ kept[k][j] \in T
                               /\ \A i \in 1..k : s[i] \in T => \E j \in DOMAIN kept[k] : p[j] = i
           Good == {k \in 0..n : Sel(k)}
<1>3. kept[0] = <<>> /\ \A i \in 1..n : kept[i] =
         IF s[i] \in T THEN Append(kept[i - 1], s[i]) ELSE kept[i - 1]
  BY <1>1, <1>2, KeptSteps
<1>4. 0 \in Good
  <2> DEFINE p == [j \in {} |-> 0]
  <2>1. kept[0] \in Seq(S) /\ DOMAIN kept[0] = {} /\ p \in [{} -> 1..0] /\ 1..0 = {}
    BY <1>3
  <2> HIDE DEF p
  <2>2. Sel(0)
    BY <2>1
  <2> HIDE DEF Sel
  <2> QED
    BY <1>1, <2>2
<1>5. ASSUME NEW k \in 1..n, k - 1 \in Good PROVE k \in Good
  <2> DEFINE G == kept[k - 1]
  <2>1. G \in Seq(S) /\ k \in 0..n /\ s[k] \in S
    BY <1>1, <1>5
  <2>2. PICK p : /\ p \in [DOMAIN G -> 1..(k - 1)]
                 /\ \A i, j \in DOMAIN G : i < j => p[i] < p[j]
                 /\ \A j \in DOMAIN G : G[j] = s[p[j]] /\ G[j] \in T
                 /\ \A i \in 1..(k - 1) : s[i] \in T => \E j \in DOMAIN G : p[j] = i
    BY <1>5
  <2> HIDE DEF G
  <2>3. CASE s[k] \notin T
    <3>1. kept[k] = G
      BY <1>3, <2>3 DEF G
    <3>2. Sel(k)
      BY <2>1, <2>2, <2>3, <3>1
    <3> HIDE DEF Sel
    <3> QED
      BY <2>1, <3>2
  <2>4. CASE s[k] \in T
    <3> DEFINE H == Append(G, s[k])
               q == [j \in DOMAIN H |-> IF j \in DOMAIN G THEN p[j] ELSE k]
    <3>1. kept[k] = H
      BY <1>3, <2>4 DEF G
    <3>2. H \in Seq(S) /\ DOMAIN G = 1..Len(G) /\ Len(G) \in Nat /\ DOMAIN H = 1..(Len(G) + 1)
      BY <2>1
    <3>3. H[Len(G) + 1] = s[k] /\ \A j \in DOMAIN G : H[j] = G[j]
      BY <2>1
    <3> HIDE DEF H
    <3>4. /\ q \in [DOMAIN H -> 1..k]
          /\ \A i, j \in DOMAIN H : i < j => q[i] < q[j]
      BY <2>2, <3>2
    <3>5. \A j \in DOMAIN H : H[j] = s[q[j]] /\ H[j] \in T
      BY <2>2, <2>4, <3>2, <3>3
    <3>6. ASSUME NEW i \in 1..k, s[i] \in T PROVE \E j \in DOMAIN H : q[j] = i
      <4>1. CASE i = k
        <5>1. Len(G) + 1 \in DOMAIN H /\ Len(G) + 1 \notin DOMAIN G
          BY <3>2
        <5>2. q[Len(G) + 1] = k
          BY <5>1
        <5> QED
          BY <4>1, <5>1, <5>2
      <4>2. CASE i # k
        BY <2>2, <3>2, <3>6, <4>2
      <4> QED
        BY <4>1, <4>2
    <3> HIDE DEF q
    <3>7. Sel(k)
      BY <3>1, <3>2, <3>4, <3>5, <3>6
    <3> HIDE DEF Sel
    <3> QED
      BY <2>1, <3>7
  <2> QED
    BY <2>3, <2>4
<1>6. n \in Good
  <2> HIDE DEF Good
  <2>1. 0..n \subseteq Good
    BY <1>1, <1>4, <1>5, Induction
  <2> QED
    BY <1>1, <2>1
<1>7. DOMAIN s = 1..n
  BY <1>1
<1> QED
  BY <1>1, <1>6, <1>7 DEF Selects

(* Membership, without positions.                                          *)
LEMMA OnlyRange ==
    ASSUME NEW S, NEW s \in Seq(S), NEW T
    PROVE  Range(Only(s, T)) = Range(s) \intersect T
<1> DEFINE G == Only(s, T)
<1>1. PICK p : Selects(p, G, s, T)
  BY OnlySelects
<1> HIDE DEF G
<1>2. ASSUME NEW j \in DOMAIN G PROVE G[j] \in Range(s) \intersect T
  BY <1>1, <1>2 DEF Selects, Range
<1>3. ASSUME NEW i \in DOMAIN s, s[i] \in T PROVE s[i] \in Range(G)
  BY <1>1, <1>3 DEF Selects, Range
<1>4. Range(G) = Range(s) \intersect T
  BY <1>2, <1>3 DEF Range
<1> QED
  BY <1>4 DEF G

(* Where an element is kept, what comes later comes from later.            *)
LEMMA OnlyOrdered ==
    ASSUME NEW S, NEW s \in Seq(S), NEW T, NEW i \in DOMAIN s, s[i] \in T
    PROVE  \E x \in DOMAIN Only(s, T) :
              /\ Only(s, T)[x] = s[i]
              /\ \A y \in DOMAIN Only(s, T) : y > x =>
                    \E j \in DOMAIN s : j > i /\ s[j] \in T /\ Only(s, T)[y] = s[j]
<1> DEFINE G == Only(s, T)
<1>1. PICK p : Selects(p, G, s, T)
  BY OnlySelects
<1>2. DOMAIN G \subseteq Int /\ DOMAIN s \subseteq Int
  <2>1. G \in Seq(S)
    BY OnlySelects
  <2> HIDE DEF G
  <2> QED
    BY <2>1
<1> HIDE DEF G
<1>3. PICK x \in DOMAIN G : p[x] = i
  BY <1>1 DEF Selects
<1>4. G[x] = s[i]
  BY <1>1, <1>3 DEF Selects
<1>5. ASSUME NEW y \in DOMAIN G, y > x
      PROVE  p[y] \in DOMAIN s /\ p[y] > i /\ s[p[y]] \in T /\ G[y] = s[p[y]]
  <2>1. x < y
    BY <1>2, <1>5
  <2>2. p[x] < p[y] /\ p[y] \in DOMAIN s /\ G[y] = s[p[y]] /\ G[y] \in T
    BY <1>1, <2>1 DEF Selects
  <2> QED
    BY <1>2, <1>3, <2>2
<1> QED
  BY <1>3, <1>4, <1>5 DEF G

LEMMA OnlyOrderedTwice ==
    ASSUME NEW S, NEW s \in Seq(S), NEW T, NEW W,
           NEW i \in DOMAIN s, s[i] \in T, s[i] \in W
    PROVE  LET G == Only(Only(s, T), W)
           IN  \E x \in DOMAIN G :
                  /\ G[x] = s[i]
                  /\ \A y \in DOMAIN G : y > x =>
                        \E j \in DOMAIN s : j > i /\ s[j] \in T /\ s[j] \in W /\ G[y] = s[j]
<1> DEFINE H == Only(s, T)
           G == Only(H, W)
<1>1. PICK h \in DOMAIN H :
         /\ H[h] = s[i]
         /\ \A y \in DOMAIN H : y > h => \E j \in DOMAIN s : j > i /\ s[j] \in T /\ H[y] = s[j]
  BY OnlyOrdered
<1>2. H \in Seq(S)
  BY OnlySelects
<1> HIDE DEF H
<1>3. PICK x \in DOMAIN G :
         /\ G[x] = H[h]
         /\ \A y \in DOMAIN G : y > x => \E j \in DOMAIN H : j > h /\ H[j] \in W /\ G[y] = H[j]
  BY <1>1, <1>2, OnlyOrdered
<1> HIDE DEF G
<1>4. \A y \in DOMAIN G : y > x =>
         \E j \in DOMAIN s : j > i /\ s[j] \in T /\ s[j] \in W /\ G[y] = s[j]
  BY <1>1, <1>3
<1>5. G[x] = s[i]
  BY <1>1, <1>3
<1> QED
  BY <1>4, <1>5 DEF G, H

(* A list of lists, joined: what there is after each of them.              *)
LEMMA FlattenSteps ==
    ASSUME NEW S, NEW ss \in Seq(Seq(S)), ss # <<>>
    PROVE  \E f : /\ FlattenSeq(ss) = f[Len(ss)]
                  /\ \A i \in 1..Len(ss) :
                        /\ f[i] = IF i = 1 THEN ss[i] ELSE f[i - 1] \o ss[i]
                        /\ f[i] \in Seq(S)
<1> DEFINE n == Len(ss)
           V == Seq(S)
           step == [i \in 1..n |-> [v \in V |-> v \o ss[i]]]
           flatten[i \in 1..n] == IF i = 1 THEN ss[i] ELSE flatten[i - 1] \o ss[i]
           Fits(f) == f = [i \in 1..n |-> IF i = 1 THEN ss[i] ELSE f[i - 1] \o ss[i]]
<1>1. n \in Nat /\ n # 0 /\ n \in 1..n /\ \A i \in 1..n : ss[i] \in V
  OBVIOUS
<1>2. FlattenSeq(ss) = flatten[n]
  BY <1>1 DEF FlattenSeq
<1> HIDE DEF n
<1>3. step \in [1..n -> [V -> V]]
  BY <1>1
<1>4. PICK g : Recurses(g, n, V, <<>>, step)
  <2>1. <<>> \in V
    OBVIOUS
  <2> HIDE DEF V, step
  <2> QED
    BY <1>1, <1>3, <2>1, RecursionDefined
<1>5. ASSUME NEW i \in 1..n
      PROVE  g[i] = IF i = 1 THEN ss[i] ELSE g[i - 1] \o ss[i]
  <2>1. g[i - 1] \in V /\ g[0] = <<>> /\ g[i] = step[i][g[i - 1]]
    <3>1. i - 1 \in 0..n
      BY <1>1
    <3> HIDE DEF V, step
    <3> QED
      BY <1>4, <3>1 DEF Recurses
  <2>2. g[i] = g[i - 1] \o ss[i]
    <3> HIDE DEF V
    <3> QED
      BY <2>1
  <2>3. CASE i = 1
    <3>1. g[i - 1] = <<>>
      BY <2>1, <2>3
    <3>2. <<>> \o ss[i] = ss[i]
      BY <1>1
    <3> HIDE DEF V
    <3> QED
      BY <2>2, <2>3, <3>1, <3>2
  <2> QED
    BY <2>2, <2>3
<1>6. \E f : Fits(f)
  <2> DEFINE h == [i \in 1..n |-> g[i]]
  <2>1. ASSUME NEW i \in 1..n
        PROVE  h[i] = IF i = 1 THEN ss[i] ELSE h[i - 1] \o ss[i]
    <3>1. h[i] = g[i] /\ (i # 1 => h[i - 1] = g[i - 1])
      BY <1>1
    <3> QED
      BY <1>5, <3>1
  <2> HIDE DEF h
  <2>2. Fits(h)
    BY <2>1 DEF h
  <2> HIDE DEF Fits
  <2> QED
    BY <2>2
<1>7. Fits(flatten)
  BY <1>6
<1> HIDE DEF flatten
<1>8. \A i \in 1..n : flatten[i] = IF i = 1 THEN ss[i] ELSE flatten[i - 1] \o ss[i]
  BY <1>7
<1> DEFINE Good == {0} \union {i \in 1..n : flatten[i] \in V}
<1>9. ASSUME NEW i \in 1..n, i - 1 \in Good PROVE i \in Good
  <2>1. i # 1 => flatten[i - 1] \in V
    BY <1>1, <1>9
  <2>2. flatten[i] = IF i = 1 THEN ss[i] ELSE flatten[i - 1] \o ss[i]
    BY <1>8
  <2>3. \A v, w \in V : v \o w \in V
    OBVIOUS
  <2> HIDE DEF V
  <2>4. flatten[i] \in V
    BY <1>1, <2>1, <2>2, <2>3
  <2> QED
    BY <2>4
<1>10. 0..n \subseteq Good
  <2>1. 0 \in Good
    OBVIOUS
  <2> HIDE DEF Good
  <2> QED
    BY <1>1, <1>9, <2>1, Induction
<1>11. \A i \in 1..n : flatten[i] \in V
  <2>1. \A i \in 1..n : i # 0 /\ i \in 0..n
    BY <1>1
  <2> HIDE DEF V
  <2> QED
    BY <1>10, <2>1
<1> QED
  BY <1>1, <1>2, <1>8, <1>11 DEF n

LEMMA FlattenSeqType ==
    ASSUME NEW S, NEW ss \in Seq(Seq(S))
    PROVE  FlattenSeq(ss) \in Seq(S)
<1>1. CASE ss = <<>>
  BY <1>1 DEF FlattenSeq
<1>2. CASE ss # <<>>
  <2>1. Len(ss) \in 1..Len(ss)
    BY <1>2
  <2> QED
    BY <1>2, <2>1, FlattenSteps
<1> QED
  BY <1>1, <1>2

HasElement(v, e) == \E x \in DOMAIN v : v[x] = e

(* What a list has, it has when another is joined to it on either side.    *)
LEMMA JoinHolds ==
    ASSUME NEW S, NEW v \in Seq(S), NEW w \in Seq(S), NEW e, HasElement(v, e) \/ HasElement(w, e)
    PROVE  HasElement(v \o w, e)
<1>1. ASSUME NEW x \in DOMAIN v PROVE x \in DOMAIN (v \o w) /\ (v \o w)[x] = v[x]
  OBVIOUS
<1>2. ASSUME NEW x \in DOMAIN w
      PROVE  Len(v) + x \in DOMAIN (v \o w) /\ (v \o w)[Len(v) + x] = w[x]
  OBVIOUS
<1> QED
  BY <1>1, <1>2 DEF HasElement

LEMMA FlattenHolds ==
    ASSUME NEW S, NEW ss \in Seq(Seq(S)), NEW i \in DOMAIN ss, NEW j \in DOMAIN ss[i]
    PROVE  HasElement(FlattenSeq(ss), ss[i][j])
<1> DEFINE n == Len(ss)
<1>1. n \in Nat /\ i \in 1..n /\ n \in 1..n /\ ss # <<>> /\ \A k \in 1..n : ss[k] \in Seq(S)
  OBVIOUS
<1>2. PICK f : /\ FlattenSeq(ss) = f[n]
               /\ \A k \in 1..n : /\ f[k] = IF k = 1 THEN ss[k] ELSE f[k - 1] \o ss[k]
                                  /\ f[k] \in Seq(S)
  BY <1>1, FlattenSteps
<1> HIDE DEF n
<1> DEFINE e == ss[i][j]
           Good == {k \in 0..n : k >= i => HasElement(f[k], e)}
<1>3. HasElement(ss[i], e)
  BY DEF HasElement
<1> HIDE DEF e
<1>4. ASSUME NEW k \in 1..n, k - 1 \in Good, k >= i PROVE HasElement(f[k], e)
  <2>1. k = i \/ (k # i /\ k - 1 >= i)
    BY <1>1, <1>4
  <2>2. k = i \/ HasElement(f[k - 1], e)
    BY <1>4, <2>1
  <2>3. CASE k = 1
    <3>1. f[k] = ss[k]
      BY <1>2, <2>3
    <3>2. k = i
      BY <1>1, <1>4, <2>3
    <3> QED
      BY <1>3, <3>1, <3>2
  <2>4. CASE k # 1
    <3>1. k - 1 \in 1..n
      BY <1>1, <2>4
    <3>2. f[k - 1] \in Seq(S) /\ ss[k] \in Seq(S)
      BY <1>1, <1>2, <3>1
    <3>3. f[k] = f[k - 1] \o ss[k]
      BY <1>2, <2>4, Zenon
    <3> QED
      BY JoinHolds, <1>3, <2>2, <3>2, <3>3
  <2> QED
    BY <2>3, <2>4
<1>5. 0..n \subseteq Good
  <2>1. 0 \in Good
    BY <1>1
  <2>2. \A k \in 1..n : k - 1 \in Good => k \in Good
    BY <1>1, <1>4
  <2> HIDE DEF Good
  <2> QED
    BY <1>1, <2>1, <2>2, Induction
<1>6. HasElement(f[n], e)
  BY <1>1, <1>5
<1> QED
  BY <1>2, <1>6 DEF e

-----------------------------------------------------------------------------
(* What occurs in a sequence occurs for the first time.                    *)
LEMMA FirstPosition ==
    ASSUME NEW S, NEW s \in Seq(S), NEW i \in DOMAIN s
    PROVE  \E j \in DOMAIN s : /\ j <= i /\ s[j] = s[i]
                              /\ \A k \in 1..(j - 1) : s[k] # s[j]
<1> DEFINE Before == {k \in 0..i : \A j \in 1..k : s[j] # s[i]}
<1>1. i \in Nat /\ i >= 1 /\ \A j \in 1..i : j \in DOMAIN s
  OBVIOUS
<1>2. 0 \in Before /\ i \notin Before
  BY <1>1
<1>3. PICK j \in 1..i : j - 1 \in Before /\ j \notin Before
  <2> HIDE DEF Before
  <2>1. SUFFICES ASSUME \A j \in 1..i : j - 1 \in Before => j \in Before PROVE FALSE
    OBVIOUS
  <2>2. 0..i \subseteq Before
    BY <1>1, <1>2, <2>1, Induction
  <2> QED
    BY <1>1, <1>2, <2>2
<1>4. s[j] = s[i]
  BY <1>1, <1>3
<1>5. \A k \in 1..(j - 1) : s[k] # s[j]
  BY <1>3, <1>4
<1> QED
  BY <1>1, <1>4, <1>5

(* Nothing occurs in s twice.                                              *)
Distinct(s) == \A i, j \in DOMAIN s : s[i] = s[j] => i = j

LEMMA OnlyDistinct ==
    ASSUME NEW S, NEW s \in Seq(S), NEW T, Distinct(s)
    PROVE  Distinct(Only(s, T))
<1> DEFINE G == Only(s, T)
<1>1. PICK p : Selects(p, G, s, T)
  BY OnlySelects
<1>2. G \in Seq(S)
  BY OnlySelects
<1> HIDE DEF G
<1>3. ASSUME NEW x \in DOMAIN G, NEW y \in DOMAIN G, G[x] = G[y] PROVE x = y
  <2>1. p[x] = p[y]
    BY <1>1, <1>3 DEF Selects, Distinct
  <2>2. x \in Int /\ y \in Int /\ p[x] \in Int /\ p[y] \in Int
    BY <1>1, <1>2 DEF Selects
  <2>3. (x < y => p[x] < p[y]) /\ (y < x => p[y] < p[x])
    BY <1>1 DEF Selects
  <2> QED
    BY <2>1, <2>2, <2>3
<1>4. Distinct(G)
  BY <1>3 DEF Distinct
<1> QED
  BY <1>4 DEF G

(* The positions of a sequence without repetition count its elements.      *)
LEMMA DistinctLength ==
    ASSUME NEW S, NEW s \in Seq(S), Distinct(s)
    PROVE  FST!Cardinality(Range(s)) = Len(s)
<1>1. Len(s) \in Nat /\ DOMAIN s = 1..Len(s)
  OBVIOUS
<1>2. s \in FST!Bijection(1..Len(s), Range(s))
  BY <1>1 DEF Distinct, Range, FST!Bijection, FST!Injection, FST!Surjection, FST!IsInjective
<1>3. FST!ExistsBijection(1..Len(s), Range(s))
  BY <1>2 DEF FST!ExistsBijection
<1> QED
  BY <1>1, <1>3, FST!FS_CountingElements
=============================================================================
