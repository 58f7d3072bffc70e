------------------------- MODULE EgressLedgerProofs -------------------------
(***************************************************************************)
(* Proofs about EgressLedger, for any runs, regions, refs and aborts.      *)
(*                                                                         *)
(* Whatever assemblies overlap or die: the types, that nothing is stored   *)
(* that the ledger does not admit, that a sealed manifest accounts for     *)
(* every ref, and that the ledgers are logs which assemblies join at the   *)
(* end (HashChain).  A region in which no two assemblies have overlapped   *)
(* has an unbroken chain, and entries numbered 1, 2, ...                   *)
(***************************************************************************)
EXTENDS EgressHistory, TLAPS

Gating   == {"link", "gate", "allow", "mask", "fillRaw", "fillRedacted"}
Stored   == {"allow", "fillRaw"}
Redacted == {"mask", "fillRedacted"}

(* An artefact is gated once it is named, its region's hash is read.       *)
Gated ==
    \A r \in Runs :
        /\ pc[r] \in Gating => cur[r] \in Refs
        /\ pc[r] = "gate" => latest[r][Region(r)] # Unread

InLedger(r, c) ==
    \E i \in DOMAIN ledger[RegionOf[c.ref]] : Decision(RegionOf[c.ref], i, r, c)

(* The store is only reached with the decision in the ledger, and what is  *)
(* listed in a manifest has been decided and stored.                       *)
Decided ==
    /\ \A r \in Runs :
          /\ pc[r] \in Stored => InLedger(r, Content(cur[r], "allow"))
          /\ pc[r] \in Redacted => InLedger(r, Content(cur[r], "mask"))
    /\ \A r \in Runs : \A c \in admitted[r] : InLedger(r, c) /\ evidence[c] # "none"

(* An assembly has each discovered ref in one place: not gated yet, being  *)
(* gated, excluded, or admitted.                                           *)
Listed(r, ref)  == \E c \in admitted[r] : c.ref = ref
Pending(r, ref) == ref \in left[r] \/ (pc[r] \in Gating /\ cur[r] = ref)
Sorted ==
    \A r \in Runs :
        /\ pc[r] = "idle" => admitted[r] = {} /\ excluded[r] = {}
        /\ pc[r] = "sealed" => left[r] = {}
        /\ pc[r] \in Gating => cur[r] \notin left[r]
        /\ pc[r] \notin {"idle", "dead"} => \A ref \in Refs :
              /\ Pending(r, ref) => ~Listed(r, ref) /\ ref \notin excluded[r]
              /\ ~Pending(r, ref) => (ref \in excluded[r] <=> ~Listed(r, ref))

IInv == TypeOK /\ Gated /\ Decided /\ NothingCrossesUnledgered /\ Sorted

-----------------------------------------------------------------------------
(* The ledger. *)

(* A hash is neither null nor the sequencer's "not read yet". *)
LEMMA HashTyped ==
    ASSUME NEW e \in Entries
    PROVE  Hash(e) \in Hashes /\ Hash(e) # Genesis /\ Hash(e) # Unread
BY HashAssumption DEF Hash, Hashes, Entries

(* What latest_hash returns is a hash or null, never "not read yet". *)
LEMMA LatestTyped ==
    ASSUME TypeOK, NEW g \in Regions
    PROVE  LatestHash(g) \in Hashes \union {Genesis} /\ LatestHash(g) # Unread
<1>1. ledger[g] \in Seq(Entries)
  BY DEF TypeOK
<1>2. CASE ledger[g] = <<>>
  BY <1>2, EgressLedgerAssumption DEF LatestHash
<1>3. CASE ledger[g] # <<>>
  <2>1. ledger[g][Len(ledger[g])] \in Entries
    BY <1>1, <1>3
  <2> QED BY <1>3, <2>1, HashTyped DEF LatestHash
<1> QED BY <1>2, <1>3

(* The content a decision is about belongs to the artefact. *)
LEMMA ContentTyped ==
    ASSUME NEW ref \in Refs, NEW verdict
    PROVE  Content(ref, verdict) \in Contents /\ Content(ref, verdict).ref = ref
BY DEF Content, Contents

GateEntry(r, verdict) ==
    [id |-> nextId[r][Region(r)], ref |-> cur[r], run |-> r, verdict |-> verdict,
     content |-> Content(cur[r], verdict), prev |-> latest[r][Region(r)]]

(* Gate appends one well-formed entry to the region of its artefact. *)
LEMMA GateAppends ==
    ASSUME IInv, NEW r \in Runs, NEW verdict \in Verdicts, Gate(r, verdict)
    PROVE  /\ cur[r] \in Refs /\ Region(r) \in Regions
           /\ GateEntry(r, verdict) \in Entries
           /\ ledger' = [ledger EXCEPT ![Region(r)] =
                           Append(ledger[Region(r)], GateEntry(r, verdict))]
           /\ latest' = [latest EXCEPT ![r][Region(r)] = Hash(GateEntry(r, verdict))]
<1>1. cur[r] \in Refs /\ Region(r) \in Regions
  BY EgressLedgerAssumption DEF IInv, Gated, Gate, Gating, Region
<1>2. nextId[r][Region(r)] \in Nat
  BY <1>1 DEF IInv, TypeOK
<1>3. latest[r][Region(r)] \in Hashes \union {Genesis}
  BY <1>1 DEF IInv, TypeOK, Gated, Gate
<1>4. GateEntry(r, verdict) \in Entries
  BY <1>1, <1>2, <1>3, ContentTyped DEF GateEntry, Entries
<1> QED BY <1>1, <1>4 DEF Gate, GateEntry

(* No step changes or removes an entry. *)
LEMMA AppendOnly ==
    ASSUME IInv, [Next]_vars, NEW g \in Regions, NEW i \in DOMAIN ledger[g]
    PROVE  i \in DOMAIN ledger'[g] /\ ledger'[g][i] = ledger[g][i]
<1>1. ledger \in [Regions -> Seq(Entries)]
  BY DEF IInv, TypeOK
<1>2. ASSUME NEW r \in Runs, NEW verdict \in Verdicts, Gate(r, verdict)
      PROVE  i \in DOMAIN ledger'[g] /\ ledger'[g][i] = ledger[g][i]
  <2> DEFINE e == GateEntry(r, verdict)
  <2>1. /\ Region(r) \in Regions /\ e \in Entries
        /\ ledger' = [ledger EXCEPT ![Region(r)] = Append(ledger[Region(r)], e)]
    BY <1>2, GateAppends
  <2> HIDE DEF e
  <2> QED BY <1>1, <2>1
<1>3. CASE UNCHANGED ledger
  BY <1>3
<1> QED BY <1>2, <1>3 DEF Next, Assemble, Begin, NextEntryId, PrevHash, Block, Admit,
        SkipArtefact, OpenArtefact, FillArtefact, Seal, Abort, Verdicts, vars

(* So a decision stays in the ledger. *)
LEMMA DecisionStays ==
    ASSUME IInv, [Next]_vars, NEW r \in Runs, NEW c \in Contents, InLedger(r, c)
    PROVE  InLedger(r, c)'
<1>1. RegionOf[c.ref] \in Regions
  BY EgressLedgerAssumption DEF Contents
<1>2. PICK i \in DOMAIN ledger[RegionOf[c.ref]] : Decision(RegionOf[c.ref], i, r, c)
  BY DEF InLedger
<1>3. /\ i \in DOMAIN ledger'[RegionOf[c.ref]]
      /\ ledger'[RegionOf[c.ref]][i] = ledger[RegionOf[c.ref]][i]
  BY <1>1, AppendOnly
<1> QED BY <1>2, <1>3 DEF InLedger, Decision

(* Gate puts its decision to admit an artefact into the ledger. *)
LEMMA DecisionMade ==
    ASSUME IInv, NEW r \in Runs, NEW verdict \in {"allow", "mask"}, Gate(r, verdict),
           UNCHANGED cur
    PROVE  InLedger(r, Content(cur[r], verdict))'
<1> DEFINE g == Region(r)
           e == GateEntry(r, verdict)
           i == Len(ledger[g]) + 1
<1>1. /\ cur[r] \in Refs /\ g \in Regions /\ e \in Entries
      /\ ledger' = [ledger EXCEPT ![g] = Append(ledger[g], e)]
  BY GateAppends DEF Verdicts
<1>2. ledger[g] \in Seq(Entries)
  BY <1>1 DEF IInv, TypeOK
<1>3. e.run = r /\ e.content = Content(cur[r], verdict) /\ e.verdict # "block"
  BY DEF GateEntry
<1>4. g = RegionOf[Content(cur[r], verdict).ref]
  BY <1>1, ContentTyped DEF Region
<1>5. i \in DOMAIN ledger'[g] /\ ledger'[g][i] = e
  <2> HIDE DEF e, g
  <2> QED BY <1>1, <1>2 DEF IInv, TypeOK
<1> HIDE DEF e, g
<1> QED BY <1>3, <1>4, <1>5 DEF InLedger, Decision

-----------------------------------------------------------------------------
(* The invariant holds initially. *)
LEMMA IInvInit == Init => IInv
<1> SUFFICES ASSUME Init PROVE IInv
  OBVIOUS
<1>1. TypeOK
  BY DEF Init, TypeOK
<1>2. Gated /\ Decided /\ Sorted
  BY DEF Init, Gated, Decided, Sorted, Gating, Stored, Redacted
<1>3. NothingCrossesUnledgered
  BY DEF Init, NothingCrossesUnledgered
<1> QED BY <1>1, <1>2, <1>3 DEF IInv

(* Every step keeps the types. *)
LEMMA TypeStep ==
    ASSUME IInv, [Next]_vars
    PROVE  TypeOK'
<1>1. ASSUME NEW r \in Runs, NEW verdict \in Verdicts, Gate(r, verdict)
      PROVE  /\ ledger' \in [Regions -> Seq(Entries)]
             /\ latest' \in [Runs -> [Regions -> Hashes \union {Genesis, Unread}]]
  <2> DEFINE e == GateEntry(r, verdict)
  <2>1. /\ Region(r) \in Regions /\ e \in Entries
        /\ ledger' = [ledger EXCEPT ![Region(r)] = Append(ledger[Region(r)], e)]
        /\ latest' = [latest EXCEPT ![r][Region(r)] = Hash(e)]
    BY <1>1, GateAppends
  <2>2. Hash(e) \in Hashes
    BY <2>1, HashTyped
  <2> HIDE DEF e
  <2>3. ledger' \in [Regions -> Seq(Entries)]
    BY <2>1 DEF IInv, TypeOK
  <2>4. latest' \in [Runs -> [Regions -> Hashes \union {Genesis, Unread}]]
    BY <2>1, <2>2 DEF IInv, TypeOK
  <2> QED BY <2>3, <2>4
<1>2. ASSUME NEW r \in Runs, Begin(r) PROVE TypeOK'
  BY <1>2 DEF Begin, IInv, TypeOK
<1>3. ASSUME NEW r \in Runs, NextEntryId(r) PROVE TypeOK'
  <2>1. PICK ref \in left[r] :
           /\ cur' = [cur EXCEPT ![r] = ref]
           /\ left' = [left EXCEPT ![r] = @ \ {ref}]
           /\ nextId' = [nextId EXCEPT ![r][RegionOf[ref]] =
                           IF @ = 0 THEN Len(ledger[RegionOf[ref]]) + 1 ELSE @ + 1]
    BY <1>3 DEF NextEntryId
  <2>2. ref \in Refs /\ RegionOf[ref] \in Regions
    BY EgressLedgerAssumption DEF IInv, TypeOK
  <2>3. Len(ledger[RegionOf[ref]]) \in Nat
    BY <2>2 DEF IInv, TypeOK
  <2>4. nextId' \in [Runs -> [Regions -> Nat]]
    BY <2>1, <2>2, <2>3 DEF IInv, TypeOK
  <2> QED BY <1>3, <2>1, <2>2, <2>4 DEF NextEntryId, IInv, TypeOK
<1>4. ASSUME NEW r \in Runs, PrevHash(r) PROVE TypeOK'
  <2>1. Region(r) \in Regions
    BY <1>4, EgressLedgerAssumption DEF PrevHash, IInv, Gated, Gating, Region
  <2>2. LatestHash(Region(r)) \in Hashes \union {Genesis}
    BY <2>1, LatestTyped DEF IInv
  <2> QED BY <1>4, <2>1, <2>2 DEF PrevHash, IInv, TypeOK
<1>5. ASSUME NEW r \in Runs, Block(r) PROVE TypeOK'
  <2>1. Gate(r, "block") /\ cur[r] \in Refs
    BY <1>5, GateAppends DEF Block, Verdicts
  <2> QED BY <1>5, <1>1, <2>1 DEF Block, Gate, Verdicts, IInv, TypeOK
<1>6. ASSUME NEW r \in Runs, Admit(r) PROVE TypeOK'
  BY <1>6, <1>1 DEF Admit, Gate, Verdicts, IInv, TypeOK
<1>7. ASSUME NEW r \in Runs, SkipArtefact(r) PROVE TypeOK'
  <2>1. Content(cur[r], pc[r]) \in Contents
    BY <1>7, ContentTyped DEF SkipArtefact, IInv, Gated, Gating
  <2> QED BY <1>7, <2>1 DEF SkipArtefact, Keep, IInv, TypeOK
<1>8. ASSUME NEW r \in Runs, OpenArtefact(r) PROVE TypeOK'
  <2>1. Content(cur[r], pc[r]) \in Contents
    BY <1>8, ContentTyped DEF OpenArtefact, IInv, Gated, Gating
  <2> QED BY <1>8, <2>1 DEF OpenArtefact, IInv, TypeOK
<1>9. ASSUME NEW r \in Runs, FillArtefact(r) PROVE TypeOK'
  <2>1. Content(cur[r], IF pc[r] = "fillRaw" THEN "allow" ELSE "mask") \in Contents
    BY <1>9, ContentTyped DEF FillArtefact, IInv, Gated, Gating
  <2> QED BY <1>9, <2>1 DEF FillArtefact, Keep, IInv, TypeOK
<1>10. ASSUME NEW r \in Runs, Seal(r) PROVE TypeOK'
  BY <1>10 DEF Seal, IInv, TypeOK
<1>11. ASSUME NEW r \in Runs, Abort(r) PROVE TypeOK'
  BY <1>11 DEF Abort, IInv, TypeOK
<1>12. CASE UNCHANGED vars
  BY <1>12 DEF vars, IInv, TypeOK
<1> QED BY <1>2, <1>3, <1>4, <1>5, <1>6, <1>7, <1>8, <1>9, <1>10, <1>11, <1>12
        DEF Next, Assemble

(* Every step keeps the gate's inputs defined: an artefact is named before *)
(* it is gated, and its region's latest hash has been read.                *)
LEMMA GatedStep ==
    ASSUME IInv, [Next]_vars
    PROVE  Gated'
<1> USE DEF IInv, TypeOK, Gated, Gating, Region
<1>1. ASSUME NEW r \in Runs, Assemble(r) \/ Abort(r) PROVE Gated'
  <2>1. CASE Begin(r)  BY <2>1 DEF Begin
  <2>2. CASE NextEntryId(r)  BY <2>2 DEF NextEntryId
  <2>3. CASE PrevHash(r)
    <3>1. Region(r) \in Regions
      BY <2>3, EgressLedgerAssumption DEF PrevHash
    <3>2. LatestHash(Region(r)) # Unread
      BY <3>1, LatestTyped
    <3> QED BY <2>3, <3>1, <3>2 DEF PrevHash
  <2>4. CASE Block(r)  BY <2>4 DEF Block, Gate
  <2>5. CASE Admit(r)  BY <2>5 DEF Admit, Gate
  <2>6. CASE SkipArtefact(r)  BY <2>6 DEF SkipArtefact, Keep
  <2>7. CASE OpenArtefact(r)  BY <2>7 DEF OpenArtefact
  <2>8. CASE FillArtefact(r)  BY <2>8 DEF FillArtefact, Keep
  <2>9. CASE Seal(r)  BY <2>9 DEF Seal
  <2>10. CASE Abort(r)  BY <2>10 DEF Abort
  <2> QED BY <1>1, <2>1, <2>2, <2>3, <2>4, <2>5, <2>6, <2>7, <2>8, <2>9, <2>10
          DEF Assemble
<1>2. CASE UNCHANGED vars
  BY <1>2 DEF vars
<1> QED BY <1>1, <1>2 DEF Next

(* Every step keeps the decisions behind what is, or is about to be, stored. *)
LEMMA DecidedStep ==
    ASSUME IInv, [Next]_vars
    PROVE  Decided'
<1> USE DEF Gating, Stored, Redacted
<1>1. \A q \in Runs : pc[q] \in Gating =>
         /\ Content(cur[q], "allow") \in Contents /\ Content(cur[q], "mask") \in Contents
         /\ Content(cur[q], pc[q]) \in Contents
  BY ContentTyped DEF IInv, Gated
<1>2. \A q \in Runs, c \in Contents : InLedger(q, c) => InLedger(q, c)'
  BY DecisionStays
<1>3. \A q \in Runs : admitted[q] \subseteq Contents
  BY DEF IInv, TypeOK
(* A step of r that adds no artefact to a manifest and enters no store label. *)
<1>4. ASSUME NEW r \in Runs, UNCHANGED <<admitted, evidence>>, pc'[r] \notin Stored \union Redacted,
             \A q \in Runs \ {r} : pc'[q] = pc[q] /\ cur'[q] = cur[q]
      PROVE  Decided'
  BY <1>1, <1>2, <1>3, <1>4 DEF IInv, Decided
<1>5. ASSUME NEW r \in Runs, Assemble(r) \/ Abort(r) PROVE Decided'
  <2>1. CASE Begin(r) \/ NextEntryId(r) \/ PrevHash(r) \/ Block(r) \/ Seal(r) \/ Abort(r)
    <3> USE DEF Begin, NextEntryId, PrevHash, Block, Gate, Seal, Abort, IInv, TypeOK
    <3>1. UNCHANGED <<admitted, evidence>>
      BY <2>1
    <3>2. pc'[r] \notin Stored \union Redacted
      BY <2>1
    <3>3. \A q \in Runs \ {r} : pc'[q] = pc[q] /\ cur'[q] = cur[q]
      BY <2>1
    <3> QED BY <1>4, <3>1, <3>2, <3>3
  <2>2. CASE Admit(r)
    <3>1. PICK verdict \in {"allow", "mask"} :
             Gate(r, verdict) /\ pc' = [pc EXCEPT ![r] = verdict]
      BY <2>2 DEF Admit
    <3>2. InLedger(r, Content(cur[r], verdict))'
      BY <2>2, <3>1, DecisionMade DEF Admit
    <3>3. UNCHANGED <<admitted, evidence, cur>>
      BY <2>2, <3>1 DEF Admit, Gate
    <3> QED BY <1>1, <1>2, <1>3, <3>1, <3>2, <3>3 DEF IInv, TypeOK, Decided
  <2>3. CASE SkipArtefact(r)
    <3> DEFINE c == Content(cur[r], pc[r])
    <3>1. /\ c \in Contents /\ InLedger(r, c) /\ evidence[c] # "none"
      BY <1>1, <2>3 DEF SkipArtefact, IInv, Decided
    <3>2. /\ admitted' = [admitted EXCEPT ![r] = @ \union {c}]
          /\ pc' = [pc EXCEPT ![r] = "next"]
          /\ UNCHANGED evidence /\ \A q \in Runs \ {r} : cur'[q] = cur[q]
      BY <2>3 DEF SkipArtefact, Keep
    <3> HIDE DEF c
    <3> QED BY <1>1, <1>2, <1>3, <3>1, <3>2 DEF IInv, TypeOK, Decided
  <2>4. CASE OpenArtefact(r)
    <3> DEFINE c == Content(cur[r], pc[r])
    <3>1. /\ c \in Contents /\ evidence' = [evidence EXCEPT ![c] = "partial"]
          /\ UNCHANGED <<admitted, cur>>
          /\ \/ pc[r] = "allow" /\ pc' = [pc EXCEPT ![r] = "fillRaw"]
             \/ pc[r] = "mask" /\ pc' = [pc EXCEPT ![r] = "fillRedacted"]
      BY <1>1, <2>4 DEF OpenArtefact, Content
    <3> HIDE DEF c
    <3> QED BY <1>1, <1>2, <1>3, <3>1 DEF IInv, TypeOK, Decided
  <2>5. CASE FillArtefact(r)
    <3> DEFINE c == Content(cur[r], IF pc[r] = "fillRaw" THEN "allow" ELSE "mask")
    <3>1. c \in Contents /\ InLedger(r, c)
      BY <1>1, <2>5 DEF FillArtefact, IInv, Decided
    <3>2. /\ admitted' = [admitted EXCEPT ![r] = @ \union {c}]
          /\ pc' = [pc EXCEPT ![r] = "next"]
          /\ evidence' = [evidence EXCEPT ![c] = "whole"]
          /\ \A q \in Runs \ {r} : cur'[q] = cur[q]
      BY <2>5 DEF FillArtefact, Keep
    <3> HIDE DEF c
    <3> QED BY <1>1, <1>2, <1>3, <3>1, <3>2 DEF IInv, TypeOK, Decided
  <2> QED BY <1>5, <2>1, <2>2, <2>3, <2>4, <2>5 DEF Assemble
<1>6. CASE UNCHANGED vars
  BY <1>6 DEF vars, IInv, Decided, InLedger, Decision
<1> QED BY <1>5, <1>6 DEF Next

(* Every step that starts to store an artefact finds its decision recorded. *)
LEMMA LedgeredStep ==
    ASSUME IInv, [Next]_vars
    PROVE  NothingCrossesUnledgered'
<1>1. \A r \in Runs, c \in Contents : InLedger(r, c) => InLedger(r, c)'
  BY DecisionStays
<1>2. \A c \in Contents : evidence[c] # "none" => \E r \in Runs : InLedger(r, c)
  BY DEF IInv, NothingCrossesUnledgered, InLedger
<1>3. ASSUME NEW c \in Contents, evidence'[c] # "none"
      PROVE  evidence[c] # "none" \/ \E r \in Runs : InLedger(r, c)
  <2>1. CASE UNCHANGED evidence
    BY <1>3, <2>1
  <2>2. ASSUME NEW r \in Runs, OpenArtefact(r)
        PROVE  evidence[c] # "none" \/ \E q \in Runs : InLedger(q, c)
    BY <1>3, <2>2 DEF OpenArtefact, IInv, TypeOK, Decided, Stored, Redacted
  <2>3. ASSUME NEW r \in Runs, FillArtefact(r)
        PROVE  evidence[c] # "none" \/ \E q \in Runs : InLedger(q, c)
    BY <1>3, <2>3 DEF FillArtefact, IInv, TypeOK, Decided, Stored, Redacted
  <2> QED BY <2>1, <2>2, <2>3 DEF Next, Assemble, Begin, NextEntryId, PrevHash, Block,
          Admit, Gate, SkipArtefact, Seal, Abort, vars
<1> QED BY <1>1, <1>2, <1>3 DEF NothingCrossesUnledgered, InLedger

(* Every step keeps the refs sorted: one moves from pending to the manifest's *)
(* artefacts or to its exclusions, and only then does the next one.           *)
LEMMA SortedStep ==
    ASSUME IInv, [Next]_vars
    PROVE  Sorted'
<1> USE DEF Gating, Listed, Pending, Sorted, IInv, TypeOK, Gated
<1>1. ASSUME NEW r \in Runs, Assemble(r) \/ Abort(r) PROVE Sorted'
  <2>1. CASE Begin(r)  BY <2>1 DEF Begin
  <2>2. CASE NextEntryId(r)  BY <2>2 DEF NextEntryId
  <2>3. CASE PrevHash(r)  BY <2>3 DEF PrevHash
  <2>4. CASE Block(r)  BY <2>4 DEF Block, Gate
  <2>5. CASE Admit(r)  BY <2>5 DEF Admit, Gate
  <2>6. CASE SkipArtefact(r)
    <3>1. Content(cur[r], pc[r]) \in Contents /\ Content(cur[r], pc[r]).ref = cur[r]
      BY <2>6, ContentTyped DEF SkipArtefact
    <3> QED BY <2>6, <3>1 DEF SkipArtefact, Keep
  <2>7. CASE OpenArtefact(r)  BY <2>7 DEF OpenArtefact
  <2>8. CASE FillArtefact(r)
    <3> DEFINE verdict == IF pc[r] = "fillRaw" THEN "allow" ELSE "mask"
    <3>1. Content(cur[r], verdict) \in Contents /\ Content(cur[r], verdict).ref = cur[r]
      BY <2>8, ContentTyped DEF FillArtefact
    <3> QED BY <2>8, <3>1 DEF FillArtefact, Keep
  <2>9. CASE Seal(r)  BY <2>9 DEF Seal
  <2>10. CASE Abort(r)  BY <2>10 DEF Abort
  <2> QED BY <1>1, <2>1, <2>2, <2>3, <2>4, <2>5, <2>6, <2>7, <2>8, <2>9, <2>10
          DEF Assemble
<1>2. CASE UNCHANGED vars
  BY <1>2 DEF vars
<1> QED BY <1>1, <1>2 DEF Next

-----------------------------------------------------------------------------
(* The theorems for any assemblies. *)

(* Every step preserves the invariant. *)
LEMMA IInvStep == IInv /\ [Next]_vars => IInv'
<1> SUFFICES ASSUME IInv, [Next]_vars PROVE IInv'
  OBVIOUS
<1> QED BY TypeStep, GatedStep, DecidedStep, LedgeredStep, SortedStep DEF IInv

(* So it holds however assemblies overlap and wherever they die. *)
THEOREM Invariance == Spec => []IInv
BY IInvInit, IInvStep, PTL DEF Spec

(* Type correctness. *)
THEOREM TypeCorrect == Spec => []TypeOK
<1>1. IInv => TypeOK
  BY DEF IInv
<1> QED BY <1>1, Invariance, PTL

(* Nothing is stored, not even partly, that the ledger does not admit.     *)
THEOREM EgressIsLedgered == Spec => []NothingCrossesUnledgered
<1>1. IInv => NothingCrossesUnledgered
  BY DEF IInv
<1> QED BY <1>1, Invariance, PTL

(* A sealed manifest accounts for every discovered ref, and every artefact *)
(* it lists was admitted by an entry of this run and is in the store.      *)
THEOREM ManifestIsComplete == Spec => []SealedAccountsForEveryRef
<1>1. IInv => SealedAccountsForEveryRef
  BY DEF IInv, SealedAccountsForEveryRef, Sorted, Pending, Listed, Gating, Decided, InLedger
<1> QED BY <1>1, Invariance, PTL

-----------------------------------------------------------------------------
(* A region in which assemblies do not overlap. *)

(* An assembly that has not begun has read nothing. *)
NewRuns ==
    \A r \in Runs : pc[r] = "idle" =>
        \A g \in Regions : nextId[r][g] = 0 /\ latest[r][g] = Unread

(* What a running assembly remembers of a region is what the ledger says:  *)
(* its count, one more while an entry is being made, and its latest hash.  *)
(* An assembly that has drawn no id has not read the hash either.          *)
InStep(r, g) ==
    IF pc[r] \in {"link", "gate"} /\ g = Region(r)
    THEN /\ nextId[r][g] = Len(ledger[g]) + 1
         /\ latest[r][g] \in {Unread, LatestHash(g)}
    ELSE /\ nextId[r][g] \in {0, Len(ledger[g])}
         /\ latest[r][g] # Unread => nextId[r][g] # 0 /\ latest[r][g] = LatestHash(g)

Kept(g) ==
    /\ \A r \in Runs : Running(r) => InStep(r, g)
    /\ Unbroken(g) /\ Numbered(g)

Apart(g) == \A q, r \in Runs : Sequencing(q, g) /\ Sequencing(r, g) => q = r

(* Every step keeps that an assembly that has not begun has read nothing.  *)
LEMMA NewRunsStep ==
    ASSUME IInv, NewRuns, [Next]_vars
    PROVE  NewRuns'
<1> USE DEF IInv, TypeOK, NewRuns
<1>1. ASSUME NEW r \in Runs, Assemble(r) \/ Abort(r) PROVE NewRuns'
  <2>1. /\ pc'[r] # "idle"
        /\ \A q \in Runs \ {r} : pc'[q] = pc[q] /\ nextId'[q] = nextId[q]
                                 /\ latest'[q] = latest[q]
    BY <1>1 DEF Assemble, Begin, NextEntryId, PrevHash, Block, Admit, Gate, SkipArtefact,
                OpenArtefact, FillArtefact, Seal, Abort, Keep
  <2> QED BY <2>1
<1>2. CASE UNCHANGED vars
  BY <1>2 DEF vars
<1> QED BY <1>1, <1>2 DEF Next

(* What appending an entry does to a region's ledger. *)
LEMMA ChainExtends ==
    ASSUME IInv, NEW g \in Regions, Unbroken(g), Numbered(g), NEW e \in Entries,
           ledger' = [ledger EXCEPT ![g] = Append(ledger[g], e)],
           e.prev = LatestHash(g), e.id = Len(ledger[g]) + 1
    PROVE  /\ Unbroken(g)' /\ Numbered(g)'
           /\ LatestHash(g)' = Hash(e) /\ Len(ledger'[g]) = Len(ledger[g]) + 1
<1>1. ledger \in [Regions -> Seq(Entries)]
  BY DEF IInv, TypeOK
<1>2. /\ ledger'[g] \in Seq(Entries) /\ Len(ledger'[g]) = Len(ledger[g]) + 1
      /\ ledger'[g][Len(ledger[g]) + 1] = e
      /\ \A i \in 1..Len(ledger[g]) : ledger'[g][i] = ledger[g][i]
  BY <1>1
<1>3. LatestHash(g)' = Hash(e)
  BY <1>1, <1>2 DEF LatestHash, Hash
<1>4. Numbered(g)'
  BY <1>1, <1>2 DEF Numbered
<1>5. Unbroken(g)'
  <2> SUFFICES ASSUME NEW i \in DOMAIN ledger'[g]
               PROVE  ledger'[g][i].prev =
                         IF i = 1 THEN Genesis ELSE Hash(ledger'[g][i - 1])
    BY DEF Unbroken, Hash
  <2>1. CASE i \in 1..Len(ledger[g])
    BY <1>1, <1>2, <2>1 DEF Unbroken
  <2>2. CASE i = Len(ledger[g]) + 1
    BY <1>1, <1>2, <2>2 DEF LatestHash
  <2> QED BY <1>1, <1>2, <2>1, <2>2
<1> QED BY <1>2, <1>3, <1>4, <1>5

(* The gate's step, for the region of its artefact and for the others. *)
LEMMA GateKeeps ==
    ASSUME IInv, NEW g \in Regions, Apart(g), Kept(g), NEW r \in Runs,
           NEW verdict \in Verdicts, Gate(r, verdict),
           pc' = [pc EXCEPT ![r] = "next"] \/ pc' = [pc EXCEPT ![r] = verdict],
           \A q \in Runs \ {r} : cur'[q] = cur[q]
    PROVE  Kept(g)'
<1>1. PICK h \in Regions, e \in Entries :
         /\ h = Region(r) /\ e = GateEntry(r, verdict)
         /\ ledger' = [ledger EXCEPT ![h] = Append(ledger[h], e)]
         /\ latest' = [latest EXCEPT ![r][h] = Hash(e)]
  BY GateAppends
<1>2. pc[r] = "gate" /\ nextId' = nextId /\ Running(r)
  BY DEF Gate, Running
<1>3. pc'[r] \notin {"idle", "link", "gate"}
  BY DEF IInv, TypeOK, Verdicts
<1>4. \A q \in Runs \ {r} : pc'[q] = pc[q] /\ latest'[q] = latest[q] /\ Region(q)' = Region(q)
  BY <1>1 DEF IInv, TypeOK, Region
<1>5. CASE h = g
  <2>1. latest[r][g] = LatestHash(g) /\ nextId[r][g] = Len(ledger[g]) + 1
    BY <1>1, <1>2, <1>5 DEF IInv, Gated, Kept, InStep
  <2>2. e.prev = LatestHash(g) /\ e.id = Len(ledger[g]) + 1
    BY <1>1, <1>5, <2>1 DEF GateEntry
  <2>3. /\ Unbroken(g)' /\ Numbered(g)'
        /\ LatestHash(g)' = Hash(e) /\ Len(ledger'[g]) = Len(ledger[g]) + 1
    BY <1>1, <1>5, <2>2, ChainExtends DEF Kept
  <2>4. Len(ledger[g]) \in Nat
    BY DEF IInv, TypeOK
  <2>5. InStep(r, g)'
    BY <1>1, <1>2, <1>3, <1>5, <2>1, <2>3, <2>4 DEF InStep, IInv, TypeOK
  <2>6. \A q \in Runs \ {r} : Running(q) => nextId[q][g] = 0
    BY <1>2, <2>1, <2>4 DEF Apart, Sequencing
  <2>7. \A q \in Runs \ {r} : Running(q)' => InStep(q, g)'
    <3> SUFFICES ASSUME NEW q \in Runs \ {r}, Running(q)' PROVE InStep(q, g)'
      OBVIOUS
    <3>1. Running(q) /\ InStep(q, g) /\ nextId[q][g] = 0
      BY <1>4, <2>6 DEF Running, Kept
    <3>2. ~(pc[q] \in {"link", "gate"} /\ g = Region(q)) /\ latest[q][g] = Unread
      BY <2>4, <3>1 DEF InStep
    <3> QED BY <1>2, <1>4, <3>1, <3>2 DEF InStep
  <2> QED BY <2>3, <2>5, <2>7 DEF Kept
<1>6. CASE h # g
  <2>1. ledger'[g] = ledger[g] /\ latest'[r][g] = latest[r][g]
    BY <1>1, <1>6 DEF IInv, TypeOK
  <2>2. Unbroken(g)' /\ Numbered(g)' /\ LatestHash(g)' = LatestHash(g)
    BY <2>1 DEF Kept, Unbroken, Numbered, LatestHash, Hash
  <2>3. InStep(r, g)'
    BY <1>1, <1>2, <1>3, <1>6, <2>1, <2>2 DEF Kept, InStep
  <2>4. \A q \in Runs \ {r} : Running(q)' => InStep(q, g)'
    BY <1>2, <1>4, <2>1, <2>2 DEF Kept, InStep, Running
  <2> QED BY <2>2, <2>3, <2>4 DEF Kept
<1> QED BY <1>5, <1>6

(* Every step keeps the ledger of a region that one assembly sequences, or *)
(* none.                                                                   *)
LEMMA KeptStep ==
    ASSUME IInv, NewRuns, NEW g \in Regions, Apart(g), Kept(g), [Next]_vars
    PROVE  Kept(g)'
(* A step that leaves the ledger alone keeps its latest hashes. *)
<1>1. UNCHANGED ledger => Unbroken(g)' /\ Numbered(g)' /\ LatestHash(g)' = LatestHash(g)
  BY DEF Kept, Unbroken, Numbered, LatestHash, Hash
(* A step of one assembly that leaves the ledger alone. *)
<1>2. ASSUME NEW r \in Runs, UNCHANGED ledger, Running(r)' => InStep(r, g)',
             \A q \in Runs \ {r} : pc'[q] = pc[q] /\ cur'[q] = cur[q]
                                   /\ nextId'[q] = nextId[q] /\ latest'[q] = latest[q]
      PROVE  Kept(g)'
  <2>1. \A q \in Runs \ {r} : Running(q)' => InStep(q, g)'
    BY <1>1, <1>2 DEF Kept, InStep, Running, Region
  <2> QED BY <1>1, <1>2, <2>1 DEF Kept
<1> USE DEF IInv, TypeOK
<1>3. ASSUME NEW r \in Runs, Begin(r) PROVE Kept(g)'
  <2>1. nextId'[r][g] = 0 /\ latest'[r][g] = Unread /\ pc'[r] = "next"
    BY <1>3 DEF Begin, NewRuns
  <2> QED BY <1>2, <1>3, <2>1 DEF Begin, InStep
<1>4. ASSUME NEW r \in Runs, NextEntryId(r) PROVE Kept(g)'
  <2>1. PICK ref \in left[r] :
           /\ cur' = [cur EXCEPT ![r] = ref]
           /\ nextId' = [nextId EXCEPT ![r][RegionOf[ref]] =
                           IF @ = 0 THEN Len(ledger[RegionOf[ref]]) + 1 ELSE @ + 1]
    BY <1>4 DEF NextEntryId
  <2>2. /\ pc[r] = "next" /\ pc' = [pc EXCEPT ![r] = "link"]
        /\ UNCHANGED <<ledger, latest>>
    BY <1>4 DEF NextEntryId
  <2>3. ref \in Refs /\ RegionOf[ref] \in Regions
    BY EgressLedgerAssumption
  <2>4. Region(r)' = RegionOf[ref] /\ pc'[r] = "link"
    BY <2>1, <2>2 DEF Region
  <2>5. /\ nextId[r][g] \in {0, Len(ledger[g])} /\ Len(ledger[g]) \in Nat
        /\ latest[r][g] # Unread => nextId[r][g] # 0 /\ latest[r][g] = LatestHash(g)
    <3>1. InStep(r, g)
      BY <2>2 DEF Kept, Running
    <3>2. Len(ledger[g]) \in Nat
      OBVIOUS
    <3> QED BY <2>2, <3>1, <3>2 DEF InStep
  <2>6. CASE RegionOf[ref] = g
    <3>1. nextId'[r][g] = Len(ledger[g]) + 1
      BY <2>1, <2>3, <2>5, <2>6
    <3> QED BY <1>1, <1>2, <2>1, <2>2, <2>4, <2>5, <2>6, <3>1 DEF InStep
  <2>7. CASE RegionOf[ref] # g
    <3>1. nextId'[r][g] = nextId[r][g]
      BY <2>1, <2>3, <2>7
    <3> QED BY <1>1, <1>2, <2>1, <2>2, <2>4, <2>5, <2>7, <3>1 DEF InStep
  <2> QED BY <2>6, <2>7
<1>5. ASSUME NEW r \in Runs, PrevHash(r) PROVE Kept(g)'
  <2>1. Region(r) \in Regions /\ Region(r)' = Region(r)
    BY <1>5, EgressLedgerAssumption DEF PrevHash, Gated, Gating, Region
  <2>2. InStep(r, g) /\ pc[r] = "link" /\ pc'[r] = "gate"
    BY <1>5 DEF PrevHash, Kept, Running
  <2>3. latest'[r][g] = IF g = Region(r) /\ latest[r][g] = Unread
                        THEN LatestHash(g) ELSE latest[r][g]
    BY <1>5, <2>1 DEF PrevHash
  <2> QED BY <1>1, <1>2, <1>5, <2>1, <2>2, <2>3 DEF PrevHash, InStep
<1>6. ASSUME NEW r \in Runs, Block(r) \/ Admit(r) PROVE Kept(g)'
  BY <1>6, GateKeeps DEF Block, Admit, Verdicts
<1>7. ASSUME NEW r \in Runs, SkipArtefact(r) \/ FillArtefact(r) PROVE Kept(g)'
  <2>1. pc[r] \in {"allow", "mask", "fillRaw", "fillRedacted"} /\ pc'[r] = "next"
        /\ UNCHANGED <<ledger, nextId, latest>>
        /\ \A q \in Runs \ {r} : pc'[q] = pc[q] /\ cur'[q] = cur[q]
    BY <1>7 DEF SkipArtefact, FillArtefact, Keep
  <2> QED BY <1>1, <1>2, <2>1 DEF Kept, InStep, Running
<1>8. ASSUME NEW r \in Runs, OpenArtefact(r) \/ Seal(r) \/ Abort(r) PROVE Kept(g)'
  <2>1. pc'[r] \notin {"link", "gate"} /\ UNCHANGED <<ledger, nextId, latest, cur>>
        /\ \A q \in Runs \ {r} : pc'[q] = pc[q]
    BY <1>8 DEF OpenArtefact, Seal, Abort
  <2>2. ~Running(r)' \/ (pc[r] \notin {"link", "gate"} /\ Running(r))
    BY <1>8 DEF OpenArtefact, Seal, Abort, Running
  <2> QED BY <1>1, <1>2, <2>1, <2>2 DEF Kept, InStep
<1>9. CASE UNCHANGED vars
  BY <1>1, <1>9 DEF vars, Kept, InStep, Running, Region
<1> QED BY <1>3, <1>4, <1>5, <1>6, <1>7, <1>8, <1>9 DEF Next, Assemble

(* The regions in which assemblies overlap are remembered, and the ledgers *)
(* of the others are kept.                                                 *)
HInv == Sharing \subseteq shared /\ \A g \in Regions \ shared : Kept(g)

LEMMA HInvInit == HInit => NewRuns /\ HInv
<1> SUFFICES ASSUME HInit PROVE NewRuns /\ HInv
  OBVIOUS
<1>1. \A r \in Runs : ~Running(r)
  BY DEF HInit, Init, Running
<1>2. \A g \in Regions : Unbroken(g) /\ Numbered(g)
  BY DEF HInit, Init, Unbroken, Numbered
<1> QED BY <1>1, <1>2 DEF HInit, Init, NewRuns, HInv, Kept, Sharing, Sequencing

LEMMA HInvStep ==
    ASSUME IInv, NewRuns, HInv, [HNext]_<<vars, shared>>
    PROVE  HInv'
<1>1. [Next]_vars
  BY DEF HNext, vars
<1>2. CASE HNext
  <2>1. Sharing' \subseteq shared' /\ shared \subseteq shared'
    BY <1>2 DEF HNext
  <2>2. ASSUME NEW g \in Regions \ shared' PROVE Kept(g)'
    <3>1. g \in Regions \ shared /\ g \notin Sharing
      BY <2>1 DEF HInv
    <3>2. Apart(g)
      BY <3>1 DEF Apart, Sharing
    <3> QED BY <1>1, <3>1, <3>2, KeptStep DEF HInv
  <2> QED BY <2>1, <2>2 DEF HInv
<1>3. CASE UNCHANGED <<vars, shared>>
  <2>1. Sharing' = Sharing
    BY <1>3 DEF vars, Sharing, Sequencing, Running
  <2>2. \A g \in Regions : Kept(g)' <=> Kept(g)
    BY <1>3 DEF vars, Kept, InStep, Running, Region, LatestHash, Hash, Unbroken, Numbered
  <2> QED BY <1>3, <2>1, <2>2 DEF HInv
<1> QED BY <1>2, <1>3

LEMMA HInvariance == HSpec => []HInv
<1>1. HInit => Init /\ NewRuns /\ HInv
  BY HInvInit DEF HInit
<1>2. [HNext]_<<vars, shared>> => [Next]_vars
  BY DEF HNext, vars
<1>3. HSpec => []IInv
  BY <1>1, <1>2, Invariance, PTL DEF HSpec, Spec
<1>4. IInv /\ NewRuns /\ [Next]_vars => NewRuns'
  BY NewRunsStep
<1>5. IInv /\ NewRuns /\ HInv /\ [HNext]_<<vars, shared>> => HInv'
  BY HInvStep
<1> QED BY <1>1, <1>2, <1>3, <1>4, <1>5, PTL DEF HSpec

(* The chain of a region in which assemblies have not overlapped is        *)
(* unbroken, which is what I6 verifies.                                    *)
THEOREM UnsharedChain == HSpec => []ChainUnbrokenUnlessShared
<1>1. HInv => ChainUnbrokenUnlessShared
  BY DEF HInv, Kept, ChainUnbrokenUnlessShared
<1> QED BY <1>1, HInvariance, PTL

(* The entry ids of such a region count 1, 2, ..., so an id names one      *)
(* entry.                                                                  *)
THEOREM UnsharedIds == HSpec => []EntryIdsCount
<1>1. HInv => EntryIdsCount
  BY DEF HInv, Kept, EntryIdsCount
<1> QED BY <1>1, HInvariance, PTL

-----------------------------------------------------------------------------
(* The ledgers, seen as the hash chains of HashChain. *)

Link(e)  == [hash |-> Hash(e), prev |-> e.prev]
Links(s) == [i \in DOMAIN s |-> Link(s[i])]
LinkType == [hash : Hashes, prev : Hashes \union {Genesis}]

(* A ledger's links are a sequence whose tip is the ledger's latest hash.  *)
LEMMA LinksTyped ==
    ASSUME NEW s \in Seq(Entries)
    PROVE  /\ Links(s) \in Seq(LinkType) /\ Len(Links(s)) = Len(s)
           /\ \A i \in 1 .. Len(s) : Links(s)[i] = Link(s[i])
<1>1. \A e \in Entries : Link(e) \in LinkType
  BY HashTyped DEF Link, LinkType, Entries
<1>2. DOMAIN s = 1 .. Len(s) /\ \A i \in 1 .. Len(s) : s[i] \in Entries
  OBVIOUS
<1>3. Links(s) \in [1 .. Len(s) -> LinkType]
  BY <1>1, <1>2 DEF Links
<1> QED BY <1>2, <1>3 DEF Links

(* An entry appended to a ledger is a link appended to its chain. *)
LEMMA LinksExtend ==
    ASSUME NEW s \in Seq(Entries), NEW e \in Entries
    PROVE  Links(Append(s, e)) = Append(Links(s), Link(e))
<1> DEFINE t == Append(s, e)
<1>1. t \in Seq(Entries) /\ Len(t) = Len(s) + 1 /\ t[Len(s) + 1] = e
      /\ \A i \in 1 .. Len(s) : t[i] = s[i]
  OBVIOUS
<1>2. Links(s) \in Seq(LinkType) /\ Len(Links(s)) = Len(s)
      /\ \A i \in 1 .. Len(s) : Links(s)[i] = Link(s[i])
  BY LinksTyped
<1>3. Links(t) \in Seq(LinkType) /\ Len(Links(t)) = Len(s) + 1
      /\ \A i \in 1 .. Len(s) + 1 : Links(t)[i] = Link(t[i])
  BY <1>1, LinksTyped
<1>4. Link(e) \in LinkType
  BY HashTyped DEF Link, LinkType, Entries
<1> DEFINE u == Append(Links(s), Link(e))
<1>5. u \in Seq(LinkType) /\ Len(u) = Len(s) + 1 /\ u[Len(s) + 1] = Link(e)
      /\ \A i \in 1 .. Len(s) : u[i] = Links(s)[i]
  BY <1>2, <1>4
<1>6. \A i \in 1 .. Len(s) + 1 : Links(t)[i] = u[i]
  BY <1>1, <1>2, <1>3, <1>5
<1> HIDE DEF t, u
<1>7. Links(t) = u
  BY <1>3, <1>5, <1>6
<1> QED BY <1>7 DEF t, u

(* The hash a chain ends with is what latest_hash returns. *)
LEMMA TipIsLatest ==
    ASSUME IInv, NEW g \in Regions
    PROVE  Chain!Tip(Links(ledger[g])) = LatestHash(g)
<1>1. ledger[g] \in Seq(Entries)
  BY DEF IInv, TypeOK
<1>2. /\ Links(ledger[g]) \in Seq(LinkType) /\ Len(Links(ledger[g])) = Len(ledger[g])
      /\ \A i \in 1 .. Len(ledger[g]) : Links(ledger[g])[i] = Link(ledger[g][i])
  BY <1>1, LinksTyped
<1>3. CASE ledger[g] = <<>>
  BY <1>2, <1>3 DEF Chain!Tip, LatestHash
<1>4. CASE ledger[g] # <<>>
  <2>1. Len(ledger[g]) \in 1 .. Len(ledger[g]) /\ Links(ledger[g]) # <<>>
    BY <1>1, <1>2, <1>4
  <2>2. Links(ledger[g])[Len(ledger[g])].hash = Hash(ledger[g][Len(ledger[g])])
    <3>1. Links(ledger[g])[Len(ledger[g])] = Link(ledger[g][Len(ledger[g])])
      BY <1>2, <2>1
    <3> QED BY <3>1 DEF Link
  <2> QED BY <1>2, <1>4, <2>1, <2>2 DEF Chain!Tip, LatestHash
<1> QED BY <1>3, <1>4

(* The links of all the ledgers, which HashChain sees, and its tips. *)
Logs == [g \in Regions |-> Links(ledger[g])]

(* prev_hash joins the log of the region, or changes nothing. *)
LEMMA JoinStep ==
    ASSUME IInv, NEW r \in Runs, PrevHash(r)
    PROVE  Chain!Join(r, Region(r)) \/ UNCHANGED <<Logs, latest>>
<1>1. Region(r) \in Regions
  BY EgressLedgerAssumption DEF PrevHash, IInv, Gated, Gating, Region
<1>2. UNCHANGED ledger /\ latest \in [Runs -> [Regions -> Hashes \union {Genesis, Unread}]]
  BY DEF PrevHash, IInv, TypeOK
<1>3. UNCHANGED Logs
  BY <1>2 DEF Logs, Links, Link, Hash
<1>4. CASE latest[r][Region(r)] = Unread
  <2>1. Logs[Region(r)] = Links(ledger[Region(r)])
    BY <1>1 DEF Logs
  <2>2. latest' = [latest EXCEPT ![r][Region(r)] = Chain!Tip(Logs[Region(r)])]
    BY <1>1, <1>4, <2>1, TipIsLatest DEF PrevHash
  <2> QED BY <1>3, <1>4, <2>2 DEF Chain!Join, Logs, Links, Link
<1>5. CASE latest[r][Region(r)] # Unread
  BY <1>1, <1>2, <1>3, <1>5 DEF PrevHash
<1> QED BY <1>4, <1>5

(* The gate extends the log of the region by an entry that names the hash  *)
(* its assembly holds.                                                     *)
LEMMA ExtendStep ==
    ASSUME IInv, NEW r \in Runs, NEW verdict \in Verdicts, Gate(r, verdict)
    PROVE  Chain!Next
<1> DEFINE e == GateEntry(r, verdict)
           g == Region(r)
<1>1. /\ g \in Regions /\ e \in Entries
      /\ ledger' = [ledger EXCEPT ![g] = Append(ledger[g], e)]
      /\ latest' = [latest EXCEPT ![r][g] = Hash(e)]
  BY GateAppends
<1>2. e.prev = latest[r][g] /\ latest[r][g] # Unread /\ Hash(e) \in Hashes
  BY <1>1, HashTyped DEF Gate, IInv, Gated, GateEntry
<1>3. ledger \in [Regions -> Seq(Entries)]
  BY DEF IInv, TypeOK
<1>4. Links(ledger'[g]) = Append(Links(ledger[g]), [hash |-> Hash(e), prev |-> latest[r][g]])
  BY <1>1, <1>2, <1>3, LinksExtend DEF Link
<1>5. \A h \in Regions \ {g} : ledger'[h] = ledger[h]
  BY <1>1, <1>3
<1> HIDE DEF e, g
<1> DEFINE chain == [h \in Regions |-> Links(ledger[h])]
           chain2 == [h \in Regions |-> Links(ledger'[h])]
<1>6. chain2 = [chain EXCEPT ![g] =
                  Append(@, [hash |-> Hash(e), prev |-> latest[r][g]])]
  <2>1. chain[g] = Links(ledger[g]) /\ chain2[g] = Links(ledger'[g])
    BY <1>1
  <2>2. chain2[g] = Append(chain[g], [hash |-> Hash(e), prev |-> latest[r][g]])
    BY <1>4, <2>1
  <2>3. \A h \in Regions \ {g} : chain2[h] = chain[h]
    BY <1>5
  <2>4. DOMAIN chain = Regions /\ DOMAIN chain2 = Regions
    OBVIOUS
  <2> HIDE DEF chain
  <2> QED BY <1>1, <2>2, <2>3, <2>4
<1>7. \E w \in Runs, h \in Regions, k \in Hashes :
         /\ latest[w][h] # Unread
         /\ chain2 = [chain EXCEPT ![h] = Append(@, [hash |-> k, prev |-> latest[w][h]])]
         /\ latest' = [latest EXCEPT ![w][h] = k]
  <2> HIDE DEF chain, chain2
  <2> QED BY <1>1, <1>2, <1>6
<1> QED BY <1>7 DEF Chain!Next, Chain!Extend, Links, Link, Hash

LEMMA ChainStep ==
    ASSUME IInv, [Next]_vars
    PROVE  Chain!Next \/ UNCHANGED <<Logs, latest>>
<1>1. ASSUME NEW r \in Runs, Assemble(r) \/ Abort(r)
      PROVE  \/ \E v \in Verdicts : Gate(r, v)
             \/ PrevHash(r)
             \/ UNCHANGED <<ledger, latest>>
  BY <1>1 DEF Assemble, Begin, NextEntryId, Block, Admit, SkipArtefact,
              OpenArtefact, FillArtefact, Seal, Abort, Keep, Verdicts
<1>2. ASSUME NEW r \in Runs, PrevHash(r)
      PROVE  Chain!Next \/ UNCHANGED <<Logs, latest>>
  <2>1. Region(r) \in Regions
    BY <1>2, EgressLedgerAssumption DEF PrevHash, IInv, Gated, Gating, Region
  <2> QED BY <1>2, <2>1, JoinStep DEF Chain!Next
<1>3. UNCHANGED <<ledger, latest>> => UNCHANGED <<Logs, latest>>
  BY DEF Logs, Links, Link, Hash
<1> QED BY <1>1, <1>2, <1>3, ExtendStep DEF Next, vars

(* However assemblies overlap or die, the ledgers are append-only logs     *)
(* whose writers join at the end and link each entry to their last one.    *)
THEOREM Refinement == Spec => ImplementsHashChain
<1>1. Init => Chain!Init
  BY DEF Init, Chain!Init
<1>2. IInv /\ [Next]_vars
         => [Chain!Next]_(<<[g \in Regions |->
                [i \in DOMAIN ledger[g] |->
                   [hash |-> Hash(ledger[g][i]), prev |-> ledger[g][i].prev]]], latest>>)
  BY ChainStep DEF Logs, Links, Link
<1> QED
  BY <1>1, <1>2, Invariance, PTL DEF Spec, ImplementsHashChain, Chain!Spec
=============================================================================
