---------------------------- MODULE EgressLedger ----------------------------
(***************************************************************************)
(* Corpus assembly: assemble_corpus_manifest gates the artefacts of a run  *)
(* one by one.  For each it draws an entry id and the previous hash from   *)
(* its own _LedgerSequencer, classifies the artefact, appends the decision *)
(* to the region's ledger file, and stores the admitted bytes in the       *)
(* content-addressed evidence store.                                       *)
(*                                                                         *)
(* The sequencer reads the ledger file once per region and then trusts its *)
(* own copy, and nothing keeps two assemblies from running at the same     *)
(* time, in two threads of the server.  create_run calls the function once *)
(* per region; the sequencer's state is per region, so one call over all   *)
(* the regions is the same thing.                                          *)
(*                                                                         *)
(* A hash is modelled as the run and artefact of the entry it covers: two  *)
(* entries with different bodies have different hashes.  The bytes of an   *)
(* artefact are its raw form or its redacted form.                         *)
(***************************************************************************)
EXTENDS Naturals, Sequences, FiniteSets

CONSTANTS
    Runs,        \* the runs, one assembly each
    Regions,
    Refs,        \* the artefact refs the connectors discover
    RegionOf,    \* [Refs -> Regions]
    NoRef,
    Genesis,     \* prevHash null
    Unread,      \* the sequencer has not asked for the region's latest hash
    MaxKept,     \* bound on the refs of an assembly that are kept
    MaxAborts    \* bound on assemblies that die

ASSUME EgressLedgerAssumption ==
    /\ RegionOf \in [Refs -> Regions]
    /\ NoRef \notin Refs
    /\ Genesis # Unread
    /\ MaxKept \in Nat
    /\ MaxAborts \in Nat

Hashes   == [run : Runs, ref : Refs]
ASSUME HashAssumption == Genesis \notin Hashes /\ Unread \notin Hashes

Contents == [ref : Refs, form : {"raw", "redacted"}]
Verdicts == {"allow", "mask", "block"}
Entries  == [id : Nat, ref : Refs, run : Runs, verdict : Verdicts,
             content : Contents, prev : Hashes \union {Genesis}]

VARIABLES
    ledger,    \* region -> entries.jsonl
    evidence,  \* content hash -> is the file absent, being written, or whole
    pc,        \* run -> where its assembly is
    left,      \* run -> kept refs not gated yet
    cur,       \* run -> the ref being gated
    nextId,    \* run -> region -> the sequencer's count, 0 before it reads
    latest,    \* run -> region -> the sequencer's latest hash, or Unread
    admitted,  \* run -> C4 manifest: the artefacts, by content
    excluded,  \* run -> C4 manifest: the refs excluded with a reason
    aborts

vars == <<ledger, evidence, pc, left, cur, nextId, latest, admitted, excluded, aborts>>

Hash(e)       == [run |-> e.run, ref |-> e.ref]
Region(r)     == RegionOf[cur[r]]
Running(r)    == pc[r] \notin {"idle", "sealed", "dead"}
LatestHash(g) == IF ledger[g] = <<>> THEN Genesis ELSE Hash(ledger[g][Len(ledger[g])])
Content(ref, verdict) ==
    [ref |-> ref, form |-> IF verdict = "mask" THEN "redacted" ELSE "raw"]

-----------------------------------------------------------------------------
Init ==
    /\ ledger = [g \in Regions |-> <<>>]
    /\ evidence = [c \in Contents |-> "none"]
    /\ pc = [r \in Runs |-> "idle"]
    /\ left = [r \in Runs |-> {}]
    /\ cur = [r \in Runs |-> NoRef]
    /\ nextId = [r \in Runs |-> [g \in Regions |-> 0]]
    /\ latest = [r \in Runs |-> [g \in Regions |-> Unread]]
    /\ admitted = [r \in Runs |-> {}]
    /\ excluded = [r \in Runs |-> {}]
    /\ aborts = 0

(* discover and filter_relevance: the refs that are not kept are excluded. *)
Begin(r) ==
    /\ pc[r] = "idle"
    /\ \E keep \in SUBSET Refs :
          /\ Cardinality(keep) <= MaxKept
          /\ left' = [left EXCEPT ![r] = keep]
          /\ excluded' = [excluded EXCEPT ![r] = Refs \ keep]
    /\ pc' = [pc EXCEPT ![r] = "next"]
    /\ UNCHANGED <<ledger, evidence, cur, nextId, latest, admitted, aborts>>

(* Mutant: the first id of an assembly repeats the last one on disk.       *)
MutNextEntryId(r) ==
    /\ pc[r] = "next"
    /\ \E ref \in left[r] :
          LET g == RegionOf[ref] IN
          /\ cur' = [cur EXCEPT ![r] = ref]
          /\ left' = [left EXCEPT ![r] = @ \ {ref}]
          /\ nextId' = [nextId EXCEPT ![r][g] = IF @ = 0 THEN Len(ledger[g]) ELSE @ + 1]
    /\ pc' = [pc EXCEPT ![r] = "link"]
    /\ UNCHANGED <<ledger, evidence, latest, admitted, excluded, aborts>>

(* next_entry_id: the ledger is counted once per region.                   *)
NextEntryId(r) ==
    /\ pc[r] = "next"
    /\ \E ref \in left[r] :
          LET g == RegionOf[ref] IN
          /\ cur' = [cur EXCEPT ![r] = ref]
          /\ left' = [left EXCEPT ![r] = @ \ {ref}]
          /\ nextId' = [nextId EXCEPT ![r][g] =
                          IF @ = 0 THEN Len(ledger[g]) + 1 ELSE @ + 1]
    /\ pc' = [pc EXCEPT ![r] = "link"]
    /\ UNCHANGED <<ledger, evidence, latest, admitted, excluded, aborts>>

(* Mutant: an assembly starts a chain of its own.                          *)
MutPrevHash(r) ==
    /\ pc[r] = "link"
    /\ latest' = [latest EXCEPT ![r][Region(r)] = IF @ = Unread THEN Genesis ELSE @]
    /\ pc' = [pc EXCEPT ![r] = "gate"]
    /\ UNCHANGED <<ledger, evidence, left, cur, nextId, admitted, excluded, aborts>>

(* prev_hash: the ledger's last hash is read once per region.              *)
PrevHash(r) ==
    /\ pc[r] = "link"
    /\ latest' = [latest EXCEPT ![r][Region(r)] =
                    IF @ = Unread THEN LatestHash(Region(r)) ELSE @]
    /\ pc' = [pc EXCEPT ![r] = "gate"]
    /\ UNCHANGED <<ledger, evidence, left, cur, nextId, admitted, excluded, aborts>>

(* Mutant: the new hash is not recorded in the sequencer.                  *)
MutGate(r, verdict) ==
    LET entry == [id |-> nextId[r][Region(r)], ref |-> cur[r], run |-> r,
                  verdict |-> verdict, content |-> Content(cur[r], verdict),
                  prev |-> latest[r][Region(r)]]
    IN  /\ pc[r] = "gate"
        /\ ledger' = [ledger EXCEPT ![Region(r)] = Append(@, entry)]
        /\ UNCHANGED <<latest, evidence, left, nextId, aborts>>

(* classify_and_redact, ledger_store.append and sequencer.record.  Every   *)
(* decision is appended; a block is recorded as an exclusion.              *)
Gate(r, verdict) ==
    LET entry == [id |-> nextId[r][Region(r)], ref |-> cur[r], run |-> r,
                  verdict |-> verdict, content |-> Content(cur[r], verdict),
                  prev |-> latest[r][Region(r)]]
    IN  /\ pc[r] = "gate"
        /\ ledger' = [ledger EXCEPT ![Region(r)] = Append(@, entry)]
        /\ latest' = [latest EXCEPT ![r][Region(r)] = Hash(entry)]
        /\ UNCHANGED <<evidence, left, nextId, aborts>>

(* Mutant: a blocked artefact is dropped without an exclusion.             *)
MutBlock(r) ==
    /\ Gate(r, "block")
    /\ cur' = [cur EXCEPT ![r] = NoRef]
    /\ pc' = [pc EXCEPT ![r] = "next"]
    /\ UNCHANGED <<admitted, excluded>>

Block(r) ==
    /\ Gate(r, "block")
    /\ excluded' = [excluded EXCEPT ![r] = @ \union {cur[r]}]
    /\ cur' = [cur EXCEPT ![r] = NoRef]
    /\ pc' = [pc EXCEPT ![r] = "next"]
    /\ UNCHANGED admitted

(* An admitted artefact goes on to the evidence store under the verdict of *)
(* the entry just appended; the pc carries which.                          *)
Admit(r) ==
    \E verdict \in {"allow", "mask"} :
        /\ Gate(r, verdict)
        /\ pc' = [pc EXCEPT ![r] = verdict]
        /\ UNCHANGED <<cur, admitted, excluded>>

Keep(r, c) ==
    /\ admitted' = [admitted EXCEPT ![r] = @ \union {c}]
    /\ cur' = [cur EXCEPT ![r] = NoRef]
    /\ pc' = [pc EXCEPT ![r] = "next"]

(* write_artefact: a file that exists is left alone, whatever is in it.    *)
SkipArtefact(r) ==
    /\ pc[r] \in {"allow", "mask"}
    /\ LET c == Content(cur[r], pc[r])
       IN  evidence[c] # "none" /\ Keep(r, c)
    /\ UNCHANGED <<ledger, evidence, left, nextId, latest, excluded, aborts>>

(* Mutant: the raw bytes are stored where the redacted ones were admitted. *)
MutOpenArtefact(r) ==
    /\ pc[r] \in {"allow", "mask"}
    /\ LET c == Content(cur[r], "allow")
       IN  /\ evidence[c] = "none"
           /\ evidence' = [evidence EXCEPT ![c] = "partial"]
           /\ pc' = [pc EXCEPT ![r] = "fillRaw"]
    /\ UNCHANGED <<ledger, left, cur, nextId, latest, admitted, excluded, aborts>>

(* write_bytes opens the file, then fills it.                              *)
OpenArtefact(r) ==
    /\ pc[r] \in {"allow", "mask"}
    /\ LET c == Content(cur[r], pc[r])
       IN  /\ evidence[c] = "none"
           /\ evidence' = [evidence EXCEPT ![c] = "partial"]
           /\ pc' = [pc EXCEPT ![r] = IF c.form = "raw" THEN "fillRaw" ELSE "fillRedacted"]
    /\ UNCHANGED <<ledger, left, cur, nextId, latest, admitted, excluded, aborts>>

FillArtefact(r) ==
    /\ pc[r] \in {"fillRaw", "fillRedacted"}
    /\ LET c == Content(cur[r], IF pc[r] = "fillRaw" THEN "allow" ELSE "mask")
       IN  evidence' = [evidence EXCEPT ![c] = "whole"] /\ Keep(r, c)
    /\ UNCHANGED <<ledger, left, nextId, latest, excluded, aborts>>

Seal(r) ==
    /\ pc[r] = "next" /\ left[r] = {}
    /\ pc' = [pc EXCEPT ![r] = "sealed"]
    /\ UNCHANGED <<ledger, evidence, left, cur, nextId, latest, admitted, excluded, aborts>>

(* The process stops, or a fetch, a parser or a full disk raises: the run  *)
(* never seals, and what it appended and wrote stays.                      *)
Abort(r) ==
    /\ Running(r) /\ aborts < MaxAborts
    /\ aborts' = aborts + 1
    /\ pc' = [pc EXCEPT ![r] = "dead"]
    /\ UNCHANGED <<ledger, evidence, left, cur, nextId, latest, admitted, excluded>>

Assemble(r) ==
    \/ Begin(r) \/ NextEntryId(r) \/ PrevHash(r) \/ Block(r) \/ Admit(r)
    \/ SkipArtefact(r) \/ OpenArtefact(r) \/ FillArtefact(r) \/ Seal(r)

Next == \E r \in Runs : Assemble(r) \/ Abort(r)

Spec == Init /\ [][Next]_vars

-----------------------------------------------------------------------------
(* Properties.                                                             *)

(* The type invariant. *)
TypeOK ==
    /\ ledger \in [Regions -> Seq(Entries)]
    /\ evidence \in [Contents -> {"none", "partial", "whole"}]
    /\ pc \in [Runs -> {"idle", "next", "link", "gate", "allow", "mask",
                        "fillRaw", "fillRedacted", "sealed", "dead"}]
    /\ left \in [Runs -> SUBSET Refs]
    /\ cur \in [Runs -> Refs \union {NoRef}]
    /\ nextId \in [Runs -> [Regions -> Nat]]
    /\ latest \in [Runs -> [Regions -> Hashes \union {Genesis, Unread}]]
    /\ admitted \in [Runs -> SUBSET Contents]
    /\ excluded \in [Runs -> SUBSET Refs]
    /\ aborts \in Nat

Unbroken(g) ==
    \A i \in DOMAIN ledger[g] :
        ledger[g][i].prev = IF i = 1 THEN Genesis ELSE Hash(ledger[g][i - 1])
Numbered(g) == \A i \in DOMAIN ledger[g] : ledger[g][i].id = i

(* "Hash-chained, append-only" (gate/ledger.py): within a region every     *)
(* entry's prevHash is the hash of the entry before it, the first one's is *)
(* null, which is what check_i6_ledger_chain_unbroken verifies.  Not so if *)
(* two assemblies of the region overlap; EgressHistory says what holds.    *)
ChainUnbroken == \A g \in Regions : Unbroken(g)

Decision(g, i, r, c) ==
    ledger[g][i].run = r /\ ledger[g][i].content = c /\ ledger[g][i].verdict # "block"

(* The ledger is a complete record: no byte of an artefact is in the       *)
(* evidence store, not even partly, unless the decision to admit these     *)
(* very bytes is already in the region's ledger.                           *)
NothingCrossesUnledgered ==
    \A c \in Contents :
        evidence[c] # "none" =>
            \E r \in Runs : LET g == RegionOf[c.ref]
                            IN  \E i \in DOMAIN ledger[g] : Decision(g, i, r, c)

(* "What MUST NOT happen is that the run proceeds as though the artefact   *)
(* never existed" (assemble_corpus_manifest): a sealed manifest lists      *)
(* every discovered ref, either as an artefact this run's own ledger entry *)
(* admits and the evidence store has, or as an exclusion, never as both.   *)
SealedAccountsForEveryRef ==
    \A r \in Runs : pc[r] = "sealed" =>
        /\ \A ref \in Refs :
              ref \in excluded[r] <=> ~ \E c \in admitted[r] : c.ref = ref
        /\ \A c \in admitted[r] :
              /\ evidence[c] # "none"
              /\ \E i \in DOMAIN ledger[RegionOf[c.ref]] :
                    Decision(RegionOf[c.ref], i, r, c)

(* "The bytes at a given hash never change" (EvidenceStore.write_artefact):*)
(* what a sealed manifest lists can be read back in full.                  *)
SealedEvidenceIsWhole ==
    \A r \in Runs : pc[r] = "sealed" =>
        \A c \in admitted[r] : evidence[c] = "whole"

Chain == INSTANCE HashChain WITH
    Writers <- Runs,
    chain <- [g \in Regions |->
                [i \in DOMAIN ledger[g] |-> [hash |-> Hash(ledger[g][i]), prev |-> ledger[g][i].prev]]],
    tip <- latest

(* Whatever assemblies overlap or die, a region's ledger only grows, and   *)
(* every assembly joins it at its end and goes on from its own last entry. *)
ImplementsHashChain == Chain!Spec
=============================================================================
