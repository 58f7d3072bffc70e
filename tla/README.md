# Verification of the canonical-model-generation platform

TLA+ models of the platform's own logic, the TLC runs that check them on small
instances, and TLAPS proofs of the properties that matter most for every size.
Paths are relative to the repository.

## 1. The system

The platform turns the interface documents of an insurance domain into a
proposed canonical data model. A client starts a *run*; the orchestrator
assembles a corpus from the source repositories through an egress gate, parses
it into attributes, clusters them, and seals the result at a human checkpoint
(TRIAGE). People submit decisions; once a batch declares the checkpoint
complete, an LLM agent synthesises a candidate per cluster. Candidates are
measured against coverage gates, shown in workshops and released. Everything a
run produces is in files under the run store; the knowledge substrate, a
PostgreSQL index over the same artefacts, is filled beside this path.

```
 HTTP clients --> api/run_control (threads of the web server's pool)     RunControl
                     |  idempotency store, run_locks (memory)
                     v
                  pipeline/orchestrator
                   create_run                    resume_after_checkpoint
                     |                              |
   connectors/manifest                           agents/base             AgentInvoke
     discover, filter, fetch        Intake          --> model_gateway --> provider
     gate, redact                   Gate            --> tools/gateway
     ledger, evidence store         EgressLedger    |
   parsers                          Parsing         |  checks: placement, naming
   algorithms (blocking, clusters)  Linkage         |          Coverage
                     |                              |
                     +------> pipeline/run_store <--+
                                     |
        api/registry, api/workshop, gap pages         ReleaseControl, Coverage
        agents/mapping_generator, mapping/            MappingRun, MappingLang
        substrate (ingest, search, lineage)           Substrate, Chunking
```

### Inventory

| component | state it keeps | operations | what is hard | what makes it correct | modelled |
|---|---|---|---|---|---|
| run control API (`api/run_control.py`, `app.py`, `schemas.py`, `errors.py`) | `run_locks`, in memory | create, pause, resume, submit decisions; read-only routes | threads interleave at every file access; conflict check and create are not atomic; error paths leave in the middle | one active run per domain; one writer per run; every request answered | yes |
| idempotency store (`api/idempotency.py`) | key -> reply, in memory | get, put | asked before the lock, told after it; lost on restart; never told of failures | a repeated key acts once | yes |
| orchestrator (`pipeline/orchestrator.py`) | none of its own | create_run, resume_after_checkpoint | a death between any two writes; resumption on moved data | evidence only accumulates and in order; nothing synthesised that was not ratified | yes |
| run store (`pipeline/run_store.py`) | manifest, stage outputs, checkpoints, decisions, journal | write/read of each; update_run_state and journal numbering are read-then-write | lost updates, duplicate numbers, a shared temporary file | no lost update, gap-free journal | partly |
| corpus assembly, connectors (`connectors/`) | `_LedgerSequencer`, per assembly | discover, filter, fetch, gate, seal | a repository that moves meanwhile; a cached view of a shared file; a death in the loop | one snapshot; every discovered ref accounted for; a stable corpus hash | yes |
| egress ledger, evidence store (`gate/ledger.py`, `gate/evidence_store.py`) | `entries.jsonl` per region; a file per content hash | append, read; write-once | chain forks; torn files that are never repaired | unbroken hash chain (I6); nothing stored without a decision | yes |
| egress gate and policy (`gate/`) | none | classify_and_redact | two descriptions of one decision; values read from the parsed document are replaced in the raw bytes, which the parsers read next | nothing unfit crosses; the records stay those of the contract | yes |
| parsers (`parsers/`) | none | openapi, xsd, wsdl, avro to records | references, inheritance, choices, recursion | one contract, one set of records, whatever its format | partly |
| algorithms (`algorithms/`) | none | profiling, blocking, similarity, clustering, conflict, placement, naming, coverage | thresholds, ties, truncation, empty universes | clusters are a partition, cut where they hold together least; score and gaps agree | yes |
| agents and model gateway (`agents/base.py`, `model_gateway.py`, `canonical_synthesiser.py`, `validation.py`) | the run's `Budget`, per submission | Agent.invoke, ModelGateway.call | three nested retries; check before and charge after a call | bounded calls and spend; a decided cluster stays decided; sessions end | partly |
| other agents (`agents/*.py`) | none | per-agent context and semantic checks | checks spread over generator, guardrails and compiler | nothing accepted without evidence | partly |
| tool gateway (`tools/`) | none | authorise, dispatch, journal | an agent may call only its tools | every call authorised and journalled | partly |
| registry API and store (`api/registry.py`, `pipeline/registry_store.py`) | releases | create, list, diff | gates computed from live data | no release without its gates | yes |
| workshop API and store (`api/workshop.py`, `pipeline/workshop_store.py`, `emit/workshop_pack.py`) | packs, decisions | create, show, decide, export | candidates read twice; several files | a pack refers to what it holds | yes |
| pagination, auth, export (`api/`) | none | helpers | an offset cursor over a list computed afresh | pages neither skip nor repeat | partly |
| mapping (`mapping/`) | `plan.escalations` | parse, compile, interpret, round trip | lossy transforms, silent failure modes, inverse maps | nothing critical is lost silently | yes |
| substrate (`substrate/`) | five PostgreSQL tables, record files | chunk, ingest, search, lineage | concurrent ingestions share chunks; a death between commit and files | what a run retrieves is settled and complete | partly |
| emission (`emit/`) | none | schemas, OpenAPI, logical model, release manifest | references across files | every reference resolves | yes |
| contract validators (`contracts/`) | none | I1 to I6 | | the invariants named there | partly |
| configuration (`config/`) | none | typed settings | | | constants of the models |
| evaluation harness, scripts, generated models, archived prototype | none | | | | no |

`PROJECT.json` lists the same components with what is modelled of each, and the
hazards, each at its line with the property that would catch it.

## 2. Modules

| module | models | role |
|---|---|---|
| `RunControl` | `api/run_control.py`, `idempotency.py`, `orchestrator.py`, `run_store.py` | state machine of requests, threads and files |
| `RunHistory` | which requests and locks have overlapped; extends `RunControl` | history variables, which constrain nothing |
| `RunLifecycle` | what a run promises | abstract specification, refined by `RunControl!Lifecycle` |
| `EgressLedger` | `connectors/manifest.py`, `gate/ledger.py`, `gate/evidence_store.py` | corpus assembly over ledger and evidence |
| `EgressHistory` | the regions two assemblies have sequenced at once; extends `EgressLedger` | a history variable |
| `HashChain` | append-only logs that writers join at their end; one writer at a time makes the chain of I6 | abstract specification, refined by `EgressLedger!Chain` |
| `AgentInvoke` | `agents/base.py`, `model_gateway.py`, the synthesis loop | sessions, retry ladder, budget |
| `SynthesisLoop` | the loop `RunControl` assumes | abstract specification, refined by `AgentInvoke!Synthesis` |
| `Gate` | `gate/gate.py`, `policy.py`, `policy.yaml`, `detectors.py`, `structure.py`, `tokenisation.py` | operators |
| `Parsing` | `parsers/` | operators |
| `Intake` | `connectors/`, the Scout, S1 to S3 of `create_run`; extends `Gate`, takes the parsers as parameters | state machine of assemblies over a moving source |
| `IntakeParsing` | `Intake` with the parsers of `Parsing` | composition |
| `Selection` | a list comprehension with a condition | operators |
| `Scoring` | `profiling.py`, `blocking.py`, `similarity.py`, `conflict.py` | operators |
| `Linkage` | `clustering.py`, `graph.py`, `conflict.py`; extends `Scoring` | state machine of S4 |
| `Coverage` | `coverage.py`, `placement.py`, `naming.py`, the Synthesiser's checks, `emit/` | operators |
| `ReleaseControl` | `api/registry.py`, `api/workshop.py`, `get_gaps`, sessions; extends `Coverage` | state machine of readers beside a session |
| `MappingLang` | `mapping/transforms.py`, `parser.py`, `compiler.py`, `interpreter.py` | operators |
| `MappingRun` | `mapping_generator.py`, `roundtrip.py`; extends `MappingLang` | state machine of one specification |
| `Chunking` | `substrate/chunking.py` | operators |
| `Substrate` | `substrate/ingest.py`, `api.py`, `search.py`, `graph.py`; extends `Chunking` | state machine of concurrent ingestions |
| `MC...` | | instances for TLC |
| `...Proofs` | | theorems and proofs (section 4) |

The state machines meet at interfaces. `RunControl!AssembleCorpus` stands for
all of `Intake` and `EgressLedger` for one run, `CreateFails` for their early
ends; that two creates can overlap (run `run_control_conflict`) is why the
assemblies of `EgressLedger` do. `RunControl!Synthesise`,
`SynthesisFails` and `SynthesisEnds` are the loop of `SynthesisLoop`, which
`AgentInvoke` implements. `ReleaseControl` repeats the session coarsely
(`BeginSynthesis` to `WriteCandidates`), with the content of what it stores.

### RunControl

One thread per HTTP request. `pc[r]` is the thread's next access to the run
store or to the server's memory, so that threads interleave exactly where the
code's can; between two accesses a thread has only locals. `seen[r]` and
`seq[r]` are what it has read and will write back, `mid[r]` says it is between
the read and the write of `update_run_state` or `_journal`. These two are
written once, as `UpdateRead`/`UpdateWrite` and `LogRead`/`LogAppend`, and two
tables (`Updates`, `Logs`) say which call of the orchestrator a label is and
where it goes on.

- `create_run_route`: `Look` (idempotency) -> `ListRuns` -> `Scan` (the
  conflict check, which reads the listed manifests one by one) -> `Admit`
  (CREATED) -> `AssembleCorpus` -> `StartRunning` -> journal ->
  `ParseAttributes` -> journal -> `ClusterAttributes` -> journal ->
  `SealTriage` -> AWAIT_TRIAGE -> journal -> `Remember`. It takes no lock;
  `CreateFails` leaves at a stage that raises.
- `pause_run`, `resume_run`: `GetLock` (`run_locks[run_id]`) -> `MakeLock` if
  there was none -> `AcquireLock` -> update -> `LeaveLock`. Look-up and making
  are two steps: two threads may each make a lock, and the later one stays in
  the table.
- `submit_checkpoint_decisions`: `Look` -> lock -> `NotSealed`, `CorpusDrift`
  or `CheckPasses` -> `RecordDecisions` -> `ResumeAfterCheckpoint` -> parked
  without a provider, or journal -> `Synthesise` per cluster ->
  `WriteCandidates` -> journal -> CANDIDATES_READY -> `LeaveLock` ->
  `Remember`. `Fail` is the exit through every `except` clause and the 500.
- `Restart` ends all threads and empties locks and idempotency store; the disk
  stays.

Environment, stated as actions: a client names a run it learnt from a reply
(no route lists runs) or that an operator found in the store's folder after its
create had gone (`FindOrphan`); a corpus hash moves only between two requests
on the run (`DriftCorpus`). Nothing in the program writes another corpus hash
into a manifest; the repository's own test does, between two requests, and that
is the case the check at `run_control.py:187` is for. So the second comparison,
in `resume_after_checkpoint`, never differs from the first. There is one domain,
as `create_run` supports one. Clients are not restricted in any way.

`RunHistory` adds what the properties about overlap need to say which overlap
they fear: `raced`, the runs whose lock two threads have been making at once;
`idled`, the runs that have been in a state that is not active; `met`, the
pairs of creates that have been in flight together; `boot`, the server process
a request was sent to. The variables are written by every step and read by none.

### EgressLedger

One assembly per run. A ref goes through `NextEntryId` (entry id), `PrevHash`
(previous hash), `Block` or `Admit` (gate verdict and ledger append in one
step: nothing else of the assembly is between them on shared files), and for
admitted bytes `SkipArtefact` or `OpenArtefact`/`FillArtefact`. `nextId` and
`latest` are the sequencer's two caches, read at separate moments as in the
code; they are what makes overlapping assemblies of one region go wrong, and
assemblies overlap as they like. `Abort` ends an assembly anywhere, also between
open and fill. A hash is the pair of run and ref of the entry it covers, contents
are a ref in raw or redacted form; the verdict is free, as are discovery and
relevance. `EgressHistory` remembers in `shared` the regions two running
assemblies have drawn entry ids in at the same time.

### AgentInvoke

A session is one `resume_after_checkpoint` from the budget on. An item is
checked (`CheckBudget`), asked (`ProviderRefuses`, `ProviderBreaks`,
`ProviderAnswers`) and judged (`JudgeNotJson`, `JudgeSchema`, `JudgeSemantic`,
`JudgeGuardrail`, `JudgeGood`). An answer is its token count and the first
check it fails. The Synthesiser is the only agent of a session that calls the
model, and the price per token is a constant, so stage spend and cost are one
number. An answer that is not JSON breaks the session off instead of using a
schema retry: `json.loads` fails inside the gateway call, which stands outside
the `try` of `Agent.invoke` (whose docstring promises two retries for V1).

### Gate, Parsing and Intake

A text is the set of phrases it holds, so that one text contains another when
it is a superset. A document is its media class, the texts at each kind of
place (grammar words, example values, prose, other values) in the spelling of
the bytes, and what a reader makes of its grammar. `Respelt` has the spellings
that differ from what the reader of the format gives (a scalar folded over two
lines, an escape, an entity) and `Read` reads them. `Spans` are the detectors
L0 to L4 over what is read, `LadderVerdict` the ladder, `EvaluatePolicy` the
rules of `policy.yaml` with first match and fail closed. `Redact` is the
replace-all over the bytes: what is flagged is replaced wherever the bytes have
it in the flagged spelling, in the grammar too, longest first, in an order that
is free among equal lengths (`LongestFirst`), because the code sorts a set by
length alone. `Tree` is the grammar as the parsers will read it: it depends on
which of its words are still there. `Raises` is what the gate does not survive,
a comment in XML (whose tag `etree.QName` refuses) and a value to mask in bytes
that are not UTF-8; the run ends with it (`GateFails`).

`Parsing` has one walk per format over trees, as `RECURSIVE` operators with the
guards of the code (a reference being walked is not followed again). `Intake`
knows of the parsers only what `router.parse` promises: `Readable(doc)` says
that some parser accepts a document, `Records(doc)` what it returns. The
instance checked by TLC takes both from `Parsing`, by way of `IntakeParsing`,
whose `ParseDocument` parses what the masking left of the grammar; what is
proved of `Intake` holds for any parsers.

`Intake` runs several assemblies, each in a process of its own, while commits
and page edits go on (`Commit`, `EditPages`): `ResolveHead` and `ListSources`
are the two git calls of `discover`, `Filter` pass 1 of the relevance filter,
`KeepUncertain` or `Scout` pass 2, `GateNext` fetch, gate and record of one
ref, then `Seal`, `ParseNext` per artefact, `WriteAttributes`. Each failure of
a git call, of the Scout or of a parser is an action or a disjunct.

### Scoring and Linkage

Similarities are integers, with one unit for all features, so that every
comparison with a threshold is exact. A block that is cut to one member, as
`block_max_size` of one does, has no pairs and is dropped. `Linkage` takes
attributes in the order they were parsed through `ProfileRecords`,
`BuildBlocks`, `Compare` (one pair of one block), `Link` (components of the
linked pairs), `Keep` and `Cut` (one call of `min_cut_until` each) and `Export`.
Groups may be looked at in any order: `min_cut_until` calls on disjoint groups
do not meet.

### Coverage and ReleaseControl

`Coverage` holds the pure functions from placement to the pack's files; scores
are kept as numerator and denominator. In `ReleaseControl` one session replaces
the candidates while a client reads them: a release is `GateRelease` (read and
gates) and `WriteRelease`, a workshop `OpenWorkshop` (report) and
`AssemblePack` (the second reading), a client of the gap register asks for page
after page. The stores of the three clients are disjoint and none writes what
another reads, so `client` says which one a behaviour follows. The limit of a
page is taken as the code takes it, unchecked: none, zero and negative limits
cut the list as a Python slice does (`Stop`).

### MappingLang and MappingRun

A value is a record that tells Python's types apart; text is a sequence of
words. `Numerals` are the texts `float` reads, a zone has a fixed offset from
UTC that may move an instant to another day (`Offset`), and a template takes any
object that has the fields it names (`Fields`). `MappingRun` takes one
specification from its proposal, `Generate` (the agent's checks and guardrails)
or `Author` (by hand), through `CompileSpec`, `RunCase` per seed, `JudgeSuite`
and `Apply` to an instance whose attributes have seeds of their own. A
`TypeError` of a missing argument is a stage (`crashed`), not something the
interpreter handles: the code does not either. A chain (`Through`), the type the
compiler infers for it (`InferOutputType`) and a plan (`Walk`) are recursive
functions over positions, as the loops of `interpreter.py` and `compiler.py`
are; `Through` and `Walk` serve both directions, which read and write the same
two paths the other way round. C10 lets an entry transform an attribute to no
canonical path at all: the value goes nowhere, comes back as null, and the suite
fails unless the plan declares the loss. `NoSilentLoss` and `CompiledMapsDecide`
say so.

### Chunking and Substrate

An ingestion is one transaction (`Begin`, `WriteArtefact`, `LookUpChunk`,
`InsertChunk`, `Commit`), then one file per region (`WriteAttributes`,
`Finish`). Isolation is the database's default: a statement sees what is
committed and its own writes, and waits for another open transaction that wrote
the same row. A page is what leads it and a section per heading, and
`SplitOnHeadings` takes the sections, or all of it where there is no heading.
The children of a type are a list of nodes; `DirectMembers` takes elements and
choices from the first sequence there is (`Container`), or else from the
children themselves, and the attributes. `ArtefactFails`, `Crash` and
`DeadlockDetected` roll back, and the ingestion may be called again. `Search` is
the filter, the two rankings and their reciprocal fusion.

## 3. Runs

| run | instance | shows |
|---|---|---|
| `run_control` | 3 requests on 1 run, 1 cluster, 1 restart, 1 drift; 2,260,000 states | evidence of a run accumulates in order (`SynthesisIsRatified`, `ImplementsLifecycle`), the journal accounts for it (`JournalAccountsForStore`), nothing is ratified on a moved corpus, an abandoned create stays inert |
| `run_control_locks` | a create and 2 requests on its run, drift, fair threads; 96,000 | `SingleWriterUnlessRaced`, `NoLostUpdate`, `JournalGapFree`, and every request is answered |
| `run_control_domain` | 3 requests, up to 3 of them creates, 2 runs, 1 key, 1 restart; 990,000 | `ConflictChecked`, `ReplayedCreateIsOneRun` |
| `egress_ledger` | 2 assemblies that may overlap, 2 regions, 3 refs of which 2 are kept, 1 death; 550,000 | chain unbroken and ids count until a region is shared, nothing stored unledgered, sealed manifests complete, `HashChain` implemented |
| `agent_invoke` | 3 clusters, 2 sessions, cap 6 and ceiling 5 tokens, answers up to 2, estimates up to 3, 1 provider retry; 150,000 | four answers per item, overshoot below one answer, decisions stand, sessions end, `SynthesisLoop` implemented |
| `linkage` | 4 attributes of 7 shapes each, 2 orders, blocks of 1, 3 or 4; 180,000 | clusters are a partition of what was linked, cut where they hold together least; every pair that could be compared is clustered, split or put to people once |
| `release` | 4 stores of two clusters or none, 5 answers per cluster, 2 sessions, 2 release requests, page limits of 1, 2, 0, -1 and none; 180,000 | score and gap register agree with the signatures, a release stands on signed candidates, quiet pages are complete, a pack refers to its own files |
| `mapping` | 2 attributes, every transform, disposition and failure mode, 8 value maps, both directions; 300,000 | a weight-5 value is written, escalated or stops the plan; a passed plan reverses combinations its suite never saw; inferred types and accepted value maps hold at run time |
| `intake` | 1 to 3 git paths over two commits, 1 wiki page over two editions, 2 assemblies, every format and every gate outcome, two spellings; 520,000 | what is admitted holds nothing as it was flagged, artefacts are of one listing, records describe the contract |
| `substrate` | 2 ingestions over corpora that share artefacts and texts, 2 attempts each, 2 queries; 44,000 | a committed run's answers never change, records have their rows, what the chunkers take of the corpus is found |

These runs end in a counterexample; each is a finding in `PROJECT.json`:

| run | property violated | what happens |
|---|---|---|
| `run_control_conflict` | `OneActiveRun` | two creates both pass the conflict check |
| `intake_repeats` | `CorpusHashIsStable` | a value flagged under two labels is replaced by the token of whichever label the process's hash seed puts first, so two processes seal different corpus hashes for one commit |

Six more claims of the repository are not kept by its code. They are stated as
properties beside the ones that hold, and section 5 has the behaviours that
break them: `SingleWriter` and `KeyActsOnce` (`RunControl`),
`ConflictCheckSuffices` (`RunHistory`), `ChainUnbroken` (`EgressLedger`),
`MaskedInFull` (`Intake`), `MaskingSparesGrammar` (`IntakeParsing`). No run
repeats these counterexamples; the passing runs have what the code does keep,
which says exactly what a failure needs. `SingleWriterUnlessRaced` and
`ChainUnbrokenUnlessShared` except the runs whose lock, and the regions whose
ledger, two threads were at once; `ConflictChecked` excepts runs that were
paused, or otherwise not active, in between; `ReplayedCreateIsOneRun` creates
that met a create of their key; `AdmittedIsFit` other spellings than the one
flagged, `RecordsDescribeContract` documents whose grammar was masked.

### Bounds and why they are enough

`RunControl`'s only actors are requests, and its hazards are pairwise: two
writers, a check and a change, a failure and its retry. Three requests are one
to make the run and two that compete for it. Two runs are needed for conflicts and
replays only, and the third request of `run_control_domain` is what comes in
between: a pause, a submission or a rival create. One key suffices to collide
with itself. One cluster already has every outcome of the loop; several clusters
are `AgentInvoke`'s subject, and of none synthesis takes the same path. One
restart or drift can fall between any two steps; a second one meets a state that
a first one could have met. Three refs over two regions, of which an assembly
keeps at most two (`MaxKept`), give a region with a predecessor inside the run
and one without; two assemblies give a predecessor of another run, and one death
(`MaxAborts`) leaves the other to go on. In `AgentInvoke` the numbers are
the smallest for which the cap and the ceiling both refuse a call, an item can
use all four answers, and a second session starts after every way the first can
end.

`Linkage`: four attributes make a chain of three links, whose cut leaves groups
that must be cut again; the seven shapes reach every score band, every signal
and every conflict class the code can reach. `ReleaseControl`: two clusters let
each gate fail alone and ids or attribute names collide; two sessions replace
candidates once before and once after any read. `MappingRun`: two attributes
suffice to share a path, on either side; the suite's `N` is 2 for enumerations
of at most two values (24 in the code); among what the first may become are two
entries without a canonical path, one whose loss is noted and one whose is not.
`Intake`: the second commit and the second edition fall between any two steps of
an assembly; the contracts have each scalar type, level and repetition once, and
one nested object. One of its values is spelt in two ways, one is also a word of
the grammar. `Substrate`: two ingestions share texts in every order; `MaxTokens
= 4` and `Overlap = 30` make windows of step two over sections of zero to nine
words; types have a sequence, none, two with a third inside the first, or an
`xs:all`.

`CHECK_DEADLOCK FALSE` where behaviours end: when all requests have been
served, all assemblies or ingestions are over, or no submission is left. The
other modules end in an explicit stuttering action. Symmetry is used for
requests, runs and clusters in the runs of `RunControl` and `EgressLedger`
without liveness; these specifications compare these values and nothing else.

Definitions named `Mut...` are no part of any specification. Each is a
plausible bug in the operation that follows it (a dropped guard, a swapped
order, an off-by-one) and stands there to keep its property honest: with the
bug in place of the operation, TLC finds the property violated.

### Fairness

`RunControl!Fairness` is weak fairness of each thread's `Serve(r)`: the server's
threads are preemptively scheduled, and a handler that can take its next step
takes it. A thread that waits for a lock is disabled while another holds it;
since each request takes a lock once, weak fairness suffices and no fairness of
`threading.Lock` is assumed. Clients, restarts, drifts and operators are under
no obligation. `AgentInvoke!FairSpec` is weak fairness of the one thread that
serves the session; it includes the provider's steps, since the SDK call has a
timeout and returns or raises. Which of answer, refusal or error it is stays
free, so no provider is assumed to recover.

The other specifications state safety only and assume no fairness. Nothing in
the code obliges an assembly, a client or an ingestion to go on, and a pure
computation that returns needs no fairness to be said to.

## 4. Proofs

The theorems hold for any sets of requests, runs, keys, clusters, regions, refs,
documents and items and any bounds. Each proof module states the inductive
invariants it uses, one lemma per part and action, and the theorems at the end.
Every inductive invariant was checked by TLC on the instance of its run before
it was proved.

`RunControlProofs` puts no condition on the clients, and locks may be made
twice. `WritersExcluded` (`SingleWriterUnlessRaced`), `UpdatesKept`
(`NoLostUpdate`) and `JournalNumbered` (`JournalGapFree`) say what a run's lock
is worth wherever no two threads have been making it at once. Exclusion is not
inductive: handlers under `run_locks` are kept apart by the lock, but
`create_run` takes none, and is safe only because no client can name its run
until it has answered. The invariant says so: `Serving` (where a request of each
kind can be), `Naming` (every id a client or a cached reply names is of a stored
run), `Ownership` (a handler holds the lock it waited for; a create works on a
run nobody can name). On top of it, `Unraced` has of every run outside `raced`
that all its handlers use one lock (`OneLock`), that what an update has read is
still stored (`UpdatesCurrent`), and that a drawn journal number is still the
length of a gap-free journal (`Numbering`). The step that could break `OneLock`
is `MakeLock`: two threads must both be there, and then the history has the run
in `raced`.

`ConflictsChecked` (`ConflictChecked`) and `CreatesReplay`
(`ReplayedCreateIsOneRun`) are about creates, which take no lock at all. `DInv`
says that a create in its conflict check has still to read the manifest of every
run that has been active from the start and whose create it never met
(`Looking`), so that it cannot get past the check while there is one; and that a
keyed create past the look-up, if it never met a create of its key, still finds
nothing stored under it, and has its answer stored afterwards (`Replayed`). A
restart ends all requests in flight and forgets the keys, which is why `Stations`
keeps apart what belongs to which server process; `Remembered` says that the
history has every meeting and every run that left the active states.

What a run leaves on disk holds of raced runs as well: `Refinement`
(`ImplementsLifecycle`), `Ratification` (`SynthesisIsRatified`),
`DriftGuarded` (the action property `NothingRatifiedOnMovedCorpus`),
`OrphansInert` (`OrphanOnlyPausesAndResumes`), `JournalComplete`
(`JournalAccountsForStore`). Two submissions of one run may then be inside at
once, so none of this rests on there being one writer. `Evidence(r)` says what
is on disk once thread `r` has come to a label (a thread about to store
candidates works on a sealed, unmoved run some batch declared complete; a
create about to seal has stored its three outputs), `Recorded(r)` the same of
the journal. They survive other threads because files, seals, decisions and
events only accumulate (`Growth`, `JournalGrowth`), a create's run is nobody
else's (`BuildsAlone`, from `Ownership`), and every thread writes back the
corpus hash that is stored (`HashKept`). Steps are grouped for this: `Quiet`
ones touch neither the disk nor a thread at work, `Moves` only the thread,
`Writes` the disk (`StepsKnown`).

`EgressLedgerProofs`: `TypeCorrect`; `EgressIsLedgered`
(`NothingCrossesUnledgered`) and `ManifestIsComplete`
(`SealedAccountsForEveryRef`); `UnsharedChain` (`ChainUnbrokenUnlessShared`)
and `UnsharedIds` (`EntryIdsCount`); `Refinement` (`ImplementsHashChain`). None
assumes anything about when assemblies run or die. The invariant ties each
running assembly to the ledger: what it is storing has its entry (`Gated`,
`Decided`) and every ref is left, in hand, admitted or excluded (`Sorted`). A
second layer on top is about chains: an assembly that has not begun has read
nothing (`NewRuns`), every overlap is in `shared`, and of each region outside it
the caches of a running assembly say what the ledger says (`InStep`) and the
chain is unbroken and numbered (`Kept`). Only `NextEntryId` brings a second
assembly into a region, and with it the region into `shared`. The refinement
needs none of this layer: an entry is the next of its writer's chain even where
the region's chain forks.

`AgentProofs`, of a session: `TypeCorrect`, `AtMostFourAnswers`
(`FourAnswersPerItem`), `BoundedOvershoot` (`OvershootIsOneAnswer`),
`Finality` (the action property `DecidedIsFinal`), `Refinement`
(`ImplementsSynthesisLoop`). The count of four is not inductive by itself: the
invariant `Counted` equates the answers charged to the item in hand with the
retries it has used. `Guarded` (a call is out only with budget left) carries
the overshoot, `Open` and `Placed` (what is on the list or in hand is undecided
and in one place) finality and refinement.

`AgentProofs`, of a mapping, for any contracts, specifications, types, patterns,
templates and length of the suite: `CriticalLossesHeard` (`NoSilentLoss`),
`InferredTypesProduced` (`TypeInferenceSound`), `CheckedMapsDecide`
(`CompiledMapsDecide`) and `ProvedPlansReverse` (`PassedPlansReverse`). None of
the four is inductive, for each is about a single instance. `MappingInvariant`
carries what they follow from: a plan that is tested or used is that of a
specification without errors (`Compiled`), every case so far went there and
back with nothing undeclared lost that is not on record (`CasePassed`), every
escalation is that of a walk over a known instance (`EscalatedBy`), and the
results kept are what the plan makes of the instance (`ApplyInv`). Under it are
three layers of lemmas:

- Transforms. `ForwardStep` takes each of the fourteen apart: it fails, crashes
  or returns data of the type the compiler's table has for it. Along a chain
  (`ForwardThrough`) the type inferred is the type produced, and a chain that
  fixes its type fixes it whatever the source (`FixedType`).
- Walks. After any number of steps, what is written is what some step of those
  left there (`StepWalked`, `WalkIs`); for a step whose target is its own
  the outcome is exactly its value, or null (`StepAlone`).
- The compiler. No errors means what T2, T3 and T4 say of every entry
  (`EntryCompiled`, `MapDecides`, `TypeCompiled`), and resolving value maps
  changes neither types nor flags (`ChainResolved`).

`ProvedPlansReverse` is the argument that round trips with one seed for all
attributes are enough. In a plan whose attributes have paths of their own, what
comes back of an attribute depends on its value alone (`ForwardOutcome`,
`ReverseOutcome`), and each value of an enumeration no longer than the suite
occurred in some case (`ValueSeen`); the case did not stop and lost nothing
undeclared, so neither does the instance, though its values never occurred
together. The theorem needs the premise `SuiteSaw`: an attribute *without* an
enumeration takes a value of some case. It is not implied, since a pattern or a
case mode is free to fail on the 25th value where it did not on the first 24.

`LinkageProofs`: `LinkedStayTogether` (`GroupsPartitionLinked`) and
`PairsAreDecided`
(`ComparablePairsAreDecided`), for any attributes, scores, signals and block
sizes. `Component` is stated as the least set of ids no edge leaves; that
components are classes (`ComponentsPartition`) follows from the complement of
such a set being one too. The invariant `LInv` is the first
property and that nothing is built before the split: stated of groups left
and clusters built together, the partition is inductive. `PairsAreDecided`
follows a pair from the blocks to the export, on top of `LInv`. Two attributes
with one blocking head are a block, in which each is once (`GroupsFound`); if
it fits it is kept, or an earlier one with the same members is, and that one
fits as well (`DedupeKeeps`, where length is cardinality). The invariant `PInv`
then says that a comparable pair is seen or still ahead of the loop (`Awaited`),
that a seen pair is decided, and once (`Seen`), and that a linked pair is in one
group or cluster, or all that holds either of the two descends from a group in
which a signal fired (`Splitting`). That the score does not depend on which of
the two comes first (`SimilaritySymmetric`) is needed because blocks list
attributes in different orders. Nothing is assumed of blocks that are cut to
size, not even what they hold: they only add pairs.

`SelectionProofs` has the lemmas that these proofs keep needing: a set of
positions has a last one (`LastPosition`), what holds at the start and is kept
by every step holds at every position (`Induction`), a function defined by
recursion over positions exists (`RecursionDefined`), what `Only` selects
(`OnlySelects`) and in which order, what flattening a sequence of sequences
holds, and that a sequence without repetition is as long as its range is large.
The induction theorems of the library take the property as an operator; stated
of the *set* of positions that have the property they need none. This is how
folds over sequences come within reach, provided the model writes them as
recursive functions over positions: `SelectSeq` and the folds of the library
stay opaque to the provers, and `Only` and `Where` stand for the former.

`ReleaseProofs` is about a reader beside a session. `ReleasesAreRatified`
(`ReleaseWasRatified`): a release stands on signed candidates and covers every
region, although candidates may be replaced between the gates and the write.
`RInv` says that clusters and candidates are a store and answers of the model to
it, and that a request carries the candidates it read; `ConceptIsSigned` that a
concept without gaps has a signed candidate behind it, the last one of its
cluster; `Covered` that a region without any concept scores zero, which no gate
lets through. `QuietPagesHaveEveryGap` (`QuietPagesAreComplete`): the pages a
client has read are a prefix of the register as long as no session wrote
(`PagesInv`), whatever the limit, none, zero and negative ones included: a page
never ends behind the register, and one that ends in front of it says where to
go on (`StopIsWithin`). `PacksAreWhole` (`PackIsWhole`): what is about the files
of a pack follows from how the pack is built, but that every concept of it has a
file needs the core of the second reading, so `NextPack` is proved on top of
`RInv`. `ScoresAreEarned` (`ScoreIsEarned`): where candidates have ids of their
own, the score is what signed candidates earn over the weight of every cluster
there is, also of one nobody synthesised or signed; `ScoreInv` says that no
cluster has two candidates. `GapsAccountForGates` (`GapsExplainGates`): a
cluster is listed as unresolved or unevidenced once if it is a reason why gate 1
or gate 3 fails and not at all otherwise, and a region below its floor lists all
that is not in the core there. The proof counts the places of an entry in each
part of the register (`ListedOnce`, `ListedWhere`), from the distinct ids of
`ContractAssumption`; for the region floors it first finds a concept behind the
shortfall (`ShortConcept`).

`IntakeProofs`. Of operators: `PolicyFollowsLadder`, the policy admits
exactly what the ladder does not block and the licence permits, so that
`classify_and_redact` may take the verdict of one when the other admits; and
`OverrideNeverDecides`, an approval by the data protection officer never
changes the policy's decision, because some rule decides every input before
the override is looked at. Of the state machine, for any histories of the
sources, any answers of the Scout, any parsers and any number of assemblies:
`Gating` (its inductive invariant), `ArtefactsAreOfOneCommit` (`OneSnapshot`)
and `AdmittedLeaveFit` (`AdmittedIsFit`), which is about the bytes and the
spelling in which a value was flagged; what is left in another spelling is
section 5's. `IInv` says that what waits in a queue
is a ref of the listing (`Queues`), that nothing is sealed before the gate
(`NoneBeforeGate`), and that every artefact is what the gate made of the
document its source held, at the pinned commit or in some edition (`Artefacts`,
`Gated`). The heart of fitness is the replace-all: its steps are not
independent, for a replaced value may have been part of a later one. What holds
after every step is that a phrase still in the text was there before and is in
none of the values replaced so far, or is in a value that is no longer whole; so
no flagged value survives the last step, in whatever order equal lengths come.

`SubstrateProofs`: `SubstrateSettled` (`SearchIsSettled`), for any runs,
corpora, queries and rankings. A row is never taken over, because a transaction
writes only texts nobody has committed or is writing (`Apart`); a run that has
committed writes no row again when it is repeated, because all of its texts are
in the table (`Whole`), which holds because it has looked up each of them before
(`ReadSoFar`). The invariant `SInv` is their conjunction with the typing the
steps need (`Shape`, `Reading`). `RecordsIndexed` (`RecordsAreIndexed`): every
attribute on file has its embedding and edges, and its lineage reaches the
artefact. `XInv` says that an ingestion's writes and the tables together hold
all that is derived from the artefacts it has passed (`IndexedSoFar`), that a
committed run's are in the tables (`AllIndexed`), and that files come after the
commit (`RecordsAfter`); nothing committed is taken out, an embedding is only
replaced by another of its attribute. Lineage is a recursive function over hops,
of which the proof needs the first two (`Near`). `CorpusSearchable`
(`CorpusIsSearchable`): what the chunkers take of a committed run's corpus can
be searched for. `Whole` has all the texts in the table and `KInv` their rows of
the right kind; the rest is about the chunkers. `WindowsCover`: for any size of
windows and any overlap below 100 %, every word of a body is in a window, since
a step is never more than a window and the last one ends with the body.
`MembersAreInherited`: `_collect_members` finds the members of exactly the bases
a type has, by induction over its depth in the hierarchy; the bases are defined
independently of it, as the least set that inheritance closes. The property says
what is taken without the chunker's words: words under a heading, or of a page
that has none, and what stands in the first sequence of a type;
`DirectMembersAre` and `FirstSequenceIs` show that the walk finds the latter.

Assumptions are the named `ASSUME`s of the modules, all evaluated by TLC on the
instances. Sets are finite or of naturals, bounds are naturals, stored clusters,
histories and chunk lists are sequences. Those that say more:

- `GateAssumption` (`Gate`): a spelling that differs from what a reader gives
  stands for one phrase. `RunControlAssumption` and the others give constants
  their types and nothing more; no theorem assumes anything of when requests,
  assemblies or ingestions come, overlap or die.
- `ReleaseAssumption`: the limit of a page is an integer, or none.
- `ContractAssumption` (`ReleaseControl`) is what the contracts validate or
  construct: the id of a cluster is a digest of its members
  (`clustering.py`), so that two clusters of a store differ in it; evidence and
  members are not empty; a candidate's id has another form than a cluster's; a
  weight is 1, 3 or 5.
- `TokenAssumption` (`Gate`): a token is no phrase of any text. A value of one
  or two letters could also occur among the letters of a token put in before
  it; the model does not look inside tokens, so that case is left out.
- `MappingAssumption` (`MappingRun`) is what C5 and C10 admit: enumerations,
  entries, arguments and value maps are sequences, a failure policy is one of
  four or missing, a constant is a text, a number or a truth value; and an
  attribute has a path that is its own, as in `LinkageAssumption`.
- `LinkageAssumption`: an order of the corpus has every attribute once. Ids are
  derived from artefact and path; section 5 names the one case in which a parser
  yields an id twice.
- `IsDocument` (`Chunking`, part of `SubstrateAssumption`): sections and children
  are lists, and no complex type is its own ancestor. XML Schema forbids it, and
  `_collect_members` would not return.
- `IntakeAssumption`: the histories are of documents (`Document`), each wiki
  edition has all the pages, as the listing is of one moment and a page that is
  gone fails the fetch.

Model-checked only:

- Liveness (`EveryRequestAnswered`, `SessionsEnd`), for which the proof system
  has no rules here.
- `RecordsDescribeContract`: the parsers are `RECURSIVE` operators over trees.
- `CutsAreWeakest`: that a removed edge is a weakest one of a whole group is an
  argument about paths in the group, which we have not carried out.

`PassedPlansReverse` has the premise `SuiteSaw` of its theorem in the property
itself, so run and proof say the same.

## 5. Where code and documentation differ

Besides the two findings, these are differences met while modelling. Where a
property is named it is defined in the module and no run checks it, because the
code does not keep it.

Runs, ledger, agents:

- `SingleWriter` (`RunControl`): `run_locks` is a `defaultdict(threading.Lock)`
  keyed by UUID; `UUID.__hash__` and `__eq__` are Python code and run before a
  missing lock is stored, so the first two requests on a run may each make a
  lock of their own and both be inside (on CPython 3.11 with a short switch
  interval, 54 of 20,000 trials). `pipeline/run_store.py:184-185` counts on the
  "existing single-writer-per-run scope".
- `KeyActsOnce` (`RunControl`): `submit_checkpoint_decisions` asks the
  idempotency store before it takes the lock, and tells it after it, only if
  nothing raised. A repetition that comes while the first submission is served,
  or after it failed in synthesis, records the batch again under the same key;
  `api/idempotency.py:3-4` says "rather than acting twice". Two creates in
  flight together with one key make two runs.
- `ConflictCheckSuffices` (`RunHistory`): `resume_run` looks at no other run and
  PAUSED is not among the `_ACTIVE_STATES`, so pause, create, resume leaves two
  active runs of one domain without any overlap of requests.
- `ChainUnbroken` (`EgressLedger`): the sequencer reads the end of a region's
  ledger once. Two assemblies that both read before either appends write two
  entries with the same `prevHash` and id, against "A break in the chain
  invalidates the run (I6)" (`gate/ledger.py:2-3`).
- `ProviderFailurePauses`: a provider failure answers 503 "run pauses" and
  leaves the run's state as it was.
- `SealedEvidenceIsWhole`: `write_bytes` creates the file before it fills it; a
  death in between leaves a torn file that later runs take as written.
- `RunWithinCeiling` (`AgentInvoke`): the budget is charged after the call, and
  every submission starts a fresh one. `OvershootIsOneAnswer` is what holds.
- An answer that is not JSON breaks the session off instead of using a schema
  retry, against the docstring of `Agent.invoke`.

Gate, parsers, intake:

- The override of `policy.py` is unreachable with the rules of `policy.yaml`
  (theorem `OverrideNeverDecides`), and no caller passes one.
- `MaskedInFull` (`Intake`): the detectors read what the YAML, JSON or XML
  reader gives, `redact` looks for it in the raw bytes. A value the bytes spell
  in another way, as a YAML scalar folded over two lines, with a JSON escape or
  an XML entity, is flagged, not found, and leaves with verdict mask;
  `gate/gate.py:174-177` says "there is no partial-masking failure mode".
- `MaskingSparesGrammar` (`IntakeParsing`): an example or default that is also a
  word of the grammar is masked there too. `default: date` takes every
  `format: date` with it, and the parser, which reads the masked bytes, records
  those fields as strings; `gate/structure.py:30-32` calls this risk
  "theoretical (and here, irrelevant)".
- A masked value may also make XML not well-formed, and an empty example
  (`default: ""`) is "replaced" between all characters. An XML document with a
  comment makes the gate raise (`etree.QName` of a comment's tag), and so does
  a value to mask in bytes that are not UTF-8: the run ends (`GateFails`).
- What no detector looks at: Avro `doc`, XML default values, enumeration texts.
- A markdown page with a domain token scores in the uncertain band and is kept;
  no parser takes it, so `parse` raises after S1 has sealed.
- OpenAPI arrays of inline objects keep cardinality single; XSD takes inherited
  members over one `extension` only, although "hierarchies: Flattened"; a named
  type with a choice id used twice shares its choice group; a parameter name
  used in path and query yields one attributeId twice.
- `discover` resolves HEAD twice (rev-parse, then ls-tree); `OneSnapshot` holds
  because a path that the pinned commit lacks makes the fetch fail. The
  Confluence connector reads a page again when it fetches it, against "MUST NOT
  resolve a moving reference" in `connectors/base.py`.

Algorithms and coverage:

- `NeverClusterAndReviewPair` (`Linkage`): a pair in the review band may end in
  one cluster through a third attribute (`test_clustering.py:129`).
- Conflict class "granularity" cannot be reached from linked pairs, and
  "obligation" not for a mandatory member beside another, since the homonym
  signal splits these first. Blocking by embedding is never switched on.
- Attributes that link to nothing are in no cluster, so neither in the universe
  nor in the gap register: the denominator does not count them.
- `OnlyPeopleApprove` (`ReleaseControl`): `ratifying_sme` and status come from
  the model's answer; no decision of a person is needed
  (`coverage.py:87-90` says otherwise).
- Two candidates with one id corrupt the score (I4 of `validators.py` would say
  so, nothing calls it there); the offset cursor skips or repeats gaps across a
  session; a release of an existing version overwrites it; `diff` finds nothing
  breaking since artefacts are always empty; the logical model's `realisedBy`
  of an extension attribute names the entity's schema in the core.

Mapping and substrate:

- `NoCriticalLoss` (`MappingRun`): two weight-5 attributes of equal enumeration
  mapped to one path pass the suite, whose cases give all attributes one seed
  (`roundtrip.py:72`), and lose a value afterwards.
- The text of a page before its first heading, a heading without words, members
  of an `xs:all`, of a second or nested sequence, of a restriction or a simple
  content, and the branches of a choice that are no elements are in no chunk
  (`chunking.py:147-172`, `266-278`). The minimum of 400 tokens (line 46) is
  not used.
- A lossy transform with a note hides a step that never succeeds in the suite;
  a missing argument is a `TypeError` at run time, an unknown name a `KeyError`;
  `plan.escalations` is never emptied.
- `ReplayFindsItsCorpus` (`Substrate`): chunks are keyed by content and stay
  with the run that wrote them first, so a second run over the same corpus finds
  nothing, against `search.py`'s "so that a replayed run retrieves the same
  context in the same order". Lineage reads across runs.

## 6. Not modelled

- I/O errors inside the run store, and the `manifest.json.tmp` that all writers
  of a manifest share; `SingleWriterUnlessRaced` is what makes sharing it safe.
- A ledger line cut off by a death: an entry is one `write` of one line.
- A corpus hash that moves while a request runs: nothing in the program moves
  one (section 2, `DriftCorpus`).
- That `search` reads rows and vector scores in two statements, between which
  another ingestion may commit, and that BM25 depends on all chunks of the run's
  filter: `Answer` is one read with constant scores.
- XML elements with `ref=` and recursive types; a daylight saving time (a zone's
  offset is fixed); the fraction of an overlap score below its integer unit; the
  difference between integer and decimal, and between date and dateTime, in
  `TypeInferenceSound`.
- Checkpoints other than TRIAGE: the API accepts their names, but nothing in
  the code seals one, so they end in `NotSealed`.
- Prompts, the wording of answers, JSON schema validation; the semantic resolver
  and the schema interpreter, which no module but their tests uses;
  `code_inference`, which the router never calls.
- Authentication, the layout of spreadsheets and documents, settings files.
- The arithmetic of BM25 and cosine similarity (constants of the model), of
  floats in `scale`, and the text of numbers and dates beyond whether a value
  survives them.
- `get_attribute`, `neighbours` and `acord_lookup`, which read single rows.
- The evaluation harness (offline scoring), the code generator, the archived
  prototype (nothing imports it).
- Liveness of creates, assemblies and ingestions: they may fail at any stage,
  which is all the code promises.

## 7. Plan

Done, in this order: `RunControl` and `RunLifecycle`; `EgressLedger` and
`HashChain`; `AgentInvoke` and `SynthesisLoop`; `Linkage`; `ReleaseControl`;
`MappingRun`; `Intake`; `Substrate`; proofs of each that can be proved about,
for `RunControl`, `EgressLedger`, `AgentInvoke`, `ReleaseControl`,
`MappingRun` and `Substrate` of every safety property their passing runs check.

Next: a proof of `CutsAreWeakest`; for which patterns and days `SuiteSaw` can be
dropped; the parsers as recursive functions over the depth of a tree, for
`RecordsDescribeContract`.
