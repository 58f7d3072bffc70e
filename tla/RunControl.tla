----------------------------- MODULE RunControl -----------------------------
(***************************************************************************)
(* The run-control API over the orchestrator and its file store.           *)
(*                                                                         *)
(* Every HTTP request is served by a thread of the web server's pool, so   *)
(* the handlers of api/run_control.py interleave between any two accesses  *)
(* to the run store.  The module follows one thread per request: pc is the *)
(* next store access, seen and seq hold what the thread has read and will  *)
(* write back later.  update_run_state and _journal are each a read and a  *)
(* write; mid[r] says that r is between the two.                           *)
(*                                                                         *)
(* Contents are abstracted to what control flow and the properties tell    *)
(* apart: a manifest to its state and corpus hash, a decision batch to its *)
(* idempotency key and its complete flag, a candidate to its cluster.      *)
(* There is one domain: the orchestrator supports one.                     *)
(***************************************************************************)
EXTENDS Naturals, Sequences, FiniteSets

CONSTANTS
    Requests,     \* the HTTP requests of a behaviour, each sent at most once
    Runs,         \* the run ids uuid4 can hand out
    Keys,         \* Idempotency-Key values
    Clusters,     \* the concept clusters S4 finds in a corpus
    NoRun, NoKey, NoThread,
    MaxCreates,   \* bound on create requests
    MaxRestarts,  \* bound on server restarts
    MaxDrifts     \* bound on corpus changes made behind the API's back

ASSUME RunControlAssumption ==
    /\ NoRun \notin Runs /\ NoKey \notin Keys /\ NoThread \notin Requests
    /\ MaxCreates \in Nat /\ MaxRestarts \in Nat /\ MaxDrifts \in Nat

VARIABLES
    \* the run store, on disk
    manifest,    \* run -> manifest.json: its state and its corpusHash
    files,       \* run -> which write-once stage outputs exist
    sealed,      \* run -> corpusHashAtSeal of checkpoint TRIAGE, or "none"
    decisions,   \* run -> decisions.jsonl: the submitted batches
    candidates,  \* run -> the clusters candidates.jsonl has a candidate for
    journal,     \* run -> journal.jsonl
    \* the server's memory
    table,       \* run -> the lock run_locks has for it, or NoThread; a lock
                 \* is named by the thread that made it
    lock,        \* lock -> the thread inside it, or NoThread
    handle,      \* request -> the lock its thread waits for or holds
    cached,      \* route -> key -> the reply the IdempotencyStore holds
    pc, mid,     \* request -> next access, and whether it is half done
    seen,        \* request -> the manifest the thread last read or wrote
    seq,         \* request -> what next_journal_seq returned to the thread
    todo, made,  \* request -> clusters still to synthesise, candidates so far
    unread,      \* request -> the listed runs whose manifest is still to read
    \* the clients
    call,        \* request -> what it asks for; run is the run it works on
    reply,       \* request -> the response
    known,       \* the run ids a client can name
    restarts, drifts

disk   == <<manifest, files, sealed, decisions, candidates, journal>>
locks  == <<table, lock, handle>>
memory == <<locks, cached>>
locals == <<mid, seen, seq, todo, made, unread>>
client == <<call, reply, known>>
bounds == <<restarts, drifts>>
vars   == <<disk, memory, pc, locals, client, bounds>>

-----------------------------------------------------------------------------
States == {"absent", "CREATED", "RUNNING", "AWAIT_TRIAGE",
           "AWAIT_MODEL_PROVIDER", "PAUSED", "CANDIDATES_READY"}
ActiveStates == {"CREATED", "RUNNING", "AWAIT_TRIAGE", "AWAIT_MODEL_PROVIDER"}
Hashes    == {"zero", "corpus", "moved"}
Manifests == [state : States, hash : Hashes]
Absent    == [state |-> "absent", hash |-> "zero"]
Outputs   == {"corpus", "attributes", "clusters", "candidates"}
Stages    == {"S1", "S3", "S4", "S5", "S6", "S7", "TRIAGE",
              "tool"}   \* a tool.call event, which names no stage
JournalEvents == [seq : Nat, stage : Stages, outcome : {"ok", "escalated"}]
Batches   == [key : Keys \union {NoKey}, complete : BOOLEAN]
Calls     == [op : {"none", "create", "pause", "resume", "decide"},
              run : Runs \union {NoRun}, key : Keys \union {NoKey},
              complete : BOOLEAN]
NoCall    == [op |-> "none", run |-> NoRun, key |-> NoKey,
              complete |-> FALSE]
Statuses  == {"none", "201", "202", "404", "409", "429", "500", "503", "lost"}
Replies   == [status : Statuses, run : Runs \union {NoRun}, state : States]
NoReply   == [status |-> "none", run |-> NoRun, state |-> "absent"]

(* The _journal calls of the orchestrator: label, event, where it goes on. *)
Log(stage, outcome, then) ==
    [stage |-> stage, outcome |-> outcome, then |-> then]
Logs == [logS1     |-> Log("S1", "ok", "S3"),
         logS3     |-> Log("S3", "ok", "S4"),
         logS4     |-> Log("S4", "ok", "seal"),
         logSeal   |-> Log("S4", "ok", "remember"),
         logPark   |-> Log("TRIAGE", "escalated", "park"),
         logS5     |-> Log("S5", "ok", "synth"),
         logTool   |-> Log("tool", "ok", "synth"),
         logReject |-> Log("S6", "escalated", "synth"),
         logS6     |-> Log("S6", "ok", "logS7"),
         logS7     |-> Log("S7", "ok", "ready")]

(* The update_run_state calls: label, new state, where it goes on.         *)
Update(to, then) == [to |-> to, then |-> then]
Updates == [await   |-> Update("AWAIT_TRIAGE", "logSeal"),
            pause   |-> Update("PAUSED", "exit"),
            unpause |-> Update("RUNNING", "exit"),
            park    |-> Update("AWAIT_MODEL_PROVIDER", "exit"),
            ready   |-> Update("CANDIDATES_READY", "exit")]

LogLabels    == {"logS1", "logS3", "logS4", "logSeal", "logPark", "logS5",
                 "logTool", "logReject", "logS6", "logS7"}
UpdateLabels == {"await", "pause", "unpause", "park", "ready"}
(* create_run from its first store access to the reply: the run is its own.*)
BuildLabels  == {"S1", "running", "logS1", "S3", "logS3", "S4", "logS4",
                 "seal", "await", "logSeal", "remember"}
(* The bodies of the "with run_locks[run_id]" blocks.                      *)
LockedLabels == {"pause", "resume", "unpause", "check", "record", "advance",
                 "logPark", "park", "logS5", "synth", "logTool", "logReject",
                 "store", "logS6", "logS7", "ready", "exit"}
Labels == {"idle", "done", "look", "list", "scan", "admit", "lock", "make", "wait"}
              \union BuildLabels \union LockedLabels

Run(r)      == call[r].run
InFlight(r) == pc[r] \notin {"idle", "done"}
Builds(r)   == call[r].op = "create" /\ pc[r] \in BuildLabels
Holds(r)    == call[r].op # "create" /\ pc[r] \in LockedLabels
Active      == {n \in Runs : manifest[n].state \in ActiveStates}
Route(r)    == IF call[r].op = "create" THEN NoRun ELSE Run(r)

-----------------------------------------------------------------------------
Init ==
    /\ manifest = [n \in Runs |-> Absent]
    /\ files = [n \in Runs |-> {}]
    /\ sealed = [n \in Runs |-> "none"]
    /\ decisions = [n \in Runs |-> <<>>]
    /\ candidates = [n \in Runs |-> {}]
    /\ journal = [n \in Runs |-> <<>>]
    /\ table = [n \in Runs |-> NoThread]
    /\ lock = [l \in Requests |-> NoThread]
    /\ cached = [route \in Runs \union {NoRun} |-> [k \in Keys |-> NoReply]]
    /\ pc = [r \in Requests |-> "idle"]
    /\ mid = [r \in Requests |-> FALSE]
    /\ seen = [r \in Requests |-> Absent]
    /\ handle = [r \in Requests |-> NoThread]
    /\ seq = [r \in Requests |-> 0]
    /\ todo = [r \in Requests |-> {}]
    /\ made = [r \in Requests |-> {}]
    /\ unread = [r \in Requests |-> {}]
    /\ call = [r \in Requests |-> NoCall]
    /\ reply = [r \in Requests |-> NoReply]
    /\ known = {}
    /\ restarts = 0
    /\ drifts = 0

Go(r, label) == pc' = [pc EXCEPT ![r] = label]

(* The handler returns or raises: the thread is gone, its frame with it.   *)
Finish(r, answer) ==
    /\ Go(r, "done")
    /\ reply' = [reply EXCEPT ![r] = answer]
    /\ mid' = [mid EXCEPT ![r] = FALSE]
    /\ seen' = [seen EXCEPT ![r] = Absent]
    /\ seq' = [seq EXCEPT ![r] = 0]
    /\ todo' = [todo EXCEPT ![r] = {}]
    /\ made' = [made EXCEPT ![r] = {}]
    /\ unread' = [unread EXCEPT ![r] = {}]
    /\ UNCHANGED <<call, bounds>>

Answer(r, status) ==
    [status |-> status, run |-> Run(r), state |-> seen[r].state]
Error(status) == [status |-> status, run |-> NoRun, state |-> "absent"]

Release(r) ==
    /\ lock' = [lock EXCEPT ![handle[r]] = NoThread]
    /\ handle' = [handle EXCEPT ![r] = NoThread]

-----------------------------------------------------------------------------
(* The clients.                                                            *)

Send(r, c) ==
    /\ pc[r] = "idle"
    /\ call' = [call EXCEPT ![r] = c]
    /\ Go(r, IF c.op \in {"create", "decide"} THEN "look" ELSE "lock")
    /\ UNCHANGED <<disk, memory, locals, reply, known, bounds>>

SendCreate(r) ==
    /\ Cardinality({q \in Requests : call[q].op = "create"}) < MaxCreates
    /\ \E k \in Keys \union {NoKey} :
          Send(r, [NoCall EXCEPT !.op = "create", !.key = k])

SendPauseOrResume(r) ==
    \E n \in known, op \in {"pause", "resume"} :
        Send(r, [NoCall EXCEPT !.op = op, !.run = n])

SendDecisions(r) ==
    \E n \in known, k \in Keys \union {NoKey}, complete \in BOOLEAN :
        Send(r, [op |-> "decide", run |-> n, key |-> k, complete |-> complete])

-----------------------------------------------------------------------------
(* Shared steps.                                                           *)

(* idempotency.get, before any check of create and decide.                 *)
Look(r) ==
    /\ pc[r] = "look"
    /\ LET hit == IF call[r].key = NoKey THEN NoReply
                  ELSE cached[Route(r)][call[r].key]
       IN  IF hit # NoReply
           THEN /\ Finish(r, hit)
                /\ known' = known \union ({hit.run} \ {NoRun})
           ELSE /\ Go(r, IF call[r].op = "create" THEN "list" ELSE "lock")
                /\ UNCHANGED <<locals, client, bounds>>
    /\ UNCHANGED <<disk, memory>>

(* Mutant: the reply to a create is stored under the run's own route.      *)
MutRemember(r) ==
    /\ pc[r] = "remember"
    /\ LET answer == Answer(r, IF call[r].op = "create" THEN "201" ELSE "202")
       IN  /\ cached' = IF call[r].key # NoKey
                        THEN [cached EXCEPT ![Run(r)][call[r].key] = answer]
                        ELSE cached
           /\ Finish(r, answer)
           /\ known' = known \union {Run(r)}
    /\ UNCHANGED <<disk, locks>>

(* idempotency.put (setdefault: the first reply stays), then the reply.    *)
Remember(r) ==
    /\ pc[r] = "remember"
    /\ LET answer == Answer(r, IF call[r].op = "create" THEN "201" ELSE "202")
           key == call[r].key
       IN  /\ cached' = IF key # NoKey /\ cached[Route(r)][key] = NoReply
                        THEN [cached EXCEPT ![Route(r)][key] = answer]
                        ELSE cached
           /\ Finish(r, answer)
           /\ known' = known \union {Run(r)}
    /\ UNCHANGED <<disk, locks>>

(* _journal: next_journal_seq counts the lines, then the event is appended.*)
LogRead(r) ==
    /\ pc[r] \in LogLabels /\ ~mid[r]
    /\ seq' = [seq EXCEPT ![r] = Len(journal[Run(r)])]
    /\ mid' = [mid EXCEPT ![r] = TRUE]
    /\ UNCHANGED <<disk, memory, pc, seen, todo, made, unread, client, bounds>>

LogAppend(r) ==
    /\ pc[r] \in LogLabels /\ mid[r]
    /\ journal' = [journal EXCEPT ![Run(r)] =
                     Append(@, [seq |-> seq[r], stage |-> Logs[pc[r]].stage,
                                outcome |-> Logs[pc[r]].outcome])]
    /\ mid' = [mid EXCEPT ![r] = FALSE]
    /\ seq' = [seq EXCEPT ![r] = 0]
    /\ Go(r, Logs[pc[r]].then)
    /\ UNCHANGED <<manifest, files, sealed, decisions, candidates, memory,
                   seen, todo, made, unread, client, bounds>>

WriteManifest(r, m) ==
    /\ manifest' = [manifest EXCEPT ![Run(r)] = m]
    /\ seen' = [seen EXCEPT ![r] = m]

(* update_run_state: read the manifest, write it back with the new state.  *)
UpdateRead(r) ==
    /\ pc[r] \in UpdateLabels /\ ~mid[r]
    /\ seen' = [seen EXCEPT ![r] = manifest[Run(r)]]
    /\ mid' = [mid EXCEPT ![r] = TRUE]
    /\ UNCHANGED <<disk, memory, pc, seq, todo, made, unread, client, bounds>>

UpdateWrite(r) ==
    /\ pc[r] \in UpdateLabels /\ mid[r]
    /\ WriteManifest(r, [state |-> Updates[pc[r]].to, hash |-> seen[r].hash])
    /\ mid' = [mid EXCEPT ![r] = FALSE]
    /\ Go(r, Updates[pc[r]].then)
    /\ UNCHANGED <<files, sealed, decisions, candidates, journal, memory,
                   seq, todo, made, unread, client, bounds>>

-----------------------------------------------------------------------------
(* POST /v1/runs.                                                          *)

(* The conflict check takes no lock.  list_runs lists the store's folder   *)
(* and then reads the manifests one by one; a run that comes after the     *)
(* listing is not among them.                                              *)
ListRuns(r) ==
    /\ pc[r] = "list"
    /\ unread' = [unread EXCEPT ![r] = {n \in Runs : manifest[n] # Absent}]
    /\ Go(r, "scan")
    /\ UNCHANGED <<disk, memory, mid, seen, seq, todo, made, client, bounds>>

ReadRun(r, n) ==
    /\ unread' = [unread EXCEPT ![r] = @ \ {n}]
    /\ UNCHANGED <<pc, mid, seen, seq, todo, made, client, bounds>>

(* Mutant: a run that waits for a model provider does not count as active. *)
MutScan(r) ==
    /\ pc[r] = "scan"
    /\ \/ \E n \in unread[r] :
            IF n \in Active /\ manifest[n].state # "AWAIT_MODEL_PROVIDER"
            THEN Finish(r, Error("409")) /\ UNCHANGED known ELSE ReadRun(r, n)
       \/ unread[r] = {} /\ Go(r, "admit") /\ UNCHANGED <<locals, client, bounds>>
    /\ UNCHANGED <<disk, memory>>

Scan(r) ==
    /\ pc[r] = "scan"
    /\ \/ \E n \in unread[r] :
            IF n \in Active
            THEN Finish(r, Error("409")) /\ UNCHANGED known ELSE ReadRun(r, n)
       \/ unread[r] = {} /\ Go(r, "admit") /\ UNCHANGED <<locals, client, bounds>>
    /\ UNCHANGED <<disk, memory>>

(* Mutant: the id is handed out while the run is still being built.        *)
MutAdmit(r) ==
    /\ pc[r] = "admit"
    /\ \E n \in Runs :
          /\ manifest[n] = Absent
          /\ call' = [call EXCEPT ![r].run = n]
          /\ manifest' = [manifest EXCEPT ![n] = [state |-> "CREATED", hash |-> "zero"]]
          /\ seen' = [seen EXCEPT ![r] = [state |-> "CREATED", hash |-> "zero"]]
          /\ known' = known \union {n}
    /\ Go(r, "S1")
    /\ UNCHANGED <<files, sealed, decisions, candidates, journal, memory,
                   mid, seq, todo, made, unread, reply, bounds>>

(* create_run: a fresh id, and its manifest in state CREATED.              *)
Admit(r) ==
    /\ pc[r] = "admit"
    /\ \E n \in Runs :
          /\ manifest[n] = Absent
          /\ call' = [call EXCEPT ![r].run = n]
          /\ manifest' = [manifest EXCEPT ![n] = [state |-> "CREATED", hash |-> "zero"]]
          /\ seen' = [seen EXCEPT ![r] = [state |-> "CREATED", hash |-> "zero"]]
    /\ Go(r, "S1")
    /\ UNCHANGED <<files, sealed, decisions, candidates, journal, memory,
                   mid, seq, todo, made, unread, reply, known, bounds>>

WriteOutput(r, output, next) ==
    /\ files' = [files EXCEPT ![Run(r)] = @ \union {output}]
    /\ Go(r, next)
    /\ UNCHANGED <<manifest, sealed, decisions, journal, memory, mid, seen,
                   seq, made, unread, client, bounds>>

AssembleCorpus(r) ==
    pc[r] = "S1" /\ WriteOutput(r, "corpus", "running") /\ UNCHANGED <<candidates, todo>>
ParseAttributes(r) ==
    pc[r] = "S3" /\ WriteOutput(r, "attributes", "logS3") /\ UNCHANGED <<candidates, todo>>
ClusterAttributes(r) ==
    pc[r] = "S4" /\ WriteOutput(r, "clusters", "logS4") /\ UNCHANGED <<candidates, todo>>

(* The manifest again, from the copy held since CREATED, hash filled in.   *)
StartRunning(r) ==
    /\ pc[r] = "running"
    /\ WriteManifest(r, [state |-> "RUNNING", hash |-> "corpus"])
    /\ Go(r, "logS1")
    /\ UNCHANGED <<files, sealed, decisions, candidates, journal, memory,
                   mid, seq, todo, made, unread, client, bounds>>

(* Mutant: the seal stores the state of the run for its corpus hash.       *)
MutSealTriage(r) ==
    /\ pc[r] = "seal"
    /\ sealed' = [sealed EXCEPT ![Run(r)] = seen[r].state]
    /\ Go(r, "await")
    /\ UNCHANGED <<manifest, files, decisions, candidates, journal, memory,
                   locals, client, bounds>>

SealTriage(r) ==
    /\ pc[r] = "seal"
    /\ sealed' = [sealed EXCEPT ![Run(r)] = seen[r].hash]
    /\ Go(r, "await")
    /\ UNCHANGED <<manifest, files, decisions, candidates, journal, memory,
                   locals, client, bounds>>

(* A connector, the gate, a parser or clustering raises: nothing catches   *)
(* it, the client gets a 500 and the manifest stays as it is.              *)
CreateFails(r) ==
    /\ pc[r] \in {"S1", "S3", "S4"}
    /\ Finish(r, Error("500"))
    /\ UNCHANGED <<disk, memory, known>>

-----------------------------------------------------------------------------
(* Handlers that run under run_locks[run_id].                              *)

(* run_locks[run_id].  The dictionary makes a lock for a key it has not    *)
(* seen, and its C code calls the Python __hash__ of the UUID between the  *)
(* look-up that misses and the store: another thread may run there, miss   *)
(* too, and make a second lock.                                            *)
GetLock(r) ==
    /\ pc[r] = "lock"
    /\ \/ /\ table[Run(r)] # NoThread
          /\ handle' = [handle EXCEPT ![r] = table[Run(r)]]
          /\ Go(r, "wait")
          /\ UNCHANGED <<table, lock>>
       \/ table[Run(r)] = NoThread /\ Go(r, "make") /\ UNCHANGED locks
    /\ UNCHANGED <<disk, cached, locals, client, bounds>>

MakeLock(r) ==
    /\ pc[r] = "make"
    /\ table' = [table EXCEPT ![Run(r)] = r]
    /\ handle' = [handle EXCEPT ![r] = r]
    /\ Go(r, "wait")
    /\ UNCHANGED lock
    /\ UNCHANGED <<disk, cached, locals, client, bounds>>

(* Mutant: the lock is not waited for.                                     *)
MutNoLock(r) ==
    /\ pc[r] = "wait"
    /\ Go(r, IF call[r].op = "decide" THEN "check" ELSE call[r].op)
    /\ UNCHANGED <<disk, memory, locals, client, bounds>>

AcquireLock(r) ==
    /\ pc[r] = "wait"
    /\ lock[handle[r]] = NoThread
    /\ lock' = [lock EXCEPT ![handle[r]] = r]
    /\ Go(r, IF call[r].op = "decide" THEN "check" ELSE call[r].op)
    /\ UNCHANGED <<disk, table, handle, cached, locals, client, bounds>>

(* Mutant: any run is resumed.                                             *)
MutResumeRun(r) ==
    /\ pc[r] = "resume"
    /\ seen' = [seen EXCEPT ![r] = manifest[Run(r)]]
    /\ Go(r, "unpause")
    /\ UNCHANGED <<disk, memory, mid, seq, todo, made, unread, client, bounds>>

(* POST .../resume: only a PAUSED run changes state.                       *)
ResumeRun(r) ==
    /\ pc[r] = "resume"
    /\ seen' = [seen EXCEPT ![r] = manifest[Run(r)]]
    /\ Go(r, IF manifest[Run(r)].state = "PAUSED" THEN "unpause" ELSE "exit")
    /\ UNCHANGED <<disk, memory, mid, seq, todo, made, unread, client, bounds>>

(* Leaving the with block; decide has still to store its reply.            *)
LeaveLock(r) ==
    /\ pc[r] = "exit"
    /\ Release(r)
    /\ IF call[r].op = "decide"
       THEN Go(r, "remember") /\ UNCHANGED <<locals, client, bounds>>
       ELSE Finish(r, Answer(r, "201")) /\ UNCHANGED known
    /\ UNCHANGED <<disk, table, cached>>

(* Mutant: the lock is not released when the handler raises.               *)
MutFail(r, status) ==
    /\ Finish(r, Error(status))
    /\ UNCHANGED <<disk, memory, known>>

(* An exception leaves the with block and becomes an error response, which *)
(* the idempotency store never sees.                                       *)
Fail(r, status) ==
    /\ Finish(r, Error(status))
    /\ Release(r)
    /\ UNCHANGED <<disk, table, cached, known>>

-----------------------------------------------------------------------------
(* POST .../checkpoints/TRIAGE/decisions.                                  *)

(* Mutant: drift is not looked for.                                        *)
MutDrifted(n) == FALSE

Drifted(n) == manifest[n].hash # sealed[n]

NotSealed(r) ==
    pc[r] = "check" /\ sealed[Run(r)] = "none" /\ Fail(r, "404")

CorpusDrift(r) ==
    /\ pc[r] = "check" /\ sealed[Run(r)] # "none"
    /\ Drifted(Run(r))
    /\ Fail(r, "409")

(* Mutant: a submission to an unsealed checkpoint is recorded.             *)
MutCheckPasses(r) ==
    /\ pc[r] = "check"
    /\ seen' = [seen EXCEPT ![r] = manifest[Run(r)]]
    /\ Go(r, "record")
    /\ UNCHANGED <<disk, memory, mid, seq, todo, made, unread, client, bounds>>

CheckPasses(r) ==
    /\ pc[r] = "check" /\ sealed[Run(r)] # "none"
    /\ ~Drifted(Run(r))
    /\ seen' = [seen EXCEPT ![r] = manifest[Run(r)]]
    /\ Go(r, "record")
    /\ UNCHANGED <<disk, memory, mid, seq, todo, made, unread, client, bounds>>

RecordDecisions(r) ==
    /\ pc[r] = "record"
    /\ decisions' = [decisions EXCEPT ![Run(r)] =
                       Append(@, [key |-> call[r].key, complete |-> call[r].complete])]
    /\ Go(r, IF call[r].complete THEN "advance" ELSE "exit")
    /\ UNCHANGED <<manifest, files, sealed, candidates, journal, memory,
                   locals, client, bounds>>

(* checkpoint_decisions_complete: the last batch says so.                  *)
DecisionsComplete(n) ==
    /\ decisions[n] # <<>>
    /\ decisions[n][Len(decisions[n])].complete

(* resume_after_checkpoint up to the synthesis loop.  The handler answers  *)
(* its "not sealed" and "not complete" with the state the run is in.       *)
(* Whether the environment names a model provider is asked on every call   *)
(* (model_gateway_factory), so it may differ from one to the next.         *)
ResumeAfterCheckpoint(r) ==
    /\ pc[r] = "advance"
    /\ IF sealed[Run(r)] = "none" \/ ~DecisionsComplete(Run(r))
       THEN /\ seen' = [seen EXCEPT ![r] = manifest[Run(r)]]
            /\ Go(r, "exit")
            /\ UNCHANGED <<disk, memory, mid, seq, todo, made, unread, client, bounds>>
       ELSE IF Drifted(Run(r)) THEN Fail(r, "409")
       ELSE /\ \/ Go(r, "logS5") /\ todo' = [todo EXCEPT ![r] = Clusters]
               \/ Go(r, "logPark") /\ UNCHANGED todo
            /\ UNCHANGED <<disk, memory, mid, seen, seq, made, unread, client, bounds>>

(* One cluster goes to the Canonical Synthesiser: a candidate, which the   *)
(* agent writes through the tool gateway and the gateway journals, none    *)
(* (the work item failed), or a guardrail rejection that is journalled.    *)
Synthesise(r) ==
    /\ pc[r] = "synth"
    /\ \E c \in todo[r] :
          /\ todo' = [todo EXCEPT ![r] = @ \ {c}]
          /\ \/ made' = [made EXCEPT ![r] = @ \union {c}] /\ Go(r, "logTool")
             \/ made' = made /\ Go(r, "synth")
             \/ made' = made /\ Go(r, "logReject")
    /\ UNCHANGED <<disk, memory, mid, seen, seq, unread, client, bounds>>

(* The model call raises: BudgetExceeded, ModelProviderError or an error   *)
(* nobody catches.  ToolDenied cannot come up: the synthesiser uses only   *)
(* artefact.write, which every agent may call.                             *)
SynthesisFails(r) ==
    /\ pc[r] = "synth" /\ todo[r] # {}
    /\ \E status \in {"429", "500", "503"} : Fail(r, status)

(* Mutant: an empty candidate list is not written.                         *)
MutSynthesisEnds(r) ==
    /\ pc[r] = "synth" /\ todo[r] = {}
    /\ Go(r, IF made[r] = {} THEN "logS6" ELSE "store")
    /\ UNCHANGED <<disk, memory, locals, client, bounds>>

SynthesisEnds(r) ==
    /\ pc[r] = "synth" /\ todo[r] = {}
    /\ Go(r, "store")
    /\ UNCHANGED <<disk, memory, locals, client, bounds>>

(* Mutant: the run is made ready before its last events are journalled.    *)
MutWriteCandidates(r) ==
    /\ pc[r] = "store"
    /\ WriteOutput(r, "candidates", "ready")
    /\ candidates' = [candidates EXCEPT ![Run(r)] = made[r]]
    /\ UNCHANGED todo

WriteCandidates(r) ==
    /\ pc[r] = "store"
    /\ WriteOutput(r, "candidates", "logS6")
    /\ candidates' = [candidates EXCEPT ![Run(r)] = made[r]]
    /\ UNCHANGED todo

-----------------------------------------------------------------------------
(* What happens around the handlers.                                       *)

(* The server process stops and starts again: threads, locks and the       *)
(* idempotency store are gone, the run store stays.                        *)
Restart ==
    /\ restarts < MaxRestarts
    /\ restarts' = restarts + 1
    /\ pc' = [r \in Requests |-> IF InFlight(r) THEN "done" ELSE pc[r]]
    /\ reply' = [r \in Requests |-> IF InFlight(r) THEN Error("lost") ELSE reply[r]]
    /\ mid' = [r \in Requests |-> FALSE]
    /\ seen' = [r \in Requests |-> Absent]
    /\ seq' = [r \in Requests |-> 0]
    /\ todo' = [r \in Requests |-> {}]
    /\ made' = [r \in Requests |-> {}]
    /\ unread' = [r \in Requests |-> {}]
    /\ handle' = [r \in Requests |-> NoThread]
    /\ table' = [n \in Runs |-> NoThread]
    /\ lock' = [l \in Requests |-> NoThread]
    /\ cached' = [route \in Runs \union {NoRun} |-> [k \in Keys |-> NoReply]]
    /\ UNCHANGED <<disk, call, known, drifts>>

(* No route lists runs, so a client learns an id from the reply.  The id   *)
(* of a run whose create is gone is found by listing the store's folder.   *)
FindOrphan(n) ==
    /\ manifest[n] # Absent /\ n \notin known
    /\ \A r \in Requests : Builds(r) => Run(r) # n
    /\ known' = known \union {n}
    /\ UNCHANGED <<disk, memory, pc, locals, call, reply, bounds>>

(* The manifest is given another corpusHash between two requests, as       *)
(* tests/api/test_run_control.py does; nothing in the API does.            *)
DriftCorpus(n) ==
    /\ drifts < MaxDrifts
    /\ n \in known /\ manifest[n].hash = "corpus"
    /\ \A r \in Requests : Holds(r) => Run(r) # n
    /\ manifest' = [manifest EXCEPT ![n].hash = "moved"]
    /\ drifts' = drifts + 1
    /\ UNCHANGED <<files, sealed, decisions, candidates, journal, memory, pc,
                   locals, client, restarts>>

-----------------------------------------------------------------------------
SendRequest(r) == SendCreate(r) \/ SendPauseOrResume(r) \/ SendDecisions(r)

CreateStep(r) ==
    \/ ListRuns(r) \/ Scan(r) \/ Admit(r) \/ AssembleCorpus(r) \/ StartRunning(r)
    \/ ParseAttributes(r) \/ ClusterAttributes(r) \/ SealTriage(r) \/ CreateFails(r)
LockedStep(r) ==
    \/ ResumeRun(r) \/ LeaveLock(r) \/ NotSealed(r) \/ CorpusDrift(r)
    \/ CheckPasses(r) \/ RecordDecisions(r) \/ ResumeAfterCheckpoint(r)
    \/ Synthesise(r) \/ SynthesisFails(r) \/ SynthesisEnds(r) \/ WriteCandidates(r)
SharedStep(r) ==
    \/ Look(r) \/ Remember(r) \/ GetLock(r) \/ MakeLock(r) \/ AcquireLock(r)
    \/ LogRead(r) \/ LogAppend(r) \/ UpdateRead(r) \/ UpdateWrite(r)
Serve(r) == CreateStep(r) \/ LockedStep(r) \/ SharedStep(r)

Environment == Restart \/ \E n \in Runs : FindOrphan(n) \/ DriftCorpus(n)

Next == Environment \/ \E r \in Requests : SendRequest(r) \/ Serve(r)

(* A thread that can take a step takes it; clients, restarts and drifts    *)
(* are under no obligation.                                                *)
Fairness == \A r \in Requests : WF_vars(Serve(r))

Spec == Init /\ [][Next]_vars
FairSpec == Spec /\ Fairness

-----------------------------------------------------------------------------
(* Properties.                                                             *)

(* The type invariant. *)
TypeOK ==
    /\ manifest \in [Runs -> Manifests]
    /\ files \in [Runs -> SUBSET Outputs]
    /\ sealed \in [Runs -> Hashes \union {"none"}]
    /\ decisions \in [Runs -> Seq(Batches)]
    /\ candidates \in [Runs -> SUBSET Clusters]
    /\ journal \in [Runs -> Seq(JournalEvents)]
    /\ table \in [Runs -> Requests \union {NoThread}]
    /\ lock \in [Requests -> Requests \union {NoThread}]
    /\ handle \in [Requests -> Requests \union {NoThread}]
    /\ cached \in [Runs \union {NoRun} -> [Keys -> Replies]]
    /\ pc \in [Requests -> Labels]
    /\ mid \in [Requests -> BOOLEAN]
    /\ seen \in [Requests -> Manifests]
    /\ seq \in [Requests -> Nat]
    /\ todo \in [Requests -> SUBSET Clusters]
    /\ made \in [Requests -> SUBSET Clusters]
    /\ unread \in [Requests -> SUBSET Runs]
    /\ call \in [Requests -> Calls]
    /\ reply \in [Requests -> Replies]
    /\ known \in SUBSET Runs
    /\ restarts \in Nat
    /\ drifts \in Nat

(* RunStore numbers events and rewrites manifests "under RunStore's        *)
(* existing single-writer-per-run scope": at most one thread is between    *)
(* its first and last access to a run's files.  Not so where two threads   *)
(* make the run's lock at once; RunHistory says what holds.                *)
SingleWriter ==
    \A q, r \in Requests :
        (Builds(q) \/ Holds(q)) /\ (Builds(r) \/ Holds(r)) /\ Run(q) = Run(r)
            => q = r

(* Humans ratify: candidates exist only for a run whose TRIAGE checkpoint  *)
(* was sealed over finished clusters and was declared complete by some     *)
(* submitted batch; a run is CANDIDATES_READY only when they are stored.   *)
SynthesisIsRatified ==
    \A n \in Runs :
        /\ "candidates" \in files[n] =>
              /\ sealed[n] # "none"
              /\ \E i \in DOMAIN decisions[n] : decisions[n][i].complete
        /\ sealed[n] # "none" => {"corpus", "attributes", "clusters"} \subseteq files[n]
        /\ manifest[n].state = "CANDIDATES_READY" => "candidates" \in files[n]

Journalled(n, stage) ==
    \E i \in DOMAIN journal[n] : journal[n][i].stage = stage /\ journal[n][i].outcome = "ok"

(* The journal accounts for the run: what the store holds, across crashes  *)
(* and failed requests, was journalled before the next stage was entered.  *)
JournalAccountsForStore ==
    \A n \in Runs :
        /\ "attributes" \in files[n] => Journalled(n, "S1")
        /\ "clusters" \in files[n] => Journalled(n, "S3")
        /\ sealed[n] # "none" => Journalled(n, "S4")
        /\ "candidates" \in files[n] => Journalled(n, "S5")
        /\ candidates[n] # {} => Journalled(n, "tool")
        /\ manifest[n].state = "CANDIDATES_READY" => Journalled(n, "S7")

(* A run seen as its evidence on disk, and the lifecycle it implements.    *)
Phase(n) ==
    IF "candidates" \in files[n] THEN "synthesised"
    ELSE IF \E i \in DOMAIN decisions[n] : decisions[n][i].complete THEN "ratified"
    ELSE IF sealed[n] # "none" THEN "sealed"
    ELSE IF manifest[n] # Absent THEN "opened"
    ELSE "absent"

Lifecycle == INSTANCE RunLifecycle WITH phase <- [n \in Runs |-> Phase(n)]

(* Whatever requests, crashes, drifts and failures interleave, a run goes  *)
(* through opened, sealed, ratified, synthesised in this order, one step   *)
(* at a time, and loses none of it.                                        *)
ImplementsLifecycle == Lifecycle!Spec

(* The 409 corpus-drift check: no decision is recorded, and no candidate   *)
(* stored, for a run whose corpus hash is not the one sealed.              *)
NothingRatifiedOnMovedCorpus ==
    [][\A n \in Runs :
          decisions'[n] # decisions[n] \/ candidates'[n] # candidates[n]
              => manifest[n].hash = sealed[n]]_vars

(* A run whose create died before sealing TRIAGE stays what it is: only a  *)
(* pause, and a resume of that pause, change its state; no submission      *)
(* parks it at AWAIT_MODEL_PROVIDER or drives it on.                       *)
Orphan(n) == /\ manifest[n] # Absent /\ sealed[n] = "none"
             /\ \A r \in Requests : Builds(r) => Run(r) # n
OrphanOnlyPausesAndResumes ==
    [][\A n \in Runs :
          Orphan(n) /\ manifest'[n].state # manifest[n].state
              => \/ manifest'[n].state = "PAUSED"
                 \/ manifest[n].state = "PAUSED" /\ manifest'[n].state = "RUNNING"]_vars

(* One active run in the domain, which the check in create_run_route is    *)
(* there to ensure (RunConflictError, api/errors.py: "An active run already*)
(* exists for the domain").  Two creates at once get past it.              *)
OneActiveRun == \A m, n \in Active : m = n

(* "A repeated key returns the original result rather than acting twice"   *)
(* (api/idempotency.py): at most one batch is recorded in a run's          *)
(* decisions.jsonl under one key.  Not so when the first submission is     *)
(* still being served, or failed after its batch was recorded.             *)
KeyActsOnce ==
    \A n \in Runs : \A i, j \in DOMAIN decisions[n] :
        decisions[n][i].key = decisions[n][j].key /\ decisions[n][i].key # NoKey => i = j

(* ProviderUnavailableError: "Model provider unavailable after retries.    *)
(* Run pauses rather than failing."                                        *)
ProviderFailurePauses ==
    [][\A r \in Requests :
          reply'[r].status = "503" /\ reply[r].status # "503"
              => manifest'[Run(r)].state = "PAUSED"]_vars

(* Every request is answered: no handler waits for a lock that is never    *)
(* released, whatever the others do or raise.                              *)
EveryRequestAnswered ==
    \A r \in Requests : pc[r] # "idle" ~> pc[r] = "done"
=============================================================================
